----------------------------- MODULE MCKqueuePoll -----------------------------
(* KqueuePoll with small constants, for TLC.                               *)
EXTENDS KqueuePoll, TLC

Readable == {{"READABLE"}}
ReadableOrBoth == {{"READABLE"}, {"READABLE", "WRITABLE"}}

OnlyBoth == {{"READABLE", "WRITABLE"}}

Ready == [eof |-> FALSE, native_error |-> FALSE, fflags |-> FALSE]
Closed == [eof |-> TRUE, native_error |-> FALSE, fflags |-> TRUE]
OnlyReady == {Ready}
ReadyOrClosed == {Ready, Closed}

EveryPlace == Descriptors \X Filters
ReadPlaces == Descriptors \X {"Read"}

\* The descriptors are interchangeable; nothing chooses between them.
Symmetry == Permutations(Descriptors)
==============================================================================
