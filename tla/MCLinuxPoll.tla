----------------------------- MODULE MCLinuxPoll -----------------------------
(* LinuxPoll with small constants, for TLC.                                *)
EXTENDS LinuxPoll, TLC

Readable == {{"READABLE"}}
ReadableOrWritable == {{"READABLE"}, {"READABLE", "WRITABLE"}}

\* The descriptors are interchangeable; nothing chooses between them.
Symmetry == Permutations(Descriptors)
==============================================================================
