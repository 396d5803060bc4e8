--------------------------- MODULE MCModelSequence ---------------------------
(* ModelSequence with small constants, for TLC.                            *)
EXTENDS ModelSequence

\* Not used by the sequences, which draw their own.
Readable == {{"READABLE"}}
==============================================================================
