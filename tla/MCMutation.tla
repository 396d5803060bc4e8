------------------------------ MODULE MCMutation ------------------------------
(* Mutation with small constants, for TLC.                                 *)
EXTENDS Mutation

\* With one interest and one mode only the arm of a one-shot registration that
\* was delivered tells a modify that took effect from one that did not; the
\* programs of MCModelSequence vary both.  {} is the interest every call refuses.
OneInterest == {{}, {"READABLE"}}
==============================================================================
