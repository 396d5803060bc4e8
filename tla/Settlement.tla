------------------------------ MODULE Settlement ------------------------------
(***************************************************************************)
(* How src/mutation/ settles a reservation or a lease on a slot once the   *)
(* backend has answered.  The answer is "Success" or the commit status of  *)
(* a failure: NotApplied (nothing changed), Applied (it took effect all    *)
(* the same) or Unknown.  The machines over any driver (Mutation), over    *)
(* epoll (LinuxPoll) and over kqueue (KqueuePoll) settle alike.            *)
(***************************************************************************)
EXTENDS RegistrationTable

Outcomes == {"Success"} \cup CommitStatus

\* register_descriptor takes the reused path whenever a slot is free.
Permit(t) == IF has_reusable_slot(t) THEN ReusedPermit(t) ELSE FreshPermit(t)
PermitStatus(t) ==
    IF has_reusable_slot(t) THEN reused_permit(t) ELSE fresh_permit(t)
reserve_with(t, e) ==
    IF has_reusable_slot(t) THEN reserve_reused(t, e) ELSE reserve_fresh(t, e)

\* Mutant: an unknown registration is given up like one that failed cleanly.
SettledRegister_UnknownRetired(t, i, outcome) ==
    IF outcome \in {"Success", "Applied"} THEN t ELSE retire(t, i)

\* settle_register_failure, and keep after success.
SettledRegister(t, i, outcome) ==
    CASE outcome \in {"Success", "Applied"} -> t
      [] outcome = "NotApplied"             -> retire(t, i)
      [] outcome = "Unknown"                -> mark_uncertain(t, i)

\* Mutant: a failed modification is recorded although it was rolled back.
SettledModify_FailureCommitted(t, i, interest, mode, outcome) ==
    IF outcome = "Unknown" THEN mark_uncertain(t, i)
                           ELSE commit_modify(t, i, interest, mode)

SettledModify(t, i, interest, mode, outcome) ==
    CASE outcome \in {"Success", "Applied"} -> commit_modify(t, i, interest, mode)
      [] outcome = "NotApplied"             -> t
      [] outcome = "Unknown"                -> mark_uncertain(t, i)

SettledDelete(t, i, outcome) ==
    CASE outcome \in {"Success", "Applied"} -> retire(t, i)
      [] outcome = "NotApplied"             -> t
      [] outcome = "Unknown"                -> mark_uncertain(t, i)
==============================================================================
