----------------------------- MODULE KqueuePolicy -----------------------------
(***************************************************************************)
(* sys/kqueue_group/kqueue_policy.rs and kqueue_register.rs: changes to    *)
(* the two filters of one descriptor, where one may fail and the other     *)
(* not, with the cleanup or the rollback that follows a failure and that   *)
(* may fail as well.  Each operator gives the set of ways the call can     *)
(* end: the knotes it leaves and the answer for the mutation machine.      *)
(***************************************************************************)
EXTENDS Kqueue

End(knotes, answer) == [knotes |-> knotes, answer |-> answer]

\* One change for each filter of the interest.
push_interests(d, token, interest, action) ==
    [n \in 1..Len(FiltersOf(interest)) |->
        Change(d, FiltersOf(interest)[n], action, token)]

\* replacement: both filters, the unwanted one deleted.
replacement(d, token, interest, add) ==
    [n \in 1..2 |->
        Change(d, FilterOrder[n],
               IF Wanted(interest, FilterOrder[n]) THEN add ELSE "Delete",
               token)]

Both == {"READABLE", "WRITABLE"}

\* What a submission leaves, and whether all of it is proven to be in effect.
Tried(knotes, changes) ==
    {[knotes |-> Applied(knotes, changes, s.took),
      ok |-> exact(s.native, changes, TRUE)] : s \in Submissions(knotes, changes)}

\* cleanup_interests, and what follows it.
cleanup_interests(knotes, d, interest, ok, failed) ==
    {End(a.knotes, IF a.ok THEN ok ELSE failed) :
        a \in Tried(knotes, push_interests(d, 0, interest, "Delete"))}

\* cleanup: both filters, whichever were asked for.
cleanup(knotes, d, ok, failed) == cleanup_interests(knotes, d, Both, ok, failed)

\* apply_registration_native asks for no receipts: an error may leave any of the
\* filters behind, all of them too when kevent, against expectation, returns
\* output; an interruption leaves all or any, by the system.
apply_registration(knotes, d, token, interest) ==
    LET changes == push_interests(d, token, interest, "AddEnabled")
        all == 1..Len(changes)
        Left(took, ok) == [knotes |-> Applied(knotes, changes, took), ok |-> ok]
    IN  {Left(all, TRUE)}
        \cup {Left(took, FALSE) : took \in SUBSET all}
        \cup {Left(took, classify_apply_error(TRUE) = AppliedWithoutReceipts) :
                 took \in IF InterruptedApplies THEN {all} ELSE SUBSET all}

\* Mutant: only the filters asked for are cleaned up, and nobody looks how.
register_descriptor_Unchecked(knotes, d, token, interest) ==
    UNION {IF a.ok THEN {End(a.knotes, "Success")}
           ELSE cleanup_interests(a.knotes, d, interest, "NotApplied",
                                  "NotApplied") :
               a \in apply_registration(knotes, d, token, interest)}

register_descriptor(knotes, d, token, interest) ==
    UNION {IF a.ok THEN {End(a.knotes, "Success")}
           ELSE cleanup(a.knotes, d, "NotApplied", "Unknown") :
               a \in apply_registration(knotes, d, token, interest)}

\* Mutant: the rollback arms the filters again whatever they were.
restore_action_Armed(arm) == "AddEnabled"

restore_action(arm) == IF arm = "Armed" THEN "AddEnabled" ELSE "AddDisabled"

modify_descriptor(knotes, d, token, interest, arm, desired) ==
    LET changes == replacement(d, token, desired, "AddEnabled")
        prior == replacement(d, token, interest, restore_action(arm))
        Rollback(mid) == {End(b.knotes, IF b.ok THEN "NotApplied" ELSE "Unknown") :
                             b \in Tried(mid, prior)}
    IN  UNION {IF a.ok THEN {End(a.knotes, "Success")} ELSE Rollback(a.knotes) :
                  a \in Tried(knotes, changes)}

exact_interest(interest, state_) ==
    IF state_ = "Uncertain" THEN Both ELSE interest

delete_descriptor(knotes, d, interest, state_) ==
    cleanup_interests(knotes, d, exact_interest(interest, state_),
                      "Success", "Unknown")
==============================================================================
