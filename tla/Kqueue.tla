-------------------------------- MODULE Kqueue --------------------------------
(***************************************************************************)
(* One submission of changes to a kqueue, as sys/kqueue_group/ makes it    *)
(* and reads the answer: kqueue_change.rs, kqueue_codec.rs, kqueue.rs and  *)
(* the check of receipts in kqueue_policy.rs.                              *)
(*                                                                         *)
(* A knote sits at a place, an ident with a filter.  The kernel is modelled*)
(* by what the code expects of kevent(2): each change of a list takes      *)
(* effect or not, and the answer says so, or says nothing, per change.     *)
(***************************************************************************)
EXTENDS RegistrationTable, Lists

CONSTANTS
    InterruptedApplies,  \* target_applies_interrupted_changes()
    Lost                 \* a knote the kernel dropped by itself

ASSUME TargetAssumption == InterruptedApplies \in BOOLEAN

\* Filter::Read and Filter::Write; the user filter is the wake.
Filters == {"Read", "Write"}
UserPlace == <<0, "User">>
Places == (Descriptors \X Filters) \cup {UserPlace}

\* The order in which push_interests and replacement list the filters.
FilterOrder == <<"Read", "Write">>
Wanted(interest, filter) ==
    IF filter = "Read" THEN "READABLE" \in interest ELSE "WRITABLE" \in interest

\* The filters of an interest, in that order.
FiltersOf(interest) == Only(FilterOrder, {f \in Filters : Wanted(interest, f)})

Knote == [token : Nat, enabled : BOOLEAN]
ASSUME LostAssumption == {None, Lost} \cap Knote = {}
Absent(k) == k = None \/ k = Lost

Change(ident, filter, action, token) ==
    [place |-> <<ident, filter>>, action |-> action, token |-> token]

\* What a change that takes effect makes of knote k.  The kernel also copies
\* udata from a change that only disables, and the code passes 0 there.
After(k, change) ==
    CASE change.action = "AddEnabled" ->
            [token |-> change.token, enabled |-> TRUE]
      [] change.action = "AddDisabled" ->
            [token |-> change.token, enabled |-> FALSE]
      [] change.action = "Delete" -> None
      [] change.action = "Disable" ->
            [token |-> change.token, enabled |-> FALSE]
      [] OTHER -> k

\* The changes of one list are about different places.
Applied(knotes, changes, took) ==
    [p \in DOMAIN knotes |->
        IF \E n \in took : changes[n].place = p
        THEN After(knotes[p], changes[CHOOSE n \in took : changes[n].place = p])
        ELSE knotes[p]]

------------------------------------------------------------------------------
(* Answers.                                                                *)

Receipts(results) == [kind |-> "Receipts", results |-> results]
AppliedWithoutReceipts == [kind |-> "AppliedWithoutReceipts", results |-> <<>>]
Unknown == [kind |-> "Unknown", results |-> <<>>]

classify_apply_error(interrupted) ==
    IF interrupted /\ InterruptedApplies THEN AppliedWithoutReceipts ELSE Unknown

\* decode_receipt: what a returned entry proves.  "Unknown" is an entry that
\* names another place, lacks EV_ERROR or carries no proper code.
FilterApply == {"Applied", "ENOENT", "errno", "Unknown"}

\* A change can take effect on a knote that is there, or that it adds.
CanTake(knotes, changes) ==
    {n \in 1..Len(changes) :
        \/ changes[n].action \notin {"Delete", "Disable"}
        \/ ~Absent(knotes[changes[n].place])}

\* The receipts when the changes `took' were applied: the first `returned' of
\* them, true except for those in `garbled', which prove nothing.
Returned(knotes, changes, took, returned, garbled) ==
    [n \in 1..returned |->
        IF n \in garbled THEN "Unknown"
        ELSE IF n \in took THEN "Applied"
        ELSE IF n \in CanTake(knotes, changes) THEN "errno" ELSE "ENOENT"]

\* submit_native: a receipt for each change or, against expectation, for fewer
\* or one too many; an interruption, after which the changes have all been
\* applied or are not known to be, by the system; another error, which proves
\* nothing.
Submissions(knotes, changes) ==
    LET can == CanTake(knotes, changes)
        len == Len(changes)
    IN  (UNION {{[took |-> took,
                  native |-> Receipts(Returned(knotes, changes, took, n, g))] :
                     took \in SUBSET can, g \in SUBSET (1..n)} : n \in 0..len})
        \cup {[took |-> took,
               native |-> Receipts(Returned(knotes, changes, took, len + 1, {}))] :
                 took \in SUBSET can}
        \cup {[took |-> took, native |-> Unknown] : took \in SUBSET can}
        \cup {[took |-> took, native |-> classify_apply_error(TRUE)] :
                 took \in IF InterruptedApplies THEN {can} ELSE SUBSET can}

Failure(change, r, ignore_missing_delete) ==
    /\ r # "Applied"
    /\ ~(r = "ENOENT" /\ ignore_missing_delete /\ change.action = "Delete")

\* exact over Kqueue::apply: every change is proven to be in effect.
exact(native, changes, ignore_missing_delete) ==
    \/ native.kind = "AppliedWithoutReceipts"
    \/ /\ native.kind = "Receipts"
       /\ Len(native.results) = Len(changes)
       /\ \A n \in 1..Len(changes) :
              ~Failure(changes[n], native.results[n], ignore_missing_delete)
==============================================================================
