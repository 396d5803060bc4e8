----------------------------- MODULE KqueueBatch -----------------------------
(***************************************************************************)
(* What a wait on kqueue does with the batch it observed: pending_kqueue.rs*)
(* (the split filters of a registration become one event, in the order of  *)
(* first observation), kqueue_disarm.rs (one submission disables all the   *)
(* one-shot registrations delivered, and its receipts are reduced to one   *)
(* outcome each) and observe_recovery.rs (the outcomes are checked against *)
(* the delivery and entered in the table).                                 *)
(***************************************************************************)
EXTENDS Kqueue

CONSTANT EventCapacity  \* Poll::event_capacity

ASSUME CapacityAssumption == EventCapacity \in Nat \ {0}

Smaller(m, n) == IF m < n THEN m ELSE n

------------------------------------------------------------------------------
(* KqueuePending: entries in order, and for each slot the place of its     *)
(* entry, counted from 0, or EMPTY.                                        *)

EMPTY == U32Max

pending_new == [entries |-> <<>>, by_slot |-> [i \in Index |-> EMPTY]]

\* Mutant: the entries go and their places stay.
clear_EntriesOnly(p) == [p EXCEPT !.entries = <<>>]

\* Only the slots of the entries are reset, unless an entry is not where
\* by_slot says; then all are.
clear(p) ==
    LET SlotOf(n) == decode(p.entries[n].registration).index
        valid == \A n \in 1..Len(p.entries) :
                    /\ ~DecodesStale(p.entries[n].registration)
                    /\ SlotOf(n) \in Index
                    /\ p.by_slot[SlotOf(n)] = n - 1
        slots == IF valid THEN {SlotOf(n) : n \in 1..Len(p.entries)} ELSE Index
    IN  [entries |-> <<>>,
         by_slot |-> [i \in Index |-> IF i \in slots THEN EMPTY
                                                     ELSE p.by_slot[i]]]

\* Mutant: once the batch is full, further hints of its members are dropped.
add_FullFirst(p, id, key, readiness) ==
    LET i == decode(id).index
        at == p.by_slot[i] + 1
        joined == [p.entries[at] EXCEPT !.readiness = @ \cup readiness]
    IN  IF Len(p.entries) >= EventCapacity THEN p
        ELSE IF p.by_slot[i] # EMPTY
        THEN [p EXCEPT !.entries = [@ EXCEPT ![at] = joined]]
        ELSE [entries |-> Append(p.entries, [registration |-> id, key |-> key,
                                             readiness |-> readiness]),
              by_slot |-> [p.by_slot EXCEPT ![i] = Len(p.entries)]]

\* Whether add returns Error::Invariant.
AddRefused(p, id) ==
    \/ DecodesStale(id)
    \/ decode(id).index \notin Index
    \/ LET at == p.by_slot[decode(id).index]
       IN  /\ at # EMPTY
           /\ \/ at >= Len(p.entries)
              \/ p.entries[at + 1].registration # id

add(p, id, key, readiness) ==
    LET i == decode(id).index
        at == p.by_slot[i] + 1
        joined == [p.entries[at] EXCEPT !.readiness = @ \cup readiness]
    IN  IF p.by_slot[i] # EMPTY
        THEN [p EXCEPT !.entries = [@ EXCEPT ![at] = joined]]
        ELSE IF Len(p.entries) >= EventCapacity THEN p
        ELSE [entries |-> Append(p.entries, [registration |-> id, key |-> key,
                                             readiness |-> readiness]),
              by_slot |-> [p.by_slot EXCEPT ![i] = Len(p.entries)]]

------------------------------------------------------------------------------
(* DisarmBatch: a plan for each one-shot registration to be disabled.      *)

Plan(id, d, interest) ==
    [registration |-> id, descriptor |-> d, interest |-> interest,
     commit |-> "Unknown"]

change_count(plan) == Len(FiltersOf(plan.interest))

\* Plan::change, with the changes of a plan counted from 1.
change(plan, n) ==
    Change(plan.descriptor, FiltersOf(plan.interest)[n], "Disable", 0)

\* How many changes come before those of plan n.
Before(plans) ==
    LET before[n \in 1..(Len(plans) + 1)] ==
            IF n = 1 THEN 0 ELSE before[n - 1] + change_count(plans[n - 1])
    IN  before

change_len(plans) == Before(plans)[Len(plans) + 1]

\* DisarmBatch::push, with the capacities Backend::raw_batch gives it.
plan_capacity == Smaller(EventCapacity, Limit)
PushRefused(plans, interest) ==
    LET required == change_count(Plan(0, None, interest))
    IN  \/ required = 0
        \/ Len(plans) >= plan_capacity
        \/ change_len(plans) + required > 2 * plan_capacity

\* DisarmChanges: the changes of all the plans, one after another.
changes(plans) ==
    LET before == Before(plans)
        PlanOf(c) == CHOOSE n \in 1..Len(plans) :
                        before[n] < c /\ c <= before[n + 1]
    IN  [c \in 1..change_len(plans) |->
            change(plans[PlanOf(c)], c - before[PlanOf(c)])]

\* KeventBatch::receipt: nothing beyond what was returned; an absent filter
\* needs no disabling.
receipt(results, c) ==
    IF c \notin DOMAIN results THEN "Unknown"
    ELSE IF results[c] = "ENOENT" THEN "AlreadyAbsent" ELSE results[c]

\* Mutant: one filter disabled is as good as both.
commit_AnyFilter(answers) ==
    IF \E n \in DOMAIN answers : answers[n] \in {"Applied", "AlreadyAbsent"}
    THEN "Applied"
    ELSE IF \A n \in DOMAIN answers : answers[n] = "errno" THEN "NotApplied"
    ELSE "Unknown"

commit(answers) ==
    IF \A n \in DOMAIN answers : answers[n] \in {"Applied", "AlreadyAbsent"}
    THEN "Applied"
    ELSE IF \A n \in DOMAIN answers : answers[n] = "errno" THEN "NotApplied"
    ELSE "Unknown"

fill_outcomes(plans, status) ==
    [n \in 1..Len(plans) |-> [plans[n] EXCEPT !.commit = status]]

\* More receipts than changes prove nothing.
Surplus(plans, results) == Len(results) > change_len(plans)

reduce_receipts(plans, results) ==
    IF Surplus(plans, results) THEN fill_outcomes(plans, "Unknown")
    ELSE [n \in 1..Len(plans) |->
            [plans[n] EXCEPT !.commit = commit(
                [k \in 1..change_count(plans[n]) |->
                    receipt(results, Before(plans)[n] + k)])]]

\* DisarmBatch::submit: the outcomes, and whether it returns an error.
submit(plans, native) ==
    CASE native.kind = "AppliedWithoutReceipts" ->
            [plans |-> fill_outcomes(plans, "Applied"), failed |-> FALSE]
      [] native.kind = "Unknown" ->
            [plans |-> fill_outcomes(plans, "Unknown"), failed |-> TRUE]
      [] native.kind = "Receipts" ->
            [plans |-> reduce_receipts(plans, native.results),
             failed |-> \/ Surplus(plans, native.results)
                        \/ \E c \in 1..change_len(plans) :
                              receipt(native.results, c)
                                  \notin {"Applied", "AlreadyAbsent"}]

------------------------------------------------------------------------------
(* observe_recovery.rs.  Positions are matched by order: the n-th one-shot *)
(* registration delivered has the n-th outcome.                            *)

Delivered(entries, delivered) == SubSeq(entries, 1, delivered)

\* The places of the one-shot registrations among them.
OneShots(t, entries) ==
    Chosen(Len(entries),
           {n \in 1..Len(entries) :
               entry(t, entries[n].registration).mode = "OneShot"})

\* Whether validate lets the batch through.
validate(t, entries, plans, failed) ==
    LET shots == OneShots(t, entries)
        Id(n) == entries[shots[n]].registration
    IN  /\ \A n \in 1..Len(entries) :
               binding(t, entries[n].registration, FALSE) = "Ok"
        /\ \A n \in 1..Len(shots) : entry(t, Id(n)).state = "Armed"
        /\ Len(plans) = Len(shots)
        /\ \A n \in 1..Len(shots) : plans[n].registration = Id(n)
        /\ failed = \E n \in 1..Len(plans) : plans[n].commit # "Applied"

\* RecoveryOutcome::state.
OutcomeState(status) ==
    CASE status = "Applied"    -> "Disarmed"
      [] status = "NotApplied" -> "Armed"
      [] status = "Unknown"    -> "Uncertain"

\* Mutant: the loop stops one outcome short.
Disarmed_SkipsLast(t, plans) ==
    LET Enter(u, plan) ==
            apply_disarm(u, decode(plan.registration).index, plan.commit)
        after[n \in 0..Len(plans)] ==
            IF n <= 1 THEN t ELSE Enter(after[n - 1], plans[n - 1])
    IN  [table |-> after[Len(plans)], failed |-> FALSE]

\* The outcomes are entered one by one, until apply_disarm refuses one or
\* establishes another state than the outcome says.
Entered(acc, plan) ==
    LET i == decode(plan.registration).index
        u == apply_disarm(acc.table, i, plan.commit)
    IN  CASE acc.failed -> acc
          [] ~acc.failed /\ DisarmRefused(acc.table, i) ->
                [acc EXCEPT !.failed = TRUE]
          [] ~acc.failed /\ ~DisarmRefused(acc.table, i) ->
                [table  |-> u,
                 failed |-> u.slots[i].entry.state # OutcomeState(plan.commit)]

Disarmed(t, plans) ==
    LET after[n \in 0..Len(plans)] ==
            IF n = 0 THEN [table |-> t, failed |-> FALSE]
                     ELSE Entered(after[n - 1], plans[n])
    IN  after[Len(plans)]
==============================================================================
