-------------------------- MODULE RegistrationTable --------------------------
(***************************************************************************)
(* src/table.rs, table_slot.rs, table_reserve.rs, table_retire.rs: the     *)
(* fixed table of registration slots with its intrusive free list.         *)
(*                                                                         *)
(* A table is a value here, and every method of RegistrationTable is an    *)
(* operator from a table to a table, so that the portable mutation machine *)
(* and the backends can share them.  A permit, a reservation and a lease   *)
(* are exclusive borrows of the table: nothing can run between taking one  *)
(* and settling it except the single backend call the caller makes.        *)
(***************************************************************************)
EXTENDS Token, FiniteSets

CONSTANTS
    Limit,        \* registration capacity the poller was built with
    Descriptors,  \* raw descriptor numbers an entry may retain
    Keys,         \* caller-chosen keys
    None          \* Option::None

Interests == SUBSET {"READABLE", "WRITABLE"}
Modes == {"Level", "OneShot"}

\* What an event may say of a resource, any combination.
Readiness == SUBSET {"READABLE", "WRITABLE", "READ_CLOSED", "WRITE_CLOSED",
                     "ERROR"}

\* RegistrationState: Registered{Armed}, Registered{Disarmed}, Uncertain.
RegistrationStates == {"Armed", "Disarmed", "Uncertain"}

CommitStatus == {"NotApplied", "Applied", "Unknown"}

Entry == [descriptor : Descriptors, key : Keys, interest : Interests,
          mode : Modes, state : RegistrationStates]

\* RegistrationTable::new refuses a limit above MAX_REGISTRATIONS.
ASSUME LimitAssumption == Limit \in 1..MAX_REGISTRATIONS
ASSUME NoneAssumption == None \notin Entry

FREE_END == U32Max
Index == 0..(Limit - 1)

Slot == [generation : 0..U32Max, entry : Entry \cup {None},
         next_free : 0..U32Max]

\* `slots' is a Vec that only grows: the indices from `len' on are not pushed
\* yet and hold no slot; Unpushed stands for them.
Table == [slots : [Index -> Slot], len : 0..Limit, free_head : 0..U32Max,
          exhausted : 0..Limit]

Unpushed == [generation |-> 0, entry |-> None, next_free |-> FREE_END]

new == [slots     |-> [i \in Index |-> Unpushed],
        len       |-> 0,
        free_head |-> FREE_END,
        exhausted |-> 0]

registered(descriptor, key, interest, mode) ==
    [descriptor |-> descriptor, key |-> key, interest |-> interest,
     mode |-> mode, state |-> "Armed"]

------------------------------------------------------------------------------
(* Lookup: entry, entry_with_index and entry_mut answer Stale unless the   *)
(* token's slot was pushed, is at the token's generation and is occupied.  *)

\* Mutant: the lookup does not compare generations.
Occupied_AnyGeneration(t, at) ==
    at.index < t.len /\ t.slots[at.index].entry # None

Occupied(t, at) ==
    /\ at.index < t.len
    /\ t.slots[at.index].generation = at.generation
    /\ t.slots[at.index].entry # None

IsLive(t, id) == ~DecodesStale(id) /\ Occupied(t, decode(id))

entry(t, id) == t.slots[decode(id).index].entry

\* binding(id, allow_uncertain): the error it returns, or "Ok".
binding(t, id, allow_uncertain) ==
    IF ~IsLive(t, id) THEN "Stale"
    ELSE IF ~allow_uncertain /\ entry(t, id).state = "Uncertain"
         THEN "Uncertain"
         ELSE "Ok"

\* prepare_retire_at, reached with the parts of an encoded id.
prepare_registration_retire(t, id, allow_uncertain) ==
    IF ~Occupied(t, parts(id)) THEN "Stale"
    ELSE IF /\ ~allow_uncertain
            /\ t.slots[parts(id).index].entry.state = "Uncertain"
         THEN "Uncertain"
         ELSE "Ok"

\* state(id): the registration's state, or "Stale".
state(t, id) == IF IsLive(t, id) THEN entry(t, id).state ELSE "Stale"

\* resolve(token): whether a native record may become an event.
Resolves(t, token) == IsLive(t, token) /\ entry(t, token).state # "Uncertain"

------------------------------------------------------------------------------
(* Reservation.                                                            *)

has_reusable_slot(t) == t.free_head # FREE_END

fresh_permit(t) ==
    CASE has_reusable_slot(t) -> "Invariant"
      [] ~has_reusable_slot(t) /\ t.len < Limit ->
            IF Encodable(t.len) THEN "Ok" ELSE "RegistrationSpaceExhausted"
      [] ~has_reusable_slot(t) /\ ~(t.len < Limit) ->
            IF t.exhausted = Limit THEN "RegistrationSpaceExhausted"
                                   ELSE "Capacity"

reused_permit(t) ==
    IF \/ t.free_head = FREE_END
       \/ ~(t.free_head < t.len)
       \/ t.slots[t.free_head].entry # None
       \/ t.slots[t.free_head].generation = MAX_GENERATION
    THEN "Invariant"
    ELSE IF Encodable(t.free_head) THEN "Ok" ELSE "RegistrationSpaceExhausted"

\* The slot and the generation a successful permit has encoded.
FreshPermit(t) == [index |-> t.len, generation |-> 1]
\* Mutant: the id is encoded with the generation the slot had before.
ReusedPermit_OldGeneration(t) ==
    [index |-> t.free_head, generation |-> t.slots[t.free_head].generation]

ReusedPermit(t) == [index      |-> t.free_head,
                    generation |-> t.slots[t.free_head].generation + 1]

\* FreshPermit::reserve_with up to the backend call: push, then insert.
reserve_fresh(t, e) ==
    [t EXCEPT !.slots = [@ EXCEPT ![t.len] =
                            [generation |-> 1, entry |-> e,
                             next_free |-> FREE_END]],
              !.len = @ + 1]

\* Mutant: the generation is not advanced on reuse.
reserve_reused_SameGeneration(t, e) ==
    [t EXCEPT !.free_head = t.slots[t.free_head].next_free,
              !.slots = [@ EXCEPT ![t.free_head] = [@ EXCEPT !.entry = e]]]

\* Mutant: the slot is occupied but stays at the head of the free list.
reserve_reused_NotPopped(t, e) ==
    [t EXCEPT !.slots = [@ EXCEPT ![t.free_head] =
                            [@ EXCEPT !.entry = e, !.generation = @ + 1]]]

\* ReusedPermit::reserve_with up to the backend call: occupy, pop the free
\* list, advance the generation.  The popped slot keeps its old next_free.
reserve_reused(t, e) ==
    LET i == t.free_head
    IN  [t EXCEPT !.free_head = t.slots[i].next_free,
                  !.slots = [@ EXCEPT ![i] =
                                [generation |-> t.slots[i].generation + 1,
                                 entry |-> e,
                                 next_free |-> t.slots[i].next_free]]]

------------------------------------------------------------------------------
(* Settlement of a lease on slot i, and changes to a live entry.           *)

\* Mutant: a slot at the last generation goes back to the free list.
retire_AlwaysReused(t, i) ==
    [t EXCEPT !.slots = [@ EXCEPT ![i] = [@ EXCEPT !.entry = None,
                                                   !.next_free = t.free_head]],
              !.free_head = i]

\* Mutant: a slot retired for good is not counted.
retire_NotCounted(t, i) ==
    IF t.slots[i].generation = MAX_GENERATION
    THEN [t EXCEPT !.slots = [@ EXCEPT ![i] = [@ EXCEPT !.entry = None]]]
    ELSE retire_AlwaysReused(t, i)

\* SlotLease::retire: a slot at the last generation is never reused.
retire(t, i) ==
    IF t.slots[i].generation = MAX_GENERATION
    THEN [t EXCEPT !.slots = [@ EXCEPT ![i] =
                                [generation |-> MAX_GENERATION, entry |-> None,
                                 next_free |-> FREE_END]],
                   !.exhausted = @ + 1]
    ELSE [t EXCEPT !.slots = [@ EXCEPT ![i] =
                                [generation |-> t.slots[i].generation,
                                 entry |-> None, next_free |-> t.free_head]],
                   !.free_head = i]

\* entry_mut(id) followed by an assignment of the whole entry.
SetEntry(t, i, e) ==
    [t EXCEPT !.slots = [@ EXCEPT ![i] =
                            [generation |-> t.slots[i].generation, entry |-> e,
                             next_free |-> t.slots[i].next_free]]]

mark_uncertain(t, i) ==
    SetEntry(t, i, [t.slots[i].entry EXCEPT !.state = "Uncertain"])

\* Mutant: a modification does not rearm a delivered one-shot registration.
commit_modify_NotRearmed(t, i, interest, mode) ==
    SetEntry(t, i, [t.slots[i].entry EXCEPT !.interest = interest,
                                            !.mode = mode])

\* Mutant: the interest that was replaced stays on record.
commit_modify_InterestKept(t, i, interest, mode) ==
    SetEntry(t, i, [t.slots[i].entry EXCEPT !.mode = mode, !.state = "Armed"])

commit_modify(t, i, interest, mode) ==
    SetEntry(t, i, [t.slots[i].entry EXCEPT !.interest = interest,
                                            !.mode = mode,
                                            !.state = "Armed"])

\* apply_disarm refuses anything but an armed one-shot registration.
DisarmRefused(t, i) ==
    \/ t.slots[i].entry.mode # "OneShot"
    \/ t.slots[i].entry.state # "Armed"

apply_disarm(t, i, commit) ==
    SetEntry(t, i, [t.slots[i].entry EXCEPT
                        !.state = CASE commit = "Applied"    -> "Disarmed"
                                    [] commit = "NotApplied" -> @
                                    [] commit = "Unknown"    -> "Uncertain"])

------------------------------------------------------------------------------
(* What the fields of a table say together.                                *)

\* A slot that can be reused, and one whose last generation has been retired.
Vacant(t, i) == /\ i < t.len
                /\ t.slots[i].entry = None
                /\ t.slots[i].generation # MAX_GENERATION
Spent(t, i) == /\ i < t.len
               /\ t.slots[i].entry = None
               /\ t.slots[i].generation = MAX_GENERATION

\* `at' lists the free list from its end to its head.
IsFreeStack(t, n, at) ==
    /\ \A k \in 1..n : /\ Vacant(t, at[k])
                       /\ t.slots[at[k]].next_free =
                              IF k = 1 THEN FREE_END ELSE at[k - 1]
    /\ \A j, k \in 1..n : at[j] = at[k] => j = k
    /\ \A i \in Index : Vacant(t, i) => \E k \in 1..n : at[k] = i
    /\ t.free_head = IF n = 0 THEN FREE_END ELSE at[n]

HasFreeStack(t) ==
    \E n \in 0..Limit : \E at \in [1..n -> Index] : IsFreeStack(t, n, at)

\* Only pushed slots have a generation, and it starts at 1.
SlotsPushed(t) ==
    \A i \in Index : IF i < t.len THEN t.slots[i].generation \in 1..U32Max
                                  ELSE t.slots[i] = Unpushed

SpentSlots(t) == {i \in Index : Spent(t, i)}

ExhaustedCounted(t) == t.exhausted = Cardinality(SpentSlots(t))

TableInv(t) == /\ t \in Table
               /\ SlotsPushed(t)
               /\ HasFreeStack(t)
               /\ ExhaustedCounted(t)
==============================================================================
