----------------------------- MODULE KqueueArena -----------------------------
(***************************************************************************)
(* The one allocation that a kqueue poller reuses for everything kevent    *)
(* reads and writes: sys/kqueue_group/kqueue_arena.rs, the counts that     *)
(* KeventBatch keeps beside it (kqueue_batch.rs) and the calls that use it *)
(* (Kqueue::wait, stage_changes, submit_staged_native).                    *)
(*                                                                         *)
(* A wait writes events from the start of the storage.  A submission writes*)
(* its changes there, over the events, and gets its receipts behind them.  *)
(* The slots are MaybeUninit and are read without a check, on the word of  *)
(* `observed' and `receipts'.  A cell is modelled by who wrote it; what a  *)
(* call leaves behind is "old" once the next call has begun.               *)
(***************************************************************************)
EXTENDS Integers

CONSTANTS
    event_capacity,
    change_capacity

ASSUME ArenaAssumption == /\ event_capacity \in Nat \ {0}
                          /\ change_capacity \in Nat

\* KqueueArena::new.
storage_capacity ==
    IF event_capacity > 2 * change_capacity THEN event_capacity
                                            ELSE 2 * change_capacity

Storage == 0..(storage_capacity - 1)
Contents == {"uninit", "old", "event", "change", "receipt"}

VARIABLES
    cell,      \* who wrote each slot of the storage
    observed,  \* KeventBatch::observed
    receipts,  \* KeventBatch::receipts
    staged     \* length of the StagedChanges that is held, or 0

vars == <<cell, observed, receipts, staged>>

\* The storage after the slots in `written' have been written, as `what'.
Written(written, what) ==
    [i \in Storage |->
        IF i \in written THEN what
        ELSE IF cell[i] = "uninit" THEN "uninit" ELSE "old"]

Init ==
    /\ cell = [i \in Storage |-> "uninit"]
    /\ observed = 0
    /\ receipts = 0
    /\ staged = 0

\* Kqueue::wait: kevent fills a prefix and returns its length, or fails having
\* filled some prefix, or claims more than it was offered.
wait(returned, filled) ==
    /\ staged = 0
    /\ returned \in 0..event_capacity => filled = returned
    /\ cell' = Written(0..(filled - 1), "event")
    /\ observed' = IF returned \in 0..event_capacity THEN returned ELSE 0
    /\ receipts' = 0
    /\ UNCHANGED staged

\* Mutant: the events are still counted although changes overwrite them.
stage_KeepsObserved(count, encoded) ==
    /\ staged = 0
    /\ count \in 1..change_capacity
    /\ cell' = Written(0..(encoded - 1), "change")
    /\ receipts' = 0
    /\ staged' = IF encoded = count THEN count ELSE 0
    /\ UNCHANGED observed

\* Mutant: a list that ends early is submitted at its announced length.
stage_Partial(count, encoded) ==
    /\ staged = 0
    /\ count \in 1..change_capacity
    /\ cell' = Written(0..(encoded - 1), "change")
    /\ observed' = 0
    /\ receipts' = 0
    /\ staged' = count

\* KqueueArena::stage within its bounds (otherwise it changes nothing): it fails
\* when a change cannot be encoded, or the iterator has other than count items.
stage(count, encoded) ==
    /\ staged = 0
    /\ count \in 1..change_capacity
    /\ cell' = Written(0..(encoded - 1), "change")
    /\ observed' = 0
    /\ receipts' = 0
    /\ staged' \in IF encoded = count THEN {0, count} ELSE {0}

\* Mutant: the count of receipts is believed.
record_receipts_Unchecked(returned) == returned

\* StagedChanges::record_receipts: what `receipts' becomes.
record_receipts(returned) == IF returned > staged THEN receipts ELSE returned

\* submit_staged_native: the receipts go behind the room for the changes.
submit_staged_native(returned, filled) ==
    /\ staged > 0
    /\ returned \in 0..staged => filled = returned
    /\ cell' = [i \in Storage |->
                    IF i \in change_capacity..(change_capacity + filled - 1)
                    THEN "receipt" ELSE cell[i]]
    /\ receipts' = IF returned >= 0 THEN record_receipts(returned) ELSE receipts
    /\ staged' = 0
    /\ UNCHANGED observed

\* Counts are ints: one below none for an error of kevent, one too many for a
\* kernel that breaks its word.
Wait == \E returned \in -1..(event_capacity + 1), filled \in 0..event_capacity :
            wait(returned, filled)
Stage == \E count \in 1..change_capacity : \E encoded \in 0..count :
            stage(count, encoded)
Submit == \E returned \in -1..(staged + 1), filled \in 0..staged :
            submit_staged_native(returned, filled)

Next == Wait \/ Stage \/ Submit

Spec == Init /\ [][Next]_vars

------------------------------------------------------------------------------
(* Reading.  The caller hands back the count that the call returned.       *)

\* KeventBatch::event: whether it reads event_slot(index).
event(index, count) == count = observed /\ index < count

\* KeventBatch::receipt: whether it reads receipt_slot(index).
receipt(index, returned) == returned = receipts /\ index < returned

receipt_slot(index) == change_capacity + index

------------------------------------------------------------------------------
(* Properties.                                                             *)

\* Every variable has its type, and everything kevent is offered lies within
\* the storage, the changes apart from the receipts.
TypeOK ==
    /\ cell \in [Storage -> Contents]
    /\ observed \in 0..event_capacity
    /\ receipts \in 0..change_capacity
    /\ staged \in 0..change_capacity
    /\ 0..(event_capacity - 1) \subseteq Storage
    /\ change_capacity..(change_capacity + staged - 1) \subseteq Storage

\* No event is read but one the kernel wrote in the last wait, whatever count
\* and index the caller presents: not an uninitialised slot, not an event of an
\* earlier wait, not a change that was staged over it (KeventBatch::event).
EventsCurrent ==
    \A index \in 0..event_capacity, count \in 0..(event_capacity + 1) :
        event(index, count) => index \in Storage /\ cell[index] = "event"

\* The same for the receipts of the last submission (KeventBatch::receipt),
\* although the code hands on a count of receipts that it did not accept.
ReceiptsCurrent ==
    \A index \in 0..change_capacity, returned \in 0..(change_capacity + 1) :
        receipt(index, returned) =>
            receipt_slot(index) \in Storage /\ cell[receipt_slot(index)] = "receipt"

\* What is submitted has been written, all of it, by this stage.
StagedWritten == \A i \in 0..(staged - 1) : i \in Storage /\ cell[i] = "change"
==============================================================================
