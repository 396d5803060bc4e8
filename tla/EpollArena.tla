------------------------------ MODULE EpollArena ------------------------------
(***************************************************************************)
(* EpollBatch of sys/linux_group/epoll.rs: epoll_wait writes its native    *)
(* records into the tail of the caller's Event storage, and translate      *)
(* turns them in place into portable events that grow from the head.  An   *)
(* event is at least as large as a record, so the head runs into the tail  *)
(* while it is still being read.                                           *)
(*                                                                         *)
(* Bytes are modelled by who last wrote them: `raw' holds the records that *)
(* are still as the kernel left them, `written' the event slots that hold  *)
(* an event of this batch.                                                 *)
(***************************************************************************)
EXTENDS Integers

CONSTANTS
    Capacity,    \* events the batch is built for, and max_events
    EventSize,   \* size_of::<Event>()
    NativeSize   \* size_of::<libc::epoll_event>()

\* EpollBatch::new refuses other layouts.
ASSUME CapacityAssumption == Capacity \in Nat \ {0}
ASSUME LayoutAssumption == /\ NativeSize \in Nat \ {0}
                           /\ EventSize \in Nat
                           /\ NativeSize <= EventSize

VARIABLES
    pc,         \* "idle", "staged" after epoll_wait, "translating"
    observed,   \* records the kernel wrote
    source,     \* the next record to read
    resources,  \* resource events written
    woke,       \* the wake was among the records
    len,        \* the committed length of the caller's Vec
    raw,        \* records whose bytes are intact
    written     \* slots that hold an event of this batch

vars == <<pc, observed, source, resources, woke, len, raw, written>>

\* Mutant: the records are written from the head of the storage.
native_offset_Head == 0

native_offset == Capacity * (EventSize - NativeSize)

\* Byte ranges, from the first byte to the one after the last.
SlotEnd(k) == (k + 1) * EventSize
RecordStart(s) == native_offset + s * NativeSize

\* Writing an event to slot k, which starts at k * EventSize, leaves the records
\* that lie wholly before or wholly after it.
Surviving(k) ==
    {s \in raw : \/ SlotEnd(k) <= RecordStart(s)
                 \/ RecordStart(s) + NativeSize <= k * EventSize}

Write(k) == raw' = Surviving(k) /\ written' = written \cup {k}

Init ==
    /\ pc = "idle"
    /\ observed = 0
    /\ source = 0
    /\ resources = 0
    /\ woke = FALSE
    /\ len = 0
    /\ raw = {}
    /\ written = {}

\* Poll::wait clears the destination, then the kernel fills n records.
wait(n) ==
    /\ pc = "idle"
    /\ pc' = "staged"
    /\ observed' = n
    /\ len' = 0
    /\ raw' = 0..(n - 1)
    /\ written' = {}
    /\ UNCHANGED <<source, resources, woke>>

\* epoll_wait fails: the batch stays invalidated.
WaitError ==
    /\ pc = "idle"
    /\ observed' = 0
    /\ len' = 0
    /\ raw' = {}
    /\ written' = {}
    /\ UNCHANGED <<pc, source, resources, woke>>

translate ==
    /\ pc = "staged"
    /\ pc' = "translating"
    /\ source' = 0
    /\ resources' = 0
    /\ woke' = FALSE
    /\ UNCHANGED <<observed, len, raw, written>>

Reading == pc = "translating" /\ source < observed

\* The record has token 0.
ReadWake ==
    /\ Reading
    /\ woke' = TRUE
    /\ source' = source + 1
    /\ UNCHANGED <<pc, observed, resources, len, raw, written>>

\* classify finds no registration for the token.
ReadSkipped ==
    /\ Reading
    /\ source' = source + 1
    /\ UNCHANGED <<pc, observed, resources, woke, len, raw, written>>

\* Mutant: the event takes the slot of the record, and leaves holes.
ReadResource_NotCompacted ==
    /\ Reading
    /\ Write(source)
    /\ resources' = resources + 1
    /\ source' = source + 1
    /\ UNCHANGED <<pc, observed, woke, len>>

ReadResource ==
    /\ Reading
    /\ Write(resources)
    /\ resources' = resources + 1
    /\ source' = source + 1
    /\ UNCHANGED <<pc, observed, woke, len>>

\* classify fails: nothing is committed.
ClassifyFails ==
    /\ Reading
    /\ pc' = "idle"
    /\ UNCHANGED <<observed, source, resources, woke, len, raw, written>>

\* The wake event, if there is one and it has a key, and set_len.
Finish(keyed) ==
    /\ pc = "translating" /\ source = observed
    /\ IF woke /\ keyed
       THEN Write(resources) /\ len' = resources + 1
       ELSE UNCHANGED <<raw, written>> /\ len' = resources
    /\ pc' = "idle"
    /\ UNCHANGED <<observed, source, resources, woke>>

Next ==
    \/ \E n \in 0..Capacity : wait(n)
    \/ WaitError
    \/ translate
    \/ ReadWake \/ ReadSkipped \/ ReadResource
    \/ ClassifyFails
    \/ \E keyed \in BOOLEAN : Finish(keyed)

Spec == Init /\ [][Next]_vars

------------------------------------------------------------------------------
(* Properties.                                                             *)

\* No event is written over a record that has yet to be read: the safety
\* argument of translate ("this write ends before the next raw record").
UnreadIntact ==
    pc \in {"staged", "translating"} =>
        \A s \in 0..(observed - 1) :
            pc = "staged" \/ source <= s => s \in raw

\* Every committed event was written in this batch: set_len exposes no record
\* and no stale event.
CommittedWritten == \A k \in 0..(len - 1) : k \in written

\* Every write stays inside the storage of `Capacity' events.
InBounds == \A k \in written : SlotEnd(k) <= Capacity * EventSize

------------------------------------------------------------------------------
(* The inductive invariant behind them.                                    *)

TypeOK ==
    /\ pc \in {"idle", "staged", "translating"}
    /\ observed \in 0..Capacity
    /\ source \in Nat
    /\ resources \in Nat
    /\ woke \in BOOLEAN
    /\ len \in Nat
    /\ raw \subseteq Nat
    /\ written \subseteq Nat

\* The head never overtakes the tail, and keeps room for the wake.
HeadBehind ==
    pc = "translating" =>
        /\ source <= observed
        /\ resources <= source
        /\ woke => resources < source

\* While translating, the slots written are exactly those below `resources'.
HeadWritten == pc = "translating" =>
                   /\ len = 0
                   /\ \A k \in written : k < resources
                   /\ \A k \in 0..(resources - 1) : k \in written

StagedEmpty == pc = "staged" => len = 0 /\ written = {}
WrittenBounded == \A k \in written : k < Capacity

Inv == /\ TypeOK
       /\ HeadBehind
       /\ HeadWritten
       /\ CommittedWritten
       /\ StagedEmpty
       /\ WrittenBounded
       /\ UnreadIntact
==============================================================================
