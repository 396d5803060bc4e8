-------------------------- MODULE KqueueArenaProofs --------------------------
(* The storage of KeventBatch is sound for every pair of capacities.       *)
EXTENDS KqueueArena, TLAPS

\* The counts are honest: the slots below `observed' hold events of the last
\* wait, those below `receipts' receipts of the last submission; and while
\* changes are staged there are neither.
CountsHonest ==
    /\ \A i \in 0..(observed - 1) : cell[i] = "event"
    /\ \A i \in 0..(receipts - 1) : cell[change_capacity + i] = "receipt"
    /\ staged > 0 => observed = 0 /\ receipts = 0

Inv == TypeOK /\ CountsHonest /\ StagedWritten

\* KqueueArena::new leaves room for the events, and for as many receipts as
\* there can be changes.
LEMMA Room ==
    /\ storage_capacity \in Nat
    /\ event_capacity <= storage_capacity
    /\ change_capacity + change_capacity <= storage_capacity
  BY ArenaAssumption DEF storage_capacity

\* Writing a set of slots gives a storage again, and these slots their writer.
LEMMA WrittenType ==
    ASSUME TypeOK, NEW w, NEW what \in Contents
    PROVE  /\ Written(w, what) \in [Storage -> Contents]
           /\ \A i \in Storage : i \in w => Written(w, what)[i] = what
  BY DEF Written, TypeOK, Contents

\* An index is below its count.
LEMMA Below == \A n \in Nat : \A i \in 0..(n - 1) : i \in Nat /\ i < n
  OBVIOUS

\* What kevent is offered lies within the storage.
LEMMA RegionsInStorage ==
    ASSUME NEW count \in 0..change_capacity
    PROVE  /\ 0..(event_capacity - 1) \subseteq Storage
           /\ change_capacity..(change_capacity + count - 1) \subseteq Storage
  BY Room, ArenaAssumption DEF Storage

LEMMA InitInv == Init => Inv
<1>. SUFFICES ASSUME Init PROVE Inv
  OBVIOUS
<1>1. TypeOK
  BY Room, ArenaAssumption DEF Init, TypeOK, Contents, Storage
<1>2. CountsHonest /\ StagedWritten
  BY DEF Init, CountsHonest, StagedWritten
<1>. QED
  BY <1>1, <1>2 DEF Inv

\* Kqueue::wait starts both counts from nothing.
LEMMA WaitInv ==
    ASSUME Inv, NEW returned \in -1..(event_capacity + 1),
           NEW filled \in 0..event_capacity, wait(returned, filled)
    PROVE  Inv'
<1>. USE ArenaAssumption, Room
<1>1. TypeOK
  BY DEF Inv
<1>2. /\ cell' \in [Storage -> Contents]
      /\ \A i \in Storage : i \in 0..(filled - 1) => cell'[i] = "event"
  BY <1>1, WrittenType DEF wait, Contents
<1>3. observed' \in 0..event_capacity /\ receipts' = 0 /\ staged' = 0
  BY DEF wait
<1>4. TypeOK'
  <2>1. /\ 0..(event_capacity - 1) \subseteq Storage
        /\ change_capacity..(change_capacity + staged' - 1) \subseteq Storage
    BY <1>3, RegionsInStorage
  <2>2. 0 \in 0..change_capacity
    OBVIOUS
  <2>. QED
    BY <1>2, <1>3, <2>1, <2>2 DEF TypeOK
<1>5. observed' > 0 => observed' = filled
  BY DEF wait
<1>6. \A i \in 0..(observed' - 1) : cell'[i] = "event"
  <2>. TAKE i \in 0..(observed' - 1)
  <2>0. observed' \in Nat
    BY <1>3
  <2>1. i \in Nat /\ i < observed'
    BY <2>0, Below, Zenon
  <2>4. observed' = filled
    BY <1>5, <2>0, <2>1
  <2>2. filled <= event_capacity /\ event_capacity \in Nat
    OBVIOUS
  <2>3. i \in Storage /\ i \in 0..(filled - 1)
    BY <2>0, <2>1, <2>2, <2>4 DEF Storage
  <2>. QED
    BY <1>2, <2>3
<1>7. CountsHonest'
  <2>1. \A i \in 0..(receipts' - 1) : FALSE
    BY <1>3
  <2>2. ~(staged' > 0)
    BY <1>3
  <2>. QED
    BY <1>6, <2>1, <2>2 DEF CountsHonest
<1>8. StagedWritten'
  BY <1>3 DEF StagedWritten
<1>. QED
  BY <1>4, <1>7, <1>8 DEF Inv

\* KqueueArena::stage forgets events and receipts before it writes over them.
LEMMA StageInv ==
    ASSUME Inv, NEW count \in 1..change_capacity, NEW encoded \in 0..count,
           stage(count, encoded)
    PROVE  Inv'
<1>. USE ArenaAssumption, Room
<1>1. TypeOK
  BY DEF Inv
<1>2. /\ cell' \in [Storage -> Contents]
      /\ \A i \in Storage : i \in 0..(encoded - 1) => cell'[i] = "change"
  BY <1>1, WrittenType DEF stage, Contents
<1>3. /\ observed' = 0 /\ receipts' = 0
      /\ staged' \in 0..change_capacity
      /\ staged' > 0 => staged' = encoded
  BY DEF stage
<1>4. TypeOK'
  <2>1. /\ 0..(event_capacity - 1) \subseteq Storage
        /\ change_capacity..(change_capacity + staged' - 1) \subseteq Storage
    BY <1>3, RegionsInStorage
  <2>2. 0 \in 0..event_capacity /\ 0 \in 0..change_capacity
    OBVIOUS
  <2>. QED
    BY <1>2, <1>3, <2>1, <2>2 DEF TypeOK
<1>5. CountsHonest'
  <2>1. \A i \in 0..(0 - 1) : FALSE
    OBVIOUS
  <2>. QED
    BY <1>3, <2>1 DEF CountsHonest
<1>6. \A i \in 0..(staged' - 1) : i \in Storage /\ cell'[i] = "change"
  <2>. TAKE i \in 0..(staged' - 1)
  <2>0. staged' \in Nat
    BY <1>3
  <2>1. i \in Nat /\ i < staged'
    BY <2>0, Below, Zenon
  <2>4. staged' = encoded
    BY <1>3, <2>0, <2>1
  <2>2. staged' <= change_capacity
    BY <1>3
  <2>3. i \in Storage /\ i \in 0..(encoded - 1)
    BY <2>0, <2>1, <2>2, <2>4 DEF Storage
  <2>. QED
    BY <1>2, <2>3
<1>7. StagedWritten'
  BY <1>6 DEF StagedWritten
<1>. QED
  BY <1>4, <1>5, <1>7 DEF Inv

\* The receipts of a submission do not reach the changes, and are counted only
\* as far as the kernel was offered room.
LEMMA SubmitInv ==
    ASSUME Inv, NEW returned \in -1..(staged + 1), NEW filled \in 0..staged,
           submit_staged_native(returned, filled)
    PROVE  Inv'
<1>. USE ArenaAssumption, Room
<1>1. TypeOK /\ CountsHonest
  BY DEF Inv
<1>2. staged \in 1..change_capacity /\ observed = 0 /\ receipts = 0
  BY <1>1 DEF TypeOK, CountsHonest, submit_staged_native
<1>3. cell' \in [Storage -> Contents]
  BY <1>1 DEF TypeOK, submit_staged_native, Contents
<1>4. observed' = 0 /\ staged' = 0
  BY <1>2 DEF submit_staged_native
<1>5. receipts' \in 0..staged /\ (receipts' > 0 => receipts' = filled)
  BY <1>2 DEF submit_staged_native, record_receipts
<1>6. \A i \in 0..(filled - 1) : cell'[change_capacity + i] = "receipt"
  <2>. TAKE i \in 0..(filled - 1)
  <2>1. /\ change_capacity + i \in Storage
        /\ change_capacity + i \in change_capacity..(change_capacity + filled - 1)
    BY <1>2 DEF Storage
  <2>. QED
    BY <2>1 DEF submit_staged_native
<1>7. TypeOK'
  <2>1. /\ 0..(event_capacity - 1) \subseteq Storage
        /\ change_capacity..(change_capacity + staged' - 1) \subseteq Storage
    BY <1>4, RegionsInStorage
  <2>2. 0 \in 0..event_capacity /\ 0 \in 0..change_capacity
    OBVIOUS
  <2>3. receipts' \in 0..change_capacity
    BY <1>2, <1>5
  <2>. QED
    BY <1>3, <1>4, <2>1, <2>2, <2>3 DEF TypeOK
<1>8. CountsHonest'
  <2>1. \A i \in 0..(0 - 1) : FALSE
    OBVIOUS
  <2>2. ASSUME NEW i \in 0..(receipts' - 1) PROVE i \in 0..(filled - 1)
    <3>1. receipts' \in Nat
      BY <1>2, <1>5
    <3>2. i \in Nat /\ i < receipts'
      BY <3>1, Below, Zenon
    <3>. QED
      BY <1>5, <3>1, <3>2
  <2>. QED
    BY <1>4, <1>6, <2>1, <2>2 DEF CountsHonest
<1>9. StagedWritten'
  BY <1>4 DEF StagedWritten
<1>. QED
  BY <1>7, <1>8, <1>9 DEF Inv

LEMMA NextInv == Inv /\ [Next]_vars => Inv'
<1>. SUFFICES ASSUME Inv, [Next]_vars PROVE Inv'
  OBVIOUS
<1>1. CASE Wait
  BY <1>1, WaitInv DEF Wait
<1>2. CASE Stage
  BY <1>2, StageInv DEF Stage
<1>3. CASE Submit
  BY <1>3, SubmitInv DEF Submit
<1>4. CASE UNCHANGED vars
  <2>1. cell' = cell /\ observed' = observed /\ receipts' = receipts /\ staged' = staged
    BY <1>4 DEF vars
  <2>. QED
    BY <2>1 DEF Inv, TypeOK, CountsHonest, StagedWritten
<1>. QED
  BY <1>1, <1>2, <1>3, <1>4 DEF Next

\* For all capacities, the regions kevent is offered lie within the storage and
\* apart, and the counts stay within them.
THEOREM TypeCorrect == Spec => []TypeOK
<1>1. Inv => TypeOK
  BY DEF Inv
<1>. QED
  BY <1>1, InitInv, NextInv, PTL DEF Spec

\* For all capacities, KeventBatch::event reads only events of the last wait.
THEOREM EventsSafe == Spec => []EventsCurrent
<1>1. ASSUME Inv PROVE EventsCurrent
  <2>. SUFFICES ASSUME NEW index \in 0..event_capacity, event(index, observed)
                PROVE  index \in Storage /\ cell[index] = "event"
    BY DEF EventsCurrent, event
  <2>1. observed \in 0..event_capacity /\ index \in 0..(observed - 1)
    BY <1>1, ArenaAssumption DEF event, Inv, TypeOK
  <2>. QED
    BY <1>1, <2>1, Room, ArenaAssumption DEF Inv, CountsHonest, Storage
<1>. QED
  BY <1>1, InitInv, NextInv, PTL DEF Spec

\* For all capacities, KeventBatch::receipt reads only receipts of the last
\* submission.
THEOREM ReceiptsSafe == Spec => []ReceiptsCurrent
<1>1. ASSUME Inv PROVE ReceiptsCurrent
  <2>. SUFFICES ASSUME NEW index \in 0..change_capacity, receipt(index, receipts)
                PROVE  /\ receipt_slot(index) \in Storage
                       /\ cell[receipt_slot(index)] = "receipt"
    BY DEF ReceiptsCurrent, receipt
  <2>1. receipts \in 0..change_capacity /\ index \in 0..(receipts - 1)
    BY <1>1, ArenaAssumption DEF receipt, Inv, TypeOK
  <2>2. receipt_slot(index) \in Storage
    BY <2>1, Room, ArenaAssumption DEF receipt_slot, Storage
  <2>. QED
    BY <1>1, <2>1, <2>2 DEF Inv, CountsHonest, receipt_slot
<1>. QED
  BY <1>1, InitInv, NextInv, PTL DEF Spec

\* For all capacities, kevent is never given a change that was not written.
THEOREM SubmissionsWritten == Spec => []StagedWritten
<1>1. Inv => StagedWritten
  BY DEF Inv
<1>. QED
  BY <1>1, InitInv, NextInv, PTL DEF Spec
==============================================================================
