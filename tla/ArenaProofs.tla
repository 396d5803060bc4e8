----------------------------- MODULE ArenaProofs -----------------------------
(* The arena of EpollBatch is sound for every capacity and every layout    *)
(* that EpollBatch::new accepts.                                           *)
EXTENDS EpollArena, TLAPS

\* Products are monotone.
LEMMA ProductMonotone ==
    ASSUME NEW a \in Nat, NEW b \in Nat, NEW c \in Nat, a <= b
    PROVE  a * c <= b * c
<1>1. PICK d \in Nat : b = a + d
  BY SMT
<1>2. (a + d) * c = a * c + d * c
  BY SMT
<1>3. d * c \in Nat /\ a * c \in Nat
  BY SMT
<1>. QED
  BY <1>1, <1>2, <1>3

\* The comment of translate: an event written to a slot at or below the record
\* just read ends before the next record.
LEMMA WriteEndsBeforeNext ==
    ASSUME NEW k \in Nat, NEW s \in Nat, k < s, s <= Capacity
    PROVE  SlotEnd(k) <= RecordStart(s)
<1>. DEFINE gap == EventSize - NativeSize
<1>1. gap \in Nat /\ EventSize = gap + NativeSize
  BY LayoutAssumption
<1>2. Capacity \in Nat /\ NativeSize \in Nat /\ EventSize \in Nat
  BY CapacityAssumption, LayoutAssumption
<1>3. (k + 1) * EventSize <= s * EventSize
  BY <1>2, ProductMonotone
<1>4. s * gap <= Capacity * gap
  BY <1>1, <1>2, ProductMonotone
<1>5. s * EventSize = s * gap + s * NativeSize
  BY <1>1, <1>2, SMT
<1>6. /\ s * gap \in Nat /\ Capacity * gap \in Nat /\ s * NativeSize \in Nat
      /\ (k + 1) * EventSize \in Nat /\ s * EventSize \in Nat
  BY <1>1, <1>2, SMT
<1>7. SlotEnd(k) = (k + 1) * EventSize
  BY DEF SlotEnd
<1>8. RecordStart(s) = Capacity * gap + s * NativeSize
  BY DEF RecordStart, native_offset
<1>. HIDE DEF gap
<1>. QED
  BY <1>3, <1>4, <1>5, <1>6, <1>7, <1>8

\* The invariant holds initially and every step preserves it.
THEOREM Invariance == Spec => []Inv
<1>1. Init => Inv
  <2>. SUFFICES ASSUME Init PROVE Inv
    OBVIOUS
  <2>. USE CapacityAssumption DEF Init
  <2>1. TypeOK
    <3>1. woke \in BOOLEAN
      BY Zenon
    <3>2. 0 \in 0..Capacity
      BY SMT
    <3>. QED
      BY <3>1, <3>2, Zenon DEF TypeOK
  <2>2. HeadBehind /\ HeadWritten /\ StagedEmpty /\ UnreadIntact
    BY DEF HeadBehind, HeadWritten, StagedEmpty, UnreadIntact
  <2>3. CommittedWritten /\ WrittenBounded
    BY DEF CommittedWritten, WrittenBounded
  <2>. QED
    BY <2>1, <2>2, <2>3 DEF Inv
<1>2. Inv /\ [Next]_vars => Inv'
  <2>. SUFFICES ASSUME Inv, [Next]_vars PROVE Inv'
    OBVIOUS
  <2>. USE CapacityAssumption
       DEF Inv, TypeOK, HeadBehind, HeadWritten, CommittedWritten, StagedEmpty,
           WrittenBounded, UnreadIntact
  <2>1. ASSUME NEW n \in 0..Capacity, wait(n) PROVE Inv'
    BY <2>1 DEF wait
  <2>2. CASE WaitError
    BY <2>2 DEF WaitError
  <2>3. CASE translate
    <3>1. TypeOK'
      BY <2>3 DEF translate
    <3>2. HeadBehind'
      BY <2>3 DEF translate
    <3>3. HeadWritten'
      BY <2>3 DEF translate
    <3>4. CommittedWritten'
      BY <2>3 DEF translate
    <3>5. StagedEmpty' /\ WrittenBounded' /\ UnreadIntact'
      BY <2>3 DEF translate
    <3>. QED
      BY <3>1, <3>2, <3>3, <3>4, <3>5
  <2>4. CASE ReadWake
    BY <2>4 DEF ReadWake, Reading
  <2>5. CASE ReadSkipped
    BY <2>5 DEF ReadSkipped, Reading
  <2>6. CASE ReadResource
    <3>1. \A s \in raw : source < s /\ s < observed => s \in Surviving(resources)
      <4>. SUFFICES ASSUME NEW s \in raw, source < s, s < observed
                    PROVE  SlotEnd(resources) <= RecordStart(s)
        BY <2>6 DEF ReadResource, Reading, Surviving
      <4>. QED
        BY <2>6, WriteEndsBeforeNext DEF ReadResource, Reading
    <3>2. \A s \in 0..(observed' - 1) : source' <= s => s \in raw'
      BY <2>6, <3>1 DEF ReadResource, Reading, Write
    <3>3. /\ raw' \subseteq Nat
          /\ written' = written \cup {resources}
          /\ resources' = resources + 1
      BY <2>6 DEF ReadResource, Reading, Write, Surviving
    <3>4. TypeOK'
      BY <2>6, <3>3 DEF ReadResource, Reading
    <3>5. HeadBehind' /\ StagedEmpty'
      BY <2>6, <3>3 DEF ReadResource, Reading
    <3>6. HeadWritten'
      BY <2>6, <3>3 DEF ReadResource, Reading
    <3>7. CommittedWritten'
      BY <2>6, <3>3 DEF ReadResource, Reading
    <3>8. WrittenBounded'
      BY <2>6, <3>3 DEF ReadResource, Reading
    <3>9. UnreadIntact'
      BY <2>6, <3>2 DEF ReadResource, Reading
    <3>. QED
      BY <3>4, <3>5, <3>6, <3>7, <3>8, <3>9
  <2>7. CASE ClassifyFails
    BY <2>7 DEF ClassifyFails, Reading
  <2>8. ASSUME NEW keyed \in BOOLEAN, Finish(keyed) PROVE Inv'
    <3>1. CASE woke /\ keyed
      <4>1. /\ written' = written \cup {resources} /\ len' = resources + 1
            /\ raw' \subseteq Nat /\ pc' = "idle"
            /\ UNCHANGED <<observed, source, resources, woke>>
        BY <2>8, <3>1 DEF Finish, Write, Surviving
      <4>2. resources < Capacity /\ resources \in Nat
        BY <2>8, <3>1 DEF Finish
      <4>3. TypeOK'
        BY <4>1, <4>2
      <4>4. HeadBehind' /\ HeadWritten' /\ StagedEmpty' /\ UnreadIntact'
        BY <4>1
      <4>5. CommittedWritten'
        BY <2>8, <4>1, <4>2 DEF Finish
      <4>6. WrittenBounded'
        BY <4>1, <4>2
      <4>. QED
        BY <4>3, <4>4, <4>5, <4>6
    <3>2. CASE ~(woke /\ keyed)
      BY <2>8, <3>2 DEF Finish
    <3>. QED
      BY <3>1, <3>2
  <2>9. CASE UNCHANGED vars
    BY <2>9 DEF vars
  <2>. QED
    BY <2>1, <2>2, <2>3, <2>4, <2>5, <2>6, <2>7, <2>8, <2>9 DEF Next
<1>. QED
  BY <1>1, <1>2, PTL DEF Spec

\* translate never overwrites a record before it has read it.
THEOREM RecordsReadIntact == Spec => []UnreadIntact
<1>1. Inv => UnreadIntact
  BY DEF Inv
<1>. QED
  BY <1>1, Invariance, PTL

\* set_len exposes only events that this batch wrote.
THEOREM CommittedEventsWritten == Spec => []CommittedWritten
<1>1. Inv => CommittedWritten
  BY DEF Inv
<1>. QED
  BY <1>1, Invariance, PTL

\* No write leaves the caller's storage.
THEOREM WritesInBounds == Spec => []InBounds
<1>1. Inv => InBounds
  <2>. SUFFICES ASSUME Inv, NEW k \in written
                PROVE  SlotEnd(k) <= Capacity * EventSize
    BY DEF InBounds
  <2>1. k \in Nat /\ k + 1 \in Nat /\ k + 1 <= Capacity
    BY CapacityAssumption DEF Inv, TypeOK, WrittenBounded
  <2>. QED
    BY <2>1, ProductMonotone, CapacityAssumption, LayoutAssumption DEF SlotEnd
<1>. QED
  BY <1>1, Invariance, PTL
==============================================================================
