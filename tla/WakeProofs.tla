------------------------------ MODULE WakeProofs ------------------------------
(* The wake path loses no wake and makes none up, for any number of wakers *)
(* and wherever the eventfd counter saturates.                             *)
EXTENDS Wake, TLAPS

\* The invariant holds initially and every step preserves it.
THEOREM Invariance == Spec => []Inv
<1>1. Init => Inv
  <2>. SUFFICES ASSUME Init PROVE Inv
    OBVIOUS
  <2>. USE CounterAssumption, CallsAssumption DEF Init
  <2>1. counter \in 0..MaxCounter /\ 0 \in 0..MaxCalls
    BY SMT
  <2>2. ready \in BOOLEAN
    BY Zenon
  <2>3. TypeOK
    BY <2>1, <2>2, Zenon DEF TypeOK
  <2>4. HoldersAgree /\ CallersHold /\ EdgeKept /\ NoLostWake
    BY DEF HoldersAgree, CallersHold, EdgeKept, NoLostWake
  <2>5. NoSpuriousWake
    BY Zenon DEF NoSpuriousWake, Observable
  <2>. QED
    BY <2>3, <2>4, <2>5 DEF Inv
<1>2. Inv /\ [Next]_vars => Inv'
  <2>. SUFFICES ASSUME Inv, [Next]_vars PROVE Inv'
    OBVIOUS
  <2>. USE CounterAssumption, CallsAssumption, NoneAssumption
       DEF Inv, TypeOK, HoldersAgree, CallersHold, EdgeKept, NoLostWake,
           NoSpuriousWake, Observable
  <2>1. ASSUME NEW w \in Wakers, NEW key \in Keys, waker(w, key) PROVE Inv'
    BY <2>1 DEF waker, AcceptedKey
  <2>2. ASSUME NEW w \in Wakers, wake(w) PROVE Inv'
    BY <2>2 DEF wake
  <2>3. ASSUME NEW w \in Wakers, WriteComplete(w) PROVE Inv'
    BY <2>3 DEF WriteComplete, WouldBlock
  <2>4. ASSUME NEW w \in Wakers, WriteWouldBlock(w) PROVE Inv'
    BY <2>4 DEF WriteWouldBlock, WouldBlock
  <2>5. ASSUME NEW w \in Wakers, drain(w) PROVE Inv'
    BY <2>5 DEF drain
  <2>6. CASE Wait
    <3>1. /\ ready /\ ready' = FALSE
          /\ UNCHANGED <<counter, wake_key, holder, pc, calls>>
      BY <2>6 DEF Wait, WakeFlags
    <3>2. CASE counter > 0
      <4>1. NoSpuriousWake /\ pending # {}
        BY <3>1, <3>2
      <4>2. wake_key # None /\ \A w \in pending : holder[w] = wake_key
        BY <4>1
      <4>3. pending' = {}
        BY <2>6, <3>2, <4>2 DEF Wait, Reported
      <4>. QED
        BY <3>1, <4>3
    <3>3. CASE ~(counter > 0)
      BY <2>6, <3>1, <3>3 DEF Wait, Reported
    <3>. QED
      BY <3>2, <3>3
  <2>7. CASE UNCHANGED vars
    BY <2>7 DEF vars
  <2>. QED
    BY <2>1, <2>2, <2>3, <2>4, <2>5, <2>6, <2>7 DEF Next, Step
<1>. QED
  BY <1>1, <1>2, PTL DEF Spec

\* A returned wake stays observable, or is about to be written again.
THEOREM NoWakeLost == Spec => []NoLostWake
<1>1. Inv => NoLostWake
  BY DEF Inv
<1>. QED
  BY <1>1, Invariance, PTL

\* A wait reports a wake only if one returned since the last report.
THEOREM NoWakeInvented == Spec => []NoSpuriousWake
<1>1. Inv => NoSpuriousWake
  BY DEF Inv
<1>. QED
  BY <1>1, Invariance, PTL
==============================================================================
