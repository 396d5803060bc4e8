--------------------------------- MODULE Wake ---------------------------------
(***************************************************************************)
(* The wake path on Linux: eventfd.rs, the wake source of                  *)
(* sys/linux_group/backend.rs, Poll::waker, and the part of a wait that    *)
(* takes the wake's readiness.                                             *)
(*                                                                         *)
(* A waker is a thread of its own and each of its system calls is a step.  *)
(* The descriptor is never read on the normal path: consuming the epoll    *)
(* edge acknowledges the notification, and the counter only grows until it *)
(* saturates, when the waker that met the limit resets it.  An interrupted *)
(* call is made again, and moves nothing.  The remaining errors of         *)
(* write_once and read_once are ones that eight-byte calls on an open      *)
(* eventfd do not return.                                                  *)
(***************************************************************************)
EXTENDS Naturals

CONSTANTS
    Wakers,      \* Waker capabilities, each used by one thread
    Keys,        \* keys callers pass to Poll::waker
    MaxCounter,  \* the largest value of the eventfd counter
    MaxCalls,    \* bound: calls of wake each thread makes
    None         \* Option::None

ASSUME CounterAssumption == MaxCounter \in Nat \ {0}
ASSUME CallsAssumption == MaxCalls \in Nat
ASSUME NoneAssumption == None \notin Keys

VARIABLES
    counter,   \* the eventfd's counter
    ready,     \* the eventfd is on epoll's ready list
    wake_key,  \* Poll::wake_key
    holder,    \* the key each capability was asked for with, None before
    pc,        \* where each thread is in EventFd::wake
    calls,     \* calls of wake each thread has begun
    pending    \* threads with a wake returned and not reported since

vars == <<counter, ready, wake_key, holder, pc, calls, pending>>

Init ==
    /\ counter = 0
    /\ ready = FALSE
    /\ wake_key = None
    /\ holder = [w \in Wakers |-> None]
    /\ pc = [w \in Wakers |-> "idle"]
    /\ calls = [w \in Wakers |-> 0]
    /\ pending = {}

\* Mutant: the eventfd is added as a level source.
WakeFlags_Level == {"EPOLLIN"}

\* The flags Backend::new adds the eventfd with.
WakeFlags == {"EPOLLIN", "EPOLLET"}

\* Mutant: a later key replaces the configured one.
AcceptedKey_Replaced(key) == key

\* The first key asked for is the key, a conflicting one is refused.
AcceptedKey(key) == IF wake_key = None THEN key ELSE wake_key

\* Poll::waker, for the capability w.
waker(w, key) ==
    /\ holder[w] = None
    /\ wake_key' = AcceptedKey(key)
    /\ holder' = IF wake_key' = key THEN [holder EXCEPT ![w] = key] ELSE holder
    /\ UNCHANGED <<counter, ready, pc, calls, pending>>

wake(w) ==
    /\ holder[w] # None
    /\ pc[w] = "idle"
    /\ calls[w] < MaxCalls
    /\ pc' = [pc EXCEPT ![w] = "write"]
    /\ calls' = [calls EXCEPT ![w] = @ + 1]
    /\ UNCHANGED <<counter, ready, wake_key, holder, pending>>

\* The kernel refuses a write that would pass the maximum with EAGAIN.
WouldBlock == counter = MaxCounter

\* A write that completes queues an edge, and wake returns.
WriteComplete(w) ==
    /\ pc[w] = "write"
    /\ ~WouldBlock
    /\ counter' = counter + 1
    /\ ready' = TRUE
    /\ pc' = [pc EXCEPT ![w] = "idle"]
    /\ pending' = pending \cup {w}
    /\ UNCHANGED <<wake_key, holder, calls>>

\* Mutant: a saturated counter is taken for a notification still pending.
WriteWouldBlock_Returns(w) ==
    /\ pc[w] = "write"
    /\ WouldBlock
    /\ pc' = [pc EXCEPT ![w] = "idle"]
    /\ pending' = pending \cup {w}
    /\ UNCHANGED <<counter, ready, wake_key, holder, calls>>

WriteWouldBlock(w) ==
    /\ pc[w] = "write"
    /\ WouldBlock
    /\ pc' = [pc EXCEPT ![w] = "drain"]
    /\ UNCHANGED <<counter, ready, wake_key, holder, calls, pending>>

\* read_once zeroes the counter, or finds it zero; then wake writes again.  A
\* read makes the descriptor writable, which epoll was not asked about.
drain(w) ==
    /\ pc[w] = "drain"
    /\ counter' = 0
    /\ pc' = [pc EXCEPT ![w] = "write"]
    /\ UNCHANGED <<ready, wake_key, holder, calls, pending>>

\* What a wait reports of an eventfd found on the ready list: epoll looks at
\* the counter again, and translate has an event for it only under a key.
Reported == counter > 0 /\ wake_key # None

\* A wait reaches the eventfd on the ready list and takes it off; only a level
\* source that is still readable would stay.
Wait ==
    /\ ready
    /\ ready' = (counter > 0 /\ "EPOLLET" \notin WakeFlags)
    /\ pending' = IF Reported THEN {w \in pending : holder[w] # wake_key}
                              ELSE pending
    /\ UNCHANGED <<counter, wake_key, holder, pc, calls>>

Step(w) == WriteComplete(w) \/ WriteWouldBlock(w) \/ drain(w)

Next ==
    \/ \E w \in Wakers : wake(w) \/ Step(w) \/ \E key \in Keys : waker(w, key)
    \/ Wait

\* A thread inside wake is scheduled, and the caller of Poll keeps waiting.
Fairness == WF_vars(Wait) /\ \A w \in Wakers : WF_vars(Step(w))

Spec == Init /\ [][Next]_vars
FairSpec == Spec /\ Fairness

------------------------------------------------------------------------------
(* Properties.                                                             *)

\* Every variable has its type.
TypeOK ==
    /\ counter \in 0..MaxCounter
    /\ ready \in BOOLEAN
    /\ wake_key \in Keys \cup {None}
    /\ holder \in [Wakers -> Keys \cup {None}]
    /\ pc \in [Wakers -> {"idle", "write", "drain"}]
    /\ calls \in [Wakers -> 0..MaxCalls]
    /\ pending \subseteq Wakers

\* The next wait that reaches the eventfd reports a wake.
Observable == ready /\ counter > 0

\* wake never returns in vain (eventfd.rs wake): while a returned wake has not
\* been reported, the next wait reports it, or a thread that is resetting the
\* saturated counter is about to write again.
NoLostWake ==
    pending # {} => Observable \/ \E w \in Wakers : pc[w] = "write"

\* No wake is reported twice or made up: consuming the edge acknowledges it,
\* although the counter stays positive (backend.rs Backend::new).
NoSpuriousWake == Observable => pending # {}

\* A returned wake is reported to the poller's caller, under the key its waker
\* was made for, whatever the other wakers and the saturated counter do.
WakeDelivered == \A w \in Wakers : w \in pending ~> w \notin pending

------------------------------------------------------------------------------
(* The inductive invariant behind them.                                    *)

\* Every capability was made for the configured key.
HoldersAgree == \A w \in Wakers : holder[w] # None => holder[w] = wake_key

\* Only a thread that has its capability calls wake.
CallersHold == \A w \in Wakers : pc[w] # "idle" \/ w \in pending
                                    => holder[w] # None

\* An edge consumed with the counter positive took every pending wake with it.
EdgeKept == pending # {} /\ counter > 0 => ready

Inv == /\ TypeOK
       /\ HoldersAgree
       /\ CallersHold
       /\ EdgeKept
       /\ NoLostWake
       /\ NoSpuriousWake
==============================================================================
