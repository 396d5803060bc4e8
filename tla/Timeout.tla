------------------------------- MODULE Timeout -------------------------------
(***************************************************************************)
(* How long a wait blocks: Wait (wait.rs) and its conversion to the        *)
(* argument of epoll_wait (epoll_timeout, sys/linux_group/backend.rs) and  *)
(* of kevent (into_timespec, sys/kqueue_group/kqueue_timeout.rs).          *)
(* Durations are in nanoseconds; the sizes of the units and of the         *)
(* integers are parameters.                                                *)
(***************************************************************************)
EXTENDS Integers

CONSTANTS
    Millisecond,  \* NANOS_PER_MILLISECOND
    Second,       \* nanoseconds of a second
    CIntMax,      \* libc::c_int::MAX
    TimeMax,      \* libc::time_t::MAX
    MaxDuration,  \* bound: the longest duration asked for
    Forever       \* Wait::Forever, and the null timeout of kevent

ASSUME UnitsAssumption == /\ Millisecond \in Nat \ {0}
                          /\ Second \in Nat \ {0}
                          /\ CIntMax \in Nat \ {0}
                          /\ TimeMax \in Nat \ {0}
                          /\ MaxDuration \in Nat

Smaller(m, n) == IF m < n THEN m ELSE n

\* Wait::timeout: NoBlock is For(0).
Requests == 0..MaxDuration \cup {Forever}

\* Mutant: the fraction of a millisecond is cut off.
epoll_timeout_Floors(request) ==
    IF request = Forever THEN -1
    ELSE Smaller(request \div Millisecond, CIntMax)

epoll_timeout(request) ==
    IF request = Forever THEN -1
    ELSE Smaller((request + Millisecond - 1) \div Millisecond, CIntMax)

into_timespec(duration) ==
    [tv_sec |-> Smaller(duration \div Second, TimeMax),
     tv_nsec |-> duration % Second]

\* How long the kernel blocks when nothing happens.
epoll_wait_blocks(request) ==
    IF epoll_timeout(request) < 0 THEN Forever
    ELSE epoll_timeout(request) * Millisecond

kevent_blocks(request) ==
    IF request = Forever THEN Forever
    ELSE LET t == into_timespec(request) IN t.tv_sec * Second + t.tv_nsec
==============================================================================
