-------------------------- MODULE ConstructionProofs --------------------------
(***************************************************************************)
(* What Construction's runs check for small integers holds for every       *)
(* width of them, every unit of time, every capacity and any number of     *)
(* wakers: Inv is inductive, and the four properties follow from it.       *)
(***************************************************************************)
EXTENDS Construction, FiniteSetTheorems, TLAPS

------------------------------------------------------------------------------
(* Durations.                                                              *)

LEMMA DivMod ==
    ASSUME NEW x \in Nat, NEW b \in Nat \ {0}
    PROVE  /\ x \div b \in Nat
           /\ x % b \in 0..(b - 1)
           /\ x = (x \div b) * b + (x % b)
  OBVIOUS

LEMMA Monotone ==
    ASSUME NEW x \in Nat, NEW y \in Nat, NEW b \in Nat, x <= y
    PROVE  x * b <= y * b
  OBVIOUS

\* epoll_timeout rounds up to a millisecond and saturates at c_int::MAX.
LEMMA EpollBlocks ==
    ASSUME NEW asked \in Nat
    PROVE  /\ epoll_wait_blocks(asked) \in Nat
           /\ epoll_wait_blocks(asked) >= Smaller(asked, CIntMax * Millisecond)
           /\ epoll_wait_blocks(asked) < asked + Millisecond
           /\ epoll_wait_blocks(asked) > 0 <=> asked > 0
  <1> DEFINE m == Millisecond
             up == (asked + m - 1) \div m
             t == Smaller(up, CIntMax)
  <1>1. m \in Nat \ {0} /\ CIntMax \in Nat \ {0} /\ asked # Forever
    BY UnitsAssumption, DistinctAssumption
  <1>2. asked + m - 1 \in Nat
    BY <1>1
  <1>3. /\ up \in Nat /\ (asked + m - 1) % m \in 0..(m - 1)
        /\ asked + m - 1 = up * m + ((asked + m - 1) % m)
    BY <1>1, <1>2, DivMod
  <1> DEFINE rest == (asked + m - 1) % m
  <1>4. t \in Nat /\ t <= up /\ (t = up \/ t = CIntMax)
    BY <1>1, <1>3 DEF Smaller
  <1>5. epoll_timeout(asked) = t
    BY <1>1 DEF epoll_timeout
  <1>6. epoll_wait_blocks(asked) = t * m
    BY <1>4, <1>5 DEF epoll_wait_blocks
  <1> HIDE DEF t, up, rest, m
  <1>7. t * m \in Nat /\ up * m \in Nat /\ t * m <= up * m
    BY <1>1, <1>3, <1>4, Monotone
  <1>8. up * m >= asked /\ up * m < asked + m
    BY <1>1, <1>3, <1>7 DEF rest
  <1>9. t * m >= Smaller(asked, CIntMax * m)
    <2>1. CIntMax * m \in Nat
      BY <1>1
    <2> QED
      BY <1>4, <1>7, <1>8, <2>1 DEF Smaller
  <1>10. t * m > 0 <=> asked > 0
    <2>1. CASE asked = 0
      <3>1. up = 0
        <4>1. up # 0 => up * m >= m
          BY <1>1, <1>3, Monotone
        <4> QED
          BY <1>1, <1>3, <1>8, <2>1, <4>1
      <3> QED
        BY <1>1, <1>4, <2>1, <3>1
    <2>2. CASE asked # 0
      <3>1. up # 0
        BY <1>1, <1>8, <2>2
      <3>2. t >= 1
        BY <1>1, <1>3, <1>4, <3>1
      <3>3. t * m >= 1 * m
        BY <1>1, <1>4, <3>2, Monotone
      <3> QED
        BY <1>1, <1>7, <2>2, <3>3
    <2> QED
      BY <2>1, <2>2
  <1>11. t * m < asked + m
    BY <1>1, <1>7, <1>8
  <1> QED
    BY <1>6, <1>7, <1>9, <1>10, <1>11 DEF m

\* into_timespec is exact, and saturates its seconds at time_t::MAX.
LEMMA KeventBlocks ==
    ASSUME NEW asked \in Nat
    PROVE  /\ kevent_blocks(asked) \in Nat
           /\ kevent_blocks(asked) >= Smaller(asked, TimeMax * Second)
           /\ kevent_blocks(asked) < asked + 1
           /\ kevent_blocks(asked) > 0 <=> asked > 0
  <1> DEFINE sec == asked \div Second
             nsec == asked % Second
             t == Smaller(sec, TimeMax)
  <1>1. Second \in Nat \ {0} /\ TimeMax \in Nat \ {0} /\ asked # Forever
    BY UnitsAssumption, DistinctAssumption
  <1>2. sec \in Nat /\ nsec \in 0..(Second - 1) /\ asked = sec * Second + nsec
    BY <1>1, DivMod
  <1>3. kevent_blocks(asked) = t * Second + nsec
    BY <1>1 DEF kevent_blocks, into_timespec
  <1>4. t \in Nat /\ t <= sec /\ (t = sec \/ t = TimeMax)
    BY <1>1, <1>2 DEF Smaller
  <1> HIDE DEF t, sec, nsec
  <1>5. /\ t * Second \in Nat /\ sec * Second \in Nat /\ TimeMax * Second \in Nat
        /\ t * Second <= sec * Second
    BY <1>1, <1>2, <1>4, Monotone
  <1>6. t = TimeMax => t * Second >= Second
    BY <1>1, <1>4, Monotone
  <1> QED
    BY <1>1, <1>2, <1>3, <1>4, <1>5, <1>6 DEF Smaller

------------------------------------------------------------------------------
(* The invariant, one action at a time.                                    *)

LEMMA InitInv == Init => Inv
  <1> SUFFICES ASSUME Init PROVE Inv
    OBVIOUS
  <1>1. target \in Systems /\ IsFiniteSet(wakers) /\ Cardinality(wakers) = 0
    BY TargetsAssumption, FS_EmptySet DEF Init
  <1>2. Built /\ Sized /\ BlocksAsAsked
    BY <1>1 DEF Init, Built, Sized, BlocksAsAsked
  <1> QED
    BY <1>1, <1>2 DEF Init, Inv

\* What a step that keeps the target and the last wait need not think of.
LEMMA WaitKept ==
    ASSUME BlocksAsAsked, UNCHANGED <<target, waited>>
    PROVE  BlocksAsAsked'
  BY DEF BlocksAsAsked, Longest, Unit, IsKqueue

\* An error on the way closes everything that was opened.
LEMMA FailsInv ==
    ASSUME Inv, wakers = {}, NEW error, error # "EBADF", Fails(error)
    PROVE  Inv'
  <1>1. /\ step' = "Idle" /\ result' = error /\ UNCHANGED <<target, wakers, waited>>
        /\ open' = open \ adopted /\ adopted' = {} /\ strong' = 0
    BY DEF Fails
  <1>2. Built'
    <2>1. open' = {} /\ wakers' = {} /\ Cardinality(wakers') = 0
      BY <1>1, FS_EmptySet DEF Inv
    <2> QED
      BY <1>1, <2>1 DEF Built
  <1>3. Sized'
    BY <1>1 DEF Sized
  <1>4. BlocksAsAsked'
    BY <1>1, WaitKept DEF Inv
  <1> QED
    BY <1>1, <1>2, <1>3, <1>4 DEF Inv

\* The capacities stay while with_capacity goes on.
LEMMA SizedKept ==
    ASSUME Sized, UNCHANGED <<target, sizes>>, step # "Idle", step' # "Idle",
           step # "Table" \/ sizes.registrations <= MAX_REGISTRATIONS
    PROVE  Sized'
  <1>1. \A e, r : raw_batch(e, r)' = raw_batch(e, r)
    BY DEF raw_batch, IsKqueue, kqueue_batch
  <1> QED
    BY <1>1 DEF Sized

LEMMA CapacityInv ==
    ASSUME Inv, NEW events \in Sizes, NEW registrations \in Sizes,
           with_capacity(events, registrations)
    PROVE  Inv'
  <1>1. step = "Idle" /\ wakers = {}
    BY DEF with_capacity
  <1>2. CASE Fails("Capacity") \/ Fails("BackendOverflow")
    BY <1>1, <1>2, FailsInv
  <1>3. ASSUME events # 0, registrations # 0,
               NEW batch \in raw_batch(events, registrations),
               sizes' = [events |-> events, registrations |-> registrations,
                         native |-> batch.native, change |-> batch.change,
                         storage |-> batch.storage],
               Goes("Table"), UNCHANGED <<open, adopted, attached, strong>>
        PROVE  Inv'
    <2>1. step' = "Table" /\ UNCHANGED <<target, wakers, waited, result>>
      BY <1>3 DEF Goes
    <2>2. Built'
      <3>1. open = {} /\ strong = 0
        BY <1>1, FS_EmptySet DEF Inv, Built
      <3> QED
        BY <1>3, <2>1, <3>1 DEF Built
    <2>3. Sized'
      <3>1. raw_batch(events, registrations)' = raw_batch(events, registrations)
        BY <2>1 DEF raw_batch, IsKqueue, kqueue_batch
      <3> QED
        BY <1>3, <2>1, <3>1 DEF Sized
    <2>4. BlocksAsAsked'
      BY <2>1, WaitKept DEF Inv
    <2> QED
      BY <1>1, <1>3, <2>1, <2>2, <2>3, <2>4 DEF Inv
  <1> QED
    BY <1>2, <1>3 DEF with_capacity

\* A step of the construction that succeeds.
LEMMA GoesInv ==
    ASSUME Inv, wakers = {}, step # "Idle", NEW next, Goes(next), sizes' = sizes,
           next \in {"Selector", "Waker", "CloseOnExec", "Attach", "Pending"},
           step # "Table" \/ sizes.registrations <= MAX_REGISTRATIONS,
           adopted' = open', Built'
    PROVE  Inv'
  <1>1. step' = next /\ UNCHANGED <<target, wakers, waited, result>>
    BY DEF Goes
  <1>2. Sized'
    BY <1>1, SizedKept DEF Inv
  <1>3. BlocksAsAsked'
    BY <1>1, WaitKept DEF Inv
  <1> QED
    BY <1>1, <1>2, <1>3 DEF Inv

LEMMA SetUpInv ==
    ASSUME Inv, SetUp
    PROVE  Inv'
  <1> DEFINE Errors == {"Capacity", "BackendOverflow", "UnsupportedPlatform",
                        "CreatePoller", "CreateWaker", "RegisterWaker"}
  <1>1. step \notin {"Idle", "Ready"} /\ wakers = {}
    BY DEF Inv, SetUp, NewTable, Unsupported, CreateEpoll, CreateEventFd, Kqueue_new,
           CloseOnExec, Attach, NewPending
  <1>2. ASSUME NEW error \in Errors, Fails(error) PROVE Inv'
    BY <1>1, <1>2, FailsInv
  <1>3. Cardinality(wakers) = 0
    BY <1>1, FS_EmptySet
  <1>4. CASE NewTable
    <2>1. CASE \E error \in Errors : Fails(error)
      BY <1>2, <2>1
    <2>2. CASE /\ Goes("Selector") /\ sizes.registrations <= MAX_REGISTRATIONS
               /\ UNCHANGED <<sizes, open, adopted, attached, strong>>
      <3>1. Built'
        BY <1>4, <2>2 DEF Inv, Built, Goes, NewTable
      <3> QED
        BY <1>1, <2>2, <3>1, GoesInv DEF Inv
    <2>3. sizes.registrations \in Nat /\ MAX_REGISTRATIONS \in Nat
      <3>1. sizes.registrations \in Sizes
        BY <1>4 DEF NewTable, Inv, Sized
      <3>2. USizeMax \in Nat /\ sizes.registrations \in 0..USizeMax
        BY <3>1, SizesAssumption
      <3> QED
        BY <3>2, U32MaxAssumption DEF MAX_REGISTRATIONS
    <2> QED
      BY <1>4, <2>1, <2>2, <2>3 DEF NewTable
  <1>5. CASE Unsupported
    BY <1>2, <1>5 DEF Unsupported
  <1>6. CASE CreateEpoll
    <2>1. CASE Goes("Waker") /\ open' = open \cup {"epoll"}
               /\ adopted' = adopted \cup {"epoll"}
               /\ UNCHANGED <<sizes, attached, strong>>
      <3>1. step = "Selector" /\ target = "linux"
        BY <1>6 DEF CreateEpoll
      <3>2. Built' /\ adopted' = open'
        BY <2>1, <3>1 DEF Inv, Built, Goes
      <3> QED
        BY <1>1, <2>1, <3>1, <3>2, GoesInv
    <2> QED
      BY <1>2, <1>6, <2>1 DEF CreateEpoll
  <1>7. CASE CreateEventFd
    <2>1. CASE Goes("Attach") /\ open' = open \cup {"eventfd"}
               /\ adopted' = adopted \cup {"eventfd"} /\ strong' = 1
               /\ UNCHANGED <<sizes, attached>>
      <3>1. step = "Waker"
        BY <1>7 DEF CreateEventFd
      <3>2. target' = "linux" /\ Shared' = "eventfd" /\ Selector' = "epoll"
        BY <2>1, <3>1 DEF Inv, Built, Goes, Shared, Selector, IsKqueue
      <3>3. Built' /\ adopted' = open'
        BY <2>1, <3>1, <3>2 DEF Inv, Built, Goes
      <3> QED
        BY <1>1, <2>1, <3>1, <3>3, GoesInv
    <2> QED
      BY <1>2, <1>7, <2>1 DEF CreateEventFd
  <1>8. CASE Kqueue_new
    <2>1. CASE /\ Goes(IF target = "netbsd" THEN "Attach" ELSE "CloseOnExec")
               /\ open' = open \cup {"kqueue"}
               /\ adopted' = adopted \cup {"kqueue"} /\ strong' = 1
               /\ UNCHANGED <<sizes, attached>>
      <3>1. step = "Selector" /\ IsKqueue
        BY <1>8 DEF Kqueue_new
      <3>2. /\ target' = target /\ target \in {"kqueue", "netbsd"}
            /\ Shared' = "kqueue" /\ Selector' = "kqueue"
        BY <2>1, <3>1 DEF Goes, Shared, Selector, IsKqueue
      <3>3. open' = {"kqueue"} /\ adopted' = open'
        BY <2>1, <3>1 DEF Inv, Built
      <3>4. Built'
        <4>1. {Shared', Selector'} = {"kqueue"}
          BY <3>2
        <4> QED
          BY <2>1, <3>2, <3>3, <4>1 DEF Built, Goes
      <3> QED
        BY <1>1, <2>1, <3>1, <3>3, <3>4, GoesInv
    <2> QED
      BY <1>2, <1>8, <2>1 DEF Kqueue_new
  <1>9. CASE CloseOnExec
    <2>1. CASE Goes("Attach") /\ adopted' = adopted \cup {"kqueue"}
               /\ UNCHANGED <<sizes, open, attached, strong>>
      <3>1. step = "CloseOnExec"
        BY <1>9 DEF CloseOnExec
      <3>2. /\ target' = "kqueue"
            /\ Shared' = "kqueue" /\ Selector' = "kqueue"
        BY <2>1, <3>1 DEF Inv, Built, Goes, Shared, Selector, IsKqueue
      <3>3. Built' /\ adopted' = open'
        BY <2>1, <3>1, <3>2 DEF Inv, Built, Goes
      <3> QED
        BY <1>1, <2>1, <3>1, <3>3, GoesInv
    <2> QED
      BY <1>2, <1>9, <2>1 DEF CloseOnExec
  <1>10. CASE Attach
    <2>1. CASE /\ Goes("Pending") /\ attached' = TRUE
               /\ strong' = IF IsKqueue THEN strong + 1 ELSE strong
               /\ UNCHANGED <<sizes, open, adopted>>
      <3>1. step = "Attach"
        BY <1>10 DEF Attach
      <3>2. /\ target' = target /\ Shared' = Shared /\ Selector' = Selector
            /\ PollShares' = PollShares /\ wakers' = wakers
        BY <2>1 DEF Goes, Shared, Selector, IsKqueue, PollShares
      <3>3. strong' = PollShares + Cardinality(wakers)
        BY <1>3, <2>1, <3>1 DEF Inv, Built, PollShares
      <3>4. Built' /\ adopted' = open'
        BY <2>1, <3>1, <3>2, <3>3 DEF Inv, Built, Goes
      <3> QED
        BY <1>1, <2>1, <3>1, <3>4, GoesInv
    <2> QED
      BY <1>2, <1>10, <2>1 DEF Attach
  <1>11. CASE NewPending
    <2>1. CASE /\ step' = "Ready" /\ result' = "Ok"
               /\ UNCHANGED <<target, sizes, open, adopted, attached, strong, wakers,
                              waited>>
      <3>1. step = "Pending"
        BY <1>11 DEF NewPending
      <3>2. Shared' = Shared /\ Selector' = Selector /\ PollShares' = PollShares
        BY <2>1 DEF Shared, Selector, IsKqueue, PollShares
      <3>3. Built'
        BY <2>1, <3>1, <3>2 DEF Inv, Built
      <3>4. Sized'
        BY <2>1, <3>1, SizedKept DEF Inv
      <3>5. BlocksAsAsked'
        BY <2>1, WaitKept DEF Inv
      <3> QED
        BY <1>1, <2>1, <3>3, <3>4, <3>5 DEF Inv
    <2> QED
      BY <1>2, <1>11, <2>1 DEF NewPending
  <1> QED
    BY <1>4, <1>5, <1>6, <1>7, <1>8, <1>9, <1>10, <1>11 DEF SetUp

LEMMA WaitInv ==
    ASSUME Inv, NEW request \in Requests, wait(request)
    PROVE  Inv'
  <1>1. /\ step = "Ready" /\ result' = "Ok"
        /\ UNCHANGED <<target, step, sizes, open, adopted, attached, strong, wakers>>
        /\ waited' = [request |-> request,
                      blocks |-> IF IsKqueue THEN kevent_blocks(request)
                                             ELSE epoll_wait_blocks(request)]
    BY DEF wait
  <1>2. /\ IsKqueue' = IsKqueue /\ Shared' = Shared /\ Selector' = Selector
        /\ PollShares' = PollShares /\ Longest' = Longest /\ Unit' = Unit
    BY <1>1 DEF IsKqueue, Shared, Selector, PollShares, Longest, Unit
  <1>3. Built'
    BY <1>1, <1>2 DEF Inv, Built
  <1>4. Sized'
    BY <1>1, SizedKept DEF Inv
  <1>5. BlocksAsAsked'
    <2> DEFINE blocks == IF IsKqueue THEN kevent_blocks(request)
                                     ELSE epoll_wait_blocks(request)
    <2>1. waited'.request = request /\ waited'.blocks = blocks
      BY <1>1
    <2>2. CASE request = Forever
      <3>1. epoll_timeout(Forever) = -1 /\ blocks = Forever
        BY <2>2 DEF kevent_blocks, epoll_wait_blocks, epoll_timeout
      <3> QED
        BY <2>1, <2>2, <3>1 DEF BlocksAsAsked
    <2>3. CASE request # Forever
      <3>1. request \in Nat
        BY <2>3, UnitsAssumption DEF Requests
      <3>2. /\ blocks \in Nat /\ blocks >= Smaller(request, Longest)
            /\ blocks < request + Unit /\ (blocks > 0 <=> request > 0)
        BY <3>1, EpollBlocks, KeventBlocks DEF Longest, Unit
      <3>3. blocks # Forever
        BY <3>2, DistinctAssumption
      <3> QED
        BY <1>2, <2>1, <2>3, <3>2, <3>3 DEF BlocksAsAsked
    <2> QED
      BY <2>2, <2>3
  <1> QED
    BY <1>1, <1>3, <1>4, <1>5 DEF Inv

\* A waker more: its share is counted, and the descriptor it shares is open.
LEMMA AddInv ==
    ASSUME Inv, NEW v, v \notin wakers, wakers' = wakers \cup {v},
           step = "Ready" \/ (step = "Idle" /\ wakers # {}), strong' = strong + 1,
           UNCHANGED Held, result' # "EBADF"
    PROVE  Inv'
  <1>1. UNCHANGED <<target, step, sizes, open, adopted, attached, waited>>
    BY DEF Held
  <1>2. /\ IsFiniteSet(wakers') /\ Cardinality(wakers') = Cardinality(wakers) + 1
        /\ Cardinality(wakers) \in Nat /\ wakers' # {}
    BY FS_AddElement, FS_CardinalityType DEF Inv
  <1>3. Shared' = Shared /\ Selector' = Selector /\ PollShares' = PollShares
        /\ PollShares \in Nat
    BY <1>1 DEF IsKqueue, Shared, Selector, PollShares
  <1>4. Built'
    <2>1. CASE step = "Ready"
      <3>1. strong' = PollShares + Cardinality(wakers')
        BY <1>2, <1>3, <2>1 DEF Inv, Built
      <3> QED
        BY <1>1, <1>3, <2>1, <3>1 DEF Inv, Built
    <2>2. CASE step = "Idle" /\ wakers # {}
      <3>1. strong' = Cardinality(wakers') /\ open = {Shared}
        BY <1>2, <2>2 DEF Inv, Built
      <3> QED
        BY <1>1, <1>2, <1>3, <2>2, <3>1 DEF Built
    <2> QED
      BY <2>1, <2>2
  <1>5. Sized'
    <2>1. \A e, r : raw_batch(e, r)' = raw_batch(e, r)
      BY <1>1 DEF raw_batch, IsKqueue, kqueue_batch
    <2> QED
      BY <1>1, <2>1 DEF Inv, Sized
  <1>6. BlocksAsAsked'
    BY <1>1, WaitKept DEF Inv
  <1> QED
    BY <1>1, <1>2, <1>4, <1>5, <1>6 DEF Inv

\* A step that leaves descriptors, shares and wakers alone.
LEMMA HeldInv ==
    ASSUME Inv, UNCHANGED <<Held, strong, wakers>>, result' # "EBADF"
    PROVE  Inv'
  <1>1. UNCHANGED <<target, step, sizes, open, adopted, attached, waited>>
    BY DEF Held
  <1>2. Shared' = Shared /\ Selector' = Selector /\ PollShares' = PollShares
    BY <1>1 DEF IsKqueue, Shared, Selector, PollShares
  <1>3. Built'
    BY <1>1, <1>2 DEF Inv, Built
  <1>4. Sized'
    <2>1. \A e, r : raw_batch(e, r)' = raw_batch(e, r)
      BY <1>1 DEF raw_batch, IsKqueue, kqueue_batch
    <2> QED
      BY <1>1, <2>1 DEF Inv, Sized
  <1>5. BlocksAsAsked'
    BY <1>1, WaitKept DEF Inv
  <1> QED
    BY <1>1, <1>3, <1>4, <1>5 DEF Inv

\* While there is a waker, a Poll is there or gone, and the Arc's descriptor is
\* open.
LEMMA WakerMeans ==
    ASSUME Inv, wakers # {}
    PROVE  step \in {"Idle", "Ready"} /\ Shared \in open
  BY DEF Inv, Built

LEMMA WakersInv ==
    ASSUME Inv,
           \/ \E w \in Wakers, key \in Keys : waker(w, key)
           \/ \E w, v \in Wakers : Clone(w, v)
           \/ \E w \in Wakers : wake(w)
    PROVE  Inv'
  <1>1. ASSUME NEW w \in Wakers, NEW key \in Keys, waker(w, key) PROVE Inv'
    <2>1. CASE wake_key \in {None, key}
      BY <1>1, <2>1, AddInv DEF waker
    <2>2. CASE wake_key \notin {None, key}
      BY <1>1, <2>2, HeldInv DEF waker
    <2> QED
      BY <2>1, <2>2
  <1>2. ASSUME NEW w \in Wakers, NEW v \in Wakers, Clone(w, v) PROVE Inv'
    <2>1. /\ wakers # {} /\ v \notin wakers /\ wakers' = wakers \cup {v}
          /\ strong' = strong + 1 /\ UNCHANGED Held /\ result' = result
      BY <1>2 DEF Clone
    <2>2. result' # "EBADF"
      BY <2>1 DEF Inv
    <2> QED
      BY <2>1, <2>2, AddInv, WakerMeans
  <1>3. ASSUME NEW w \in Wakers, wake(w) PROVE Inv'
    <2>1. wakers # {} /\ UNCHANGED <<Held, strong, wakers>>
      BY <1>3 DEF wake
    <2>2. result' = "Ok"
      BY <1>3, <2>1, WakerMeans DEF wake
    <2> QED
      BY <2>1, <2>2, HeldInv
  <1> QED
    BY <1>1, <1>2, <1>3

LEMMA DropWakerInv ==
    ASSUME Inv, NEW w \in Wakers, DropWaker(w)
    PROVE  Inv'
  <1> DEFINE n == Cardinality(wakers)
  <1>1. /\ w \in wakers /\ wakers' = wakers \ {w} /\ step' = step
        /\ UNCHANGED <<target, sizes, waited, result>>
    BY DEF DropWaker
  <1>2. step \in {"Idle", "Ready"}
    BY <1>1, WakerMeans
  <1>3. /\ IsFiniteSet(wakers') /\ Cardinality(wakers') = n - 1
        /\ n \in Nat /\ n - 1 \in Nat
    <2>1. IsFiniteSet(wakers) /\ n \in Nat
      BY FS_CardinalityType DEF Inv
    <2>2. IsFiniteSet(wakers') /\ Cardinality(wakers') = n - 1
      BY <1>1, <2>1, FS_RemoveElement
    <2>3. Cardinality(wakers') \in Nat
      BY <2>2, FS_CardinalityType
    <2> QED
      BY <2>1, <2>2, <2>3
  <1>4. wakers' = {} <=> n - 1 = 0
    BY <1>3, FS_EmptySet
  <1>5. /\ Shared' = Shared /\ Selector' = Selector /\ PollShares' = PollShares
        /\ PollShares \in {1, 2}
    BY <1>1 DEF IsKqueue, Shared, Selector, PollShares
  <1>6. /\ strong' = strong - 1
        /\ open' = open \ (adopted \cap ((IF strong' = 0 THEN {Shared} ELSE {}) \cup
                                          (IF step' = "Idle" THEN {"epoll"} ELSE {})))
        /\ adopted' = adopted \ ((IF strong' = 0 THEN {Shared} ELSE {}) \cup
                                 (IF step' = "Idle" THEN {"epoll"} ELSE {}))
        /\ attached' = (attached /\ Selector \in open')
    BY DEF DropWaker, Released
  <1>7. adopted' = open'
    BY <1>6 DEF Inv
  <1>8. Built'
    <2>1. CASE step = "Idle"
      <3>1. strong = n /\ open = {Shared} /\ adopted = open /\ Shared # "epoll"
        BY <1>1, <2>1 DEF Inv, Built, Shared
      <3>2. strong' = n - 1 /\ open' = IF wakers' = {} THEN {} ELSE {Shared}
        BY <1>1, <1>4, <1>6, <2>1, <3>1
      <3> QED
        BY <1>1, <1>3, <1>5, <2>1, <3>2 DEF Built
    <2>2. CASE step = "Ready"
      <3>1. /\ strong = PollShares + n /\ open = {Shared, Selector} /\ attached
            /\ target # "unsupported"
        BY <2>2 DEF Inv, Built
      <3>2. strong' # 0 /\ strong' = PollShares + (n - 1)
        BY <1>3, <1>5, <1>6, <3>1
      <3>3. open' = open /\ attached'
        BY <1>1, <1>6, <2>2, <3>1, <3>2
      <3> QED
        BY <1>1, <1>3, <1>5, <2>2, <3>1, <3>2, <3>3 DEF Built
    <2> QED
      BY <1>2, <2>1, <2>2
  <1>9. Sized'
    <2>1. \A e, r : raw_batch(e, r)' = raw_batch(e, r)
      BY <1>1 DEF raw_batch, IsKqueue, kqueue_batch
    <2> QED
      BY <1>1, <2>1 DEF Inv, Sized
  <1>10. BlocksAsAsked'
    BY <1>1, WaitKept DEF Inv
  <1> QED
    BY <1>1, <1>2, <1>3, <1>7, <1>8, <1>9, <1>10 DEF Inv

LEMMA DropPollInv ==
    ASSUME Inv, DropPoll
    PROVE  Inv'
  <1> DEFINE n == Cardinality(wakers)
  <1>1. /\ step = "Ready" /\ step' = "Idle" /\ waited' = None
        /\ UNCHANGED <<target, wakers, result>>
    BY DEF DropPoll
  <1>2. n \in Nat /\ (wakers = {} <=> n = 0)
    BY FS_CardinalityType, FS_EmptySet DEF Inv
  <1>3. /\ strong = PollShares + n /\ open = {Shared, Selector} /\ adopted = open
        /\ PollShares \in {1, 2}
    BY <1>1 DEF Inv, Built, PollShares
  <1>4. /\ strong' = strong - PollShares
        /\ open' = open \ (adopted \cap ((IF strong' = 0 THEN {Shared} ELSE {})
                                          \cup {"epoll"}))
        /\ adopted' = adopted \ ((IF strong' = 0 THEN {Shared} ELSE {}) \cup {"epoll"})
    BY <1>1 DEF DropPoll, Released, PollShares
  <1>5. strong' = n
    BY <1>2, <1>3, <1>4
  <1>6. /\ Shared' = Shared
        /\ (Shared = "kqueue" /\ Selector = "kqueue") \/
           (Shared = "eventfd" /\ Selector = "epoll")
    BY <1>1 DEF IsKqueue, Shared, Selector
  <1>7. open' = (IF wakers = {} THEN {} ELSE {Shared}) /\ adopted' = open'
    BY <1>2, <1>3, <1>4, <1>5, <1>6
  <1>8. Built'
    BY <1>1, <1>5, <1>6, <1>7 DEF Built
  <1>9. Sized' /\ BlocksAsAsked'
    BY <1>1 DEF Sized, BlocksAsAsked
  <1> QED
    BY <1>1, <1>7, <1>8, <1>9 DEF Inv

\* Every step keeps Inv.
THEOREM Invariance == Spec => []Inv
  <1>1. Inv /\ [Next]_vars => Inv'
    <2> SUFFICES ASSUME Inv, [Next]_vars PROVE Inv'
      OBVIOUS
    <2>1. CASE Next
      BY <2>1, CapacityInv, SetUpInv, WaitInv, WakersInv, DropWakerInv, DropPollInv
         DEF Next
    <2>2. CASE vars' = vars
      <3>1. UNCHANGED <<Held, strong, wakers>> /\ result' = result
        BY <2>2 DEF vars, Held
      <3>2. result' # "EBADF"
        BY <3>1 DEF Inv
      <3> QED
        BY <3>1, <3>2, HeldInv
    <2> QED
      BY <2>1, <2>2
  <1> QED
    BY <1>1, InitInv, PTL DEF Spec

------------------------------------------------------------------------------
(* The properties.                                                         *)

\* No failure of with_capacity and no order of dropping the Poll and its wakers
\* leaves a descriptor open that nobody holds (poll.rs, backend set-up, Drop).
THEOREM NeverLeaks == Spec => []NothingLeaked
  <1>1. Inv => NothingLeaked
    BY DEF Inv, Built, NothingLeaked
  <1> QED
    BY <1>1, Invariance, PTL

\* A waker always has an open descriptor to write to, whether or not its Poll
\* is gone, and a Poll that is there is attached to it (sys/wake.rs).
THEOREM WakersStayUsable == Spec => []WakersUsable
  <1>1. Inv => WakersUsable
    <2> SUFFICES ASSUME Inv PROVE WakersUsable
      OBVIOUS
    <2>1. wakers # {} => Shared \in open
      BY WakerMeans
    <2>2. step = "Ready" => attached /\ {Shared, Selector} \subseteq open
      BY DEF Inv, Built
    <2> QED
      BY <2>1, <2>2 DEF Inv, WakersUsable
  <1> QED
    BY <1>1, Invariance, PTL

\* The storage RawBatch::new computed is enough for what the capacities allow,
\* in the integers the native calls take (sys/raw_batch.rs, platform.rs).
THEOREM StorageSuffices == Spec => []CapacitiesSuffice
  <1>1. Inv => CapacitiesSuffice
    <2> SUFFICES ASSUME Inv, step = "Ready" PROVE CapacitiesSuffice
      BY DEF CapacitiesSuffice
    <2>1. PICK e \in Sizes \ {0}, r \in Sizes \ {0} :
             \E batch \in raw_batch(e, r) :
                sizes = [events |-> e, registrations |-> r, native |-> batch.native,
                         change |-> batch.change, storage |-> batch.storage]
      BY DEF Inv, Sized
    <2>2. PICK batch \in raw_batch(e, r) :
             sizes = [events |-> e, registrations |-> r, native |-> batch.native,
                      change |-> batch.change, storage |-> batch.storage]
      BY <2>1
    <2>3. /\ e \in Nat /\ r \in Nat /\ USizeMax \in Nat /\ Gap \in Nat
          /\ CIntMax \in Nat /\ U32Max \in Nat
      <3>1. USizeMax \in Nat /\ Gap \in Nat /\ e \in 0..USizeMax /\ r \in 0..USizeMax
        BY SizesAssumption
      <3> QED
        BY <3>1, UnitsAssumption, U32MaxAssumption
    <2>4. /\ sizes.events = e /\ sizes.registrations = r
          /\ sizes.native = batch.native /\ sizes.change = batch.change
          /\ sizes.storage = batch.storage
      BY <2>2
    <2>5. r <= U32Max
      BY <2>4 DEF Inv, Sized, MAX_REGISTRATIONS
    <2>6. \A i \in 0..(r - 1) : Encodable(i)
      BY <2>3, <2>5 DEF Encodable
    <2>7. target \in Systems \ {"unsupported"}
      BY DEF Inv, Built
    <2>8. CASE target = "linux"
      <3>1. batch \in epoll_batch(e)
        BY <2>8 DEF raw_batch, IsKqueue
      <3>2. /\ batch.native = e /\ batch.change = 0
            /\ Fits(e, CIntMax) /\ Fits(e * Gap, USizeMax)
        BY <3>1 DEF epoll_batch
      <3>3. ~IsKqueue /\ Fits(0, CIntMax)
        BY <2>3, <2>8 DEF IsKqueue, Fits
      <3> QED
        BY <2>4, <2>6, <3>2, <3>3 DEF CapacitiesSuffice
    <2>9. CASE IsKqueue
      <3> DEFINE least == IF e < r THEN e ELSE r
                 change == 2 * least
                 native == 2 * r + 1
                 storage == IF native > 2 * change THEN native ELSE 2 * change
      <3>1. target # "linux"
        BY <2>9 DEF IsKqueue
      <3>2. Fits(native, USizeMax) /\ batch \in kqueue_batch(native, least)
        BY <2>9, <3>1 DEF raw_batch, complete_observation_capacity
      <3>3. /\ batch.native = native /\ batch.change = change /\ batch.storage = storage
            /\ target = "netbsd" \/ (Fits(native, CIntMax) /\ Fits(change, CIntMax))
            /\ Fits(2 * change, USizeMax)
        BY <3>2 DEF kqueue_batch
      <3>4. /\ least \in Nat /\ native \in Nat /\ change \in Nat /\ storage \in Nat
            /\ storage >= native /\ storage >= 2 * change
            /\ storage <= USizeMax
        BY <2>3, <3>2, <3>3 DEF Fits
      <3>5. \A n \in 0..r : n <= e => 2 * n <= change
        BY <2>3
      <3> HIDE DEF native, change, storage
      <3>6. native >= 2 * r + 1
        BY <3>4 DEF native
      <3> QED
        BY <2>4, <2>6, <2>9, <3>3, <3>4, <3>5, <3>6 DEF CapacitiesSuffice, Fits
    <2> QED
      BY <2>7, <2>8, <2>9 DEF Systems, IsKqueue
  <1> QED
    BY <1>1, Invariance, PTL

\* A wait blocks for as long as it was asked to, up to the unit and the range of
\* the native argument (wait.rs, epoll_timeout, into_timespec).
THEOREM WaitsBlockAsAsked == Spec => []BlocksAsAsked
  <1>1. Inv => BlocksAsAsked
    BY DEF Inv
  <1> QED
    BY <1>1, Invariance, PTL
==============================================================================
