----------------------------- MODULE Construction -----------------------------
(***************************************************************************)
(* Poll::with_capacity, how long the Poll's waits block, the wakers it     *)
(* hands out and the end of both: poll.rs, wait.rs, sys/platform.rs,       *)
(* sys/raw_batch.rs, sys/wake.rs, the set-up of each backend and           *)
(* sys/unsupported.rs.                                                     *)
(*                                                                         *)
(* A native call of the construction is a step, and can fail.  `open' is   *)
(* the process's open descriptors of this poller, `adopted' those an       *)
(* OwnedFd will close; `strong' counts the Arc that wakers share: of the   *)
(* eventfd on Linux, of the whole queue on kqueue.                         *)
(***************************************************************************)
EXTENDS Token, Timeout, FiniteSets

CONSTANTS
    Targets,    \* target systems, among Systems
    Sizes,      \* capacities callers ask for
    USizeMax,   \* usize::MAX
    Gap,        \* size_of::<Event>() - size_of::<epoll_event>()
    Keys,
    Wakers,     \* names for the Waker values callers hold
    None

Systems == {"linux", "kqueue", "netbsd", "unsupported"}

ASSUME TargetsAssumption == Targets \subseteq Systems
ASSUME SizesAssumption == /\ Sizes \subseteq 0..USizeMax
                          /\ {USizeMax, Gap} \subseteq Nat
                          /\ None \notin Keys

\* None and Forever are values of their own.
ASSUME DistinctAssumption ==
    /\ Forever \notin Int
    /\ None \notin [request : Requests, blocks : Nat \cup {Forever}]

VARIABLES
    target,    \* the system this program was built for
    step,      \* what with_capacity does next; "Idle" without a Poll
    sizes,     \* the capacities and the storage of RawBatch
    open,      \* open native descriptors
    adopted,   \* those that belong to an OwnedFd
    attached,  \* the selector reports the wake source
    strong,    \* the strong count of the shared Arc
    wake_key,
    wakers,    \* live Waker values
    waited,    \* the last wait: what was asked for, how long it may block
    result     \* what the last call returned

vars == <<target, step, sizes, open, adopted, attached, strong, wake_key, wakers,
          waited, result>>

IsKqueue == target \in {"kqueue", "netbsd"}

\* The descriptor behind the Arc, and the one the kernel's events come from.
Shared == IF IsKqueue THEN "kqueue" ELSE "eventfd"
Selector == IF IsKqueue THEN "kqueue" ELSE "epoll"

NoSizes == [events |-> 0, registrations |-> 0, native |-> 0, change |-> 0,
            storage |-> 0]

Init ==
    /\ target \in Targets
    /\ step = "Idle"
    /\ sizes = NoSizes
    /\ open = {}
    /\ adopted = {}
    /\ attached = FALSE
    /\ strong = 0
    /\ wake_key = None
    /\ wakers = {}
    /\ waited = None
    /\ result = "Ok"

------------------------------------------------------------------------------
(* Storage.                                                                *)

Fits(n, max) == n <= max

\* EpollBatch::new allocates nothing: the caller's events are the storage.
epoll_batch(events) ==
    IF Fits(events, CIntMax) /\ Fits(events * Gap, USizeMax)
    THEN {[native |-> events, change |-> 0, storage |-> events]}
    ELSE {}

\* KqueueArena::new and DisarmBatch::new; kevent counts in ints except on NetBSD.
kqueue_batch(native, recovery) ==
    LET change == 2 * recovery
        storage == IF native > 2 * change THEN native ELSE 2 * change
    IN  IF /\ Fits(change, USizeMax)
           /\ target = "netbsd" \/ (Fits(native, CIntMax) /\ Fits(change, CIntMax))
           /\ Fits(2 * change, USizeMax)
        THEN {[native |-> native, change |-> change, storage |-> storage]}
        ELSE {}

\* Mutant: the native batch is sized for what a wait can deliver.
complete_observation_capacity_Delivered(events, registrations) ==
    2 * (IF events < registrations THEN events ELSE registrations) + 1

complete_observation_capacity(events, registrations) == 2 * registrations + 1

\* RawBatch::new; the empty set stands for its None.
raw_batch(events, registrations) ==
    LET complete == complete_observation_capacity(events, registrations)
        recovery == IF events < registrations THEN events ELSE registrations
    IN  CASE target = "linux" -> epoll_batch(events)
          [] IsKqueue -> IF Fits(complete, USizeMax)
                         THEN kqueue_batch(complete, recovery) ELSE {}
          [] OTHER -> {[native |-> 0, change |-> 0, storage |-> 0]}

------------------------------------------------------------------------------
(* with_capacity.                                                          *)

\* An error drops what was built so far: the Arc, and every OwnedFd.
Fails(error) ==
    /\ result' = error
    /\ step' = "Idle"
    /\ sizes' = NoSizes
    /\ open' = open \ adopted
    /\ adopted' = {}
    /\ attached' = (attached /\ Selector \in open')
    /\ strong' = 0
    /\ UNCHANGED <<target, wake_key, wakers, waited>>

Goes(next) ==
    /\ step' = next
    /\ UNCHANGED <<target, wake_key, wakers, waited, result>>

\* One Poll at a time, and the wakers of the last one are gone.
with_capacity(events, registrations) ==
    /\ step = "Idle" /\ wakers = {}
    /\ IF events = 0 \/ registrations = 0 THEN Fails("Capacity")
       ELSE \/ \E batch \in raw_batch(events, registrations) :
                  /\ sizes' = [events |-> events, registrations |-> registrations,
                               native |-> batch.native, change |-> batch.change,
                               storage |-> batch.storage]
                  /\ Goes("Table")
                  /\ UNCHANGED <<open, adopted, attached, strong>>
            \* Too large, or kqueue's storage cannot be allocated.
            \/ /\ raw_batch(events, registrations) = {} \/ IsKqueue
               /\ Fails("BackendOverflow")

\* RegistrationTable::new.
NewTable ==
    /\ step = "Table"
    /\ IF sizes.registrations > MAX_REGISTRATIONS THEN Fails("BackendOverflow")
       ELSE \/ Fails("Capacity")
            \/ Goes("Selector") /\ UNCHANGED <<sizes, open, adopted, attached, strong>>

\* unsupported::Backend::new.
Unsupported ==
    /\ step = "Selector" /\ target = "unsupported"
    /\ Fails("UnsupportedPlatform")

\* Epoll::new: create with CLOEXEC.
CreateEpoll ==
    /\ step = "Selector" /\ target = "linux"
    /\ \/ Fails("CreatePoller")
       \/ /\ Goes("Waker")
          /\ open' = open \cup {"epoll"}
          /\ adopted' = adopted \cup {"epoll"}
          /\ UNCHANGED <<sizes, attached, strong>>

\* EventFd::new, in a new Arc.
CreateEventFd ==
    /\ step = "Waker"
    /\ \/ Fails("CreateWaker")
       \/ /\ Goes("Attach")
          /\ open' = open \cup {"eventfd"}
          /\ adopted' = adopted \cup {"eventfd"}
          /\ strong' = 1
          /\ UNCHANGED <<sizes, attached>>

\* Mutant: the descriptor is adopted only once it is close-on-exec.
Kqueue_new_AdoptsLast ==
    /\ step = "Selector" /\ IsKqueue
    /\ \/ Fails("CreatePoller")
       \/ /\ Goes(IF target = "netbsd" THEN "Attach" ELSE "CloseOnExec")
          /\ open' = open \cup {"kqueue"}
          /\ adopted' = adopted \cup (IF target = "netbsd" THEN {"kqueue"} ELSE {})
          /\ strong' = 1
          /\ UNCHANGED <<sizes, attached>>

\* Kqueue::new: NetBSD's call sets close-on-exec itself.
Kqueue_new ==
    /\ step = "Selector" /\ IsKqueue
    /\ \/ Fails("CreatePoller")
       \/ /\ Goes(IF target = "netbsd" THEN "Attach" ELSE "CloseOnExec")
          /\ open' = open \cup {"kqueue"}
          /\ adopted' = adopted \cup {"kqueue"}
          /\ strong' = 1
          /\ UNCHANGED <<sizes, attached>>

\* The second half of Kqueue::new elsewhere: fcntl.
CloseOnExec ==
    /\ step = "CloseOnExec"
    /\ \/ Fails("CreatePoller")
       \/ /\ Goes("Attach")
          /\ adopted' = adopted \cup {"kqueue"}
          /\ UNCHANGED <<sizes, open, attached, strong>>

\* Mutant: the wake's copy of the queue is not counted.
Attach_Uncounted ==
    /\ step = "Attach"
    /\ \/ Fails("RegisterWaker")
       \/ /\ Goes("Pending")
          /\ attached' = TRUE
          /\ strong' = strong
          /\ UNCHANGED <<sizes, open, adopted>>

\* The rest of Backend::new: the wake source is registered with the selector
\* and, on kqueue, the wake gets its own copy of the Arc.
Attach ==
    /\ step = "Attach"
    /\ \/ Fails("RegisterWaker")
       \/ /\ Goes("Pending")
          /\ attached' = TRUE
          /\ strong' = IF IsKqueue THEN strong + 1 ELSE strong
          /\ UNCHANGED <<sizes, open, adopted>>

\* PendingBatch::new allocates on kqueue only, and last.
NewPending ==
    /\ step = "Pending"
    /\ \/ IsKqueue /\ Fails("Capacity")
       \/ /\ step' = "Ready"
          /\ wake_key' = None
          /\ result' = "Ok"
          /\ UNCHANGED <<target, sizes, open, adopted, attached, strong, wakers,
                         waited>>

\* Poll::wait, as far as the time is concerned: what the backend tells the
\* kernel, which returns earlier when something is ready.
wait(request) ==
    /\ step = "Ready"
    /\ waited' = [request |-> request,
                  blocks  |-> IF IsKqueue THEN kevent_blocks(request)
                                          ELSE epoll_wait_blocks(request)]
    /\ result' = "Ok"
    /\ UNCHANGED <<target, step, sizes, open, adopted, attached, strong,
                   wake_key, wakers>>

------------------------------------------------------------------------------
(* Wakers.                                                                 *)

\* What the drop of a handle leaves: the last one closes the descriptor.
Released(n) ==
    /\ strong' = strong - n
    /\ LET closed == IF strong' = 0 THEN {Shared} ELSE {}
           own == IF step' = "Idle" THEN {"epoll"} ELSE {}
       IN  /\ open' = open \ (adopted \cap (closed \cup own))
           /\ adopted' = adopted \ (closed \cup own)
    /\ attached' = (attached /\ Selector \in open')

Held == <<target, step, sizes, open, adopted, attached, waited>>

\* Poll::waker.
waker(w, key) ==
    /\ step = "Ready"
    /\ w \notin wakers
    /\ IF wake_key \in {None, key}
       THEN /\ wake_key' = key
            /\ wakers' = wakers \cup {w}
            /\ strong' = strong + 1
            /\ result' = "Ok"
       ELSE /\ result' = "WakerAlreadyConfigured"
            /\ UNCHANGED <<wake_key, wakers, strong>>
    /\ UNCHANGED Held

\* Waker: Clone.
Clone(w, v) ==
    /\ w \in wakers /\ v \notin wakers
    /\ wakers' = wakers \cup {v}
    /\ strong' = strong + 1
    /\ UNCHANGED <<Held, wake_key, result>>

\* Waker::wake, with a Poll or without.
wake(w) ==
    /\ w \in wakers
    /\ result' = IF Shared \in open THEN "Ok" ELSE "EBADF"
    /\ UNCHANGED <<Held, strong, wake_key, wakers>>

DropWaker(w) ==
    /\ w \in wakers
    /\ wakers' = wakers \ {w}
    /\ step' = step
    /\ Released(1)
    /\ UNCHANGED <<target, sizes, wake_key, waited, result>>

\* The fields of Poll: the backend, with its share of the queue, and the wake.
DropPoll ==
    /\ step = "Ready"
    /\ step' = "Idle"
    /\ sizes' = NoSizes
    /\ wake_key' = None
    /\ Released(IF IsKqueue THEN 2 ELSE 1)
    /\ waited' = None
    /\ UNCHANGED <<target, wakers, result>>

SetUp ==
    \/ NewTable
    \/ Unsupported
    \/ CreateEpoll
    \/ CreateEventFd
    \/ Kqueue_new
    \/ CloseOnExec
    \/ Attach
    \/ NewPending

Next ==
    \/ \E events, registrations \in Sizes : with_capacity(events, registrations)
    \/ SetUp
    \/ \E request \in Requests : wait(request)
    \/ \E w \in Wakers, key \in Keys : waker(w, key)
    \/ \E w, v \in Wakers : Clone(w, v)
    \/ \E w \in Wakers : wake(w) \/ DropWaker(w)
    \/ DropPoll

Spec == Init /\ [][Next]_vars

------------------------------------------------------------------------------
(* Properties.                                                             *)

\* Whatever step of with_capacity fails, and in whatever order the Poll and its
\* wakers are dropped, the descriptors left are those somebody still holds:
\* none without a Poll and a waker, only the shared one for a waker alone
\* ("a waker can outlive its poller and retain the queue", docs/contracts.md).
NothingLeaked ==
    step = "Idle" => open = IF wakers = {} THEN {} ELSE {Shared}

\* A wake never meets a descriptor that was closed under it, and with a Poll
\* there to be woken the selector still reports the source.
WakersUsable ==
    /\ wakers # {} => Shared \in open
    /\ step = "Ready" => attached /\ {Shared, Selector} \subseteq open
    /\ result # "EBADF"

\* The storage of a finished Poll is large enough for whatever its capacities
\* allow later, in the integers of the native calls: both filters of every
\* registration and the wake; the changes and receipts for every one-shot
\* registration one wait can deliver; a token for every slot.
CapacitiesSuffice ==
    step = "Ready" =>
        LET r == sizes.registrations
            e == sizes.events
        IN  /\ target # "netbsd" => Fits(sizes.native, CIntMax) /\ Fits(sizes.change, CIntMax)
            /\ \A i \in 0..(r - 1) : Encodable(i)
            /\ IF IsKqueue
               THEN /\ sizes.native >= 2 * r + 1
                    /\ \A n \in 0..r : n <= e => 2 * n <= sizes.change
                    /\ sizes.storage >= sizes.native
                    /\ sizes.storage >= 2 * sizes.change
                    /\ Fits(sizes.storage, USizeMax)
               ELSE sizes.native = e /\ Fits(e * Gap, USizeMax)

\* The longest wait that the native argument can express, and its unit.
Longest == IF IsKqueue THEN TimeMax * Second ELSE CIntMax * Millisecond
Unit == IF IsKqueue THEN 1 ELSE Millisecond

\* A wait blocks for ever iff it was asked to, at all iff the duration is
\* positive, no shorter than asked unless that is more than the argument can
\* say, and less than a unit longer (wait.rs: "A backend may round a positive
\* duration up", "Zero remains nonblocking"): nothing is cut off, and no long
\* duration wraps to a short one or to the negative number for ever.
BlocksAsAsked ==
    waited # None =>
        LET asked == waited.request
        IN  IF asked = Forever THEN waited.blocks = Forever
            ELSE /\ waited.blocks # Forever
                 /\ waited.blocks >= Smaller(asked, Longest)
                 /\ waited.blocks < asked + Unit
                 /\ waited.blocks > 0 <=> asked > 0

------------------------------------------------------------------------------
(* The inductive invariant behind these properties.                        *)

\* What the Poll itself contributes to the strong count.
PollShares == IF IsKqueue THEN 2 ELSE 1

\* How far with_capacity has got, in descriptors and in shares of the Arc; a
\* failed or a dropped Poll leaves what its wakers hold.
Built ==
    CASE step = "Idle" ->
            /\ open = IF wakers = {} THEN {} ELSE {Shared}
            /\ strong = Cardinality(wakers)
      [] step \in {"Table", "Selector"} -> open = {} /\ strong = 0
      [] step = "Waker" -> target = "linux" /\ open = {"epoll"} /\ strong = 0
      [] step = "CloseOnExec" ->
            target = "kqueue" /\ open = {"kqueue"} /\ strong = 1
      [] step = "Attach" ->
            /\ target # "unsupported"
            /\ open = {Shared, Selector} /\ strong = 1
      [] step \in {"Pending", "Ready"} ->
            /\ target # "unsupported"
            /\ open = {Shared, Selector} /\ attached
            /\ strong = PollShares + Cardinality(wakers)

\* The capacities are the ones asked for, with the storage computed for them,
\* and no more registrations than a table can index.
Sized ==
    /\ step # "Idle" =>
          \E events, registrations \in Sizes \ {0} :
              \E batch \in raw_batch(events, registrations) :
                  sizes = [events |-> events, registrations |-> registrations,
                           native |-> batch.native, change |-> batch.change,
                           storage |-> batch.storage]
    /\ step \notin {"Idle", "Table"} => sizes.registrations <= MAX_REGISTRATIONS

Inv == /\ target \in Systems
       /\ step \in {"Idle", "Table", "Selector", "Waker", "CloseOnExec", "Attach",
                    "Pending", "Ready"}
       /\ IsFiniteSet(wakers)
       /\ step \notin {"Idle", "Ready"} => wakers = {}
       /\ adopted = open
       /\ Built
       /\ Sized
       /\ result # "EBADF"
       /\ BlocksAsAsked
==============================================================================
