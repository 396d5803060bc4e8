# zio in TLA+

zio is a synchronous readiness poller over epoll (Linux) and kqueue (macOS,
FreeBSD, NetBSD). A `Poll` keeps a fixed table of registrations, asks the
kernel about them, and reports bounded batches of events; `Waker`s interrupt it
from other threads. This directory models the poller, model-checks it on small
instances with TLC, and proves its main invariants for all sizes with TLAPS.
Paths below are relative to the repository; the poller itself is `src/`.

## The system

All methods of `Poll` take `&mut self`, so two calls on one poller never
overlap. What happens concurrently is: wakers on other threads; other pollers,
which share the global `NEXT_POLL_ID`; the kernel and the peers that make
descriptors ready; and copies of `Registration` handles that outlive what they
name. What fails is the backend: a call may fail without effect (`NotApplied`),
fail after taking effect (`Applied`), or leave its effect unproven (`Unknown`).

| Component | State | Operations | Correct when |
| --- | --- | --- | --- |
| Token (`token.rs`) | none | `encode`, `decode`, `parts` | decoding inverts encoding; token 0 is never a registration |
| Registration table (`table*.rs`) | slots with generation, entry and free-list link; length; free head; exhausted count | reserve fresh or reused, keep, retire, mark uncertain, commit a modification, disarm, look up | the free list holds exactly the reusable slots; a handle never answers for a later occupant; capacity errors are true |
| Mutation machine (`mutation/`, `registration*.rs`) | owner identity, table, driver | `register`, `register_borrowed`, `modify`, `delete`, `registration_state` | table and backend agree whatever failed; nothing installed is without a handle; a call touches its own registration only |
| Descriptor retention (`descriptor.rs`) | the duplicate an entry owns | duplicate, drop | each duplicate is open exactly while its entry lives |
| Observation (`observe.rs`, `observe_recovery.rs`, `pending*.rs`) | pending batch, the caller's `Events` | `wait` | the events are exactly what the kernel reported, merged per registration and cut to the capacity; one-shot registrations are disarmed exactly when delivered, or the recovery report says which are not; no wake is dropped |
| epoll backend (`sys/linux_group/backend.rs`, `epoll.rs`) | epoll items and ready list (kernel), the event arena | add, modify, delete, wait, translate in place | items mirror the table; no record is overwritten before it is read; nothing starves |
| eventfd wake (`eventfd.rs`, `Poll::waker`) | counter, edge, wake key | `waker`, `wake`, consuming wait | no returned wake is lost, none is reported twice |
| kqueue backend (`sys/kqueue_group/backend.rs`, `kqueue_policy.rs`, `kqueue_register.rs`, `kqueue_codec.rs`, `kqueue.rs`) | two filters per registration and the user filter (kernel) | register, modify, delete with cleanup and rollback; wait; wake | each commit status it reports is true of the filters |
| kqueue disarm (`kqueue_disarm.rs`) | the plans of one batch | push, submit, reduce receipts | each delivered one-shot registration gets the status its own receipts prove |
| kqueue arena (`kqueue_arena.rs`, `kqueue_batch.rs`) | one allocation for events, changes and receipts, two counts | wait, stage, submit, read | only what the last call wrote is read |
| Construction (`poll.rs`, `raw_batch.rs`, `wake.rs`, `platform.rs`) | descriptors, storage, the shared `Arc` | `with_capacity`, `waker`, clone, drop | no step's failure leaks; wakers outlive the poller safely; the storage suffices |
| Timeouts (`wait.rs`, `kqueue_timeout.rs`) | none | conversions | positive never becomes zero, long never becomes short or endless |
| `zio-testkit` | generator, reference model, script | `model_sequence` | the harness agrees with the poller on every program |
| Values and errors | none to speak of | | |
| `zio-qualify` | benchmark harness | | not part of the poller |

Interactions: `Poll` builds a `MutationSession` from its owner, table and
backend for each mutation; the session reserves a slot, makes exactly one driver
call while it holds the exclusive borrow, and settles the slot by the answer.
`wait` calls the backend, then resolves each returned token in the table. Wakers
share an `Arc` of the wake source and touch nothing else.

The hard parts, listed one by one under `hazards` in `PROJECT.json`: long
sequences of calls that corrupt the intrusive free list or alias generations;
handles of other pollers with equal ids; the three ways a backend call can fail,
at each of the calls; duplicates leaked or closed twice on an error path;
one-shot state that the kernel changes inside `epoll_wait` and the table
afterwards; batches thrown away by an error after the kernel consumed them;
small event capacities; the saturated eventfd that one waker resets while
another has already returned; events written over records not yet read. On
kqueue: two-filter changes that half fail and are half undone; receipts that are
short or prove nothing; interrupted submissions, which some systems have applied
and others not; a batch that is cut after the kernel has handed it out, with a
wake in it; wakers between the two native calls of one wait; and one storage for
three purposes. Around the poller: a construction that fails at any of its
steps, and wakers that outlive their poller.

## Modules

| Module | Models |
| --- | --- |
| `Token` | token.rs, with `U32Max` for the width of index and generation |
| `RegistrationTable` | table.rs, table_slot.rs, table_reserve.rs, table_retire.rs: one operator per method, from a table value to a table value |
| `Settlement` | how mutation/ settles a slot by the backend's answer; shared by the two machines below |
| `Mutation` | the mutation machine, poll identities, handles, duplicates, over the repository's own scripted driver (`src/test_support/`) |
| `Lifecycle` | abstract: the life each handle is promised (unissued, armed, disarmed, uncertain, stale) and the bound on live ones |
| `Wake` | the eventfd wake path, one system call per step |
| `LinuxPoll` | a poller over epoll: registration, waiting, translation, sources and wakes |
| `EpollArena` | the in-place translation of native records inside the caller's storage |
| `Kqueue` | kevent as the code uses it: filters, changes, what a submission applies and what it proves |
| `KqueuePolicy` | kqueue_policy.rs, kqueue_register.rs: register, modify and delete as the set of ways each can end |
| `KqueueBatch` | pending_kqueue.rs, kqueue_disarm.rs and the validation in observe_recovery.rs |
| `KqueuePoll` | a poller over kqueue, composed of the three above, the table and the settlement |
| `KqueueArena` | the storage of `KeventBatch`, by who wrote each slot last |
| `Timeout` | the timeout conversions of both backends |
| `Construction` | `with_capacity` on every target, waits as to their time, wakers and drops |
| `ModelSequence` | the testkit's random programs over the poller of `Mutation` and a second poller |
| `MCMutation`, `MCLinuxPoll`, `MCKqueuePoll`, `MCModelSequence` | sets of interests and sightings, and the symmetry, for TLC |
| `Lists` | lists filtered by a set of members: the kernels' ready lists, the delivered events, the one-shot positions of a batch |
| `TableProofs`, `MutationProofs`, `LinuxPollProofs`, `KqueuePollProofs`, `ConstructionProofs`, `WakeProofs`, `ArenaProofs`, `KqueueArenaProofs` | theorems; `MutationProofs` has those of `ModelSequence` too |

Composition: `Mutation`, `LinuxPoll` and `KqueuePoll` share `RegistrationTable`
and `Settlement`, over three backends: the scripted one, epoll and kqueue.
`ModelSequence` extends `Mutation` and instantiates it a second time for the
stranger; `Mutation` is shown to implement `Lifecycle`.

`map` in `PROJECT.json` gives the source lines of every definition.

**Mutation.** `table` is `RegistrationTable`; `owner` is `PollOwner` (0 while
unassigned); `next_poll_id` and `others` are the global counter and the
identities other pollers took from it; `backend` and `fault` are `BackendModel`
and the fault record of `ScriptedDriver`; `open` is the set of duplicates open;
`handles` and `result` are what callers hold and were last told. A call is one
step (`&mut self`), with one disjunct per early return in the code's order, and
one for the backend call with any of the answers `Success`, `NotApplied`,
`Applied`, `Unknown`. `register` has the failure of `try_clone_to_owned`, which
`register_borrowed` lacks; both then take the reused slot if there is one. The
duplicate is open from the moment it was made, and an early return drops it.
`Disarm` is `ScriptedPoll::establish_disarmed`, the delivery of a one-shot
event. `OtherPoller` is the environment. Callers may present every handle ever
given out and any handle of any other poller.

**Wake.** Threads step through `EventFd::wake`: `write`, and when the write
would block, `drain`, then `write` again. `ready` is the eventfd's place on
epoll's ready list. A write puts it there; a wait takes it off and reports a
wake if the counter is positive and a key is configured; a read does not touch
it. An interrupted call is repeated and so is a stutter. Other errors of
eight-byte reads and writes on an open eventfd do not occur and are left out:
were a write to fail after the read of the same call, an earlier wake would be
lost.

**LinuxPoll.** `items` and `rdllist` are epoll as the code uses it (external:
modelled from the flags it is given): items keyed by descriptor, holding token
and mask; ADD and MOD queue an item that is ready; `epoll_wait` serves the list
from the head, returns level items to the tail, leaves a one-shot item with an
empty mask and drops what is no longer ready. `Wait` is the whole of
`Poll::wait`: the kernel call and the translation of every record, with the
refusal of `apply_disarm` as its error. `WaitFails` stands for `EventsTooSmall`
and for an interrupted call. `events` and `result` hold what the last step
delivered. Handles are represented by the slots they name, as rejected handles
are the subject of `Mutation`.

**EpollArena.** Storage is a byte range; slot `k` of the events and record `s`
of the native tail are intervals computed as the code computes them. `raw` keeps
the records nobody has written over.

**KqueuePoll.** `knotes` is what the kernel has at each place, a descriptor and
a filter: `None`, a knote with token and enabled flag, or `Lost` when it has
vanished with its file. `queue` is the order in which active knotes are
reported, `triggered` the user knote. `Register`, `Modify` and `Delete` are
whole calls: the submission, the cleanup or rollback, and the settlement of the
slot. A submission (`Kqueue!Submissions`) may apply any subset of its changes
and return a receipt for each, for fewer, for none, or one too many; a receipt
is true or proves nothing; an interrupted submission has applied everything where
`InterruptedApplies`, and anything elsewhere. A wait is two steps, `Observe` and
`Deliver`, one per native call: wakers and vanishing knotes come in between.
`WaitFails` is `EventsTooSmall` or an interrupted wait. `Deliver` is the rest of
`Poll::wait`: the normalisation of each event, coalescing, the cut to the
capacity with room for the wake, the disarm submission, `validate` and `finish`;
its result carries the recovery outcomes. `notified` is a ghost: a wake returned
and has not been reported since. What the kernel does with `queue` is external
and modelled explicitly: served from the head, and level knotes go back to the
tail.

**KqueueArena.** `cell` is who wrote each slot: a wait writes events from the
start, a submission writes changes there and its receipts behind the room for
all changes. `observed`, `receipts` and `staged` are the counts on whose word
the code reads uninitialised storage.

**Construction.** `step` walks through `with_capacity`; each native call and
each allocation may fail and drops what `adopted` and `strong` say is owned.
`target` is fixed at the start: Linux, kqueue, NetBSD (other widths, no fcntl)
or unsupported. `wait` records how long the kernel was told to block.

**ModelSequence.** A step generates an action, runs it on the poller and
verifies, as `run_program` does. `script`, `calls`, `model` and `generator` are
the driver's plan and log, the reference model and the generator's belief;
`diverged` stops the run. A drawn call that the poller refuses is a divergence,
except for a slot whose last generation is used up: the code draws 64 programs of
64 actions, here every choice is explored up to there. The stranger's log and
script are not compared: the run only probes it, and every probe is checked to
be refused before the driver.

## Runs

| Run | Instance | Shows |
| --- | --- | --- |
| `mutation` | 2 slots, 2 generations, 3 poll identities, a borrowed and a duplicated descriptor; one interest, one-shot; about 180,000 states | `FreeListSound`, `CapacityHonest`, `NoInvariantError`, `TableBackendAgreement`, `NoOrphan`, `DuplicatesHeldOnce`, `FreshHandle`, `StaleForever`, `OnlyTargetChanges` |
| `wake` | 3 threads, 3 calls each, counter saturating at 2, two keys | `NoLostWake`, `NoSpuriousWake`, and `WakeDelivered` under fairness |
| `linux_poll` | 2 slots, 2 generations, 2 descriptors, capacity 2, conditions OUT and HUP, both modes; about 90,000 states | `KernelAgrees`, `NothingLost`, `OneShotOnce` |
| `starvation` | capacity 1, 2 descriptors, a waker | `LevelReported`, `WakeReported` under fairness |
| `arena` | capacity 4, events of 5 bytes, records of 3 | `UnreadIntact`, `CommittedWritten` |
| `kqueue_one` | 1 slot, 3 generations, 2 descriptors, one or both filters, both modes, interruptions not applied, sources ready or closed, a knote may vanish; about 420,000 states | `FiltersAgree`, `ObservationComplete`, `CoalescedExactly` |
| `kqueue_poll` | 2 slots, 2 generations, both filters, both modes, capacity 2, interruptions applied; about 220,000 states | `FiltersAgree`, `WakeKept`, `OneShotOnce`, `RecoveryTrue`, `CoalescedExactly` |
| `kqueue_live` | 2 slots, level, capacity 2 and a waker | `ReportsWhileReady`, `WakeReported` under fairness |
| `kqueue_starvation` | 2 slots, level, capacity 1 | `ReportsWhileReady` is violated: see the finding below |
| `kqueue_arena` | 5 events, 4 changes (two registrations) | `EventsCurrent`, `ReceiptsCurrent`, `StagedWritten` |
| `construction` | every target, capacities around the limits of small integers, 3 wakers, durations past both clamps; about 90,000 states | `NothingLeaked`, `WakersUsable`, `CapacitiesSuffice`, `BlocksAsAsked` |
| `model_sequence` | 1 slot, 4 generations, all interests, modes and outcomes | `NeverDiverges`, `GeneratorInStep`, `RequestsTrue`, and `ImplementsLifecycle`: the poller implements `Lifecycle` |

The types of `LinuxPoll` and `KqueuePoll` are the first conjunct of `KernelAgrees`
and `FiltersAgree`; those of `Mutation` and `KqueueArena` are proved, as are
`NoDriverFault`, `ForeignInert` and `InBounds`, which no run repeats.

*Finding: level sources can starve on kqueue.* A kqueue wait takes everything
the kernel would report, merges it, and delivers the first `event_capacity`
registrations (`KqueuePending::add`, `src/src/pending_kqueue.rs:88`). Since the
whole queue is taken, a kernel that returns active knotes in the order in which
it put them back reports the same ones first the next time: with more ready
level sources than event capacity, the same ones are dropped by every wait.
`docs/contracts.md:57` says "Level mode reports while a source remains ready".
The run `kqueue_starvation` shows two ready sources, room for one event, no
waker in the way, and the second source never reported. With room for both
(`kqueue_live`) a source that stays ready is reported once no waker takes its
room, and the wake is reported although ready sources fill the batch; on epoll (`starvation`) a capacity of one suffices, for what a wait leaves out
stays at the head of the list. The behaviour depends on the kernel's order,
which the model states in `Observe`.

*Why these bounds are enough to meet the cases.* Two slots are the fewest with a
free list of more than one link and with a bystander to a call. Two generations
let a slot be reused once and then retired for good, so that reuse, exhaustion
and both capacity errors occur. Three poll identities give this poller one,
another poller one, and the overflow of the counter. With a counter of at most
two, three calls by each of three threads saturate it repeatedly, with one
thread in the middle of a reset while another returns. A capacity of one with
two sources and a waker is the tightest sharing there is; capacity two lets a
batch hold a resource and the wake. Conditions OUT and HUP are one that an
interest may leave out and one that epoll reports unasked. In the arena the
sizes overlap a slot with up to two records.

On kqueue one registration with both filters already has every half-failure and
every rollback of it; two registrations put one-shot and level ones into one
batch, and both of their filters into one disarm submission. Sources show
themselves at the read filter only in `kqueue_poll`, at both in `kqueue_one`.
Three generations let a slot pass to the other descriptor and back. `MaxLost` is
the number of knotes that may be missing at a time, and `MaxUncertain` the
number of registrations in an unknown state beyond which nothing is registered
or modified, while waits, wakes, sources and deletions go on: a further
uncertain registration constrains nothing (`Fits`), so that the states left out
differ in knotes no property speaks of until they are deleted. The
arena has the sizes that the constructor gives two registrations. In
`construction` the capacities lie on both sides of each limit: of the tokens,
`c_int`, `time_t` and `usize`. In `model_sequence` four generations are four
registrations of the slot, so that a stale handle can be two occupants old.

In `mutation` only the arm tells a modification that took effect from one that
did not, as interest and mode have one value each; both modes would take TLC
near five minutes. `model_sequence` varies interest and mode, over one slot, and
the theorems below have every value of all three.

*Fairness.* `wake` and `starvation` assume that the caller keeps calling `wait`
(weak fairness of `Wait`) and that a thread inside `wake` is scheduled (weak
fairness of its steps). Nothing is assumed of anybody beginning a call. In
`Wake` each thread makes at most `MaxCalls` calls; with unlimited calls at a
counter this small, threads could forever reset it at the very moments the
poller looks. In `Wake` fairness of `Wait` means that the wait reaches the
eventfd on the ready list; that it does so although other sources fill the batch
is what `WakeReported` of `LinuxPoll` shows.

`kqueue_live` and `kqueue_starvation` assume only that the caller keeps waiting
(weak fairness of `Observe \/ Deliver`). No bound restricts a wait, so that
nothing else is asked of the caller: uncertain registrations may stay for ever.
`wake` on kqueue is one native call and
needs no fairness. A wait that fails or is interrupted between other calls is
allowed any finite number of times; were every call interrupted for ever,
nothing could be promised.

`wake` is the one run that may stop: all calls made and all reported.

A transient that the wake properties allow: at saturation a wait between another
thread's read and write finds nothing, although a wake has returned; the
resetting thread's write then makes it observable. `NoLostWake` states this
exactly.

## Proofs

`Mutation!Inv` is the inductive invariant. None of the properties is inductive
by itself, so it adds to the types:

- `TableInv`: the free list is the list of reusable slots without repetition
  (`IsFreeStack` with an explicit enumeration `at`, from the end to the head, so
  that push and pop are changes at its last place), unpushed slots are blank,
  and `exhausted` is the cardinality of the spent slots;
- `OwnersDistinct`: identities given out lie below the counter, and this
  poller's is nobody else's;
- `HandlesReached`: a handle's generation has been reached by its slot, which is
  why advancing the generation makes a new handle fresh and a stale one stale
  for ever;
- `EntriesIssued`: the occupant of a slot is named by a handle some caller has;
- `BackendMatches`: for each slot and generation, the backend has never heard of
  those to come, has nothing for those passed, and holds for the current one
  what the entry says.

`TableProofs` proves, operator by operator, that reserve, retire and the changes
to an entry preserve `TableInv` and what they do to lookups; `MutationProofs`
has one step per action over those lemmas and derives each property. The
assumptions are the named ASSUMEs: a positive width, a limit that tokens can
encode, a positive `PollIdMax`, and `None` being a value of its own. They hold
of the code: `RegistrationTable::new` refuses a larger limit.

The round trips of tokens are proved for every width, also in `TableProofs`.
`WakeProofs` proves
`NoLostWake` and `NoSpuriousWake` for any set of wakers, any saturation point
and any number of calls; the strengthening is `EdgeKept` (an edge consumed while
the counter was positive took every pending wake with it) and that capabilities
exist only for the configured key. `ArenaProofs` proves the arena sound for
every capacity and all sizes with `NativeSize <= EventSize`; the heart is
`WriteEndsBeforeNext`, the inequality in the SAFETY comment of `translate`, from
`resources <= source` and the tail placement `capacity * (EventSize - NativeSize)`.

`MutationProofs` also proves `DuplicatesHeldOnce`. `Mutation!Inv` says nothing
of `open`, so this is a second induction beside it: a step does one of four
things to the descriptor of one slot (takes a free one, drops it, keeps it,
leaves the slot vacant), each of the four preserves the correspondence between
open duplicates and entries, and each action is shown to be one of them. Last,
`LifecycleImplemented` proves the refinement `Spec => ImplementsLifecycle`,
for every value of the constants: the initial states map to
`Lifecycle`'s, and each action is a step of the handle it is about or leaves
every handle's life alone. It rests on `Inv` twice: a new handle was unissued
because its generation is fresh, and a handle that is not presented keeps its
life because it names another slot or a passed generation.

`LinuxPollProofs` proves `KernelAgrees`, `NothingLost` and `OneShotOnce` for
every limit, capacity and set of descriptors. `LinuxPoll!Inv` adds to the types
that no two registrations share a descriptor and none is uncertain (`Mirrors`)
and that the ready list names each item once. The last is what the wait needs:
were an item reported twice in a batch, the second `apply_disarm` of a one-shot
registration would be refused and the batch thrown away. The translation of a
batch is a recursive function of the number of records; `TableProofs!UpTo`, an
induction over `0..n` derived from well-foundedness with a set in place of a
predicate, gives what it computes: after n records the registrations of the
first n are disarmed if they are one-shot, the rest are as they were.
`OnlyKept` is the same for the filtered lists: the members kept, in order, each
as often as it was there.

`ConstructionProofs` proves `NothingLeaked`, `WakersUsable`, `CapacitiesSuffice`
and `BlocksAsAsked`. `Construction!Inv` says for each stage of `with_capacity`
which descriptors are open and how many shares of the `Arc` exist (`Built`), and
that the storage is the one computed for the capacities asked for (`Sized`).

`KqueueArenaProofs` proves the kqueue storage sound for every pair of
capacities. The strengthening is `CountsHonest`: the slots below `observed` hold
events of the last wait, those below `receipts` receipts of the last submission,
and while changes are staged both counts are zero. It is needed because the
reads are justified by the counts alone, and rests on `Room`: the storage holds
the events, and twice the changes.

`KqueuePollProofs` proves `FiltersAgree`, `ObservationComplete`, `WakeKept`,
`CoalescedExactly`, `OneShotOnce` and `RecoveryTrue`, all the safety and action
properties of `KqueuePoll`, for every limit, event capacity, set of descriptors
and both targets of `InterruptedApplies`. `KqueuePoll!Inv` adds to the types:

- `TableInv`, as above, and `Apart`: registrations share no descriptor and each
  asks for at least one filter;
- `Agree`: the body of `FiltersAgree`, as an operator of a table and knotes, so
  that it can be stated of the states inside a step;
- `Queued`: the kernel's queue names each active place once;
- `pending` is empty between waits: the scratch state of `PendingEvents` is
  cleared by each wait and its drain leaves nothing;
- `ObservedBatch`: a record of the batch under way is of the wake, or of a
  descriptor whose registration is armed and has the record's token, or of one
  whose state is uncertain;
- `WakeKept`, and `Reported`: what was last delivered fits in the buffer.

They are needed together. A wait that failed inside zio after its second kevent
call would have disabled knotes without noting it in the table, so `Agree` rests
on no wait failing there, and this rests on every other part. The argument
follows the code:

1. Submissions. `Answers`, `Effect` and `ExactEffect` give what an answer of
   `exact` proves of the knotes; from these, what each ending of register, modify
   and delete, cleanup and rollback included, does to the descriptor's knotes.
2. Coalescing. `CoalescedGood` (by `TableProofs!UpTo` on the number of records):
   `by_slot` and the entries point at each other, and each entry is of a
   registration that the batch observed.
3. Plans. `PlansMade`: one plan for each delivered one-shot registration, in the
   order of delivery; `SubmitTrue`: the outcomes reduced from the receipts are
   true of the knotes; `DisarmedEntered`: each is entered in the table and none
   is refused, since no two plans are of one slot.
4. `DeliverEnds`: so no wait fails, and `DeliverInv`: the step preserves `Inv`.

`ObservationComplete` is a count: the places in the queue map one to one into
two for each slot of the table. `CoalescedExactly` needs, beyond the invariant,
what coalescing computes: `Hinted` (an entry has all the hints of its token's
records) and `Ordered` (entries stand in the order of first observation). The
assumptions are the named ASSUMEs of `KqueuePoll` and the modules it extends;
two of them only say that a placeholder is a value of its own
(`LostAssumption`, `BatchAssumption`).

The second half of `MutationProofs` proves `NeverDiverges`, `GeneratorInStep`,
`RequestsTrue` and, for the specification of the programs, the refinement
`ImplementsLifecycle`: no program of any length diverges, over any table and any
outcomes. `SequenceInv`, which holds between two actions, has `Mutation!Inv`, an
empty script, and

- `Follows`: the model's active entry is the one entry of the poller's table,
  with the handle made of its slot and generation;
- `IssuedReached`: the ids the model has seen are of generations reached, so
  that an id issued next is new and the backend holds nothing for the old ones;
- `RetiredStale`: the poller gave out the retired handles and answers that they
  are stale;
- `Believes`: the generator has the model's state and, unless that is uncertain,
  its mode;
- the next identity is still to be had while the poller has none.

`Verified` shows that all five checks of `verify` follow from the first part of
it (`Kept`). One lemma per action shows that the action preserves the invariant
and that its own expectations are met, the first of them that the poller does
not refuse (`RegisterAccepted`, `ModifyAccepted`, `DeleteAccepted`,
`DisarmAccepted`); the actions that call the driver share
`StepKept`, over the lemmas of the first half that say what each call makes of
its slot (`RegisterSlot`, `ModifySlot`, `DeleteSlot`). `RequestsTrue`, that a
driver call describes its registration as the backend has it, follows from
`Follows` and `BackendMatches`. The assumptions added are that both pollers can
register: there is a key, an identity for each, and a descriptor for the
stranger that is none of the duplicates.

Only model-checked: liveness (`WakeDelivered`, `LevelReported`,
`ReportsWhileReady`, `WakeReported`), which the prover does not treat.

## Not modelled

- A driver that panics during a reservation.
- Descriptors borrowed against the contract of `register_borrowed`, that is,
  closed or lent twice while registered.
- On kqueue, changes of a source between the two native calls of a wait: they
  change the kernel's queue only and can as well come after it (see `Source`).
  The user knote is assumed never to vanish.
- The bytes of native structs. A change is encoded by its effect on a knote, a
  receipt decoded to what it proves.
- Error formatting and accessors, and the forwarding in `sys/platform.rs` that
  makes no decision.
- The conformance scenarios of `zio-testkit` (readiness, wake, modify, delete):
  fixed sequences of calls with real descriptors. What they check is stated here
  as properties of the poller. Its reports, coverage counts and failure texts.
- `zio-qualify`: benchmarks and peer comparisons.

## Plan

Done: the table, the mutation machine, the wake path, both backends with their
storage, construction, timeouts and the testkit's random programs, and the
theorems above. Left, in this order:

1. The action properties of `Mutation` (`StaleForever`, `OnlyTargetChanges`,
   `FreshHandle`) for the pollers over epoll and kqueue, whose tables are moved
   by the same operators.
2. The wake scenarios of the testkit, over `Wake` and `KqueuePoll`, if their
   configuration turns out to have state of its own.
