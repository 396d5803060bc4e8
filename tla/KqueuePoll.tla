------------------------------ MODULE KqueuePoll ------------------------------
(***************************************************************************)
(* A Poll over kqueue: sys/kqueue_group/backend.rs, the kqueue half of     *)
(* observe.rs, and the mutation machine's calls of that backend.           *)
(*                                                                         *)
(* A wait makes two calls of kevent.  The first takes the reported knotes, *)
(* and the second disables the one-shot registrations among those that are *)
(* delivered; wakers and the kernel act in between, the methods of Poll do *)
(* not.  `queue' is the kernel's queue of knotes it would report: served   *)
(* from its head, each going back to the tail, for no registration uses    *)
(* EV_CLEAR.  The user knote does and is kept apart as `triggered': where  *)
(* in the batch it comes makes no difference to the code.                  *)
(***************************************************************************)
EXTENDS Settlement, KqueuePolicy, KqueueBatch

CONSTANTS
    Sightings,         \* what a source may show at a filter, see Sighting
    Watchable,         \* the places where sources show anything
    InterestRequests,  \* interests callers ask for
    ModeRequests,      \* modes callers ask for
    MaxLost,           \* bound: places whose knote the kernel has dropped by itself
    MaxUncertain       \* bound: with more uncertain registrations, none is
                       \* registered or modified

\* What EVFILT_READ or EVFILT_WRITE can say of a source: EV_EOF, EV_ERROR, and
\* fflags, which with EV_EOF carry an error code.
Sighting == [eof : BOOLEAN, native_error : BOOLEAN, fflags : BOOLEAN]

ASSUME SourcesAssumption == /\ Sightings \subseteq Sighting
                            /\ Watchable \subseteq Descriptors \X Filters
                            /\ MaxLost \in Nat
                            /\ MaxUncertain \in Nat
ASSUME RequestsAssumption == /\ InterestRequests \subseteq Interests \ {{}}
                             /\ ModeRequests \subseteq Modes

VARIABLES
    table,     \* registrations: RegistrationTable
    knotes,    \* the kernel's knote at each place, None or Lost
    sources,   \* what each filter of each descriptor shows, or None
    queue,     \* places the kernel would report, in order
    triggered, \* the user knote is active
    pending,   \* KqueuePending
    batch,     \* the observed batch while a wait is under way, or None
    notified,  \* a wake has returned and not been reported since
    events,    \* what the last step delivered to the caller
    result     \* what the last step returned

vars == <<table, knotes, sources, queue, triggered, pending, batch, notified,
          events, result>>

\* How a call ended; a wait with its WaitReport, whose recovery failure lists
\* an outcome for each one-shot registration it tried to disarm.
Ended(kind) == [kind |-> kind, outcomes |-> <<>>]
NoReport == events' = <<>> /\ result' = Ended("Ok")

Occupants == {i \in Index : table.slots[i].entry # None}
IdOf(i) == encode(i, table.slots[i].generation)

------------------------------------------------------------------------------
(* The kernel's queue.                                                     *)

Active(ks, ss, p) ==
    /\ p # UserPlace
    /\ ~Absent(ks[p])
    /\ ks[p].enabled
    /\ ss[p] # None

\* The queue once knotes or sources of descriptor d have changed.
Refreshed(q, ks, ss, d) ==
    LET active == {p \in Places : Active(ks, ss, p)}
        kept == Only(q, active)
        fresh == Only(<<<<d, "Read">>, <<d, "Write">>>>,
                      {p \in active : ~Listed(kept, p)})
    IN  kept \o fresh

\* Backend::new adds the user filter under token 0.
SetUp == [p \in Places |->
             IF p = UserPlace THEN [token |-> 0, enabled |-> TRUE] ELSE None]

Init ==
    /\ table = new
    /\ knotes = SetUp
    /\ sources = [p \in Places |-> None]
    /\ queue = <<>>
    /\ triggered = FALSE
    /\ pending = pending_new
    /\ batch = None
    /\ notified = FALSE
    /\ events = <<>>
    /\ result = Ended("Ok")

------------------------------------------------------------------------------
(* Registration, through the mutation machine.                             *)

Idle == batch = None

\* The knotes and the answer of a call of the backend about descriptor d, and the
\* table `settled' by the answer.
Ends(d, ends, settled) ==
    \E end \in ends :
        /\ table' = settled[end.answer]
        /\ knotes' = end.knotes
        /\ queue' = Refreshed(queue, end.knotes, sources, d)
        /\ UNCHANGED <<sources, triggered, pending, batch, notified>>
        /\ NoReport

\* The descriptor is a fresh duplicate, or one that the caller lends once.
Register(d, key, interest, mode) ==
    LET i == Permit(table).index
        id == encode(i, Permit(table).generation)
        reserved == reserve_with(table, registered(d, key, interest, mode))
    IN  /\ Idle
        /\ PermitStatus(table) = "Ok"
        /\ \A j \in Occupants : table.slots[j].entry.descriptor # d
        /\ Ends(d, register_descriptor(knotes, d, id, interest),
                [answer \in Outcomes |-> SettledRegister(reserved, i, answer)])

\* An uncertain registration cannot be modified, only deleted.
Modify(i, interest, mode) ==
    LET e == table.slots[i].entry
    IN  /\ Idle
        /\ i \in Occupants
        /\ binding(table, IdOf(i), FALSE) = "Ok"
        /\ Ends(e.descriptor,
                modify_descriptor(knotes, e.descriptor, IdOf(i), e.interest,
                                  e.state, interest),
                [answer \in Outcomes |->
                    SettledModify(table, i, interest, mode, answer)])

Delete(i) ==
    LET e == table.slots[i].entry
    IN  /\ Idle
        /\ i \in Occupants
        /\ Ends(e.descriptor,
                delete_descriptor(knotes, e.descriptor, e.interest, e.state),
                [answer \in Outcomes |-> SettledDelete(table, i, answer)])

------------------------------------------------------------------------------
(* Observation.                                                            *)

\* RawBatch::new: both filters of every registration, and the wake.
complete_observation_capacity == 2 * Limit + 1

RawRecord == [ident : Descriptors \cup {0}, filter : Filters \cup {"User"},
              token : Nat, sighting : Sighting \cup {None}]
ASSUME BatchAssumption ==
    \A n \in 0..complete_observation_capacity : None \notin [1..n -> RawRecord]

RawKevent(p) ==
    [ident |-> p[1], filter |-> p[2], token |-> knotes[p].token,
     sighting |-> sources[p]]

\* Kqueue::wait.
Observe ==
    LET reported == IF triggered THEN <<UserPlace>> \o queue ELSE queue
        n == Smaller(Len(reported), complete_observation_capacity)
        taken == SubSeq(reported, 1, n)
    IN  /\ Idle
        /\ pending' = clear(pending)
        /\ batch' = [k \in 1..n |-> RawKevent(taken[k])]
        /\ queue' = SubSeq(reported, n + 1, Len(reported))
                        \o Only(taken, Places \ {UserPlace})
        /\ triggered' = FALSE
        /\ UNCHANGED <<table, knotes, sources, notified>>
        /\ NoReport

\* The destination is too small, or kevent is interrupted: nothing is taken.
WaitFails ==
    /\ Idle
    /\ pending' = clear(clear(pending))
    /\ NoReport
    /\ UNCHANGED <<table, knotes, sources, queue, triggered, batch, notified>>

from_kqueue_event(event) ==
    (CASE event.filter = "Read" -> {"READABLE"}
       [] event.filter = "Write" -> {"WRITABLE"}
       [] OTHER -> {"ERROR"})
        \cup (CASE ~event.sighting.eof -> {}
                [] event.sighting.eof /\ event.filter = "Read" -> {"READ_CLOSED"}
                [] event.sighting.eof /\ event.filter = "Write" -> {"WRITE_CLOSED"}
                [] OTHER -> {"ERROR"})
        \cup (IF \/ event.sighting.native_error
                 \/ event.sighting.eof /\ event.sighting.fflags
              THEN {"ERROR"} ELSE {})

\* RawEvent, and RawBatch::event: the n-th knote of the batch, normalised.
Resource(token, descriptor, readiness) ==
    [token |-> token, descriptor |-> descriptor, readiness |-> readiness,
     control |-> FALSE]
RawControl == [token |-> 0, descriptor |-> None, readiness |-> {}, control |-> TRUE]
raw(n) ==
    LET k == batch[n]
    IN  IF k.filter = "User" /\ k.token = 0 THEN RawControl
        ELSE Resource(k.token, k.ident, from_kqueue_event(k))

woke == \E n \in 1..Len(batch) : raw(n).control

\* An event that is of a registration the table knows.
Counts(event) ==
    /\ ~event.control
    /\ Resolves(table, event.token)
    /\ entry(table, event.token).descriptor = event.descriptor

\* translate_kqueue's loop: the pending batch, or a refused add.
Gathered(acc, event) ==
    CASE acc.failed \/ ~Counts(event) -> acc
      [] ~acc.failed /\ Counts(event) ->
            IF AddRefused(acc.pending, event.token)
            THEN [acc EXCEPT !.failed = TRUE]
            ELSE [acc EXCEPT !.pending =
                    add(@, event.token, entry(table, event.token).key,
                        event.readiness)]

Coalesced ==
    LET after[n \in 0..Len(batch)] ==
            IF n = 0 THEN [pending |-> pending, failed |-> FALSE]
                     ELSE Gathered(after[n - 1], raw(n))
    IN  after[Len(batch)]

\* Mutant: room for the wake is not kept.
resource_limit_NoRoom == EventCapacity

\* `event_capacity - usize::from(woke)'.
resource_limit == EventCapacity - (IF woke THEN 1 ELSE 0)

ToDeliver(entries) ==
    Delivered(entries, Smaller(Len(entries), resource_limit))

\* prepare_disarms: a plan for each one-shot registration delivered.
prepare_disarms(entries) ==
    LET shots == OneShots(table, entries)
        PlanOf(id) == Plan(id, entry(table, id).descriptor,
                           entry(table, id).interest)
        plans == [n \in 1..Len(shots) |->
                     PlanOf(entries[shots[n]].registration)]
    IN  [plans  |-> plans,
         failed |-> \/ \E n \in 1..Len(entries) :
                           binding(table, entries[n].registration, FALSE) # "Ok"
                    \/ \E n \in 1..Len(plans) :
                           PushRefused(SubSeq(plans, 1, n - 1), plans[n].interest)]

\* submit_disarms: the knotes it leaves and the outcomes; with nothing to
\* disable the kernel is not called.
submit_disarms(plans) ==
    IF plans = <<>>
    THEN {[knotes |-> knotes, plans |-> <<>>, failed |-> FALSE]}
    ELSE {LET o == submit(plans, s.native)
          IN  [knotes |-> Applied(knotes, changes(plans), s.took),
               plans |-> o.plans, failed |-> o.failed] :
             s \in Submissions(knotes, changes(plans))}

\* Event::Resource; `of' names the registration, for the properties.
Output(entries) ==
    [n \in 1..Len(entries) |-> [key |-> entries[n].key, of |-> entries[n].registration,
                                readiness |-> entries[n].readiness]]
\* Events::try_push refuses the last of these.
PushOverflows(out) == Len(out) > EventCapacity

WakeEvent == [key |-> UserPlace, of |-> 0, readiness |-> {}]

\* An error: nothing is delivered, the batch is gone.
Abandoned ==
    /\ events' = <<>>
    /\ result' = Ended("Invariant")
    /\ UNCHANGED <<table, knotes, queue, notified>>

RecoveryOutcome(plan) ==
    [registration |-> plan.registration, state |-> OutcomeState(plan.commit)]

\* Mutant: only what went wrong is reported.
RecoveryFailure_Unproven(plans) ==
    LET unproven == Chosen(Len(plans),
                           {n \in 1..Len(plans) : plans[n].commit # "Applied"})
    IN  [kind |-> "Recovery",
         outcomes |-> [n \in 1..Len(unproven) |->
                          RecoveryOutcome(plans[unproven[n]])]]

RecoveryFailure(plans) ==
    [kind |-> "Recovery",
     outcomes |-> [n \in 1..Len(plans) |-> RecoveryOutcome(plans[n])]]

\* finish, after a disarm submission that ended in o.
finish(entries, o) ==
    LET out == Output(entries) \o (IF woke THEN <<WakeEvent>> ELSE <<>>)
        ok == /\ validate(table, entries, o.plans, o.failed)
              /\ ~PushOverflows(out)
        disarmed == Disarmed(table, o.plans)
        fails == ~ok \/ disarmed.failed
    IN  /\ knotes' = o.knotes
        /\ queue' = Only(queue, {p \in Places : Active(o.knotes, sources, p)})
        /\ table' = IF ok THEN disarmed.table ELSE table
        /\ events' = IF fails THEN <<>> ELSE out
        /\ notified' = (notified /\ (fails \/ ~woke \/ triggered))
        /\ result' = IF fails THEN Ended("Invariant")
                     ELSE IF o.failed THEN RecoveryFailure(o.plans)
                     ELSE Ended("Ok")

\* The rest of Poll::wait: translate_kqueue, and pending is cleared again.  The
\* entries are bound, and not defined, for TLC to work them out once.
Deliver ==
    /\ ~Idle
    /\ batch' = None
    /\ pending' = clear(Coalesced.pending)
    /\ UNCHANGED <<sources, triggered>>
    /\ \E entries \in {ToDeliver(Coalesced.pending.entries)} :
          IF Coalesced.failed \/ prepare_disarms(entries).failed
          THEN Abandoned
          ELSE \E o \in submit_disarms(prepare_disarms(entries).plans) :
                  finish(entries, o)

------------------------------------------------------------------------------
(* The environment.                                                        *)

\* While a wait is under way this would change the queue only, and can as well
\* happen after it; a source nobody watches keeps for a later registration what
\* it showed last.
Source(d, f, s) ==
    /\ Idle
    /\ \E i \in Occupants : table.slots[i].entry.descriptor = d
    /\ sources[<<d, f>>] # s
    /\ sources' = [sources EXCEPT ![<<d, f>>] = s]
    /\ queue' = Refreshed(queue, knotes, sources', d)
    /\ UNCHANGED <<table, knotes, triggered, pending, batch, notified>>
    /\ NoReport

\* Wake::wake: the trigger, with a receipt.
wake ==
    LET trigger == <<Change(0, "User", "Trigger", 0)>>
        ends == {[took |-> s.took # {}, ok |-> exact(s.native, trigger, FALSE)] :
                    s \in Submissions(knotes, trigger)}
    IN  \E end \in ends :
            /\ triggered' = (triggered \/ end.took)
            /\ notified' = (notified \/ end.ok)
            /\ UNCHANGED <<table, knotes, sources, queue, pending, batch>>
            /\ NoReport

KnoteLost(p) ==
    /\ Cardinality({q \in Places : knotes[q] = Lost}) < MaxLost
    /\ p # UserPlace
    /\ ~Absent(knotes[p])
    /\ knotes' = [knotes EXCEPT ![p] = Lost]
    /\ queue' = Only(queue, Places \ {p})
    /\ UNCHANGED <<table, sources, triggered, pending, batch, notified>>
    /\ NoReport

Mutations ==
    \E interest \in InterestRequests, mode \in ModeRequests :
        \/ \E d \in Descriptors, key \in Keys : Register(d, key, interest, mode)
        \/ \E i \in Index : Modify(i, interest, mode)

Uncertain == {i \in Occupants : table.slots[i].entry.state = "Uncertain"}
WithinBound == Cardinality(Uncertain) <= MaxUncertain

Next ==
    \/ WithinBound /\ Mutations
    \/ \E i \in Index : Delete(i)
    \/ Observe
    \/ WaitFails
    \/ Deliver
    \/ \E p \in Watchable, s \in Sightings \cup {None} : Source(p[1], p[2], s)
    \/ wake
    \/ \E p \in Places : KnoteLost(p)

Spec == Init /\ [][Next]_vars

\* The caller of Poll keeps waiting.  No bound stands in the way of a wait, so
\* this asks for nothing else, not even that uncertain registrations go away.
FairSpec == Spec /\ WF_vars(Observe \/ Deliver)

------------------------------------------------------------------------------
(* Properties.                                                             *)

\* Every variable has its type; by_slot points at entries of the batch only
\* (KqueuePending::clear).
TypeOK ==
    /\ table \in Table
    /\ \A p \in Places : Absent(knotes[p]) \/ knotes[p] \in Knote
    /\ \A p \in Places : sources[p] = None \/ sources[p] \in Sighting
    /\ \A n \in 1..Len(queue) : queue[n] \in Descriptors \X Filters
    /\ pending.by_slot \in [Index -> 0..(Len(pending.entries) - 1) \cup {EMPTY}]
    /\ notified \in BOOLEAN
    /\ Len(events) <= EventCapacity
    /\ \A n \in 1..Len(events) : events[n].readiness \in Readiness

\* What knote k, for filter f of the entry e under token id, should be.
Fits(id, e, f, k) ==
    e.state # "Uncertain" =>
        IF Wanted(e.interest, f)
        THEN \/ k = Lost
             \/ /\ k # None
                /\ k.enabled = (e.state = "Armed")
                /\ k.enabled => k.token = id
        ELSE Absent(k)

\* What table t says of the registrations is what the kernel holds.
Agree(t, ks) ==
    \A d \in Descriptors, f \in Filters :
        LET here == {i \in Index : /\ t.slots[i].entry # None
                                   /\ t.slots[i].entry.descriptor = d}
        IN  /\ here = {} => Absent(ks[<<d, f>>])
            /\ \A i \in here : Fits(encode(i, t.slots[i].generation),
                                  t.slots[i].entry, f, ks[<<d, f>>])

\* The commit statuses the backend reports are true: a descriptor nobody has
\* registered has no knote, and a registration whose state is known has exactly
\* the filters of its interest, enabled under its token when armed and disabled
\* when disarmed, whichever submissions, cleanups, rollbacks and disables
\* failed half-way (kqueue_policy.rs, kqueue_disarm.rs).
FiltersAgree ==
    /\ TypeOK
    /\ Agree(table, knotes)

\* The native batch has room for everything the kernel can report, so that an
\* event carries the whole of what was observed: no failed registration or
\* deletion leaves knotes that crowd out others (RawBatch::new).
ObservationComplete == Len(queue) + 1 <= complete_observation_capacity

\* A wake that returned is in the kernel or in the batch under way until it is
\* reported, although the batch is cut to the event capacity.
WakeKept == notified => triggered \/ (~Idle /\ woke)

\* The step that ends a wait.
Delivering == ~Idle /\ batch' = None

CountedFor(id) == {n \in 1..Len(batch) : Counts(raw(n)) /\ raw(n).token = id}
FirstOf(id) == CHOOSE n \in CountedFor(id) : \A m \in CountedFor(id) : n <= m
Seen == {raw(n).token : n \in {m \in 1..Len(batch) : Counts(raw(m))}}

\* The delivered events are those of a direct definition: one for each
\* registration seen, with all its hints, in the order of first observation,
\* as many as there is room for, and the wake last.  In particular no wait fails
\* inside zio after the kernel has handed out the batch: by_slot names only
\* members of this batch, there is a plan for every one-shot registration
\* delivered and room for it, the outcomes match the delivery.
CoalescedExactly ==
    [][Delivering =>
        LET wakes == IF woke THEN 1 ELSE 0
            n == Len(events') - wakes
        IN  /\ result'.kind # "Invariant"
            /\ n = Smaller(Cardinality(Seen), EventCapacity - wakes)
            /\ \A k \in 1..n :
                   /\ events'[k].of \in Seen
                   /\ events'[k].readiness =
                          UNION {raw(m).readiness :
                                    m \in CountedFor(events'[k].of)}
                   /\ Cardinality({id \in Seen : FirstOf(id) < FirstOf(events'[k].of)})
                          = k - 1
            /\ woke => events'[n + 1] = WakeEvent]_vars

Delivers(id) == \E n \in 1..Len(events') : events'[n].of = id

\* A wait delivers only armed registrations; it disarms the one-shot ones it
\* delivers, or reports a recovery failure and leaves each of those armed or
\* uncertain; it touches no other.
OneShotOnce ==
    [][Delivering =>
        LET Shot(i) == /\ table.slots[i].entry.mode = "OneShot"
                       /\ Delivers(IdOf(i))
        IN  /\ \A i \in Occupants :
                   /\ Delivers(IdOf(i)) => table.slots[i].entry.state = "Armed"
                   /\ ~Shot(i) => table'.slots[i] = table.slots[i]
            /\ result'.kind = "Recovery" <=>
                   \E i \in Occupants :
                       Shot(i) /\ table'.slots[i].entry.state # "Disarmed"]_vars

\* A recovery failure lists every one-shot registration of the batch, in the
\* order of delivery and each with the state the table now has: level ones in
\* between do not shift the outcomes (finish, RecoveryFailure::outcomes).
RecoveryTrue ==
    [][Delivering /\ result'.kind = "Recovery" =>
        LET resources == Len(events') - (IF woke THEN 1 ELSE 0)
            shots == Chosen(resources,
                            {n \in 1..resources :
                                entry(table, events'[n].of).mode = "OneShot"})
        IN  /\ Len(result'.outcomes) = Len(shots)
            /\ \A n \in 1..Len(shots) :
                   LET id == events'[shots[n]].of
                   IN  result'.outcomes[n] =
                          [registration |-> id, state |-> entry(table', id).state]]_vars

Wants(d) == \E i \in Occupants, f \in Filters :
                /\ table.slots[i].entry.descriptor = d
                /\ table.slots[i].entry.state = "Armed"
                /\ Active(knotes, sources, <<d, f>>)
JustDelivered(d) ==
    \E n \in 1..Len(events), i \in Occupants :
        events[n].of = IdOf(i) /\ table.slots[i].entry.descriptor = d

\* A source that stays ready is reported again and again.
LevelReported ==
    \A d \in Descriptors : []<>(Wants(d) => JustDelivered(d))

\* The contract's sentence for level mode: "Level mode reports while a source
\* remains ready" (docs/contracts.md), as long as the caller keeps waiting and
\* whatever the other sources do, once no waker takes an event's room.  It holds
\* when the registrations fit the event capacity, and fails when they do not
\* (KqueuePending::add).
ReportsWhileReady == <>[](~triggered) => LevelReported

\* A wake that returned is reported, as long as the caller keeps waiting,
\* although ready sources fill the batch that it comes with to the event
\* capacity (translate_kqueue's resource_limit).
WakeReported == notified ~> \E n \in 1..Len(events) : events[n] = WakeEvent

------------------------------------------------------------------------------
(* The inductive invariant.  Tables and knotes agree only as long as no    *)
(* wait fails inside zio after its second call of kevent; that none does   *)
(* rests on the rest of this.                                              *)

\* No two registrations share a descriptor, and each asks for a filter.
Apart(t) ==
    \A i \in Index : t.slots[i].entry # None =>
        /\ t.slots[i].entry.interest # {}
        /\ \A j \in Index :
              /\ t.slots[j].entry # None
              /\ t.slots[j].entry.descriptor = t.slots[i].entry.descriptor
              => i = j

KnotesTyped(ks) ==
    /\ ks \in [Places -> Knote \cup {None, Lost}]
    /\ ks[UserPlace] = [token |-> 0, enabled |-> TRUE]

Queued(ks, ss, q) ==
    /\ q \in Seq(Descriptors \X Filters)
    /\ OnceEach(q)
    /\ \A n \in 1..Len(q) : Active(ks, ss, q[n])

\* A record in the batch is of the wake or of a descriptor; when what it is
\* registered as is certain, it is armed and the record carries its token.
Observed(t, k) ==
    IF k.filter = "User" THEN k.token = 0
    ELSE /\ k.sighting \in Sighting
         /\ \A i \in Index :
               /\ t.slots[i].entry # None
               /\ t.slots[i].entry.descriptor = k.ident
               /\ t.slots[i].entry.state # "Uncertain"
               => /\ t.slots[i].entry.state = "Armed"
                  /\ k.token = encode(i, t.slots[i].generation)

ObservedBatch(t, b) ==
    \E n \in 0..complete_observation_capacity :
        /\ b \in [1..n -> RawRecord]
        /\ \A k \in 1..n : Observed(t, b[k])

Reported(es) == /\ Len(es) <= EventCapacity
                /\ \A n \in 1..Len(es) : es[n].readiness \in Readiness

Inv ==
    /\ TableInv(table)
    /\ Apart(table)
    /\ KnotesTyped(knotes)
    /\ Agree(table, knotes)
    /\ sources \in [Places -> Sighting \cup {None}]
    /\ sources[UserPlace] = None
    /\ Queued(knotes, sources, queue)
    /\ triggered \in BOOLEAN
    /\ pending = pending_new
    /\ ~Idle => ObservedBatch(table, batch)
    /\ notified \in BOOLEAN
    /\ WakeKept
    /\ Reported(events)
==============================================================================
