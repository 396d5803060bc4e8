------------------------------ MODULE LinuxPoll ------------------------------
(***************************************************************************)
(* A Poll over epoll: sys/linux_group/backend.rs and epoll.rs, observe.rs, *)
(* and the mutation machine's calls of that backend.                       *)
(*                                                                         *)
(* The kernel's side is epoll as the code uses it: an item per descriptor  *)
(* added, holding the token and the event mask, and a ready list served    *)
(* from its head.  An item found ready is reported; a level item goes back *)
(* to the tail, a one-shot item loses its mask until it is modified, and   *)
(* an edge item waits for the next edge.  The sources change and the waker *)
(* fires between calls; a call of Poll is one step.  Rejected handles and  *)
(* poll identities are the subject of Mutation, the eventfd of Wake.       *)
(***************************************************************************)
EXTENDS Settlement, Lists

CONSTANTS
    EventCapacity,     \* Poll::event_capacity
    WakeFd,            \* the eventfd
    Conditions,        \* epoll event bits the sources may raise
    InterestRequests,  \* interests callers ask for
    ModeRequests       \* modes callers ask for

Bits == {"EPOLLIN", "EPOLLPRI", "EPOLLOUT", "EPOLLRDHUP", "EPOLLHUP",
         "EPOLLERR"}
Fds == Descriptors \cup {WakeFd}

ASSUME CapacityAssumption == EventCapacity \in Nat \ {0}
ASSUME SourcesAssumption == /\ WakeFd \notin Descriptors
                            /\ Conditions \subseteq Bits
ASSUME RequestsAssumption == /\ InterestRequests \subseteq Interests \ {{}}
                             /\ ModeRequests \subseteq Modes

VARIABLES
    table,       \* registrations: RegistrationTable
    items,       \* epoll's item for each descriptor, or None
    rdllist,     \* epoll's ready list
    conditions,  \* the event bits that hold of each descriptor
    notified,    \* a wake has returned and not been reported since
    events,      \* what the last step delivered to the caller
    result       \* what the last step, if it was a wait, returned

vars == <<table, items, rdllist, conditions, notified, events, result>>

------------------------------------------------------------------------------
(* Conversions of backend.rs.                                              *)

\* Mutant: a level registration is made edge-triggered.
epoll_flags_Edge(interest, mode) ==
    {"EPOLLRDHUP"}
        \cup {"EPOLLIN" : x \in interest \cap {"READABLE"}}
        \cup {"EPOLLOUT" : x \in interest \cap {"WRITABLE"}}
        \cup (IF mode = "OneShot" THEN {"EPOLLONESHOT"} ELSE {"EPOLLET"})

epoll_flags(interest, mode) ==
    {"EPOLLRDHUP"}
        \cup {"EPOLLIN" : x \in interest \cap {"READABLE"}}
        \cup {"EPOLLOUT" : x \in interest \cap {"WRITABLE"}}
        \cup (IF mode = "OneShot" THEN {"EPOLLONESHOT"} ELSE {})

from_epoll_flags(flags) ==
    LET If(bits, hint) == IF flags \cap bits # {} THEN {hint} ELSE {}
    IN  If({"EPOLLIN", "EPOLLPRI"}, "READABLE")
            \cup If({"EPOLLOUT"}, "WRITABLE")
            \cup If({"EPOLLRDHUP", "EPOLLHUP"}, "READ_CLOSED")
            \cup If({"EPOLLHUP"}, "WRITE_CLOSED")
            \cup If({"EPOLLERR"}, "ERROR")

------------------------------------------------------------------------------
(* The kernel.  epoll_ctl adds ERR and HUP to every mask.                  *)

Item(token, flags) ==
    [token |-> token, mask |-> flags \cup {"EPOLLERR", "EPOLLHUP"}]

\* The eventfd is added at construction, edge-triggered, and stays.
WakeItem == Item(0, {"EPOLLIN", "EPOLLET"})

\* What epoll would report of descriptor fd.
revents(is, cs, fd) == IF is[fd] = None THEN {} ELSE cs[fd] \cap is[fd].mask

Queued(list, fd) == IF Listed(list, fd) THEN list ELSE Append(list, fd)

\* epoll_ctl ADD and MOD look at the source, and queue an item that is ready.
Set(fd, item) ==
    /\ items' = [items EXCEPT ![fd] = item]
    /\ rdllist' = IF revents(items', conditions, fd) # {}
                  THEN Queued(rdllist, fd) ELSE rdllist

Unset(fd) ==
    /\ items' = [items EXCEPT ![fd] = None]
    /\ rdllist' = Only(rdllist, Fds \ {fd})

Kept == UNCHANGED <<items, rdllist>>

\* epoll_wait: the ready items in list order, as many as there is room for;
\* those in front of the last one taken that are not ready leave the list.
Ready == {fd \in Fds : revents(items, conditions, fd) # {}}
Found == Only(rdllist, Ready)
Taken == SubSeq(Found, 1, IF Len(Found) < EventCapacity THEN Len(Found)
                                                        ELSE EventCapacity)
Cut == IF Len(Found) < EventCapacity
       THEN Len(rdllist)
       ELSE CHOOSE n \in 1..Len(rdllist) : rdllist[n] = Found[EventCapacity]

IsTaken(fd) == Listed(Taken, fd)
Requeued == {fd \in Fds : /\ IsTaken(fd)
                          /\ items[fd].mask \cap {"EPOLLONESHOT", "EPOLLET"} = {}}

epoll_wait ==
    /\ rdllist' = SubSeq(rdllist, Cut + 1, Len(rdllist))
                      \o Only(Taken, Requeued)
    /\ items' = [fd \in Fds |->
                    IF IsTaken(fd) /\ "EPOLLONESHOT" \in items[fd].mask
                    THEN [items[fd] EXCEPT !.mask = {"EPOLLONESHOT"}]
                    ELSE items[fd]]

------------------------------------------------------------------------------
(* Registration, through the mutation machine.  Every failure of epoll_ctl *)
(* is reported as NotApplied.                                              *)

not_applied == "NotApplied"
Answers == {"Success", not_applied}

\* A step that is not a wait delivers nothing.
NoReport == events' = <<>> /\ result' = None

Occupants == {i \in Index : table.slots[i].entry # None}
IdOf(i) == encode(i, table.slots[i].generation)

Init ==
    /\ table = new
    /\ items = [fd \in Fds |->
                   IF fd = WakeFd THEN WakeItem ELSE None]
    /\ rdllist = <<>>
    /\ conditions = [fd \in Fds |-> {}]
    /\ notified = FALSE
    /\ events = <<>>
    /\ result = None

\* The descriptor is a fresh duplicate, or one that the caller lends once.
Register(d, key, interest, mode, answer) ==
    LET i == Permit(table).index
        id == encode(i, Permit(table).generation)
        reserved == reserve_with(table, registered(d, key, interest, mode))
    IN  /\ PermitStatus(table) = "Ok"
        /\ \A j \in Occupants : table.slots[j].entry.descriptor # d
        /\ table' = SettledRegister(reserved, i, answer)
        /\ IF answer = "Success" THEN Set(d, Item(id, epoll_flags(interest, mode)))
                                 ELSE Kept
        /\ UNCHANGED <<conditions, notified>>
        /\ NoReport

Modify(i, interest, mode, answer) ==
    LET d == table.slots[i].entry.descriptor
    IN  /\ i \in Occupants
        /\ table' = SettledModify(table, i, interest, mode, answer)
        /\ IF answer = "Success"
           THEN Set(d, Item(IdOf(i), epoll_flags(interest, mode)))
           ELSE Kept
        /\ UNCHANGED <<conditions, notified>>
        /\ NoReport

Delete(i, answer) ==
    LET d == table.slots[i].entry.descriptor
    IN  /\ i \in Occupants
        /\ table' = SettledDelete(table, i, answer)
        /\ IF answer = "Success" THEN Unset(d) ELSE Kept
        /\ UNCHANGED <<conditions, notified>>
        /\ NoReport

------------------------------------------------------------------------------
(* Observation.                                                            *)

\* Event::Resource; `of' names the registration, for the properties.
ResourceEvent(e, id, flags) ==
    [key |-> e.key, readiness |-> from_epoll_flags(flags), of |-> id]
WakeEvent == [key |-> WakeFd, readiness |-> {}, of |-> 0]

\* Mutant: hints nobody asked for are filtered out, after the disarm.
translate_Filtered(acc, fd) ==
    LET token == items[fd].token
        i == decode(token).index
        flags == revents(items, conditions, fd)
    IN  IF token = 0 THEN [acc EXCEPT !.woke = TRUE]
        ELSE IF acc.failed \/ ~Resolves(acc.table, token) THEN acc
        ELSE LET e == entry(acc.table, token)
             IN  [acc EXCEPT
                    !.table = IF e.mode = "OneShot"
                              THEN apply_disarm(@, i, "Applied") ELSE @,
                    !.resources =
                        IF from_epoll_flags(flags) \cap e.interest = {} THEN @
                        ELSE Append(@, ResourceEvent(e, token, flags))]

\* Mutant: a one-shot registration is not disarmed in the table.
translate_NotDisarmed(acc, fd) ==
    LET token == items[fd].token
        flags == revents(items, conditions, fd)
    IN  IF token = 0 THEN [acc EXCEPT !.woke = TRUE]
        ELSE IF acc.failed \/ ~Resolves(acc.table, token) THEN acc
        ELSE [acc EXCEPT !.resources = Append(@,
                  ResourceEvent(entry(acc.table, token), token, flags))]

\* One round of EpollBatch::translate, with the closure of translate_linux: a
\* token that does not resolve is skipped, a one-shot registration is disarmed
\* before its event is written, and a refused disarm ends the translation.
translate(acc, fd) ==
    LET token == items[fd].token
        i == decode(token).index
        flags == revents(items, conditions, fd)
    IN  CASE acc.failed -> acc
          [] ~acc.failed /\ token = 0 -> [acc EXCEPT !.woke = TRUE]
          [] ~acc.failed /\ token # 0 ->
              IF ~Resolves(acc.table, token) THEN acc
              ELSE LET e == entry(acc.table, token)
                       event == ResourceEvent(e, token, flags)
                   IN  IF e.mode = "OneShot" /\ DisarmRefused(acc.table, i)
                       THEN [acc EXCEPT !.failed = TRUE]
                       ELSE [acc EXCEPT
                               !.table = IF e.mode = "OneShot"
                                         THEN apply_disarm(@, i, "Applied")
                                         ELSE @,
                               !.resources = Append(@, event)]

Untranslated ==
    [table |-> table, resources |-> <<>>, woke |-> FALSE, failed |-> FALSE]

Translated ==
    LET after[n \in 0..Len(Taken)] ==
            IF n = 0 THEN Untranslated ELSE translate(after[n - 1], Taken[n])
    IN  after[Len(Taken)]

\* Mutant: the wake is left out when the batch is one short of full.
Output_WakeSqueezed(acc) ==
    IF acc.woke /\ Len(acc.resources) + 1 < EventCapacity
    THEN Append(acc.resources, WakeEvent) ELSE acc.resources

\* The wake follows the resources.
Output(acc) ==
    IF acc.woke THEN Append(acc.resources, WakeEvent) ELSE acc.resources

Delivers(id) == \E n \in 1..Len(events') : events'[n].of = id

\* Poll::wait; an error leaves the destination empty.
Wait ==
    LET acc == Translated
    IN  /\ epoll_wait
        /\ table' = acc.table
        /\ events' = IF acc.failed THEN <<>> ELSE Output(acc)
        /\ notified' = (notified /\ ~Delivers(0))
        /\ result' = IF acc.failed THEN "Invariant" ELSE "Ok"
        /\ UNCHANGED conditions

\* The destination is too small, or epoll_wait is interrupted: nothing is taken.
WaitFails ==
    /\ events' = <<>>
    /\ result' = "Io"
    /\ UNCHANGED <<table, items, rdllist, conditions, notified>>

------------------------------------------------------------------------------
(* The environment: sources become ready and stop being ready, and other   *)
(* threads wake the poller.                                                *)

Source(d, cs) ==
    /\ conditions[d] # cs
    /\ conditions' = [conditions EXCEPT ![d] = cs]
    /\ rdllist' = IF items[d] # None /\ (cs \ conditions[d]) \cap items[d].mask # {}
                  THEN Queued(rdllist, d) ELSE rdllist
    /\ UNCHANGED <<table, items, notified>>
    /\ NoReport

wake ==
    /\ conditions' = [conditions EXCEPT ![WakeFd] = {"EPOLLIN"}]
    /\ rdllist' = Queued(rdllist, WakeFd)
    /\ notified' = TRUE
    /\ UNCHANGED <<table, items>>
    /\ NoReport

Mutations ==
    \E interest \in InterestRequests, mode \in ModeRequests, answer \in Answers :
        \/ \E d \in Descriptors, key \in Keys : Register(d, key, interest, mode, answer)
        \/ \E i \in Index : Modify(i, interest, mode, answer)

Next ==
    \/ Mutations
    \/ \E i \in Index, answer \in Answers : Delete(i, answer)
    \/ Wait
    \/ WaitFails
    \/ \E d \in Descriptors, cs \in SUBSET Conditions : Source(d, cs)
    \/ wake

Spec == Init /\ [][Next]_vars

\* The caller of Poll keeps waiting.
FairSpec == Spec /\ WF_vars(Wait)

------------------------------------------------------------------------------
(* Properties.                                                             *)

\* Every variable has its type.
TypeOK ==
    /\ table \in Table
    /\ \A fd \in Fds : items[fd] = None \/ items[fd].token \in Nat
    /\ \A n \in 1..Len(rdllist) : rdllist[n] \in Fds
    /\ conditions \in [Fds -> SUBSET Bits]
    /\ notified \in BOOLEAN
    /\ Len(events) <= EventCapacity
    /\ \A n \in 1..Len(events) : events[n].readiness \in Readiness

\* What table t says of slot i, as the kernel should hold it.
Expected(t, i) ==
    LET e == t.slots[i].entry
    IN  [token |-> encode(i, t.slots[i].generation),
         mask  |-> IF e.state = "Armed"
                   THEN Item(0, epoll_flags(e.interest, e.mode)).mask
                   ELSE {"EPOLLONESHOT"}]

\* Epoll holds an item for exactly the live registrations, under the token and
\* with the interest and mode the table has, and disabled exactly when the
\* table says disarmed: translate_linux mirrors what EPOLLONESHOT did inside
\* epoll_wait, and a failed epoll_ctl changes neither side.
KernelAgrees ==
    /\ TypeOK
    /\ \A d \in Descriptors :
           LET here == {i \in Occupants : table.slots[i].entry.descriptor = d}
           IN  IF here = {} THEN items[d] = None
               ELSE \A i \in here : items[d] = Expected(table, i)

\* Each record epoll hands out becomes exactly one event within the capacity,
\* wake included, with a hint to act on; none is dropped on the way, and no
\* record makes apply_disarm refuse, which would throw the batch away after
\* epoll has consumed it (observe.rs, Poll::wait).
NothingLost ==
    [][Wait => /\ Len(events') = Len(Taken)
               /\ \A n \in 1..Len(events') :
                      events'[n].readiness = {} => events'[n].of = 0
               /\ \A m, n \in 1..Len(events') :
                      events'[m].of = events'[n].of => m = n]_vars

\* A wait delivers only armed registrations, and disarms the one-shot ones it
\* delivers and nothing else.
OneShotOnce ==
    [][Wait => \A i \in Occupants :
           LET e == table.slots[i].entry
           IN  /\ Delivers(IdOf(i)) => e.state = "Armed"
               /\ table'.slots[i].entry.state =
                     IF Delivers(IdOf(i)) /\ e.mode = "OneShot"
                     THEN "Disarmed" ELSE e.state]_vars

Wants(d) == d \in Descriptors /\ revents(items, conditions, d) # {}
JustDelivered(d) == \E n \in 1..Len(events) : events[n].of = items[d].token

\* No starvation: as long as the caller keeps waiting, a source that stays
\* ready is reported again and again, however small the event capacity and
\* whatever the other sources and the wakers do.
LevelReported ==
    \A d \in Descriptors : []<>(Wants(d) => JustDelivered(d))

\* A wake is reported although the ready sources could fill every batch.
WakeReported == notified ~> ~notified

------------------------------------------------------------------------------
(* The inductive invariant behind KernelAgrees.  Nothing epoll does is     *)
(* ever unknown, no two registrations share a descriptor, and the ready    *)
(* list holds each item once: otherwise one wait could report a one-shot   *)
(* registration twice, and the second disarm would be refused.             *)

Mirrors(t, is) ==
    /\ \A i \in Index : t.slots[i].entry # None =>
           LET e == t.slots[i].entry
           IN  /\ e.state # "Uncertain"
               /\ is[e.descriptor] = Expected(t, i)
               /\ \A j \in Index :
                      /\ t.slots[j].entry # None
                      /\ t.slots[j].entry.descriptor = e.descriptor
                      => i = j
    /\ \A d \in Descriptors :
           (\A i \in Index : t.slots[i].entry # None =>
                                 t.slots[i].entry.descriptor # d)
               => is[d] = None

Reported(es) == /\ Len(es) <= EventCapacity
                /\ \A n \in 1..Len(es) : es[n].readiness \in Readiness

Inv ==
    /\ TableInv(table)
    /\ Mirrors(table, items)
    /\ items = [fd \in Fds |-> items[fd]]
    /\ items[WakeFd] = WakeItem
    /\ rdllist \in Seq(Fds)
    /\ OnceEach(rdllist)
    /\ conditions \in [Fds -> SUBSET Bits]
    /\ notified \in BOOLEAN
    /\ Reported(events)
==============================================================================
