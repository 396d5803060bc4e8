--------------------------- MODULE LinuxPollProofs ---------------------------
(***************************************************************************)
(* Proofs about LinuxPoll, for every number of descriptors, registrations  *)
(* and generations and every event capacity: epoll's items mirror the      *)
(* table, every record epoll hands out becomes an event, and a wait        *)
(* disarms exactly the one-shot registrations it delivers.                 *)
(***************************************************************************)
EXTENDS LinuxPoll, TableProofs

------------------------------------------------------------------------------
(* The table and the items change together.                                *)

\* An item as a record, and what one-shot delivery leaves of it.
LEMMA ExpectedItem ==
    ASSUME NEW t, NEW i
    PROVE  /\ Expected(t, i).token = encode(i, t.slots[i].generation)
           /\ [Expected(t, i) EXCEPT !.mask = {"EPOLLONESHOT"}] =
                 [token |-> encode(i, t.slots[i].generation),
                  mask  |-> {"EPOLLONESHOT"}]
  <1> DEFINE e == t.slots[i].entry
             token == encode(i, t.slots[i].generation)
             mask == IF e.state = "Armed"
                     THEN Item(0, epoll_flags(e.interest, e.mode)).mask
                     ELSE {"EPOLLONESHOT"}
  <1>1. Expected(t, i) = [token |-> token, mask |-> mask]
    BY DEF Expected
  <1> HIDE DEF token, mask
  <1> QED
    BY <1>1 DEF token

\* A slot that keeps its occupant, or stays empty, needs no other item.
LEMMA SameItem ==
    ASSUME NEW t, NEW u, NEW is, Mirrors(t, is), NEW i \in Index, NEW g,
           SlotBecomes(t, u, i, g, t.slots[i].entry),
           t.slots[i].entry = None \/ g = t.slots[i].generation
    PROVE  Mirrors(u, is)
  <1>1. \A j \in Index : u.slots[j].entry = t.slots[j].entry
    BY DEF SlotBecomes
  <1>2. \A j \in Index : u.slots[j].entry # None =>
                            u.slots[j].generation = t.slots[j].generation
    BY DEF SlotBecomes
  <1>3. \A j \in Index : u.slots[j].entry # None => Expected(u, j) = Expected(t, j)
    BY <1>1, <1>2 DEF Expected
  <1> QED
    BY <1>1, <1>3 DEF Mirrors

\* A slot that gets an occupant, or changes it, with the item epoll_ctl ADD or
\* MOD is given.
LEMMA NewItem ==
    ASSUME NEW t, NEW u, NEW is, Mirrors(t, is), is = [fd \in Fds |-> is[fd]],
           NEW i \in Index, NEW g, NEW e \in Entry, SlotBecomes(t, u, i, g, e),
           e.state # "Uncertain",
           t.slots[i].entry = None \/ t.slots[i].entry.descriptor = e.descriptor,
           \A j \in Index : /\ t.slots[j].entry # None
                            /\ t.slots[j].entry.descriptor = e.descriptor
                            => i = j
    PROVE  Mirrors(u, [is EXCEPT ![e.descriptor] = Expected(u, i)])
  <1> DEFINE d == e.descriptor
             js == [is EXCEPT ![d] = Expected(u, i)]
  <1>1. d \in Descriptors /\ d \in Fds /\ e # None
    BY NoneAssumption DEF Entry, Fds
  <1>2. js[d] = Expected(u, i) /\ \A fd \in Fds : fd # d => js[fd] = is[fd]
    BY <1>1
  <1>3. /\ u.slots[i].entry = e
        /\ \A j \in Index : j # i => u.slots[j] = t.slots[j]
        /\ \A j \in Index : u.slots[j].entry # None => u.slots[j].entry \in Entry
    BY DEF SlotBecomes, TableInv, Table, Slot
  <1> HIDE DEF js
  <1>4. ASSUME NEW j \in Index, j # i, u.slots[j].entry # None
        PROVE  /\ u.slots[j].entry.descriptor \in Descriptors
               /\ u.slots[j].entry.descriptor # d
               /\ u.slots[j].entry.state # "Uncertain"
               /\ js[u.slots[j].entry.descriptor] = Expected(u, j)
    <2>1. u.slots[j] = t.slots[j] /\ u.slots[j].entry \in Entry
      BY <1>3, <1>4
    <2>2. u.slots[j].entry.descriptor \in Descriptors
      BY <2>1 DEF Entry
    <2>3. u.slots[j].entry.descriptor # d
      BY <1>4, <2>1
    <2>4. Expected(u, j) = Expected(t, j)
      BY <2>1 DEF Expected
    <2>5. /\ is[t.slots[j].entry.descriptor] = Expected(t, j)
          /\ t.slots[j].entry.state # "Uncertain"
      BY <1>4, <2>1 DEF Mirrors
    <2> QED
      BY <1>2, <2>1, <2>2, <2>3, <2>4, <2>5 DEF Fds
  <1>5. ASSUME NEW j \in Index, u.slots[j].entry # None,
               NEW k \in Index, u.slots[k].entry # None,
               u.slots[j].entry.descriptor = u.slots[k].entry.descriptor
        PROVE  j = k
    <2>1. CASE j = i \/ k = i
      BY <1>3, <1>4, <1>5, <2>1
    <2>2. CASE j # i /\ k # i
      BY <1>3, <1>5, <2>2 DEF Mirrors
    <2> QED
      BY <2>1, <2>2
  <1>6. ASSUME NEW x \in Descriptors,
               \A j \in Index : u.slots[j].entry # None =>
                                    u.slots[j].entry.descriptor # x
        PROVE  js[x] = None
    <2>1. x # d
      BY <1>1, <1>3, <1>6
    <2>2. \A j \in Index : t.slots[j].entry # None => t.slots[j].entry.descriptor # x
      BY <1>3, <1>6, <2>1
    <2>3. is[x] = None
      BY <2>2 DEF Mirrors
    <2> QED
      BY <1>2, <2>1, <2>3 DEF Fds
  <1>7. u.slots[i].entry.state # "Uncertain" /\ js[d] = Expected(u, i)
    BY <1>2, <1>3
  <1>8. Mirrors(u, js)
    BY <1>3, <1>4, <1>5, <1>6, <1>7 DEF Mirrors
  <1> QED
    BY <1>8 DEF js

\* A slot that loses its occupant, with epoll_ctl DEL.
LEMMA NoItem ==
    ASSUME NEW t, TableInv(t), NEW u, NEW is, Mirrors(t, is),
           is = [fd \in Fds |-> is[fd]],
           NEW i \in Index, NEW g, SlotBecomes(t, u, i, g, None),
           t.slots[i].entry # None
    PROVE  Mirrors(u, [is EXCEPT ![t.slots[i].entry.descriptor] = None])
  <1> DEFINE d == t.slots[i].entry.descriptor
             js == [is EXCEPT ![d] = None]
  <1>1. \A j \in Index : t.slots[j].entry # None =>
                            t.slots[j].entry.descriptor \in Descriptors
    BY DEF TableInv, Table, Slot, Entry
  <1>2. d \in Fds
    BY <1>1 DEF Fds
  <1>3. js[d] = None /\ \A fd \in Fds : fd # d => js[fd] = is[fd]
    BY <1>2
  <1>4. /\ u.slots[i].entry = None
        /\ \A j \in Index : j # i => u.slots[j] = t.slots[j]
    BY DEF SlotBecomes
  <1> HIDE DEF js
  <1>5. ASSUME NEW j \in Index, u.slots[j].entry # None
        PROVE  /\ u.slots[j] = t.slots[j]
               /\ Expected(u, j) = Expected(t, j)
               /\ js[u.slots[j].entry.descriptor] = is[t.slots[j].entry.descriptor]
    <2>1. j # i /\ u.slots[j] = t.slots[j]
      BY <1>4, <1>5
    <2>2. t.slots[j].entry.descriptor # d
      BY <1>5, <2>1 DEF Mirrors
    <2> QED
      BY <1>1, <1>3, <1>5, <2>1, <2>2 DEF Expected, Fds
  <1>6. ASSUME NEW x \in Descriptors,
               \A j \in Index : u.slots[j].entry # None =>
                                    u.slots[j].entry.descriptor # x
        PROVE  js[x] = None
    <2>1. CASE x = d
      BY <1>3, <2>1
    <2>2. CASE x # d
      <3>1. \A j \in Index : t.slots[j].entry # None =>
                                t.slots[j].entry.descriptor # x
        BY <1>4, <1>6, <2>2
      <3>2. is[x] = None
        BY <3>1 DEF Mirrors
      <3> QED
        BY <1>3, <2>2, <3>2 DEF Fds
    <2> QED
      BY <2>1, <2>2
  <1>7. Mirrors(u, js)
    BY <1>5, <1>6 DEF Mirrors
  <1> QED
    BY <1>7 DEF js

------------------------------------------------------------------------------
(* The ready list.                                                         *)

\* An item that is queued again keeps its one place.
LEMMA QueuedOnce ==
    ASSUME NEW list \in Seq(Fds), OnceEach(list), NEW fd \in Fds
    PROVE  Queued(list, fd) \in Seq(Fds) /\ OnceEach(Queued(list, fd))
  <1>1. CASE Listed(list, fd)
    BY <1>1 DEF Queued
  <1>2. CASE ~Listed(list, fd)
    <2> DEFINE longer == Append(list, fd)
    <2>1. /\ longer \in Seq(Fds)
          /\ Len(list) \in Nat
          /\ Len(longer) = Len(list) + 1
          /\ \A n \in 1..Len(list) : longer[n] = list[n]
          /\ longer[Len(list) + 1] = fd
      BY AppendProperties
    <2>2. Queued(list, fd) = longer
      BY <1>2 DEF Queued
    <2> HIDE DEF longer
    <2>3. ASSUME NEW m \in 1..Len(longer), NEW n \in 1..Len(longer),
                 longer[m] = longer[n]
          PROVE  m = n
      <3>1. \A k \in 1..Len(longer) : k = Len(list) + 1 \/ k \in 1..Len(list)
        BY <2>1
      <3>2. \A k \in 1..Len(list) : longer[k] # fd
        BY <1>2, <2>1 DEF Listed
      <3>3. CASE m \in 1..Len(list) /\ n \in 1..Len(list)
        BY <2>1, <2>3, <3>3 DEF OnceEach
      <3> QED
        BY <2>1, <2>3, <3>1, <3>2, <3>3
    <2> QED
      BY <2>1, <2>2, <2>3 DEF OnceEach
  <1> QED
    BY <1>1, <1>2

\* What epoll_ctl does to the items and the list keeps their shape, unless it
\* is asked about the eventfd.
Shaped(is, list) ==
    /\ is = [fd \in Fds |-> is[fd]]
    /\ is[WakeFd] = WakeItem
    /\ list \in Seq(Fds)
    /\ OnceEach(list)

LEMMA SetShaped ==
    ASSUME Shaped(items, rdllist), NEW d \in Descriptors, NEW item, Set(d, item)
    PROVE  Shaped(items', rdllist')
  <1>1. d \in Fds /\ WakeFd \in Fds /\ d # WakeFd
    BY SourcesAssumption DEF Fds
  <1>2. /\ items' = [fd \in Fds |-> items'[fd]]
        /\ items'[WakeFd] = WakeItem
    BY <1>1 DEF Set, Shaped
  <1>3. rdllist' = rdllist \/ rdllist' = Queued(rdllist, d)
    BY DEF Set
  <1> QED
    BY <1>1, <1>2, <1>3, QueuedOnce DEF Shaped

LEMMA UnsetShaped ==
    ASSUME Shaped(items, rdllist), NEW d \in Descriptors, Unset(d)
    PROVE  Shaped(items', rdllist')
  <1>1. d \in Fds /\ WakeFd \in Fds /\ d # WakeFd
    BY SourcesAssumption DEF Fds
  <1>2. /\ items' = [fd \in Fds |-> items'[fd]]
        /\ items'[WakeFd] = WakeItem
    BY <1>1 DEF Unset, Shaped
  <1>3. rdllist' \in Seq(Fds) /\ OnceEach(rdllist')
    BY OnlyKept DEF Unset, Shaped
  <1> QED
    BY <1>2, <1>3 DEF Shaped

LEMMA KeptShaped ==
    ASSUME Shaped(items, rdllist), Kept
    PROVE  Shaped(items', rdllist')
  BY DEF Kept, Shaped

------------------------------------------------------------------------------
(* Registration keeps the invariant.                                       *)

\* A step that delivers nothing.
LEMMA NoReportReported == ASSUME NoReport PROVE Reported(events')
  BY CapacityAssumption DEF NoReport, Reported

LEMMA RegisterInv ==
    ASSUME Inv, NEW d \in Descriptors, NEW key \in Keys,
           NEW interest \in InterestRequests, NEW mode \in ModeRequests,
           NEW answer \in Answers, Register(d, key, interest, mode, answer)
    PROVE  Inv'
  <1> DEFINE i == Permit(table).index
             g == Permit(table).generation
             e == registered(d, key, interest, mode)
             reserved == reserve_with(table, e)
  <1>1. /\ TableInv(table) /\ Mirrors(table, items) /\ Shaped(items, rdllist)
        /\ conditions' = conditions /\ notified' = notified
        /\ conditions \in [Fds -> SUBSET Bits] /\ notified \in BOOLEAN
    BY DEF Inv, Shaped, Register
  <1>2. interest \in Interests /\ mode \in Modes
    BY RequestsAssumption
  <1>3. /\ e \in Entry /\ e.descriptor = d /\ e.state = "Armed"
        /\ e.interest = interest /\ e.mode = mode
    BY <1>2 DEF registered, Entry, RegistrationStates
  <1>4. PermitStatus(table) = "Ok"
    BY DEF Register
  <1>5. \A j \in Index : table.slots[j].entry # None =>
                            table.slots[j].entry.descriptor # d
    BY DEF Register, Occupants
  <1>6. table' = SettledRegister(reserved, i, answer)
    BY DEF Register
  <1>7. /\ answer = "Success" => Set(d, Item(encode(i, g), epoll_flags(interest, mode)))
        /\ answer # "Success" => Kept
    BY DEF Register
  <1>8. NoReport
    BY DEF Register
  <1> HIDE DEF e
  <1>9. /\ i \in Index
        /\ table.slots[i].entry = None
        /\ SlotBecomes(table, reserved, i, g, e)
    BY <1>1, <1>3, <1>4, Reserve
  <1> HIDE DEF i, g, reserved
  <1>10. e # None
    BY <1>3, NoneAssumption
  <1>11. CASE answer = "Success"
    <2>1. table' = reserved
      BY <1>6, <1>11 DEF SettledRegister
    <2>2. SlotBecomes(table, table', i, g, e)
      BY <1>9, <2>1
    <2>3. Mirrors(table', [items EXCEPT ![d] = Expected(table', i)])
      BY <1>1, <1>3, <1>5, <1>9, <2>2, NewItem DEF Shaped
    <2>4. Expected(table', i) = Item(encode(i, g), epoll_flags(interest, mode))
      BY <1>3, <2>2 DEF SlotBecomes, Expected, Item
    <2>5. Mirrors(table', items') /\ Shaped(items', rdllist')
      BY <1>1, <1>7, <1>11, <2>3, <2>4, SetShaped DEF Set
    <2> QED
      BY <1>1, <1>8, <2>2, <2>5, NoReportReported DEF Inv, Shaped, SlotBecomes
  <1>12. CASE answer # "Success"
    <2>1. answer = "NotApplied"
      BY <1>12 DEF Answers, not_applied
    <2>2. TableInv(reserved) /\ reserved.slots[i].entry # None
      BY <1>9, <1>10 DEF SlotBecomes
    <2>3. table' = retire(reserved, i)
      BY <1>6, <2>1 DEF SettledRegister
    <2>4. SlotBecomes(reserved, table', i, reserved.slots[i].generation, None)
      BY <1>9, <2>2, <2>3, Settle
    <2>5. SlotBecomes(table, table', i, reserved.slots[i].generation, None)
      BY <1>9, <2>4 DEF SlotBecomes
    <2>6. Mirrors(table', items)
      BY <1>1, <1>9, <2>5, SameItem
    <2>7. Mirrors(table', items') /\ Shaped(items', rdllist')
      BY <1>1, <1>7, <1>12, <2>6, KeptShaped DEF Kept
    <2> QED
      BY <1>1, <1>8, <2>5, <2>7, NoReportReported DEF Inv, Shaped, SlotBecomes
  <1> QED
    BY <1>11, <1>12

LEMMA ModifyInv ==
    ASSUME Inv, NEW i \in Index, NEW interest \in InterestRequests,
           NEW mode \in ModeRequests, NEW answer \in Answers,
           Modify(i, interest, mode, answer)
    PROVE  Inv'
  <1> DEFINE e == table.slots[i].entry
             g == table.slots[i].generation
             d == e.descriptor
             f == Rearmed(e, interest, mode)
  <1>1. /\ TableInv(table) /\ Mirrors(table, items) /\ Shaped(items, rdllist)
        /\ conditions' = conditions /\ notified' = notified
        /\ conditions \in [Fds -> SUBSET Bits] /\ notified \in BOOLEAN
    BY DEF Inv, Shaped, Modify
  <1>2. interest \in Interests /\ mode \in Modes
    BY RequestsAssumption
  <1>3. e # None
    BY DEF Modify, Occupants
  <1>4. e \in Entry
    BY <1>1, <1>3 DEF TableInv, Table, Slot
  <1>5. /\ f \in Entry /\ f.descriptor = d /\ f.state = "Armed"
        /\ f.interest = interest /\ f.mode = mode
    BY <1>2, <1>4, ChangedEntries DEF Rearmed, Entry
  <1>6. table' = SettledModify(table, i, interest, mode, answer)
    BY DEF Modify
  <1>7. /\ answer = "Success" => Set(d, Item(encode(i, g), epoll_flags(interest, mode)))
        /\ answer # "Success" => Kept
        /\ NoReport
    BY DEF Modify, IdOf
  <1>8. CASE answer = "Success"
    <2>1. SlotBecomes(table, table', i, g, f)
      BY <1>1, <1>2, <1>3, <1>6, <1>8, Settlements DEF Outcomes
    <2>2. \A j \in Index : table.slots[j].entry # None /\
                            table.slots[j].entry.descriptor = f.descriptor => i = j
      BY <1>1, <1>3, <1>5 DEF Mirrors
    <2> HIDE DEF f, g, e
    <2>3. Mirrors(table', [items EXCEPT ![d] = Expected(table', i)])
      BY <1>1, <1>5, <2>1, <2>2, NewItem DEF Shaped, e
    <2>4. Expected(table', i) = Item(encode(i, g), epoll_flags(interest, mode))
      BY <1>5, <2>1 DEF SlotBecomes, Expected, Item
    <2>5. d \in Descriptors
      BY <1>4 DEF Entry
    <2>6. Mirrors(table', items') /\ Shaped(items', rdllist')
      BY <1>1, <1>7, <1>8, <2>3, <2>4, <2>5, SetShaped DEF Set
    <2> QED
      BY <1>1, <1>7, <2>1, <2>6, NoReportReported DEF Inv, Shaped, SlotBecomes
  <1>9. CASE answer # "Success"
    <2>1. answer = "NotApplied"
      BY <1>9 DEF Answers, not_applied
    <2>2. table' = table
      BY <1>6, <2>1 DEF SettledModify
    <2>3. Mirrors(table', items') /\ Shaped(items', rdllist')
      BY <1>1, <1>7, <1>9, <2>2, KeptShaped DEF Kept
    <2> QED
      BY <1>1, <1>7, <2>2, <2>3, NoReportReported DEF Inv, Shaped
  <1> QED
    BY <1>8, <1>9

LEMMA DeleteInv ==
    ASSUME Inv, NEW i \in Index, NEW answer \in Answers, Delete(i, answer)
    PROVE  Inv'
  <1> DEFINE d == table.slots[i].entry.descriptor
  <1>1. /\ TableInv(table) /\ Mirrors(table, items) /\ Shaped(items, rdllist)
        /\ conditions' = conditions /\ notified' = notified
        /\ conditions \in [Fds -> SUBSET Bits] /\ notified \in BOOLEAN
    BY DEF Inv, Shaped, Delete
  <1>2. table.slots[i].entry # None
    BY DEF Delete, Occupants
  <1>3. d \in Descriptors
    BY <1>1, <1>2 DEF TableInv, Table, Slot, Entry
  <1>4. /\ table' = SettledDelete(table, i, answer)
        /\ answer = "Success" => Unset(d)
        /\ answer # "Success" => Kept
        /\ NoReport
    BY DEF Delete
  <1>5. CASE answer = "Success"
    <2>1. table' = retire(table, i)
      BY <1>4, <1>5 DEF SettledDelete
    <2>2. SlotBecomes(table, table', i, table.slots[i].generation, None)
      BY <1>1, <1>2, <2>1, Settle
    <2>3. Mirrors(table', [items EXCEPT ![d] = None])
      BY <1>1, <1>2, <2>2, NoItem DEF Shaped
    <2>4. Mirrors(table', items') /\ Shaped(items', rdllist')
      BY <1>1, <1>3, <1>4, <1>5, <2>3, UnsetShaped DEF Unset
    <2> QED
      BY <1>1, <1>4, <2>2, <2>4, NoReportReported DEF Inv, Shaped, SlotBecomes
  <1>6. CASE answer # "Success"
    <2>1. answer = "NotApplied"
      BY <1>6 DEF Answers, not_applied
    <2>2. table' = table
      BY <1>4, <2>1 DEF SettledDelete
    <2>3. Mirrors(table', items') /\ Shaped(items', rdllist')
      BY <1>1, <1>4, <1>6, <2>2, KeptShaped DEF Kept
    <2> QED
      BY <1>1, <1>4, <2>2, <2>3, NoReportReported DEF Inv, Shaped
  <1> QED
    BY <1>5, <1>6

------------------------------------------------------------------------------
(* The environment keeps the invariant.                                    *)

LEMMA SourceInv ==
    ASSUME Inv, NEW d \in Descriptors, NEW cs \in SUBSET Conditions, Source(d, cs)
    PROVE  Inv'
  <1>1. d \in Fds /\ cs \in SUBSET Bits
    BY SourcesAssumption DEF Fds
  <1>2. conditions' \in [Fds -> SUBSET Bits]
    BY <1>1 DEF Source, Inv
  <1>3. rdllist' = rdllist \/ rdllist' = Queued(rdllist, d)
    BY DEF Source
  <1>4. rdllist' \in Seq(Fds) /\ OnceEach(rdllist')
    BY <1>1, <1>3, QueuedOnce DEF Inv
  <1>5. Reported(events')
    BY NoReportReported DEF Source
  <1> QED
    BY <1>2, <1>4, <1>5 DEF Inv, Source

LEMMA WakeInv ==
    ASSUME Inv, wake
    PROVE  Inv'
  <1>1. WakeFd \in Fds /\ {"EPOLLIN"} \in SUBSET Bits
    BY DEF Fds, Bits
  <1>2. conditions' \in [Fds -> SUBSET Bits]
    BY <1>1 DEF wake, Inv
  <1>3. rdllist' \in Seq(Fds) /\ OnceEach(rdllist')
    BY <1>1, QueuedOnce DEF Inv, wake
  <1>4. Reported(events')
    BY NoReportReported DEF wake
  <1> QED
    BY <1>2, <1>3, <1>4 DEF Inv, wake

------------------------------------------------------------------------------
(* What epoll_wait takes.                                                  *)

\* The batch is the front of the ready items, each of them once.
LEMMA TakenOnce ==
    ASSUME Inv
    PROVE  /\ Found \in Seq(Fds) /\ OnceEach(Found) /\ InOrder(Found, rdllist)
           /\ \A n \in 1..Len(Found) : Found[n] \in Ready /\ Listed(rdllist, Found[n])
           /\ Taken \in Seq(Fds) /\ OnceEach(Taken)
           /\ Len(Taken) \in Nat /\ Len(Taken) <= EventCapacity
           /\ Len(Taken) = IF Len(Found) < EventCapacity THEN Len(Found)
                                                         ELSE EventCapacity
           /\ Len(Taken) <= Len(Found)
           /\ \A n \in 1..Len(Taken) : Taken[n] = Found[n] /\ Taken[n] \in Ready
  <1>1. rdllist \in Seq(Fds) /\ OnceEach(rdllist)
    BY DEF Inv
  <1>2. /\ Found \in Seq(Fds) /\ OnceEach(Found) /\ InOrder(Found, rdllist)
        /\ \A x : Listed(Found, x) => Listed(rdllist, x) /\ x \in Ready
    BY <1>1, OnlyKept DEF Found
  <1>3. \A n \in 1..Len(Found) : Found[n] \in Ready /\ Listed(rdllist, Found[n])
    BY <1>2 DEF Listed
  <1> DEFINE room == IF Len(Found) < EventCapacity THEN Len(Found) ELSE EventCapacity
  <1>4. /\ Len(Found) \in Nat /\ room \in Nat /\ 0 <= room
        /\ room <= Len(Found) /\ room <= EventCapacity
    BY <1>2, CapacityAssumption
  <1>5. Taken = SubSeq(Found, 1, room)
    BY DEF Taken
  <1> HIDE DEF room
  <1>6. \A m \in Nat : m <= room =>
            /\ SubSeq(Found, m + 1, room) \in Seq(Fds)
            /\ OnceEach(SubSeq(Found, m + 1, room))
            /\ Len(SubSeq(Found, m + 1, room)) = room - m
            /\ \A k \in 1..(room - m) : SubSeq(Found, m + 1, room)[k] = Found[m + k]
    BY <1>2, <1>4, Piece
  <1>7. /\ Taken \in Seq(Fds) /\ OnceEach(Taken) /\ Len(Taken) = room
        /\ \A n \in 1..Len(Taken) : Taken[n] = Found[n]
    <2>1. 0 \in Nat /\ 0 <= room /\ 0 + 1 = 1 /\ room - 0 = room
      BY <1>4
    <2>2. \A k \in 1..room : 0 + k = k
      BY <1>4
    <2> QED
      BY <1>5, <1>6, <2>1, <2>2
  <1>8. \A n \in 1..Len(Taken) : Taken[n] \in Ready
    BY <1>3, <1>4, <1>7
  <1> QED
    BY <1>2, <1>3, <1>4, <1>7, <1>8 DEF room

\* What is taken and what stays behind on the list are different items, so an
\* item that goes back to the tail is not there yet.
LEMMA WaitOnce ==
    ASSUME Inv, epoll_wait
    PROVE  rdllist' \in Seq(Fds) /\ OnceEach(rdllist')
  <1> DEFINE rest == SubSeq(rdllist, Cut + 1, Len(rdllist))
             back == Only(Taken, Requeued)
  <1>1. rdllist \in Seq(Fds) /\ OnceEach(rdllist) /\ Len(rdllist) \in Nat
    BY DEF Inv
  <1>2. /\ Cut \in 0..Len(rdllist)
        /\ \A k \in 1..Len(Taken) : \A n \in 1..Len(rdllist) :
              rdllist[n] = Taken[k] => n <= Cut
    <2>1. CASE Len(Found) < EventCapacity
      BY <1>1, <2>1 DEF Cut
    <2>2. CASE ~(Len(Found) < EventCapacity)
      <3>1. /\ Len(Found) \in Nat /\ EventCapacity \in 1..Len(Found)
            /\ Len(Taken) = EventCapacity
        BY <2>2, TakenOnce, CapacityAssumption
      <3>2. \E n \in 1..Len(rdllist) : rdllist[n] = Found[EventCapacity]
        BY <3>1, TakenOnce DEF Listed
      <3>3. Cut \in 1..Len(rdllist) /\ rdllist[Cut] = Found[EventCapacity]
        BY <2>2, <3>2 DEF Cut
      <3>4. ASSUME NEW k \in 1..Len(Taken), NEW n \in 1..Len(rdllist),
                   rdllist[n] = Taken[k]
            PROVE  n <= Cut
        <4>1. rdllist[n] = Found[k] /\ k \in 1..Len(Found)
          BY <3>1, <3>4, TakenOnce
        <4>2. CASE k = EventCapacity
          BY <1>1, <3>3, <4>1, <4>2 DEF OnceEach
        <4>3. CASE k # EventCapacity
          <5>1. k < EventCapacity
            BY <3>1, <4>3
          <5>2. n < Cut
            BY <3>1, <3>3, <4>1, <5>1, TakenOnce DEF InOrder
          <5> QED
            BY <1>1, <3>3, <5>2
        <4> QED
          BY <4>2, <4>3
      <3> QED
        BY <1>1, <3>3, <3>4
    <2> QED
      BY <2>1, <2>2
  <1>3. /\ rest \in Seq(Fds) /\ OnceEach(rest)
        /\ Len(rest) = Len(rdllist) - Cut
        /\ \A k \in 1..(Len(rdllist) - Cut) : rest[k] = rdllist[Cut + k]
    <2>1. Cut \in Nat /\ Cut <= Len(rdllist) /\ Len(rdllist) <= Len(rdllist)
      BY <1>1, <1>2
    <2> QED
      BY <1>1, <2>1, Piece
  <1>4. /\ back \in Seq(Fds) /\ OnceEach(back)
        /\ \A x : Listed(back, x) => Listed(Taken, x)
    BY TakenOnce, OnlyKept
  <1>5. rdllist' = rest \o back
    BY DEF epoll_wait
  <1> HIDE DEF rest, back
  <1>6. ASSUME NEW j \in 1..Len(rest), NEW k \in 1..Len(back), rest[j] = back[k]
        PROVE  FALSE
    <2>1. PICK m \in 1..Len(Taken) : Taken[m] = back[k]
      BY <1>4 DEF Listed
    <2>2. Cut + j \in 1..Len(rdllist) /\ rest[j] = rdllist[Cut + j]
      BY <1>1, <1>2, <1>3
    <2>3. Cut + j <= Cut
      BY <1>2, <1>6, <2>1, <2>2
    <2> QED
      BY <1>1, <1>2, <1>3, <2>3
  <1> QED
    BY <1>3, <1>4, <1>5, <1>6, JoinedOnce

\* A native event always becomes a hint the caller can act on.
LEMMA SomeHint ==
    ASSUME NEW flags \in SUBSET Bits, flags # {}
    PROVE  from_epoll_flags(flags) \in Readiness /\ from_epoll_flags(flags) # {}
  <1> DEFINE If(bits, hint) == IF flags \cap bits # {} THEN {hint} ELSE {}
             R == If({"EPOLLIN", "EPOLLPRI"}, "READABLE")
             W == If({"EPOLLOUT"}, "WRITABLE")
             C == If({"EPOLLRDHUP", "EPOLLHUP"}, "READ_CLOSED")
             D == If({"EPOLLHUP"}, "WRITE_CLOSED")
             E == If({"EPOLLERR"}, "ERROR")
  <1>1. from_epoll_flags(flags) = R \cup W \cup C \cup D \cup E
    BY DEF from_epoll_flags
  <1>2. /\ R \subseteq {"READABLE"} /\ W \subseteq {"WRITABLE"}
        /\ C \subseteq {"READ_CLOSED"} /\ D \subseteq {"WRITE_CLOSED"}
        /\ E \subseteq {"ERROR"}
    OBVIOUS
  <1>3. R # {} \/ W # {} \/ C # {} \/ D # {} \/ E # {}
    <2>1. PICK b \in flags : b \in Bits
      OBVIOUS
    <2>2. CASE b \in {"EPOLLIN", "EPOLLPRI"}
      BY <2>2
    <2>3. CASE b = "EPOLLOUT"
      BY <2>3
    <2>4. CASE b \in {"EPOLLRDHUP", "EPOLLHUP"}
      BY <2>4
    <2>5. CASE b = "EPOLLERR"
      BY <2>5
    <2> QED
      BY <2>1, <2>2, <2>3, <2>4, <2>5 DEF Bits
  <1> HIDE DEF R, W, C, D, E
  <1> QED
    BY <1>1, <1>2, <1>3 DEF Readiness

\* The registration in slot i has descriptor fd, is armed, and epoll holds it
\* under its token.
Behind(i, fd) ==
    LET e == table.slots[i].entry
    IN  /\ e # None
        /\ e \in Entry
        /\ e.descriptor = fd
        /\ e.state = "Armed"
        /\ table.slots[i].generation \in 1..MAX_GENERATION
        /\ items[fd].token = encode(i, table.slots[i].generation)
        /\ "EPOLLONESHOT" \in items[fd].mask <=> e.mode = "OneShot"

\* An item that is ready is the eventfd's or that of an armed registration: a
\* disarmed item has no event bit left in its mask.
LEMMA ReadyItem ==
    ASSUME Inv, NEW fd \in Ready
    PROVE  /\ revents(items, conditions, fd) \in SUBSET Bits
           /\ revents(items, conditions, fd) # {}
           /\ \/ /\ fd = WakeFd
                 /\ items[fd].token = 0
                 /\ "EPOLLONESHOT" \notin items[fd].mask
              \/ fd # WakeFd /\ \E i \in Index : Behind(i, fd)
  <1>1. fd \in Fds /\ revents(items, conditions, fd) # {}
    BY DEF Ready
  <1>2. /\ items[fd] # None
        /\ revents(items, conditions, fd) = conditions[fd] \cap items[fd].mask
    BY <1>1 DEF revents
  <1>3. conditions[fd] \in SUBSET Bits
    BY <1>1 DEF Inv
  <1>4. CASE fd = WakeFd
    <2>1. items[fd] = WakeItem
      BY <1>4 DEF Inv
    <2>2. items[fd].token = 0 /\ "EPOLLONESHOT" \notin items[fd].mask
      BY <2>1 DEF WakeItem, Item
    <2> QED
      BY <1>1, <1>2, <1>3, <1>4, <2>2
  <1>5. CASE fd # WakeFd
    <2>1. fd \in Descriptors
      BY <1>1, <1>5 DEF Fds
    <2>2. Mirrors(table, items) /\ TableInv(table)
      BY DEF Inv
    <2>3. PICK i \in Index : /\ table.slots[i].entry # None
                             /\ table.slots[i].entry.descriptor = fd
      BY <1>2, <2>1, <2>2 DEF Mirrors
    <2> DEFINE e == table.slots[i].entry
               g == table.slots[i].generation
    <2>4. e \in Entry
      BY <2>2, <2>3 DEF TableInv, Table, Slot
    <2>5. g \in 1..MAX_GENERATION
      <3>1. table.slots[i] # Unpushed
        BY <2>3 DEF Unpushed
      <3> QED
        BY <2>2, <3>1 DEF TableInv, SlotsPushed, MAX_GENERATION
    <2>6. items[fd] = Expected(table, i) /\ e.state # "Uncertain"
      BY <2>2, <2>3 DEF Mirrors
    <2>7. e.state = "Armed"
      <3>1. SUFFICES ASSUME e.state # "Armed" PROVE FALSE
        OBVIOUS
      <3>2. items[fd].mask = {"EPOLLONESHOT"}
        BY <2>6, <3>1 DEF Expected
      <3>3. "EPOLLONESHOT" \notin Bits
        BY DEF Bits
      <3> QED
        BY <1>1, <1>2, <1>3, <3>2, <3>3
    <2>8. /\ items[fd].token = encode(i, g)
          /\ items[fd].mask = Item(0, epoll_flags(e.interest, e.mode)).mask
      BY <2>6, <2>7 DEF Expected
    <2>9. "EPOLLONESHOT" \in items[fd].mask <=> e.mode = "OneShot"
      BY <2>8 DEF Item, epoll_flags
    <2>10. Behind(i, fd)
      BY <2>3, <2>4, <2>5, <2>7, <2>8, <2>9 DEF Behind
    <2> QED
      BY <1>1, <1>2, <1>3, <1>5, <2>10
  <1> QED
    BY <1>4, <1>5

LEMMA TokenNat ==
    ASSUME NEW i \in Index, NEW g \in 1..MAX_GENERATION
    PROVE  encode(i, g) \in Nat
  <1>1. g \in Nat /\ Radix \in Nat /\ i + 1 \in Nat
    BY Limits DEF Radix, MAX_GENERATION
  <1>2. g * Radix \in Nat
    BY <1>1
  <1> QED
    BY <1>1, <1>2 DEF encode

\* A token that names a registration is not the wake's, and names one only.
LEMMA TokensApart ==
    ASSUME Inv, NEW a \in Ready, NEW b \in Ready, items[a].token = items[b].token
    PROVE  a = b
  <1>1. ASSUME NEW i \in Index, NEW fd, Behind(i, fd) PROVE items[fd].token # 0
    <2>1. ~DecodesStale(items[fd].token)
      BY <1>1, Unpacks DEF Behind
    <2> QED
      BY <2>1 DEF DecodesStale
  <1>2. CASE a = WakeFd \/ b = WakeFd
    BY <1>1, <1>2, ReadyItem
  <1>3. CASE a # WakeFd /\ b # WakeFd
    <2>1. PICK i \in Index : Behind(i, a)
      BY <1>3, ReadyItem
    <2>2. PICK j \in Index : Behind(j, b)
      BY <1>3, ReadyItem
    <2>3. /\ encode(i, table.slots[i].generation) = encode(j, table.slots[j].generation)
          /\ table.slots[i].generation \in 1..MAX_GENERATION
          /\ table.slots[j].generation \in 1..MAX_GENERATION
      BY <2>1, <2>2 DEF Behind
    <2>4. i = j
      BY <2>3, IdsDistinct
    <2> QED
      BY <2>1, <2>2, <2>4 DEF Behind
  <1> QED
    BY <1>2, <1>3

------------------------------------------------------------------------------
(* Translation of the batch.                                               *)

\* What an event is, the wake's included.
EventRecord == [key : Keys \cup {WakeFd}, readiness : Readiness, of : Nat]

Disarmed(e) == [e EXCEPT !.state = "Disarmed"]

\* Slot j holds a one-shot registration that is among the first n taken.
Shot(n, j) ==
    LET e == table.slots[j].entry
    IN  e # None /\ e.mode = "OneShot" /\ \E k \in 1..n : Taken[k] = e.descriptor

\* The table after n records: the one-shot registrations taken are disarmed.
TableAfter(n, t) ==
    /\ TableInv(t)
    /\ \A j \in Index :
           /\ t.slots[j].generation = table.slots[j].generation
           /\ t.slots[j].entry = IF Shot(n, j) THEN Disarmed(table.slots[j].entry)
                                               ELSE table.slots[j].entry

\* The events after n records: one for each that is not the wake's.
EventsAfter(n, es) ==
    /\ es \in Seq(EventRecord)
    /\ \A m \in 1..Len(es) :
           /\ es[m].readiness # {}
           /\ \E k \in 1..n : Taken[k] # WakeFd /\ es[m].of = items[Taken[k]].token
    /\ \A k \in 1..n : Taken[k] # WakeFd =>
           \E m \in 1..Len(es) : es[m].of = items[Taken[k]].token
    /\ \A l, m \in 1..Len(es) : es[l].of = es[m].of => l = m

After(n, acc) ==
    /\ acc = [table |-> acc.table, resources |-> acc.resources,
              woke |-> acc.woke, failed |-> FALSE]
    /\ acc.woke \in BOOLEAN
    /\ acc.woke <=> \E k \in 1..n : Taken[k] = WakeFd
    /\ Len(acc.resources) = IF acc.woke THEN n - 1 ELSE n
    /\ TableAfter(n, acc.table)
    /\ EventsAfter(n, acc.resources)

\* A record of the eventfd.
LEMMA TranslateWake ==
    ASSUME Inv, NEW n \in Nat, n + 1 <= Len(Taken), NEW acc, After(n, acc),
           Taken[n + 1] = WakeFd
    PROVE  After(n + 1, translate(acc, Taken[n + 1]))
  <1> DEFINE fd == Taken[n + 1]
             moved == translate(acc, fd)
  <1>1. fd \in Ready
    BY TakenOnce
  <1>2. items[fd].token = 0
    BY <1>1, ReadyItem
  <1>3. /\ acc.failed = FALSE
        /\ acc = [table |-> acc.table, resources |-> acc.resources,
                  woke |-> acc.woke, failed |-> FALSE]
    BY DEF After
  <1>4. moved = [table |-> acc.table, resources |-> acc.resources,
                   woke |-> TRUE, failed |-> FALSE]
    BY <1>2, <1>3 DEF translate
  <1>5. \A k \in 1..n : Taken[k] # WakeFd
    BY TakenOnce DEF OnceEach
  <1>6. ~acc.woke /\ Len(acc.resources) = n
    BY <1>5 DEF After
  <1>7. ASSUME NEW j \in Index PROVE Shot(n + 1, j) <=> Shot(n, j)
    <2> DEFINE e == table.slots[j].entry
    <2>1. e # None => e.descriptor # WakeFd
      BY SourcesAssumption DEF Inv, TableInv, Table, Slot, Entry
    <2>2. \A k \in 1..(n + 1) : k = n + 1 \/ k \in 1..n
      OBVIOUS
    <2>3. 1..n \subseteq 1..(n + 1)
      OBVIOUS
    <2> QED
      BY <2>1, <2>2, <2>3 DEF Shot
  <1>8. TableAfter(n + 1, acc.table)
    BY <1>7 DEF After, TableAfter
  <1>9. EventsAfter(n + 1, acc.resources)
    <2>1. EventsAfter(n, acc.resources)
      BY DEF After
    <2>2. \A k \in 1..(n + 1) : k = n + 1 \/ k \in 1..n
      OBVIOUS
    <2>3. 1..n \subseteq 1..(n + 1)
      OBVIOUS
    <2> QED
      BY <2>1, <2>2, <2>3 DEF EventsAfter
  <1>10. n + 1 \in 1..(n + 1) /\ (n + 1) - 1 = n
    OBVIOUS
  <1> HIDE DEF moved
  <1>11. After(n + 1, moved)
    BY <1>4, <1>6, <1>8, <1>9, <1>10 DEF After
  <1> QED
    BY <1>11 DEF moved

\* A record of a registration.
LEMMA TranslateResource ==
    ASSUME Inv, NEW n \in Nat, n + 1 <= Len(Taken), NEW acc, After(n, acc),
           Taken[n + 1] # WakeFd
    PROVE  After(n + 1, translate(acc, Taken[n + 1]))
  <1> DEFINE fd == Taken[n + 1]
             token == items[fd].token
             flags == revents(items, conditions, fd)
             moved == translate(acc, fd)
             t == acc.table
  <1>1. fd \in Ready
    BY TakenOnce
  <1>2. flags \in SUBSET Bits /\ flags # {}
    BY <1>1, ReadyItem
  <1>3. PICK i \in Index : Behind(i, fd)
    BY <1>1, ReadyItem
  <1> DEFINE e == table.slots[i].entry
             g == table.slots[i].generation
             event == ResourceEvent(e, token, flags)
             u == IF e.mode = "OneShot" THEN SetEntry(t, i, Disarmed(e)) ELSE t
  <1>4. /\ e # None /\ e \in Entry /\ e.descriptor = fd /\ e.state = "Armed"
        /\ g \in 1..MAX_GENERATION /\ token = encode(i, g)
    BY <1>3 DEF Behind
  <1>5. /\ acc = [table |-> t, resources |-> acc.resources,
                  woke |-> acc.woke, failed |-> FALSE]
        /\ acc.failed = FALSE
        /\ TableAfter(n, t) /\ EventsAfter(n, acc.resources)
        /\ acc.woke \in BOOLEAN
        /\ acc.woke <=> \E k \in 1..n : Taken[k] = WakeFd
        /\ Len(acc.resources) = IF acc.woke THEN n - 1 ELSE n
    BY DEF After
  <1>6. \A k \in 1..n : Taken[k] # fd /\ Taken[k] \in Ready
    BY TakenOnce DEF OnceEach
  <1>7. ~Shot(n, i)
    BY <1>4, <1>6 DEF Shot
  <1>8. t.slots[i].entry = e /\ t.slots[i].generation = g /\ TableInv(t)
    BY <1>5, <1>7 DEF TableAfter
  <1>9. /\ IsLive(t, token) /\ entry(t, token) = e /\ decode(token).index = i
        /\ token # 0
    <2>1. ~DecodesStale(token) /\ decode(token).index = i
      BY <1>4, Unpacks
    <2>2. IsLive(t, token) /\ entry(t, token) = e
      BY <1>4, <1>8, Lookup
    <2> QED
      BY <2>1, <2>2 DEF DecodesStale
  <1>10. moved = [table |-> u, resources |-> Append(acc.resources, event),
                  woke |-> acc.woke, failed |-> FALSE]
    <2>1. Resolves(t, token)
      BY <1>4, <1>9 DEF Resolves
    <2>2. ~(e.mode = "OneShot" /\ DisarmRefused(t, i))
      BY <1>4, <1>8 DEF DisarmRefused
    <2>3. apply_disarm(t, i, "Applied") = SetEntry(t, i, Disarmed(e))
      BY <1>8 DEF apply_disarm, Disarmed
    <2>4. moved = [acc EXCEPT
                     !.table = IF e.mode = "OneShot"
                               THEN apply_disarm(t, i, "Applied") ELSE t,
                     !.resources = Append(acc.resources, event)]
      BY <1>5, <1>9, <2>1, <2>2 DEF translate
    <2> QED
      BY <1>5, <2>3, <2>4
  <1> HIDE DEF moved, event, t
  <1>11. TableAfter(n + 1, u)
    <2>1. SlotBecomes(t, u, i, g, IF e.mode = "OneShot" THEN Disarmed(e) ELSE e)
      <3>1. Disarmed(e) \in Entry
        BY <1>4, ChangedEntries, RequestsAssumption DEF Disarmed, Entry, RegistrationStates
      <3> QED
        BY <1>4, <1>8, <3>1, Settle DEF SlotBecomes
    <2>2. ASSUME NEW j \in Index
          PROVE  Shot(n + 1, j) <=> Shot(n, j) \/ (j = i /\ e.mode = "OneShot")
      <3> DEFINE f == table.slots[j].entry
      <3>1. \A k \in 1..(n + 1) : k = n + 1 \/ k \in 1..n
        OBVIOUS
      <3>2. n + 1 \in 1..(n + 1) /\ 1..n \subseteq 1..(n + 1)
        OBVIOUS
      <3>3. f # None /\ f.descriptor = fd => j = i
        BY <1>4 DEF Inv, Mirrors
      <3> QED
        BY <1>4, <3>1, <3>2, <3>3 DEF Shot
    <2> HIDE DEF u
    <2>3. ASSUME NEW j \in Index
          PROVE  /\ u.slots[j].generation = table.slots[j].generation
                 /\ u.slots[j].entry = IF Shot(n + 1, j)
                                       THEN Disarmed(table.slots[j].entry)
                                       ELSE table.slots[j].entry
      <3>1. CASE j = i
        BY <1>7, <2>1, <2>2, <3>1 DEF SlotBecomes
      <3>2. CASE j # i
        BY <1>5, <2>1, <2>2, <3>2 DEF SlotBecomes, TableAfter
      <3> QED
        BY <3>1, <3>2
    <2> QED
      BY <2>1, <2>3 DEF TableAfter, SlotBecomes
  <1>12. /\ event \in EventRecord /\ event.readiness # {} /\ event.of = token
    <2>1. token \in Nat
      BY <1>4, TokenNat
    <2>2. from_epoll_flags(flags) \in Readiness /\ from_epoll_flags(flags) # {}
      BY <1>2, SomeHint
    <2>3. e.key \in Keys
      BY <1>4 DEF Entry
    <2> QED
      BY <2>1, <2>2, <2>3 DEF event, ResourceEvent, EventRecord
  <1> DEFINE es == acc.resources
             fs == Append(es, event)
  <1>13. /\ es \in Seq(EventRecord) /\ Len(es) \in Nat
         /\ fs \in Seq(EventRecord) /\ Len(fs) = Len(es) + 1
         /\ \A m \in 1..Len(es) : fs[m] = es[m]
         /\ fs[Len(es) + 1] = event
    BY <1>5, <1>12, AppendProperties DEF EventsAfter
  <1> HIDE DEF fs, u
  <1>14. EventsAfter(n + 1, fs)
    <2>1. \A m \in 1..Len(fs) : m = Len(es) + 1 \/ m \in 1..Len(es)
      BY <1>13
    <2>2. 1..Len(es) \subseteq 1..Len(fs) /\ Len(es) + 1 \in 1..Len(fs)
      BY <1>13
    <2>3. \A k \in 1..(n + 1) : k = n + 1 \/ k \in 1..n
      OBVIOUS
    <2>4. n + 1 \in 1..(n + 1) /\ 1..n \subseteq 1..(n + 1)
      OBVIOUS
    <2>5. /\ \A m \in 1..Len(es) :
                 /\ es[m].readiness # {}
                 /\ \E k \in 1..n : Taken[k] # WakeFd /\ es[m].of = items[Taken[k]].token
          /\ \A k \in 1..n : Taken[k] # WakeFd =>
                 \E m \in 1..Len(es) : es[m].of = items[Taken[k]].token
          /\ \A l, m \in 1..Len(es) : es[l].of = es[m].of => l = m
      BY <1>5 DEF EventsAfter
    <2>6. \A m \in 1..Len(es) : es[m].of # token
      <3>1. SUFFICES ASSUME NEW m \in 1..Len(es), es[m].of = token PROVE FALSE
        OBVIOUS
      <3>2. PICK k \in 1..n : es[m].of = items[Taken[k]].token
        BY <2>5
      <3> QED
        BY <1>1, <1>6, <3>1, <3>2, TokensApart
    <2>7. ASSUME NEW m \in 1..Len(fs)
          PROVE  /\ fs[m].readiness # {}
                 /\ \E k \in 1..(n + 1) :
                       Taken[k] # WakeFd /\ fs[m].of = items[Taken[k]].token
      <3>1. CASE m = Len(es) + 1
        BY <1>12, <1>13, <2>4, <3>1
      <3>2. CASE m \in 1..Len(es)
        <4>1. PICK k \in 1..n : Taken[k] # WakeFd /\ es[m].of = items[Taken[k]].token
          BY <2>5, <3>2
        <4>2. fs[m] = es[m] /\ es[m].readiness # {} /\ k \in 1..(n + 1)
          BY <1>13, <2>4, <2>5, <3>2
        <4> QED
          BY <4>1, <4>2
      <3> QED
        BY <2>1, <3>1, <3>2
    <2>8. ASSUME NEW k \in 1..(n + 1), Taken[k] # WakeFd
          PROVE  \E m \in 1..Len(fs) : fs[m].of = items[Taken[k]].token
      <3>1. CASE k = n + 1
        BY <1>12, <1>13, <2>2, <3>1
      <3>2. CASE k \in 1..n
        <4>1. PICK m \in 1..Len(es) : es[m].of = items[Taken[k]].token
          BY <2>5, <2>8, <3>2
        <4> QED
          BY <1>13, <2>2, <4>1
      <3> QED
        BY <2>3, <3>1, <3>2
    <2>9. ASSUME NEW l \in 1..Len(fs), NEW m \in 1..Len(fs), fs[l].of = fs[m].of
          PROVE  l = m
      <3>1. CASE l \in 1..Len(es) /\ m \in 1..Len(es)
        BY <1>13, <2>5, <2>9, <3>1
      <3>2. CASE l = Len(es) + 1 \/ m = Len(es) + 1
        BY <1>12, <1>13, <2>1, <2>6, <2>9, <3>2
      <3> QED
        BY <2>1, <3>1, <3>2
    <2> QED
      BY <1>13, <2>7, <2>8, <2>9 DEF EventsAfter
  <1>15. acc.woke <=> \E k \in 1..(n + 1) : Taken[k] = WakeFd
    <2>1. \A k \in 1..(n + 1) : k = n + 1 \/ k \in 1..n
      OBVIOUS
    <2>2. 1..n \subseteq 1..(n + 1)
      OBVIOUS
    <2> QED
      BY <1>5, <2>1, <2>2
  <1>16. Len(fs) = IF acc.woke THEN (n + 1) - 1 ELSE n + 1
    BY <1>5, <1>13
  <1>17. moved = [table |-> u, resources |-> fs, woke |-> acc.woke, failed |-> FALSE]
    BY <1>10 DEF fs
  <1>18. After(n + 1, moved)
    BY <1>5, <1>11, <1>14, <1>15, <1>16, <1>17 DEF After
  <1> QED
    BY <1>18 DEF moved

\* No record is lost between epoll_wait and the end of the translation.
LEMMA TranslatedAll ==
    ASSUME Inv
    PROVE  After(Len(Taken), Translated)
  <1> DEFINE N == Len(Taken)
             Runs(m, f) == f = [n \in 0..m |-> IF n = 0 THEN Untranslated
                                               ELSE translate(f[n - 1], Taken[n])]
             T == {m \in 0..N : \E f : Runs(m, f)}
  <1>1. N \in Nat
    BY TakenOnce
  <1> HIDE DEF N
  <1>2. 0 \in T
    <2> DEFINE f == [n \in 0..0 |-> Untranslated]
    <2>1. Runs(0, f)
      OBVIOUS
    <2> HIDE DEF f, Runs
    <2> QED
      BY <1>1, <2>1
  <1>3. ASSUME NEW m \in 0..(N - 1), m \in T PROVE m + 1 \in T
    <2>1. PICK f : Runs(m, f)
      BY <1>3
    <2> DEFINE g == [n \in 0..(m + 1) |->
                        IF n = m + 1 THEN translate(f[m], Taken[m + 1]) ELSE f[n]]
    <2>2. ASSUME NEW n \in 0..(m + 1)
          PROVE  g[n] = IF n = 0 THEN Untranslated ELSE translate(g[n - 1], Taken[n])
      <3>1. CASE n = m + 1
        BY <3>1
      <3>2. CASE n # m + 1
        <4>1. n \in 0..m
          BY <3>2
        <4>2. f[n] = IF n = 0 THEN Untranslated ELSE translate(f[n - 1], Taken[n])
          BY <2>1, <4>1
        <4> QED
          BY <4>1, <4>2
      <3> QED
        BY <3>1, <3>2
    <2>3. g = [n \in 0..(m + 1) |-> g[n]]
      OBVIOUS
    <2> HIDE DEF g
    <2>4. Runs(m + 1, g)
      BY <2>2, <2>3
    <2> HIDE DEF Runs
    <2> QED
      BY <1>1, <2>4
  <1>4. \E f : Runs(N, f)
    <2> HIDE DEF T
    <2>1. \A m \in 0..N : m \in T
      BY <1>1, <1>2, <1>3, UpTo
    <2>2. N \in T
      BY <1>1, <2>1
    <2> QED
      BY <2>2 DEF T
  <1> DEFINE after == CHOOSE f : Runs(N, f)
  <1>5. Translated = after[N]
    BY DEF Translated, N
  <1>6. Runs(N, after)
    BY <1>4, Zenon
  <1> HIDE DEF after
  <1>7. after[0] = Untranslated
    BY <1>1, <1>6
  <1>8. ASSUME NEW m \in 0..(N - 1)
        PROVE  after[m + 1] = translate(after[m], Taken[m + 1])
    <2>1. m + 1 \in 0..N /\ m + 1 # 0 /\ (m + 1) - 1 = m
      BY <1>1
    <2> QED
      BY <1>6, <2>1
  <1> DEFINE U == {m \in 0..N : After(m, after[m])}
  <1>9. 0 \in U
    <2>1. 1..0 = {} /\ 0 \in 0..N
      BY <1>1
    <2>2. TableAfter(0, table)
      BY <2>1 DEF TableAfter, Shot, Inv
    <2>3. EventsAfter(0, <<>>)
      BY <2>1 DEF EventsAfter
    <2>4. After(0, Untranslated)
      BY <2>1, <2>2, <2>3 DEF After, Untranslated
    <2> QED
      BY <1>7, <2>1, <2>4
  <1>10. ASSUME NEW m \in 0..(N - 1), m \in U PROVE m + 1 \in U
    <2>1. m \in Nat /\ m + 1 <= Len(Taken) /\ m + 1 \in 0..N
      BY <1>1 DEF N
    <2>2. After(m, after[m])
      BY <1>10
    <2>3. After(m + 1, translate(after[m], Taken[m + 1]))
      BY <2>1, <2>2, TranslateWake, TranslateResource
    <2> QED
      BY <1>8, <2>1, <2>3
  <1>11. N \in U
    <2> HIDE DEF U
    <2>1. \A m \in 0..N : m \in U
      BY <1>1, <1>9, <1>10, UpTo
    <2> QED
      BY <1>1, <2>1
  <1> QED
    BY <1>5, <1>11 DEF N

------------------------------------------------------------------------------
(* A wait.                                                                 *)

IsEventBatch(es) ==
    /\ es \in Seq(EventRecord)
    /\ Len(es) = Len(Taken)
    /\ \A m \in 1..Len(es) :
           \/ es[m].of = 0
           \/ /\ es[m].readiness # {}
              /\ \E k \in 1..Len(Taken) :
                    Taken[k] # WakeFd /\ es[m].of = items[Taken[k]].token
    /\ \A k \in 1..Len(Taken) : Taken[k] # WakeFd =>
           \E m \in 1..Len(es) : es[m].of = items[Taken[k]].token
    /\ \A l, m \in 1..Len(es) : es[l].of = es[m].of => l = m

LEMMA WaitDelivers ==
    ASSUME Inv, Wait
    PROVE  /\ IsEventBatch(events')
           /\ TableAfter(Len(Taken), table')
  <1> DEFINE acc == Translated
             N == Len(Taken)
             es == acc.resources
  <1>1. After(N, acc)
    BY TranslatedAll
  <1>2. /\ acc.failed = FALSE /\ acc.woke \in BOOLEAN
        /\ acc.woke <=> \E k \in 1..N : Taken[k] = WakeFd
        /\ Len(es) = IF acc.woke THEN N - 1 ELSE N
        /\ TableAfter(N, acc.table) /\ EventsAfter(N, es)
    BY <1>1 DEF After
  <1>3. table' = acc.table /\ events' = Output(acc)
    BY <1>2 DEF Wait
  <1> HIDE DEF acc
  <1>4. N \in Nat
    BY TakenOnce
  <1>5. /\ es \in Seq(EventRecord)
        /\ \A m \in 1..Len(es) :
              /\ es[m].readiness # {}
              /\ \E k \in 1..N : Taken[k] # WakeFd /\ es[m].of = items[Taken[k]].token
        /\ \A k \in 1..N : Taken[k] # WakeFd =>
              \E m \in 1..Len(es) : es[m].of = items[Taken[k]].token
        /\ \A l, m \in 1..Len(es) : es[l].of = es[m].of => l = m
    BY <1>2 DEF EventsAfter
  <1>6. CASE ~acc.woke
    BY <1>2, <1>3, <1>5, <1>6 DEF Output, IsEventBatch
  <1>7. CASE acc.woke
    <2> DEFINE fs == Append(es, WakeEvent)
    <2>1. WakeEvent \in EventRecord /\ WakeEvent.of = 0
      BY DEF WakeEvent, EventRecord, Readiness
    <2>2. /\ Len(es) \in Nat /\ fs \in Seq(EventRecord) /\ Len(fs) = Len(es) + 1
          /\ \A m \in 1..Len(es) : fs[m] = es[m]
          /\ fs[Len(es) + 1] = WakeEvent
      BY <1>5, <2>1, AppendProperties
    <2>3. events' = fs
      BY <1>3, <1>7 DEF Output
    <2> HIDE DEF fs
    <2>4. Len(fs) = N
      BY <1>2, <1>4, <1>7, <2>2
    <2>5. \A m \in 1..Len(fs) : m = Len(es) + 1 \/ m \in 1..Len(es)
      BY <2>2
    <2>6. 1..Len(es) \subseteq 1..Len(fs)
      BY <2>2
    <2>7. \A m \in 1..Len(es) : es[m].of # 0
      <3>1. SUFFICES ASSUME NEW m \in 1..Len(es), es[m].of = 0 PROVE FALSE
        OBVIOUS
      <3>2. PICK k \in 1..N : Taken[k] # WakeFd /\ es[m].of = items[Taken[k]].token
        BY <1>5
      <3>3. PICK w \in 1..N : Taken[w] = WakeFd
        BY <1>2, <1>7
      <3>4. Taken[k] \in Ready /\ Taken[w] \in Ready
        BY TakenOnce
      <3>5. items[Taken[w]].token = 0
        BY <3>3, <3>4, ReadyItem
      <3> QED
        BY <3>1, <3>2, <3>3, <3>4, <3>5, TokensApart
    <2>8. ASSUME NEW m \in 1..Len(fs)
          PROVE  \/ fs[m].of = 0
                 \/ /\ fs[m].readiness # {}
                    /\ \E k \in 1..N :
                          Taken[k] # WakeFd /\ fs[m].of = items[Taken[k]].token
      <3>1. CASE m = Len(es) + 1
        BY <2>1, <2>2, <3>1
      <3>2. CASE m \in 1..Len(es)
        <4>1. PICK k \in 1..N : Taken[k] # WakeFd /\ es[m].of = items[Taken[k]].token
          BY <1>5, <3>2
        <4>2. fs[m] = es[m] /\ es[m].readiness # {}
          BY <1>5, <2>2, <3>2
        <4> QED
          BY <4>1, <4>2
      <3> QED
        BY <2>5, <3>1, <3>2
    <2>9. ASSUME NEW k \in 1..N, Taken[k] # WakeFd
          PROVE  \E m \in 1..Len(fs) : fs[m].of = items[Taken[k]].token
      <3>1. PICK m \in 1..Len(es) : es[m].of = items[Taken[k]].token
        BY <1>5, <2>9
      <3> QED
        BY <2>2, <2>6, <3>1
    <2>10. ASSUME NEW l \in 1..Len(fs), NEW m \in 1..Len(fs), fs[l].of = fs[m].of
           PROVE  l = m
      <3>1. CASE l \in 1..Len(es) /\ m \in 1..Len(es)
        BY <1>5, <2>2, <2>10, <3>1
      <3>2. CASE l = Len(es) + 1 \/ m = Len(es) + 1
        BY <2>1, <2>2, <2>5, <2>7, <2>10, <3>2
      <3> QED
        BY <2>5, <3>1, <3>2
    <2>11. IsEventBatch(fs)
      BY <2>2, <2>4, <2>8, <2>9, <2>10 DEF IsEventBatch
    <2> QED
      BY <1>2, <1>3, <2>3, <2>11
  <1> QED
    BY <1>2, <1>6, <1>7

\* A wait reports a registration exactly when epoll took its item.
LEMMA DeliveredTaken ==
    ASSUME Inv, Wait, NEW i \in Occupants
    PROVE  LET e == table.slots[i].entry
           IN  /\ Delivers(IdOf(i)) <=> \E k \in 1..Len(Taken) : Taken[k] = e.descriptor
               /\ Delivers(IdOf(i)) => e.state = "Armed"
  <1> DEFINE e == table.slots[i].entry
             g == table.slots[i].generation
             N == Len(Taken)
  <1>1. i \in Index /\ e # None
    BY DEF Occupants
  <1>2. TableInv(table) /\ Mirrors(table, items)
    BY DEF Inv
  <1>3. e \in Entry /\ e.descriptor \in Descriptors /\ e.descriptor # WakeFd
    BY <1>1, <1>2, SourcesAssumption DEF TableInv, Table, Slot, Entry
  <1>4. g \in 1..MAX_GENERATION
    <2>1. table.slots[i] # Unpushed
      BY <1>1 DEF Unpushed
    <2> QED
      BY <1>1, <1>2, <2>1 DEF TableInv, SlotsPushed, MAX_GENERATION
  <1>5. IdOf(i) # 0
    <2>1. ~DecodesStale(encode(i, g))
      BY <1>1, <1>4, Unpacks
    <2> QED
      BY <2>1 DEF DecodesStale, IdOf
  <1>6. IsEventBatch(events')
    BY WaitDelivers
  <1>7. ASSUME Delivers(IdOf(i))
        PROVE  e.state = "Armed" /\ \E k \in 1..N : Taken[k] = e.descriptor
    <2>1. PICK m \in 1..Len(events') : events'[m].of = IdOf(i)
      BY <1>7 DEF Delivers
    <2>2. PICK k \in 1..N : Taken[k] # WakeFd /\ IdOf(i) = items[Taken[k]].token
      BY <1>5, <1>6, <2>1 DEF IsEventBatch
    <2>3. PICK j \in Index : Behind(j, Taken[k])
      BY <2>2, ReadyItem, TakenOnce
    <2>4. /\ encode(i, g) = encode(j, table.slots[j].generation)
          /\ table.slots[j].generation \in 1..MAX_GENERATION
      BY <2>2, <2>3 DEF Behind, IdOf
    <2>5. i = j
      BY <1>1, <1>4, <2>4, IdsDistinct
    <2> QED
      BY <2>3, <2>5 DEF Behind
  <1>8. ASSUME NEW k \in 1..N, Taken[k] = e.descriptor
        PROVE  Delivers(IdOf(i))
    <2>1. PICK m \in 1..Len(events') : events'[m].of = items[Taken[k]].token
      BY <1>3, <1>6, <1>8 DEF IsEventBatch
    <2>2. items[e.descriptor] = Expected(table, i)
      BY <1>1, <1>2 DEF Mirrors
    <2>3. items[e.descriptor].token = IdOf(i)
      BY <2>2 DEF Expected, IdOf
    <2> QED
      BY <1>8, <2>1, <2>3 DEF Delivers
  <1> QED
    BY <1>7, <1>8

\* The items after epoll_wait are those the table asks for once the delivered
\* one-shot registrations are disarmed.
LEMMA WaitMirrors ==
    ASSUME Inv, Wait
    PROVE  Mirrors(table', items')
  <1> DEFINE N == Len(Taken)
             Old(j) == table.slots[j].entry
             New(j) == table'.slots[j].entry
  <1>1. TableAfter(N, table')
    BY WaitDelivers
  <1>2. TableInv(table) /\ Mirrors(table, items)
    BY DEF Inv
  <1>3. items' = [fd \in Fds |->
                    IF IsTaken(fd) /\ "EPOLLONESHOT" \in items[fd].mask
                    THEN [items[fd] EXCEPT !.mask = {"EPOLLONESHOT"}]
                    ELSE items[fd]]
    BY DEF Wait, epoll_wait
  <1>4. ASSUME NEW j \in Index, Old(j) # None
        PROVE  /\ Old(j) \in Entry /\ Old(j).descriptor \in Descriptors
               /\ Old(j).descriptor \in Fds /\ Old(j).descriptor # WakeFd
               /\ items[Old(j).descriptor] = Expected(table, j)
               /\ Old(j).state # "Uncertain"
    BY <1>2, <1>4, SourcesAssumption DEF TableInv, Table, Slot, Entry, Mirrors, Fds
  <1>5. ASSUME NEW j \in Index
        PROVE  /\ New(j) # None <=> Old(j) # None
               /\ Old(j) # None => New(j).descriptor = Old(j).descriptor
    <2>1. New(j) = IF Shot(N, j) THEN Disarmed(Old(j)) ELSE Old(j)
      BY <1>1 DEF TableAfter
    <2>2. Shot(N, j) => Old(j) # None
      BY DEF Shot
    <2>3. Old(j) # None => /\ Disarmed(Old(j)) \in Entry
                           /\ Disarmed(Old(j)).descriptor = Old(j).descriptor
      BY <1>4 DEF Disarmed, Entry, RegistrationStates
    <2> QED
      BY <2>1, <2>2, <2>3, NoneAssumption
  <1>6. ASSUME NEW j \in Index, Old(j) # None
        PROVE  New(j).state # "Uncertain" /\ items'[Old(j).descriptor] = Expected(table', j)
    <2> DEFINE d == Old(j).descriptor
               token == encode(j, table.slots[j].generation)
    <2>1. /\ New(j) = IF Shot(N, j) THEN Disarmed(Old(j)) ELSE Old(j)
          /\ table'.slots[j].generation = table.slots[j].generation
      BY <1>1 DEF TableAfter
    <2>2. CASE Shot(N, j)
      <3>1. PICK k \in 1..N : Taken[k] = d
        BY <2>2 DEF Shot
      <3>2. Old(j).mode = "OneShot"
        BY <2>2 DEF Shot
      <3>3. d \in Ready
        BY <3>1, TakenOnce
      <3>4. PICK i \in Index : Behind(i, d)
        BY <1>4, <1>6, <3>3, ReadyItem
      <3>5. i = j
        BY <1>2, <1>6, <3>4 DEF Behind, Mirrors
      <3>6. IsTaken(d) /\ "EPOLLONESHOT" \in items[d].mask
        BY <3>1, <3>2, <3>4, <3>5 DEF IsTaken, Listed, Behind
      <3>7. items'[d] = [items[d] EXCEPT !.mask = {"EPOLLONESHOT"}]
        BY <1>3, <1>4, <1>6, <3>6
      <3>8. items'[d] = [token |-> token, mask |-> {"EPOLLONESHOT"}]
        BY <1>4, <1>6, <3>7, ExpectedItem
      <3>9. New(j).state = "Disarmed"
        BY <1>4, <1>6, <2>1, <2>2 DEF Disarmed, Entry
      <3> QED
        BY <2>1, <3>8, <3>9 DEF Expected
    <2>3. CASE ~Shot(N, j)
      <3>1. New(j) = Old(j) /\ Expected(table', j) = Expected(table, j)
        BY <2>1, <2>3 DEF Expected
      <3>2. ~(IsTaken(d) /\ "EPOLLONESHOT" \in items[d].mask)
        <4>1. SUFFICES ASSUME IsTaken(d), "EPOLLONESHOT" \in items[d].mask
                       PROVE  FALSE
          OBVIOUS
        <4>2. PICK k \in 1..N : Taken[k] = d
          BY <4>1 DEF IsTaken, Listed
        <4>3. d \in Ready
          BY <4>2, TakenOnce
        <4>4. PICK i \in Index : Behind(i, d)
          BY <1>4, <1>6, <4>3, ReadyItem
        <4>5. i = j
          BY <1>2, <1>6, <4>4 DEF Behind, Mirrors
        <4> QED
          BY <2>3, <4>1, <4>2, <4>4, <4>5 DEF Behind, Shot
      <3>3. items'[d] = items[d]
        BY <1>3, <1>4, <1>6, <3>2
      <3> QED
        BY <1>4, <1>6, <3>1, <3>3
    <2> QED
      BY <2>2, <2>3
  <1>7. ASSUME NEW d \in Descriptors,
               \A i \in Index : New(i) # None => New(i).descriptor # d
        PROVE  items'[d] = None
    <2>1. \A i \in Index : Old(i) # None => Old(i).descriptor # d
      BY <1>5, <1>7
    <2>2. items[d] = None
      BY <1>2, <2>1 DEF Mirrors
    <2>3. ~IsTaken(d)
      <3>1. d \notin Ready
        BY <2>2 DEF Ready, revents
      <3> QED
        BY <3>1, TakenOnce DEF IsTaken, Listed
    <2> QED
      BY <1>3, <2>2, <2>3 DEF Fds
  <1>8. ASSUME NEW i \in Index, NEW j \in Index, New(i) # None, New(j) # None,
               New(j).descriptor = New(i).descriptor
        PROVE  i = j
    BY <1>2, <1>5, <1>8 DEF Mirrors
  <1> QED
    BY <1>5, <1>6, <1>7, <1>8 DEF Mirrors

LEMMA WaitInv ==
    ASSUME Inv, Wait
    PROVE  Inv'
  <1>1. TableInv(table')
    BY WaitDelivers DEF TableAfter
  <1>2. epoll_wait /\ conditions' = conditions /\ notified' \in BOOLEAN
    BY DEF Wait
  <1>3. rdllist' \in Seq(Fds) /\ OnceEach(rdllist')
    BY <1>2, WaitOnce
  <1>4. items' = [fd \in Fds |-> items'[fd]] /\ items'[WakeFd] = WakeItem
    <2>1. WakeFd \in Fds /\ items[WakeFd] = WakeItem
      BY DEF Fds, Inv
    <2>2. "EPOLLONESHOT" \notin items[WakeFd].mask
      BY <2>1 DEF WakeItem, Item
    <2> QED
      BY <1>2, <2>1, <2>2 DEF epoll_wait
  <1>5. Reported(events')
    <2>1. events' \in Seq(EventRecord) /\ Len(events') = Len(Taken)
      BY WaitDelivers DEF IsEventBatch
    <2>2. \A n \in 1..Len(events') : events'[n] \in EventRecord
      BY <2>1
    <2> QED
      BY <2>1, <2>2, TakenOnce DEF EventRecord, Reported
  <1> QED
    BY <1>1, <1>2, <1>3, <1>4, <1>5, WaitMirrors DEF Inv

------------------------------------------------------------------------------
(* The theorems.                                                           *)

LEMMA InitInv == Init => Inv
  <1> SUFFICES ASSUME Init PROVE Inv
    OBVIOUS
  <1>1. table = new /\ TableInv(table)
    BY NewInv DEF Init
  <1>2. \A i \in Index : table.slots[i].entry = None
    BY <1>1 DEF new, Unpushed
  <1>3. /\ items = [fd \in Fds |-> IF fd = WakeFd THEN WakeItem ELSE None]
        /\ WakeFd \in Fds /\ \A d \in Descriptors : d \in Fds /\ d # WakeFd
    BY SourcesAssumption DEF Init, Fds
  <1>4. Mirrors(table, items)
    BY <1>2, <1>3 DEF Mirrors
  <1>5. items = [fd \in Fds |-> items[fd]] /\ items[WakeFd] = WakeItem
    BY <1>3
  <1>6. rdllist \in Seq(Fds) /\ OnceEach(rdllist)
    BY DEF Init, OnceEach
  <1>7. conditions \in [Fds -> SUBSET Bits] /\ notified \in BOOLEAN
    BY DEF Init
  <1>8. Reported(events)
    BY CapacityAssumption DEF Init, Reported
  <1> QED
    BY <1>1, <1>4, <1>5, <1>6, <1>7, <1>8 DEF Inv

LEMMA NextInv == Inv /\ [Next]_vars => Inv'
  <1> SUFFICES ASSUME Inv, [Next]_vars PROVE Inv'
    OBVIOUS
  <1>1. ASSUME Mutations PROVE Inv'
    BY <1>1, RegisterInv, ModifyInv DEF Mutations
  <1>2. ASSUME NEW i \in Index, NEW answer \in Answers, Delete(i, answer) PROVE Inv'
    BY <1>2, DeleteInv
  <1>3. ASSUME Wait PROVE Inv'
    BY <1>3, WaitInv
  <1>4. ASSUME WaitFails PROVE Inv'
    BY <1>4, CapacityAssumption DEF WaitFails, Inv, Reported
  <1>5. ASSUME NEW d \in Descriptors, NEW cs \in SUBSET Conditions, Source(d, cs)
        PROVE  Inv'
    BY <1>5, SourceInv
  <1>6. ASSUME wake PROVE Inv'
    BY <1>6, WakeInv
  <1>7. ASSUME UNCHANGED vars PROVE Inv'
    BY <1>7 DEF vars, Inv
  <1> QED
    BY <1>1, <1>2, <1>3, <1>4, <1>5, <1>6, <1>7 DEF Next

LEMMA Invariance == Spec => []Inv
  BY InitInv, NextInv, PTL DEF Spec

\* What the invariant says of the table and the kernel, in the words of the
\* property.
LEMMA InvAgrees == Inv => KernelAgrees
  <1> SUFFICES ASSUME Inv PROVE KernelAgrees
    OBVIOUS
  <1>1. TableInv(table) /\ Mirrors(table, items)
    BY DEF Inv
  <1>2. ASSUME NEW i \in Index, table.slots[i].entry # None
        PROVE  /\ table.slots[i].generation \in 1..MAX_GENERATION
               /\ items[table.slots[i].entry.descriptor] = Expected(table, i)
    <2>1. table.slots[i] # Unpushed
      BY <1>2 DEF Unpushed
    <2> QED
      BY <1>1, <1>2, <2>1 DEF TableInv, SlotsPushed, MAX_GENERATION, Mirrors
  <1>3. ASSUME NEW fd \in Fds PROVE items[fd] = None \/ items[fd].token \in Nat
    <2>1. CASE fd = WakeFd
      BY <2>1 DEF Inv, WakeItem, Item
    <2>2. CASE fd # WakeFd
      <3>1. fd \in Descriptors
        BY <2>2 DEF Fds
      <3>2. CASE \A i \in Index : table.slots[i].entry # None =>
                                     table.slots[i].entry.descriptor # fd
        BY <1>1, <3>1, <3>2 DEF Mirrors
      <3>3. ASSUME NEW i \in Index, table.slots[i].entry # None,
                   table.slots[i].entry.descriptor = fd
            PROVE  items[fd].token \in Nat
        <4>1. items[fd].token = encode(i, table.slots[i].generation)
          BY <1>2, <3>3, ExpectedItem
        <4> QED
          BY <1>2, <3>3, <4>1, TokenNat
      <3> QED
        BY <3>2, <3>3
    <2> QED
      BY <2>1, <2>2
  <1>4. \A n \in 1..Len(rdllist) : rdllist[n] \in Fds
    BY DEF Inv
  <1>5. TypeOK
    BY <1>1, <1>3, <1>4 DEF TypeOK, Inv, Reported, TableInv
  <1>6. ASSUME NEW d \in Descriptors
        PROVE  LET here == {i \in Occupants : table.slots[i].entry.descriptor = d}
               IN  IF here = {} THEN items[d] = None
                   ELSE \A i \in here : items[d] = Expected(table, i)
    <2> DEFINE here == {i \in Occupants : table.slots[i].entry.descriptor = d}
    <2>1. ASSUME here = {} PROVE items[d] = None
      <3>1. \A i \in Index : table.slots[i].entry # None =>
                                 table.slots[i].entry.descriptor # d
        BY <2>1 DEF Occupants
      <3> QED
        BY <1>1, <3>1 DEF Mirrors
    <2>2. ASSUME NEW i \in here PROVE items[d] = Expected(table, i)
      BY <1>2 DEF Occupants
    <2> QED
      BY <2>1, <2>2
  <1> QED
    BY <1>5, <1>6 DEF KernelAgrees

\* For every number of registrations and generations and every event capacity,
\* epoll holds exactly the items of the live registrations, with the token,
\* interest, mode and one-shot state that the table has (backend.rs add, modify
\* and delete, observe.rs translate_linux).
THEOREM ItemsMirrorTable == Spec => []KernelAgrees
  BY Invariance, InvAgrees, PTL

\* No record that epoll hands out is dropped, repeated, or turned into an event
\* without a hint, and no disarm is refused, which would throw the batch away
\* (observe.rs translate_linux, epoll.rs EpollBatch::translate).
THEOREM NoRecordLost == Spec => NothingLost
  <1> DEFINE Complete == /\ Len(events') = Len(Taken)
                         /\ \A n \in 1..Len(events') :
                               events'[n].readiness = {} => events'[n].of = 0
                         /\ \A m, n \in 1..Len(events') :
                               events'[m].of = events'[n].of => m = n
  <1>1. Inv /\ Wait => Complete
    BY WaitDelivers DEF IsEventBatch
  <1>2. Inv /\ [Next]_vars => [Wait => Complete]_vars
    BY <1>1
  <1> QED
    BY <1>2, Invariance, PTL DEF Spec, NothingLost

\* A wait delivers only armed registrations, disarms the one-shot ones it
\* delivers and changes the state of no other (observe.rs translate_linux,
\* table.rs apply_disarm).
THEOREM DisarmedAsDelivered == Spec => OneShotOnce
  <1> DEFINE Once == \A i \in Occupants :
                        LET e == table.slots[i].entry
                        IN  /\ Delivers(IdOf(i)) => e.state = "Armed"
                            /\ table'.slots[i].entry.state =
                                  IF Delivers(IdOf(i)) /\ e.mode = "OneShot"
                                  THEN "Disarmed" ELSE e.state
  <1>1. ASSUME Inv, Wait PROVE Once
    <2> SUFFICES ASSUME NEW i \in Occupants
                 PROVE  LET e == table.slots[i].entry
                        IN  /\ Delivers(IdOf(i)) => e.state = "Armed"
                            /\ table'.slots[i].entry.state =
                                  IF Delivers(IdOf(i)) /\ e.mode = "OneShot"
                                  THEN "Disarmed" ELSE e.state
      OBVIOUS
    <2> DEFINE e == table.slots[i].entry
    <2>1. i \in Index /\ e # None
      BY DEF Occupants
    <2>2. e \in Entry
      BY <1>1, <2>1 DEF Inv, TableInv, Table, Slot
    <2>3. /\ Delivers(IdOf(i)) <=> \E k \in 1..Len(Taken) : Taken[k] = e.descriptor
          /\ Delivers(IdOf(i)) => e.state = "Armed"
      BY <1>1, DeliveredTaken
    <2>4. table'.slots[i].entry = IF Shot(Len(Taken), i) THEN Disarmed(e) ELSE e
      BY <1>1, <2>1, WaitDelivers DEF TableAfter
    <2>5. Shot(Len(Taken), i) <=> Delivers(IdOf(i)) /\ e.mode = "OneShot"
      BY <2>1, <2>3 DEF Shot
    <2>6. Disarmed(e).state = "Disarmed"
      BY <2>2 DEF Disarmed, Entry
    <2> QED
      BY <2>3, <2>4, <2>5, <2>6
  <1>2. Inv /\ [Next]_vars => [Wait => Once]_vars
    BY <1>1
  <1> QED
    BY <1>2, Invariance, PTL DEF Spec, OneShotOnce
==============================================================================
