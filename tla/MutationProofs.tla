---------------------------- MODULE MutationProofs ----------------------------
(***************************************************************************)
(* Inv is an invariant of the mutation machine for every limit, every      *)
(* width of the token halves and every set of descriptors, keys and        *)
(* requests; the safety properties of Mutation follow from it.  The        *)
(* machine implements Lifecycle: every step of it is a step of one         *)
(* handle's life, or none at all.  And the descriptors it duplicates live  *)
(* as long as the entries that retain them.                                *)
(*                                                                         *)
(* The second half is about the testkit's random programs, ModelSequence:  *)
(* they never diverge from the reference model, whatever is drawn and      *)
(* however long they are.                                                  *)
(***************************************************************************)
EXTENDS ModelSequence, TableProofs

\* An id of the table is one of Ids, and unpacks along both lookups.
LEMMA IdParts ==
    ASSUME NEW i \in Index, NEW g \in 1..MAX_GENERATION
    PROVE  /\ encode(i, g) \in Ids
           /\ ~DecodesStale(encode(i, g))
           /\ decode(encode(i, g)).index = i
           /\ decode(encode(i, g)).generation = g
           /\ parts(encode(i, g)).index = i
           /\ parts(encode(i, g)).generation = g
  BY Unpacks DEF Ids

------------------------------------------------------------------------------
(* One step on one slot.                                                   *)

\* A step on slot i either concerns its occupant, at its generation, or takes
\* the vacant slot one generation further.
Advances(t, i, g) ==
    \/ g = t.slots[i].generation /\ t.slots[i].entry # None
    \/ g = t.slots[i].generation + 1 /\ t.slots[i].entry = None

\* The step changes one generation of one slot, and the backend for that id.
Touches(i, g) ==
    /\ Advances(table, i, g)
    /\ \E e : SlotBecomes(table, table', i, g, e)
    /\ \E x : backend' = [backend EXCEPT ![encode(i, g)] = x]

\* What register does: a new generation of a vacant slot is touched, and it is
\* the one the caller is told of, if any.
Registers ==
    \E i \in Index, g \in 1..MAX_GENERATION :
        /\ Touches(i, g)
        /\ g = table.slots[i].generation + 1
        /\ owner' = AssignedOwner /\ others' = others
        /\ result'.op = "register"
        /\ result'.target \in {None, [owner |-> owner', id |-> encode(i, g)]}
        /\ result'.target # None => result'.target \in handles'

\* What modify, delete and disarm do: the generation their handle names is
\* touched.
Calls(h) ==
    /\ \E i \in Index, g \in 1..MAX_GENERATION :
          h.id = encode(i, g) /\ Touches(i, g)
    /\ h \in handles
    /\ UNCHANGED <<owner, others, handles>>
    /\ result'.op # "register" /\ result'.target = h

\* The backend keeps agreeing when it learns about the slot's generation what
\* the table records for it.
LEMMA BackendStep ==
    ASSUME NEW t, NEW u, TableInv(t), NEW i \in Index,
           NEW g \in 1..MAX_GENERATION, NEW e,
           NEW b \in [Ids -> BackendEntry \cup {None}], NEW x,
           BackendMatches(t, b), SlotBecomes(t, u, i, g, e),
           Advances(t, i, g), Matches(x, e)
    PROVE  BackendMatches(u, [b EXCEPT ![encode(i, g)] = x])
  <1> DEFINE c == [b EXCEPT ![encode(i, g)] = x]
  <1> SUFFICES ASSUME NEW j \in Index, NEW k \in 1..MAX_GENERATION
               PROVE  /\ k > u.slots[j].generation => c[encode(j, k)] = None
                      /\ k < u.slots[j].generation => Matches(c[encode(j, k)], None)
                      /\ k = u.slots[j].generation =>
                            Matches(c[encode(j, k)], u.slots[j].entry)
    BY DEF BackendMatches
  <1>1. encode(j, k) \in Ids /\ encode(i, g) \in Ids
    BY IdParts
  <1>2. /\ k > t.slots[j].generation => b[encode(j, k)] = None
        /\ k < t.slots[j].generation => Matches(b[encode(j, k)], None)
        /\ k = t.slots[j].generation => Matches(b[encode(j, k)], t.slots[j].entry)
    BY DEF BackendMatches
  <1>3. CASE j # i
    <2>1. encode(j, k) # encode(i, g)
      BY <1>3, IdsDistinct
    <2>2. c[encode(j, k)] = b[encode(j, k)] /\ u.slots[j] = t.slots[j]
      BY <1>1, <1>3, <2>1 DEF SlotBecomes
    <2> QED
      BY <1>2, <2>2
  <1>4. CASE j = i /\ k = g
    <2>1. c[encode(j, k)] = x /\ u.slots[j].generation = g /\ u.slots[j].entry = e
      BY <1>1, <1>4 DEF SlotBecomes
    <2> QED
      BY <1>4, <2>1
  <1>5. CASE j = i /\ k # g
    <2>1. encode(j, k) # encode(i, g)
      BY <1>5, IdsDistinct
    <2>2. c[encode(j, k)] = b[encode(j, k)] /\ u.slots[j].generation = g
      BY <1>1, <1>5, <2>1 DEF SlotBecomes
    <2>3. t.slots[i].generation \in Nat /\ g \in Nat /\ k \in Nat
      BY Limits DEF TableInv, Table, Slot, MAX_GENERATION
    <2> QED
      BY <1>2, <1>5, <2>2, <2>3 DEF Advances
  <1> QED
    BY <1>3, <1>4, <1>5

\* A call that leaves slot i at generation g with entry e, and tells the
\* backend the same about that id, keeps Inv; a new handle may be announced,
\* and must be if the slot was just occupied.
LEMMA SlotStep ==
    ASSUME Inv, NEW i \in Index, NEW g \in 1..MAX_GENERATION,
           NEW e \in Entry \cup {None}, NEW x \in BackendEntry,
           SlotBecomes(table, table', i, g, e), Advances(table, i, g),
           Matches(x, e), backend' = [backend EXCEPT ![encode(i, g)] = x],
           owner' \in PollIds, owner = 0 \/ owner' = owner,
           next_poll_id' \in PollIds, others' = others, OwnersDistinct',
           handles \subseteq handles',
           handles' \subseteq handles \cup {[owner |-> owner',
                                              id |-> encode(i, g)]},
           e # None => [owner |-> owner', id |-> encode(i, g)] \in handles',
           open' \subseteq DupFds, fault' = fault
    PROVE  Inv'
  <1>1. /\ TableInv(table) /\ TableInv(table')
        /\ backend \in [Ids -> BackendEntry \cup {None}]
        /\ handles \subseteq Registration
    BY DEF Inv, TypeOK, SlotBecomes
  <1>2. encode(i, g) \in Ids
    BY IdParts
  <1>3. /\ table.slots[i].generation \in Nat /\ g \in Nat
        /\ table.slots[i].generation <= g
    <2>1. table.slots[i] \in Slot
      BY <1>1 DEF TableInv, Table
    <2>2. table.slots[i].generation \in Nat /\ g \in Nat
      BY <2>1, Limits DEF Slot, MAX_GENERATION
    <2> QED
      BY <2>2 DEF Advances
  <1>4. owner = 0 => handles = {} /\ \A j \in Index : table.slots[j].entry = None
    BY DEF Inv, HandlesReached, EntriesIssued
  <1>5. TypeOK'
    <2>1. table' \in Table /\ SlotsPushed(table')
      BY <1>1 DEF TableInv
    <2>2. backend' \in [Ids -> BackendEntry \cup {None}]
      BY <1>1
    <2>3. handles' \subseteq Registration
      BY <1>1, <1>2 DEF Registration
    <2>4. owner' \in 0..PollIdMax /\ others' \subseteq PollIds /\ fault' \in BOOLEAN
      BY PollIdMaxAssumption DEF PollIds, Inv, TypeOK
    <2> QED
      BY <2>1, <2>2, <2>3, <2>4 DEF TypeOK
  <1>6. HandlesReached'
    <2> SUFFICES ASSUME NEW h \in handles'
                 PROVE  /\ owner' # 0 /\ h.owner = owner'
                        /\ decode(h.id).generation <=
                              table'.slots[decode(h.id).index].generation
      BY DEF HandlesReached
    <2>1. owner' # 0
      BY DEF PollIds
    <2>2. CASE h \in handles
      <3>1. /\ h.owner = owner /\ owner # 0
            /\ decode(h.id).generation <=
                  table.slots[decode(h.id).index].generation
        BY <2>2 DEF Inv, HandlesReached
      <3>2. PICK j \in Index, k \in 1..MAX_GENERATION : h.id = encode(j, k)
        BY <1>1, <2>2 DEF Registration, Ids
      <3>3. decode(h.id).index = j /\ decode(h.id).generation = k
        BY <3>2, IdParts
      <3>4. k <= table'.slots[j].generation
        BY <3>1, <3>3, <1>3 DEF SlotBecomes
      <3> QED
        BY <2>1, <3>1, <3>3, <3>4
    <2>3. CASE h = [owner |-> owner', id |-> encode(i, g)]
      BY <2>1, <2>3, <1>3, IdParts DEF SlotBecomes
    <2> QED
      BY <2>2, <2>3
  <1>7. EntriesIssued'
    <2> SUFFICES ASSUME NEW j \in Index, table'.slots[j].entry # None
                 PROVE  [owner |-> owner',
                         id |-> encode(j, table'.slots[j].generation)] \in handles'
      BY DEF EntriesIssued
    <2>1. CASE j = i
      BY <2>1 DEF SlotBecomes
    <2>2. CASE j # i
      BY <2>2, <1>4 DEF SlotBecomes, Inv, EntriesIssued
    <2> QED
      BY <2>1, <2>2
  <1>8. BackendMatches(table', backend')
    BY <1>1, BackendStep DEF Inv
  <1>9. NoDriverFault'
    BY DEF Inv, NoDriverFault
  <1> QED
    BY <1>1, <1>5, <1>6, <1>7, <1>8, <1>9 DEF Inv

------------------------------------------------------------------------------
(* The actions.                                                            *)

\* A call refused before the backend is asked changes nothing but the result.
LEMMA UnmovedInv ==
    ASSUME Inv, Unmoved
    PROVE  Inv'
  BY DEF Inv, Unmoved, TypeOK, OwnersDistinct, HandlesReached, EntriesIssued,
         NoDriverFault

\* A register that is refused drops the duplicate it has just made, and leaves
\* nothing behind.
LEMMA RefusalInert ==
    ASSUME NEW d, NEW status, Refuses(d, status)
    PROVE  /\ Unmoved
           /\ result' = [op |-> "register", target |-> None, status |-> status]
  <1>1. d \notin open /\ open' = Closed(Opened(open, d), d)
    BY DEF Refuses
  <1>2. open' = open
    BY <1>1 DEF Closed, Opened
  <1> QED
    BY <1>2 DEF Refuses, Unmoved, Returns

LEMMA RegisterInv ==
    ASSUME Inv, NEW d \in Descriptors, NEW key \in Keys,
           NEW interest \in Interests, NEW mode \in Modes,
           NEW outcome \in Outcomes,
           RegisterCall(d, key, interest, mode, outcome)
    PROVE  Inv' /\ Registers
  <1> DEFINE i == Permit(table).index
             g == Permit(table).generation
             id == encode(i, g)
             e == registered(d, key, interest, mode)
             reserved == reserve_with(table, e)
             registration == [owner |-> AssignedOwner, id |-> id]
  <1>1. /\ TypeOK /\ TableInv(table) /\ BackendMatches(table, backend)
        /\ OwnersDistinct
    BY DEF Inv
  <1>2. PermitStatus(table) = "Ok" /\ ~CannotAssign
    BY DEF RegisterCall
  <1>3. e \in Entry /\ e # None
    BY NoneAssumption DEF registered, Entry, RegistrationStates
  <1>4. /\ i \in Index /\ table.slots[i].entry = None
        /\ g = table.slots[i].generation + 1 /\ g \in 1..MAX_GENERATION
        /\ SlotBecomes(table, reserved, i, g, e)
    BY <1>1, <1>2, <1>3, Reserve
  <1>5. Advances(table, i, g)
    BY <1>4 DEF Advances
  <1>6. id \in Ids /\ backend[id] = None
    <2>1. table.slots[i].generation \in Nat
      BY <1>1, <1>4 DEF TableInv, Table, Slot
    <2> QED
      BY <1>1, <1>4, <2>1, IdParts DEF BackendMatches
  <1>7. /\ owner' = AssignedOwner /\ next_poll_id' = AdvancedPollId
        /\ others' = others /\ fault' = fault
        /\ table' = SettledRegister(reserved, i, outcome)
        /\ backend' = driver_register(backend, id, d, interest, mode, outcome)
        /\ outcome = "NotApplied" =>
              handles' = handles /\ open' = Dropped(Opened(open, d), reserved, i)
        /\ outcome # "NotApplied" =>
              /\ handles' = handles \cup {registration}
              /\ open' = Opened(open, d)
    BY DEF RegisterCall
  <1>r. /\ result'.op = "register"
        /\ result'.target \in {None, registration}
        /\ result'.target # None => result'.target \in handles'
    BY DEF RegisterCall, Returns
  <1>8. /\ owner' \in PollIds /\ (owner = 0 \/ owner' = owner)
        /\ next_poll_id' \in PollIds /\ OwnersDistinct'
    BY <1>1, <1>2, <1>7, PollIdMaxAssumption
       DEF TypeOK, OwnersDistinct, AssignedOwner, AdvancedPollId, CannotAssign,
           PollIds
  <1>9. open' \subseteq DupFds
    BY <1>1, <1>7 DEF TypeOK, Dropped, Opened, Closed, is_owned
  <1> HIDE DEF i, g, e, reserved
  <1>10. TableInv(reserved) /\ reserved.slots[i].generation = g
         /\ reserved.slots[i].entry = e
    BY <1>4 DEF SlotBecomes
  <1>11. SUFFICES ASSUME NEW e2 \in Entry \cup {None}, NEW x \in BackendEntry,
                         SlotBecomes(table, table', i, g, e2), Matches(x, e2),
                         backend' = [backend EXCEPT ![id] = x],
                         e2 # None => outcome # "NotApplied"
                  PROVE  Inv' /\ Registers
    <2> DEFINE absent == NotRegistered(d, "Absent")
               began == [backend EXCEPT ![id] = absent]
    <2>1. begin_register(backend, id, d) = began
      BY <1>6 DEF begin_register
    <2>2. began[id] = absent /\ absent.descriptor = d
      BY <1>1, <1>6 DEF TypeOK, NotRegistered
    <2>3. \A x : [began EXCEPT ![id] = x] = [backend EXCEPT ![id] = x]
      BY <1>1, <1>6 DEF TypeOK
    <2>4. CASE outcome \in {"Success", "Applied"}
      <3> DEFINE x == RegisteredAs(d, interest, mode, "Armed")
      <3>1. backend' = [backend EXCEPT ![id] = x]
        BY <1>7, <2>1, <2>2, <2>3, <2>4 DEF driver_register, complete_register
      <3>2. x \in BackendEntry /\ Matches(x, e)
        BY <1>3, NoneDistinct
           DEF RegisteredAs, BackendEntry, Matches, e, registered, Entry
      <3>3. SlotBecomes(table, table', i, g, e)
        BY <1>4, <1>7, <2>4 DEF SettledRegister
      <3> QED
        BY <1>3, <2>4, <3>1, <3>2, <3>3
    <2>5. CASE outcome = "NotApplied"
      <3> DEFINE x == NotRegistered(d, "Absent")
      <3>1. backend' = [backend EXCEPT ![id] = x]
        BY <1>7, <2>1, <2>2, <2>3, <2>5 DEF driver_register, complete_register
      <3>2. x \in BackendEntry /\ Matches(x, None)
        BY NoneDistinct DEF NotRegistered, BackendEntry, Matches, Interests, Modes
      <3>3. SlotBecomes(table, table', i, g, None)
        <4>1. table' = retire(reserved, i)
          BY <1>7, <2>5 DEF SettledRegister
        <4>2. SlotBecomes(reserved, table', i, g, None)
          BY <1>3, <1>4, <1>10, <4>1, Settle
        <4> QED
          BY <1>4, <4>2 DEF SlotBecomes
      <3> QED
        BY <2>5, <3>1, <3>2, <3>3
    <2>6. CASE outcome = "Unknown"
      <3> DEFINE x == NotRegistered(d, "Unknown")
                 e2 == [e EXCEPT !.state = "Uncertain"]
      <3>1. backend' = [backend EXCEPT ![id] = x]
        BY <1>7, <2>1, <2>2, <2>3, <2>6 DEF driver_register, complete_register
      <3>2. e2 \in Entry /\ e2.descriptor = d /\ e2.state = "Uncertain"
        BY <1>3 DEF e, registered, Entry, RegistrationStates
      <3>3. x \in BackendEntry /\ Matches(x, e2)
        BY <3>2, NoneAssumption, NoneDistinct
           DEF NotRegistered, BackendEntry, Matches, Interests, Modes
      <3>4. SlotBecomes(table, table', i, g, e2)
        <4>1. table' = SetEntry(reserved, i, e2)
          BY <1>7, <1>10, <2>6 DEF SettledRegister, mark_uncertain
        <4>2. SlotBecomes(reserved, table', i, g, e2)
          BY <1>3, <1>4, <1>10, <3>2, <4>1, Settle
        <4> QED
          BY <1>4, <4>2 DEF SlotBecomes
      <3> QED
        BY <2>6, <3>1, <3>2, <3>3, <3>4
    <2> QED
      BY <2>4, <2>5, <2>6 DEF Outcomes, CommitStatus
  <1>12. /\ handles \subseteq handles'
         /\ handles' \subseteq handles \cup {[owner |-> owner', id |-> id]}
         /\ e2 # None => [owner |-> owner', id |-> id] \in handles'
    BY <1>7, <1>11
  <1>13. Inv'
    BY <1>4, <1>5, <1>7, <1>8, <1>9, <1>11, <1>12, SlotStep
  <1>14. Registers
    BY <1>4, <1>5, <1>7, <1>11, <1>r DEF Registers, Touches
  <1> QED
    BY <1>13, <1>14

\* A handle the poller accepts is one it gave out.
LEMMA PresentedHandle ==
    ASSUME Inv, NEW h \in Presented
    PROVE  /\ h \in Registration
           /\ \E i \in Index, g \in 1..MAX_GENERATION : h.id = encode(i, g)
           /\ require_owner(h) => h \in handles
           /\ h \in handles => h.owner = owner
  BY DEF Inv, TypeOK, OwnersDistinct, HandlesReached, Presented, Registration,
         Ids, require_owner, PollIds

\* While its slot is at its generation and occupied, a handle's driver calls
\* validate: the backend knows the id by the retained descriptor.
LEMMA LiveTarget ==
    ASSUME Inv, NEW i \in Index, NEW g \in 1..MAX_GENERATION,
           table.slots[i].generation = g, table.slots[i].entry # None
    PROVE  LET id == encode(i, g)
               e == table.slots[i].entry
           IN  /\ id \in Ids
               /\ e \in Entry
               /\ backend[id] \in BackendEntry
               /\ Matches(backend[id], e)
               /\ validate(backend, id, e.descriptor)
               /\ [owner |-> owner, id |-> id] \in handles
               /\ Advances(table, i, g)
  <1> DEFINE id == encode(i, g)
             e == table.slots[i].entry
  <1>1. id \in Ids
    BY IdParts
  <1>2. e \in Entry
    BY DEF Inv, TableInv, Table, Slot
  <1>3. Matches(backend[id], e)
    BY DEF Inv, BackendMatches
  <1>4. backend[id] \in BackendEntry
    BY <1>1, <1>3 DEF Inv, TypeOK, Matches
  <1>5. validate(backend, id, e.descriptor)
    BY <1>3 DEF Matches, validate
  <1>6. [owner |-> owner, id |-> id] \in handles
    BY DEF Inv, EntriesIssued
  <1> QED
    BY <1>1, <1>2, <1>3, <1>4, <1>5, <1>6 DEF Advances

\* A call on a live handle that changes nothing but that handle's entry and its
\* backend state keeps Inv.
LEMMA CallInv ==
    ASSUME Inv, NEW i \in Index, NEW g \in 1..MAX_GENERATION,
           table.slots[i].generation = g, table.slots[i].entry # None,
           NEW e \in Entry \cup {None}, NEW x \in BackendEntry,
           SlotBecomes(table, table', i, g, e), Matches(x, e),
           backend' = [backend EXCEPT ![encode(i, g)] = x],
           UNCHANGED <<owner, next_poll_id, others, handles, fault>>,
           open' \subseteq DupFds
    PROVE  Inv'
  <1>1. [owner |-> owner, id |-> encode(i, g)] \in handles /\ Advances(table, i, g)
    BY LiveTarget
  <1>2. owner \in PollIds /\ next_poll_id \in PollIds
    BY <1>1, PollIdMaxAssumption DEF Inv, TypeOK, HandlesReached, PollIds
  <1>3. OwnersDistinct'
    BY DEF Inv, OwnersDistinct
  <1>4. /\ owner' \in PollIds /\ owner' = owner /\ next_poll_id' \in PollIds
        /\ others' = others /\ fault' = fault /\ handles \subseteq handles'
        /\ handles' \subseteq handles \cup {[owner |-> owner', id |-> encode(i, g)]}
        /\ [owner |-> owner', id |-> encode(i, g)] \in handles'
    BY <1>1, <1>2
  <1> QED
    BY <1>1, <1>3, <1>4, SlotStep

LEMMA ModifyInv ==
    ASSUME Inv, NEW h \in Presented, NEW interest \in Interests,
           NEW mode \in Modes, NEW outcome \in Outcomes,
           ModifyCall(h, interest, mode, outcome)
    PROVE  Inv' /\ Calls(h)
  <1>1. PICK i \in Index, g \in 1..MAX_GENERATION : h.id = encode(i, g)
    BY PresentedHandle
  <1> DEFINE e == table.slots[i].entry
             id == encode(i, g)
  <1>2. TableInv(table) /\ TypeOK
    BY DEF Inv
  <1>3. /\ table.slots[i].generation = g /\ e # None
        /\ entry(table, id) = e /\ decode(id).index = i
    <2>1. binding(table, h.id, FALSE) = "Ok"
      BY DEF ModifyCall, ModifyRejection
    <2>2. IsLive(table, id)
      BY <1>1, <2>1 DEF binding
    <2> QED
      BY <1>2, <2>2, Lookup, IdParts
  <1>4. /\ id \in Ids /\ e \in Entry /\ backend[id] \in BackendEntry
        /\ Matches(backend[id], e) /\ validate(backend, id, e.descriptor)
    BY <1>3, LiveTarget
  <1>5. Validated(backend, id, e.descriptor, outcome) = outcome
    BY <1>4 DEF Validated
  <1>6. /\ backend' = complete_modify(backend, id, interest, mode, outcome)
        /\ fault' = fault
        /\ table' = SettledModify(table, i, interest, mode, outcome)
        /\ UNCHANGED <<owner, next_poll_id, others, open, handles>>
    BY <1>1, <1>2, <1>3, <1>4, <1>5 DEF ModifyCall, driver_modify, TypeOK
  <1>7. backend[id].descriptor = e.descriptor /\ e.descriptor \in Descriptors
    BY <1>3, <1>4 DEF Matches, Entry
  <1>8. interest \in Interests /\ mode \in Modes
    OBVIOUS
  <1>9. SUFFICES ASSUME NEW e2 \in Entry, NEW x \in BackendEntry,
                        SlotBecomes(table, table', i, g, e2), Matches(x, e2),
                        backend' = [backend EXCEPT ![id] = x]
                 PROVE  Inv' /\ Calls(h)
    <2>1. CASE outcome \in {"Success", "Applied"}
      <3> DEFINE x == RegisteredAs(e.descriptor, interest, mode, "Armed")
                 e2 == [e EXCEPT !.interest = interest, !.mode = mode,
                                 !.state = "Armed"]
      <3>1. backend' = [backend EXCEPT ![id] = x]
        BY <1>6, <1>7, <2>1 DEF complete_modify
      <3>2. /\ e2 \in Entry /\ e2.descriptor = e.descriptor /\ e2.state = "Armed"
            /\ e2.interest = interest /\ e2.mode = mode
        BY <1>4, <1>8 DEF Entry, RegistrationStates
      <3>3. x \in BackendEntry /\ Matches(x, e2)
        BY <1>7, <1>8, <3>2, NoneAssumption, NoneDistinct
           DEF RegisteredAs, BackendEntry, Matches
      <3>4. table' = SetEntry(table, i, e2)
        BY <1>6, <2>1 DEF SettledModify, commit_modify
      <3>5. SlotBecomes(table, table', i, g, e2)
        BY <1>2, <1>3, <3>2, <3>4, Settle
      <3> QED
        BY <3>1, <3>2, <3>3, <3>5
    <2>2. CASE outcome = "NotApplied"
      <3>1. backend' = [backend EXCEPT ![id] = backend[id]]
        BY <1>6, <2>2 DEF complete_modify
      <3>2. SlotBecomes(table, table', i, g, e)
        BY <1>2, <1>3, <1>6, <2>2 DEF SettledModify, SlotBecomes
      <3> QED
        BY <1>4, <3>1, <3>2
    <2>3. CASE outcome = "Unknown"
      <3> DEFINE x == NotRegistered(e.descriptor, "Unknown")
                 e2 == [e EXCEPT !.state = "Uncertain"]
      <3>1. backend' = [backend EXCEPT ![id] = x]
        BY <1>6, <1>7, <2>3 DEF complete_modify
      <3>2. e2 \in Entry /\ e2.descriptor = e.descriptor /\ e2.state = "Uncertain"
        BY <1>4 DEF Entry, RegistrationStates
      <3>3. x \in BackendEntry /\ Matches(x, e2)
        BY <1>7, <3>2, NoneAssumption, NoneDistinct
           DEF NotRegistered, BackendEntry, Matches, Interests, Modes
      <3>4. table' = SetEntry(table, i, e2)
        BY <1>6, <2>3 DEF SettledModify, mark_uncertain
      <3>5. SlotBecomes(table, table', i, g, e2)
        BY <1>2, <1>3, <3>2, <3>4, Settle
      <3> QED
        BY <3>1, <3>2, <3>3, <3>5
    <2> QED
      BY <2>1, <2>2, <2>3 DEF Outcomes, CommitStatus
  <1>10. open' \subseteq DupFds
    BY <1>2, <1>6 DEF TypeOK
  <1>11. Inv'
    BY <1>3, <1>6, <1>9, <1>10, CallInv
  <1>12. Calls(h)
    <2>1. h \in handles /\ result'.op # "register" /\ result'.target = h
      BY PresentedHandle DEF ModifyCall, Returns, ModifyRejection
    <2>2. Advances(table, i, g)
      BY <1>3, LiveTarget
    <2> QED
      BY <1>1, <1>6, <1>9, <2>1, <2>2 DEF Calls, Touches
  <1> QED
    BY <1>11, <1>12

LEMMA DeleteInv ==
    ASSUME Inv, NEW h \in Presented, NEW outcome \in Outcomes,
           DeleteCall(h, outcome)
    PROVE  Inv' /\ Calls(h)
  <1>1. PICK i \in Index, g \in 1..MAX_GENERATION : h.id = encode(i, g)
    BY PresentedHandle
  <1> DEFINE e == table.slots[i].entry
             id == encode(i, g)
  <1>2. TableInv(table) /\ TypeOK
    BY DEF Inv
  <1>3. table.slots[i].generation = g /\ e # None /\ parts(id).index = i
    <2>1. prepare_registration_retire(table, h.id, TRUE) = "Ok"
      BY DEF DeleteCall, DeleteRejection
    <2>2. Occupied(table, parts(id))
      BY <1>1, <2>1 DEF prepare_registration_retire
    <2> QED
      BY <1>2, <2>2, Lookup, IdParts
  <1>4. /\ id \in Ids /\ e \in Entry /\ backend[id] \in BackendEntry
        /\ Matches(backend[id], e) /\ validate(backend, id, e.descriptor)
    BY <1>3, LiveTarget
  <1>5. Validated(backend, id, e.descriptor, outcome) = outcome
    BY <1>4 DEF Validated
  <1>6. /\ backend' = complete_delete(backend, id, outcome)
        /\ fault' = fault
        /\ table' = SettledDelete(table, i, outcome)
        /\ UNCHANGED <<owner, next_poll_id, others, handles>>
        /\ open' \subseteq open
    BY <1>1, <1>2, <1>3, <1>4, <1>5 
       DEF DeleteCall, driver_delete, TypeOK, Dropped, Closed
  <1>7. backend[id].descriptor = e.descriptor /\ e.descriptor \in Descriptors
    BY <1>3, <1>4 DEF Matches, Entry
  <1>8. SUFFICES ASSUME NEW e2 \in Entry \cup {None}, NEW x \in BackendEntry,
                        SlotBecomes(table, table', i, g, e2), Matches(x, e2),
                        backend' = [backend EXCEPT ![id] = x]
                 PROVE  Inv' /\ Calls(h)
    <2>1. CASE outcome \in {"Success", "Applied"}
      <3> DEFINE x == NotRegistered(e.descriptor, "Absent")
      <3>1. backend' = [backend EXCEPT ![id] = x]
        BY <1>6, <1>7, <2>1 DEF complete_delete
      <3>2. x \in BackendEntry /\ Matches(x, None)
        BY <1>7, NoneDistinct
           DEF NotRegistered, BackendEntry, Matches, Interests, Modes
      <3>3. table' = retire(table, i)
        BY <1>6, <2>1 DEF SettledDelete
      <3>4. SlotBecomes(table, table', i, g, None)
        BY <1>2, <1>3, <3>3, Settle
      <3> QED
        BY <3>1, <3>2, <3>4
    <2>2. CASE outcome = "NotApplied"
      <3>1. backend' = [backend EXCEPT ![id] = backend[id]]
        BY <1>6, <2>2 DEF complete_delete
      <3>2. SlotBecomes(table, table', i, g, e)
        BY <1>2, <1>3, <1>6, <2>2 DEF SettledDelete, SlotBecomes
      <3> QED
        BY <1>4, <3>1, <3>2
    <2>3. CASE outcome = "Unknown"
      <3> DEFINE x == NotRegistered(e.descriptor, "Unknown")
                 e2 == [e EXCEPT !.state = "Uncertain"]
      <3>1. backend' = [backend EXCEPT ![id] = x]
        BY <1>6, <1>7, <2>3 DEF complete_delete
      <3>2. e2 \in Entry /\ e2.descriptor = e.descriptor /\ e2.state = "Uncertain"
        BY <1>4 DEF Entry, RegistrationStates
      <3>3. x \in BackendEntry /\ Matches(x, e2)
        BY <1>7, <3>2, NoneAssumption, NoneDistinct
           DEF NotRegistered, BackendEntry, Matches, Interests, Modes
      <3>4. table' = SetEntry(table, i, e2)
        BY <1>6, <2>3 DEF SettledDelete, mark_uncertain
      <3>5. SlotBecomes(table, table', i, g, e2)
        BY <1>2, <1>3, <3>2, <3>4, Settle
      <3> QED
        BY <3>1, <3>2, <3>3, <3>5
    <2> QED
      BY <2>1, <2>2, <2>3 DEF Outcomes, CommitStatus
  <1>9. open' \subseteq DupFds
    BY <1>2, <1>6 DEF TypeOK
  <1>10. Inv'
    BY <1>3, <1>6, <1>8, <1>9, CallInv
  <1>11. Calls(h)
    <2>1. h \in handles /\ result'.op # "register" /\ result'.target = h
      BY PresentedHandle DEF DeleteCall, Returns, DeleteRejection
    <2>2. Advances(table, i, g)
      BY <1>3, LiveTarget
    <2> QED
      BY <1>1, <1>6, <1>8, <2>1, <2>2 DEF Calls, Touches
  <1> QED
    BY <1>10, <1>11

LEMMA DisarmInv ==
    ASSUME Inv, NEW h \in Presented, EstablishDisarmed(h)
    PROVE  Inv' /\ Calls(h)
  <1>1. PICK i \in Index, g \in 1..MAX_GENERATION : h.id = encode(i, g)
    BY PresentedHandle
  <1> DEFINE e == table.slots[i].entry
             id == encode(i, g)
  <1>2. TableInv(table) /\ TypeOK
    BY DEF Inv
  <1>3. binding(table, id, FALSE) = "Ok" /\ entry(table, id).mode = "OneShot"
    BY <1>1 DEF EstablishDisarmed, DisarmRejection
  <1>4. /\ table.slots[i].generation = g /\ e # None
        /\ entry(table, id) = e /\ decode(id).index = i
    <2>1. IsLive(table, id)
      BY <1>3 DEF binding
    <2> QED
      BY <1>2, <2>1, Lookup, IdParts
  <1>5. /\ id \in Ids /\ e \in Entry /\ backend[id] \in BackendEntry
        /\ Matches(backend[id], e) /\ validate(backend, id, e.descriptor)
    BY <1>4, LiveTarget
  <1>6. e.state \in {"Armed", "Disarmed"} /\ e.mode = "OneShot"
    <2>1. IsLive(table, id) /\ e.state # "Uncertain"
      BY <1>3, <1>4 DEF binding
    <2> QED
      BY <1>3, <1>4, <1>5, <2>1 DEF Entry, RegistrationStates
  <1>7. /\ backend[id].state = e.state /\ backend[id].mode = "OneShot"
        /\ backend[id].interest = e.interest
        /\ backend[id].descriptor = e.descriptor
    BY <1>4, <1>5, <1>6 DEF Matches
  <1>8. BackendDisarms(h)
    BY <1>1, <1>4, <1>5, <1>6, <1>7 DEF BackendDisarms
  <1>9. /\ fault' = fault
        /\ backend' = [backend EXCEPT ![id] = [backend[id] EXCEPT !.state = "Disarmed"]]
        /\ table' = IF DisarmRefused(table, i) THEN table
                    ELSE apply_disarm(table, i, "Applied")
        /\ UNCHANGED <<owner, next_poll_id, others, open, handles>>
    BY <1>1, <1>2, <1>4, <1>8 DEF EstablishDisarmed, TypeOK
  <1> DEFINE x == [backend[id] EXCEPT !.state = "Disarmed"]
             e2 == [e EXCEPT !.state = "Disarmed"]
  <1>10. /\ x \in BackendEntry /\ x.state = "Disarmed" /\ x.mode = "OneShot"
         /\ x.interest = e.interest /\ x.descriptor = e.descriptor
    BY <1>5, <1>7 DEF BackendEntry
  <1>11. /\ e2 \in Entry /\ e2.state = "Disarmed" /\ e2.mode = "OneShot"
         /\ e2.interest = e.interest /\ e2.descriptor = e.descriptor
    BY <1>5, <1>6 DEF Entry, RegistrationStates
  <1>12. Matches(x, e2)
    BY <1>10, <1>11, NoneAssumption, NoneDistinct DEF Matches
  <1>13. SlotBecomes(table, table', i, g, e2)
    <2>1. CASE DisarmRefused(table, i)
      <3>1. e.state = "Disarmed"
        BY <1>6, <2>1 DEF DisarmRefused
      <3>2. e2 = e
        BY <1>5, <3>1 DEF Entry
      <3> QED
        BY <1>2, <1>4, <1>9, <2>1, <3>2 DEF SlotBecomes
    <2>2. CASE ~DisarmRefused(table, i)
      <3>1. table' = SetEntry(table, i, e2)
        BY <1>9, <2>2 DEF apply_disarm
      <3> QED
        BY <1>2, <1>4, <1>11, <3>1, Settle
    <2> QED
      BY <2>1, <2>2
  <1>14. open' \subseteq DupFds
    BY <1>2, <1>9 DEF TypeOK
  <1> HIDE DEF x, e2
  <1>15. Inv'
    BY <1>4, <1>9, <1>10, <1>11, <1>12, <1>13, <1>14, CallInv DEF x
  <1>16. Calls(h)
    <2>1. h \in handles /\ result'.op # "register" /\ result'.target = h
      BY PresentedHandle DEF EstablishDisarmed, Returns, DisarmRejection
    <2>2. Advances(table, i, g)
      BY <1>4, LiveTarget
    <2> QED
      BY <1>1, <1>9, <1>13, <2>1, <2>2 DEF Calls, Touches
  <1> QED
    BY <1>15, <1>16

\* What the other steps do: nothing to the table or the backend; a handle the
\* poller did not give out is refused for its owner.
Quiet ==
    /\ UNCHANGED <<table, backend, open, handles, owner>>
    /\ result'.op = "register" => result'.target = None
    /\ result'.target # None /\ result'.target \notin handles =>
          result'.status = "WrongPoller"

LEMMA InitInv == Init => Inv
  <1> SUFFICES ASSUME Init PROVE Inv
    OBVIOUS
  <1>1. TableInv(table)
    BY NewInv DEF Init
  <1>2. \A i \in Index : table.slots[i].entry = None /\ table.slots[i].generation = 0
    BY DEF Init, new, Unpushed
  <1>3. TypeOK
    <2>1. table \in Table /\ SlotsPushed(table)
      BY <1>1 DEF TableInv
    <2>2. backend \in [Ids -> BackendEntry \cup {None}]
      BY DEF Init
    <2>3. owner \in 0..PollIdMax /\ next_poll_id \in PollIds
      BY PollIdMaxAssumption DEF Init, PollIds
    <2>4. /\ others \subseteq PollIds /\ open \subseteq DupFds
          /\ handles \subseteq Registration /\ fault \in BOOLEAN
      BY DEF Init
    <2> QED
      BY <2>1, <2>2, <2>3, <2>4 DEF TypeOK
  <1>4. OwnersDistinct /\ HandlesReached /\ EntriesIssued /\ NoDriverFault
    BY <1>2 DEF Init, OwnersDistinct, HandlesReached, EntriesIssued, NoDriverFault
  <1>5. BackendMatches(table, backend)
    <2> SUFFICES ASSUME NEW i \in Index, NEW g \in 1..MAX_GENERATION
                 PROVE  g > 0 /\ backend[encode(i, g)] = None
      BY <1>2, Limits DEF BackendMatches, MAX_GENERATION
    <2> QED
      BY IdParts, Limits DEF Init, MAX_GENERATION
  <1> QED
    BY <1>1, <1>3, <1>4, <1>5 DEF Inv

LEMMA OtherPollerInv ==
    ASSUME Inv, OtherPoller
    PROVE  Inv' /\ Quiet
  <1>1. /\ UNCHANGED <<table, owner, backend, fault, open, handles>>
        /\ others' = others \cup {next_poll_id}
        /\ next_poll_id' = next_poll_id + 1 /\ next_poll_id < PollIdMax
        /\ result'.op = "other" /\ result'.target = None
    BY DEF OtherPoller, Returns
  <1>2. TypeOK' /\ OwnersDistinct'
    BY <1>1, PollIdMaxAssumption DEF Inv, TypeOK, OwnersDistinct, PollIds
  <1>3. TableInv(table') /\ BackendMatches(table', backend')
    BY <1>1 DEF Inv
  <1>4. HandlesReached' /\ EntriesIssued' /\ NoDriverFault'
    BY <1>1 DEF Inv, HandlesReached, EntriesIssued, NoDriverFault
  <1> QED
    BY <1>1, <1>2, <1>3, <1>4 DEF Inv, Quiet

\* Every step keeps Inv and is of one of the three kinds.
LEMMA Step ==
    ASSUME Inv, Next
    PROVE  Inv' /\ (Quiet \/ Registers \/ \E h : Calls(h))
  <1>1. CASE Register
    <2>1. PICK interest \in InterestRequests :
             \/ RegisterInvalid(interest)
             \/ RegisterCannotDup(interest)
             \/ \E d \in Descriptors : RegisterNoPermit(d, interest)
             \/ \E d \in Descriptors : RegisterNoOwner(d, interest)
             \/ \E d \in Descriptors, key \in Keys, mode \in ModeRequests,
                   outcome \in Outcomes :
                      RegisterCall(d, key, interest, mode, outcome)
      BY <1>1 DEF Register
    <2>2. CASE \/ RegisterInvalid(interest) \/ RegisterCannotDup(interest)
               \/ \E d \in Descriptors : RegisterNoPermit(d, interest)
               \/ \E d \in Descriptors : RegisterNoOwner(d, interest)
      <3>1. Unmoved /\ result'.target = None
        BY <2>2, RefusalInert DEF RegisterInvalid, RegisterCannotDup, RegisterNoPermit,
                             RegisterNoOwner, Returns
      <3> QED
        BY <3>1, UnmovedInv DEF Quiet, Unmoved
    <2>3. CASE \E d \in Descriptors, key \in Keys, mode \in ModeRequests,
                  outcome \in Outcomes :
                     RegisterCall(d, key, interest, mode, outcome)
      BY <2>3, RegisterInv, RequestsAssumption
    <2> QED
      BY <2>1, <2>2, <2>3
  <1>2. CASE Modify
    <2>1. PICK h \in Presented, interest \in InterestRequests :
             \/ ModifyRejected(h, interest)
             \/ \E mode \in ModeRequests, outcome \in Outcomes :
                   ModifyCall(h, interest, mode, outcome)
      BY <1>2 DEF Modify
    <2>2. CASE ModifyRejected(h, interest)
      <3>1. /\ Unmoved /\ result'.op # "register" /\ result'.target = h
            /\ h \notin handles => result'.status = "WrongPoller"
        BY <2>2, PresentedHandle DEF ModifyRejected, ModifyRejection, Returns
      <3> QED
        BY <3>1, UnmovedInv DEF Quiet, Unmoved
    <2> QED
      BY <2>1, <2>2, ModifyInv, RequestsAssumption
  <1>3. CASE Delete
    <2>1. PICK h \in Presented :
             DeleteRejected(h) \/ \E outcome \in Outcomes : DeleteCall(h, outcome)
      BY <1>3 DEF Delete
    <2>2. CASE DeleteRejected(h)
      <3>1. /\ Unmoved /\ result'.op # "register" /\ result'.target = h
            /\ h \notin handles => result'.status = "WrongPoller"
        BY <2>2, PresentedHandle DEF DeleteRejected, DeleteRejection, Returns
      <3> QED
        BY <3>1, UnmovedInv DEF Quiet, Unmoved
    <2> QED
      BY <2>1, <2>2, DeleteInv
  <1>4. CASE Disarm
    <2>1. PICK h \in Presented : DisarmRejected(h) \/ EstablishDisarmed(h)
      BY <1>4 DEF Disarm
    <2>2. CASE DisarmRejected(h)
      <3>1. /\ Unmoved /\ result'.op # "register" /\ result'.target = h
            /\ h \notin handles => result'.status = "WrongPoller"
        BY <2>2, PresentedHandle DEF DisarmRejected, DisarmRejection, Returns
      <3> QED
        BY <3>1, UnmovedInv DEF Quiet, Unmoved
    <2> QED
      BY <2>1, <2>2, DisarmInv
  <1> QED
    BY <1>1, <1>2, <1>3, <1>4, OtherPollerInv DEF Next

\* The inductive invariant holds of every behaviour of the mutation machine.
THEOREM Invariance == Spec => []Inv
  <1>1. Inv /\ [Next]_vars => Inv'
    <2> SUFFICES ASSUME Inv, [Next]_vars PROVE Inv'
      OBVIOUS
    <2>1. CASE Next
      BY <2>1, Step
    <2>2. CASE vars' = vars
      <3>1. Unmoved
        BY <2>2 DEF vars, Unmoved
      <3> QED
        BY <3>1, UnmovedInv
    <2> QED
      BY <2>1, <2>2
  <1> QED
    BY <1>1, InitInv, PTL DEF Spec

\* The mutation machine keeps its variables in their types: no index,
\* generation or identity leaves its width (table.rs, registration.rs).
THEOREM TypeCorrect == Spec => []TypeOK
  <1>1. Inv => TypeOK
    BY DEF Inv
  <1> QED
    BY <1>1, Invariance, PTL

\* The free list of every table holds exactly the reusable slots, each once
\* (table_reserve.rs reserve_with, table_retire.rs retire).
THEOREM FreeListAlwaysSound == Spec => []FreeListSound
  <1>1. Inv => FreeListSound
    BY DEF Inv, TableInv, FreeListSound
  <1> QED
    BY <1>1, Invariance, PTL

\* The table and the backend agree on every handle, whatever the commit
\* statuses of the backend calls (mutation/machine.rs, register.rs).
THEOREM AgreementAlways == Spec => []TableBackendAgreement
  <1>1. Inv => TableBackendAgreement
    <2> SUFFICES ASSUME Inv, NEW h \in handles
                 PROVE  LET b == backend[h.id]
                            s == state(table, h.id)
                        IN  /\ b # None
                            /\ s = "Stale" <=> b.state = "Absent"
                            /\ s = "Uncertain" <=> b.state = "Unknown"
                            /\ s \in {"Armed", "Disarmed"} =>
                                  /\ b.state = s
                                  /\ b.interest = entry(table, h.id).interest
                                  /\ b.mode = entry(table, h.id).mode
                                  /\ b.descriptor = entry(table, h.id).descriptor
      BY DEF TableBackendAgreement
    <2>1. PICK i \in Index, g \in 1..MAX_GENERATION : h.id = encode(i, g)
      BY DEF Inv, TypeOK, Registration, Ids
    <2>2. g <= table.slots[i].generation
      BY <2>1, IdParts DEF Inv, HandlesReached
    <2>3. TableInv(table) /\ table.slots[i] \in Slot
      BY DEF Inv, TableInv, Table
    <2>4. table.slots[i].generation \in Nat /\ g \in Nat
      BY <2>3, Limits DEF Slot, MAX_GENERATION
    <2>5. /\ g < table.slots[i].generation => Matches(backend[h.id], None)
          /\ g = table.slots[i].generation =>
                Matches(backend[h.id], table.slots[i].entry)
      BY <2>1 DEF Inv, BackendMatches
    <2>6. /\ entry(table, h.id) = table.slots[i].entry
          /\ state(table, h.id) =
                IF table.slots[i].generation = g /\ table.slots[i].entry # None
                THEN table.slots[i].entry.state ELSE "Stale"
      BY <2>1, <2>3, Lookup
    <2>7. CASE table.slots[i].generation = g /\ table.slots[i].entry # None
      <3>1. table.slots[i].entry.state \in RegistrationStates
        BY <2>3, <2>7 DEF Slot, Entry
      <3> QED
        BY <2>5, <2>6, <2>7, <3>1 DEF Matches, RegistrationStates
    <2>8. CASE ~(table.slots[i].generation = g /\ table.slots[i].entry # None)
      <3>1. Matches(backend[h.id], None)
        BY <2>2, <2>4, <2>5, <2>8
      <3> QED
        BY <2>6, <2>8, <3>1 DEF Matches
    <2> QED
      BY <2>7, <2>8
  <1> QED
    BY <1>1, Invariance, PTL

\* The driver is never handed an id or a descriptor it does not know
\* (mutation/machine.rs modify and delete).
THEOREM DriverNeverFaults == Spec => []NoDriverFault
  <1>1. Inv => NoDriverFault
    BY DEF Inv
  <1> QED
    BY <1>1, Invariance, PTL

------------------------------------------------------------------------------
(* Properties of steps.                                                    *)

LEMMA Generations ==
    ASSUME Inv, NEW i \in Index
    PROVE  /\ table.slots[i].generation \in Nat
           /\ \A k \in 1..MAX_GENERATION : k \in Nat
  <1>1. table.slots[i] \in Slot
    BY DEF Inv, TableInv, Table
  <1> QED
    BY <1>1, Limits DEF Slot, MAX_GENERATION

\* A handle's slot and generation, and what the poller answers about it.
LEMMA OwnHandle ==
    ASSUME Inv, NEW h \in handles
    PROVE  \E i \in Index, k \in 1..MAX_GENERATION :
              /\ h = [owner |-> owner, id |-> encode(i, k)]
              /\ owner # 0 /\ k <= table.slots[i].generation
              /\ registration_state(h) =
                    IF table.slots[i].generation = k /\ table.slots[i].entry # None
                    THEN table.slots[i].entry.state ELSE "Stale"
  <1>1. PICK i \in Index, k \in 1..MAX_GENERATION : h.id = encode(i, k)
    BY DEF Inv, TypeOK, Registration, Ids
  <1>2. owner # 0 /\ h.owner = owner /\ k <= table.slots[i].generation
    BY <1>1, IdParts DEF Inv, HandlesReached
  <1>3. h = [owner |-> owner, id |-> encode(i, k)]
    BY <1>1, <1>2 DEF Inv, TypeOK, Registration
  <1>4. registration_state(h) = state(table, encode(i, k))
    BY <1>1, <1>2 DEF registration_state, require_owner
  <1> QED
    BY <1>2, <1>3, <1>4, Lookup DEF Inv

\* A touched generation is live before the step or new with it; whatever else
\* a caller holds is left as it was, and what was stale stays stale.
LEMMA TouchFrame ==
    ASSUME Inv, Inv', NEW i \in Index, NEW g \in 1..MAX_GENERATION, Touches(i, g),
           NEW h \in handles, handles \subseteq handles'
    PROVE  /\ registration_state(h) = "Stale" => registration_state(h)' = "Stale"
           /\ h # [owner |-> owner', id |-> encode(i, g)] =>
                 /\ registration_state(h)' = registration_state(h)
                 /\ backend'[h.id] = backend[h.id]
  <1>1. PICK j \in Index, k \in 1..MAX_GENERATION :
              /\ h = [owner |-> owner, id |-> encode(j, k)]
              /\ owner # 0 /\ k <= table.slots[j].generation
              /\ registration_state(h) =
                    IF table.slots[j].generation = k /\ table.slots[j].entry # None
                    THEN table.slots[j].entry.state ELSE "Stale"
    BY OwnHandle
  <1>2. owner' # 0 /\ h.owner = owner' /\ TableInv(table')
    BY DEF Inv, HandlesReached
  <1>3. registration_state(h)' =
           IF table'.slots[j].generation = k /\ table'.slots[j].entry # None
           THEN table'.slots[j].entry.state ELSE "Stale"
    <2>1. registration_state(h)' = state(table', encode(j, k))
      BY <1>1, <1>2 DEF registration_state, require_owner
    <2> QED
      BY <1>2, <2>1, Lookup
  <1>4. PICK e : SlotBecomes(table, table', i, g, e)
    BY DEF Touches
  <1>5. table.slots[i].generation \in Nat /\ g \in Nat /\ k \in Nat
    BY Generations
  <1>6. backend \in [Ids -> BackendEntry \cup {None}] /\ encode(j, k) \in Ids
    BY IdParts DEF Inv, TypeOK
  <1>7. CASE j # i
    <2>1. table'.slots[j] = table.slots[j]
      BY <1>4, <1>7 DEF SlotBecomes
    <2>2. encode(j, k) # encode(i, g)
      BY <1>7, IdsDistinct
    <2>3. backend'[encode(j, k)] = backend[encode(j, k)]
      BY <1>6, <2>2 DEF Touches
    <2> QED
      BY <1>1, <1>3, <2>1, <2>3
  <1>8. CASE j = i /\ k # g
    <2>1. encode(j, k) # encode(i, g)
      BY <1>8, IdsDistinct
    <2>2. backend'[encode(j, k)] = backend[encode(j, k)]
      BY <1>6, <2>1 DEF Touches
    <2>3. registration_state(h)' = "Stale"
      BY <1>3, <1>4, <1>8 DEF SlotBecomes
    <2>4. registration_state(h) = "Stale"
      BY <1>1, <1>5, <1>8 DEF Touches, Advances
    <2> QED
      BY <1>1, <2>2, <2>3, <2>4
  <1>9. CASE j = i /\ k = g
    <2>1. h = [owner |-> owner', id |-> encode(i, g)]
      BY <1>1, <1>2, <1>9
    <2>2. table.slots[i].generation = g /\ table.slots[i].entry # None
      BY <1>1, <1>5, <1>9 DEF Touches, Advances
    <2>3. registration_state(h) # "Stale"
      <3>1. table.slots[i].entry.state \in RegistrationStates
        BY <2>2 DEF Inv, TableInv, Table, Slot, Entry
      <3> QED
        BY <1>1, <1>9, <2>2, <3>1 DEF RegistrationStates
    <2> QED
      BY <2>1, <2>3
  <1> QED
    BY <1>7, <1>8, <1>9

\* In a step of the machine every handle keeps its place.
LEMMA HandlesKept ==
    ASSUME Inv, Next
    PROVE  handles \subseteq handles'
  <1>1. CASE Register
    BY <1>1 DEF Register, RegisterInvalid, RegisterCannotDup, RegisterNoPermit,
                RegisterNoOwner, RegisterCall, Refuses, Unmoved
  <1>2. CASE Modify
    BY <1>2 DEF Modify, ModifyRejected, ModifyCall, Unmoved
  <1>3. CASE Delete
    BY <1>3 DEF Delete, DeleteRejected, DeleteCall, Unmoved
  <1>4. CASE Disarm
    BY <1>4 DEF Disarm, DisarmRejected, EstablishDisarmed, Unmoved
  <1>5. CASE OtherPoller
    BY <1>5 DEF OtherPoller, Unmoved
  <1> QED
    BY <1>1, <1>2, <1>3, <1>4, <1>5 DEF Next

\* No stale handle ever comes back to life, however often its slot is reused
\* (generations in table_reserve.rs and table_retire.rs).
THEOREM StaleHandlesStayStale == Spec => StaleForever
  <1> DEFINE A == \A h \in handles : registration_state(h) = "Stale" =>
                                        registration_state(h)' = "Stale"
  <1>1. Inv /\ Inv' /\ [Next]_vars => [A]_vars
    <2> SUFFICES ASSUME Inv, Inv', Next PROVE A
      OBVIOUS
    <2>1. handles \subseteq handles'
      BY HandlesKept
    <2>2. CASE Quiet
      BY <2>2 DEF Quiet, registration_state, require_owner
    <2>3. CASE Registers
      BY <2>1, <2>3, TouchFrame DEF Registers
    <2>4. CASE \E h : Calls(h)
      BY <2>1, <2>4, TouchFrame DEF Calls
    <2> QED
      BY <2>2, <2>3, <2>4, Step
  <1> QED
    BY <1>1, Invariance, PTL DEF Spec, StaleForever

\* A call changes what the poller and the backend hold for its own handle only.
THEOREM CallsAreIsolated == Spec => OnlyTargetChanges
  <1> DEFINE A == \A h \in handles : h # result'.target =>
                     /\ registration_state(h)' = registration_state(h)
                     /\ backend'[h.id] = backend[h.id]
  <1>1. Inv /\ Inv' /\ [Next]_vars => [A]_vars
    <2> SUFFICES ASSUME Inv, Inv', Next PROVE A
      OBVIOUS
    <2>1. handles \subseteq handles'
      BY HandlesKept
    <2>2. CASE Quiet
      BY <2>2 DEF Quiet, registration_state, require_owner
    <2>3. CASE Registers
      <3>1. PICK i \in Index, g \in 1..MAX_GENERATION :
               Touches(i, g) /\ g = table.slots[i].generation + 1
        BY <2>3 DEF Registers
      <3>2. ASSUME NEW h \in handles
            PROVE  h # [owner |-> owner', id |-> encode(i, g)]
        <4>1. PICK j \in Index, k \in 1..MAX_GENERATION :
                 /\ h = [owner |-> owner, id |-> encode(j, k)]
                 /\ k <= table.slots[j].generation
          BY OwnHandle
        <4>2. table.slots[i].generation \in Nat /\ k \in Nat
          BY Generations
        <4>3. encode(j, k) # encode(i, g)
          BY <3>1, <4>1, <4>2, IdsDistinct
        <4> QED
          BY <4>1, <4>3
      <3> QED
        BY <2>1, <3>1, <3>2, TouchFrame
    <2>4. CASE \E h : Calls(h)
      <3>1. PICK t : Calls(t)
        BY <2>4
      <3>2. PICK i \in Index, g \in 1..MAX_GENERATION :
               t.id = encode(i, g) /\ Touches(i, g)
        BY <3>1 DEF Calls
      <3>3. t = [owner |-> owner', id |-> encode(i, g)] /\ result'.target = t
        BY <3>1, <3>2, OwnHandle DEF Calls
      <3> QED
        BY <2>1, <3>2, <3>3, TouchFrame
    <2> QED
      BY <2>2, <2>3, <2>4, Step
  <1> QED
    BY <1>1, Invariance, PTL DEF Spec, OnlyTargetChanges

\* register never gives out a handle somebody already holds, of this poller or
\* of another one.
THEOREM HandlesAreFresh == Spec => FreshHandle
  <1> DEFINE A == result'.op = "register" /\ result'.target # None =>
                     result'.target \notin Presented
  <1>1. Inv /\ Inv' /\ [Next]_vars => [A]_vars
    <2> SUFFICES ASSUME Inv, Inv', Next PROVE A
      OBVIOUS
    <2>1. CASE Quiet
      BY <2>1 DEF Quiet
    <2>2. CASE \E h : Calls(h)
      BY <2>2 DEF Calls
    <2>3. CASE Registers
      <3>1. PICK i \in Index, g \in 1..MAX_GENERATION :
               /\ g = table.slots[i].generation + 1
               /\ others' = others
               /\ result'.target \in {None, [owner |-> owner', id |-> encode(i, g)]}
        BY <2>3 DEF Registers
      <3>2. owner' \notin others
        BY <3>1 DEF Inv, OwnersDistinct
      <3>3. ASSUME NEW h \in handles
            PROVE  h # [owner |-> owner', id |-> encode(i, g)]
        <4>1. PICK j \in Index, k \in 1..MAX_GENERATION :
                 /\ h = [owner |-> owner, id |-> encode(j, k)]
                 /\ k <= table.slots[j].generation
          BY OwnHandle
        <4>2. table.slots[i].generation \in Nat /\ k \in Nat
          BY Generations
        <4>3. encode(j, k) # encode(i, g)
          BY <3>1, <4>1, <4>2, IdsDistinct
        <4> QED
          BY <4>1, <4>3
      <3> QED
        BY <3>1, <3>2, <3>3 DEF Presented
    <2> QED
      BY <2>1, <2>2, <2>3, Step
  <1> QED
    BY <1>1, Invariance, PTL DEF Spec, FreshHandle

\* A handle of another poller is refused and moves nothing (authority.rs).
THEOREM ForeignHandlesAreInert == Spec => ForeignInert
  <1> DEFINE A == result'.target # None /\ result'.target \notin handles' =>
                     /\ result'.status = "WrongPoller"
                     /\ UNCHANGED <<table, backend, open, handles>>
  <1>1. Inv /\ [Next]_vars => [A]_vars
    <2> SUFFICES ASSUME Inv, Next PROVE A
      OBVIOUS
    <2>1. CASE Quiet
      BY <2>1 DEF Quiet
    <2>2. CASE Registers
      BY <2>2 DEF Registers
    <2>3. CASE \E h : Calls(h)
      BY <2>3 DEF Calls
    <2> QED
      BY <2>1, <2>2, <2>3, Step
  <1> QED
    BY <1>1, Invariance, PTL DEF Spec, ForeignInert

------------------------------------------------------------------------------
(* What callers are told.                                                  *)

\* Nothing the backend may hold is out of the caller's reach: it has a handle
\* that can still delete it (register.rs settle_register_failure).
THEOREM NothingOrphaned == Spec => []NoOrphan
  <1>1. Inv => NoOrphan
    <2> SUFFICES ASSUME Inv, NEW id \in Ids,
                        backend[id] # None, backend[id].state # "Absent"
                 PROVE  \E h \in handles : h.id = id /\ registration_state(h) # "Stale"
      BY DEF NoOrphan
    <2>1. PICK i \in Index, g \in 1..MAX_GENERATION : id = encode(i, g)
      BY DEF Ids
    <2>2. table.slots[i].generation \in Nat /\ g \in Nat
      BY Generations
    <2>3. /\ g > table.slots[i].generation => backend[id] = None
          /\ g < table.slots[i].generation => Matches(backend[id], None)
          /\ g = table.slots[i].generation =>
                Matches(backend[id], table.slots[i].entry)
      BY <2>1 DEF Inv, BackendMatches
    <2>4. table.slots[i].generation = g /\ table.slots[i].entry # None
      BY <2>2, <2>3 DEF Matches
    <2> DEFINE h == [owner |-> owner, id |-> id]
    <2>5. h \in handles
      BY <2>1, <2>4 DEF Inv, EntriesIssued
    <2>6. registration_state(h) = table.slots[i].entry.state
      <3>1. owner # 0
        BY <2>5 DEF Inv, HandlesReached
      <3> QED
        BY <2>1, <2>4, <3>1, Lookup DEF Inv, registration_state, require_owner
    <2>7. table.slots[i].entry.state \in RegistrationStates
      BY <2>4 DEF Inv, TableInv, Table, Slot, Entry
    <2> QED
      BY <2>5, <2>6, <2>7 DEF RegistrationStates
  <1> QED
    BY <1>1, Invariance, PTL

\* The errors of fresh_permit describe the table (table_reserve.rs).
LEMMA PermitHonest ==
    ASSUME NEW t, TableInv(t)
    PROVE  /\ PermitStatus(t) # "Invariant"
           /\ PermitStatus(t) = "Capacity" =>
                 /\ \A i \in Index : i < t.len /\ ~Vacant(t, i)
                 /\ \E i \in Index : t.slots[i].entry # None
           /\ PermitStatus(t) = "RegistrationSpaceExhausted" =>
                 \A i \in Index : Spent(t, i)
  <1>1. PermitStatus(t) # "Invariant"
    BY PermitNeverInvariant DEF PermitStatus
  <1>2. t.len \in 0..Limit /\ t.exhausted = Cardinality(SpentSlots(t))
    BY DEF TableInv, Table, ExhaustedCounted
  <1>3. SpentSlots(t) \in SUBSET Index
    BY DEF SpentSlots
  <1>4. IsFiniteSet(Index) /\ Cardinality(Index) = Limit
    BY FS_Interval, Limits, 0 \in Int, Limit - 1 \in Int
  <1>5. t.exhausted = Limit <=> SpentSlots(t) = Index
    BY <1>2, <1>3, <1>4, FS_Subset
  <1>6. CASE PermitStatus(t) \in {"Capacity", "RegistrationSpaceExhausted"}
    <2>1. ~has_reusable_slot(t)
      BY <1>6, PermitNeverInvariant DEF PermitStatus
    <2>2. \A i \in Index : ~Vacant(t, i)
      <3>1. PICK n \in 0..Limit : \E at \in [1..n -> Index] : IsFreeStack(t, n, at)
        BY DEF TableInv, HasFreeStack
      <3>2. PICK at \in [1..n -> Index] : IsFreeStack(t, n, at)
        BY <3>1
      <3> QED
        BY <2>1, <3>2, FreeHead
    <2>3. /\ t.len = Limit
          /\ PermitStatus(t) = "RegistrationSpaceExhausted" <=> t.exhausted = Limit
      <3>1. ~(t.len < Limit)
        BY <1>2, <1>6, <2>1, Limits DEF PermitStatus, fresh_permit
      <3>2. PermitStatus(t) = IF t.exhausted = Limit
                              THEN "RegistrationSpaceExhausted" ELSE "Capacity"
        BY <2>1, <3>1 DEF PermitStatus, fresh_permit
      <3> QED
        BY <1>2, <3>1, <3>2, Limits
    <2>4. \A i \in Index : i < t.len
      BY <2>3, Limits
    <2>5. \A i \in Index : Spent(t, i) <=> t.slots[i].entry = None
      BY <2>2, <2>4 DEF Spent, Vacant
    <2>6. t.exhausted = Limit <=> \A i \in Index : t.slots[i].entry = None
      BY <1>5, <2>5 DEF SpentSlots
    <2>7. PermitStatus(t) = "RegistrationSpaceExhausted" =>
             \A i \in Index : Spent(t, i)
      BY <2>3, <2>5, <2>6
    <2>8. PermitStatus(t) = "Capacity" => \E i \in Index : t.slots[i].entry # None
      BY <2>3, <2>6
    <2> QED
      BY <1>1, <2>2, <2>4, <2>7, <2>8
  <1> QED
    BY <1>1, <1>6

\* Every answer is truthful: Error::Invariant is never returned by register
\* short of identities, by modify or by delete, and the capacity errors say
\* what the table looks like.
Honest == NoInvariantError /\ CapacityHonest

LEMMA HonestStep ==
    ASSUME Inv, Inv', Next
    PROVE  Honest'
  <1>1. ExhaustedCounted(table')
    BY DEF Inv, TableInv
  <1> DEFINE dull == {"Ok", "Success", "NotApplied", "Applied", "Unknown",
                      "InvalidInterest", "Io", "WrongPoller", "Stale", "Uncertain"}
  <1>2. ASSUME result'.status \in dull PROVE Honest'
    BY <1>1, <1>2 DEF Honest, NoInvariantError, CapacityHonest
  <1>3. CASE Register
    <2>1. PICK interest \in InterestRequests :
             \/ RegisterInvalid(interest)
             \/ RegisterCannotDup(interest)
             \/ \E d \in Descriptors : RegisterNoPermit(d, interest)
             \/ \E d \in Descriptors : RegisterNoOwner(d, interest)
             \/ \E d \in Descriptors, key \in Keys, mode \in ModeRequests,
                   outcome \in Outcomes :
                      RegisterCall(d, key, interest, mode, outcome)
      BY <1>3 DEF Register
    <2>2. CASE RegisterInvalid(interest) \/ RegisterCannotDup(interest)
      BY <1>2, <2>2 DEF RegisterInvalid, RegisterCannotDup, Returns
    <2>3. CASE \E d \in Descriptors : RegisterNoPermit(d, interest)
      <3>1. /\ result'.status = PermitStatus(table)
            /\ table' = table
        BY <2>3, RefusalInert DEF RegisterNoPermit, Unmoved
      <3>2. TableInv(table)
        BY DEF Inv
      <3> QED
        BY <1>1, <3>1, <3>2, PermitHonest
           DEF Honest, NoInvariantError, CapacityHonest
    <2>4. CASE \E d \in Descriptors : RegisterNoOwner(d, interest)
      <3>1. /\ result'.status = "Invariant" /\ result'.op = "register"
            /\ CannotAssign /\ owner' = owner /\ next_poll_id' = next_poll_id
        BY <2>4, RefusalInert DEF RegisterNoOwner, Unmoved
      <3> QED
        BY <1>1, <3>1 DEF Honest, NoInvariantError, CapacityHonest, CannotAssign
    <2>5. ASSUME NEW d \in Descriptors, NEW key \in Keys, NEW mode \in ModeRequests,
                 NEW outcome \in Outcomes,
                 RegisterCall(d, key, interest, mode, outcome)
          PROVE  Honest'
      <3>1. result'.status \in dull
        BY <2>5 DEF RegisterCall, Returns, StatusOf, Outcomes, CommitStatus
      <3> QED
        BY <1>2, <3>1
    <2> QED
      BY <2>1, <2>2, <2>3, <2>4, <2>5
  <1>4. CASE Modify
    <2>1. result'.status \in dull
      BY <1>4 DEF Modify, ModifyRejected, ModifyRejection, ModifyCall, Returns,
                  binding, StatusOf, Validated, Outcomes, CommitStatus
    <2> QED
      BY <1>2, <2>1
  <1>5. CASE Delete
    <2>1. result'.status \in dull
      BY <1>5 DEF Delete, DeleteRejected, DeleteRejection, DeleteCall, Returns,
                  prepare_registration_retire, StatusOf, Validated, Outcomes,
                  CommitStatus
    <2> QED
      BY <1>2, <2>1
  <1>6. CASE Disarm
    <2>1. result'.op = "disarm" /\ result'.status \in dull \cup {"Invariant"}
      BY <1>6 DEF Disarm, DisarmRejected, DisarmRejection, EstablishDisarmed,
                  Returns, binding
    <2> QED
      BY <1>1, <2>1 DEF Honest, NoInvariantError, CapacityHonest
  <1>7. CASE OtherPoller
    BY <1>2, <1>7 DEF OtherPoller, Returns
  <1> QED
    BY <1>3, <1>4, <1>5, <1>6, <1>7 DEF Next

LEMMA AlwaysHonest == Spec => []Honest
  <1>1. Init => Honest
    <2> SUFFICES ASSUME Init PROVE Honest
      OBVIOUS
    <2>1. Inv /\ result.status = "Ok"
      BY InitInv DEF Init
    <2> QED
      BY <2>1 DEF Honest, NoInvariantError, CapacityHonest, Inv, TableInv
  <1>2. Honest /\ Inv /\ Inv' /\ [Next]_vars => Honest'
    <2>1. CASE Next
      BY <2>1, HonestStep
    <2>2. CASE vars' = vars
      BY <2>2 DEF vars, Honest, NoInvariantError, CapacityHonest, CannotAssign
    <2> QED
      BY <2>1, <2>2
  <1> QED
    BY <1>1, <1>2, Invariance, PTL DEF Spec

\* Capacity and RegistrationSpaceExhausted mean what they say.
THEOREM CapacityErrorsHonest == Spec => []CapacityHonest
  <1>1. Honest => CapacityHonest
    BY DEF Honest
  <1> QED
    BY <1>1, AlwaysHonest, PTL

\* The internal consistency checks of the table never fail.
THEOREM InvariantErrorUnreachable == Spec => []NoInvariantError
  <1>1. Honest => NoInvariantError
    BY DEF Honest
  <1> QED
    BY <1>1, AlwaysHonest, PTL

------------------------------------------------------------------------------
(* The lives of the handles.                                               *)

\* The lives of all handles, as the instance L of Mutation sees them.
Lives == [h \in Registration |-> LifeOf(h)]

InPhase(phase) == [phase |-> phase, interest |-> {}, mode |-> "None"]
RegisteredLife(arm, interest, mode) ==
    [phase |-> arm, interest |-> interest, mode |-> mode]

\* What the entry of a slot tells about the life of its occupant.
Shown(e) == IF e = None THEN InPhase("Stale")
            ELSE IF e.state = "Uncertain" THEN InPhase("Uncertain")
            ELSE RegisteredLife(e.state, e.interest, e.mode)

\* LifeOf for a given table and set of handles out.
LifeIn(t, out, h) ==
    LET e == entry(t, h.id)
        s == state(t, h.id)
    IN  IF h \notin out THEN InPhase("Unissued")
        ELSE IF s \in {"Stale", "Uncertain"} THEN InPhase(s)
             ELSE RegisteredLife(s, e.interest, e.mode)

LEMMA LifeAt ==
    ASSUME NEW h
    PROVE  /\ LifeOf(h) = LifeIn(table, handles, h)
           /\ LifeOf(h)' = LifeIn(table', handles', h)
  BY DEF LifeOf, LifeIn, InPhase, RegisteredLife

LEMMA LifeSeen ==
    ASSUME NEW t, TableInv(t), NEW out, NEW h,
           NEW i \in Index, NEW g \in 1..MAX_GENERATION, h.id = encode(i, g)
    PROVE  LifeIn(t, out, h) =
              IF h \notin out THEN InPhase("Unissued")
              ELSE IF t.slots[i].generation = g THEN Shown(t.slots[i].entry)
                   ELSE InPhase("Stale")
  <1> DEFINE e == t.slots[i].entry
             live == t.slots[i].generation = g /\ e # None
  <1>1. /\ entry(t, h.id) = e
        /\ state(t, h.id) = IF live THEN e.state ELSE "Stale"
    BY Lookup
  <1>2. e # None => e.state \in RegistrationStates
    BY DEF TableInv, Table, Slot, Entry
  <1> QED
    BY <1>1, <1>2 DEF LifeIn, Shown, RegistrationStates

\* A step that touches one generation of one slot leaves every other handle's
\* life alone.
LEMMA LifeFrame ==
    ASSUME Inv, Inv', NEW i \in Index, NEW g \in 1..MAX_GENERATION, NEW e,
           SlotBecomes(table, table', i, g, e), Advances(table, i, g),
           handles \subseteq handles',
           handles' \subseteq handles \cup {[owner |-> owner', id |-> encode(i, g)]},
           NEW h \in Registration, h # [owner |-> owner', id |-> encode(i, g)]
    PROVE  LifeOf(h)' = LifeOf(h)
  <1>1. TableInv(table) /\ TableInv(table')
    BY DEF Inv
  <1>2. h \in handles' <=> h \in handles
    OBVIOUS
  <1>3. CASE h \notin handles
    BY <1>2, <1>3 DEF LifeOf
  <1>4. CASE h \in handles
    <2>1. PICK j \in Index, k \in 1..MAX_GENERATION :
             /\ h = [owner |-> owner, id |-> encode(j, k)]
             /\ k <= table.slots[j].generation
      BY <1>4, OwnHandle
    <2>2. owner' = owner
      BY <1>4, <2>1 DEF Inv, HandlesReached
    <2>3. LifeOf(h) = IF table.slots[j].generation = k
                      THEN Shown(table.slots[j].entry) ELSE InPhase("Stale")
      BY <1>1, <1>4, <2>1, LifeSeen, LifeAt
    <2>4. LifeOf(h)' = IF table'.slots[j].generation = k
                       THEN Shown(table'.slots[j].entry) ELSE InPhase("Stale")
      BY <1>1, <1>2, <1>4, <2>1, LifeSeen, LifeAt
    <2>5. CASE j # i
      BY <2>3, <2>4, <2>5 DEF SlotBecomes
    <2>6. CASE j = i
      <3>1. k # g
        BY <2>1, <2>2, <2>6
      <3>2. LifeOf(h)' = InPhase("Stale")
        BY <2>4, <2>6, <3>1 DEF SlotBecomes
      <3>3. table.slots[i].generation = k => table.slots[i].entry = None
        BY <3>1 DEF Advances
      <3> QED
        BY <2>3, <2>6, <3>2, <3>3 DEF Shown
    <2> QED
      BY <2>5, <2>6
  <1> QED
    BY <1>3, <1>4

\* The life of the touched handle, before and after the step.
LEMMA LifeTouched ==
    ASSUME Inv, Inv', NEW i \in Index, NEW g \in 1..MAX_GENERATION, NEW e,
           SlotBecomes(table, table', i, g, e),
           NEW h, h = [owner |-> owner', id |-> encode(i, g)]
    PROVE  /\ h \in handles => LifeOf(h) = IF table.slots[i].generation = g
                                           THEN Shown(table.slots[i].entry)
                                           ELSE InPhase("Stale")
           /\ h \notin handles => LifeOf(h) = InPhase("Unissued")
           /\ h \in handles' => LifeOf(h)' = Shown(e)
           /\ h \notin handles' => LifeOf(h)' = InPhase("Unissued")
  <1>1. TableInv(table) /\ TableInv(table') /\ h.id = encode(i, g)
    BY DEF Inv
  <1> QED
    BY <1>1, LifeSeen, LifeAt DEF SlotBecomes

LEMMA LivesBecome ==
    ASSUME Inv, Inv', NEW i \in Index, NEW g \in 1..MAX_GENERATION, NEW e,
           SlotBecomes(table, table', i, g, e), Advances(table, i, g),
           handles \subseteq handles',
           handles' \subseteq handles \cup {[owner |-> owner', id |-> encode(i, g)]},
           NEW h, h = [owner |-> owner', id |-> encode(i, g)], owner' \in PollIds
    PROVE  /\ h \in Registration
           /\ h \in handles' => Lives' = [Lives EXCEPT ![h] = Shown(e)]
           /\ h \notin handles' => Lives' = Lives
  <1>1. h \in Registration
    BY IdParts DEF Registration
  <1>2. \A x \in Registration : x # h => LifeOf(x)' = LifeOf(x)
    BY LifeFrame
  <1>3. Lives' = [x \in Registration |-> LifeOf(x)']
    BY DEF Lives
  <1>4. CASE h \in handles'
    <2>1. LifeOf(h)' = Shown(e)
      BY <1>4, LifeTouched
    <2> QED
      BY <1>1, <1>2, <1>3, <1>4, <2>1 DEF Lives
  <1>5. CASE h \notin handles'
    <2>1. LifeOf(h)' = LifeOf(h)
      BY <1>5, LifeTouched
    <2> QED
      BY <1>1, <1>2, <1>3, <1>5, <2>1 DEF Lives
  <1> QED
    BY <1>1, <1>4, <1>5

\* Both modules mean the cardinality of FiniteSets.
LEMMA SameCardinality == ASSUME NEW S PROVE L!Cardinality(S) = Cardinality(S)
  BY DEF L!Cardinality, Cardinality

\* No more handles are live than the poller has occupied slots.
LEMMA RoomToIssue ==
    ASSUME Inv, NEW i \in Index, table.slots[i].entry = None
    PROVE  L!Cardinality(L!Live) < Limit
  <1> DEFINE f == [h \in L!Live |-> decode(h.id).index]
  <1>1. ASSUME NEW h \in L!Live
        PROVE  \E j \in Index, k \in 1..MAX_GENERATION :
                  /\ h = [owner |-> owner, id |-> encode(j, k)]
                  /\ table.slots[j].generation = k /\ table.slots[j].entry # None
                  /\ decode(h.id).index = j
    <2>1. /\ h \in Registration
          /\ LifeOf(h).phase \in {"Armed", "Disarmed", "Uncertain"}
      BY DEF L!Live
    <2>2. h \in handles
      BY <2>1 DEF LifeOf
    <2>3. PICK j \in Index, k \in 1..MAX_GENERATION :
             h = [owner |-> owner, id |-> encode(j, k)]
      BY <2>2, OwnHandle
    <2>4. LifeOf(h) = IF table.slots[j].generation = k
                      THEN Shown(table.slots[j].entry) ELSE InPhase("Stale")
      BY <2>2, <2>3, LifeSeen, LifeAt DEF Inv
    <2>5. table.slots[j].generation = k /\ table.slots[j].entry # None
      BY <2>1, <2>4 DEF Shown, InPhase
    <2> QED
      BY <2>3, <2>5, IdParts
  <1>2. f \in Injection(L!Live, Index \ {i})
    <2>1. f \in [L!Live -> Index \ {i}]
      BY <1>1
    <2>2. \A h1, h2 \in L!Live : f[h1] = f[h2] => h1 = h2
      BY <1>1
    <2> QED
      BY <2>1, <2>2 DEF Injection, IsInjective
  <1>3. IsFiniteSet(Index) /\ Cardinality(Index) = Limit
    BY FS_Interval, Limits, 0 \in Int, Limit - 1 \in Int
  <1>4. IsFiniteSet(Index \ {i}) /\ Cardinality(Index \ {i}) = Limit - 1
    BY <1>3, FS_RemoveElement
  <1> HIDE DEF f
  <1>5. IsFiniteSet(L!Live) /\ Cardinality(L!Live) <= Cardinality(Index \ {i})
    BY <1>2, <1>4, FS_Injection
  <1>6. Cardinality(L!Live) \in Nat
    BY <1>5, FS_CardinalityType
  <1> QED
    BY <1>4, <1>5, <1>6, Limits, SameCardinality

------------------------------------------------------------------------------
(* The actions.                                                            *)

\* Steps of Lifecycle, from the life of the handle they are about.
LEMMA IssueStep ==
    ASSUME NEW h \in Registration, NEW e \in Entry, LifeOf(h) = InPhase("Unissued"),
           L!Cardinality(L!Live) < Limit, Lives' = [Lives EXCEPT ![h] = Shown(e)],
           e.state = "Uncertain" \/ (e.state = "Armed" /\ e.interest # {})
    PROVE  L!Next
  <1>1. L!Becomes(h, Shown(e))
    BY DEF L!Becomes, Lives
  <1>2. e # None /\ e.interest \in SUBSET {"READABLE", "WRITABLE"} /\ e.mode \in Modes
    BY NoneAssumption DEF Entry, Interests
  <1>3. L!Issue(h)
    <2>1. [x \in Registration |-> LifeOf(x)][h].phase = "Unissued"
      BY DEF InPhase
    <2>2. CASE e.state = "Uncertain"
      <3>1. Shown(e) = L!In("Uncertain")
        BY <1>2, <2>2 DEF Shown, InPhase, L!In
      <3> QED
        BY <1>1, <2>1, <3>1 DEF L!Issue
    <2>3. CASE e.state = "Armed" /\ e.interest # {}
      <3>1. Shown(e) = L!Registered("Armed", e.interest, e.mode)
        BY <1>2, <2>3 DEF Shown, RegisteredLife, L!Registered
      <3> QED
        BY <1>1, <1>2, <2>1, <2>3, <3>1 DEF L!Issue
    <2> QED
      BY <2>2, <2>3
  <1> QED
    BY <1>3 DEF L!Next

\* A live entry may be lost track of or retired, be rearmed if it is registered,
\* or be delivered if it is an armed one-shot; or nothing happens to it.
Lived(e0, e) ==
    \/ e = e0
    \/ e = None
    \/ e = Uncertainly(e0)
    \/ /\ e0.state # "Uncertain"
       /\ \E interest \in Interests \ {{}}, mode \in Modes :
             e = Rearmed(e0, interest, mode)
    \/ /\ e0.state = "Armed" /\ e0.mode = "OneShot"
       /\ e = [e0 EXCEPT !.state = "Disarmed"]

LEMMA LiveStep ==
    ASSUME NEW h \in Registration, NEW e0 \in Entry, NEW e \in Entry \cup {None},
           LifeOf(h) = Shown(e0), Lives' = [Lives EXCEPT ![h] = Shown(e)],
           Lived(e0, e)
    PROVE  L!Next \/ Lives' = Lives
  <1>1. L!Becomes(h, Shown(e))
    BY DEF L!Becomes, Lives
  <1>2. e0 # None /\ e0.state \in RegistrationStates
    BY NoneAssumption DEF Entry
  <1>3. [x \in Registration |-> LifeOf(x)][h] = Shown(e0)
    OBVIOUS
  <1>4. h \in L!Live
    BY <1>2, <1>3 DEF L!Live, Shown, InPhase, RegisteredLife, RegistrationStates
  <1>5. CASE e = e0
    BY <1>3, <1>5 DEF Lives
  <1>6. CASE e = None
    <2>1. Shown(e) = L!In("Stale")
      BY <1>6 DEF Shown, InPhase, L!In
    <2> QED
      BY <1>1, <1>4, <2>1 DEF L!Retire, L!Next
  <1>7. CASE e = Uncertainly(e0)
    <2>1. e # None /\ e.state = "Uncertain"
      BY <1>7, ChangedEntries, NoneAssumption DEF Entry, Uncertainly, RegistrationStates
    <2>2. Shown(e) = L!In("Uncertain")
      BY <2>1 DEF Shown, InPhase, L!In
    <2> QED
      BY <1>1, <1>4, <2>2 DEF L!LoseTrack, L!Next
  <1>8. ASSUME e0.state # "Uncertain",
               NEW interest \in Interests \ {{}}, NEW mode \in Modes,
               e = Rearmed(e0, interest, mode)
        PROVE  L!Next
    <2>1. /\ e # None /\ e.state = "Armed"
          /\ e.interest = interest /\ e.mode = mode
      BY <1>8, NoneAssumption DEF Entry, Rearmed, RegistrationStates
    <2>2. Shown(e) = L!Registered("Armed", interest, mode)
      BY <2>1 DEF Shown, RegisteredLife, L!Registered
    <2>3. L!IsRegistered(h)
      BY <1>2, <1>3, <1>8
         DEF L!IsRegistered, Shown, RegisteredLife, RegistrationStates
    <2>4. interest \in (SUBSET {"READABLE", "WRITABLE"}) \ {{}}
      BY DEF Interests
    <2>5. L!Rearm(h)
      BY <1>1, <2>2, <2>3, <2>4 DEF L!Rearm
    <2> QED
      BY <2>5 DEF L!Next
  <1>9. CASE /\ e0.state = "Armed" /\ e0.mode = "OneShot"
             /\ e = [e0 EXCEPT !.state = "Disarmed"]
    <2>1. /\ e # None /\ e.state = "Disarmed"
          /\ e.interest = e0.interest /\ e.mode = e0.mode
      BY <1>9, NoneAssumption DEF Entry, RegistrationStates
    <2>2. Shown(e0) = RegisteredLife("Armed", e0.interest, "OneShot")
      BY <1>2, <1>9 DEF Shown
    <2>3. Shown(e) = [Shown(e0) EXCEPT !.phase = "Disarmed"]
      BY <1>9, <2>1, <2>2 DEF Shown, RegisteredLife
    <2>4. /\ [x \in Registration |-> LifeOf(x)][h].phase = "Armed"
          /\ [x \in Registration |-> LifeOf(x)][h].mode = "OneShot"
      BY <1>3, <2>2 DEF RegisteredLife
    <2>5. L!Deliver(h)
      BY <1>1, <1>3, <2>3, <2>4 DEF L!Deliver
    <2> QED
      BY <2>5 DEF L!Next
  <1> QED
    BY <1>5, <1>6, <1>7, <1>8, <1>9 DEF Lived

\* What the calls make of the entry of their slot, by the backend's answer.
AfterRegister(e, outcome) ==
    CASE outcome \in {"Success", "Applied"} -> e
      [] outcome = "NotApplied" -> None
      [] outcome = "Unknown" -> Uncertainly(e)
AfterModify(e, interest, mode, outcome) ==
    CASE outcome \in {"Success", "Applied"} -> Rearmed(e, interest, mode)
      [] outcome = "NotApplied" -> e
      [] outcome = "Unknown" -> Uncertainly(e)
AfterDelete(e, outcome) ==
    CASE outcome \in {"Success", "Applied"} -> None
      [] outcome = "NotApplied" -> e
      [] outcome = "Unknown" -> Uncertainly(e)

\* register takes the permitted slot one generation further and settles it.
LEMMA RegisterSlot ==
    ASSUME Inv, NEW d \in Descriptors, NEW key \in Keys,
           NEW interest \in Interests, NEW mode \in Modes,
           NEW outcome \in Outcomes,
           RegisterCall(d, key, interest, mode, outcome)
    PROVE  \E i \in Index, g \in 1..MAX_GENERATION :
              /\ table.slots[i].entry = None
              /\ g = table.slots[i].generation + 1
              /\ i = Permit(table).index /\ g = Permit(table).generation
              /\ SlotBecomes(table, table', i, g,
                    AfterRegister(registered(d, key, interest, mode), outcome))
  <1> DEFINE i == Permit(table).index
             g == Permit(table).generation
             e == registered(d, key, interest, mode)
             reserved == reserve_with(table, e)
  <1>1. TableInv(table) /\ PermitStatus(table) = "Ok"
    BY DEF Inv, RegisterCall
  <1>2. e \in Entry /\ e # None
    BY NoneAssumption DEF registered, Entry, RegistrationStates
  <1>3. /\ i \in Index /\ table.slots[i].entry = None
        /\ g = table.slots[i].generation + 1 /\ g \in 1..MAX_GENERATION
        /\ SlotBecomes(table, reserved, i, g, e)
    BY <1>1, <1>2, Reserve
  <1>4. table' = SettledRegister(reserved, i, outcome)
    BY DEF RegisterCall
  <1>5. TableInv(reserved) /\ reserved.slots[i].generation = g /\ reserved.slots[i].entry = e
    BY <1>3 DEF SlotBecomes
  <1> HIDE DEF i, g, e, reserved
  <1>6. SlotBecomes(reserved, SettledRegister(reserved, i, outcome), i,
                    reserved.slots[i].generation,
                    AfterRegister(reserved.slots[i].entry, outcome))
    BY <1>2, <1>3, <1>5, Settlements DEF AfterRegister
  <1>7. SlotBecomes(table, table', i, g, AfterRegister(e, outcome))
    BY <1>3, <1>4, <1>5, <1>6 DEF SlotBecomes
  <1> QED
    BY <1>3, <1>7 DEF i, g, e

\* modify settles the slot its handle names, which is registered.
LEMMA ModifySlot ==
    ASSUME Inv, NEW h \in Presented, NEW interest \in Interests,
           NEW mode \in Modes, NEW outcome \in Outcomes,
           ModifyCall(h, interest, mode, outcome)
    PROVE  \E i \in Index, g \in 1..MAX_GENERATION :
              /\ h.id = encode(i, g) /\ h \in handles
              /\ table.slots[i].generation = g /\ table.slots[i].entry # None
              /\ table.slots[i].entry.state # "Uncertain"
              /\ SlotBecomes(table, table', i, g,
                    AfterModify(table.slots[i].entry, interest, mode, outcome))
  <1>1. PICK i \in Index, g \in 1..MAX_GENERATION : h.id = encode(i, g)
    BY PresentedHandle
  <1> DEFINE e == table.slots[i].entry
  <1>2. TableInv(table) /\ h \in handles
    BY PresentedHandle DEF Inv, ModifyCall, ModifyRejection
  <1>3. /\ table.slots[i].generation = g /\ e # None /\ e.state # "Uncertain"
        /\ entry(table, h.id) = e /\ decode(h.id).index = i
    <2>1. binding(table, h.id, FALSE) = "Ok"
      BY DEF ModifyCall, ModifyRejection
    <2>2. IsLive(table, h.id) /\ entry(table, h.id).state # "Uncertain"
      BY <2>1 DEF binding
    <2> QED
      BY <1>1, <1>2, <2>2, Lookup, IdParts
  <1>4. validate(backend, h.id, e.descriptor)
    BY <1>1, <1>3, LiveTarget
  <1>5. table' = SettledModify(table, i, interest, mode, outcome)
    BY <1>3, <1>4 DEF ModifyCall, Validated
  <1>6. SlotBecomes(table, table', i, g, AfterModify(e, interest, mode, outcome))
    BY <1>2, <1>3, <1>5, Settlements DEF AfterModify
  <1> QED
    BY <1>1, <1>2, <1>3, <1>6

\* delete settles the slot its handle names.
LEMMA DeleteSlot ==
    ASSUME Inv, NEW h \in Presented, NEW outcome \in Outcomes,
           DeleteCall(h, outcome)
    PROVE  \E i \in Index, g \in 1..MAX_GENERATION :
              /\ h.id = encode(i, g) /\ h \in handles
              /\ table.slots[i].generation = g /\ table.slots[i].entry # None
              /\ SlotBecomes(table, table', i, g,
                             AfterDelete(table.slots[i].entry, outcome))
  <1>1. PICK i \in Index, g \in 1..MAX_GENERATION : h.id = encode(i, g)
    BY PresentedHandle
  <1> DEFINE e == table.slots[i].entry
  <1>2. TableInv(table) /\ h \in handles
    BY PresentedHandle DEF Inv, DeleteCall, DeleteRejection
  <1>3. table.slots[i].generation = g /\ e # None /\ parts(h.id).index = i
    <2>1. prepare_registration_retire(table, h.id, TRUE) = "Ok"
      BY DEF DeleteCall, DeleteRejection
    <2>2. Occupied(table, parts(h.id))
      BY <2>1 DEF prepare_registration_retire
    <2> QED
      BY <1>1, <1>2, <2>2, Lookup, IdParts
  <1>4. validate(backend, h.id, e.descriptor)
    BY <1>1, <1>3, LiveTarget
  <1>5. table' = SettledDelete(table, i, outcome)
    BY <1>3, <1>4 DEF DeleteCall, Validated
  <1>6. SlotBecomes(table, table', i, g, AfterDelete(e, outcome))
    <2>1. {} \in Interests /\ "Level" \in Modes
      BY DEF Interests, Modes
    <2> QED
      BY <1>2, <1>3, <1>5, <2>1, Settlements DEF AfterDelete
  <1> QED
    BY <1>1, <1>2, <1>3, <1>6

\* A call on a live handle of the poller that leaves its slot with the entry e.
LEMMA CallLives ==
    ASSUME Inv, Inv', NEW i \in Index, NEW g \in 1..MAX_GENERATION,
           table.slots[i].generation = g, table.slots[i].entry # None,
           NEW h \in handles, h.id = encode(i, g), UNCHANGED <<owner, handles>>,
           NEW e \in Entry \cup {None}, SlotBecomes(table, table', i, g, e),
           Lived(table.slots[i].entry, e)
    PROVE  L!Next \/ Lives' = Lives
  <1>1. h = [owner |-> owner', id |-> encode(i, g)] /\ owner' \in PollIds
    BY OwnHandle, PollIdMaxAssumption DEF Inv, TypeOK, PollIds
  <1>2. Advances(table, i, g)
    BY DEF Advances
  <1>3. h \in Registration /\ Lives' = [Lives EXCEPT ![h] = Shown(e)]
    BY <1>1, <1>2, LivesBecome
  <1>4. LifeOf(h) = Shown(table.slots[i].entry)
    BY <1>1, LifeTouched
  <1>5. table.slots[i].entry \in Entry
    BY DEF Inv, TableInv, Table, Slot
  <1> QED
    BY <1>3, <1>4, <1>5, LiveStep

LEMMA RegisterLives ==
    ASSUME Inv, Inv', NEW d \in Descriptors, NEW key \in Keys,
           NEW interest \in Interests, NEW mode \in Modes,
           NEW outcome \in Outcomes,
           RegisterCall(d, key, interest, mode, outcome)
    PROVE  L!Next \/ Lives' = Lives
  <1> DEFINE e == registered(d, key, interest, mode)
             e2 == AfterRegister(e, outcome)
  <1>1. PICK i \in Index, g \in 1..MAX_GENERATION :
           /\ table.slots[i].entry = None
           /\ g = table.slots[i].generation + 1
           /\ i = Permit(table).index /\ g = Permit(table).generation
           /\ SlotBecomes(table, table', i, g, e2)
    BY RegisterSlot
  <1> DEFINE h == [owner |-> owner', id |-> encode(i, g)]
  <1>2. /\ e \in Entry /\ e # None /\ e.state = "Armed" /\ e.interest = interest
        /\ Uncertainly(e) \in Entry /\ Uncertainly(e).state = "Uncertain"
        /\ interest # {}
    BY NoneAssumption
       DEF registered, Entry, RegistrationStates, Uncertainly, RegisterCall
  <1>4. /\ owner' = AssignedOwner
        /\ handles' = IF outcome = "NotApplied" THEN handles ELSE handles \cup {h}
    BY <1>1 DEF RegisterCall
  <1>8. Advances(table, i, g)
    BY <1>1 DEF Advances
  <1>9. owner' \in PollIds /\ h \notin handles
    <2>1. owner' \in PollIds
      BY <1>4, PollIdMaxAssumption DEF Inv, TypeOK, AssignedOwner, PollIds
    <2>2. ASSUME h \in handles PROVE FALSE
      <3>1. PICK j \in Index, k \in 1..MAX_GENERATION :
               /\ h = [owner |-> owner, id |-> encode(j, k)]
               /\ k <= table.slots[j].generation
        BY <2>2, OwnHandle
      <3>2. i = j /\ g = k
        BY <3>1, IdsDistinct
      <3> QED
        BY <1>1, <3>1, <3>2, Generations
    <2> QED
      BY <2>1, <2>2
  <1> HIDE DEF h, e2, e
  <1>10. CASE outcome = "NotApplied"
    <2>1. h \notin handles'
      BY <1>4, <1>9, <1>10
    <2> QED
      BY <1>1, <1>4, <1>8, <1>9, <1>10, <2>1, LivesBecome DEF h
  <1>11. CASE outcome # "NotApplied"
    <2>1. /\ e2 \in Entry
          /\ e2.state = "Uncertain" \/ (e2.state = "Armed" /\ e2.interest # {})
      BY <1>2, <1>11 DEF e2, AfterRegister, Outcomes, CommitStatus
    <2>2. h \in Registration /\ Lives' = [Lives EXCEPT ![h] = Shown(e2)]
      <3>1. handles' = handles \cup {h}
        BY <1>4, <1>11
      <3> QED
        BY <1>1, <1>8, <1>9, <3>1, LivesBecome DEF h
    <2>3. LifeOf(h) = InPhase("Unissued")
      BY <1>1, <1>9, LifeTouched DEF h
    <2>4. L!Cardinality(L!Live) < Limit
      BY <1>1, RoomToIssue
    <2> QED
      BY <2>1, <2>2, <2>3, <2>4, IssueStep
  <1> QED
    BY <1>10, <1>11

LEMMA ModifyLives ==
    ASSUME Inv, Inv', NEW h \in Presented, NEW interest \in Interests,
           NEW mode \in Modes, NEW outcome \in Outcomes,
           ModifyCall(h, interest, mode, outcome)
    PROVE  L!Next \/ Lives' = Lives
  <1>1. PICK i \in Index, g \in 1..MAX_GENERATION :
           /\ h.id = encode(i, g) /\ h \in handles
           /\ table.slots[i].generation = g /\ table.slots[i].entry # None
           /\ table.slots[i].entry.state # "Uncertain"
           /\ SlotBecomes(table, table', i, g,
                          AfterModify(table.slots[i].entry, interest, mode, outcome))
    BY ModifySlot
  <1> DEFINE e == table.slots[i].entry
             e2 == AfterModify(e, interest, mode, outcome)
  <1>2. e \in Entry /\ interest # {} /\ UNCHANGED <<owner, handles>>
    BY <1>1, LiveTarget DEF ModifyCall, ModifyRejection
  <1>3. e2 \in Entry /\ Lived(e, e2)
    <2>1. Rearmed(e, interest, mode) \in Entry /\ Uncertainly(e) \in Entry
      BY <1>2, ChangedEntries DEF Rearmed, Uncertainly
    <2> HIDE DEF e
    <2> QED
      BY <1>1, <1>2, <2>1 DEF e, AfterModify, Lived, Outcomes, CommitStatus
  <1> HIDE DEF e2
  <1> QED
    BY <1>1, <1>2, <1>3, CallLives DEF e2

LEMMA DeleteLives ==
    ASSUME Inv, Inv', NEW h \in Presented, NEW outcome \in Outcomes,
           DeleteCall(h, outcome)
    PROVE  L!Next \/ Lives' = Lives
  <1>1. PICK i \in Index, g \in 1..MAX_GENERATION :
           /\ h.id = encode(i, g) /\ h \in handles
           /\ table.slots[i].generation = g /\ table.slots[i].entry # None
           /\ SlotBecomes(table, table', i, g,
                          AfterDelete(table.slots[i].entry, outcome))
    BY DeleteSlot
  <1> DEFINE e == table.slots[i].entry
             e2 == AfterDelete(e, outcome)
  <1>2. e \in Entry /\ UNCHANGED <<owner, handles>>
    BY <1>1, LiveTarget DEF DeleteCall
  <1>3. e2 \in Entry \cup {None} /\ Lived(e, e2)
    <2>1. Uncertainly(e) \in Entry
      BY <1>2 DEF Uncertainly, Entry, RegistrationStates
    <2> HIDE DEF e
    <2> QED
      BY <1>2, <2>1 DEF AfterDelete, Lived, Outcomes, CommitStatus
  <1> HIDE DEF e2
  <1> QED
    BY <1>1, <1>2, <1>3, CallLives DEF e2

LEMMA DisarmLives ==
    ASSUME Inv, Inv', NEW h \in Presented, EstablishDisarmed(h)
    PROVE  L!Next \/ Lives' = Lives
  <1>1. PICK i \in Index, g \in 1..MAX_GENERATION : h.id = encode(i, g)
    BY PresentedHandle
  <1> DEFINE e == table.slots[i].entry
             e2 == [e EXCEPT !.state = "Disarmed"]
  <1>2. TableInv(table) /\ h \in handles
    BY PresentedHandle DEF Inv, EstablishDisarmed, DisarmRejection
  <1>3. table.slots[i].generation = g /\ e # None /\ decode(h.id).index = i
    <2>1. binding(table, h.id, FALSE) = "Ok"
      BY DEF EstablishDisarmed, DisarmRejection
    <2>2. IsLive(table, h.id)
      BY <2>1 DEF binding
    <2> QED
      BY <1>1, <1>2, <2>2, Lookup, IdParts
  <1>4. e \in Entry /\ e2 \in Entry
    BY <1>1, <1>3, LiveTarget DEF Entry, RegistrationStates
  <1>5. /\ table' = table \/ (~DisarmRefused(table, i) /\ table' = SetEntry(table, i, e2))
        /\ UNCHANGED <<owner, handles>>
    BY <1>3 DEF EstablishDisarmed, apply_disarm
  <1>6. CASE table' = table
    <2>1. SlotBecomes(table, table', i, g, e)
      BY <1>2, <1>3, <1>6 DEF SlotBecomes
    <2> QED
      BY <1>1, <1>2, <1>3, <1>4, <1>5, <2>1, CallLives DEF Lived
  <1>7. CASE ~DisarmRefused(table, i) /\ table' = SetEntry(table, i, e2)
    <2>1. SlotBecomes(table, table', i, g, e2)
      BY <1>2, <1>3, <1>4, <1>7, Settle
    <2>2. Lived(e, e2)
      BY <1>7 DEF DisarmRefused, Lived
    <2> QED
      BY <1>1, <1>2, <1>3, <1>4, <1>5, <2>1, <2>2, CallLives
  <1> QED
    BY <1>5, <1>6, <1>7

\* A step that changes neither the table nor the handles out.
LEMMA LivesUnmoved ==
    ASSUME UNCHANGED <<table, handles>>
    PROVE  Lives' = Lives
  BY DEF Lives, LifeOf

LEMMA StepLives ==
    ASSUME Inv, Inv', Next
    PROVE  L!Next \/ Lives' = Lives
  <1>1. CASE Register
    <2>1. ASSUME NEW interest \in InterestRequests,
                 \/ RegisterInvalid(interest) \/ RegisterCannotDup(interest)
                 \/ \E d \in Descriptors : RegisterNoPermit(d, interest)
                 \/ \E d \in Descriptors : RegisterNoOwner(d, interest)
          PROVE  Lives' = Lives
      BY <2>1, LivesUnmoved, RefusalInert
         DEF RegisterInvalid, RegisterCannotDup, RegisterNoPermit,
             RegisterNoOwner, Unmoved
    <2> QED
      BY <1>1, <2>1, RegisterLives, RequestsAssumption DEF Register
  <1>2. CASE Modify
    <2>1. ASSUME NEW h \in Presented, NEW interest \in InterestRequests,
                 ModifyRejected(h, interest)
          PROVE  Lives' = Lives
      BY <2>1, LivesUnmoved DEF ModifyRejected, Unmoved
    <2> QED
      BY <1>2, <2>1, ModifyLives, RequestsAssumption DEF Modify
  <1>3. CASE Delete
    <2>1. ASSUME NEW h \in Presented, DeleteRejected(h) PROVE Lives' = Lives
      BY <2>1, LivesUnmoved DEF DeleteRejected, Unmoved
    <2> QED
      BY <1>3, <2>1, DeleteLives DEF Delete
  <1>4. CASE Disarm
    <2>1. ASSUME NEW h \in Presented, DisarmRejected(h) PROVE Lives' = Lives
      BY <2>1, LivesUnmoved DEF DisarmRejected, Unmoved
    <2> QED
      BY <1>4, <2>1, DisarmLives DEF Disarm
  <1>5. CASE OtherPoller
    BY <1>5, LivesUnmoved DEF OtherPoller
  <1> QED
    BY <1>1, <1>2, <1>3, <1>4, <1>5 DEF Next

\* The whole mutation machine, whatever its driver answers, is an
\* implementation of Lifecycle: register, modify, delete and establish_disarmed
\* give each handle the one life it is promised.
THEOREM LifecycleImplemented == Spec => ImplementsLifecycle
  <1>1. Init => L!Init
    BY DEF Init, L!Init, L!In, LifeOf
  <1>2. Inv /\ Inv' /\ [Next]_vars => [L!Next]_([h \in Registration |-> LifeOf(h)])
    <2> SUFFICES ASSUME Inv, Inv', [Next]_vars
                 PROVE  L!Next \/ Lives' = Lives
      BY DEF Lives
    <2>1. CASE Next
      BY <2>1, StepLives
    <2>2. CASE vars' = vars
      BY <2>2, LivesUnmoved DEF vars
    <2> QED
      BY <2>1, <2>2
  <1> QED
    BY <1>1, <1>2, Invariance, PTL DEF Spec, ImplementsLifecycle, L!Spec

------------------------------------------------------------------------------
(* Descriptors.  The duplicates a poller opens are closed exactly when the *)
(* entry that retains them is dropped.  Inv says nothing of `open', so     *)
(* this is a second induction, on Inv.                                     *)

\* The descriptor that slot i of table t retains, if any.
Retains(t, i, d) == t.slots[i].entry # None /\ t.slots[i].entry.descriptor = d

\* DuplicatesHeldOnce, one descriptor at a time.
Held(t, fds) ==
    /\ \A d : d \in fds <=> d \in DupFds /\ \E i \in Index : Retains(t, i, d)
    /\ \A d \in DupFds, i, j \in Index :
           Retains(t, i, d) /\ Retains(t, j, d) => i = j

LEMMA HeldMeans == DuplicatesHeldOnce <=> Held(table, open)
  BY DEF DuplicatesHeldOnce, Held, Retains, is_owned

\* The four things that a step can do to the descriptor of one slot: take a
\* free one, drop it, keep it, or leave a vacant slot vacant.
Takes(t, u, i, d, fds, left) ==
    /\ t.slots[i].entry = None /\ Retains(u, i, d)
    /\ d \notin fds
    /\ left = Opened(fds, d)
Drops(t, u, i, fds, left) ==
    /\ t.slots[i].entry # None /\ u.slots[i].entry = None
    /\ left = Dropped(fds, t, i)
Keeps(t, u, i, fds, left) ==
    /\ left = fds
    /\ u.slots[i].entry = None <=> t.slots[i].entry = None
    /\ t.slots[i].entry # None =>
           u.slots[i].entry.descriptor = t.slots[i].entry.descriptor

Elsewhere(t, u, i) == \A j \in Index : j # i => u.slots[j] = t.slots[j]

LEMMA TakesHeld ==
    ASSUME NEW t, NEW u, NEW i \in Index, NEW d, NEW fds, NEW left,
           Held(t, fds), Elsewhere(t, u, i), Takes(t, u, i, d, fds, left)
    PROVE  Held(u, left)
  <1>1. \A j \in Index : \A x : j # i => (Retains(u, j, x) <=> Retains(t, j, x))
    BY DEF Elsewhere, Retains
  <1>2. \A x : ~Retains(t, i, x) /\ (Retains(u, i, x) <=> x = d)
    BY DEF Takes, Retains
  <1>3. \A x : x \in left <=> x \in fds \/ (x = d /\ x \in DupFds)
    BY DEF Takes, Opened, is_owned
  <1>4. d \notin fds
    BY DEF Takes
  <1>5. ASSUME d \in DupFds, NEW j \in Index PROVE ~Retains(t, j, d)
    BY <1>4, <1>5 DEF Held
  <1> QED
    BY <1>1, <1>2, <1>3, <1>5 DEF Held

LEMMA DropsHeld ==
    ASSUME NEW t, NEW u, NEW i \in Index, NEW fds, NEW left,
           Held(t, fds), Elsewhere(t, u, i), Drops(t, u, i, fds, left)
    PROVE  Held(u, left)
  <1> DEFINE d == t.slots[i].entry.descriptor
  <1>1. \A j \in Index : \A x : j # i => (Retains(u, j, x) <=> Retains(t, j, x))
    BY DEF Elsewhere, Retains
  <1>2. \A x : ~Retains(u, i, x) /\ (Retains(t, i, x) <=> x = d)
    BY DEF Drops, Retains
  <1>3. \A x : x \in left <=> x \in fds /\ ~(x = d /\ x \in DupFds)
    BY DEF Drops, Dropped, Closed, is_owned
  <1> HIDE DEF d
  <1> QED
    BY <1>1, <1>2, <1>3 DEF Held

LEMMA KeepsHeld ==
    ASSUME NEW t, NEW u, NEW i \in Index, NEW fds, NEW left,
           Held(t, fds), Elsewhere(t, u, i), Keeps(t, u, i, fds, left)
    PROVE  Held(u, left)
  <1>1. \A j \in Index : \A x : j # i => (Retains(u, j, x) <=> Retains(t, j, x))
    BY DEF Elsewhere, Retains
  <1>2. \A x : Retains(u, i, x) <=> Retains(t, i, x)
    BY DEF Keeps, Retains
  <1>3. left = fds
    BY DEF Keeps
  <1> QED
    BY <1>1, <1>2, <1>3 DEF Held

\* An entry that is changed in place keeps its descriptor.
LEMMA EntryKept ==
    ASSUME NEW t, TableInv(t), NEW i \in Index, t.slots[i].entry # None,
           NEW e \in Entry, e.descriptor = t.slots[i].entry.descriptor, NEW fds
    PROVE  /\ Elsewhere(t, SetEntry(t, i, e), i)
           /\ Keeps(t, SetEntry(t, i, e), i, fds, fds)
  <1>1. SlotBecomes(t, SetEntry(t, i, e), i, t.slots[i].generation, e)
    BY Settle
  <1>2. e # None
    BY NoneAssumption
  <1> QED
    BY <1>1, <1>2 DEF SlotBecomes, Elsewhere, Keeps

LEMMA RegisterHeld ==
    ASSUME Inv, Held(table, open), NEW d \in Descriptors, NEW key \in Keys,
           NEW interest \in Interests, NEW mode \in Modes,
           NEW outcome \in Outcomes,
           RegisterCall(d, key, interest, mode, outcome)
    PROVE  Held(table', open')
  <1> DEFINE i == Permit(table).index
             e == registered(d, key, interest, mode)
             reserved == reserve_with(table, e)
             e2 == [e EXCEPT !.state = "Uncertain"]
             taken == Opened(open, d)
  <1>1. TableInv(table) /\ PermitStatus(table) = "Ok" /\ d \notin open
    BY DEF Inv, RegisterCall
  <1>2. e \in Entry /\ e # None /\ e.descriptor = d
    BY NoneAssumption DEF registered, Entry, RegistrationStates
  <1>3. /\ i \in Index /\ table.slots[i].entry = None
        /\ SlotBecomes(table, reserved, i, Permit(table).generation, e)
    BY <1>1, <1>2, Reserve
  <1>4. /\ table' = SettledRegister(reserved, i, outcome)
        /\ open' = IF outcome = "NotApplied" THEN Dropped(taken, reserved, i)
                                             ELSE taken
    BY DEF RegisterCall
  <1>5. e2 \in Entry /\ e2.descriptor = d
    BY <1>2 DEF Entry, RegistrationStates
  <1>6. /\ TableInv(reserved) /\ reserved.slots[i].entry = e
        /\ Elsewhere(table, reserved, i)
        /\ reserved.slots[i].entry # None
    BY <1>2, <1>3 DEF SlotBecomes, Elsewhere
  <1>7. Takes(table, reserved, i, d, open, taken)
    BY <1>1, <1>2, <1>3, <1>6 DEF Takes, Retains
  <1> HIDE DEF i, e, reserved, taken
  <1>8. Held(reserved, taken)
    BY <1>3, <1>6, <1>7, TakesHeld
  <1>9. CASE outcome \in {"Success", "Applied"}
    BY <1>4, <1>8, <1>9 DEF SettledRegister
  <1>10. CASE outcome = "NotApplied"
    <2>1. table' = retire(reserved, i) /\ open' = Dropped(taken, reserved, i)
      BY <1>4, <1>10 DEF SettledRegister
    <2>3. SlotBecomes(reserved, table', i, reserved.slots[i].generation, None)
      BY <1>3, <1>6, <2>1, Settle
    <2>4. /\ Elsewhere(reserved, table', i)
          /\ Drops(reserved, table', i, taken, open')
      BY <1>6, <2>1, <2>3 DEF SlotBecomes, Elsewhere, Drops
    <2> QED
      BY <1>3, <1>8, <2>4, DropsHeld
  <1>11. CASE outcome = "Unknown"
    <2>1. table' = SetEntry(reserved, i, e2) /\ open' = taken
      BY <1>4, <1>6, <1>11 DEF SettledRegister, mark_uncertain
    <2>2. /\ Elsewhere(reserved, table', i)
          /\ Keeps(reserved, table', i, taken, taken)
      BY <1>2, <1>3, <1>5, <1>6, <2>1, EntryKept
    <2> QED
      BY <1>3, <1>8, <2>1, <2>2, KeepsHeld
  <1> QED
    BY <1>9, <1>10, <1>11 DEF Outcomes, CommitStatus

\* A slot whose handle passes binding is occupied, and by an entry.
LEMMA BoundEntry ==
    ASSUME Inv, NEW h \in Presented,
           \/ binding(table, h.id, FALSE) = "Ok"
           \/ prepare_registration_retire(table, h.id, TRUE) = "Ok"
    PROVE  \E i \in Index :
              /\ decode(h.id).index = i /\ parts(h.id).index = i
              /\ table.slots[i].entry \in Entry /\ table.slots[i].entry # None
              /\ entry(table, h.id) = table.slots[i].entry
              /\ validate(backend, h.id, table.slots[i].entry.descriptor)
  <1>1. PICK i \in Index, g \in 1..MAX_GENERATION : h.id = encode(i, g)
    BY PresentedHandle
  <1>2. TableInv(table)
    BY DEF Inv
  <1>3. IsLive(table, h.id) \/ Occupied(table, parts(h.id))
    BY DEF binding, prepare_registration_retire
  <1>4. /\ table.slots[i].generation = g /\ table.slots[i].entry # None
        /\ entry(table, h.id) = table.slots[i].entry
        /\ decode(h.id).index = i /\ parts(h.id).index = i
    BY <1>1, <1>2, <1>3, Lookup, IdParts
  <1>5. /\ table.slots[i].entry \in Entry
        /\ validate(backend, h.id, table.slots[i].entry.descriptor)
    BY <1>1, <1>4, LiveTarget
  <1> QED
    BY <1>4, <1>5

LEMMA ModifyHeld ==
    ASSUME Inv, Held(table, open), NEW h \in Presented,
           NEW interest \in Interests, NEW mode \in Modes,
           NEW outcome \in Outcomes, ModifyCall(h, interest, mode, outcome)
    PROVE  Held(table', open')
  <1>1. binding(table, h.id, FALSE) = "Ok"
    BY DEF ModifyCall, ModifyRejection
  <1>2. PICK i \in Index :
           /\ decode(h.id).index = i
           /\ table.slots[i].entry \in Entry /\ table.slots[i].entry # None
           /\ entry(table, h.id) = table.slots[i].entry
           /\ validate(backend, h.id, table.slots[i].entry.descriptor)
    BY <1>1, BoundEntry
  <1> DEFINE e == table.slots[i].entry
  <1>3. /\ table' = SettledModify(table, i, interest, mode, outcome)
        /\ open' = open
    BY <1>2 DEF ModifyCall, Validated
  <1>4. CASE outcome = "NotApplied"
    BY <1>3, <1>4 DEF SettledModify
  <1>5. CASE outcome # "NotApplied"
    <2>1. PICK e2 \in Entry : e2.descriptor = e.descriptor
                              /\ table' = SetEntry(table, i, e2)
      <3>1. CASE outcome = "Unknown"
        <4>1. /\ [e EXCEPT !.state = "Uncertain"] \in Entry
              /\ [e EXCEPT !.state = "Uncertain"].descriptor = e.descriptor
          BY <1>2 DEF Entry, RegistrationStates
        <4>2. table' = SetEntry(table, i, [e EXCEPT !.state = "Uncertain"])
          BY <1>3, <3>1 DEF SettledModify, mark_uncertain
        <4> QED
          BY <4>1, <4>2
      <3>2. CASE outcome \in {"Success", "Applied"}
        <4> DEFINE e2 == [e EXCEPT !.interest = interest, !.mode = mode,
                                   !.state = "Armed"]
        <4>1. e2 \in Entry /\ e2.descriptor = e.descriptor
          BY <1>2 DEF Entry, RegistrationStates
        <4>2. table' = SetEntry(table, i, e2)
          BY <1>3, <3>2 DEF SettledModify, commit_modify
        <4> QED
          BY <4>1, <4>2
      <3> QED
        BY <1>5, <3>1, <3>2 DEF Outcomes, CommitStatus
    <2>2. TableInv(table)
      BY DEF Inv
    <2>3. Elsewhere(table, table', i) /\ Keeps(table, table', i, open, open')
      BY <1>2, <1>3, <2>1, <2>2, EntryKept
    <2> QED
      BY <2>3, KeepsHeld
  <1> QED
    BY <1>4, <1>5

LEMMA DeleteHeld ==
    ASSUME Inv, Held(table, open), NEW h \in Presented, NEW outcome \in Outcomes,
           DeleteCall(h, outcome)
    PROVE  Held(table', open')
  <1>1. prepare_registration_retire(table, h.id, TRUE) = "Ok"
    BY DEF DeleteCall, DeleteRejection
  <1>2. PICK i \in Index :
           /\ parts(h.id).index = i
           /\ table.slots[i].entry \in Entry /\ table.slots[i].entry # None
           /\ validate(backend, h.id, table.slots[i].entry.descriptor)
    BY <1>1, BoundEntry
  <1> DEFINE e == table.slots[i].entry
  <1>3. /\ table' = SettledDelete(table, i, outcome)
        /\ open' = IF outcome \in {"Success", "Applied"}
                   THEN Dropped(open, table, i) ELSE open
    BY <1>2 DEF DeleteCall, Validated
  <1>4. TableInv(table)
    BY DEF Inv
  <1>5. CASE outcome = "NotApplied"
    BY <1>3, <1>5 DEF SettledDelete
  <1>6. CASE outcome \in {"Success", "Applied"}
    <2>1. table' = retire(table, i)
      BY <1>3, <1>6 DEF SettledDelete
    <2>2. SlotBecomes(table, table', i, table.slots[i].generation, None)
      BY <1>2, <1>4, <2>1, Settle
    <2>3. Elsewhere(table, table', i) /\ Drops(table, table', i, open, open')
      BY <1>2, <1>3, <1>6, <2>2 DEF SlotBecomes, Elsewhere, Drops
    <2> QED
      BY <2>3, DropsHeld
  <1>7. CASE outcome = "Unknown"
    <2> DEFINE e2 == [e EXCEPT !.state = "Uncertain"]
    <2>1. e2 \in Entry /\ e2.descriptor = e.descriptor
      BY <1>2 DEF Entry, RegistrationStates
    <2>2. table' = SetEntry(table, i, e2) /\ open' = open
      BY <1>3, <1>7 DEF SettledDelete, mark_uncertain
    <2>3. Elsewhere(table, table', i) /\ Keeps(table, table', i, open, open')
      BY <1>2, <1>4, <2>1, <2>2, EntryKept
    <2> QED
      BY <2>3, KeepsHeld
  <1> QED
    BY <1>5, <1>6, <1>7 DEF Outcomes, CommitStatus

LEMMA DisarmHeld ==
    ASSUME Inv, Held(table, open), NEW h \in Presented, EstablishDisarmed(h)
    PROVE  Held(table', open')
  <1>1. binding(table, h.id, FALSE) = "Ok"
    BY DEF EstablishDisarmed, DisarmRejection
  <1>2. PICK i \in Index :
           /\ decode(h.id).index = i
           /\ table.slots[i].entry \in Entry /\ table.slots[i].entry # None
    BY <1>1, BoundEntry
  <1> DEFINE e2 == [table.slots[i].entry EXCEPT !.state = "Disarmed"]
  <1>3. open' = open /\ table' \in {table, apply_disarm(table, i, "Applied")}
    BY <1>2 DEF EstablishDisarmed
  <1>4. e2 \in Entry /\ e2.descriptor = table.slots[i].entry.descriptor
    BY <1>2 DEF Entry, RegistrationStates
  <1>5. apply_disarm(table, i, "Applied") = SetEntry(table, i, e2)
    BY DEF apply_disarm
  <1>6. TableInv(table)
    BY DEF Inv
  <1>7. CASE table' = table
    BY <1>3, <1>7
  <1>8. CASE table' = SetEntry(table, i, e2)
    <2>1. Elsewhere(table, table', i) /\ Keeps(table, table', i, open, open')
      BY <1>2, <1>3, <1>4, <1>6, <1>8, EntryKept
    <2> QED
      BY <2>1, KeepsHeld
  <1> QED
    BY <1>3, <1>5, <1>7, <1>8

LEMMA HeldStep ==
    ASSUME Inv, Held(table, open), Next
    PROVE  Held(table', open')
  <1>1. ASSUME UNCHANGED <<table, open>> PROVE Held(table', open')
    BY <1>1
  <1>2. CASE Register
    BY <1>1, <1>2, RegisterHeld, RefusalInert, RequestsAssumption
       DEF Register, RegisterInvalid, RegisterCannotDup, RegisterNoPermit,
           RegisterNoOwner, Unmoved
  <1>3. CASE Modify
    BY <1>1, <1>3, ModifyHeld, RequestsAssumption
       DEF Modify, ModifyRejected, Unmoved
  <1>4. CASE Delete
    BY <1>1, <1>4, DeleteHeld DEF Delete, DeleteRejected, Unmoved
  <1>5. CASE Disarm
    BY <1>1, <1>5, DisarmHeld DEF Disarm, DisarmRejected, Unmoved
  <1>6. CASE OtherPoller
    BY <1>1, <1>6 DEF OtherPoller
  <1> QED
    BY <1>2, <1>3, <1>4, <1>5, <1>6 DEF Next

\* Whatever fails on the way, each duplicate that is open is retained by one
\* live entry, and each live entry made from a duplicate has it open: no
\* descriptor leaks and none is closed twice (descriptor.rs).
THEOREM DuplicatesRetained == Spec => []DuplicatesHeldOnce
  <1>1. Init => DuplicatesHeldOnce
    BY DEF Init, DuplicatesHeldOnce, new, Unpushed
  <1>2. Inv /\ DuplicatesHeldOnce /\ [Next]_vars => DuplicatesHeldOnce'
    <2> SUFFICES ASSUME Inv, DuplicatesHeldOnce, [Next]_vars
                 PROVE  DuplicatesHeldOnce'
      OBVIOUS
    <2>1. Held(table, open)
      BY HeldMeans
    <2>2. CASE Next
      <3>1. Held(table', open')
        BY <2>1, <2>2, HeldStep
      <3> QED
        BY <3>1 DEF DuplicatesHeldOnce, Held, Retains, is_owned
    <2>3. CASE vars' = vars
      BY <2>3 DEF vars, DuplicatesHeldOnce
    <2> QED
      BY <2>2, <2>3
  <1> QED
    BY <1>1, <1>2, Invariance, PTL DEF Spec

------------------------------------------------------------------------------
(* The testkit's programs.  SequenceInv is the invariant: the model's      *)
(* active entry is the one entry of the poller's table, the issued ids are *)
(* of generations reached, the retired handles are stale, and the          *)
(* generator believes what the model has.  Inv, with the lemmas above on   *)
(* what each call makes of its slot, gives the rest: what verify reads of  *)
(* the poller and of its backend follows.                                  *)

\* Generator draws from everything there is, save the empty interest.
LEMMA Drawn ==
    /\ drawn_interest = Interests \ {{}}
    /\ drawn_mode = Modes
    /\ drawn_outcome = Outcomes
  BY DEF drawn_interest, drawn_mode, drawn_outcome, Interests, Modes, Outcomes,
         CommitStatus

\* Nothing is planned, and nothing went wrong.
NoSteps == [steps |-> <<>>, fault |-> FALSE]

\* With an empty script, the step planned for a mutation is the one its call
\* consumes.
LEMMA Consumed ==
    ASSUME script = NoSteps, NEW kind \in {"Register", "Modify", "Delete"},
           NEW outcome
    PROVE  /\ next(planned(kind, outcome), kind) = outcome
           /\ popped(planned(kind, outcome), kind) = script
  <1> DEFINE step == [operation |-> kind, outcome |-> outcome]
  <1>1. planned(kind, outcome) = <<>> \o <<step>>
    BY DEF planned, mutation_step, NoSteps
  <1>2. <<>> \o <<step>> = <<step>>
    <2> HIDE DEF step
    <2> QED
      OBVIOUS
  <1>3. <<step>> # <<>> /\ Head(<<step>>) = step /\ Tail(<<step>>) = <<>>
    <2> HIDE DEF step
    <2> QED
      OBVIOUS
  <1>4. ~next_fails(<<step>>, kind)
    BY <1>3 DEF next_fails
  <1> HIDE DEF step
  <1>5. next(<<step>>, kind) = outcome
    BY <1>3, <1>4 DEF next, step
  <1>6. script.fault = FALSE
    BY DEF NoSteps
  <1>7. (script.fault \/ next_fails(<<step>>, kind)) = FALSE
    BY <1>4, <1>6, Zenon
  <1>8. popped(<<step>>, kind) = [steps |-> <<>>, fault |-> FALSE]
    BY <1>3, <1>7 DEF popped
  <1> QED
    BY <1>1, <1>2, <1>5, <1>8 DEF NoSteps

\* The other actions plan nothing, and consume nothing.
LEMMA NotPlanned ==
    ASSUME script = NoSteps, NEW kind, kind \notin {"Register", "Modify", "Delete"},
           NEW outcome
    PROVE  unpopped(planned(kind, outcome)) = script
  <1>1. planned(kind, outcome) = <<>> \o <<>>
    BY DEF planned, mutation_step, NoSteps
  <1>2. <<>> \o <<>> = <<>>
    OBVIOUS
  <1> QED
    BY <1>1, <1>2 DEF unpopped, NoSteps

\* The stranger's only registration is armed.
LEMMA StrangerArmed == verify_stranger
  <1> DEFINE e == registered(StrangerFd, stranger_key, {"READABLE"}, "Level")
  <1>1. 0 \in Index /\ 1 \in 1..MAX_GENERATION
    BY Limits, LimitAssumption DEF Index, MAX_GENERATION
  <1>2. /\ stranger_id \in Ids /\ ~DecodesStale(stranger_id)
        /\ decode(stranger_id).index = 0 /\ decode(stranger_id).generation = 1
    BY <1>1, IdParts DEF stranger_id
  <1>3. stranger_key \in Keys
    BY StrangerAssumption DEF stranger_key
  <1>4. e \in Entry /\ e # None /\ e.state = "Armed"
    BY <1>3, StrangerAssumption, NoneAssumption
       DEF registered, Entry, Interests, Modes, RegistrationStates
  <1>5. stranger_table.len = 1 /\ stranger_table.slots[0] =
            [generation |-> 1, entry |-> e, next_free |-> FREE_END]
    BY <1>1 DEF stranger_table, reserve_fresh, new
  <1> HIDE DEF e
  <1>6. IsLive(stranger_table, stranger_id) /\ entry(stranger_table, stranger_id) = e
    BY <1>2, <1>4, <1>5 DEF IsLive, Occupied, entry
  <1>7. state(stranger_table, stranger_id) = "Armed"
    BY <1>4, <1>6 DEF state
  <1>7a. Stranger!state(stranger_table, stranger_id) = state(stranger_table, stranger_id)
    <2>1. /\ Stranger!decode(stranger_id) = decode(stranger_id)
          /\ Stranger!DecodesStale(stranger_id) <=> DecodesStale(stranger_id)
      BY DEF Stranger!decode, decode, Stranger!DecodesStale, DecodesStale,
             Stranger!Radix, Radix
    <2>2. /\ Stranger!entry(stranger_table, stranger_id) = entry(stranger_table, stranger_id)
          /\ Stranger!IsLive(stranger_table, stranger_id)
                <=> IsLive(stranger_table, stranger_id)
      BY <2>1 DEF Stranger!entry, entry, Stranger!IsLive, IsLive,
                  Stranger!Occupied, Occupied
    <2> QED
      BY <2>2 DEF Stranger!state, state
  <1>8. Stranger!registration_state(stranger_registration) = "Armed"
    BY <1>7, <1>7a DEF Stranger!registration_state, Stranger!require_owner,
                stranger_registration
  <1>9. stranger_backend[stranger_id] =
            RegisteredAs(StrangerFd, {"READABLE"}, "Level", "Armed")
    <2> DEFINE b == [id \in Ids |-> None]
               c == begin_register(b, stranger_id, StrangerFd)
    <2>1. c = [b EXCEPT ![stranger_id] = NotRegistered(StrangerFd, "Absent")]
      BY <1>2 DEF begin_register
    <2>2. c \in [Ids -> {None, NotRegistered(StrangerFd, "Absent")}]
      BY <1>2, <2>1
    <2> HIDE DEF c
    <2> QED
      BY <1>2, <2>1, <2>2 DEF c, stranger_backend, driver_register,
                              complete_register, NotRegistered
  <1> QED
    BY <1>8, <1>9 DEF verify_stranger, RegisteredAs

------------------------------------------------------------------------------
(* What verify looks at.                                                   *)

ModelType == [active : ModelEntry \cup {None}, retired : Seq(Registration),
              issued : SUBSET Ids, calls : Seq(MutationCall)]

Kept == /\ Inv
        /\ verify_calls
        /\ model \in ModelType
        /\ Follows(table, owner, model.active)
        /\ IssuedReached(table, model.issued)
        /\ RetiredStale(table, handles, model.retired)

\* The slot of the active entry.
LEMMA ActiveSlot ==
    ASSUME Inv, Follows(table, owner, model.active), model.active # None
    PROVE  \E i \in Index, g \in 1..MAX_GENERATION :
              /\ table.slots[i].generation = g /\ table.slots[i].entry # None
              /\ model.active = ModelOf(table, owner, i)
              /\ model.active.registration = [owner |-> owner, id |-> encode(i, g)]
              /\ model.active.registration \in handles
              /\ \A j \in Index : j # i => table.slots[j].entry = None
  <1>1. PICK i \in Index :
            /\ table.slots[i].entry # None
            /\ model.active = ModelOf(table, owner, i)
            /\ \A j \in Index : j # i => table.slots[j].entry = None
    BY DEF Follows
  <1> DEFINE g == table.slots[i].generation
  <1>2. model.active.registration = [owner |-> owner, id |-> encode(i, g)]
    BY <1>1 DEF ModelOf
  <1>3. model.active.registration \in handles
    BY <1>1, <1>2 DEF Inv, EntriesIssued
  <1>4. g \in 1..MAX_GENERATION
    <2>1. g \in 0..U32Max /\ (i < table.len => g \in 1..U32Max)
          /\ (~(i < table.len) => table.slots[i].entry = None)
      BY DEF Inv, TableInv, Table, Slot, SlotsPushed, Unpushed
    <2> QED
      BY <1>1, <2>1 DEF MAX_GENERATION
  <1> QED
    BY <1>1, <1>2, <1>3, <1>4

\* After an action that kept this, verify finds nothing to object to.
LEMMA Verified == Kept => verify
  <1> SUFFICES ASSUME Kept PROVE verify
    OBVIOUS
  <1>1. /\ Inv /\ TableInv(table) /\ Follows(table, owner, model.active)
        /\ IssuedReached(table, model.issued) /\ RetiredStale(table, handles, model.retired)
    BY DEF Kept, Inv
  <1>2. verify_active
    <2> SUFFICES ASSUME model.active # None
                 PROVE  registration_state(model.active.registration) =
                            model.active.state
      BY DEF verify_active
    <2>1. PICK i \in Index, g \in 1..MAX_GENERATION :
              /\ table.slots[i].generation = g /\ table.slots[i].entry # None
              /\ model.active = ModelOf(table, owner, i)
              /\ model.active.registration = [owner |-> owner, id |-> encode(i, g)]
              /\ model.active.registration \in handles
      BY <1>1, ActiveSlot
    <2>2. owner # 0
      BY <1>1, <2>1 DEF Inv, HandlesReached
    <2>3. registration_state(model.active.registration) = state(table, encode(i, g))
      BY <2>1, <2>2 DEF registration_state, require_owner
    <2>4. state(table, encode(i, g)) = table.slots[i].entry.state
      BY <1>1, <2>1, Lookup
    <2>5. model.active.state = table.slots[i].entry.state
      BY <2>1 DEF ModelOf
    <2> QED
      BY <2>3, <2>4, <2>5
  <1>3. verify_backend
    <2> SUFFICES ASSUME NEW id \in model.issued
                 PROVE  backend_state(id) = expected_backend(id)
      BY DEF verify_backend
    <2>1. PICK i \in Index, g \in 1..MAX_GENERATION :
             id = encode(i, g) /\ g <= table.slots[i].generation
      BY <1>1 DEF IssuedReached
    <2>2. table.slots[i].generation \in Nat /\ g \in Nat
      BY <1>1, Generations
    <2>3. CASE model.active # None /\ model.active.registration.id = id
      <3>1. PICK j \in Index, k \in 1..MAX_GENERATION :
              /\ table.slots[j].generation = k /\ table.slots[j].entry # None
              /\ model.active = ModelOf(table, owner, j)
              /\ model.active.registration = [owner |-> owner, id |-> encode(j, k)]
        BY <1>1, <2>3, ActiveSlot
      <3>2. i = j /\ g = k
        BY <2>1, <2>3, <3>1, IdsDistinct
      <3> DEFINE e == table.slots[i].entry
                 b == backend[id]
      <3>3. e \in Entry /\ Matches(b, e) /\ e # None
        BY <1>1, <2>1, <3>1, <3>2, LiveTarget
      <3>4. /\ model.active.state = e.state /\ model.active.interest = e.interest
            /\ model.active.mode = e.mode
        BY <3>1, <3>2 DEF ModelOf
      <3>5. expected_backend(id) = entry_backend(model.active)
        BY <2>3 DEF expected_backend
      <3>6. /\ b # None
            /\ e.state = "Uncertain" => b.state = "Unknown"
            /\ e.state # "Uncertain" => /\ b.state = e.state
                                        /\ b.interest = e.interest
                                        /\ b.mode = e.mode
        BY <3>3 DEF Matches
      <3>7. backend_state(id) = scripted(b.state, b.interest, b.mode)
        BY <3>6 DEF backend_state
      <3>8. e.state \in {"Armed", "Disarmed", "Uncertain"}
        BY <3>3 DEF Entry, RegistrationStates
      <3> HIDE DEF e, b
      <3> QED
        BY <3>4, <3>5, <3>6, <3>7, <3>8 DEF entry_backend, scripted
    <2>4. CASE ~(model.active # None /\ model.active.registration.id = id)
      <3>1. table.slots[i].generation = g => table.slots[i].entry = None
        <4>1. SUFFICES ASSUME table.slots[i].generation = g,
                              table.slots[i].entry # None
                       PROVE  FALSE
          OBVIOUS
        <4>2. model.active # None
          BY <1>1, <4>1 DEF Follows
        <4>3. PICK j \in Index, k \in 1..MAX_GENERATION :
              /\ table.slots[j].generation = k
              /\ model.active.registration = [owner |-> owner, id |-> encode(j, k)]
              /\ \A l \in Index : l # j => table.slots[l].entry = None
          BY <1>1, <4>2, ActiveSlot
        <4>4. i = j
          BY <4>1, <4>3
        <4> QED
          BY <2>1, <2>4, <4>1, <4>2, <4>3, <4>4
      <3>2. Matches(backend[id], None)
        BY <1>1, <2>1, <2>2, <3>1 DEF Inv, BackendMatches
      <3>3. backend[id] # None /\ backend[id].state = "Absent"
        BY <3>2 DEF Matches
      <3>4. expected_backend(id) = [state |-> "Absent"]
        BY <2>4 DEF expected_backend
      <3> QED
        BY <3>3, <3>4 DEF backend_state, scripted
    <2> QED
      BY <2>3, <2>4
  <1>4. verify_retired
    <2> SUFFICES ASSUME NEW k \in 1..Len(model.retired)
                 PROVE  registration_state(model.retired[k]) = "Stale"
      BY DEF verify_retired
    <2>1. /\ model.retired[k] \in handles
          /\ state(table, model.retired[k].id) = "Stale"
      BY <1>1 DEF RetiredStale
    <2>2. require_owner(model.retired[k])
      BY <1>1, <2>1 DEF Inv, HandlesReached, require_owner
    <2> QED
      BY <2>1, <2>2 DEF registration_state
  <1> QED
    BY <1>2, <1>3, <1>4, StrangerArmed DEF verify, Kept

------------------------------------------------------------------------------
(* What a call on one slot leaves of it.                                   *)

\* The call leaves the slot with the entry e, and the model follows.
LEMMA StepFollows ==
    ASSUME NEW i \in Index, NEW g, NEW e, SlotBecomes(table, table', i, g, e),
           \A j \in Index : j # i => table.slots[j].entry = None,
           IF e = None THEN model'.active = None
           ELSE model'.active # None /\ model'.active = ModelOf(table', owner', i)
    PROVE  Follows(table', owner', model'.active)
  BY DEF SlotBecomes, Follows

\* The ids issued before, and the slot's own, are of generations reached.
LEMMA StepIssued ==
    ASSUME Inv, IssuedReached(table, model.issued), NEW i \in Index,
           NEW g \in 1..MAX_GENERATION, NEW e, Advances(table, i, g),
           SlotBecomes(table, table', i, g, e)
    PROVE  IssuedReached(table', model.issued \cup {encode(i, g)})
  <1> SUFFICES ASSUME NEW id \in model.issued \cup {encode(i, g)}
               PROVE  \E j \in Index, k \in 1..MAX_GENERATION :
                         id = encode(j, k) /\ k <= table'.slots[j].generation
    BY DEF IssuedReached
  <1>1. table.slots[i].generation \in Nat /\ g \in Nat
    BY Generations
  <1>2. CASE id = encode(i, g)
    <2>1. g <= table'.slots[i].generation
      BY <1>1 DEF SlotBecomes
    <2> QED
      BY <1>2, <2>1
  <1>3. CASE id \in model.issued
    <2>1. PICK j \in Index, k \in 1..MAX_GENERATION :
             id = encode(j, k) /\ k <= table.slots[j].generation
      BY <1>3 DEF IssuedReached
    <2>2. k \in Nat
      BY Generations
    <2>3. k <= table'.slots[j].generation
      <3>1. CASE j = i
        BY <1>1, <2>1, <2>2, <3>1 DEF SlotBecomes, Advances
      <3>2. CASE j # i
        BY <2>1, <3>2 DEF SlotBecomes
      <3> QED
        BY <3>1, <3>2
    <2> QED
      BY <2>1, <2>3
  <1> QED
    BY <1>2, <1>3

\* The handles retired so far stay so.
LEMMA StepRetired ==
    ASSUME Inv, RetiredStale(table, handles, model.retired), NEW i \in Index,
           NEW g \in 1..MAX_GENERATION, NEW e, Advances(table, i, g),
           SlotBecomes(table, table', i, g, e), handles \subseteq handles'
    PROVE  RetiredStale(table', handles', model.retired)
  <1> SUFFICES ASSUME NEW n \in 1..Len(model.retired)
               PROVE  /\ model.retired[n] \in handles'
                      /\ state(table', model.retired[n].id) = "Stale"
    BY DEF RetiredStale
  <1> DEFINE h == model.retired[n]
  <1>1. h \in handles /\ state(table, h.id) = "Stale"
    BY DEF RetiredStale
  <1>2. TableInv(table) /\ TableInv(table')
    BY DEF Inv, SlotBecomes
  <1>3. PICK j \in Index, k \in 1..MAX_GENERATION :
           h.id = encode(j, k) /\ k <= table.slots[j].generation
    <2> HIDE DEF h
    <2> QED
      BY <1>1, OwnHandle
  <1>4. /\ table.slots[i].generation \in Nat /\ g \in Nat /\ k \in Nat
        /\ table.slots[j].generation \in Nat
    BY Generations
  <1>5. ~(table.slots[j].generation = k /\ table.slots[j].entry # None)
    <2> SUFFICES ASSUME table.slots[j].generation = k, table.slots[j].entry # None
                 PROVE  FALSE
      OBVIOUS
    <2>1. table.slots[j].entry.state # "Stale"
      BY <1>2 DEF TableInv, Table, Slot, Entry, RegistrationStates
    <2>2. state(table, encode(j, k)) = table.slots[j].entry.state
      BY <1>2, Lookup
    <2> QED
      BY <1>1, <1>3, <2>1, <2>2
  <1>6. ~(table'.slots[j].generation = k /\ table'.slots[j].entry # None)
    <2>1. CASE j # i
      BY <1>5, <2>1 DEF SlotBecomes
    <2>2. CASE j = i
      BY <1>3, <1>4, <1>5, <2>2 DEF SlotBecomes, Advances
    <2> QED
      BY <2>1, <2>2
  <1>7. state(table', encode(j, k)) = "Stale"
    BY <1>2, <1>6, Lookup
  <1> QED
    BY <1>1, <1>3, <1>7

\* All of it together: what a call on slot i leaves, if the model records the
\* entry it leaves there and retires its handle at most when it leaves none.
LEMMA StepKept ==
    ASSUME Kept, Inv', NEW i \in Index, NEW g \in 1..MAX_GENERATION, NEW e,
           Advances(table, i, g), SlotBecomes(table, table', i, g, e),
           \A j \in Index : j # i => table.slots[j].entry = None,
           handles \subseteq handles',
           IF e = None THEN model'.active = None
           ELSE model'.active # None /\ model'.active = ModelOf(table', owner', i),
           model' \in ModelType,
           model'.issued \subseteq model.issued \cup {encode(i, g)},
           \/ model'.retired = model.retired
           \/ /\ e = None
              /\ [owner |-> owner', id |-> encode(i, g)] \in handles'
              /\ model'.retired = Append(model.retired,
                                         [owner |-> owner', id |-> encode(i, g)]),
           calls' = model'.calls
    PROVE  Kept'
  <1>1. /\ Inv /\ IssuedReached(table, model.issued) /\ model \in ModelType
        /\ RetiredStale(table, handles, model.retired)
    BY DEF Kept
  <1>2. Follows(table', owner', model'.active)
    BY StepFollows
  <1>3. IssuedReached(table', model'.issued)
    <2>1. IssuedReached(table', model.issued \cup {encode(i, g)})
      BY <1>1, StepIssued
    <2> QED
      BY <2>1 DEF IssuedReached
  <1>4. RetiredStale(table', handles', model.retired)
    BY <1>1, StepRetired
  <1>5. RetiredStale(table', handles', model'.retired)
    <2>1. CASE model'.retired = model.retired
      BY <1>4, <2>1
    <2>2. CASE model'.retired # model.retired
      <3> DEFINE h == [owner |-> owner', id |-> encode(i, g)]
                 R == model.retired
      <3>1. e = None /\ h \in handles' /\ model'.retired = Append(R, h)
        BY <2>2
      <3>2. state(table', h.id) = "Stale"
        BY <3>1, Lookup DEF SlotBecomes
      <3>3. R \in Seq(Registration)
        BY <1>1 DEF ModelType
      <3> HIDE DEF h, R
      <3>4. /\ Len(Append(R, h)) = Len(R) + 1
            /\ Append(R, h)[Len(R) + 1] = h
            /\ \A n \in 1..Len(R) : Append(R, h)[n] = R[n]
        BY <3>3
      <3>5. SUFFICES ASSUME NEW n \in 1..Len(Append(R, h))
                     PROVE  /\ Append(R, h)[n] \in handles'
                            /\ state(table', Append(R, h)[n].id) = "Stale"
        BY <3>1 DEF RetiredStale
      <3>6. Len(R) \in Nat
        BY <3>3
      <3>7. CASE n \in 1..Len(R)
        <4>1. R[n] \in handles' /\ state(table', R[n].id) = "Stale"
          BY <1>4, <3>7 DEF RetiredStale, R
        <4> QED
          BY <3>4, <3>7, <4>1
      <3>8. CASE n = Len(R) + 1
        BY <3>1, <3>2, <3>4, <3>8
      <3> QED
        BY <3>4, <3>6, <3>7, <3>8
    <2> QED
      BY <2>1, <2>2
  <1> QED
    BY <1>2, <1>3, <1>5 DEF Kept, verify_calls

\* An action that asks the poller for nothing, or is refused.
LEMMA IdleKept ==
    ASSUME Kept, Inv', UNCHANGED <<table, owner, handles>>,
           model' = idle_model, calls' = <<>>
    PROVE  Kept'
  <1>1. /\ model \in ModelType /\ Follows(table, owner, model.active)
        /\ IssuedReached(table, model.issued)
        /\ RetiredStale(table, handles, model.retired)
    BY DEF Kept
  <1>2. <<>> \in Seq(MutationCall)
    OBVIOUS
  <1>3. /\ model' \in ModelType /\ model'.active = model.active
        /\ model'.issued = model.issued /\ model'.retired = model.retired
        /\ model'.calls = <<>>
    BY <1>1, <1>2 DEF idle_model, ModelType
  <1> QED
    BY <1>1, <1>3 DEF Kept, verify_calls

------------------------------------------------------------------------------
(* The actions of a program.                                               *)

\* The same, after a step.
LEMMA VerifiedNext == Kept' => verify'
  BY Verified, PTL

\* What SequenceInv says beyond Kept.
Between(s, o, g, m, x, p, n) ==
    /\ s = NoSteps
    /\ o = {1}
    /\ Believes(g, m)
    /\ ~x
    /\ p = 0 => n = 2

\* SequenceInv, in two parts.
LEMMA SequenceParts ==
    SequenceInv <=> Kept /\ Between(script, others, generator, model, diverged,
                                    owner, next_poll_id)
  BY DEF SequenceInv, Kept, Between, NoSteps, ModelType

\* The same, after a step.
LEMMA SequencePartsNext ==
    SequenceInv' <=> Kept' /\ Between(script', others', generator', model', diverged',
                                     owner', next_poll_id')
  <1>1. (SequenceInv <=> Kept /\ Between(script, others, generator, model, diverged,
                                    owner, next_poll_id))'
    BY SequenceParts, PTL
  <1> QED
    BY <1>1

\* What the generator believes, between two actions, is so.
LEMMA Belief ==
    ASSUME SequenceInv
    PROVE  /\ Kept /\ Inv /\ script = NoSteps /\ others = {1} /\ model \in ModelType
           /\ owner = 0 => next_poll_id = 2
           /\ generator.state = "Vacant" <=> model.active = None
           /\ model.active # None =>
                 /\ model.active \in ModelEntry
                 /\ generator.state = model.active.state
                 /\ generator.state # "Uncertain" => generator.mode = model.active.mode
  <1>1. /\ Kept /\ Inv /\ script = NoSteps /\ others = {1} /\ model \in ModelType
        /\ Believes(generator, model) /\ (owner = 0 => next_poll_id = 2)
    BY SequenceParts DEF Between, Kept
  <1>2. model.active # None => model.active \in ModelEntry
    BY <1>1 DEF ModelType
  <1> QED
    BY <1>1, <1>2 DEF Believes, ModelEntry, ExpectedState

\* A drawn register finds room, the only entry there may be being none, and an
\* identity: it is not refused.
LEMMA RegisterAccepted ==
    ASSUME SequenceInv, NEW outcome, NEW key, NEW interest, NEW mode,
           register(outcome, key, interest, mode)
    PROVE  register_called(outcome, key, interest, mode)
  <1>1. /\ Inv /\ Follows(table, owner, model.active) /\ model.active = None
        /\ owner = 0 => next_poll_id = 2
    BY Belief DEF register, Generated, draws, Kept
  <1>2. TableInv(table) /\ \A j \in Index : table.slots[j].entry = None
    BY <1>1 DEF Follows, Inv
  <1>3. PermitStatus(table) \notin {"Invariant", "Capacity"}
    BY <1>2, PermitHonest
  <1>4. PermitStatus(table) \in {"Ok", "Invariant", "Capacity",
                                "RegistrationSpaceExhausted"}
    BY DEF PermitStatus, fresh_permit, reused_permit
  <1>5. ~CannotAssign
    BY <1>1, StrangerAssumption, PollIdMaxAssumption DEF CannotAssign
  <1>6. register_refusal # "RegistrationSpaceExhausted"
    BY DEF register
  <1>7. register_refusal = "Ok"
    BY <1>3, <1>4, <1>5, <1>6 DEF register_refusal
  <1> QED
    BY <1>7 DEF register

\* register, on the vacant poller: the handle is new to the model, and the
\* entry the poller settled on is the one the model expects of the outcome.
LEMMA RegisterSequence ==
    ASSUME SequenceInv, NEW outcome \in Outcomes, NEW key \in Keys,
           NEW interest \in Interests \ {{}}, NEW mode \in Modes,
           register(outcome, key, interest, mode)
    PROVE  SequenceInv'
  <1>0. register_called(outcome, key, interest, mode)
    BY RegisterAccepted
  <1>1. /\ Kept /\ Inv /\ script = NoSteps /\ others = {1} /\ model \in ModelType
        /\ model.active = None /\ generator.state = "Vacant"
    BY Belief DEF register, Generated, draws
  <1>2. \A j \in Index : table.slots[j].entry = None
    BY <1>1 DEF Kept, Follows
  <1>3. PICK d \in DupFds : RegisterCall(d, key, interest, mode, outcome)
    BY <1>0, <1>1, Consumed DEF register_called
  <1>4. d \in Descriptors /\ interest \in Interests
    BY DescriptorsAssumption
  <1>5. Inv'
    BY <1>1, <1>3, <1>4, RegisterInv
  <1> DEFINE e == registered(d, key, interest, mode)
             e2 == AfterRegister(e, outcome)
  <1>6. PICK i \in Index, g \in 1..MAX_GENERATION :
           /\ table.slots[i].entry = None
           /\ g = table.slots[i].generation + 1
           /\ i = Permit(table).index /\ g = Permit(table).generation
           /\ SlotBecomes(table, table', i, g, e2)
    BY <1>1, <1>3, <1>4, RegisterSlot
  <1> DEFINE id == encode(i, g)
             h == [owner |-> owner', id |-> id]
             request == RegisterRequest(id, key, interest, mode)
  <1>7. Advances(table, i, g) /\ id \in Ids
    BY <1>6, IdParts DEF Advances
  <1>8. /\ others' = others
        /\ IF outcome = "NotApplied"
           THEN /\ handles' = handles
                /\ result' = [op |-> "register", target |-> None, status |-> outcome]
           ELSE /\ handles' = handles \cup {h}
                /\ result' = [op |-> "register", target |-> h,
                              status |-> StatusOf(outcome)]
    BY <1>3, <1>6 DEF RegisterCall, Returns
  <1>9. /\ script' = script
        /\ calls' = <<request>>
        /\ last_register_id = id
    <2>1. script' = script
      BY <1>0, <1>1, Consumed DEF register_called
    <2>2. calls' = <<request>>
      BY <1>0, <1>6 DEF register_called
    <2>3. request.registration = id
      BY DEF RegisterRequest
    <2> HIDE DEF request, id
    <2> QED
      BY <2>1, <2>2, <2>3 DEF last_register_id
  <1>10. request \in MutationCall
    BY <1>7, Drawn DEF RegisterRequest, MutationCall
  <1>11. /\ outcome # "NotApplied" => h \in Registration /\ h # None
         /\ result'.target = IF outcome = "NotApplied" THEN None ELSE h
    <2>1. outcome # "NotApplied" => h \in Registration
      BY <1>5, <1>8 DEF Inv, TypeOK
    <2> QED
      BY <1>8, <2>1, NoneDistinct
  <1> DEFINE a == [registration |-> h, interest |-> interest, mode |-> mode,
                   state |-> IF outcome = "Unknown" THEN "Uncertain" ELSE "Armed"]
  <1>12. outcome # "NotApplied" => a \in ModelEntry /\ a # None
    BY <1>11, Drawn, ModelNoneDistinct DEF ModelEntry, ExpectedState
  <1>13. /\ model' \in ModelType
         /\ model'.issued = model.issued \cup {id}
         /\ model'.calls = <<request>>
         /\ model'.active = IF outcome = "NotApplied" THEN None ELSE a
         /\ model'.retired = model.retired
    <2>1. model' = [model EXCEPT
                        !.issued = @ \cup {id},
                        !.calls = <<request>>,
                        !.active = IF outcome = "NotApplied" THEN None ELSE a]
      BY <1>0, <1>9, <1>11 DEF register_called, register_model
    <2> HIDE DEF id, request, a, h
    <2>2. <<request>> \in Seq(MutationCall)
      BY <1>10
    <2> QED
      BY <1>1, <1>7, <1>12, <2>1, <2>2 DEF ModelType
  <1>14. IF e2 = None THEN model'.active = None
         ELSE model'.active # None /\ model'.active = ModelOf(table', owner', i)
    <2>1. e \in Entry /\ e # None /\ e.interest = interest /\ e.mode = mode
          /\ e.state = "Armed" /\ Uncertainly(e) # None
          /\ Uncertainly(e).interest = interest /\ Uncertainly(e).mode = mode
          /\ Uncertainly(e).state = "Uncertain"
      <3>1. e \in Entry
        BY <1>4 DEF registered, Entry, RegistrationStates
      <3>2. Uncertainly(e) \in Entry
        BY <3>1 DEF Uncertainly, Entry, RegistrationStates
      <3> QED
        BY <3>1, <3>2, NoneAssumption DEF registered, Uncertainly
    <2>2. table'.slots[i].generation = g /\ table'.slots[i].entry = e2
      BY <1>6 DEF SlotBecomes
    <2>3. \/ outcome \in {"Success", "Applied"} /\ e2 = e
          \/ outcome = "NotApplied" /\ e2 = None
          \/ outcome = "Unknown" /\ e2 = Uncertainly(e)
      BY DEF AfterRegister, Outcomes, CommitStatus
    <2> HIDE DEF e, e2
    <2>4. CASE outcome = "NotApplied"
      BY <1>13, <2>3, <2>4
    <2>5. CASE outcome # "NotApplied"
      <3>1. /\ e2 # None /\ e2.interest = interest /\ e2.mode = mode
            /\ e2.state = IF outcome = "Unknown" THEN "Uncertain" ELSE "Armed"
        BY <2>1, <2>3, <2>5
      <3>2. ModelOf(table', owner', i) = a
        BY <2>2, <3>1 DEF ModelOf
      <3> QED
        BY <1>12, <1>13, <2>5, <3>1, <3>2
    <2> QED
      BY <2>4, <2>5
  <1> HIDE DEF e2, e, a, h, id, request
  <1>15. Kept'
    <2>1. handles \subseteq handles' /\ calls' = model'.calls
      BY <1>8, <1>9, <1>13
    <2> QED
      BY <1>1, <1>2, <1>5, <1>6, <1>7, <1>13, <1>14, <2>1, StepKept DEF id
  <1>16. Believes(generator', model')
    <2>1. generator' = CASE outcome \in {"Success", "Applied"} ->
                               [generator EXCEPT !.state = "Armed", !.mode = mode]
                         [] outcome = "NotApplied" -> generator
                         [] outcome = "Unknown" ->
                               [generator EXCEPT !.state = "Uncertain"]
      BY DEF register, Generated, observe, Settled, Armed
    <2>2. Believes(generator, model)
      BY SequenceParts DEF Between
    <2>3. /\ a.mode = mode
          /\ a.state = IF outcome = "Unknown" THEN "Uncertain" ELSE "Armed"
      BY DEF a
    <2>4. \/ outcome \in {"Success", "Applied"}
          \/ outcome = "NotApplied"
          \/ outcome = "Unknown"
      BY DEF Outcomes, CommitStatus
    <2>5. mode \in drawn_mode
      BY Drawn
    <2> QED
      BY <1>1, <1>12, <1>13, <2>1, <2>2, <2>3, <2>4, <2>5 DEF Believes, ExpectedState
  <1>17. owner' # 0
    <2>1. owner' = IF owner = 0 THEN next_poll_id ELSE owner
      BY <1>3 DEF RegisterCall, AssignedOwner
    <2>2. next_poll_id # 0
      BY <1>1, PollIdMaxAssumption DEF Inv, TypeOK, PollIds
    <2> QED
      BY <2>1, <2>2
  <1>18. ~diverged'
    <2>1. verify'
      BY <1>15, VerifiedNext
    <2>2. last_register(key, interest, mode)
      <3>1. request.call = "Register" /\ request.key = key
            /\ request.interest = interest /\ request.mode = mode
        BY DEF request, RegisterRequest
      <3> QED
        BY <1>9, <3>1 DEF last_register
    <2>3. id \notin model.issued
      <3> SUFFICES ASSUME id \in model.issued PROVE FALSE
        OBVIOUS
      <3>1. PICK j \in Index, k \in 1..MAX_GENERATION :
               id = encode(j, k) /\ k <= table.slots[j].generation
        BY <1>1 DEF Kept, IssuedReached
      <3>2. j = i /\ k = g
        BY <3>1, IdsDistinct DEF id
      <3>3. table.slots[i].generation \in Nat
        BY <1>1, Generations
      <3> QED
        BY <1>6, <3>1, <3>2, <3>3
    <2>4. h.id = id
      BY DEF h
    <2>5. IF outcome = "Success" THEN successful_register(last_register_id)
          ELSE failed_register(outcome, last_register_id)
      BY <1>8, <1>9, <1>11, <2>4
         DEF successful_register, failed_register, expect_mutation_result,
             expect_mutation_error, StatusOf
    <2>6. diverged' = ~(/\ /\ model.active = None
                           /\ last_register(key, interest, mode)
                           /\ last_register_id \notin model.issued
                           /\ IF outcome = "Success"
                              THEN successful_register(last_register_id)
                              ELSE failed_register(outcome, last_register_id)
                        /\ verify')
      BY <1>0 DEF register_called, Checked
    <2> QED
      BY <1>1, <1>9, <2>1, <2>2, <2>3, <2>5, <2>6
  <1> QED
    BY <1>1, <1>8, <1>9, <1>15, <1>16, <1>17, <1>18, SequencePartsNext DEF Between

\* The slot of the active entry, with all an action on it starts from.
LEMMA ActiveCall ==
    ASSUME SequenceInv, model.active # None
    PROVE  \E i \in Index, g \in 1..MAX_GENERATION :
              LET e == table.slots[i].entry
                  h == model.active.registration
              IN  /\ table.slots[i].generation = g /\ e # None /\ e \in Entry
                  /\ h = [owner |-> owner, id |-> encode(i, g)]
                  /\ h.id = encode(i, g) /\ h.id \in Ids
                  /\ h \in handles /\ h \in Presented /\ h \in Registration
                  /\ require_owner(h)
                  /\ model.active = [registration |-> h, interest |-> e.interest,
                                     mode |-> e.mode, state |-> e.state]
                  /\ e.interest \in drawn_interest
                  /\ IsLive(table, h.id) /\ entry(table, h.id) = e
                  /\ decode(h.id).index = i
                  /\ validate(backend, h.id, e.descriptor)
                  /\ Advances(table, i, g)
                  /\ \A j \in Index : j # i => table.slots[j].entry = None
  <1>1. Inv /\ Follows(table, owner, model.active) /\ model.active \in ModelEntry
    BY Belief DEF Kept
  <1>2. PICK i \in Index, g \in 1..MAX_GENERATION :
              /\ table.slots[i].generation = g /\ table.slots[i].entry # None
              /\ model.active = ModelOf(table, owner, i)
              /\ model.active.registration = [owner |-> owner, id |-> encode(i, g)]
              /\ model.active.registration \in handles
              /\ \A j \in Index : j # i => table.slots[j].entry = None
    BY <1>1, ActiveSlot
  <1> DEFINE e == table.slots[i].entry
             h == model.active.registration
  <1>3. /\ e \in Entry /\ encode(i, g) \in Ids /\ Advances(table, i, g)
        /\ validate(backend, encode(i, g), e.descriptor)
    BY <1>1, <1>2, LiveTarget
  <1>4. h.id = encode(i, g) /\ h \in Presented /\ h \in Registration
    BY <1>1, <1>2 DEF Presented, Inv, TypeOK
  <1>5. require_owner(h)
    BY <1>1, <1>2 DEF Inv, HandlesReached, require_owner
  <1>6. model.active = [registration |-> h, interest |-> e.interest,
                        mode |-> e.mode, state |-> e.state]
    BY <1>2 DEF ModelOf
  <1>7. e.interest \in drawn_interest
    BY <1>1, <1>6 DEF ModelEntry
  <1>8. /\ IsLive(table, encode(i, g)) /\ entry(table, encode(i, g)) = e
        /\ decode(encode(i, g)).index = i
    BY <1>1, <1>2, Lookup, IdParts DEF Inv
  <1> HIDE DEF e
  <1>9. /\ table.slots[i].generation = g /\ e # None
        /\ h = [owner |-> owner, id |-> encode(i, g)] /\ h \in handles
        /\ \A j \in Index : j # i => table.slots[j].entry = None
    BY <1>2 DEF e
  <1> HIDE DEF h
  <1>10. validate(backend, h.id, e.descriptor) /\ decode(h.id).index = i
         /\ IsLive(table, h.id) /\ entry(table, h.id) = e
    BY <1>3, <1>4, <1>8
  <1> QED
    BY <1>3, <1>4, <1>5, <1>6, <1>7, <1>9, <1>10 DEF e, h

\* What the poller's table has of the active handle.
LEMMA ActiveEntry ==
    ASSUME SequenceInv, model.active # None
    PROVE  LET h == model.active.registration
           IN  /\ require_owner(h) /\ IsLive(table, h.id)
               /\ entry(table, h.id).state = model.active.state
               /\ entry(table, h.id).mode = model.active.mode
  <1> DEFINE h == model.active.registration
             E(i) == table.slots[i].entry
  <1>1. PICK i \in Index, g \in 1..MAX_GENERATION :
                  /\ require_owner(h)
                  /\ model.active = [registration |-> h, interest |-> E(i).interest,
                                     mode |-> E(i).mode, state |-> E(i).state]
                  /\ IsLive(table, h.id) /\ entry(table, h.id) = E(i)
    BY ActiveCall
  <1>2. model.active.state = E(i).state /\ model.active.mode = E(i).mode
    BY <1>1
  <1> QED
    BY <1>1, <1>2

\* The three cases of an outcome.
LEMMA OutcomeCases ==
    ASSUME NEW outcome \in Outcomes
    PROVE  \/ outcome \in {"Success", "Applied"}
           \/ outcome = "NotApplied"
           \/ outcome = "Unknown"
  BY DEF Outcomes, CommitStatus

\* Nor is a drawn modification, deletion or disarm of the active registration
\* refused: the handle is the poller's own and live, and certain where the
\* generator draws the action only if it is.
LEMMA ModifyAccepted ==
    ASSUME SequenceInv, NEW outcome, NEW interest, interest # {}, NEW mode,
           modify(outcome, interest, mode)
    PROVE  modify_called(model.active.registration, outcome, interest, mode)
  <1>1. /\ model.active # None /\ generator.state = model.active.state
        /\ generator.state \in {"Armed", "Disarmed"}
    BY Belief DEF modify, Generated, draws, Registered
  <1> DEFINE h == model.active.registration
  <1>2. require_owner(h) /\ IsLive(table, h.id)
        /\ entry(table, h.id).state = model.active.state
    BY <1>1, ActiveEntry
  <1> HIDE DEF h
  <1>3. binding(table, h.id, FALSE) = "Ok"
    BY <1>1, <1>2 DEF binding
  <1>4. ModifyRejection(h, interest) = "Ok"
    BY <1>2, <1>3 DEF ModifyRejection
  <1> QED
    BY <1>4 DEF modify, h

LEMMA DeleteAccepted ==
    ASSUME SequenceInv, NEW outcome, delete(outcome)
    PROVE  delete_called(model.active.registration, outcome)
  <1>1. model.active # None /\ Inv
    BY Belief DEF delete, Generated, draws
  <1> DEFINE h == model.active.registration
  <1>2. PICK i \in Index, g \in 1..MAX_GENERATION :
           /\ table.slots[i].generation = g /\ table.slots[i].entry # None
           /\ h.id = encode(i, g) /\ require_owner(h)
    BY <1>1, ActiveCall
  <1> HIDE DEF h
  <1>3. Occupied(table, parts(h.id))
    BY <1>1, <1>2, Lookup DEF Inv
  <1>4. DeleteRejection(h) = "Ok"
    BY <1>2, <1>3 DEF DeleteRejection, prepare_registration_retire
  <1> QED
    BY <1>4 DEF delete, h

LEMMA DisarmAccepted ==
    ASSUME SequenceInv, disarm
    PROVE  disarm_called(model.active.registration)
  <1>1. /\ model.active # None
        /\ model.active.state = "Armed" /\ model.active.mode = "OneShot"
    BY Belief DEF disarm, Generated, draws
  <1> DEFINE h == model.active.registration
  <1>2. require_owner(h) /\ IsLive(table, h.id)
        /\ entry(table, h.id).state = model.active.state
        /\ entry(table, h.id).mode = model.active.mode
    BY <1>1, ActiveEntry
  <1> HIDE DEF h
  <1>3. binding(table, h.id, FALSE) = "Ok"
    BY <1>1, <1>2 DEF binding
  <1>4. DisarmRejection(h) = "Ok"
    BY <1>1, <1>2, <1>3 DEF DisarmRejection
  <1> QED
    BY <1>4 DEF disarm, h

\* modify, of the active registration.
LEMMA ModifySequence ==
    ASSUME SequenceInv, NEW outcome \in Outcomes,
           NEW interest \in Interests \ {{}}, NEW mode \in Modes,
           modify(outcome, interest, mode)
    PROVE  SequenceInv'
  <1>0. modify_called(model.active.registration, outcome, interest, mode)
    BY ModifyAccepted
  <1>1. /\ Kept /\ Inv /\ script = NoSteps /\ others = {1} /\ model \in ModelType
        /\ model.active # None /\ model.active \in ModelEntry
        /\ generator.state = model.active.state
        /\ generator.state \in {"Armed", "Disarmed"}
        /\ generator.mode = model.active.mode
    BY Belief DEF modify, Generated, draws, Registered
  <1> DEFINE h == model.active.registration
             E(i) == table.slots[i].entry
  <1>2. PICK i \in Index, g \in 1..MAX_GENERATION :
                  /\ table.slots[i].generation = g /\ E(i) # None /\ E(i) \in Entry
                  /\ h = [owner |-> owner, id |-> encode(i, g)]
                  /\ h.id = encode(i, g) /\ h.id \in Ids
                  /\ h \in handles /\ h \in Presented /\ h \in Registration
                  /\ model.active = [registration |-> h, interest |-> E(i).interest,
                                     mode |-> E(i).mode, state |-> E(i).state]
                  /\ E(i).interest \in drawn_interest
                  /\ entry(table, h.id) = E(i)
                  /\ validate(backend, h.id, E(i).descriptor)
                  /\ Advances(table, i, g)
                  /\ \A j \in Index : j # i => table.slots[j].entry = None
    BY <1>1, ActiveCall
  <1> DEFINE e == E(i)
             e2 == AfterModify(e, interest, mode, outcome)
             request == ModifyRequest(h.id, e, interest, mode)
  <1>3. /\ ModifyCall(h, interest, mode, outcome)
        /\ script' = script /\ calls' = <<request>>
        /\ model' = modify_model(interest, mode, outcome)
    BY <1>0, <1>1, <1>2, Consumed DEF modify_called
  <1>4. interest \in Interests
    OBVIOUS
  <1>5. Inv'
    BY <1>1, <1>2, <1>3, <1>4, ModifyInv
  <1>6. SlotBecomes(table, table', i, g, e2)
    <2>1. PICK j \in Index, k \in 1..MAX_GENERATION :
              /\ h.id = encode(j, k) /\ h \in handles
              /\ table.slots[j].generation = k /\ table.slots[j].entry # None
              /\ table.slots[j].entry.state # "Uncertain"
              /\ SlotBecomes(table, table', j, k,
                    AfterModify(table.slots[j].entry, interest, mode, outcome))
      <3>1. h \in Presented /\ ModifyCall(h, interest, mode, outcome)
        BY <1>2, <1>3
      <3> HIDE DEF h
      <3> QED
        BY <1>1, <1>4, <3>1, ModifySlot
    <2>2. j = i /\ k = g
      BY <1>2, <2>1, IdsDistinct
    <2> QED
      BY <2>1, <2>2
  <1>7. /\ owner' = owner /\ others' = others /\ handles' = handles
        /\ result' = [op |-> "modify", target |-> h, status |-> StatusOf(outcome)]
    BY <1>2, <1>3 DEF ModifyCall, Returns, Validated
  <1>8. e.state \in {"Armed", "Disarmed"} /\ e.mode \in Modes
    BY <1>1, <1>2 DEF Entry
  <1>9. request \in MutationCall
    BY <1>2, <1>4, <1>8, Drawn DEF ModifyRequest, MutationCall
  <1>10. record_modify(interest, mode) = <<request>>
    <2>1. /\ model.active.interest = e.interest /\ model.active.mode = e.mode
          /\ model.active.state = e.state
      BY <1>2
    <2> QED
      BY <2>1 DEF record_modify, ModifyRequest
  <1> DEFINE a == [registration |-> h, interest |-> e2.interest,
                   mode |-> e2.mode, state |-> e2.state]
  <1>11. /\ e2 \in Entry /\ e2 # None /\ e2.interest \in drawn_interest
         /\ a \in ModelEntry /\ a # None
         /\ e2.state = CASE outcome \in {"Success", "Applied"} -> "Armed"
                         [] outcome = "NotApplied" -> e.state
                         [] outcome = "Unknown" -> "Uncertain"
         /\ e2.mode = IF outcome \in {"Success", "Applied"} THEN mode ELSE e.mode
         /\ e2.interest = IF outcome \in {"Success", "Applied"} THEN interest
                          ELSE e.interest
    <2>1. /\ Rearmed(e, interest, mode) \in Entry
          /\ Rearmed(e, interest, mode).interest = interest
          /\ Rearmed(e, interest, mode).mode = mode
          /\ Rearmed(e, interest, mode).state = "Armed"
          /\ Uncertainly(e) \in Entry
          /\ Uncertainly(e).interest = e.interest
          /\ Uncertainly(e).mode = e.mode
          /\ Uncertainly(e).state = "Uncertain"
      <3> HIDE DEF e
      <3> QED
        BY <1>2, <1>4 DEF e, Rearmed, Uncertainly, Entry, RegistrationStates
    <2>2. interest \in drawn_interest
      BY Drawn
    <2>3. \/ outcome \in {"Success", "Applied"} /\ e2 = Rearmed(e, interest, mode)
          \/ outcome = "NotApplied" /\ e2 = e
          \/ outcome = "Unknown" /\ e2 = Uncertainly(e)
      BY OutcomeCases DEF AfterModify
    <2>4. e \in Entry /\ e.interest \in drawn_interest
      BY <1>2
    <2> HIDE DEF e, e2, h
    <2>5. e2 \in Entry /\ e2.interest \in drawn_interest /\ e2 # None
      BY <2>1, <2>2, <2>3, <2>4, NoneAssumption
    <2>6. a \in ModelEntry
      BY <1>2, <2>5 DEF ModelEntry, Entry, RegistrationStates, ExpectedState
    <2>7. a # None
      BY <2>6, ModelNoneDistinct
    <2> HIDE DEF a
    <2> QED
      BY <2>1, <2>3, <2>5, <2>6, <2>7
  <1>12. /\ model' \in ModelType
         /\ model'.issued = model.issued
         /\ model'.calls = <<request>>
         /\ model'.active = a
         /\ model'.retired = model.retired
    <2> DEFINE next_active ==
                  CASE outcome \in {"Success", "Applied"} ->
                           [model.active EXCEPT !.interest = interest, !.mode = mode,
                                                !.state = "Armed"]
                     [] outcome = "NotApplied" -> model.active
                     [] outcome = "Unknown" ->
                           [model.active EXCEPT !.state = "Uncertain"]
    <2>1. model' = [model EXCEPT !.calls = <<request>>, !.active = next_active]
      BY <1>1, <1>3, <1>10 DEF modify_model, ModelType
    <2>2. next_active = a
      <3> HIDE DEF e, e2, h
      <3>1. model.active = [registration |-> h, interest |-> e.interest,
                            mode |-> e.mode, state |-> e.state]
        BY <1>2 DEF e, h
      <3>2. CASE outcome \in {"Success", "Applied"}
        <4>1. next_active = [model.active EXCEPT !.interest = interest, !.mode = mode,
                                                 !.state = "Armed"]
          BY <3>2
        <4>2. e2.interest = interest /\ e2.mode = mode /\ e2.state = "Armed"
          BY <1>11, <3>2
        <4>3. [model.active EXCEPT !.interest = interest, !.mode = mode,
                                   !.state = "Armed"] =
                  [registration |-> h, interest |-> interest, mode |-> mode,
                   state |-> "Armed"]
          <5>1. PICK b : b = [model.active EXCEPT !.interest = interest]
            OBVIOUS
          <5>2. PICK c : c = [b EXCEPT !.mode = mode]
            OBVIOUS
          <5>3. b = [registration |-> h, interest |-> interest, mode |-> e.mode,
                     state |-> e.state]
            BY <3>1, <5>1
          <5>4. c = [registration |-> h, interest |-> interest, mode |-> mode,
                     state |-> e.state]
            BY <5>2, <5>3
          <5>5. [model.active EXCEPT !.interest = interest, !.mode = mode,
                                     !.state = "Armed"] = [c EXCEPT !.state = "Armed"]
            BY <5>1, <5>2
          <5> QED
            BY <5>4, <5>5
        <4> QED
          BY <4>1, <4>2, <4>3, Zenon
      <3>3. CASE outcome = "NotApplied"
        <4>1. next_active = model.active
          BY <3>3
        <4>2. e2.interest = e.interest /\ e2.mode = e.mode /\ e2.state = e.state
          BY <1>11, <3>3
        <4> QED
          BY <3>1, <4>1, <4>2
      <3>4. CASE outcome = "Unknown"
        <4>1. next_active = [model.active EXCEPT !.state = "Uncertain"]
          BY <3>4
        <4>2. e2.interest = e.interest /\ e2.mode = e.mode /\ e2.state = "Uncertain"
          BY <1>11, <3>4
        <4>3. [model.active EXCEPT !.state = "Uncertain"] =
                  [registration |-> h, interest |-> e.interest, mode |-> e.mode,
                   state |-> "Uncertain"]
          BY <3>1
        <4> QED
          BY <4>1, <4>2, <4>3, Zenon
      <3> QED
        BY <3>2, <3>3, <3>4, OutcomeCases
    <2> HIDE DEF request, a, h, next_active
    <2>3. <<request>> \in Seq(MutationCall)
      BY <1>9
    <2> QED
      BY <1>1, <1>11, <2>1, <2>2, <2>3 DEF ModelType
  <1>13. model'.active # None /\ model'.active = ModelOf(table', owner', i)
    <2>1. table'.slots[i].generation = g /\ table'.slots[i].entry = e2
      BY <1>6 DEF SlotBecomes
    <2>2. ModelOf(table', owner', i) = a
      BY <1>2, <1>7, <2>1 DEF ModelOf
    <2> QED
      BY <1>11, <1>12, <2>2
  <1> HIDE DEF e2, a, request
  <1>14. Kept'
    <2>1. /\ handles \subseteq handles' /\ calls' = model'.calls
          /\ model'.issued \subseteq model.issued \cup {encode(i, g)}
      BY <1>3, <1>7, <1>12
    <2> QED
      BY <1>1, <1>2, <1>5, <1>6, <1>11, <1>12, <1>13, <2>1, StepKept
  <1>15. Believes(generator', model')
    <2>1. generator' = CASE outcome \in {"Success", "Applied"} ->
                               [generator EXCEPT !.state = "Armed", !.mode = mode]
                         [] outcome = "NotApplied" -> generator
                         [] outcome = "Unknown" ->
                               [generator EXCEPT !.state = "Uncertain"]
      BY DEF modify, Generated, observe, Settled, Armed
    <2>2. Believes(generator, model)
      BY SequenceParts DEF Between
    <2>3. a.mode = e2.mode /\ a.state = e2.state
      BY DEF a
    <2>4. model.active.state = e.state /\ model.active.mode = e.mode
      BY <1>2
    <2>5. mode \in drawn_mode
      BY Drawn
    <2> HIDE DEF e
    <2> QED
      BY <1>1, <1>11, <1>12, <2>1, <2>2, <2>3, <2>4, <2>5, OutcomeCases
         DEF Believes, ExpectedState
  <1>16. owner' = 0 => next_poll_id' = 2
    BY <1>3, Belief DEF ModifyCall
  <1>17. ~diverged'
    <2>1. verify'
      BY <1>14, VerifiedNext
    <2>2. expect_mutation_result("modify", outcome)
      BY <1>7 DEF expect_mutation_result, expect_mutation_error, StatusOf
    <2>3. diverged' = ~(/\ /\ model.active.state # "Uncertain"
                           /\ expect_mutation_result("modify", outcome)
                        /\ verify')
      BY <1>0 DEF modify_called, Checked
    <2> QED
      BY <1>1, <2>1, <2>2, <2>3
  <1> QED
    BY <1>1, <1>3, <1>7, <1>14, <1>15, <1>16, <1>17, SequencePartsNext DEF Between

\* delete: the handle is retired exactly when the poller's slot is.
LEMMA DeleteSequence ==
    ASSUME SequenceInv, NEW outcome \in Outcomes, delete(outcome)
    PROVE  SequenceInv'
  <1>0. delete_called(model.active.registration, outcome)
    BY DeleteAccepted
  <1>1. /\ Kept /\ Inv /\ script = NoSteps /\ others = {1} /\ model \in ModelType
        /\ model.active # None /\ model.active \in ModelEntry
        /\ generator.state = model.active.state
    BY Belief DEF delete, Generated, draws
  <1> DEFINE h == model.active.registration
             E(i) == table.slots[i].entry
  <1>2. PICK i \in Index, g \in 1..MAX_GENERATION :
                  /\ table.slots[i].generation = g /\ E(i) # None /\ E(i) \in Entry
                  /\ h = [owner |-> owner, id |-> encode(i, g)]
                  /\ h.id = encode(i, g) /\ h.id \in Ids
                  /\ h \in handles /\ h \in Presented /\ h \in Registration
                  /\ model.active = [registration |-> h, interest |-> E(i).interest,
                                     mode |-> E(i).mode, state |-> E(i).state]
                  /\ E(i).interest \in drawn_interest
                  /\ entry(table, h.id) = E(i)
                  /\ validate(backend, h.id, E(i).descriptor)
                  /\ Advances(table, i, g)
                  /\ \A j \in Index : j # i => table.slots[j].entry = None
    BY <1>1, ActiveCall
  <1> DEFINE e == E(i)
             e2 == AfterDelete(e, outcome)
             request == DeleteRequest(h.id, e)
             gone == outcome \in {"Success", "Applied"}
             R == IF gone THEN Append(model.retired, h) ELSE model.retired
  <1>3. /\ DeleteCall(h, outcome)
        /\ script' = script /\ calls' = <<request>>
        /\ model' = delete_model(outcome)
    BY <1>0, <1>1, <1>2, Consumed DEF delete_called
  <1>4. Inv'
    BY <1>1, <1>2, <1>3, DeleteInv
  <1>5. SlotBecomes(table, table', i, g, e2)
    <2>1. PICK j \in Index, k \in 1..MAX_GENERATION :
              /\ h.id = encode(j, k) /\ h \in handles
              /\ table.slots[j].generation = k /\ table.slots[j].entry # None
              /\ SlotBecomes(table, table', j, k,
                             AfterDelete(table.slots[j].entry, outcome))
      <3>1. h \in Presented /\ DeleteCall(h, outcome)
        BY <1>2, <1>3
      <3> HIDE DEF h
      <3> QED
        BY <1>1, <3>1, DeleteSlot
    <2>2. j = i /\ k = g
      BY <1>2, <2>1, IdsDistinct
    <2> QED
      BY <2>1, <2>2
  <1>6. /\ owner' = owner /\ others' = others /\ handles' = handles
        /\ result' = [op |-> "delete", target |-> h, status |-> StatusOf(outcome)]
    <2>1. parts(h.id).index = i
      BY <1>2, IdParts
    <2> QED
      BY <1>2, <1>3, <2>1 DEF DeleteCall, Returns, Validated
  <1>7. request \in MutationCall
    BY <1>2 DEF DeleteRequest, MutationCall, Entry
  <1>8. record_delete = <<request>>
    <2>1. model.active.interest = e.interest /\ model.active.state = e.state
      BY <1>2
    <2> QED
      BY <2>1 DEF record_delete, DeleteRequest
  <1> DEFINE a == [registration |-> h, interest |-> e2.interest,
                   mode |-> e2.mode, state |-> e2.state]
  <1>9. \/ gone /\ e2 = None
        \/ /\ ~gone /\ e2 # None /\ e2 \in Entry
           /\ e2.interest = e.interest /\ e2.mode = e.mode
           /\ e2.state = IF outcome = "NotApplied" THEN e.state ELSE "Uncertain"
           /\ a \in ModelEntry /\ a # None
    <2>1. /\ Uncertainly(e) \in Entry
          /\ Uncertainly(e).interest = e.interest
          /\ Uncertainly(e).mode = e.mode
          /\ Uncertainly(e).state = "Uncertain"
      <3> HIDE DEF e
      <3> QED
        BY <1>2 DEF e, Uncertainly, Entry, RegistrationStates
    <2>2. \/ gone /\ e2 = None
          \/ outcome = "NotApplied" /\ e2 = e
          \/ outcome = "Unknown" /\ e2 = Uncertainly(e)
      BY OutcomeCases DEF AfterDelete
    <2>3. e \in Entry /\ e.interest \in drawn_interest
      BY <1>2
    <2> HIDE DEF e, e2, h
    <2>4. gone => e2 = None
      BY <2>2
    <2>5. ~gone => e2 \in Entry /\ e2.interest \in drawn_interest /\ e2 # None
      BY <2>1, <2>2, <2>3, NoneAssumption
    <2>6. ~gone => a \in ModelEntry /\ a # None
      BY <1>2, <2>5, ModelNoneDistinct
         DEF ModelEntry, Entry, RegistrationStates, ExpectedState
    <2>7. ~gone => /\ e2.interest = e.interest /\ e2.mode = e.mode
                   /\ e2.state = IF outcome = "NotApplied" THEN e.state ELSE "Uncertain"
      BY <2>1, <2>2
    <2> HIDE DEF a, gone
    <2> QED
      BY <2>4, <2>5, <2>6, <2>7
  <1>10. /\ model' \in ModelType
         /\ model'.issued = model.issued
         /\ model'.calls = <<request>>
         /\ model'.active = IF gone THEN None ELSE a
         /\ model'.retired = R
    <2> DEFINE next_active ==
                  CASE outcome \in {"Success", "Applied"} -> None
                     [] outcome = "NotApplied" -> model.active
                     [] outcome = "Unknown" ->
                           [model.active EXCEPT !.state = "Uncertain"]
    <2>1. model' = [model EXCEPT !.calls = <<request>>, !.retired = R,
                                 !.active = next_active]
      BY <1>1, <1>3, <1>8 DEF delete_model, ModelType
    <2>2. next_active = IF gone THEN None ELSE a
      <3> HIDE DEF e, e2, h
      <3>1. model.active = [registration |-> h, interest |-> e.interest,
                            mode |-> e.mode, state |-> e.state]
        BY <1>2 DEF e, h
      <3>2. CASE outcome \in {"Success", "Applied"}
        BY <3>2
      <3>3. CASE outcome = "NotApplied"
        <4>1. next_active = model.active /\ ~gone
          BY <3>3
        <4>2. e2.interest = e.interest /\ e2.mode = e.mode /\ e2.state = e.state
          BY <1>9, <3>3
        <4> QED
          BY <3>1, <4>1, <4>2
      <3>4. CASE outcome = "Unknown"
        <4>1. next_active = [model.active EXCEPT !.state = "Uncertain"] /\ ~gone
          BY <3>4
        <4>2. e2.interest = e.interest /\ e2.mode = e.mode /\ e2.state = "Uncertain"
          BY <1>9, <3>4
        <4>3. [model.active EXCEPT !.state = "Uncertain"] =
                  [registration |-> h, interest |-> e.interest, mode |-> e.mode,
                   state |-> "Uncertain"]
          BY <3>1
        <4> QED
          BY <4>1, <4>2, <4>3, Zenon
      <3> QED
        BY <3>2, <3>3, <3>4, OutcomeCases
    <2>3. <<request>> \in Seq(MutationCall)
      <3> HIDE DEF request
      <3> QED
        BY <1>7
    <2>4. R \in Seq(Registration)
      <3>1. model.retired \in Seq(Registration) /\ h \in Registration
        BY <1>1, <1>2 DEF ModelType
      <3> HIDE DEF h
      <3> QED
        BY <3>1
    <2>5. (IF gone THEN None ELSE a) \in ModelEntry \cup {None}
      BY <1>9
    <2> HIDE DEF request, a, h, next_active, R, gone
    <2> QED
      BY <1>1, <2>1, <2>2, <2>3, <2>4, <2>5 DEF ModelType
  <1>11. IF e2 = None THEN model'.active = None
         ELSE model'.active # None /\ model'.active = ModelOf(table', owner', i)
    <2>1. CASE gone
      BY <1>9, <1>10, <2>1
    <2>2. CASE ~gone
      <3>1. table'.slots[i].generation = g /\ table'.slots[i].entry = e2
        BY <1>5 DEF SlotBecomes
      <3>2. ModelOf(table', owner', i) = a
        BY <1>2, <1>6, <3>1 DEF ModelOf
      <3> QED
        BY <1>9, <1>10, <2>2, <3>2
    <2> QED
      BY <2>1, <2>2
  <1> HIDE DEF e2, a, request
  <1>12. Kept'
    <2>1. /\ handles \subseteq handles' /\ calls' = model'.calls
          /\ model'.issued \subseteq model.issued \cup {encode(i, g)}
      BY <1>3, <1>6, <1>10
    <2>2. h = [owner |-> owner', id |-> encode(i, g)] /\ h \in handles'
      BY <1>2, <1>6
    <2>3. \/ model'.retired = model.retired
          \/ /\ e2 = None
             /\ [owner |-> owner', id |-> encode(i, g)] \in handles'
             /\ model'.retired = Append(model.retired,
                                        [owner |-> owner', id |-> encode(i, g)])
      BY <1>9, <1>10, <2>2
    <2> HIDE DEF R, h
    <2> QED
      BY <1>1, <1>2, <1>4, <1>5, <1>10, <1>11, <2>1, <2>3, StepKept
  <1>13. Believes(generator', model')
    <2>1. generator' = CASE outcome \in {"Success", "Applied"} ->
                               [generator EXCEPT !.state = "Vacant", !.has_stale = TRUE]
                         [] outcome = "NotApplied" -> generator
                         [] outcome = "Unknown" ->
                               [generator EXCEPT !.state = "Uncertain"]
      BY DEF delete, Generated, observe, Settled, Emptied
    <2>2. Believes(generator, model)
      BY SequenceParts DEF Between
    <2>3. a.mode = e2.mode /\ a.state = e2.state
      BY DEF a
    <2>4. model.active.state = e.state /\ model.active.mode = e.mode
      BY <1>2
    <2>5. Append(model.retired, h) # <<>>
      <3>1. model.retired \in Seq(Registration)
        BY <1>1 DEF ModelType
      <3> HIDE DEF h
      <3> QED
        BY <3>1
    <2> HIDE DEF e, h
    <2>6. CASE gone
      <3>1. model'.active = None /\ model'.retired # <<>>
        BY <1>10, <2>5, <2>6
      <3>2. generator' = [generator EXCEPT !.state = "Vacant", !.has_stale = TRUE]
        BY <2>1, <2>6
      <3> QED
        BY <2>2, <3>1, <3>2 DEF Believes
    <2>7. CASE ~gone
      <3>1. model'.active # None /\ model'.active = a /\ model'.retired = model.retired
        BY <1>9, <1>10, <2>7
      <3>2. /\ a.mode = e.mode
            /\ a.state = IF outcome = "NotApplied" THEN e.state ELSE "Uncertain"
        BY <1>9, <2>3, <2>7
      <3> QED
        BY <1>1, <2>1, <2>2, <2>4, <2>7, <3>1, <3>2, OutcomeCases
           DEF Believes, ExpectedState
    <2> QED
      BY <2>6, <2>7
  <1>14. owner' = 0 => next_poll_id' = 2
    BY <1>3, Belief DEF DeleteCall
  <1>15. ~diverged'
    <2>1. verify'
      BY <1>12, VerifiedNext
    <2>2. IF outcome = "Success" THEN expect_mutation_result("delete", outcome)
          ELSE expect_delete_error(outcome, h)
      <3> HIDE DEF h
      <3> QED
        BY <1>6 DEF expect_mutation_result, expect_mutation_error,
                    expect_delete_error, StatusOf
    <2>3. diverged' = ~(/\ IF outcome = "Success"
                           THEN expect_mutation_result("delete", outcome)
                           ELSE expect_delete_error(outcome, h)
                        /\ verify')
      BY <1>0 DEF delete_called, Checked
    <2> HIDE DEF h
    <2> QED
      BY <2>1, <2>2, <2>3
  <1> QED
    BY <1>1, <1>3, <1>6, <1>12, <1>13, <1>14, <1>15, SequencePartsNext DEF Between

\* disarm, drawn only for an armed one-shot registration: the backend accepts.
LEMMA DisarmSequence ==
    ASSUME SequenceInv, disarm
    PROVE  SequenceInv'
  <1>0. disarm_called(model.active.registration)
    BY DisarmAccepted
  <1>1. /\ Kept /\ Inv /\ script = NoSteps /\ others = {1} /\ model \in ModelType
        /\ model.active # None /\ model.active \in ModelEntry
        /\ model.active.state = "Armed" /\ model.active.mode = "OneShot"
        /\ generator.state = "Armed" /\ generator.mode = "OneShot"
    BY Belief DEF disarm, Generated, draws
  <1> DEFINE h == model.active.registration
             E(i) == table.slots[i].entry
  <1>2. PICK i \in Index, g \in 1..MAX_GENERATION :
                  /\ table.slots[i].generation = g /\ E(i) # None /\ E(i) \in Entry
                  /\ h = [owner |-> owner, id |-> encode(i, g)]
                  /\ h.id = encode(i, g) /\ h.id \in Ids
                  /\ h \in handles /\ h \in Presented /\ h \in Registration
                  /\ model.active = [registration |-> h, interest |-> E(i).interest,
                                     mode |-> E(i).mode, state |-> E(i).state]
                  /\ E(i).interest \in drawn_interest
                  /\ entry(table, h.id) = E(i)
                  /\ decode(h.id).index = i
                  /\ validate(backend, h.id, E(i).descriptor)
                  /\ Advances(table, i, g)
                  /\ \A j \in Index : j # i => table.slots[j].entry = None
    BY <1>1, ActiveCall
  <1> DEFINE e == E(i)
             e2 == [e EXCEPT !.state = "Disarmed"]
             a == [registration |-> h, interest |-> e.interest,
                   mode |-> e.mode, state |-> "Disarmed"]
  <1>3. e.state = "Armed" /\ e.mode = "OneShot"
    BY <1>1, <1>2
  <1>4. EstablishDisarmed(h) /\ BackendDisarms(h) /\ ~DisarmRefused(table, i)
    <2>1. EstablishDisarmed(h)
      BY <1>0 DEF disarm_called
    <2>2. Matches(backend[h.id], e)
      BY <1>1, <1>2, LiveTarget
    <2>3. backend[h.id].state = "Armed" /\ backend[h.id].mode = "OneShot"
      BY <1>2, <1>3, <2>2 DEF Matches
    <2> HIDE DEF h
    <2> QED
      BY <1>2, <1>3, <2>1, <2>3 DEF BackendDisarms, DisarmRefused
  <1>5. /\ table' = SetEntry(table, i, e2)
        /\ owner' = owner /\ others' = others /\ handles' = handles
        /\ result' = [op |-> "disarm", target |-> h, status |-> "Ok"]
    BY <1>2, <1>4 DEF EstablishDisarmed, apply_disarm, Returns
  <1>6. /\ script' = script /\ calls' = <<Disarmed(h.id)>> /\ model' = disarm_model
    BY <1>0, <1>1, <1>4, NotPlanned DEF disarm_called
  <1>7. Inv'
    BY <1>1, <1>2, <1>4, DisarmInv
  <1>8. /\ e2 \in Entry /\ e2 # None /\ e2.interest = e.interest /\ e2.mode = e.mode
        /\ e2.state = "Disarmed"
    BY <1>2, NoneAssumption DEF Entry, RegistrationStates
  <1>9. SlotBecomes(table, table', i, g, e2)
    <2>1. TableInv(table)
      BY <1>1 DEF Inv
    <2> HIDE DEF e2
    <2> QED
      BY <1>2, <1>5, <1>8, <2>1, Settle
  <1>10. a \in ModelEntry /\ a # None
    <2>1. a \in ModelEntry
      BY <1>2 DEF ModelEntry, ExpectedState, Entry
    <2> QED
      BY <2>1, ModelNoneDistinct
  <1>11. /\ model' \in ModelType
         /\ model'.issued = model.issued
         /\ model'.calls = <<Disarmed(h.id)>>
         /\ model'.active = a
         /\ model'.retired = model.retired
    <2>1. Disarmed(h.id) \in MutationCall
      BY <1>2 DEF Disarmed, MutationCall
    <2>2. <<Disarmed(h.id)>> \in Seq(MutationCall)
      BY <2>1
    <2>3. [model.active EXCEPT !.state = "Disarmed"] = a
      <3> HIDE DEF e, h
      <3>1. model.active = [registration |-> h, interest |-> e.interest,
                            mode |-> e.mode, state |-> e.state]
        BY <1>2 DEF e, h
      <3> QED
        BY <3>1
    <2>4. model' = [model EXCEPT !.calls = <<Disarmed(h.id)>>, !.active = a]
      BY <1>1, <1>6, <2>3 DEF disarm_model, ModelType
    <2> HIDE DEF a, h
    <2> QED
      BY <1>1, <1>10, <2>2, <2>4 DEF ModelType
  <1>12. model'.active # None /\ model'.active = ModelOf(table', owner', i)
    <2>1. table'.slots[i].generation = g /\ table'.slots[i].entry = e2
      BY <1>9 DEF SlotBecomes
    <2> HIDE DEF e2, e
    <2>2. ModelOf(table', owner', i) = a
      BY <1>2, <1>5, <1>8, <2>1 DEF ModelOf
    <2> HIDE DEF a
    <2> QED
      BY <1>10, <1>11, <2>2
  <1> HIDE DEF e2, a
  <1>13. Kept'
    <2>1. /\ handles \subseteq handles' /\ calls' = model'.calls
          /\ model'.issued \subseteq model.issued \cup {encode(i, g)}
      BY <1>5, <1>6, <1>11
    <2> QED
      BY <1>1, <1>2, <1>7, <1>8, <1>9, <1>11, <1>12, <2>1, StepKept
  <1>14. Believes(generator', model')
    <2>1. generator' = [generator EXCEPT !.state = "Disarmed"]
      BY DEF disarm, Generated, observe
    <2>2. Believes(generator, model)
      BY SequenceParts DEF Between
    <2>3. a.mode = e.mode /\ a.state = "Disarmed"
      BY DEF a
    <2> HIDE DEF e
    <2> QED
      BY <1>1, <1>3, <1>10, <1>11, <2>1, <2>2, <2>3 DEF Believes, ExpectedState
  <1>15. ~diverged'
    <2>1. verify'
      BY <1>13, VerifiedNext
    <2>2. result'.status = "Ok"
      BY <1>5
    <2>3. diverged' = ~(/\ /\ model.active.mode = "OneShot"
                           /\ model.active.state = "Armed"
                           /\ result'.status = "Ok"
                        /\ verify')
      BY <1>0 DEF disarm_called, Checked
    <2> QED
      BY <1>1, <2>1, <2>2, <2>3
  <1>16. owner' = 0 => next_poll_id' = 2
    BY <1>4, Belief DEF EstablishDisarmed
  <1> QED
    BY <1>1, <1>5, <1>6, <1>13, <1>14, <1>15, <1>16, SequencePartsNext DEF Between

\* Actions that make no call of the driver.
LEMMA IdleSequence ==
    ASSUME SequenceInv, Inv', UNCHANGED <<table, owner, next_poll_id, others, handles>>,
           NEW kind, kind \notin {"Register", "Modify", "Delete"},
           NoCall(kind, "Success"), generator' = generator
    PROVE  verify' /\ (~diverged' => SequenceInv')
  <1>1. /\ Kept /\ script = NoSteps /\ others = {1} /\ Believes(generator, model)
        /\ model \in ModelType /\ (owner = 0 => next_poll_id = 2)
    BY SequenceParts DEF Between, Kept
  <1>2. script' = script /\ model' = idle_model /\ calls' = <<>>
    BY <1>1, NotPlanned DEF NoCall
  <1>3. Kept'
    BY <1>1, <1>2, IdleKept
  <1>4. Believes(generator', model')
    <2>1. model'.active = model.active /\ model'.retired = model.retired
      BY <1>1, <1>2 DEF idle_model, ModelType
    <2> QED
      BY <1>1, <2>1 DEF Believes
  <1>5. script' = NoSteps /\ others' = {1}
    BY <1>1, <1>2
  <1> QED
    BY <1>1, <1>3, <1>4, <1>5, VerifiedNext, SequencePartsNext DEF Between

\* register with no interest is refused before anything happens.
LEMMA RegisterInvalidSequence ==
    ASSUME SequenceInv, register_invalid
    PROVE  SequenceInv'
  <1>1. Inv /\ model.active = None
    BY Belief DEF register_invalid, Generated, draws
  <1>2. RegisterInvalid({}) /\ NoCall("RegisterInvalid", "Success") /\ generator' = generator
    BY DEF register_invalid, Generated, observe
  <1>3. Unmoved /\ result' = [op |-> "register", target |-> None,
                              status |-> "InvalidInterest"]
    BY <1>2 DEF RegisterInvalid, Returns
  <1>4. Inv' /\ UNCHANGED <<table, owner, next_poll_id, others, handles>>
    BY <1>1, <1>3, UnmovedInv DEF Unmoved
  <1>6. verify' /\ (~diverged' => SequenceInv')
    BY <1>2, <1>4, IdleSequence
  <1>7. diverged' = ~(/\ /\ model.active = None
                         /\ result'.target = None
                         /\ result'.status = "InvalidInterest"
                      /\ verify')
    BY DEF register_invalid, Checked
  <1> QED
    BY <1>1, <1>3, <1>6, <1>7

\* So is modify, after the handle's owner was found to be right.
LEMMA ModifyInvalidSequence ==
    ASSUME SequenceInv, modify_invalid
    PROVE  SequenceInv'
  <1>1. Inv /\ model.active # None
    BY Belief DEF modify_invalid, Generated, draws, Registered
  <1> DEFINE h == model.active.registration
  <1>2. require_owner(h)
    BY <1>1, ActiveCall
  <1>3. ModifyRejected(h, {}) /\ NoCall("ModifyInvalid", "Success") /\ generator' = generator
    BY DEF modify_invalid, Generated, observe
  <1>4. Unmoved /\ result' = [op |-> "modify", target |-> h,
                              status |-> "InvalidInterest"]
    <2> HIDE DEF h
    <2> QED
      BY <1>2, <1>3 DEF ModifyRejected, ModifyRejection, Returns
  <1>5. Inv' /\ UNCHANGED <<table, owner, next_poll_id, others, handles>>
    BY <1>1, <1>4, UnmovedInv DEF Unmoved
  <1>6. result'.status = "InvalidInterest"
    BY <1>4
  <1>7. verify' /\ (~diverged' => SequenceInv')
    BY <1>3, <1>5, IdleSequence
  <1>8. diverged' = ~(result'.status = "InvalidInterest" /\ verify')
    BY DEF modify_invalid, Checked
  <1> QED
    BY <1>6, <1>7, <1>8

\* The last retired handle is refused as stale by all three calls, though its
\* slot may be occupied again.
LEMMA ProbeStaleSequence ==
    ASSUME SequenceInv, probe_stale
    PROVE  SequenceInv'
  <1>1. /\ Kept /\ Inv /\ model \in ModelType /\ Believes(generator, model)
        /\ RetiredStale(table, handles, model.retired)
    BY SequenceParts DEF Between, Kept
  <1>2. /\ UNCHANGED vars /\ NoCall("ProbeStale", "Success") /\ generator' = generator
        /\ model.retired # <<>>
    BY <1>1 DEF probe_stale, Generated, observe, draws, Believes
  <1>3. stale \in handles /\ state(table, stale.id) = "Stale"
    <2>1. model.retired \in Seq(Registration)
      BY <1>1 DEF ModelType
    <2>2. Len(model.retired) \in 1..Len(model.retired)
      BY <1>2, <2>1
    <2> QED
      BY <1>1, <2>2 DEF RetiredStale, stale
  <1>4. PICK i \in Index, g \in 1..MAX_GENERATION :
           /\ stale = [owner |-> owner, id |-> encode(i, g)] /\ owner # 0
    BY <1>1, <1>3, OwnHandle
  <1>5. TableInv(table) /\ require_owner(stale) /\ stale.id = encode(i, g)
    BY <1>1, <1>4 DEF Inv, require_owner
  <1>6. ~IsLive(table, stale.id) /\ ~Occupied(table, parts(stale.id))
    <2> DEFINE live == table.slots[i].generation = g /\ table.slots[i].entry # None
    <2>1. /\ IsLive(table, stale.id) <=> live
          /\ Occupied(table, parts(stale.id)) <=> live
          /\ live => table.slots[i].entry.state = "Stale"
      BY <1>3, <1>5, Lookup
    <2>2. live => table.slots[i].entry.state # "Stale"
      BY <1>5 DEF TableInv, Table, Slot, Entry, RegistrationStates
    <2> QED
      BY <2>1, <2>2
  <1>7. /\ registration_state(stale) = "Stale"
        /\ ModifyRejection(stale, {"READABLE"}) = "Stale"
        /\ DeleteRejection(stale) = "Stale"
    <2>1. binding(table, stale.id, FALSE) = "Stale"
      BY <1>6 DEF binding
    <2>2. prepare_registration_retire(table, stale.id, TRUE) = "Stale"
      BY <1>6 DEF prepare_registration_retire
    <2> QED
      BY <1>3, <1>5, <2>1, <2>2 DEF registration_state, ModifyRejection, DeleteRejection
  <1>8. Inv' /\ UNCHANGED <<table, owner, next_poll_id, others, handles>>
    BY <1>1, <1>2, UnmovedInv DEF vars, Unmoved
  <1>9. verify' /\ (~diverged' => SequenceInv')
    BY <1>1, <1>2, <1>8, IdleSequence
  <1>10. expect_stale(registration_state(stale), ModifyRejection(stale, {"READABLE"}),
                      DeleteRejection(stale))
    BY <1>7 DEF expect_stale
  <1>11. diverged' = ~(/\ expect_stale(registration_state(stale),
                                       ModifyRejection(stale, {"READABLE"}),
                                       DeleteRejection(stale))
                       /\ verify')
    BY DEF probe_stale, Checked
  <1> QED
    BY <1>9, <1>10, <1>11

\* The stranger refuses the active handle for its owner, though it has a
\* registration under an id of its own.
LEMMA ProbeWrongPollerSequence ==
    ASSUME SequenceInv, probe_wrong_poller
    PROVE  SequenceInv'
  <1>1. Inv /\ model.active # None /\ others = {1}
    BY Belief DEF probe_wrong_poller, Generated, draws
  <1> DEFINE h == model.active.registration
  <1>2. /\ UNCHANGED vars /\ NoCall("ProbeWrongPoller", "Success") /\ generator' = generator
    BY DEF probe_wrong_poller, Generated, observe
  <1>3. ~Stranger!require_owner(h)
    <2>1. h.owner = owner
      BY <1>1, ActiveCall DEF require_owner
    <2>2. owner # 1
      BY <1>1 DEF Inv, OwnersDistinct
    <2> QED
      BY <2>1, <2>2 DEF Stranger!require_owner
  <1>4. /\ Stranger!registration_state(h) = "WrongPoller"
        /\ Stranger!ModifyRejection(h, {"WRITABLE"}) = "WrongPoller"
        /\ Stranger!DeleteRejection(h) = "WrongPoller"
    BY <1>3 DEF Stranger!registration_state, Stranger!ModifyRejection,
                Stranger!DeleteRejection
  <1>5. Inv' /\ UNCHANGED <<table, owner, next_poll_id, others, handles>>
    BY <1>1, <1>2, UnmovedInv DEF vars, Unmoved
  <1>7. verify' /\ (~diverged' => SequenceInv')
    BY <1>2, <1>5, IdleSequence
  <1>8. expect_wrong(Stranger!registration_state(h),
                     Stranger!ModifyRejection(h, {"WRITABLE"}),
                     Stranger!DeleteRejection(h))
    BY <1>4 DEF expect_wrong
  <1>9. diverged' = ~(/\ expect_wrong(Stranger!registration_state(h),
                                      Stranger!ModifyRejection(h, {"WRITABLE"}),
                                      Stranger!DeleteRejection(h))
                      /\ verify')
    BY DEF probe_wrong_poller, Checked
  <1> QED
    BY <1>7, <1>8, <1>9

\* A program starts with an idle poller, next to the stranger.
LEMMA SetupSequence == setup => SequenceInv
  <1> SUFFICES ASSUME setup PROVE SequenceInv
    OBVIOUS
  <1>1. TableInv(table)
    BY NewInv DEF setup
  <1>2. \A i \in Index : table.slots[i].entry = None /\ table.slots[i].generation = 0
    BY DEF setup, new, Unpushed
  <1>3. TypeOK
    <2>1. table \in Table /\ SlotsPushed(table)
      BY <1>1 DEF TableInv
    <2>2. backend \in [Ids -> BackendEntry \cup {None}]
      BY DEF setup
    <2>3. owner \in 0..PollIdMax /\ next_poll_id \in PollIds /\ others \subseteq PollIds
      BY PollIdMaxAssumption, StrangerAssumption DEF setup, PollIds
    <2>4. /\ open \subseteq DupFds /\ handles \subseteq Registration
          /\ fault \in BOOLEAN
      BY DEF setup
    <2> QED
      BY <2>1, <2>2, <2>3, <2>4 DEF TypeOK
  <1>4. OwnersDistinct /\ HandlesReached /\ EntriesIssued /\ NoDriverFault
    BY <1>2 DEF setup, OwnersDistinct, HandlesReached, EntriesIssued, NoDriverFault
  <1>5. BackendMatches(table, backend)
    <2> SUFFICES ASSUME NEW i \in Index, NEW g \in 1..MAX_GENERATION
                 PROVE  g > 0 /\ backend[encode(i, g)] = None
      BY <1>2, Limits DEF BackendMatches, MAX_GENERATION
    <2> QED
      BY IdParts, Limits DEF setup, MAX_GENERATION
  <1>6. Inv
    BY <1>1, <1>3, <1>4, <1>5 DEF Inv
  <1>7. model \in ModelType
    <2>1. <<>> \in Seq(Registration) /\ <<>> \in Seq(MutationCall)
      OBVIOUS
    <2> QED
      BY <2>1 DEF setup, new_model, ModelType
  <1>8. /\ model.active = None /\ model.retired = <<>> /\ model.issued = {}
        /\ model.calls = <<>>
    BY DEF setup, new_model
  <1>9. Kept
    <2>1. Follows(table, owner, model.active) /\ IssuedReached(table, model.issued)
      BY <1>2, <1>8 DEF Follows, IssuedReached
    <2>2. RetiredStale(table, handles, model.retired)
      BY <1>8 DEF RetiredStale
    <2>3. verify_calls
      BY <1>8 DEF verify_calls, setup
    <2> QED
      BY <1>6, <1>7, <2>1, <2>2, <2>3 DEF Kept
  <1>10. Between(script, others, generator, model, diverged,
                                    owner, next_poll_id)
    BY <1>8 DEF setup, Between, NoSteps, Believes, drawn_mode, ExpectedState
  <1> QED
    BY <1>9, <1>10, SequenceParts

\* Every action of a program.
LEMMA ExecuteSequence ==
    ASSUME SequenceInv, [execute]_sequence_vars
    PROVE  SequenceInv'
  <1>1. CASE execute
    <2> USE Drawn
    <2> QED
      BY <1>1, RegisterSequence, ModifySequence, DeleteSequence, DisarmSequence,
         RegisterInvalidSequence, ModifyInvalidSequence, ProbeStaleSequence,
         ProbeWrongPollerSequence DEF execute
  <1>2. CASE UNCHANGED sequence_vars
    <2>1. /\ UNCHANGED <<table, owner, next_poll_id, others, handles>> /\ Unmoved
          /\ UNCHANGED <<script, calls, model, generator, diverged>>
      BY <1>2 DEF sequence_vars, vars, Unmoved
    <2>2. Inv'
      BY <2>1, UnmovedInv DEF SequenceInv
    <2> QED
      BY <2>1, <2>2 DEF SequenceInv, verify_calls
  <1> QED
    BY <1>1, <1>2

\* Between any two actions of any program, the poller, its backend, the
\* reference model and the generator agree (run_program, model_sequence.rs).
THEOREM SequenceInvariance == SequenceSpec => []SequenceInv
  <1>1. SequenceInv /\ [execute]_sequence_vars => SequenceInv'
    BY ExecuteSequence
  <1> QED
    BY SetupSequence, <1>1, PTL DEF SequenceSpec

\* What an action that makes one call, or none, has to show.
LEMMA OneRequest ==
    ASSUME NEW c, calls' = <<c>>, RequestTrue(c)
    PROVE  \A n \in 1..Len(calls') : RequestTrue(calls'[n])
  <1>1. Len(<<c>>) = 1 /\ <<c>>[1] = c
    OBVIOUS
  <1>2. \A n \in 1..Len(calls') : calls'[n] = c
    BY <1>1
  <1> QED
    BY <1>2

\* The requests of an action, from what the backend holds for the slot called
\* on: nothing for the generation a register takes, and otherwise what the
\* entry there says.
LEMMA RequestsStep ==
    ASSUME SequenceInv, execute
    PROVE  \A n \in 1..Len(calls') : RequestTrue(calls'[n])
  <1>1. Inv /\ script = NoSteps /\ BackendMatches(table, backend)
    BY Belief DEF Inv
  <1>2. ASSUME NEW outcome \in Outcomes, NEW key \in Keys,
               NEW interest \in Interests \ {{}}, NEW mode \in Modes,
               register(outcome, key, interest, mode)
        PROVE  \A n \in 1..Len(calls') : RequestTrue(calls'[n])
    <2>1. register_called(outcome, key, interest, mode)
      BY <1>2, RegisterAccepted
    <2>2. PICK d \in DupFds : RegisterCall(d, key, interest, mode, outcome)
      BY <1>1, <2>1, Consumed DEF register_called
    <2>3. d \in Descriptors /\ interest \in Interests
      BY DescriptorsAssumption
    <2>4. PICK i \in Index, g \in 1..MAX_GENERATION :
             /\ g = table.slots[i].generation + 1
             /\ i = Permit(table).index /\ g = Permit(table).generation
      BY <1>1, <2>2, <2>3, RegisterSlot
    <2>5. table.slots[i].generation \in Nat
      BY <1>1, Generations
    <2>6. backend[encode(i, g)] = None
      BY <1>1, <2>4, <2>5 DEF BackendMatches
    <2> DEFINE c == RegisterRequest(encode(i, g), key, interest, mode)
    <2>7. calls' = <<c>>
      BY <2>1, <2>4 DEF register_called
    <2>8. RequestTrue(c)
      BY <2>6 DEF RequestTrue, RegisterRequest
    <2> HIDE DEF c
    <2> QED
      BY <2>7, <2>8, OneRequest
  <1>3. ASSUME model.active # None
        PROVE  LET h == model.active.registration
                   e == entry(table, h.id)
                   b == backend[h.id]
               IN  /\ b # None
                   /\ e.state = "Uncertain" => b.state = "Unknown"
                   /\ e.state # "Uncertain" =>
                        /\ b.state = e.state /\ b.state \in {"Armed", "Disarmed"}
                        /\ b.interest = e.interest /\ b.mode = e.mode
                   /\ e.state = model.active.state /\ e.mode = model.active.mode
    <2> DEFINE h == model.active.registration
    <2>1. PICK i \in Index, g \in 1..MAX_GENERATION :
             /\ table.slots[i].generation = g /\ table.slots[i].entry # None
             /\ table.slots[i].entry \in Entry /\ h.id = encode(i, g)
             /\ entry(table, h.id) = table.slots[i].entry
      BY <1>3, ActiveCall
    <2>1a. /\ entry(table, h.id).state = model.active.state
           /\ entry(table, h.id).mode = model.active.mode
      BY <1>3, ActiveEntry
    <2>2. Matches(backend[h.id], table.slots[i].entry)
      BY <1>1, <2>1 DEF BackendMatches
    <2> HIDE DEF h
    <2>3. table.slots[i].entry.state \in {"Armed", "Disarmed", "Uncertain"}
      BY <2>1 DEF Entry, RegistrationStates
    <2> QED
      BY <2>1, <2>1a, <2>2, <2>3 DEF Matches, h
  <1>4. ASSUME NEW outcome \in Outcomes, NEW interest \in Interests \ {{}},
               NEW mode \in Modes, modify(outcome, interest, mode)
        PROVE  \A n \in 1..Len(calls') : RequestTrue(calls'[n])
    <2>1. model.active # None /\ model.active.state # "Uncertain"
      BY <1>4, Belief DEF modify, Generated, draws, Registered
    <2> DEFINE h == model.active.registration
               e == entry(table, h.id)
               c == ModifyRequest(h.id, e, interest, mode)
    <2>2. calls' = <<c>>
      BY <1>4, ModifyAccepted DEF modify_called
    <2>3. /\ backend[h.id] # None /\ backend[h.id].state = e.state
          /\ backend[h.id].interest = e.interest /\ backend[h.id].mode = e.mode
      BY <1>3, <2>1
    <2> HIDE DEF h, e
    <2>4. RequestTrue(c)
      BY <2>3 DEF RequestTrue, ModifyRequest
    <2> HIDE DEF c
    <2> QED
      BY <2>2, <2>4, OneRequest
  <1>5. ASSUME NEW outcome \in Outcomes, delete(outcome)
        PROVE  \A n \in 1..Len(calls') : RequestTrue(calls'[n])
    <2>1. model.active # None
      BY <1>5, Belief DEF delete, Generated, draws
    <2> DEFINE h == model.active.registration
               e == entry(table, h.id)
               c == DeleteRequest(h.id, e)
    <2>2. calls' = <<c>>
      BY <1>5, DeleteAccepted DEF delete_called
    <2>3. /\ backend[h.id] # None
          /\ e.state = "Uncertain" => backend[h.id].state = "Unknown"
          /\ e.state # "Uncertain" =>
               /\ backend[h.id].state = e.state
               /\ backend[h.id].state \in {"Armed", "Disarmed"}
               /\ backend[h.id].interest = e.interest
      BY <1>3, <2>1
    <2> HIDE DEF h, e
    <2>4. RequestTrue(c)
      BY <2>3 DEF RequestTrue, DeleteRequest
    <2> HIDE DEF c
    <2> QED
      BY <2>2, <2>4, OneRequest
  <1>6. ASSUME disarm
        PROVE  \A n \in 1..Len(calls') : RequestTrue(calls'[n])
    <2>1. /\ model.active # None
          /\ model.active.state = "Armed" /\ model.active.mode = "OneShot"
      BY <1>6, Belief DEF disarm, Generated, draws
    <2> DEFINE h == model.active.registration
               c == Disarmed(h.id)
    <2>2. calls' = IF BackendDisarms(h) THEN <<c>> ELSE <<>>
      BY <1>6, DisarmAccepted DEF disarm_called
    <2>3. /\ backend[h.id] # None /\ backend[h.id].state = "Armed"
          /\ backend[h.id].mode = "OneShot"
      BY <1>3, <2>1
    <2> HIDE DEF h
    <2>4. RequestTrue(c)
      BY <2>3 DEF RequestTrue, Disarmed
    <2> HIDE DEF c
    <2>5. CASE calls' = <<c>>
      BY <2>4, <2>5, OneRequest
    <2>6. CASE calls' = <<>>
      BY <2>6
    <2> QED
      BY <2>2, <2>5, <2>6
  <1>7. ASSUME register_invalid \/ modify_invalid \/ probe_stale \/ probe_wrong_poller
        PROVE  \A n \in 1..Len(calls') : RequestTrue(calls'[n])
    <2>1. calls' = <<>>
      BY <1>7 DEF register_invalid, modify_invalid, probe_stale,
                  probe_wrong_poller, NoCall
    <2> QED
      BY <2>1
  <1> QED
    BY <1>2, <1>4, <1>5, <1>6, <1>7, Drawn DEF execute

\* What a driver call says of its registration is what the backend holds at that
\* moment (mutation/machine.rs modify and delete), in a program of any length.
THEOREM RequestsAlwaysTrue == SequenceSpec => RequestsTrue
  <1>1. SequenceInv /\ [execute]_sequence_vars
            => [\A n \in 1..Len(calls') : RequestTrue(calls'[n])]_sequence_vars
    BY RequestsStep
  <1> QED
    BY <1>1, SequenceInvariance, PTL DEF SequenceSpec, RequestsTrue

\* run_program never reports a divergence, whatever the generator draws: not
\* in 64 actions of 64 seeds, but in a program of any length.
THEOREM RunsNeverDiverge == SequenceSpec => []NeverDiverges
  <1>1. SequenceInv => NeverDiverges
    BY DEF SequenceInv, Inv, NoDriverFault, NeverDiverges, finish
  <1> QED
    BY SequenceInvariance, <1>1, PTL

\* Generator::observe, which never sees the poller, is right about it.
THEOREM GeneratorAlwaysInStep == SequenceSpec => []GeneratorInStep
  <1>1. SequenceInv => GeneratorInStep
    <2> SUFFICES ASSUME SequenceInv PROVE GeneratorInStep
      OBVIOUS
    <2>1. /\ Follows(table, owner, model.active) /\ Believes(generator, model)
          /\ generator.state = "Vacant" <=> model.active = None
          /\ model.active # None =>
                /\ generator.state = model.active.state
                /\ generator.state # "Uncertain" => generator.mode = model.active.mode
      BY Belief, SequenceParts DEF Between, Kept
    <2>2. ASSUME NEW i \in Index, table.slots[i].entry # None
          PROVE  /\ model.active # None
                 /\ model.active.state = table.slots[i].entry.state
                 /\ model.active.mode = table.slots[i].entry.mode
      <3>1. model.active # None
        BY <2>1, <2>2 DEF Follows
      <3>2. PICK j \in Index :
               /\ model.active = ModelOf(table, owner, j)
               /\ \A k \in Index : k # j => table.slots[k].entry = None
        BY <2>1, <3>1 DEF Follows
      <3>3. i = j
        BY <2>2, <3>2
      <3>4. /\ ModelOf(table, owner, i).state = table.slots[i].entry.state
            /\ ModelOf(table, owner, i).mode = table.slots[i].entry.mode
        BY DEF ModelOf
      <3> QED
        BY <3>1, <3>2, <3>3, <3>4
    <2>3. model.active # None => \E i \in Index : table.slots[i].entry # None
      BY <2>1 DEF Follows
    <2> DEFINE occupied == {i \in Index : table.slots[i].entry # None}
    <2>4. generator.state = "Vacant" <=> occupied = {}
      BY <2>1, <2>2, <2>3
    <2>5. \A i \in occupied :
             LET e == table.slots[i].entry
             IN  /\ generator.state = e.state
                 /\ e.state # "Uncertain" => generator.mode = e.mode
      BY <2>1, <2>2
    <2>6. generator.has_stale <=> model.retired # <<>>
      BY <2>1 DEF Believes
    <2> QED
      BY <2>4, <2>5, <2>6 DEF GeneratorInStep
  <1> QED
    BY SequenceInvariance, <1>1, PTL

\* An action of a program is a step of one handle's life, or of none.
LEMMA SequenceLives ==
    ASSUME SequenceInv, SequenceInv', [execute]_sequence_vars
    PROVE  L!Next \/ Lives' = Lives
  <1>1. Inv /\ Inv' /\ script = NoSteps
    BY DEF SequenceInv, NoSteps
  <1>2. ASSUME NEW outcome \in Outcomes, NEW key \in Keys,
               NEW interest \in Interests \ {{}}, NEW mode \in Modes,
               register(outcome, key, interest, mode)
        PROVE  L!Next \/ Lives' = Lives
    <2>0. register_called(outcome, key, interest, mode)
      BY <1>2, RegisterAccepted
    <2>1. PICK d \in DupFds : RegisterCall(d, key, interest, mode, outcome)
      BY <1>1, <2>0, Consumed DEF register_called
    <2>2. d \in Descriptors /\ interest \in Interests
      BY DescriptorsAssumption
    <2> QED
      BY <1>1, <2>1, <2>2, RegisterLives
  <1>3. ASSUME model.active # None
        PROVE  model.active.registration \in Presented
    BY <1>3, ActiveCall
  <1>4. ASSUME NEW outcome \in Outcomes, NEW interest \in Interests \ {{}},
               NEW mode \in Modes, modify(outcome, interest, mode)
        PROVE  L!Next \/ Lives' = Lives
    <2>1. model.active # None
      BY <1>4, Belief DEF modify, Generated, draws, Registered
    <2>2. ModifyCall(model.active.registration, interest, mode, outcome)
      BY <1>1, <1>4, Consumed, ModifyAccepted DEF modify_called
    <2>3. interest \in Interests
      OBVIOUS
    <2> QED
      BY <1>1, <1>3, <2>1, <2>2, <2>3, ModifyLives
  <1>5. ASSUME NEW outcome \in Outcomes, delete(outcome)
        PROVE  L!Next \/ Lives' = Lives
    <2>1. model.active # None
      BY <1>5, Belief DEF delete, Generated, draws
    <2>2. DeleteCall(model.active.registration, outcome)
      BY <1>1, <1>5, Consumed, DeleteAccepted DEF delete_called
    <2> QED
      BY <1>1, <1>3, <2>1, <2>2, DeleteLives
  <1>6. ASSUME disarm PROVE L!Next \/ Lives' = Lives
    <2>1. model.active # None
      BY <1>6, Belief DEF disarm, Generated, draws
    <2>2. EstablishDisarmed(model.active.registration)
      BY <1>6, DisarmAccepted DEF disarm_called
    <2> QED
      BY <1>1, <1>3, <2>1, <2>2, DisarmLives
  <1>7. ASSUME register_invalid \/ modify_invalid \/ probe_stale \/ probe_wrong_poller
               \/ UNCHANGED sequence_vars
        PROVE  Lives' = Lives
    <2>1. UNCHANGED <<table, handles>>
      BY <1>7 DEF register_invalid, modify_invalid, probe_stale, probe_wrong_poller,
                  RegisterInvalid, ModifyRejected, Unmoved, vars, sequence_vars
    <2> QED
      BY <2>1, LivesUnmoved
  <1> QED
    BY <1>2, <1>4, <1>5, <1>6, <1>7, Drawn DEF execute

\* In the programs of the testkit too, each handle lives the one life that
\* Lifecycle promises.
THEOREM SequenceImplementsLifecycle == SequenceSpec => ImplementsLifecycle
  <1>1. setup => L!Init
    BY DEF setup, L!Init, L!In, LifeOf
  <1>2. SequenceInv /\ SequenceInv' /\ [execute]_sequence_vars
            => [L!Next]_([h \in Registration |-> LifeOf(h)])
    <2> SUFFICES ASSUME SequenceInv, SequenceInv', [execute]_sequence_vars
                 PROVE  L!Next \/ Lives' = Lives
      BY DEF Lives
    <2> QED
      BY SequenceLives
  <1> QED
    BY <1>1, <1>2, SequenceInvariance, PTL DEF SequenceSpec, ImplementsLifecycle, L!Spec
==============================================================================
