------------------------------- MODULE Mutation -------------------------------
(***************************************************************************)
(* src/mutation/, registration.rs, descriptor.rs, with the backend of      *)
(* test_support/: the portable machine that registers, modifies and        *)
(* deletes, over a driver whose every call may succeed or fail with any    *)
(* commit status.                                                          *)
(*                                                                         *)
(* One poller is modelled in full.  Its methods take &mut self, so each    *)
(* call is one step.  What it shares with the rest of the process is the   *)
(* global NEXT_POLL_ID: the other pollers are the environment, they take   *)
(* identities from it and their handles may be handed to this poller.      *)
(* `handles' and `result' record what callers hold and were last told.     *)
(***************************************************************************)
EXTENDS Settlement

CONSTANTS
    PollIdMax,         \* u64::MAX: where NEXT_POLL_ID stops
    DupFds,            \* descriptor numbers try_clone_to_owned may return
    InterestRequests,  \* interests callers ask for
    ModeRequests       \* modes callers ask for

ASSUME PollIdMaxAssumption == PollIdMax \in Nat \ {0}
ASSUME DescriptorsAssumption == DupFds \subseteq Descriptors
ASSUME RequestsAssumption == /\ InterestRequests \subseteq Interests
                             /\ ModeRequests \subseteq Modes

VARIABLES
    table,         \* registrations: RegistrationTable
    owner,         \* PollOwner, 0 while unassigned
    next_poll_id,  \* NEXT_POLL_ID
    others,        \* identities assigned to other pollers of the process
    backend,       \* what the backend holds for each id, None if never called
    fault,         \* the driver was called with a wrong id or descriptor
    open,          \* duplicates this poller has open
    handles,       \* Registration handles this poller gave out
    result         \* the last call and what it returned

vars == <<table, owner, next_poll_id, others, backend, fault, open, handles,
          result>>

Ids == {encode(i, g) : i \in Index, g \in 1..MAX_GENERATION}
PollIds == 1..PollIdMax
Registration == [owner : PollIds, id : Ids]

\* Descriptor::is_owned: only a duplicate is closed when it is dropped.
is_owned(d) == d \in DupFds

\* The duplicates open after d was made a Descriptor, and after it is dropped.
Opened(fds, d) == fds \cup {x \in {d} : is_owned(x)}
Closed(fds, d) == fds \ {x \in {d} : is_owned(x)}

\* The duplicates still open after the entry of slot i has been dropped.
Dropped(fds, t, i) == Closed(fds, t.slots[i].entry.descriptor)

------------------------------------------------------------------------------
(* The backend: BackendModel and ScriptedDriver of src/test_support/.      *)

BackendEntry == [descriptor : Descriptors, interest : Interests, mode : Modes,
                 state : {"Absent", "Armed", "Disarmed", "Unknown"}]

\* None is a value of its own.
ASSUME NoneDistinct == None \notin BackendEntry /\ None \notin Registration

NotRegistered(d, s) ==
    [descriptor |-> d, interest |-> {}, mode |-> "Level", state |-> s]

RegisteredAs(d, interest, mode, arm) ==
    [descriptor |-> d, interest |-> interest, mode |-> mode, state |-> arm]

\* begin_register pushes an entry; every search finds the oldest one.
begin_register(b, id, d) ==
    IF b[id] = None THEN [b EXCEPT ![id] = NotRegistered(d, "Absent")] ELSE b

complete_register(b, id, interest, mode, outcome) ==
    LET d == b[id].descriptor
    IN  [b EXCEPT ![id] =
            CASE outcome \in {"Success", "Applied"} ->
                    RegisteredAs(d, interest, mode, "Armed")
              [] outcome = "Unknown"    -> NotRegistered(d, "Unknown")
              [] outcome = "NotApplied" -> NotRegistered(d, "Absent")]

complete_modify(b, id, interest, mode, outcome) ==
    LET d == b[id].descriptor
    IN  [b EXCEPT ![id] =
            CASE outcome \in {"Success", "Applied"} ->
                    RegisteredAs(d, interest, mode, "Armed")
              [] outcome = "Unknown"    -> NotRegistered(d, "Unknown")
              [] outcome = "NotApplied" -> @]

complete_delete(b, id, outcome) ==
    LET d == b[id].descriptor
    IN  [b EXCEPT ![id] =
            CASE outcome \in {"Success", "Applied"} ->
                    NotRegistered(d, "Absent")
              [] outcome = "Unknown"    -> NotRegistered(d, "Unknown")
              [] outcome = "NotApplied" -> @]

\* validate: the call names a registration the backend knows, by the
\* descriptor it was registered with.
validate(b, id, d) == b[id] # None /\ b[id].descriptor = d

\* A call that does not validate is a fault, and commits nothing provable.
Validated(b, id, d, outcome) ==
    IF validate(b, id, d) THEN outcome ELSE "Unknown"

mark_unknown(b, id, d) ==
    [b EXCEPT ![id] = NotRegistered(IF @ = None THEN d ELSE @.descriptor,
                                    "Unknown")]

driver_register(b, id, d, interest, mode, outcome) ==
    complete_register(begin_register(b, id, d), id, interest, mode, outcome)

driver_modify(b, id, d, interest, mode, outcome) ==
    IF validate(b, id, d) THEN complete_modify(b, id, interest, mode, outcome)
                          ELSE mark_unknown(b, id, d)

driver_delete(b, id, d, outcome) ==
    IF validate(b, id, d) THEN complete_delete(b, id, outcome)
                          ELSE mark_unknown(b, id, d)

------------------------------------------------------------------------------
(* Authority.                                                              *)

\* get_or_assign: checked_add fails once NEXT_POLL_ID is at its maximum.
CannotAssign == owner = 0 /\ next_poll_id = PollIdMax
AssignedOwner == IF owner = 0 THEN next_poll_id ELSE owner
AdvancedPollId == IF owner = 0 THEN next_poll_id + 1 ELSE next_poll_id

\* require_owner: an unassigned poller owns no handle at all.
require_owner(h) == owner # 0 /\ h.owner = owner

\* Poll::registration_state: what a caller is told of a handle.
registration_state(h) ==
    IF require_owner(h) THEN state(table, h.id) ELSE "WrongPoller"

\* Handles a caller may present: its own, and any other poller's.
Presented == handles \cup [owner : others, id : Ids]

Returns(op, target, status) ==
    result' = [op |-> op, target |-> target, status |-> status]

Unmoved == UNCHANGED <<table, owner, next_poll_id, others, backend, fault,
                       open, handles>>

StatusOf(outcome) == IF outcome = "Success" THEN "Ok" ELSE outcome

Init ==
    /\ table = new
    /\ owner = 0
    /\ next_poll_id = 1
    /\ others = {}
    /\ backend = [id \in Ids |-> None]
    /\ fault = FALSE
    /\ open = {}
    /\ handles = {}
    /\ result = [op |-> "new", target |-> None, status |-> "Ok"]

------------------------------------------------------------------------------
(* Register.                                                               *)

\* validate_registration_interest comes before the descriptor is duplicated.
RegisterInvalid(interest) ==
    /\ interest = {}
    /\ Returns("register", None, "InvalidInterest")
    /\ Unmoved

\* try_clone_to_owned fails; register_borrowed has no such step.
RegisterCannotDup(interest) ==
    /\ interest # {}
    /\ Returns("register", None, "Io")
    /\ Unmoved

\* From here on register holds the descriptor d: a caller's descriptor for
\* register_borrowed, a duplicate the kernel has just opened for register.  An
\* early return drops it.
Refuses(d, status) ==
    /\ d \notin open
    /\ Returns("register", None, status)
    /\ open' = Closed(Opened(open, d), d)
    /\ UNCHANGED <<table, owner, next_poll_id, others, backend, fault, handles>>

\* Mutant: the duplicate made for a register without a permit stays open.
RegisterNoPermit_Leaked(d, interest) ==
    /\ interest # {}
    /\ PermitStatus(table) # "Ok"
    /\ d \notin open
    /\ Returns("register", None, PermitStatus(table))
    /\ open' = Opened(open, d)
    /\ UNCHANGED <<table, owner, next_poll_id, others, backend, fault, handles>>

RegisterNoPermit(d, interest) ==
    /\ interest # {}
    /\ PermitStatus(table) # "Ok"
    /\ Refuses(d, PermitStatus(table))

RegisterNoOwner(d, interest) ==
    /\ interest # {}
    /\ PermitStatus(table) = "Ok"
    /\ CannotAssign
    /\ Refuses(d, "Invariant")

\* The backend call; the reservation drops the descriptor with the entry when
\* it retires it.
RegisterCall(d, key, interest, mode, outcome) ==
    LET i == Permit(table).index
        id == encode(i, Permit(table).generation)
        registration == [owner |-> AssignedOwner, id |-> id]
        reserved == reserve_with(table, registered(d, key, interest, mode))
    IN  /\ interest # {}
        /\ d \notin open
        /\ PermitStatus(table) = "Ok"
        /\ ~CannotAssign
        /\ owner' = AssignedOwner
        /\ next_poll_id' = AdvancedPollId
        /\ backend' = driver_register(backend, id, d, interest, mode, outcome)
        /\ table' = SettledRegister(reserved, i, outcome)
        /\ IF outcome = "NotApplied"
           THEN /\ handles' = handles
                /\ open' = Dropped(Opened(open, d), reserved, i)
                /\ Returns("register", None, outcome)
           ELSE /\ handles' = handles \cup {registration}
                /\ open' = Opened(open, d)
                /\ Returns("register", registration, StatusOf(outcome))
        /\ UNCHANGED <<others, fault>>

------------------------------------------------------------------------------
(* Modify.                                                                 *)

\* The early returns of modify, in the order the code makes them.
ModifyRejection(h, interest) ==
    CASE ~require_owner(h) -> "WrongPoller"
      [] require_owner(h) /\ interest = {} -> "InvalidInterest"
      [] require_owner(h) /\ interest # {} -> binding(table, h.id, FALSE)

ModifyRejected(h, interest) ==
    /\ ModifyRejection(h, interest) # "Ok"
    /\ Returns("modify", h, ModifyRejection(h, interest))
    /\ Unmoved

ModifyCall(h, interest, mode, outcome) ==
    LET i == decode(h.id).index
        d == entry(table, h.id).descriptor
        done == Validated(backend, h.id, d, outcome)
    IN  /\ ModifyRejection(h, interest) = "Ok"
        /\ backend' = driver_modify(backend, h.id, d, interest, mode, outcome)
        /\ fault' = (fault \/ ~validate(backend, h.id, d))
        /\ table' = SettledModify(table, i, interest, mode, done)
        /\ Returns("modify", h, StatusOf(done))
        /\ UNCHANGED <<owner, next_poll_id, others, open, handles>>

------------------------------------------------------------------------------
(* Delete.                                                                 *)

DeleteRejection(h) ==
    IF require_owner(h) THEN prepare_registration_retire(table, h.id, TRUE)
                        ELSE "WrongPoller"

DeleteRejected(h) ==
    /\ DeleteRejection(h) # "Ok"
    /\ Returns("delete", h, DeleteRejection(h))
    /\ Unmoved

DeleteCall(h, outcome) ==
    LET i == parts(h.id).index
        d == table.slots[i].entry.descriptor
        done == Validated(backend, h.id, d, outcome)
    IN  /\ DeleteRejection(h) = "Ok"
        /\ backend' = driver_delete(backend, h.id, d, outcome)
        /\ fault' = (fault \/ ~validate(backend, h.id, d))
        /\ table' = SettledDelete(table, i, done)
        /\ open' = IF done \in {"Success", "Applied"}
                   THEN Dropped(open, table, i) ELSE open
        /\ Returns("delete", h, StatusOf(done))
        /\ UNCHANGED <<owner, next_poll_id, others, handles>>

------------------------------------------------------------------------------
(* ScriptedPoll::establish_disarmed: a one-shot registration was delivered. *)

DisarmRejection(h) ==
    CASE ~require_owner(h) -> "WrongPoller"
      [] require_owner(h) /\ binding(table, h.id, FALSE) # "Ok" ->
            binding(table, h.id, FALSE)
      [] require_owner(h) /\ binding(table, h.id, FALSE) = "Ok" ->
            IF entry(table, h.id).mode # "OneShot" THEN "Invariant" ELSE "Ok"

DisarmRejected(h) ==
    /\ DisarmRejection(h) # "Ok"
    /\ Returns("disarm", h, DisarmRejection(h))
    /\ Unmoved

\* The backend refuses what is not a registered one-shot, and that is a fault.
BackendDisarms(h) ==
    LET b == backend[h.id]
    IN  /\ validate(backend, h.id, entry(table, h.id).descriptor)
        /\ b.state \in {"Armed", "Disarmed"} /\ b.mode = "OneShot"

\* apply_disarm refuses a second disarm after the backend accepted it.
EstablishDisarmed(h) ==
    LET i == decode(h.id).index
        refused == DisarmRefused(table, i)
    IN  /\ DisarmRejection(h) = "Ok"
        /\ fault' = (fault \/ ~BackendDisarms(h))
        /\ backend' = IF BackendDisarms(h)
                      THEN [backend EXCEPT ![h.id].state = "Disarmed"]
                      ELSE backend
        /\ table' = IF BackendDisarms(h) /\ ~refused
                    THEN apply_disarm(table, i, "Applied") ELSE table
        /\ Returns("disarm", h, IF BackendDisarms(h) /\ ~refused
                                THEN "Ok" ELSE "Invariant")
        /\ UNCHANGED <<owner, next_poll_id, others, open, handles>>

------------------------------------------------------------------------------
(* Another poller of the process makes its first registration.             *)

OtherPoller ==
    /\ next_poll_id < PollIdMax
    /\ others' = others \cup {next_poll_id}
    /\ next_poll_id' = next_poll_id + 1
    /\ Returns("other", None, "Ok")
    /\ UNCHANGED <<table, owner, backend, fault, open, handles>>

Register ==
    \E interest \in InterestRequests :
        \/ RegisterInvalid(interest)
        \/ RegisterCannotDup(interest)
        \/ \E d \in Descriptors :
              \/ RegisterNoPermit(d, interest)
              \/ RegisterNoOwner(d, interest)
              \/ \E key \in Keys, mode \in ModeRequests, outcome \in Outcomes :
                    RegisterCall(d, key, interest, mode, outcome)

Modify ==
    \E h \in Presented, interest \in InterestRequests :
        \/ ModifyRejected(h, interest)
        \/ \E mode \in ModeRequests, outcome \in Outcomes :
                 ModifyCall(h, interest, mode, outcome)

Delete ==
    \E h \in Presented :
        \/ DeleteRejected(h)
        \/ \E outcome \in Outcomes : DeleteCall(h, outcome)

Disarm == \E h \in Presented : DisarmRejected(h) \/ EstablishDisarmed(h)

Next == Register \/ Modify \/ Delete \/ Disarm \/ OtherPoller

Spec == Init /\ [][Next]_vars

------------------------------------------------------------------------------
(* Properties.                                                             *)

\* Every variable has its type, and only pushed slots have a generation.
TypeOK ==
    /\ table \in Table
    /\ SlotsPushed(table)
    /\ owner \in 0..PollIdMax
    /\ next_poll_id \in PollIds
    /\ others \subseteq PollIds
    /\ backend \in [Ids -> BackendEntry \cup {None}]
    /\ fault \in BOOLEAN
    /\ open \subseteq DupFds
    /\ handles \subseteq Registration

\* The intrusive free list (table_retire.rs retire, table_reserve.rs
\* reserve_with) is a finite chain without repetition that holds exactly the
\* reusable slots: none is lost, none is in use, none is past its last
\* generation.
FreeListSound == HasFreeStack(table)

\* What fresh_permit tells a caller is the truth: `exhausted' counts the slots
\* retired for good, Capacity means every slot is live or retired for good and
\* one is live, and RegistrationSpaceExhausted means that none ever will be.
CapacityHonest ==
    /\ ExhaustedCounted(table)
    /\ result.status = "Capacity" =>
          /\ \A i \in Index : i < table.len /\ ~Vacant(table, i)
          /\ \E i \in Index : table.slots[i].entry # None
    /\ result.status = "RegistrationSpaceExhausted" =>
          \A i \in Index : Spent(table, i)

\* The internal error Error::Invariant never reaches a caller, except for the
\* poll identities that ran out and for a one-shot delivery that
\* establish_disarmed was asked to repeat or to make up.
NoInvariantError ==
    result.status = "Invariant" =>
        \/ result.op = "register" /\ CannotAssign
        \/ result.op = "disarm"

\* The driver is only ever called with an id it was given by register, and with
\* the descriptor that id was registered with (ScriptedDriver records a fault).
NoDriverFault == ~fault

\* The poller's table and the backend agree on every handle, whatever the
\* commit statuses of the calls so far: same interest, mode, arm and descriptor
\* while it is registered, unknown in both, or gone from both.
TableBackendAgreement ==
    \A h \in handles :
        LET b == backend[h.id]
            s == state(table, h.id)
        IN  /\ b # None
            /\ s = "Stale" <=> b.state = "Absent"
            /\ s = "Uncertain" <=> b.state = "Unknown"
            /\ s \in {"Armed", "Disarmed"} =>
                  /\ b.state = s
                  /\ b.interest = entry(table, h.id).interest
                  /\ b.mode = entry(table, h.id).mode
                  /\ b.descriptor = entry(table, h.id).descriptor

\* Whatever the backend may hold, the caller has the handle to delete it with:
\* a failed register returns no handle only when nothing was installed.
NoOrphan ==
    \A id \in Ids :
        \/ backend[id] = None
        \/ backend[id].state = "Absent"
        \/ \E h \in handles : h.id = id /\ registration_state(h) # "Stale"

\* Each open duplicate belongs to exactly one live entry, and each live entry
\* that owns its descriptor has it open (descriptor.rs Drop, the early returns
\* of register, retire).
DuplicatesHeldOnce ==
    LET occupied == {i \in Index : table.slots[i].entry # None}
        fd(i) == table.slots[i].entry.descriptor
    IN  /\ open = {fd(i) : i \in occupied} \cap DupFds
        /\ \A i, j \in occupied : fd(i) = fd(j) /\ is_owned(fd(i)) => i = j

\* register never gives out a handle that somebody already holds, of this
\* poller or of another one: slot reuse, generation wrap and identity
\* assignment never alias.
FreshHandle ==
    [][result'.op = "register" /\ result'.target # None =>
           result'.target \notin Presented]_vars

\* Once stale, a handle stays stale: no later occupant of its slot answers to
\* it.
StaleForever ==
    [][\A h \in handles :
           registration_state(h) = "Stale" => registration_state(h)' = "Stale"]_vars

\* A call changes the poller's state, and the backend's, for its own target
\* only.
OnlyTargetChanges ==
    [][\A h \in handles : h # result'.target =>
           /\ registration_state(h)' = registration_state(h)
           /\ backend'[h.id] = backend[h.id]]_vars

\* A handle of another poller is refused and moves nothing, although its id may
\* be the id of a live registration of this one.
ForeignInert ==
    [][result'.target # None /\ result'.target \notin handles' =>
           /\ result'.status = "WrongPoller"
           /\ UNCHANGED <<table, backend, open, handles>>]_vars

\* The mutation machine implements the life every handle is promised.
LifeOf(h) ==
    LET e == entry(table, h.id)
        s == state(table, h.id)
    IN  IF h \notin handles
        THEN [phase |-> "Unissued", interest |-> {}, mode |-> "None"]
        ELSE IF s \in {"Stale", "Uncertain"}
             THEN [phase |-> s, interest |-> {}, mode |-> "None"]
             ELSE [phase |-> s, interest |-> e.interest, mode |-> e.mode]

L == INSTANCE Lifecycle WITH
        Handles  <- Registration,
        Capacity <- Limit,
        Interest <- {"READABLE", "WRITABLE"},
        Mode     <- Modes,
        life     <- [h \in Registration |-> LifeOf(h)]

ImplementsLifecycle == L!Spec

------------------------------------------------------------------------------
(* The inductive invariant behind these properties.                        *)

\* Identities are handed out once, in order.
OwnersDistinct ==
    /\ owner < next_poll_id
    /\ \A p \in others : p < next_poll_id
    /\ owner \notin others

\* A handle of this poller names a generation its slot has reached.
HandlesReached ==
    \A h \in handles :
        /\ owner # 0 /\ h.owner = owner
        /\ decode(h.id).generation <=
              table.slots[decode(h.id).index].generation

\* Whoever occupies a slot was announced to a caller.
EntriesIssued ==
    \A i \in Index : table.slots[i].entry # None =>
        [owner |-> owner, id |-> encode(i, table.slots[i].generation)]
            \in handles

\* What the backend holds for an id whose slot has the entry e, or None.
Matches(b, e) ==
    /\ b # None
    /\ IF e = None THEN b.state = "Absent"
       ELSE /\ b.descriptor = e.descriptor
            /\ IF e.state = "Uncertain" THEN b.state = "Unknown"
               ELSE /\ b.state = e.state
                    /\ b.interest = e.interest
                    /\ b.mode = e.mode

\* The backend has seen the generations reached, and agrees about each: those
\* passed are gone, the current one is as the table says.
BackendMatches(t, b) ==
    \A i \in Index, g \in 1..MAX_GENERATION :
        LET s == t.slots[i]
            x == b[encode(i, g)]
        IN  /\ g > s.generation => x = None
            /\ g < s.generation => Matches(x, None)
            /\ g = s.generation => Matches(x, s.entry)

Inv == /\ TypeOK
       /\ TableInv(table)
       /\ OwnersDistinct
       /\ HandlesReached
       /\ EntriesIssued
       /\ BackendMatches(table, backend)
       /\ NoDriverFault
==============================================================================
