----------------------------- MODULE ModelSequence -----------------------------
(***************************************************************************)
(* crates/zio-testkit/src/model_sequence*.rs, with the script of           *)
(* src/test_support/: random programs are generated, run against a         *)
(* scripted poller and compared, action by action, with a small reference  *)
(* model.  The repository runs 64 seeds of 64 actions; here the random     *)
(* choices are nondeterministic, so every program is run.                  *)
(*                                                                         *)
(* One step generates an action, executes it on the poller of Mutation and *)
(* verifies the result.  A second poller, the stranger, registered once    *)
(* when the run was set up and is only ever probed.  The logs of backend   *)
(* calls are compared after every action, so the entries of the current    *)
(* action are all that is kept of them.  Coverage is a report and left out.*)
(***************************************************************************)
EXTENDS Mutation, Sequences

CONSTANT StrangerFd    \* the descriptor the stranger poller duplicated

\* The stranger has registered, so one identity has been given out, and the
\* u64 identities of the process do not end with the next.
ASSUME StrangerAssumption == /\ StrangerFd \in Descriptors \ DupFds
                             /\ PollIdMax > 2
                             /\ Keys # {}

VARIABLES
    script,     \* ScriptedDriver: planned steps left, and its script fault
    calls,      \* ScriptedDriver::calls of the current action
    model,      \* ReferenceModel
    generator,  \* Generator: the state it believes the poller to be in
    diverged    \* run_program has stopped with a Divergence

sequence_vars == <<vars, script, calls, model, generator, diverged>>

\* Generator::outcome, interest and mode draw any of these.
drawn_outcome == {"Success", "NotApplied", "Applied", "Unknown"}
drawn_interest == (SUBSET {"READABLE", "WRITABLE"}) \ {{}}
drawn_mode == {"Level", "OneShot"}

------------------------------------------------------------------------------
(* The scripted driver.                                                    *)

mutation_step(kind, outcome) ==
    IF kind \in {"Register", "Modify", "Delete"}
    THEN <<[operation |-> kind, outcome |-> outcome]>> ELSE <<>>

\* The script from this action on: setup plans the steps of all actions before
\* the first one runs, those of later actions are behind this one's.
planned(kind, outcome) == script.steps \o mutation_step(kind, outcome)

\* next: Exhausted and Mismatch are structural failures.
next_fails(steps, operation) ==
    steps = <<>> \/ Head(steps).operation # operation
next(steps, operation) ==
    IF next_fails(steps, operation) THEN "Unknown" ELSE Head(steps).outcome
popped(steps, operation) ==
    [steps |-> IF steps = <<>> THEN steps ELSE Tail(steps),
     fault |-> script.fault \/ next_fails(steps, operation)]
unpopped(steps) == [script EXCEPT !.steps = steps]

finish == ~fault /\ ~script.fault /\ script.steps = <<>>

MutationCall ==
    [call : {"Register"}, registration : Ids, key : Keys,
     interest : drawn_interest, mode : Modes]
    \cup [call : {"Modify"}, registration : Ids,
          previous_interest : drawn_interest, previous_mode : Modes,
          previous_arm : {"Armed", "Disarmed"},
          desired_interest : drawn_interest, desired_mode : Modes]
    \cup [call : {"Delete"}, registration : Ids, interest : drawn_interest,
          state : RegistrationStates]
    \cup [call : {"EstablishDisarmed"}, registration : Ids]

\* The requests the poller makes of its driver, from its own table.
RegisterRequest(id, key, interest, mode) ==
    [call |-> "Register", registration |-> id, key |-> key,
     interest |-> interest, mode |-> mode]
ModifyRequest(id, e, interest, mode) ==
    [call |-> "Modify", registration |-> id, previous_interest |-> e.interest,
     previous_mode |-> e.mode, previous_arm |-> e.state,
     desired_interest |-> interest, desired_mode |-> mode]
DeleteRequest(id, e) ==
    [call |-> "Delete", registration |-> id, interest |-> e.interest,
     state |-> e.state]
Disarmed(id) == [call |-> "EstablishDisarmed", registration |-> id]

\* ScriptedBackendState, which names no descriptor; the arm is the state.
scripted(s, interest, mode) ==
    IF s \in {"Armed", "Disarmed"}
    THEN [state |-> s, interest |-> interest, mode |-> mode]
    ELSE [state |-> s]

backend_state(id) ==
    LET b == backend[id]
    IN  IF b = None THEN [state |-> "Absent"]
                    ELSE scripted(b.state, b.interest, b.mode)

------------------------------------------------------------------------------
(* The reference model.                                                    *)

ExpectedState == {"Armed", "Disarmed", "Uncertain"}
ModelEntry == [registration : Registration, interest : drawn_interest,
               mode : Modes, state : ExpectedState]

\* None is a value of its own.
ASSUME ModelNoneDistinct == None \notin ModelEntry

\* Entry::backend: what the backend should hold for the active entry.
entry_backend(a) ==
    scripted(IF a.state = "Uncertain" THEN "Unknown" ELSE a.state,
             a.interest, a.mode)

new_model == [active |-> None, retired |-> <<>>, issued |-> {}, calls |-> <<>>]

stale == model.retired[Len(model.retired)]

\* record_register and complete_register: None if the outcome was NotApplied.
register_model(id, key, interest, mode, outcome, registration) ==
    [model EXCEPT
        !.issued = @ \cup {id},
        !.calls = <<RegisterRequest(id, key, interest, mode)>>,
        !.active = IF outcome = "NotApplied" THEN None
                   ELSE [registration |-> registration, interest |-> interest,
                         mode |-> mode,
                         state |-> IF outcome = "Unknown" THEN "Uncertain"
                                                          ELSE "Armed"]]

disarm_model ==
    [model EXCEPT !.calls = <<Disarmed(model.active.registration.id)>>,
                  !.active.state = "Disarmed"]

record_modify(interest, mode) ==
    <<ModifyRequest(model.active.registration.id, model.active, interest, mode)>>

modify_model(interest, mode, outcome) ==
    [model EXCEPT
        !.calls = record_modify(interest, mode),
        !.active = CASE outcome \in {"Success", "Applied"} ->
                           [@ EXCEPT !.interest = interest, !.mode = mode,
                                     !.state = "Armed"]
                     [] outcome = "NotApplied" -> @
                     [] outcome = "Unknown" ->
                           [@ EXCEPT !.state = "Uncertain"]]

record_delete ==
    <<DeleteRequest(model.active.registration.id, model.active)>>

\* Mutant: a deletion that failed after taking effect keeps the handle.
delete_model_AppliedKept(outcome) ==
    [model EXCEPT
        !.calls = record_delete,
        !.retired = IF outcome = "Success"
                    THEN Append(@, model.active.registration) ELSE @,
        !.active = CASE outcome = "Success" -> None
                     [] outcome \in {"NotApplied", "Applied"} -> @
                     [] outcome = "Unknown" ->
                           [@ EXCEPT !.state = "Uncertain"]]

delete_model(outcome) ==
    [model EXCEPT
        !.calls = record_delete,
        !.retired = IF outcome \in {"Success", "Applied"}
                    THEN Append(@, model.active.registration) ELSE @,
        !.active = CASE outcome \in {"Success", "Applied"} -> None
                     [] outcome = "NotApplied" -> @
                     [] outcome = "Unknown" ->
                           [@ EXCEPT !.state = "Uncertain"]]

idle_model == [model EXCEPT !.calls = <<>>]

expected_backend(id) ==
    IF model.active # None /\ model.active.registration.id = id
    THEN entry_backend(model.active) ELSE [state |-> "Absent"]

------------------------------------------------------------------------------
(* The stranger, as setup left it: one armed level registration, under the *)
(* id that the first registration of the other poller gets as well.        *)

stranger_id == encode(0, 1)
stranger_registration == [owner |-> 1, id |-> stranger_id]
stranger_key == CHOOSE key \in Keys : TRUE

stranger_table ==
    reserve_fresh(new, registered(StrangerFd, stranger_key, {"READABLE"}, "Level"))
stranger_backend ==
    driver_register([id \in Ids |-> None], stranger_id, StrangerFd,
                    {"READABLE"}, "Level", "Success")

Stranger == INSTANCE Mutation WITH
                table <- stranger_table, owner <- 1, others <- {owner} \ {0},
                backend <- stranger_backend, fault <- FALSE,
                open <- {StrangerFd}, handles <- {stranger_registration}

------------------------------------------------------------------------------
(* verify, after every action.                                             *)

verify_calls == calls = model.calls

verify_active ==
    model.active # None =>
        registration_state(model.active.registration) = model.active.state

verify_backend ==
    \A id \in model.issued : backend_state(id) = expected_backend(id)

verify_retired ==
    \A k \in 1..Len(model.retired) :
        registration_state(model.retired[k]) = "Stale"

\* Its log and its script are not looked at here: the run makes no calls of the
\* stranger but the probes, and each of those is checked to be refused, before
\* the driver.
verify_stranger ==
    LET b == stranger_backend[stranger_id]
    IN  /\ Stranger!registration_state(stranger_registration) = "Armed"
        /\ scripted(b.state, b.interest, b.mode) =
              scripted("Armed", {"READABLE"}, "Level")

verify == /\ verify_calls
          /\ verify_active
          /\ verify_backend
          /\ verify_retired
          /\ verify_stranger

------------------------------------------------------------------------------
(* The generator: which actions next_action may draw, and what observe     *)
(* makes of them.                                                          *)

Registered == generator.state \in {"Armed", "Disarmed"}

draws(kind) ==
    CASE kind \in {"Register", "RegisterInvalid"} -> generator.state = "Vacant"
      [] kind \in {"Delete", "ProbeWrongPoller"}  -> generator.state # "Vacant"
      [] kind \in {"Modify", "ModifyInvalid"}     -> Registered
      [] kind = "Disarm" ->
            generator.state = "Armed" /\ generator.mode = "OneShot"
      [] kind = "ProbeStale" ->
            generator.state # "Vacant" /\ generator.has_stale

\* What a mutation with this outcome leaves, if `applied' is its effect.
Settled(outcome, applied) ==
    CASE outcome \in {"Success", "Applied"} -> applied
      [] outcome = "NotApplied" -> generator
      [] outcome = "Unknown"    -> [generator EXCEPT !.state = "Uncertain"]

Armed(mode) == [generator EXCEPT !.state = "Armed", !.mode = mode]
Emptied == [generator EXCEPT !.state = "Vacant", !.has_stale = TRUE]

\* Mutant: a modification keeps the arm of a disarmed registration.
observe_NotRearmed(kind, outcome, mode) ==
    CASE kind = "Register" -> Settled(outcome, Armed(mode))
      [] kind = "Modify" -> Settled(outcome, [generator EXCEPT !.mode = mode])
      [] kind = "Delete" -> Settled(outcome, Emptied)
      [] kind = "Disarm" -> [generator EXCEPT !.state = "Disarmed"]
      [] kind \in {"RegisterInvalid", "ModifyInvalid", "ProbeStale",
                   "ProbeWrongPoller"} -> generator

observe(kind, outcome, mode) ==
    CASE kind \in {"Register", "Modify"} -> Settled(outcome, Armed(mode))
      [] kind = "Delete" -> Settled(outcome, Emptied)
      [] kind = "Disarm" -> [generator EXCEPT !.state = "Disarmed"]
      [] kind \in {"RegisterInvalid", "ModifyInvalid", "ProbeStale",
                   "ProbeWrongPoller"} -> generator

\* generate and run_program: nothing runs after a divergence.
Generated(kind, outcome, mode) ==
    /\ ~diverged
    /\ draws(kind)
    /\ generator' = observe(kind, outcome, mode)

\* The action's own expectations, then verify on the state it left.
Checked(expected) == diverged' = ~(expected /\ verify')

------------------------------------------------------------------------------
(* The actions: execute and verify.                                        *)

setup ==
    /\ table = new
    /\ owner = 0
    /\ next_poll_id = 2
    /\ others = {1}
    /\ backend = [id \in Ids |-> None]
    /\ fault = FALSE
    /\ open = {}
    /\ handles = {}
    /\ result = [op |-> "new", target |-> None, status |-> "Ok"]
    /\ script = [steps |-> <<>>, fault |-> FALSE]
    /\ calls = <<>>
    /\ model = new_model
    /\ generator = [state |-> "Vacant", mode |-> "Level", has_stale |-> FALSE]
    /\ diverged = FALSE

\* An action that makes no backend call leaves the script and the logs alone.
NoCall(kind, outcome) == /\ script' = unpopped(planned(kind, outcome))
                         /\ calls' = <<>>
                         /\ model' = idle_model

\* A drawn mutation that the poller refuses is a divergence: the error is none
\* the script planned.
Refused(kind, outcome) == NoCall(kind, outcome) /\ diverged' = TRUE

\* What the calls of the current action should have returned: an error with
\* the planned commit status, or none.
expect_mutation_error(operation, outcome) ==
    result'.op = operation /\ result'.status = outcome
expect_mutation_result(operation, outcome) ==
    IF outcome = "Success" THEN result'.op = operation /\ result'.status = "Ok"
                           ELSE expect_mutation_error(operation, outcome)

\* A failed deletion gives the very handle back.
expect_delete_error(outcome, expected) ==
    result'.target = expected /\ expect_mutation_error("delete", outcome)

\* The handle has the id the driver was called with, and NotApplied has none.
successful_register(expected) ==
    expect_mutation_result("register", "Success") /\ result'.target.id = expected
failed_register(outcome, expected) ==
    /\ expect_mutation_error("register", outcome)
    /\ IF outcome = "NotApplied" THEN result'.target = None
       ELSE result'.target # None /\ result'.target.id = expected

\* The id of the driver's last call, if that was the registration just made.
last_register(key, interest, mode) ==
    LET c == calls'[Len(calls')]
    IN  /\ c.call = "Register"
        /\ <<c.key, c.interest, c.mode>> = <<key, interest, mode>>
last_register_id == calls'[Len(calls')].registration

\* The three calls of a probe are refused for the same reason.
expect_stale(state_, modified, deleted) ==
    {state_, modified, deleted} = {"Stale"}
expect_wrong(state_, modified, deleted) ==
    {state_, modified, deleted} = {"WrongPoller"}

\* An id that was issued before is a divergence.
register_called(outcome, key, interest, mode) ==
    LET steps == planned("Register", outcome)
        done == next(steps, "Register")
        id == encode(Permit(table).index, Permit(table).generation)
    IN  /\ \E d \in DupFds : RegisterCall(d, key, interest, mode, done)
        /\ script' = popped(steps, "Register")
        /\ calls' = <<RegisterRequest(id, key, interest, mode)>>
        /\ model' = register_model(last_register_id, key, interest, mode,
                                   outcome, result'.target)
        /\ Checked(/\ model.active = None
                   /\ last_register(key, interest, mode)
                   /\ last_register_id \notin model.issued
                   /\ IF outcome = "Success"
                      THEN successful_register(last_register_id)
                      ELSE failed_register(outcome, last_register_id))

\* Why the poller would refuse to register.
register_refusal ==
    IF PermitStatus(table) = "Ok" /\ CannotAssign THEN "Invariant"
                                                   ELSE PermitStatus(table)

\* After a refusal the last call of the log is no Register, or one whose id was
\* issued before.  The bounded generations of the table end a run where the
\* code's 64 actions do.
register(outcome, key, interest, mode) ==
    /\ Generated("Register", outcome, mode)
    /\ register_refusal # "RegistrationSpaceExhausted"
    /\ IF register_refusal = "Ok"
       THEN register_called(outcome, key, interest, mode)
       ELSE /\ \E d \in DupFds : Refuses(d, register_refusal)
            /\ Refused("Register", outcome)

register_invalid ==
    /\ Generated("RegisterInvalid", "Success", "Level")
    /\ RegisterInvalid({})
    /\ NoCall("RegisterInvalid", "Success")
    /\ Checked(/\ model.active = None
               /\ result'.target = None
               /\ result'.status = "InvalidInterest")

disarm_called(h) ==
    /\ EstablishDisarmed(h)
    /\ script' = unpopped(planned("Disarm", "Success"))
    /\ calls' = IF BackendDisarms(h) THEN <<Disarmed(h.id)>> ELSE <<>>
    /\ model' = disarm_model
    /\ Checked(/\ model.active.mode = "OneShot"
               /\ model.active.state = "Armed"
               /\ result'.status = "Ok")

disarm ==
    LET h == model.active.registration
    IN  /\ Generated("Disarm", "Success", "Level")
        /\ IF DisarmRejection(h) = "Ok" THEN disarm_called(h)
           ELSE DisarmRejected(h) /\ Refused("Disarm", "Success")

modify_called(h, outcome, interest, mode) ==
    LET steps == planned("Modify", outcome)
        e == entry(table, h.id)
    IN  /\ ModifyCall(h, interest, mode, next(steps, "Modify"))
        /\ script' = IF validate(backend, h.id, e.descriptor)
                     THEN popped(steps, "Modify") ELSE unpopped(steps)
        /\ calls' = <<ModifyRequest(h.id, e, interest, mode)>>
        /\ model' = modify_model(interest, mode, outcome)
        /\ Checked(/\ model.active.state # "Uncertain"
                   /\ expect_mutation_result("modify", outcome))

modify(outcome, interest, mode) ==
    LET h == model.active.registration
    IN  /\ Generated("Modify", outcome, mode)
        /\ IF ModifyRejection(h, interest) = "Ok"
           THEN modify_called(h, outcome, interest, mode)
           ELSE ModifyRejected(h, interest) /\ Refused("Modify", outcome)

modify_invalid ==
    /\ Generated("ModifyInvalid", "Success", "Level")
    /\ ModifyRejected(model.active.registration, {})
    /\ NoCall("ModifyInvalid", "Success")
    /\ Checked(result'.status = "InvalidInterest")

delete_called(h, outcome) ==
    LET steps == planned("Delete", outcome)
        e == entry(table, h.id)
    IN  /\ DeleteCall(h, next(steps, "Delete"))
        /\ script' = IF validate(backend, h.id, e.descriptor)
                     THEN popped(steps, "Delete") ELSE unpopped(steps)
        /\ calls' = <<DeleteRequest(h.id, e)>>
        /\ model' = delete_model(outcome)
        /\ Checked(IF outcome = "Success"
                   THEN expect_mutation_result("delete", outcome)
                   ELSE expect_delete_error(outcome, h))

delete(outcome) ==
    LET h == model.active.registration
    IN  /\ Generated("Delete", outcome, "Level")
        /\ IF DeleteRejection(h) = "Ok" THEN delete_called(h, outcome)
           ELSE DeleteRejected(h) /\ Refused("Delete", outcome)

\* The last retired handle: its slot may have a new occupant by now.
probe_stale ==
    /\ Generated("ProbeStale", "Success", "Level")
    /\ UNCHANGED vars
    /\ NoCall("ProbeStale", "Success")
    /\ Checked(expect_stale(registration_state(stale),
                            ModifyRejection(stale, {"READABLE"}),
                            DeleteRejection(stale)))

\* The active handle, presented to the stranger.
probe_wrong_poller ==
    LET h == model.active.registration
    IN  /\ Generated("ProbeWrongPoller", "Success", "Level")
        /\ UNCHANGED vars
        /\ NoCall("ProbeWrongPoller", "Success")
        /\ Checked(expect_wrong(Stranger!registration_state(h),
                                Stranger!ModifyRejection(h, {"WRITABLE"}),
                                Stranger!DeleteRejection(h)))

execute ==
    \/ \E outcome \in drawn_outcome, key \in Keys, interest \in drawn_interest,
          mode \in drawn_mode : register(outcome, key, interest, mode)
    \/ register_invalid
    \/ disarm
    \/ \E outcome \in drawn_outcome, interest \in drawn_interest,
          mode \in drawn_mode : modify(outcome, interest, mode)
    \/ modify_invalid
    \/ \E outcome \in drawn_outcome : delete(outcome)
    \/ probe_stale
    \/ probe_wrong_poller

SequenceSpec == setup /\ [][execute]_sequence_vars

------------------------------------------------------------------------------
(* Properties.                                                             *)

\* run_program accepts every prefix of every program the generator can draw:
\* each result, handle, backend call and state is the one the reference model
\* expects, no precondition of an action is violated, and each planned step is
\* consumed by the action it was planned for, by no other and once.
NeverDiverges == ~diverged /\ finish

\* The generator never runs the poller: what it believes after observing the
\* planned outcomes is nevertheless what the poller's table holds, so its
\* draws meet the preconditions of the actions.
GeneratorInStep ==
    LET occupied == {i \in Index : table.slots[i].entry # None}
    IN  /\ generator.state = "Vacant" <=> occupied = {}
        /\ \A i \in occupied :
              LET e == table.slots[i].entry
              IN  /\ generator.state = e.state
                  /\ e.state # "Uncertain" => generator.mode = e.mode
        /\ generator.has_stale <=> model.retired # <<>>

\* The state a request ascribes to its registration, which a native driver
\* derives its changes from, is the state the backend has it in: never before
\* registered, as the modification finds it, uncertain exactly if nobody knows.
RequestTrue(c) ==
    LET b == backend[c.registration]
    IN  CASE c.call = "Register" -> b = None
          [] c.call = "Modify" ->
                /\ b # None
                /\ b.state = c.previous_arm
                /\ b.interest = c.previous_interest
                /\ b.mode = c.previous_mode
          [] c.call = "Delete" ->
                /\ b # None
                /\ IF b.state = "Unknown" THEN c.state = "Uncertain"
                   ELSE b.state = c.state /\ b.interest = c.interest
          [] c.call = "EstablishDisarmed" ->
                b # None /\ b.state = "Armed" /\ b.mode = "OneShot"

\* The poller makes its requests from its own table (mutation/machine.rs modify,
\* delete), which it settled when earlier calls returned: every request is true
\* of the backend at the moment of the call, whatever failed before.
RequestsTrue ==
    [][\A n \in 1..Len(calls') : RequestTrue(calls'[n])]_sequence_vars

------------------------------------------------------------------------------
(* The inductive invariant behind these properties.                        *)

\* The reference model's entry of the registration in slot i.
ModelOf(t, o, i) ==
    [registration |-> [owner |-> o, id |-> encode(i, t.slots[i].generation)],
     interest |-> t.slots[i].entry.interest, mode |-> t.slots[i].entry.mode,
     state |-> t.slots[i].entry.state]

\* The active entry is the only one the poller's table has, if it has one.
Follows(t, o, active) ==
    IF active = None THEN \A i \in Index : t.slots[i].entry = None
    ELSE \E i \in Index :
            /\ t.slots[i].entry # None
            /\ active = ModelOf(t, o, i)
            /\ \A j \in Index : j # i => t.slots[j].entry = None

\* The ids issued are of generations their slots have reached.
IssuedReached(t, issued) ==
    \A id \in issued : \E i \in Index, g \in 1..MAX_GENERATION :
        id = encode(i, g) /\ g <= t.slots[i].generation

\* The poller gave out the retired handles and has retired them too.
RetiredStale(t, given, retired) ==
    \A n \in 1..Len(retired) :
        retired[n] \in given /\ state(t, retired[n].id) = "Stale"

\* What the generator believes is what the model has.
Believes(g, m) ==
    /\ g \in [state : ExpectedState \cup {"Vacant"}, mode : drawn_mode,
               has_stale : BOOLEAN]
    /\ IF m.active = None THEN g.state = "Vacant"
       ELSE /\ g.state = m.active.state
            /\ g.state # "Uncertain" => g.mode = m.active.mode
    /\ g.has_stale <=> m.retired # <<>>

\* The run, between two actions.
SequenceInv ==
    /\ Inv
    /\ others = {1}
    /\ owner = 0 => next_poll_id = 2
    /\ script = [steps |-> <<>>, fault |-> FALSE]
    /\ verify_calls
    /\ model \in [active : ModelEntry \cup {None}, retired : Seq(Registration),
                  issued : SUBSET Ids, calls : Seq(MutationCall)]
    /\ Follows(table, owner, model.active)
    /\ IssuedReached(table, model.issued)
    /\ RetiredStale(table, handles, model.retired)
    /\ Believes(generator, model)
    /\ ~diverged
==============================================================================
