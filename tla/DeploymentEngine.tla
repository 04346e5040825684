--------------------------- MODULE DeploymentEngine ---------------------------
(***************************************************************************)
(* The deployment engine of packages/deployment: DeploymentEngine.execute  *)
(* walks every target of a plan through drain, stage, activate, health and *)
(* commit, persists the commit decision ("finalizing"), and finalizes; a   *)
(* failure before the decision rolls the recorded targets back in reverse. *)
(* Each journal write is one step, so the process may die between any two  *)
(* writes and between a driver's effect and the write that records it.     *)
(*                                                                         *)
(* What a driver does is left to the modules that extend this one: a call  *)
(* is opened by Invoke, a driver step sets its status to "ok" or "err",    *)
(* and the engine then consumes the answer.                                *)
(***************************************************************************)
EXTENDS Naturals, FiniteSets

CONSTANTS N,           \* number of artifacts in plan.artifacts
          MaxAttempt   \* bound: restarts of the plan explored

ASSUME NAssumption == N \in Nat \ {0}
ASSUME MaxAttemptAssumption == MaxAttempt \in Nat \ {0}

VARIABLES run,      \* deployment_runs.state, "none" while the row is absent
          attempt,  \* deployment_runs.attempt
          step,     \* deployment_steps.state of the current attempt, by ordinal
          pc,       \* which loop of the engine is running
          todo,     \* ordinals that loop has still to visit
          failed,   \* rollbackErrors.length > 0 in failAndRollback
          call      \* the driver invocation in flight

engineVars == <<run, attempt, step, pc, todo, failed, call>>

Ordinals == 1..N
Attempts == 0..MaxAttempt

RunStates == {"none", "planned", "draining", "staging", "activating",
              "health-checking", "finalizing", "committed", "rolling-back",
              "rolled-back", "failed"}
StepStates == {"none", "pending", "drained", "staged", "activated", "healthy",
               "committed", "finalized", "rolled-back"}

ForwardLoops == {"drain", "stage", "activate", "health", "commit"}
DriverLoops == ForwardLoops \cup {"finalize", "rollback", "recover"}
Loops == DriverLoops \cup {"idle", "pending", "restart"}

\* The driver method that a loop calls.
Method(loop) == IF loop = "recover" THEN "rollback" ELSE loop
Methods == ForwardLoops \cup {"finalize", "rollback"}

NoCall == [status |-> "none", target |-> 1, method |-> "drain"]
Calls == [status : {"none", "open", "ok", "err"}, target : Ordinals, method : Methods]

\* Mutant: a target whose activation was not recorded yet is not rolled back.
needsRollbackAfterActivation(state) == state \in {"activated", "healthy", "committed"}

needsRollback(state) == state \in {"staged", "activated", "healthy", "committed"}

\* journal.steps(plan.id).filter(needsRollback)
ToRollBack == {i \in Ordinals : needsRollback(step[i])}

\* Mutant: the loop's name is written where its step state belongs.
RecordedAsMethod(loop) == loop

\* The step state recorded once the driver method of a loop has succeeded.
Recorded(loop) ==
  CASE loop = "drain" -> "drained"
    [] loop = "stage" -> "staged"
    [] loop = "activate" -> "activated"
    [] loop = "health" -> "healthy"
    [] loop = "commit" -> "committed"
    [] loop = "finalize" -> "finalized"
    [] OTHER -> "rolled-back"

\* Mutant: the commit decision is persisted before the targets commit.
FollowingDecidesEarly(loop) ==
  CASE loop = "pending" -> [pc |-> "drain", run |-> "draining"]
    [] loop = "drain" -> [pc |-> "stage", run |-> "staging"]
    [] loop = "stage" -> [pc |-> "activate", run |-> "activating"]
    [] loop = "activate" -> [pc |-> "health", run |-> "health-checking"]
    [] loop = "health" -> [pc |-> "commit", run |-> "finalizing"]
    [] OTHER -> [pc |-> "finalize", run |-> "finalizing"]

\* The loop that follows a completed one, and the run state written on entry.
\* The commit loop runs under "health-checking": it writes no state of its own.
Following(loop) ==
  CASE loop = "pending" -> [pc |-> "drain", run |-> "draining"]
    [] loop = "drain" -> [pc |-> "stage", run |-> "staging"]
    [] loop = "stage" -> [pc |-> "activate", run |-> "activating"]
    [] loop = "activate" -> [pc |-> "health", run |-> "health-checking"]
    [] loop = "health" -> [pc |-> "commit", run |-> "health-checking"]
    [] OTHER -> [pc |-> "finalize", run |-> "finalizing"]

\* Mutant: rollback walks the targets in plan order.
IsNextInPlanOrder(i) == i \in todo /\ \A j \in todo : i <= j

\* Forward loops go through plan.artifacts in order, rollbacks in reverse.
IsNext(i) ==
  /\ i \in todo
  /\ IF pc \in {"rollback", "recover"} THEN \A j \in todo : j <= i
                                       ELSE \A j \in todo : i <= j

EngineInit ==
  /\ run = "none" /\ attempt = 0
  /\ step = [i \in Ordinals |-> "none"]
  /\ pc = "idle" /\ todo = {} /\ failed = FALSE
  /\ call = NoCall

-----------------------------------------------------------------------------
(* execute(plan): journal.begin and the branch on the state it returns. *)

StartAttempt ==
  /\ run' = "planned" /\ attempt' = attempt + 1
  /\ step' = [i \in Ordinals |-> "none"]
  /\ pc' = "pending" /\ todo' = Ordinals
  /\ UNCHANGED <<failed, call>>

\* No row yet (journal.begin inserts it) or a cleanly rolled back one (restart).
ExecuteFresh ==
  /\ pc = "idle" /\ run \in {"none", "rolled-back"} /\ attempt < MaxAttempt
  /\ StartAttempt

ExecutePlanned ==
  /\ pc = "idle" /\ run = "planned"
  /\ pc' = "pending" /\ todo' = Ordinals
  /\ UNCHANGED <<run, attempt, step, failed, call>>

ExecuteFinalizing ==
  /\ pc = "idle" /\ run = "finalizing"
  /\ pc' = "finalize" /\ todo' = {i \in Ordinals : step[i] # "finalized"}
  /\ UNCHANGED <<run, attempt, step, failed, call>>

\* Mutant: a decided run is treated as an interrupted one.
ExecuteInterruptedEvenDecided ==
  /\ pc = "idle" /\ attempt < MaxAttempt
  /\ run \notin {"none", "planned", "rolled-back", "committed"}
  /\ run' = "rolling-back"
  /\ pc' = "recover" /\ todo' = ToRollBack
  /\ UNCHANGED <<attempt, step, failed, call>>

\* rollbackRecordedAttempt: an interrupted or failed attempt is undone first.
ExecuteInterrupted ==
  /\ pc = "idle" /\ attempt < MaxAttempt
  /\ run \notin {"none", "planned", "rolled-back", "finalizing", "committed"}
  /\ run' = "rolling-back"
  /\ pc' = "recover" /\ todo' = ToRollBack
  /\ UNCHANGED <<attempt, step, failed, call>>

\* A committed run is returned as it is.
ExecuteCommitted ==
  /\ pc = "idle" /\ run = "committed"
  /\ UNCHANGED engineVars

Execute == \/ ExecuteFresh \/ ExecutePlanned \/ ExecuteFinalizing
           \/ ExecuteInterrupted \/ ExecuteCommitted

-----------------------------------------------------------------------------
(* The loops of the engine. *)

RecordPending ==
  /\ pc = "pending"
  /\ \E i \in Ordinals :
       /\ IsNext(i)
       /\ step' = [step EXCEPT ![i] = "pending"]
       /\ todo' = todo \ {i}
  /\ UNCHANGED <<run, attempt, pc, failed, call>>

\* journal.transition on entry to the next phase, and the commit decision.
EnterLoop ==
  /\ pc \in ForwardLoops \cup {"pending"} /\ todo = {}
  /\ pc' = Following(pc).pc /\ run' = Following(pc).run
  /\ todo' = Ordinals
  /\ UNCHANGED <<attempt, step, failed, call>>

Invoke ==
  /\ pc \in DriverLoops /\ call.status = "none"
  /\ \E i \in Ordinals :
       /\ IsNext(i)
       /\ call' = [status |-> "open", target |-> i, method |-> Method(pc)]
  /\ UNCHANGED <<run, attempt, step, pc, todo, failed>>

RecordOk ==
  /\ call.status = "ok"
  /\ step' = [step EXCEPT ![call.target] = Recorded(pc)]
  /\ todo' = todo \ {call.target}
  /\ call' = NoCall
  /\ UNCHANGED <<run, attempt, pc, failed>>

\* failAndRollback: entered on the first error of a forward loop.
failAndRollback ==
  /\ call.status = "err" /\ pc \in ForwardLoops
  /\ run' = "rolling-back"
  /\ pc' = "rollback" /\ todo' = ToRollBack /\ failed' = FALSE
  /\ call' = NoCall
  /\ UNCHANGED <<attempt, step>>

\* Mutant: a failing rollback is retried for ever instead of being remembered.
RollbackErrorRetries ==
  /\ call.status = "err" /\ pc = "rollback"
  /\ call' = NoCall
  /\ UNCHANGED <<run, attempt, step, pc, todo, failed>>

\* It goes on past a rollback that fails, and remembers the failure.
RollbackError ==
  /\ call.status = "err" /\ pc = "rollback"
  /\ failed' = TRUE /\ todo' = todo \ {call.target}
  /\ call' = NoCall
  /\ UNCHANGED <<run, attempt, step, pc>>

\* Mutant: the rollback errors are forgotten.
RollbackDoneIgnoringErrors ==
  /\ pc = "rollback" /\ todo = {}
  /\ run' = "rolled-back"
  /\ pc' = "idle" /\ failed' = FALSE
  /\ UNCHANGED <<attempt, step, todo, call>>

RollbackDone ==
  /\ pc = "rollback" /\ todo = {}
  /\ run' = IF failed THEN "failed" ELSE "rolled-back"
  /\ pc' = "idle" /\ failed' = FALSE
  /\ UNCHANGED <<attempt, step, todo, call>>

\* rollbackRecordedAttempt stops at the first error.
RecoverError ==
  /\ call.status = "err" /\ pc = "recover"
  /\ run' = "failed"
  /\ pc' = "idle" /\ todo' = {} /\ call' = NoCall
  /\ UNCHANGED <<attempt, step, failed>>

RecoverDone ==
  /\ pc = "recover" /\ todo = {}
  /\ run' = "rolled-back" /\ pc' = "restart"
  /\ UNCHANGED <<attempt, step, todo, failed, call>>

Restart == pc = "restart" /\ StartAttempt

\* A finalize error leaves the decision in place for a later execute.
FinalizeError ==
  /\ call.status = "err" /\ pc = "finalize"
  /\ run' = "finalizing"
  /\ pc' = "idle" /\ todo' = {} /\ call' = NoCall
  /\ UNCHANGED <<attempt, step, failed>>

FinalizeDone ==
  /\ pc = "finalize" /\ todo = {}
  /\ run' = "committed" /\ pc' = "idle"
  /\ UNCHANGED <<attempt, step, todo, failed, call>>

\* The process dies, or a journal write throws out of execute.
Crash ==
  /\ pc # "idle"
  /\ pc' = "idle" /\ todo' = {} /\ failed' = FALSE /\ call' = NoCall
  /\ UNCHANGED <<run, attempt, step>>

EngineStep == \/ RecordPending \/ EnterLoop \/ Invoke \/ RecordOk
              \/ failAndRollback \/ RollbackError \/ RollbackDone
              \/ RecoverError \/ RecoverDone \/ Restart
              \/ FinalizeError \/ FinalizeDone

\* How a driver answers the call in flight.
Answer(status) == call' = [call EXCEPT !.status = status]

EngineTypeOK ==
  /\ run \in RunStates /\ attempt \in Attempts
  /\ step \in [Ordinals -> StepStates]
  /\ pc \in Loops /\ todo \subseteq Ordinals
  /\ failed \in BOOLEAN /\ call \in Calls
=============================================================================
