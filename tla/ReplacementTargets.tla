-------------------------- MODULE ReplacementTargets --------------------------
(***************************************************************************)
(* The deployment engine over targets that keep the ReplacementDriver      *)
(* contract of engine.ts and nothing more: a method may fail before or     *)
(* after its effect, "commit" retains everything a rollback needs,         *)
(* "finalize" is irreversible and safe to retry, "rollback" restores a     *)
(* target that holds a rollback record and ignores one that does not.      *)
(***************************************************************************)
EXTENDS DeploymentEngine

VARIABLES serving,  \* "old" or "new": the release each target serves
          kept      \* attempts whose rollback record each target holds

targetVars == <<serving, kept>>
vars == <<engineVars, targetVars>>

TypeOK ==
  /\ EngineTypeOK
  /\ serving \in [Ordinals -> {"old", "new"}]
  /\ kept \in [Ordinals -> SUBSET Attempts]

Init ==
  /\ EngineInit
  /\ serving = [i \in Ordinals |-> "old"]
  /\ kept = [i \in Ordinals |-> {}]

\* stage writes the rollback record of this attempt.
Retain(i) == kept' = [kept EXCEPT ![i] = @ \cup {attempt}]

\* finalize and a completed rollback remove it.
Discard(i) == kept' = [kept EXCEPT ![i] = @ \ {attempt}]

\* activate may publish already (frontend) or only start a successor (machine).
ActivateEffect(i) ==
  /\ \E release \in {serving[i], "new"} : serving' = [serving EXCEPT ![i] = release]
  /\ UNCHANGED kept

CommitEffect(i) == serving' = [serving EXCEPT ![i] = "new"] /\ UNCHANGED kept

RollbackEffect(i) ==
  IF attempt \in kept[i]
  THEN serving' = [serving EXCEPT ![i] = "old"] /\ Discard(i)
  ELSE UNCHANGED targetVars

Effect(method, i) ==
  CASE method = "stage" -> Retain(i) /\ UNCHANGED serving
    [] method = "activate" -> ActivateEffect(i)
    [] method = "commit" -> CommitEffect(i)
    [] method = "finalize" -> Discard(i) /\ UNCHANGED serving
    [] method = "rollback" -> RollbackEffect(i)
    [] OTHER -> UNCHANGED targetVars

\* A method that fails may have taken effect; a failed rollback or finalize
\* keeps its record, because the drivers remove it last.
PartialEffect(method, i) ==
  \/ UNCHANGED targetVars
  \/ method \in ForwardLoops /\ Effect(method, i)
  \/ /\ method = "rollback" /\ attempt \in kept[i]
     /\ serving' = [serving EXCEPT ![i] = "old"] /\ UNCHANGED kept

DriverSucceeds ==
  /\ call.status = "open"
  /\ Effect(call.method, call.target)
  /\ Answer("ok")
  /\ UNCHANGED <<run, attempt, step, pc, todo, failed>>

DriverFails ==
  /\ call.status = "open"
  /\ PartialEffect(call.method, call.target)
  /\ Answer("err")
  /\ UNCHANGED <<run, attempt, step, pc, todo, failed>>

Next ==
  \/ (Execute \/ EngineStep \/ Crash) /\ UNCHANGED targetVars
  \/ DriverSucceeds
  \/ DriverFails

\* The engine's awaits are driven by the event loop and every driver method is
\* bounded by timeouts of its host, so a call in flight is eventually answered.
Fairness ==
  /\ WF_vars(EngineStep /\ UNCHANGED targetVars)
  /\ WF_vars(DriverSucceeds \/ DriverFails)

Spec == Init /\ [][Next]_vars
FairSpec == Spec /\ Fairness

-----------------------------------------------------------------------------
Decided == run \in {"finalizing", "committed"}

\* Until the commit decision is persisted, every target that serves the new
\* release holds the rollback record of this attempt and is one that the
\* journal would roll back: no crash between a driver's effect and recordStep
\* strands a replaced target (engine.ts needsRollback, execute).
Reversible ==
  \A i \in Ordinals :
    serving[i] = "new" /\ ~Decided => attempt \in kept[i] /\ i \in ToRollBack

\* A run recorded as rolled back, or about to be planned again, left no target
\* on the new release; a decided run left none on the old one; a committed run
\* has discarded the rollback record of its attempt at every target.
AllOrNothing ==
  /\ run \in {"none", "planned", "rolled-back"} => \A i \in Ordinals : serving[i] = "old"
  /\ Decided => \A i \in Ordinals : serving[i] = "new"
  /\ run = "committed" => \A i \in Ordinals : attempt \notin kept[i]

\* Targets are undone in reverse order: while the rollback of a target is in
\* flight, and none has failed before it, every later target is back already.
UndoneInReverse ==
  call.status # "none" /\ call.method = "rollback" /\ ~failed =>
    \A j \in Ordinals : j > call.target => serving[j] = "old"

\* finalize, which is irreversible, is only called once every target has
\* committed, and rollback never after the decision (engine.ts finalize).
DiscardAfterDecision ==
  call.status # "none" =>
    /\ call.method = "finalize" =>
         Decided /\ \A j \in Ordinals : step[j] \in {"committed", "finalized"}
    /\ call.method = "rollback" => ~Decided

\* Every execute returns: no loop of the engine waits for itself.
ExecuteReturns == pc # "idle" ~> pc = "idle"

\* The engine and its journal implement an atomic replacement of the fleet.
Fleet == IF \A i \in Ordinals : serving[i] = "old" THEN "old"
         ELSE IF \A i \in Ordinals : serving[i] = "new" THEN "new" ELSE "mixed"
Phase == CASE run \in {"none", "planned", "rolled-back"} -> "undone"
           [] run = "finalizing" -> "decided"
           [] run = "committed" -> "done"
           [] OTHER -> "open"

Atomic == INSTANCE AtomicReplacement WITH phase <- Phase, fleet <- Fleet

\* Refinement of the promise a plan makes to its caller.
ImplementsAtomic == Atomic!AbsSpec
=============================================================================
