----------------------- MODULE ReplacementTargets_proof -----------------------
(***************************************************************************)
(* Proofs about the deployment engine over contract-keeping targets, for   *)
(* every number of targets and every bound on the attempts.                *)
(***************************************************************************)
EXTENDS ReplacementTargets, TLAPS

RunOf(loop) ==
  CASE loop = "pending" -> "planned"
    [] loop = "drain" -> "draining"
    [] loop = "stage" -> "staging"
    [] loop = "activate" -> "activating"
    [] loop \in {"health", "commit"} -> "health-checking"
    [] loop = "finalize" -> "finalizing"
    [] loop \in {"rollback", "recover"} -> "rolling-back"
    [] OTHER -> "rolled-back"

\* The step state a forward loop finds at a target it has not visited yet.
Before(loop) ==
  CASE loop = "drain" -> "pending"
    [] loop = "stage" -> "drained"
    [] loop = "activate" -> "staged"
    [] loop = "health" -> "activated"
    [] OTHER -> "healthy"

\* A running loop has written its run state, and only a driver loop calls.
Control ==
  /\ pc # "idle" => run = RunOf(pc)
  /\ pc \in {"idle", "restart"} => todo = {}
  /\ pc \in {"recover", "restart"} => attempt < MaxAttempt
  /\ call.status # "none" =>
       pc \in DriverLoops /\ call.method = Method(pc) /\ IsNext(call.target)

\* The journal of a forward loop is exactly as far as the loop.
Progress ==
  /\ pc = "pending" => \A i \in Ordinals : i \notin todo => step[i] = "pending"
  /\ pc \in ForwardLoops =>
       \A i \in Ordinals : step[i] = IF i \in todo THEN Before(pc) ELSE Recorded(pc)
  /\ Decided => \A i \in Ordinals : step[i] \in {"committed", "finalized"}
  /\ pc = "finalize" => \A i \in Ordinals : i \notin todo => step[i] = "finalized"
  /\ run = "committed" => \A i \in Ordinals : step[i] = "finalized"

\* What an answered call and a recorded step say of the target.
Materialised ==
  /\ run \in {"draining", "staging", "activating", "health-checking"} =>
       \A i \in Ordinals : needsRollback(step[i]) => attempt \in kept[i]
  /\ call.status = "ok" /\ pc = "stage" => attempt \in kept[call.target]
  /\ call.status = "ok" /\ pc = "commit" => serving[call.target] = "new"
  /\ call.status = "ok" /\ pc = "finalize" => attempt \notin kept[call.target]
  /\ call.status = "ok" /\ pc \in {"rollback", "recover"} => serving[call.target] = "old"
  /\ run = "health-checking" =>
       \A i \in Ordinals : step[i] = "committed" => serving[i] = "new"
  /\ \A i \in Ordinals : step[i] = "finalized" => attempt \notin kept[i]

\* A rollback loop that has met no error has still to visit every recorded
\* target; once it is over the journal holds none.
RollbackPending ==
  /\ pc = "recover" \/ (pc = "rollback" /\ ~failed) => ToRollBack \subseteq todo
  /\ run \in {"none", "planned", "rolled-back"} => ToRollBack = {}
  /\ pc # "rollback" => ~failed

IInv == TypeOK /\ Control /\ Progress /\ Materialised /\ RollbackPending
        /\ Reversible /\ AllOrNothing

\* The vocabulary of the parts of the invariant.
LEMMA NoCallFacts == NoCall \in Calls /\ NoCall.status = "none"
  BY NAssumption DEF NoCall, Calls, Ordinals, Methods, ForwardLoops

\* One step of the engine, of a driver or a crash preserves the invariant.
LEMMA Inductive == IInv /\ [Next]_vars => IInv'
<1> SUFFICES ASSUME IInv, [Next]_vars PROVE IInv'
  OBVIOUS
<1> USE NoCallFacts, MaxAttemptAssumption
    DEF IInv, TypeOK, EngineTypeOK, Control, Progress, Materialised, RollbackPending,
        Reversible, AllOrNothing, Decided, ToRollBack, needsRollback, IsNext, Method,
        Recorded, Before, RunOf, Calls, Methods, ForwardLoops, DriverLoops, Loops,
        RunStates, StepStates, Attempts, targetVars
<1>1. CASE ExecuteFresh /\ UNCHANGED targetVars
  <2>1. TypeOK'
    BY <1>1 DEF ExecuteFresh, StartAttempt
  <2>2. Control'
    BY <1>1 DEF ExecuteFresh, StartAttempt
  <2>3. Progress'
    BY <1>1 DEF ExecuteFresh, StartAttempt
  <2>4. Materialised'
    BY <1>1 DEF ExecuteFresh, StartAttempt
  <2>5. RollbackPending'
    BY <1>1 DEF ExecuteFresh, StartAttempt
  <2>6. Reversible'
    BY <1>1 DEF ExecuteFresh, StartAttempt
  <2>7. AllOrNothing'
    BY <1>1 DEF ExecuteFresh, StartAttempt
  <2> QED
    BY <2>1, <2>2, <2>3, <2>4, <2>5, <2>6, <2>7
<1>2. CASE ExecutePlanned /\ UNCHANGED targetVars
  <2>1. TypeOK'
    BY <1>2 DEF ExecutePlanned
  <2>2. Control'
    BY <1>2 DEF ExecutePlanned
  <2>3. Progress'
    BY <1>2 DEF ExecutePlanned
  <2>4. Materialised'
    BY <1>2 DEF ExecutePlanned
  <2>5. RollbackPending'
    BY <1>2 DEF ExecutePlanned
  <2>6. Reversible'
    BY <1>2 DEF ExecutePlanned
  <2>7. AllOrNothing'
    BY <1>2 DEF ExecutePlanned
  <2> QED
    BY <2>1, <2>2, <2>3, <2>4, <2>5, <2>6, <2>7
<1>3. CASE ExecuteFinalizing /\ UNCHANGED targetVars
  <2>1. TypeOK'
    BY <1>3 DEF ExecuteFinalizing
  <2>2. Control'
    BY <1>3 DEF ExecuteFinalizing
  <2>3. Progress'
    BY <1>3 DEF ExecuteFinalizing
  <2>4. Materialised'
    BY <1>3 DEF ExecuteFinalizing
  <2>5. RollbackPending'
    BY <1>3 DEF ExecuteFinalizing
  <2>6. Reversible'
    BY <1>3 DEF ExecuteFinalizing
  <2>7. AllOrNothing'
    BY <1>3 DEF ExecuteFinalizing
  <2> QED
    BY <2>1, <2>2, <2>3, <2>4, <2>5, <2>6, <2>7
<1>4. CASE ExecuteInterrupted /\ UNCHANGED targetVars
  <2>1. TypeOK'
    BY <1>4 DEF ExecuteInterrupted
  <2>2. Control'
    BY <1>4 DEF ExecuteInterrupted
  <2>3. Progress'
    BY <1>4 DEF ExecuteInterrupted
  <2>4. Materialised'
    BY <1>4 DEF ExecuteInterrupted
  <2>5. RollbackPending'
    BY <1>4 DEF ExecuteInterrupted
  <2>6. Reversible'
    BY <1>4 DEF ExecuteInterrupted
  <2>7. AllOrNothing'
    BY <1>4 DEF ExecuteInterrupted
  <2> QED
    BY <2>1, <2>2, <2>3, <2>4, <2>5, <2>6, <2>7
<1>5. CASE ExecuteCommitted /\ UNCHANGED targetVars
  BY <1>5 DEF ExecuteCommitted, engineVars
<1>6. CASE RecordPending /\ UNCHANGED targetVars
  <2>1. TypeOK'
    BY <1>6 DEF RecordPending
  <2>2. Control'
    BY <1>6 DEF RecordPending
  <2>3. Progress'
    BY <1>6 DEF RecordPending
  <2>4. Materialised'
    BY <1>6 DEF RecordPending
  <2>5. RollbackPending'
    BY <1>6 DEF RecordPending
  <2>6. Reversible'
    BY <1>6 DEF RecordPending
  <2>7. AllOrNothing'
    BY <1>6 DEF RecordPending
  <2> QED
    BY <2>1, <2>2, <2>3, <2>4, <2>5, <2>6, <2>7
<1>7. CASE EnterLoop /\ UNCHANGED targetVars
  <2>1. TypeOK'
    BY <1>7 DEF EnterLoop, Following
  <2>2. Control'
    BY <1>7 DEF EnterLoop, Following
  <2>3. Progress'
    BY <1>7 DEF EnterLoop, Following
  <2>4. Materialised'
    BY <1>7 DEF EnterLoop, Following
  <2>5. RollbackPending'
    BY <1>7 DEF EnterLoop, Following
  <2>6. Reversible'
    BY <1>7 DEF EnterLoop, Following
  <2>7. AllOrNothing'
    BY <1>7 DEF EnterLoop, Following
  <2> QED
    BY <2>1, <2>2, <2>3, <2>4, <2>5, <2>6, <2>7
<1>8. CASE Invoke /\ UNCHANGED targetVars
  <2>1. TypeOK'
    BY <1>8 DEF Invoke
  <2>2. Control'
    BY <1>8 DEF Invoke
  <2>3. Progress'
    BY <1>8 DEF Invoke
  <2>4. Materialised'
    BY <1>8 DEF Invoke
  <2>5. RollbackPending'
    BY <1>8 DEF Invoke
  <2>6. Reversible'
    BY <1>8 DEF Invoke
  <2>7. AllOrNothing'
    BY <1>8 DEF Invoke
  <2> QED
    BY <2>1, <2>2, <2>3, <2>4, <2>5, <2>6, <2>7
<1>9. CASE RecordOk /\ UNCHANGED targetVars
  <2>1. TypeOK'
    BY <1>9 DEF RecordOk
  <2>2. Control'
    BY <1>9 DEF RecordOk
  <2>3. Progress'
    BY <1>9 DEF RecordOk
  <2>4. Materialised'
    BY <1>9 DEF RecordOk
  <2>5. RollbackPending'
    BY <1>9 DEF RecordOk
  <2>6. Reversible'
    BY <1>9 DEF RecordOk
  <2>7. AllOrNothing'
    BY <1>9 DEF RecordOk
  <2> QED
    BY <2>1, <2>2, <2>3, <2>4, <2>5, <2>6, <2>7
<1>10. CASE failAndRollback /\ UNCHANGED targetVars
  <2>1. TypeOK'
    BY <1>10 DEF failAndRollback
  <2>2. Control'
    BY <1>10 DEF failAndRollback
  <2>3. Progress'
    BY <1>10 DEF failAndRollback
  <2>4. Materialised'
    BY <1>10 DEF failAndRollback
  <2>5. RollbackPending'
    BY <1>10 DEF failAndRollback
  <2>6. Reversible'
    BY <1>10 DEF failAndRollback
  <2>7. AllOrNothing'
    BY <1>10 DEF failAndRollback
  <2> QED
    BY <2>1, <2>2, <2>3, <2>4, <2>5, <2>6, <2>7
<1>11. CASE RollbackError /\ UNCHANGED targetVars
  <2>1. TypeOK'
    BY <1>11 DEF RollbackError
  <2>2. Control'
    BY <1>11 DEF RollbackError
  <2>3. Progress'
    BY <1>11 DEF RollbackError
  <2>4. Materialised'
    BY <1>11 DEF RollbackError
  <2>5. RollbackPending'
    BY <1>11 DEF RollbackError
  <2>6. Reversible'
    BY <1>11 DEF RollbackError
  <2>7. AllOrNothing'
    BY <1>11 DEF RollbackError
  <2> QED
    BY <2>1, <2>2, <2>3, <2>4, <2>5, <2>6, <2>7
<1>12. CASE RollbackDone /\ UNCHANGED targetVars
  <2>1. TypeOK'
    BY <1>12 DEF RollbackDone
  <2>2. Control'
    BY <1>12 DEF RollbackDone
  <2>3. Progress'
    BY <1>12 DEF RollbackDone
  <2>4. Materialised'
    BY <1>12 DEF RollbackDone
  <2>5. RollbackPending'
    BY <1>12 DEF RollbackDone
  <2>6. Reversible'
    BY <1>12 DEF RollbackDone
  <2>7. AllOrNothing'
    BY <1>12 DEF RollbackDone
  <2> QED
    BY <2>1, <2>2, <2>3, <2>4, <2>5, <2>6, <2>7
<1>13. CASE RecoverError /\ UNCHANGED targetVars
  <2>1. TypeOK'
    BY <1>13 DEF RecoverError
  <2>2. Control'
    BY <1>13 DEF RecoverError
  <2>3. Progress'
    BY <1>13 DEF RecoverError
  <2>4. Materialised'
    BY <1>13 DEF RecoverError
  <2>5. RollbackPending'
    BY <1>13 DEF RecoverError
  <2>6. Reversible'
    BY <1>13 DEF RecoverError
  <2>7. AllOrNothing'
    BY <1>13 DEF RecoverError
  <2> QED
    BY <2>1, <2>2, <2>3, <2>4, <2>5, <2>6, <2>7
<1>14. CASE RecoverDone /\ UNCHANGED targetVars
  <2>1. TypeOK'
    BY <1>14 DEF RecoverDone
  <2>2. Control'
    BY <1>14 DEF RecoverDone
  <2>3. Progress'
    BY <1>14 DEF RecoverDone
  <2>4. Materialised'
    BY <1>14 DEF RecoverDone
  <2>5. RollbackPending'
    BY <1>14 DEF RecoverDone
  <2>6. Reversible'
    BY <1>14 DEF RecoverDone
  <2>7. AllOrNothing'
    BY <1>14 DEF RecoverDone
  <2> QED
    BY <2>1, <2>2, <2>3, <2>4, <2>5, <2>6, <2>7
<1>15. CASE Restart /\ UNCHANGED targetVars
  <2>1. TypeOK'
    BY <1>15 DEF Restart, StartAttempt
  <2>2. Control'
    BY <1>15 DEF Restart, StartAttempt
  <2>3. Progress'
    BY <1>15 DEF Restart, StartAttempt
  <2>4. Materialised'
    BY <1>15 DEF Restart, StartAttempt
  <2>5. RollbackPending'
    BY <1>15 DEF Restart, StartAttempt
  <2>6. Reversible'
    BY <1>15 DEF Restart, StartAttempt
  <2>7. AllOrNothing'
    BY <1>15 DEF Restart, StartAttempt
  <2> QED
    BY <2>1, <2>2, <2>3, <2>4, <2>5, <2>6, <2>7
<1>16. CASE FinalizeError /\ UNCHANGED targetVars
  <2>1. TypeOK'
    BY <1>16 DEF FinalizeError
  <2>2. Control'
    BY <1>16 DEF FinalizeError
  <2>3. Progress'
    BY <1>16 DEF FinalizeError
  <2>4. Materialised'
    BY <1>16 DEF FinalizeError
  <2>5. RollbackPending'
    BY <1>16 DEF FinalizeError
  <2>6. Reversible'
    BY <1>16 DEF FinalizeError
  <2>7. AllOrNothing'
    BY <1>16 DEF FinalizeError
  <2> QED
    BY <2>1, <2>2, <2>3, <2>4, <2>5, <2>6, <2>7
<1>17. CASE FinalizeDone /\ UNCHANGED targetVars
  <2>1. TypeOK'
    BY <1>17 DEF FinalizeDone
  <2>2. Control'
    BY <1>17 DEF FinalizeDone
  <2>3. Progress'
    BY <1>17 DEF FinalizeDone
  <2>4. Materialised'
    BY <1>17 DEF FinalizeDone
  <2>5. RollbackPending'
    BY <1>17 DEF FinalizeDone
  <2>6. Reversible'
    BY <1>17 DEF FinalizeDone
  <2>7. AllOrNothing'
    BY <1>17 DEF FinalizeDone
  <2> QED
    BY <2>1, <2>2, <2>3, <2>4, <2>5, <2>6, <2>7
<1>18. CASE Crash /\ UNCHANGED targetVars
  <2>1. TypeOK'
    BY <1>18 DEF Crash
  <2>2. Control'
    BY <1>18 DEF Crash
  <2>3. Progress'
    BY <1>18 DEF Crash
  <2>4. Materialised'
    BY <1>18 DEF Crash
  <2>5. RollbackPending'
    BY <1>18 DEF Crash
  <2>6. Reversible'
    BY <1>18 DEF Crash
  <2>7. AllOrNothing'
    BY <1>18 DEF Crash
  <2> QED
    BY <2>1, <2>2, <2>3, <2>4, <2>5, <2>6, <2>7
<1>19. CASE DriverSucceeds
  <2>1. TypeOK'
    BY <1>19 DEF DriverSucceeds, Effect, Retain, Discard, ActivateEffect, CommitEffect, RollbackEffect, Answer
  <2>2. Control'
    BY <1>19 DEF DriverSucceeds, Effect, Retain, Discard, ActivateEffect, CommitEffect, RollbackEffect, Answer
  <2>3. Progress'
    BY <1>19 DEF DriverSucceeds, Effect, Retain, Discard, ActivateEffect, CommitEffect, RollbackEffect, Answer
  <2>4. Materialised'
    BY <1>19 DEF DriverSucceeds, Effect, Retain, Discard, ActivateEffect, CommitEffect, RollbackEffect, Answer
  <2>5. RollbackPending'
    BY <1>19 DEF DriverSucceeds, Effect, Retain, Discard, ActivateEffect, CommitEffect, RollbackEffect, Answer
  <2>6. Reversible'
    BY <1>19 DEF DriverSucceeds, Effect, Retain, Discard, ActivateEffect, CommitEffect, RollbackEffect, Answer
  <2>7. AllOrNothing'
    BY <1>19 DEF DriverSucceeds, Effect, Retain, Discard, ActivateEffect, CommitEffect, RollbackEffect, Answer
  <2> QED
    BY <2>1, <2>2, <2>3, <2>4, <2>5, <2>6, <2>7
<1>20. CASE DriverFails
  <2>1. TypeOK'
    BY <1>20 DEF DriverFails, PartialEffect, Effect, Retain, Discard, ActivateEffect, CommitEffect, RollbackEffect, Answer
  <2>2. Control'
    BY <1>20 DEF DriverFails, PartialEffect, Effect, Retain, Discard, ActivateEffect, CommitEffect, RollbackEffect, Answer
  <2>3. Progress'
    BY <1>20 DEF DriverFails, PartialEffect, Effect, Retain, Discard, ActivateEffect, CommitEffect, RollbackEffect, Answer
  <2>4. Materialised'
    BY <1>20 DEF DriverFails, PartialEffect, Effect, Retain, Discard, ActivateEffect, CommitEffect, RollbackEffect, Answer
  <2>5. RollbackPending'
    BY <1>20 DEF DriverFails, PartialEffect, Effect, Retain, Discard, ActivateEffect, CommitEffect, RollbackEffect, Answer
  <2>6. Reversible'
    BY <1>20 DEF DriverFails, PartialEffect, Effect, Retain, Discard, ActivateEffect, CommitEffect, RollbackEffect, Answer
  <2>7. AllOrNothing'
    BY <1>20 DEF DriverFails, PartialEffect, Effect, Retain, Discard, ActivateEffect, CommitEffect, RollbackEffect, Answer
  <2> QED
    BY <2>1, <2>2, <2>3, <2>4, <2>5, <2>6, <2>7
<1>21. CASE UNCHANGED vars
  BY <1>21 DEF vars, engineVars
<1> HIDE DEF IInv
<1> QED
  BY <1>1, <1>2, <1>3, <1>4, <1>5, <1>6, <1>7, <1>8, <1>9, <1>10, <1>11, <1>12, <1>13, <1>14, <1>15, <1>16, <1>17, <1>18, <1>19, <1>20, <1>21 DEF Next, Execute, EngineStep

LEMMA Initially == Init => IInv
<1> SUFFICES ASSUME Init PROVE IInv
  OBVIOUS
<1> USE NoCallFacts, NAssumption, MaxAttemptAssumption DEF Init, EngineInit
<1>1. TypeOK
  <2>1. step \in [Ordinals -> StepStates] /\ serving \in [Ordinals -> {"old", "new"}]
    BY DEF StepStates
  <2>2. kept \in [Ordinals -> SUBSET Attempts]
    OBVIOUS
  <2>3. run \in RunStates /\ attempt \in Attempts /\ pc \in Loops
    BY DEF RunStates, Attempts, Loops
  <2>4. failed \in BOOLEAN
    OBVIOUS
  <2> QED
    BY <2>1, <2>2, <2>3, <2>4 DEF TypeOK, EngineTypeOK
<1>2. Control /\ Progress /\ Materialised /\ RollbackPending
  BY DEF Control, Progress, Materialised, RollbackPending, Decided, ToRollBack, needsRollback,
         ForwardLoops
<1>3. Reversible /\ AllOrNothing
  BY DEF Reversible, AllOrNothing, Decided
<1> QED
  BY <1>1, <1>2, <1>3 DEF IInv

\* The engine's invariant holds in every reachable state.
THEOREM Invariance == Spec => []IInv
<1>1. Init => IInv
  BY Initially
<1>2. IInv /\ [Next]_vars => IInv'
  BY Inductive
<1> QED
  BY <1>1, <1>2, PTL DEF Spec

\* Type correctness of the journal, the engine and the targets.
THEOREM TypeCorrect == Spec => []TypeOK
<1>1. IInv => TypeOK
  BY DEF IInv
<1> QED
  BY <1>1, Invariance, PTL

\* A replaced target can be undone until the decision is persisted, and the
\* recorded outcome of a run is true of every target, whatever crashes and
\* driver failures there were.
THEOREM AtomicOutcome == Spec => [](Reversible /\ AllOrNothing)
<1>1. IInv => Reversible /\ AllOrNothing
  BY DEF IInv
<1> QED
  BY <1>1, Invariance, PTL

\* Until the decision is persisted, a target on the new release holds the
\* rollback record of this attempt and is one that the journal would roll back.
THEOREM ReplacedReversible == Spec => []Reversible
<1>1. IInv => Reversible
  BY DEF IInv
<1> QED
  BY <1>1, Invariance, PTL

\* Targets are undone last to first.
THEOREM ReverseUndo == Spec => []UndoneInReverse
<1>1. ASSUME IInv PROVE UndoneInReverse
  <2> SUFFICES ASSUME call.status # "none", call.method = "rollback", ~failed,
                      NEW j \in Ordinals, j > call.target
               PROVE  serving[j] = "old"
    BY DEF UndoneInReverse
  <2> USE <1>1 DEF IInv
  <2>1. pc \in {"rollback", "recover"} /\ IsNext(call.target) /\ run = "rolling-back"
    BY DEF Control, Method, DriverLoops, ForwardLoops, RunOf
  <2>2. ToRollBack \subseteq todo /\ todo \subseteq Ordinals
    BY <2>1 DEF RollbackPending, TypeOK, EngineTypeOK
  <2>3. call.target \in Nat /\ j \in Nat
    BY NAssumption DEF TypeOK, EngineTypeOK, Calls, Ordinals
  <2>4. j \notin todo
    BY <2>1, <2>3 DEF IsNext
  <2> QED
    BY <2>1, <2>2, <2>4 DEF Reversible, Decided, TypeOK
<1> QED
  BY <1>1, Invariance, PTL

\* Nothing irreversible before the decision, nothing undone after it.
THEOREM DecisionRespected == Spec => []DiscardAfterDecision
<1>1. IInv => DiscardAfterDecision
  BY DEF IInv, DiscardAfterDecision, Decided, Control, Progress, Method, DriverLoops,
         ForwardLoops, RunOf
<1> QED
  BY <1>1, Invariance, PTL

-----------------------------------------------------------------------------
(* The refinement. *)

\* What the recorded outcome says of the fleet.
FleetOK == /\ Fleet \in {"old", "new", "mixed"}
           /\ Phase \in {"undone", "open", "decided", "done"}
           /\ Phase = "undone" => Fleet = "old"
           /\ Phase \in {"decided", "done"} => Fleet = "new"

LEMMA FleetFacts == IInv => FleetOK
<1>1. 1 \in Ordinals
  BY NAssumption DEF Ordinals
<1> QED
  BY <1>1 DEF IInv, AllOrNothing, Decided, Fleet, Phase, FleetOK

\* Every step of the engine and its targets is a step of the atomic
\* replacement, or leaves it unchanged.
THEOREM RefinesAtomic == Spec => ImplementsAtomic
<1> USE DEF Atomic!absVars
<1>1. Init => Atomic!AbsInit
  BY DEF Init, EngineInit, Atomic!AbsInit, Phase, Fleet
<1>2. ASSUME IInv, IInv', [Next]_vars PROVE [Atomic!AbsNext]_(Atomic!absVars)
  <2>1. FleetOK /\ FleetOK'
    BY <1>2, FleetFacts, PTL
  <2>2. Fleet' = Fleet \/ Phase' = Phase
    <3>1. CASE UNCHANGED serving
      BY <3>1 DEF Fleet
    <3>2. CASE UNCHANGED run
      BY <3>2 DEF Phase
    <3> QED
      BY <1>2, <3>1, <3>2
      DEF Next, targetVars, DriverSucceeds, DriverFails, vars, engineVars
  <2>3. \/ Phase' = Phase
        \/ Phase = "undone" /\ Phase' = "open"
        \/ Phase = "open" /\ Phase' \in {"undone", "decided"}
        \/ Phase = "decided" /\ Phase' = "done"
    <3>1. CASE UNCHANGED run
      BY <3>1 DEF Phase
    <3>2. CASE EnterLoop
      BY <1>2, <3>2 DEF EnterLoop, Following, Phase, IInv, Control, RunOf, ForwardLoops
    <3>3. CASE FinalizeDone \/ FinalizeError \/ RecoverDone \/ RecoverError \/ RollbackDone
               \/ failAndRollback \/ Restart
      BY <1>2, <3>3 DEF FinalizeDone, FinalizeError, RecoverDone, RecoverError, RollbackDone,
           failAndRollback, Restart, StartAttempt, Phase, IInv, Control, RunOf, ForwardLoops
    <3>4. CASE ExecuteFresh \/ ExecuteInterrupted
      BY <3>4, <1>2 DEF ExecuteFresh, StartAttempt, ExecuteInterrupted, Phase, IInv, TypeOK,
           EngineTypeOK, RunStates
    <3> QED
      BY <1>2, <3>1, <3>2, <3>3, <3>4
      DEF Next, Execute, EngineStep, ExecutePlanned, ExecuteFinalizing, ExecuteCommitted,
          RecordPending, Invoke, RecordOk, RollbackError, Crash, DriverSucceeds, DriverFails,
          vars, engineVars
  <2> QED
    BY <2>1, <2>2, <2>3
    DEF FleetOK, Atomic!AbsNext, Atomic!Open, Atomic!Change, Atomic!Undo, Atomic!Decide,
        Atomic!Finish
<1> QED
  BY <1>1, <1>2, Invariance, PTL DEF Spec, ImplementsAtomic, Atomic!AbsSpec
=============================================================================
