-------------------------- MODULE HostReplacement_proof --------------------------
(***************************************************************************)
(* Proofs about the machine host and its drivers, for any number of        *)
(* deployments, generation processes and exits.                            *)
(***************************************************************************)
EXTENDS HostReplacement, TLAPS

StopStates == {"retire", "term", "exit"}
HoldStates == StopStates \cup {"start", "register", "reap", "select"}

\* The engine and the driver's call agree: a call in flight belongs to the loop
\* that runs, and only a call to the machine driver has a place in it.
Control ==
  /\ pc \notin {"recover", "restart"} /\ (pc # "idle" => plan # 0)
  /\ call.status # "none" =>
       pc \in DriverLoops /\ call.method = Method(pc) /\ call.target \in todo
  /\ drv # "none" => call.status = "open" /\ call.target = 1

\* Which method has brought the driver where it is.
Positions ==
  /\ drv = "checkpoint" => call.method = "stage"
  /\ drv \in {"stop"} \cup StopStates => call.method \in {"drain", "finalize", "rollback"}
  /\ drv = "restore" => call.method = "rollback"
  /\ drv \in {"ensure", "start", "register", "reap"} => call.method \in {"activate", "commit", "rollback"}
  /\ drv \in {"select", "pointer"} => call.method \in {"commit", "rollback"}
  /\ drv \in {"ensure", "start", "register", "reap", "select", "pointer"} => EnsureTarget \in Gens

\* A process belongs to a generation.
Named == \A p \in Procs : proc[p].st # "free" => proc[p].gen \in Gens

\* What the host tracks is a process of that generation that has been ready.
Tracked ==
  \A g \in Gens : running[g] # 0 =>
    /\ running[g] \in Procs /\ proc[running[g]].gen = g
    /\ proc[running[g]].st \in {"live", "exited", "stopping", "stuck"}

\* A restart loop has its generation, and its child while it has spawned one.
Restarts ==
  \A p \in Procs :
    /\ loop[p].st # "none" => loop[p].gen \in Gens
    /\ loop[p].st \in {"none", "sleep"} => loop[p].child = 0
    /\ loop[p].st \in {"start", "registered", "reaping"} =>
         /\ loop[p].child \in Procs /\ proc[loop[p].child].gen = loop[p].gen
         /\ proc[loop[p].child].st = "starting" <=> loop[p].st = "start"

\* Nobody else waits for a process that is starting.
Apart ==
  /\ \A p, q \in Procs :
       loop[p].st = "start" /\ loop[q].st = "start" /\ loop[p].child = loop[q].child => p = q
  /\ drv = "start" => \A p \in Procs : loop[p].st = "start" => loop[p].child # held

\* The process that the driver's call holds on to is one of the generation it
\* stops, or starts.
Held ==
  /\ drv \notin HoldStates => held = 0
  /\ drv \in StopStates => StopTarget \in Gens /\ held \in Procs /\ proc[held].gen = StopTarget
  /\ drv \in {"start", "register", "reap", "select"} => held \in Procs /\ proc[held].gen = EnsureTarget
  /\ drv \in HoldStates => (proc[held].st = "starting" <=> drv = "start")

IInv ==
  /\ TypeOK /\ Control /\ Positions /\ Named /\ Tracked /\ Restarts /\ Apart /\ Held
  /\ ProxyServesCurrent

-----------------------------------------------------------------------------
(* What the updates of the model do, point by point. *)

ProcRecords == [gen : 0..MaxPlans, st : ProcStates]
LoopRecords == [gen : 0..MaxPlans, st : LoopStates, child : 0..MaxProcs]

\* The parts of the invariant, to be cited without expanding it.
LEMMA Parts ==
  ASSUME IInv
  PROVE  /\ TypeOK /\ Control /\ Positions /\ Named /\ Tracked /\ Restarts /\ Apart /\ Held /\ ProxyServesCurrent
         /\ url # 0 => url \in Procs
         /\ 0 \notin Procs
<1>1. /\ TypeOK /\ Control /\ Positions /\ Named /\ Tracked /\ Restarts /\ Apart /\ Held
      /\ ProxyServesCurrent
  BY DEF IInv
<1>2. url \in 0..MaxProcs
  BY <1>1 DEF TypeOK
<1>3. (url # 0 => url \in Procs) /\ 0 \notin Procs
  BY <1>2, HostAssumption DEF Procs
<1> QED
  BY <1>1, <1>3

\* A process changes its state and keeps its generation.
LEMMA ProcSet ==
  ASSUME TypeOK, NEW p \in Procs, NEW s \in ProcStates, proc' = [proc EXCEPT ![p].st = s]
  PROVE  /\ proc' \in [Procs -> ProcRecords]
         /\ \A q \in Procs : /\ proc'[q].gen = proc[q].gen
                             /\ proc'[q].st = IF q = p THEN s ELSE proc[q].st
  BY DEF TypeOK, ProcRecords

\* A spawned process is a starting one of its generation.
LEMMA Spawning ==
  ASSUME TypeOK, NEW p \in Procs, NEW g \in Gens, Spawned(p, g)
  PROVE  /\ proc' \in [Procs -> ProcRecords]
         /\ proc'[p].gen = g /\ proc'[p].st = "starting"
         /\ \A q \in Procs : q # p => proc'[q] = proc[q]
<1> DEFINE r == [gen |-> g, st |-> "starting"]
<1>1. r \in ProcRecords /\ r.gen = g /\ r.st = "starting"
  BY HostAssumption DEF ProcRecords, ProcStates, Gens
<1>2. proc' = [proc EXCEPT ![p] = r] /\ proc \in [Procs -> ProcRecords]
  BY DEF Spawned, TypeOK, ProcRecords
<1> HIDE DEF r
<1> QED
  BY <1>1, <1>2

\* One restart loop is set, the others stay.
LEMMA LoopSet ==
  ASSUME TypeOK, NEW p \in Procs, NEW l \in LoopRecords, loop' = [loop EXCEPT ![p] = l]
  PROVE  /\ loop' \in [Procs -> LoopRecords]
         /\ \A q \in Procs : loop'[q] = IF q = p THEN l ELSE loop[q]
  BY DEF TypeOK, LoopRecords

\* The restart loop's two usual ends.
LEMMA LoopValues ==
  ASSUME NEW g \in Gens
  PROVE  /\ NoLoop \in LoopRecords /\ NoLoop.st = "none" /\ NoLoop.child = 0
         /\ [gen |-> g, st |-> "sleep", child |-> 0] \in LoopRecords
  BY HostAssumption DEF NoLoop, LoopRecords, LoopStates, Gens

\* One entry of MachineHost.running is set, the others stay.
LEMMA RunningSet ==
  ASSUME TypeOK, NEW g \in Gens, NEW p \in 0..MaxProcs, running' = [running EXCEPT ![g] = p]
  PROVE  /\ running' \in [Gens -> 0..MaxProcs]
         /\ \A h \in Gens : running'[h] = IF h = g THEN p ELSE running[h]
  BY DEF TypeOK

\* A step of a driver's call: it goes on, or it is answered and over.
Moved ==
  /\ UNCHANGED <<engineCore, plan>>
  /\ call.status = "open" /\ call' \in Calls
  /\ call'.target = call.target /\ call'.method = call.method
  /\ drv' \in DriverStates
  /\ IF drv' = "none" THEN call'.status \in {"ok", "err"} ELSE call' = call /\ call.target = 1

\* A driver's call that returns is answered and over.
LEMMA Returning ==
  ASSUME TypeOK, NEW s \in {"ok", "err"}, call.status = "open", Return(s), UNCHANGED <<engineCore, plan>>
  PROVE  Moved /\ drv' = "none"
<1>1. call \in Calls
  BY DEF TypeOK, EngineTypeOK
<1>2. call' = [call EXCEPT !.status = s] /\ drv' = "none"
  BY DEF Return, Answer
<1>3. call' \in Calls /\ call'.target = call.target /\ call'.method = call.method /\ call'.status = s
  BY <1>1, <1>2 DEF Calls
<1> QED
  BY <1>2, <1>3 DEF Moved, DriverStates

\* A driver's call that goes on stays open.
LEMMA Going ==
  ASSUME TypeOK, NEW d \in DriverStates \ {"none"}, call.status = "open", call.target = 1, Goto(d),
         UNCHANGED <<engineCore, plan>>
  PROVE  Moved /\ drv' = d /\ call' = call
  BY DEF Moved, Goto, TypeOK, EngineTypeOK

\* A step of a driver's call keeps what is said of the engine.
LEMMA MovedEngine ==
  ASSUME IInv, Moved
  PROVE  EngineTypeOK' /\ Control' /\ pc # "idle" /\ plan \in Gens
<1>1. EngineTypeOK'
  BY DEF Moved, engineCore, IInv, TypeOK, EngineTypeOK
<1>2. Control'
  BY DEF Moved, engineCore, IInv, Control
<1>3. pc # "idle" /\ plan \in Gens
  BY HostAssumption DEF Moved, IInv, Control, DriverLoops, ForwardLoops, TypeOK, Gens
<1> QED
  BY <1>1, <1>2, <1>3

\* A step that leaves the host alone keeps what is said of it.
LEMMA HostLeft ==
  ASSUME IInv, UNCHANGED <<current, url, running, proc, loop>>
  PROVE  /\ Named' /\ Tracked' /\ Restarts' /\ ProxyServesCurrent'
         /\ drv' # "start" \/ UNCHANGED <<drv, held>> => Apart'
  BY DEF IInv, Named, Tracked, Restarts, ProxyServesCurrent, Apart

\* An answered call holds on to nothing.
LEMMA OverHolds ==
  ASSUME drv' = "none", held' = 0
  PROVE  Positions' /\ Held'
  BY DEF Positions, Held, StopStates, HoldStates

-----------------------------------------------------------------------------
(* The engine. *)

\* The engine waits while a driver's call is open.
LEMMA EngineWaits ==
  ASSUME IInv, EngineStep
  PROVE  drv = "none" /\ call.status # "open"
  BY
     DEF IInv, Control, EngineStep, RecordPending, EnterLoop, Invoke, RecordOk, failAndRollback,
         RollbackError,
         RollbackDone, RecoverError, RecoverDone, Restart, FinalizeError, FinalizeDone, DriverLoops, ForwardLoops

\* The engine's own steps keep its type.
LEMMA EngineTyped ==
  ASSUME IInv, EngineStep
  PROVE  EngineTypeOK'
<1> USE HostAssumption, NAssumption DEF IInv, TypeOK, EngineTypeOK
<1>1. NoCall \in Calls
  BY DEF NoCall, Calls, Methods, ForwardLoops, Ordinals
<1>2. CASE RecordPending
  BY <1>2 DEF RecordPending, StepStates
<1>3. CASE EnterLoop
  BY <1>3 DEF EnterLoop, Following, Loops, DriverLoops, ForwardLoops, RunStates
<1>4. CASE Invoke
  <2>1. PICK i \in Ordinals : call' = [status |-> "open", target |-> i, method |-> Method(pc)]
    BY <1>4 DEF Invoke
  <2>2. Method(pc) \in Methods
    BY <1>4 DEF Invoke, Method, Methods, DriverLoops, ForwardLoops
  <2>3. call' \in Calls
    BY <2>1, <2>2 DEF Calls
  <2> QED
    BY <2>3, <1>4 DEF Invoke
<1>5. CASE RecordOk
  <2>1. Recorded(pc) \in StepStates
    BY DEF Recorded, StepStates
  <2> QED
    BY <1>1, <1>5, <2>1 DEF RecordOk
<1>6. CASE failAndRollback
  BY <1>1, <1>6 DEF failAndRollback, ToRollBack, RunStates, Loops, DriverLoops
<1>7. CASE RollbackError \/ RecoverError \/ FinalizeError
  BY <1>1, <1>7 DEF RollbackError, RecoverError, FinalizeError, RunStates, Loops
<1>8. CASE RollbackDone \/ RecoverDone \/ FinalizeDone
  BY <1>8 DEF RollbackDone, RecoverDone, FinalizeDone, RunStates, Loops
<1>9. CASE Restart
  BY <1>9 DEF Restart, Control
<1> QED
  BY <1>2, <1>3, <1>4, <1>5, <1>6, <1>7, <1>8, <1>9 DEF EngineStep

\* The engine moves only between calls, when the driver holds nothing.
LEMMA EngineKeeps ==
  ASSUME IInv, EngineStep, UNCHANGED <<plan, historyVars, hostVars, driverVars>>
  PROVE  IInv'
<1>1. drv' = "none" /\ held' = 0 /\ drv = "none"
  BY EngineWaits DEF driverVars, IInv, Held, HoldStates, StopStates
<1>2. TypeOK'
  BY EngineTyped DEF TypeOK, IInv, historyVars, hostVars, driverVars
<1>3. Control'
  <2>1. NoCall.status = "none"
    BY DEF NoCall
  <2>2. CASE Invoke
    <3>1. PICK i \in Ordinals : IsNext(i) /\ call' = [status |-> "open", target |-> i, method |-> Method(pc)]
      BY <2>2 DEF Invoke
    <3> QED
      BY <1>1, <2>2, <3>1 DEF Invoke, IsNext, Control, IInv, DriverLoops, ForwardLoops
  <2>3. CASE RecordPending
    BY <1>1, <2>3 DEF RecordPending, Control, IInv, DriverLoops, ForwardLoops
  <2>4. CASE EnterLoop
    <3>1. Following(pc).pc \notin {"recover", "restart", "idle"} /\ pc # "idle"
      BY <2>4 DEF Following, EnterLoop, ForwardLoops
    <3>2. call'.status = "none"
      BY <2>4 DEF EnterLoop, Control, IInv
    <3> QED
      BY <1>1, <2>4, <3>1, <3>2 DEF EnterLoop, Control, IInv
  <2>5. CASE RecordOk \/ RollbackError
    BY <1>1, <2>1, <2>5 DEF RecordOk, RollbackError, Control, IInv
  <2>6. CASE failAndRollback
    BY <1>1, <2>1, <2>6 DEF failAndRollback, Control, IInv, ForwardLoops
  <2>7. CASE RecoverError \/ FinalizeError
    BY <1>1, <2>1, <2>7 DEF RecoverError, FinalizeError, Control, IInv
  <2>8. CASE RollbackDone \/ FinalizeDone
    <3>1. call'.status = "none"
      BY <2>8 DEF RollbackDone, FinalizeDone, Control, IInv
    <3> QED
      BY <1>1, <2>8, <3>1 DEF RollbackDone, FinalizeDone, Control, IInv
  <2>9. CASE RecoverDone \/ Restart
    BY <2>9 DEF RecoverDone, Restart, Control, IInv
  <2> QED
    BY <2>2, <2>3, <2>4, <2>5, <2>6, <2>7, <2>8, <2>9 DEF EngineStep
<1> QED
  BY <1>1, <1>2, <1>3, HostLeft, OverHolds DEF IInv, hostVars

\* A deployment begins when no call is open.
LEMMA DeployKeeps ==
  ASSUME IInv, Deploy
  PROVE  IInv'
<1>1. drv = "none" /\ held = 0 /\ call.status = "none"
  BY DEF Deploy, IInv, Control, Held, HoldStates, StopStates, DriverLoops, ForwardLoops
<1>2. TypeOK'
  <2>1. EngineTypeOK'
    BY HostAssumption DEF Deploy, IInv, TypeOK, EngineTypeOK, RunStates, Attempts, StepStates, Loops
  <2>2. frontend' \in [pointer : 0..MaxPlans, published : 0..MaxPlans, saved : -1..MaxPlans]
    BY HostAssumption DEF Deploy, IInv, TypeOK
  <2>3. plan' \in 0..MaxPlans /\ broken' \in BOOLEAN
    BY HostAssumption DEF Deploy, IInv, TypeOK
  <2>4. record' \in [prev : 0..MaxPlans, restored : BOOLEAN, present : BOOLEAN]
    BY HostAssumption DEF Deploy, NoRecord
  <2> QED
    BY <2>1, <2>2, <2>3, <2>4 DEF Deploy, IInv, TypeOK, hostVars
<1>3. Control'
  BY <1>1, HostAssumption DEF Deploy, IInv, TypeOK, Control
<1> QED
  BY <1>1, <1>2, <1>3, HostLeft, OverHolds DEF IInv, hostVars, Deploy

-----------------------------------------------------------------------------
(* Generation processes and restart loops. *)

\* A step that leaves engine and driver alone keeps what is said of them.
LEMMA DriverLeft ==
  ASSUME IInv, UNCHANGED <<engineVars, plan, current, driverVars>>
  PROVE  Control' /\ Positions' /\ EngineTypeOK' /\ StopTarget' = StopTarget /\ EnsureTarget' = EnsureTarget
<1> USE DEF engineVars, driverVars
<1>1. StopTarget' = StopTarget /\ EnsureTarget' = EnsureTarget
  BY DEF StopTarget, EnsureTarget
<1>2. Control' /\ EngineTypeOK'
  BY DEF IInv, Control, TypeOK, EngineTypeOK
<1>3. Positions'
  BY <1>1 DEF IInv, Positions, Gens
<1> QED
  BY <1>1, <1>2, <1>3

\* A generation that exits on its own stays what it was to everyone who holds it.
LEMMA ExitKeeps ==
  ASSUME IInv, NEW p \in Procs, Exit(p)
  PROVE  IInv'
<1>1. /\ UNCHANGED <<engineVars, plan, historyVars, accepting, current, url, running, loop, driverVars>>
      /\ proc[p].st = "live"
      /\ exits' \in 0..MaxExits
  BY HostAssumption DEF Exit, IInv, TypeOK
<1>2. /\ proc' \in [Procs -> ProcRecords]
      /\ \A q \in Procs : /\ proc'[q].gen = proc[q].gen
                          /\ proc'[q].st = IF q = p THEN "exited" ELSE proc[q].st
  BY ProcSet DEF Exit, IInv, ProcStates
<1>3. Control' /\ Positions' /\ EngineTypeOK' /\ StopTarget' = StopTarget /\ EnsureTarget' = EnsureTarget
  BY <1>1, DriverLeft
<1>4. TypeOK'
  BY <1>1, <1>2, <1>3 DEF IInv, TypeOK, ProcRecords, historyVars, driverVars
<1>5. Named' /\ Tracked' /\ Restarts'
  BY <1>1, <1>2, Parts DEF Named, Tracked, Restarts
<1>6. Apart' /\ Held' /\ ProxyServesCurrent'
  BY <1>1, <1>2, <1>3, Parts DEF Apart, Held, HoldStates, StopStates, ProxyServesCurrent, driverVars
<1> QED
  BY <1>3, <1>4, <1>5, <1>6 DEF IInv

\* The exit callback clears what it clears only for the process that was tracked.
LEMMA GenerationExitedKeeps ==
  ASSUME IInv, NEW p \in Procs, generationExited(p)
  PROVE  IInv'
<1> DEFINE g == proc[p].gen
           sleep == [gen |-> g, st |-> "sleep", child |-> 0]
<1>1. /\ proc[p].st = "exited" /\ g \in Gens
      /\ UNCHANGED <<engineVars, plan, broken, accepting, current, exits, driverVars>>
  BY DEF generationExited, IInv, Named
<1>2. /\ proc' \in [Procs -> ProcRecords]
      /\ \A q \in Procs : /\ proc'[q].gen = proc[q].gen
                          /\ proc'[q].st = IF q = p THEN "gone" ELSE proc[q].st
  BY ProcSet DEF generationExited, IInv, ProcStates
<1>3. Control' /\ Positions' /\ EngineTypeOK' /\ StopTarget' = StopTarget /\ EnsureTarget' = EnsureTarget
  BY <1>1, DriverLeft
<1>4. /\ running' \in [Gens -> 0..MaxProcs]
      /\ \A h \in Gens : running'[h] = IF h = g /\ running[h] = p THEN 0 ELSE running[h]
  BY <1>1, HostAssumption DEF generationExited, IInv, TypeOK
<1>5. sleep \in LoopRecords /\ sleep.st = "sleep" /\ sleep.child = 0 /\ sleep.gen = g
  BY <1>1, LoopValues
<1>6. url' \in {0, url} /\ overlapped' \in BOOLEAN
  BY DEF generationExited, IInv, TypeOK
<1>7. loop' = loop \/ loop' = [loop EXCEPT ![p] = sleep]
  BY DEF generationExited
<1> HIDE DEF g, sleep
<1>8. /\ loop' \in [Procs -> LoopRecords]
      /\ \A q \in Procs : loop'[q] = loop[q] \/ (q = p /\ loop'[q] = sleep)
  BY <1>5, <1>7 DEF IInv, TypeOK, LoopRecords
<1>9. TypeOK'
  BY <1>1, <1>2, <1>3, <1>4, <1>6, <1>8, HostAssumption DEF IInv, TypeOK, ProcRecords, LoopRecords, driverVars
<1>10. Named' /\ Restarts' /\ ProxyServesCurrent'
  BY <1>1, <1>2, <1>5, <1>6, <1>8, Parts DEF Named, Restarts, ProxyServesCurrent
<1>11. Tracked'
  BY <1>1, <1>2, <1>4, Parts DEF Tracked, g
<1>12. Apart' /\ Held'
  BY <1>1, <1>2, <1>3, <1>5, <1>8, Parts DEF Apart, Held, HoldStates, StopStates, driverVars
<1> QED
  BY <1>3, <1>9, <1>10, <1>11, <1>12 DEF IInv

\* A slot that is used again is not referred to.
LEMMA UnusedSlot ==
  ASSUME IInv, NEW q \in Procs, Unused(q)
  PROVE  /\ q # url /\ q # held /\ \A g \in Gens : running[g] # q
         /\ \A p \in Procs : loop[p].child # q
  BY Parts DEF Unused, Tracked

\* A restart loop gives up, adopts the tracked generation, or spawns in an unused slot.
LEMMA LoopWakesKeeps ==
  ASSUME IInv, NEW p \in Procs, LoopWakes(p)
  PROVE  IInv'
<1> DEFINE g == loop[p].gen
<1>1. /\ loop[p].st = "sleep" /\ g \in Gens
      /\ UNCHANGED <<engineVars, plan, historyVars, accepting, current, running, exits, driverVars>>
  BY DEF LoopWakes, IInv, Restarts
<1>2. Control' /\ Positions' /\ EngineTypeOK' /\ StopTarget' = StopTarget /\ EnsureTarget' = EnsureTarget
  BY <1>1, DriverLeft
<1>3. CASE /\ loop' = [loop EXCEPT ![p] = NoLoop] /\ proc' = proc
           /\ url' = url \/ (current = g /\ running[g] # 0 /\ url' = running[g])
  <2>1. NoLoop \in LoopRecords /\ NoLoop.st = "none" /\ NoLoop.child = 0
    BY <1>1, LoopValues
  <2>2. loop' \in [Procs -> LoopRecords] /\ \A q \in Procs : loop'[q] = IF q = p THEN NoLoop ELSE loop[q]
    BY <1>3, <2>1, LoopSet DEF IInv
  <2>3. TypeOK'
    BY <1>1, <1>2, <1>3, <2>2 DEF IInv, TypeOK, LoopRecords, historyVars, driverVars
  <2>4. Named' /\ Tracked' /\ Restarts' /\ ProxyServesCurrent'
    BY <1>1, <1>3, <2>1, <2>2, Parts DEF Named, Tracked, Restarts, ProxyServesCurrent
  <2>5. Apart' /\ Held'
    BY <1>1, <1>2, <1>3, <2>1, <2>2, Parts DEF Apart, Held, HoldStates, StopStates, driverVars
  <2> QED
    BY <1>2, <2>3, <2>4, <2>5 DEF IInv
<1>4. ASSUME NEW q \in Procs, Spawnable(q), Spawned(q, g), url' = url,
             loop' = [loop EXCEPT ![p] = [gen |-> g, st |-> "start", child |-> q]]
      PROVE  IInv'
  <2> DEFINE start == [gen |-> g, st |-> "start", child |-> q]
  <2>1. start \in LoopRecords /\ start.st = "start" /\ start.child = q /\ start.gen = g
    BY <1>1, HostAssumption DEF LoopRecords, LoopStates, Gens, Procs
  <2> HIDE DEF start
  <2>2. loop' \in [Procs -> LoopRecords] /\ \A r \in Procs : loop'[r] = IF r = p THEN start ELSE loop[r]
    BY <1>4, <2>1, LoopSet DEF IInv, start
  <2>3. /\ proc' \in [Procs -> ProcRecords] /\ proc'[q].gen = g /\ proc'[q].st = "starting"
        /\ \A r \in Procs : r # q => proc'[r] = proc[r]
    BY <1>1, <1>4, Spawning DEF IInv
  <2>4. /\ q # url /\ q # held /\ \A h \in Gens : running[h] # q
        /\ \A r \in Procs : loop[r].child # q
    BY <1>4, UnusedSlot DEF Spawnable
  <2> HIDE DEF g
  <2>5. TypeOK'
    BY <1>1, <1>2, <1>4, <2>2, <2>3 DEF IInv, TypeOK, LoopRecords, ProcRecords, historyVars, driverVars
  <2>6. Named' /\ Tracked'
    BY <1>1, <2>3, <2>4, Parts DEF Named, Tracked
  <2>7. Restarts' /\ Apart'
    BY <1>1, <2>1, <2>2, <2>3, <2>4, Parts DEF Restarts, Apart, driverVars
  <2>8. Held' /\ ProxyServesCurrent'
    BY <1>1, <1>2, <1>4, <2>3, <2>4, Parts DEF Held, ProxyServesCurrent, HoldStates, StopStates, driverVars
  <2> QED
    BY <1>2, <2>5, <2>6, <2>7, <2>8 DEF IInv
<1> QED
  BY <1>3, <1>4 DEF LoopWakes

\* What a loop's child is when the loop's wait for it ends.
LEMMA ChildFacts ==
  ASSUME IInv, NEW p \in Procs, loop[p].st = "start"
  PROVE  /\ loop[p].gen \in Gens /\ loop[p].child \in Procs
         /\ proc[loop[p].child].gen = loop[p].gen /\ proc[loop[p].child].st = "starting"
         /\ loop[p].child # held
         /\ \A g \in Gens : running[g] # loop[p].child
         /\ \A q \in Procs : loop[q].child = loop[p].child => q = p
<1>1. /\ loop[p].gen \in Gens /\ loop[p].child \in Procs
      /\ proc[loop[p].child].gen = loop[p].gen /\ proc[loop[p].child].st = "starting"
  BY Parts DEF Restarts
<1>2. loop[p].child # held
  BY <1>1, Parts DEF Apart, Held, HoldStates
<1>3. \A g \in Gens : running[g] # loop[p].child
  BY <1>1, Parts DEF Tracked
<1>4. ASSUME NEW q \in Procs, loop[q].child = loop[p].child PROVE q = p
  <2>1. loop[q].st \in LoopStates
    BY Parts DEF TypeOK
  <2> QED
    BY <1>1, <1>4, <2>1, Parts DEF Restarts, Apart, LoopStates
<1> QED
  BY <1>1, <1>2, <1>3, <1>4

\* A ready child is tracked under the generation of its loop.
LEMMA LoopReadyKeeps ==
  ASSUME IInv, NEW p \in Procs, LoopReady(p)
  PROVE  IInv'
<1> DEFINE g == loop[p].gen
           q == loop[p].child
<1>1. loop[p].st = "start" /\ UNCHANGED <<engineVars, plan, historyVars, accepting, current, url, exits, driverVars>>
  BY DEF LoopReady
<1>2. /\ g \in Gens /\ q \in Procs /\ proc[q].gen = g /\ proc[q].st = "starting" /\ q # held
      /\ \A h \in Gens : running[h] # q
      /\ \A r \in Procs : loop[r].child = q => r = p
  BY <1>1, ChildFacts
<1>3. Control' /\ Positions' /\ EngineTypeOK' /\ StopTarget' = StopTarget /\ EnsureTarget' = EnsureTarget
  BY <1>1, DriverLeft
<1>4. /\ proc' \in [Procs -> ProcRecords]
      /\ \A r \in Procs : /\ proc'[r].gen = proc[r].gen
                          /\ proc'[r].st = IF r = q THEN "live" ELSE proc[r].st
  BY <1>2, ProcSet DEF LoopReady, IInv, ProcStates
<1>5. /\ running' \in [Gens -> 0..MaxProcs]
      /\ \A h \in Gens : running'[h] = IF h = g THEN q ELSE running[h]
  <2>1. q \in 0..MaxProcs
    BY <1>2, HostAssumption DEF Procs
  <2> QED
    BY <1>2, <2>1, RunningSet DEF LoopReady, IInv
<1>6. /\ loop' \in [Procs -> LoopRecords]
      /\ \A r \in Procs : /\ loop'[r].gen = loop[r].gen /\ loop'[r].child = loop[r].child
                          /\ loop'[r].st = IF r = p THEN "registered" ELSE loop[r].st
  BY DEF LoopReady, IInv, TypeOK, LoopRecords, LoopStates
<1>7. TypeOK'
  BY <1>1, <1>3, <1>4, <1>5, <1>6 DEF IInv, TypeOK, LoopRecords, ProcRecords, historyVars, driverVars
<1>8. Named' /\ ProxyServesCurrent'
  BY <1>1, <1>2, <1>4, Parts DEF Named, ProxyServesCurrent
<1>9. Tracked'
  BY <1>2, <1>4, <1>5, Parts DEF Tracked
<1>10. Restarts' /\ Apart'
  BY <1>1, <1>2, <1>4, <1>6, Parts DEF Restarts, Apart, driverVars
<1>11. Held'
  BY <1>1, <1>2, <1>3, <1>4, Parts DEF Held, HoldStates, StopStates, driverVars
<1> QED
  BY <1>3, <1>7, <1>8, <1>9, <1>10, <1>11 DEF IInv

\* A child that fails to start is forgotten.
LEMMA LoopFailsKeeps ==
  ASSUME IInv, NEW p \in Procs, LoopFails(p)
  PROVE  IInv'
<1> DEFINE g == loop[p].gen
           q == loop[p].child
           end == IF current = g /\ running[g] = 0 THEN [gen |-> g, st |-> "sleep", child |-> 0] ELSE NoLoop
<1>1. /\ loop[p].st = "start"
      /\ UNCHANGED <<engineVars, plan, historyVars, accepting, current, url, running, exits, driverVars>>
  BY DEF LoopFails
<1>2. /\ g \in Gens /\ q \in Procs /\ proc[q].gen = g /\ proc[q].st = "starting" /\ q # held
      /\ \A h \in Gens : running[h] # q
      /\ \A r \in Procs : loop[r].child = q => r = p
  BY <1>1, ChildFacts
<1>3. Control' /\ Positions' /\ EngineTypeOK' /\ StopTarget' = StopTarget /\ EnsureTarget' = EnsureTarget
  BY <1>1, DriverLeft
<1>4. /\ proc' \in [Procs -> ProcRecords]
      /\ \A r \in Procs : /\ proc'[r].gen = proc[r].gen
                          /\ proc'[r].st = IF r = q THEN "gone" ELSE proc[r].st
  BY <1>2, ProcSet DEF LoopFails, IInv, ProcStates
<1>5. end \in LoopRecords /\ end.st \in {"none", "sleep"} /\ end.child = 0 /\ (end.st = "sleep" => end.gen = g)
  BY <1>2, LoopValues
<1>6. loop' = [loop EXCEPT ![p] = end]
  BY DEF LoopFails
<1> HIDE DEF end
<1>7. loop' \in [Procs -> LoopRecords] /\ \A r \in Procs : loop'[r] = IF r = p THEN end ELSE loop[r]
  BY <1>5, <1>6, LoopSet DEF IInv
<1> HIDE DEF g, q
<1>8. TypeOK'
  BY <1>1, <1>3, <1>4, <1>7 DEF IInv, TypeOK, LoopRecords, ProcRecords, historyVars, driverVars
<1>9. Named' /\ ProxyServesCurrent' /\ Tracked'
  BY <1>1, <1>2, <1>4, Parts DEF Named, ProxyServesCurrent, Tracked
<1>10. Restarts' /\ Apart'
  BY <1>1, <1>2, <1>4, <1>5, <1>7, Parts DEF Restarts, Apart, driverVars
<1>11. Held'
  BY <1>1, <1>2, <1>3, <1>4, Parts DEF Held, HoldStates, StopStates, driverVars
<1> QED
  BY <1>3, <1>8, <1>9, <1>10, <1>11 DEF IInv

\* The proxy is switched to the child only while its generation is current.
LEMMA LoopSwitchesKeeps ==
  ASSUME IInv, NEW p \in Procs, LoopSwitches(p)
  PROVE  IInv'
<1> DEFINE g == loop[p].gen
           q == loop[p].child
           end == IF current = g /\ running[g] = 0 THEN [gen |-> g, st |-> "sleep", child |-> 0] ELSE NoLoop
<1>1. /\ loop[p].st = "registered" /\ url' = IF current = g THEN q ELSE url
      /\ UNCHANGED <<engineVars, plan, historyVars, accepting, current, running, proc, exits, driverVars>>
  BY DEF LoopSwitches
<1>2. g \in Gens /\ q \in Procs /\ proc[q].gen = g
  BY <1>1 DEF IInv, Restarts
<1>3. Control' /\ Positions' /\ EngineTypeOK' /\ StopTarget' = StopTarget /\ EnsureTarget' = EnsureTarget
  BY <1>1, DriverLeft
<1>4. end \in LoopRecords /\ end.st \in {"none", "sleep"} /\ end.child = 0 /\ (end.st = "sleep" => end.gen = g)
  BY <1>2, LoopValues
<1>5. loop' = [loop EXCEPT ![p] = end]
  BY DEF LoopSwitches
<1> HIDE DEF end
<1>6. loop' \in [Procs -> LoopRecords] /\ \A r \in Procs : loop'[r] = IF r = p THEN end ELSE loop[r]
  BY <1>4, <1>5, LoopSet DEF IInv
<1>7. url' \in 0..MaxProcs
  BY <1>1, <1>2, HostAssumption DEF IInv, TypeOK, Procs
<1>8. TypeOK'
  BY <1>1, <1>3, <1>6, <1>7 DEF IInv, TypeOK, LoopRecords, historyVars, driverVars
<1>9. Named' /\ ProxyServesCurrent' /\ Tracked'
  BY <1>1, <1>2, Parts DEF Named, ProxyServesCurrent, Tracked
<1>10. Restarts' /\ Apart'
  BY <1>1, <1>2, <1>4, <1>6, Parts DEF Restarts, Apart, driverVars
<1>11. Held'
  BY <1>1, <1>3, Parts DEF Held, HoldStates, StopStates, driverVars
<1> QED
  BY <1>3, <1>8, <1>9, <1>10, <1>11 DEF IInv

\* A child that cannot be recorded is killed; it stays what it was to everyone.
LEMMA LoopUnrecordedKeeps ==
  ASSUME IInv, NEW p \in Procs, LoopUnrecorded(p)
  PROVE  IInv'
<1> DEFINE q == loop[p].child
<1>1. /\ loop[p].st = "registered" /\ exits' \in 0..MaxExits
      /\ UNCHANGED <<engineVars, plan, historyVars, accepting, current, url, running, driverVars>>
  BY HostAssumption DEF LoopUnrecorded, IInv, TypeOK
<1>2. q \in Procs /\ proc[q].st # "starting"
  BY <1>1, Parts DEF Restarts
<1>3. Control' /\ Positions' /\ EngineTypeOK' /\ StopTarget' = StopTarget /\ EnsureTarget' = EnsureTarget
  BY <1>1, DriverLeft
<1>4. /\ proc' \in [Procs -> ProcRecords]
      /\ \A r \in Procs : /\ proc'[r].gen = proc[r].gen
                          /\ proc'[r].st = IF r = q /\ proc[r].st = "live" THEN "exited" ELSE proc[r].st
  BY <1>2, Parts DEF LoopUnrecorded, TypeOK, ProcRecords, ProcStates
<1>5. /\ loop' \in [Procs -> LoopRecords]
      /\ \A r \in Procs : /\ loop'[r].gen = loop[r].gen /\ loop'[r].child = loop[r].child
                          /\ loop'[r].st = IF r = p THEN "reaping" ELSE loop[r].st
  BY DEF LoopUnrecorded, IInv, TypeOK, LoopRecords, LoopStates
<1> HIDE DEF q
<1>6. TypeOK'
  BY <1>1, <1>3, <1>4, <1>5 DEF IInv, TypeOK, LoopRecords, ProcRecords, historyVars, driverVars
<1>7. Named' /\ ProxyServesCurrent' /\ Tracked'
  BY <1>1, <1>2, <1>4, Parts DEF Named, ProxyServesCurrent, Tracked
<1>8. Restarts' /\ Apart'
  BY <1>1, <1>2, <1>4, <1>5, Parts DEF Restarts, Apart, driverVars
<1>9. Held'
  BY <1>1, <1>2, <1>3, <1>4, Parts DEF Held, HoldStates, StopStates, driverVars
<1> QED
  BY <1>3, <1>6, <1>7, <1>8, <1>9 DEF IInv

\* The loop whose child was killed goes on or ends, and touches nothing else.
LEMMA LoopReapedKeeps ==
  ASSUME IInv, NEW p \in Procs, LoopReaped(p)
  PROVE  IInv'
<1> DEFINE g == loop[p].gen
           end == IF current = g /\ running[g] = 0 THEN [gen |-> g, st |-> "sleep", child |-> 0] ELSE NoLoop
<1>1. /\ loop[p].st = "reaping"
      /\ UNCHANGED <<engineVars, plan, historyVars, accepting, current, url, running, proc, exits, driverVars>>
  BY DEF LoopReaped
<1>2. g \in Gens
  BY <1>1, Parts DEF Restarts
<1>3. Control' /\ Positions' /\ EngineTypeOK' /\ StopTarget' = StopTarget /\ EnsureTarget' = EnsureTarget
  BY <1>1, DriverLeft
<1>4. end \in LoopRecords /\ end.st \in {"none", "sleep"} /\ end.child = 0 /\ (end.st = "sleep" => end.gen = g)
  BY <1>2, LoopValues
<1>5. loop' = [loop EXCEPT ![p] = end]
  BY DEF LoopReaped
<1> HIDE DEF end
<1>6. loop' \in [Procs -> LoopRecords] /\ \A r \in Procs : loop'[r] = IF r = p THEN end ELSE loop[r]
  BY <1>4, <1>5, LoopSet DEF IInv
<1>7. TypeOK'
  BY <1>1, <1>3, <1>6 DEF IInv, TypeOK, LoopRecords, historyVars, driverVars
<1>8. Named' /\ ProxyServesCurrent' /\ Tracked'
  BY <1>1, Parts DEF Named, ProxyServesCurrent, Tracked
<1>9. Restarts' /\ Apart'
  BY <1>1, <1>2, <1>4, <1>6, Parts DEF Restarts, Apart, driverVars
<1>10. Held'
  BY <1>1, <1>3, Parts DEF Held, HoldStates, StopStates, driverVars
<1> QED
  BY <1>3, <1>7, <1>8, <1>9, <1>10 DEF IInv

-----------------------------------------------------------------------------
(* The machine driver's steps that hold on to no process. *)

\* Outside the states that hold a process there is nothing to say of one.
LEMMA NoHold ==
  ASSUME drv' \notin HoldStates, held' = 0
  PROVE  Held'
  BY DEF Held, HoldStates

\* The driver's methods begin, each at the place its method leads to.
LEMMA DrainKeeps ==
  ASSUME IInv, Drain
  PROVE  IInv'
<1>1. held = 0 /\ call.status = "open" /\ call.target = 1
  BY Parts DEF Drain, Control, Held, HoldStates, StopStates, Begin, Machine
<1>2. UNCHANGED <<engineCore, plan, broken, current, url, running, proc, loop, exits, held>>
  BY DEF Drain, hostVars, historyVars
<1>3. Goto("stop")
  BY DEF Drain
<1>4. Moved /\ (drv' \in {"stop"} /\ call' = call)
  <2>1. ASSUME NEW d \in {"stop"}, Goto(d) PROVE Moved /\ drv' = d /\ call' = call
    BY <1>1, <1>2, <2>1, Parts, Going DEF DriverStates
  <2> QED
    BY <1>3, <2>1
<1>5. EngineTypeOK' /\ Control' /\ plan \in Gens
  BY <1>4, MovedEngine
<1>6. /\ accepting' \in BOOLEAN /\ overlapped' \in BOOLEAN /\ frontend' = frontend
      /\ record' \in [prev : 0..MaxPlans, restored : BOOLEAN, present : BOOLEAN]
      /\ files' \in [current : 0..MaxPlans, selection : 0..MaxPlans]
  BY <1>1, Parts, HostAssumption DEF Drain, TypeOK, NoRecord, historyVars, hostVars
<1>7. TypeOK'
  BY <1>2, <1>4, <1>5, <1>6, Parts DEF TypeOK, Moved
<1>8. Positions'
  BY <1>1, <1>2, <1>3, <1>4, <1>5, Parts
     DEF Positions, StopStates, Drain, EnsureTarget, Gens, Goto, Return, TypeOK, Begin, Machine
<1> QED
  BY <1>1, <1>2, <1>4, <1>5, <1>7, <1>8, HostLeft, NoHold DEF IInv, HoldStates, StopStates

\* The same for Stage.
LEMMA StageKeeps ==
  ASSUME IInv, Stage
  PROVE  IInv'
<1>1. held = 0 /\ call.status = "open" /\ call.target = 1
  BY Parts DEF Stage, Control, Held, HoldStates, StopStates, Begin, Machine
<1>2. UNCHANGED <<engineCore, plan, broken, current, url, running, proc, loop, exits, held>>
  BY DEF Stage, hostVars, historyVars
<1>3. Goto("checkpoint")
  BY DEF Stage
<1>4. Moved /\ (drv' \in {"checkpoint"} /\ call' = call)
  <2>1. ASSUME NEW d \in {"checkpoint"}, Goto(d) PROVE Moved /\ drv' = d /\ call' = call
    BY <1>1, <1>2, <2>1, Parts, Going DEF DriverStates
  <2> QED
    BY <1>3, <2>1
<1>5. EngineTypeOK' /\ Control' /\ plan \in Gens
  BY <1>4, MovedEngine
<1>6. /\ accepting' \in BOOLEAN /\ overlapped' \in BOOLEAN /\ frontend' = frontend
      /\ record' \in [prev : 0..MaxPlans, restored : BOOLEAN, present : BOOLEAN]
      /\ files' \in [current : 0..MaxPlans, selection : 0..MaxPlans]
  BY <1>1, Parts, HostAssumption DEF Stage, TypeOK, NoRecord, historyVars, hostVars
<1>7. TypeOK'
  BY <1>2, <1>4, <1>5, <1>6, Parts DEF TypeOK, Moved
<1>8. Positions'
  BY <1>1, <1>2, <1>3, <1>4, <1>5, Parts
     DEF Positions, StopStates, Stage, EnsureTarget, Gens, Goto, Return, TypeOK, Begin, Machine
<1> QED
  BY <1>1, <1>2, <1>4, <1>5, <1>7, <1>8, HostLeft, NoHold DEF IInv, HoldStates, StopStates

\* The same for Checkpoint.
LEMMA CheckpointKeeps ==
  ASSUME IInv, Checkpoint
  PROVE  IInv'
<1>1. held = 0 /\ call.status = "open" /\ call.target = 1
  BY Parts DEF Checkpoint, Control, Held, HoldStates, StopStates
<1>2. UNCHANGED <<engineCore, plan, broken, current, url, running, proc, loop, exits, held>>
  BY DEF Checkpoint, hostVars, historyVars
<1>3. Return("ok") \/ Return("err")
  BY DEF Checkpoint
<1>4. Moved /\ (drv' = "none")
  <2>2. ASSUME NEW s \in {"ok", "err"}, Return(s) PROVE Moved /\ drv' = "none"
    BY <1>1, <1>2, <2>2, Parts, Returning
  <2> QED
    BY <1>3, <2>2
<1>5. EngineTypeOK' /\ Control' /\ plan \in Gens
  BY <1>4, MovedEngine
<1>6. /\ accepting' \in BOOLEAN /\ overlapped' \in BOOLEAN /\ frontend' = frontend
      /\ record' \in [prev : 0..MaxPlans, restored : BOOLEAN, present : BOOLEAN]
      /\ files' \in [current : 0..MaxPlans, selection : 0..MaxPlans]
  <2>1. [prev |-> current, restored |-> FALSE, present |-> TRUE]
          \in [prev : 0..MaxPlans, restored : BOOLEAN, present : BOOLEAN]
    BY Parts DEF TypeOK
  <2>2. record' = record \/ record' = [prev |-> current, restored |-> FALSE, present |-> TRUE]
    BY DEF Checkpoint
  <2> QED
    BY <2>1, <2>2, Parts DEF Checkpoint, TypeOK, historyVars, hostVars
<1>7. TypeOK'
  BY <1>2, <1>4, <1>5, <1>6, Parts DEF TypeOK, Moved
<1>8. Positions'
  BY <1>1, <1>2, <1>3, <1>4, <1>5, Parts
     DEF Positions, StopStates, Checkpoint, EnsureTarget, Gens, Goto, Return, TypeOK
<1> QED
  BY <1>1, <1>2, <1>4, <1>5, <1>7, <1>8, HostLeft, NoHold DEF IInv, HoldStates, StopStates

\* The same for Activate.
LEMMA ActivateKeeps ==
  ASSUME IInv, Activate
  PROVE  IInv'
<1>1. held = 0 /\ call.status = "open" /\ call.target = 1
  BY Parts DEF Activate, Control, Held, HoldStates, StopStates, Begin, Machine
<1>2. UNCHANGED <<engineCore, plan, broken, current, url, running, proc, loop, exits, held>>
  BY DEF Activate, hostVars, historyVars
<1>3. Goto("ensure")
  BY DEF Activate
<1>4. Moved /\ (drv' \in {"ensure"} /\ call' = call)
  <2>1. ASSUME NEW d \in {"ensure"}, Goto(d) PROVE Moved /\ drv' = d /\ call' = call
    BY <1>1, <1>2, <2>1, Parts, Going DEF DriverStates
  <2> QED
    BY <1>3, <2>1
<1>5. EngineTypeOK' /\ Control' /\ plan \in Gens
  BY <1>4, MovedEngine
<1>6. /\ accepting' \in BOOLEAN /\ overlapped' \in BOOLEAN /\ frontend' = frontend
      /\ record' \in [prev : 0..MaxPlans, restored : BOOLEAN, present : BOOLEAN]
      /\ files' \in [current : 0..MaxPlans, selection : 0..MaxPlans]
  BY <1>1, Parts, HostAssumption DEF Activate, TypeOK, NoRecord, historyVars, hostVars
<1>7. TypeOK'
  BY <1>2, <1>4, <1>5, <1>6, Parts DEF TypeOK, Moved
<1>8. Positions'
  BY <1>1, <1>2, <1>3, <1>4, <1>5, Parts
     DEF Positions, StopStates, Activate, EnsureTarget, Gens, Goto, Return, TypeOK, Begin, Machine
<1> QED
  BY <1>1, <1>2, <1>4, <1>5, <1>7, <1>8, HostLeft, NoHold DEF IInv, HoldStates, StopStates

\* The same for Health.
LEMMA HealthKeeps ==
  ASSUME IInv, Health
  PROVE  IInv'
<1>1. held = 0 /\ call.status = "open" /\ call.target = 1
  BY Parts DEF Health, Control, Held, HoldStates, StopStates, Begin, Machine
<1>2. UNCHANGED <<engineCore, plan, broken, current, url, running, proc, loop, exits, held>>
  BY DEF Health, hostVars, historyVars
<1>3. Return("ok") \/ Return("err")
  BY DEF Health
<1>4. Moved /\ (drv' = "none")
  <2>2. ASSUME NEW s \in {"ok", "err"}, Return(s) PROVE Moved /\ drv' = "none"
    BY <1>1, <1>2, <2>2, Parts, Returning
  <2> QED
    BY <1>3, <2>2
<1>5. EngineTypeOK' /\ Control' /\ plan \in Gens
  BY <1>4, MovedEngine
<1>6. /\ accepting' \in BOOLEAN /\ overlapped' \in BOOLEAN /\ frontend' = frontend
      /\ record' \in [prev : 0..MaxPlans, restored : BOOLEAN, present : BOOLEAN]
      /\ files' \in [current : 0..MaxPlans, selection : 0..MaxPlans]
  BY <1>1, Parts, HostAssumption DEF Health, TypeOK, NoRecord, historyVars, hostVars
<1>7. TypeOK'
  BY <1>2, <1>4, <1>5, <1>6, Parts DEF TypeOK, Moved
<1>8. Positions'
  BY <1>1, <1>2, <1>3, <1>4, <1>5, Parts
     DEF Positions, StopStates, Health, EnsureTarget, Gens, Goto, Return, TypeOK, Begin, Machine
<1> QED
  BY <1>1, <1>2, <1>4, <1>5, <1>7, <1>8, HostLeft, NoHold DEF IInv, HoldStates, StopStates

\* The same for Commit.
LEMMA CommitKeeps ==
  ASSUME IInv, Commit
  PROVE  IInv'
<1>1. held = 0 /\ call.status = "open" /\ call.target = 1
  BY Parts DEF Commit, Control, Held, HoldStates, StopStates, Begin, Machine
<1>2. UNCHANGED <<engineCore, plan, broken, current, url, running, proc, loop, exits, held>>
  BY DEF Commit, hostVars, historyVars
<1>3. Return("err") \/ Goto("ensure")
  BY DEF Commit
<1>4. Moved /\ ((drv' = "none") \/ (drv' \in {"ensure"} /\ call' = call))
  <2>1. ASSUME NEW d \in {"ensure"}, Goto(d) PROVE Moved /\ drv' = d /\ call' = call
    BY <1>1, <1>2, <2>1, Parts, Going DEF DriverStates
  <2>2. ASSUME NEW s \in {"ok", "err"}, Return(s) PROVE Moved /\ drv' = "none"
    BY <1>1, <1>2, <2>2, Parts, Returning
  <2> QED
    BY <1>3, <2>1, <2>2
<1>5. EngineTypeOK' /\ Control' /\ plan \in Gens
  BY <1>4, MovedEngine
<1>6. /\ accepting' \in BOOLEAN /\ overlapped' \in BOOLEAN /\ frontend' = frontend
      /\ record' \in [prev : 0..MaxPlans, restored : BOOLEAN, present : BOOLEAN]
      /\ files' \in [current : 0..MaxPlans, selection : 0..MaxPlans]
  BY <1>1, Parts, HostAssumption DEF Commit, TypeOK, NoRecord, historyVars, hostVars
<1>7. TypeOK'
  BY <1>2, <1>4, <1>5, <1>6, Parts DEF TypeOK, Moved
<1>8. Positions'
  BY <1>1, <1>2, <1>3, <1>4, <1>5, Parts
     DEF Positions, StopStates, Commit, EnsureTarget, Gens, Goto, Return, TypeOK, Begin, Machine
<1> QED
  BY <1>1, <1>2, <1>4, <1>5, <1>7, <1>8, HostLeft, NoHold DEF IInv, HoldStates, StopStates

\* The same for Finalize.
LEMMA FinalizeKeeps ==
  ASSUME IInv, Finalize
  PROVE  IInv'
<1>1. held = 0 /\ call.status = "open" /\ call.target = 1
  BY Parts DEF Finalize, Control, Held, HoldStates, StopStates, Begin, Machine
<1>2. UNCHANGED <<engineCore, plan, broken, current, url, running, proc, loop, exits, held>>
  BY DEF Finalize, hostVars, historyVars
<1>3. Return("ok") \/ Goto("stop") \/ Goto("cleanup")
  BY DEF Finalize
<1>4. Moved /\ ((drv' = "none") \/ (drv' \in {"stop", "cleanup"} /\ call' = call))
  <2>1. ASSUME NEW d \in {"stop", "cleanup"}, Goto(d) PROVE Moved /\ drv' = d /\ call' = call
    BY <1>1, <1>2, <2>1, Parts, Going DEF DriverStates
  <2>2. ASSUME NEW s \in {"ok", "err"}, Return(s) PROVE Moved /\ drv' = "none"
    BY <1>1, <1>2, <2>2, Parts, Returning
  <2> QED
    BY <1>3, <2>1, <2>2
<1>5. EngineTypeOK' /\ Control' /\ plan \in Gens
  BY <1>4, MovedEngine
<1>6. /\ accepting' \in BOOLEAN /\ overlapped' \in BOOLEAN /\ frontend' = frontend
      /\ record' \in [prev : 0..MaxPlans, restored : BOOLEAN, present : BOOLEAN]
      /\ files' \in [current : 0..MaxPlans, selection : 0..MaxPlans]
  BY <1>1, Parts, HostAssumption DEF Finalize, TypeOK, NoRecord, historyVars, hostVars
<1>7. TypeOK'
  BY <1>2, <1>4, <1>5, <1>6, Parts DEF TypeOK, Moved
<1>8. Positions'
  BY <1>1, <1>2, <1>3, <1>4, <1>5, Parts
     DEF Positions, StopStates, Finalize, EnsureTarget, Gens, Goto, Return, TypeOK, Begin, Machine
<1> QED
  BY <1>1, <1>2, <1>4, <1>5, <1>7, <1>8, HostLeft, NoHold DEF IInv, HoldStates, StopStates

\* The same for Rollback.
LEMMA RollbackKeeps ==
  ASSUME IInv, Rollback
  PROVE  IInv'
<1>1. held = 0 /\ call.status = "open" /\ call.target = 1
  BY Parts DEF Rollback, Control, Held, HoldStates, StopStates, Begin, Machine
<1>2. UNCHANGED <<engineCore, plan, broken, current, url, running, proc, loop, exits, held>>
  BY DEF Rollback, hostVars, historyVars
<1>3. Return("ok") \/ Goto("stop") \/ Goto("cleanup")
  BY DEF Rollback
<1>4. Moved /\ ((drv' = "none") \/ (drv' \in {"stop", "cleanup"} /\ call' = call))
  <2>1. ASSUME NEW d \in {"stop", "cleanup"}, Goto(d) PROVE Moved /\ drv' = d /\ call' = call
    BY <1>1, <1>2, <2>1, Parts, Going DEF DriverStates
  <2>2. ASSUME NEW s \in {"ok", "err"}, Return(s) PROVE Moved /\ drv' = "none"
    BY <1>1, <1>2, <2>2, Parts, Returning
  <2> QED
    BY <1>3, <2>1, <2>2
<1>5. EngineTypeOK' /\ Control' /\ plan \in Gens
  BY <1>4, MovedEngine
<1>6. /\ accepting' \in BOOLEAN /\ overlapped' \in BOOLEAN /\ frontend' = frontend
      /\ record' \in [prev : 0..MaxPlans, restored : BOOLEAN, present : BOOLEAN]
      /\ files' \in [current : 0..MaxPlans, selection : 0..MaxPlans]
  BY <1>1, Parts, HostAssumption DEF Rollback, TypeOK, NoRecord, historyVars, hostVars
<1>7. TypeOK'
  BY <1>2, <1>4, <1>5, <1>6, Parts DEF TypeOK, Moved
<1>8. Positions'
  BY <1>1, <1>2, <1>3, <1>4, <1>5, Parts
     DEF Positions, StopStates, Rollback, EnsureTarget, Gens, Goto, Return, TypeOK, Begin, Machine
<1> QED
  BY <1>1, <1>2, <1>4, <1>5, <1>7, <1>8, HostLeft, NoHold DEF IInv, HoldStates, StopStates

\* current.json is written by a commit or a rollback, which hold no process any more.
LEMMA WritePointerKeeps ==
  ASSUME IInv, WritePointer
  PROVE  IInv'
<1>1. held = 0 /\ call.status = "open" /\ call.target = 1
  BY Parts DEF WritePointer, Control, Held, HoldStates, StopStates
<1>2. UNCHANGED <<engineCore, plan, broken, current, url, running, proc, loop, exits, held>>
  BY DEF WritePointer, hostVars, historyVars
<1>3. Return("ok") \/ Return("err") \/ Goto("cleanup")
  BY DEF WritePointer
<1>4. Moved /\ ((drv' = "none") \/ (drv' \in {"cleanup"} /\ call' = call))
  <2>1. ASSUME NEW d \in {"cleanup"}, Goto(d) PROVE Moved /\ drv' = d /\ call' = call
    BY <1>1, <1>2, <2>1, Parts, Going DEF DriverStates
  <2>2. ASSUME NEW s \in {"ok", "err"}, Return(s) PROVE Moved /\ drv' = "none"
    BY <1>1, <1>2, <2>2, Parts, Returning
  <2> QED
    BY <1>3, <2>1, <2>2
<1>5. EngineTypeOK' /\ Control' /\ plan \in Gens
  BY <1>4, MovedEngine
<1>6. /\ accepting' \in BOOLEAN /\ overlapped' \in BOOLEAN /\ frontend' = frontend
      /\ record' \in [prev : 0..MaxPlans, restored : BOOLEAN, present : BOOLEAN]
      /\ files' \in [current : 0..MaxPlans, selection : 0..MaxPlans]
  <2>1. EnsureTarget \in 0..MaxPlans
    BY Parts DEF EnsureTarget, TypeOK
  <2>2. files' = files \/ files' = [files EXCEPT !.current = EnsureTarget]
    BY DEF WritePointer
  <2>3. record' = record \/ record' = [record EXCEPT !.restored = TRUE]
    BY DEF WritePointer
  <2>4. files' \in [current : 0..MaxPlans, selection : 0..MaxPlans]
    BY <2>1, <2>2, Parts DEF TypeOK
  <2>5. record' \in [prev : 0..MaxPlans, restored : BOOLEAN, present : BOOLEAN]
    BY <2>3, Parts DEF TypeOK
  <2> QED
    BY <2>4, <2>5, Parts DEF WritePointer, TypeOK, historyVars, hostVars
<1>7. TypeOK'
  BY <1>2, <1>4, <1>5, <1>6, Parts DEF TypeOK, Moved
<1>8. Positions'
  BY <1>1, <1>2, <1>3, <1>4, <1>5, Parts
     DEF Positions, StopStates, WritePointer, EnsureTarget, Gens, Goto, Return, TypeOK
<1> QED
  BY <1>1, <1>2, <1>4, <1>5, <1>7, <1>8, HostLeft, NoHold DEF IInv, HoldStates, StopStates

\* The restore goes on to the predecessor only when there is one.
LEMMA RestoreKeeps ==
  ASSUME IInv, Restore
  PROVE  IInv'
<1>1. held = 0 /\ call.status = "open" /\ call.target = 1
  BY Parts DEF Restore, Control, Held, HoldStates, StopStates
<1>2. UNCHANGED <<engineCore, plan, broken, current, url, running, proc, loop, exits, held>>
  BY DEF Restore, hostVars, historyVars
<1>3. Return("err") \/ Goto("ensure") \/ Goto("cleanup")
  BY DEF Restore
<1>4. Moved /\ ((drv' = "none") \/ (drv' \in {"ensure", "cleanup"} /\ call' = call))
  <2>1. ASSUME NEW d \in {"ensure", "cleanup"}, Goto(d) PROVE Moved /\ drv' = d /\ call' = call
    BY <1>1, <1>2, <2>1, Parts, Going DEF DriverStates
  <2>2. ASSUME NEW s \in {"ok", "err"}, Return(s) PROVE Moved /\ drv' = "none"
    BY <1>1, <1>2, <2>2, Parts, Returning
  <2> QED
    BY <1>3, <2>1, <2>2
<1>5. EngineTypeOK' /\ Control' /\ plan \in Gens
  BY <1>4, MovedEngine
<1>6. /\ accepting' \in BOOLEAN /\ overlapped' \in BOOLEAN /\ frontend' = frontend
      /\ record' \in [prev : 0..MaxPlans, restored : BOOLEAN, present : BOOLEAN]
      /\ files' \in [current : 0..MaxPlans, selection : 0..MaxPlans]
  BY <1>1, Parts, HostAssumption DEF Restore, TypeOK, NoRecord, historyVars, hostVars
<1>7. TypeOK'
  BY <1>2, <1>4, <1>5, <1>6, Parts DEF TypeOK, Moved
<1>8. Positions'
  BY <1>1, <1>2, <1>3, <1>4, <1>5, Parts, SMTT(30)
     DEF Positions, StopStates, Restore, EnsureTarget, Gens, Goto, Return, TypeOK
<1> QED
  BY <1>1, <1>2, <1>4, <1>5, <1>7, <1>8, HostLeft, NoHold DEF IInv, HoldStates, StopStates

\* The cleanup forgets the record when nothing is held.
LEMMA CleanupKeeps ==
  ASSUME IInv, Cleanup
  PROVE  IInv'
<1>1. held = 0 /\ call.status = "open" /\ call.target = 1
  BY Parts DEF Cleanup, Control, Held, HoldStates, StopStates
<1>2. UNCHANGED <<engineCore, plan, broken, current, url, running, proc, loop, exits, held>>
  BY DEF Cleanup, hostVars, historyVars
<1>3. Return("ok") \/ Return("err")
  BY DEF Cleanup
<1>4. Moved /\ (drv' = "none")
  <2>2. ASSUME NEW s \in {"ok", "err"}, Return(s) PROVE Moved /\ drv' = "none"
    BY <1>1, <1>2, <2>2, Parts, Returning
  <2> QED
    BY <1>3, <2>2
<1>5. EngineTypeOK' /\ Control' /\ plan \in Gens
  BY <1>4, MovedEngine
<1>6. /\ accepting' \in BOOLEAN /\ overlapped' \in BOOLEAN /\ frontend' = frontend
      /\ record' \in [prev : 0..MaxPlans, restored : BOOLEAN, present : BOOLEAN]
      /\ files' \in [current : 0..MaxPlans, selection : 0..MaxPlans]
  <2>1. NoRecord \in [prev : 0..MaxPlans, restored : BOOLEAN, present : BOOLEAN]
    BY HostAssumption DEF NoRecord
  <2>2. record' \in {record, NoRecord} /\ accepting' \in {accepting, TRUE}
    BY DEF Cleanup
  <2> QED
    BY <2>1, <2>2, Parts DEF Cleanup, TypeOK, historyVars
<1>7. TypeOK'
  BY <1>2, <1>4, <1>5, <1>6, Parts DEF TypeOK, Moved
<1>8. Positions'
  BY <1>1, <1>2, <1>3, <1>4, <1>5, Parts
     DEF Positions, StopStates, Cleanup, EnsureTarget, Gens, Goto, Return, TypeOK
<1> QED
  BY <1>1, <1>2, <1>4, <1>5, <1>7, <1>8, HostLeft, NoHold DEF IInv, HoldStates, StopStates

-----------------------------------------------------------------------------
(* The driver's steps that stop a generation. *)

\* A stop takes hold of the tracked process of its generation.
LEMMA StopBeginsKeeps ==
  ASSUME IInv, StopBegins
  PROVE  IInv'
<1>1. held = 0 /\ call.status = "open" /\ call.target = 1 /\ call.method \in {"drain", "finalize", "rollback"}
  BY Parts DEF StopBegins, Control, Positions, Held, HoldStates, StopStates
<1>2. UNCHANGED <<engineCore, plan, historyVars, hostVars, record, files, frontend>>
  BY DEF StopBegins
<1>3. StopTarget \in 0..MaxPlans /\ (StopTarget' = StopTarget \/ call' # call)
  BY <1>2, Parts DEF StopTarget, TypeOK, hostVars
<1>4. CASE AfterStop /\ UNCHANGED held
  <2>1. Moved /\ (drv' = "none" \/ (drv' \in {"cleanup", "restore"} /\ call' = call))
    <3>1. Return("ok") \/ (call.method # "drain" /\ (Goto("cleanup") \/ Goto("restore")))
      BY <1>4 DEF AfterStop
    <3> QED
      BY <1>1, <1>2, <3>1, Parts, Returning, Going DEF DriverStates
  <2>2. EngineTypeOK' /\ Control'
    BY <2>1, MovedEngine
  <2>3. TypeOK'
    BY <1>2, <1>4, <2>1, <2>2, Parts DEF TypeOK, Moved, historyVars, hostVars
  <2>4. drv' = "restore" => call.method = "rollback"
    BY <1>1, <1>4 DEF AfterStop, Goto, Return
  <2>5. Positions'
    BY <2>1, <2>4, Parts DEF Positions, StopStates
  <2> QED
    BY <1>1, <1>2, <1>4, <2>1, <2>2, <2>3, <2>5, HostLeft, NoHold DEF IInv, HoldStates, StopStates, hostVars
<1>5. CASE ~(StopTarget = 0 \/ running[StopTarget] = 0)
  <2>1. /\ held' = running[StopTarget] /\ (Goto("retire") \/ Goto("exit"))
    BY <1>5 DEF StopBegins
  <2>2. Moved /\ drv' \in {"retire", "exit"} /\ call' = call
    BY <1>1, <1>2, <2>1, Parts, Going DEF DriverStates
  <2>3. EngineTypeOK' /\ Control'
    BY <2>2, MovedEngine
  <2>4. StopTarget \in Gens /\ StopTarget' = StopTarget
    <3>1. StopTarget' = StopTarget
      BY <1>2, <2>2 DEF StopTarget, hostVars
    <3> QED
      BY <1>3, <1>5, <3>1, HostAssumption DEF Gens
  <2>5. held' \in Procs /\ proc[held'].gen = StopTarget /\ proc[held'].st # "starting"
    BY <1>5, <2>1, <2>4, Parts DEF Tracked
  <2>6. TypeOK'
    <3>1. held' \in 0..MaxProcs
      BY <2>5, HostAssumption DEF Procs
    <3> QED
      BY <1>2, <2>2, <2>3, <3>1, Parts DEF TypeOK, Moved, historyVars, hostVars
  <2>7. Positions' /\ Held'
    BY <1>1, <1>2, <2>2, <2>4, <2>5 DEF Positions, Held, HoldStates, StopStates, hostVars
  <2> QED
    BY <1>2, <2>2, <2>3, <2>6, <2>7, HostLeft DEF IInv, hostVars
<1> QED
  BY <1>4, <1>5 DEF StopBegins

\* Where the driver's stop holds a process.
LEMMA StopFacts ==
  ASSUME IInv, drv \in StopStates
  PROVE  /\ call.status = "open" /\ call.target = 1 /\ call.method \in {"drain", "finalize", "rollback"}
         /\ StopTarget \in Gens /\ held \in Procs /\ proc[held].gen = StopTarget /\ proc[held].st # "starting"
  BY Parts DEF Control, Positions, Held, HoldStates, StopStates

\* Retiring keeps hold of the process, or gives the stop up.
LEMMA RetireKeeps ==
  ASSUME IInv, Retire
  PROVE  IInv'
<1>1. /\ call.status = "open" /\ call.target = 1 /\ call.method \in {"drain", "finalize", "rollback"}
      /\ StopTarget \in Gens /\ held \in Procs /\ proc[held].gen = StopTarget /\ proc[held].st # "starting"
  BY StopFacts DEF Retire, StopStates
<1>2. UNCHANGED <<engineCore, plan, historyVars, current, url, running, proc, loop, exits, record, files, frontend>>
  BY DEF Retire
<1>3. \/ Goto("term") /\ UNCHANGED <<accepting, held>>
      \/ Return("err") /\ held' = 0 /\ accepting' \in BOOLEAN
  BY Parts DEF Retire, StopThrows, TypeOK
<1>4. Moved /\ (\/ drv' = "term" /\ call' = call /\ UNCHANGED <<accepting, held>>
                \/ drv' = "none" /\ held' = 0 /\ accepting' \in BOOLEAN)
  BY <1>1, <1>2, <1>3, Parts, Going, Returning DEF DriverStates
<1>5. EngineTypeOK' /\ Control'
  BY <1>4, MovedEngine
<1>6. TypeOK'
  BY <1>2, <1>4, <1>5, HostAssumption, Parts DEF TypeOK, Moved, historyVars
<1>7. Positions' /\ Held'
  <2>1. CASE drv' = "none" /\ held' = 0
    BY <2>1, OverHolds
  <2>2. CASE drv' = "term" /\ call' = call /\ held' = held
    <3>1. StopTarget' = StopTarget
      BY <1>2, <2>2 DEF StopTarget
    <3> QED
      BY <1>1, <1>2, <2>2, <3>1 DEF Positions, Held, HoldStates, StopStates, Gens, Procs
  <2> QED
    BY <1>4, <2>1, <2>2
<1> QED
  BY <1>2, <1>4, <1>5, <1>6, <1>7, HostLeft DEF IInv

\* SIGTERM changes the state of a live process only.
LEMMA TerminateKeeps ==
  ASSUME IInv, Terminate
  PROVE  IInv'
<1> DEFINE s == IF proc[held].st = "live" THEN "stopping" ELSE proc[held].st
<1>1. /\ call.status = "open" /\ call.target = 1 /\ call.method \in {"drain", "finalize", "rollback"}
      /\ StopTarget \in Gens /\ held \in Procs /\ proc[held].gen = StopTarget /\ proc[held].st # "starting"
  BY StopFacts DEF Terminate, StopStates
<1>2. /\ UNCHANGED <<engineCore, plan, historyVars, accepting, current, url, running, loop, exits, held, record, files,
                     frontend>>
      /\ Goto("exit")
  BY DEF Terminate
<1>3. s \in ProcStates /\ s # "starting" /\ (s # proc[held].st => proc[held].st = "live" /\ s = "stopping")
  BY <1>1, Parts DEF TypeOK, ProcStates
<1>4. /\ proc' \in [Procs -> ProcRecords]
      /\ \A q \in Procs : /\ proc'[q].gen = proc[q].gen
                          /\ proc'[q].st = IF q = held THEN s ELSE proc[q].st
  <2>1. proc' = [proc EXCEPT ![held].st = s]
    BY DEF Terminate
  <2> HIDE DEF s
  <2> QED
    BY <1>1, <1>3, <2>1, Parts, ProcSet
<1> HIDE DEF s
<1>5. Moved /\ drv' = "exit" /\ call' = call
  BY <1>1, <1>2, Parts, Going DEF DriverStates
<1>6. EngineTypeOK' /\ Control'
  BY <1>5, MovedEngine
<1>7. TypeOK'
  BY <1>2, <1>4, <1>5, <1>6, Parts DEF TypeOK, Moved, historyVars, ProcRecords
<1>8. StopTarget' = StopTarget
  BY <1>2, <1>5 DEF StopTarget
<1>9. Positions' /\ Held'
  BY <1>1, <1>2, <1>3, <1>4, <1>5, <1>8 DEF Positions, Held, HoldStates, StopStates, Gens, Procs
<1>10. Named' /\ ProxyServesCurrent' /\ Tracked'
  BY <1>1, <1>2, <1>3, <1>4, Parts DEF Named, ProxyServesCurrent, Tracked
<1>11. Restarts' /\ Apart'
  BY <1>1, <1>2, <1>3, <1>4, <1>5, Parts DEF Restarts, Apart
<1> QED
  BY <1>6, <1>7, <1>9, <1>10, <1>11 DEF IInv

\* A stopped process is no longer tracked, and no longer behind the proxy.
LEMMA StopExitsKeeps ==
  ASSUME IInv, StopExits
  PROVE  IInv'
<1> DEFINE s == IF Stopping(held) THEN "gone" ELSE proc[held].st
<1>1. /\ call.status = "open" /\ call.target = 1 /\ call.method \in {"drain", "finalize", "rollback"}
      /\ StopTarget \in Gens /\ held \in Procs /\ proc[held].gen = StopTarget /\ proc[held].st # "starting"
  BY StopFacts DEF StopExits, StopStates
<1>2. /\ UNCHANGED <<engineCore, plan, historyVars, accepting, current, loop, exits, record, files, frontend>>
      /\ held' = 0 /\ AfterStop
      /\ url' = IF current = StopTarget THEN 0 ELSE url
  BY DEF StopExits
<1>3. s \in ProcStates /\ s # "starting" /\ (s # proc[held].st => proc[held].st \in {"stopping", "stuck"} /\ s = "gone")
  BY <1>1, Parts DEF TypeOK, ProcStates, Stopping
<1>4. /\ proc' \in [Procs -> ProcRecords]
      /\ \A q \in Procs : /\ proc'[q].gen = proc[q].gen
                          /\ proc'[q].st = IF q = held THEN s ELSE proc[q].st
  <2>1. proc' = [proc EXCEPT ![held].st = s]
    BY DEF StopExits
  <2> HIDE DEF s
  <2> QED
    BY <1>1, <1>3, <2>1, Parts, ProcSet
<1> HIDE DEF s
<1>5. /\ running' \in [Gens -> 0..MaxProcs]
      /\ \A h \in Gens : running'[h] = IF h = StopTarget THEN 0 ELSE running[h]
  <2>1. running' = [running EXCEPT ![StopTarget] = 0] /\ 0 \in 0..MaxProcs
    BY HostAssumption DEF StopExits
  <2> QED
    BY <1>1, <2>1, Parts, RunningSet
<1>6. Moved /\ (drv' = "none" \/ (drv' \in {"cleanup", "restore"} /\ call' = call))
  <2>1. Return("ok") \/ (call.method # "drain" /\ (Goto("cleanup") \/ Goto("restore")))
    BY <1>2 DEF AfterStop
  <2> QED
    BY <1>1, <1>2, <2>1, Parts, Returning, Going DEF DriverStates
<1>7. EngineTypeOK' /\ Control'
  BY <1>6, MovedEngine
<1>8. TypeOK'
  BY <1>2, <1>4, <1>5, <1>6, <1>7, HostAssumption, Parts DEF TypeOK, Moved, historyVars, ProcRecords
<1>9. drv' = "restore" => call.method = "rollback"
  BY <1>1, <1>2 DEF AfterStop, Goto, Return
<1>10. Positions' /\ Held'
  BY <1>2, <1>6, <1>9, NoHold, Parts DEF Positions, HoldStates, StopStates
<1>11. Named' /\ ProxyServesCurrent'
  BY <1>1, <1>2, <1>3, <1>4, Parts DEF Named, ProxyServesCurrent
<1>12. Tracked'
  BY <1>1, <1>3, <1>4, <1>5, Parts DEF Tracked
<1>13. Restarts' /\ Apart'
  BY <1>1, <1>2, <1>3, <1>4, <1>6, Parts DEF Restarts, Apart
<1> QED
  BY <1>7, <1>8, <1>10, <1>11, <1>12, <1>13 DEF IInv

\* A process that survives SIGKILL stays tracked.
LEMMA StopSurvivedKeeps ==
  ASSUME IInv, StopSurvived
  PROVE  IInv'
<1>1. /\ call.status = "open" /\ call.target = 1 /\ StopTarget \in Gens /\ held \in Procs
      /\ proc[held].st \in {"stopping", "stuck"}
  BY StopFacts DEF StopSurvived, StopStates, Stopping
<1>2. /\ UNCHANGED <<engineCore, plan, historyVars, current, url, running, loop, exits, record, files, frontend>>
      /\ held' = 0 /\ Return("err") /\ accepting' \in BOOLEAN
  BY Parts DEF StopSurvived, StopThrows, TypeOK
<1>3. /\ proc' \in [Procs -> ProcRecords]
      /\ \A q \in Procs : /\ proc'[q].gen = proc[q].gen
                          /\ proc'[q].st = IF q = held THEN "stuck" ELSE proc[q].st
  BY <1>1, Parts, ProcSet DEF StopSurvived, ProcStates
<1>4. Moved /\ drv' = "none"
  BY <1>1, <1>2, Parts, Returning
<1>5. EngineTypeOK' /\ Control' /\ Positions' /\ Held'
  BY <1>2, <1>4, MovedEngine, OverHolds
<1>6. TypeOK'
  BY <1>2, <1>3, <1>4, <1>5, HostAssumption, Parts DEF TypeOK, Moved, historyVars, ProcRecords
<1>7. Named' /\ ProxyServesCurrent' /\ Tracked'
  BY <1>1, <1>2, <1>3, Parts DEF Named, ProxyServesCurrent, Tracked
<1>8. Restarts' /\ Apart'
  BY <1>1, <1>2, <1>3, <1>4, Parts DEF Restarts, Apart
<1> QED
  BY <1>5, <1>6, <1>7, <1>8 DEF IInv

-----------------------------------------------------------------------------
(* The driver's steps that start a generation and select it. *)

\* Where the driver's start holds a process.
LEMMA StartFacts ==
  ASSUME IInv, drv \in {"start", "register", "reap", "select"}
  PROVE  /\ call.status = "open" /\ call.target = 1 /\ call.method \in {"activate", "commit", "rollback"}
         /\ EnsureTarget \in Gens /\ held \in Procs /\ held \in 0..MaxProcs /\ proc[held].gen = EnsureTarget
         /\ proc[held].st = "starting" <=> drv = "start"
  BY HostAssumption, Parts DEF Control, Positions, Held, HoldStates, StopStates, Procs

\* A generation that is tracked is taken; otherwise an unused slot is spawned in.
LEMMA EnsureKeeps ==
  ASSUME IInv, Ensure
  PROVE  IInv'
<1>1. /\ held = 0 /\ call.status = "open" /\ call.target = 1 /\ call.method \in {"activate", "commit", "rollback"}
      /\ EnsureTarget \in Gens
  BY Parts DEF Ensure, Control, Positions, Held, HoldStates, StopStates
<1>2. UNCHANGED <<engineCore, plan, historyVars, accepting, current, url, running, loop, exits, record, files, frontend>>
  BY DEF Ensure
<1>3. call' = call => EnsureTarget' = EnsureTarget
  BY <1>2 DEF EnsureTarget
<1>4. CASE Return("ok") /\ UNCHANGED <<held, proc>>
  <2>1. Moved /\ drv' = "none"
    BY <1>1, <1>2, <1>4, Parts, Returning
  <2>2. EngineTypeOK' /\ Control' /\ Positions' /\ Held'
    BY <1>1, <1>4, <2>1, MovedEngine, OverHolds
  <2>3. TypeOK'
    BY <1>2, <1>4, <2>1, <2>2, Parts DEF TypeOK, Moved, historyVars
  <2> QED
    BY <1>2, <1>4, <2>1, <2>2, <2>3, HostLeft DEF IInv
<1>5. CASE /\ running[EnsureTarget] # 0 /\ call.method # "activate" /\ Goto("select")
           /\ held' = running[EnsureTarget] /\ UNCHANGED proc
  <2>1. Moved /\ drv' = "select" /\ call' = call
    BY <1>1, <1>2, <1>5, Parts, Going DEF DriverStates
  <2>2. EngineTypeOK' /\ Control'
    BY <2>1, MovedEngine
  <2>3. held' \in Procs /\ proc[held'].gen = EnsureTarget /\ proc[held'].st # "starting"
    BY <1>1, <1>5, Parts DEF Tracked
  <2>4. TypeOK'
    <3>1. held' \in 0..MaxProcs
      BY <2>3, HostAssumption DEF Procs
    <3> QED
      BY <1>2, <1>5, <2>1, <2>2, <3>1, Parts DEF TypeOK, Moved, historyVars
  <2>5. Positions' /\ Held'
    BY <1>1, <1>3, <1>5, <2>1, <2>3 DEF Positions, Held, HoldStates, StopStates, Gens
  <2> QED
    BY <1>2, <1>5, <2>1, <2>2, <2>4, <2>5, HostLeft DEF IInv
<1>6. ASSUME NEW q \in Procs, Spawnable(q), Spawned(q, EnsureTarget), held' = q, Goto("start")
      PROVE  IInv'
  <2>1. Moved /\ drv' = "start" /\ call' = call
    BY <1>1, <1>2, <1>6, Parts, Going DEF DriverStates
  <2>2. EngineTypeOK' /\ Control'
    BY <2>1, MovedEngine
  <2>3. /\ proc' \in [Procs -> ProcRecords] /\ proc'[q].gen = EnsureTarget /\ proc'[q].st = "starting"
        /\ \A r \in Procs : r # q => proc'[r] = proc[r]
    BY <1>1, <1>6, Parts, Spawning
  <2>4. /\ q # url /\ \A h \in Gens : running[h] # q
        /\ \A r \in Procs : loop[r].child # q
    BY <1>6, UnusedSlot DEF Spawnable
  <2>5. TypeOK'
    <3>1. held' \in 0..MaxProcs
      BY <1>6, HostAssumption DEF Procs
    <3> QED
      BY <1>2, <2>1, <2>2, <2>3, <3>1, Parts DEF TypeOK, Moved, historyVars, ProcRecords
  <2>6. Positions' /\ Held'
    BY <1>1, <1>3, <1>6, <2>1, <2>3 DEF Positions, Held, HoldStates, StopStates, Gens, Procs
  <2>7. Named' /\ Tracked' /\ ProxyServesCurrent'
    BY <1>1, <1>2, <2>3, <2>4, Parts DEF Named, Tracked, ProxyServesCurrent
  <2>8. Restarts' /\ Apart'
    BY <1>2, <1>6, <2>3, <2>4, Parts DEF Restarts, Apart
  <2> QED
    BY <2>2, <2>5, <2>6, <2>7, <2>8 DEF IInv
<1> QED
  BY <1>4, <1>5, <1>6 DEF Ensure

\* A candidate that is ready is tracked.
LEMMA StartReadyKeeps ==
  ASSUME IInv, StartReady
  PROVE  IInv'
<1>1. /\ call.status = "open" /\ call.target = 1 /\ call.method \in {"activate", "commit", "rollback"}
      /\ EnsureTarget \in Gens /\ held \in Procs /\ held \in 0..MaxProcs /\ proc[held].gen = EnsureTarget
      /\ proc[held].st = "starting" /\ drv = "start"
  BY StartFacts DEF StartReady
<1>2. UNCHANGED <<engineCore, plan, historyVars, accepting, current, url, loop, exits, held, record, files, frontend>>
  BY DEF StartReady
<1>3. /\ proc' \in [Procs -> ProcRecords]
      /\ \A q \in Procs : /\ proc'[q].gen = proc[q].gen
                          /\ proc'[q].st = IF q = held THEN "live" ELSE proc[q].st
  BY <1>1, Parts, ProcSet DEF StartReady, ProcStates
<1>4. /\ running' \in [Gens -> 0..MaxProcs]
      /\ \A h \in Gens : running'[h] = IF h = EnsureTarget THEN held ELSE running[h]
  BY <1>1, Parts, RunningSet DEF StartReady
<1>5. Moved /\ drv' = "register" /\ call' = call
  BY <1>1, <1>2, Parts, Going DEF DriverStates, StartReady
<1>6. EngineTypeOK' /\ Control'
  BY <1>5, MovedEngine
<1>7. TypeOK'
  BY <1>2, <1>3, <1>4, <1>5, <1>6, Parts DEF TypeOK, Moved, historyVars, ProcRecords
<1>8. EnsureTarget' = EnsureTarget
  BY <1>2, <1>5 DEF EnsureTarget
<1>9. Positions' /\ Held'
  BY <1>1, <1>2, <1>3, <1>5, <1>8 DEF Positions, Held, HoldStates, StopStates, Gens, Procs
<1>10. Named' /\ ProxyServesCurrent' /\ Tracked'
  BY <1>1, <1>2, <1>3, <1>4, Parts DEF Named, ProxyServesCurrent, Tracked
<1>11. Restarts' /\ Apart'
  BY <1>1, <1>2, <1>3, <1>5, Parts DEF Restarts, Apart
<1> QED
  BY <1>6, <1>7, <1>9, <1>10, <1>11 DEF IInv

\* A candidate that fails is reaped before the call returns.
LEMMA StartFailsKeeps ==
  ASSUME IInv, StartFails
  PROVE  IInv'
<1>1. /\ call.status = "open" /\ call.target = 1
      /\ EnsureTarget \in Gens /\ held \in Procs /\ proc[held].gen = EnsureTarget
      /\ proc[held].st = "starting" /\ drv = "start"
  BY StartFacts DEF StartFails
<1>2. /\ UNCHANGED <<engineCore, plan, historyVars, accepting, current, url, running, loop, exits, record, files, frontend>>
      /\ held' = 0 /\ Return("err")
  BY DEF StartFails
<1>3. /\ proc' \in [Procs -> ProcRecords]
      /\ \A q \in Procs : /\ proc'[q].gen = proc[q].gen
                          /\ proc'[q].st = IF q = held THEN "gone" ELSE proc[q].st
  BY <1>1, Parts, ProcSet DEF StartFails, ProcStates
<1>4. Moved /\ drv' = "none"
  BY <1>1, <1>2, Parts, Returning
<1>5. EngineTypeOK' /\ Control' /\ Positions' /\ Held'
  BY <1>2, <1>4, MovedEngine, OverHolds
<1>6. TypeOK'
  BY <1>2, <1>3, <1>4, <1>5, HostAssumption, Parts DEF TypeOK, Moved, historyVars, ProcRecords
<1>7. Named' /\ ProxyServesCurrent' /\ Tracked'
  BY <1>1, <1>2, <1>3, Parts DEF Named, ProxyServesCurrent, Tracked
<1>8. Restarts' /\ Apart'
  BY <1>1, <1>2, <1>3, <1>4, Parts DEF Restarts, Apart
<1> QED
  BY <1>5, <1>6, <1>7, <1>8 DEF IInv

\* Writing host-machine.json changes no process.
LEMMA RegisteredKeeps ==
  ASSUME IInv, Registered
  PROVE  IInv'
<1>1. /\ call.status = "open" /\ call.target = 1 /\ call.method \in {"activate", "commit", "rollback"}
      /\ EnsureTarget \in Gens /\ held \in Procs /\ proc[held].gen = EnsureTarget /\ proc[held].st # "starting"
  BY StartFacts DEF Registered
<1>2. UNCHANGED <<engineCore, plan, historyVars, hostVars, record, files, frontend>>
  BY DEF Registered
<1>3. \/ Return("ok") /\ held' = 0
      \/ Goto("select") /\ held' = held /\ call.method # "activate"
  BY DEF Registered
<1>4. Moved /\ (\/ drv' = "none" /\ held' = 0
                \/ drv' = "select" /\ call' = call /\ held' = held /\ call.method # "activate")
  BY <1>1, <1>2, <1>3, Parts, Going, Returning DEF DriverStates
<1>5. EngineTypeOK' /\ Control'
  BY <1>4, MovedEngine
<1>6. TypeOK'
  BY <1>2, <1>4, <1>5, HostAssumption, Parts DEF TypeOK, Moved, historyVars, hostVars
<1>7. Positions' /\ Held'
  <2>1. CASE drv' = "none" /\ held' = 0
    BY <2>1, OverHolds
  <2>2. CASE drv' = "select" /\ call' = call /\ held' = held /\ call.method # "activate"
    <3>1. EnsureTarget' = EnsureTarget
      BY <1>2, <2>2 DEF EnsureTarget
    <3> QED
      BY <1>1, <1>2, <2>2, <3>1 DEF Positions, Held, HoldStates, StopStates, Gens, Procs, hostVars
  <2> QED
    BY <1>4, <2>1, <2>2
<1> QED
  BY <1>2, <1>4, <1>5, <1>6, <1>7, HostLeft DEF IInv, hostVars

\* The candidate that cannot be recorded is killed while the call still holds it.
LEMMA RegisterFailsKeeps ==
  ASSUME IInv, RegisterFails
  PROVE  IInv'
<1>1. /\ call.status = "open" /\ call.target = 1 /\ call.method \in {"activate", "commit", "rollback"}
      /\ EnsureTarget \in Gens /\ held \in Procs /\ proc[held].gen = EnsureTarget /\ proc[held].st # "starting"
  BY StartFacts DEF RegisterFails
<1>2. /\ UNCHANGED <<engineCore, plan, historyVars, accepting, current, url, running, loop, held, record, files, frontend>>
      /\ exits' \in 0..MaxExits /\ Goto("reap")
  BY HostAssumption, Parts DEF RegisterFails, TypeOK
<1>3. /\ proc' \in [Procs -> ProcRecords]
      /\ \A q \in Procs : /\ proc'[q].gen = proc[q].gen
                          /\ proc'[q].st = IF q = held /\ proc[q].st = "live" THEN "exited" ELSE proc[q].st
  BY <1>1, Parts DEF RegisterFails, TypeOK, ProcRecords, ProcStates
<1>4. Moved /\ drv' = "reap" /\ call' = call
  BY <1>1, <1>2, Parts, Going DEF DriverStates
<1>5. EngineTypeOK' /\ Control'
  BY <1>4, MovedEngine
<1>6. EnsureTarget' = EnsureTarget
  BY <1>2, <1>4 DEF EnsureTarget
<1>7. TypeOK'
  BY <1>2, <1>3, <1>4, <1>5, HostAssumption, Parts DEF TypeOK, Moved, historyVars, ProcRecords
<1>8. Positions' /\ Held'
  BY <1>1, <1>2, <1>3, <1>4, <1>6 DEF Positions, Held, HoldStates, StopStates, Gens, Procs
<1>9. Named' /\ ProxyServesCurrent' /\ Tracked'
  BY <1>1, <1>2, <1>3, Parts DEF Named, ProxyServesCurrent, Tracked
<1>10. Restarts' /\ Apart'
  BY <1>1, <1>2, <1>3, <1>4, Parts DEF Restarts, Apart
<1> QED
  BY <1>5, <1>7, <1>8, <1>9, <1>10 DEF IInv

\* The call lets the killed candidate go.
LEMMA ReapedKeeps ==
  ASSUME IInv, Reaped
  PROVE  IInv'
<1>1. call.status = "open" /\ call.target = 1
  BY StartFacts DEF Reaped
<1>2. UNCHANGED <<engineCore, plan, historyVars, hostVars, record, files, frontend>> /\ held' = 0 /\ Return("err")
  BY DEF Reaped
<1>3. Moved /\ drv' = "none"
  BY <1>1, <1>2, Parts, Returning
<1>4. EngineTypeOK' /\ Control' /\ Positions' /\ Held'
  BY <1>2, <1>3, MovedEngine, OverHolds
<1>5. TypeOK'
  BY <1>2, <1>3, <1>4, HostAssumption, Parts DEF TypeOK, Moved, historyVars, hostVars
<1> QED
  BY <1>2, <1>3, <1>4, <1>5, HostLeft DEF IInv, hostVars

\* The proxy switches to the process that the call holds, which is one of the
\* generation that becomes current.
LEMMA SelectKeeps ==
  ASSUME IInv, Select
  PROVE  IInv'
<1>1. /\ call.status = "open" /\ call.target = 1 /\ call.method \in {"commit", "rollback"}
      /\ EnsureTarget \in Gens /\ held \in Procs /\ held \in 0..MaxProcs /\ proc[held].gen = EnsureTarget
  BY StartFacts, Parts DEF Select, Positions
<1>2. /\ UNCHANGED <<engineCore, plan, historyVars, accepting, running, proc, loop, exits, record, frontend>>
      /\ held' = 0
  BY DEF Select
<1>3. CASE /\ files' = [files EXCEPT !.selection = EnsureTarget]
           /\ current' = EnsureTarget /\ url' = held /\ Goto("pointer")
  <2>1. Moved /\ drv' = "pointer" /\ call' = call
    BY <1>1, <1>2, <1>3, Parts, Going DEF DriverStates
  <2>2. EngineTypeOK' /\ Control'
    BY <2>1, MovedEngine
  <2>3. EnsureTarget \in 0..MaxPlans
    BY Parts DEF EnsureTarget, TypeOK
  <2>4. files' \in [current : 0..MaxPlans, selection : 0..MaxPlans]
    BY <1>3, <2>3, Parts DEF TypeOK
  <2>5. TypeOK'
    BY <1>1, <1>2, <1>3, <2>1, <2>2, <2>3, <2>4, HostAssumption, Parts DEF TypeOK, Moved, historyVars
  <2>6. EnsureTarget' = EnsureTarget
    BY <1>2, <2>1 DEF EnsureTarget
  <2>7. Positions' /\ Held'
    BY <1>1, <1>2, <2>1, <2>6 DEF Positions, Held, HoldStates, StopStates, Gens
  <2>8. Named' /\ Tracked' /\ Restarts'
    BY <1>2, Parts DEF Named, Tracked, Restarts
  <2>9. Apart' /\ ProxyServesCurrent'
    BY <1>1, <1>2, <1>3, <2>1, Parts DEF Apart, ProxyServesCurrent
  <2> QED
    BY <2>2, <2>5, <2>7, <2>8, <2>9 DEF IInv
<1>4. CASE Return("err") /\ UNCHANGED <<files, current, url>>
  <2>1. Moved /\ drv' = "none"
    BY <1>1, <1>2, <1>4, Parts, Returning
  <2>2. EngineTypeOK' /\ Control' /\ Positions' /\ Held'
    BY <1>2, <2>1, MovedEngine, OverHolds
  <2>3. TypeOK'
    BY <1>2, <1>4, <2>1, <2>2, HostAssumption, Parts DEF TypeOK, Moved, historyVars
  <2> QED
    BY <1>2, <1>4, <2>1, <2>2, <2>3, HostLeft DEF IInv
<1> QED
  BY <1>3, <1>4 DEF Select

-----------------------------------------------------------------------------
(* The frontend driver. *)

FrontendRecords == [pointer : 0..MaxPlans, published : 0..MaxPlans, saved : -1..MaxPlans]

\* What a frontend method writes, whole or in part, has the frontend's type.
LEMMA FrontendTyped ==
  ASSUME TypeOK, NEW m
  PROVE  FrontendEffect(m) \in FrontendRecords /\ FrontendPartial(m) \subseteq FrontendRecords
<1>1. frontend \in FrontendRecords /\ plan \in 0..MaxPlans /\ frontend.pointer \in 0..MaxPlans /\ -1 \in -1..MaxPlans
      /\ frontend.saved \in -1..MaxPlans /\ frontend.pointer \in -1..MaxPlans /\ 0 \in 0..MaxPlans
  BY HostAssumption DEF TypeOK, FrontendRecords
<1>2. [frontend EXCEPT !.saved = frontend.pointer] \in FrontendRecords
  BY <1>1 DEF FrontendRecords
<1>3. [frontend EXCEPT !.pointer = plan, !.published = plan] \in FrontendRecords
  BY <1>1 DEF FrontendRecords
<1>4. [frontend EXCEPT !.saved = -1] \in FrontendRecords
  BY <1>1 DEF FrontendRecords
<1>5. frontend.saved > 0 => [pointer |-> frontend.saved, published |-> frontend.saved, saved |-> -1] \in FrontendRecords
  BY <1>1, HostAssumption DEF FrontendRecords
<1>6. [frontend EXCEPT !.pointer = 0, !.saved = -1] \in FrontendRecords
  BY <1>1 DEF FrontendRecords
<1>7. FrontendEffect(m) \in FrontendRecords
  BY <1>1, <1>2, <1>3, <1>4, <1>5, <1>6 DEF FrontendEffect
<1>8. ASSUME NEW e \in FrontendRecords
      PROVE  /\ [frontend EXCEPT !.pointer = e.pointer] \in FrontendRecords
             /\ [e EXCEPT !.saved = frontend.saved] \in FrontendRecords
  BY <1>1 DEF FrontendRecords
<1> QED
  BY <1>1, <1>7, <1>8 DEF FrontendPartial

\* The frontend driver touches nothing of the machine host.
LEMMA FrontendDriverKeeps ==
  ASSUME IInv, FrontendDriver
  PROVE  IInv'
<1>1. drv = "none" /\ held = 0
  BY Parts DEF FrontendDriver, Control, Held, HoldStates, StopStates
<1>2. UNCHANGED <<engineCore, plan, historyVars, hostVars, held, record, files>> /\ call.status = "open"
  BY DEF FrontendDriver
<1>3. (Return("ok") \/ Return("err")) /\ frontend' \in FrontendRecords
  BY Parts, FrontendTyped DEF FrontendDriver
<1>4. Moved /\ drv' = "none"
  BY <1>2, <1>3, Parts, Returning
<1>5. EngineTypeOK' /\ Control' /\ Positions' /\ Held'
  BY <1>1, <1>2, <1>4, MovedEngine, OverHolds
<1>6. TypeOK'
  BY <1>2, <1>3, <1>4, <1>5, Parts DEF TypeOK, Moved, historyVars, hostVars, FrontendRecords
<1> QED
  BY <1>2, <1>4, <1>5, <1>6, HostLeft DEF IInv, hostVars

-----------------------------------------------------------------------------
\* The host starts with no process, no loop and no call.
LEMMA Initially == Init => IInv
<1> SUFFICES ASSUME Init PROVE IInv
  OBVIOUS
<1> USE HostAssumption, NAssumption DEF Init
<1>1. EngineTypeOK
  <2>1. NoCall \in Calls
    BY DEF NoCall, Calls, Methods, ForwardLoops, Ordinals
  <2>2. step \in [Ordinals -> StepStates]
    BY DEF EngineInit, StepStates
  <2>3. run \in RunStates /\ attempt \in Attempts /\ pc \in Loops /\ todo \subseteq Ordinals
    BY MaxAttemptAssumption DEF EngineInit, RunStates, Attempts, Loops
  <2> QED
    BY <2>1, <2>2, <2>3 DEF EngineInit, EngineTypeOK
<1>2. [gen |-> 0, st |-> "free"] \in ProcRecords /\ NoLoop \in LoopRecords
  BY DEF ProcRecords, ProcStates, LoopRecords, LoopStates, NoLoop
<1>3. TypeOK
  <2>1. proc \in [Procs -> ProcRecords] /\ loop \in [Procs -> LoopRecords]
    BY <1>2
  <2>2. record \in [prev : 0..MaxPlans, restored : BOOLEAN, present : BOOLEAN]
    BY DEF NoRecord
  <2>3. frontend \in FrontendRecords /\ files \in [current : 0..MaxPlans, selection : 0..MaxPlans]
    BY DEF FrontendRecords
  <2>4. /\ plan \in 0..MaxPlans /\ current \in 0..MaxPlans /\ url \in 0..MaxProcs /\ held \in 0..MaxProcs
        /\ exits \in 0..MaxExits /\ running \in [Gens -> 0..MaxProcs]
    OBVIOUS
  <2>5. drv \in DriverStates /\ accepting \in BOOLEAN /\ broken \in BOOLEAN /\ overlapped \in BOOLEAN
    BY DEF DriverStates
  <2> HIDE DEF Init
  <2> QED
    BY <1>1, <2>1, <2>2, <2>3, <2>4, <2>5 DEF TypeOK, ProcRecords, LoopRecords, FrontendRecords
<1>4. Control /\ Positions /\ Held /\ ProxyServesCurrent
  BY DEF EngineInit, NoCall, Control, Positions, Held, HoldStates, StopStates, ProxyServesCurrent
<1>5. Named /\ Tracked /\ Restarts /\ Apart
  BY DEF Named, Tracked, Restarts, Apart, NoLoop
<1> QED
  BY <1>3, <1>4, <1>5 DEF IInv

\* Every step keeps the invariant.
LEMMA Inductive == IInv /\ [Next]_vars => IInv'
<1> SUFFICES ASSUME IInv, [Next]_vars PROVE IInv'
  OBVIOUS
<1>1. CASE Deploy
  BY <1>1, DeployKeeps
<1>2. CASE EngineStep /\ UNCHANGED <<plan, historyVars, hostVars, driverVars>>
  BY <1>2, EngineKeeps
<1>3. CASE HostStep
  BY <1>3, ExitKeeps, GenerationExitedKeeps, LoopWakesKeeps, LoopReadyKeeps, LoopFailsKeeps, LoopSwitchesKeeps,
     LoopUnrecordedKeeps, LoopReapedKeeps DEF HostStep
<1>4. CASE MachineDriver
  BY <1>4, DrainKeeps, StageKeeps, CheckpointKeeps, ActivateKeeps, HealthKeeps, CommitKeeps, FinalizeKeeps,
     RollbackKeeps, StopBeginsKeeps, RetireKeeps, TerminateKeeps, StopExitsKeeps, StopSurvivedKeeps, EnsureKeeps,
     StartReadyKeeps, StartFailsKeeps, RegisteredKeeps, RegisterFailsKeeps, ReapedKeeps, SelectKeeps, WritePointerKeeps, RestoreKeeps, CleanupKeeps
     DEF MachineDriver
<1>5. CASE FrontendDriver
  BY <1>5, FrontendDriverKeeps
<1>6. CASE UNCHANGED vars
  BY <1>6
     DEF vars, engineVars, hostVars, driverVars, historyVars, IInv, TypeOK, EngineTypeOK, Control, Positions,
     EnsureTarget, Named, Tracked, Restarts, Apart, Held, StopTarget, ProxyServesCurrent
<1> QED
  BY <1>1, <1>2, <1>3, <1>4, <1>5, <1>6 DEF Next

\* The inductive invariant holds of every reachable state.
THEOREM Invariance == Spec => []IInv
BY Initially, Inductive, PTL DEF Spec

\* Every variable of the host and of its drivers keeps its type.
THEOREM TypeCorrect == Spec => []TypeOK
<1>1. IInv => TypeOK
  BY DEF IInv
<1> QED
  BY <1>1, Invariance, PTL

\* MachineHost's proxy forwards to a process of the generation it believes
\* current, whichever of switch, stop, crash and restart have interleaved.
THEOREM ProxyTrue == Spec => []ProxyServesCurrent
<1>1. IInv => ProxyServesCurrent
  BY DEF IInv
<1> QED
  BY <1>1, Invariance, PTL
=============================================================================
