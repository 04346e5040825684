---------------------------- MODULE HostOutcome_proof ----------------------------
(***************************************************************************)
(* What a deployment leaves behind on the machine host, for any number of  *)
(* deployments, processes and exits: the generation that host, files and   *)
(* frontend select, and how far each target has really come.               *)
(***************************************************************************)
EXTENDS HostReplacement_proof, FiniteSetTheorems

NotBegun == {"none", "pending"}
Undoable == {"staged", "activated", "healthy", "committed"}

\* How far target i has come: an answer that is not recorded yet counts.
Reached(i) == IF call.status = "ok" /\ call.target = i THEN Recorded(pc) ELSE step[i]

\* The step states that a loop finds, and that it leaves.
Before(l) == CASE l = "pending" -> "none"
               [] l = "drain" -> "pending"
               [] l = "stage" -> "drained"
               [] l = "activate" -> "staged"
               [] l = "health" -> "activated"
               [] l = "commit" -> "healthy"
               [] OTHER -> "committed"
After(l) == IF l = "pending" THEN "pending" ELSE Recorded(l)

OverStates == {"none", "committed", "rolled-back", "failed", "finalizing"}

\* The journal's states, as the loop that runs has written them so far.
Progress ==
  /\ pc = "idle" => run \in OverStates
  /\ pc # "idle" => run \notin {"none", "failed", "committed", "rolled-back"}
  /\ pc # "rollback" => ~failed
  /\ pc \in ForwardLoops \cup {"pending", "finalize"} =>
       \A i \in Ordinals : step[i] = IF i \in todo THEN Before(pc) ELSE After(pc)
  /\ pc = "rollback" => /\ todo \subseteq ToRollBack /\ (~failed => ToRollBack \subseteq todo)
                        /\ \A i \in Ordinals : step[i] # "finalized"
  /\ run = "none" => plan = 0 /\ \A i \in Ordinals : step[i] = "none"
  /\ run = "committed" => \A i \in Ordinals : step[i] = "finalized"
  /\ run = "rolled-back" => ToRollBack = {} /\ \A i \in Ordinals : step[i] # "finalized"
  /\ pc = "idle" /\ run = "finalizing" => \A i \in Ordinals : step[i] \in {"committed", "finalized"}

\* The machine's finalize or rollback has been tried, and may have failed after
\* it resumed admissions.
Tried == \/ pc = "idle"
         \/ pc \in {"finalize", "rollback"} /\ call.status = "err" /\ call.target = 1
         \/ pc = "rollback" /\ failed /\ 1 \notin todo

\* From its drain to the end of its finalize or rollback the machine takes no
\* requests.
Closed == \/ drv # "none" \/ Reached(1) = "drained"
          \/ Reached(1) \in Undoable /\ ~Tried
          => ~accepting

\* What is staged has its record; a record says restored only on the way
\* out, and only a finalize or a rollback cleans up.
Kept ==
  /\ Reached(1) \in Undoable => record.present /\ record.prev < plan
  /\ record.restored =>
       \/ drv = "cleanup" /\ call.method = "rollback"
       \/ pc = "rollback" /\ call.status = "err" /\ call.target = 1
       \/ pc = "rollback" /\ failed /\ 1 \notin todo
       \/ run = "failed"
  /\ drv = "cleanup" => call.method \in {"finalize", "rollback"}

Selected(g) == files = [current |-> g, selection |-> g]

\* Which generation host and files select, by how far the machine has come.
Pointers ==
  /\ current <= plan
  /\ run # "none" /\ Reached(1) \in NotBegun \cup {"drained", "staged", "activated"} => current < plan
  /\ Reached(1) \in NotBegun \cup {"drained"} /\ ~broken /\ files.current # 0 => Selected(current)
  /\ Reached(1) \in {"committed", "finalized"} /\ pc # "rollback" /\ run # "failed" =>
       current = plan /\ Selected(plan)
  /\ drv = "pointer" => current = EnsureTarget /\ files.selection = EnsureTarget
  /\ drv = "cleanup" /\ call.method = "rollback" =>
       IF record.prev = 0 THEN files.current = 0 ELSE current = record.prev /\ Selected(current)
  /\ Reached(1) = "rolled-back" =>
       accepting /\ (files.current # 0 => current < plan /\ Selected(current))

\* The same for the frontend.
Published == N = 2 =>
  /\ Reached(2) \in NotBegun \cup {"drained", "rolled-back"} /\ ~broken /\ frontend.pointer # 0 =>
       frontend.published = frontend.pointer
  /\ Reached(2) \in Undoable => frontend.saved # -1
  /\ Reached(2) \in {"activated", "healthy", "committed"} /\ pc # "rollback" /\ run # "failed" =>
       frontend.pointer = plan /\ frontend.published = plan
  /\ Reached(2) = "finalized" => frontend = [pointer |-> plan, published |-> plan, saved |-> -1]

OInv == IInv /\ Progress /\ Closed /\ Kept /\ Pointers /\ Published

-----------------------------------------------------------------------------
(* What holds of a call that is open, and what its steps leave alone. *)

\* The parts of the invariant, to be cited without expanding it.
LEMMA OParts ==
  ASSUME OInv
  PROVE  IInv /\ Progress /\ Closed /\ Kept /\ Pointers /\ Published
  BY DEF OInv

\* The constants and variables whose values the arithmetic is about.
LEMMA Sizes ==
  ASSUME IInv
  PROVE  /\ 1 \in Ordinals /\ (N = 2 => 2 \in Ordinals) /\ Ordinals \subseteq {1, 2}
         /\ MaxPlans \in Nat /\ plan \in Nat /\ current \in Nat /\ record.prev \in Nat
         /\ files.current \in Nat /\ files.selection \in Nat /\ plan \in 0..MaxPlans
         /\ files \in [current : 0..MaxPlans, selection : 0..MaxPlans]
         /\ record \in [prev : 0..MaxPlans, restored : BOOLEAN, present : BOOLEAN]
         /\ \A i \in Ordinals : step[i] \in StepStates
<1>1. TypeOK
  BY Parts
<1>2. 1 \in Ordinals /\ (N = 2 => 2 \in Ordinals) /\ Ordinals \subseteq {1, 2}
  BY HostAssumption DEF Ordinals
<1>3. \A i \in Ordinals : step[i] \in StepStates
  BY <1>1 DEF TypeOK, EngineTypeOK
<1> QED
  BY <1>1, <1>2, <1>3, HostAssumption DEF TypeOK

\* An open call belongs to the loop that runs, which has not come to its target
\* yet: the journal tells how far the target is.
LEMMA OpenCall ==
  ASSUME IInv, Progress, call.status = "open"
  PROVE  /\ pc \in ForwardLoops \cup {"finalize", "rollback"} /\ call.method = pc
         /\ call.target \in todo /\ call.target \in Ordinals
         /\ run \notin {"none", "failed", "committed", "rolled-back"} /\ plan # 0
         /\ pc # "rollback" => step[call.target] = Before(pc)
         /\ pc = "rollback" => step[call.target] \in Undoable
<1>1. /\ pc \in DriverLoops /\ call.method = Method(pc) /\ call.target \in todo /\ plan # 0
      /\ pc \notin {"recover", "restart"}
  BY Parts DEF Control, DriverLoops, ForwardLoops
<1>2. pc \in ForwardLoops \cup {"finalize", "rollback"} /\ call.method = pc
  BY <1>1 DEF DriverLoops, Method
<1>3. call.target \in Ordinals
  BY <1>1, Parts DEF TypeOK, EngineTypeOK
<1>4. run \notin {"none", "failed", "committed", "rolled-back"}
  BY <1>2 DEF Progress, ForwardLoops
<1>5. pc # "rollback" => step[call.target] = Before(pc)
  BY <1>1, <1>2, <1>3 DEF Progress
<1>6. pc = "rollback" => step[call.target] \in Undoable
  BY <1>1, <1>3 DEF Progress, ToRollBack, needsRollback, Undoable
<1> QED
  BY <1>1, <1>2, <1>3, <1>4, <1>5, <1>6

\* A step of a call leaves the journal alone; only its answer counts already.
LEMMA MovedReached ==
  ASSUME IInv, Progress, Moved
  PROVE  /\ Progress'
         /\ \A i \in Ordinals : Reached(i) = step[i]
         /\ \A i \in Ordinals :
              Reached(i)' = IF call'.status = "ok" /\ i = call.target THEN Recorded(pc) ELSE step[i]
<1>1. Progress'
  BY DEF Moved, engineCore, Progress, ToRollBack
<1>2. UNCHANGED <<pc, step>> /\ call.status = "open" /\ call'.target = call.target
  BY DEF Moved, engineCore
<1> QED
  BY <1>1, <1>2 DEF Reached

\* The restart loops and the processes touch nothing that is said here.
LEMMA HostOnly ==
  ASSUME OInv, IInv', UNCHANGED <<engineVars, plan, current, accepting, driverVars, broken>>
  PROVE  OInv'
<1> USE DEF engineVars, driverVars
<1>1. Reached(1)' = Reached(1) /\ Reached(2)' = Reached(2) /\ EnsureTarget' = EnsureTarget
  BY DEF Reached, EnsureTarget
<1>2. Progress' /\ Closed' /\ Kept'
  BY <1>1, OParts DEF Progress, ToRollBack, Closed, Tried, Kept
<1>3. Pointers'
  BY <1>1, OParts DEF Pointers, Selected
<1>4. Published'
  BY <1>1, OParts DEF Published
<1> QED
  BY <1>2, <1>3, <1>4 DEF OInv

-----------------------------------------------------------------------------
(* The machine driver's steps that write neither pointer nor record. *)

QuietStep ==
  /\ UNCHANGED <<engineCore, plan, broken, frontend, current, record, files>>
  /\ call.status = "open" /\ call.target = 1 /\ drv # "cleanup"
  /\ call.method = "drain" => drv # "none"
  /\ \/ Return("err") /\ (accepting' = accepting \/ call.method = "drain")
     \/ Return("ok") /\ call.method \in {"drain", "activate", "health"} /\ accepting' = accepting
     \/ /\ accepting' = accepting
        /\ \E d \in DriverStates \ {"none", "pointer"} :
             Goto(d) /\ (d = "cleanup" => call.method = "finalize")

\* Where such a step leads.
LEMMA QuietMoved ==
  ASSUME IInv, QuietStep
  PROVE  /\ Moved /\ drv' # "pointer" /\ (drv' = "cleanup" => call.method = "finalize")
         /\ call'.method = call.method
         /\ call'.status = "ok" => drv' = "none" /\ call.method \in {"drain", "activate", "health"}
         /\ accepting' = accepting \/ (drv' = "none" /\ call'.status = "err" /\ call.method = "drain")
<1>1. TypeOK /\ UNCHANGED <<engineCore, plan>> /\ call.status = "open" /\ call.target = 1
  BY Parts DEF QuietStep
<1>2. CASE Return("err") /\ (accepting' = accepting \/ call.method = "drain")
  <2>1. Moved /\ drv' = "none"
    BY <1>1, <1>2, Returning
  <2>2. call'.status = "err"
    BY <1>1, <1>2 DEF Return, Answer, TypeOK, EngineTypeOK, Calls
  <2> QED
    BY <1>2, <2>1, <2>2 DEF Moved
<1>3. CASE Return("ok") /\ call.method \in {"drain", "activate", "health"} /\ accepting' = accepting
  BY <1>1, <1>3, Returning DEF Moved
<1>4. ASSUME NEW d \in DriverStates \ {"none", "pointer"}, Goto(d), d = "cleanup" => call.method = "finalize",
             accepting' = accepting
      PROVE  /\ Moved /\ drv' = d /\ call' = call
    BY <1>1, <1>4, Going
<1> QED
  BY <1>1, <1>2, <1>3, <1>4 DEF QuietStep, Moved

\* Such a step selects nothing, so what is selected stays.
LEMMA QuietKeeps ==
  ASSUME OInv, QuietStep, IInv'
  PROVE  OInv'
<1>1. IInv /\ Progress /\ Closed /\ Kept /\ Pointers /\ Published
  BY OParts
<1>2. /\ Moved /\ drv' # "pointer" /\ (drv' = "cleanup" => call.method = "finalize")
      /\ call'.method = call.method
      /\ call'.status = "ok" => drv' = "none" /\ call.method \in {"drain", "activate", "health"}
      /\ accepting' = accepting \/ (drv' = "none" /\ call'.status = "err" /\ call.method = "drain")
  BY <1>1, QuietMoved
<1>3. /\ UNCHANGED <<engineCore, plan, broken, frontend, current, record, files>>
      /\ call.status = "open" /\ call.target = 1 /\ drv # "cleanup"
      /\ call.method = "drain" => drv # "none"
  BY DEF QuietStep
<1>4. UNCHANGED <<run, step, pc, todo, failed>>
  BY <1>3 DEF engineCore
<1>5. /\ pc \in ForwardLoops \cup {"finalize", "rollback"} /\ call.method = pc /\ 1 \in todo
      /\ run \notin {"none", "failed", "committed", "rolled-back"} /\ plan # 0
      /\ pc # "rollback" => step[1] = Before(pc)
      /\ pc = "rollback" => step[1] \in Undoable
  BY <1>1, <1>3, OpenCall
<1>6. /\ Progress' /\ Reached(1) = step[1]
      /\ Reached(1)' = IF call'.status = "ok" THEN Recorded(pc) ELSE step[1]
      /\ N = 2 => Reached(2) = step[2] /\ Reached(2)' = step[2]
  BY <1>1, <1>2, <1>3, MovedReached, Sizes
<1>7. Published'
  BY <1>1, <1>3, <1>4, <1>6 DEF Published
<1>8. step[1] = CASE pc = "drain" -> "pending" [] pc = "stage" -> "drained" [] pc = "activate" -> "staged"
                  [] pc = "health" -> "activated" [] pc = "commit" -> "healthy" [] pc = "finalize" -> "committed"
                  [] OTHER -> step[1]
  BY <1>5 DEF Before
<1>9. \/ Reached(1)' = step[1]
      \/ pc = "drain" /\ Reached(1)' = "drained" /\ drv # "none" /\ drv' = "none"
      \/ pc = "activate" /\ Reached(1)' = "activated"
      \/ pc = "health" /\ Reached(1)' = "healthy"
  BY <1>2, <1>3, <1>5, <1>6 DEF Recorded
<1>10. Closed'
  <2>1. ~Tried
    BY <1>3, <1>5 DEF Tried, ForwardLoops
  <2> QED
    BY <1>1, <1>2, <1>3, <1>5, <1>6, <1>8, <1>9, <2>1 DEF Closed, Undoable, ForwardLoops, Moved
<1>11. Kept'
  BY <1>1, <1>2, <1>3, <1>4, <1>5, <1>6, <1>8, <1>9 DEF Kept, Undoable
<1>12. Pointers'
  BY <1>1, <1>2, <1>3, <1>4, <1>5, <1>6, <1>8, <1>9 DEF Pointers, Selected, NotBegun, Undoable, ForwardLoops
<1> QED
  BY <1>6, <1>7, <1>10, <1>11, <1>12 DEF OInv

\* Outside of "none" the driver is in a call to the machine.
LEMMA InCall ==
  ASSUME IInv, drv # "none"
  PROVE  call.status = "open" /\ call.target = 1
  BY Parts DEF Control

\* The methods begin: the record is there when it is needed, and not restored.
LEMMA Beginnings ==
  ASSUME OInv, Stage \/ Activate \/ Health \/ Commit \/ Finalize \/ Rollback
  PROVE  QuietStep
<1>1. IInv /\ Progress /\ Closed /\ Kept
  BY OParts
<1>2. /\ drv = "none" /\ call.status = "open" /\ call.target = 1
      /\ UNCHANGED <<engineCore, plan, broken, frontend, current, record, files, accepting>>
  BY DEF Stage, Activate, Health, Commit, Finalize, Rollback, Begin, Machine, historyVars, hostVars
<1>3. /\ call.method = pc /\ 1 \in todo /\ Reached(1) = step[1] /\ run # "failed"
      /\ pc = "finalize" => step[1] = "committed"
      /\ pc = "rollback" => step[1] \in Undoable
  BY <1>1, <1>2, OpenCall DEF Before, Reached
<1>4. CASE Stage
  BY <1>2, <1>4 DEF Stage, Begin, Machine, QuietStep, DriverStates
<1>5. CASE Activate
  BY <1>2, <1>5 DEF Activate, Begin, Machine, QuietStep, DriverStates
<1>6. CASE Health
  BY <1>2, <1>6 DEF Health, Begin, Machine, QuietStep
<1>7. CASE Commit
  BY <1>2, <1>7 DEF Commit, Begin, Machine, QuietStep, DriverStates
<1>8. CASE Finalize
  <2>1. record.present /\ call.method = "finalize"
    BY <1>1, <1>3, <1>8 DEF Finalize, Begin, Machine, Kept, Undoable
  <2>2. Goto("stop") \/ Goto("cleanup")
    BY <1>8, <2>1 DEF Finalize
  <2> QED
    BY <1>2, <2>1, <2>2 DEF QuietStep, DriverStates
<1>9. CASE Rollback
  <2>1. record.present /\ call.method = "rollback" /\ ~record.restored
    BY <1>1, <1>2, <1>3, <1>9 DEF Rollback, Begin, Machine, Kept
  <2>2. Goto("stop")
    BY <1>9, <2>1 DEF Rollback
  <2> QED
    BY <1>2, <2>1, <2>2 DEF QuietStep, DriverStates
<1> QED
  BY <1>4, <1>5, <1>6, <1>7, <1>8, <1>9

\* Stopping a generation selects none, and records nothing.
LEMMA Stops ==
  ASSUME IInv, StopBegins \/ Retire \/ Terminate \/ StopExits \/ StopSurvived
  PROVE  QuietStep
<1>1. /\ drv \in {"stop", "retire", "term", "exit"}
      /\ UNCHANGED <<engineCore, plan, broken, frontend, current, record, files>>
  BY DEF StopBegins, Retire, Terminate, StopExits, StopSurvived, historyVars, hostVars
<1>2. call.status = "open" /\ call.target = 1
  BY <1>1, InCall
<1>3. StopThrows => Return("err") /\ (accepting' = accepting \/ call.method = "drain")
  BY Parts DEF StopThrows, TypeOK
<1>4. AfterStop => \/ Return("ok") /\ call.method = "drain"
                   \/ Goto("cleanup") /\ call.method = "finalize"
                   \/ Goto("restore")
  BY DEF AfterStop
<1>5. CASE StopBegins
  BY <1>1, <1>2, <1>4, <1>5 DEF StopBegins, QuietStep, DriverStates, hostVars
<1>6. CASE Retire
  BY <1>1, <1>2, <1>3, <1>6 DEF Retire, QuietStep, DriverStates
<1>7. CASE Terminate
  BY <1>1, <1>2, <1>7 DEF Terminate, QuietStep, DriverStates
<1>8. CASE StopExits
  BY <1>1, <1>2, <1>4, <1>8 DEF StopExits, QuietStep, DriverStates
<1>9. CASE StopSurvived
  BY <1>1, <1>2, <1>3, <1>9 DEF StopSurvived, QuietStep
<1> QED
  BY <1>5, <1>6, <1>7, <1>8, <1>9

\* Starting a generation does not select it yet.
LEMMA Starts ==
  ASSUME IInv, Ensure \/ StartReady \/ StartFails \/ Registered \/ RegisterFails \/ Reaped
  PROVE  QuietStep
<1>1. /\ drv \in {"ensure", "start", "register", "reap"}
      /\ UNCHANGED <<engineCore, plan, broken, frontend, current, record, files, accepting>>
  BY DEF Ensure, StartReady, StartFails, Registered, RegisterFails, Reaped, historyVars, hostVars
<1>2. call.status = "open" /\ call.target = 1
  BY <1>1, InCall
<1>3. StartFails \/ Reaped => Return("err")
  BY DEF StartFails, Reaped
<1>4. (StartReady => Goto("register")) /\ (RegisterFails => Goto("reap"))
  BY DEF StartReady, RegisterFails
<1>5. Ensure => (Return("ok") /\ call.method = "activate") \/ Goto("select") \/ Goto("start")
  BY DEF Ensure
<1>6. Registered => (Return("ok") /\ call.method = "activate") \/ Goto("select")
  BY DEF Registered
<1> QED
  BY <1>1, <1>2, <1>3, <1>4, <1>5, <1>6 DEF QuietStep, DriverStates

-----------------------------------------------------------------------------
(* The steps that write a pointer, a record, or whether requests are taken. *)

\* What such a step of a call starts from, and what it cannot disturb.
LEMMA MachineCall ==
  ASSUME OInv, Moved, call.target = 1, UNCHANGED <<broken, frontend>>
  PROVE  /\ IInv /\ Progress /\ Closed /\ Kept /\ Pointers
         /\ pc \in ForwardLoops \cup {"finalize", "rollback"} /\ call.method = pc /\ 1 \in todo
         /\ run \notin {"none", "failed", "committed", "rolled-back"} /\ plan # 0
         /\ pc # "rollback" => step[1] = Before(pc)
         /\ pc = "rollback" => step[1] \in Undoable
         /\ Progress' /\ Published' /\ Reached(1) = step[1]
         /\ Reached(1)' = IF call'.status = "ok" THEN Recorded(pc) ELSE step[1]
         /\ UNCHANGED <<run, step, pc, todo, failed, plan>>
         /\ record.restored => drv = "cleanup" /\ call.method = "rollback"
         /\ ~Tried
<1>1. IInv /\ Progress /\ Closed /\ Kept /\ Pointers /\ Published
  BY OParts
<1>2. UNCHANGED <<run, step, pc, todo, failed, plan>> /\ call.status = "open"
  BY DEF Moved, engineCore
<1>3. /\ pc \in ForwardLoops \cup {"finalize", "rollback"} /\ call.method = pc /\ 1 \in todo
      /\ run \notin {"none", "failed", "committed", "rolled-back"} /\ plan # 0
      /\ pc # "rollback" => step[1] = Before(pc)
      /\ pc = "rollback" => step[1] \in Undoable
  BY <1>1, <1>2, OpenCall
<1>4. /\ Progress' /\ Reached(1) = step[1]
      /\ Reached(1)' = IF call'.status = "ok" THEN Recorded(pc) ELSE step[1]
      /\ N = 2 => Reached(2) = step[2] /\ Reached(2)' = step[2]
  BY <1>1, MovedReached, Sizes
<1>5. Published'
  BY <1>1, <1>2, <1>4 DEF Published
<1>6. record.restored => drv = "cleanup" /\ call.method = "rollback"
  BY <1>1, <1>2, <1>3 DEF Kept
<1>7. ~Tried
  BY <1>2, <1>3 DEF Tried, ForwardLoops
<1> QED
  BY <1>1, <1>2, <1>3, <1>4, <1>5, <1>6, <1>7

\* The drain closes the machine before anything else happens to it.
LEMMA DrainOutcome ==
  ASSUME OInv, Drain, IInv'
  PROVE  OInv'
<1>1. /\ call.status = "open" /\ call.target = 1 /\ call.method = "drain" /\ ~accepting' /\ drv = "none"
      /\ UNCHANGED <<engineCore, plan, broken, current, record, files, frontend>> /\ Goto("stop")
  BY DEF Drain, Begin, Machine
<1>2. Moved /\ drv' = "stop" /\ call' = call
  BY <1>1, OParts, Parts, Going DEF DriverStates
<1>3. /\ Kept /\ Pointers /\ call.method = pc
      /\ pc # "rollback" => step[1] = Before(pc)
      /\ Progress' /\ Published' /\ Reached(1) = step[1]
      /\ Reached(1)' = IF call'.status = "ok" THEN Recorded(pc) ELSE step[1]
      /\ UNCHANGED <<run, step, pc, todo, failed, plan>>
  BY <1>1, <1>2, MachineCall
<1>4. Reached(1) = "pending" /\ Reached(1)' = "pending"
  BY <1>1, <1>2, <1>3 DEF Before
<1>5. Closed' /\ Kept'
  BY <1>1, <1>2, <1>3, <1>4 DEF Closed, Kept, Undoable
<1>6. Pointers'
  BY <1>1, <1>2, <1>3, <1>4 DEF Pointers, Selected, NotBegun
<1> QED
  BY <1>3, <1>5, <1>6 DEF OInv

\* The record of a drained machine names the generation that is selected.
LEMMA CheckpointOutcome ==
  ASSUME OInv, Checkpoint, IInv'
  PROVE  OInv'
<1>1. /\ call.status = "open" /\ call.target = 1 /\ drv = "checkpoint" /\ call.method = "stage"
      /\ UNCHANGED <<engineCore, plan, broken, current, accepting, files, frontend>>
      /\ \/ record' = [prev |-> current, restored |-> FALSE, present |-> TRUE] /\ Return("ok")
         \/ UNCHANGED record /\ Return("err")
  BY OParts, InCall, Parts DEF Checkpoint, historyVars, hostVars, Positions
<1>2. Moved /\ drv' = "none"
  BY <1>1, OParts, Parts, Returning
<1>3. /\ IInv /\ Closed /\ Kept /\ Pointers /\ call.method = pc /\ ~record.restored
      /\ pc # "rollback" => step[1] = Before(pc)
      /\ Progress' /\ Published' /\ Reached(1) = step[1] /\ run # "none"
      /\ Reached(1)' = IF call'.status = "ok" THEN Recorded(pc) ELSE step[1]
      /\ UNCHANGED <<run, step, pc, todo, failed, plan>>
  BY <1>1, <1>2, MachineCall
<1>4. pc = "stage" /\ Reached(1) = "drained"
  BY <1>1, <1>3 DEF Before
<1>5. current < plan
  BY <1>3, <1>4 DEF Pointers
<1>6. \/ Reached(1)' = "staged" /\ record' = [prev |-> current, restored |-> FALSE, present |-> TRUE]
      \/ Reached(1)' = "drained" /\ record' = record
  <2>1. Return("err") => call'.status = "err"
    BY <1>3, Parts DEF Return, Answer, TypeOK, EngineTypeOK, Calls
  <2>2. Return("ok") => call'.status = "ok"
    BY <1>3, Parts DEF Return, Answer, TypeOK, EngineTypeOK, Calls
  <2> QED
    BY <1>1, <1>3, <1>4, <2>1, <2>2 DEF Recorded
<1>7. Closed'
  BY <1>1, <1>2, <1>3, <1>4 DEF Closed
<1>8. Kept'
  BY <1>1, <1>2, <1>3, <1>5, <1>6 DEF Kept, Undoable
<1>9. Pointers'
  BY <1>1, <1>2, <1>3, <1>4, <1>6 DEF Pointers, Selected, NotBegun
<1> QED
  BY <1>3, <1>7, <1>8, <1>9 DEF OInv

\* Selecting writes machine-selection.json and the host's own state; the file
\* current.json follows.
LEMMA SelectOutcome ==
  ASSUME OInv, Select, IInv'
  PROVE  OInv'
<1>1. CASE Return("err") /\ UNCHANGED <<files, current, url>>
  <2>1. call.status = "open" /\ call.target = 1 /\ drv = "select"
    BY OParts, InCall DEF Select
  <2>2. QuietStep
    BY <1>1, <2>1, OParts, Parts DEF Select, QuietStep, historyVars
  <2> QED
    BY <2>2, QuietKeeps
<1>2. CASE /\ files' = [files EXCEPT !.selection = EnsureTarget]
           /\ current' = EnsureTarget /\ Goto("pointer")
  <2>1. /\ call.status = "open" /\ call.target = 1 /\ drv = "select" /\ call.method \in {"commit", "rollback"}
        /\ UNCHANGED <<engineCore, plan, broken, record, accepting, frontend>>
    BY OParts, InCall, Parts DEF Select, historyVars, Positions
  <2>2. Moved /\ drv' = "pointer" /\ call' = call
    BY <1>2, <2>1, OParts, Parts, Going DEF DriverStates
  <2>3. /\ IInv /\ Closed /\ Kept /\ Pointers /\ call.method = pc /\ ~record.restored
        /\ pc # "rollback" => step[1] = Before(pc)
        /\ pc = "rollback" => step[1] \in Undoable
        /\ Progress' /\ Published' /\ Reached(1) = step[1] /\ Reached(1)' = step[1] /\ run # "none"
        /\ UNCHANGED <<run, step, pc, todo, failed, plan>> /\ ~Tried
    BY <2>1, <2>2, MachineCall
  <2>4. EnsureTarget' = EnsureTarget /\ EnsureTarget = IF pc = "rollback" THEN record.prev ELSE plan
    BY <2>1, <2>2, <2>3 DEF EnsureTarget
  <2>5. step[1] \in Undoable /\ (pc # "rollback" => step[1] = "healthy")
    BY <2>1, <2>3 DEF Before, Undoable
  <2>6. record.prev < plan /\ plan \in Nat /\ record.prev \in Nat
    BY <2>3, <2>5, Sizes DEF Kept
  <2>7. files'.selection = EnsureTarget
    BY <1>2, <2>3, Sizes
  <2>8. current' <= plan /\ (pc = "rollback" => current' < plan)
    BY <1>2, <2>4, <2>6
  <2>9. Closed' /\ Kept'
    BY <2>1, <2>2, <2>3, <2>5 DEF Closed, Kept, Undoable
  <2>10. Pointers'
    BY <1>2, <2>1, <2>2, <2>3, <2>4, <2>5, <2>7, <2>8 DEF Pointers, NotBegun, Undoable
  <2> QED
    BY <2>3, <2>9, <2>10 DEF OInv
<1> QED
  BY <1>1, <1>2 DEF Select

\* current.json follows; then a commit is over, and a rollback has restored.
LEMMA WritePointerOutcome ==
  ASSUME OInv, WritePointer, IInv'
  PROVE  OInv'
<1>1. /\ call.status = "open" /\ call.target = 1 /\ drv = "pointer" /\ call.method \in {"commit", "rollback"}
      /\ UNCHANGED <<engineCore, plan, broken, current, accepting, frontend>>
  BY OParts, InCall, Parts DEF WritePointer, historyVars, hostVars, Positions
<1>2. CASE Return("err") /\ UNCHANGED <<files, record>>
  <2>1. QuietStep
    BY <1>1, <1>2 DEF QuietStep
  <2> QED
    BY <2>1, QuietKeeps
<1>3. CASE /\ files' = [files EXCEPT !.current = EnsureTarget]
           /\ IF call.method = "commit" THEN Return("ok") /\ UNCHANGED record
              ELSE Goto("cleanup") /\ record' = [record EXCEPT !.restored = TRUE]
  <2>1. IInv /\ TypeOK
    BY OParts, Parts
  <2>2. current = EnsureTarget /\ files' = [current |-> current, selection |-> current]
    BY <1>1, <1>3, <2>1, OParts, Sizes DEF Pointers
  <2>3. CASE call.method = "commit" /\ Return("ok") /\ UNCHANGED record
    <3>1. Moved /\ drv' = "none" /\ call'.status = "ok" /\ call'.method = call.method
      <4>1. Moved /\ drv' = "none"
        BY <1>1, <2>1, <2>3, Returning
      <4>2. call'.status = "ok" /\ call'.method = call.method
        BY <2>1, <2>3 DEF Return, Answer, TypeOK, EngineTypeOK, Calls
      <4> QED
        BY <4>1, <4>2
    <3>2. /\ Closed /\ Kept /\ Pointers /\ call.method = pc /\ ~record.restored
          /\ pc # "rollback" => step[1] = Before(pc)
          /\ Progress' /\ Published' /\ Reached(1)' = Recorded(pc) /\ Reached(1) = step[1]
          /\ UNCHANGED <<run, step, pc, todo, failed, plan>>
      BY <1>1, <3>1, MachineCall
    <3>3. Reached(1) = "healthy" /\ Reached(1)' = "committed" /\ current = plan
      BY <2>2, <2>3, <3>2 DEF Before, Recorded, EnsureTarget
    <3>4. Closed' /\ Kept'
      BY <1>1, <2>3, <3>1, <3>2, <3>3 DEF Closed, Kept, Undoable
    <3>5. Pointers'
      BY <1>1, <2>1, <2>2, <3>1, <3>2, <3>3, Sizes DEF Pointers, Selected, NotBegun
    <3> QED
      BY <3>2, <3>4, <3>5 DEF OInv
  <2>4. CASE call.method # "commit" /\ Goto("cleanup") /\ record' = [record EXCEPT !.restored = TRUE]
    <3>1. Moved /\ drv' = "cleanup" /\ call' = call
      BY <1>1, <2>1, <2>4, Going DEF DriverStates
    <3>2. /\ Closed /\ Kept /\ Pointers /\ call.method = pc /\ step[1] \in Undoable
          /\ Progress' /\ Published' /\ Reached(1)' = step[1] /\ Reached(1) = step[1]
          /\ UNCHANGED <<run, step, pc, todo, failed, plan>>
      BY <1>1, <2>4, <3>1, MachineCall
    <3>3. /\ pc = "rollback" /\ record'.prev = record.prev /\ current = record.prev /\ record'.present = record.present
      BY <1>1, <2>1, <2>2, <2>4, <3>2, Sizes DEF EnsureTarget
    <3>4. record.prev # 0
      BY <1>1, <2>1, <2>2, <3>3, Parts DEF Positions, Gens
    <3>5. Closed' /\ Kept'
      BY <1>1, <2>4, <3>1, <3>2, <3>3 DEF Closed, Kept, Undoable
    <3>6. Pointers'
      BY <1>1, <2>1, <2>2, <3>1, <3>2, <3>3, <3>4, Sizes DEF Pointers, Selected, NotBegun, Undoable
    <3> QED
      BY <3>2, <3>5, <3>6 DEF OInv
  <2> QED
    BY <1>3, <2>3, <2>4
<1>4. CASE /\ call.method = "rollback" /\ files' = [files EXCEPT !.current = EnsureTarget]
           /\ Return("err") /\ UNCHANGED record
  <2>1. IInv /\ TypeOK
    BY OParts, Parts
  <2>2. Moved /\ drv' = "none" /\ call'.status = "err"
    <3>1. Moved /\ drv' = "none"
      BY <1>1, <1>4, <2>1, Returning
    <3>2. call'.status = "err"
      BY <2>1, <1>4 DEF Return, Answer, TypeOK, EngineTypeOK, Calls
    <3> QED
      BY <3>1, <3>2
  <2>3. /\ Closed /\ Kept /\ Pointers /\ call.method = pc /\ step[1] \in Undoable
        /\ Progress' /\ Published' /\ Reached(1)' = step[1] /\ Reached(1) = step[1]
        /\ UNCHANGED <<run, step, pc, todo, failed, plan>> /\ ~record.restored
    BY <1>1, <1>4, <2>2, MachineCall
  <2>4. current = record.prev /\ files'.selection = files.selection /\ files'.current = current
    BY <1>1, <1>4, <2>1, <2>3, Sizes DEF Pointers, EnsureTarget
  <2>5. Closed'
    BY <1>1, <2>3 DEF Closed
  <2>6. Kept'
    BY <1>1, <1>4, <2>2, <2>3 DEF Kept
  <2>7. Pointers'
    BY <1>1, <1>4, <2>2, <2>3, <2>4 DEF Pointers, Selected, NotBegun, Undoable
  <2> QED
    BY <2>3, <2>5, <2>6, <2>7 DEF OInv
<1> QED
  BY <1>2, <1>3, <1>4 DEF WritePointer

\* Without a predecessor the restore removes current.json and is over.
LEMMA RestoreOutcome ==
  ASSUME OInv, Restore, IInv'
  PROVE  OInv'
<1>1. /\ call.status = "open" /\ call.target = 1 /\ drv = "restore" /\ call.method = "rollback"
      /\ UNCHANGED <<engineCore, plan, broken, current, accepting, frontend>>
  BY OParts, InCall, Parts DEF Restore, historyVars, hostVars, Positions
<1>2. CASE (Return("err") \/ Goto("ensure")) /\ UNCHANGED <<files, record>>
  <2>1. QuietStep
    BY <1>1, <1>2 DEF QuietStep, DriverStates
  <2> QED
    BY <2>1, QuietKeeps
<1>3. CASE /\ record.prev = 0 /\ files' = [files EXCEPT !.current = 0]
           /\ record' = [record EXCEPT !.restored = TRUE] /\ Goto("cleanup")
  <2>1. IInv /\ TypeOK
    BY OParts, Parts
  <2>2. Moved /\ drv' = "cleanup" /\ call' = call
    BY <1>1, <1>3, <2>1, Going DEF DriverStates
  <2>3. /\ Closed /\ Kept /\ Pointers /\ call.method = pc /\ step[1] \in Undoable
        /\ Progress' /\ Published' /\ Reached(1)' = step[1] /\ Reached(1) = step[1]
        /\ UNCHANGED <<run, step, pc, todo, failed, plan>>
    BY <1>1, <2>2, MachineCall
  <2>4. /\ record'.prev = 0 /\ record.prev = 0 /\ record'.present = record.present /\ files'.current = 0
    BY <1>3, <2>1, Sizes
  <2>5. Closed' /\ Kept'
    BY <1>1, <2>2, <2>3, <2>4 DEF Closed, Kept, Undoable
  <2>6. Pointers'
    BY <1>1, <2>2, <2>3, <2>4 DEF Pointers, NotBegun, Undoable
  <2> QED
    BY <2>3, <2>5, <2>6 DEF OInv
<1>4. CASE /\ record.prev = 0 /\ files' = [files EXCEPT !.current = 0]
           /\ UNCHANGED record /\ Return("err")
  <2>1. IInv /\ TypeOK
    BY OParts, Parts
  <2>2. Moved /\ drv' = "none" /\ call'.status = "err"
    <3>1. Moved /\ drv' = "none"
      BY <1>1, <1>4, <2>1, Returning
    <3>2. call'.status = "err"
      BY <2>1, <1>4 DEF Return, Answer, TypeOK, EngineTypeOK, Calls
    <3> QED
      BY <3>1, <3>2
  <2>3. /\ Closed /\ Kept /\ Pointers /\ call.method = pc /\ step[1] \in Undoable
        /\ Progress' /\ Published' /\ Reached(1)' = step[1] /\ Reached(1) = step[1]
        /\ UNCHANGED <<run, step, pc, todo, failed, plan>> /\ ~record.restored
    BY <1>1, <2>2, MachineCall
  <2>4. Closed'
    BY <1>1, <2>2, <2>3 DEF Closed, Tried, Undoable
  <2>5. Kept'
    BY <1>1, <1>4, <2>2, <2>3 DEF Kept
  <2>6. Pointers'
    BY <1>1, <1>4, <2>2, <2>3 DEF Pointers, NotBegun, Undoable
  <2> QED
    BY <2>3, <2>4, <2>5, <2>6 DEF OInv
<1> QED
  BY <1>2, <1>3, <1>4 DEF Restore

\* Only a cleanup that is over takes requests again.
LEMMA CleanupOutcome ==
  ASSUME OInv, Cleanup, IInv'
  PROVE  OInv'
<1>1. /\ call.status = "open" /\ call.target = 1 /\ drv = "cleanup" /\ IInv /\ TypeOK
      /\ UNCHANGED <<engineCore, plan, broken, current, files, frontend>>
      /\ \/ accepting' /\ record' = NoRecord /\ Return("ok")
         \/ Return("err") /\ UNCHANGED record
  BY OParts, InCall, Parts DEF Cleanup, historyVars
<1>2. Moved /\ drv' = "none"
  BY <1>1, Returning
<1>3. /\ Closed /\ Kept /\ Pointers /\ call.method = pc /\ pc \in ForwardLoops \cup {"finalize", "rollback"}
      /\ Progress' /\ Published' /\ Reached(1) = step[1] /\ run \notin {"none", "failed"}
      /\ pc # "rollback" => step[1] = Before(pc)
      /\ pc = "rollback" => step[1] \in Undoable
      /\ Reached(1)' = IF call'.status = "ok" THEN Recorded(pc) ELSE step[1]
      /\ UNCHANGED <<run, step, pc, todo, failed, plan>>
      /\ record.restored => call.method = "rollback"
  BY <1>1, <1>2, MachineCall
<1>4. pc \in {"finalize", "rollback"}
  BY <1>1, <1>3 DEF Kept
<1>5. /\ Return("err") => call'.status = "err" /\ call'.target = 1
      /\ Return("ok") => call'.status = "ok"
  BY <1>1 DEF Return, Answer, TypeOK, EngineTypeOK, Calls
<1>6. CASE accepting' /\ record' = NoRecord /\ Return("ok")
  <2>1. Reached(1)' = IF pc = "finalize" THEN "finalized" ELSE "rolled-back"
    BY <1>3, <1>4, <1>5, <1>6 DEF Recorded
  <2>2. ~record'.restored
    BY <1>6 DEF NoRecord
  <2>3. Closed' /\ Kept'
    BY <1>2, <1>6, <2>1, <2>2 DEF Closed, Kept, Undoable
  <2>4. pc = "finalize" => Reached(1) = "committed"
    BY <1>3 DEF Before
  <2>5. pc = "rollback" => record.prev < plan
    BY <1>3 DEF Kept
  <2>6. Pointers'
    BY <1>1, <1>2, <1>3, <1>4, <1>6, <2>1, <2>4, <2>5 DEF Pointers, Selected, NotBegun
  <2> QED
    BY <1>3, <2>3, <2>6 DEF OInv
<1>7. CASE Return("err") /\ UNCHANGED record
  <2>1. Reached(1)' = step[1] /\ Reached(1) = step[1] /\ step[1] \in Undoable
    BY <1>3, <1>4, <1>5, <1>7 DEF Before, Undoable
  <2>2. Closed'
    BY <1>2, <1>3, <1>4, <1>5, <1>7, <2>1 DEF Closed, Tried, Undoable
  <2>3. Kept'
    BY <1>2, <1>3, <1>5, <1>7, <2>1 DEF Kept
  <2>4. Pointers'
    BY <1>1, <1>2, <1>3, <1>4, <1>7, <2>1 DEF Pointers, Selected, NotBegun, Undoable
  <2> QED
    BY <1>3, <2>2, <2>3, <2>4 DEF OInv
<1> QED
  BY <1>1, <1>6, <1>7

-----------------------------------------------------------------------------
(* The frontend driver. *)

\* What the frontend's methods have done, by where the call has brought them.
LEMMA FrontendOutcome ==
  ASSUME OInv, FrontendDriver, IInv'
  PROVE  OInv'
<1>1. /\ IInv /\ Progress /\ Closed /\ Kept /\ Pointers /\ Published /\ TypeOK
      /\ call.status = "open" /\ call.target = 2 /\ drv = "none"
      /\ UNCHANGED <<engineCore, plan, broken, accepting, current, record, files>>
  BY OParts, Parts DEF FrontendDriver, historyVars, hostVars, Control
<1>2. (Return("ok") \/ Return("err")) /\ drv' = "none"
  BY DEF FrontendDriver, Return
<1>3. Moved
  BY <1>1, <1>2, Returning
<1>4. /\ UNCHANGED <<run, step, pc, todo, failed, plan>>
      /\ pc \in ForwardLoops \cup {"finalize", "rollback"} /\ call.method = pc /\ N = 2
      /\ pc # "rollback" => step[2] = Before(pc)
      /\ pc = "rollback" => step[2] \in Undoable
  BY <1>1, OpenCall, Sizes, HostAssumption DEF engineCore, Ordinals
<1>5. /\ Progress' /\ Reached(1) = step[1] /\ Reached(1)' = step[1] /\ Reached(2) = step[2]
      /\ Reached(2)' = IF call'.status = "ok" THEN Recorded(pc) ELSE step[2]
  BY <1>1, <1>3, <1>4, MovedReached, Sizes
<1>6. Closed' /\ Kept'
  <2>1. call'.target = 2
    BY <1>1, <1>3 DEF Moved
  <2> QED
    BY <1>1, <1>2, <1>4, <1>5, <2>1 DEF Closed, Tried, Kept, ForwardLoops
<1>7. Pointers'
  BY <1>1, <1>2, <1>4, <1>5 DEF Pointers, Selected
<1>8. /\ frontend \in FrontendRecords /\ plan \in 0..MaxPlans /\ MaxPlans \in Nat
      /\ frontend.saved \in -1..MaxPlans
  BY <1>1, HostAssumption DEF TypeOK, FrontendRecords
<1>9. /\ Return("err") => call'.status = "err"
      /\ Return("ok") => call'.status = "ok"
  BY <1>1 DEF Return, Answer, TypeOK, EngineTypeOK, Calls
<1>10. CASE FrontendCan(call.method) /\ frontend' = FrontendEffect(call.method) /\ Return("ok")
  <2> SUFFICES Published'
    BY <1>5, <1>6, <1>7 DEF OInv
  <2>1. Reached(2)' = Recorded(pc) /\ frontend' = FrontendEffect(pc)
    BY <1>4, <1>5, <1>9, <1>10
  <2>2. CASE pc = "drain"
    <3>1. frontend' = frontend /\ Reached(2) = "pending" /\ Reached(2)' = "drained"
      BY <1>4, <1>5, <2>1, <2>2 DEF FrontendEffect, Before, Recorded
    <3> QED
      BY <1>1, <1>4, <3>1 DEF Published, NotBegun, Undoable
  <2>3. CASE pc = "stage"
    <3>1. frontend'.saved = frontend.pointer /\ Reached(2)' = "staged" /\ frontend.pointer # -1
      BY <1>8, <2>1, <2>3 DEF FrontendEffect, Recorded, FrontendRecords
    <3> QED
      BY <1>4, <3>1 DEF Published, NotBegun, Undoable
  <2>4. CASE pc = "activate"
    <3>1. /\ frontend'.pointer = plan /\ frontend'.published = plan /\ frontend'.saved = frontend.saved
          /\ Reached(2) = "staged" /\ Reached(2)' = "activated"
      BY <1>4, <1>5, <1>8, <2>1, <2>4 DEF FrontendEffect, Before, Recorded, FrontendRecords
    <3> QED
      BY <1>1, <1>4, <3>1 DEF Published, NotBegun, Undoable
  <2>5. CASE pc \in {"health", "commit"}
    <3>1. /\ frontend' = frontend /\ Reached(2) \in {"activated", "healthy"}
          /\ Reached(2)' \in {"healthy", "committed"}
      BY <1>4, <1>5, <2>1, <2>5 DEF FrontendEffect, Before, Recorded
    <3> QED
      BY <1>1, <1>4, <2>5, <3>1, OpenCall DEF Published, NotBegun, Undoable
  <2>6. CASE pc = "finalize"
    <3>1. Reached(2) = "committed" /\ Reached(2)' = "finalized" /\ frontend' = [frontend EXCEPT !.saved = -1]
      BY <1>4, <1>5, <2>1, <2>6 DEF FrontendEffect, Before, Recorded
    <3>2. frontend.pointer = plan /\ frontend.published = plan
      BY <1>1, <1>4, <2>6, <3>1, OpenCall DEF Published
    <3>3. frontend' = [pointer |-> plan, published |-> plan, saved |-> -1]
      BY <1>8, <3>1, <3>2 DEF FrontendRecords
    <3> QED
      BY <1>4, <3>1, <3>3 DEF Published, NotBegun, Undoable
  <2>7. CASE pc = "rollback"
    <3>1. Reached(2) \in Undoable /\ Reached(2)' = "rolled-back"
      BY <1>4, <1>5, <2>1, <2>7 DEF Recorded
    <3>2. frontend.saved > 0 \/ frontend.saved = 0
      BY <1>1, <1>4, <1>8, <3>1 DEF Published
    <3>3. frontend'.pointer = 0 \/ frontend'.published = frontend'.pointer
      BY <1>8, <2>1, <2>7, <3>2 DEF FrontendEffect, FrontendRecords
    <3> QED
      BY <3>1, <3>3 DEF Published, NotBegun, Undoable
  <2> QED
    BY <1>4, <2>2, <2>3, <2>4, <2>5, <2>6, <2>7 DEF ForwardLoops
<1>11. CASE frontend' \in FrontendPartial(call.method) /\ Return("err")
  <2> SUFFICES Published'
    BY <1>5, <1>6, <1>7 DEF OInv
  <2>1. Reached(2)' = Reached(2)
    BY <1>5, <1>9, <1>11
  <2>2. CASE frontend' = frontend
    BY <1>1, <1>4, <2>1, <2>2 DEF Published
  <2>3. CASE frontend' # frontend
    <3>1. /\ pc \in {"activate", "rollback"} /\ frontend.saved # -1
          /\ \/ frontend' = [frontend EXCEPT !.pointer = FrontendEffect(pc).pointer]
             \/ frontend' = [FrontendEffect(pc) EXCEPT !.saved = frontend.saved]
      BY <1>4, <1>11, <2>3 DEF FrontendPartial
    <3>2. FrontendEffect(pc) \in FrontendRecords
      BY <1>1, <3>1, FrontendTyped DEF Methods
    <3>3. frontend'.saved = frontend.saved
      <4> DEFINE e == FrontendEffect(pc)
      <4> HIDE DEF e
      <4> QED
        BY <1>8, <3>1, <3>2 DEF FrontendRecords, e
    <3>4. Reached(2) \in Undoable /\ (pc # "rollback" => Reached(2) = "staged")
      BY <1>4, <1>5, <3>1 DEF Before, Undoable
    <3> QED
      BY <1>4, <2>1, <3>1, <3>3, <3>4 DEF Published, NotBegun, Undoable
  <2> QED
    BY <2>2, <2>3
<1> QED
  BY <1>10, <1>11 DEF FrontendDriver

-----------------------------------------------------------------------------
(* The engine. *)

\* The engine never recovers or restarts a plan here, and it moves only where a
\* loop runs.
LEMMA EngineMoves ==
  ASSUME IInv, EngineStep
  PROVE  /\ \/ RecordPending \/ EnterLoop \/ Invoke \/ RecordOk \/ failAndRollback
            \/ RollbackError \/ RollbackDone \/ FinalizeError \/ FinalizeDone
         /\ pc # "idle" /\ call.status # "open"
<1>1. pc \notin {"recover", "restart"} /\ (call.status # "none" => pc # "idle")
  BY Parts DEF Control, DriverLoops, ForwardLoops
<1> QED
  BY <1>1, EngineWaits DEF EngineStep, RecoverError, RecoverDone, Restart, RecordPending, EnterLoop, Invoke,
     RecordOk, failAndRollback, RollbackError, RollbackDone, FinalizeError, FinalizeDone, DriverLoops, ForwardLoops

\* A loop that has nothing left to do has no call.
LEMMA NothingOpen ==
  ASSUME IInv, todo = {} \/ pc = "pending"
  PROVE  call.status = "none"
  BY Parts DEF Control, DriverLoops, ForwardLoops

\* The engine writes the states that belong to its loop, one target at a time.
LEMMA EngineProgress ==
  ASSUME IInv, Progress, EngineStep, plan' = plan
  PROVE  Progress'
<1> DEFINE Forward == ForwardLoops \cup {"pending", "finalize"}
<1>1. /\ step \in [Ordinals -> StepStates] /\ todo \subseteq Ordinals /\ pc \in Loops
      /\ pc # "idle" /\ run \notin {"none", "failed", "committed", "rolled-back"}
      /\ pc \notin {"recover", "restart"}
  BY EngineMoves, Parts DEF TypeOK, EngineTypeOK, Progress, Control
<1>2. CASE RecordPending
  <2>1. PICK i \in Ordinals : i \in todo /\ step' = [step EXCEPT ![i] = "pending"] /\ todo' = todo \ {i}
    BY <1>2 DEF RecordPending, IsNext
  <2>2. UNCHANGED <<run, pc, failed>> /\ pc = "pending"
    BY <1>2 DEF RecordPending
  <2>3. \A j \in Ordinals : step'[j] = IF j \in todo' THEN Before(pc) ELSE After(pc)
    BY <1>1, <2>1, <2>2 DEF Progress, After
  <2> QED
    BY <1>1, <2>2, <2>3 DEF Progress
<1>3. CASE EnterLoop
  <2>1. /\ pc \in ForwardLoops \cup {"pending"} /\ todo = {} /\ todo' = Ordinals /\ UNCHANGED <<step, failed>>
        /\ pc' = Following(pc).pc /\ run' = Following(pc).run
    BY <1>3 DEF EnterLoop
  <2>2. /\ pc' \in ForwardLoops \cup {"finalize"}
        /\ run' \notin {"none", "failed", "committed", "rolled-back"}
        /\ Before(pc') = After(pc)
    BY <2>1 DEF Following, ForwardLoops, Before, After, Recorded
  <2>3. \A i \in Ordinals : step'[i] = IF i \in todo' THEN Before(pc') ELSE After(pc')
    BY <2>1, <2>2 DEF Progress
  <2>4. ~failed'
    BY <2>1 DEF Progress, ForwardLoops
  <2> QED
    BY <2>2, <2>3, <2>4 DEF Progress, ForwardLoops
<1>4. CASE Invoke
  <2>1. UNCHANGED <<run, step, pc, todo, failed>>
    BY <1>4 DEF Invoke
  <2> QED
    BY <2>1 DEF Progress, ToRollBack
<1>5. CASE RecordOk
  <2>1. /\ step' = [step EXCEPT ![call.target] = Recorded(pc)] /\ todo' = todo \ {call.target}
        /\ UNCHANGED <<run, pc, failed>> /\ call.target \in todo /\ pc \in DriverLoops
    BY <1>5, Parts DEF RecordOk, Control
  <2>2. \A j \in Ordinals : step'[j] = IF j = call.target THEN Recorded(pc) ELSE step[j]
    BY <1>1, <2>1
  <2>3. pc # "pending" /\ pc \in ForwardLoops \cup {"finalize", "rollback"}
    BY <1>1, <2>1 DEF DriverLoops, ForwardLoops
  <2>4. CASE pc # "rollback"
    <3>1. \A j \in Ordinals : step'[j] = IF j \in todo' THEN Before(pc) ELSE After(pc)
      BY <1>1, <2>1, <2>2, <2>3, <2>4 DEF Progress, After
    <3> QED
      BY <1>1, <2>1, <2>3, <2>4, <3>1 DEF Progress
  <2>5. CASE pc = "rollback"
    <3>1. Recorded(pc) = "rolled-back"
      BY <2>5 DEF Recorded
    <3>2. ToRollBack' = ToRollBack \ {call.target}
      BY <1>1, <2>1, <2>2, <3>1 DEF ToRollBack, needsRollback
    <3> QED
      BY <1>1, <2>1, <2>2, <2>5, <3>1, <3>2 DEF Progress, ForwardLoops
  <2> QED
    BY <2>4, <2>5
<1>6. CASE failAndRollback
  <2>1. /\ run' = "rolling-back" /\ pc' = "rollback" /\ todo' = ToRollBack /\ ~failed' /\ step' = step
        /\ pc \in ForwardLoops
    BY <1>6 DEF failAndRollback
  <2>2. \A i \in Ordinals : step[i] # "finalized"
    BY <2>1 DEF Progress, ForwardLoops, Before, After, Recorded
  <2>3. ToRollBack' = ToRollBack
    BY <2>1 DEF ToRollBack
  <2> QED
    BY <2>1, <2>2, <2>3 DEF Progress, ForwardLoops
<1>7. CASE RollbackError
  <2>1. UNCHANGED <<run, step, pc>> /\ failed' /\ todo' = todo \ {call.target} /\ pc = "rollback"
    BY <1>7 DEF RollbackError
  <2>2. ToRollBack' = ToRollBack
    BY <2>1 DEF ToRollBack
  <2> QED
    BY <1>1, <2>1, <2>2 DEF Progress, ForwardLoops
<1>8. CASE RollbackDone
  <2>1. /\ run' = (IF failed THEN "failed" ELSE "rolled-back") /\ pc' = "idle" /\ ~failed' /\ step' = step
        /\ pc = "rollback" /\ todo = {}
    BY <1>8 DEF RollbackDone
  <2>2. ToRollBack' = ToRollBack
    BY <2>1 DEF ToRollBack
  <2> QED
    BY <2>1, <2>2 DEF Progress, ForwardLoops, OverStates
<1>9. CASE FinalizeError \/ FinalizeDone
  <2>1. /\ pc' = "idle" /\ UNCHANGED <<step, failed>> /\ pc = "finalize"
        /\ run' = "finalizing" \/ (run' = "committed" /\ todo = {})
    BY <1>9 DEF FinalizeError, FinalizeDone
  <2>2. \A i \in Ordinals : step[i] = IF i \in todo THEN "committed" ELSE "finalized"
    BY <2>1 DEF Progress, Before, After, Recorded
  <2> QED
    BY <2>1, <2>2 DEF Progress, ForwardLoops, OverStates
<1> QED
  BY <1>2, <1>3, <1>4, <1>5, <1>6, <1>7, <1>8, <1>9, EngineMoves

\* Recording an answer changes nothing of how far its target has come.
LEMMA EngineReached ==
  ASSUME IInv, Progress, EngineStep
  PROVE  \A i \in Ordinals : Reached(i)' = Reached(i) \/ (Reached(i) \in NotBegun /\ Reached(i)' \in NotBegun)
<1>1. step \in [Ordinals -> StepStates]
  BY Parts DEF TypeOK, EngineTypeOK
<1>2. NoCall.status = "none"
  BY DEF NoCall
<1>3. CASE RecordPending
  <2>1. PICK i \in Ordinals : i \in todo /\ step' = [step EXCEPT ![i] = "pending"]
    BY <1>3 DEF RecordPending, IsNext
  <2>2. pc = "pending" /\ call' = call /\ call.status = "none"
    BY <1>3, NothingOpen DEF RecordPending
  <2>3. step[i] = "none"
    BY <2>1, <2>2 DEF Progress, Before
  <2> QED
    BY <1>1, <2>1, <2>2, <2>3 DEF Reached, NotBegun
<1>4. CASE EnterLoop \/ RollbackDone \/ FinalizeDone
  <2>1. UNCHANGED <<step, call>> /\ call.status = "none"
    BY <1>4, NothingOpen DEF EnterLoop, RollbackDone, FinalizeDone
  <2> QED
    BY <2>1 DEF Reached
<1>5. CASE Invoke
  <2>1. step' = step /\ call.status = "none" /\ call'.status = "open"
    BY <1>5 DEF Invoke
  <2> QED
    BY <2>1 DEF Reached
<1>6. CASE RecordOk
  <2>1. /\ step' = [step EXCEPT ![call.target] = Recorded(pc)] /\ call' = NoCall /\ call.status = "ok"
    BY <1>6 DEF RecordOk
  <2>2. \A j \in Ordinals : step'[j] = IF j = call.target THEN Recorded(pc) ELSE step[j]
    BY <1>1, <2>1
  <2> QED
    BY <1>2, <2>1, <2>2 DEF Reached
<1>7. CASE failAndRollback \/ RollbackError \/ FinalizeError
  <2>1. step' = step /\ call.status = "err" /\ call' = NoCall
    BY <1>7 DEF failAndRollback, RollbackError, FinalizeError
  <2> QED
    BY <1>2, <2>1 DEF Reached
<1> QED
  BY <1>3, <1>4, <1>5, <1>6, <1>7, EngineMoves

\* That the machine's last method was tried is not forgotten in its deployment.
LEMMA EngineTried ==
  ASSUME IInv, Progress, EngineStep, Tried
  PROVE  Tried'
<1>1. pc # "idle" /\ (pc # "rollback" => ~failed)
  BY EngineMoves DEF Progress
<1>2. CASE pc \in {"finalize", "rollback"} /\ call.status = "err" /\ call.target = 1
  <2>1. RollbackError \/ FinalizeError
    BY <1>2, EngineMoves, NothingOpen DEF RecordPending, EnterLoop, Invoke, RecordOk, failAndRollback,
       RollbackDone, FinalizeDone, ForwardLoops
  <2>2. \/ pc' = "rollback" /\ failed' /\ 1 \notin todo'
        \/ pc' = "idle"
    BY <1>2, <2>1 DEF RollbackError, FinalizeError
  <2> QED
    BY <2>2 DEF Tried
<1>3. CASE pc = "rollback" /\ failed /\ 1 \notin todo
  <2>1. Invoke \/ RecordOk \/ RollbackError \/ RollbackDone
    BY <1>1, <1>3, EngineMoves DEF RecordPending, EnterLoop, failAndRollback, FinalizeError, FinalizeDone,
       ForwardLoops
  <2>2. CASE Invoke \/ RecordOk \/ RollbackError
    <3>1. pc' = "rollback" /\ failed' /\ 1 \notin todo'
      BY <1>3, <2>2 DEF Invoke, RecordOk, RollbackError
    <3> QED
      BY <3>1 DEF Tried
  <2>3. CASE RollbackDone
    BY <2>3 DEF RollbackDone, Tried
  <2> QED
    BY <2>1, <2>2, <2>3
<1> QED
  BY <1>1, <1>2, <1>3 DEF Tried

\* What is reached stays what it means for host, files and frontend.
LEMMA EngineOutcome ==
  ASSUME OInv, EngineStep, UNCHANGED <<plan, historyVars, hostVars, driverVars>>, IInv'
  PROVE  OInv'
<1>1. IInv /\ Progress /\ Closed /\ Kept /\ Pointers /\ Published
  BY OParts
<1>2. Progress'
  BY <1>1, EngineProgress
<1>3. /\ Reached(1)' = Reached(1) \/ (Reached(1) \in NotBegun /\ Reached(1)' \in NotBegun)
      /\ N = 2 => Reached(2)' = Reached(2) \/ (Reached(2) \in NotBegun /\ Reached(2)' \in NotBegun)
  BY <1>1, EngineReached, Sizes
<1>4. /\ drv = "none" /\ drv' = "none" /\ run \notin {"none", "failed"}
      /\ UNCHANGED <<plan, current, accepting, record, files, frontend, broken>>
  BY <1>1, EngineWaits, EngineMoves DEF Progress, historyVars, hostVars, driverVars
<1>5. ASSUME NEW i \in Ordinals, Reached(i)' \in {"activated", "healthy", "committed", "finalized"},
             pc' # "rollback", run' # "failed"
      PROVE  pc # "rollback"
  <2>1. CASE pc = "rollback"
    <3>1. RollbackDone
      BY <1>5, <2>1, EngineMoves, <1>1
         DEF RecordPending, EnterLoop, Invoke, RecordOk, failAndRollback, RollbackError, FinalizeError,
             FinalizeDone, ForwardLoops
    <3>2. run' = "rolled-back" /\ pc' = "idle" /\ call' = call /\ call.status = "none" /\ step' = step
      BY <1>1, <1>5, <3>1, NothingOpen DEF RollbackDone
    <3>3. step[i] \notin Undoable \cup {"finalized"}
      BY <1>2, <3>2 DEF Progress, ToRollBack, needsRollback, Undoable
    <3> QED
      BY <1>5, <3>2, <3>3 DEF Reached, Undoable
  <2> QED
    BY <2>1
<1>6. Closed'
  BY <1>1, <1>3, <1>4, EngineTried DEF Closed, NotBegun, Undoable
<1>7. Kept'
  <2>1. record.restored => (pc = "rollback" /\ call.status = "err" /\ call.target = 1)
                            \/ (pc = "rollback" /\ failed /\ 1 \notin todo)
    BY <1>1, <1>4 DEF Kept
  <2>2. record.restored => (pc' = "rollback" /\ failed' /\ 1 \notin todo') \/ run' = "failed"
    <3> SUFFICES ASSUME record.restored
                 PROVE  (pc' = "rollback" /\ failed' /\ 1 \notin todo') \/ run' = "failed"
      OBVIOUS
    <3>1. Invoke \/ RecordOk \/ RollbackError \/ RollbackDone
      BY <1>1, <2>1, EngineMoves DEF RecordPending, EnterLoop, failAndRollback, FinalizeError, FinalizeDone,
         ForwardLoops
    <3>2. CASE Invoke \/ RecordOk
      BY <2>1, <3>2 DEF Invoke, RecordOk
    <3>3. CASE RollbackError
      BY <2>1, <3>3 DEF RollbackError
    <3>4. CASE RollbackDone
      BY <1>1, <2>1, <3>4, NothingOpen DEF RollbackDone
    <3> QED
      BY <3>1, <3>2, <3>3, <3>4
  <2> QED
    BY <1>1, <1>3, <1>4, <2>2 DEF Kept, NotBegun, Undoable
<1>8. Pointers'
  BY <1>1, <1>3, <1>4, <1>5, Sizes DEF Pointers, Selected, NotBegun
<1>9. Published'
  BY <1>1, <1>3, <1>4, <1>5, Sizes DEF Published, NotBegun, Undoable
<1> QED
  BY <1>2, <1>6, <1>7, <1>8, <1>9 DEF OInv

\* A new plan starts from what the last one selected, unless that one failed.
LEMMA DeployOutcome ==
  ASSUME OInv, Deploy, IInv'
  PROVE  OInv'
<1>1. IInv /\ Progress /\ Closed /\ Kept /\ Pointers /\ Published
  BY OParts
<1>2. /\ pc = "idle" /\ plan' = plan + 1 /\ broken' = (broken \/ run = "failed") /\ run' = "planned"
      /\ step' = [i \in Ordinals |-> "none"] /\ pc' = "pending" /\ todo' = Ordinals
      /\ record' = NoRecord /\ frontend' = [frontend EXCEPT !.saved = -1]
      /\ UNCHANGED <<failed, call, current, accepting, drv, files>>
  BY DEF Deploy, hostVars
<1>3. call.status = "none" /\ drv = "none"
  BY <1>1, <1>2, Parts DEF Control, DriverLoops, ForwardLoops
<1>4. /\ Reached(1)' = "none" /\ Reached(1) = step[1]
      /\ N = 2 => Reached(2)' = "none" /\ Reached(2) = step[2]
  BY <1>1, <1>2, <1>3, Sizes DEF Reached
<1>5. Progress'
  BY <1>1, <1>2 DEF Progress, Before, ForwardLoops
<1>6. Closed' /\ Kept'
  BY <1>2, <1>3, <1>4 DEF Closed, Kept, NoRecord, Undoable
<1>7. ASSUME NEW i \in Ordinals, ~broken'
      PROVE  /\ run # "failed" /\ ~broken
             /\ step[i] \in NotBegun \cup {"drained", "rolled-back", "committed", "finalized"}
  <2>1. run \in {"none", "committed", "rolled-back", "finalizing"}
    BY <1>1, <1>2, <1>7 DEF Progress, OverStates
  <2>2. step[i] \in StepStates
    BY <1>1, Sizes
  <2>3. run = "rolled-back" => step[i] \notin Undoable
    BY <1>1 DEF Progress, ToRollBack, needsRollback, Undoable
  <2> QED
    BY <1>1, <1>2, <1>7, <2>1, <2>2, <2>3 DEF Progress, StepStates, NotBegun, Undoable
<1>8. Pointers'
  <2>1. current < plan'
    BY <1>1, <1>2, Sizes DEF Pointers
  <2>2. ~broken' /\ files.current # 0 => files = [current |-> current, selection |-> current]
    BY <1>1, <1>2, <1>4, <1>7, Sizes DEF Pointers, Selected, NotBegun
  <2> QED
    BY <1>1, <1>2, <1>3, <1>4, <2>1, <2>2, Sizes DEF Pointers, Selected, NotBegun
<1>9. Published'
  <2>1. /\ frontend'.pointer = frontend.pointer /\ frontend'.published = frontend.published
    BY <1>1, <1>2, Parts DEF TypeOK
  <2>2. N = 2 /\ ~broken' /\ frontend.pointer # 0 => frontend.published = frontend.pointer
    BY <1>1, <1>2, <1>4, <1>7, Sizes DEF Published, NotBegun
  <2> QED
    BY <1>4, <2>1, <2>2 DEF Published, NotBegun, Undoable
<1> QED
  BY <1>5, <1>6, <1>8, <1>9 DEF OInv

-----------------------------------------------------------------------------
\* At first nothing is selected, and nothing is deployed.
LEMMA OInitially == Init => OInv
<1> SUFFICES ASSUME Init PROVE OInv
  OBVIOUS
<1>1. IInv
  BY Initially
<1>2. /\ run = "none" /\ step = [i \in Ordinals |-> "none"] /\ pc = "idle" /\ ~failed /\ call.status = "none"
      /\ plan = 0 /\ accepting /\ current = 0 /\ drv = "none" /\ ~record.restored
      /\ files.current = 0 /\ frontend.pointer = 0
  BY DEF Init, EngineInit, NoCall, NoRecord
<1>3. Reached(1) = "none" /\ (N = 2 => Reached(2) = "none")
  BY <1>1, <1>2, Sizes DEF Reached
<1>4. Progress
  BY <1>2 DEF Progress, OverStates, ForwardLoops
<1>5. Closed /\ Kept /\ Pointers /\ Published
  BY <1>2, <1>3 DEF Closed, Kept, Pointers, Published, NotBegun, Undoable
<1> QED
  BY <1>1, <1>4, <1>5 DEF OInv

\* Every step keeps what is said of outcomes.
LEMMA OInductive == OInv /\ [Next]_vars => OInv'
<1> SUFFICES ASSUME OInv, [Next]_vars PROVE OInv'
  OBVIOUS
<1>1. IInv /\ IInv'
  BY Inductive, OParts
<1>2. CASE Deploy
  BY <1>1, <1>2, DeployOutcome
<1>3. CASE EngineStep /\ UNCHANGED <<plan, historyVars, hostVars, driverVars>>
  BY <1>1, <1>3, EngineOutcome
<1>4. CASE HostStep
  <2>1. UNCHANGED <<engineVars, plan, current, accepting, driverVars, broken>>
    BY <1>4 DEF HostStep, Exit, generationExited, LoopWakes, LoopReady, LoopFails, LoopSwitches,
       LoopUnrecorded, LoopReaped, historyVars
  <2> QED
    BY <1>1, <2>1, HostOnly
<1>5. CASE MachineDriver
  BY <1>1, <1>5, DrainOutcome, Beginnings, Stops, Starts, QuietKeeps, CheckpointOutcome, SelectOutcome,
     WritePointerOutcome, RestoreOutcome, CleanupOutcome DEF MachineDriver
<1>6. CASE FrontendDriver
  BY <1>1, <1>6, FrontendOutcome
<1>7. CASE UNCHANGED vars
  BY <1>1, <1>7, HostOnly DEF vars, hostVars, historyVars
<1> QED
  BY <1>2, <1>3, <1>4, <1>5, <1>6, <1>7 DEF Next

\* The invariant holds of every reachable state.
THEOREM OutcomeInvariance == Spec => []OInv
BY OInitially, OInductive, PTL DEF Spec

\* What a deployment leaves behind is what the journal says of it: a committed
\* plan is selected by host, files and frontend, and a rolled back one leaves the
\* predecessor selected and taking requests.
THEOREM OutcomesTrue == Spec => []OutcomeSelected
<1>1. OInv => OutcomeSelected
  <2> SUFFICES ASSUME OInv, pc = "idle" PROVE OutcomeSelected
    BY DEF OutcomeSelected
  <2>1. IInv /\ Progress /\ Pointers /\ Published /\ call.status = "none"
    BY OParts, Parts DEF Control, DriverLoops, ForwardLoops
  <2>2. Reached(1) = step[1] /\ (N = 2 => Reached(2) = step[2])
    BY <2>1 DEF Reached
  <2>3. CASE run = "committed"
    <3>1. step[1] = "finalized" /\ (N = 2 => step[2] = "finalized")
      BY <2>1, <2>3, Sizes DEF Progress
    <3> QED
      BY <2>1, <2>2, <2>3, <3>1 DEF OutcomeSelected, Pointers, Selected, Published
  <2>4. CASE run = "rolled-back"
    <3>1. \A i \in Ordinals : step[i] \in NotBegun \cup {"drained", "rolled-back"}
      BY <2>1, <2>4, Sizes DEF Progress, ToRollBack, needsRollback, StepStates, NotBegun
    <3>2. step[1] = "rolled-back" => accepting
      BY <2>1, <2>2 DEF Pointers
    <3>3. files.current # 0 /\ Sound => current < plan /\ files = [current |-> current, selection |-> current]
      BY <2>1, <2>2, <2>4, <3>1, Sizes DEF Pointers, Selected, Sound, NotBegun
    <3>4. N = 2 /\ frontend.pointer # 0 /\ Sound => frontend.published = frontend.pointer
      BY <2>1, <2>2, <3>1, Sizes DEF Published, Sound
    <3> QED
      BY <2>4, <3>2, <3>3, <3>4 DEF OutcomeSelected
  <2> QED
    BY <2>3, <2>4 DEF OutcomeSelected
<1> QED
  BY <1>1, OutcomeInvariance, PTL

-----------------------------------------------------------------------------
(* Which generations are alive. *)

\* "up" once it has been ready and has not been seen to exit.
Up(p) == proc[p].st \in {"live", "stopping", "stuck"}
Lives(p) == proc[p].st = "starting" \/ Up(p)

\* Every process that is starting has someone waiting for it; a restart loop was
\* started by a process that is gone; a stop waits for a process that is going.
Spawns ==
  /\ \A p \in Procs : proc[p].st = "starting" =>
       \/ drv = "start" /\ held = p
       \/ \E q \in Procs : loop[q].st = "start" /\ loop[q].child = p
  /\ \A p \in Procs : loop[p].st # "none" => proc[p].st = "gone"
  /\ drv = "exit" => proc[held].st # "live"

\* Until a drain, or another exit, meets a restart that is under way: one loop
\* for a generation, restarts only of the current one while it takes requests,
\* and nothing alive that the host does not track.
Alone == ~overlapped =>
  /\ \A p, q \in Procs : loop[p].st # "none" /\ loop[q].st # "none" /\ loop[p].gen = loop[q].gen => p = q
  /\ \A p \in Procs : loop[p].st = "start" => accepting /\ current = loop[p].gen /\ running[loop[p].gen] = 0
  /\ \A p \in Procs : Up(p) => running[proc[p].gen] = p
  /\ drv = "start" => running[EnsureTarget] = 0
  /\ drv \in StopStates => running[StopTarget] \in {0, held}

\* No rollback of the machine has failed.
Undone == /\ ~broken /\ run # "failed"
          /\ pc = "rollback" => /\ call.status = "err" => call.target # 1
                                /\ failed => 1 \in todo

\* The generation whose processes may be alive: in a rollback, from the restore
\* on, the predecessor; from the stage on the plan's; otherwise the current one.
Back == {"ensure", "start", "register", "reap", "select", "pointer", "cleanup"}
Charge == IF pc = "rollback" /\ drv \in Back THEN record.prev
          ELSE IF Reached(1) \in Undoable \cup {"finalized"} THEN plan ELSE current

\* Nothing else is alive, and nothing at all between a drain and a stage and
\* while a database is restored.
Manned == Undone /\ ~overlapped =>
  /\ \A p \in Procs : Lives(p) => proc[p].gen = Charge
  /\ drv = "restore" \/ Reached(1) = "drained" => \A p \in Procs : ~Lives(p)

QInv == OInv /\ Spawns /\ Alone /\ Manned

\* The parts of the invariant, to be cited without expanding it.
LEMMA QParts ==
  ASSUME QInv
  PROVE  OInv /\ IInv /\ Progress /\ Closed /\ Kept /\ Pointers /\ Spawns /\ Alone /\ Manned
  BY OParts DEF QInv

\* A step that brings nothing to life, and after which the same generation may
\* be alive.
LEMMA MannedLess ==
  ASSUME Manned, Undone' => Undone, ~overlapped' => ~overlapped,
         \A p \in Procs : Lives(p)' => Lives(p) /\ proc'[p].gen = proc[p].gen,
         Undone' /\ ~overlapped' => Charge' = Charge \/ \A p \in Procs : ~Lives(p)',
         Undone' /\ ~overlapped' /\ (drv' = "restore" \/ Reached(1)' = "drained") =>
           drv = "restore" \/ Reached(1) = "drained" \/ \A p \in Procs : ~Lives(p)'
  PROVE  Manned'
  BY DEF Manned

\* A step that leaves processes and loops alone.
LEMMA SpawnsLeft ==
  ASSUME Spawns, UNCHANGED <<proc, loop>>, drv # "start", drv' # "exit"
  PROVE  Spawns'
  BY DEF Spawns

\* What a step of the restart loops leaves alone.
LEMMA HostSame ==
  ASSUME IInv, UNCHANGED <<engineVars, plan, current, accepting, driverVars, broken>>
  PROVE  /\ Undone' = Undone /\ Charge' = Charge /\ Reached(1)' = Reached(1)
         /\ StopTarget' = StopTarget /\ EnsureTarget' = EnsureTarget
         /\ UNCHANGED <<plan, current, accepting, drv, held, pc, run>>
<1> USE DEF engineVars, driverVars
<1>1. Reached(1)' = Reached(1)
  BY DEF Reached
<1>2. Undone' = Undone
  BY DEF Undone
<1>3. Charge' = Charge
  BY <1>1 DEF Charge
<1> QED
  BY <1>1, <1>2, <1>3, DriverLeft

-----------------------------------------------------------------------------
(* Generation processes and restart loops. *)

\* A generation that exits is alive no more.
LEMMA ExitQuiet ==
  ASSUME QInv, NEW p \in Procs, Exit(p), OInv'
  PROVE  QInv'
<1>1. /\ IInv /\ Spawns /\ Alone /\ Manned /\ TypeOK
  BY QParts, Parts
<1>2. /\ proc[p].st = "live" /\ UNCHANGED <<engineVars, plan, current, accepting, driverVars, broken>>
      /\ UNCHANGED <<overlapped, running, loop>>
  BY DEF Exit, historyVars
<1>3. \A q \in Procs : /\ proc'[q].gen = proc[q].gen
                       /\ proc'[q].st = IF q = p THEN "exited" ELSE proc[q].st
  BY <1>1, ProcSet DEF Exit, ProcStates
<1>4. /\ Undone' = Undone /\ Charge' = Charge /\ Reached(1)' = Reached(1)
      /\ StopTarget' = StopTarget /\ EnsureTarget' = EnsureTarget
      /\ UNCHANGED <<plan, current, accepting, drv, held, pc, run>>
  BY <1>1, <1>2, HostSame
<1>5. Spawns'
  BY <1>1, <1>2, <1>3, <1>4, Parts DEF Spawns, Held, HoldStates, StopStates
<1>6. Alone'
  BY <1>1, <1>2, <1>3, <1>4 DEF Alone, Up
<1>7. Manned'
  BY <1>1, <1>2, <1>3, <1>4, MannedLess DEF Lives, Up
<1> QED
  BY <1>5, <1>6, <1>7 DEF QInv

\* A new restart loop is the only one of its generation, or the run overlaps.
LEMMA GenerationExitedQuiet ==
  ASSUME QInv, NEW p \in Procs, generationExited(p), OInv'
  PROVE  QInv'
<1> DEFINE g == proc[p].gen
           active == running[g] = p /\ accepting /\ current = g
           sleep == [gen |-> g, st |-> "sleep", child |-> 0]
<1>1. /\ IInv /\ Spawns /\ Alone /\ Manned /\ TypeOK
  BY QParts, Parts
<1>2. /\ proc[p].st = "exited" /\ UNCHANGED <<engineVars, plan, current, accepting, driverVars, broken>>
      /\ g \in Gens
  BY <1>1, Parts DEF generationExited, Named
<1>3. \A q \in Procs : /\ proc'[q].gen = proc[q].gen
                       /\ proc'[q].st = IF q = p THEN "gone" ELSE proc[q].st
  BY <1>1, ProcSet DEF generationExited, ProcStates
<1>4. /\ Undone' = Undone /\ Charge' = Charge /\ Reached(1)' = Reached(1)
      /\ StopTarget' = StopTarget /\ EnsureTarget' = EnsureTarget
      /\ UNCHANGED <<plan, current, accepting, drv, held, pc, run>>
  BY <1>1, <1>2, HostSame
<1>5. \A h \in Gens : running'[h] = IF h = g /\ running[h] = p THEN 0 ELSE running[h]
  BY <1>1, <1>2 DEF generationExited, TypeOK
<1>6. /\ overlapped' = (overlapped \/ (active /\ \E q \in Procs : loop[q].gen = g))
      /\ loop' = IF active THEN [loop EXCEPT ![p] = sleep] ELSE loop
  BY DEF generationExited
<1>7. /\ sleep.gen = g /\ sleep.st = "sleep"
      /\ \A q \in Procs : loop'[q] = IF active /\ q = p THEN sleep ELSE loop[q]
  BY <1>1, <1>6 DEF TypeOK
<1> HIDE DEF sleep, active
<1>8. loop[p].st = "none"
  BY <1>1, <1>2 DEF Spawns
<1>9. Spawns'
  <2>1. /\ \A q \in Procs : loop[q].st = "start" => loop'[q] = loop[q]
        /\ \A q \in Procs : loop'[q].st # "none" => proc'[q].st = "gone"
    BY <1>1, <1>3, <1>7, <1>8 DEF Spawns
  <2>2. drv' = "exit" => proc'[held'].st # "live"
    BY <1>1, <1>3, <1>4, Parts DEF Spawns, Held, StopStates
  <2> QED
    BY <1>1, <1>3, <1>4, <2>1, <2>2 DEF Spawns
<1>10. Alone'
  <2> SUFFICES ASSUME ~overlapped' PROVE Alone'
    BY DEF Alone
  <2>1. ~overlapped /\ (active => \A q \in Procs : loop[q].gen # g)
    BY <1>6
  <2>2. \A q, r \in Procs : loop'[q].st # "none" /\ loop'[r].st # "none" /\ loop'[q].gen = loop'[r].gen => q = r
    BY <1>1, <1>7, <2>1 DEF Alone
  <2>3. \A q \in Procs : loop'[q].st = "start" => loop'[q] = loop[q] /\ loop[q].gen \in Gens
    BY <1>1, <1>7, Parts DEF Restarts
  <2>4. \A q \in Procs : loop'[q].st = "start" =>
          accepting' /\ current' = loop'[q].gen /\ running'[loop'[q].gen] = 0
    BY <1>1, <1>4, <1>5, <2>1, <2>3 DEF Alone
  <2>5. \A q \in Procs : Up(q)' => running'[proc'[q].gen] = q
    <3> SUFFICES ASSUME NEW q \in Procs, Up(q)' PROVE running'[proc'[q].gen] = q
      OBVIOUS
    <3>1. q # p /\ Up(q) /\ proc'[q].gen = proc[q].gen /\ proc[q].gen \in Gens
      BY <1>1, <1>3, Parts DEF Named, Up
    <3>2. running[proc[q].gen] = q
      BY <1>1, <2>1, <3>1 DEF Alone
    <3> QED
      BY <1>5, <3>1, <3>2
  <2>6. drv' = "start" => running'[EnsureTarget'] = 0
    BY <1>1, <1>4, <1>5, <2>1, Parts DEF Alone, Positions
  <2>7. drv' \in StopStates => running'[StopTarget'] \in {0, held'}
    BY <1>1, <1>4, <1>5, <2>1, Parts DEF Alone, Held
  <2> QED
    BY <2>2, <2>4, <2>5, <2>6, <2>7 DEF Alone
<1>11. Manned'
  BY <1>1, <1>3, <1>4, <1>6, MannedLess DEF Lives, Up
<1> QED
  BY <1>9, <1>10, <1>11 DEF QInv

\* What was tried and did not fail to roll back was a finalize.
LEMMA TriedFinalize ==
  ASSUME QInv, Undone, Tried, Reached(1) \in Undoable
  PROVE  Reached(1) = "committed" /\ pc # "rollback"
<1>1. IInv /\ Progress /\ 1 \in Ordinals /\ step[1] \in StepStates
  BY QParts, Sizes
<1>2. CASE pc = "idle"
  <2>1. call.status = "none" /\ Reached(1) = step[1]
    BY <1>1, <1>2, Parts DEF Control, DriverLoops, ForwardLoops, Reached
  <2>2. run \in {"none", "committed", "rolled-back", "finalizing"}
    BY <1>1, <1>2 DEF Progress, OverStates, Undone
  <2> QED
    BY <1>1, <1>2, <2>1, <2>2 DEF Progress, ToRollBack, needsRollback, Undoable
<1>3. CASE pc \in {"finalize", "rollback"} /\ call.status = "err" /\ call.target = 1
  <2>1. pc = "finalize" /\ 1 \in todo
    BY <1>1, <1>3, Parts DEF Undone, Control
  <2> QED
    BY <1>1, <1>3, <2>1 DEF Progress, Before, Reached
<1> QED
  BY <1>2, <1>3 DEF Tried, Undone

\* A loop spawns only the current generation, and only while the machine takes
\* requests: no deployment is past its drain then.
LEMMA LoopWakesQuiet ==
  ASSUME QInv, NEW p \in Procs, LoopWakes(p), OInv'
  PROVE  QInv'
<1> DEFINE g == loop[p].gen
<1>1. /\ IInv /\ Spawns /\ Alone /\ Manned /\ TypeOK
  BY QParts, Parts
<1>2. /\ loop[p].st = "sleep" /\ UNCHANGED <<engineVars, plan, current, accepting, driverVars, broken>>
      /\ UNCHANGED <<overlapped, running>> /\ g \in Gens
  BY <1>1, Parts DEF LoopWakes, historyVars, Restarts
<1>3. /\ Undone' = Undone /\ Charge' = Charge /\ Reached(1)' = Reached(1)
      /\ StopTarget' = StopTarget /\ EnsureTarget' = EnsureTarget
      /\ UNCHANGED <<plan, current, accepting, drv, held, pc, run>>
  BY <1>1, <1>2, HostSame
<1>4. CASE loop' = [loop EXCEPT ![p] = NoLoop] /\ proc' = proc
  <2>1. NoLoop.st = "none" /\ \A q \in Procs : loop'[q] = IF q = p THEN NoLoop ELSE loop[q]
    BY <1>1, <1>2, <1>4, LoopSet, LoopValues
  <2>2. Spawns'
    BY <1>1, <1>2, <1>3, <1>4, <2>1 DEF Spawns
  <2>3. Alone'
    BY <1>1, <1>2, <1>3, <1>4, <2>1 DEF Alone, Up
  <2>4. Manned'
    BY <1>1, <1>2, <1>3, <1>4, MannedLess DEF Lives, Up
  <2> QED
    BY <2>2, <2>3, <2>4 DEF QInv
<1>5. ASSUME NEW q \in Procs, accepting, current = g, running[g] = 0, Spawnable(q), Spawned(q, g),
             loop' = [loop EXCEPT ![p] = [gen |-> g, st |-> "start", child |-> q]]
      PROVE  QInv'
  <2> DEFINE start == [gen |-> g, st |-> "start", child |-> q]
  <2>1. start.st = "start" /\ start.child = q /\ start.gen = g
    OBVIOUS
  <2>2. \A r \in Procs : loop'[r] = IF r = p THEN start ELSE loop[r]
    BY <1>1, <1>5 DEF TypeOK
  <2> HIDE DEF start
  <2>3. /\ proc'[q].gen = g /\ proc'[q].st = "starting"
        /\ \A r \in Procs : r # q => proc'[r] = proc[r]
    BY <1>1, <1>2, <1>5, Spawning
  <2>4. q # held /\ loop[q].st = "none" /\ \A r \in Procs : loop[r].child # q
    BY <1>1, <1>5, UnusedSlot DEF Spawnable, Unused
  <2> HIDE DEF g
  <2>5. Spawns'
    <3>1. \A r \in Procs : proc'[r].st = "starting" =>
            \/ drv' = "start" /\ held' = r
            \/ \E s \in Procs : loop'[s].st = "start" /\ loop'[s].child = r
      BY <1>1, <1>2, <1>3, <2>1, <2>2, <2>3, <2>4 DEF Spawns
    <3>2. \A r \in Procs : loop'[r].st # "none" => proc'[r].st = "gone"
      BY <1>1, <1>2, <2>2, <2>3, <2>4 DEF Spawns
    <3>3. drv' = "exit" => proc'[held'].st # "live"
      BY <1>1, <1>3, <2>3, <2>4, Parts DEF Spawns, Held, StopStates
    <3> QED
      BY <3>1, <3>2, <3>3 DEF Spawns
  <2>6. Alone'
    <3> SUFFICES ASSUME ~overlapped' PROVE Alone'
      BY DEF Alone
    <3>1. \A r, s \in Procs : loop'[r].st # "none" /\ loop'[s].st # "none" /\ loop'[r].gen = loop'[s].gen => r = s
      BY <1>1, <1>2, <2>1, <2>2 DEF Alone, g
    <3>2. \A r \in Procs : loop'[r].st = "start" =>
            accepting' /\ current' = loop'[r].gen /\ running'[loop'[r].gen] = 0
      BY <1>1, <1>2, <1>3, <1>5, <2>1, <2>2 DEF Alone
    <3>3. \A r \in Procs : Up(r)' => running'[proc'[r].gen] = r
      BY <1>1, <1>2, <2>3 DEF Alone, Up
    <3> QED
      BY <1>1, <1>2, <1>3, <3>1, <3>2, <3>3 DEF Alone
  <2>7. Manned'
    <3> SUFFICES ASSUME Undone, ~overlapped PROVE Manned'
      BY <1>2, <1>3 DEF Manned
    <3>1. drv = "none" /\ Reached(1) # "drained" /\ (Reached(1) \in Undoable => Tried)
      BY <1>5, QParts DEF Closed
    <3>2. Reached(1) \in Undoable \cup {"finalized"} => current = plan
      <4>1. Reached(1) = "finalized" => pc # "rollback"
        BY QParts, Sizes DEF Reached, Recorded, Progress
      <4>2. Reached(1) \in Undoable => Reached(1) = "committed" /\ pc # "rollback"
        BY <3>1, QParts, TriedFinalize
      <4> QED
        BY <4>1, <4>2, QParts DEF Pointers, Undone
    <3>3. Charge = g
      BY <1>5, <3>1, <3>2 DEF Charge, Back
    <3> QED
      BY <1>1, <1>2, <1>3, <2>3, <3>1, <3>3 DEF Manned, Lives, Up
  <2> QED
    BY <2>5, <2>6, <2>7 DEF QInv
<1> QED
  BY <1>4, <1>5 DEF LoopWakes

\* While a restart waits for readiness the driver is in no call.
LEMMA RestartAlone ==
  ASSUME QInv, ~overlapped, NEW p \in Procs, loop[p].st = "start"
  PROVE  /\ drv = "none" /\ accepting /\ current = loop[p].gen /\ running[loop[p].gen] = 0
         /\ \A q \in Procs : loop[q].st # "none" /\ loop[q].gen = loop[p].gen => q = p
         /\ \A q \in Procs : Up(q) => proc[q].gen # loop[p].gen
<1>1. /\ accepting /\ current = loop[p].gen /\ running[loop[p].gen] = 0
      /\ \A q \in Procs : loop[q].st # "none" /\ loop[q].gen = loop[p].gen => q = p
      /\ \A q \in Procs : Up(q) => running[proc[q].gen] = q
  BY QParts DEF Alone
<1>2. drv = "none"
  BY <1>1, QParts DEF Closed
<1> QED
  BY <1>1, <1>2, QParts, Parts

\* A restart that is ready is tracked, and is the only one of its generation.
LEMMA LoopReadyQuiet ==
  ASSUME QInv, NEW p \in Procs, LoopReady(p), OInv'
  PROVE  QInv'
<1> DEFINE g == loop[p].gen
           q == loop[p].child
<1>1. /\ IInv /\ Spawns /\ Alone /\ Manned /\ TypeOK
  BY QParts, Parts
<1>2. /\ loop[p].st = "start" /\ UNCHANGED <<engineVars, plan, current, accepting, driverVars, broken, overlapped>>
  BY DEF LoopReady, historyVars
<1>3. /\ g \in Gens /\ q \in Procs /\ proc[q].gen = g /\ proc[q].st = "starting" /\ q # held
      /\ \A r \in Procs : loop[r].child = q => r = p
  BY <1>1, <1>2, ChildFacts
<1>4. /\ Undone' = Undone /\ Charge' = Charge /\ Reached(1)' = Reached(1)
      /\ StopTarget' = StopTarget /\ EnsureTarget' = EnsureTarget
      /\ UNCHANGED <<plan, current, accepting, drv, held, pc, run>>
  BY <1>1, <1>2, HostSame
<1>5. \A r \in Procs : /\ proc'[r].gen = proc[r].gen
                       /\ proc'[r].st = IF r = q THEN "live" ELSE proc[r].st
  BY <1>1, <1>3, ProcSet DEF LoopReady, ProcStates
<1>6. \A h \in Gens : running'[h] = IF h = g THEN q ELSE running[h]
  BY <1>1, <1>3 DEF LoopReady, TypeOK
<1>7. \A r \in Procs : /\ loop'[r].gen = loop[r].gen /\ loop'[r].child = loop[r].child
                       /\ loop'[r].st = IF r = p THEN "registered" ELSE loop[r].st
  BY <1>1 DEF LoopReady, TypeOK
<1> HIDE DEF g, q
<1>8. Spawns'
  <2>1. loop[q].st = "none"
    BY <1>1, <1>3 DEF Spawns
  <2>2. \A r \in Procs : loop'[r].st # "none" => proc'[r].st = "gone"
    BY <1>1, <1>2, <1>5, <1>7, <2>1 DEF Spawns
  <2>3. \A r \in Procs : proc'[r].st = "starting" =>
          \/ drv' = "start" /\ held' = r
          \/ \E s \in Procs : loop'[s].st = "start" /\ loop'[s].child = r
    <3> SUFFICES ASSUME NEW r \in Procs, proc'[r].st = "starting", ~(drv = "start" /\ held = r)
                 PROVE  \E s \in Procs : loop'[s].st = "start" /\ loop'[s].child = r
      BY <1>4
    <3>1. r # q /\ proc[r].st = "starting"
      BY <1>5
    <3>2. PICK s \in Procs : loop[s].st = "start" /\ loop[s].child = r
      BY <1>1, <3>1 DEF Spawns
    <3> QED
      BY <1>7, <3>1, <3>2 DEF q
  <2>4. drv' = "exit" => proc'[held'].st # "live"
    BY <1>1, <1>3, <1>4, <1>5, Parts DEF Spawns, Held, StopStates
  <2> QED
    BY <2>2, <2>3, <2>4 DEF Spawns
<1>9. Alone'
  <2> SUFFICES ASSUME ~overlapped PROVE Alone'
    BY <1>2 DEF Alone
  <2>1. /\ drv = "none" /\ accepting /\ current = g /\ running[g] = 0
        /\ \A r \in Procs : loop[r].st # "none" /\ loop[r].gen = g => r = p
        /\ \A r \in Procs : Up(r) => proc[r].gen # g
    BY <1>2, RestartAlone DEF g
  <2>2. \A r, s \in Procs : loop'[r].st # "none" /\ loop'[s].st # "none" /\ loop'[r].gen = loop'[s].gen => r = s
    BY <1>1, <1>2, <1>7 DEF Alone
  <2>3. \A r \in Procs : loop'[r].st = "start" =>
          accepting' /\ current' = loop'[r].gen /\ running'[loop'[r].gen] = 0
    <3> SUFFICES ASSUME NEW r \in Procs, loop'[r].st = "start"
                 PROVE  accepting' /\ current' = loop'[r].gen /\ running'[loop'[r].gen] = 0
      OBVIOUS
    <3>1. r # p /\ loop[r].st = "start" /\ loop'[r].gen = loop[r].gen /\ loop[r].gen \in Gens
      BY <1>1, <1>7, Parts DEF Restarts
    <3>2. loop[r].gen # g
      BY <2>1, <3>1
    <3> QED
      BY <1>1, <1>4, <1>6, <3>1, <3>2 DEF Alone
  <2>4. \A r \in Procs : Up(r)' => running'[proc'[r].gen] = r
    <3> SUFFICES ASSUME NEW r \in Procs, Up(r)' PROVE running'[proc'[r].gen] = r
      OBVIOUS
    <3>1. CASE r = q
      BY <1>3, <1>5, <1>6, <3>1
    <3>2. CASE r # q
      BY <1>1, <1>5, <1>6, <2>1, <3>2, Parts DEF Alone, Named, Up
    <3> QED
      BY <3>1, <3>2
  <2> QED
    BY <1>4, <2>1, <2>2, <2>3, <2>4 DEF Alone, StopStates
<1>10. Manned'
  BY <1>1, <1>2, <1>3, <1>4, <1>5, MannedLess DEF Lives, Up
<1> QED
  BY <1>8, <1>9, <1>10 DEF QInv

\* A loop that ends or goes back to sleep brings nothing to life.
LEMMA LoopEndsQuiet ==
  ASSUME QInv, NEW p \in Procs, LoopFails(p) \/ LoopSwitches(p) \/ LoopReaped(p), OInv'
  PROVE  QInv'
<1> DEFINE g == loop[p].gen
           end == IF current = g /\ running[g] = 0 THEN [gen |-> g, st |-> "sleep", child |-> 0] ELSE NoLoop
<1>1. /\ IInv /\ Spawns /\ Alone /\ Manned /\ TypeOK
  BY QParts, Parts
<1>2. /\ loop[p].st \in {"start", "registered", "reaping"} /\ loop' = [loop EXCEPT ![p] = end]
      /\ UNCHANGED <<engineVars, plan, current, accepting, driverVars, broken, overlapped, running>>
  BY DEF LoopFails, LoopSwitches, LoopReaped, historyVars
<1>3. /\ g \in Gens /\ end.st \in {"none", "sleep"} /\ (end.st = "sleep" => end.gen = g)
      /\ end \in LoopRecords
  BY <1>1, <1>2, LoopValues, Parts DEF Restarts
<1> HIDE DEF end
<1>4. \A r \in Procs : loop'[r] = IF r = p THEN end ELSE loop[r]
  BY <1>1, <1>2, <1>3, LoopSet
<1>5. /\ Undone' = Undone /\ Charge' = Charge /\ Reached(1)' = Reached(1)
      /\ StopTarget' = StopTarget /\ EnsureTarget' = EnsureTarget
      /\ UNCHANGED <<plan, current, accepting, drv, held, pc, run>>
  BY <1>1, <1>2, HostSame
<1>6. \E gone \in SUBSET Procs :
        /\ \A r \in Procs : /\ proc'[r].gen = proc[r].gen
                            /\ proc'[r].st = IF r \in gone THEN "gone" ELSE proc[r].st
        /\ \A r \in Procs : loop[p].st = "start" /\ loop[p].child = r => r \in gone
  <2>1. CASE LoopFails(p)
    <3>1. loop[p].st = "start" /\ loop[p].child \in Procs
      BY <1>1, <2>1, ChildFacts DEF LoopFails
    <3>2. \A r \in Procs : /\ proc'[r].gen = proc[r].gen
                           /\ proc'[r].st = IF r = loop[p].child THEN "gone" ELSE proc[r].st
      BY <1>1, <2>1, <3>1, ProcSet DEF LoopFails, ProcStates
    <3>3. {loop[p].child} \in SUBSET Procs
      BY <3>1
    <3> QED
      BY <3>2, <3>3
  <2>2. CASE LoopSwitches(p) \/ LoopReaped(p)
    <3>1. proc' = proc /\ loop[p].st # "start"
      BY <2>2 DEF LoopSwitches, LoopReaped
    <3> WITNESS {} \in SUBSET Procs
    <3> QED
      BY <3>1
  <2> QED
    BY <2>1, <2>2
<1>7. PICK gone \in SUBSET Procs :
        /\ \A r \in Procs : /\ proc'[r].gen = proc[r].gen
                            /\ proc'[r].st = IF r \in gone THEN "gone" ELSE proc[r].st
        /\ \A r \in Procs : loop[p].st = "start" /\ loop[p].child = r => r \in gone
  BY <1>6
<1> HIDE DEF g
<1>8. Spawns'
  <2>1. \A r \in Procs : proc'[r].st = "starting" =>
          \/ drv' = "start" /\ held' = r
          \/ \E s \in Procs : loop'[s].st = "start" /\ loop'[s].child = r
    <3> SUFFICES ASSUME NEW r \in Procs, proc'[r].st = "starting", ~(drv = "start" /\ held = r)
                 PROVE  \E s \in Procs : loop'[s].st = "start" /\ loop'[s].child = r
      BY <1>5
    <3>1. r \notin gone /\ proc[r].st = "starting"
      BY <1>7
    <3>2. PICK s \in Procs : loop[s].st = "start" /\ loop[s].child = r
      BY <1>1, <3>1 DEF Spawns
    <3> QED
      BY <1>4, <1>7, <3>1, <3>2
  <2>2. \A r \in Procs : loop'[r].st # "none" => proc'[r].st = "gone"
    BY <1>1, <1>2, <1>4, <1>7 DEF Spawns
  <2>3. drv' = "exit" => proc'[held'].st # "live"
    BY <1>1, <1>5, <1>7, Parts DEF Spawns, Held, StopStates
  <2> QED
    BY <2>1, <2>2, <2>3 DEF Spawns
<1>9. Alone'
  <2> SUFFICES ASSUME ~overlapped PROVE Alone'
    BY <1>2 DEF Alone
  <2>1. \A r, s \in Procs : loop'[r].st # "none" /\ loop'[s].st # "none" /\ loop'[r].gen = loop'[s].gen => r = s
    BY <1>1, <1>2, <1>3, <1>4 DEF Alone, g
  <2>2. \A r \in Procs : loop'[r].st = "start" =>
          accepting' /\ current' = loop'[r].gen /\ running'[loop'[r].gen] = 0
    BY <1>1, <1>2, <1>3, <1>4, <1>5 DEF Alone
  <2>3. \A r \in Procs : Up(r)' => running'[proc'[r].gen] = r
    BY <1>1, <1>2, <1>7 DEF Alone, Up
  <2> QED
    BY <1>1, <1>2, <1>5, <2>1, <2>2, <2>3 DEF Alone
<1>10. Manned'
  BY <1>1, <1>2, <1>5, <1>7, MannedLess DEF Lives, Up
<1> QED
  BY <1>8, <1>9, <1>10 DEF QInv

\* A child that is killed because it cannot be recorded is alive no more.
LEMMA LoopUnrecordedQuiet ==
  ASSUME QInv, NEW p \in Procs, LoopUnrecorded(p), OInv'
  PROVE  QInv'
<1> DEFINE q == loop[p].child
<1>1. /\ IInv /\ Spawns /\ Alone /\ Manned /\ TypeOK
  BY QParts, Parts
<1>2. /\ loop[p].st = "registered" /\ UNCHANGED <<engineVars, plan, current, accepting, driverVars, broken>>
      /\ UNCHANGED <<overlapped, running>>
  BY DEF LoopUnrecorded, historyVars
<1>3. q \in Procs /\ proc[q].st # "starting"
  BY <1>1, <1>2, Parts DEF Restarts
<1>4. \A r \in Procs : /\ proc'[r].gen = proc[r].gen
                       /\ proc'[r].st = IF r = q /\ proc[r].st = "live" THEN "exited" ELSE proc[r].st
  BY <1>1, <1>3 DEF LoopUnrecorded, TypeOK
<1>5. \A r \in Procs : /\ loop'[r].gen = loop[r].gen /\ loop'[r].child = loop[r].child
                       /\ loop'[r].st = IF r = p THEN "reaping" ELSE loop[r].st
  BY <1>1 DEF LoopUnrecorded, TypeOK
<1> HIDE DEF q
<1>6. /\ Undone' = Undone /\ Charge' = Charge /\ Reached(1)' = Reached(1)
      /\ StopTarget' = StopTarget /\ EnsureTarget' = EnsureTarget
      /\ UNCHANGED <<plan, current, accepting, drv, held, pc, run>>
  BY <1>1, <1>2, HostSame
<1>7. Spawns'
  <2>1. \A r \in Procs : loop'[r].st # "none" => proc'[r].st = "gone"
    BY <1>1, <1>2, <1>4, <1>5 DEF Spawns
  <2>2. \A r \in Procs : proc'[r].st = "starting" =>
          \/ drv' = "start" /\ held' = r
          \/ \E t \in Procs : loop'[t].st = "start" /\ loop'[t].child = r
    <3> SUFFICES ASSUME NEW r \in Procs, proc'[r].st = "starting", ~(drv = "start" /\ held = r)
                 PROVE  \E t \in Procs : loop'[t].st = "start" /\ loop'[t].child = r
      BY <1>6
    <3>1. PICK t \in Procs : loop[t].st = "start" /\ loop[t].child = r
      BY <1>1, <1>4 DEF Spawns
    <3> QED
      BY <1>2, <1>5, <3>1
  <2>3. drv' = "exit" => proc'[held'].st # "live"
    BY <1>1, <1>4, <1>6, Parts DEF Spawns, Held, StopStates
  <2> QED
    BY <2>1, <2>2, <2>3 DEF Spawns
<1>8. Alone'
  <2> SUFFICES ASSUME ~overlapped PROVE Alone'
    BY <1>2 DEF Alone
  <2>1. \A r, t \in Procs : loop'[r].st # "none" /\ loop'[t].st # "none" /\ loop'[r].gen = loop'[t].gen => r = t
    BY <1>1, <1>2, <1>5 DEF Alone
  <2>2. \A r \in Procs : loop'[r].st = "start" =>
          accepting' /\ current' = loop'[r].gen /\ running'[loop'[r].gen] = 0
    BY <1>1, <1>2, <1>5, <1>6 DEF Alone
  <2>3. \A r \in Procs : Up(r)' => running'[proc'[r].gen] = r
    BY <1>1, <1>2, <1>4 DEF Alone, Up
  <2> QED
    BY <1>1, <1>2, <1>6, <2>1, <2>2, <2>3 DEF Alone
<1>9. Manned'
  BY <1>1, <1>2, <1>4, <1>6, MannedLess DEF Lives, Up
<1> QED
  BY <1>7, <1>8, <1>9 DEF QInv

-----------------------------------------------------------------------------
(* The machine driver. *)

\* Which generation may be alive before and after a step of the driver's call.
LEMMA Charges ==
  ASSUME OInv, Moved, call.target = 1, UNCHANGED <<broken, frontend>>
  PROVE  /\ Undone' => Undone /\ ~(pc = "rollback" /\ call'.status = "err")
         /\ pc \in ForwardLoops \cup {"finalize", "rollback"} /\ call.method = pc
         /\ Charge = IF pc = "rollback" THEN (IF drv \in Back THEN record.prev ELSE plan)
                     ELSE IF pc \in {"drain", "stage"} THEN current ELSE plan
         /\ Charge' = IF pc = "rollback"
                      THEN (IF drv' \in Back THEN record'.prev ELSE IF call'.status = "ok" THEN current' ELSE plan)
                      ELSE IF pc = "drain" \/ (pc = "stage" /\ call'.status # "ok") THEN current' ELSE plan
         /\ Reached(1) = "drained" <=> pc = "stage"
         /\ Reached(1)' = "drained" <=> (pc = "drain" /\ call'.status = "ok") \/ (pc = "stage" /\ call'.status # "ok")
<1>1. /\ pc \in ForwardLoops \cup {"finalize", "rollback"} /\ call.method = pc /\ 1 \in todo /\ run # "failed"
      /\ pc # "rollback" => step[1] = Before(pc)
      /\ pc = "rollback" => step[1] \in Undoable
      /\ Reached(1) = step[1]
      /\ Reached(1)' = IF call'.status = "ok" THEN Recorded(pc) ELSE step[1]
      /\ UNCHANGED <<run, step, pc, todo, failed, plan>>
  BY MachineCall
<1>2. call.status = "open" /\ call'.target = 1
  BY DEF Moved
<1>3. Undone' => Undone /\ ~(pc = "rollback" /\ call'.status = "err")
  BY <1>1, <1>2 DEF Undone
<1>4. CASE pc = "rollback"
  <2>1. Reached(1) \in Undoable /\ Reached(1)' \in Undoable \cup {"rolled-back"}
        /\ (Reached(1)' = "rolled-back" <=> call'.status = "ok")
    BY <1>1, <1>4 DEF Recorded, Undoable
  <2> QED
    BY <1>1, <1>3, <1>4, <2>1 DEF Charge, Undoable
<1>5. CASE pc # "rollback"
  <2>1. pc \in {"drain", "stage", "activate", "health", "commit", "finalize"}
    BY <1>1, <1>5 DEF ForwardLoops
  <2>2. Reached(1) = Before(pc) /\ Reached(1)' = IF call'.status = "ok" THEN Recorded(pc) ELSE Before(pc)
    BY <1>1, <1>5
  <2>3. /\ pc = "drain" => Before(pc) = "pending" /\ Recorded(pc) = "drained"
        /\ pc = "stage" => Before(pc) = "drained" /\ Recorded(pc) = "staged"
        /\ pc = "activate" => Before(pc) = "staged" /\ Recorded(pc) = "activated"
        /\ pc = "health" => Before(pc) = "activated" /\ Recorded(pc) = "healthy"
        /\ pc = "commit" => Before(pc) = "healthy" /\ Recorded(pc) = "committed"
        /\ pc = "finalize" => Before(pc) = "committed" /\ Recorded(pc) = "finalized"
    BY DEF Before, Recorded
  <2> QED
    BY <1>1, <1>3, <1>5, <2>1, <2>2, <2>3 DEF Charge, Undoable
<1> QED
  BY <1>4, <1>5

\* In a call nothing is alive of a generation that is not tracked; of one that
\* is being stopped, only the process whose exit the call waits for.
LEMMA Emptied ==
  ASSUME QInv, ~overlapped, drv \notin {"none", "start"}, NEW g, NEW p \in Procs, proc[p].gen = g,
         running[g] = 0 \/ (drv = "exit" /\ g = StopTarget /\ p # held)
  PROVE  ~Lives(p)
<1>1. Spawns /\ Alone /\ IInv
  BY QParts
<1>2. proc[p].st # "starting"
  BY <1>1, RestartAlone DEF Spawns
<1>3. ~Up(p)
  <2> SUFFICES ASSUME Up(p) PROVE FALSE
    OBVIOUS
  <2>1. running[g] = p /\ p # 0
    BY <1>1, Parts DEF Alone
  <2> QED
    BY <1>1, <2>1 DEF Alone, StopStates
<1> QED
  BY <1>2, <1>3 DEF Lives

\* A step of a call that leaves processes, loops and what is tracked alone.
LEMMA Placid ==
  ASSUME QInv, OInv', Moved, call.target = 1, UNCHANGED <<broken, frontend, proc, loop, running>>,
         ~overlapped' => ~overlapped, drv # "start", drv' # "start",
         ~overlapped' /\ drv = "none" => UNCHANGED <<accepting, current>> \/ \A p \in Procs : loop[p].st # "start",
         ~overlapped' /\ drv' \in StopStates => running[StopTarget'] \in {0, held'},
         drv' = "exit" => proc[held'].st # "live",
         Undone' /\ ~overlapped' => Charge' = Charge \/ \A p \in Procs : ~Lives(p),
         Undone' /\ ~overlapped' /\ (drv' = "restore" \/ Reached(1)' = "drained") =>
           drv = "restore" \/ Reached(1) = "drained" \/ \A p \in Procs : ~Lives(p)
  PROVE  QInv'
<1>1. Spawns /\ Alone /\ Manned /\ IInv
  BY QParts
<1>2. Spawns'
  BY <1>1 DEF Spawns
<1>3. Alone'
  <2> SUFFICES ASSUME ~overlapped' PROVE Alone'
    BY DEF Alone
  <2>1. \A p \in Procs : loop[p].st = "start" => accepting' /\ current' = loop[p].gen /\ running[loop[p].gen] = 0
    BY RestartAlone
  <2> QED
    BY <1>1, <2>1 DEF Alone, Up
<1>4. Undone' => Undone
  BY Charges, QParts
<1>5. \A p \in Procs : Lives(p)' = Lives(p)
  BY DEF Lives, Up
<1>6. Manned'
  BY <1>1, <1>4, <1>5, MannedLess
<1> QED
  BY <1>2, <1>3, <1>6 DEF QInv

\* A drain that meets no restart under way closes the machine to the next one.
LEMMA DrainQuiet ==
  ASSUME QInv, Drain, OInv'
  PROVE  QInv'
<1>1. /\ call.status = "open" /\ call.target = 1 /\ call.method = "drain" /\ Goto("stop") /\ drv = "none"
      /\ UNCHANGED <<engineCore, plan, broken, current, running, proc, loop, frontend>>
      /\ overlapped' = (overlapped \/ \E p \in Procs : loop[p].st = "start")
  BY DEF Drain, Begin, Machine
<1>2. Moved /\ drv' = "stop" /\ call' = call
  BY <1>1, QParts, Parts, Going DEF DriverStates
<1>3. Charge' = Charge /\ Reached(1)' # "drained"
  BY <1>1, <1>2, QParts, Charges
<1> QED
  BY <1>1, <1>2, <1>3, Placid DEF StopStates

\* The methods that begin bring nothing to life.
LEMMA BeginningsQuiet ==
  ASSUME QInv, Stage \/ Activate \/ Health \/ Commit \/ Finalize \/ Rollback, OInv'
  PROVE  QInv'
<1>1. /\ IInv /\ OInv /\ QuietStep
  BY QParts, Beginnings
<1>2. /\ Moved /\ drv' # "pointer" /\ (drv' = "cleanup" => call.method = "finalize")
      /\ call'.method = call.method
      /\ call'.status = "ok" => drv' = "none" /\ call.method \in {"drain", "activate", "health"}
      /\ accepting' = accepting \/ (drv' = "none" /\ call'.status = "err" /\ call.method = "drain")
  BY <1>1, QuietMoved
<1>3. /\ drv = "none" /\ call.target = 1 /\ call.method # "drain"
      /\ UNCHANGED <<plan, overlapped, broken, frontend, current, record, accepting, proc, loop, running>>
  BY DEF Stage, Activate, Health, Commit, Finalize, Rollback, Begin, Machine, historyVars, hostVars
<1>4. /\ drv' \in {"none", "checkpoint", "ensure", "stop", "cleanup"}
      /\ drv' = "ensure" => call.method \in {"activate", "commit"}
  BY DEF Stage, Activate, Health, Commit, Finalize, Rollback, Goto, Return, Begin, Machine
<1>5. call'.status \in {"open", "ok", "err"} /\ (drv' = "none" <=> call'.status # "open")
  BY <1>2 DEF Moved
<1>6. Undone' => Charge' = Charge
  BY <1>1, <1>2, <1>3, <1>4, <1>5, Charges DEF Back, ForwardLoops
<1>7. Reached(1)' = "drained" => Reached(1) = "drained"
  BY <1>1, <1>2, <1>3, Charges
<1> QED
  BY <1>2, <1>3, <1>4, <1>6, <1>7, Placid DEF StopStates

\* The checkpoint is taken where nothing is alive.
LEMMA CheckpointQuiet ==
  ASSUME QInv, Checkpoint, OInv'
  PROVE  QInv'
<1>1. /\ call.status = "open" /\ call.target = 1 /\ drv = "checkpoint" /\ call.method = "stage"
      /\ UNCHANGED <<engineCore, plan, broken, overlapped, current, running, proc, loop, accepting, frontend>>
      /\ Return("ok") \/ Return("err")
  BY QParts, InCall, Parts DEF Checkpoint, historyVars, hostVars, Positions
<1>2. Moved /\ drv' = "none"
  BY <1>1, QParts, Parts, Returning
<1>3. (Undone' => Undone) /\ Reached(1) = "drained"
  BY <1>1, <1>2, QParts, Charges
<1>4. Undone' /\ ~overlapped' => \A p \in Procs : ~Lives(p)
  BY <1>1, <1>3, QParts DEF Manned
<1> QED
  BY <1>1, <1>2, <1>3, <1>4, Placid DEF StopStates

\* What a stop that is over leaves: nothing of the generation it stopped, which
\* for a drain and a rollback is the only one that was alive.
LEMMA StopOver ==
  ASSUME QInv, drv \in {"stop", "exit"}, AfterStop, UNCHANGED <<engineCore, plan, broken, frontend, record, current>>,
         StopTarget = 0 \/ running[StopTarget] = 0 \/ drv = "exit",
         \A p \in Procs : Lives(p)' => Lives(p) /\ proc'[p].gen = proc[p].gen,
         drv = "exit" => proc'[held].st \notin {"starting", "live", "stopping", "stuck"},
         ~overlapped' => ~overlapped
  PROVE  /\ Moved /\ call.target = 1 /\ drv' \in {"none", "cleanup", "restore"}
         /\ Undone' /\ ~overlapped' => Charge' = Charge
         /\ Undone' /\ ~overlapped' /\ (drv' = "restore" \/ Reached(1)' = "drained") => \A p \in Procs : ~Lives(p)'
<1>1. /\ call.status = "open" /\ call.target = 1 /\ OInv /\ IInv /\ TypeOK /\ Manned
  BY QParts, InCall, Parts
<1>2. \/ Return("ok") /\ call.method = "drain"
      \/ Goto("cleanup") /\ call.method = "finalize"
      \/ Goto("restore") /\ call.method \notin {"drain", "finalize"}
  BY DEF AfterStop
<1>3. Moved /\ \/ drv' = "none" /\ call.method = "drain"
               \/ drv' = "cleanup" /\ call' = call /\ call.method = "finalize"
               \/ drv' = "restore" /\ call' = call /\ call.method \notin {"drain", "finalize"}
  BY <1>1, <1>2, Returning, Going DEF DriverStates
<1>4. /\ Undone' => Undone
      /\ call.method = pc
      /\ Charge = IF pc = "rollback" THEN (IF drv \in Back THEN record.prev ELSE plan)
                  ELSE IF pc \in {"drain", "stage"} THEN current ELSE plan
      /\ Charge' = IF pc = "rollback"
                   THEN (IF drv' \in Back THEN record'.prev ELSE IF call'.status = "ok" THEN current' ELSE plan)
                   ELSE IF pc = "drain" \/ (pc = "stage" /\ call'.status # "ok") THEN current' ELSE plan
      /\ Reached(1)' = "drained" <=> (pc = "drain" /\ call'.status = "ok") \/ (pc = "stage" /\ call'.status # "ok")
  BY <1>1, <1>3, Charges
<1>5. pc \in {"drain", "finalize", "rollback"}
  BY <1>1, <1>4, Parts DEF Positions, StopStates
<1>6. Charge' = Charge
  BY <1>1, <1>3, <1>4, <1>5 DEF Back
<1>7. drv' = "restore" \/ Reached(1)' = "drained" => Charge = StopTarget
  BY <1>1, <1>3, <1>4, <1>5 DEF Back, StopTarget
<1>8. ASSUME Undone', ~overlapped', drv' = "restore" \/ Reached(1)' = "drained", NEW p \in Procs
      PROVE  ~Lives(p)'
  <2> SUFFICES ASSUME Lives(p), drv = "exit" => p # held PROVE FALSE
    BY <1>8 DEF Lives, Up
  <2>1. proc[p].gen = StopTarget /\ ~overlapped
    BY <1>1, <1>4, <1>7, <1>8 DEF Manned
  <2>2. StopTarget # 0
    BY <1>1, <2>1, Parts DEF Named, Gens, Lives, Up
  <2> QED
    BY <2>1, <2>2, Emptied
<1> QED
  BY <1>1, <1>3, <1>6, <1>8

\* A stop begins, or finds nothing to stop.
LEMMA StopBeginsQuiet ==
  ASSUME QInv, StopBegins, OInv'
  PROVE  QInv'
<1>1. /\ drv = "stop" /\ call.status = "open" /\ call.target = 1 /\ TypeOK
      /\ UNCHANGED <<engineCore, plan, broken, overlapped, accepting, current, running, proc, loop, record, frontend>>
  BY QParts, InCall, Parts DEF StopBegins, historyVars, hostVars
<1>2. \A p \in Procs : Lives(p)' = Lives(p)
  BY <1>1 DEF Lives, Up
<1>3. CASE (StopTarget = 0 \/ running[StopTarget] = 0) /\ AfterStop
  <2>1. /\ Moved /\ drv' \in {"none", "cleanup", "restore"}
        /\ Undone' /\ ~overlapped' => Charge' = Charge
        /\ Undone' /\ ~overlapped' /\ (drv' = "restore" \/ Reached(1)' = "drained") => \A p \in Procs : ~Lives(p)
    BY <1>1, <1>2, <1>3, StopOver
  <2> QED
    BY <1>1, <2>1, Placid DEF StopStates
<1>4. CASE /\ held' = running[StopTarget]
           /\ Goto(IF proc[running[StopTarget]].st = "live" THEN "retire" ELSE "exit")
  <2>1. Moved /\ drv' \in {"retire", "exit"} /\ call' = call /\ (drv' = "exit" => proc[running[StopTarget]].st # "live")
    BY <1>1, <1>4, Going DEF DriverStates
  <2>2. StopTarget' = StopTarget
    BY <1>1, <2>1 DEF StopTarget
  <2>3. Charge' = Charge
    BY <1>1, <2>1, QParts, Charges DEF Back, Moved
  <2>4. Reached(1)' = "drained" => Reached(1) = "drained"
    BY <1>1, <2>1, QParts, Charges
  <2> QED
    BY <1>1, <1>4, <2>1, <2>2, <2>3, <2>4, Placid
<1> QED
  BY <1>3, <1>4 DEF StopBegins

\* An error of a stop leaves everything alive where it was.
LEMMA ThrowQuiet ==
  ASSUME QInv, drv \in StopStates, StopThrows, UNCHANGED <<engineCore, plan, broken, frontend, record, current>>
  PROVE  /\ Moved /\ call.target = 1 /\ drv' = "none"
         /\ Undone' => Undone /\ Charge' = Charge
         /\ Reached(1)' = "drained" => Reached(1) = "drained"
<1>1. /\ call.status = "open" /\ call.target = 1 /\ OInv /\ IInv /\ TypeOK /\ Return("err")
  BY QParts, InCall, Parts DEF StopThrows, StopStates
<1>2. Moved /\ drv' = "none"
  BY <1>1, Returning
<1>3. call'.status = "err"
  BY <1>1 DEF Return, Answer, TypeOK, EngineTypeOK, Calls
<1>4. (Undone' => Undone /\ Charge' = Charge) /\ (Reached(1)' = "drained" => Reached(1) = "drained")
  BY <1>1, <1>2, <1>3, Charges DEF Back, ForwardLoops
<1> QED
  BY <1>1, <1>2, <1>4

\* Retiring asks the process, and kills none.
LEMMA RetireQuiet ==
  ASSUME QInv, Retire, OInv'
  PROVE  QInv'
<1>1. /\ drv = "retire" /\ call.status = "open" /\ call.target = 1 /\ TypeOK
      /\ UNCHANGED <<engineCore, plan, broken, overlapped, current, running, proc, loop, record, frontend>>
  BY QParts, InCall, Parts DEF Retire, historyVars
<1>2. CASE StopThrows
  BY <1>1, <1>2, ThrowQuiet, Placid DEF StopStates
<1>3. CASE Goto("term") /\ UNCHANGED <<accepting, held>>
  <2>1. Moved /\ drv' = "term" /\ call' = call
    BY <1>1, <1>3, Going DEF DriverStates
  <2>2. StopTarget' = StopTarget
    BY <1>1, <2>1 DEF StopTarget
  <2>3. Charge' = Charge /\ (Reached(1)' = "drained" => Reached(1) = "drained")
    BY <1>1, <2>1, QParts, Charges DEF Back, Moved
  <2>4. ~overlapped => running[StopTarget] \in {0, held}
    BY <1>1, QParts DEF Alone, StopStates
  <2> QED
    BY <1>1, <1>3, <2>1, <2>2, <2>3, <2>4, Placid
<1> QED
  BY <1>2, <1>3 DEF Retire

\* A step of a stop takes a process out of life, or out of what is tracked.
LEMMA TerminateQuiet ==
  ASSUME QInv, Terminate, OInv'
  PROVE  QInv'
<1> DEFINE s == IF proc[held].st = "live" THEN "stopping" ELSE proc[held].st
<1>1. /\ drv = "term" /\ call.status = "open" /\ call.target = 1 /\ TypeOK /\ IInv /\ OInv
      /\ Spawns /\ Alone /\ Manned /\ held \in Procs /\ proc[held].st # "starting" /\ StopTarget \in Gens
  BY QParts, InCall, Parts, StopFacts DEF Terminate, StopStates
<1>2. /\ UNCHANGED <<engineCore, plan, broken, overlapped, accepting, current, running, loop, held, record, frontend>>
      /\ Goto("exit")
  BY DEF Terminate, historyVars
<1>3. /\ s \in ProcStates /\ s \notin {"starting", "live"} /\ (proc[held].st = "gone" => s = "gone")
      /\ s \in {"stopping", "stuck"} => Up(held)
  BY <1>1 DEF TypeOK, ProcStates, Up
<1>4. \A q \in Procs : /\ proc'[q].gen = proc[q].gen
                       /\ proc'[q].st = IF q = held THEN s ELSE proc[q].st
  <2>1. proc' = [proc EXCEPT ![held].st = s]
    BY DEF Terminate
  <2> HIDE DEF s
  <2> QED
    BY <1>1, <1>3, <2>1, ProcSet
<1> HIDE DEF s
<1>5. Moved /\ drv' = "exit" /\ call' = call
  BY <1>1, <1>2, Going DEF DriverStates
<1>6. StopTarget' = StopTarget
  BY <1>2, <1>5 DEF StopTarget
<1>7. /\ Undone' => Undone
      /\ Charge' = Charge /\ (Reached(1)' = "drained" => Reached(1) = "drained")
  BY <1>1, <1>2, <1>5, Charges DEF Back, Moved
<1>8. Spawns'
  BY <1>1, <1>2, <1>3, <1>4, <1>5 DEF Spawns
<1>9. Alone'
  BY <1>1, <1>2, <1>3, <1>4, <1>5, <1>6 DEF Alone, StopStates, Up
<1>10. Manned'
  BY <1>1, <1>2, <1>3, <1>4, <1>5, <1>7, MannedLess DEF Lives, Up
<1> QED
  BY <1>8, <1>9, <1>10 DEF QInv

\* The stopped generation is tracked no more, and none of it is alive.
LEMMA StopExitsQuiet ==
  ASSUME QInv, StopExits, OInv'
  PROVE  QInv'
<1> DEFINE s == IF Stopping(held) THEN "gone" ELSE proc[held].st
<1>1. /\ drv = "exit" /\ TypeOK /\ IInv /\ OInv
      /\ Spawns /\ Alone /\ Manned /\ held \in Procs /\ proc[held].st # "starting" /\ StopTarget \in Gens
  BY QParts, Parts, StopFacts DEF StopExits, StopStates
<1>2. /\ UNCHANGED <<engineCore, plan, broken, overlapped, accepting, current, loop, record, frontend>>
      /\ AfterStop
  BY DEF StopExits, historyVars
<1>3. s \in {"free", "exited", "gone"} /\ s \in ProcStates /\ (proc[held].st = "gone" => s = "gone")
  BY <1>1 DEF TypeOK, ProcStates, Stopping, Spawns
<1>4. \A q \in Procs : /\ proc'[q].gen = proc[q].gen
                       /\ proc'[q].st = IF q = held THEN s ELSE proc[q].st
  <2>1. proc' = [proc EXCEPT ![held].st = s]
    BY DEF StopExits
  <2> HIDE DEF s
  <2> QED
    BY <1>1, <1>3, <2>1, ProcSet
<1> HIDE DEF s
<1>5. \A h \in Gens : running'[h] = IF h = StopTarget THEN 0 ELSE running[h]
  BY <1>1 DEF StopExits, TypeOK
<1>6. /\ \A p \in Procs : Lives(p)' => p # held /\ Lives(p) /\ proc'[p].gen = proc[p].gen
      /\ proc'[held].st \notin {"starting", "live", "stopping", "stuck"}
  BY <1>1, <1>3, <1>4 DEF Lives, Up
<1>7. /\ Moved /\ call.target = 1 /\ drv' \in {"none", "cleanup", "restore"}
      /\ Undone' /\ ~overlapped' => Charge' = Charge
      /\ Undone' /\ ~overlapped' /\ (drv' = "restore" \/ Reached(1)' = "drained") => \A p \in Procs : ~Lives(p)'
  BY <1>1, <1>2, <1>6, StopOver
<1>8. Undone' => Undone
  BY <1>1, <1>2, <1>7, Charges
<1>9. Spawns'
  BY <1>1, <1>2, <1>3, <1>4, <1>7 DEF Spawns
<1>10. Alone'
  <2> SUFFICES ASSUME ~overlapped PROVE Alone'
    BY <1>2 DEF Alone
  <2>1. \A p \in Procs : loop'[p].st # "start"
    BY <1>1, <1>2, RestartAlone
  <2>2. \A p \in Procs : Up(p)' => running'[proc'[p].gen] = p
    <3> SUFFICES ASSUME NEW p \in Procs, Up(p)' PROVE running'[proc'[p].gen] = p
      OBVIOUS
    <3>1. p # held /\ Up(p) /\ proc'[p].gen = proc[p].gen /\ proc[p].gen \in Gens
      BY <1>1, <1>3, <1>4, Parts DEF Named, Up
    <3>2. proc[p].gen # StopTarget
      BY <1>1, <3>1, Emptied DEF Lives
    <3> QED
      BY <1>1, <1>5, <3>1, <3>2 DEF Alone
  <2> QED
    BY <1>1, <1>2, <1>7, <2>1, <2>2 DEF Alone, StopStates
<1>11. Manned'
  BY <1>1, <1>2, <1>6, <1>7, <1>8, MannedLess
<1> QED
  BY <1>9, <1>10, <1>11 DEF QInv

\* A process that survives stays alive, and tracked.
LEMMA StopSurvivedQuiet ==
  ASSUME QInv, StopSurvived, OInv'
  PROVE  QInv'
<1>1. /\ drv = "exit" /\ TypeOK /\ IInv /\ OInv /\ Spawns /\ Alone /\ Manned
      /\ held \in Procs /\ proc[held].st \in {"stopping", "stuck"}
  BY QParts, Parts, StopFacts DEF StopSurvived, StopStates, Stopping
<1>2. /\ UNCHANGED <<engineCore, plan, broken, overlapped, current, running, loop, record, frontend>>
      /\ StopThrows
  BY DEF StopSurvived, historyVars
<1>3. \A q \in Procs : /\ proc'[q].gen = proc[q].gen
                       /\ proc'[q].st = IF q = held THEN "stuck" ELSE proc[q].st
  BY <1>1, ProcSet DEF StopSurvived, ProcStates
<1>4. /\ drv' = "none"
      /\ Undone' => Undone /\ Charge' = Charge
      /\ Reached(1)' = "drained" => Reached(1) = "drained"
  BY <1>1, <1>2, ThrowQuiet DEF StopStates
<1>5. Spawns'
  BY <1>1, <1>2, <1>3, <1>4 DEF Spawns
<1>6. Alone'
  <2>1. ~overlapped => \A p \in Procs : loop'[p].st # "start"
    BY <1>1, <1>2, RestartAlone
  <2> QED
    BY <1>1, <1>2, <1>3, <1>4, <2>1 DEF Alone, StopStates, Up
<1>7. Manned'
  BY <1>1, <1>2, <1>3, <1>4, MannedLess DEF Lives, Up
<1> QED
  BY <1>5, <1>6, <1>7 DEF QInv

\* The generation that the driver brings up is the one that may be alive.
LEMMA EnsureQuiet ==
  ASSUME QInv, Ensure, OInv'
  PROVE  QInv'
<1> DEFINE g == EnsureTarget
<1>1. /\ drv = "ensure" /\ call.status = "open" /\ call.target = 1 /\ TypeOK /\ IInv /\ OInv
      /\ Spawns /\ Alone /\ Manned /\ g \in Gens /\ call.method \in {"activate", "commit", "rollback"}
  BY QParts, InCall, Parts DEF Ensure, Positions
<1>2. UNCHANGED <<engineCore, plan, broken, overlapped, accepting, current, running, loop, record, frontend>>
  BY DEF Ensure, historyVars
<1>3. CASE proc' = proc /\ ((Return("ok") /\ call.method = "activate") \/ Goto("select"))
  <2>1. Moved /\ \/ drv' = "none" /\ call.method = "activate"
                 \/ drv' = "select" /\ call' = call
    BY <1>1, <1>2, <1>3, Returning, Going DEF DriverStates
  <2>2. Charge' = Charge /\ Reached(1)' # "drained"
    BY <1>1, <1>2, <2>1, Charges DEF Back
  <2> QED
    BY <1>1, <1>2, <1>3, <2>1, <2>2, Placid DEF StopStates
<1>4. ASSUME NEW q \in Procs, running[g] = 0, Spawnable(q), Spawned(q, g), held' = q, Goto("start")
      PROVE  QInv'
  <2>1. Moved /\ drv' = "start" /\ call' = call
    BY <1>1, <1>2, <1>4, Going DEF DriverStates
  <2>2. /\ proc'[q].gen = g /\ proc'[q].st = "starting"
        /\ \A r \in Procs : r # q => proc'[r] = proc[r]
    BY <1>1, <1>4, Spawning
  <2>3. loop[q].st = "none"
    BY <1>4 DEF Spawnable, Unused
  <2>4. EnsureTarget' = g
    BY <1>2, <2>1 DEF EnsureTarget
  <2>5. Charge' = Charge /\ Charge = g /\ Reached(1)' # "drained" /\ (Undone' => Undone)
    BY <1>1, <1>2, <2>1, Charges DEF Back, EnsureTarget
  <2> HIDE DEF g
  <2>6. Spawns'
    <3>1. \A r \in Procs : proc'[r].st = "starting" =>
            \/ drv' = "start" /\ held' = r
            \/ \E s \in Procs : loop'[s].st = "start" /\ loop'[s].child = r
      BY <1>1, <1>2, <1>4, <2>1, <2>2 DEF Spawns
    <3>2. \A r \in Procs : loop'[r].st # "none" => proc'[r].st = "gone"
      BY <1>1, <1>2, <2>2, <2>3 DEF Spawns
    <3> QED
      BY <2>1, <3>1, <3>2 DEF Spawns
  <2>7. Alone'
    BY <1>1, <1>2, <1>4, <2>1, <2>2, <2>4 DEF Alone, StopStates, Up
  <2>8. Manned'
    BY <1>1, <1>2, <2>1, <2>2, <2>5 DEF Manned, Lives, Up
  <2> QED
    BY <2>6, <2>7, <2>8 DEF QInv
<1> QED
  BY <1>3, <1>4 DEF Ensure

\* A candidate that is ready is the only one tracked of its generation.
LEMMA StartReadyQuiet ==
  ASSUME QInv, StartReady, OInv'
  PROVE  QInv'
<1>1. /\ drv = "start" /\ call.status = "open" /\ call.target = 1 /\ TypeOK /\ IInv /\ OInv
      /\ Spawns /\ Alone /\ Manned
  BY QParts, InCall, Parts DEF StartReady
<1>2. /\ held \in Procs /\ proc[held].st = "starting" /\ proc[held].gen = EnsureTarget /\ EnsureTarget \in Gens
      /\ call.method \in {"activate", "commit", "rollback"}
  BY <1>1, Parts DEF Held, HoldStates, Positions
<1>3. /\ UNCHANGED <<engineCore, plan, broken, overlapped, accepting, current, loop, held, record, frontend>>
      /\ Goto("register")
  BY DEF StartReady, historyVars
<1>4. \A q \in Procs : /\ proc'[q].gen = proc[q].gen
                       /\ proc'[q].st = IF q = held THEN "live" ELSE proc[q].st
  BY <1>1, <1>2, ProcSet DEF StartReady, ProcStates
<1>5. \A h \in Gens : running'[h] = IF h = EnsureTarget THEN held ELSE running[h]
  BY <1>1, <1>2 DEF StartReady, TypeOK
<1>6. Moved /\ drv' = "register" /\ call' = call
  BY <1>1, <1>3, Going DEF DriverStates
<1>7. Charge' = Charge /\ Reached(1)' # "drained" /\ (Undone' => Undone)
  BY <1>1, <1>2, <1>3, <1>6, Charges DEF Back
<1>8. Spawns'
  BY <1>1, <1>2, <1>3, <1>4, <1>6 DEF Spawns
<1>9. Alone'
  <2> SUFFICES ASSUME ~overlapped PROVE Alone'
    BY <1>3 DEF Alone
  <2>1. \A p \in Procs : loop'[p].st # "start"
    BY <1>1, <1>3, RestartAlone
  <2>2. \A p \in Procs : Up(p)' => running'[proc'[p].gen] = p
    <3> SUFFICES ASSUME NEW p \in Procs, Up(p)', p # held PROVE running'[proc'[p].gen] = p
      BY <1>2, <1>4, <1>5
    <3>1. Up(p) /\ proc'[p].gen = proc[p].gen /\ proc[p].gen \in Gens /\ p # 0
      BY <1>1, <1>4, Parts DEF Named, Up
    <3>2. running[proc[p].gen] = p /\ running[EnsureTarget] = 0
      BY <1>1, <3>1 DEF Alone
    <3> QED
      BY <1>5, <3>1, <3>2
  <2> QED
    BY <1>1, <1>3, <1>6, <2>1, <2>2 DEF Alone, StopStates
<1>10. Manned'
  BY <1>1, <1>2, <1>3, <1>4, <1>6, <1>7, MannedLess DEF Lives, Up
<1> QED
  BY <1>8, <1>9, <1>10 DEF QInv

\* A candidate that fails is reaped.
LEMMA StartFailsQuiet ==
  ASSUME QInv, StartFails, OInv'
  PROVE  QInv'
<1>1. /\ drv = "start" /\ call.status = "open" /\ call.target = 1 /\ TypeOK /\ IInv /\ OInv
      /\ Spawns /\ Alone /\ Manned
  BY QParts, InCall, Parts DEF StartFails
<1>2. /\ held \in Procs /\ proc[held].st = "starting" /\ call.method \in {"activate", "commit", "rollback"}
  BY <1>1, Parts DEF Held, HoldStates, Positions
<1>3. /\ UNCHANGED <<engineCore, plan, broken, overlapped, accepting, current, running, loop, record, frontend>>
      /\ Return("err")
  BY DEF StartFails, historyVars
<1>4. \A q \in Procs : /\ proc'[q].gen = proc[q].gen
                       /\ proc'[q].st = IF q = held THEN "gone" ELSE proc[q].st
  BY <1>1, <1>2, ProcSet DEF StartFails, ProcStates
<1>5. Moved /\ drv' = "none"
  BY <1>1, <1>3, Returning
<1>6. call'.status = "err"
  BY <1>1, <1>3 DEF Return, Answer, TypeOK, EngineTypeOK, Calls
<1>7. (Undone' => Undone /\ Charge' = Charge) /\ Reached(1)' # "drained"
  BY <1>1, <1>2, <1>3, <1>5, <1>6, Charges DEF Back
<1>8. Spawns'
  BY <1>1, <1>2, <1>3, <1>4, <1>5 DEF Spawns
<1>9. Alone'
  BY <1>1, <1>2, <1>3, <1>4, <1>5 DEF Alone, StopStates, Up
<1>10. Manned'
  BY <1>1, <1>3, <1>4, <1>5, <1>7, MannedLess DEF Lives, Up
<1> QED
  BY <1>8, <1>9, <1>10 DEF QInv

\* A candidate that cannot be recorded is killed, and then let go.
LEMMA UnrecordedQuiet ==
  ASSUME QInv, RegisterFails \/ Reaped, OInv'
  PROVE  QInv'
<1>1. /\ drv \in {"register", "reap"} /\ call.status = "open" /\ call.target = 1 /\ TypeOK /\ IInv /\ OInv
      /\ Spawns /\ Alone /\ Manned
  BY QParts, InCall, Parts DEF RegisterFails, Reaped
<1>2. /\ held \in Procs /\ proc[held].st # "starting" /\ call.method \in {"activate", "commit", "rollback"}
  BY <1>1, StartFacts
<1>3. UNCHANGED <<engineCore, plan, broken, overlapped, accepting, current, running, loop, record, frontend>>
  BY DEF RegisterFails, Reaped, historyVars, hostVars
<1>4. CASE RegisterFails
  <2>1. \A q \in Procs : /\ proc'[q].gen = proc[q].gen
                         /\ proc'[q].st = IF q = held /\ proc[q].st = "live" THEN "exited" ELSE proc[q].st
    BY <1>1, <1>2, <1>4 DEF RegisterFails, TypeOK
  <2>2. Moved /\ drv' = "reap" /\ call' = call
    BY <1>1, <1>3, <1>4, Going DEF RegisterFails, DriverStates
  <2>3. Charge' = Charge /\ Reached(1)' # "drained" /\ (Undone' => Undone)
    BY <1>1, <1>2, <1>3, <1>4, <2>2, Charges DEF Back, RegisterFails
  <2>4. Spawns'
    BY <1>1, <1>3, <2>1, <2>2 DEF Spawns
  <2>5. Alone'
    BY <1>1, <1>3, <2>1, <2>2 DEF Alone, StopStates, Up
  <2>6. Manned'
    BY <1>1, <1>3, <2>1, <2>2, <2>3, MannedLess DEF Lives, Up
  <2> QED
    BY <2>4, <2>5, <2>6 DEF QInv
<1>5. CASE Reaped
  <2>1. Moved /\ drv' = "none" /\ proc' = proc
    BY <1>1, <1>3, <1>5, Returning DEF Reaped, hostVars
  <2>2. call'.status = "err"
    BY <1>1, <1>5 DEF Reaped, Return, Answer, TypeOK, EngineTypeOK, Calls
  <2>3. (Undone' => Charge' = Charge) /\ Reached(1)' # "drained"
    BY <1>1, <1>2, <1>3, <2>1, <2>2, Charges DEF Back
  <2> QED
    BY <1>1, <1>3, <2>1, <2>3, Placid DEF StopStates
<1> QED
  BY <1>4, <1>5

\* Registering and selecting the generation starts and stops nothing.
LEMMA SelectingQuiet ==
  ASSUME QInv, Registered \/ Select \/ WritePointer, OInv'
  PROVE  QInv'
<1>1. /\ drv \in {"register", "select", "pointer"} /\ call.status = "open" /\ call.target = 1
      /\ TypeOK /\ IInv /\ OInv /\ call.method \in {"activate", "commit", "rollback"}
      /\ drv \in {"select", "pointer"} => call.method \in {"commit", "rollback"}
  BY QParts, InCall, Parts DEF Registered, Select, WritePointer, Positions
<1>2. /\ UNCHANGED <<engineCore, plan, broken, overlapped, accepting, running, proc, loop, frontend>>
      /\ record'.prev = record.prev
  <2>1. record' = record \/ record' = [record EXCEPT !.restored = TRUE]
    BY DEF Registered, Select, WritePointer
  <2>2. UNCHANGED <<engineCore, plan, broken, overlapped, accepting, running, proc, loop, frontend>>
    BY DEF Registered, Select, WritePointer, historyVars, hostVars
  <2> QED
    BY <1>1, <2>1, <2>2, Sizes
<1>3. \/ Return("err")
      \/ Return("ok") /\ call.method \in {"activate", "commit"}
      \/ Goto("select") \/ Goto("pointer") \/ (Goto("cleanup") /\ call.method # "commit")
  <2>1. Registered => (Return("ok") /\ call.method = "activate") \/ Goto("select")
    BY DEF Registered
  <2>2. Select => Goto("pointer") \/ Return("err")
    BY DEF Select
  <2>3. WritePointer => (Return("ok") /\ call.method = "commit") \/ (Goto("cleanup") /\ call.method # "commit")
                         \/ Return("err")
    BY DEF WritePointer
  <2> QED
    BY <2>1, <2>2, <2>3
<1>4. /\ Moved /\ drv' \in {"none", "select", "pointer", "cleanup"}
      /\ drv' = "none" <=> call'.status # "open"
      /\ call'.status = "ok" => call.method \in {"activate", "commit"}
      /\ drv' = "cleanup" => call.method # "commit"
  <2>1. CASE Return("err")
    <3>1. Moved /\ drv' = "none"
      BY <1>1, <1>2, <2>1, Returning
    <3>2. call'.status = "err"
      BY <1>1, <2>1 DEF Return, Answer, TypeOK, EngineTypeOK, Calls
    <3> QED
      BY <3>1, <3>2
  <2>2. CASE Return("ok") /\ call.method \in {"activate", "commit"}
    <3>1. Moved /\ drv' = "none"
      BY <1>1, <1>2, <2>2, Returning
    <3> QED
      BY <2>2, <3>1 DEF Moved
  <2>3. CASE Goto("select") \/ Goto("pointer") \/ (Goto("cleanup") /\ call.method # "commit")
    BY <1>1, <1>2, <2>3, Going DEF DriverStates
  <2> QED
    BY <1>3, <2>1, <2>2, <2>3
<1>5. (Undone' => Charge' = Charge) /\ Reached(1)' # "drained"
  <2>1. call'.status \in {"open", "ok", "err"}
    BY <1>4 DEF Moved
  <2> QED
    BY <1>1, <1>2, <1>4, <2>1, Charges DEF Back, Moved
<1> QED
  BY <1>1, <1>2, <1>4, <1>5, Placid DEF StopStates

\* The database is restored where nothing is alive.
LEMMA RestoreQuiet ==
  ASSUME QInv, Restore, OInv'
  PROVE  QInv'
<1>1. /\ call.status = "open" /\ call.target = 1 /\ drv = "restore" /\ OInv /\ IInv /\ TypeOK /\ Manned
      /\ UNCHANGED <<engineCore, plan, broken, overlapped, accepting, current, running, proc, loop, frontend>>
      /\ Return("err") \/ Goto("ensure") \/ Goto("cleanup")
  BY QParts, InCall, Parts DEF Restore, historyVars, hostVars
<1>2. Moved /\ drv' \in {"none", "ensure", "cleanup"}
  BY <1>1, Returning, Going DEF DriverStates
<1>3. Undone' => Undone
  BY <1>1, <1>2, Charges
<1>4. Undone' /\ ~overlapped' => \A p \in Procs : ~Lives(p)
  BY <1>1, <1>3 DEF Manned
<1> QED
  BY <1>1, <1>2, <1>4, Placid DEF StopStates

\* After the cleanup the selected generation is the one alive, if any.
LEMMA CleanupQuiet ==
  ASSUME QInv, Cleanup, OInv'
  PROVE  QInv'
<1>1. /\ call.status = "open" /\ call.target = 1 /\ drv = "cleanup" /\ OInv /\ IInv /\ TypeOK /\ Manned
      /\ UNCHANGED <<engineCore, plan, broken, overlapped, current, running, proc, loop, frontend>>
      /\ Return("err") \/ Return("ok")
      /\ call.method \in {"finalize", "rollback"}
  BY QParts, InCall, Parts DEF Cleanup, historyVars, Kept
<1>2. Moved /\ drv' = "none"
  BY <1>1, Returning
<1>3. call'.status \in {"ok", "err"}
  BY <1>2 DEF Moved
<1>4. /\ Undone' => Undone /\ ~(pc = "rollback" /\ call'.status = "err")
      /\ call.method = pc
      /\ Charge = IF pc = "rollback" THEN record.prev ELSE plan
      /\ Charge' = IF pc = "rollback" THEN (IF call'.status = "ok" THEN current ELSE plan) ELSE plan
      /\ Reached(1)' # "drained"
  BY <1>1, <1>2, Charges DEF Back
<1>5. ASSUME Undone', ~overlapped', Charge' # Charge, NEW p \in Procs
      PROVE  ~Lives(p)
  <2>1. pc = "rollback" /\ record.prev = 0
    BY <1>1, <1>3, <1>4, <1>5, QParts DEF Pointers
  <2>2. Lives(p) => proc[p].gen = 0
    BY <1>1, <1>4, <1>5, <2>1 DEF Manned
  <2>3. Lives(p) => proc[p].gen \in Gens /\ 0 \notin Gens
    BY <1>1, Parts DEF Named, Lives, Up, Gens
  <2> QED
    BY <2>2, <2>3
<1> QED
  BY <1>1, <1>2, <1>4, <1>5, Placid DEF StopStates

-----------------------------------------------------------------------------
(* The engine, a new deployment, and the frontend driver. *)

\* A step outside of the machine's calls changes neither processes nor loops.
LEMMA OutsideQuiet ==
  ASSUME QInv, OInv', drv = "none", drv' = "none", UNCHANGED <<overlapped, current, accepting, running, proc, loop>>,
         Undone' => Undone,
         Undone' /\ ~overlapped => Charge' = Charge \/ Reached(1) = "drained",
         Reached(1)' = "drained" => Reached(1) = "drained"
  PROVE  QInv'
<1>1. Spawns /\ Alone /\ Manned
  BY QParts
<1>2. Spawns'
  BY <1>1 DEF Spawns
<1>3. Alone'
  BY <1>1 DEF Alone, StopStates, Up
<1>4. \A p \in Procs : Lives(p)' = Lives(p)
  BY DEF Lives, Up
<1>5. Undone /\ ~overlapped /\ Reached(1) = "drained" => \A p \in Procs : ~Lives(p)
  BY <1>1 DEF Manned
<1>6. Manned'
  BY <1>1, <1>4, <1>5, MannedLess
<1> QED
  BY <1>2, <1>3, <1>6 DEF QInv

\* A failed rollback of the machine is never forgotten within its deployment.
LEMMA EngineUndone ==
  ASSUME QInv, EngineStep, UNCHANGED broken, Undone'
  PROVE  Undone
<1>1. IInv /\ Progress /\ pc # "idle" /\ run # "failed"
  BY QParts, EngineMoves DEF Progress
<1>2. CASE pc = "rollback" /\ call.status = "err" /\ call.target = 1
  <2>1. RollbackError
    BY <1>1, <1>2, EngineMoves, NothingOpen DEF RecordPending, EnterLoop, Invoke, RecordOk, failAndRollback,
       RollbackDone, FinalizeError, FinalizeDone, ForwardLoops
  <2>2. pc' = "rollback" /\ failed' /\ 1 \notin todo'
    BY <1>2, <2>1 DEF RollbackError
  <2> QED
    BY <2>2 DEF Undone
<1>3. CASE pc = "rollback" /\ failed /\ 1 \notin todo
  <2>1. Invoke \/ RecordOk \/ RollbackError \/ RollbackDone
    BY <1>1, <1>3, EngineMoves DEF RecordPending, EnterLoop, failAndRollback, FinalizeError, FinalizeDone,
       ForwardLoops
  <2>2. CASE Invoke \/ RecordOk \/ RollbackError
    <3>1. pc' = "rollback" /\ failed' /\ 1 \notin todo'
      BY <1>3, <2>2 DEF Invoke, RecordOk, RollbackError
    <3> QED
      BY <3>1 DEF Undone
  <2>3. CASE RollbackDone
    BY <1>3, <2>3 DEF RollbackDone, Undone
  <2> QED
    BY <2>1, <2>2, <2>3
<1> QED
  BY <1>1, <1>2, <1>3 DEF Undone

\* The engine's steps start and stop nothing.
LEMMA EngineQuiet ==
  ASSUME QInv, EngineStep, UNCHANGED <<plan, historyVars, hostVars, driverVars>>, OInv'
  PROVE  QInv'
<1>1. IInv /\ Progress
  BY QParts
<1>2. /\ drv = "none" /\ drv' = "none"
      /\ UNCHANGED <<plan, broken, overlapped, current, accepting, running, proc, loop>>
  BY <1>1, EngineWaits DEF historyVars, hostVars, driverVars
<1>3. Reached(1)' = Reached(1) \/ (Reached(1) \in NotBegun /\ Reached(1)' \in NotBegun)
  BY <1>1, EngineReached, Sizes
<1>4. Charge' = Charge
  BY <1>2, <1>3 DEF Charge, Back, NotBegun, Undoable
<1>5. Undone' => Undone
  BY <1>2, EngineUndone
<1> QED
  BY <1>2, <1>3, <1>4, <1>5, OutsideQuiet DEF NotBegun

\* What a sound deployment leaves alive is what it leaves selected.
LEMMA DeployQuiet ==
  ASSUME QInv, Deploy, OInv'
  PROVE  QInv'
<1>1. IInv /\ Progress /\ Pointers /\ TypeOK
  BY QParts, Parts
<1>2. /\ pc = "idle" /\ broken' = (broken \/ run = "failed") /\ run' = "planned"
      /\ step' = [i \in Ordinals |-> "none"] /\ pc' = "pending"
      /\ UNCHANGED <<overlapped, call, current, accepting, running, proc, loop, drv>>
  BY DEF Deploy, hostVars
<1>3. call.status = "none" /\ drv = "none"
  BY <1>1, <1>2, Parts DEF Control, DriverLoops, ForwardLoops
<1>4. Reached(1)' = "none" /\ Reached(1) = step[1] /\ step[1] \in StepStates
  BY <1>1, <1>2, <1>3, Sizes DEF Reached
<1>5. Undone' => Undone /\ run # "failed"
  BY <1>2 DEF Undone
<1>6. Charge' = current /\ Charge = IF step[1] \in Undoable \cup {"finalized"} THEN plan ELSE current
  BY <1>2, <1>3, <1>4 DEF Charge, Undoable
<1>7. Undone' => Charge' = Charge
  <2> SUFFICES ASSUME Undone', step[1] \in Undoable \cup {"finalized"} PROVE current = plan
    BY <1>6
  <2>1. run \in {"none", "committed", "rolled-back", "finalizing"}
    BY <1>1, <1>2, <1>5 DEF Progress, OverStates
  <2>2. step[1] \in {"committed", "finalized"}
    BY <1>1, <1>2, <2>1, Sizes DEF Progress, ToRollBack, needsRollback, Undoable
  <2> QED
    BY <1>1, <1>2, <1>4, <1>5, <2>2 DEF Pointers
<1> QED
  BY <1>2, <1>3, <1>4, <1>5, <1>7, OutsideQuiet

\* The frontend's steps start and stop nothing.
LEMMA FrontendQuiet ==
  ASSUME QInv, FrontendDriver, OInv'
  PROVE  QInv'
<1>1. /\ IInv /\ Progress /\ TypeOK /\ call.status = "open" /\ call.target = 2 /\ drv = "none"
      /\ UNCHANGED <<engineCore, plan, broken, overlapped, accepting, current, running, proc, loop>>
      /\ Return("ok") \/ Return("err")
  BY QParts, Parts DEF FrontendDriver, historyVars, hostVars, Control
<1>2. Moved /\ drv' = "none"
  BY <1>1, Returning
<1>3. Reached(1)' = Reached(1)
  BY <1>1, <1>2, MovedReached, Sizes
<1>4. UNCHANGED <<run, pc, todo, failed>> /\ call'.target = 2
  BY <1>1, <1>2 DEF Moved, engineCore
<1>5. Undone' => Undone
  BY <1>1, <1>4 DEF Undone
<1>6. Charge' = Charge
  BY <1>1, <1>2, <1>3, <1>4 DEF Charge, Back
<1> QED
  BY <1>1, <1>2, <1>3, <1>5, <1>6, OutsideQuiet

-----------------------------------------------------------------------------
\* At first nothing is alive.
LEMMA QInitially == Init => QInv
<1> SUFFICES ASSUME Init PROVE QInv
  OBVIOUS
<1>1. OInv
  BY OInitially
<1>2. /\ drv = "none" /\ \A p \in Procs : proc[p].st = "free" /\ loop[p].st = "none"
  BY DEF Init, NoLoop
<1>3. Spawns /\ Alone /\ Manned
  BY <1>2 DEF Spawns, Alone, StopStates, Manned, Lives, Up
<1> QED
  BY <1>1, <1>3 DEF QInv

\* Every step keeps what is said of the processes alive.
LEMMA QInductive == QInv /\ [Next]_vars => QInv'
<1> SUFFICES ASSUME QInv, [Next]_vars PROVE QInv'
  OBVIOUS
<1>1. OInv'
  BY OInductive, QParts
<1>2. CASE Deploy
  BY <1>1, <1>2, DeployQuiet
<1>3. CASE EngineStep /\ UNCHANGED <<plan, historyVars, hostVars, driverVars>>
  BY <1>1, <1>3, EngineQuiet
<1>4. CASE HostStep
  BY <1>1, <1>4, ExitQuiet, GenerationExitedQuiet, LoopWakesQuiet, LoopReadyQuiet, LoopEndsQuiet,
     LoopUnrecordedQuiet DEF HostStep
<1>5. CASE MachineDriver
  BY <1>1, <1>5, DrainQuiet, BeginningsQuiet, CheckpointQuiet, StopBeginsQuiet, RetireQuiet, TerminateQuiet,
     StopExitsQuiet, StopSurvivedQuiet, EnsureQuiet, StartReadyQuiet, StartFailsQuiet, UnrecordedQuiet, SelectingQuiet, RestoreQuiet,
     CleanupQuiet DEF MachineDriver
<1>6. CASE FrontendDriver
  BY <1>1, <1>6, FrontendQuiet
<1>7. CASE UNCHANGED vars
  <2>1. /\ UNCHANGED <<engineVars, plan, current, accepting, driverVars, broken, overlapped, running, proc, loop>>
    BY <1>7 DEF vars, hostVars, historyVars
  <2>2. /\ Undone' = Undone /\ Charge' = Charge /\ Reached(1)' = Reached(1)
        /\ StopTarget' = StopTarget /\ EnsureTarget' = EnsureTarget /\ UNCHANGED <<accepting, drv, held>>
    BY <2>1, QParts, HostSame
  <2>3. Spawns' /\ Alone' /\ Manned'
    BY <2>1, <2>2, QParts DEF Spawns, Alone, Manned, Lives, Up
  <2> QED
    BY <1>1, <2>3 DEF QInv
<1> QED
  BY <1>2, <1>3, <1>4, <1>5, <1>6, <1>7 DEF Next

\* The invariant holds of every reachable state.
THEOREM QuietInvariance == Spec => []QInv
BY QInitially, QInductive, PTL DEF Spec

\* No generation is alive while the driver checkpoints or restores the runtime
\* database, unless a rollback has failed before or a drain overlapped a restart.
THEOREM DiskQuiet == Spec => []QuietDisk
<1>1. QInv => QuietDisk
  <2> SUFFICES ASSUME QInv, Sound, drv \in {"checkpoint", "restore"} PROVE Living = {}
    BY DEF QuietDisk
  <2>1. IInv /\ Progress /\ Manned /\ call.status = "open" /\ call.target = 1
    BY QParts, InCall
  <2>2. call.method = pc /\ 1 \in todo /\ (pc # "rollback" => step[1] = Before(pc))
    BY <2>1, OpenCall
  <2>3. Undone /\ ~overlapped
    BY <2>1, <2>2 DEF Undone, Sound
  <2>4. drv = "checkpoint" => Reached(1) = "drained"
    BY <2>1, <2>2, Parts DEF Positions, Reached, Before
  <2> QED
    BY <2>1, <2>3, <2>4 DEF Manned, Living, Lives, Up
<1> QED
  BY <1>1, QuietInvariance, PTL

\* The host tracks every generation that serves, and between deployments at most
\* one process is left alive.
THEOREM AllTracked == Spec => []GenerationsTracked
<1>1. QInv => GenerationsTracked
  <2> SUFFICES ASSUME QInv PROVE GenerationsTracked
    OBVIOUS
  <2>1. IInv /\ Spawns /\ Alone /\ Manned
    BY QParts
  <2>2. ~overlapped => \A p \in Living : proc[p].st # "starting" => running[proc[p].gen] = p
    BY <2>1 DEF Alone, Living, Up
  <2>3. ASSUME Sound, Idle PROVE Cardinality(Living) <= 1
    <3>1. drv = "none" /\ Undone /\ ~overlapped
      BY <2>1, <2>3, Parts DEF Sound, Idle, Undone, Control, DriverLoops, ForwardLoops
    <3>2. \A p \in Living : p = running[Charge]
      BY <2>1, <2>2, <2>3, <3>1 DEF Idle, Spawns, Manned, Living, Lives, Up
    <3>3. CASE Living = {}
      BY <3>3, FS_EmptySet
    <3>4. CASE Living # {}
      <4>1. Living = {running[Charge]}
        BY <3>2, <3>4
      <4>2. Cardinality({running[Charge]}) = 1
        BY FS_Singleton
      <4> QED
        BY <4>1, <4>2
    <3> QED
      BY <3>3, <3>4
  <2> QED
    BY <2>2, <2>3 DEF GenerationsTracked
<1> QED
  BY <1>1, QuietInvariance, PTL
=============================================================================
