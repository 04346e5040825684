---------------------------- MODULE HostReplacement ----------------------------
(***************************************************************************)
(* The machine host of packages/account-machine (replacement-environment): *)
(* one proxy in front of machine generations, the restart loop that brings *)
(* a crashed generation back, and the machine and frontend replacement     *)
(* drivers, run by the deployment engine.  Target 1 is the machine daemon, *)
(* target 2 (when N = 2) the frontend, which depends on it.                *)
(*                                                                         *)
(* Each step is what JavaScript runs between two awaits, so the restart    *)
(* loop, exit callbacks and driver calls interleave as in the event loop.  *)
(* Every deployment is a new plan (ReplacementEnvironment.replace), so the *)
(* engine never restarts one and MaxAttempt is 1.  The death of the host   *)
(* process itself is not modelled here.                                    *)
(***************************************************************************)
EXTENDS DeploymentEngine, Integers

CONSTANTS MaxPlans,             \* bound: deployments of the host's life
          MaxProcs,             \* bound: generation processes alive or referenced at once
          MaxExits              \* bound: generations that exit on their own or unrecorded

ASSUME HostAssumption == /\ N \in {1, 2} /\ MaxAttempt = 1
                         /\ MaxPlans \in Nat /\ MaxProcs \in Nat /\ MaxExits \in Nat

VARIABLES plan,       \* deployments created; plan p's machine pointer is generation p
          accepting,  \* MachineHost.accepting
          current,    \* MachineHost.current, 0 for null
          url,        \* the process behind MachineHost.activeUrl, 0 for null
          running,    \* MachineHost.running: generation -> process, 0 when absent
          proc,       \* the processes: generation and state
          loop,       \* the restart loop started by the exit of each process
          drv,        \* where the machine driver's call stands
          held,       \* the RunningGeneration the driver's call holds on to
          record,     \* rollback-<plan>-1.json of the machine
          files,      \* current.json and machine-selection.json
          frontend,   \* frontend pointer file, published generation, rollback file
          exits,      \* spontaneous exits, and generations killed unrecorded, so far
          broken,     \* history: an earlier deployment ended as "failed"
          overlapped  \* history: a drain or another restart began while one was under way

hostVars == <<accepting, current, url, running, proc, loop, exits>>
driverVars == <<drv, held, record, files, frontend>>
historyVars == <<broken, overlapped>>
vars == <<engineVars, plan, historyVars, hostVars, driverVars>>
engineCore == <<run, attempt, step, pc, todo, failed>>

Gens == 1..MaxPlans
Procs == 1..MaxProcs
NoRecord == [prev |-> 0, restored |-> FALSE, present |-> FALSE]

\* "live" answers requests; "exited" has an exit code its host has not handled;
\* "stopping" was sent SIGTERM; "stuck" survived SIGKILL for ten seconds.
ProcStates == {"free", "starting", "live", "exited", "stopping", "stuck", "gone"}
LoopStates == {"none", "sleep", "start", "registered", "reaping"}
DriverStates == {"none", "stop", "retire", "term", "exit", "checkpoint", "ensure", "start",
                 "register", "reap", "select", "pointer", "restore", "cleanup"}

TypeOK ==
  /\ EngineTypeOK
  /\ plan \in 0..MaxPlans /\ accepting \in BOOLEAN
  /\ current \in 0..MaxPlans /\ url \in 0..MaxProcs
  /\ running \in [Gens -> 0..MaxProcs]
  /\ proc \in [Procs -> [gen : 0..MaxPlans, st : ProcStates]]
  /\ loop \in [Procs -> [gen : 0..MaxPlans, st : LoopStates, child : 0..MaxProcs]]
  /\ drv \in DriverStates /\ held \in 0..MaxProcs
  /\ record \in [prev : 0..MaxPlans, restored : BOOLEAN, present : BOOLEAN]
  /\ files \in [current : 0..MaxPlans, selection : 0..MaxPlans]
  /\ frontend \in [pointer : 0..MaxPlans, published : 0..MaxPlans, saved : -1..MaxPlans]
  /\ exits \in 0..MaxExits /\ broken \in BOOLEAN /\ overlapped \in BOOLEAN

NoLoop == [gen |-> 0, st |-> "none", child |-> 0]

Init ==
  /\ EngineInit
  /\ plan = 0 /\ accepting = TRUE /\ current = 0 /\ url = 0
  /\ running = [g \in Gens |-> 0]
  /\ proc = [p \in Procs |-> [gen |-> 0, st |-> "free"]]
  /\ loop = [p \in Procs |-> NoLoop]
  /\ drv = "none" /\ held = 0 /\ record = NoRecord
  /\ files = [current |-> 0, selection |-> 0]
  /\ frontend = [pointer |-> 0, published |-> 0, saved |-> -1]
  /\ exits = 0 /\ broken = FALSE /\ overlapped = FALSE

\* A process slot that nothing refers to any more.
Unused(p) ==
  /\ proc[p].st \in {"free", "gone"} /\ p # url /\ p # held
  /\ loop[p].st = "none" /\ \A q \in Procs : loop[q].child # p

Spawnable(p) == Unused(p) /\ \A q \in Procs : Unused(q) => p <= q

Spawned(p, g) == proc' = [proc EXCEPT ![p] = [gen |-> g, st |-> "starting"]]

-----------------------------------------------------------------------------
(* deploy: the queue runs one replacement at a time; each is a new plan. *)

Deploy ==
  /\ pc = "idle" /\ plan < MaxPlans
  /\ plan' = plan + 1
  /\ broken' = (broken \/ run = "failed")
  /\ run' = "planned" /\ attempt' = 1 /\ step' = [i \in Ordinals |-> "none"]
  /\ pc' = "pending" /\ todo' = Ordinals
  /\ record' = NoRecord /\ frontend' = [frontend EXCEPT !.saved = -1]
  /\ UNCHANGED <<failed, call, overlapped, hostVars, drv, held, files>>

-----------------------------------------------------------------------------
(* Generation processes and the restart loop (generationExited). *)

Exit(p) ==
  /\ proc[p].st = "live" /\ exits < MaxExits
  /\ proc' = [proc EXCEPT ![p].st = "exited"] /\ exits' = exits + 1
  /\ UNCHANGED <<engineVars, plan, historyVars, accepting, current, url, running, loop, driverVars>>

generationExited(p) ==
  LET g == proc[p].gen
      tracked == running[g] = p
      active == tracked /\ accepting /\ current = g
  IN /\ proc[p].st = "exited"
     /\ proc' = [proc EXCEPT ![p].st = "gone"]
     /\ running' = IF tracked THEN [running EXCEPT ![g] = 0] ELSE running
     /\ url' = IF active THEN 0 ELSE url
     /\ loop' = IF active THEN [loop EXCEPT ![p] = [gen |-> g, st |-> "sleep", child |-> 0]]
                ELSE loop
     /\ overlapped' = (overlapped \/ (active /\ \E q \in Procs : loop[q].gen = g))
     /\ UNCHANGED <<engineVars, plan, broken, accepting, current, exits, driverVars>>

\* After the back-off: give up, adopt a generation that runs, or spawn one.
LoopWakes(p) ==
  LET g == loop[p].gen IN
  /\ loop[p].st = "sleep"
  /\ \/ /\ ~accepting \/ current # g
        /\ loop' = [loop EXCEPT ![p] = NoLoop]
        /\ UNCHANGED <<url, proc>>
     \/ /\ accepting /\ current = g /\ running[g] # 0
        /\ url' = running[g] /\ loop' = [loop EXCEPT ![p] = NoLoop]
        /\ UNCHANGED proc
     \/ /\ accepting /\ current = g /\ running[g] = 0
        /\ \E q \in Procs :
             /\ Spawnable(q) /\ Spawned(q, g)
             /\ loop' = [loop EXCEPT ![p] = [gen |-> g, st |-> "start", child |-> q]]
        /\ UNCHANGED url
  /\ UNCHANGED <<engineVars, plan, historyVars, accepting, current, running, exits, driverVars>>

\* waitForReady resolves: the generation is tracked and its exit listened to.
LoopReady(p) ==
  LET q == loop[p].child IN
  /\ loop[p].st = "start"
  /\ proc' = [proc EXCEPT ![q].st = "live"]
  /\ running' = [running EXCEPT ![loop[p].gen] = q]
  /\ loop' = [loop EXCEPT ![p].st = "registered"]
  /\ UNCHANGED <<engineVars, plan, historyVars, accepting, current, url, exits, driverVars>>

\* Mutant: one failed start ends the restart loop.
LoopFailsGivesUp(p) ==
  /\ loop[p].st = "start"
  /\ proc' = [proc EXCEPT ![loop[p].child].st = "gone"]
  /\ loop' = [loop EXCEPT ![p] = NoLoop]
  /\ UNCHANGED <<engineVars, plan, historyVars, accepting, current, url, running, exits, driverVars>>

\* A start that fails is reaped; the loop goes on while nobody took over.
LoopFails(p) ==
  LET g == loop[p].gen
      again == current = g /\ running[g] = 0
  IN /\ loop[p].st = "start"
     /\ proc' = [proc EXCEPT ![loop[p].child].st = "gone"]
     /\ loop' = [loop EXCEPT ![p] = IF again THEN [gen |-> g, st |-> "sleep", child |-> 0]
                                    ELSE NoLoop]
     /\ UNCHANGED <<engineVars, plan, historyVars, accepting, current, url, running, exits, driverVars>>

\* Mutant: the restarted generation becomes active whatever is current.
LoopSwitchesAlways(p) ==
  LET g == loop[p].gen
      again == current = g /\ running[g] = 0
  IN /\ loop[p].st = "registered"
     /\ url' = loop[p].child
     /\ loop' = [loop EXCEPT ![p] = IF again THEN [gen |-> g, st |-> "sleep", child |-> 0]
                                    ELSE NoLoop]
     /\ UNCHANGED <<engineVars, plan, historyVars, accepting, current, running, proc, exits, driverVars>>

\* host-machine.json is written; the generation is active if its turn has not passed.
LoopSwitches(p) ==
  LET g == loop[p].gen
      again == current = g /\ running[g] = 0
  IN /\ loop[p].st = "registered"
     /\ url' = IF current = g THEN loop[p].child ELSE url
     /\ loop' = [loop EXCEPT ![p] = IF again THEN [gen |-> g, st |-> "sleep", child |-> 0]
                                    ELSE NoLoop]
     /\ UNCHANGED <<engineVars, plan, historyVars, accepting, current, running, proc, exits, driverVars>>

\* host-machine.json cannot be written: the generation, tracked by now, is killed.
LoopUnrecorded(p) ==
  /\ loop[p].st = "registered" /\ exits < MaxExits
  /\ proc' = [proc EXCEPT ![loop[p].child].st = IF @ = "live" THEN "exited" ELSE @]
  /\ loop' = [loop EXCEPT ![p].st = "reaping"] /\ exits' = exits + 1
  /\ UNCHANGED <<engineVars, plan, historyVars, accepting, current, url, running, driverVars>>

\* It has exited, which its own handler saw first: the start has failed.
LoopReaped(p) ==
  LET g == loop[p].gen
      again == current = g /\ running[g] = 0
  IN /\ loop[p].st = "reaping" /\ proc[loop[p].child].st = "gone"
     /\ loop' = [loop EXCEPT ![p] = IF again THEN [gen |-> g, st |-> "sleep", child |-> 0]
                                    ELSE NoLoop]
     /\ UNCHANGED <<engineVars, plan, historyVars, accepting, current, url, running, proc, exits, driverVars>>

HostStep == \E p \in Procs :
  \/ Exit(p) \/ generationExited(p) \/ LoopWakes(p) \/ LoopReady(p) \/ LoopFails(p)
  \/ LoopSwitches(p) \/ LoopUnrecorded(p) \/ LoopReaped(p)

-----------------------------------------------------------------------------
(* The machine driver (policies/machine.ts) over MachineHost. *)

Machine(method) == call.status = "open" /\ call.target = 1 /\ call.method = method

Goto(state) == drv' = state /\ UNCHANGED call
Return(status) == drv' = "none" /\ Answer(status)

Begin(method) == Machine(method) /\ drv = "none"

Drain ==
  /\ Begin("drain")
  /\ overlapped' = (overlapped \/ \E p \in Procs : loop[p].st = "start")
  /\ accepting' = FALSE /\ Goto("stop")
  /\ UNCHANGED <<engineCore, plan, broken, current, url, running, proc, loop, exits,
                 held, record, files, frontend>>

Stage ==
  /\ Begin("stage") /\ Goto("checkpoint")
  /\ UNCHANGED <<engineCore, plan, historyVars, hostVars, held, record, files, frontend>>

\* Mutant: the record names the generation before the current one.
CheckpointOffByOne ==
  /\ drv = "checkpoint"
  /\ \/ record' = [prev |-> current - 1, restored |-> FALSE, present |-> TRUE] /\ Return("ok")
     \/ UNCHANGED record /\ Return("err")
  /\ UNCHANGED <<engineCore, plan, historyVars, hostVars, held, files, frontend>>

\* checkpointDatabase, then the rollback record.
Checkpoint ==
  /\ drv = "checkpoint"
  /\ \/ record' = [prev |-> current, restored |-> FALSE, present |-> TRUE] /\ Return("ok")
     \/ UNCHANGED record /\ Return("err")
  /\ UNCHANGED <<engineCore, plan, historyVars, hostVars, held, files, frontend>>

Activate ==
  /\ Begin("activate") /\ Goto("ensure")
  /\ UNCHANGED <<engineCore, plan, historyVars, hostVars, held, record, files, frontend>>

Health ==
  /\ Begin("health")
  /\ \/ running[plan] # 0 /\ proc[running[plan]].st = "live" /\ Return("ok")
     \/ Return("err")
  /\ UNCHANGED <<engineCore, plan, historyVars, hostVars, held, record, files, frontend>>

Commit ==
  /\ Begin("commit")
  /\ IF record.present THEN Goto("ensure") ELSE Return("err")
  /\ UNCHANGED <<engineCore, plan, historyVars, hostVars, held, record, files, frontend>>

Finalize ==
  /\ Begin("finalize")
  /\ IF ~record.present THEN Return("ok")
     ELSE Goto(IF record.prev # 0 THEN "stop" ELSE "cleanup")
  /\ UNCHANGED <<engineCore, plan, historyVars, hostVars, held, record, files, frontend>>

\* Mutant: rollback restores without stopping the candidate.
RollbackWithoutStop ==
  /\ Begin("rollback")
  /\ IF ~record.present THEN Return("ok")
     ELSE Goto(IF record.restored THEN "cleanup" ELSE "restore")
  /\ UNCHANGED <<engineCore, plan, historyVars, hostVars, held, record, files, frontend>>

Rollback ==
  /\ Begin("rollback")
  /\ IF ~record.present THEN Return("ok")
     ELSE Goto(IF record.restored THEN "cleanup" ELSE "stop")
  /\ UNCHANGED <<engineCore, plan, historyVars, hostVars, held, record, files, frontend>>

\* stopGeneration: which generation the driver's method stops.
StopTarget == CASE call.method = "drain" -> current
                [] call.method = "finalize" -> record.prev
                [] OTHER -> plan

AfterStop == IF call.method = "drain" THEN Return("ok")
             ELSE Goto(IF call.method = "finalize" THEN "cleanup" ELSE "restore")

Stopping(p) == proc[p].st \in {"stopping", "stuck"}

\* An error of stopGeneration; only drainWorkers resumes admissions, and only
\* for a predecessor that was not sent SIGTERM.
StopThrows ==
  /\ accepting' = \/ accepting
                  \/ /\ call.method = "drain" /\ url # 0 /\ current # 0
                     /\ running[current] = 0 \/ ~Stopping(running[current])
  /\ held' = 0 /\ Return("err")

StopBegins ==
  LET g == StopTarget IN
  /\ drv = "stop"
  /\ IF g = 0 \/ running[g] = 0 THEN AfterStop /\ UNCHANGED held
     ELSE /\ held' = running[g]
          /\ Goto(IF proc[running[g]].st = "live" THEN "retire" ELSE "exit")
  /\ UNCHANGED <<engineCore, plan, historyVars, hostVars, record, files, frontend>>

\* POST /__control/retire: acknowledged by a live process, or it fails.
Retire ==
  /\ drv = "retire"
  /\ \/ proc[held].st = "live" /\ Goto("term") /\ UNCHANGED <<accepting, held>>
     \/ StopThrows
  /\ UNCHANGED <<engineCore, plan, historyVars, current, url, running, proc, loop, exits,
                 record, files, frontend>>

Terminate ==
  /\ drv = "term" /\ Goto("exit")
  /\ proc' = [proc EXCEPT ![held].st = IF @ = "live" THEN "stopping" ELSE @]
  /\ UNCHANGED <<engineCore, plan, historyVars, accepting, current, url, running, loop, exits,
                 held, record, files, frontend>>

\* The process exits within its grace or after SIGKILL.
StopExits ==
  /\ drv = "exit"
  /\ proc' = [proc EXCEPT ![held].st = IF Stopping(held) THEN "gone" ELSE @]
  /\ running' = [running EXCEPT ![StopTarget] = 0]
  /\ url' = IF current = StopTarget THEN 0 ELSE url
  /\ held' = 0 /\ AfterStop
  /\ UNCHANGED <<engineCore, plan, historyVars, accepting, current, loop, exits, record, files, frontend>>

\* Mutant: a process that survives SIGKILL counts as stopped.
SurvivorIgnored ==
  /\ drv = "exit" /\ Stopping(held)
  /\ proc' = [proc EXCEPT ![held].st = "stuck"]
  /\ held' = 0 /\ AfterStop
  /\ UNCHANGED <<engineCore, plan, historyVars, accepting, current, url, running, loop, exits,
                 record, files, frontend>>

StopSurvived ==
  /\ drv = "exit" /\ Stopping(held)
  /\ proc' = [proc EXCEPT ![held].st = "stuck"]
  /\ StopThrows
  /\ UNCHANGED <<engineCore, plan, historyVars, current, url, running, loop, exits, record, files, frontend>>

\* ensureGeneration, for the successor or for the generation to go back to.
EnsureTarget == IF call.method = "rollback" THEN record.prev ELSE plan

Ensure ==
  LET g == EnsureTarget IN
  /\ drv = "ensure"
  /\ \/ /\ running[g] # 0
        /\ IF call.method = "activate" THEN Return("ok") /\ UNCHANGED held
           ELSE Goto("select") /\ held' = running[g]
        /\ UNCHANGED proc
     \/ /\ running[g] = 0
        /\ \E q \in Procs : Spawnable(q) /\ Spawned(q, g) /\ held' = q
        /\ Goto("start")
  /\ UNCHANGED <<engineCore, plan, historyVars, accepting, current, url, running, loop, exits,
                 record, files, frontend>>

StartReady ==
  /\ drv = "start" /\ Goto("register")
  /\ proc' = [proc EXCEPT ![held].st = "live"]
  /\ running' = [running EXCEPT ![EnsureTarget] = held]
  /\ UNCHANGED <<engineCore, plan, historyVars, accepting, current, url, loop, exits,
                 held, record, files, frontend>>

\* A candidate that does not become ready is killed before the error returns.
StartFails ==
  /\ drv = "start"
  /\ proc' = [proc EXCEPT ![held].st = "gone"] /\ held' = 0
  /\ Return("err")
  /\ UNCHANGED <<engineCore, plan, historyVars, accepting, current, url, running, loop, exits,
                 record, files, frontend>>

\* host-machine.json names the new process.
Registered ==
  /\ drv = "register"
  /\ IF call.method = "activate" THEN Return("ok") /\ held' = 0
     ELSE Goto("select") /\ UNCHANGED held
  /\ UNCHANGED <<engineCore, plan, historyVars, hostVars, record, files, frontend>>

\* It cannot be written: the candidate is killed, and its exit is seen before the error.
RegisterFails ==
  /\ drv = "register" /\ exits < MaxExits /\ Goto("reap")
  /\ proc' = [proc EXCEPT ![held].st = IF @ = "live" THEN "exited" ELSE @]
  /\ exits' = exits + 1
  /\ UNCHANGED <<engineCore, plan, historyVars, accepting, current, url, running, loop,
                 held, record, files, frontend>>

Reaped ==
  /\ drv = "reap" /\ proc[held].st = "gone"
  /\ held' = 0 /\ Return("err")
  /\ UNCHANGED <<engineCore, plan, historyVars, hostVars, record, files, frontend>>

\* switchActiveSocket: machine-selection.json, then current and activeUrl.
Select ==
  /\ drv = "select" /\ held' = 0
  /\ \/ /\ files' = [files EXCEPT !.selection = EnsureTarget]
        /\ current' = EnsureTarget /\ url' = held
        /\ Goto("pointer")
     \/ Return("err") /\ UNCHANGED <<files, current, url>>
  /\ UNCHANGED <<engineCore, plan, historyVars, accepting, running, proc, loop, exits, record, frontend>>

\* Mutant: a rollback forgets to write current.json back.
WritePointerOnCommitOnly ==
  /\ drv = "pointer"
  /\ IF call.method = "commit"
     THEN Return("ok") /\ files' = [files EXCEPT !.current = EnsureTarget] /\ UNCHANGED record
     ELSE Goto("cleanup") /\ record' = [record EXCEPT !.restored = TRUE] /\ UNCHANGED files
  /\ UNCHANGED <<engineCore, plan, historyVars, hostVars, held, frontend>>

\* current.json; a rollback then marks its record restored.  Either write may fail.
WritePointer ==
  /\ drv = "pointer"
  /\ \/ /\ files' = [files EXCEPT !.current = EnsureTarget]
        /\ IF call.method = "commit" THEN Return("ok") /\ UNCHANGED record
           ELSE Goto("cleanup") /\ record' = [record EXCEPT !.restored = TRUE]
     \/ /\ call.method = "rollback" /\ files' = [files EXCEPT !.current = EnsureTarget]
        /\ Return("err") /\ UNCHANGED record
     \/ Return("err") /\ UNCHANGED <<files, record>>
  /\ UNCHANGED <<engineCore, plan, historyVars, hostVars, held, frontend>>

\* restoreDatabase; without a predecessor only current.json is removed, and the record
\* marked, which may fail.
Restore ==
  /\ drv = "restore"
  /\ \/ record.prev # 0 /\ Goto("ensure") /\ UNCHANGED <<files, record>>
     \/ /\ record.prev = 0 /\ files' = [files EXCEPT !.current = 0]
        /\ \/ record' = [record EXCEPT !.restored = TRUE] /\ Goto("cleanup")
           \/ UNCHANGED record /\ Return("err")
     \/ Return("err") /\ UNCHANGED <<files, record>>
  /\ UNCHANGED <<engineCore, plan, historyVars, hostVars, held, frontend>>

\* releaseDatabaseCheckpoint, resumeAdmissions, rm record: the first and the last may fail.
Cleanup ==
  /\ drv = "cleanup"
  /\ \/ accepting' = TRUE /\ record' = NoRecord /\ Return("ok")
     \/ accepting' = TRUE /\ UNCHANGED record /\ Return("err")
     \/ Return("err") /\ UNCHANGED <<accepting, record>>
  /\ UNCHANGED <<engineCore, plan, historyVars, current, url, running, proc, loop, exits,
                 held, files, frontend>>

MachineDriver ==
  \/ Drain \/ Stage \/ Checkpoint \/ Activate \/ Health \/ Commit \/ Finalize \/ Rollback
  \/ StopBegins \/ Retire \/ Terminate \/ StopExits \/ StopSurvived
  \/ Ensure \/ StartReady \/ StartFails \/ Registered \/ RegisterFails \/ Reaped
  \/ Select \/ WritePointer \/ Restore \/ Cleanup

-----------------------------------------------------------------------------
(* The frontend driver (policies/frontend.ts) over FrontendHost. *)

FrontendEffect(method) ==
  CASE method = "stage" -> [frontend EXCEPT !.saved = frontend.pointer]
    [] method = "activate" -> [frontend EXCEPT !.pointer = plan, !.published = plan]
    [] method = "finalize" -> [frontend EXCEPT !.saved = -1]
    [] method = "rollback" /\ frontend.saved > 0 ->
         [pointer |-> frontend.saved, published |-> frontend.saved, saved |-> -1]
    [] method = "rollback" /\ frontend.saved = 0 ->
         [frontend EXCEPT !.pointer = 0, !.saved = -1]
    [] OTHER -> frontend

FrontendCan(method) == /\ method = "health" => frontend.published = plan
                       /\ method = "commit" => frontend.saved # -1

\* A method that fails may already have replaced the pointer file, or that and
\* the published generation; the rollback file goes last.
FrontendPartial(method) ==
  LET effect == FrontendEffect(method)
  IN {frontend} \cup
     IF method \in {"activate", "rollback"} /\ frontend.saved # -1
     THEN {[frontend EXCEPT !.pointer = effect.pointer], [effect EXCEPT !.saved = frontend.saved]}
     ELSE {}

FrontendDriver ==
  /\ call.status = "open" /\ call.target = 2
  /\ \/ FrontendCan(call.method) /\ frontend' = FrontendEffect(call.method) /\ Return("ok")
     \/ frontend' \in FrontendPartial(call.method) /\ Return("err")
  /\ UNCHANGED <<engineCore, plan, historyVars, hostVars, held, record, files>>

Next == \/ Deploy
        \/ EngineStep /\ UNCHANGED <<plan, historyVars, hostVars, driverVars>>
        \/ HostStep \/ MachineDriver \/ FrontendDriver

Spec == Init /\ [][Next]_vars

\* The event loop runs every callback and continuation, the waits of a driver
\* call are bounded by timeouts (30 s, 120 s, 10 s), and a generation that is
\* started again and again is ready some time; deployments and exits are free.
Fairness ==
  /\ WF_vars(EngineStep /\ UNCHANGED <<plan, historyVars, hostVars, driverVars>>)
  /\ WF_vars(MachineDriver) /\ WF_vars(FrontendDriver)
  /\ \A p \in Procs : /\ WF_vars(generationExited(p)) /\ WF_vars(LoopWakes(p))
                      /\ WF_vars(LoopReady(p) \/ LoopFails(p)) /\ SF_vars(LoopReady(p))
                      /\ WF_vars(LoopSwitches(p) \/ LoopUnrecorded(p))
                      /\ WF_vars(LoopReaped(p))

FairSpec == Spec /\ Fairness

-----------------------------------------------------------------------------
Idle == pc = "idle" /\ \A p \in Procs : loop[p].st = "none"
\* A process that was sent a signal may still write until it is seen to exit.
Living == {p \in Procs : proc[p].st \in {"starting", "live", "stopping", "stuck"}}

\* Every deployment is a new plan, so nothing ever completes a rollback that
\* failed; a drain does not see a restart that waits for readiness, and neither
\* does the restart loop of a generation that exits once more before the first
\* loop is over.  What follows is promised until one of these has happened.
Sound == ~broken /\ run # "failed" /\ ~overlapped

\* No generation writes the runtime database while it is checkpointed or
\* restored: the predecessor was drained, a failed candidate was reaped and the
\* restart loop stays out (drainWorkers, stopGeneration, ensureGeneration).
QuietDisk == Sound /\ drv \in {"checkpoint", "restore"} => Living = {}

\* The proxy forwards to a process of the generation the host believes current,
\* through every switch, stop, crash and restart.
ProxyServesCurrent == url # 0 => proc[url].gen = current

\* Every generation that serves is tracked, so its exit is noticed and a stop
\* reaches it; between deployments at most one is left.
GenerationsTracked ==
  /\ ~overlapped => \A p \in Living : proc[p].st # "starting" => running[proc[p].gen] = p
  /\ Sound /\ Idle => Cardinality(Living) <= 1

\* When a deployment is over, host and files select the generation its journal
\* says: the plan's when committed, the predecessor's when rolled back; and a
\* machine that was rolled back takes requests again.  (One that was drained and
\* never staged is not rolled back, and does not: needsRollback.)
OutcomeSelected ==
  pc = "idle" =>
    /\ run = "committed" => /\ current = plan /\ files = [current |-> plan, selection |-> plan]
                            /\ N = 2 => frontend = [pointer |-> plan, published |-> plan, saved |-> -1]
    /\ run = "rolled-back" /\ Sound /\ step[1] = "rolled-back" => accepting
    /\ run = "rolled-back" /\ files.current # 0 /\ Sound =>
         /\ current < plan /\ files = [current |-> current, selection |-> current]
         /\ N = 2 /\ frontend.pointer # 0 => frontend.published = frontend.pointer

\* A crashed active generation comes back, or a deployment has taken over.
CrashHeals ==
  (\E p \in Procs : loop[p].st # "none" /\ url = 0) ~> (url # 0 \/ ~accepting \/ pc # "idle")
=============================================================================
