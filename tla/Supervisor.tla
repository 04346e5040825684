----------------------------- MODULE Supervisor -----------------------------
(***************************************************************************)
(* The process supervisor (supervisor/src/supervisor.ts) behind its broker *)
(* (broker.ts): what happens to one process name.                          *)
(*                                                                         *)
(* Requests of several clients, the restart timer, the exit handler of     *)
(* each process and the task that terminates a run interleave at every     *)
(* await; the broker shuts down, is killed, or goes with the whole         *)
(* computer, while the processes it started live on.  A run is one object  *)
(* of the runs map.  "exited" and "failed" are one state, "done", and      *)
(* "running" and "ready" are "up": only whether a run is finished decides  *)
(* anything here.  The spec is persisted, restarts on failure and needs no *)
(* environment bindings.                                                   *)
(***************************************************************************)
EXTENDS Integers, FiniteSets

CONSTANTS
  Clients,     \* callers with one request each at a time
  Detached,    \* spec.detached: shutdown releases the process
  MaxRuns,     \* bound: runs started
  MaxProcs,    \* bound: processes spawned
  MaxRequests, \* bound: requests
  MaxCrashes   \* bound: deaths of the broker or of the computer

ASSUME SupervisorAssumption ==
  /\ Detached \in BOOLEAN /\ Clients \cap {"timer", "none", "ok", "failed"} = {}
  /\ {MaxRuns, MaxProcs, MaxRequests, MaxCrashes} \subseteq Nat

Runs    == 1..MaxRuns
Procs   == 1..MaxProcs
Threads == Clients \cup {"timer"}

VARIABLES
  broker,      \* the broker process: "down", "up", or shutting down
  cur,         \* runs.get(name), 0 for none
  runs,        \* memory: the Running objects
  completions, \* memory: finished executions
  meta,        \* disk: meta.json of the name
  saved,       \* disk: completions/
  proc,        \* processes of the operating system
  task,        \* what each client and the timer's launch are doing
  made,        \* runs made so far
  requests, crashes,
  raced,       \* history: two launches of one run were let through
  leaked,      \* history: a launch failed after its process was there
  wanted,      \* history: nobody has stopped the name since it was started
  contested    \* history: stops that a start or restart overlaps before its launch

memory  == <<cur, runs, completions>>
disk    == <<meta, saved>>
history == <<raced, leaked, wanted, contested>>
vars == <<broker, memory, disk, proc, task, made, requests, crashes, history>>

NoRun  == [state |-> "done", stopping |-> FALSE, recovered |-> FALSE, timer |-> FALSE,
           count |-> 0, ident |-> 0, launching |-> "none", stop |-> "none",
           victim |-> 0, poisoned |-> FALSE]
NoProc == [st |-> "none", run |-> 0, count |-> 0, exit |-> "none", again |-> FALSE, watched |-> FALSE]
NoTask == [op |-> "none", pc |-> "idle", run |-> 0, proc |-> 0]
NoMeta == [run |-> 0, state |-> "none", ident |-> 0, count |-> 0, boot |-> "this"]

States == {"starting", "up", "restarting", "stopping", "done"}

TypeOK ==
  /\ broker \in {"down", "up", "closing", "leaving"}
  /\ cur \in 0..MaxRuns /\ made \in 0..MaxRuns
  /\ runs \in [Runs -> [state : States, stopping : BOOLEAN, recovered : BOOLEAN, timer : BOOLEAN,
                        count : Nat, ident : 0..MaxProcs,
                        launching : Threads \cup {"none", "ok", "failed"},
                        stop : {"none", "waiting", "killing", "closing", "ok", "failed"},
                        victim : 0..MaxProcs, poisoned : BOOLEAN]]
  /\ proc \in [Procs -> [st : {"none", "live", "dead"}, run : 0..MaxRuns, count : Nat,
                         exit : {"none", "event", "first", "second"}, again : BOOLEAN, watched : BOOLEAN]]
  /\ task \in [Threads -> [op : {"none", "start", "stop", "restart", "launch"},
                           pc : {"idle", "drain", "drained", "claim", "spawn", "identify"},
                           run : 0..MaxRuns, proc : 0..MaxProcs]]
  /\ meta \in [run : 0..MaxRuns, state : States \cup {"none"}, ident : 0..MaxProcs,
               count : Nat, boot : {"this", "old"}]
  /\ completions \subseteq Runs \X Nat /\ saved \subseteq Runs \X Nat
  /\ requests \in 0..MaxRequests /\ crashes \in 0..MaxCrashes
  /\ raced \in BOOLEAN /\ leaked \in BOOLEAN /\ wanted \in BOOLEAN
  /\ contested \subseteq Clients

Init ==
  /\ broker = "up" /\ cur = 0 /\ made = 0
  /\ runs = [r \in Runs |-> NoRun]
  /\ proc = [p \in Procs |-> NoProc]
  /\ task = [t \in Threads |-> NoTask]
  /\ meta = NoMeta /\ completions = {} /\ saved = {}
  /\ requests = 0 /\ crashes = 0
  /\ raced = FALSE /\ leaked = FALSE /\ wanted = FALSE /\ contested = {}

-----------------------------------------------------------------------------
Living      == {p \in Procs : proc[p].st = "live"}
Finished(r) == runs[r].state = "done"
Key(r)      == <<r, runs[r].count>>
Launching   == {t \in Threads : task[t].pc \in {"claim", "spawn", "identify"}}

\* persist, once the write has happened: the record of memory, and a completion.
Write(r, rec) ==
  /\ meta' = [run |-> r, state |-> rec.state, ident |-> rec.ident, count |-> rec.count, boot |-> "this"]
  /\ saved' = IF rec.state = "done" THEN saved \cup {<<r, rec.count>>} ELSE saved

\* stop: the termination task is started once, and is over for a finished run.
CallStop(rec) ==
  IF rec.stop # "none" THEN rec
  ELSE [rec EXCEPT !.stopping = TRUE, !.timer = FALSE,
                   !.stop = IF rec.state = "done" THEN "ok" ELSE "waiting"]

\* What drain awaits, and whether one of the awaited promises was rejected.
Drained(r) ==
  /\ runs[r].launching \notin Threads
  /\ runs[r].stop \in {"none", "ok", "failed"}
  /\ \A p \in Procs : proc[p].run = r => proc[p].exit = "none"
DrainFails(r) == runs[r].launching = "failed" \/ runs[r].stop = "failed" \/ runs[r].poisoned

\* launch up to its first await: nothing at all while the broker closes.
Launch(t, rec) ==
  IF broker # "up" THEN rec
  ELSE [rec EXCEPT !.state = "starting", !.stopping = FALSE, !.recovered = FALSE,
                   !.stop = "none", !.victim = 0, !.launching = t]
LaunchTask(t, r) ==
  IF broker # "up" THEN NoTask ELSE [task[t] EXCEPT !.op = "launch", !.pc = "claim", !.run = r]

-----------------------------------------------------------------------------
(* Requests.  One that is refused at once changes nothing and is left out. *)

Requested(c) == broker = "up" /\ task[c].pc = "idle" /\ requests < MaxRequests /\ requests' = requests + 1

\* start of a name that has no run yet.
StartFirst(c) ==
  /\ Requested(c) /\ cur = 0 /\ made < MaxRuns
  /\ made' = made + 1 /\ cur' = made + 1
  /\ runs' = [runs EXCEPT ![made + 1] = Launch(c, NoRun)]
  /\ task' = [task EXCEPT ![c] = LaunchTask(c, made + 1)]
  /\ wanted' = TRUE
  /\ UNCHANGED <<broker, completions, disk, proc, crashes, raced, leaked, contested>>

\* start, stop and restart of a run: its termination, then its drain.
Ask(c, op) ==
  /\ Requested(c) /\ cur # 0
  /\ op = "start" => Finished(cur) /\ made < MaxRuns
  /\ runs' = [runs EXCEPT ![cur] = CallStop(@)]
  /\ task' = [task EXCEPT ![c] = [NoTask EXCEPT !.op = op, !.pc = "drain", !.run = cur]]
  /\ wanted' = (wanted \/ op # "stop")
  /\ contested' = IF op # "stop" THEN {d \in Clients : task[d].op = "stop"}
                  ELSE (contested \ {c}) \cup {d \in {c} : \E e \in Clients : task[e].op \in {"start", "restart"}}
  /\ UNCHANGED <<broker, cur, completions, disk, proc, made, crashes, raced, leaked>>

\* a state that nothing waits for
DrainEndsMisnamed(c) ==
  /\ task[c].pc = "drain" /\ Drained(task[c].run)
  /\ task' = [task EXCEPT ![c].pc = "resumed"]
  /\ UNCHANGED <<broker, memory, disk, proc, made, requests, crashes, history>>
DrainEnds(c) ==
  LET r == task[c].run IN
  /\ task[c].pc = "drain" /\ Drained(r)
  /\ task' = [task EXCEPT ![c] = IF DrainFails(r) THEN NoTask
                                 ELSE [@ EXCEPT !.pc = "drained"]]
  /\ UNCHANGED <<broker, memory, disk, proc, made, requests, crashes, history>>

\* Another request launched the run after this one had drained it.
Overtaken(c) ==
  LET r == task[c].run IN
  \/ cur # r \/ ~Drained(r) \/ DrainFails(r)
  \/ runs[r].timer \/ runs[r].state \notin {"done", "restarting"}

\* without asking who owns the name now
StartResumesUnchecked(c) ==
  /\ task[c].op = "start" /\ task[c].pc = "drained" /\ broker = "up" /\ made < MaxRuns
  /\ made' = made + 1 /\ cur' = made + 1
  /\ runs' = [runs EXCEPT ![made + 1] = Launch(c, NoRun)]
  /\ task' = [task EXCEPT ![c] = LaunchTask(c, made + 1)]
  /\ UNCHANGED <<broker, completions, disk, proc, requests, crashes, history>>
\* start goes on, unless the broker closes or another start was first.
StartResumes(c) ==
  /\ task[c].op = "start" /\ task[c].pc = "drained"
  /\ \/ /\ broker # "up" \/ cur # task[c].run \/ made = MaxRuns
        /\ task' = [task EXCEPT ![c] = NoTask]
        /\ UNCHANGED <<memory, made, raced>>
     \/ /\ broker = "up" /\ cur = task[c].run /\ made < MaxRuns
        /\ made' = made + 1 /\ cur' = made + 1
        /\ runs' = [runs EXCEPT ![made + 1] = Launch(c, NoRun)]
        /\ task' = [task EXCEPT ![c] = LaunchTask(c, made + 1)]
        /\ raced' = (raced \/ Overtaken(c))
        /\ UNCHANGED completions
  /\ UNCHANGED <<broker, disk, proc, requests, crashes, leaked, wanted, contested>>

RestartResumes(c) ==
  LET r == task[c].run IN
  /\ task[c].op = "restart" /\ task[c].pc = "drained"
  /\ runs' = [runs EXCEPT ![r] = Launch(c, [runs[r] EXCEPT !.count = @ + 1])]
  /\ task' = [task EXCEPT ![c] = LaunchTask(c, r)]
  /\ raced' = (raced \/ Overtaken(c))
  /\ UNCHANGED <<broker, cur, completions, disk, proc, made, requests, crashes, leaked, wanted, contested>>

\* A stop is answered.  The name is unwanted unless somebody else asked for it.
StopResumes(c) ==
  /\ task[c].op = "stop" /\ task[c].pc = "drained"
  /\ task' = [task EXCEPT ![c] = NoTask]
  /\ wanted' = (wanted /\ c \in contested) /\ contested' = contested \ {c}
  /\ UNCHANGED <<broker, memory, disk, proc, made, requests, crashes, raced, leaked>>

-----------------------------------------------------------------------------
(* launch *)

\* nothing written before the spawn
ClaimUnwritten(t) ==
  /\ task[t].pc = "claim"
  /\ runs' = [runs EXCEPT ![task[t].run].ident = 0]
  /\ task' = [task EXCEPT ![t].pc = "spawn"]
  /\ UNCHANGED <<broker, cur, completions, disk, proc, made, requests, crashes, history>>
\* The unresolved claim is on disk before anything is spawned.
Claim(t) ==
  LET r == task[t].run
      rec == [runs[r] EXCEPT !.ident = 0] IN
  /\ task[t].pc = "claim"
  /\ runs' = [runs EXCEPT ![r] = rec] /\ Write(r, rec)
  /\ task' = [task EXCEPT ![t].pc = "spawn"]
  /\ UNCHANGED <<broker, cur, completions, proc, made, requests, crashes, history>>

\* The claim cannot be written: nothing is spawned, and the run stays as it was when its
\* launch began, outside the catch block.
ClaimFails(t) ==
  /\ task[t].pc = "claim"
  /\ runs' = [runs EXCEPT ![task[t].run].ident = 0,
                          ![task[t].run].launching = IF @ = t THEN "failed" ELSE @,
                          ![task[t].run].poisoned = @ \/ t = "timer"]
  /\ task' = [task EXCEPT ![t] = NoTask]
  /\ UNCHANGED <<broker, cur, completions, disk, proc, made, requests, crashes, history>>

Spawn(t) ==
  /\ task[t].pc = "spawn"
  /\ \E p \in Procs :
       /\ proc[p].st = "none" /\ \A q \in 1..(p - 1) : proc[q].st # "none"
       /\ proc' = [proc EXCEPT ![p] = [st |-> "live", run |-> task[t].run, count |-> runs[task[t].run].count,
                                       exit |-> "none", again |-> FALSE, watched |-> TRUE]]
       /\ task' = [task EXCEPT ![t].pc = "identify", ![t].proc = p]
  /\ UNCHANGED <<broker, memory, disk, made, requests, crashes, history>>

\* The identity is read while the process lives, or finds it gone.
Identify(t) ==
  LET r == task[t].run  p == task[t].proc IN
  /\ task[t].pc = "identify"
  /\ \E id \in {p} \cup (IF proc[p].st = "dead" THEN {0} ELSE {}) :
       LET rec == [runs[r] EXCEPT !.ident = id, !.state = IF @ = "done" THEN @ ELSE "up",
                                  !.launching = IF @ = t THEN "ok" ELSE @] IN
       runs' = [runs EXCEPT ![r] = rec] /\ Write(r, rec)
  /\ task' = [task EXCEPT ![t] = NoTask]
  /\ UNCHANGED <<broker, cur, completions, proc, made, requests, crashes, history>>

\* The catch block: spawn failed, or reading the identity or the write did.
LaunchFails(t) ==
  LET r == task[t].run
      rec == [runs[r] EXCEPT !.state = "done", !.launching = IF @ = t THEN "failed" ELSE @,
                             !.poisoned = @ \/ t = "timer"] IN
  /\ task[t].pc \in {"spawn", "identify"}
  /\ runs' = [runs EXCEPT ![r] = rec] /\ Write(r, rec)
  /\ completions' = completions \cup {Key(r)}
  /\ task' = [task EXCEPT ![t] = NoTask]
  /\ leaked' = (leaked \/ task[t].pc = "identify")
  /\ UNCHANGED <<broker, cur, proc, made, requests, crashes, raced, wanted, contested>>

\* The restart timer of a run.
TimerFires(r) ==
  /\ broker # "down" /\ runs[r].timer /\ task["timer"].pc = "idle"
  /\ runs' = [runs EXCEPT ![r] = Launch("timer", [runs[r] EXCEPT !.timer = FALSE])]
  /\ task' = [task EXCEPT !["timer"] = LaunchTask("timer", r)]
  /\ raced' = (raced \/ runs[r].launching \in Threads)
  /\ UNCHANGED <<broker, cur, completions, disk, proc, made, requests, crashes, leaked, wanted, contested>>

-----------------------------------------------------------------------------
(* The end of a process. *)

\* A process ends; the broker that spawned it gets the close event.
Ends(p) == [proc EXCEPT ![p].st = "dead", ![p].exit = IF @ = "none" /\ proc[p].watched THEN "event" ELSE @]

Exit(p) ==
  /\ proc[p].st = "live" /\ proc' = Ends(p)
  /\ UNCHANGED <<broker, memory, disk, task, made, requests, crashes, history>>

\* exited: the run is finished, and whether it will be restarted is decided.
Exited(p, code) ==
  LET r == proc[p].run
      again == broker = "up" /\ ~runs[r].stopping /\ code # 0 IN
  /\ proc[p].exit = "event"
  /\ runs' = [runs EXCEPT ![r].state = "done", ![r].ident = 0]
  /\ completions' = completions \cup {Key(r)}
  /\ proc' = [proc EXCEPT ![p].exit = "first", ![p].again = again]
  /\ UNCHANGED <<broker, cur, disk, task, made, requests, crashes, history>>

ExitWritten(p) ==
  LET r == proc[p].run IN
  /\ proc[p].exit = "first"
  /\ Write(r, runs[r])
  /\ proc' = [proc EXCEPT ![p].exit = IF proc[p].again THEN "second" ELSE "none"]
  /\ runs' = IF proc[p].again THEN [runs EXCEPT ![r].state = "restarting", ![r].count = @ + 1] ELSE runs
  /\ UNCHANGED <<broker, cur, completions, task, made, requests, crashes, history>>

\* the timer is set whoever stopped the run meanwhile
ExitRestartsAlways(p) ==
  /\ proc[p].exit = "second"
  /\ Write(proc[p].run, runs[proc[p].run])
  /\ proc' = [proc EXCEPT ![p].exit = "none"]
  /\ runs' = [runs EXCEPT ![proc[p].run].timer = TRUE]
  /\ UNCHANGED <<broker, cur, completions, task, made, requests, crashes, history>>
\* the timer is forgotten
ExitRestartsNever(p) ==
  /\ proc[p].exit = "second"
  /\ Write(proc[p].run, runs[proc[p].run])
  /\ proc' = [proc EXCEPT ![p].exit = "none"]
  /\ UNCHANGED <<broker, memory, task, made, requests, crashes, history>>
ExitRestarts(p) ==
  LET r == proc[p].run IN
  /\ proc[p].exit = "second"
  /\ Write(r, runs[r])
  /\ proc' = [proc EXCEPT ![p].exit = "none"]
  /\ runs' = [runs EXCEPT ![r].timer = ~runs[r].stopping /\ broker = "up"]
  /\ UNCHANGED <<broker, cur, completions, task, made, requests, crashes, history>>

-----------------------------------------------------------------------------
(* terminate, after its synchronous part in CallStop. *)

\* terminate without awaiting run.launching
TerminateAtOnce(r) ==
  LET rec == runs[r] IN
  /\ rec.stop = "waiting"
  /\ IF rec.state = "done" THEN runs' = [runs EXCEPT ![r].stop = "ok"] /\ UNCHANGED disk
     ELSE /\ runs' = [runs EXCEPT ![r].state = "stopping", ![r].stop = "killing", ![r].victim = rec.ident]
          /\ Write(r, runs'[r])
  /\ UNCHANGED <<broker, cur, completions, proc, task, made, requests, crashes, history>>
TerminateResumes(r) ==
  LET rec == runs[r] IN
  /\ rec.stop = "waiting" /\ rec.launching \notin Threads
  /\ \/ /\ rec.state = "done" /\ rec.launching # "failed"
        /\ runs' = [runs EXCEPT ![r].stop = "ok"] /\ UNCHANGED disk
     \/ /\ rec.launching = "failed" \/ (rec.state # "done" /\ rec.recovered /\ rec.ident = 0)
        /\ runs' = [runs EXCEPT ![r].stop = "failed"] /\ UNCHANGED disk
     \/ /\ rec.state # "done" /\ rec.launching # "failed" /\ ~(rec.recovered /\ rec.ident = 0)
        /\ runs' = [runs EXCEPT ![r].state = "stopping", ![r].stop = "killing", ![r].victim = rec.ident]
        /\ Write(r, runs'[r])
  /\ UNCHANGED <<broker, cur, completions, proc, task, made, requests, crashes, history>>

\* the kill is not waited for
KillsUnconfirmed(r) ==
  /\ runs[r].stop = "killing"
  /\ runs' = [runs EXCEPT ![r].stop = "closing"]
  /\ UNCHANGED <<broker, cur, completions, disk, proc, task, made, requests, crashes, history>>
\* The tree is signalled, then killed; a process that outlives that is an error.
Kills(r) ==
  LET v == runs[r].victim IN
  /\ runs[r].stop = "killing"
  /\ proc' = IF v # 0 /\ proc[v].st = "live" THEN Ends(v) ELSE proc
  /\ runs' = [runs EXCEPT ![r].stop = "closing"]
  /\ UNCHANGED <<broker, cur, completions, disk, task, made, requests, crashes, history>>

KillFails(r) ==
  /\ runs[r].stop = "killing" /\ runs[r].victim # 0 /\ proc[runs[r].victim].st = "live"
  /\ runs' = [runs EXCEPT ![r].stop = "failed"]
  /\ UNCHANGED <<broker, cur, completions, disk, proc, task, made, requests, crashes, history>>

Terminated(r) ==
  LET rec == [runs[r] EXCEPT !.state = "done", !.ident = 0, !.stop = "ok"] IN
  /\ runs[r].stop = "closing" /\ (runs[r].recovered \/ Finished(r))
  /\ runs' = [runs EXCEPT ![r] = rec] /\ Write(r, rec)
  /\ completions' = completions \cup {Key(r)}
  /\ UNCHANGED <<broker, cur, proc, task, made, requests, crashes, history>>

\* the exit stream is waited for without a deadline
CloseWaitsForever(r) == runs[r].stop = "closing" /\ UNCHANGED vars
\* The exit stream did not close in time.
CloseTimesOut(r) ==
  /\ runs[r].stop = "closing" /\ ~runs[r].recovered /\ ~Finished(r)
  /\ runs' = [runs EXCEPT ![r].stop = "failed"]
  /\ UNCHANGED <<broker, cur, completions, disk, proc, task, made, requests, crashes, history>>

-----------------------------------------------------------------------------
(* The broker. *)

\* A shutdown request, SIGTERM, or an idle broker: nothing is launched any more.
ShutdownBegins ==
  /\ broker = "up" /\ broker' = "closing"
  /\ runs' = IF cur = 0 THEN runs ELSE [runs EXCEPT ![cur].stopping = TRUE, ![cur].timer = FALSE]
  /\ UNCHANGED <<cur, completions, disk, proc, task, made, requests, crashes, history>>

\* A detached process is released with its record; any other is stopped.
ShutdownRun ==
  /\ broker = "closing" /\ cur # 0 /\ runs[cur].launching \notin Threads
  /\ broker' = "leaving"
  /\ IF runs[cur].launching # "failed" /\ Detached /\ runs[cur].stop = "none" /\ ~Finished(cur) /\ runs[cur].ident # 0
     THEN /\ proc' = [p \in Procs |-> IF proc[p].run = cur THEN [proc[p] EXCEPT !.watched = FALSE] ELSE proc[p]]
          /\ UNCHANGED runs
     ELSE /\ runs' = IF runs[cur].launching = "failed" THEN runs ELSE [runs EXCEPT ![cur] = CallStop(@)]
          /\ UNCHANGED proc
  /\ UNCHANGED <<cur, completions, disk, task, made, requests, crashes, history>>

\* The broker's memory goes; processes and files stay.
BrokerGone ==
  /\ broker' = "down" /\ cur' = 0 /\ completions' = {}
  /\ runs' = [r \in Runs |-> NoRun]
  /\ task' = [t \in Threads |-> NoTask] /\ contested' = {}

\* After shutdown, its failure or its deadline.
BrokerExits ==
  /\ broker \in {"closing", "leaving"} /\ BrokerGone
  /\ proc' = [p \in Procs |-> [proc[p] EXCEPT !.watched = FALSE, !.exit = "none", !.again = FALSE]]
  /\ UNCHANGED <<disk, made, requests, crashes, raced, leaked, wanted>>

Crash ==
  /\ broker # "down" /\ crashes < MaxCrashes /\ crashes' = crashes + 1
  /\ BrokerGone
  /\ proc' = [p \in Procs |-> [proc[p] EXCEPT !.watched = FALSE, !.exit = "none", !.again = FALSE]]
  /\ UNCHANGED <<disk, made, requests, raced, leaked, wanted>>

\* The computer restarts: no process is left and the boot identity is another.
Reboot ==
  /\ crashes < MaxCrashes /\ crashes' = crashes + 1
  /\ BrokerGone
  /\ proc' = [p \in Procs |-> IF proc[p].st = "none" THEN NoProc
                              ELSE [NoProc EXCEPT !.st = "dead", !.run = proc[p].run, !.count = proc[p].count]]
  /\ meta' = [meta EXCEPT !.boot = "old"]
  /\ UNCHANGED <<saved, made, requests, raced, leaked, wanted>>

\* a claim without an identity taken for absent
ClaimAbsentIfUnknown(m) == m.boot = "old" \/ m.ident = 0 \/ proc[m.ident].st # "live"
\* claimAbsent: another boot, or an identity that no longer exists.
ClaimAbsent(m) == m.boot = "old" \/ (m.ident # 0 /\ proc[m.ident].st # "live")

\* recover: a claim that may still have a process is fenced, never replayed.
Recover ==
  LET r == meta.run
      gone == meta.state = "done" \/ ClaimAbsent(meta)
      rec == [NoRun EXCEPT !.state = IF gone THEN "done" ELSE "stopping", !.count = meta.count,
                           !.ident = meta.ident, !.recovered = TRUE] IN
  /\ broker = "down" /\ broker' = "up"
  /\ IF r = 0 THEN completions' = saved /\ UNCHANGED <<cur, runs, disk>>
     ELSE /\ cur' = r /\ runs' = [runs EXCEPT ![r] = rec]
          /\ completions' = saved \cup (IF gone THEN {<<r, rec.count>>} ELSE {})
          /\ meta' = [meta EXCEPT !.state = rec.state] /\ saved' = completions'
  /\ UNCHANGED <<proc, task, made, requests, crashes, history>>

-----------------------------------------------------------------------------
Request(c) == StartFirst(c) \/ \E op \in {"start", "stop", "restart"} : Ask(c, op)
LaunchStep(t) == Claim(t) \/ ClaimFails(t) \/ Spawn(t) \/ Identify(t) \/ LaunchFails(t)
RequestStep(c) == DrainEnds(c) \/ StartResumes(c) \/ RestartResumes(c) \/ StopResumes(c)
ExitStep(p) == (\E code \in {0, 1} : Exited(p, code)) \/ ExitWritten(p) \/ ExitRestarts(p)
StopStep(r) == TerminateResumes(r) \/ Kills(r) \/ KillFails(r) \/ Terminated(r) \/ CloseTimesOut(r)

Next ==
  \/ \E c \in Clients : Request(c) \/ RequestStep(c)
  \/ \E t \in Threads : LaunchStep(t)
  \/ \E p \in Procs : Exit(p) \/ ExitStep(p)
  \/ \E r \in Runs : TimerFires(r) \/ StopStep(r)
  \/ ShutdownBegins \/ ShutdownRun \/ BrokerExits \/ Crash \/ Reboot \/ Recover

Spec == Init /\ [][Next]_vars

\* The event loop goes on, timers fire and every await is bounded by a deadline.
Fairness ==
  /\ \A c \in Clients : WF_vars(RequestStep(c))
  /\ \A t \in Threads : WF_vars(LaunchStep(t))
  /\ \A p \in Procs : WF_vars(ExitStep(p))
  /\ \A r \in Runs : WF_vars(TimerFires(r)) /\ WF_vars(StopStep(r))
  /\ WF_vars(ShutdownRun) /\ WF_vars(BrokerExits)

FairSpec == Spec /\ Fairness

-----------------------------------------------------------------------------
(* Properties *)

\* No process was lost to a launch that failed halfway or to two requests that
\* both launched the run they had drained.
Kept == ~raced /\ ~leaked

\* A name has at most one process, through restarts, replacements, shutdowns,
\* recoveries and whatever a dead broker left behind.
OneProcess == Kept => Cardinality(Living) <= 1

\* A stopped name stays down: no timer, exit handler, pending launch or recovery
\* brings it back after a stop was answered, until somebody asks for it.
StopHolds == Kept /\ ~wanted => Living = {}

\* What a completion says is over is over: callers waiting for an execution are
\* never told of an end that has not happened.
CompletionsTrue ==
  Kept => \A p \in Living : <<proc[p].run, proc[p].count>> \notin completions \cup saved

\* Every request is answered, by its result, by an error or by the broker's end.
Answered == \A c \in Clients : (task[c].pc # "idle") ~> (task[c].pc = "idle")

\* A run waiting to be restarted is launched again unless somebody stops it.
Relaunched ==
  (cur # 0 /\ runs[cur].state = "restarting" /\ ~runs[cur].stopping)
    ~> (cur = 0 \/ runs[cur].state # "restarting" \/ runs[cur].stopping)
=============================================================================
