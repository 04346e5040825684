-------------------------- MODULE Supervisor_proof --------------------------
(***************************************************************************)
(* Proofs about the process supervisor, for every number of clients,       *)
(* requests, runs, processes and crashes.                                  *)
(***************************************************************************)
EXTENDS Supervisor, FiniteSetTheorems, TLAPS

RunType  == [state : States, stopping : BOOLEAN, recovered : BOOLEAN, timer : BOOLEAN,
             count : Nat, ident : 0..MaxProcs,
             launching : Threads \cup {"none", "ok", "failed"},
             stop : {"none", "waiting", "killing", "closing", "ok", "failed"},
             victim : 0..MaxProcs, poisoned : BOOLEAN]
ProcType == [st : {"none", "live", "dead"}, run : 0..MaxRuns, count : Nat,
             exit : {"none", "event", "first", "second"}, again : BOOLEAN, watched : BOOLEAN]
TaskType == [op : {"none", "start", "stop", "restart", "launch"},
             pc : {"idle", "drain", "drained", "claim", "spawn", "identify"},
             run : 0..MaxRuns, proc : 0..MaxProcs]
MetaType == [run : 0..MaxRuns, state : States \cup {"none"}, ident : 0..MaxProcs,
             count : Nat, boot : {"this", "old"}]

\* TypeOK, by the types of its records.
Typed ==
  /\ broker \in {"down", "up", "closing", "leaving"}
  /\ cur \in 0..MaxRuns /\ made \in 0..MaxRuns
  /\ runs \in [Runs -> RunType] /\ proc \in [Procs -> ProcType] /\ task \in [Threads -> TaskType]
  /\ meta \in MetaType
  /\ completions \in SUBSET (Runs \X Nat) /\ saved \in SUBSET (Runs \X Nat)
  /\ requests \in 0..MaxRequests /\ crashes \in 0..MaxCrashes
  /\ raced \in BOOLEAN /\ leaked \in BOOLEAN /\ wanted \in BOOLEAN
  /\ contested \in SUBSET Clients

\* What names a run or a process names one.
Pointers ==
  /\ \A t \in Threads : /\ task[t].pc # "idle" => task[t].run \in Runs
                        /\ task[t].pc = "identify" => task[t].proc \in Procs
                        /\ task[t].pc \in {"claim", "spawn", "identify"} => task[t].op = "launch"
                        /\ task[t].pc \in {"drain", "drained"} => task[t].op \in {"start", "stop", "restart"}
                        /\ task[t].pc = "idle" => task[t].op = "none"
  /\ \A p \in Procs : proc[p].st = "live" \/ proc[p].exit # "none" => proc[p].run \in Runs

\* Nothing of a broker outlives it in memory.
Forgotten ==
  broker = "down" =>
    /\ cur = 0 /\ completions = {} /\ \A r \in Runs : runs[r] = NoRun
    /\ \A t \in Threads : task[t].pc = "idle"
    /\ \A p \in Procs : proc[p].exit = "none" /\ ~proc[p].watched

\* A process that lives, or whose end has not been dealt with.
Attended(p) == proc[p].st = "live" \/ proc[p].exit # "none"
Starting(t) == task[t].pc \in {"claim", "spawn"}

\* There is one such process, of the run that owns the name; one that ended is dead.
Single ==
  /\ \A p, q \in Procs : Attended(p) /\ Attended(q) => p = q
  /\ \A p \in Procs : /\ proc[p].exit # "none" => proc[p].st = "dead"
                      /\ Attended(p) /\ broker # "down" => proc[p].run = cur

\* One launch at a time, of the run that owns the name; nothing lives before it spawns.
Launches ==
  /\ \A t \in Launching : task[t].run = cur /\ runs[cur].launching = t
  /\ \A t \in Threads, r \in Runs : runs[r].launching = t => t \in Launching
  /\ \A t \in Threads : Starting(t) =>
       /\ \A p \in Procs : ~Attended(p)
       /\ runs[cur].state = "starting" /\ ~runs[cur].timer /\ runs[cur].stop \in {"none", "waiting"}
       /\ Key(cur) \notin completions \cup saved
  /\ \A t \in Threads : task[t].pc = "identify" => \A p \in Procs : Attended(p) => p = task[t].proc

\* The broker knows the process that lives: it is the one being identified, the
\* one on record, or what a recovered record that names none may have left.
Known ==
  \A p \in Living : broker # "down" =>
    /\ runs[cur].state \notin {"done", "restarting"} /\ runs[cur].count = proc[p].count
    /\ \/ \E t \in Threads : task[t].pc = "identify"
       \/ runs[cur].launching \notin Threads /\ runs[cur].ident = p
       \/ runs[cur].launching \notin Threads /\ runs[cur].ident = 0 /\ runs[cur].recovered
    /\ runs[cur].stop \notin {"ok", "closing"}
    /\ runs[cur].stop = "killing" => runs[cur].victim = p

\* A restart comes only after the end of the process, and not after a stop.
Restarts ==
  /\ \A r \in Runs : /\ runs[r].stop # "none" => runs[r].stopping
                     /\ runs[r].timer => ~runs[r].stopping /\ r = cur /\ \A p \in Procs : ~Attended(p)
                     /\ runs[r].stop \in {"killing", "closing"} => runs[r].launching \notin Threads
                     /\ r # cur => runs[r].stop \in {"none", "ok", "failed"} /\ runs[r].launching \notin Threads
  /\ broker # "down" /\ cur # 0 =>
       \/ ~runs[cur].timer /\ \A p \in Procs : proc[p].exit = "second" => runs[cur].stopping
       \/ runs[cur].state # "done" /\ Key(cur) \notin completions \cup saved

\* What is on disk tells of the process that lives.
Recorded ==
  /\ \A p \in Living : /\ meta.run = proc[p].run /\ meta.count = proc[p].count
                       /\ meta.state # "done" /\ meta.boot = "this" /\ meta.ident \in {0, p}
  /\ \A t \in Threads : task[t].pc = "spawn" =>
       meta.run = cur /\ meta.count = runs[cur].count /\ meta.state # "done" /\ meta.boot = "this" /\ meta.ident = 0

\* Completions are of executions up to the latest one.
Counted ==
  /\ cur <= made /\ meta.run <= made
  /\ \A e \in completions \cup saved : /\ e[1] <= made
                                       /\ e[1] = cur => e[2] <= runs[cur].count
  /\ \A e \in saved : e[1] = meta.run => e[2] <= meta.count
  /\ \A p \in Living : <<proc[p].run, proc[p].count>> \notin completions \cup saved

\* Nothing is there to bring the name back.
Quiet ==
  /\ \A p \in Procs : ~Attended(p)
  /\ Launching = {}
  /\ \A r \in Runs : ~runs[r].timer
  /\ \A c \in Clients : task[c].op \notin {"start", "restart"}

\* A stop nobody contests leaves nothing that could bring the name back.
Stops ==
  /\ ~wanted => Quiet
  /\ \A c \in Clients \ contested : task[c].op = "stop" =>
       /\ task[c].run = cur /\ runs[cur].stop # "none"
       /\ \A e \in Clients : task[e].op \notin {"start", "restart"}
       /\ task[c].pc = "drained" => Quiet

IInv ==
  /\ Typed /\ Pointers /\ Forgotten
  /\ Kept => Single /\ Launches /\ Known /\ Restarts /\ Recorded /\ Counted /\ Stops
-----------------------------------------------------------------------------
LEMMA TypedTypeOK == Typed <=> TypeOK
BY DEF Typed, TypeOK, RunType, ProcType, TaskType, MetaType
LEMMA Zero == /\ 0 \in 0..MaxProcs /\ 0 \in 0..MaxRuns /\ Runs \subseteq 0..MaxRuns /\ Procs \subseteq 0..MaxProcs
              /\ {MaxRuns, MaxProcs, MaxRequests, MaxCrashes} \subseteq Nat
BY SupervisorAssumption DEF Runs, Procs
LEMMA NoThread == Threads \cap {"none", "ok", "failed"} = {}
BY SupervisorAssumption DEF Threads
-----------------------------------------------------------------------------
(* What the operators on records of runs and tasks do. *)

LEMMA NoRunFields ==
  /\ NoRun \in RunType /\ NoRun.state = "done" /\ ~NoRun.stopping /\ ~NoRun.recovered /\ ~NoRun.timer
  /\ NoRun.count = 0 /\ NoRun.ident = 0 /\ NoRun.launching = "none" /\ NoRun.stop = "none" /\ NoRun.victim = 0
  /\ ~NoRun.poisoned
BY Zero DEF NoRun, RunType, States

LEMMA NoTaskFields ==
  NoTask \in TaskType /\ NoTask.op = "none" /\ NoTask.pc = "idle" /\ NoTask.run = 0 /\ NoTask.proc = 0
BY Zero DEF NoTask, TaskType

\* launch up to its first await.
LEMMA LaunchFields ==
  ASSUME broker = "up", NEW t \in Threads, NEW x \in RunType
  PROVE  LET new == Launch(t, x)
         IN  /\ new \in RunType /\ new.state = "starting" /\ ~new.stopping /\ ~new.recovered /\ new.stop = "none"
             /\ new.victim = 0 /\ new.launching = t
             /\ new.timer = x.timer /\ new.count = x.count /\ new.ident = x.ident /\ new.poisoned = x.poisoned
<1>1. Launch(t, x) = [x EXCEPT !.state = "starting", !.stopping = FALSE, !.recovered = FALSE,
                               !.stop = "none", !.victim = 0, !.launching = t]
  BY DEF Launch
<1>2. Launch(t, x) \in RunType
  BY <1>1, Zero DEF RunType, States
<1>3. x \in RunType => DOMAIN x = DOMAIN NoRun
  BY DEF RunType, NoRun
<1> QED
  BY <1>1, <1>2, <1>3 DEF RunType, NoRun

LEMMA LaunchTaskFields ==
  ASSUME broker = "up", NEW t \in Threads, NEW r \in Runs, task[t] \in TaskType
  PROVE  LET new == LaunchTask(t, r)
         IN  new \in TaskType /\ new.op = "launch" /\ new.pc = "claim" /\ new.run = r /\ new.proc = task[t].proc
<1>1. LaunchTask(t, r) = [task[t] EXCEPT !.op = "launch", !.pc = "claim", !.run = r]
  BY DEF LaunchTask
<1> QED
  BY <1>1, Zero DEF TaskType

\* stop up to its first await.
LEMMA CallStopFields ==
  ASSUME NEW x \in RunType
  PROVE  LET new == CallStop(x)
         IN  /\ new \in RunType /\ new.state = x.state /\ new.recovered = x.recovered /\ new.count = x.count
             /\ new.ident = x.ident /\ new.launching = x.launching /\ new.victim = x.victim
             /\ new.poisoned = x.poisoned
             /\ \/ new = x /\ x.stop # "none"
                \/ new.stopping /\ ~new.timer /\ x.stop = "none" /\ new.stop = "ok" /\ x.state = "done"
                \/ new.stopping /\ ~new.timer /\ x.stop = "none" /\ new.stop = "waiting" /\ x.state # "done"
<1>1. CASE x.stop # "none"
  BY <1>1 DEF CallStop
<1>2. CASE x.stop = "none" /\ x.state = "done"
  <2>1. CallStop(x) = [x EXCEPT !.stopping = TRUE, !.timer = FALSE, !.stop = "ok"]
    BY <1>2 DEF CallStop
  <2> QED
    BY <1>2, <2>1 DEF RunType
<1>3. CASE x.stop = "none" /\ x.state # "done"
  <2>1. CallStop(x) = [x EXCEPT !.stopping = TRUE, !.timer = FALSE, !.stop = "waiting"]
    BY <1>3 DEF CallStop
  <2> QED
    BY <1>3, <2>1 DEF RunType
<1> QED
  BY <1>1, <1>2, <1>3

\* The run is to be started again.
LEMMA AgainFields ==
  ASSUME NEW x \in RunType
  PROVE  LET new == [x EXCEPT !.state = "restarting", !.count = x.count + 1]
         IN  /\ new \in RunType /\ new.state = "restarting" /\ new.count = x.count + 1 /\ new.stopping = x.stopping
             /\ new.recovered = x.recovered /\ new.timer = x.timer /\ new.ident = x.ident
             /\ new.launching = x.launching /\ new.stop = x.stop /\ new.victim = x.victim
<1> DEFINE n == x.count + 1
<1>1. n \in Nat /\ n = x.count + 1
  BY DEF RunType
<1> HIDE DEF n
<1>2. LET new == [x EXCEPT !.state = "restarting", !.count = n]
      IN  /\ new \in RunType /\ new.state = "restarting" /\ new.count = n /\ new.stopping = x.stopping
          /\ new.recovered = x.recovered /\ new.timer = x.timer /\ new.ident = x.ident
          /\ new.launching = x.launching /\ new.stop = x.stop /\ new.victim = x.victim
  BY <1>1 DEF RunType, States
<1> QED
  BY <1>1, <1>2

-----------------------------------------------------------------------------
(* Steps of a request. *)

\* A name without a run has no process and no launch.
LEMMA StartFirstKeeps ==
  ASSUME IInv, NEW c \in Clients, StartFirst(c)
  PROVE  IInv'
<1>0. Typed /\ Pointers /\ Forgotten
  BY DEF IInv
<1> DEFINE r == made + 1
           rec == Launch(c, NoRun)
           job == LaunchTask(c, r)
<1>1. /\ broker = "up" /\ cur = 0 /\ made < MaxRuns /\ task[c].pc = "idle" /\ c \in Threads
      /\ task[c] \in TaskType /\ r \in Runs
  BY <1>0, Zero DEF StartFirst, Requested, Typed, Threads, Runs
<1>2. /\ rec \in RunType /\ rec.state = "starting" /\ ~rec.stopping /\ ~rec.timer
      /\ rec.stop = "none" /\ rec.launching = c /\ rec.count = 0
  BY <1>1, LaunchFields, NoRunFields
<1>3. /\ job \in TaskType /\ job.op = "launch" /\ job.pc = "claim" /\ job.run = r
  BY <1>1, LaunchTaskFields
<1>4. /\ runs' = [runs EXCEPT ![r] = rec] /\ task' = [task EXCEPT ![c] = job]
      /\ cur' = r /\ made' = r /\ wanted' /\ wanted' \in BOOLEAN /\ requests < MaxRequests /\ requests' = requests + 1
      /\ UNCHANGED <<broker, completions, meta, saved, proc, crashes, raced, leaked, contested>>
  BY DEF StartFirst, Requested, history, memory, disk
<1> HIDE DEF rec, job
<1>5. r = made + 1
  OBVIOUS
<1> HIDE DEF r
<1>6. Typed'
  BY <1>1, <1>2, <1>3, <1>4, <1>5, <1>0, Zero DEF Typed
<1>7. Pointers'
  BY <1>1, <1>2, <1>3, <1>4, <1>5, <1>0 DEF Pointers, Typed
<1>8. Forgotten'
  BY <1>1, <1>2, <1>3, <1>4, <1>5, <1>0 DEF Forgotten, Typed
<1>9. ASSUME Kept' PROVE Single' /\ Launches' /\ Known' /\ Restarts' /\ Recorded' /\ Counted' /\ Stops'
  <2>1. Kept /\ Single /\ Launches /\ Known /\ Restarts /\ Recorded /\ Counted /\ Stops
    BY <1>9, <1>1, <1>2, <1>3, <1>4, <1>5 DEF IInv, Kept
  <2>2. /\ \A p \in Procs : ~Attended(p)
        /\ Launching = {}
    BY <1>0, <1>1, <2>1, Zero DEF Pointers, Single, Launches, Attended, Launching, Runs
  <2>3. \A e \in completions \cup saved : e[1] \in Int /\ e[2] \in Int
    BY <1>0, Zero DEF Typed, Runs
  <2>4. \A d \in Clients \ contested : task[d].op # "stop"
    BY <1>0, <1>1, <2>1, Zero DEF Stops, Pointers, Runs, Threads
  <2>5. Single'
    BY <1>1, <1>2, <1>3, <1>4, <1>5, <1>0, <2>1, <2>2, <2>3, <2>4 DEF Single, Attended, Typed
  <2>6. Launches'
    BY <1>1, <1>2, <1>3, <1>4, <1>5, <1>0, <2>1, <2>2, <2>3, <2>4 DEF Launches, Counted, Launching,
       Starting, Attended, Key, Living, Typed
  <2>7. Known'
    BY <1>1, <1>2, <1>3, <1>4, <1>5, <1>0, <2>1, <2>2, <2>3, <2>4 DEF Known, Attended, Living, Typed
  <2>8. Restarts'
    BY <1>1, <1>2, <1>3, <1>4, <1>5, <1>0, <2>1, <2>2, <2>3, <2>4, Zero DEF Restarts, Runs, Attended, Key,
       Typed
  <2>9. Recorded'
    BY <1>1, <1>2, <1>3, <1>4, <1>5, <1>0, <2>1, <2>2, <2>3, <2>4 DEF Recorded, Attended, Launching,
       Living, Typed
  <2>10. Counted'
    BY <1>1, <1>2, <1>3, <1>4, <1>5, <1>0, <2>1, <2>2, <2>3, <2>4 DEF Counted, Attended, MetaType, RunType,
       Living, Typed
  <2>11. Stops'
    BY <1>1, <1>2, <1>3, <1>4, <1>5, <1>0, <2>1, <2>2, <2>3, <2>4, Zero DEF Stops, Pointers, Runs, Quiet,
       Attended, Launching, Typed
  <2> QED
    BY <2>5, <2>6, <2>7, <2>8, <2>9, <2>10, <2>11
<1> QED
  BY <1>6, <1>7, <1>8, <1>9 DEF IInv

\* A stop that meets a start, and a start that meets a stop, is contested.
LEMMA AskKeeps ==
  ASSUME IInv, NEW c \in Clients, NEW op \in {"start", "stop", "restart"}, Ask(c, op)
  PROVE  IInv'
<1>0. Typed /\ Pointers /\ Forgotten
  BY DEF IInv
<1> DEFINE rec == CallStop(runs[cur])
           job == [NoTask EXCEPT !.op = op, !.pc = "drain", !.run = cur]
<1>1. broker = "up" /\ cur \in Runs /\ task[c].pc = "idle" /\ runs[cur] \in RunType /\ c \in Threads
  BY <1>0, Zero DEF Ask, Requested, Typed, Runs, Threads
<1>2. /\ rec \in RunType /\ rec.state = runs[cur].state /\ rec.recovered = runs[cur].recovered
      /\ rec.count = runs[cur].count /\ rec.ident = runs[cur].ident /\ rec.launching = runs[cur].launching
      /\ rec.victim = runs[cur].victim
      /\ \/ rec = runs[cur] /\ runs[cur].stop # "none"
         \/ rec.stopping /\ ~rec.timer /\ runs[cur].stop = "none" /\ rec.stop = "ok" /\ runs[cur].state = "done"
         \/ rec.stopping /\ ~rec.timer /\ runs[cur].stop = "none" /\ rec.stop = "waiting" /\ runs[cur].state # "done"
  BY <1>1, CallStopFields
<1>3. job \in TaskType /\ job.op = op /\ job.pc = "drain" /\ job.run = cur
  BY <1>1, NoTaskFields, Zero DEF TaskType
<1>4. /\ runs' = [runs EXCEPT ![cur] = rec] /\ task' = [task EXCEPT ![c] = job]
      /\ wanted' = (wanted \/ op # "stop")
      /\ contested' = IF op # "stop" THEN {d \in Clients : task[d].op = "stop"}
                      ELSE (contested \ {c}) \cup {d \in {c} : \E e \in Clients : task[e].op \in {"start",
                         "restart"}}
      /\ requests < MaxRequests /\ requests' = requests + 1
      /\ UNCHANGED <<broker, cur, completions, meta, saved, proc, made, crashes, raced, leaked>>
  BY DEF Ask, Requested, history, memory, disk
<1> HIDE DEF rec, job
<1>5. Typed'
  BY <1>1, <1>2, <1>3, <1>4, <1>0, Zero DEF Typed
<1>6. Pointers'
  BY <1>1, <1>2, <1>3, <1>4, <1>0 DEF Pointers, Typed
<1>7. Forgotten'
  BY <1>1, <1>2, <1>3, <1>4, <1>0 DEF Forgotten, Typed
<1>8. ASSUME Kept' PROVE Single' /\ Launches' /\ Known' /\ Restarts' /\ Recorded' /\ Counted' /\ Stops'
  <2>1. Kept /\ Single /\ Launches /\ Known /\ Restarts /\ Recorded /\ Counted /\ Stops
    BY <1>8, <1>1, <1>2, <1>3, <1>4 DEF IInv, Kept
  <2>2. Single'
    BY <1>1, <1>2, <1>3, <1>4, <1>0, <2>1 DEF Single, Attended, Typed
  <2>3. Launches'
    BY <1>1, <1>2, <1>3, <1>4, <1>0, <2>1 DEF Launches, Launching, Starting, Attended, Key, Typed
  <2>4. Known'
    BY <1>1, <1>2, <1>3, <1>4, <1>0, <2>1 DEF Known, Living, Typed
  <2>5. Restarts'
    BY <1>1, <1>2, <1>3, <1>4, <1>0, <2>1 DEF Restarts, Attended, Key, Typed
  <2>6. Recorded'
    BY <1>1, <1>2, <1>3, <1>4, <1>0, <2>1 DEF Recorded, Living, Typed
  <2>7. Counted'
    BY <1>1, <1>2, <1>3, <1>4, <1>0, <2>1 DEF Counted, Living, Typed
  <2>8. Stops'
    <3>1. CASE op = "stop"
      BY <1>1, <1>2, <1>3, <1>4, <1>0, <2>1, <3>1 DEF Stops, Pointers, Restarts, Quiet, Attended,
         Launching, Typed
    <3>2. CASE op # "stop"
      BY <1>1, <1>2, <1>3, <1>4, <1>0, <2>1, <3>2 DEF Stops, Pointers, Threads, Typed
    <3> QED
      BY <3>1, <3>2 DEF Stops
  <2> QED
    BY <2>2, <2>3, <2>4, <2>5, <2>6, <2>7, <2>8
<1> QED
  BY <1>5, <1>6, <1>7, <1>8 DEF IInv

\* A drained run whose stop succeeded is quiet: this is what a stop answers.
LEMMA DrainEndsKeeps ==
  ASSUME IInv, NEW c \in Clients, DrainEnds(c)
  PROVE  IInv'
<1>0. Typed /\ Pointers /\ Forgotten
  BY DEF IInv
<1> DEFINE r == task[c].run
           job == IF DrainFails(r) THEN NoTask ELSE [task[c] EXCEPT !.pc = "drained"]
<1>1. /\ r \in Runs /\ task[c] \in TaskType /\ task[c].pc = "drain" /\ c \in Threads
      /\ task[c].op \in {"start", "stop", "restart"}
  BY <1>0 DEF DrainEnds, Pointers, Typed, Threads
<1>2. /\ job \in TaskType
      /\ \/ job.op = "none" /\ job.pc = "idle"
         \/ job.op = task[c].op /\ job.pc = "drained" /\ job.run = r /\ ~DrainFails(r)
  BY <1>1, NoTaskFields DEF TaskType
<1>3. /\ task' = [task EXCEPT ![c] = job]
      /\ UNCHANGED <<broker, cur, runs, completions, meta, saved, proc, made, requests, crashes, raced,
                     leaked, wanted, contested>>
  BY DEF DrainEnds, history, memory, disk
<1>4. Drained(r)
  BY DEF DrainEnds
<1>5. r = task[c].run
  OBVIOUS
<1> HIDE DEF job, r
<1>6. Typed'
  BY <1>1, <1>2, <1>3, <1>4, <1>5, <1>0, Zero DEF Typed
<1>7. Pointers'
  BY <1>1, <1>2, <1>3, <1>4, <1>5, <1>0 DEF Pointers, Typed
<1>8. Forgotten'
  BY <1>1, <1>2, <1>3, <1>4, <1>5, <1>0 DEF Forgotten, Typed
<1>9. ASSUME Kept' PROVE Single' /\ Launches' /\ Known' /\ Restarts' /\ Recorded' /\ Counted' /\ Stops'
  <2>1. Kept /\ Single /\ Launches /\ Known /\ Restarts /\ Recorded /\ Counted /\ Stops
    BY <1>9, <1>1, <1>2, <1>3, <1>4, <1>5 DEF IInv, Kept
  <2>2. Single'
    BY <1>1, <1>2, <1>3, <1>4, <1>5, <1>0, <2>1 DEF Single, Attended, Typed
  <2>3. Launches'
    BY <1>1, <1>2, <1>3, <1>4, <1>5, <1>0, <2>1 DEF Launches, Launching, Starting, Attended, Key, Typed
  <2>4. Known'
    BY <1>1, <1>2, <1>3, <1>4, <1>5, <1>0, <2>1 DEF Known, Living, Typed
  <2>5. Restarts'
    BY <1>1, <1>2, <1>3, <1>4, <1>5, <1>0, <2>1 DEF Restarts, Attended, Key, Typed
  <2>6. Recorded'
    BY <1>1, <1>2, <1>3, <1>4, <1>5, <1>0, <2>1 DEF Recorded, Living, Typed
  <2>7. Counted'
    BY <1>1, <1>2, <1>3, <1>4, <1>5, <1>0, <2>1 DEF Counted, Living, Typed
  <2>8. Stops'
    <3>1. task[c].op = "stop" /\ c \notin contested =>
            /\ r = cur /\ runs[cur].stop # "none"
            /\ \A e \in Clients : task[e].op \notin {"start", "restart"}
      BY <2>1, <1>5, <1>1 DEF Stops
    <3>2. r = cur /\ ~DrainFails(r) /\ runs[cur].stop # "none" => runs[cur].stop = "ok"
      BY <1>0, <1>1, <1>4 DEF Typed, RunType, Drained, DrainFails
    <3>3. broker # "down"
      BY <1>0, <1>1 DEF Forgotten
    <3>4. r = cur /\ ~DrainFails(r) /\ runs[cur].stop # "none" =>
            /\ Launching = {} /\ (\A p \in Procs : ~Attended(p))
            /\ (\A x \in Runs : ~runs[x].timer)
      BY <1>0, <1>1, <1>4, <2>1, <3>2, <3>3 DEF Launches, Known, Single, Restarts, Drained, Attended,
         Living, Launching
    <3>5. Stops'
      BY <1>0, <1>1, <1>2, <1>3, <2>1, <3>1, <3>4 DEF Stops, Quiet, Attended, Launching, Typed
    <3> QED
      BY <3>1, <3>2, <3>3, <3>4, <3>5 DEF Stops
  <2> QED
    BY <2>2, <2>3, <2>4, <2>5, <2>6, <2>7, <2>8
<1> QED
  BY <1>6, <1>7, <1>8, <1>9 DEF IInv

LEMMA StartGivesUpKeeps ==
  ASSUME IInv, NEW c \in Clients, StartResumes(c), ~(broker = "up" /\ cur = task[c].run /\ made < MaxRuns)
  PROVE  IInv'
<1>0. Typed /\ Pointers /\ Forgotten
  BY DEF IInv
<1> DEFINE job == NoTask
<1>1. /\ job \in TaskType /\ job.op = "none" /\ job.pc = "idle"
  BY NoTaskFields
<1>2. c \in Threads /\ task[c].pc = "drained" /\ task[c].op = "start"
  BY DEF StartResumes, Threads
<1>3. /\ task' = [task EXCEPT ![c] = job]
      /\ UNCHANGED <<broker, cur, runs, completions, meta, saved, proc, made, requests, crashes, raced,
                     leaked, wanted, contested>>
  BY DEF StartResumes, history, memory, disk
<1> HIDE DEF job
<1>4. Typed'
  BY <1>1, <1>2, <1>3, <1>0, Zero DEF Typed
<1>5. Pointers'
  BY <1>1, <1>2, <1>3, <1>0 DEF Pointers, Typed
<1>6. Forgotten'
  BY <1>1, <1>2, <1>3, <1>0 DEF Forgotten, Typed
<1>7. ASSUME Kept' PROVE Single' /\ Launches' /\ Known' /\ Restarts' /\ Recorded' /\ Counted' /\ Stops'
  <2>1. Kept /\ Single /\ Launches /\ Known /\ Restarts /\ Recorded /\ Counted /\ Stops
    BY <1>7, <1>1, <1>2, <1>3 DEF IInv, Kept
  <2>2. Single'
    BY <1>1, <1>2, <1>3, <1>0, <2>1 DEF Single, Attended, Typed
  <2>3. Launches'
    BY <1>1, <1>2, <1>3, <1>0, <2>1 DEF Launches, Launching, Starting, Attended, Key, Typed
  <2>4. Known'
    BY <1>1, <1>2, <1>3, <1>0, <2>1 DEF Known, Living, Typed
  <2>5. Restarts'
    BY <1>1, <1>2, <1>3, <1>0, <2>1 DEF Restarts, Attended, Key, Typed
  <2>6. Recorded'
    BY <1>1, <1>2, <1>3, <1>0, <2>1 DEF Recorded, Living, Typed
  <2>7. Counted'
    BY <1>1, <1>2, <1>3, <1>0, <2>1 DEF Counted, Living, Typed
  <2>8. Stops'
    BY <1>1, <1>2, <1>3, <1>0, <2>1 DEF Stops, Quiet, Attended, Launching, Typed
  <2> QED
    BY <2>2, <2>3, <2>4, <2>5, <2>6, <2>7, <2>8
<1> QED
  BY <1>4, <1>5, <1>6, <1>7 DEF IInv

\* A drained run that nobody overtook has no process left.
LEMMA StartGoesOnKeeps ==
  ASSUME IInv, NEW c \in Clients, StartResumes(c), broker = "up", cur = task[c].run, made < MaxRuns
  PROVE  IInv'
<1>0. Typed /\ Pointers /\ Forgotten
  BY DEF IInv
<1> DEFINE r == made + 1
           rec == Launch(c, NoRun)
           job == LaunchTask(c, r)
<1>1. /\ cur \in Runs /\ task[c].pc = "drained" /\ task[c].op = "start" /\ task[c].run = cur /\ c \in Threads
      /\ task[c] \in TaskType /\ r \in Runs /\ runs[cur] \in RunType /\ made # MaxRuns
  BY <1>0, Zero DEF StartResumes, Pointers, Typed, Threads, Runs
<1>2. /\ rec \in RunType /\ rec.state = "starting" /\ ~rec.stopping /\ ~rec.timer
      /\ rec.stop = "none" /\ rec.launching = c /\ rec.count = 0
  BY <1>1, LaunchFields, NoRunFields
<1>3. /\ job \in TaskType /\ job.op = "launch" /\ job.pc = "claim" /\ job.run = r
  BY <1>1, LaunchTaskFields
<1>4. /\ runs' = [runs EXCEPT ![r] = rec] /\ task' = [task EXCEPT ![c] = job]
      /\ cur' = r /\ made' = r /\ raced' = (raced \/ Overtaken(c))
      /\ UNCHANGED <<broker, completions, meta, saved, proc, requests, crashes, leaked, wanted, contested>>
  BY <1>1, Zenon DEF StartResumes, history, memory, disk
<1>5. raced' \in BOOLEAN
  BY <1>4
<1> HIDE DEF rec, job
<1>6. r = made + 1
  OBVIOUS
<1> HIDE DEF r
<1>7. Typed'
  BY <1>1, <1>2, <1>3, <1>4, <1>5, <1>6, <1>0, Zero DEF Typed
<1>8. Pointers'
  BY <1>1, <1>2, <1>3, <1>4, <1>5, <1>6, <1>0 DEF Pointers, Typed
<1>9. Forgotten'
  BY <1>1, <1>2, <1>3, <1>4, <1>5, <1>6, <1>0 DEF Forgotten, Typed
<1>10. ASSUME Kept' PROVE Single' /\ Launches' /\ Known' /\ Restarts' /\ Recorded' /\ Counted' /\ Stops'
  <2>1. Kept /\ Single /\ Launches /\ Known /\ Restarts /\ Recorded /\ Counted /\ Stops
    BY <1>10, <1>1, <1>2, <1>3, <1>4, <1>5, <1>6 DEF IInv, Kept
  <2>2. /\ Drained(cur) /\ ~DrainFails(cur) /\ ~runs[cur].timer
        /\ runs[cur].state \in {"done", "restarting"}
    BY <1>1, <1>4, <1>10 DEF Kept, Overtaken
  <2>3. /\ \A p \in Procs : ~Attended(p)
        /\ Launching = {}
    BY <1>0, <1>1, <2>1, <2>2 DEF Drained, Pointers, Typed, Single, Launches, Known, Living, Attended,
       Launching
  <2>4. \A e \in completions \cup saved : e[1] \in Int /\ e[2] \in Int
    BY <1>0, Zero DEF Typed, Runs
  <2>5. Single'
    BY <1>1, <1>2, <1>3, <1>4, <1>5, <1>6, <1>0, <2>1, <2>2, <2>3, <2>4 DEF Single, Attended, Typed
  <2>6. Launches'
    BY <1>1, <1>2, <1>3, <1>4, <1>5, <1>6, <1>0, <2>1, <2>2, <2>3, <2>4 DEF Launches, Counted, Launching,
       Starting, Attended, Key, Living, Typed
  <2>7. Known'
    BY <1>1, <1>2, <1>3, <1>4, <1>5, <1>6, <1>0, <2>1, <2>2, <2>3, <2>4 DEF Known, Attended, Living, Typed
  <2>8. Restarts'
    BY <1>1, <1>2, <1>3, <1>4, <1>5, <1>6, <1>0, <2>1, <2>2, <2>3, <2>4 DEF Restarts, Drained, Attended,
       Key, Typed
  <2>9. Recorded'
    BY <1>1, <1>2, <1>3, <1>4, <1>5, <1>6, <1>0, <2>1, <2>2, <2>3, <2>4 DEF Recorded, Attended, Launching,
       Living, Typed
  <2>10. Counted'
    BY <1>1, <1>2, <1>3, <1>4, <1>5, <1>6, <1>0, <2>1, <2>2, <2>3, <2>4 DEF Counted, Attended, MetaType,
       RunType, Living, Typed
  <2>11. Stops'
    BY <1>1, <1>2, <1>3, <1>4, <1>5, <1>6, <1>0, <2>1, <2>2, <2>3, <2>4 DEF Stops, Quiet, Attended,
       Launching, Typed
  <2> QED
    BY <2>5, <2>6, <2>7, <2>8, <2>9, <2>10, <2>11
<1> QED
  BY <1>7, <1>8, <1>9, <1>10 DEF IInv

\* A broker that closes counts the restart and launches nothing.
LEMMA RestartGivesUpKeeps ==
  ASSUME IInv, NEW c \in Clients, RestartResumes(c), broker # "up"
  PROVE  IInv'
<1>0. Typed /\ Pointers /\ Forgotten
  BY DEF IInv
<1> DEFINE r == task[c].run
           rec == [runs[r] EXCEPT !.count = @ + 1]
           job == NoTask
<1>1. /\ r \in Runs /\ runs[r] \in RunType /\ c \in Threads /\ task[c].pc = "drained" /\ task[c].op = "restart"
      /\ broker # "down"
  BY <1>0 DEF RestartResumes, Pointers, Forgotten, Typed, Threads
<1>2. /\ rec \in RunType /\ rec.state = runs[r].state /\ rec.stopping = runs[r].stopping
      /\ rec.recovered = runs[r].recovered /\ rec.timer = runs[r].timer
      /\ rec.count = runs[r].count + 1 /\ rec.ident = runs[r].ident
      /\ rec.launching = runs[r].launching /\ rec.stop = runs[r].stop
      /\ rec.victim = runs[r].victim /\ rec.poisoned = runs[r].poisoned
  BY <1>1 DEF RunType
<1>3. /\ job \in TaskType /\ job.op = "none" /\ job.pc = "idle"
  BY NoTaskFields
<1>4. /\ runs' = [runs EXCEPT ![r] = rec] /\ task' = [task EXCEPT ![c] = job]
      /\ raced' = (raced \/ Overtaken(c))
      /\ UNCHANGED <<broker, cur, completions, meta, saved, proc, made, requests, crashes, leaked, wanted,
                     contested>>
  BY <1>1 DEF RestartResumes, Launch, LaunchTask, history, memory, disk
<1>5. raced' \in BOOLEAN
  BY <1>4
<1> HIDE DEF rec, job
<1>6. r = task[c].run
  OBVIOUS
<1> HIDE DEF r
<1>7. Typed'
  BY <1>1, <1>2, <1>3, <1>4, <1>5, <1>6, <1>0, Zero DEF Typed
<1>8. Pointers'
  BY <1>1, <1>2, <1>3, <1>4, <1>5, <1>6, <1>0 DEF Pointers, Typed
<1>9. Forgotten'
  BY <1>1, <1>2, <1>3, <1>4, <1>5, <1>6, <1>0 DEF Forgotten, Typed
<1>10. ASSUME Kept' PROVE Single' /\ Launches' /\ Known' /\ Restarts' /\ Recorded' /\ Counted' /\ Stops'
  <2>1. Kept /\ Single /\ Launches /\ Known /\ Restarts /\ Recorded /\ Counted /\ Stops
    BY <1>10, <1>1, <1>2, <1>3, <1>4, <1>5, <1>6 DEF IInv, Kept
  <2>2. /\ cur = r /\ Drained(r) /\ ~DrainFails(r) /\ ~runs[r].timer
        /\ runs[r].state \in {"done", "restarting"}
    BY <1>4, <1>6, <1>10 DEF Kept, Overtaken
  <2>3. /\ \A p \in Procs : ~Attended(p)
        /\ Launching = {}
    BY <1>0, <1>1, <2>1, <2>2 DEF Drained, Pointers, Typed, Single, Launches, Known, Living, Attended,
       Launching
  <2>4. \A e \in completions \cup saved : e[1] \in Int /\ e[2] \in Int
    BY <1>0, Zero DEF Typed, Runs
  <2>5. Single'
    BY <1>1, <1>2, <1>3, <1>4, <1>5, <1>6, <1>0, <2>1, <2>2, <2>3, <2>4 DEF Single, Attended, Typed
  <2>6. Launches'
    BY <1>1, <1>2, <1>3, <1>4, <1>5, <1>6, <1>0, <2>1, <2>2, <2>3, <2>4, SMTT(30)
       DEF Launches, Attended, Launching, Starting, Key, Typed
  <2>7. Known'
    BY <1>1, <1>2, <1>3, <1>4, <1>5, <1>6, <1>0, <2>1, <2>2, <2>3, <2>4 DEF Known, Attended, Living, Typed
  <2>8. Restarts'
    BY <1>1, <1>2, <1>3, <1>4, <1>5, <1>6, <1>0, <2>1, <2>2, <2>3, <2>4 DEF Restarts, Attended, Key, Typed
  <2>9. Recorded'
    BY <1>1, <1>2, <1>3, <1>4, <1>5, <1>6, <1>0, <2>1, <2>2, <2>3, <2>4 DEF Recorded, Attended, Launching,
       Living, Typed
  <2>10. Counted'
    BY <1>1, <1>2, <1>3, <1>4, <1>5, <1>6, <1>0, <2>1, <2>2, <2>3, <2>4 DEF Counted, Attended, MetaType,
       RunType, Living, Typed
  <2>11. Stops'
    BY <1>1, <1>2, <1>3, <1>4, <1>5, <1>6, <1>0, <2>1, <2>2, <2>3, <2>4 DEF Stops, Quiet, Attended,
       Launching, Typed
  <2> QED
    BY <2>5, <2>6, <2>7, <2>8, <2>9, <2>10, <2>11
<1> QED
  BY <1>7, <1>8, <1>9, <1>10 DEF IInv

\* The next execution of a drained run has a count no completion has.
LEMMA RestartGoesOnKeeps ==
  ASSUME IInv, NEW c \in Clients, RestartResumes(c), broker = "up"
  PROVE  IInv'
<1>0. Typed /\ Pointers /\ Forgotten
  BY DEF IInv
<1> DEFINE r == task[c].run
           next == [runs[r] EXCEPT !.count = @ + 1]
           rec == Launch(c, next)
           job == LaunchTask(c, r)
<1>1. /\ r \in Runs /\ runs[r] \in RunType /\ c \in Threads /\ task[c].pc = "drained" /\ task[c].op = "restart"
      /\ task[c] \in TaskType
  BY <1>0 DEF RestartResumes, Pointers, Typed, Threads
<1>2. next \in RunType /\ next.count = runs[r].count + 1 /\ next.timer = runs[r].timer
  BY <1>1 DEF RunType
<1> HIDE DEF next
<1>3. /\ rec \in RunType /\ rec.state = "starting" /\ ~rec.stopping /\ rec.timer = runs[r].timer
      /\ rec.stop = "none" /\ rec.launching = c /\ rec.count = runs[r].count + 1
  BY <1>1, <1>2, LaunchFields
<1>4. /\ job \in TaskType /\ job.op = "launch" /\ job.pc = "claim" /\ job.run = r
  BY <1>1, LaunchTaskFields
<1>5. /\ runs' = [runs EXCEPT ![r] = rec] /\ task' = [task EXCEPT ![c] = job]
      /\ raced' = (raced \/ Overtaken(c))
      /\ UNCHANGED <<broker, cur, completions, meta, saved, proc, made, requests, crashes, leaked, wanted,
                     contested>>
  BY <1>1 DEF RestartResumes, next, history, memory, disk
<1>6. raced' \in BOOLEAN
  BY <1>5
<1> HIDE DEF rec, job
<1>7. r = task[c].run
  OBVIOUS
<1> HIDE DEF r
<1>8. Typed'
  BY <1>1, <1>2, <1>3, <1>4, <1>5, <1>6, <1>7, <1>0, Zero DEF Typed
<1>9. Pointers'
  BY <1>1, <1>2, <1>3, <1>4, <1>5, <1>6, <1>7, <1>0 DEF Pointers, Typed
<1>10. Forgotten'
  BY <1>1, <1>2, <1>3, <1>4, <1>5, <1>6, <1>7, <1>0 DEF Forgotten, Typed
<1>11. ASSUME Kept' PROVE Single' /\ Launches' /\ Known' /\ Restarts' /\ Recorded' /\ Counted' /\ Stops'
  <2>1. Kept /\ Single /\ Launches /\ Known /\ Restarts /\ Recorded /\ Counted /\ Stops
    BY <1>11, <1>1, <1>2, <1>3, <1>4, <1>5, <1>6, <1>7 DEF IInv, Kept
  <2>2. /\ cur = r /\ Drained(r) /\ ~DrainFails(r) /\ ~runs[r].timer
        /\ runs[r].state \in {"done", "restarting"}
    BY <1>5, <1>7, <1>11 DEF Kept, Overtaken
  <2>3. /\ \A p \in Procs : ~Attended(p)
        /\ Launching = {}
    BY <1>0, <1>1, <2>1, <2>2 DEF Drained, Pointers, Typed, Single, Launches, Known, Living, Attended,
       Launching
  <2>4. \A e \in completions \cup saved : e[1] \in Int /\ e[2] \in Int
    BY <1>0, Zero DEF Typed, Runs
  <2>5. Single'
    BY <1>1, <1>2, <1>3, <1>4, <1>5, <1>6, <1>7, <1>0, <2>1, <2>2, <2>3, <2>4 DEF Single, Attended, Typed
  <2>6. Launches'
    BY <1>1, <1>2, <1>3, <1>4, <1>5, <1>6, <1>7, <1>0, <2>1, <2>2, <2>3, <2>4 DEF Launches, Counted,
       Attended, RunType, Launching, Starting, Key, Living, Typed
  <2>7. Known'
    BY <1>1, <1>2, <1>3, <1>4, <1>5, <1>6, <1>7, <1>0, <2>1, <2>2, <2>3, <2>4 DEF Known, Attended, Living,
       Typed
  <2>8. Restarts'
    BY <1>1, <1>2, <1>3, <1>4, <1>5, <1>6, <1>7, <1>0, <2>1, <2>2, <2>3, <2>4 DEF Restarts, Attended, Key,
       Typed
  <2>9. Recorded'
    BY <1>1, <1>2, <1>3, <1>4, <1>5, <1>6, <1>7, <1>0, <2>1, <2>2, <2>3, <2>4 DEF Recorded, Attended,
       Launching, Living, Typed
  <2>10. Counted'
    BY <1>1, <1>2, <1>3, <1>4, <1>5, <1>6, <1>7, <1>0, <2>1, <2>2, <2>3, <2>4 DEF Counted, Attended,
       MetaType, RunType, Living, Typed
  <2>11. Stops'
    BY <1>1, <1>2, <1>3, <1>4, <1>5, <1>6, <1>7, <1>0, <2>1, <2>2, <2>3, <2>4 DEF Stops, Quiet, Attended,
       Launching, Typed
  <2> QED
    BY <2>5, <2>6, <2>7, <2>8, <2>9, <2>10, <2>11
<1> QED
  BY <1>8, <1>9, <1>10, <1>11 DEF IInv

LEMMA StopResumesKeeps ==
  ASSUME IInv, NEW c \in Clients, StopResumes(c)
  PROVE  IInv'
<1>0. Typed /\ Pointers /\ Forgotten
  BY DEF IInv
<1> DEFINE job == NoTask
<1>1. c \in Threads /\ task[c].op = "stop" /\ task[c].pc = "drained"
  BY DEF Threads, StopResumes
<1>2. /\ job \in TaskType /\ job.op = "none" /\ job.pc = "idle"
  BY NoTaskFields
<1>3. /\ task' = [task EXCEPT ![c] = job]
      /\ wanted' = (wanted /\ c \in contested) /\ wanted' \in BOOLEAN /\ contested' = contested \ {c}
      /\ UNCHANGED <<broker, cur, runs, completions, meta, saved, proc, made, requests, crashes, raced,
                     leaked>>
  BY DEF StopResumes, history, memory, disk
<1> HIDE DEF job
<1>4. Typed'
  BY <1>1, <1>2, <1>3, <1>0, Zero DEF Typed
<1>5. Pointers'
  BY <1>1, <1>2, <1>3, <1>0 DEF Pointers, Typed
<1>6. Forgotten'
  BY <1>1, <1>2, <1>3, <1>0 DEF Forgotten, Typed
<1>7. ASSUME Kept' PROVE Single' /\ Launches' /\ Known' /\ Restarts' /\ Recorded' /\ Counted' /\ Stops'
  <2>1. Kept /\ Single /\ Launches /\ Known /\ Restarts /\ Recorded /\ Counted /\ Stops
    BY <1>7, <1>1, <1>2, <1>3 DEF IInv, Kept
  <2>2. Single'
    BY <1>1, <1>2, <1>3, <1>0, <2>1 DEF Single, Attended, Typed
  <2>3. Launches'
    BY <1>1, <1>2, <1>3, <1>0, <2>1 DEF Launches, Launching, Starting, Attended, Key, Typed
  <2>4. Known'
    BY <1>1, <1>2, <1>3, <1>0, <2>1 DEF Known, Living, Typed
  <2>5. Restarts'
    BY <1>1, <1>2, <1>3, <1>0, <2>1 DEF Restarts, Attended, Key, Typed
  <2>6. Recorded'
    BY <1>1, <1>2, <1>3, <1>0, <2>1 DEF Recorded, Living, Typed
  <2>7. Counted'
    BY <1>1, <1>2, <1>3, <1>0, <2>1 DEF Counted, Living, Typed
  <2>8. Stops'
    BY <1>1, <1>2, <1>3, <1>0, <2>1 DEF Stops, Quiet, Attended, Launching, Typed
  <2> QED
    BY <2>2, <2>3, <2>4, <2>5, <2>6, <2>7, <2>8
<1> QED
  BY <1>4, <1>5, <1>6, <1>7 DEF IInv

-----------------------------------------------------------------------------
(* Steps of a launch. *)

\* What a launch writes first says that a process may be there.
LEMMA ClaimKeeps ==
  ASSUME IInv, NEW t \in Threads, Claim(t)
  PROVE  IInv'
<1>0. Typed /\ Pointers /\ Forgotten
  BY DEF IInv
<1> DEFINE r == task[t].run
           rec == [runs[r] EXCEPT !.ident = 0]
           job == [task[t] EXCEPT !.pc = "spawn"]
<1>1. r \in Runs /\ task[t] \in TaskType /\ runs[r] \in RunType /\ task[t].pc = "claim"
  BY <1>0 DEF Claim, Pointers, Typed
<1>2. /\ rec \in RunType /\ rec.state = runs[r].state /\ rec.stopping = runs[r].stopping
      /\ rec.recovered = runs[r].recovered /\ rec.timer = runs[r].timer
      /\ rec.count = runs[r].count /\ rec.ident = 0 /\ rec.launching = runs[r].launching
      /\ rec.stop = runs[r].stop /\ rec.victim = runs[r].victim /\ rec.poisoned = runs[r].poisoned
  BY <1>1, Zero DEF RunType
<1>3. /\ job \in TaskType /\ job.op = task[t].op /\ job.pc = "spawn" /\ job.run = r
      /\ job.proc = task[t].proc
  BY <1>1 DEF TaskType
<1>4. /\ runs' = [runs EXCEPT ![r] = rec] /\ task' = [task EXCEPT ![t] = job]
      /\ meta' = [run |-> r, state |-> rec.state, ident |-> rec.ident, count |-> rec.count, boot |-> "this"]
      /\ saved' = IF rec.state = "done" THEN saved \cup {<<r, rec.count>>} ELSE saved
      /\ UNCHANGED <<broker, cur, completions, proc, made, requests, crashes, raced, leaked, wanted,
                     contested>>
  BY DEF Claim, Write, history
<1> HIDE DEF rec, job
<1>5. r = task[t].run
  OBVIOUS
<1> HIDE DEF r
<1>6. Typed'
  BY <1>1, <1>2, <1>3, <1>4, <1>5, <1>0, Zero DEF MetaType, RunType, Typed
<1>7. Pointers'
  BY <1>1, <1>2, <1>3, <1>4, <1>5, <1>0 DEF Pointers, Typed
<1>8. Forgotten'
  BY <1>1, <1>2, <1>3, <1>4, <1>5, <1>0 DEF Forgotten, Typed
<1>9. ASSUME Kept' PROVE Single' /\ Launches' /\ Known' /\ Restarts' /\ Recorded' /\ Counted' /\ Stops'
  <2>1. Kept /\ Single /\ Launches /\ Known /\ Restarts /\ Recorded /\ Counted /\ Stops
    BY <1>9, <1>1, <1>2, <1>3, <1>4, <1>5 DEF IInv, Kept
  <2>2. Single'
    BY <1>1, <1>2, <1>3, <1>4, <1>5, <1>0, <2>1 DEF Single, Attended, Typed
  <2>3. Launches'
    BY <1>1, <1>2, <1>3, <1>4, <1>5, <1>0, <2>1 DEF Launches, Launching, Starting, Attended, Key, Typed
  <2>4. Known'
    BY <1>1, <1>2, <1>3, <1>4, <1>5, <1>0, <2>1 DEF Known, Launches, Living, Launching, Starting, Attended,
       Key, Typed
  <2>5. Restarts'
    BY <1>1, <1>2, <1>3, <1>4, <1>5, <1>0, <2>1 DEF Restarts, Attended, Key, Typed
  <2>6. Recorded'
    BY <1>1, <1>2, <1>3, <1>4, <1>5, <1>0, <2>1 DEF Recorded, Launches, Living, Launching, Starting,
       Attended, Key, Typed
  <2>7. Counted'
    BY <1>1, <1>2, <1>3, <1>4, <1>5, <1>0, <2>1 DEF Counted, Launches, Living, Launching, Starting,
       Attended, Key, Typed
  <2>8. Stops'
    BY <1>1, <1>2, <1>3, <1>4, <1>5, <1>0, <2>1 DEF Stops, Quiet, Attended, Launching, Typed
  <2> QED
    BY <2>2, <2>3, <2>4, <2>5, <2>6, <2>7, <2>8
<1> QED
  BY <1>6, <1>7, <1>8, <1>9 DEF IInv

\* The process is the only one, and is being identified.
LEMMA SpawnKeeps ==
  ASSUME IInv, NEW t \in Threads, Spawn(t)
  PROVE  IInv'
<1>0. Typed /\ Pointers /\ Forgotten
  BY DEF IInv
<1> DEFINE r == task[t].run
<1>1. /\ r \in Runs /\ task[t] \in TaskType /\ runs[r] \in RunType /\ task[t].pc = "spawn"
      /\ task[t].op = "launch"
  BY <1>0 DEF Spawn, Pointers, Typed
<1>2. PICK p \in Procs :
        /\ proc[p].st = "none"
        /\ proc' = [proc EXCEPT ![p] = [st |-> "live", run |-> r, count |-> runs[r].count,
                                        exit |-> "none", again |-> FALSE, watched |-> TRUE]]
        /\ task' = [task EXCEPT ![t].pc = "identify", ![t].proc = p]
  BY DEF Spawn
<1>3. task' = [task EXCEPT ![t] = [task[t] EXCEPT !.pc = "identify", !.proc = p]]
  BY <1>0, <1>2, Zenon DEF Typed
<1> DEFINE job == [task[t] EXCEPT !.pc = "identify", !.proc = p]
           new == [st |-> "live", run |-> r, count |-> runs[r].count,
                   exit |-> "none", again |-> FALSE, watched |-> TRUE]
<1>4. /\ job \in TaskType /\ job.op = "launch" /\ job.pc = "identify" /\ job.run = r
      /\ job.proc = p
  BY <1>1, Zero DEF TaskType
<1>5. new \in ProcType /\ new.st = "live" /\ new.run = r /\ new.count = runs[r].count /\ new.exit = "none"
  BY <1>1, Zero DEF ProcType, RunType
<1>6. /\ proc' = [proc EXCEPT ![p] = new] /\ task' = [task EXCEPT ![t] = job] /\ proc[p].st = "none"
      /\ UNCHANGED <<broker, cur, runs, completions, meta, saved, made, requests, crashes, raced, leaked,
                     wanted, contested>>
  BY <1>2, <1>3 DEF Spawn, history, memory, disk
<1> HIDE DEF job, new
<1>7. r = task[t].run
  OBVIOUS
<1> HIDE DEF r
<1>8. Typed'
  BY <1>1, <1>4, <1>5, <1>6, <1>7, <1>0, Zero DEF Typed
<1>9. Pointers'
  BY <1>1, <1>4, <1>5, <1>6, <1>7, <1>0 DEF Pointers, Typed
<1>10. Forgotten'
  BY <1>1, <1>4, <1>5, <1>6, <1>7, <1>0 DEF Forgotten, Typed
<1>11. ASSUME Kept' PROVE Single' /\ Launches' /\ Known' /\ Restarts' /\ Recorded' /\ Counted' /\ Stops'
  <2>1. Kept /\ Single /\ Launches /\ Known /\ Restarts /\ Recorded /\ Counted /\ Stops
    BY <1>11, <1>1, <1>4, <1>5, <1>6, <1>7 DEF IInv, Kept
  <2>2. /\ r = cur /\ Launching = {t} /\ runs[cur].launching = t
        /\ \A q \in Procs : ~Attended(q)
        /\ runs[cur].state = "starting" /\ ~runs[cur].timer /\ runs[cur].stop \in {"none", "waiting"}
        /\ <<r, runs[r].count>> \notin completions \cup saved
    BY <1>0, <1>1, <1>7, <2>1 DEF Pointers, Launches, Launching, Starting, Key
  <2>3. Single'
    BY <1>1, <1>4, <1>5, <1>6, <1>7, <1>0, <2>1, <2>2 DEF Single, Attended, Typed
  <2>4. Launches'
    BY <1>1, <1>4, <1>5, <1>6, <1>7, <1>0, <2>1, <2>2 DEF Launches, Launching, Starting, Attended, Key, Typed
  <2>5. Known'
    BY <1>1, <1>4, <1>5, <1>6, <1>7, <1>0, <2>1, <2>2 DEF Known, Attended, Launches, Living, Launching,
       Starting, Key, Typed
  <2>6. Restarts'
    BY <1>1, <1>4, <1>5, <1>6, <1>7, <1>0, <2>1, <2>2 DEF Restarts, Attended, Key, Typed
  <2>7. Recorded'
    BY <1>1, <1>4, <1>5, <1>6, <1>7, <1>0, <2>1, <2>2 DEF Recorded, Attended, Living, Typed
  <2>8. Counted'
    BY <1>1, <1>4, <1>5, <1>6, <1>7, <1>0, <2>1, <2>2 DEF Counted, Attended, Living, Typed
  <2>9. Stops'
    BY <1>1, <1>4, <1>5, <1>6, <1>7, <1>0, <2>1, <2>2 DEF Stops, Quiet, Attended, Launching, Typed
  <2> QED
    BY <2>3, <2>4, <2>5, <2>6, <2>7, <2>8, <2>9
<1> QED
  BY <1>8, <1>9, <1>10, <1>11 DEF IInv

\* A process that lives is on record, in memory and on disk.
LEMMA IdentifyKeeps ==
  ASSUME IInv, NEW t \in Threads, Identify(t)
  PROVE  IInv'
<1>0. Typed /\ Pointers /\ Forgotten
  BY DEF IInv
<1> DEFINE r == task[t].run
           p == task[t].proc
           job == NoTask
<1>1. /\ r \in Runs /\ p \in Procs /\ task[t].pc = "identify" /\ runs[r] \in RunType
      /\ task[t] \in TaskType /\ broker # "down"
  BY <1>0 DEF Identify, Pointers, Forgotten, Typed
<1>2. PICK id \in {p} \cup (IF proc[p].st = "dead" THEN {0} ELSE {}) :
        LET rec == [runs[r] EXCEPT !.ident = id, !.state = IF @ = "done" THEN @ ELSE "up",
                                   !.launching = IF @ = t THEN "ok" ELSE @]
        IN  runs' = [runs EXCEPT ![r] = rec] /\ Write(r, rec)
  BY Zenon DEF Identify
<1>3. id \in {0, p} /\ id \in 0..MaxProcs /\ (proc[p].st = "live" => id = p)
  BY <1>1, <1>2, Zero
<1> DEFINE rec == [runs[r] EXCEPT !.ident = id, !.state = IF @ = "done" THEN @ ELSE "up",
                                   !.launching = IF @ = t THEN "ok" ELSE @]
<1>4. /\ rec \in RunType /\ rec.ident = id /\ rec.stopping = runs[r].stopping /\ rec.recovered = runs[r].recovered
      /\ rec.timer = runs[r].timer /\ rec.count = runs[r].count /\ rec.stop = runs[r].stop /\ rec.victim = runs[r].victim
      /\ rec.state = (IF runs[r].state = "done" THEN "done" ELSE "up")
      /\ rec.launching = (IF runs[r].launching = t THEN "ok" ELSE runs[r].launching)
  BY <1>1, <1>3 DEF RunType, States
<1>5. /\ job \in TaskType /\ job.op = "none" /\ job.pc = "idle"
  BY NoTaskFields
<1>6. /\ runs' = [runs EXCEPT ![r] = rec] /\ task' = [task EXCEPT ![t] = job]
      /\ meta' = [run |-> r, state |-> rec.state, ident |-> rec.ident, count |-> rec.count, boot |-> "this"]
      /\ saved' = IF rec.state = "done" THEN saved \cup {<<r, rec.count>>} ELSE saved
      /\ UNCHANGED <<broker, cur, completions, proc, made, requests, crashes, raced, leaked, wanted,
                     contested>>
  BY <1>2 DEF Identify, Write, history
<1> HIDE DEF rec, job
<1>7. r = task[t].run /\ p = task[t].proc
  OBVIOUS
<1> HIDE DEF r, p
<1>8. Typed'
  BY <1>1, <1>3, <1>4, <1>5, <1>6, <1>7, <1>0, Zero DEF MetaType, RunType, Typed
<1>9. Pointers'
  BY <1>1, <1>3, <1>4, <1>5, <1>6, <1>7, <1>0 DEF Pointers, Typed
<1>10. Forgotten'
  BY <1>1, <1>3, <1>4, <1>5, <1>6, <1>7, <1>0 DEF Forgotten, Typed
<1>11. ASSUME Kept' PROVE Single' /\ Launches' /\ Known' /\ Restarts' /\ Recorded' /\ Counted' /\ Stops'
  <2>1. Kept /\ Single /\ Launches /\ Known /\ Restarts /\ Recorded /\ Counted /\ Stops
    BY <1>11, <1>1, <1>3, <1>4, <1>5, <1>6, <1>7 DEF IInv, Kept
  <2>2. /\ r = cur /\ Launching = {t} /\ runs[cur].launching = t
        /\ \A q \in Procs : Attended(q) => q = p
    BY <1>0, <1>1, <1>7, <2>1 DEF Pointers, Launches, Launching
  <2>3. proc[p].st = "live" => runs[cur].state # "done" /\ runs[cur].count = proc[p].count /\ proc[p].run = cur
    BY <1>1, <2>1 DEF Known, Single, Living, Attended
  <2>4. Single'
    BY <1>1, <1>3, <1>4, <1>5, <1>6, <1>7, <1>0, <2>1, <2>2, <2>3 DEF Single, Attended, Typed
  <2>5. Launches'
    BY <1>1, <1>3, <1>4, <1>5, <1>6, <1>7, <1>0, <2>1, <2>2, <2>3, NoThread DEF Launches, Restarts,
       Launching, Starting, Attended, Key, Typed
  <2>6. Known'
    BY <1>1, <1>3, <1>4, <1>5, <1>6, <1>7, <1>0, <2>1, <2>2, <2>3, NoThread DEF Known, Attended, Launching,
       Living, Typed
  <2>7. Restarts'
    BY <1>1, <1>3, <1>4, <1>5, <1>6, <1>7, <1>0, <2>1, <2>2, <2>3 DEF Restarts, Attended, Key, Typed
  <2>8. Recorded'
    BY <1>1, <1>3, <1>4, <1>5, <1>6, <1>7, <1>0, <2>1, <2>2, <2>3 DEF Recorded, Attended, Launching, Known,
       Single, Living, Typed
  <2>9. Counted'
    BY <1>1, <1>3, <1>4, <1>5, <1>6, <1>7, <1>0, <2>1, <2>2, <2>3 DEF Counted, Attended, Launching, Known,
       RunType, MetaType, Living, Typed
  <2>10. Stops'
    BY <1>1, <1>3, <1>4, <1>5, <1>6, <1>7, <1>0, <2>1, <2>2, <2>3 DEF Stops, Quiet, Attended, Launching, Typed
  <2> QED
    BY <2>4, <2>5, <2>6, <2>7, <2>8, <2>9, <2>10
<1> QED
  BY <1>8, <1>9, <1>10, <1>11 DEF IInv

\* A claim that is not written leaves the records as they are.
LEMMA ClaimFailsKeeps ==
  ASSUME IInv, NEW t \in Threads, ClaimFails(t)
  PROVE  IInv'
<1>0. Typed /\ Pointers /\ Forgotten
  BY DEF IInv
<1> DEFINE r == task[t].run
           rec == [runs[r] EXCEPT !.ident = 0, !.launching = IF @ = t THEN "failed" ELSE @,
                             !.poisoned = @ \/ t = "timer"]
           job == NoTask
<1>1. /\ r \in Runs /\ task[t].pc = "claim" /\ runs[r] \in RunType
  BY <1>0 DEF ClaimFails, Pointers, Typed
<1>2. /\ rec \in RunType /\ rec.state = runs[r].state /\ rec.ident = 0 /\ rec.stopping = runs[r].stopping
      /\ rec.recovered = runs[r].recovered /\ rec.timer = runs[r].timer /\ rec.count = runs[r].count
      /\ rec.stop = runs[r].stop /\ rec.victim = runs[r].victim
      /\ rec.launching = (IF runs[r].launching = t THEN "failed" ELSE runs[r].launching)
  BY <1>1, Zero DEF RunType, States
<1>3. /\ job \in TaskType /\ job.op = "none" /\ job.pc = "idle"
  BY NoTaskFields
<1>4. /\ runs' = [runs EXCEPT ![r] = rec] /\ task' = [task EXCEPT ![t] = job]
      /\ UNCHANGED <<broker, cur, completions, meta, saved, proc, made, requests, crashes, raced, leaked, wanted,
                     contested>>
  BY DEF ClaimFails, history, disk
<1> HIDE DEF rec, job
<1>5. r = task[t].run
  OBVIOUS
<1> HIDE DEF r
<1>6. Typed'
  BY <1>1, <1>2, <1>3, <1>4, <1>5, <1>0, Zero DEF MetaType, RunType, Typed
<1>7. Pointers'
  BY <1>1, <1>2, <1>3, <1>4, <1>5, <1>0 DEF Pointers, Typed
<1>8. Forgotten'
  BY <1>1, <1>2, <1>3, <1>4, <1>5, <1>0 DEF Forgotten, Typed
<1>9. ASSUME Kept' PROVE Single' /\ Launches' /\ Known' /\ Restarts' /\ Recorded' /\ Counted' /\ Stops'
  <2>1. Kept /\ Single /\ Launches /\ Known /\ Restarts /\ Recorded /\ Counted /\ Stops
    BY <1>9, <1>1, <1>2, <1>3, <1>4, <1>5 DEF IInv, Kept
  <2>2. task[t].pc = "claim"
    BY <1>1
  <2>3. /\ r = cur /\ Launching = {t} /\ runs[cur].launching = t
        /\ \A q \in Procs : ~Attended(q)
        /\ runs[cur].state = "starting" /\ ~runs[cur].timer /\ runs[cur].stop \in {"none", "waiting"}
        /\ <<r, runs[r].count>> \notin completions \cup saved
    BY <1>0, <1>1, <1>5, <2>1, <2>2 DEF Pointers, Launches, Launching, Starting, Key
  <2>4. Single'
    BY <1>1, <1>2, <1>3, <1>4, <1>5, <1>0, <2>1, <2>2, <2>3 DEF Single, Attended, Typed
  <2>5. Launches'
    BY <1>1, <1>2, <1>3, <1>4, <1>5, <1>0, <2>1, <2>2, <2>3, NoThread DEF Launches, Restarts, Launching,
       Starting, Attended, Key, Typed
  <2>6. Known'
    BY <1>1, <1>2, <1>3, <1>4, <1>5, <1>0, <2>1, <2>2, <2>3 DEF Known, Attended, Living, Typed
  <2>7. Restarts'
    BY <1>1, <1>2, <1>3, <1>4, <1>5, <1>0, <2>1, <2>2, <2>3 DEF Restarts, Attended, Key, Typed
  <2>8. Recorded'
    BY <1>1, <1>2, <1>3, <1>4, <1>5, <1>0, <2>1, <2>2, <2>3 DEF Recorded, Attended, Launching, Living, Typed
  <2>9. Counted'
    BY <1>1, <1>2, <1>3, <1>4, <1>5, <1>0, <2>1, <2>2, <2>3 DEF Counted, Attended, Launching, RunType,
       MetaType, Living, Typed
  <2>10. Stops'
    BY <1>1, <1>2, <1>3, <1>4, <1>5, <1>0, <2>1, <2>2, <2>3 DEF Stops, Quiet, Attended, Launching, Typed
  <2> QED
    BY <2>4, <2>5, <2>6, <2>7, <2>8, <2>9, <2>10
<1> QED
  BY <1>6, <1>7, <1>8, <1>9 DEF IInv

\* Before the spawn, nothing is lost by giving up.
LEMMA LaunchFailsKeeps ==
  ASSUME IInv, NEW t \in Threads, LaunchFails(t)
  PROVE  IInv'
<1>0. Typed /\ Pointers /\ Forgotten
  BY DEF IInv
<1> DEFINE r == task[t].run
           rec == [runs[r] EXCEPT !.state = "done", !.launching = IF @ = t THEN "failed" ELSE @,
                             !.poisoned = @ \/ t = "timer"]
           job == NoTask
<1>1. /\ r \in Runs /\ task[t].pc \in {"spawn", "identify"} /\ runs[r] \in RunType
  BY <1>0 DEF LaunchFails, Pointers, Typed
<1>2. /\ rec \in RunType /\ rec.state = "done" /\ rec.ident = runs[r].ident /\ rec.stopping = runs[r].stopping
      /\ rec.recovered = runs[r].recovered /\ rec.timer = runs[r].timer /\ rec.count = runs[r].count
      /\ rec.stop = runs[r].stop /\ rec.victim = runs[r].victim
      /\ rec.launching = (IF runs[r].launching = t THEN "failed" ELSE runs[r].launching)
  BY <1>1 DEF RunType, States
<1>3. /\ job \in TaskType /\ job.op = "none" /\ job.pc = "idle"
  BY NoTaskFields
<1>4. /\ runs' = [runs EXCEPT ![r] = rec] /\ task' = [task EXCEPT ![t] = job]
      /\ meta' = [run |-> r, state |-> rec.state, ident |-> rec.ident, count |-> rec.count, boot |-> "this"]
      /\ saved' = IF rec.state = "done" THEN saved \cup {<<r, rec.count>>} ELSE saved
      /\ completions' = completions \cup {<<r, runs[r].count>>}
      /\ leaked' = (leaked \/ task[t].pc = "identify") /\ leaked' \in BOOLEAN
      /\ UNCHANGED <<broker, cur, proc, made, requests, crashes, raced, wanted, contested>>
  BY DEF LaunchFails, Write, Key, history
<1> HIDE DEF rec, job
<1>5. r = task[t].run
  OBVIOUS
<1> HIDE DEF r
<1>6. Typed'
  BY <1>1, <1>2, <1>3, <1>4, <1>5, <1>0, Zero DEF MetaType, RunType, Typed
<1>7. Pointers'
  BY <1>1, <1>2, <1>3, <1>4, <1>5, <1>0 DEF Pointers, Typed
<1>8. Forgotten'
  BY <1>1, <1>2, <1>3, <1>4, <1>5, <1>0 DEF Forgotten, Typed
<1>9. ASSUME Kept' PROVE Single' /\ Launches' /\ Known' /\ Restarts' /\ Recorded' /\ Counted' /\ Stops'
  <2>1. Kept /\ Single /\ Launches /\ Known /\ Restarts /\ Recorded /\ Counted /\ Stops
    BY <1>9, <1>1, <1>2, <1>3, <1>4, <1>5 DEF IInv, Kept
  <2>2. task[t].pc = "spawn"
    BY <1>1, <1>4, <1>9 DEF Kept
  <2>3. /\ r = cur /\ Launching = {t} /\ runs[cur].launching = t
        /\ \A q \in Procs : ~Attended(q)
        /\ runs[cur].state = "starting" /\ ~runs[cur].timer /\ runs[cur].stop \in {"none", "waiting"}
        /\ <<r, runs[r].count>> \notin completions \cup saved
    BY <1>0, <1>1, <1>5, <2>1, <2>2 DEF Pointers, Launches, Launching, Starting, Key
  <2>4. Single'
    BY <1>1, <1>2, <1>3, <1>4, <1>5, <1>0, <2>1, <2>2, <2>3 DEF Single, Attended, Typed
  <2>5. Launches'
    BY <1>1, <1>2, <1>3, <1>4, <1>5, <1>0, <2>1, <2>2, <2>3, NoThread DEF Launches, Restarts, Launching,
       Starting, Attended, Key, Typed
  <2>6. Known'
    BY <1>1, <1>2, <1>3, <1>4, <1>5, <1>0, <2>1, <2>2, <2>3 DEF Known, Attended, Living, Typed
  <2>7. Restarts'
    BY <1>1, <1>2, <1>3, <1>4, <1>5, <1>0, <2>1, <2>2, <2>3 DEF Restarts, Attended, Key, Typed
  <2>8. Recorded'
    BY <1>1, <1>2, <1>3, <1>4, <1>5, <1>0, <2>1, <2>2, <2>3 DEF Recorded, Attended, Launching, Living, Typed
  <2>9. Counted'
    BY <1>1, <1>2, <1>3, <1>4, <1>5, <1>0, <2>1, <2>2, <2>3 DEF Counted, Attended, Launching, RunType,
       MetaType, Living, Typed
  <2>10. Stops'
    BY <1>1, <1>2, <1>3, <1>4, <1>5, <1>0, <2>1, <2>2, <2>3 DEF Stops, Quiet, Attended, Launching, Typed
  <2> QED
    BY <2>4, <2>5, <2>6, <2>7, <2>8, <2>9, <2>10
<1> QED
  BY <1>6, <1>7, <1>8, <1>9 DEF IInv

LEMMA TimerGivesUpKeeps ==
  ASSUME IInv, NEW r \in Runs, TimerFires(r), broker # "up"
  PROVE  IInv'
<1>0. Typed /\ Pointers /\ Forgotten
  BY DEF IInv
<1> DEFINE rec == [runs[r] EXCEPT !.timer = FALSE]
           job == NoTask
<1>1. /\ "timer" \in Threads /\ runs[r] \in RunType /\ runs[r].timer /\ task["timer"].pc = "idle"
  BY <1>0 DEF TimerFires, Typed, Threads
<1>2. /\ rec \in RunType /\ rec.state = runs[r].state /\ rec.stopping = runs[r].stopping
      /\ rec.recovered = runs[r].recovered /\ ~rec.timer /\ rec.count = runs[r].count
      /\ rec.ident = runs[r].ident /\ rec.launching = runs[r].launching /\ rec.stop = runs[r].stop
      /\ rec.victim = runs[r].victim /\ rec.poisoned = runs[r].poisoned
  BY <1>1 DEF RunType
<1>3. /\ job \in TaskType /\ job.op = "none" /\ job.pc = "idle"
  BY NoTaskFields
<1>4. /\ runs' = [runs EXCEPT ![r] = rec] /\ task' = [task EXCEPT !["timer"] = job]
      /\ raced' = (raced \/ runs[r].launching \in Threads) /\ raced' \in BOOLEAN /\ broker # "down"
      /\ UNCHANGED <<broker, cur, completions, meta, saved, proc, made, requests, crashes, leaked, wanted,
                     contested>>
  BY DEF TimerFires, Launch, LaunchTask, history, memory, disk
<1> HIDE DEF rec, job
<1>5. Typed'
  BY <1>1, <1>2, <1>3, <1>4, <1>0, Zero DEF Typed
<1>6. Pointers'
  BY <1>1, <1>2, <1>3, <1>4, <1>0 DEF Pointers, Typed
<1>7. Forgotten'
  BY <1>1, <1>2, <1>3, <1>4, <1>0 DEF Forgotten, Typed
<1>8. ASSUME Kept' PROVE Single' /\ Launches' /\ Known' /\ Restarts' /\ Recorded' /\ Counted' /\ Stops'
  <2>1. Kept /\ Single /\ Launches /\ Known /\ Restarts /\ Recorded /\ Counted /\ Stops
    BY <1>8, <1>1, <1>2, <1>3, <1>4 DEF IInv, Kept
  <2>2. Single'
    BY <1>1, <1>2, <1>3, <1>4, <1>0, <2>1 DEF Single, Attended, Typed
  <2>3. Launches'
    BY <1>1, <1>2, <1>3, <1>4, <1>0, <2>1 DEF Launches, Launching, Starting, Attended, Key, Typed
  <2>4. Known'
    BY <1>1, <1>2, <1>3, <1>4, <1>0, <2>1 DEF Known, Living, Typed
  <2>5. Restarts'
    BY <1>1, <1>2, <1>3, <1>4, <1>0, <2>1 DEF Restarts, Attended, Key, Typed
  <2>6. Recorded'
    BY <1>1, <1>2, <1>3, <1>4, <1>0, <2>1 DEF Recorded, Living, Typed
  <2>7. Counted'
    BY <1>1, <1>2, <1>3, <1>4, <1>0, <2>1 DEF Counted, Living, Typed
  <2>8. Stops'
    BY <1>1, <1>2, <1>3, <1>4, <1>0, <2>1 DEF Stops, Quiet, Attended, Launching, Typed
  <2> QED
    BY <2>2, <2>3, <2>4, <2>5, <2>6, <2>7, <2>8
<1> QED
  BY <1>5, <1>6, <1>7, <1>8 DEF IInv

\* The timer fires only after the end of the process, for a fresh count.
LEMMA TimerGoesOnKeeps ==
  ASSUME IInv, NEW r \in Runs, TimerFires(r), broker = "up"
  PROVE  IInv'
<1>0. Typed /\ Pointers /\ Forgotten
  BY DEF IInv
<1> DEFINE next == [runs[r] EXCEPT !.timer = FALSE]
           rec == Launch("timer", next)
           job == LaunchTask("timer", r)
<1>1. /\ "timer" \in Threads /\ runs[r] \in RunType /\ runs[r].timer /\ task["timer"].pc = "idle"
      /\ task["timer"] \in TaskType /\ "timer" \notin Clients
  BY <1>0, SupervisorAssumption DEF TimerFires, Typed, Threads
<1>2. next \in RunType /\ ~next.timer /\ next.count = runs[r].count
  BY <1>1 DEF RunType
<1> HIDE DEF next
<1>3. /\ rec \in RunType /\ rec.state = "starting" /\ ~rec.stopping /\ ~rec.timer
      /\ rec.stop = "none" /\ rec.launching = "timer" /\ rec.count = runs[r].count
  BY <1>1, <1>2, LaunchFields
<1>4. /\ job \in TaskType /\ job.op = "launch" /\ job.pc = "claim" /\ job.run = r
  BY <1>1, LaunchTaskFields
<1>5. /\ runs' = [runs EXCEPT ![r] = rec] /\ task' = [task EXCEPT !["timer"] = job]
      /\ raced' = (raced \/ runs[r].launching \in Threads) /\ raced' \in BOOLEAN
      /\ UNCHANGED <<broker, cur, completions, meta, saved, proc, made, requests, crashes, leaked, wanted,
                     contested>>
  BY DEF TimerFires, next, history, memory, disk
<1> HIDE DEF rec, job
<1>6. Typed'
  BY <1>1, <1>2, <1>3, <1>4, <1>5, <1>0, Zero DEF Typed
<1>7. Pointers'
  BY <1>1, <1>2, <1>3, <1>4, <1>5, <1>0 DEF Pointers, Typed
<1>8. Forgotten'
  BY <1>1, <1>2, <1>3, <1>4, <1>5, <1>0 DEF Forgotten, Typed
<1>9. ASSUME Kept' PROVE Single' /\ Launches' /\ Known' /\ Restarts' /\ Recorded' /\ Counted' /\ Stops'
  <2>1. Kept /\ Single /\ Launches /\ Known /\ Restarts /\ Recorded /\ Counted /\ Stops
    BY <1>9, <1>1, <1>2, <1>3, <1>4, <1>5 DEF IInv, Kept
  <2>2. runs[r].launching \notin Threads
    BY <1>5, <1>9 DEF Kept
  <2>3. /\ r = cur /\ Launching = {} /\ \A q \in Procs : ~Attended(q)
        /\ <<r, runs[r].count>> \notin completions \cup saved
    BY <1>0, <1>1, <2>1, <2>2, Zero DEF Pointers, Launches, Launching, Restarts, Key, Runs
  <2>4. Single'
    BY <1>1, <1>2, <1>3, <1>4, <1>5, <1>0, <2>1, <2>2, <2>3 DEF Single, Attended, Typed
  <2>5. Launches'
    BY <1>1, <1>2, <1>3, <1>4, <1>5, <1>0, <2>1, <2>2, <2>3 DEF Launches, Launching, Starting, Attended,
       Key, Typed
  <2>6. Known'
    BY <1>1, <1>2, <1>3, <1>4, <1>5, <1>0, <2>1, <2>2, <2>3 DEF Known, Attended, Living, Typed
  <2>7. Restarts'
    BY <1>1, <1>2, <1>3, <1>4, <1>5, <1>0, <2>1, <2>2, <2>3 DEF Restarts, Attended, Key, Typed
  <2>8. Recorded'
    BY <1>1, <1>2, <1>3, <1>4, <1>5, <1>0, <2>1, <2>2, <2>3 DEF Recorded, Attended, Launching, Living, Typed
  <2>9. Counted'
    BY <1>1, <1>2, <1>3, <1>4, <1>5, <1>0, <2>1, <2>2, <2>3 DEF Counted, Attended, Living, Typed
  <2>10. Stops'
    BY <1>1, <1>2, <1>3, <1>4, <1>5, <1>0, <2>1, <2>2, <2>3 DEF Stops, Restarts, Quiet, Attended,
       Launching, Key, Typed
  <2> QED
    BY <2>4, <2>5, <2>6, <2>7, <2>8, <2>9, <2>10
<1> QED
  BY <1>6, <1>7, <1>8, <1>9 DEF IInv

-----------------------------------------------------------------------------
(* The end of a process. *)

LEMMA ExitKeeps ==
  ASSUME IInv, NEW p \in Procs, Exit(p)
  PROVE  IInv'
<1>0. Typed /\ Pointers /\ Forgotten
  BY DEF IInv
<1> DEFINE new == [proc[p] EXCEPT !.st = "dead", !.exit = IF @ = "none" /\ proc[p].watched THEN "event" ELSE @]
<1>1. proc[p] \in ProcType /\ proc[p].st = "live"
  BY <1>0 DEF Exit, Typed
<1>2. /\ new \in ProcType /\ new.st = "dead" /\ new.run = proc[p].run /\ new.count = proc[p].count
      /\ new.watched = proc[p].watched
      /\ new.exit = (IF proc[p].exit = "none" /\ proc[p].watched THEN "event" ELSE proc[p].exit)
  BY <1>1 DEF ProcType
<1>3. proc' = [proc EXCEPT ![p] = new]
  BY <1>0, Zenon DEF Exit, Ends, Typed
<1>4. UNCHANGED <<broker, cur, runs, completions, meta, saved, task, made, requests, crashes, raced,
   leaked, wanted, contested>>
  BY DEF Exit, history, memory, disk
<1> HIDE DEF new
<1>5. Typed'
  BY <1>1, <1>2, <1>3, <1>4, <1>0, Zero DEF Typed
<1>6. Pointers'
  BY <1>1, <1>2, <1>3, <1>4, <1>0 DEF Pointers, Typed
<1>7. Forgotten'
  BY <1>1, <1>2, <1>3, <1>4, <1>0 DEF Forgotten, Typed
<1>8. ASSUME Kept' PROVE Single' /\ Launches' /\ Known' /\ Restarts' /\ Recorded' /\ Counted' /\ Stops'
  <2>1. Kept /\ Single /\ Launches /\ Known /\ Restarts /\ Recorded /\ Counted /\ Stops
    BY <1>8, <1>1, <1>2, <1>3, <1>4 DEF IInv, Kept
  <2>2. Single'
    BY <1>1, <1>2, <1>3, <1>4, <1>0, <2>1 DEF Single, Attended, Typed
  <2>3. Launches'
    BY <1>1, <1>2, <1>3, <1>4, <1>0, <2>1 DEF Launches, Launching, Starting, Attended, Key, Typed
  <2>4. Known'
    BY <1>1, <1>2, <1>3, <1>4, <1>0, <2>1 DEF Known, Living, Typed
  <2>5. Restarts'
    BY <1>1, <1>2, <1>3, <1>4, <1>0, <2>1 DEF Restarts, Attended, Key, Typed
  <2>6. Recorded'
    BY <1>1, <1>2, <1>3, <1>4, <1>0, <2>1 DEF Recorded, Living, Typed
  <2>7. Counted'
    BY <1>1, <1>2, <1>3, <1>4, <1>0, <2>1 DEF Counted, Living, Typed
  <2>8. Stops'
    BY <1>1, <1>2, <1>3, <1>4, <1>0, <2>1 DEF Stops, Quiet, Attended, Launching, Typed
  <2> QED
    BY <2>2, <2>3, <2>4, <2>5, <2>6, <2>7, <2>8
<1> QED
  BY <1>5, <1>6, <1>7, <1>8 DEF IInv

\* The completion is of a process that is over.
LEMMA ExitedKeeps ==
  ASSUME IInv, NEW p \in Procs, NEW code \in {0, 1}, Exited(p, code)
  PROVE  IInv'
<1>0. Typed /\ Pointers /\ Forgotten
  BY DEF IInv
<1> DEFINE r == proc[p].run
           again == broker = "up" /\ ~runs[r].stopping /\ code # 0
           rec == [runs[r] EXCEPT !.state = "done", !.ident = 0]
           new == [proc[p] EXCEPT !.exit = "first", !.again = again]
<1>1. /\ r \in Runs /\ runs[r] \in RunType /\ proc[p] \in ProcType /\ proc[p].exit = "event" /\ again \in BOOLEAN
  BY <1>0 DEF Exited, Pointers, Typed
<1>2. /\ rec \in RunType /\ rec.state = "done" /\ rec.stopping = runs[r].stopping
      /\ rec.recovered = runs[r].recovered /\ rec.timer = runs[r].timer
      /\ rec.count = runs[r].count /\ rec.ident = 0 /\ rec.launching = runs[r].launching
      /\ rec.stop = runs[r].stop /\ rec.victim = runs[r].victim /\ rec.poisoned = runs[r].poisoned
  BY <1>1, Zero DEF RunType, States
<1>3. runs' = [runs EXCEPT ![r] = rec]
  BY <1>0, Zenon DEF Exited, Typed
<1>4. proc' = [proc EXCEPT ![p] = new]
  BY <1>0, Zenon DEF Exited, Typed
<1> HIDE DEF again
<1>5. /\ new \in ProcType /\ new.st = proc[p].st /\ new.run = r /\ new.count = proc[p].count /\ new.exit = "first"
  BY <1>1 DEF ProcType
<1>6. /\ completions' = completions \cup {<<r, runs[r].count>>}
      /\ UNCHANGED <<broker, cur, meta, saved, task, made, requests, crashes, raced, leaked, wanted,
                     contested>>
  BY DEF Exited, Key, history, memory, disk
<1> HIDE DEF rec, new
<1>7. r = proc[p].run
  OBVIOUS
<1> HIDE DEF r
<1>8. Typed'
  BY <1>1, <1>2, <1>3, <1>4, <1>5, <1>6, <1>7, <1>0, Zero DEF RunType, Typed
<1>9. Pointers'
  BY <1>1, <1>2, <1>3, <1>4, <1>5, <1>6, <1>7, <1>0 DEF Pointers, Typed
<1>10. Forgotten'
  BY <1>1, <1>2, <1>3, <1>4, <1>5, <1>6, <1>7, <1>0 DEF Forgotten, Typed
<1>11. ASSUME Kept' PROVE Single' /\ Launches' /\ Known' /\ Restarts' /\ Recorded' /\ Counted' /\ Stops'
  <2>1. Kept /\ Single /\ Launches /\ Known /\ Restarts /\ Recorded /\ Counted /\ Stops
    BY <1>11, <1>1, <1>2, <1>3, <1>4, <1>5, <1>6, <1>7 DEF IInv, Kept
  <2>2. /\ r = cur /\ proc[p].st = "dead" /\ Living = {} /\ ~runs[cur].timer
        /\ \A q \in Procs : q # p => ~Attended(q)
        /\ \A t \in Threads : ~Starting(t)
    BY <1>0, <1>1, <1>7, <2>1 DEF Forgotten, Single, Launches, Restarts, Living, Attended
  <2>3. \A e \in completions \cup saved : e[1] \in Int /\ e[2] \in Int
    BY <1>0, Zero DEF Typed, Runs
  <2>4. Single'
    BY <1>1, <1>2, <1>3, <1>4, <1>5, <1>6, <1>7, <1>0, <2>1, <2>2, <2>3 DEF Single, Attended, Typed
  <2>5. Launches'
    BY <1>1, <1>2, <1>3, <1>4, <1>5, <1>6, <1>7, <1>0, <2>1, <2>2, <2>3 DEF Launches, Launching, Starting,
       Attended, Key, Typed
  <2>6. Known'
    BY <1>1, <1>2, <1>3, <1>4, <1>5, <1>6, <1>7, <1>0, <2>1, <2>2, <2>3 DEF Known, Living, Typed
  <2>7. Restarts'
    BY <1>1, <1>2, <1>3, <1>4, <1>5, <1>6, <1>7, <1>0, <2>1, <2>2, <2>3 DEF Restarts, Attended, Key, Typed
  <2>8. Recorded'
    BY <1>1, <1>2, <1>3, <1>4, <1>5, <1>6, <1>7, <1>0, <2>1, <2>2, <2>3 DEF Recorded, Living, Typed
  <2>9. Counted'
    BY <1>1, <1>2, <1>3, <1>4, <1>5, <1>6, <1>7, <1>0, <2>1, <2>2, <2>3 DEF Counted, RunType, Living, Typed
  <2>10. Stops'
    BY <1>1, <1>2, <1>3, <1>4, <1>5, <1>6, <1>7, <1>0, <2>1, <2>2, <2>3 DEF Stops, Quiet, Attended,
       Launching, Typed
  <2> QED
    BY <2>4, <2>5, <2>6, <2>7, <2>8, <2>9, <2>10
<1> QED
  BY <1>8, <1>9, <1>10, <1>11 DEF IInv

LEMMA ExitFinalKeeps ==
  ASSUME IInv, NEW p \in Procs, ExitWritten(p), ~proc[p].again
  PROVE  IInv'
<1>0. Typed /\ Pointers /\ Forgotten
  BY DEF IInv
<1> DEFINE r == proc[p].run
           rec == runs[r]
           new == [proc[p] EXCEPT !.exit = "none"]
<1>1. /\ r \in Runs /\ rec \in RunType /\ proc[p] \in ProcType /\ proc[p].exit = "first"
  BY <1>0 DEF ExitWritten, Pointers, Typed
<1>2. /\ new \in ProcType /\ new.st = proc[p].st /\ new.run = r /\ new.count = proc[p].count /\ new.exit = "none"
  BY <1>1 DEF ProcType
<1>3. proc' = [proc EXCEPT ![p] = new]
  BY <1>0 DEF ExitWritten, Typed
<1>4. /\ meta' = [run |-> r, state |-> rec.state, ident |-> rec.ident, count |-> rec.count, boot |-> "this"]
      /\ saved' = IF rec.state = "done" THEN saved \cup {<<r, rec.count>>} ELSE saved
      /\ UNCHANGED <<broker, cur, runs, completions, task, made, requests, crashes, raced, leaked, wanted,
                     contested>>
  BY DEF ExitWritten, Write, history, memory, disk
<1> HIDE DEF new
<1>5. r = proc[p].run /\ rec = runs[r]
  OBVIOUS
<1> HIDE DEF r, rec
<1>6. Typed'
  BY <1>1, <1>2, <1>3, <1>4, <1>5, <1>0, Zero DEF MetaType, RunType, Typed
<1>7. Pointers'
  BY <1>1, <1>2, <1>3, <1>4, <1>5, <1>0 DEF Pointers, Typed
<1>8. Forgotten'
  BY <1>1, <1>2, <1>3, <1>4, <1>5, <1>0 DEF Forgotten, Typed
<1>9. ASSUME Kept' PROVE Single' /\ Launches' /\ Known' /\ Restarts' /\ Recorded' /\ Counted' /\ Stops'
  <2>1. Kept /\ Single /\ Launches /\ Known /\ Restarts /\ Recorded /\ Counted /\ Stops
    BY <1>9, <1>1, <1>2, <1>3, <1>4, <1>5 DEF IInv, Kept
  <2>2. /\ r = cur /\ proc[p].st = "dead" /\ Living = {} /\ ~runs[cur].timer
        /\ \A q \in Procs : q # p => ~Attended(q)
        /\ \A t \in Threads : ~Starting(t)
    BY <1>0, <1>1, <1>5, <2>1 DEF Forgotten, Single, Launches, Restarts, Living, Attended
  <2>3. \A e \in completions \cup saved : e[1] \in Int /\ e[2] \in Int
    BY <1>0, Zero DEF Typed, Runs
  <2>4. Single'
    BY <1>1, <1>2, <1>3, <1>4, <1>5, <1>0, <2>1, <2>2, <2>3 DEF Single, Attended, Typed
  <2>5. Launches'
    BY <1>1, <1>2, <1>3, <1>4, <1>5, <1>0, <2>1, <2>2, <2>3 DEF Launches, Launching, Starting, Attended,
       Key, Typed
  <2>6. Known'
    BY <1>1, <1>2, <1>3, <1>4, <1>5, <1>0, <2>1, <2>2, <2>3 DEF Known, Living, Typed
  <2>7. Restarts'
    BY <1>1, <1>2, <1>3, <1>4, <1>5, <1>0, <2>1, <2>2, <2>3 DEF Restarts, Attended, Key, Typed
  <2>8. Recorded'
    BY <1>1, <1>2, <1>3, <1>4, <1>5, <1>0, <2>1, <2>2, <2>3 DEF Recorded, Starting, Living, Typed
  <2>9. Counted'
    BY <1>1, <1>2, <1>3, <1>4, <1>5, <1>0, <2>1, <2>2, <2>3 DEF Counted, RunType, MetaType, Living, Typed
  <2>10. Stops'
    BY <1>1, <1>2, <1>3, <1>4, <1>5, <1>0, <2>1, <2>2, <2>3 DEF Stops, Quiet, Attended, Launching, Typed
  <2> QED
    BY <2>4, <2>5, <2>6, <2>7, <2>8, <2>9, <2>10
<1> QED
  BY <1>6, <1>7, <1>8, <1>9 DEF IInv

\* The count moves on past the completion.
LEMMA ExitAgainKeeps ==
  ASSUME IInv, NEW p \in Procs, ExitWritten(p), proc[p].again
  PROVE  IInv'
<1>0. Typed /\ Pointers /\ Forgotten
  BY DEF IInv
<1> DEFINE r == proc[p].run
           rec == runs[r]
           next == [rec EXCEPT !.state = "restarting", !.count = rec.count + 1]
           new == [proc[p] EXCEPT !.exit = "second"]
<1>1. /\ r \in Runs /\ rec \in RunType /\ proc[p] \in ProcType /\ proc[p].exit = "first"
  BY <1>0 DEF ExitWritten, Pointers, Typed
<1>2. /\ new \in ProcType /\ new.st = proc[p].st /\ new.run = r /\ new.count = proc[p].count /\ new.exit = "second"
  BY <1>1 DEF ProcType
<1>3. rec \in RunType /\ rec.count \in Nat
  BY <1>1 DEF RunType
<1>4. proc' = [proc EXCEPT ![p] = new]
  BY <1>0 DEF ExitWritten, Typed
<1>5. runs' = [runs EXCEPT ![r] = next]
  BY <1>0, Zenon DEF ExitWritten, Typed
<1>6. /\ meta' = [run |-> r, state |-> rec.state, ident |-> rec.ident, count |-> rec.count, boot |-> "this"]
      /\ saved' = IF rec.state = "done" THEN saved \cup {<<r, rec.count>>} ELSE saved
      /\ UNCHANGED <<broker, cur, completions, task, made, requests, crashes, raced, leaked, wanted,
                     contested>>
  BY DEF ExitWritten, Write, history, memory, disk
<1>7. r = proc[p].run /\ rec = runs[r]
  OBVIOUS
<1> HIDE DEF rec
<1>8. /\ next \in RunType /\ next.state = "restarting" /\ next.count = rec.count + 1 /\ next.stopping = rec.stopping
      /\ next.recovered = rec.recovered /\ next.timer = rec.timer /\ next.ident = rec.ident
      /\ next.launching = rec.launching /\ next.stop = rec.stop /\ next.victim = rec.victim
  BY <1>3, AgainFields
<1> HIDE DEF new, next, r
<1>9. Typed'
  BY <1>1, <1>2, <1>3, <1>4, <1>5, <1>6, <1>7, <1>8, <1>0, Zero DEF MetaType, RunType, Typed
<1>10. Pointers'
  BY <1>1, <1>2, <1>3, <1>4, <1>5, <1>6, <1>7, <1>8, <1>0 DEF Pointers, Typed
<1>11. Forgotten'
  BY <1>1, <1>2, <1>3, <1>4, <1>5, <1>6, <1>7, <1>8, <1>0 DEF Forgotten, Typed
<1>12. ASSUME Kept' PROVE Single' /\ Launches' /\ Known' /\ Restarts' /\ Recorded' /\ Counted' /\ Stops'
  <2>1. Kept /\ Single /\ Launches /\ Known /\ Restarts /\ Recorded /\ Counted /\ Stops
    BY <1>12, <1>1, <1>2, <1>3, <1>4, <1>5, <1>6, <1>7, <1>8 DEF IInv, Kept
  <2>2. /\ r = cur /\ proc[p].st = "dead" /\ Living = {} /\ ~runs[cur].timer
        /\ \A q \in Procs : q # p => ~Attended(q)
        /\ \A t \in Threads : ~Starting(t)
    BY <1>0, <1>1, <1>7, <2>1 DEF Forgotten, Single, Launches, Restarts, Living, Attended
  <2>3. \A e \in completions \cup saved : e[1] \in Int /\ e[2] \in Int
    BY <1>0, Zero DEF Typed, Runs
  <2>4. Single'
    BY <1>1, <1>2, <1>3, <1>4, <1>5, <1>6, <1>7, <1>8, <1>0, <2>1, <2>2, <2>3 DEF Single, Attended, Typed
  <2>5. Launches'
    BY <1>1, <1>2, <1>3, <1>4, <1>5, <1>6, <1>7, <1>8, <1>0, <2>1, <2>2, <2>3 DEF Launches, Launching,
       Starting, Attended, Key, Typed
  <2>6. Known'
    BY <1>1, <1>2, <1>3, <1>4, <1>5, <1>6, <1>7, <1>8, <1>0, <2>1, <2>2, <2>3 DEF Known, Living, Typed
  <2>7. Restarts'
    BY <1>1, <1>2, <1>3, <1>4, <1>5, <1>6, <1>7, <1>8, <1>0, <2>1, <2>2, <2>3 DEF Restarts, Counted,
       RunType, Attended, Key, Living, Typed
  <2>8. Recorded'
    BY <1>1, <1>2, <1>3, <1>4, <1>5, <1>6, <1>7, <1>8, <1>0, <2>1, <2>2, <2>3 DEF Recorded, Starting,
       Living, Typed
  <2>9. Counted'
    BY <1>1, <1>2, <1>3, <1>4, <1>5, <1>6, <1>7, <1>8, <1>0, <2>1, <2>2, <2>3 DEF Counted, RunType,
       MetaType, Living, Typed
  <2>10. Stops'
    BY <1>1, <1>2, <1>3, <1>4, <1>5, <1>6, <1>7, <1>8, <1>0, <2>1, <2>2, <2>3 DEF Stops, Quiet, Attended,
       Launching, Typed
  <2> QED
    BY <2>4, <2>5, <2>6, <2>7, <2>8, <2>9, <2>10
<1> QED
  BY <1>9, <1>10, <1>11, <1>12 DEF IInv

\* The timer is set only if nobody stopped the run meanwhile.
LEMMA ExitRestartsKeeps ==
  ASSUME IInv, NEW p \in Procs, ExitRestarts(p)
  PROVE  IInv'
<1>0. Typed /\ Pointers /\ Forgotten
  BY DEF IInv
<1> DEFINE r == proc[p].run
           rec == runs[r]
           set == ~runs[r].stopping /\ broker = "up"
           next == [runs[r] EXCEPT !.timer = set]
           new == [proc[p] EXCEPT !.exit = "none"]
<1>1. /\ r \in Runs /\ rec \in RunType /\ proc[p] \in ProcType /\ proc[p].exit = "second" /\ set \in BOOLEAN
  BY <1>0 DEF ExitRestarts, Pointers, Typed
<1>2. /\ new \in ProcType /\ new.st = proc[p].st /\ new.run = r /\ new.count = proc[p].count /\ new.exit = "none"
  BY <1>1 DEF ProcType
<1>3. proc' = [proc EXCEPT ![p] = new]
  BY <1>0 DEF ExitRestarts, Typed
<1>4. runs' = [runs EXCEPT ![r] = next]
  BY <1>0 DEF ExitRestarts, Typed
<1>5. set <=> ~runs[r].stopping /\ broker = "up"
  OBVIOUS
<1> HIDE DEF set
<1>6. /\ next \in RunType /\ next.state = rec.state /\ next.stopping = rec.stopping
      /\ next.recovered = rec.recovered /\ (next.timer <=> set) /\ next.count = rec.count
      /\ next.ident = rec.ident /\ next.launching = rec.launching /\ next.stop = rec.stop
      /\ next.victim = rec.victim /\ next.poisoned = rec.poisoned
  BY <1>1 DEF RunType
<1>7. /\ meta' = [run |-> r, state |-> rec.state, ident |-> rec.ident, count |-> rec.count, boot |-> "this"]
      /\ saved' = IF rec.state = "done" THEN saved \cup {<<r, rec.count>>} ELSE saved
      /\ UNCHANGED <<broker, cur, completions, task, made, requests, crashes, raced, leaked, wanted,
                     contested>>
  BY DEF ExitRestarts, Write, history, memory, disk
<1> HIDE DEF new, next
<1>8. r = proc[p].run /\ rec = runs[r]
  OBVIOUS
<1> HIDE DEF r, rec
<1>9. Typed'
  BY <1>1, <1>2, <1>3, <1>4, <1>5, <1>6, <1>7, <1>8, <1>0, Zero DEF MetaType, RunType, Typed
<1>10. Pointers'
  BY <1>1, <1>2, <1>3, <1>4, <1>5, <1>6, <1>7, <1>8, <1>0 DEF Pointers, Typed
<1>11. Forgotten'
  BY <1>1, <1>2, <1>3, <1>4, <1>5, <1>6, <1>7, <1>8, <1>0 DEF Forgotten, Typed
<1>12. ASSUME Kept' PROVE Single' /\ Launches' /\ Known' /\ Restarts' /\ Recorded' /\ Counted' /\ Stops'
  <2>1. Kept /\ Single /\ Launches /\ Known /\ Restarts /\ Recorded /\ Counted /\ Stops
    BY <1>12, <1>1, <1>2, <1>3, <1>4, <1>5, <1>6, <1>7, <1>8 DEF IInv, Kept
  <2>2. /\ r = cur /\ proc[p].st = "dead" /\ Living = {} /\ ~runs[cur].timer
        /\ \A q \in Procs : q # p => ~Attended(q)
        /\ \A t \in Threads : ~Starting(t)
    BY <1>0, <1>1, <1>8, <2>1 DEF Forgotten, Single, Launches, Restarts, Living, Attended
  <2>3. \A e \in completions \cup saved : e[1] \in Int /\ e[2] \in Int
    BY <1>0, Zero DEF Typed, Runs
  <2>4. Single'
    BY <1>1, <1>2, <1>3, <1>4, <1>5, <1>6, <1>7, <1>8, <1>0, <2>1, <2>2, <2>3 DEF Single, Attended, Typed
  <2>5. Launches'
    BY <1>1, <1>2, <1>3, <1>4, <1>5, <1>6, <1>7, <1>8, <1>0, <2>1, <2>2, <2>3 DEF Launches, Launching,
       Starting, Attended, Key, Typed
  <2>6. Known'
    BY <1>1, <1>2, <1>3, <1>4, <1>5, <1>6, <1>7, <1>8, <1>0, <2>1, <2>2, <2>3 DEF Known, Living, Typed
  <2>7. Restarts'
    BY <1>1, <1>2, <1>3, <1>4, <1>5, <1>6, <1>7, <1>8, <1>0, <2>1, <2>2, <2>3 DEF Restarts, Attended, Key,
       Typed
  <2>8. Recorded'
    BY <1>1, <1>2, <1>3, <1>4, <1>5, <1>6, <1>7, <1>8, <1>0, <2>1, <2>2, <2>3 DEF Recorded, Starting,
       Living, Typed
  <2>9. Counted'
    BY <1>1, <1>2, <1>3, <1>4, <1>5, <1>6, <1>7, <1>8, <1>0, <2>1, <2>2, <2>3 DEF Counted, RunType,
       MetaType, Living, Typed
  <2>10. Stops'
    BY <1>1, <1>2, <1>3, <1>4, <1>5, <1>6, <1>7, <1>8, <1>0, <2>1, <2>2, <2>3 DEF Stops, Quiet, Attended,
       Launching, Typed
  <2> QED
    BY <2>4, <2>5, <2>6, <2>7, <2>8, <2>9, <2>10
<1> QED
  BY <1>9, <1>10, <1>11, <1>12 DEF IInv

-----------------------------------------------------------------------------
(* Steps of a termination. *)

LEMMA TerminateDoneKeeps ==
  ASSUME IInv, NEW r \in Runs, TerminateResumes(r), runs[r].state = "done", runs[r].launching # "failed"
  PROVE  IInv'
<1>0. Typed /\ Pointers /\ Forgotten
  BY DEF IInv
<1> DEFINE rec == [runs[r] EXCEPT !.stop = "ok"]
<1>1. runs[r] \in RunType /\ runs[r].stop = "waiting" /\ runs[r].launching \notin Threads /\ runs[r].state = "done"
  BY <1>0 DEF TerminateResumes, Typed
<1>2. /\ rec \in RunType /\ rec.state = runs[r].state /\ rec.stopping = runs[r].stopping
      /\ rec.recovered = runs[r].recovered /\ rec.timer = runs[r].timer
      /\ rec.count = runs[r].count /\ rec.ident = runs[r].ident
      /\ rec.launching = runs[r].launching /\ rec.stop = "ok" /\ rec.victim = runs[r].victim
      /\ rec.poisoned = runs[r].poisoned
  BY <1>1 DEF RunType
<1>3. /\ runs' = [runs EXCEPT ![r] = rec]
      /\ UNCHANGED <<broker, cur, completions, meta, saved, proc, task, made, requests, crashes, raced,
                     leaked, wanted, contested>>
  BY DEF TerminateResumes, history, memory, disk
<1> HIDE DEF rec
<1>4. Typed'
  BY <1>1, <1>2, <1>3, <1>0, Zero DEF Typed
<1>5. Pointers'
  BY <1>1, <1>2, <1>3, <1>0 DEF Pointers, Typed
<1>6. Forgotten'
  BY <1>1, <1>2, <1>3, <1>0, NoRunFields DEF Forgotten, Typed
<1>7. ASSUME Kept' PROVE Single' /\ Launches' /\ Known' /\ Restarts' /\ Recorded' /\ Counted' /\ Stops'
  <2>1. Kept /\ Single /\ Launches /\ Known /\ Restarts /\ Recorded /\ Counted /\ Stops
    BY <1>7, <1>1, <1>2, <1>3 DEF IInv, Kept
  <2>2. r = cur /\ Launching = {}
    BY <1>0, <1>1, <2>1 DEF Restarts, Launches, Launching, Pointers, Typed
  <2>3. broker # "down"
    BY <1>0, <1>1, NoRunFields DEF Forgotten
  <2>4. Single'
    BY <1>1, <1>2, <1>3, <1>0, <2>1, <2>2, <2>3 DEF Single, Attended, Typed
  <2>5. Launches'
    BY <1>1, <1>2, <1>3, <1>0, <2>1, <2>2, <2>3 DEF Launches, Launching, Starting, Attended, Key, Typed
  <2>6. Known'
    BY <1>1, <1>2, <1>3, <1>0, <2>1, <2>2, <2>3 DEF Known, Living, Typed
  <2>7. Restarts'
    BY <1>1, <1>2, <1>3, <1>0, <2>1, <2>2, <2>3 DEF Restarts, Attended, Key, Typed
  <2>8. Recorded'
    BY <1>1, <1>2, <1>3, <1>0, <2>1, <2>2, <2>3 DEF Recorded, Living, Typed
  <2>9. Counted'
    BY <1>1, <1>2, <1>3, <1>0, <2>1, <2>2, <2>3 DEF Counted, Living, Typed
  <2>10. Stops'
    BY <1>1, <1>2, <1>3, <1>0, <2>1, <2>2, <2>3 DEF Stops, Quiet, Attended, Launching, Typed
  <2> QED
    BY <2>4, <2>5, <2>6, <2>7, <2>8, <2>9, <2>10
<1> QED
  BY <1>4, <1>5, <1>6, <1>7 DEF IInv

LEMMA TerminateFailsKeeps ==
  ASSUME IInv, NEW r \in Runs, TerminateResumes(r),
     runs[r].launching = "failed" \/ (runs[r].state # "done" /\ runs[r].recovered /\ runs[r].ident = 0)
  PROVE  IInv'
<1>0. Typed /\ Pointers /\ Forgotten
  BY DEF IInv
<1> DEFINE rec == [runs[r] EXCEPT !.stop = "failed"]
<1>1. runs[r] \in RunType /\ runs[r].stop = "waiting" /\ runs[r].launching \notin Threads
  BY <1>0 DEF TerminateResumes, Typed
<1>2. /\ rec \in RunType /\ rec.state = runs[r].state /\ rec.stopping = runs[r].stopping
      /\ rec.recovered = runs[r].recovered /\ rec.timer = runs[r].timer
      /\ rec.count = runs[r].count /\ rec.ident = runs[r].ident
      /\ rec.launching = runs[r].launching /\ rec.stop = "failed" /\ rec.victim = runs[r].victim
      /\ rec.poisoned = runs[r].poisoned
  BY <1>1 DEF RunType
<1>3. /\ runs' = [runs EXCEPT ![r] = rec]
      /\ UNCHANGED <<broker, cur, completions, meta, saved, proc, task, made, requests, crashes, raced,
                     leaked, wanted, contested>>
  BY DEF TerminateResumes, history, memory, disk
<1> HIDE DEF rec
<1>4. Typed'
  BY <1>1, <1>2, <1>3, <1>0, Zero DEF Typed
<1>5. Pointers'
  BY <1>1, <1>2, <1>3, <1>0 DEF Pointers, Typed
<1>6. Forgotten'
  BY <1>1, <1>2, <1>3, <1>0, NoRunFields DEF Forgotten, Typed
<1>7. ASSUME Kept' PROVE Single' /\ Launches' /\ Known' /\ Restarts' /\ Recorded' /\ Counted' /\ Stops'
  <2>1. Kept /\ Single /\ Launches /\ Known /\ Restarts /\ Recorded /\ Counted /\ Stops
    BY <1>7, <1>1, <1>2, <1>3 DEF IInv, Kept
  <2>2. r = cur /\ Launching = {}
    BY <1>0, <1>1, <2>1 DEF Restarts, Launches, Launching, Pointers, Typed
  <2>3. broker # "down"
    BY <1>0, <1>1, NoRunFields DEF Forgotten
  <2>4. Single'
    BY <1>1, <1>2, <1>3, <1>0, <2>1, <2>2, <2>3 DEF Single, Attended, Typed
  <2>5. Launches'
    BY <1>1, <1>2, <1>3, <1>0, <2>1, <2>2, <2>3 DEF Launches, Launching, Starting, Attended, Key, Typed
  <2>6. Known'
    BY <1>1, <1>2, <1>3, <1>0, <2>1, <2>2, <2>3 DEF Known, Living, Typed
  <2>7. Restarts'
    BY <1>1, <1>2, <1>3, <1>0, <2>1, <2>2, <2>3 DEF Restarts, Attended, Key, Typed
  <2>8. Recorded'
    BY <1>1, <1>2, <1>3, <1>0, <2>1, <2>2, <2>3 DEF Recorded, Living, Typed
  <2>9. Counted'
    BY <1>1, <1>2, <1>3, <1>0, <2>1, <2>2, <2>3 DEF Counted, Living, Typed
  <2>10. Stops'
    BY <1>1, <1>2, <1>3, <1>0, <2>1, <2>2, <2>3 DEF Stops, Quiet, Attended, Launching, Typed
  <2> QED
    BY <2>4, <2>5, <2>6, <2>7, <2>8, <2>9, <2>10
<1> QED
  BY <1>4, <1>5, <1>6, <1>7 DEF IInv

\* The victim is the process that lives.
LEMMA TerminateKillsKeeps ==
  ASSUME IInv, NEW r \in Runs, TerminateResumes(r), runs[r].state # "done", runs[r].launching # "failed",
     ~(runs[r].recovered /\ runs[r].ident = 0)
  PROVE  IInv'
<1>0. Typed /\ Pointers /\ Forgotten
  BY DEF IInv
<1> DEFINE rec == [runs[r] EXCEPT !.state = "stopping", !.stop = "killing", !.victim = runs[r].ident]
<1>1. runs[r] \in RunType /\ runs[r].stop = "waiting" /\ runs[r].launching \notin Threads
  BY <1>0 DEF TerminateResumes, Typed
<1>2. /\ rec \in RunType /\ rec.state = "stopping" /\ rec.stopping = runs[r].stopping
      /\ rec.recovered = runs[r].recovered /\ rec.timer = runs[r].timer
      /\ rec.count = runs[r].count /\ rec.ident = runs[r].ident
      /\ rec.launching = runs[r].launching /\ rec.stop = "killing" /\ rec.victim = runs[r].ident
      /\ rec.poisoned = runs[r].poisoned
  BY <1>1 DEF RunType, States
<1>3. /\ runs' = [runs EXCEPT ![r].state = "stopping", ![r].stop = "killing", ![r].victim = runs[r].ident]
      /\ Write(r, runs'[r])
  BY DEF TerminateResumes
<1>4. runs' = [runs EXCEPT ![r] = rec]
  BY <1>0, <1>3, Zenon DEF Typed
<1>5. runs'[r] = rec
  BY <1>0, <1>4 DEF Typed
<1>6. /\ meta' = [run |-> r, state |-> rec.state, ident |-> rec.ident, count |-> rec.count, boot |-> "this"]
      /\ saved' = IF rec.state = "done" THEN saved \cup {<<r, rec.count>>} ELSE saved
      /\ UNCHANGED <<broker, cur, completions, proc, task, made, requests, crashes, raced, leaked, wanted,
                     contested>>
  BY <1>3, <1>5 DEF TerminateResumes, Write, history, memory, disk
<1> HIDE DEF rec
<1>7. Typed'
  BY <1>1, <1>2, <1>4, <1>6, <1>0, Zero DEF MetaType, RunType, Typed
<1>8. Pointers'
  BY <1>1, <1>2, <1>4, <1>6, <1>0 DEF Pointers, Typed
<1>9. Forgotten'
  BY <1>1, <1>2, <1>4, <1>6, <1>0, NoRunFields DEF Forgotten, Typed
<1>10. ASSUME Kept' PROVE Single' /\ Launches' /\ Known' /\ Restarts' /\ Recorded' /\ Counted' /\ Stops'
  <2>1. Kept /\ Single /\ Launches /\ Known /\ Restarts /\ Recorded /\ Counted /\ Stops
    BY <1>10, <1>1, <1>2, <1>4, <1>6 DEF IInv, Kept
  <2>2. r = cur /\ Launching = {}
    BY <1>0, <1>1, <2>1 DEF Restarts, Launches, Launching, Pointers, Typed
  <2>3. broker # "down"
    BY <1>0, <1>1, NoRunFields DEF Forgotten
  <2>4. Single'
    BY <1>1, <1>2, <1>4, <1>6, <1>0, <2>1, <2>2, <2>3 DEF Single, Attended, Typed
  <2>5. Launches'
    BY <1>1, <1>2, <1>4, <1>6, <1>0, <2>1, <2>2, <2>3 DEF Launches, Launching, Starting, Attended, Key, Typed
  <2>6. Known'
    BY <1>1, <1>2, <1>4, <1>6, <1>0, <2>1, <2>2, <2>3 DEF Known, Launches, Living, Launching, Starting,
       Attended, Key, Typed
  <2>7. Restarts'
    BY <1>1, <1>2, <1>4, <1>6, <1>0, <2>1, <2>2, <2>3 DEF Restarts, Attended, Key, Typed
  <2>8. Recorded'
    BY <1>1, <1>2, <1>4, <1>6, <1>0, <2>1, <2>2, <2>3 DEF Recorded, Single, Attended, Known, Launching,
       Living, Typed
  <2>9. Counted'
    BY <1>1, <1>2, <1>4, <1>6, <1>0, <2>1, <2>2, <2>3 DEF Counted, RunType, MetaType, Living, Typed
  <2>10. Stops'
    BY <1>1, <1>2, <1>4, <1>6, <1>0, <2>1, <2>2, <2>3 DEF Stops, Quiet, Attended, Launching, Typed
  <2> QED
    BY <2>4, <2>5, <2>6, <2>7, <2>8, <2>9, <2>10
<1> QED
  BY <1>7, <1>8, <1>9, <1>10 DEF IInv

LEMMA KillsLiveKeeps ==
  ASSUME IInv, NEW r \in Runs, Kills(r), runs[r].victim # 0, proc[runs[r].victim].st = "live"
  PROVE  IInv'
<1>0. Typed /\ Pointers /\ Forgotten
  BY DEF IInv
<1> DEFINE v == runs[r].victim
           rec == [runs[r] EXCEPT !.stop = "closing"]
           new == [proc[v] EXCEPT !.st = "dead", !.exit = IF @ = "none" /\ proc[v].watched THEN "event" ELSE @]
<1>1. /\ runs[r] \in RunType /\ runs[r].stop = "killing" /\ v \in Procs /\ proc[v] \in ProcType /\ proc[v].st = "live"
  BY <1>0, Zero DEF Kills, Typed, RunType, Procs
<1>2. /\ rec \in RunType /\ rec.state = runs[r].state /\ rec.stopping = runs[r].stopping
      /\ rec.recovered = runs[r].recovered /\ rec.timer = runs[r].timer
      /\ rec.count = runs[r].count /\ rec.ident = runs[r].ident
      /\ rec.launching = runs[r].launching /\ rec.stop = "closing" /\ rec.victim = runs[r].victim
      /\ rec.poisoned = runs[r].poisoned
  BY <1>1 DEF RunType
<1>3. /\ new \in ProcType /\ new.st = "dead" /\ new.run = proc[v].run /\ new.count = proc[v].count
      /\ new.watched = proc[v].watched
      /\ new.exit = (IF proc[v].exit = "none" /\ proc[v].watched THEN "event" ELSE proc[v].exit)
  BY <1>1 DEF ProcType
<1>4. proc' = Ends(v)
  BY <1>1 DEF Kills
<1>5. proc' = [proc EXCEPT ![v] = new]
  BY <1>0, <1>4, Zenon DEF Ends, Typed
<1>6. /\ runs' = [runs EXCEPT ![r] = rec]
      /\ UNCHANGED <<broker, cur, completions, meta, saved, task, made, requests, crashes, raced, leaked,
                     wanted, contested>>
  BY DEF Kills, history, memory, disk
<1> HIDE DEF rec, new
<1>7. v = runs[r].victim
  OBVIOUS
<1> HIDE DEF v
<1>8. Typed'
  BY <1>1, <1>2, <1>3, <1>5, <1>6, <1>7, <1>0, Zero DEF Typed
<1>9. Pointers'
  BY <1>1, <1>2, <1>3, <1>5, <1>6, <1>7, <1>0 DEF Pointers, Typed
<1>10. Forgotten'
  BY <1>1, <1>2, <1>3, <1>5, <1>6, <1>7, <1>0, NoRunFields DEF Forgotten, Typed
<1>11. ASSUME Kept' PROVE Single' /\ Launches' /\ Known' /\ Restarts' /\ Recorded' /\ Counted' /\ Stops'
  <2>1. Kept /\ Single /\ Launches /\ Known /\ Restarts /\ Recorded /\ Counted /\ Stops
    BY <1>11, <1>1, <1>2, <1>3, <1>5, <1>6, <1>7 DEF IInv, Kept
  <2>2. r = cur /\ Launching = {}
    BY <1>0, <1>1, <2>1 DEF Restarts, Launches, Launching, Pointers, Typed
  <2>3. broker # "down"
    BY <1>0, <1>1, NoRunFields DEF Forgotten
  <2>4. Single'
    BY <1>1, <1>2, <1>3, <1>5, <1>6, <1>7, <1>0, <2>1, <2>2, <2>3 DEF Single, Attended, Typed
  <2>5. Launches'
    BY <1>1, <1>2, <1>3, <1>5, <1>6, <1>7, <1>0, <2>1, <2>2, <2>3 DEF Launches, Launching, Starting,
       Attended, Key, Typed
  <2>6. Known'
    BY <1>1, <1>2, <1>3, <1>5, <1>6, <1>7, <1>0, <2>1, <2>2, <2>3 DEF Known, Living, Typed
  <2>7. Restarts'
    BY <1>1, <1>2, <1>3, <1>5, <1>6, <1>7, <1>0, <2>1, <2>2, <2>3 DEF Restarts, Attended, Key, Typed
  <2>8. Recorded'
    BY <1>1, <1>2, <1>3, <1>5, <1>6, <1>7, <1>0, <2>1, <2>2, <2>3 DEF Recorded, Living, Typed
  <2>9. Counted'
    BY <1>1, <1>2, <1>3, <1>5, <1>6, <1>7, <1>0, <2>1, <2>2, <2>3 DEF Counted, Living, Typed
  <2>10. Stops'
    BY <1>1, <1>2, <1>3, <1>5, <1>6, <1>7, <1>0, <2>1, <2>2, <2>3 DEF Stops, Quiet, Attended, Launching, Typed
  <2> QED
    BY <2>4, <2>5, <2>6, <2>7, <2>8, <2>9, <2>10
<1> QED
  BY <1>8, <1>9, <1>10, <1>11 DEF IInv

\* No victim that lives means that no process lives.
LEMMA KillsNoneKeeps ==
  ASSUME IInv, NEW r \in Runs, Kills(r), ~(runs[r].victim # 0 /\ proc[runs[r].victim].st = "live")
  PROVE  IInv'
<1>0. Typed /\ Pointers /\ Forgotten
  BY DEF IInv
<1> DEFINE rec == [runs[r] EXCEPT !.stop = "closing"]
<1>1. runs[r] \in RunType /\ runs[r].stop = "killing"
  BY <1>0 DEF Kills, Typed
<1>2. /\ rec \in RunType /\ rec.state = runs[r].state /\ rec.stopping = runs[r].stopping
      /\ rec.recovered = runs[r].recovered /\ rec.timer = runs[r].timer
      /\ rec.count = runs[r].count /\ rec.ident = runs[r].ident
      /\ rec.launching = runs[r].launching /\ rec.stop = "closing" /\ rec.victim = runs[r].victim
      /\ rec.poisoned = runs[r].poisoned
  BY <1>1 DEF RunType
<1>3. /\ runs' = [runs EXCEPT ![r] = rec]
      /\ UNCHANGED <<broker, cur, completions, meta, saved, proc, task, made, requests, crashes, raced,
                     leaked, wanted, contested>>
  BY DEF Kills, history, memory, disk
<1> HIDE DEF rec
<1>4. Typed'
  BY <1>1, <1>2, <1>3, <1>0, Zero DEF Typed
<1>5. Pointers'
  BY <1>1, <1>2, <1>3, <1>0 DEF Pointers, Typed
<1>6. Forgotten'
  BY <1>1, <1>2, <1>3, <1>0, NoRunFields DEF Forgotten, Typed
<1>7. ASSUME Kept' PROVE Single' /\ Launches' /\ Known' /\ Restarts' /\ Recorded' /\ Counted' /\ Stops'
  <2>1. Kept /\ Single /\ Launches /\ Known /\ Restarts /\ Recorded /\ Counted /\ Stops
    BY <1>7, <1>1, <1>2, <1>3 DEF IInv, Kept
  <2>2. r = cur /\ Launching = {}
    BY <1>0, <1>1, <2>1 DEF Restarts, Launches, Launching, Pointers, Typed
  <2>3. broker # "down"
    BY <1>0, <1>1, NoRunFields DEF Forgotten
  <2>4. Single'
    BY <1>1, <1>2, <1>3, <1>0, <2>1, <2>2, <2>3 DEF Single, Attended, Typed
  <2>5. Launches'
    BY <1>1, <1>2, <1>3, <1>0, <2>1, <2>2, <2>3 DEF Launches, Launching, Starting, Attended, Key, Typed
  <2>6. Known'
    BY <1>1, <1>2, <1>3, <1>0, <2>1, <2>2, <2>3, Zero DEF Known, Procs, Living, Typed
  <2>7. Restarts'
    BY <1>1, <1>2, <1>3, <1>0, <2>1, <2>2, <2>3 DEF Restarts, Attended, Key, Typed
  <2>8. Recorded'
    BY <1>1, <1>2, <1>3, <1>0, <2>1, <2>2, <2>3 DEF Recorded, Living, Typed
  <2>9. Counted'
    BY <1>1, <1>2, <1>3, <1>0, <2>1, <2>2, <2>3 DEF Counted, Living, Typed
  <2>10. Stops'
    BY <1>1, <1>2, <1>3, <1>0, <2>1, <2>2, <2>3 DEF Stops, Quiet, Attended, Launching, Typed
  <2> QED
    BY <2>4, <2>5, <2>6, <2>7, <2>8, <2>9, <2>10
<1> QED
  BY <1>4, <1>5, <1>6, <1>7 DEF IInv

LEMMA KillFailsKeeps ==
  ASSUME IInv, NEW r \in Runs, KillFails(r)
  PROVE  IInv'
<1>0. Typed /\ Pointers /\ Forgotten
  BY DEF IInv
<1> DEFINE rec == [runs[r] EXCEPT !.stop = "failed"]
<1>1. runs[r] \in RunType /\ runs[r].stop = "killing"
  BY <1>0 DEF KillFails, Typed
<1>2. /\ rec \in RunType /\ rec.state = runs[r].state /\ rec.stopping = runs[r].stopping
      /\ rec.recovered = runs[r].recovered /\ rec.timer = runs[r].timer
      /\ rec.count = runs[r].count /\ rec.ident = runs[r].ident
      /\ rec.launching = runs[r].launching /\ rec.stop = "failed" /\ rec.victim = runs[r].victim
      /\ rec.poisoned = runs[r].poisoned
  BY <1>1 DEF RunType
<1>3. /\ runs' = [runs EXCEPT ![r] = rec]
      /\ UNCHANGED <<broker, cur, completions, meta, saved, proc, task, made, requests, crashes, raced,
                     leaked, wanted, contested>>
  BY DEF KillFails, history, memory, disk
<1> HIDE DEF rec
<1>4. Typed'
  BY <1>1, <1>2, <1>3, <1>0, Zero DEF Typed
<1>5. Pointers'
  BY <1>1, <1>2, <1>3, <1>0 DEF Pointers, Typed
<1>6. Forgotten'
  BY <1>1, <1>2, <1>3, <1>0, NoRunFields DEF Forgotten, Typed
<1>7. ASSUME Kept' PROVE Single' /\ Launches' /\ Known' /\ Restarts' /\ Recorded' /\ Counted' /\ Stops'
  <2>1. Kept /\ Single /\ Launches /\ Known /\ Restarts /\ Recorded /\ Counted /\ Stops
    BY <1>7, <1>1, <1>2, <1>3 DEF IInv, Kept
  <2>2. r = cur /\ Launching = {}
    BY <1>0, <1>1, <2>1 DEF Restarts, Launches, Launching, Pointers, Typed
  <2>3. broker # "down"
    BY <1>0, <1>1, NoRunFields DEF Forgotten
  <2>4. Single'
    BY <1>1, <1>2, <1>3, <1>0, <2>1, <2>2, <2>3 DEF Single, Attended, Typed
  <2>5. Launches'
    BY <1>1, <1>2, <1>3, <1>0, <2>1, <2>2, <2>3 DEF Launches, Launching, Starting, Attended, Key, Typed
  <2>6. Known'
    BY <1>1, <1>2, <1>3, <1>0, <2>1, <2>2, <2>3 DEF Known, Living, Typed
  <2>7. Restarts'
    BY <1>1, <1>2, <1>3, <1>0, <2>1, <2>2, <2>3 DEF Restarts, Attended, Key, Typed
  <2>8. Recorded'
    BY <1>1, <1>2, <1>3, <1>0, <2>1, <2>2, <2>3 DEF Recorded, Living, Typed
  <2>9. Counted'
    BY <1>1, <1>2, <1>3, <1>0, <2>1, <2>2, <2>3 DEF Counted, Living, Typed
  <2>10. Stops'
    BY <1>1, <1>2, <1>3, <1>0, <2>1, <2>2, <2>3 DEF Stops, Quiet, Attended, Launching, Typed
  <2> QED
    BY <2>4, <2>5, <2>6, <2>7, <2>8, <2>9, <2>10
<1> QED
  BY <1>4, <1>5, <1>6, <1>7 DEF IInv

\* What is declared over has been killed.
LEMMA TerminatedKeeps ==
  ASSUME IInv, NEW r \in Runs, Terminated(r)
  PROVE  IInv'
<1>0. Typed /\ Pointers /\ Forgotten
  BY DEF IInv
<1> DEFINE rec == [runs[r] EXCEPT !.state = "done", !.ident = 0, !.stop = "ok"]
<1>1. runs[r] \in RunType /\ runs[r].stop = "closing"
  BY <1>0 DEF Terminated, Typed
<1>2. /\ rec \in RunType /\ rec.state = "done" /\ rec.stopping = runs[r].stopping
      /\ rec.recovered = runs[r].recovered /\ rec.timer = runs[r].timer
      /\ rec.count = runs[r].count /\ rec.ident = 0 /\ rec.launching = runs[r].launching
      /\ rec.stop = "ok" /\ rec.victim = runs[r].victim /\ rec.poisoned = runs[r].poisoned
  BY <1>1, Zero DEF RunType, States
<1>3. /\ runs' = [runs EXCEPT ![r] = rec]
      /\ meta' = [run |-> r, state |-> rec.state, ident |-> rec.ident, count |-> rec.count, boot |-> "this"]
      /\ saved' = IF rec.state = "done" THEN saved \cup {<<r, rec.count>>} ELSE saved
      /\ completions' = completions \cup {<<r, runs[r].count>>}
      /\ UNCHANGED <<broker, cur, proc, task, made, requests, crashes, raced, leaked, wanted, contested>>
  BY DEF Terminated, Write, Key, history, memory, disk
<1> HIDE DEF rec
<1>4. Typed'
  BY <1>1, <1>2, <1>3, <1>0, Zero DEF MetaType, RunType, Typed
<1>5. Pointers'
  BY <1>1, <1>2, <1>3, <1>0 DEF Pointers, Typed
<1>6. Forgotten'
  BY <1>1, <1>2, <1>3, <1>0, NoRunFields DEF Forgotten, Typed
<1>7. ASSUME Kept' PROVE Single' /\ Launches' /\ Known' /\ Restarts' /\ Recorded' /\ Counted' /\ Stops'
  <2>1. Kept /\ Single /\ Launches /\ Known /\ Restarts /\ Recorded /\ Counted /\ Stops
    BY <1>7, <1>1, <1>2, <1>3 DEF IInv, Kept
  <2>2. r = cur /\ Launching = {}
    BY <1>0, <1>1, <2>1 DEF Restarts, Launches, Launching, Pointers, Typed
  <2>3. broker # "down"
    BY <1>0, <1>1, NoRunFields DEF Forgotten
  <2>4. Single'
    BY <1>1, <1>2, <1>3, <1>0, <2>1, <2>2, <2>3 DEF Single, Attended, Typed
  <2>5. Launches'
    BY <1>1, <1>2, <1>3, <1>0, <2>1, <2>2, <2>3 DEF Launches, Launching, Starting, Attended, Key, Typed
  <2>6. Known'
    BY <1>1, <1>2, <1>3, <1>0, <2>1, <2>2, <2>3 DEF Known, Living, Typed
  <2>7. Restarts'
    BY <1>1, <1>2, <1>3, <1>0, <2>1, <2>2, <2>3 DEF Restarts, Attended, Key, Typed
  <2>8. Recorded'
    BY <1>1, <1>2, <1>3, <1>0, <2>1, <2>2, <2>3 DEF Recorded, Known, Launching, Living, Typed
  <2>9. Counted'
    BY <1>1, <1>2, <1>3, <1>0, <2>1, <2>2, <2>3 DEF Counted, RunType, MetaType, Known, Living, Typed
  <2>10. Stops'
    BY <1>1, <1>2, <1>3, <1>0, <2>1, <2>2, <2>3 DEF Stops, Quiet, Attended, Launching, Typed
  <2> QED
    BY <2>4, <2>5, <2>6, <2>7, <2>8, <2>9, <2>10
<1> QED
  BY <1>4, <1>5, <1>6, <1>7 DEF IInv

LEMMA CloseTimesOutKeeps ==
  ASSUME IInv, NEW r \in Runs, CloseTimesOut(r)
  PROVE  IInv'
<1>0. Typed /\ Pointers /\ Forgotten
  BY DEF IInv
<1> DEFINE rec == [runs[r] EXCEPT !.stop = "failed"]
<1>1. runs[r] \in RunType /\ runs[r].stop = "closing"
  BY <1>0 DEF CloseTimesOut, Typed
<1>2. /\ rec \in RunType /\ rec.state = runs[r].state /\ rec.stopping = runs[r].stopping
      /\ rec.recovered = runs[r].recovered /\ rec.timer = runs[r].timer
      /\ rec.count = runs[r].count /\ rec.ident = runs[r].ident
      /\ rec.launching = runs[r].launching /\ rec.stop = "failed" /\ rec.victim = runs[r].victim
      /\ rec.poisoned = runs[r].poisoned
  BY <1>1 DEF RunType
<1>3. /\ runs' = [runs EXCEPT ![r] = rec]
      /\ UNCHANGED <<broker, cur, completions, meta, saved, proc, task, made, requests, crashes, raced,
                     leaked, wanted, contested>>
  BY DEF CloseTimesOut, history, memory, disk
<1> HIDE DEF rec
<1>4. Typed'
  BY <1>1, <1>2, <1>3, <1>0, Zero DEF Typed
<1>5. Pointers'
  BY <1>1, <1>2, <1>3, <1>0 DEF Pointers, Typed
<1>6. Forgotten'
  BY <1>1, <1>2, <1>3, <1>0, NoRunFields DEF Forgotten, Typed
<1>7. ASSUME Kept' PROVE Single' /\ Launches' /\ Known' /\ Restarts' /\ Recorded' /\ Counted' /\ Stops'
  <2>1. Kept /\ Single /\ Launches /\ Known /\ Restarts /\ Recorded /\ Counted /\ Stops
    BY <1>7, <1>1, <1>2, <1>3 DEF IInv, Kept
  <2>2. r = cur /\ Launching = {}
    BY <1>0, <1>1, <2>1 DEF Restarts, Launches, Launching, Pointers, Typed
  <2>3. broker # "down"
    BY <1>0, <1>1, NoRunFields DEF Forgotten
  <2>4. Single'
    BY <1>1, <1>2, <1>3, <1>0, <2>1, <2>2, <2>3 DEF Single, Attended, Typed
  <2>5. Launches'
    BY <1>1, <1>2, <1>3, <1>0, <2>1, <2>2, <2>3 DEF Launches, Launching, Starting, Attended, Key, Typed
  <2>6. Known'
    BY <1>1, <1>2, <1>3, <1>0, <2>1, <2>2, <2>3 DEF Known, Living, Typed
  <2>7. Restarts'
    BY <1>1, <1>2, <1>3, <1>0, <2>1, <2>2, <2>3 DEF Restarts, Attended, Key, Typed
  <2>8. Recorded'
    BY <1>1, <1>2, <1>3, <1>0, <2>1, <2>2, <2>3 DEF Recorded, Living, Typed
  <2>9. Counted'
    BY <1>1, <1>2, <1>3, <1>0, <2>1, <2>2, <2>3 DEF Counted, Living, Typed
  <2>10. Stops'
    BY <1>1, <1>2, <1>3, <1>0, <2>1, <2>2, <2>3 DEF Stops, Quiet, Attended, Launching, Typed
  <2> QED
    BY <2>4, <2>5, <2>6, <2>7, <2>8, <2>9, <2>10
<1> QED
  BY <1>4, <1>5, <1>6, <1>7 DEF IInv

-----------------------------------------------------------------------------
(* Steps of the broker. *)

LEMMA ShutdownIdleKeeps ==
  ASSUME IInv, ShutdownBegins, cur = 0
  PROVE  IInv'
<1>0. Typed /\ Pointers /\ Forgotten
  BY DEF IInv
<1>1. /\ broker = "up" /\ broker' = "closing"
      /\ UNCHANGED <<cur, runs, completions, meta, saved, proc, task, made, requests, crashes, raced,
                     leaked, wanted, contested>>
  BY DEF ShutdownBegins, history, memory, disk
<1>2. Typed'
  BY <1>1, <1>0, Zero DEF Typed
<1>3. Pointers'
  BY <1>1, <1>0 DEF Pointers, Typed
<1>4. Forgotten'
  BY <1>1, <1>0 DEF Forgotten, Typed
<1>5. ASSUME Kept' PROVE Single' /\ Launches' /\ Known' /\ Restarts' /\ Recorded' /\ Counted' /\ Stops'
  <2>1. Kept /\ Single /\ Launches /\ Known /\ Restarts /\ Recorded /\ Counted /\ Stops
    BY <1>5, <1>1 DEF IInv, Kept
  <2>2. Single'
    BY <1>1, <1>0, <2>1 DEF Single, Attended, Typed
  <2>3. Launches'
    BY <1>1, <1>0, <2>1 DEF Launches, Launching, Starting, Attended, Key, Typed
  <2>4. Known'
    BY <1>1, <1>0, <2>1 DEF Known, Living, Typed
  <2>5. Restarts'
    BY <1>1, <1>0, <2>1 DEF Restarts, Attended, Key, Typed
  <2>6. Recorded'
    BY <1>1, <1>0, <2>1 DEF Recorded, Living, Typed
  <2>7. Counted'
    BY <1>1, <1>0, <2>1 DEF Counted, Living, Typed
  <2>8. Stops'
    BY <1>1, <1>0, <2>1 DEF Stops, Quiet, Attended, Launching, Typed
  <2> QED
    BY <2>2, <2>3, <2>4, <2>5, <2>6, <2>7, <2>8
<1> QED
  BY <1>2, <1>3, <1>4, <1>5 DEF IInv

LEMMA ShutdownStopsKeeps ==
  ASSUME IInv, ShutdownBegins, cur # 0
  PROVE  IInv'
<1>0. Typed /\ Pointers /\ Forgotten
  BY DEF IInv
<1> DEFINE r == cur
           rec == [runs[r] EXCEPT !.stopping = TRUE, !.timer = FALSE]
<1>1. r \in Runs /\ runs[r] \in RunType
  BY <1>0, Zero DEF Typed, Runs
<1>2. /\ rec \in RunType /\ rec.state = runs[r].state /\ rec.stopping
      /\ rec.recovered = runs[r].recovered /\ ~rec.timer /\ rec.count = runs[r].count
      /\ rec.ident = runs[r].ident /\ rec.launching = runs[r].launching /\ rec.stop = runs[r].stop
      /\ rec.victim = runs[r].victim /\ rec.poisoned = runs[r].poisoned
  BY <1>1 DEF RunType
<1>3. runs' = [runs EXCEPT ![r] = rec]
  BY <1>0, Zenon DEF ShutdownBegins, Typed
<1>4. /\ broker = "up" /\ broker' = "closing"
      /\ UNCHANGED <<cur, completions, meta, saved, proc, task, made, requests, crashes, raced, leaked,
                     wanted, contested>>
  BY DEF ShutdownBegins, history, memory, disk
<1> HIDE DEF rec
<1>5. r = cur
  OBVIOUS
<1> HIDE DEF r
<1>6. Typed'
  BY <1>1, <1>2, <1>3, <1>4, <1>5, <1>0, Zero DEF Typed
<1>7. Pointers'
  BY <1>1, <1>2, <1>3, <1>4, <1>5, <1>0 DEF Pointers, Typed
<1>8. Forgotten'
  BY <1>1, <1>2, <1>3, <1>4, <1>5, <1>0 DEF Forgotten, Typed
<1>9. ASSUME Kept' PROVE Single' /\ Launches' /\ Known' /\ Restarts' /\ Recorded' /\ Counted' /\ Stops'
  <2>1. Kept /\ Single /\ Launches /\ Known /\ Restarts /\ Recorded /\ Counted /\ Stops
    BY <1>9, <1>1, <1>2, <1>3, <1>4, <1>5 DEF IInv, Kept
  <2>2. Single'
    BY <1>1, <1>2, <1>3, <1>4, <1>5, <1>0, <2>1 DEF Single, Attended, Typed
  <2>3. Launches'
    BY <1>1, <1>2, <1>3, <1>4, <1>5, <1>0, <2>1 DEF Launches, Launching, Starting, Attended, Key, Typed
  <2>4. Known'
    BY <1>1, <1>2, <1>3, <1>4, <1>5, <1>0, <2>1 DEF Known, Living, Typed
  <2>5. Restarts'
    BY <1>1, <1>2, <1>3, <1>4, <1>5, <1>0, <2>1 DEF Restarts, Attended, Key, Typed
  <2>6. Recorded'
    BY <1>1, <1>2, <1>3, <1>4, <1>5, <1>0, <2>1 DEF Recorded, Living, Typed
  <2>7. Counted'
    BY <1>1, <1>2, <1>3, <1>4, <1>5, <1>0, <2>1 DEF Counted, Living, Typed
  <2>8. Stops'
    BY <1>1, <1>2, <1>3, <1>4, <1>5, <1>0, <2>1 DEF Stops, Quiet, Attended, Launching, Typed
  <2> QED
    BY <2>2, <2>3, <2>4, <2>5, <2>6, <2>7, <2>8
<1> QED
  BY <1>6, <1>7, <1>8, <1>9 DEF IInv

\* A released process keeps its record.
LEMMA ShutdownReleasesKeeps ==
  ASSUME IInv, ShutdownRun,
     runs[cur].launching # "failed" /\ Detached /\ runs[cur].stop = "none" /\ ~Finished(cur) /\ runs[cur].ident # 0
  PROVE  IInv'
<1>0. Typed /\ Pointers /\ Forgotten
  BY DEF IInv
<1>1. /\ broker = "closing" /\ broker' = "leaving"
      /\ proc' = [p \in Procs |-> IF proc[p].run = cur THEN [proc[p] EXCEPT !.watched = FALSE] ELSE proc[p]]
      /\ UNCHANGED <<cur, runs, completions, meta, saved, task, made, requests, crashes, raced, leaked,
                     wanted, contested>>
  BY DEF ShutdownRun, history, memory, disk
<1>2. /\ proc' \in [Procs -> ProcType]
      /\ \A p \in Procs : /\ proc'[p].st = proc[p].st /\ proc'[p].run = proc[p].run
                          /\ proc'[p].count = proc[p].count /\ proc'[p].exit = proc[p].exit
  BY <1>0, <1>1 DEF Typed, ProcType
<1>3. /\ broker = "closing" /\ broker' = "leaving"
      /\ UNCHANGED <<cur, runs, completions, meta, saved, task, made, requests, crashes, raced, leaked,
                     wanted, contested>>
  BY <1>1
<1>4. Typed'
  BY <1>2, <1>3, <1>0, Zero DEF Typed
<1>5. Pointers'
  BY <1>2, <1>3, <1>0 DEF Pointers, Typed
<1>6. Forgotten'
  BY <1>2, <1>3, <1>0 DEF Forgotten, Typed
<1>7. ASSUME Kept' PROVE Single' /\ Launches' /\ Known' /\ Restarts' /\ Recorded' /\ Counted' /\ Stops'
  <2>1. Kept /\ Single /\ Launches /\ Known /\ Restarts /\ Recorded /\ Counted /\ Stops
    BY <1>7, <1>2, <1>3 DEF IInv, Kept
  <2>2. Single'
    BY <1>2, <1>3, <1>0, <2>1 DEF Single, Attended, Typed
  <2>3. Launches'
    BY <1>2, <1>3, <1>0, <2>1 DEF Launches, Launching, Starting, Attended, Key, Typed
  <2>4. Known'
    BY <1>2, <1>3, <1>0, <2>1 DEF Known, Living, Typed
  <2>5. Restarts'
    BY <1>2, <1>3, <1>0, <2>1 DEF Restarts, Attended, Key, Typed
  <2>6. Recorded'
    BY <1>2, <1>3, <1>0, <2>1 DEF Recorded, Living, Typed
  <2>7. Counted'
    BY <1>2, <1>3, <1>0, <2>1 DEF Counted, Living, Typed
  <2>8. Stops'
    BY <1>2, <1>3, <1>0, <2>1 DEF Stops, Quiet, Attended, Launching, Typed
  <2> QED
    BY <2>2, <2>3, <2>4, <2>5, <2>6, <2>7, <2>8
<1> QED
  BY <1>4, <1>5, <1>6, <1>7 DEF IInv

LEMMA ShutdownRefusedKeeps ==
  ASSUME IInv, ShutdownRun, runs[cur].launching = "failed"
  PROVE  IInv'
<1>0. Typed /\ Pointers /\ Forgotten
  BY DEF IInv
<1>1. /\ broker = "closing" /\ broker' = "leaving"
      /\ UNCHANGED <<cur, runs, completions, meta, saved, proc, task, made, requests, crashes, raced,
                     leaked, wanted, contested>>
  BY DEF ShutdownRun, history, memory, disk
<1>2. Typed'
  BY <1>1, <1>0, Zero DEF Typed
<1>3. Pointers'
  BY <1>1, <1>0 DEF Pointers, Typed
<1>4. Forgotten'
  BY <1>1, <1>0 DEF Forgotten, Typed
<1>5. ASSUME Kept' PROVE Single' /\ Launches' /\ Known' /\ Restarts' /\ Recorded' /\ Counted' /\ Stops'
  <2>1. Kept /\ Single /\ Launches /\ Known /\ Restarts /\ Recorded /\ Counted /\ Stops
    BY <1>5, <1>1 DEF IInv, Kept
  <2>2. Single'
    BY <1>1, <1>0, <2>1 DEF Single, Attended, Typed
  <2>3. Launches'
    BY <1>1, <1>0, <2>1 DEF Launches, Launching, Starting, Attended, Key, Typed
  <2>4. Known'
    BY <1>1, <1>0, <2>1 DEF Known, Living, Typed
  <2>5. Restarts'
    BY <1>1, <1>0, <2>1 DEF Restarts, Attended, Key, Typed
  <2>6. Recorded'
    BY <1>1, <1>0, <2>1 DEF Recorded, Living, Typed
  <2>7. Counted'
    BY <1>1, <1>0, <2>1 DEF Counted, Living, Typed
  <2>8. Stops'
    BY <1>1, <1>0, <2>1 DEF Stops, Quiet, Attended, Launching, Typed
  <2> QED
    BY <2>2, <2>3, <2>4, <2>5, <2>6, <2>7, <2>8
<1> QED
  BY <1>2, <1>3, <1>4, <1>5 DEF IInv

LEMMA ShutdownCallsKeeps ==
  ASSUME IInv, ShutdownRun, runs[cur].launching # "failed",
     ~(runs[cur].launching # "failed" /\ Detached /\ runs[cur].stop = "none" /\ ~Finished(cur) /\ runs[cur].ident # 0)
  PROVE  IInv'
<1>0. Typed /\ Pointers /\ Forgotten
  BY DEF IInv
<1> DEFINE r == cur
           rec == CallStop(runs[r])
<1>1. r \in Runs /\ runs[r] \in RunType
  BY <1>0, Zero DEF ShutdownRun, Typed, Runs
<1>2. /\ rec \in RunType /\ rec.state = runs[r].state /\ rec.recovered = runs[r].recovered
      /\ rec.count = runs[r].count /\ rec.ident = runs[r].ident /\ rec.launching = runs[r].launching
      /\ rec.victim = runs[r].victim
      /\ \/ rec = runs[r] /\ runs[r].stop # "none"
         \/ rec.stopping /\ ~rec.timer /\ runs[r].stop = "none" /\ rec.stop = "ok" /\ runs[r].state = "done"
         \/ rec.stopping /\ ~rec.timer /\ runs[r].stop = "none" /\ rec.stop = "waiting" /\ runs[r].state # "done"
  BY <1>1, CallStopFields
<1>3. /\ runs' = [runs EXCEPT ![r] = rec] /\ broker = "closing" /\ broker' = "leaving"
      /\ UNCHANGED <<cur, completions, meta, saved, proc, task, made, requests, crashes, raced, leaked,
                     wanted, contested>>
  BY DEF ShutdownRun, history, memory, disk
<1> HIDE DEF rec
<1>4. r = cur
  OBVIOUS
<1> HIDE DEF r
<1>5. Typed'
  BY <1>1, <1>2, <1>3, <1>4, <1>0, Zero DEF Typed
<1>6. Pointers'
  BY <1>1, <1>2, <1>3, <1>4, <1>0 DEF Pointers, Typed
<1>7. Forgotten'
  BY <1>1, <1>2, <1>3, <1>4, <1>0 DEF Forgotten, Typed
<1>8. ASSUME Kept' PROVE Single' /\ Launches' /\ Known' /\ Restarts' /\ Recorded' /\ Counted' /\ Stops'
  <2>1. Kept /\ Single /\ Launches /\ Known /\ Restarts /\ Recorded /\ Counted /\ Stops
    BY <1>8, <1>1, <1>2, <1>3, <1>4 DEF IInv, Kept
  <2>2. Single'
    BY <1>1, <1>2, <1>3, <1>4, <1>0, <2>1 DEF Single, Attended, Typed
  <2>3. Launches'
    BY <1>1, <1>2, <1>3, <1>4, <1>0, <2>1 DEF Launches, Launching, Starting, Attended, Key, Typed
  <2>4. Known'
    BY <1>1, <1>2, <1>3, <1>4, <1>0, <2>1 DEF Known, Living, Typed
  <2>5. Restarts'
    BY <1>1, <1>2, <1>3, <1>4, <1>0, <2>1 DEF Restarts, Attended, Key, Typed
  <2>6. Recorded'
    BY <1>1, <1>2, <1>3, <1>4, <1>0, <2>1 DEF Recorded, Living, Typed
  <2>7. Counted'
    BY <1>1, <1>2, <1>3, <1>4, <1>0, <2>1 DEF Counted, Living, Typed
  <2>8. Stops'
    BY <1>1, <1>2, <1>3, <1>4, <1>0, <2>1 DEF Stops, Quiet, Attended, Launching, Typed
  <2> QED
    BY <2>2, <2>3, <2>4, <2>5, <2>6, <2>7, <2>8
<1> QED
  BY <1>5, <1>6, <1>7, <1>8 DEF IInv

\* The record on disk tells of the process that is left behind.
LEMMA BrokerExitsKeeps ==
  ASSUME IInv, BrokerExits
  PROVE  IInv'
<1>0. Typed /\ Pointers /\ Forgotten
  BY DEF IInv
<1>1. proc' = [p \in Procs |-> [proc[p] EXCEPT !.watched = FALSE, !.exit = "none", !.again = FALSE]]
  BY DEF BrokerExits
<1>2. /\ proc' \in [Procs -> ProcType]
      /\ \A p \in Procs : /\ proc'[p].exit = "none" /\ ~proc'[p].watched /\ proc'[p].st = proc[p].st
                          /\ proc'[p].run = proc[p].run /\ proc'[p].count = proc[p].count
  <2>1. \A p \in Procs : proc[p] \in ProcType
    BY <1>0 DEF Typed
  <2>2. \A x \in ProcType :
          LET y == [x EXCEPT !.watched = FALSE, !.exit = "none", !.again = FALSE]
          IN  /\ y \in ProcType /\ y.exit = "none" /\ ~y.watched /\ y.st = x.st
              /\ y.run = x.run /\ y.count = x.count
    BY DEF ProcType
  <2> QED
    BY <1>1, <2>1, <2>2
<1>3. /\ broker' = "down" /\ cur' = 0 /\ completions' = {} /\ contested' = {}
      /\ runs' = [r \in Runs |-> NoRun] /\ task' = [t \in Threads |-> NoTask]
  BY DEF BrokerExits, BrokerGone
<1>4. /\ runs' \in [Runs -> RunType] /\ task' \in [Threads -> TaskType]
      /\ \A r \in Runs : runs'[r] = NoRun /\ ~runs'[r].timer /\ runs'[r].stop = "none" /\ runs'[r].launching = "none"
      /\ \A t \in Threads : task'[t].pc = "idle" /\ task'[t].op = "none"
  BY <1>3, NoRunFields, NoTaskFields
<1>5. broker' = "down" /\ cur' = 0 /\ completions' = {} /\ contested' = {}
  BY <1>3
<1>6. UNCHANGED <<meta, saved, made, requests, raced, leaked, wanted>>
  BY DEF BrokerExits, disk
<1>7. crashes' \in 0..MaxCrashes
  BY <1>0, Zero DEF BrokerExits, Typed
<1>8. Typed'
  BY <1>2, <1>4, <1>5, <1>6, <1>7, <1>0, Zero DEF Typed
<1>9. Pointers'
  BY <1>2, <1>4, <1>5, <1>6, <1>7, <1>0 DEF Pointers, Typed
<1>10. Forgotten'
  BY <1>2, <1>4, <1>5, <1>6, <1>7, <1>0 DEF Forgotten, Typed
<1>11. ASSUME Kept' PROVE Single' /\ Launches' /\ Known' /\ Restarts' /\ Recorded' /\ Counted' /\ Stops'
  <2>1. Kept /\ Single /\ Launches /\ Known /\ Restarts /\ Recorded /\ Counted /\ Stops
    BY <1>11, <1>2, <1>4, <1>5, <1>6, <1>7 DEF IInv, Kept
  <2>2. \A e \in saved : e[1] # 0 /\ e[1] \in Int /\ e[2] \in Int
    BY <1>0, Zero DEF Typed, Runs
  <2>3. Single'
    BY <1>2, <1>4, <1>5, <1>6, <1>7, <1>0, <2>1, <2>2 DEF Single, Attended, Typed
  <2>4. Launches'
    BY <1>2, <1>4, <1>5, <1>6, <1>7, <1>0, <2>1, <2>2, NoThread DEF Launches, Launching, Starting,
       Attended, Key, Typed
  <2>5. Known'
    BY <1>2, <1>4, <1>5, <1>6, <1>7, <1>0, <2>1, <2>2 DEF Known, Living, Typed
  <2>6. Restarts'
    BY <1>2, <1>4, <1>5, <1>6, <1>7, <1>0, <2>1, <2>2, NoThread, Zero DEF Restarts, Runs, Attended, Key, Typed
  <2>7. Recorded'
    BY <1>2, <1>4, <1>5, <1>6, <1>7, <1>0, <2>1, <2>2 DEF Recorded, Living, Typed
  <2>8. Counted'
    BY <1>2, <1>4, <1>5, <1>6, <1>7, <1>0, <2>1, <2>2 DEF Counted, Living, Typed
  <2>9. Stops'
    BY <1>2, <1>4, <1>5, <1>6, <1>7, <1>0, <2>1, <2>2 DEF Stops, Threads, Quiet, Attended, Launching, Typed
  <2> QED
    BY <2>3, <2>4, <2>5, <2>6, <2>7, <2>8, <2>9
<1> QED
  BY <1>8, <1>9, <1>10, <1>11 DEF IInv

LEMMA CrashKeeps ==
  ASSUME IInv, Crash
  PROVE  IInv'
<1>0. Typed /\ Pointers /\ Forgotten
  BY DEF IInv
<1>1. proc' = [p \in Procs |-> [proc[p] EXCEPT !.watched = FALSE, !.exit = "none", !.again = FALSE]]
  BY DEF Crash
<1>2. /\ proc' \in [Procs -> ProcType]
      /\ \A p \in Procs : /\ proc'[p].exit = "none" /\ ~proc'[p].watched /\ proc'[p].st = proc[p].st
                          /\ proc'[p].run = proc[p].run /\ proc'[p].count = proc[p].count
  <2>1. \A p \in Procs : proc[p] \in ProcType
    BY <1>0 DEF Typed
  <2>2. \A x \in ProcType :
          LET y == [x EXCEPT !.watched = FALSE, !.exit = "none", !.again = FALSE]
          IN  /\ y \in ProcType /\ y.exit = "none" /\ ~y.watched /\ y.st = x.st
              /\ y.run = x.run /\ y.count = x.count
    BY DEF ProcType
  <2> QED
    BY <1>1, <2>1, <2>2
<1>3. /\ broker' = "down" /\ cur' = 0 /\ completions' = {} /\ contested' = {}
      /\ runs' = [r \in Runs |-> NoRun] /\ task' = [t \in Threads |-> NoTask]
  BY DEF Crash, BrokerGone
<1>4. /\ runs' \in [Runs -> RunType] /\ task' \in [Threads -> TaskType]
      /\ \A r \in Runs : runs'[r] = NoRun /\ ~runs'[r].timer /\ runs'[r].stop = "none" /\ runs'[r].launching = "none"
      /\ \A t \in Threads : task'[t].pc = "idle" /\ task'[t].op = "none"
  BY <1>3, NoRunFields, NoTaskFields
<1>5. broker' = "down" /\ cur' = 0 /\ completions' = {} /\ contested' = {}
  BY <1>3
<1>6. UNCHANGED <<meta, saved, made, requests, raced, leaked, wanted>>
  BY DEF Crash, disk
<1>7. crashes < MaxCrashes /\ crashes' = crashes + 1
  BY DEF Crash
<1>8. crashes' \in 0..MaxCrashes
  BY <1>0, <1>7, Zero DEF Typed
<1>9. Typed'
  BY <1>2, <1>4, <1>5, <1>6, <1>8, <1>0, Zero DEF Typed
<1>10. Pointers'
  BY <1>2, <1>4, <1>5, <1>6, <1>8, <1>0 DEF Pointers, Typed
<1>11. Forgotten'
  BY <1>2, <1>4, <1>5, <1>6, <1>8, <1>0 DEF Forgotten, Typed
<1>12. ASSUME Kept' PROVE Single' /\ Launches' /\ Known' /\ Restarts' /\ Recorded' /\ Counted' /\ Stops'
  <2>1. Kept /\ Single /\ Launches /\ Known /\ Restarts /\ Recorded /\ Counted /\ Stops
    BY <1>12, <1>2, <1>4, <1>5, <1>6, <1>8 DEF IInv, Kept
  <2>2. \A e \in saved : e[1] # 0 /\ e[1] \in Int /\ e[2] \in Int
    BY <1>0, Zero DEF Typed, Runs
  <2>3. Single'
    BY <1>2, <1>4, <1>5, <1>6, <1>8, <1>0, <2>1, <2>2 DEF Single, Attended, Typed
  <2>4. Launches'
    BY <1>2, <1>4, <1>5, <1>6, <1>8, <1>0, <2>1, <2>2, NoThread DEF Launches, Launching, Starting,
       Attended, Key, Typed
  <2>5. Known'
    BY <1>2, <1>4, <1>5, <1>6, <1>8, <1>0, <2>1, <2>2 DEF Known, Living, Typed
  <2>6. Restarts'
    BY <1>2, <1>4, <1>5, <1>6, <1>8, <1>0, <2>1, <2>2, NoThread, Zero DEF Restarts, Runs, Attended, Key, Typed
  <2>7. Recorded'
    BY <1>2, <1>4, <1>5, <1>6, <1>8, <1>0, <2>1, <2>2 DEF Recorded, Living, Typed
  <2>8. Counted'
    BY <1>2, <1>4, <1>5, <1>6, <1>8, <1>0, <2>1, <2>2 DEF Counted, Living, Typed
  <2>9. Stops'
    BY <1>2, <1>4, <1>5, <1>6, <1>8, <1>0, <2>1, <2>2 DEF Stops, Threads, Quiet, Attended, Launching, Typed
  <2> QED
    BY <2>3, <2>4, <2>5, <2>6, <2>7, <2>8, <2>9
<1> QED
  BY <1>9, <1>10, <1>11, <1>12 DEF IInv

LEMMA RebootKeeps ==
  ASSUME IInv, Reboot
  PROVE  IInv'
<1>0. Typed /\ Pointers /\ Forgotten
  BY DEF IInv
<1>1. \A p \in Procs : proc'[p].st # "live" /\ proc'[p].exit = "none" /\ ~proc'[p].watched
  BY DEF Reboot, NoProc
<1>2. proc' \in [Procs -> ProcType]
  BY <1>0, Zero DEF Reboot, NoProc, Typed, ProcType
<1>3. /\ broker' = "down" /\ cur' = 0 /\ completions' = {} /\ contested' = {}
      /\ runs' = [r \in Runs |-> NoRun] /\ task' = [t \in Threads |-> NoTask]
  BY DEF Reboot, BrokerGone
<1>4. /\ runs' \in [Runs -> RunType] /\ task' \in [Threads -> TaskType]
      /\ \A r \in Runs : runs'[r] = NoRun /\ ~runs'[r].timer /\ runs'[r].stop = "none" /\ runs'[r].launching = "none"
      /\ \A t \in Threads : task'[t].pc = "idle" /\ task'[t].op = "none"
  BY <1>3, NoRunFields, NoTaskFields
<1>5. broker' = "down" /\ cur' = 0 /\ completions' = {} /\ contested' = {}
  BY <1>3
<1>6. meta' \in MetaType /\ meta'.run = meta.run /\ meta'.count = meta.count
  BY <1>0 DEF Reboot, Typed, MetaType
<1>7. UNCHANGED <<saved, made, requests, raced, leaked, wanted>>
  BY DEF Reboot
<1>8. crashes < MaxCrashes /\ crashes' = crashes + 1
  BY DEF Reboot
<1>9. crashes' \in 0..MaxCrashes
  BY <1>0, <1>8, Zero DEF Typed
<1>10. Typed'
  BY <1>1, <1>2, <1>4, <1>5, <1>6, <1>7, <1>9, <1>0, Zero DEF Typed
<1>11. Pointers'
  BY <1>1, <1>2, <1>4, <1>5, <1>6, <1>7, <1>9, <1>0 DEF Pointers, Typed
<1>12. Forgotten'
  BY <1>1, <1>2, <1>4, <1>5, <1>6, <1>7, <1>9, <1>0 DEF Forgotten, Typed
<1>13. ASSUME Kept' PROVE Single' /\ Launches' /\ Known' /\ Restarts' /\ Recorded' /\ Counted' /\ Stops'
  <2>1. Kept /\ Single /\ Launches /\ Known /\ Restarts /\ Recorded /\ Counted /\ Stops
    BY <1>13, <1>1, <1>2, <1>4, <1>5, <1>6, <1>7, <1>9 DEF IInv, Kept
  <2>2. \A e \in saved : e[1] # 0 /\ e[1] \in Int /\ e[2] \in Int
    BY <1>0, Zero DEF Typed, Runs
  <2>3. Single'
    BY <1>1, <1>2, <1>4, <1>5, <1>6, <1>7, <1>9, <1>0, <2>1, <2>2 DEF Single, Attended, Typed
  <2>4. Launches'
    BY <1>1, <1>2, <1>4, <1>5, <1>6, <1>7, <1>9, <1>0, <2>1, <2>2, NoThread DEF Launches, Launching,
       Starting, Attended, Key, Typed
  <2>5. Known'
    BY <1>1, <1>2, <1>4, <1>5, <1>6, <1>7, <1>9, <1>0, <2>1, <2>2 DEF Known, Living, Typed
  <2>6. Restarts'
    BY <1>1, <1>2, <1>4, <1>5, <1>6, <1>7, <1>9, <1>0, <2>1, <2>2, NoThread, Zero DEF Restarts, Runs,
       Attended, Key, Typed
  <2>7. Recorded'
    BY <1>1, <1>2, <1>4, <1>5, <1>6, <1>7, <1>9, <1>0, <2>1, <2>2 DEF Recorded, Living, Typed
  <2>8. Counted'
    BY <1>1, <1>2, <1>4, <1>5, <1>6, <1>7, <1>9, <1>0, <2>1, <2>2 DEF Counted, Living, Typed
  <2>9. Stops'
    BY <1>1, <1>2, <1>4, <1>5, <1>6, <1>7, <1>9, <1>0, <2>1, <2>2 DEF Stops, Threads, Quiet, Attended,
       Launching, Typed
  <2> QED
    BY <2>3, <2>4, <2>5, <2>6, <2>7, <2>8, <2>9
<1> QED
  BY <1>10, <1>11, <1>12, <1>13 DEF IInv

\* No record means no process.
LEMMA RecoverNothingKeeps ==
  ASSUME IInv, Recover, meta.run = 0
  PROVE  IInv'
<1>0. Typed /\ Pointers /\ Forgotten
  BY DEF IInv
<1>1. /\ broker = "down" /\ broker' = "up" /\ completions' = saved
      /\ UNCHANGED <<cur, runs, meta, saved, proc, task, made, requests, crashes, raced, leaked, wanted,
                     contested>>
  BY DEF Recover, history, memory, disk
<1>2. Typed'
  BY <1>1, <1>0, Zero DEF Typed
<1>3. Pointers'
  BY <1>1, <1>0 DEF Pointers, Typed
<1>4. Forgotten'
  BY <1>1, <1>0 DEF Forgotten, Typed
<1>5. ASSUME Kept' PROVE Single' /\ Launches' /\ Known' /\ Restarts' /\ Recorded' /\ Counted' /\ Stops'
  <2>1. Kept /\ Single /\ Launches /\ Known /\ Restarts /\ Recorded /\ Counted /\ Stops
    BY <1>5, <1>1 DEF IInv, Kept
  <2>2. /\ cur = 0 /\ \A p \in Procs : ~Attended(p)
    BY <1>0, <1>1, <2>1, Zero DEF Forgotten, Recorded, Pointers, Living, Attended, Runs
  <2>3. Single'
    BY <1>1, <1>0, <2>1, <2>2 DEF Single, Attended, Typed
  <2>4. Launches'
    BY <1>1, <1>0, <2>1, <2>2 DEF Launches, Launching, Starting, Attended, Key, Typed
  <2>5. Known'
    BY <1>1, <1>0, <2>1, <2>2 DEF Known, Attended, Living, Typed
  <2>6. Restarts'
    BY <1>1, <1>0, <2>1, <2>2 DEF Restarts, Attended, Key, Typed
  <2>7. Recorded'
    BY <1>1, <1>0, <2>1, <2>2 DEF Recorded, Living, Typed
  <2>8. Counted'
    BY <1>1, <1>0, <2>1, <2>2 DEF Counted, Living, Typed
  <2>9. Stops'
    BY <1>1, <1>0, <2>1, <2>2 DEF Stops, Quiet, Attended, Launching, Typed
  <2> QED
    BY <2>3, <2>4, <2>5, <2>6, <2>7, <2>8, <2>9
<1> QED
  BY <1>2, <1>3, <1>4, <1>5 DEF IInv

\* A record whose process may live is fenced, not completed.
LEMMA RecoverRunKeeps ==
  ASSUME IInv, Recover, meta.run # 0
  PROVE  IInv'
<1>0. Typed /\ Pointers /\ Forgotten
  BY DEF IInv
<1> DEFINE r == meta.run
           gone == meta.state = "done" \/ ClaimAbsent(meta)
           rec == [NoRun EXCEPT !.state = IF gone THEN "done" ELSE "stopping", !.count = meta.count,
                           !.ident = meta.ident, !.recovered = TRUE]
<1>1. r \in Runs /\ meta \in MetaType
  BY <1>0, Zero DEF Typed, MetaType, Runs
<1>2. /\ cur' = r /\ runs' = [runs EXCEPT ![r] = rec]
      /\ completions' = saved \cup (IF gone THEN {<<r, rec.count>>} ELSE {})
      /\ meta' = [meta EXCEPT !.state = rec.state] /\ saved' = completions'
      /\ broker = "down" /\ broker' = "up"
      /\ UNCHANGED <<proc, task, made, requests, crashes, raced, leaked, wanted, contested>>
  BY DEF Recover, history
<1>3. gone => meta.state = "done" \/ meta.boot = "old" \/ (meta.ident # 0 /\ proc[meta.ident].st # "live")
  BY DEF ClaimAbsent
<1>4. ~gone => meta.state # "done"
  OBVIOUS
<1> HIDE DEF gone
<1>5. /\ rec \in RunType /\ rec.count = meta.count /\ rec.ident = meta.ident /\ rec.recovered /\ ~rec.stopping
      /\ ~rec.timer /\ rec.launching = "none" /\ rec.stop = "none" /\ rec.victim = 0
      /\ rec.state = (IF gone THEN "done" ELSE "stopping")
  BY <1>1, NoRunFields DEF RunType, States, MetaType
<1>6. /\ meta' \in MetaType /\ meta'.run = r /\ meta'.count = meta.count
      /\ meta'.boot = meta.boot /\ meta'.ident = meta.ident /\ meta'.state = rec.state
  BY <1>1, <1>2, <1>5 DEF MetaType, States
<1> HIDE DEF rec
<1>7. r = meta.run
  OBVIOUS
<1> HIDE DEF r
<1>8. Typed'
  BY <1>1, <1>2, <1>3, <1>4, <1>5, <1>6, <1>7, <1>0, Zero DEF MetaType, RunType, Typed
<1>9. Pointers'
  BY <1>1, <1>2, <1>3, <1>4, <1>5, <1>6, <1>7, <1>0 DEF Pointers, Typed
<1>10. Forgotten'
  BY <1>1, <1>2, <1>3, <1>4, <1>5, <1>6, <1>7, <1>0 DEF Forgotten, Typed
<1>11. ASSUME Kept' PROVE Single' /\ Launches' /\ Known' /\ Restarts' /\ Recorded' /\ Counted' /\ Stops'
  <2>1. Kept /\ Single /\ Launches /\ Known /\ Restarts /\ Recorded /\ Counted /\ Stops
    BY <1>11, <1>1, <1>2, <1>3, <1>4, <1>5, <1>6, <1>7 DEF IInv, Kept
  <2>2. /\ cur = 0 /\ \A p \in Procs : proc[p].exit = "none"
        /\ \A t \in Threads : task[t].pc = "idle" /\ task[t].op = "none"
        /\ \A x \in Runs : ~runs[x].timer /\ runs[x].stop = "none" /\ runs[x].launching = "none"
    BY <1>0, <1>2, NoRunFields DEF Forgotten, Pointers
  <2>3. \A p \in Procs : Attended(p) =>
          ~gone /\ proc[p].run = r /\ proc[p].count = meta.count /\ meta.ident \in {0, p}
    BY <1>3, <1>7, <2>1, <2>2 DEF Recorded, Living, Attended
  <2>4. Single'
    BY <1>1, <1>2, <1>3, <1>4, <1>5, <1>6, <1>7, <1>0, <2>1, <2>2, <2>3 DEF Single, Attended, Typed
  <2>5. Launches'
    BY <1>1, <1>2, <1>3, <1>4, <1>5, <1>6, <1>7, <1>0, <2>1, <2>2, <2>3, NoThread DEF Launches, Launching,
       Starting, Attended, Key, Typed
  <2>6. Known'
    BY <1>1, <1>2, <1>3, <1>4, <1>5, <1>6, <1>7, <1>0, <2>1, <2>2, <2>3, NoThread DEF Known, Attended,
       Living, Typed
  <2>7. Restarts'
    BY <1>1, <1>2, <1>3, <1>4, <1>5, <1>6, <1>7, <1>0, <2>1, <2>2, <2>3, NoThread DEF Restarts, Attended,
       Key, Typed
  <2>8. Recorded'
    BY <1>1, <1>2, <1>3, <1>4, <1>5, <1>6, <1>7, <1>0, <2>1, <2>2, <2>3 DEF Recorded, Living, Typed
  <2>9. Counted'
    BY <1>1, <1>2, <1>3, <1>4, <1>5, <1>6, <1>7, <1>0, <2>1, <2>2, <2>3 DEF Counted, MetaType, Attended,
       Living, Typed
  <2>10. Stops'
    BY <1>1, <1>2, <1>3, <1>4, <1>5, <1>6, <1>7, <1>0, <2>1, <2>2, <2>3 DEF Stops, Threads, Quiet,
       Attended, Launching, Typed
  <2> QED
    BY <2>4, <2>5, <2>6, <2>7, <2>8, <2>9, <2>10
<1> QED
  BY <1>8, <1>9, <1>10, <1>11 DEF IInv

-----------------------------------------------------------------------------
(* The theorems. *)

LEMMA InitIInv == Init => IInv
<1> SUFFICES ASSUME Init PROVE IInv
  OBVIOUS
<1>1. /\ broker = "up" /\ cur = 0 /\ made = 0 /\ completions = {} /\ saved = {} /\ contested = {}
      /\ requests = 0 /\ crashes = 0
  BY DEF Init
<1>2. /\ runs \in [Runs -> RunType]
      /\ \A r \in Runs : ~runs[r].timer /\ runs[r].stop = "none" /\ runs[r].launching = "none"
  BY NoRunFields DEF Init
<1>3. task \in [Threads -> TaskType] /\ \A t \in Threads : task[t].pc = "idle" /\ task[t].op = "none"
  BY NoTaskFields DEF Init
<1>4. /\ proc \in [Procs -> ProcType]
      /\ \A p \in Procs : proc[p].st = "none" /\ proc[p].exit = "none"
  BY Zero DEF Init, NoProc, ProcType
<1>5. meta \in MetaType /\ meta.run = 0
  BY Zero DEF Init, NoMeta, MetaType, States
<1>6. Typed
  <2>1. raced \in BOOLEAN /\ leaked \in BOOLEAN /\ wanted \in BOOLEAN
    BY DEF Init
  <2> QED
    BY <1>1, <1>2, <1>3, <1>4, <1>5, <2>1, Zero DEF Typed
<1>7. Pointers /\ Forgotten /\ Single /\ Launches /\ Known
  BY <1>1, <1>2, <1>3, <1>4, NoThread DEF Pointers, Forgotten, Single, Launches, Known, Launching, Starting,
                                          Attended, Living
<1>8. Restarts /\ Recorded /\ Counted
  BY <1>1, <1>2, <1>3, <1>4, <1>5, NoThread DEF Restarts, Recorded, Counted, Living
<1>9. Stops
  BY <1>2, <1>3, <1>4 DEF Stops, Quiet, Attended, Launching, Threads
<1> QED
  BY <1>6, <1>7, <1>8, <1>9 DEF IInv

LEMMA StepIInv == IInv /\ [Next]_vars => IInv'
<1> SUFFICES ASSUME IInv, [Next]_vars PROVE IInv'
  OBVIOUS
<1>1. CASE UNCHANGED vars
  BY <1>1 DEF IInv, Typed, Pointers, Forgotten, Single, Launches, Known, Restarts, Recorded, Counted, Stops, Quiet,
              Kept, Attended, Starting, Launching, Living, Key, vars, memory, disk, history
<1>2. ASSUME NEW c \in Clients, Request(c) \/ RequestStep(c) PROVE IInv'
  BY <1>2, StartFirstKeeps, AskKeeps, DrainEndsKeeps, StartGivesUpKeeps, StartGoesOnKeeps, RestartGivesUpKeeps,
     RestartGoesOnKeeps, StopResumesKeeps DEF Request, RequestStep
<1>3. ASSUME NEW t \in Threads, LaunchStep(t) PROVE IInv'
  BY <1>3, ClaimKeeps, ClaimFailsKeeps, SpawnKeeps, IdentifyKeeps, LaunchFailsKeeps DEF LaunchStep
<1>4. ASSUME NEW p \in Procs, Exit(p) \/ ExitStep(p) PROVE IInv'
  BY <1>4, ExitKeeps, ExitedKeeps, ExitFinalKeeps, ExitAgainKeeps, ExitRestartsKeeps DEF ExitStep
<1>5. ASSUME NEW r \in Runs, TimerFires(r) PROVE IInv'
  BY <1>5, TimerGivesUpKeeps, TimerGoesOnKeeps
<1>6. ASSUME NEW r \in Runs, TerminateResumes(r) PROVE IInv'
  BY <1>6, TerminateDoneKeeps, TerminateFailsKeeps, TerminateKillsKeeps
<1>7. ASSUME NEW r \in Runs, StopStep(r) PROVE IInv'
  BY <1>6, <1>7, KillsLiveKeeps, KillsNoneKeeps, KillFailsKeeps, TerminatedKeeps, CloseTimesOutKeeps DEF StopStep
<1>8. CASE ShutdownBegins \/ ShutdownRun
  BY <1>8, ShutdownIdleKeeps, ShutdownStopsKeeps, ShutdownReleasesKeeps, ShutdownRefusedKeeps, ShutdownCallsKeeps
<1>9. CASE BrokerExits \/ Crash \/ Reboot \/ Recover
  BY <1>9, BrokerExitsKeeps, CrashKeeps, RebootKeeps, RecoverNothingKeeps, RecoverRunKeeps
<1> QED
  BY <1>1, <1>2, <1>3, <1>4, <1>5, <1>7, <1>8, <1>9 DEF Next

\* The inductive invariant holds of every reachable state.
THEOREM Invariance == Spec => []IInv
BY InitIInv, StepIInv, PTL DEF Spec

\* Every variable keeps its type.
THEOREM TypeCorrect == Spec => []TypeOK
<1>1. IInv => TypeOK
  BY TypedTypeOK DEF IInv
<1> QED
  BY <1>1, Invariance, PTL

\* A name has at most one process: launch is only reached when the run was
\* drained or its timer fired after the exit, and recover fences what may live.
THEOREM NeverTwoProcesses == Spec => []OneProcess
<1>1. ASSUME IInv PROVE OneProcess
  <2> SUFFICES ASSUME Kept PROVE Cardinality(Living) <= 1
    BY DEF OneProcess
  <2>1. \A p, q \in Living : p = q
    BY <1>1 DEF IInv, Single, Attended, Living
  <2>2. CASE Living = {}
    BY <2>2, FS_EmptySet
  <2>3. CASE Living # {}
    <3>1. PICK p : Living = {p}
      BY <2>1, <2>3
    <3> QED
      BY <3>1, FS_Singleton
  <2> QED
    BY <2>2, <2>3
<1> QED
  BY <1>1, Invariance, PTL

\* Once a stop that nobody contests is answered the name has no process, until
\* it is asked for again: no timer, exit handler, launch or recovery revives it.
THEOREM StoppedStaysDown == Spec => []StopHolds
<1>1. IInv => StopHolds
  BY DEF IInv, Stops, Quiet, Attended, Living, StopHolds
<1> QED
  BY <1>1, Invariance, PTL

\* A completion, in memory or on disk, is never of an execution whose process lives.
THEOREM CompletionsAreTrue == Spec => []CompletionsTrue
<1>1. IInv => CompletionsTrue
  BY DEF IInv, Counted, CompletionsTrue
<1> QED
  BY <1>1, Invariance, PTL
=============================================================================
