---------------------------- MODULE ToolDispatch ----------------------------
(***************************************************************************)
(* How a command reaches a machine and its result comes back.              *)
(*                                                                         *)
(* The workspace object keeps a dispatch row and a settled result per      *)
(* attempt (account-worker/src/runtime-services.ts, executeMachineOnce and *)
(* attemptOutcome) and sends the signed dispatch through the relay         *)
(* (runtime-workspace-do/src/attachments.ts, AttachmentStore.execute),     *)
(* again and again while the connection is lost.  The machine's executor   *)
(* (runtime-machine/src/executor.ts, journal.ts) joins a repeat to the     *)
(* command already running or answers it from its journal.  The command    *)
(* itself is a process of the supervisor, which outlives the executor      *)
(* (runtime-machine/src/commands.ts).  Detaching and attaching again       *)
(* happens beside it (account-machine/src/runtime-executor.ts).            *)
(*                                                                         *)
(* A payload is its attempt: the signature and fingerprint checks compare  *)
(* what never differs here.  One machine and one workspace; an attachment  *)
(* is its generation.  The host process holds the relay connection and     *)
(* proxies to the machine process, which may stop and start behind it.     *)
(* A request belongs to the incarnation of the workspace object that sent  *)
(* it, and may arrive after its sender was restarted.                      *)
(***************************************************************************)
EXTENDS Integers, Sequences, SequencesExt

CONSTANTS
  Attempts,       \* attempt ids, one per command
  Unsafe,         \* the attempts dispatched with replay = 'unsafe'
  MaxAttachments, \* bound: attachments the cloud creates
  MaxDrops,       \* bound: relay connections lost
  MaxResets,      \* bound: restarts of the workspace object
  MaxCrashes      \* bound: restarts of the machine process

ASSUME DispatchAssumption ==
  /\ Unsafe \subseteq Attempts
  /\ MaxAttachments \in Nat \ {0}
  /\ {MaxDrops, MaxResets, MaxCrashes} \subseteq Nat

Attachments  == 1..MaxAttachments
Incarnations == 1..MaxResets + 1
None == "none"

(* What a machine answers with, and what the task that issued the command   *)
(* can be told: "refused" is failed() with machine_unavailable (offline,    *)
(* detached, rejected), "unknown" is an interrupted result whose outcome    *)
(* nobody knows, "cancelled" is 'the machine stopped the command'.          *)
Results  == {"completed", "failed", "interrupted"}
Outcomes == Results \cup {"refused", "unknown", "cancelled"}

VARIABLES
  row,        \* cloud, durable: runtime_host_dispatch, the attachment it names, or 0
  settled,    \* cloud, durable: the selection's result
  told,       \* cloud, durable: the task's outcome
  call,       \* cloud: where AttachmentStore.execute is
  lost,       \* cloud: lostAt is set
  wire,       \* relay: the request each incarnation sent, or the answer to it
  cancelling, \* relay: tunnel.request.cancel is on its way for that request
  executor,   \* machine: its process runs, is shutting down or is gone
  connected,  \* machine host: it holds the relay connection
  run,        \* machine: the attempts map, and whether the run is aborted
  linked,     \* machine: whose request's signal the run listens to, or 0
  saved,      \* machine, durable: executor_results
  proc,       \* supervisor: the command's process is alive
  starts,     \* how often the command was started (history)
  again,      \* attempts whose task called again after a restart (history)
  severed,    \* attempts answered when the supervisor did not (history)
  remote,     \* cloud, durable: attachment states
  local,      \* machine, durable: executor_attachments states
  prepared,   \* machine, durable: prerequisitesComplete
  lane,       \* machine: assignments queued for the checkout
  step,       \* machine: how far the lane's head got
  drops, resets, crashes

cloud   == <<row, settled, told, call, lost, again>>
relay   == <<wire, cancelling>>
machine == <<run, linked, saved, proc, starts, severed>>
attach  == <<remote, local, prepared, lane, step>>
faults  == <<drops, resets, crashes>>
vars == <<cloud, relay, executor, connected, machine, attach, faults>>

TypeOK ==
  /\ row \in [Attempts -> 0..MaxAttachments]
  /\ settled \in [Attempts -> Outcomes \cup {None}]
  /\ told \in [Attempts -> Outcomes \cup {None}]
  /\ call \in [Attempts -> {"idle", "send", "wait", "pause"}]
  /\ lost \in [Attempts -> BOOLEAN]
  /\ wire \in [Attempts -> [Incarnations -> {None, "request", "held", "refused"} \cup Results]]
  /\ cancelling \in [Attempts -> [Incarnations -> BOOLEAN]]
  /\ executor \in {"up", "draining", "down"} /\ connected \in BOOLEAN
  /\ run \in [Attempts -> {None, "running", "aborting"}]
  /\ linked \in [Attempts -> 0..MaxResets + 1]
  /\ saved \in [Attempts -> Results \cup {None}]
  /\ proc \in [Attempts -> BOOLEAN]
  /\ starts \in [Attempts -> Nat]
  /\ again \subseteq Attempts /\ severed \subseteq Attempts
  /\ remote \in [Attachments -> {None, "attaching", "ready", "detached"}]
  /\ local \in [Attachments -> {None, "attaching", "ready", "detached"}]
  /\ prepared \subseteq Attachments
  /\ lane \in Seq(Attachments \X {"attaching", "ready", "gone"})
  /\ step \in {"start", "preparing", "announcing", "draining", "closing"}
  /\ drops \in 0..MaxDrops /\ resets \in 0..MaxResets /\ crashes \in 0..MaxCrashes

(* The first attachment is ready on both sides and the machine connected.   *)
Init ==
  /\ row = [a \in Attempts |-> 0]
  /\ settled = [a \in Attempts |-> None]
  /\ told = [a \in Attempts |-> None]
  /\ call = [a \in Attempts |-> "idle"]
  /\ lost = [a \in Attempts |-> FALSE]
  /\ wire = [a \in Attempts |-> [o \in Incarnations |-> None]]
  /\ cancelling = [a \in Attempts |-> [o \in Incarnations |-> FALSE]]
  /\ executor = "up" /\ connected = TRUE
  /\ run = [a \in Attempts |-> None]
  /\ linked = [a \in Attempts |-> 0]
  /\ saved = [a \in Attempts |-> None]
  /\ proc = [a \in Attempts |-> FALSE]
  /\ starts = [a \in Attempts |-> 0]
  /\ again = {} /\ severed = {}
  /\ remote = [i \in Attachments |-> IF i = 1 THEN "ready" ELSE None]
  /\ local = remote /\ prepared = {1}
  /\ lane = <<>> /\ step = "start"
  /\ drops = 0 /\ resets = 0 /\ crashes = 0

-----------------------------------------------------------------------------
(* The workspace object.                                                    *)

Live(i) == remote[i] \in {"attaching", "ready"}

(* This incarnation of the object, and its request.                         *)
Now == resets + 1
Wire(a) == wire[a][Now]

(* The result is stored before it is returned, and the call is over.        *)
Settle(a, outcome) ==
  /\ settled' = [settled EXCEPT ![a] = outcome]
  /\ call' = [call EXCEPT ![a] = "idle"]
  /\ UNCHANGED <<row, told, lost, again>>

(* The task's execute phase: nothing is recorded for the attempt yet.  A    *)
(* ready attachment is selected and the dispatch stored; without one the    *)
(* command fails before it is dispatched.                                   *)
Dispatch(a) ==
  /\ row[a] = 0 /\ told[a] = None /\ settled[a] = None /\ call[a] = "idle"
  /\ \/ \E i \in Attachments :
          /\ remote[i] = "ready" /\ connected
          /\ row' = [row EXCEPT ![a] = i]
          /\ call' = [call EXCEPT ![a] = "send"]
          /\ lost' = [lost EXCEPT ![a] = FALSE]
          /\ UNCHANGED <<settled, told, again>>
     \/ /\ ~(connected /\ \E i \in Attachments : remote[i] = "ready")
        /\ Settle(a, "refused")
  /\ UNCHANGED <<relay, executor, connected, machine, attach, faults>>

(* A tool the harness may repeat (bash) calls again after a restart, with   *)
(* the dispatch its attempt stored and no result: the dispatch is sent as   *)
(* if for the first time, unless its deadline has passed.                   *)
Resume(a) ==
  /\ row[a] # 0 /\ told[a] = None /\ settled[a] = None /\ call[a] = "idle"
  /\ \/ /\ call' = [call EXCEPT ![a] = "send"]
        /\ lost' = [lost EXCEPT ![a] = FALSE]
        /\ again' = again \cup {a}
        /\ UNCHANGED <<row, settled, told>>
     \/ Settle(a, "unknown")
  /\ UNCHANGED <<relay, executor, connected, machine, attach, faults>>

(* Whether a first send goes out at all: the attachment is read once, when  *)
(* the call begins, and never again for a repeat.                           *)
MayFirstSend(a) == remote[row[a]] = "ready"

(* Mutant of Send: an unreachable machine refuses a repeat too.             *)
SendForgetsLoss(a) ==
  /\ call[a] = "send"
  /\ \/ /\ lost[a] \/ MayFirstSend(a)
        /\ connected
        /\ wire' = [wire EXCEPT ![a][Now] = "request"]
        /\ call' = [call EXCEPT ![a] = "wait"]
        /\ UNCHANGED <<row, settled, told, lost, again, cancelling>>
     \/ /\ ~connected
        /\ Settle(a, "refused")
        /\ UNCHANGED relay
  /\ UNCHANGED <<executor, connected, machine, attach, faults>>

(* One transmission: the relay sends the request on the machine's socket.   *)
Send(a) ==
  /\ call[a] = "send"
  /\ \/ /\ lost[a] \/ MayFirstSend(a)
        /\ connected
        /\ wire' = [wire EXCEPT ![a][Now] = "request"]
        /\ call' = [call EXCEPT ![a] = "wait"]
        /\ UNCHANGED <<row, settled, told, lost, again, cancelling>>
     \/ /\ ~lost[a] /\ ~(MayFirstSend(a) /\ connected)
        /\ Settle(a, "refused")
        /\ UNCHANGED relay
     \/ /\ lost[a] /\ ~connected
        /\ call' = [call EXCEPT ![a] = "pause"]
        /\ UNCHANGED <<row, settled, told, lost, again, relay>>
  /\ UNCHANGED <<executor, connected, machine, attach, faults>>

(* RESULT_RETRY_MS passed: the same dispatch is sent again.                 *)
Retry(a) ==
  /\ call[a] = "pause"
  /\ call' = [call EXCEPT ![a] = "send"]
  /\ UNCHANGED <<row, settled, told, lost, again, relay, executor, connected, machine, attach, faults>>

(* Mutant of GiveUp: the recovery time restarts with every repeat.          *)
GiveUpNever(a) == call[a] = "pause" /\ FALSE /\ UNCHANGED vars

(* RESULT_RECOVERY_MS passed, or the deadline is too near to ask again.     *)
GiveUp(a) ==
  /\ call[a] = "pause"
  /\ Settle(a, "unknown")
  /\ UNCHANGED <<relay, executor, connected, machine, attach, faults>>

(* The answer reached the object.                                           *)
Answer(a) ==
  /\ call[a] = "wait" /\ Wire(a) \in Results \cup {"refused"}
  /\ Settle(a, Wire(a))
  /\ wire' = [wire EXCEPT ![a][Now] = None]
  /\ UNCHANGED <<cancelling, executor, connected, machine, attach, faults>>

(* The call is aborted (the task's signal, or the dispatch deadline): the   *)
(* task hears at once that the machine stopped the command, and the relay   *)
(* sends a cancel for the request it has outstanding, if it has one.        *)
Cancel(a) ==
  /\ call[a] # "idle"
  /\ Settle(a, "cancelled")
  /\ cancelling' = [cancelling EXCEPT ![a][Now] = call[a] = "wait" /\ Wire(a) \in {"request", "held"}]
  /\ UNCHANGED <<wire, executor, connected, machine, attach, faults>>

(* The task records the stored result.  A stored dispatch that is not       *)
(* running and has none was cut off by a restart: a tool that must not be   *)
(* repeated asks attemptOutcome and hears that its outcome is unknown.      *)
Reconcile(a) ==
  /\ told[a] = None /\ call[a] = "idle"
  /\ settled[a] # None \/ row[a] # 0
  /\ told' = [told EXCEPT ![a] = IF settled[a] = None THEN "unknown" ELSE settled[a]]
  /\ UNCHANGED <<row, settled, call, lost, again, relay, executor, connected, machine, attach, faults>>

(* The workspace object restarts.  Its requests to the relay end with it,   *)
(* and the relay cancels those it notices on the machine.                   *)
Reset ==
  /\ resets < MaxResets
  /\ \E a \in Attempts : call[a] # "idle"
  /\ resets' = resets + 1
  /\ \E noticed \in SUBSET {a \in Attempts : call[a] = "wait" /\ Wire(a) \in {"request", "held"}} :
        cancelling' = [a \in Attempts |-> [cancelling[a] EXCEPT ![Now] = @ \/ a \in noticed]]
  /\ wire' = [a \in Attempts |-> [wire[a] EXCEPT ![Now] = IF @ \in {"request", "held"} THEN @ ELSE None]]
  /\ call' = [a \in Attempts |-> "idle"]
  /\ UNCHANGED <<row, settled, told, lost, again, executor, connected, machine, attach, drops, crashes>>

-----------------------------------------------------------------------------
(* The relay connection.                                                    *)

(* Every request outstanding on the socket fails with                       *)
(* TUNNEL_TRANSPORT_FAILED: a waiting call is lost and pauses.  On the      *)
(* machine the requests end but the commands they started go on.            *)
Disconnected ==
  /\ connected' = FALSE
  /\ wire' = [a \in Attempts |-> [o \in Incarnations |-> None]]
  /\ cancelling' = [a \in Attempts |-> [o \in Incarnations |-> FALSE]]
  /\ call' = [a \in Attempts |-> IF call[a] = "wait" THEN "pause" ELSE call[a]]
  /\ lost' = [a \in Attempts |-> lost[a] \/ call[a] = "wait"]
  /\ UNCHANGED <<row, settled, told, again>>

Drop ==
  /\ connected /\ drops < MaxDrops
  /\ drops' = drops + 1
  /\ Disconnected
  /\ linked' = [a \in Attempts |-> 0]
  /\ UNCHANGED <<executor, run, saved, proc, starts, severed, attach, resets, crashes>>

Connect ==
  /\ ~connected
  /\ connected' = TRUE
  /\ UNCHANGED <<cloud, relay, executor, machine, attach, faults>>

-----------------------------------------------------------------------------
(* The machine's executor.                                                  *)

(* Mutant of Finished: no result is kept.                                   *)
FinishedUnsaved(a, result) ==
  /\ run' = [run EXCEPT ![a] = None]
  /\ linked' = [linked EXCEPT ![a] = 0]
  /\ UNCHANGED saved

(* A finished run leaves the attempts map, and its result is kept when a    *)
(* replay must not repeat it.                                               *)
Finished(a, result) ==
  /\ run' = [run EXCEPT ![a] = None]
  /\ linked' = [linked EXCEPT ![a] = 0]
  /\ saved' = [saved EXCEPT ![a] = IF a \in Unsafe THEN result ELSE None]

(* An answer to a request whose sender is gone is dropped.                  *)
Answered(o, answer) == IF o = Now THEN answer ELSE None

(* The requests that wait for the run are answered with its result.         *)
Reply(a, result) ==
  wire' = [wire EXCEPT ![a] = [o \in Incarnations |-> IF @[o] = "held" THEN Answered(o, result) ELSE @[o]]]

(* Mutant of Deliver: a refusal is kept like a result.                      *)
DeliverKeepsRefusal(a, o) ==
  /\ wire[a][o] = "request"
  /\ \/ /\ executor # "up"
        /\ wire' = [wire EXCEPT ![a][o] = Answered(o, "refused")]
        /\ UNCHANGED machine
     \/ /\ executor = "up" /\ saved[a] # None
        /\ wire' = [wire EXCEPT ![a][o] = Answered(o, saved[a])]
        /\ UNCHANGED machine
     \/ /\ executor = "up" /\ saved[a] = None /\ run[a] # None
        /\ wire' = [wire EXCEPT ![a][o] = "held"]
        /\ UNCHANGED machine
     \/ /\ executor = "up" /\ saved[a] = None /\ run[a] = None /\ local[row[a]] # "ready"
        /\ wire' = [wire EXCEPT ![a][o] = Answered(o, "refused")]
        /\ saved' = [saved EXCEPT ![a] = "refused"]
        /\ UNCHANGED <<run, linked, proc, starts, severed>>
     \/ /\ executor = "up" /\ saved[a] = None /\ run[a] = None /\ local[row[a]] = "ready" /\ ~proc[a]
        /\ wire' = [wire EXCEPT ![a][o] = "held"]
        /\ run' = [run EXCEPT ![a] = "running"]
        /\ linked' = [linked EXCEPT ![a] = o]
        /\ proc' = [proc EXCEPT ![a] = TRUE]
        /\ starts' = [starts EXCEPT ![a] = @ + 1]
        /\ UNCHANGED <<saved, severed>>
     \/ /\ executor = "up" /\ saved[a] = None /\ run[a] = None /\ local[row[a]] = "ready"
        /\ Finished(a, "failed")
        /\ wire' = [wire EXCEPT ![a][o] = Answered(o, "failed")]
        /\ UNCHANGED <<proc, starts, severed>>
  /\ UNCHANGED <<cloud, cancelling, executor, connected, attach, faults>>

(* fetch(): the journal's result, the running command, a refusal, or a run. *)
(* A run fails without starting its process when the deadline has passed or *)
(* the supervisor already has a live process of that name.  A machine that  *)
(* is shutting down, or the proxy of one that is gone, answers 503.         *)
Deliver(a, o) ==
  /\ wire[a][o] = "request"
  /\ \/ /\ executor # "up"
        /\ wire' = [wire EXCEPT ![a][o] = Answered(o, "refused")]
        /\ UNCHANGED machine
     \/ /\ executor = "up" /\ saved[a] # None
        /\ wire' = [wire EXCEPT ![a][o] = Answered(o, saved[a])]
        /\ UNCHANGED machine
     \/ /\ executor = "up" /\ saved[a] = None /\ run[a] # None
        /\ wire' = [wire EXCEPT ![a][o] = "held"]
        /\ UNCHANGED machine
     \/ /\ executor = "up" /\ saved[a] = None /\ run[a] = None /\ local[row[a]] # "ready"
        /\ wire' = [wire EXCEPT ![a][o] = Answered(o, "refused")]
        /\ UNCHANGED machine
     \/ /\ executor = "up" /\ saved[a] = None /\ run[a] = None /\ local[row[a]] = "ready" /\ ~proc[a]
        /\ wire' = [wire EXCEPT ![a][o] = "held"]
        /\ run' = [run EXCEPT ![a] = "running"]
        /\ linked' = [linked EXCEPT ![a] = o]
        /\ proc' = [proc EXCEPT ![a] = TRUE]
        /\ starts' = [starts EXCEPT ![a] = @ + 1]
        /\ UNCHANGED <<saved, severed>>
     \/ /\ executor = "up" /\ saved[a] = None /\ run[a] = None /\ local[row[a]] = "ready"
        /\ Finished(a, "failed")
        /\ wire' = [wire EXCEPT ![a][o] = Answered(o, "failed")]
        /\ UNCHANGED <<proc, starts, severed>>
  /\ UNCHANGED <<cloud, cancelling, executor, connected, attach, faults>>

(* A cancel ends its request: one whose body is still arriving is dropped,  *)
(* one being forwarded is aborted.  That stops the command only if this     *)
(* request started it: execute() listens to the signal of the request that  *)
(* created the run, not to those that joined it.                            *)
DeliverCancel(a, o) ==
  /\ cancelling[a][o]
  /\ cancelling' = [cancelling EXCEPT ![a][o] = FALSE]
  /\ wire' = [wire EXCEPT ![a][o] = None]
  /\ run' = [run EXCEPT ![a] = IF run[a] = "running" /\ linked[a] = o /\ wire[a][o] = "held"
                               THEN "aborting" ELSE @]
  /\ UNCHANGED <<cloud, executor, connected, linked, saved, proc, starts, severed, attach, faults>>

(* The dispatch deadline passed on the machine: the run is aborted.         *)
Deadline(a) ==
  /\ executor # "down" /\ run[a] = "running"
  /\ run' = [run EXCEPT ![a] = "aborting"]
  /\ UNCHANGED <<cloud, relay, executor, connected, linked, saved, proc, starts, severed, attach, faults>>

(* The command's process ends by itself; the supervisor runs on without the *)
(* machine's process.                                                       *)
ProcessExits(a) ==
  /\ proc[a]
  /\ proc' = [proc EXCEPT ![a] = FALSE]
  /\ UNCHANGED <<cloud, relay, executor, connected, run, linked, saved, starts, severed, attach, faults>>

(* The run ends: its process has exited, or the wait for that was rejected  *)
(* because the connection to the supervisor closed.                         *)
Complete(a) ==
  /\ executor # "down" /\ run[a] = "running"
  /\ \/ /\ ~proc[a]
        /\ \E result \in {"completed", "failed"} : Finished(a, result) /\ Reply(a, result)
        /\ UNCHANGED severed
     \/ /\ Finished(a, "failed") /\ Reply(a, "failed")
        /\ severed' = severed \cup {a}
  /\ UNCHANGED <<cloud, cancelling, executor, connected, proc, starts, attach, faults>>

(* Mutant of Abort: the result does not wait for the process tree to stop.   *)
AbortLeavesProcess(a) ==
  /\ executor # "down" /\ run[a] = "aborting"
  /\ Finished(a, "interrupted") /\ Reply(a, "interrupted")
  /\ UNCHANGED <<cloud, cancelling, executor, connected, proc, starts, severed, attach, faults>>

(* An aborted run stops its process tree before it ends, unless the wait or *)
(* the stop is rejected.                                                    *)
Abort(a) ==
  /\ executor # "down" /\ run[a] = "aborting"
  /\ Finished(a, "interrupted") /\ Reply(a, "interrupted")
  /\ \/ proc' = [proc EXCEPT ![a] = FALSE] /\ UNCHANGED severed
     \/ severed' = severed \cup {a} /\ UNCHANGED proc
  /\ UNCHANGED <<cloud, cancelling, executor, connected, starts, attach, faults>>

(* The machine's process is asked to stop: it refuses every request from    *)
(* now on, and the commands it runs are left to themselves.                 *)
Shutdown ==
  /\ executor = "up" /\ crashes < MaxCrashes
  /\ executor' = "draining"
  /\ UNCHANGED <<cloud, relay, connected, machine, attach, faults>>

(* It ends, stopped or crashed: the attempts map and the lane go; its       *)
(* journal and the supervisor's processes stay.  The host keeps the relay   *)
(* connection, and its proxy fails the requests it was forwarding.          *)
Crash ==
  /\ executor # "down" /\ crashes < MaxCrashes
  /\ crashes' = crashes + 1
  /\ executor' = "down"
  /\ run' = [a \in Attempts |-> None]
  /\ linked' = [a \in Attempts |-> 0]
  /\ wire' = [a \in Attempts |-> [o \in Incarnations |-> IF wire[a][o] = "held" THEN Answered(o, "refused")
                                                                  ELSE wire[a][o]]]
  /\ lane' = <<>> /\ step' = "start"
  /\ UNCHANGED <<cloud, cancelling, connected, saved, proc, starts, severed, remote, local, prepared,
                 drops, resets>>

(* The host starts it again.                                                *)
Boot ==
  /\ executor = "down"
  /\ executor' = "up"
  /\ UNCHANGED <<cloud, relay, connected, machine, attach, faults>>

-----------------------------------------------------------------------------
(* Attachments.                                                             *)

Detach(i) ==
  /\ Live(i)
  /\ remote' = [remote EXCEPT ![i] = "detached"]
  /\ UNCHANGED <<cloud, relay, executor, connected, machine, local, prepared, lane, step, faults>>

(* A machine has one live attachment; a new one has a higher generation.    *)
Attach(i) ==
  /\ remote[i] = None /\ \A j \in Attachments : ~Live(j) /\ (j < i => remote[j] # None)
  /\ remote' = [remote EXCEPT ![i] = "attaching"]
  /\ UNCHANGED <<cloud, relay, executor, connected, machine, local, prepared, lane, step, faults>>

(* readAssignments(): the assignments the cloud lists, then the local       *)
(* attachments missing from the list, queued on the checkout's lane.        *)
ReadAssignments ==
  /\ executor = "up" /\ connected /\ lane = <<>>
  /\ LET listed   == {i \in Attachments : Live(i) /\ ~(remote[i] = "ready" /\ local[i] = "ready")}
         vanished == {i \in Attachments : ~Live(i) /\ local[i] \in {"attaching", "ready"}}
     IN lane' = SetToSeq({<<i, remote[i]>> : i \in listed}) \o SetToSeq(vanished \X {"gone"})
  /\ lane' # <<>>
  /\ UNCHANGED <<cloud, relay, executor, connected, machine, remote, local, prepared, step, faults>>

AtHead(i, listed, s) == executor # "down" /\ lane # <<>> /\ Head(lane) = <<i, listed>> /\ step = s

(* The journal's other attachments of the workspace become detached.        *)
Installed(i, state) ==
  local' = [j \in Attachments |-> IF j = i THEN state ELSE IF local[j] = None THEN None ELSE "detached"]

(* processAssignment() of an attachment the cloud lists: a new one is       *)
(* installed ...                                                            *)
Install(i) ==
  /\ i \notin prepared /\ \E listed \in {"attaching", "ready"} : AtHead(i, listed, "start")
  /\ Installed(i, "attaching")
  /\ step' = "preparing"
  /\ UNCHANGED <<cloud, relay, executor, connected, machine, remote, prepared, lane, faults>>

(* ... once its checkout is there it is ready here ...                      *)
Prepared(i) ==
  /\ \E listed \in {"attaching", "ready"} : AtHead(i, listed, "preparing")
  /\ Installed(i, "ready")
  /\ prepared' = prepared \cup {i}
  /\ step' = "announcing"
  /\ UNCHANGED <<cloud, relay, executor, connected, machine, remote, lane, faults>>

(* ... while one whose checkout was prepared before is installed as the     *)
(* list has it: a ready one is in use again, and the announcement of one    *)
(* that the list has attaching is repeated ...                              *)
Reinstall(i) ==
  /\ i \in prepared
  /\ \/ /\ AtHead(i, "ready", "start")
        /\ Installed(i, "ready")
        /\ lane' = Tail(lane) /\ UNCHANGED step
     \/ /\ AtHead(i, "attaching", "start")
        /\ Installed(i, "attaching")
        /\ step' = "announcing" /\ UNCHANGED lane
  /\ UNCHANGED <<cloud, relay, executor, connected, machine, remote, prepared, faults>>

(* ... which fails without a connection and which the cloud refuses if it   *)
(* was detached meanwhile; a later read tries again.  The reply may be lost *)
(* after the cloud has taken it.                                            *)
Announce(i) ==
  /\ \E listed \in {"attaching", "ready"} : AtHead(i, listed, "announcing")
  /\ \/ /\ connected /\ Live(i)
        /\ remote' = [remote EXCEPT ![i] = "ready"]
        /\ Installed(i, "ready") \/ UNCHANGED local
     \/ /\ ~(connected /\ Live(i))
        /\ UNCHANGED <<remote, local>>
  /\ lane' = Tail(lane) /\ step' = "start"
  /\ UNCHANGED <<cloud, relay, executor, connected, machine, prepared, faults>>

(* processAssignment() of a vanished attachment: release() cancels its      *)
(* commands.  One that is recorded detached already is left alone.          *)
Release(i) ==
  /\ AtHead(i, "gone", "start")
  /\ \/ /\ local[i] # "detached"
        /\ step' = "draining"
        /\ run' = [a \in Attempts |-> IF row[a] = i /\ run[a] = "running" THEN "aborting" ELSE run[a]]
        /\ UNCHANGED lane
     \/ /\ local[i] = "detached"
        /\ lane' = Tail(lane)
        /\ UNCHANGED <<run, step>>
  /\ UNCHANGED <<cloud, relay, executor, connected, linked, saved, proc, starts, severed, remote, local, prepared,
                 faults>>

(* The cancelled commands have ended; its browser is closed next ...        *)
Drained(i) ==
  /\ AtHead(i, "gone", "draining")
  /\ \A a \in Attempts : row[a] = i => run[a] # "aborting"
  /\ step' = "closing"
  /\ UNCHANGED <<cloud, relay, executor, connected, machine, remote, local, prepared, lane, faults>>

(* ... and only then is it recorded detached.                               *)
Released(i) ==
  /\ AtHead(i, "gone", "closing")
  /\ Installed(i, "detached")
  /\ lane' = Tail(lane) /\ step' = "start"
  /\ UNCHANGED <<cloud, relay, executor, connected, machine, remote, prepared, faults>>

-----------------------------------------------------------------------------
Next ==
  \/ \E a \in Attempts :
       \/ Dispatch(a) \/ Resume(a) \/ Send(a) \/ Retry(a) \/ GiveUp(a) \/ Answer(a) \/ Cancel(a) \/ Reconcile(a)
       \/ \E o \in Incarnations : Deliver(a, o) \/ DeliverCancel(a, o)
       \/ Deadline(a) \/ ProcessExits(a) \/ Complete(a) \/ Abort(a)
  \/ Reset \/ Drop \/ Connect \/ Shutdown \/ Crash \/ Boot \/ ReadAssignments
  \/ \E i \in Attachments :
       \/ Detach(i) \/ Attach(i) \/ Install(i) \/ Prepared(i) \/ Reinstall(i) \/ Announce(i)
       \/ Release(i) \/ Drained(i) \/ Released(i)

Spec == Init /\ [][Next]_vars

(* The object's own steps happen, a message on a live connection arrives, a *)
(* command's deadline comes, and so does the end of the recovery time,      *)
(* however often the call is sent again before.  Nothing is assumed of the  *)
(* machine reconnecting or starting again.                                  *)
Fairness ==
  \A a \in Attempts :
    /\ WF_vars(Send(a)) /\ WF_vars(Answer(a)) /\ WF_vars(Resume(a) \/ Reconcile(a))
    /\ SF_vars(GiveUp(a))
    /\ \A o \in Incarnations : WF_vars(Deliver(a, o))
    /\ WF_vars(Deadline(a)) /\ WF_vars(Complete(a)) /\ WF_vars(Abort(a))

FairSpec == Spec /\ Fairness

-----------------------------------------------------------------------------
(* Properties.                                                              *)

(* The machine's process has not been stopped or restarted: beyond that the *)
(* attempts map is lost, and with it the first three promises.              *)
Unrestarted == executor = "up" /\ crashes = 0

(* A command whose effects must not be repeated is started at most once,    *)
(* whatever is lost, repeated, cancelled or detached around it: a repeat    *)
(* joins the run or is answered from the journal.                           *)
RunsOnce == Unrestarted => \A a \in Unsafe : starts[a] <= 1

(* A task is told that its command never reached the machine only when it   *)
(* never ran, and it never runs afterwards: once a reply may be lost, a     *)
(* machine that cannot be reached no longer means that.  A task that called *)
(* again after a restart is not promised this: its call has no memory of    *)
(* what the one before had sent.                                            *)
RefusedNeverRan ==
  Unrestarted => \A a \in Unsafe \ again : settled[a] = "refused" => starts[a] = 0

(* A machine's answer is the one its journal holds, so every repeat hears   *)
(* the same, before and after a restart of the workspace object, and the    *)
(* command is over when it is given.  Only a run the supervisor stopped     *)
(* answering for ends without that, and never as completed.                 *)
AnswerIsFinal ==
  Unrestarted =>
    \A a \in Unsafe : settled[a] \in Results =>
      /\ saved[a] = settled[a]
      /\ proc[a] => a \in severed /\ settled[a] # "completed"

(* A dispatched command's task always hears an outcome, with the machine    *)
(* gone for good too.                                                       *)
Resolves == \A a \in Attempts : row[a] # 0 ~> told[a] # None
=============================================================================
