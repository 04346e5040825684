----------------------------- MODULE MachineUpdate -----------------------------
(***************************************************************************)
(* The complete-machine update of packages/account-machine: a host asks    *)
(* for an update (requestMachineUpdate), a detached updater replaces host  *)
(* and machine under the journal machine-update.json (runMachineUpdate),   *)
(* and the bootstrap resumes whatever an interruption left behind.  Each   *)
(* durable write is one step; the updater and the hosts may die between    *)
(* any two.  Host processes lead their process group; the machine of a     *)
(* host is a child that survives the host's death.                         *)
(*                                                                         *)
(* The legacy-host migration, artifact verification and credentials are    *)
(* left out: an artifact that fails verification is an updater that dies.  *)
(***************************************************************************)
EXTENDS Naturals, FiniteSets

CONSTANTS MaxHosts,     \* bound: host processes alive or referenced at once
          MaxUpdaters,  \* bound: updater processes referenced at once
          MaxUpdates,   \* bound: updates requested
          MaxWork,      \* bound: units of work accepted
          MaxFaults,    \* bound: faults explored
          Faults        \* which of FaultKinds may happen

FaultKinds == {"updater", "host", "unrecorded", "promoted", "machine", "operator", "write"}

ASSUME UpdateAssumption ==
  /\ MaxHosts \in Nat \ {0} /\ MaxUpdaters \in Nat \ {0} /\ MaxUpdates \in Nat
  /\ MaxWork \in Nat /\ MaxFaults \in Nat /\ Faults \subseteq FaultKinds

VARIABLES journal,   \* machine-update.json
          ckpt,      \* the checkpoint directory of the update
          db,        \* gitspace.db: work held and release that last migrated it
          selected,  \* host-selection.json and machine-selection.json
          ready,     \* pid of host-ready.json, 0 when absent
          record,    \* host-machine.json: host pid and machine incarnation
          host,      \* the host processes
          mach,      \* the machine process of each host
          upd,       \* the updater process: id (0 for none) and position
          accepted,  \* history: work the machine ever accepted
          updates,   \* updates requested so far
          faults     \* faults so far

files == <<journal, ckpt, db, selected, ready, record>>
procs == <<host, mach>>
vars == <<files, procs, upd, accepted, updates, faults>>

Hosts == 1..MaxHosts
Releases == {1, 2}
Incarnations == 0..(MaxFaults + 1)
Phases == {"prepared", "stopped", "checkpointed", "starting", "committed", "rollback"}
Positions == {"none", "handoff", "begin", "retire", "stopRequested", "stop", "snapshot",
              "copied", "starting", "select", "start", "spawned", "wait", "promote", "commit",
              "check", "fail", "rollback", "clear", "restore", "reselect", "done"}

HostStates == {"none", "launched", "authorized", "locked", "open", "ready", "stopping"}

NoJournal == [present |-> FALSE, owner |-> 0, host |-> 0, machine |-> 0, pred |-> 1,
              phase |-> "prepared", stopRequested |-> FALSE, complete |-> FALSE, successor |-> 0]
NoHost == [st |-> "none", rel |-> 1, owner |-> 0, managed |-> FALSE]
NoMachine == [st |-> "none", inc |-> 0, admitted |-> FALSE]
NoData == [work |-> 0, schema |-> 0]

TypeOK ==
  /\ journal \in [present : BOOLEAN, owner : 0..MaxUpdaters, host : 0..MaxHosts,
                  machine : Incarnations, pred : Releases, phase : Phases,
                  stopRequested : BOOLEAN, complete : BOOLEAN, successor : 0..MaxHosts]
  /\ ckpt \in [st : {"absent", "partial", "whole"}, work : 0..MaxWork, schema : 0..2]
  /\ db \in [work : 0..MaxWork, schema : 0..2]
  /\ selected \in [host : Releases, machine : 0..2]
  /\ ready \in 0..MaxHosts /\ record \in [host : 0..MaxHosts, inc : Incarnations]
  /\ host \in [Hosts -> [st : HostStates, rel : Releases,
                         owner : 0..MaxUpdaters, managed : BOOLEAN]]
  /\ mach \in [Hosts -> [st : {"none", "booting", "live", "restarting"}, inc : Incarnations, admitted : BOOLEAN]]
  /\ upd \in [id : 0..MaxUpdaters, pc : Positions]
  /\ accepted \in 0..MaxWork /\ updates \in 0..MaxUpdates /\ faults \in 0..MaxFaults

Alive(p) == p # 0 /\ host[p].st # "none"
MachineAlive(p, i) == p # 0 /\ mach[p] # NoMachine /\ mach[p].inc = i

\* The process that the journal names as its owner runs.
OwnerAlive == IF journal.owner = 0 THEN Alive(journal.host) ELSE upd.id = journal.owner

\* The candidate is the release that is not the predecessor.
Candidate == 3 - journal.pred

Init ==
  /\ journal = NoJournal /\ ckpt = [st |-> "absent", work |-> 0, schema |-> 0]
  /\ db = [work |-> 0, schema |-> 1] /\ selected = [host |-> 1, machine |-> 1]
  /\ ready = 1 /\ record = [host |-> 1, inc |-> 1]
  /\ host = [p \in Hosts |-> IF p = 1 THEN [NoHost EXCEPT !.st = "ready"] ELSE NoHost]
  /\ mach = [p \in Hosts |-> IF p = 1 THEN [st |-> "live", inc |-> 1, admitted |-> TRUE] ELSE NoMachine]
  /\ upd = [id |-> 0, pc |-> "none"]
  /\ accepted = 0 /\ updates = 0 /\ faults = 0

-----------------------------------------------------------------------------
(* Host and machine processes (host.ts). *)

FreeHost(p) ==
  /\ host[p].st = "none" /\ mach[p] = NoMachine
  /\ p \notin {ready, record.host, journal.host, journal.successor}
  /\ \A q \in Hosts : q < p => ~(/\ host[q].st = "none" /\ mach[q] = NoMachine
                                 /\ q \notin {ready, record.host, journal.host, journal.successor})

Launched(p, release, owner) ==
  host' = [host EXCEPT ![p] = [st |-> "launched", rel |-> release, owner |-> owner,
                               managed |-> owner # 0]]

LockHeld == \E p \in Hosts : host[p].st \in {"locked", "open", "ready", "stopping"}

\* A managed host waits until the journal names its updater and itself; an
\* unmanaged one refuses to open while there is a journal.
Authorized(p) ==
  IF host[p].managed THEN journal.present /\ journal.owner = host[p].owner /\ journal.successor = p
                     ELSE ~journal.present

HostAuthorized(p) ==
  /\ host[p].st = "launched" /\ Authorized(p)
  /\ host' = [host EXCEPT ![p].st = "authorized", ![p].owner = 0]
  /\ UNCHANGED <<files, mach, upd, accepted, updates, faults>>

\* It takes the host lock, which the end of a process releases ...
HostLocks(p) ==
  /\ host[p].st = "authorized" /\ ~LockHeld
  /\ host' = [host EXCEPT ![p].st = "locked"]
  /\ UNCHANGED <<files, mach, upd, accepted, updates, faults>>

\* ... and retires the orphan that host-machine.json names.
HostOpens(p) ==
  /\ host[p].st = "locked"
  /\ host' = [host EXCEPT ![p].st = "open"]
  /\ IF MachineAlive(record.host, record.inc)
     THEN ~Alive(record.host) /\ mach' = [mach EXCEPT ![record.host] = NoMachine]
     ELSE UNCHANGED mach
  /\ UNCHANGED <<files, upd, accepted, updates, faults>>

\* bootMachine starts the machine of the host's selection ...
MachineBoots(p) ==
  /\ host[p].st = "open" /\ mach[p] = NoMachine
  /\ mach' = [mach EXCEPT ![p] = [st |-> "booting", inc |-> 1, admitted |-> ~host[p].managed]]
  /\ db' = [db EXCEPT !.schema = host[p].rel]
  /\ UNCHANGED <<journal, ckpt, selected, ready, record, host, upd, accepted, updates, faults>>

\* ... and tracks and selects it once it is ready.
MachineBooted(p) ==
  /\ host[p].st = "open" /\ mach[p].st = "booting"
  /\ mach' = [mach EXCEPT ![p].st = "live"] /\ record' = [host |-> p, inc |-> 1]
  /\ selected' = [selected EXCEPT !.machine = host[p].rel]
  /\ UNCHANGED <<journal, ckpt, db, ready, host, upd, accepted, updates, faults>>

HostReady(p) ==
  /\ host[p].st = "open" /\ mach[p].st = "live"
  /\ host' = [host EXCEPT ![p].st = "ready"] /\ ready' = p
  /\ selected' = IF host[p].managed THEN selected ELSE [selected EXCEPT !.host = host[p].rel]
  /\ UNCHANGED <<journal, ckpt, db, record, mach, upd, accepted, updates, faults>>

\* The host of an update that is committed, or about to be: ready, or started
\* again after the commit.
Promoted(p) ==
  /\ journal.present /\ journal.successor = p /\ journal.phase \in {"starting", "committed"}
  /\ journal.phase = "starting" => host[p].st \in {"ready", "stopping"}

\* A host that is not authorized in time, finds the lock taken, cannot retire the orphan or
\* fails to start exits;
\* a machine it has started already stays behind (for a promoted one: HostDies).
HostFails(p) ==
  /\ \/ host[p].st \in {"launched", "authorized", "locked"} \/ (host[p].st = "open" /\ mach[p].st = "none")
     \/ host[p].st = "open" /\ mach[p].st = "live" /\ ~Promoted(p)
  /\ host' = [host EXCEPT ![p] = NoHost]
  /\ UNCHANGED <<files, mach, upd, accepted, updates, faults>>

\* A machine that misses readiness is killed before bootMachine fails.
MachineFails(p) ==
  /\ host[p].st = "open" /\ mach[p].st = "booting"
  /\ mach' = [mach EXCEPT ![p] = NoMachine] /\ host' = [host EXCEPT ![p] = NoHost]
  /\ UNCHANGED <<files, upd, accepted, updates, faults>>

\* The SIGTERM handler: environment.close stops the tracked generation, not one
\* that the restart loop is just starting.
HostStops(p) ==
  /\ host[p].st = "stopping"
  /\ host' = [host EXCEPT ![p] = NoHost]
  /\ mach' = IF mach[p].st = "live" THEN [mach EXCEPT ![p] = NoMachine] ELSE mach
  /\ ready' = IF ready = p THEN 0 ELSE ready
  /\ UNCHANGED <<journal, ckpt, db, selected, record, upd, accepted, updates, faults>>

\* Mutant: a managed machine admits work as soon as it runs.
AdmitBeforeCommit(p) ==
  /\ mach[p].st = "live" /\ ~mach[p].admitted
  /\ mach' = [mach EXCEPT ![p].admitted = TRUE]
  /\ UNCHANGED <<files, host, upd, accepted, updates, faults>>

\* A machine started by an updater admits work once the journal is gone.
Admit(p) ==
  /\ mach[p].st = "live" /\ ~mach[p].admitted /\ ~journal.present
  /\ mach' = [mach EXCEPT ![p].admitted = TRUE]
  /\ UNCHANGED <<files, host, upd, accepted, updates, faults>>

\* Sessions of a machine write until it is stopped, journal or not.
Work(p) ==
  /\ mach[p].st = "live" /\ mach[p].admitted /\ accepted < MaxWork
  /\ accepted' = accepted + 1 /\ db' = [db EXCEPT !.work = @ + 1]
  /\ UNCHANGED <<journal, ckpt, selected, ready, record, procs, upd, updates, faults>>

-----------------------------------------------------------------------------
(* Faults. *)

Fault(kind) == kind \in Faults /\ faults < MaxFaults /\ faults' = faults + 1

\* A host whose machine is not in host-machine.json yet, and no journal names the host.
Unrecorded(p) == mach[p].st \in {"booting", "restarting"} /\ ~(host[p].managed /\ journal.present)

HostDies(p) ==
  /\ host[p].st \in {"open", "ready", "stopping"}
  /\ Fault(IF Promoted(p) THEN "promoted" ELSE IF Unrecorded(p) THEN "unrecorded" ELSE "host")
  /\ host' = [host EXCEPT ![p] = NoHost]
  /\ upd' = IF upd.pc = "handoff" /\ journal.host = p THEN [id |-> 0, pc |-> "none"] ELSE upd
  /\ UNCHANGED <<files, mach, accepted, updates>>

UpdaterDies ==
  /\ upd.id # 0 /\ Fault("updater")
  /\ upd' = [id |-> 0, pc |-> "none"]
  /\ UNCHANGED <<files, procs, accepted, updates>>

\* The active machine crashes; the host's restart loop starts it again.
MachineDies(p) ==
  /\ mach[p].st = "live" /\ host[p].st = "ready" /\ Fault("machine")
  /\ mach' = [mach EXCEPT ![p] = [st |-> "restarting", inc |-> @.inc + 1, admitted |-> ~host[p].managed]]
  /\ UNCHANGED <<files, host, upd, accepted, updates>>

\* It is recorded when it serves; so is one that outlived its host's start.
MachineRestarted(p) ==
  /\ mach[p].st = "restarting" \/ (mach[p].st = "booting" /\ ~Alive(p))
  /\ mach' = [mach EXCEPT ![p].st = "live"] /\ record' = [host |-> p, inc |-> mach[p].inc]
  /\ UNCHANGED <<journal, ckpt, db, selected, ready, host, upd, accepted, updates, faults>>

\* gitspace machine stop
OperatorStops(p) ==
  /\ ready = p /\ host[p].st = "ready" /\ Fault("operator")
  /\ host' = [host EXCEPT ![p].st = "stopping"]
  /\ UNCHANGED <<files, mach, upd, accepted, updates>>

-----------------------------------------------------------------------------
(* requestMachineUpdate, by the host, and the bootstrap. *)

FreshUpdater(u) ==
  LET used == {journal.owner} \cup {host[p].owner : p \in Hosts}
  IN u \in (1..MaxUpdaters) \ used /\ \A v \in (1..MaxUpdaters) \ used : u <= v

Request(p) ==
  /\ host[p].st = "ready" /\ upd.pc = "none" /\ ~journal.present /\ updates < MaxUpdates
  /\ record.host = p
  /\ journal' = [NoJournal EXCEPT !.present = TRUE, !.host = p, !.machine = record.inc,
                                  !.pred = selected.host]
  /\ upd' = [id |-> 0, pc |-> "handoff"] /\ updates' = updates + 1
  /\ UNCHANGED <<ckpt, db, selected, ready, record, procs, accepted, faults>>

\* The journal names the detached updater, which waits for exactly that.
Handoff ==
  /\ upd.pc = "handoff"
  /\ \E u \in 1..MaxUpdaters :
       /\ FreshUpdater(u)
       /\ journal' = [journal EXCEPT !.owner = u] /\ upd' = [id |-> u, pc |-> "begin"]
  /\ UNCHANGED <<ckpt, db, selected, ready, record, procs, accepted, updates, faults>>

\* The updater cannot be spawned, or its name not be written: the journal stays, owned by
\* the host that wrote it.
HandoffFails ==
  /\ upd.pc = "handoff" /\ Fault("write")
  /\ upd' = [id |-> 0, pc |-> "none"]
  /\ UNCHANGED <<files, procs, accepted, updates>>

\* Mutant: the bootstrap leaves every journal to its updater.
BootstrapIgnoresJournal ==
  /\ ~Alive(ready) /\ upd.pc = "none" /\ ~journal.present /\ ~LockHeld
  /\ \A p \in Hosts : host[p].st \notin {"launched", "authorized"}
  /\ \E p \in Hosts : FreeHost(p) /\ Launched(p, selected.host, 0)
  /\ UNCHANGED <<files, upd, mach, accepted, updates, faults>>

\* startMachineHost, which gitspace machine start runs unless a ready host lives;
\* a second one would find the owner alive or the host lock taken, and exit.
Bootstrap ==
  /\ ~Alive(ready) /\ upd.pc = "none"
  /\ \/ /\ journal.present /\ ~OwnerAlive
        /\ \E u \in 1..MaxUpdaters : FreshUpdater(u) /\ upd' = [id |-> u, pc |-> "begin"]
        /\ UNCHANGED host
     \/ /\ ~journal.present /\ ~LockHeld /\ \A p \in Hosts : host[p].st \notin {"launched", "authorized"}
        /\ \E p \in Hosts : FreeHost(p) /\ Launched(p, selected.host, 0)
        /\ UNCHANGED upd
  /\ UNCHANGED <<files, mach, accepted, updates, faults>>

-----------------------------------------------------------------------------
(* runMachineUpdate. *)

At(pc) == upd.pc = pc
Goto(pc) == upd' = [upd EXCEPT !.pc = pc]
Exits == upd' = [id |-> 0, pc |-> "none"]
Rest == <<accepted, updates, faults>>

Begin ==
  /\ At("begin") /\ journal' = [journal EXCEPT !.owner = upd.id]
  /\ Goto(CASE journal.phase = "prepared" -> "retire"
            [] journal.phase = "stopped" -> "snapshot"
            [] journal.phase = "checkpointed" -> "starting"
            [] journal.phase = "committed" -> "check"
            [] OTHER -> "fail")
  /\ UNCHANGED <<ckpt, db, selected, ready, record, procs, Rest>>

\* The machine must acknowledge its retirement, unless it is gone already.
Retire ==
  /\ At("retire")
  /\ \/ Goto("stopRequested")
     \/ /\ ~journal.stopRequested /\ MachineAlive(journal.host, journal.machine)
        /\ Goto("fail")
  /\ UNCHANGED <<files, procs, Rest>>

StopRequested ==
  /\ At("stopRequested") /\ journal' = [journal EXCEPT !.stopRequested = TRUE]
  /\ host' = IF Alive(journal.host) THEN [host EXCEPT ![journal.host].st = "stopping"] ELSE host
  /\ Goto("stop")
  /\ UNCHANGED <<ckpt, db, selected, ready, record, mach, Rest>>

\* stopHost(predecessor): the group of a host that does not exit is killed, and
\* so is the machine the journal names.
Escalate ==
  /\ At("stop") /\ Alive(journal.host)
  /\ host' = [host EXCEPT ![journal.host] = NoHost]
  /\ mach' = [mach EXCEPT ![journal.host] = NoMachine]
  /\ UNCHANGED <<files, upd, Rest>>

Stopped ==
  /\ At("stop") /\ ~Alive(journal.host)
  /\ mach' = IF MachineAlive(journal.host, journal.machine)
             THEN [mach EXCEPT ![journal.host] = NoMachine] ELSE mach
  /\ journal' = [journal EXCEPT !.phase = "stopped"] /\ Goto("snapshot")
  /\ UNCHANGED <<ckpt, db, selected, ready, record, host, Rest>>

\* rm of the old checkpoint and a copy that may fail half way.
Snapshot ==
  /\ At("snapshot")
  /\ \/ ckpt' = [st |-> "whole", work |-> db.work, schema |-> db.schema] /\ Goto("copied")
     \/ ckpt' = [st |-> "partial", work |-> 0, schema |-> 0] /\ Goto("fail")
  /\ UNCHANGED <<journal, db, selected, ready, record, procs, Rest>>

\* Mutant: the checkpoint boundary is journalled under the snapshot's name.
CheckpointedMisnamed ==
  /\ At("copied") /\ journal' = [journal EXCEPT !.complete = TRUE, !.phase = "snapshot"]
  /\ Goto("starting")
  /\ UNCHANGED <<ckpt, db, selected, ready, record, procs, Rest>>

Checkpointed ==
  /\ At("copied") /\ journal' = [journal EXCEPT !.complete = TRUE, !.phase = "checkpointed"]
  /\ Goto("starting")
  /\ UNCHANGED <<ckpt, db, selected, ready, record, procs, Rest>>

Starting ==
  /\ At("starting") /\ journal' = [journal EXCEPT !.phase = "starting"] /\ Goto("select")
  /\ UNCHANGED <<ckpt, db, selected, ready, record, procs, Rest>>

SelectMachine ==
  /\ At("select") /\ selected' = [selected EXCEPT !.machine = Candidate] /\ Goto("start")
  /\ UNCHANGED <<journal, ckpt, db, ready, record, procs, Rest>>

\* startHost: the release to start is the predecessor's in a rollback.
startHost ==
  /\ At("start") /\ ready' = 0 /\ record' = [host |-> 0, inc |-> 0]
  /\ \E p \in Hosts :
       /\ FreeHost(p)
       /\ Launched(p, IF journal.phase = "rollback" THEN journal.pred ELSE Candidate, upd.id)
  /\ Goto("spawned")
  /\ UNCHANGED <<journal, ckpt, db, selected, mach, Rest>>

RecordSuccessor ==
  /\ At("spawned")
  /\ \E p \in Hosts :
       /\ host[p].st = "launched" /\ host[p].owner = upd.id
       /\ journal' = [journal EXCEPT !.successor = p]
  /\ Goto("wait")
  /\ UNCHANGED <<ckpt, db, selected, ready, record, procs, Rest>>

\* A host that died before it could be recorded: the pid names nothing.
RecordDead ==
  /\ At("spawned") /\ ~ \E p \in Hosts : host[p].st = "launched" /\ host[p].owner = upd.id
  /\ journal' = [journal EXCEPT !.successor = 0] /\ Goto("wait")
  /\ UNCHANGED <<ckpt, db, selected, ready, record, procs, Rest>>

\* The successor's name cannot be written: its updater kills it by the pid it holds, or, in
\* a rollback, ends and leaves it unauthorized.
RecordFails ==
  /\ At("spawned") /\ Fault("write")
  /\ IF journal.phase = "rollback" THEN Exits /\ UNCHANGED host
     ELSE /\ host' = [p \in Hosts |-> IF host[p].owner = upd.id THEN NoHost ELSE host[p]]
          /\ Goto("rollback")
  /\ UNCHANGED <<files, mach, accepted, updates>>

Waited ==
  /\ At("wait") /\ ready # 0 /\ ready = journal.successor /\ Alive(ready)
  /\ Goto(IF journal.phase = "starting" THEN "promote" ELSE "done")
  /\ UNCHANGED <<files, procs, Rest>>

\* The successor died or was not ready in time.
TimedOut ==
  /\ At("wait")
  /\ IF journal.phase = "rollback" THEN Exits ELSE Goto("fail")
  /\ UNCHANGED <<files, procs, Rest>>

\* A write, a verification or a spawn fails on the way to the commit.
Throws ==
  /\ upd.pc \in {"starting", "select", "start", "promote", "commit"} /\ journal.phase # "rollback"
  /\ Goto("fail")
  /\ UNCHANGED <<files, procs, Rest>>

\* stopHost gives up: a predecessor that survived keeps the journal as it is.
StopThrows ==
  /\ At("stop")
  /\ IF Alive(journal.host) \/ MachineAlive(journal.host, journal.machine) THEN Exits ELSE Goto("fail")
  /\ UNCHANGED <<files, procs, Rest>>

Promote ==
  /\ At("promote") /\ selected' = [selected EXCEPT !.host = Candidate] /\ Goto("commit")
  /\ UNCHANGED <<journal, ckpt, db, ready, record, procs, Rest>>

Commit ==
  /\ At("commit") /\ journal' = [journal EXCEPT !.phase = "committed"] /\ Goto("check")
  /\ UNCHANGED <<ckpt, db, selected, ready, record, procs, Rest>>

Check ==
  /\ At("check") /\ Goto(IF Alive(journal.successor) THEN "done" ELSE "start")
  /\ UNCHANGED <<files, procs, Rest>>

\* The end: the journal is removed, then the checkpoint.
Done ==
  /\ At("done") /\ journal' = NoJournal /\ ckpt' = [st |-> "absent", work |-> 0, schema |-> 0]
  /\ Exits
  /\ UNCHANGED <<db, selected, ready, record, procs, Rest>>

-----------------------------------------------------------------------------
(* The catch block. *)

Unstopped == journal.phase = "prepared" /\ ~journal.stopRequested

\* The predecessor was never asked to stop: the update is dropped.
FailUnstopped ==
  /\ At("fail") /\ Unstopped
  /\ journal' = NoJournal /\ Exits
  /\ UNCHANGED <<ckpt, db, selected, ready, record, procs, Rest>>

\* Mutant: the candidate is not stopped before the checkpoint is restored.
FailWithoutStop == At("fail") /\ ~Unstopped /\ Goto("rollback") /\ UNCHANGED <<files, procs, Rest>>

\* stopHost(successor, failed) kills the successor's whole process group.
Fail ==
  /\ At("fail") /\ ~Unstopped
  /\ IF journal.successor = 0 THEN UNCHANGED procs
     ELSE /\ host' = [host EXCEPT ![journal.successor] = NoHost]
          /\ mach' = [mach EXCEPT ![journal.successor] = NoMachine]
  /\ Goto("rollback") /\ UNCHANGED <<files, Rest>>

\* Mutant: the checkpoint is not restored.
EnterRollbackWithoutRestore ==
  /\ At("rollback") /\ journal' = [journal EXCEPT !.phase = "rollback"] /\ Goto("reselect")
  /\ UNCHANGED <<ckpt, db, selected, ready, record, procs, Rest>>

EnterRollback ==
  /\ At("rollback") /\ journal' = [journal EXCEPT !.phase = "rollback"]
  /\ Goto(IF journal.complete THEN "clear" ELSE "reselect")
  /\ UNCHANGED <<ckpt, db, selected, ready, record, procs, Rest>>

\* restore removes each file and copies it back.
RestoreClears ==
  /\ At("clear") /\ db' = NoData /\ selected' = [selected EXCEPT !.machine = 0]
  /\ Goto("restore")
  /\ UNCHANGED <<journal, ckpt, ready, record, procs, Rest>>

RestoreCopies ==
  /\ At("restore") /\ db' = [work |-> ckpt.work, schema |-> ckpt.schema]
  /\ selected' = [selected EXCEPT !.machine = journal.pred] /\ Goto("reselect")
  /\ UNCHANGED <<journal, ckpt, ready, record, procs, Rest>>

\* Mutant: host-selection.json keeps the candidate.
ReselectNothing == At("reselect") /\ Goto("start") /\ UNCHANGED <<files, procs, Rest>>

Reselect ==
  /\ At("reselect") /\ selected' = [selected EXCEPT !.host = journal.pred] /\ Goto("start")
  /\ UNCHANGED <<journal, ckpt, db, ready, record, procs, Rest>>

Updater == \/ Handoff \/ Begin \/ Retire \/ StopRequested \/ Escalate \/ Stopped
           \/ Snapshot \/ Checkpointed \/ Starting \/ SelectMachine \/ startHost
           \/ RecordSuccessor \/ RecordDead \/ Waited \/ TimedOut \/ Throws \/ StopThrows
           \/ Promote \/ Commit \/ Check \/ Done
           \/ FailUnstopped \/ Fail \/ EnterRollback \/ RestoreClears \/ RestoreCopies \/ Reselect

HostStep(p) == \/ HostAuthorized(p) \/ HostLocks(p) \/ HostOpens(p) \/ MachineBoots(p) \/ MachineBooted(p) \/ HostReady(p)
               \/ HostFails(p) \/ MachineFails(p) \/ HostStops(p) \/ MachineRestarted(p)

Next ==
  \/ Bootstrap \/ Updater \/ UpdaterDies \/ HandoffFails \/ RecordFails
  \/ \E p \in Hosts : \/ HostStep(p) \/ Admit(p) \/ Work(p) \/ Request(p)
                      \/ HostDies(p) \/ MachineDies(p) \/ OperatorStops(p)

Spec == Init /\ [][Next]_vars

\* A step in which a host that could have become ready does not, or a process
\* survives SIGKILL.
Misfortune ==
  \/ TimedOut /\ Alive(journal.successor)
  \/ StopThrows
  \/ \E p \in Hosts : (host[p].st \in {"authorized", "locked", "open"} \/ Authorized(p)) /\ (HostFails(p) \/ MachineFails(p))
  \/ upd.pc = "spawned" /\ \E p \in Hosts : host[p].owner = upd.id /\ HostFails(p)

\* Timeouts bound every wait of the updater and of a starting host; whoever
\* runs the machine starts it again while no host is ready (gitspace machine
\* start); and misfortune does not strike for ever.
Fairness ==
  /\ WF_vars(Updater) /\ WF_vars(Bootstrap) /\ WF_vars(\E p \in Hosts : HostStep(p))
  /\ <>[][~Misfortune]_vars

FairSpec == Spec /\ Fairness

-----------------------------------------------------------------------------
Machines == {p \in Hosts : mach[p].st # "none"}

\* At most one machine ever has the runtime database open, through the handoff, a death of
\* the updater, of a host before its promotion or a machine stop at any step, and every
\* recovery; and none while it is copied or put back.  It is not so once the fault kinds
\* "promoted", "unrecorded" or "machine" happen: the machine of a successor that dies after
\* its promotion is not stopped before the next is started (machine-update.ts:509), and a
\* machine that host-machine.json does not name yet, or names by an earlier incarnation,
\* is found by nobody.
OneWriter ==
  /\ Cardinality(Machines) <= 1
  /\ upd.pc \in {"snapshot", "clear", "restore"} => Machines = {}

\* No accepted work is lost: whenever no update is pending the database holds
\* all of it, however often an update was rolled back or recovered.
NothingLost == ~journal.present => db.work = accepted

\* A predecessor that a rollback starts again finds its own data: nothing the
\* candidate migrated and nothing missing.
RollbackPristine ==
  \A p \in Hosts : journal.phase = "rollback" /\ host[p].st = "open" /\ mach[p].st = "none" =>
    db = [work |-> accepted, schema |-> journal.pred]

\* Whenever no update is pending, both selection files name one release and a
\* serving host runs it.
SelectionAgrees ==
  ~journal.present => /\ selected.host = selected.machine
                      /\ \A p \in Hosts : host[p].st = "ready" => host[p].rel = selected.host

\* An update ends, committed or rolled back, unless an interrupted one leaves a
\* ready host behind, which the bootstrap does not replace.
UpdateResolves == journal.present ~> (~journal.present \/ (upd.pc = "none" /\ Alive(ready)))
=============================================================================
