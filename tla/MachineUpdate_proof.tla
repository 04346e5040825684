-------------------------- MODULE MachineUpdate_proof --------------------------
(***************************************************************************)
(* Proofs about the complete-machine update, for any number of hosts,      *)
(* updaters, updates, units of work and faults.                            *)
(***************************************************************************)
EXTENDS MachineUpdate, FiniteSetTheorems, TLAPS

\* The faults that the code recovers from: not the death of a promoted successor, of
\* a machine, or of a host whose machine nothing names yet.
Recoverable == Faults \cap {"unrecorded", "promoted", "machine"} = {}

JournalType == [present : BOOLEAN, owner : 0..MaxUpdaters, host : 0..MaxHosts,
                machine : Incarnations, pred : Releases, phase : Phases,
                stopRequested : BOOLEAN, complete : BOOLEAN, successor : 0..MaxHosts]
HostType == [st : HostStates, rel : Releases,
             owner : 0..MaxUpdaters, managed : BOOLEAN]
MachType == [st : {"none", "booting", "live", "restarting"}, inc : Incarnations, admitted : BOOLEAN]

\* TypeOK, by the types of its records.
Typed ==
  /\ journal \in JournalType
  /\ ckpt \in [st : {"absent", "partial", "whole"}, work : 0..MaxWork, schema : 0..2]
  /\ db \in [work : 0..MaxWork, schema : 0..2]
  /\ selected \in [host : Releases, machine : 0..2]
  /\ ready \in 0..MaxHosts /\ record \in [host : 0..MaxHosts, inc : Incarnations]
  /\ host \in [Hosts -> HostType] /\ mach \in [Hosts -> MachType]
  /\ upd \in [id : 0..MaxUpdaters, pc : Positions]
  /\ accepted \in 0..MaxWork /\ updates \in 0..MaxUpdates /\ faults \in 0..MaxFaults

\* What the bounds of the types rest on.
Bounded ==
  /\ \A p \in Hosts : mach[p].inc <= faults + 1
  /\ db.work <= accepted /\ ckpt.work <= accepted

TInv == Typed /\ Bounded

\* A host that was let in holds the lock or will; it opens when it has it.
Opened(p) == host[p].st \in {"open", "ready", "stopping"}
Holder(p) == Opened(p) \/ host[p].st \in {"authorized", "locked"}
Runs(p)   == mach[p].st # "none"
Empty     == \A p \in Hosts : ~Holder(p) /\ ~Runs(p)
Exited    == {"none", "ready", "stopping"}

\* One host holds the lock.  A machine has its first incarnation, comes with its host
\* and is on record once it serves.
Processes ==
  /\ \A p \in Hosts : /\ mach[p].st \in {"none", "booting", "live"}
                      /\ Runs(p) => mach[p].inc = 1
                      /\ ~Runs(p) => ~mach[p].admitted
                      /\ Runs(p) => host[p].st \notin {"launched", "authorized", "locked"}
                      /\ mach[p].st = "booting" => host[p].st \in {"none", "open"}
                      /\ host[p].st \in {"ready", "stopping"} => Runs(p)
                      /\ host[p].owner # 0 => host[p].st = "launched"
                      /\ mach[p].st = "live" => record.host = p
  /\ \A p, q \in Hosts : Holder(p) /\ Holder(q) => p = q
  /\ record.host # 0 => record.inc = 1
  /\ ready # 0 => host[ready].st \in Exited

\* The phases in which an updater is at a position.
InPhase ==
  /\ upd.pc \in {"handoff", "retire", "stopRequested", "stop"} => journal.phase = "prepared"
  /\ upd.pc \in {"snapshot", "copied"} => journal.phase = "stopped"
  /\ upd.pc = "starting" => journal.phase = "checkpointed"
  /\ upd.pc \in {"select", "promote", "commit"} => journal.phase = "starting"
  /\ upd.pc \in {"start", "spawned", "wait"} => journal.phase \in {"starting", "committed", "rollback"}
  /\ upd.pc = "check" => journal.phase = "committed"
  /\ upd.pc = "done" => journal.phase \in {"committed", "rollback"}
  /\ upd.pc \in {"clear", "restore", "reselect"} => journal.phase = "rollback"

\* The journal, and where its updater is.
Transaction ==
  /\ ~journal.present => journal.phase = "prepared" /\ upd.pc = "none"
  /\ journal.present => journal.host # 0 /\ journal.machine = 1
  /\ upd.id = 0 <=> upd.pc \in {"none", "handoff"}
  /\ InPhase
  /\ upd.pc = "stop" => journal.stopRequested
  /\ journal.phase \in {"prepared", "stopped", "checkpointed"} => journal.successor = 0

\* Where nothing may run.
StillAt == {"select", "start", "spawned", "rollback", "clear", "restore", "reselect"}

\* During an update only the predecessor, then nobody, then the successor has a machine.
During == journal.present =>
  /\ journal.phase = "prepared" =>
       /\ \A p \in Hosts : (Holder(p) \/ Runs(p) => p = journal.host) /\ mach[p].st # "booting"
       /\ host[journal.host].st \in Exited
       /\ journal.stopRequested /\ upd.pc = "fail" => Empty
  /\ journal.phase \in {"stopped", "checkpointed"} => Empty
  /\ journal.phase \in {"starting", "committed", "rollback"} =>
       \A p \in Hosts : Holder(p) \/ Runs(p) => p = journal.successor
  /\ upd.pc \in StillAt => Empty /\ (journal.successor # 0 => host[journal.successor].st = "none")
  /\ journal.phase = "committed" \/ upd.pc \in {"promote", "commit"} =>
       \A p \in Hosts : Runs(p) => Holder(p)
  /\ upd.pc = "done" => \A p \in Hosts : mach[p].st = "booting" => Holder(p)
  /\ upd.pc \in {"promote", "commit"} \/ (upd.pc = "done" /\ journal.phase = "rollback") =>
       journal.successor # 0 /\ host[journal.successor].st \in Exited

\* Between updates a machine without its host is on record.
Between == ~journal.present =>
  /\ \A p, q \in Hosts : Opened(p) /\ Runs(q) => p = q
  /\ \A p \in Hosts : mach[p].st = "booting" => Holder(p)

WInv == TInv /\ Processes /\ Transaction /\ During /\ Between

Target == IF journal.phase = "rollback" THEN journal.pred ELSE Candidate

\* An updater has one host that waits for it, of the release it is to start.
Owners ==
  /\ \A p \in Hosts : upd.id # 0 /\ host[p].owner = upd.id => upd.pc = "spawned" \/ p = journal.successor
  /\ upd.pc = "spawned" =>
       \A p \in Hosts : host[p].owner = upd.id =>
         host[p].rel = Target /\ \A q \in Hosts : host[q].owner = upd.id => p = q
  /\ journal.successor # 0 /\ host[journal.successor].st # "none" => host[journal.successor].rel = Target

\* An unmanaged host starts alone and without a journal.
Starters ==
  \A p \in Hosts : ~host[p].managed =>
    /\ host[p].st \in {"launched", "authorized", "locked"} =>
         ~journal.present /\ \A q \in Hosts : q # p => host[q].st = "none"
    /\ host[p].st = "open" => ~journal.present

\* A rollback has put everything back before it starts the predecessor.
Restored == journal.phase = "rollback" =>
  /\ \/ upd.pc \in {"reselect", "start", "spawned", "wait", "done"}
     \/ journal.successor # 0 /\ host[journal.successor].st # "none"
     => db.work = accepted /\ db.schema = journal.pred /\ selected.machine = journal.pred
  /\ \/ upd.pc \in {"start", "spawned", "wait", "done"}
     \/ journal.successor # 0 /\ host[journal.successor].st # "none"
     => selected.host = journal.pred

\* Between updates the database holds all work, migrated by the release selected.
Settled == ~journal.present =>
  /\ db.work = accepted /\ db.schema = selected.host /\ selected.machine = selected.host
  /\ \A p \in Hosts : Holder(p) \/ (host[p].st = "launched" /\ ~host[p].managed) => host[p].rel = selected.host

\* During an update the database or the checkpoint does, migrated by the predecessor
\* where it is the one that a rollback would start.
Saved == journal.present =>
  /\ journal.phase # "prepared" => \A p \in Hosts : ~mach[p].admitted
  /\ ~journal.complete => /\ db.work = accepted /\ db.schema = journal.pred /\ selected.machine = journal.pred
                          /\ journal.phase \in {"prepared", "stopped", "rollback"}
  /\ journal.phase \in {"prepared", "stopped"} => ~journal.complete
  /\ upd.pc \in {"clear", "restore"} => journal.complete
  /\ journal.complete \/ upd.pc = "copied" => ckpt.work = accepted /\ ckpt.schema = journal.pred
  /\ journal.phase = "prepared" => /\ selected.host = journal.pred
                                   /\ \A p \in Hosts : Holder(p) => host[p].rel = journal.pred
  /\ journal.phase \in {"checkpointed", "starting"} => db.work = accepted
  /\ journal.phase = "starting" =>
       /\ \A p \in Hosts : Runs(p) => db.schema = Candidate
       /\ upd.pc \in {"start", "spawned", "wait", "promote", "commit"} => selected.machine = Candidate
       /\ upd.pc \in {"promote", "commit"} => db.schema = Candidate
       /\ upd.pc = "commit" => selected.host = Candidate
  /\ journal.phase = "committed" =>
       /\ db.work = accepted /\ db.schema = Candidate
       /\ selected.host = Candidate /\ selected.machine = Candidate

IInv == WInv /\ Owners /\ Starters /\ Restored /\ Settled /\ Saved

-----------------------------------------------------------------------------
(* Types, whatever faults there are. *)

\* The constants.
LEMMA Sizes ==
  /\ MaxHosts \in Nat \ {0} /\ MaxUpdaters \in Nat \ {0} /\ MaxUpdates \in Nat /\ MaxWork \in Nat /\ MaxFaults \in Nat
  /\ Hosts \subseteq 0..MaxHosts /\ 0 \notin Hosts /\ \A p \in 0..MaxHosts : p # 0 => p \in Hosts
  /\ 0 \in Incarnations /\ 1 \in Incarnations /\ 1 \in Releases /\ 2 \in Releases
  /\ 0 \in 0..MaxHosts /\ 0 \in 0..MaxUpdaters /\ 0 \in 0..MaxWork
BY UpdateAssumption DEF Hosts, Incarnations, Releases

\* What stands for an absent journal, host and machine.
LEMMA Absent ==
  NoJournal \in JournalType /\ NoHost \in HostType /\ NoMachine \in MachType
BY Sizes DEF NoJournal, NoHost, NoMachine, JournalType, HostType, HostStates, MachType, Phases

\* Typed says what TypeOK says.
LEMMA TypedTypeOK == Typed <=> TypeOK
BY DEF Typed, TypeOK, JournalType, HostType, HostStates, MachType

\* A host that is launched or changes its state.
LEMMA HostTypes ==
  ASSUME Typed, NEW p \in Hosts
  PROVE  /\ [host EXCEPT ![p] = NoHost] \in [Hosts -> HostType]
         /\ [mach EXCEPT ![p] = NoMachine] \in [Hosts -> MachType]
         /\ \A s \in {"launched", "locked", "open", "ready", "stopping"} :
              [host EXCEPT ![p].st = s] \in [Hosts -> HostType]
         /\ \A r \in Releases, u \in 0..MaxUpdaters : Launched(p, r, u) => host' \in [Hosts -> HostType]
         /\ [mach EXCEPT ![p].admitted = TRUE] \in [Hosts -> MachType]
         /\ [mach EXCEPT ![p].st = "live"] \in [Hosts -> MachType]
         /\ [host EXCEPT ![p].st = "authorized", ![p].owner = 0] \in [Hosts -> HostType]
<1>1. host \in [Hosts -> HostType] /\ mach \in [Hosts -> MachType]
  BY DEF Typed
<1>2. /\ [host EXCEPT ![p] = NoHost] \in [Hosts -> HostType]
      /\ [mach EXCEPT ![p] = NoMachine] \in [Hosts -> MachType]
  BY <1>1, Absent
<1>3. \A s \in {"launched", "locked", "open", "ready", "stopping"} : [host EXCEPT ![p].st = s] \in [Hosts -> HostType]
  BY <1>1 DEF HostType, HostStates
<1>4. ASSUME NEW r \in Releases, NEW u \in 0..MaxUpdaters, Launched(p, r, u) PROVE host' \in [Hosts -> HostType]
  BY <1>1, <1>4 DEF HostType, HostStates, Launched
<1>5. /\ [mach EXCEPT ![p].admitted = TRUE] \in [Hosts -> MachType]
      /\ [mach EXCEPT ![p].st = "live"] \in [Hosts -> MachType]
  BY <1>1 DEF MachType
<1>6. [host EXCEPT ![p].st = "authorized", ![p].owner = 0] \in [Hosts -> HostType]
  BY <1>1, Sizes DEF HostType, HostStates
<1> QED
  BY <1>2, <1>3, <1>4, <1>5, <1>6

\* An updater that exits.
LEMMA ExitsTyped ==
  ASSUME Exits
  PROVE  upd' \in [id : 0..MaxUpdaters, pc : Positions]
BY Sizes DEF Exits, Positions

\* A machine that stops, serves or admits work keeps its incarnation.
LEMMA Incs ==
  ASSUME TInv, NEW p \in Hosts
  PROVE  /\ \A q \in Hosts : [mach EXCEPT ![p] = NoMachine][q].inc <= faults + 1
         /\ \A q \in Hosts : [mach EXCEPT ![p].st = "live"][q].inc <= faults + 1
         /\ \A q \in Hosts : [mach EXCEPT ![p].admitted = TRUE][q].inc <= faults + 1
<1>1. mach \in [Hosts -> MachType] /\ faults \in Nat /\ \A q \in Hosts : mach[q].inc <= faults + 1
  BY Sizes DEF TInv, Typed, Bounded
<1>2. \A q \in Hosts : [mach EXCEPT ![p] = NoMachine][q].inc <= faults + 1
  BY <1>1 DEF NoMachine
<1>3. mach[p] \in MachType
  BY <1>1
<1>4. [mach[p] EXCEPT !.st = "live"].inc = mach[p].inc /\ [mach[p] EXCEPT !.admitted = TRUE].inc = mach[p].inc
  BY <1>3 DEF MachType
<1> QED
  BY <1>1, <1>2, <1>4

\* The steps of hosts, machines and their faults.
LEMMA HostTyped ==
  ASSUME TInv, NEW p \in Hosts,
         \/ HostStep(p) \/ Admit(p) \/ Work(p) \/ HostDies(p) \/ MachineDies(p) \/ OperatorStops(p)
  PROVE  TInv'
<1> USE DEF TInv, files, procs
<1>0. CASE HostAuthorized(p) \/ HostLocks(p)
  <2>1. host' \in [Hosts -> HostType]
    <3>1. CASE HostAuthorized(p)
      BY <3>1, HostTypes DEF HostAuthorized
    <3>2. CASE HostLocks(p)
      BY <3>2, HostTypes DEF HostLocks
    <3> QED
      BY <1>0, <3>1, <3>2
  <2> QED
    BY <1>0, <2>1 DEF HostAuthorized, HostLocks, Typed, Bounded
<1>1. CASE HostOpens(p)
  <2>1. host' \in [Hosts -> HostType]
    BY <1>1, HostTypes DEF HostOpens
  <2>2. mach' \in [Hosts -> MachType] /\ \A q \in Hosts : mach'[q].inc <= faults + 1
    <3>1. CASE MachineAlive(record.host, record.inc)
      <4>1. record.host \in Hosts
        BY <3>1, Sizes DEF MachineAlive, Typed
      <4>2. mach' = [mach EXCEPT ![record.host] = NoMachine]
        BY <1>1, <3>1 DEF HostOpens
      <4> QED
        BY <4>1, <4>2, HostTypes, Incs
    <3>2. CASE ~MachineAlive(record.host, record.inc)
      BY <1>1, <3>2 DEF HostOpens, Bounded, Typed
    <3> QED
      BY <3>1, <3>2
  <2> QED
    BY <1>1, <2>1, <2>2 DEF HostOpens, Typed, Bounded
<1>2. CASE MachineBoots(p)
  <2>1. host[p].rel \in Releases /\ host[p].managed \in BOOLEAN /\ mach \in [Hosts -> MachType]
    BY DEF Typed, HostType, HostStates
  <2>2. [st |-> "booting", inc |-> 1, admitted |-> ~host[p].managed] \in MachType
    BY <2>1, Sizes DEF MachType
  <2>3. mach' \in [Hosts -> MachType] /\ \A q \in Hosts : mach'[q].inc <= faults + 1
    BY <1>2, <2>1, <2>2, Sizes DEF MachineBoots, Bounded, Typed
  <2>4. db' \in [work : 0..MaxWork, schema : 0..2] /\ db'.work = db.work
    BY <1>2, <2>1 DEF MachineBoots, Typed, Releases
  <2> QED
    BY <1>2, <2>3, <2>4 DEF MachineBoots, Typed, Bounded
<1>3. CASE MachineBooted(p)
  <2>1. mach' \in [Hosts -> MachType] /\ \A q \in Hosts : mach'[q].inc <= faults + 1
    BY <1>3, HostTypes, Incs DEF MachineBooted
  <2>2. /\ record' \in [host : 0..MaxHosts, inc : Incarnations]
        /\ selected' \in [host : Releases, machine : 0..2]
    BY <1>3, Sizes DEF MachineBooted, Typed, HostType, HostStates, Releases
  <2> QED
    BY <1>3, <2>1, <2>2 DEF MachineBooted, Typed, Bounded
<1>4. CASE HostReady(p)
  <2>1. host' \in [Hosts -> HostType] /\ ready' \in 0..MaxHosts
    BY <1>4, HostTypes, Sizes DEF HostReady
  <2>2. selected' \in [host : Releases, machine : 0..2]
    BY <1>4 DEF HostReady, Typed, HostType, HostStates
  <2> QED
    BY <1>4, <2>1, <2>2 DEF HostReady, Typed, Bounded
<1>5. CASE HostFails(p)
  BY <1>5, HostTypes DEF HostFails, Typed, Bounded
<1>6. CASE MachineFails(p)
  <2>1. \A q \in Hosts : mach'[q].inc <= faults + 1
    BY <1>6, Incs DEF MachineFails
  <2> QED
    BY <1>6, <2>1, HostTypes DEF MachineFails, Typed, Bounded
<1>7. CASE HostStops(p)
  <2>1. \A q \in Hosts : mach'[q].inc <= faults + 1
    BY <1>7, Incs DEF HostStops, Bounded
  <2>2. ready' \in 0..MaxHosts
    BY <1>7, Sizes DEF HostStops, Typed
  <2> QED
    BY <1>7, <2>1, <2>2, HostTypes DEF HostStops, Typed, Bounded
<1>8. CASE MachineRestarted(p)
  <2>1. mach' \in [Hosts -> MachType] /\ \A q \in Hosts : mach'[q].inc <= faults + 1
    BY <1>8, HostTypes, Incs DEF MachineRestarted
  <2>2. record' \in [host : 0..MaxHosts, inc : Incarnations]
    BY <1>8, Sizes DEF MachineRestarted, Typed, MachType
  <2> QED
    BY <1>8, <2>1, <2>2 DEF MachineRestarted, Typed, Bounded
<1>9. CASE Admit(p)
  <2>1. \A q \in Hosts : mach'[q].inc <= faults + 1
    BY <1>9, Incs DEF Admit
  <2> QED
    BY <1>9, <2>1, HostTypes DEF Admit, Typed, Bounded
<1>10. CASE Work(p)
  <2>1. accepted' \in 0..MaxWork /\ accepted' = accepted + 1 /\ accepted \in Nat
    BY <1>10, Sizes DEF Work, Typed
  <2>2. db' \in [work : 0..MaxWork, schema : 0..2] /\ db'.work <= accepted'
    BY <1>10, <2>1, Sizes DEF Work, Typed, Bounded
  <2>3. ckpt.work <= accepted'
    BY <2>1, Sizes DEF Typed, Bounded
  <2> QED
    BY <1>10, <2>1, <2>2, <2>3 DEF Work, Typed, Bounded
<1>11. CASE HostDies(p)
  <2>1. faults' \in 0..MaxFaults /\ faults' = faults + 1
    BY <1>11, Sizes DEF HostDies, Fault, Typed
  <2>2. \A q \in Hosts : mach[q].inc <= faults' + 1
    BY <2>1, Sizes DEF Bounded, Typed, MachType, Incarnations
  <2>3. upd' \in [id : 0..MaxUpdaters, pc : Positions]
    BY <1>11, Sizes DEF HostDies, Typed, Positions
  <2> QED
    BY <1>11, <2>1, <2>2, <2>3, HostTypes DEF HostDies, Typed, Bounded
<1>12. CASE MachineDies(p)
  <2>1. faults' \in 0..MaxFaults /\ faults' = faults + 1
    BY <1>12, Sizes DEF MachineDies, Fault, Typed
  <2>2. mach[p].inc + 1 \in Incarnations /\ \A q \in Hosts : mach[q].inc <= faults' + 1
    BY <2>1, Sizes DEF Bounded, Typed, MachType, Incarnations
  <2>3. mach[p].inc + 1 <= faults' + 1
    BY <2>1, Sizes DEF Bounded, Typed, MachType, Incarnations
  <2> DEFINE m == [st |-> "restarting", inc |-> mach[p].inc + 1, admitted |-> ~host[p].managed]
  <2>4. m \in MachType /\ m.inc = mach[p].inc + 1
    BY <2>2 DEF MachType, Typed, HostType, HostStates
  <2>5. mach' = [mach EXCEPT ![p] = m]
    BY <1>12 DEF MachineDies
  <2> HIDE DEF m
  <2>6. mach' \in [Hosts -> MachType] /\ \A q \in Hosts : mach'[q].inc <= faults' + 1
    BY <2>2, <2>3, <2>4, <2>5 DEF Typed
  <2> QED
    BY <1>12, <2>1, <2>6 DEF MachineDies, Typed, Bounded
<1>13. CASE OperatorStops(p)
  <2>1. faults' \in 0..MaxFaults /\ faults' = faults + 1
    BY <1>13, Sizes DEF OperatorStops, Fault, Typed
  <2>2. \A q \in Hosts : mach[q].inc <= faults' + 1
    BY <2>1, Sizes DEF Bounded, Typed, MachType, Incarnations
  <2> QED
    BY <1>13, <2>1, <2>2, HostTypes DEF OperatorStops, Typed, Bounded
<1> QED
  BY <1>0, <1>1, <1>2, <1>3, <1>4, <1>5, <1>6, <1>7, <1>8, <1>9, <1>10, <1>11, <1>12, <1>13 DEF HostStep

\* The journal takes new values of its fields.
LEMMA JournalTypes ==
  ASSUME Typed
  PROVE  /\ \A u \in 0..MaxUpdaters : [journal EXCEPT !.owner = u] \in JournalType
         /\ \A f \in Phases : [journal EXCEPT !.phase = f] \in JournalType
         /\ \A p \in 0..MaxHosts : [journal EXCEPT !.successor = p] \in JournalType
         /\ [journal EXCEPT !.stopRequested = TRUE] \in JournalType
         /\ [journal EXCEPT !.complete = TRUE, !.phase = "checkpointed"] \in JournalType
<1>1. journal \in JournalType
  BY DEF Typed
<1>2. \A u \in 0..MaxUpdaters : [journal EXCEPT !.owner = u] \in JournalType
  BY <1>1 DEF JournalType
<1>3. \A f \in Phases : [journal EXCEPT !.phase = f] \in JournalType
  BY <1>1 DEF JournalType
<1>4. \A p \in 0..MaxHosts : [journal EXCEPT !.successor = p] \in JournalType
  BY <1>1 DEF JournalType
<1>5. [journal EXCEPT !.stopRequested = TRUE] \in JournalType
  BY <1>1 DEF JournalType
<1>6. [journal EXCEPT !.complete = TRUE, !.phase = "checkpointed"] \in JournalType
  BY <1>1 DEF JournalType, Phases
<1> QED
  BY <1>2, <1>3, <1>4, <1>5, <1>6

\* The steps of the updater, of who asks for it and of who starts it again.
LEMMA UpdaterTyped ==
  ASSUME TInv, Bootstrap \/ Updater \/ UpdaterDies \/ HandoffFails \/ RecordFails \/ \E p \in Hosts : Request(p)
  PROVE  TInv'
<1> USE DEF TInv, files, procs, Rest
<1>0. /\ \A pc \in Positions : Goto(pc) => upd' \in [id : 0..MaxUpdaters, pc : Positions]
      /\ Exits => upd' \in [id : 0..MaxUpdaters, pc : Positions]
      /\ Candidate \in Releases /\ journal.pred \in Releases /\ upd.id \in 0..MaxUpdaters
      /\ \A r \in Releases : /\ [selected EXCEPT !.machine = r] \in [host : Releases, machine : 0..2]
                             /\ [selected EXCEPT !.host = r] \in [host : Releases, machine : 0..2]
  <2>1. \A pc \in Positions : Goto(pc) => upd' \in [id : 0..MaxUpdaters, pc : Positions]
    BY DEF Goto, Typed
  <2>2. Candidate \in Releases /\ journal.pred \in Releases /\ upd.id \in 0..MaxUpdaters
    BY DEF Candidate, Typed, JournalType, Releases
  <2>3. \A r \in Releases : /\ [selected EXCEPT !.machine = r] \in [host : Releases, machine : 0..2]
                            /\ [selected EXCEPT !.host = r] \in [host : Releases, machine : 0..2]
    BY DEF Typed, Releases
  <2> QED
    BY <2>1, <2>2, <2>3, ExitsTyped
<1>18. CASE HandoffFails \/ RecordFails
  <2>1. faults' \in 0..MaxFaults /\ \A q \in Hosts : mach[q].inc <= faults' + 1
    BY <1>18, Sizes DEF HandoffFails, RecordFails, Fault, Typed, Bounded, MachType, Incarnations
  <2>2. upd' \in [id : 0..MaxUpdaters, pc : Positions]
    <3>1. CASE HandoffFails
      BY <3>1, Sizes DEF HandoffFails, Positions
    <3>2. CASE RecordFails
      BY <1>0, <3>2 DEF RecordFails, Positions
    <3> QED
      BY <1>18, <3>1, <3>2
  <2>3. host' \in [Hosts -> HostType]
    <3>1. NoHost \in HostType /\ host \in [Hosts -> HostType]
      BY Absent DEF Typed
    <3>2. \/ host' = host
          \/ host' = [q \in Hosts |-> IF host[q].owner = upd.id THEN NoHost ELSE host[q]]
      BY <1>18 DEF HandoffFails, RecordFails
    <3> QED
      BY <3>1, <3>2
  <2> QED
    BY <1>18, <2>1, <2>2, <2>3 DEF HandoffFails, RecordFails, Typed, Bounded
<1>1. CASE Bootstrap
  <2>1. CASE UNCHANGED host
    <3>1. upd' \in [id : 0..MaxUpdaters, pc : Positions]
      BY <1>1 DEF Bootstrap, Typed, FreshUpdater, Positions
    <3> QED
      BY <1>1, <2>1, <3>1 DEF Bootstrap, Typed, Bounded
  <2>2. ASSUME NEW p \in Hosts, Launched(p, selected.host, 0), UNCHANGED upd PROVE TInv'
    <3>1. host' \in [Hosts -> HostType]
      BY <2>2, HostTypes, Sizes DEF Typed
    <3> QED
      BY <1>1, <2>2, <3>1 DEF Bootstrap, Typed, Bounded
  <2> QED
    BY <1>1, <2>1, <2>2 DEF Bootstrap
<1>2. CASE UpdaterDies
  <2>1. faults' \in 0..MaxFaults /\ \A q \in Hosts : mach[q].inc <= faults' + 1
    BY <1>2, Sizes DEF UpdaterDies, Fault, Typed, Bounded, MachType, Incarnations
  <2>2. upd' \in [id : 0..MaxUpdaters, pc : Positions]
    BY <1>2, Sizes DEF UpdaterDies, Positions
  <2> QED
    BY <1>2, <2>1, <2>2 DEF UpdaterDies, Typed, Bounded
<1>3. ASSUME NEW p \in Hosts, Request(p) PROVE TInv'
  <2>1. journal' \in JournalType
    BY <1>3, Sizes DEF Request, NoJournal, JournalType, Typed, Phases
  <2>2. upd' \in [id : 0..MaxUpdaters, pc : Positions]
    BY <1>3, Sizes DEF Request, Positions
  <2>3. updates' \in 0..MaxUpdates
    <3>1. updates \in 0..MaxUpdates
      BY DEF Typed
    <3>2. updates < MaxUpdates /\ updates' = updates + 1
      BY <1>3 DEF Request
    <3> QED
      BY <3>1, <3>2, Sizes
  <2> QED
    BY <1>3, <2>1, <2>2, <2>3 DEF Request, Typed, Bounded
<1>4. CASE Handoff
  <2>1. PICK u \in 1..MaxUpdaters : journal' = [journal EXCEPT !.owner = u] /\ upd' = [id |-> u, pc |-> "begin"]
    BY <1>4 DEF Handoff
  <2>2. u \in 0..MaxUpdaters /\ upd' \in [id : 0..MaxUpdaters, pc : Positions]
    BY <2>1, Sizes DEF Positions
  <2> QED
    BY <1>4, <2>1, <2>2, JournalTypes DEF Handoff, Typed, Bounded
<1>5. CASE Begin
  <2>1. upd' \in [id : 0..MaxUpdaters, pc : Positions]
    <3>1. \/ Goto("retire") \/ Goto("snapshot") \/ Goto("starting") \/ Goto("check") \/ Goto("fail")
      BY <1>5 DEF Begin
    <3> QED
      BY <1>0, <3>1 DEF Positions
  <2> QED
    BY <1>0, <1>5, <2>1, JournalTypes DEF Begin, Typed, Bounded
<1>6. CASE Retire \/ Waited \/ TimedOut \/ Throws \/ StopThrows \/ Check
  <2>1. upd' \in [id : 0..MaxUpdaters, pc : Positions]
    <3>1. \/ Exits \/ Goto("stopRequested") \/ Goto("fail") \/ Goto("promote") \/ Goto("done") \/ Goto("start")
      BY <1>6 DEF Retire, Waited, TimedOut, Throws, StopThrows, Check
    <3> QED
      BY <1>0, <3>1 DEF Positions
  <2> QED
    BY <1>6, <2>1 DEF Retire, Waited, TimedOut, Throws, StopThrows, Check, Typed, Bounded
<1>7. CASE StopRequested
  <2>1. upd' \in [id : 0..MaxUpdaters, pc : Positions]
    BY <1>0, <1>7 DEF StopRequested, Positions
  <2>2. host' \in [Hosts -> HostType]
    <3>1. CASE Alive(journal.host)
      <4>1. journal.host \in Hosts
        BY <3>1, Sizes DEF Alive, Typed, JournalType
      <4> QED
        BY <1>7, <3>1, <4>1, HostTypes DEF StopRequested
    <3>2. CASE ~Alive(journal.host)
      BY <1>7, <3>2 DEF StopRequested, Typed
    <3> QED
      BY <3>1, <3>2
  <2> QED
    BY <1>7, <2>1, <2>2, JournalTypes DEF StopRequested, Typed, Bounded
<1>8. CASE Escalate
  <2>1. journal.host \in Hosts
    BY <1>8, Sizes DEF Escalate, Alive, Typed, JournalType
  <2> QED
    BY <1>8, <2>1, HostTypes, Incs DEF Escalate, Typed, Bounded
<1>9. CASE Stopped
  <2>1. mach' \in [Hosts -> MachType] /\ \A q \in Hosts : mach'[q].inc <= faults + 1
    <3>1. CASE MachineAlive(journal.host, journal.machine)
      <4>1. journal.host \in Hosts
        BY <3>1, Sizes DEF MachineAlive, Typed, JournalType
      <4> QED
        BY <1>9, <3>1, <4>1, HostTypes, Incs DEF Stopped
    <3>2. CASE ~MachineAlive(journal.host, journal.machine)
      BY <1>9, <3>2 DEF Stopped, Typed, Bounded
    <3> QED
      BY <3>1, <3>2
  <2>2. journal' \in JournalType /\ upd' \in [id : 0..MaxUpdaters, pc : Positions]
    BY <1>0, <1>9, JournalTypes DEF Stopped, Phases, Positions
  <2> QED
    BY <1>9, <2>1, <2>2 DEF Stopped, Typed, Bounded
<1>10. CASE Snapshot
  <2>1. /\ ckpt' \in [st : {"absent", "partial", "whole"}, work : 0..MaxWork, schema : 0..2]
        /\ ckpt'.work <= accepted
    BY <1>10, Sizes DEF Snapshot, Typed, Bounded
  <2>2. upd' \in [id : 0..MaxUpdaters, pc : Positions]
    BY <1>0, <1>10 DEF Snapshot, Positions
  <2> QED
    BY <1>10, <2>1, <2>2 DEF Snapshot, Typed, Bounded
<1>11. CASE Checkpointed \/ Starting \/ Commit \/ EnterRollback
  <2>1. upd' \in [id : 0..MaxUpdaters, pc : Positions]
    BY <1>0, <1>11 DEF Checkpointed, Starting, Commit, EnterRollback, Positions
  <2>2. journal' \in JournalType
    BY <1>11, JournalTypes DEF Checkpointed, Starting, Commit, EnterRollback, Phases
  <2> QED
    BY <1>11, <2>1, <2>2 DEF Checkpointed, Starting, Commit, EnterRollback, Typed, Bounded
<1>12. CASE SelectMachine \/ Promote \/ Reselect
  <2>1. upd' \in [id : 0..MaxUpdaters, pc : Positions]
    BY <1>0, <1>12 DEF SelectMachine, Promote, Reselect, Positions
  <2>2. selected' \in [host : Releases, machine : 0..2]
    BY <1>0, <1>12 DEF SelectMachine, Promote, Reselect
  <2> QED
    BY <1>12, <2>1, <2>2 DEF SelectMachine, Promote, Reselect, Typed, Bounded
<1>13. CASE startHost
  <2>1. upd' \in [id : 0..MaxUpdaters, pc : Positions]
    BY <1>0, <1>13 DEF startHost, Positions
  <2>2. host' \in [Hosts -> HostType]
    BY <1>0, <1>13, HostTypes DEF startHost
  <2>3. ready' \in 0..MaxHosts /\ record' \in [host : 0..MaxHosts, inc : Incarnations]
    BY <1>13, Sizes DEF startHost
  <2> QED
    BY <1>13, <2>1, <2>2, <2>3 DEF startHost, Typed, Bounded
<1>14. CASE RecordSuccessor \/ RecordDead
  <2>1. upd' \in [id : 0..MaxUpdaters, pc : Positions]
    BY <1>0, <1>14 DEF RecordSuccessor, RecordDead, Positions
  <2>2. journal' \in JournalType
    BY <1>14, JournalTypes, Sizes DEF RecordSuccessor, RecordDead
  <2> QED
    BY <1>14, <2>1, <2>2 DEF RecordSuccessor, RecordDead, Typed, Bounded
<1>15. CASE Done \/ FailUnstopped
  <2>1. upd' \in [id : 0..MaxUpdaters, pc : Positions]
    BY <1>0, <1>15 DEF Done, FailUnstopped
  <2>2. /\ ckpt' \in [st : {"absent", "partial", "whole"}, work : 0..MaxWork, schema : 0..2]
        /\ ckpt'.work <= accepted
    BY <1>15, Sizes DEF Done, FailUnstopped, Typed, Bounded
  <2>3. journal' \in JournalType
    BY <1>15, Absent DEF Done, FailUnstopped
  <2> QED
    BY <1>15, <2>1, <2>2, <2>3 DEF Done, FailUnstopped, Typed, Bounded
<1>16. CASE Fail
  <2>1. upd' \in [id : 0..MaxUpdaters, pc : Positions]
    BY <1>0, <1>16 DEF Fail, Positions
  <2>2. /\ host' \in [Hosts -> HostType] /\ mach' \in [Hosts -> MachType]
        /\ \A q \in Hosts : mach'[q].inc <= faults + 1
    <3>1. CASE journal.successor = 0
      BY <1>16, <3>1 DEF Fail, Typed, Bounded
    <3>2. CASE journal.successor # 0
      <4>1. journal.successor \in Hosts
        BY <3>2, Sizes DEF Typed, JournalType
      <4>2. /\ host' = [host EXCEPT ![journal.successor] = NoHost]
            /\ mach' = [mach EXCEPT ![journal.successor] = NoMachine]
        BY <1>16, <3>2 DEF Fail
      <4> QED
        BY <4>1, <4>2, HostTypes, Incs
    <3> QED
      BY <3>1, <3>2
  <2> QED
    BY <1>16, <2>1, <2>2 DEF Fail, Typed, Bounded
<1>17. CASE RestoreClears \/ RestoreCopies
  <2>1. upd' \in [id : 0..MaxUpdaters, pc : Positions]
    BY <1>0, <1>17 DEF RestoreClears, RestoreCopies, Positions
  <2>2. selected' \in [host : Releases, machine : 0..2]
    <3>1. [selected EXCEPT !.machine = 0] \in [host : Releases, machine : 0..2]
      BY DEF Typed
    <3> QED
      BY <1>0, <1>17, <3>1 DEF RestoreClears, RestoreCopies
  <2>3. db' \in [work : 0..MaxWork, schema : 0..2] /\ db'.work <= accepted
    BY <1>17, Sizes DEF RestoreClears, RestoreCopies, NoData, Typed, Bounded
  <2> QED
    BY <1>17, <2>1, <2>2, <2>3 DEF RestoreClears, RestoreCopies, Typed, Bounded
<1> QED
  BY <1>1, <1>2, <1>3, <1>4, <1>5, <1>6, <1>7, <1>8, <1>9, <1>10, <1>11, <1>12, <1>13, <1>14, <1>15,
     <1>16, <1>17, <1>18
     DEF Updater

\* The types at the start ...
LEMMA InitTyped == Init => TInv
<1> SUFFICES ASSUME Init PROVE TInv
  OBVIOUS
<1>1. journal \in JournalType /\ upd \in [id : 0..MaxUpdaters, pc : Positions]
  BY Absent, Sizes DEF Init, Positions
<1>2. host \in [Hosts -> HostType] /\ mach \in [Hosts -> MachType] /\ \A p \in Hosts : mach[p].inc <= 1
  <2>1. [NoHost EXCEPT !.st = "ready"] \in HostType
    BY Absent DEF HostType, HostStates
  <2>2. [st |-> "live", inc |-> 1, admitted |-> TRUE] \in MachType
    BY Sizes DEF MachType
  <2> QED
    BY <2>1, <2>2, Absent DEF Init, NoMachine
<1>3. /\ ready \in 0..MaxHosts /\ record \in [host : 0..MaxHosts, inc : Incarnations]
      /\ selected \in [host : Releases, machine : 0..2]
  BY Sizes DEF Init
<1> QED
  BY <1>1, <1>2, <1>3, Sizes DEF Init, TInv, Typed, Bounded

\* ... and after every step.
LEMMA StepTyped == TInv /\ [Next]_vars => TInv'
<1> SUFFICES ASSUME TInv, [Next]_vars PROVE TInv'
  OBVIOUS
<1>1. CASE UNCHANGED vars
  BY <1>1 DEF vars, files, procs, TInv, Typed, Bounded
<1>2. CASE Next
  BY <1>2, HostTyped, UpdaterTyped DEF Next
<1> QED
  BY <1>1, <1>2

\* Every reachable state is well typed: the journal's phases and positions, and the
\* incarnations of a machine within the crashes there were, whatever faults happen.
THEOREM TypeCorrect == Spec => []TypeOK
<1>1. TInv => TypeOK
  BY TypedTypeOK DEF TInv
<1> QED
  BY <1>1, InitTyped, StepTyped, PTL DEF Spec

-----------------------------------------------------------------------------
(* The invariant, where the faults are recoverable. *)

\* The fields of the records, for the leaves that follow.
LEMMA Fields ==
  ASSUME IInv
  PROVE  /\ journal \in JournalType /\ journal.present \in BOOLEAN /\ journal.pred \in {1, 2}
         /\ journal.host \in 0..MaxHosts /\ journal.successor \in 0..MaxHosts /\ journal.phase \in Phases
         /\ journal.stopRequested \in BOOLEAN /\ journal.complete \in BOOLEAN
         /\ \A p \in 0..MaxHosts : p # 0 => p \in Hosts
         /\ 0 \notin Hosts
         /\ host \in [Hosts -> HostType] /\ mach \in [Hosts -> MachType]
         /\ upd \in [id : 0..MaxUpdaters, pc : Positions]
         /\ selected \in [host : Releases, machine : 0..2]
         /\ db \in [work : 0..MaxWork, schema : 0..2]
         /\ ready \in 0..MaxHosts /\ record.host \in 0..MaxHosts
BY Sizes DEF IInv, WInv, TInv, Typed, JournalType, Releases

\* The machine of a host and its being alive.
LEMMA Present ==
  ASSUME IInv, NEW p \in Hosts
  PROVE  /\ ~Alive(0) /\ ~MachineAlive(0, 1)
         /\ Alive(p) <=> host[p].st # "none"
         /\ Runs(p) => MachineAlive(p, 1)
         /\ mach[p] = NoMachine => mach[p].st = "none" /\ mach[p].admitted = FALSE
BY Sizes DEF IInv, WInv, Processes, Alive, MachineAlive, Runs, NoMachine

\* What a step leaves alone.
LEMMA Undisturbed ==
  ASSUME IInv
  PROVE  /\ UNCHANGED <<ready, record, host, mach>> => Processes'
         /\ UNCHANGED <<journal, upd>> => Transaction'
         /\ UNCHANGED <<journal, host>> => Starters'
         /\ UNCHANGED <<journal, host, mach>> => Between'
         /\ UNCHANGED <<journal, host, db, selected, accepted>> => Settled'
<1>1. UNCHANGED <<ready, record, host, mach>> => Processes'
  BY DEF IInv, WInv, Processes, Holder, Opened, Runs
<1>2. UNCHANGED <<journal, upd>> => Transaction'
  BY DEF IInv, WInv, Transaction, InPhase
<1>3. UNCHANGED <<journal, host>> => Starters'
  BY DEF IInv, Starters
<1>4. UNCHANGED <<journal, host, mach>> => Between'
  BY DEF IInv, WInv, Between, Holder, Opened, Runs
<1>5. UNCHANGED <<journal, host, db, selected, accepted>> => Settled'
  BY DEF IInv, Settled, Holder, Opened
<1> QED
  BY <1>1, <1>2, <1>3, <1>4, <1>5

\* What is only about the time between updates.
LEMMA Pending == ASSUME journal'.present PROVE Between' /\ Settled'
BY DEF Between, Settled

\* One machine runs.
LEMMA OneRuns ==
  ASSUME IInv, NEW p \in Hosts, NEW q \in Hosts, Runs(p), Runs(q)
  PROVE  p = q
<1>1. CASE journal.present
  BY <1>1, Fields DEF IInv, WInv, During, Phases, Empty
<1>2. CASE ~journal.present
  BY <1>2, Fields DEF IInv, WInv, Between, Processes, Holder, Opened, Runs
<1> QED
  BY <1>1, <1>2

\* A host that is opening during an update is its successor.
LEMMA Opening ==
  ASSUME IInv, NEW p \in Hosts, host[p].st = "open", journal.present
  PROVE  /\ journal.successor = p /\ host[p].managed /\ host[p].rel = Target
         /\ journal.phase \in {"starting", "committed", "rollback"}
         /\ upd.pc \notin {"select", "start", "spawned", "promote", "commit"}
<1>1. Holder(p)
  BY DEF Holder, Opened
<1>2. journal.phase \in {"starting", "committed", "rollback"} /\ journal.successor = p
  BY <1>1, Fields DEF IInv, WInv, During, Phases, Empty, Exited
<1>3. upd.pc \notin {"select", "start", "spawned", "promote", "commit"}
  BY <1>1, <1>2 DEF IInv, WInv, During, StillAt, Empty, Exited
<1> QED
  BY <1>2, <1>3, Fields DEF IInv, Owners, Starters

\* A host is let in alone: nothing else holds the lock or will.
LEMMA HostAuthorizedKeeps ==
  ASSUME Recoverable, IInv, TInv', NEW p \in Hosts, HostAuthorized(p)
  PROVE  IInv'
<1>1. /\ host[p].st = "launched" /\ Authorized(p)
      /\ host'[p].st = "authorized" /\ host'[p].owner = 0 /\ host'[p].rel = host[p].rel
      /\ host'[p].managed = host[p].managed
      /\ \A q \in Hosts : q # p => host'[q] = host[q]
  BY Fields DEF HostAuthorized, HostType, HostStates
<1>2. \A q \in Hosts : ~Holder(q)
  <2>1. CASE host[p].managed
    BY <1>1, <2>1, Fields DEF Authorized, IInv, WInv, Transaction, During, Phases, Empty, Holder, Opened
  <2>2. CASE ~host[p].managed
    BY <1>1, <2>2 DEF IInv, Starters, Holder, Opened
  <2> QED
    BY <2>1, <2>2
<1>3. UNCHANGED <<journal, ckpt, db, selected, ready, record, upd, accepted, mach>>
  BY DEF HostAuthorized, files
<1>4. Processes'
  BY <1>1, <1>2, <1>3, Fields DEF IInv, WInv, Processes, Holder, Opened, Runs, Exited
<1>5. Transaction'
  BY <1>3 DEF IInv, WInv, Transaction, InPhase
<1>6. During'
  BY <1>1, <1>2, <1>3, Fields
     DEF IInv, WInv, Processes, Transaction, InPhase, During, Holder, Opened, Runs, Exited, Authorized,
         StillAt, Empty
<1>7. Between'
  BY <1>1, <1>2, <1>3, Fields DEF IInv, WInv, Processes, Between, Holder, Opened, Runs, Authorized
<1>8. Owners'
  BY <1>1, <1>3, Fields DEF IInv, WInv, Transaction, InPhase, Owners, Target, Candidate
<1>9. Starters'
  BY <1>1, <1>3, Fields DEF IInv, Starters, Authorized
<1>10. Restored' /\ Settled'
  BY <1>1, <1>2, <1>3, Fields DEF IInv, Restored, Settled, Holder, Opened, Authorized
<1>11. Saved'
  BY <1>1, <1>2, <1>3, Fields
     DEF IInv, WInv, Transaction, InPhase, Saved, Candidate, Holder, Opened, Runs, Authorized
<1> QED
  BY <1>4, <1>5, <1>6, <1>7, <1>8, <1>9, <1>10, <1>11 DEF IInv, WInv

\* It takes the lock.
LEMMA HostLocksKeeps ==
  ASSUME Recoverable, IInv, TInv', NEW p \in Hosts, HostLocks(p)
  PROVE  IInv'
<1>1. /\ host[p].st = "authorized" /\ host'[p].st = "locked" /\ host'[p].owner = host[p].owner
      /\ host'[p].rel = host[p].rel /\ host'[p].managed = host[p].managed
      /\ \A q \in Hosts : q # p => host'[q] = host[q]
  BY Fields DEF HostLocks, HostType, HostStates
<1>2. UNCHANGED <<journal, ckpt, db, selected, ready, record, upd, accepted, mach>>
  BY DEF HostLocks, files
<1>3. /\ \A q \in Hosts : (Holder(q))' <=> Holder(q)
      /\ \A q \in Hosts : (Opened(q))' <=> Opened(q)
      /\ \A q \in Hosts : (Runs(q))' <=> Runs(q)
  BY <1>1, <1>2 DEF Holder, Opened, Runs
<1>4. Processes'
  BY <1>1, <1>2, Fields DEF IInv, WInv, Processes, Holder, Opened, Runs, Exited
<1>5. Transaction'
  BY <1>2 DEF IInv, WInv, Transaction, InPhase
<1>6. During'
  BY <1>1, <1>2, <1>3, Fields
     DEF IInv, WInv, Processes, Transaction, InPhase, During, Holder, Opened, Runs, Exited, StillAt, Empty
<1>7. Between'
  BY <1>2, <1>3 DEF IInv, WInv, Between
<1>8. Owners'
  BY <1>1, <1>2, Fields DEF IInv, Owners, Target, Candidate
<1>9. Starters'
  BY <1>1, <1>2, Fields DEF IInv, Starters
<1>10. Restored' /\ Settled'
  BY <1>1, <1>2, <1>3, Fields DEF IInv, Restored, Settled
<1>11. Saved'
  BY <1>1, <1>2, <1>3, Fields DEF IInv, Saved, Candidate
<1> QED
  BY <1>4, <1>5, <1>6, <1>7, <1>8, <1>9, <1>10, <1>11 DEF IInv, WInv

\* A host opens when no machine runs: the orphan, which is on record, is retired.
LEMMA HostOpensKeeps ==
  ASSUME Recoverable, IInv, TInv', NEW p \in Hosts, HostOpens(p)
  PROVE  IInv'
<1>1. /\ host[p].st = "locked" /\ host'[p].st = "open" /\ host'[p].owner = host[p].owner
      /\ host'[p].rel = host[p].rel /\ host'[p].managed = host[p].managed
      /\ \A q \in Hosts : q # p => host'[q] = host[q]
  BY Fields DEF HostOpens, HostType, HostStates
<1>2. \A q \in Hosts : mach'[q] = mach[q] \/ (mach'[q].st = "none" /\ mach'[q].admitted = FALSE)
  BY Fields DEF HostOpens, NoMachine, MachineAlive
<1>3. UNCHANGED <<journal, ckpt, db, selected, ready, record, upd, accepted>>
  BY DEF HostOpens, files
<1>4. \A q \in Hosts : (Holder(q))' <=> Holder(q)
  BY <1>1 DEF Holder, Opened
<1>5. Holder(p) /\ ~Runs(p) /\ \A q \in Hosts : Holder(q) => q = p
  BY <1>1 DEF IInv, WInv, Processes, Holder
<1>6. \A q \in Hosts : (Runs(q))' => journal.present
  <2> SUFFICES ASSUME NEW q \in Hosts, Runs(q), ~journal.present PROVE mach'[q].st = "none"
    BY <1>2, <1>3 DEF Runs
  <2>1. mach[q].st = "live"
    BY <1>1, <1>5, Fields DEF IInv, WInv, Processes, Between, Runs
  <2>2. record.host = q /\ record.inc = 1
    BY <2>1, Fields DEF IInv, WInv, Processes
  <2>3. MachineAlive(record.host, record.inc)
    BY <2>2, Present
  <2> QED
    BY <2>2, <2>3, Fields DEF HostOpens, NoMachine
<1>7. Processes'
  BY <1>1, <1>2, <1>3, <1>5, Fields DEF IInv, WInv, Processes, Holder, Opened, Runs, Exited
<1>8. Transaction'
  BY <1>3 DEF IInv, WInv, Transaction, InPhase
<1>9. During'
  BY <1>1, <1>2, <1>3, <1>4, Fields
     DEF IInv, WInv, Processes, Transaction, InPhase, During, Runs, Exited, StillAt, Empty
<1>10. Between'
  BY <1>3, <1>6 DEF Between, Runs
<1>11. Owners'
  BY <1>1, <1>3, Fields DEF IInv, Owners, Target, Candidate
<1>12. Starters'
  BY <1>1, <1>3, Fields DEF IInv, Starters
<1>13. Restored' /\ Settled'
  BY <1>1, <1>3, <1>4, Fields DEF IInv, Restored, Settled
<1>14. Saved'
  BY <1>1, <1>2, <1>3, <1>4, Fields DEF IInv, Saved, Candidate, Runs
<1> QED
  BY <1>7, <1>8, <1>9, <1>10, <1>11, <1>12, <1>13, <1>14 DEF IInv, WInv

\* The database gets the schema of the release that the updater chose.
LEMMA MachineBootsKeeps ==
  ASSUME Recoverable, IInv, TInv', NEW p \in Hosts, MachineBoots(p)
  PROVE  IInv'
<1>1. /\ host[p].st = "open" /\ mach[p].st = "none"
      /\ mach'[p].st = "booting" /\ mach'[p].inc = 1 /\ mach'[p].admitted = ~host[p].managed
      /\ \A q \in Hosts : q # p => mach'[q] = mach[q]
      /\ db'.work = db.work /\ db'.schema = host[p].rel
  BY Fields, Present DEF MachineBoots
<1>2. journal.present =>
        /\ journal.successor = p /\ host[p].managed /\ host[p].rel = Target
        /\ journal.phase \in {"starting", "committed", "rollback"}
        /\ upd.pc \notin {"promote", "commit"}
  BY <1>1, Opening
<1>3. UNCHANGED <<journal, ckpt, selected, ready, record, host, upd, accepted>>
  BY DEF MachineBoots
<1>4. Processes'
  BY <1>1, <1>2, <1>3, Fields DEF IInv, WInv, Processes, Holder, Opened, Runs, Exited
<1>5. During'
  BY <1>1, <1>2, <1>3, Fields
     DEF IInv, WInv, Processes, Transaction, InPhase, During, Holder, Opened, Runs, Exited, StillAt, Empty
<1>6. Between'
  BY <1>1, <1>2, <1>3, Fields DEF IInv, WInv, Processes, Transaction, During, Between, Holder, Opened, Runs
<1>7. Owners'
  BY <1>1, <1>2, <1>3, Fields DEF IInv, WInv, Transaction, InPhase, Owners, Target, Candidate
<1>8. Restored'
  BY <1>1, <1>2, <1>3, Fields DEF IInv, WInv, Transaction, InPhase, Restored, Target
<1>9. Settled'
  BY <1>1, <1>2, <1>3, Fields DEF IInv, WInv, Transaction, InPhase, Settled, Holder, Opened, Processes
<1>10. Saved'
  BY <1>1, <1>2, <1>3, Fields
     DEF IInv, WInv, Transaction, InPhase, Saved, Candidate, Holder, Opened, Runs, Target
<1> QED
  BY <1>4, <1>5, <1>6, <1>7, <1>8, <1>9, <1>10, <1>3, Undisturbed DEF IInv, WInv

\* No other machine is on record.
LEMMA MachineBootedKeeps ==
  ASSUME Recoverable, IInv, TInv', NEW p \in Hosts, MachineBooted(p)
  PROVE  IInv'
<1>1. /\ host[p].st = "open" /\ mach[p].st = "booting"
      /\ mach'[p].st = "live" /\ mach'[p].inc = mach[p].inc /\ mach'[p].admitted = mach[p].admitted
      /\ \A q \in Hosts : q # p => mach'[q] = mach[q]
      /\ record'.host = p /\ record'.inc = 1
      /\ selected'.machine = host[p].rel /\ selected'.host = selected.host
  BY Fields, Present DEF MachineBooted, MachType
<1>2. journal.present =>
        /\ journal.successor = p /\ host[p].managed /\ host[p].rel = Target
        /\ journal.phase \in {"starting", "committed", "rollback"}
        /\ upd.pc \notin {"promote", "commit"}
  BY <1>1, Opening
<1>3. UNCHANGED <<journal, ckpt, db, ready, host, upd, accepted>>
  BY DEF MachineBooted
<1>4. Processes'
  BY <1>1, <1>2, <1>3, Fields, OneRuns DEF IInv, WInv, Processes, Holder, Opened, Runs, Exited
<1>5. During'
  BY <1>1, <1>2, <1>3, Fields
     DEF IInv, WInv, Processes, Transaction, InPhase, During, Holder, Opened, Runs, Exited, StillAt, Empty
<1>6. Between'
  BY <1>1, <1>2, <1>3, Fields DEF IInv, WInv, Processes, Transaction, During, Between, Holder, Opened, Runs
<1>7. Owners'
  BY <1>1, <1>2, <1>3, Fields DEF IInv, WInv, Transaction, InPhase, Owners, Target, Candidate
<1>8. Restored'
  BY <1>1, <1>2, <1>3, Fields DEF IInv, WInv, Transaction, InPhase, Restored, Target
<1>9. Settled'
  BY <1>1, <1>2, <1>3, Fields DEF IInv, WInv, Transaction, InPhase, Settled, Holder, Opened, Processes
<1>10. Saved'
  BY <1>1, <1>2, <1>3, Fields
     DEF IInv, WInv, Transaction, InPhase, Saved, Candidate, Holder, Opened, Runs, Target
<1> QED
  BY <1>4, <1>5, <1>6, <1>7, <1>8, <1>9, <1>10, <1>3, Undisturbed DEF IInv, WInv

\* Only a host that starts without a journal selects its own release.
LEMMA HostReadyKeeps ==
  ASSUME Recoverable, IInv, TInv', NEW p \in Hosts, HostReady(p)
  PROVE  IInv'
<1>1. /\ host[p].st = "open" /\ mach[p].st = "live"
      /\ host'[p].st = "ready" /\ host'[p].rel = host[p].rel /\ host'[p].owner = host[p].owner
      /\ host'[p].managed = host[p].managed
      /\ \A q \in Hosts : q # p => host'[q] = host[q]
      /\ ready' = p
      /\ selected'.machine = selected.machine
      /\ selected'.host = IF host[p].managed THEN selected.host ELSE host[p].rel
  BY Fields DEF HostReady, HostType, HostStates
<1>2. UNCHANGED <<journal, ckpt, db, record, mach, upd, accepted>>
  BY DEF HostReady
<1>3. Processes'
  BY <1>1, <1>2, Fields DEF IInv, WInv, Processes, Holder, Opened, Runs, Exited
<1>4. During'
  BY <1>1, <1>2, Fields
     DEF IInv, WInv, Processes, Transaction, InPhase, During, Holder, Opened, Runs, Exited, StillAt, Empty
<1>5. Between'
  BY <1>1, <1>2, Fields DEF IInv, WInv, Processes, Transaction, During, Between, Holder, Opened, Runs
<1>6. Owners'
  BY <1>1, <1>2, Fields DEF IInv, WInv, Transaction, InPhase, Owners, Target, Candidate
<1>7. Starters'
  BY <1>1, <1>2, Fields DEF IInv, Starters
<1>8. Restored'
  BY <1>1, <1>2, Fields DEF IInv, WInv, Transaction, InPhase, Restored, Starters
<1>9. Settled'
  BY <1>1, <1>2, Fields DEF IInv, WInv, Transaction, InPhase, Settled, Holder, Opened, Processes
<1>10. Saved'
  BY <1>1, <1>2, Fields
     DEF IInv, WInv, Transaction, InPhase, Saved, Candidate, Holder, Opened, Runs, During, Starters,
         Processes
<1> QED
  BY <1>3, <1>4, <1>5, <1>6, <1>7, <1>8, <1>9, <1>10, <1>2, Undisturbed DEF IInv, WInv

\* A successor that serves is promoted and does not fail.
LEMMA HostFailsKeeps ==
  ASSUME Recoverable, IInv, TInv', NEW p \in Hosts, HostFails(p)
  PROVE  IInv'
<1>1. /\ host'[p].st = "none" /\ host'[p].owner = 0
      /\ \A q \in Hosts : q # p => host'[q] = host[q]
      /\ host[p].st \in {"launched", "authorized", "locked"} \/ (host[p].st = "open" /\ mach[p].st = "none")
         \/ (host[p].st = "open" /\ mach[p].st = "live" /\ ~Promoted(p))
  BY Fields DEF HostFails, NoHost
<1>2. UNCHANGED <<journal, ckpt, db, selected, ready, record, mach, upd, accepted>>
  BY DEF HostFails, files
<1>3. Processes'
  BY <1>1, <1>2, Fields DEF IInv, WInv, Processes, Holder, Opened, Runs, Exited
<1>4. During'
  BY <1>1, <1>2, Fields
     DEF IInv, WInv, Processes, Transaction, InPhase, During, Holder, Opened, Runs, Exited, StillAt, Empty,
         Promoted
<1>5. Between'
  BY <1>1, <1>2, Fields DEF IInv, WInv, Processes, Transaction, During, Between, Holder, Opened, Runs
<1>6. Owners'
  BY <1>1, <1>2, Fields DEF IInv, WInv, Transaction, InPhase, Owners, Target, Candidate
<1>7. Starters'
  BY <1>1, <1>2, Fields DEF IInv, Starters
<1>8. Restored'
  BY <1>1, <1>2, Fields DEF IInv, WInv, Transaction, InPhase, Restored
<1>9. Settled'
  BY <1>1, <1>2, Fields DEF IInv, WInv, Transaction, InPhase, Settled, Holder, Opened
<1>10. Saved'
  BY <1>1, <1>2, Fields DEF IInv, WInv, Transaction, InPhase, Saved, Candidate, Holder, Opened, Runs
<1> QED
  BY <1>3, <1>4, <1>5, <1>6, <1>7, <1>8, <1>9, <1>10, <1>2, Undisturbed DEF IInv, WInv

\* Host and machine go together.
LEMMA MachineFailsKeeps ==
  ASSUME Recoverable, IInv, TInv', NEW p \in Hosts, MachineFails(p)
  PROVE  IInv'
<1>1. /\ host'[p].st = "none" /\ host'[p].owner = 0
      /\ \A q \in Hosts : q # p => host'[q] = host[q]
      /\ mach'[p].st = "none" /\ mach'[p].admitted = FALSE
      /\ \A q \in Hosts : q # p => mach'[q] = mach[q]
      /\ host[p].st = "open"
  BY Fields DEF MachineFails, NoHost, NoMachine
<1>2. UNCHANGED <<journal, ckpt, db, selected, ready, record, upd, accepted>>
  BY DEF MachineFails, files
<1>3. Processes'
  BY <1>1, <1>2, Fields DEF IInv, WInv, Processes, Holder, Opened, Runs, Exited
<1>4. During'
  BY <1>1, <1>2, Fields
     DEF IInv, WInv, Processes, Transaction, InPhase, During, Holder, Opened, Runs, Exited, StillAt, Empty
<1>5. Between'
  BY <1>1, <1>2, Fields DEF IInv, WInv, Processes, Transaction, During, Between, Holder, Opened, Runs
<1>6. Owners'
  BY <1>1, <1>2, Fields DEF IInv, WInv, Transaction, InPhase, Owners, Target, Candidate
<1>7. Starters'
  BY <1>1, <1>2, Fields DEF IInv, Starters
<1>8. Restored'
  BY <1>1, <1>2, Fields DEF IInv, WInv, Transaction, InPhase, Restored
<1>9. Settled'
  BY <1>1, <1>2, Fields DEF IInv, WInv, Transaction, InPhase, Settled, Holder, Opened
<1>10. Saved'
  BY <1>1, <1>2, Fields DEF IInv, WInv, Transaction, InPhase, Saved, Candidate, Holder, Opened, Runs
<1> QED
  BY <1>3, <1>4, <1>5, <1>6, <1>7, <1>8, <1>9, <1>10, <1>2, Undisturbed DEF IInv, WInv

\* The machine of a stopping host is the tracked one.
LEMMA HostStopsKeeps ==
  ASSUME Recoverable, IInv, TInv', NEW p \in Hosts, HostStops(p)
  PROVE  IInv'
<1>1. /\ host[p].st = "stopping"
      /\ host'[p].st = "none" /\ host'[p].owner = 0
      /\ \A q \in Hosts : q # p => host'[q] = host[q]
      /\ mach'[p].st = "none" /\ mach'[p].admitted = FALSE
      /\ \A q \in Hosts : q # p => mach'[q] = mach[q]
      /\ ready' \in {0, ready}
  BY Fields DEF HostStops, NoHost, NoMachine, IInv, WInv, Processes, Runs
<1>2. UNCHANGED <<journal, ckpt, db, selected, record, upd, accepted>>
  BY DEF HostStops
<1>3. Processes'
  BY <1>1, <1>2, Fields DEF IInv, WInv, Processes, Holder, Opened, Runs, Exited
<1>4. During'
  BY <1>1, <1>2, Fields
     DEF IInv, WInv, Processes, Transaction, InPhase, During, Holder, Opened, Runs, Exited, StillAt, Empty
<1>5. Between'
  BY <1>1, <1>2, Fields DEF IInv, WInv, Processes, Transaction, During, Between, Holder, Opened, Runs
<1>6. Owners'
  BY <1>1, <1>2, Fields DEF IInv, WInv, Transaction, InPhase, Owners, Target, Candidate
<1>7. Starters'
  BY <1>1, <1>2, Fields DEF IInv, Starters
<1>8. Restored'
  BY <1>1, <1>2, Fields DEF IInv, WInv, Transaction, InPhase, Restored
<1>9. Settled'
  BY <1>1, <1>2, Fields DEF IInv, WInv, Transaction, InPhase, Settled, Holder, Opened
<1>10. Saved'
  BY <1>1, <1>2, Fields DEF IInv, WInv, Transaction, InPhase, Saved, Candidate, Holder, Opened, Runs
<1> QED
  BY <1>3, <1>4, <1>5, <1>6, <1>7, <1>8, <1>9, <1>10, <1>2, Undisturbed DEF IInv, WInv

\* A machine that outlived its host during an update is the successor's.
LEMMA MachineRestartedKeeps ==
  ASSUME Recoverable, IInv, TInv', NEW p \in Hosts, MachineRestarted(p)
  PROVE  IInv'
<1>1. host[p].st = "none" /\ mach[p].st = "booting" /\ mach[p].inc = 1
  BY Fields, Present DEF MachineRestarted, IInv, WInv, Processes, Runs
<1>2. /\ mach'[p].st = "live" /\ mach'[p].inc = 1 /\ mach'[p].admitted = mach[p].admitted
      /\ \A q \in Hosts : q # p => mach'[q] = mach[q]
      /\ record'.host = p /\ record'.inc = 1
  BY <1>1, Fields DEF MachineRestarted, MachType
<1>3. UNCHANGED <<journal, ckpt, db, selected, ready, host, upd, accepted>>
  BY DEF MachineRestarted
<1>4. Processes'
  BY <1>1, <1>2, <1>3, Fields, OneRuns DEF IInv, WInv, Processes, Holder, Opened, Runs, Exited
<1>5. During'
  BY <1>1, <1>2, <1>3, Fields
     DEF IInv, WInv, Processes, Transaction, InPhase, During, Holder, Opened, Runs, Exited, StillAt, Empty
<1>6. Between'
  BY <1>1, <1>2, <1>3, Fields DEF IInv, WInv, Processes, Transaction, During, Between, Holder, Opened, Runs
<1>7. Owners'
  BY <1>1, <1>2, <1>3, Fields DEF IInv, WInv, Transaction, InPhase, Owners, Target, Candidate
<1>8. Restored'
  BY <1>1, <1>2, <1>3, Fields DEF IInv, WInv, Transaction, InPhase, Restored
<1>9. Saved'
  BY <1>1, <1>2, <1>3, Fields
     DEF IInv, WInv, Transaction, InPhase, Saved, Candidate, Holder, Opened, Runs, During
<1> QED
  BY <1>4, <1>5, <1>6, <1>7, <1>8, <1>9, <1>3, Undisturbed DEF IInv, WInv

\* Work is admitted between updates.
LEMMA AdmitKeeps ==
  ASSUME Recoverable, IInv, TInv', NEW p \in Hosts, Admit(p)
  PROVE  IInv'
<1>1. /\ ~journal.present /\ mach[p].st = "live"
      /\ mach'[p].st = "live" /\ mach'[p].inc = mach[p].inc
      /\ \A q \in Hosts : q # p => mach'[q] = mach[q]
  BY Fields DEF Admit, MachType
<1>2. UNCHANGED <<journal, ckpt, db, selected, ready, record, host, upd, accepted>>
  BY DEF Admit, files
<1>3. Processes'
  BY <1>1, <1>2, Fields DEF IInv, WInv, Processes, Holder, Opened, Runs, Exited
<1>4. During'
  BY <1>1, <1>2, Fields
     DEF IInv, WInv, Processes, Transaction, InPhase, During, Holder, Opened, Runs, Exited, StillAt, Empty
<1>5. Between'
  BY <1>1, <1>2, Fields DEF IInv, WInv, Processes, Transaction, During, Between, Holder, Opened, Runs
<1>6. Owners'
  BY <1>1, <1>2, Fields DEF IInv, WInv, Transaction, InPhase, Owners, Target, Candidate
<1>7. Restored'
  BY <1>1, <1>2, Fields DEF IInv, WInv, Transaction, InPhase, Restored
<1>8. Saved'
  BY <1>1, <1>2, Fields DEF IInv, WInv, Transaction, InPhase, Saved, Candidate, Holder, Opened, Runs
<1> QED
  BY <1>3, <1>4, <1>5, <1>6, <1>7, <1>8, <1>2, Undisturbed DEF IInv, WInv

\* Only the predecessor's machine takes work during an update, before it is copied.
LEMMA WorkKeeps ==
  ASSUME Recoverable, IInv, TInv', NEW p \in Hosts, Work(p)
  PROVE  IInv'
<1>1. /\ mach[p].admitted /\ accepted' = accepted + 1
      /\ db'.work = db.work + 1 /\ db'.schema = db.schema
  BY Fields DEF Work
<1>2. UNCHANGED <<journal, ckpt, selected, ready, record, host, mach, upd>>
  BY DEF Work, procs
<1>3. During'
  BY <1>1, <1>2, Fields
     DEF IInv, WInv, Processes, Transaction, InPhase, During, Holder, Opened, Runs, Exited, StillAt, Empty
<1>4. Owners'
  BY <1>1, <1>2, Fields DEF IInv, WInv, Transaction, InPhase, Owners, Target, Candidate
<1>5. Restored'
  BY <1>1, <1>2, Fields DEF IInv, WInv, Transaction, InPhase, Restored, Saved
<1>6. Settled'
  BY <1>1, <1>2, Fields DEF IInv, WInv, Transaction, InPhase, Settled, Holder, Opened
<1>7. Saved'
  BY <1>1, <1>2, Fields
     DEF IInv, WInv, Transaction, InPhase, Saved, Candidate, Holder, Opened, Runs, Processes, During
<1> QED
  BY <1>3, <1>4, <1>5, <1>6, <1>7, <1>2, Undisturbed DEF IInv, WInv

\* A host whose machine nothing names, or whose update is decided, does not die.
LEMMA HostDiesKeeps ==
  ASSUME Recoverable, IInv, TInv', NEW p \in Hosts, HostDies(p)
  PROVE  IInv'
<1>1. /\ Holder(p) /\ ~Promoted(p) /\ ~Unrecorded(p)
      /\ host'[p].st = "none" /\ host'[p].owner = 0
      /\ \A q \in Hosts : q # p => host'[q] = host[q]
      /\ upd' = upd \/ (upd.pc = "handoff" /\ upd'.id = 0 /\ upd'.pc = "none")
  BY Fields DEF HostDies, Recoverable, Fault, NoHost, Holder, Opened
<1>2. UNCHANGED <<journal, ckpt, db, selected, ready, record, mach, accepted>>
  BY DEF HostDies, files
<1>3. Processes'
  BY <1>1, <1>2, Fields DEF IInv, WInv, Processes, Holder, Opened, Runs, Exited
<1>4. Transaction'
  BY <1>1, <1>2, Fields DEF IInv, WInv, Transaction, InPhase
<1>5. During'
  BY <1>1, <1>2, Fields
     DEF IInv, WInv, Processes, Transaction, InPhase, During, Holder, Opened, Runs, Exited, StillAt, Empty,
         Promoted
<1>6. Between'
  BY <1>1, <1>2, Fields
     DEF IInv, WInv, Processes, Transaction, During, Between, Holder, Opened, Runs, Unrecorded
<1>7. Owners'
  BY <1>1, <1>2, Fields DEF IInv, WInv, Transaction, InPhase, Owners, Target, Candidate
<1>8. Starters'
  BY <1>1, <1>2, Fields DEF IInv, Starters
<1>9. Restored'
  BY <1>1, <1>2, Fields DEF IInv, WInv, Transaction, InPhase, Restored
<1>10. Settled'
  BY <1>1, <1>2, Fields DEF IInv, WInv, Transaction, InPhase, Settled, Holder, Opened
<1>11. Saved'
  BY <1>1, <1>2, Fields DEF IInv, WInv, Transaction, InPhase, Saved, Candidate, Holder, Opened, Runs
<1> QED
  BY <1>3, <1>4, <1>5, <1>6, <1>7, <1>8, <1>9, <1>10, <1>11 DEF IInv, WInv

\* The host that stops keeps its machine for now.
LEMMA OperatorStopsKeeps ==
  ASSUME Recoverable, IInv, TInv', NEW p \in Hosts, OperatorStops(p)
  PROVE  IInv'
<1>1. /\ host[p].st = "ready"
      /\ host'[p].st = "stopping" /\ host'[p].rel = host[p].rel /\ host'[p].owner = host[p].owner
      /\ host'[p].managed = host[p].managed
      /\ \A q \in Hosts : q # p => host'[q] = host[q]
  BY Fields DEF OperatorStops, HostType, HostStates
<1>2. UNCHANGED <<journal, ckpt, db, selected, ready, record, mach, upd, accepted>>
  BY DEF OperatorStops, files
<1>3. Processes'
  BY <1>1, <1>2, Fields DEF IInv, WInv, Processes, Holder, Opened, Runs, Exited
<1>4. During'
  BY <1>1, <1>2, Fields
     DEF IInv, WInv, Processes, Transaction, InPhase, During, Holder, Opened, Runs, Exited, StillAt, Empty
<1>5. Between'
  BY <1>1, <1>2, Fields DEF IInv, WInv, Processes, Transaction, During, Between, Holder, Opened, Runs
<1>6. Owners'
  BY <1>1, <1>2, Fields DEF IInv, WInv, Transaction, InPhase, Owners, Target, Candidate
<1>7. Starters'
  BY <1>1, <1>2, Fields DEF IInv, Starters
<1>8. Restored'
  BY <1>1, <1>2, Fields DEF IInv, WInv, Transaction, InPhase, Restored
<1>9. Settled'
  BY <1>1, <1>2, Fields DEF IInv, WInv, Transaction, InPhase, Settled, Holder, Opened
<1>10. Saved'
  BY <1>1, <1>2, Fields DEF IInv, WInv, Transaction, InPhase, Saved, Candidate, Holder, Opened, Runs
<1> QED
  BY <1>3, <1>4, <1>5, <1>6, <1>7, <1>8, <1>9, <1>10, <1>2, Undisturbed DEF IInv, WInv

\* The predecessor is the one host, of the release selected.
LEMMA RequestKeeps ==
  ASSUME Recoverable, IInv, TInv', NEW p \in Hosts, Request(p)
  PROVE  IInv'
<1>1. /\ host[p].st = "ready" /\ ~journal.present /\ upd.pc = "none" /\ record.host = p
      /\ journal'.present /\ journal'.host = p /\ journal'.machine = record.inc /\ journal'.pred = selected.host
      /\ journal'.phase = "prepared" /\ ~journal'.stopRequested /\ ~journal'.complete /\ journal'.successor = 0
      /\ upd'.id = 0 /\ upd'.pc = "handoff"
  BY Fields DEF Request, NoJournal
<1>2. UNCHANGED <<ckpt, db, selected, ready, record, host, mach, accepted>>
  BY DEF Request, procs
<1>3. Transaction'
  BY <1>1, <1>2, Fields DEF IInv, WInv, Transaction, InPhase, Processes
<1>4. During'
  BY <1>1, <1>2, Fields
     DEF IInv, WInv, Processes, Transaction, InPhase, During, Holder, Opened, Runs, Exited, StillAt, Empty,
         Between
<1>5. Between'
  BY <1>1, <1>2, Fields DEF IInv, WInv, Processes, Transaction, During, Between, Holder, Opened, Runs
<1>6. Owners'
  BY <1>1, <1>2, Fields DEF IInv, WInv, Transaction, InPhase, Owners, Target, Candidate
<1>7. Starters'
  BY <1>1, <1>2, Fields DEF IInv, Starters, WInv, Processes, Holder, Opened
<1>8. Restored'
  BY <1>1, <1>2, Fields DEF IInv, WInv, Transaction, InPhase, Restored
<1>9. Settled'
  BY <1>1, <1>2, Fields DEF IInv, WInv, Transaction, InPhase, Settled, Holder, Opened
<1>10. Saved'
  BY <1>1, <1>2, Fields DEF IInv, WInv, Transaction, InPhase, Saved, Candidate, Holder, Opened, Runs, Settled
<1> QED
  BY <1>3, <1>4, <1>5, <1>6, <1>7, <1>8, <1>9, <1>10, <1>2, Undisturbed DEF IInv, WInv

\* No host waits for the new updater.
LEMMA HandoffKeeps ==
  ASSUME Recoverable, IInv, TInv', Handoff
  PROVE  IInv'
<1>1. /\ upd.pc = "handoff" /\ upd'.pc = "begin" /\ upd'.id # 0 /\ FreshUpdater(upd'.id)
      /\ UNCHANGED <<journal.present, journal.host, journal.machine, journal.pred,
                     journal.phase, journal.stopRequested, journal.complete, journal.successor>>
  BY Fields DEF Handoff, JournalType
<1>2. UNCHANGED <<ckpt, db, selected, ready, record, host, mach, accepted>>
  BY DEF Handoff, procs
<1>3. journal.present /\ journal'.present
  BY <1>1, <1>2, Fields DEF IInv, WInv, Transaction
<1>4. Transaction'
  BY <1>1, <1>2, <1>3, Fields DEF IInv, WInv, Transaction, InPhase
<1>5. During'
  BY <1>1, <1>2, <1>3, Fields
     DEF IInv, WInv, Processes, Transaction, InPhase, During, Holder, Opened, Runs, Exited, StillAt, Empty
<1>6. Owners'
  BY <1>1, <1>2, <1>3, Fields
     DEF IInv, WInv, Transaction, InPhase, Owners, Target, Candidate, FreshUpdater
<1>7. Starters'
  BY <1>1, <1>2, <1>3, Fields DEF IInv, Starters
<1>8. Restored'
  BY <1>1, <1>2, <1>3, Fields DEF IInv, WInv, Transaction, InPhase, Restored
<1>9. Saved'
  BY <1>1, <1>2, <1>3, Fields DEF IInv, WInv, Transaction, InPhase, Saved, Candidate, Holder, Opened, Runs
<1> QED
  BY <1>4, <1>5, <1>6, <1>7, <1>8, <1>9, <1>2, Undisturbed, <1>3, Pending DEF IInv, WInv

\* Each phase resumes at a position it allows.
LEMMA BeginKeeps ==
  ASSUME Recoverable, IInv, TInv', Begin
  PROVE  IInv'
<1>1. /\ UNCHANGED <<journal.present, journal.host, journal.machine, journal.pred,
                     journal.phase, journal.stopRequested, journal.complete, journal.successor>>
  BY Fields DEF Begin, JournalType
<1>2. /\ upd.pc = "begin" /\ upd'.id = upd.id
      /\ journal.phase = "prepared" => upd'.pc = "retire"
      /\ journal.phase = "stopped" => upd'.pc = "snapshot"
      /\ journal.phase = "checkpointed" => upd'.pc = "starting"
      /\ journal.phase = "committed" => upd'.pc = "check"
      /\ journal.phase \in {"starting", "rollback"} => upd'.pc = "fail"
  BY Fields DEF Begin, At, Goto
<1>3. UNCHANGED <<ckpt, db, selected, ready, record, host, mach, accepted>>
  BY DEF Begin, procs, Rest
<1>4. journal.present /\ journal'.present
  BY <1>1, <1>2, <1>3, Fields DEF IInv, WInv, Transaction
<1>5. Transaction'
  BY <1>1, <1>2, <1>3, <1>4, Fields DEF IInv, WInv, Transaction, InPhase, Phases
<1>6. During'
  BY <1>1, <1>2, <1>3, <1>4, Fields
     DEF IInv, WInv, Processes, Transaction, InPhase, During, Holder, Opened, Runs, Exited, StillAt, Empty,
         Phases
<1>7. Owners'
  BY <1>1, <1>2, <1>3, <1>4, Fields
     DEF IInv, WInv, Transaction, InPhase, Owners, Target, Candidate, Phases
<1>8. Starters'
  BY <1>1, <1>2, <1>3, <1>4, Fields DEF IInv, Starters
<1>9. Restored'
  BY <1>1, <1>2, <1>3, <1>4, Fields DEF IInv, WInv, Transaction, InPhase, Restored
<1>10. Saved'
  BY <1>1, <1>2, <1>3, <1>4, Fields DEF IInv, WInv, Transaction, InPhase, Saved, Candidate, Holder, Opened, Runs
<1> QED
  BY <1>5, <1>6, <1>7, <1>8, <1>9, <1>10, <1>3, Undisturbed, <1>4, Pending DEF IInv, WInv

\* The update fails here only while the predecessor was not asked to stop.
LEMMA RetireKeeps ==
  ASSUME Recoverable, IInv, TInv', Retire
  PROVE  IInv'
<1>1. /\ upd.pc = "retire" /\ upd'.id = upd.id
      /\ upd'.pc = "stopRequested" \/ (upd'.pc = "fail" /\ ~journal.stopRequested)
  BY Fields DEF Retire, At, Goto
<1>2. UNCHANGED <<journal, ckpt, db, selected, ready, record, host, mach, accepted>>
  BY DEF Retire, files, procs, Rest
<1>3. journal.present /\ journal'.present
  BY <1>1, <1>2, Fields DEF IInv, WInv, Transaction
<1>4. Transaction'
  BY <1>1, <1>2, <1>3, Fields DEF IInv, WInv, Transaction, InPhase
<1>5. During'
  BY <1>1, <1>2, <1>3, Fields
     DEF IInv, WInv, Processes, Transaction, InPhase, During, Holder, Opened, Runs, Exited, StillAt, Empty
<1>6. Owners'
  BY <1>1, <1>2, <1>3, Fields DEF IInv, WInv, Transaction, InPhase, Owners, Target, Candidate
<1>7. Restored'
  BY <1>1, <1>2, <1>3, Fields DEF IInv, WInv, Transaction, InPhase, Restored
<1>8. Saved'
  BY <1>1, <1>2, <1>3, Fields DEF IInv, WInv, Transaction, InPhase, Saved, Candidate, Holder, Opened, Runs
<1> QED
  BY <1>4, <1>5, <1>6, <1>7, <1>8, <1>2, Undisturbed, <1>3, Pending DEF IInv, WInv

\* The predecessor is the only host that can be alive.
LEMMA StopRequestedKeeps ==
  ASSUME Recoverable, IInv, TInv', StopRequested
  PROVE  IInv'
<1>1. /\ upd.pc = "stopRequested" /\ upd'.pc = "stop" /\ upd'.id = upd.id
      /\ journal'.stopRequested
      /\ UNCHANGED <<journal.present, journal.host, journal.machine, journal.pred,
                     journal.phase, journal.complete, journal.successor>>
  BY Fields DEF StopRequested, At, Goto, JournalType
<1>2. /\ \A p \in Hosts : host'[p] = host[p] \/ (p = journal.host /\ host[p].st # "none" /\ host'[p].st = "stopping")
      /\ \A p \in Hosts : UNCHANGED <<host[p].rel, host[p].owner, host[p].managed>>
  <2>1. CASE Alive(journal.host)
    <3>1. journal.host \in Hosts /\ host[journal.host].st # "none"
      BY <2>1, Fields, Present DEF Alive
    <3> QED
      BY <2>1, <3>1, Fields DEF StopRequested, HostType, HostStates
  <2>2. CASE ~Alive(journal.host)
    BY <2>2 DEF StopRequested
  <2> QED
    BY <2>1, <2>2
<1>3. UNCHANGED <<ckpt, db, selected, ready, record, mach, accepted>>
  BY DEF StopRequested, Rest
<1>4. journal.present /\ journal'.present
  BY <1>1, <1>2, <1>3, Fields DEF IInv, WInv, Transaction
<1>5. Processes'
  BY <1>1, <1>2, <1>3, <1>4, Fields
     DEF IInv, WInv, Processes, Holder, Opened, Runs, Exited, Transaction, InPhase, During
<1>6. Transaction'
  BY <1>1, <1>2, <1>3, <1>4, Fields DEF IInv, WInv, Transaction, InPhase
<1>7. During'
  BY <1>1, <1>2, <1>3, <1>4, Fields
     DEF IInv, WInv, Processes, Transaction, InPhase, During, Holder, Opened, Runs, Exited, StillAt, Empty
<1>8. Owners'
  BY <1>1, <1>2, <1>3, <1>4, Fields DEF IInv, WInv, Transaction, InPhase, Owners, Target, Candidate
<1>9. Starters'
  BY <1>1, <1>2, <1>3, <1>4, Fields DEF IInv, Starters, WInv, During, Transaction, InPhase, Exited
<1>10. Restored'
  BY <1>1, <1>2, <1>3, <1>4, Fields DEF IInv, WInv, Transaction, InPhase, Restored
<1>11. Saved'
  BY <1>1, <1>2, <1>3, <1>4, Fields
     DEF IInv, WInv, Transaction, InPhase, Saved, Candidate, Holder, Opened, Runs, During, Exited
<1> QED
  BY <1>5, <1>6, <1>7, <1>8, <1>9, <1>10, <1>11, <1>4, Pending DEF IInv, WInv

\* The predecessor and its machine are gone.
LEMMA EscalateKeeps ==
  ASSUME Recoverable, IInv, TInv', Escalate
  PROVE  IInv'
<1>1. /\ upd.pc = "stop" /\ journal.host \in Hosts
      /\ host'[journal.host].st = "none" /\ host'[journal.host].owner = 0
      /\ mach'[journal.host].st = "none" /\ mach'[journal.host].admitted = FALSE
      /\ \A q \in Hosts : q # journal.host => host'[q] = host[q] /\ mach'[q] = mach[q]
  BY Fields, Present DEF Escalate, At, Alive, NoHost, NoMachine
<1>2. UNCHANGED <<journal, ckpt, db, selected, ready, record, upd, accepted>>
  BY DEF Escalate, files, Rest
<1>3. journal.present /\ journal'.present
  BY <1>1, <1>2, Fields DEF IInv, WInv, Transaction
<1>4. Processes'
  BY <1>1, <1>2, <1>3, Fields DEF IInv, WInv, Processes, Holder, Opened, Runs, Exited
<1>5. During'
  BY <1>1, <1>2, <1>3, Fields
     DEF IInv, WInv, Processes, Transaction, InPhase, During, Holder, Opened, Runs, Exited, StillAt, Empty
<1>6. Owners'
  BY <1>1, <1>2, <1>3, Fields DEF IInv, WInv, Transaction, InPhase, Owners, Target, Candidate
<1>7. Starters'
  BY <1>1, <1>2, <1>3, Fields DEF IInv, Starters
<1>8. Restored'
  BY <1>1, <1>2, <1>3, Fields DEF IInv, WInv, Transaction, InPhase, Restored
<1>9. Saved'
  BY <1>1, <1>2, <1>3, Fields DEF IInv, WInv, Transaction, InPhase, Saved, Candidate, Holder, Opened, Runs
<1> QED
  BY <1>4, <1>5, <1>6, <1>7, <1>8, <1>9, <1>2, Undisturbed, <1>3, Pending DEF IInv, WInv

\* Nothing runs once the predecessor and the machine that the journal names are gone.
LEMMA StoppedKeeps ==
  ASSUME Recoverable, IInv, TInv', Stopped
  PROVE  IInv'
<1>1. /\ upd.pc = "stop" /\ upd'.pc = "snapshot" /\ upd'.id = upd.id
      /\ journal'.phase = "stopped"
      /\ UNCHANGED <<journal.present, journal.host, journal.machine, journal.pred,
                     journal.stopRequested, journal.complete, journal.successor>>
  BY Fields DEF Stopped, At, Goto, JournalType
<1>2. /\ journal.host # 0 => host[journal.host].st = "none"
      /\ \A q \in Hosts : mach'[q] = mach[q] \/ (mach'[q].st = "none" /\ mach'[q].admitted = FALSE)
      /\ journal.host # 0 => mach'[journal.host].st = "none"
  BY <1>1, Fields, Present DEF Stopped, Alive, NoMachine, IInv, WInv, Transaction, MachineAlive, Runs
<1>3. UNCHANGED <<ckpt, db, selected, ready, record, host, accepted>>
  BY DEF Stopped, Rest
<1>4. journal.present /\ journal'.present
  BY <1>1, <1>2, <1>3, Fields DEF IInv, WInv, Transaction
<1>5. Processes'
  BY <1>1, <1>2, <1>3, <1>4, Fields
     DEF IInv, WInv, Processes, Holder, Opened, Runs, Exited, Transaction, InPhase, During
<1>6. Transaction'
  BY <1>1, <1>2, <1>3, <1>4, Fields DEF IInv, WInv, Transaction, InPhase
<1>7. During'
  BY <1>1, <1>2, <1>3, <1>4, Fields
     DEF IInv, WInv, Processes, Transaction, InPhase, During, Holder, Opened, Runs, Exited, StillAt, Empty
<1>8. Owners'
  BY <1>1, <1>2, <1>3, <1>4, Fields DEF IInv, WInv, Transaction, InPhase, Owners, Target, Candidate
<1>9. Starters'
  BY <1>1, <1>2, <1>3, <1>4, Fields DEF IInv, Starters
<1>10. Restored'
  BY <1>1, <1>2, <1>3, <1>4, Fields DEF IInv, WInv, Transaction, InPhase, Restored
<1>11. Saved'
  BY <1>1, <1>2, <1>3, <1>4, Fields
     DEF IInv, WInv, Transaction, InPhase, Saved, Candidate, Holder, Opened, Runs, Processes, During
<1> QED
  BY <1>5, <1>6, <1>7, <1>8, <1>9, <1>10, <1>11, <1>4, Pending DEF IInv, WInv

\* The copy holds all work, migrated by the predecessor.
LEMMA SnapshotKeeps ==
  ASSUME Recoverable, IInv, TInv', Snapshot
  PROVE  IInv'
<1>1. /\ upd.pc = "snapshot" /\ upd'.id = upd.id
      /\ \/ upd'.pc = "copied" /\ ckpt'.work = db.work /\ ckpt'.schema = db.schema
         \/ upd'.pc = "fail"
  BY Fields DEF Snapshot, At, Goto
<1>2. UNCHANGED <<journal, db, selected, ready, record, host, mach, accepted>>
  BY DEF Snapshot, procs, Rest
<1>3. journal.present /\ journal'.present
  BY <1>1, <1>2, Fields DEF IInv, WInv, Transaction
<1>4. Transaction'
  BY <1>1, <1>2, <1>3, Fields DEF IInv, WInv, Transaction, InPhase
<1>5. During'
  BY <1>1, <1>2, <1>3, Fields
     DEF IInv, WInv, Processes, Transaction, InPhase, During, Holder, Opened, Runs, Exited, StillAt, Empty
<1>6. Owners'
  BY <1>1, <1>2, <1>3, Fields DEF IInv, WInv, Transaction, InPhase, Owners, Target, Candidate
<1>7. Restored'
  BY <1>1, <1>2, <1>3, Fields DEF IInv, WInv, Transaction, InPhase, Restored
<1>8. Saved'
  BY <1>1, <1>2, <1>3, Fields DEF IInv, WInv, Transaction, InPhase, Saved, Candidate, Holder, Opened, Runs
<1> QED
  BY <1>4, <1>5, <1>6, <1>7, <1>8, <1>2, Undisturbed, <1>3, Pending DEF IInv, WInv

\* From here on a rollback restores the copy.
LEMMA CheckpointedKeeps ==
  ASSUME Recoverable, IInv, TInv', Checkpointed
  PROVE  IInv'
<1>1. /\ upd.pc = "copied" /\ upd'.pc = "starting" /\ upd'.id = upd.id
      /\ journal'.phase = "checkpointed" /\ journal'.complete
      /\ UNCHANGED <<journal.present, journal.host, journal.machine, journal.pred,
                     journal.stopRequested, journal.successor>>
  BY Fields DEF Checkpointed, At, Goto, JournalType
<1>2. UNCHANGED <<ckpt, db, selected, ready, record, host, mach, accepted>>
  BY DEF Checkpointed, procs, Rest
<1>3. journal.present /\ journal'.present
  BY <1>1, <1>2, Fields DEF IInv, WInv, Transaction
<1>4. Transaction'
  BY <1>1, <1>2, <1>3, Fields DEF IInv, WInv, Transaction, InPhase
<1>5. During'
  BY <1>1, <1>2, <1>3, Fields
     DEF IInv, WInv, Processes, Transaction, InPhase, During, Holder, Opened, Runs, Exited, StillAt, Empty
<1>6. Owners'
  BY <1>1, <1>2, <1>3, Fields DEF IInv, WInv, Transaction, InPhase, Owners, Target, Candidate
<1>7. Starters'
  BY <1>1, <1>2, <1>3, Fields DEF IInv, Starters
<1>8. Restored'
  BY <1>1, <1>2, <1>3, Fields DEF IInv, WInv, Transaction, InPhase, Restored
<1>9. Saved'
  BY <1>1, <1>2, <1>3, Fields DEF IInv, WInv, Transaction, InPhase, Saved, Candidate, Holder, Opened, Runs
<1> QED
  BY <1>4, <1>5, <1>6, <1>7, <1>8, <1>9, <1>2, Undisturbed, <1>3, Pending DEF IInv, WInv

\* Nothing runs yet.
LEMMA StartingKeeps ==
  ASSUME Recoverable, IInv, TInv', Starting
  PROVE  IInv'
<1>1. /\ upd.pc = "starting" /\ upd'.pc = "select" /\ upd'.id = upd.id
      /\ journal'.phase = "starting"
      /\ UNCHANGED <<journal.present, journal.host, journal.machine, journal.pred,
                     journal.stopRequested, journal.complete, journal.successor>>
  BY Fields DEF Starting, At, Goto, JournalType
<1>2. UNCHANGED <<ckpt, db, selected, ready, record, host, mach, accepted>>
  BY DEF Starting, procs, Rest
<1>3. journal.present /\ journal'.present
  BY <1>1, <1>2, Fields DEF IInv, WInv, Transaction
<1>4. Transaction'
  BY <1>1, <1>2, <1>3, Fields DEF IInv, WInv, Transaction, InPhase
<1>5. During'
  BY <1>1, <1>2, <1>3, Fields
     DEF IInv, WInv, Processes, Transaction, InPhase, During, Holder, Opened, Runs, Exited, StillAt, Empty
<1>6. Owners'
  BY <1>1, <1>2, <1>3, Fields DEF IInv, WInv, Transaction, InPhase, Owners, Target, Candidate, Processes
<1>7. Starters'
  BY <1>1, <1>2, <1>3, Fields DEF IInv, Starters
<1>8. Restored'
  BY <1>1, <1>2, <1>3, Fields DEF IInv, WInv, Transaction, InPhase, Restored
<1>9. Saved'
  BY <1>1, <1>2, <1>3, Fields
     DEF IInv, WInv, Transaction, InPhase, Saved, Candidate, Holder, Opened, Runs, During, Empty
<1> QED
  BY <1>4, <1>5, <1>6, <1>7, <1>8, <1>9, <1>2, Undisturbed, <1>3, Pending DEF IInv, WInv

\* The candidate is selected before it starts.
LEMMA SelectMachineKeeps ==
  ASSUME Recoverable, IInv, TInv', SelectMachine
  PROVE  IInv'
<1>1. /\ upd.pc = "select" /\ upd'.pc = "start" /\ upd'.id = upd.id
      /\ selected'.machine = Candidate /\ selected'.host = selected.host
  BY Fields DEF SelectMachine, At, Goto
<1>2. UNCHANGED <<journal, ckpt, db, ready, record, host, mach, accepted>>
  BY DEF SelectMachine, procs, Rest
<1>3. journal.present /\ journal'.present
  BY <1>1, <1>2, Fields DEF IInv, WInv, Transaction
<1>4. Transaction'
  BY <1>1, <1>2, <1>3, Fields DEF IInv, WInv, Transaction, InPhase
<1>5. During'
  BY <1>1, <1>2, <1>3, Fields
     DEF IInv, WInv, Processes, Transaction, InPhase, During, Holder, Opened, Runs, Exited, StillAt, Empty
<1>6. Owners'
  BY <1>1, <1>2, <1>3, Fields DEF IInv, WInv, Transaction, InPhase, Owners, Target, Candidate
<1>7. Restored'
  BY <1>1, <1>2, <1>3, Fields DEF IInv, WInv, Transaction, InPhase, Restored
<1>8. Saved'
  BY <1>1, <1>2, <1>3, Fields
     DEF IInv, WInv, Transaction, InPhase, Saved, Candidate, Holder, Opened, Runs, During, Empty
<1> QED
  BY <1>4, <1>5, <1>6, <1>7, <1>8, <1>2, Undisturbed, <1>3, Pending DEF IInv, WInv

\* The updater has no other host that waits for it.
LEMMA startHostKeeps ==
  ASSUME Recoverable, IInv, TInv', startHost
  PROVE  IInv'
<1>1. /\ upd.pc = "start" /\ upd'.pc = "spawned" /\ upd'.id = upd.id
      /\ ready' = 0 /\ record'.host = 0
  BY Fields DEF startHost, At, Goto
<1>2. PICK p \in Hosts :
        /\ FreeHost(p)
        /\ host'[p].st = "launched" /\ host'[p].rel = Target /\ host'[p].owner = upd.id /\ host'[p].managed
        /\ \A q \in Hosts : q # p => host'[q] = host[q]
  <2>1. PICK p \in Hosts : FreeHost(p) /\ Launched(p, Target, upd.id)
    BY DEF startHost, Target
  <2>2. upd.id # 0
    BY <1>1 DEF IInv, WInv, Transaction
  <2>3. /\ host'[p].st = "launched" /\ host'[p].rel = Target /\ host'[p].owner = upd.id /\ host'[p].managed
        /\ \A q \in Hosts : q # p => host'[q] = host[q]
    BY <2>1, <2>2, Fields DEF Launched
  <2> QED
    BY <2>1, <2>3
<1>3. UNCHANGED <<journal, ckpt, db, selected, mach, accepted>>
  BY DEF startHost, Rest
<1>4. journal.present /\ journal'.present
  BY <1>1, <1>2, <1>3, Fields DEF IInv, WInv, Transaction
<1>5. Processes'
  BY <1>1, <1>2, <1>3, <1>4, Fields, Present
     DEF IInv, WInv, Processes, Holder, Opened, Runs, Exited, Transaction, During, StillAt, Empty, FreeHost
<1>6. Transaction'
  BY <1>1, <1>2, <1>3, <1>4, Fields DEF IInv, WInv, Transaction, InPhase
<1>7. During'
  BY <1>1, <1>2, <1>3, <1>4, Fields, Present
     DEF IInv, WInv, Processes, Transaction, InPhase, During, Holder, Opened, Runs, Exited, StillAt, Empty,
         FreeHost
<1>8. Owners'
  BY <1>1, <1>2, <1>3, <1>4, Fields
     DEF IInv, WInv, Transaction, InPhase, Owners, Target, Candidate, During, StillAt, FreeHost,
         Processes
<1>9. Starters'
  BY <1>1, <1>2, <1>3, <1>4, Fields DEF IInv, Starters, WInv, Transaction
<1>10. Restored'
  BY <1>1, <1>2, <1>3, <1>4, Fields DEF IInv, WInv, Transaction, InPhase, Restored, FreeHost
<1>11. Saved'
  BY <1>1, <1>2, <1>3, <1>4, Fields
     DEF IInv, WInv, Transaction, InPhase, Saved, Candidate, Holder, Opened, Runs, During, StillAt, Empty
<1> QED
  BY <1>5, <1>6, <1>7, <1>8, <1>9, <1>10, <1>11, <1>4, Pending DEF IInv, WInv

\* The one host that waits is authorized.
LEMMA RecordSuccessorKeeps ==
  ASSUME Recoverable, IInv, TInv', RecordSuccessor
  PROVE  IInv'
<1>1. PICK p \in Hosts : /\ host[p].st = "launched" /\ host[p].owner = upd.id
                        /\ journal' = [journal EXCEPT !.successor = p]
  BY DEF RecordSuccessor
<1>2. /\ upd.pc = "spawned" /\ upd'.pc = "wait" /\ upd'.id = upd.id
      /\ journal'.successor = p
      /\ UNCHANGED <<journal.present, journal.host, journal.machine, journal.pred,
                     journal.phase, journal.stopRequested, journal.complete>>
  BY <1>1, Fields DEF RecordSuccessor, At, Goto, JournalType
<1>3. UNCHANGED <<ckpt, db, selected, ready, record, host, mach, accepted>>
  BY DEF RecordSuccessor, procs, Rest
<1>4. journal.present /\ journal'.present
  BY <1>1, <1>2, <1>3, Fields DEF IInv, WInv, Transaction
<1>5. Transaction'
  BY <1>1, <1>2, <1>3, <1>4, Fields DEF IInv, WInv, Transaction, InPhase
<1>6. During'
  BY <1>1, <1>2, <1>3, <1>4, Fields
     DEF IInv, WInv, Processes, Transaction, InPhase, During, Holder, Opened, Runs, Exited, StillAt, Empty
<1>7. Owners'
  BY <1>1, <1>2, <1>3, <1>4, Fields DEF IInv, WInv, Transaction, InPhase, Owners, Target, Candidate
<1>8. Starters'
  BY <1>1, <1>2, <1>3, <1>4, Fields DEF IInv, Starters
<1>9. Restored'
  BY <1>1, <1>2, <1>3, <1>4, Fields DEF IInv, WInv, Transaction, InPhase, Restored
<1>10. Saved'
  BY <1>1, <1>2, <1>3, <1>4, Fields DEF IInv, WInv, Transaction, InPhase, Saved, Candidate, Holder, Opened, Runs
<1> QED
  BY <1>5, <1>6, <1>7, <1>8, <1>9, <1>10, <1>3, Undisturbed, <1>4, Pending DEF IInv, WInv

\* No host waits.
LEMMA RecordDeadKeeps ==
  ASSUME Recoverable, IInv, TInv', RecordDead
  PROVE  IInv'
<1>1. /\ upd.pc = "spawned" /\ upd'.pc = "wait" /\ upd'.id = upd.id
      /\ journal'.successor = 0
      /\ UNCHANGED <<journal.present, journal.host, journal.machine, journal.pred,
                     journal.phase, journal.stopRequested, journal.complete>>
  BY Fields DEF RecordDead, At, Goto, JournalType
<1>2. \A p \in Hosts : host[p].owner # upd.id
  BY <1>1, Fields DEF RecordDead, IInv, WInv, Processes, Transaction
<1>3. UNCHANGED <<ckpt, db, selected, ready, record, host, mach, accepted>>
  BY DEF RecordDead, procs, Rest
<1>4. journal.present /\ journal'.present
  BY <1>1, <1>2, <1>3, Fields DEF IInv, WInv, Transaction
<1>5. Transaction'
  BY <1>1, <1>2, <1>3, <1>4, Fields DEF IInv, WInv, Transaction, InPhase
<1>6. During'
  BY <1>1, <1>2, <1>3, <1>4, Fields
     DEF IInv, WInv, Processes, Transaction, InPhase, During, Holder, Opened, Runs, Exited, StillAt, Empty
<1>7. Owners'
  BY <1>1, <1>2, <1>3, <1>4, Fields DEF IInv, WInv, Transaction, InPhase, Owners, Target, Candidate
<1>8. Starters'
  BY <1>1, <1>2, <1>3, <1>4, Fields DEF IInv, Starters
<1>9. Restored'
  BY <1>1, <1>2, <1>3, <1>4, Fields DEF IInv, WInv, Transaction, InPhase, Restored
<1>10. Saved'
  BY <1>1, <1>2, <1>3, <1>4, Fields DEF IInv, WInv, Transaction, InPhase, Saved, Candidate, Holder, Opened, Runs
<1> QED
  BY <1>5, <1>6, <1>7, <1>8, <1>9, <1>10, <1>3, Undisturbed, <1>4, Pending DEF IInv, WInv

\* The successor is ready, and its machine has migrated the database.
LEMMA WaitedKeeps ==
  ASSUME Recoverable, IInv, TInv', Waited
  PROVE  IInv'
<1>1. /\ upd.pc = "wait" /\ upd'.id = upd.id
      /\ upd'.pc = IF journal.phase = "starting" THEN "promote" ELSE "done"
      /\ journal.successor \in Hosts /\ host[journal.successor].st \in {"ready", "stopping"}
  BY Fields DEF Waited, At, Goto, Alive, IInv, WInv, Processes, Exited
<1>2. UNCHANGED <<journal, ckpt, db, selected, ready, record, host, mach, accepted>>
  BY DEF Waited, files, procs, Rest
<1>3. journal.present /\ journal'.present
  BY <1>1, <1>2, Fields DEF IInv, WInv, Transaction
<1>4. Transaction'
  BY <1>1, <1>2, <1>3, Fields DEF IInv, WInv, Transaction, InPhase
<1>5. During'
  BY <1>1, <1>2, <1>3, Fields
     DEF IInv, WInv, Processes, Transaction, InPhase, During, Holder, Opened, Runs, Exited, StillAt, Empty
<1>6. Owners'
  BY <1>1, <1>2, <1>3, Fields DEF IInv, WInv, Transaction, InPhase, Owners, Target, Candidate
<1>7. Restored'
  BY <1>1, <1>2, <1>3, Fields DEF IInv, WInv, Transaction, InPhase, Restored
<1>8. Saved'
  BY <1>1, <1>2, <1>3, Fields
     DEF IInv, WInv, Transaction, InPhase, Saved, Candidate, Holder, Opened, Runs, Processes
<1> QED
  BY <1>4, <1>5, <1>6, <1>7, <1>8, <1>2, Undisturbed, <1>3, Pending DEF IInv, WInv

\* The candidate may still run: the rollback stops it.
LEMMA TimedOutKeeps ==
  ASSUME Recoverable, IInv, TInv', TimedOut
  PROVE  IInv'
<1>1. /\ upd.pc = "wait"
      /\ \/ upd'.pc = "none" /\ upd'.id = 0
         \/ upd'.pc = "fail" /\ upd'.id = upd.id
  BY Fields DEF TimedOut, At, Goto, Exits
<1>2. UNCHANGED <<journal, ckpt, db, selected, ready, record, host, mach, accepted>>
  BY DEF TimedOut, files, procs, Rest
<1>3. journal.present /\ journal'.present
  BY <1>1, <1>2, Fields DEF IInv, WInv, Transaction
<1>4. Transaction'
  BY <1>1, <1>2, <1>3, Fields DEF IInv, WInv, Transaction, InPhase
<1>5. During'
  BY <1>1, <1>2, <1>3, Fields
     DEF IInv, WInv, Processes, Transaction, InPhase, During, Holder, Opened, Runs, Exited, StillAt, Empty
<1>6. Owners'
  BY <1>1, <1>2, <1>3, Fields DEF IInv, WInv, Transaction, InPhase, Owners, Target, Candidate
<1>7. Restored'
  BY <1>1, <1>2, <1>3, Fields DEF IInv, WInv, Transaction, InPhase, Restored
<1>8. Saved'
  BY <1>1, <1>2, <1>3, Fields DEF IInv, WInv, Transaction, InPhase, Saved, Candidate, Holder, Opened, Runs
<1> QED
  BY <1>4, <1>5, <1>6, <1>7, <1>8, <1>2, Undisturbed, <1>3, Pending DEF IInv, WInv

\* Likewise before the commit.
LEMMA ThrowsKeeps ==
  ASSUME Recoverable, IInv, TInv', Throws
  PROVE  IInv'
<1>1. /\ upd.pc \in {"starting", "select", "start", "promote", "commit"}
      /\ upd'.pc = "fail" /\ upd'.id = upd.id
  BY Fields DEF Throws, Goto
<1>2. UNCHANGED <<journal, ckpt, db, selected, ready, record, host, mach, accepted>>
  BY DEF Throws, files, procs, Rest
<1>3. journal.present /\ journal'.present
  BY <1>1, <1>2, Fields DEF IInv, WInv, Transaction
<1>4. Transaction'
  BY <1>1, <1>2, <1>3, Fields DEF IInv, WInv, Transaction, InPhase
<1>5. During'
  BY <1>1, <1>2, <1>3, Fields
     DEF IInv, WInv, Processes, Transaction, InPhase, During, Holder, Opened, Runs, Exited, StillAt, Empty
<1>6. Owners'
  BY <1>1, <1>2, <1>3, Fields DEF IInv, WInv, Transaction, InPhase, Owners, Target, Candidate
<1>7. Restored'
  BY <1>1, <1>2, <1>3, Fields DEF IInv, WInv, Transaction, InPhase, Restored
<1>8. Saved'
  BY <1>1, <1>2, <1>3, Fields DEF IInv, WInv, Transaction, InPhase, Saved, Candidate, Holder, Opened, Runs
<1> QED
  BY <1>4, <1>5, <1>6, <1>7, <1>8, <1>2, Undisturbed, <1>3, Pending DEF IInv, WInv

\* The update is rolled back only once the predecessor is gone.
LEMMA StopThrowsKeeps ==
  ASSUME Recoverable, IInv, TInv', StopThrows
  PROVE  IInv'
<1>1. /\ upd.pc = "stop"
      /\ \/ upd'.pc = "none" /\ upd'.id = 0
         \/ upd'.pc = "fail" /\ upd'.id = upd.id /\ Empty
  <2>1. journal.host \in Hosts /\ journal.machine = 1 /\ journal.phase = "prepared" /\ journal.present
    BY Fields DEF StopThrows, At, IInv, WInv, Transaction, InPhase
  <2>2. CASE Alive(journal.host) \/ MachineAlive(journal.host, journal.machine)
    BY <2>2 DEF StopThrows, At, Exits
  <2>3. CASE ~(Alive(journal.host) \/ MachineAlive(journal.host, journal.machine))
    <3>1. Empty
      BY <2>1, <2>3, Present DEF IInv, WInv, During, Empty, Holder, Opened
    <3> QED
      BY <2>3, <3>1, Fields DEF StopThrows, At, Goto
  <2> QED
    BY <2>2, <2>3
<1>2. UNCHANGED <<journal, ckpt, db, selected, ready, record, host, mach, accepted>>
  BY DEF StopThrows, files, procs, Rest
<1>3. journal.present /\ journal'.present
  BY <1>1, <1>2, Fields DEF IInv, WInv, Transaction
<1>4. Transaction'
  BY <1>1, <1>2, <1>3, Fields DEF IInv, WInv, Transaction, InPhase
<1>5. During'
  BY <1>1, <1>2, <1>3, Fields
     DEF IInv, WInv, Processes, Transaction, InPhase, During, Holder, Opened, Runs, Exited, StillAt, Empty
<1>6. Owners'
  BY <1>1, <1>2, <1>3, Fields DEF IInv, WInv, Transaction, InPhase, Owners, Target, Candidate
<1>7. Restored'
  BY <1>1, <1>2, <1>3, Fields DEF IInv, WInv, Transaction, InPhase, Restored
<1>8. Saved'
  BY <1>1, <1>2, <1>3, Fields DEF IInv, WInv, Transaction, InPhase, Saved, Candidate, Holder, Opened, Runs
<1> QED
  BY <1>4, <1>5, <1>6, <1>7, <1>8, <1>2, Undisturbed, <1>3, Pending DEF IInv, WInv

\* The successor's release is selected before the commit.
LEMMA PromoteKeeps ==
  ASSUME Recoverable, IInv, TInv', Promote
  PROVE  IInv'
<1>1. /\ upd.pc = "promote" /\ upd'.pc = "commit" /\ upd'.id = upd.id
      /\ selected'.host = Candidate /\ selected'.machine = selected.machine
  BY Fields DEF Promote, At, Goto
<1>2. UNCHANGED <<journal, ckpt, db, ready, record, host, mach, accepted>>
  BY DEF Promote, procs, Rest
<1>3. journal.present /\ journal'.present
  BY <1>1, <1>2, Fields DEF IInv, WInv, Transaction
<1>4. Transaction'
  BY <1>1, <1>2, <1>3, Fields DEF IInv, WInv, Transaction, InPhase
<1>5. During'
  BY <1>1, <1>2, <1>3, Fields
     DEF IInv, WInv, Processes, Transaction, InPhase, During, Holder, Opened, Runs, Exited, StillAt, Empty
<1>6. Owners'
  BY <1>1, <1>2, <1>3, Fields DEF IInv, WInv, Transaction, InPhase, Owners, Target, Candidate
<1>7. Restored'
  BY <1>1, <1>2, <1>3, Fields DEF IInv, WInv, Transaction, InPhase, Restored
<1>8. Saved'
  BY <1>1, <1>2, <1>3, Fields DEF IInv, WInv, Transaction, InPhase, Saved, Candidate, Holder, Opened, Runs
<1> QED
  BY <1>4, <1>5, <1>6, <1>7, <1>8, <1>2, Undisturbed, <1>3, Pending DEF IInv, WInv

\* Committed: database and selection are the candidate's.
LEMMA CommitKeeps ==
  ASSUME Recoverable, IInv, TInv', Commit
  PROVE  IInv'
<1>1. /\ upd.pc = "commit" /\ upd'.pc = "check" /\ upd'.id = upd.id
      /\ journal'.phase = "committed"
      /\ UNCHANGED <<journal.present, journal.host, journal.machine, journal.pred,
                     journal.stopRequested, journal.complete, journal.successor>>
  BY Fields DEF Commit, At, Goto, JournalType
<1>2. UNCHANGED <<ckpt, db, selected, ready, record, host, mach, accepted>>
  BY DEF Commit, procs, Rest
<1>3. journal.present /\ journal'.present
  BY <1>1, <1>2, Fields DEF IInv, WInv, Transaction
<1>4. Transaction'
  BY <1>1, <1>2, <1>3, Fields DEF IInv, WInv, Transaction, InPhase
<1>5. During'
  BY <1>1, <1>2, <1>3, Fields
     DEF IInv, WInv, Processes, Transaction, InPhase, During, Holder, Opened, Runs, Exited, StillAt, Empty
<1>6. Owners'
  BY <1>1, <1>2, <1>3, Fields DEF IInv, WInv, Transaction, InPhase, Owners, Target, Candidate
<1>7. Starters'
  BY <1>1, <1>2, <1>3, Fields DEF IInv, Starters
<1>8. Restored'
  BY <1>1, <1>2, <1>3, Fields DEF IInv, WInv, Transaction, InPhase, Restored
<1>9. Saved'
  BY <1>1, <1>2, <1>3, Fields DEF IInv, WInv, Transaction, InPhase, Saved, Candidate, Holder, Opened, Runs
<1> QED
  BY <1>4, <1>5, <1>6, <1>7, <1>8, <1>9, <1>2, Undisturbed, <1>3, Pending DEF IInv, WInv

\* A successor that is gone has left no machine.
LEMMA CheckKeeps ==
  ASSUME Recoverable, IInv, TInv', Check
  PROVE  IInv'
<1>1. /\ upd.pc = "check" /\ upd'.id = upd.id
      /\ \/ upd'.pc = "done"
         \/ upd'.pc = "start" /\ (journal.successor # 0 => host[journal.successor].st = "none")
  BY Fields, Present DEF Check, At, Goto, Alive
<1>2. UNCHANGED <<journal, ckpt, db, selected, ready, record, host, mach, accepted>>
  BY DEF Check, files, procs, Rest
<1>3. journal.present /\ journal'.present
  BY <1>1, <1>2, Fields DEF IInv, WInv, Transaction
<1>4. Transaction'
  BY <1>1, <1>2, <1>3, Fields DEF IInv, WInv, Transaction, InPhase
<1>5. During'
  BY <1>1, <1>2, <1>3, Fields
     DEF IInv, WInv, Processes, Transaction, InPhase, During, Holder, Opened, Runs, Exited, StillAt, Empty
<1>6. Owners'
  BY <1>1, <1>2, <1>3, Fields DEF IInv, WInv, Transaction, InPhase, Owners, Target, Candidate
<1>7. Restored'
  BY <1>1, <1>2, <1>3, Fields DEF IInv, WInv, Transaction, InPhase, Restored
<1>8. Saved'
  BY <1>1, <1>2, <1>3, Fields DEF IInv, WInv, Transaction, InPhase, Saved, Candidate, Holder, Opened, Runs
<1> QED
  BY <1>4, <1>5, <1>6, <1>7, <1>8, <1>2, Undisturbed, <1>3, Pending DEF IInv, WInv

\* What the update leaves is settled, in either outcome.
LEMMA DoneKeeps ==
  ASSUME Recoverable, IInv, TInv', Done
  PROVE  IInv'
<1>1. /\ upd.pc = "done" /\ upd'.pc = "none" /\ upd'.id = 0
      /\ ~journal'.present /\ journal'.phase = "prepared" /\ journal'.successor = 0
  BY Fields DEF Done, At, Exits, NoJournal
<1>2. UNCHANGED <<db, selected, ready, record, host, mach, accepted>>
  BY DEF Done, procs, Rest
<1>3. Transaction'
  BY <1>1, <1>2, Fields DEF IInv, WInv, Transaction, InPhase
<1>4. During'
  BY <1>1, <1>2, Fields
     DEF IInv, WInv, Processes, Transaction, InPhase, During, Holder, Opened, Runs, Exited, StillAt, Empty
<1>5. Between'
  BY <1>1, <1>2, Fields
     DEF IInv, WInv, Processes, Transaction, During, Between, Holder, Opened, Runs, InPhase, Unstopped
<1>6. Owners'
  BY <1>1, <1>2, Fields DEF IInv, WInv, Transaction, InPhase, Owners, Target, Candidate
<1>7. Starters'
  BY <1>1, <1>2, Fields DEF IInv, Starters
<1>8. Restored'
  BY <1>1, <1>2, Fields DEF IInv, WInv, Transaction, InPhase, Restored
<1>9. Settled'
  BY <1>1, <1>2, Fields
     DEF IInv, WInv, Transaction, InPhase, Settled, Holder, Opened, Restored, Saved, During, Processes,
         Owners, Starters, Target, Candidate, Unstopped
<1>10. Saved'
  BY <1>1, <1>2, Fields DEF IInv, WInv, Transaction, InPhase, Saved, Candidate, Holder, Opened, Runs
<1> QED
  BY <1>3, <1>4, <1>5, <1>6, <1>7, <1>8, <1>9, <1>10, <1>2, Undisturbed DEF IInv, WInv

\* A predecessor that was never asked to stop goes on.
LEMMA FailUnstoppedKeeps ==
  ASSUME Recoverable, IInv, TInv', FailUnstopped
  PROVE  IInv'
<1>1. /\ upd.pc = "fail" /\ upd'.pc = "none" /\ upd'.id = 0 /\ Unstopped
      /\ ~journal'.present /\ journal'.phase = "prepared" /\ journal'.successor = 0
  BY Fields DEF FailUnstopped, At, Exits, NoJournal
<1>2. UNCHANGED <<ckpt, db, selected, ready, record, host, mach, accepted>>
  BY DEF FailUnstopped, procs, Rest
<1>3. Transaction'
  BY <1>1, <1>2, Fields DEF IInv, WInv, Transaction, InPhase
<1>4. During'
  BY <1>1, <1>2, Fields
     DEF IInv, WInv, Processes, Transaction, InPhase, During, Holder, Opened, Runs, Exited, StillAt, Empty
<1>5. Between'
  BY <1>1, <1>2, Fields
     DEF IInv, WInv, Processes, Transaction, During, Between, Holder, Opened, Runs, InPhase, Unstopped
<1>6. Owners'
  BY <1>1, <1>2, Fields DEF IInv, WInv, Transaction, InPhase, Owners, Target, Candidate
<1>7. Starters'
  BY <1>1, <1>2, Fields DEF IInv, Starters
<1>8. Restored'
  BY <1>1, <1>2, Fields DEF IInv, WInv, Transaction, InPhase, Restored
<1>9. Settled'
  BY <1>1, <1>2, Fields
     DEF IInv, WInv, Transaction, InPhase, Settled, Holder, Opened, Restored, Saved, During, Processes,
         Owners, Starters, Target, Candidate, Unstopped
<1>10. Saved'
  BY <1>1, <1>2, Fields DEF IInv, WInv, Transaction, InPhase, Saved, Candidate, Holder, Opened, Runs
<1> QED
  BY <1>3, <1>4, <1>5, <1>6, <1>7, <1>8, <1>9, <1>10, <1>2, Undisturbed DEF IInv, WInv

\* The candidate and its machine are gone before anything is restored.
LEMMA FailKeeps ==
  ASSUME Recoverable, IInv, TInv', Fail
  PROVE  IInv'
<1>1. /\ upd.pc = "fail" /\ upd'.pc = "rollback" /\ upd'.id = upd.id /\ ~Unstopped
  BY Fields DEF Fail, At, Goto
<1>2. /\ journal.successor = 0 => UNCHANGED <<host, mach>>
      /\ journal.successor # 0 =>
           /\ host'[journal.successor].st = "none" /\ host'[journal.successor].owner = 0
           /\ mach'[journal.successor].st = "none" /\ mach'[journal.successor].admitted = FALSE
           /\ \A q \in Hosts : q # journal.successor => host'[q] = host[q] /\ mach'[q] = mach[q]
  BY Fields DEF Fail, procs, NoHost, NoMachine
<1>3. UNCHANGED <<journal, ckpt, db, selected, ready, record, accepted>>
  BY DEF Fail, files, Rest
<1>4. journal.present /\ journal'.present
  BY <1>1, <1>2, <1>3, Fields DEF IInv, WInv, Transaction
<1>5. Processes'
  BY <1>1, <1>2, <1>3, <1>4, Fields DEF IInv, WInv, Processes, Holder, Opened, Runs, Exited
<1>6. Transaction'
  BY <1>1, <1>2, <1>3, <1>4, Fields DEF IInv, WInv, Transaction, InPhase
<1>7. During'
  BY <1>1, <1>2, <1>3, <1>4, Fields
     DEF IInv, WInv, Processes, Transaction, InPhase, During, Holder, Opened, Runs, Exited, StillAt, Empty,
         Unstopped, Phases
<1>8. Owners'
  BY <1>1, <1>2, <1>3, <1>4, Fields DEF IInv, WInv, Transaction, InPhase, Owners, Target, Candidate
<1>9. Starters'
  BY <1>1, <1>2, <1>3, <1>4, Fields DEF IInv, Starters
<1>10. Restored'
  BY <1>1, <1>2, <1>3, <1>4, Fields DEF IInv, WInv, Transaction, InPhase, Restored
<1>11. Saved'
  BY <1>1, <1>2, <1>3, <1>4, Fields DEF IInv, WInv, Transaction, InPhase, Saved, Candidate, Holder, Opened, Runs
<1> QED
  BY <1>5, <1>6, <1>7, <1>8, <1>9, <1>10, <1>11, <1>4, Pending DEF IInv, WInv

\* Without a copy nothing was changed.
LEMMA EnterRollbackKeeps ==
  ASSUME Recoverable, IInv, TInv', EnterRollback
  PROVE  IInv'
<1>1. /\ upd.pc = "rollback" /\ upd'.id = upd.id /\ upd'.pc = IF journal.complete THEN "clear" ELSE "reselect"
      /\ journal'.phase = "rollback"
      /\ UNCHANGED <<journal.present, journal.host, journal.machine, journal.pred,
                     journal.stopRequested, journal.complete, journal.successor>>
  BY Fields DEF EnterRollback, At, Goto, JournalType
<1>2. UNCHANGED <<ckpt, db, selected, ready, record, host, mach, accepted>>
  BY DEF EnterRollback, procs, Rest
<1>3. journal.present /\ journal'.present
  BY <1>1, <1>2, Fields DEF IInv, WInv, Transaction
<1>4. Transaction'
  BY <1>1, <1>2, <1>3, Fields DEF IInv, WInv, Transaction, InPhase
<1>5. During'
  BY <1>1, <1>2, <1>3, Fields
     DEF IInv, WInv, Processes, Transaction, InPhase, During, Holder, Opened, Runs, Exited, StillAt, Empty
<1>6. Owners'
  BY <1>1, <1>2, <1>3, Fields
     DEF IInv, WInv, Transaction, InPhase, Owners, Target, Candidate, During, StillAt
<1>7. Starters'
  BY <1>1, <1>2, <1>3, Fields DEF IInv, Starters
<1>8. Restored'
  BY <1>1, <1>2, <1>3, Fields
     DEF IInv, WInv, Transaction, InPhase, Restored, Saved, During, StillAt, Settled
<1>9. Saved'
  BY <1>1, <1>2, <1>3, Fields
     DEF IInv, WInv, Transaction, InPhase, Saved, Candidate, Holder, Opened, Runs, During, StillAt, Empty,
         Processes
<1> QED
  BY <1>4, <1>5, <1>6, <1>7, <1>8, <1>9, <1>2, Undisturbed, <1>3, Pending DEF IInv, WInv

\* There is a copy.
LEMMA RestoreClearsKeeps ==
  ASSUME Recoverable, IInv, TInv', RestoreClears
  PROVE  IInv'
<1>1. /\ upd.pc = "clear" /\ upd'.pc = "restore" /\ upd'.id = upd.id
      /\ selected'.machine = 0 /\ selected'.host = selected.host
  BY Fields DEF RestoreClears, At, Goto
<1>2. UNCHANGED <<journal, ckpt, ready, record, host, mach, accepted>>
  BY DEF RestoreClears, procs, Rest
<1>3. journal.present /\ journal'.present
  BY <1>1, <1>2, Fields DEF IInv, WInv, Transaction
<1>4. Transaction'
  BY <1>1, <1>2, <1>3, Fields DEF IInv, WInv, Transaction, InPhase
<1>5. During'
  BY <1>1, <1>2, <1>3, Fields
     DEF IInv, WInv, Processes, Transaction, InPhase, During, Holder, Opened, Runs, Exited, StillAt, Empty
<1>6. Owners'
  BY <1>1, <1>2, <1>3, Fields DEF IInv, WInv, Transaction, InPhase, Owners, Target, Candidate
<1>7. Restored'
  BY <1>1, <1>2, <1>3, Fields DEF IInv, WInv, Transaction, InPhase, Restored, During, StillAt
<1>8. Saved'
  BY <1>1, <1>2, <1>3, Fields DEF IInv, WInv, Transaction, InPhase, Saved, Candidate, Holder, Opened, Runs
<1> QED
  BY <1>4, <1>5, <1>6, <1>7, <1>8, <1>2, Undisturbed, <1>3, Pending DEF IInv, WInv

\* The database is what the predecessor left.
LEMMA RestoreCopiesKeeps ==
  ASSUME Recoverable, IInv, TInv', RestoreCopies
  PROVE  IInv'
<1>1. /\ upd.pc = "restore" /\ upd'.pc = "reselect" /\ upd'.id = upd.id
      /\ selected'.machine = journal.pred /\ selected'.host = selected.host
      /\ db'.work = ckpt.work /\ db'.schema = ckpt.schema
  BY Fields DEF RestoreCopies, At, Goto
<1>2. UNCHANGED <<journal, ckpt, ready, record, host, mach, accepted>>
  BY DEF RestoreCopies, procs, Rest
<1>3. journal.present /\ journal'.present
  BY <1>1, <1>2, Fields DEF IInv, WInv, Transaction
<1>4. Transaction'
  BY <1>1, <1>2, <1>3, Fields DEF IInv, WInv, Transaction, InPhase
<1>5. During'
  BY <1>1, <1>2, <1>3, Fields
     DEF IInv, WInv, Processes, Transaction, InPhase, During, Holder, Opened, Runs, Exited, StillAt, Empty
<1>6. Owners'
  BY <1>1, <1>2, <1>3, Fields DEF IInv, WInv, Transaction, InPhase, Owners, Target, Candidate
<1>7. Restored'
  BY <1>1, <1>2, <1>3, Fields DEF IInv, WInv, Transaction, InPhase, Restored, During, StillAt, Saved
<1>8. Saved'
  BY <1>1, <1>2, <1>3, Fields DEF IInv, WInv, Transaction, InPhase, Saved, Candidate, Holder, Opened, Runs
<1> QED
  BY <1>4, <1>5, <1>6, <1>7, <1>8, <1>2, Undisturbed, <1>3, Pending DEF IInv, WInv

\* Both selections name the predecessor.
LEMMA ReselectKeeps ==
  ASSUME Recoverable, IInv, TInv', Reselect
  PROVE  IInv'
<1>1. /\ upd.pc = "reselect" /\ upd'.pc = "start" /\ upd'.id = upd.id
      /\ selected'.host = journal.pred /\ selected'.machine = selected.machine
  BY Fields DEF Reselect, At, Goto
<1>2. UNCHANGED <<journal, ckpt, db, ready, record, host, mach, accepted>>
  BY DEF Reselect, procs, Rest
<1>3. journal.present /\ journal'.present
  BY <1>1, <1>2, Fields DEF IInv, WInv, Transaction
<1>4. Transaction'
  BY <1>1, <1>2, <1>3, Fields DEF IInv, WInv, Transaction, InPhase
<1>5. During'
  BY <1>1, <1>2, <1>3, Fields
     DEF IInv, WInv, Processes, Transaction, InPhase, During, Holder, Opened, Runs, Exited, StillAt, Empty
<1>6. Owners'
  BY <1>1, <1>2, <1>3, Fields DEF IInv, WInv, Transaction, InPhase, Owners, Target, Candidate
<1>7. Restored'
  BY <1>1, <1>2, <1>3, Fields DEF IInv, WInv, Transaction, InPhase, Restored
<1>8. Saved'
  BY <1>1, <1>2, <1>3, Fields DEF IInv, WInv, Transaction, InPhase, Saved, Candidate, Holder, Opened, Runs
<1> QED
  BY <1>4, <1>5, <1>6, <1>7, <1>8, <1>2, Undisturbed, <1>3, Pending DEF IInv, WInv

\* The journal of the living predecessor stays.
LEMMA HandoffFailsKeeps ==
  ASSUME Recoverable, IInv, TInv', HandoffFails
  PROVE  IInv'
<1>1. upd.pc = "handoff" /\ upd'.pc = "none" /\ upd'.id = 0
  BY Fields DEF HandoffFails
<1>2. UNCHANGED <<journal, ckpt, db, selected, ready, record, host, mach, accepted>>
  BY DEF HandoffFails, files, procs
<1>3. Transaction'
  BY <1>1, <1>2, Fields DEF IInv, WInv, Transaction, InPhase
<1>4. During'
  BY <1>1, <1>2, Fields
     DEF IInv, WInv, Processes, Transaction, InPhase, During, Holder, Opened, Runs, Exited, StillAt, Empty
<1>5. Owners'
  BY <1>1, <1>2, Fields DEF IInv, WInv, Transaction, InPhase, Owners, Target, Candidate
<1>6. Restored'
  BY <1>1, <1>2, Fields DEF IInv, WInv, Transaction, InPhase, Restored
<1>7. Saved'
  BY <1>1, <1>2, Fields DEF IInv, WInv, Transaction, InPhase, Saved, Candidate, Holder, Opened, Runs
<1> QED
  BY <1>3, <1>4, <1>5, <1>6, <1>7, <1>2, Undisturbed DEF IInv, WInv

\* Only a host that was not let in is killed.
LEMMA RecordFailsKeeps ==
  ASSUME Recoverable, IInv, TInv', RecordFails
  PROVE  IInv'
<1>1. /\ upd.pc = "spawned" /\ upd.id # 0
      /\ \/ upd'.pc = "none" /\ upd'.id = 0
         \/ upd'.pc = "rollback" /\ upd'.id = upd.id /\ journal.phase # "rollback"
            /\ \A q \in Hosts : host'[q].owner # upd.id
      /\ \A q \in Hosts : \/ host'[q] = host[q]
                          \/ host[q].st = "launched" /\ host'[q].st = "none" /\ host'[q].owner = 0
  <2>1. upd.pc = "spawned" /\ upd.id # 0
    BY DEF RecordFails, At, IInv, WInv, Transaction
  <2>2. CASE journal.phase = "rollback"
    BY <2>1, <2>2 DEF RecordFails, Exits
  <2>3. CASE journal.phase # "rollback"
    <3>1. /\ host' = [q \in Hosts |-> IF host[q].owner = upd.id THEN NoHost ELSE host[q]]
          /\ upd'.pc = "rollback" /\ upd'.id = upd.id
      BY <2>3, Fields DEF RecordFails, Goto
    <3>2. \A q \in Hosts : host[q].owner = upd.id => host[q].st = "launched"
      BY <2>1 DEF IInv, WInv, Processes
    <3> QED
      BY <2>1, <2>3, <3>1, <3>2 DEF NoHost
  <2> QED
    BY <2>2, <2>3
<1>2. UNCHANGED <<journal, ckpt, db, selected, ready, record, mach, accepted>>
  BY DEF RecordFails, files
<1>3. journal.present /\ journal'.present
  BY <1>1, <1>2, Fields DEF IInv, WInv, Transaction
<1>4. \A q \in Hosts : (Holder(q))' <=> Holder(q)
  BY <1>1 DEF Holder, Opened
<1>5. Processes'
  BY <1>1, <1>2, <1>4, Fields DEF IInv, WInv, Processes, Holder, Opened, Runs, Exited
<1>6. Transaction'
  BY <1>1, <1>2, <1>3, Fields DEF IInv, WInv, Transaction, InPhase
<1>7. During'
  <2>1. Empty /\ Empty'
    BY <1>1, <1>2, <1>3, <1>4 DEF IInv, WInv, During, StillAt, Empty, Runs
  <2>2. journal'.successor # 0 => host'[journal'.successor].st = "none"
    BY <1>1, <1>2, <1>3, Fields DEF IInv, WInv, During, StillAt
  <2>3. journal.phase # "prepared" /\ upd'.pc \in {"none", "rollback"}
    BY <1>1 DEF IInv, WInv, Transaction, InPhase
  <2>4. journal'.phase # "prepared" /\ \A q \in Hosts : ~(Holder(q))' /\ ~(Runs(q))'
    BY <1>2, <2>1, <2>3 DEF Empty
  <2> QED
    BY <2>1, <2>2, <2>3, <2>4 DEF During
<1>8. Owners'
  BY <1>1, <1>2, <1>3, Fields DEF IInv, WInv, Transaction, InPhase, Owners, Target, Candidate, During, StillAt
<1>9. Starters'
  BY <1>1, <1>2, <1>3, Fields DEF IInv, Starters
<1>10. Restored'
  BY <1>1, <1>2, <1>3, Fields DEF IInv, WInv, Transaction, InPhase, Restored, During, StillAt
<1>11. Saved'
  BY <1>1, <1>2, <1>3, <1>4, Fields DEF IInv, WInv, Transaction, InPhase, Saved, Candidate, Runs
<1> QED
  BY <1>5, <1>6, <1>7, <1>8, <1>9, <1>10, <1>11, <1>3, Pending DEF IInv, WInv

\* Whatever the updater left is recoverable.
LEMMA UpdaterDiesKeeps ==
  ASSUME Recoverable, IInv, TInv', UpdaterDies
  PROVE  IInv'
<1>1. upd.id # 0 /\ upd'.pc = "none" /\ upd'.id = 0
  BY Fields DEF UpdaterDies
<1>2. UNCHANGED <<journal, ckpt, db, selected, ready, record, host, mach, accepted>>
  BY DEF UpdaterDies, files, procs
<1>3. Transaction'
  BY <1>1, <1>2, Fields DEF IInv, WInv, Transaction, InPhase
<1>4. During'
  BY <1>1, <1>2, Fields
     DEF IInv, WInv, Processes, Transaction, InPhase, During, Holder, Opened, Runs, Exited, StillAt, Empty
<1>5. Owners'
  BY <1>1, <1>2, Fields DEF IInv, WInv, Transaction, InPhase, Owners, Target, Candidate
<1>6. Restored'
  BY <1>1, <1>2, Fields DEF IInv, WInv, Transaction, InPhase, Restored
<1>7. Saved'
  BY <1>1, <1>2, Fields DEF IInv, WInv, Transaction, InPhase, Saved, Candidate, Holder, Opened, Runs
<1> QED
  BY <1>3, <1>4, <1>5, <1>6, <1>7, <1>2, Undisturbed DEF IInv, WInv

\* The bootstrap resumes an update without an owner, or starts the one host.
LEMMA BootstrapKeeps ==
  ASSUME Recoverable, IInv, TInv', Bootstrap
  PROVE  IInv'
<1>1. UNCHANGED <<journal, ckpt, db, selected, ready, record, mach, accepted>> /\ upd.pc = "none"
  BY DEF Bootstrap, files
<1>2. ASSUME journal.present, NEW u \in 1..MaxUpdaters, FreshUpdater(u),
             upd' = [id |-> u, pc |-> "begin"], UNCHANGED host
      PROVE  IInv'
  <2>1. upd'.id = u /\ u # 0 /\ upd'.pc = "begin" /\ host' = host
    BY <1>2
  <2>2. Transaction'
    BY <1>1, <1>2, <2>1, Fields DEF IInv, WInv, Transaction, InPhase
  <2>3. During'
    BY <1>1, <1>2, <2>1, Fields
       DEF IInv, WInv, Processes, Transaction, InPhase, During, Holder, Opened, Runs, Exited, StillAt, Empty
  <2>4. Owners'
    BY <1>1, <1>2, <2>1, Fields
       DEF IInv, WInv, Transaction, InPhase, Owners, Target, Candidate, FreshUpdater
  <2>5. Restored'
    BY <1>1, <1>2, <2>1, Fields DEF IInv, WInv, Transaction, InPhase, Restored
  <2>6. Saved'
    BY <1>1, <1>2, <2>1, Fields DEF IInv, WInv, Transaction, InPhase, Saved, Candidate, Holder, Opened, Runs
  <2> QED
    BY <2>2, <2>3, <2>4, <2>5, <2>6, <1>1, <2>1, Undisturbed DEF IInv, WInv
<1>3. ASSUME NEW p \in Hosts, ~journal.present, ~LockHeld,
             \A q \in Hosts : host[q].st \notin {"launched", "authorized"},
             FreeHost(p), Launched(p, selected.host, 0), UNCHANGED upd
      PROVE  IInv'
  <2>1. /\ host'[p].st = "launched" /\ host'[p].rel = selected.host /\ host'[p].owner = 0
        /\ \A q \in Hosts : q # p => host'[q] = host[q]
    BY <1>3, Fields DEF Launched
  <2>2. \A q \in Hosts : host[q].st = "none"
    BY <1>3, Fields DEF LockHeld, HostType, HostStates
  <2>3. mach[p].st = "none" /\ p # ready
    BY <1>3, Present DEF FreeHost
  <2>4. Processes'
    BY <1>1, <1>3, <2>1, <2>2, <2>3, Fields DEF IInv, WInv, Processes, Holder, Opened, Runs, Exited
  <2>5. Transaction'
    BY <1>1, <1>3, <2>1, <2>2, <2>3, Fields DEF IInv, WInv, Transaction, InPhase
  <2>6. During'
    BY <1>1, <1>3, <2>1, <2>2, <2>3, Fields
       DEF IInv, WInv, Processes, Transaction, InPhase, During, Holder, Opened, Runs, Exited, StillAt, Empty
  <2>7. Between'
    BY <1>1, <1>3, <2>1, <2>2, <2>3, Fields
       DEF IInv, WInv, Processes, Transaction, During, Between, Holder, Opened, Runs
  <2>8. Owners'
    BY <1>1, <1>3, <2>1, <2>2, <2>3, Fields
       DEF IInv, WInv, Transaction, InPhase, Owners, Target, Candidate
  <2>9. Starters'
    BY <1>1, <1>3, <2>1, <2>2, <2>3, Fields DEF IInv, Starters
  <2>10. Restored'
    BY <1>1, <1>3, <2>1, <2>2, <2>3, Fields DEF IInv, WInv, Transaction, InPhase, Restored
  <2>11. Settled'
    BY <1>1, <1>3, <2>1, <2>2, <2>3, Fields DEF IInv, WInv, Transaction, InPhase, Settled, Holder, Opened
  <2>12. Saved'
    BY <1>1, <1>3, <2>1, <2>2, <2>3, Fields
       DEF IInv, WInv, Transaction, InPhase, Saved, Candidate, Holder, Opened, Runs
  <2> QED
    BY <2>4, <2>5, <2>6, <2>7, <2>8, <2>9, <2>10, <2>11, <2>12 DEF IInv, WInv
<1> QED
  BY <1>2, <1>3 DEF Bootstrap

\* A first host serves, no update is pending.
LEMMA InitHolds == Init => IInv
<1> SUFFICES ASSUME Init PROVE IInv
  OBVIOUS
<1>1. /\ ~journal.present /\ journal.phase = "prepared" /\ journal.successor = 0
      /\ upd.pc = "none" /\ upd.id = 0 /\ ready = 1 /\ record.host = 1 /\ record.inc = 1
      /\ db.work = accepted /\ db.schema = 1 /\ selected.host = 1 /\ selected.machine = 1
  BY DEF Init, NoJournal
<1>2. /\ host[1].st = "ready" /\ host[1].rel = 1 /\ host[1].owner = 0
      /\ mach[1].st = "live" /\ mach[1].inc = 1
      /\ 1 \in Hosts
  <2>1. 1 \in Hosts
    BY Sizes DEF Hosts
  <2>2. host[1] = [NoHost EXCEPT !.st = "ready"] /\ mach[1] = [st |-> "live", inc |-> 1, admitted |-> TRUE]
    BY <2>1 DEF Init
  <2>3. NoHost \in HostType /\ NoHost.rel = 1 /\ NoHost.owner = 0
    BY Absent DEF NoHost
  <2> QED
    BY <2>1, <2>2, <2>3 DEF HostType, HostStates
<1>3. \A p \in Hosts \ {1} : /\ host[p].st = "none" /\ host[p].owner = 0
                              /\ mach[p].st = "none" /\ mach[p].admitted = FALSE
  BY DEF Init, NoHost, NoMachine
<1>4. TInv
  BY InitTyped
<1>5. Processes
  BY <1>1, <1>2, <1>3 DEF Processes, Holder, Opened, Runs, Exited
<1>6. Transaction /\ During /\ Between
  BY <1>1, <1>2, <1>3 DEF Transaction, InPhase, During, Between, Holder, Opened, Runs
<1>7. Owners /\ Starters /\ Restored /\ Settled /\ Saved
  BY <1>1, <1>2, <1>3 DEF Owners, Starters, Restored, Settled, Saved, Holder, Opened
<1> QED
  BY <1>4, <1>5, <1>6, <1>7 DEF IInv, WInv

\* Every step keeps the invariant; a machine does not die.
LEMMA StepHolds == Recoverable /\ IInv /\ [Next]_vars => IInv'
<1> SUFFICES ASSUME Recoverable, IInv, [Next]_vars PROVE IInv'
  OBVIOUS
<1>1. TInv'
  BY StepTyped DEF IInv, WInv
<1>2. CASE UNCHANGED vars
  <2>1. Processes' /\ Transaction' /\ During' /\ Between'
    BY <1>2
       DEF vars, files, procs, IInv, WInv, Processes, Transaction, InPhase, During, Between, Holder, Opened,
           Runs, Empty
  <2>2. Owners' /\ Starters' /\ Restored' /\ Settled' /\ Saved'
    BY <1>2
       DEF vars, files, procs, IInv, Owners, Starters, Restored, Settled, Saved, Target, Candidate,
           Holder, Opened, Runs
  <2> QED
    BY <1>1, <2>1, <2>2 DEF IInv, WInv
<1>3. ASSUME NEW p \in Hosts, HostStep(p) \/ Admit(p) \/ Work(p) \/ Request(p) \/ HostDies(p) \/ OperatorStops(p)
      PROVE  IInv'
  BY <1>1, <1>3, HostAuthorizedKeeps, HostLocksKeeps, HostOpensKeeps, MachineBootsKeeps, MachineBootedKeeps, HostReadyKeeps, HostFailsKeeps,
     MachineFailsKeeps, HostStopsKeeps, MachineRestartedKeeps, AdmitKeeps, WorkKeeps, RequestKeeps,
     HostDiesKeeps, OperatorStopsKeeps DEF HostStep
<1>4. CASE Updater
  BY <1>1, <1>4, HandoffKeeps, BeginKeeps, RetireKeeps, StopRequestedKeeps, EscalateKeeps, StoppedKeeps,
     SnapshotKeeps, CheckpointedKeeps, StartingKeeps, SelectMachineKeeps, startHostKeeps,
     RecordSuccessorKeeps, RecordDeadKeeps, WaitedKeeps, TimedOutKeeps, ThrowsKeeps, StopThrowsKeeps,
     PromoteKeeps, CommitKeeps, CheckKeeps, DoneKeeps, FailUnstoppedKeeps, FailKeeps, EnterRollbackKeeps,
     RestoreClearsKeeps, RestoreCopiesKeeps, ReselectKeeps DEF Updater
<1>5. CASE Bootstrap \/ UpdaterDies \/ HandoffFails \/ RecordFails
  BY <1>1, <1>5, BootstrapKeeps, UpdaterDiesKeeps, HandoffFailsKeeps, RecordFailsKeeps
<1>6. ASSUME NEW p \in Hosts PROVE ~MachineDies(p)
  BY DEF MachineDies, Fault, Recoverable
<1> QED
  BY <1>2, <1>3, <1>4, <1>5, <1>6 DEF Next

-----------------------------------------------------------------------------
(* What the update guarantees. *)

\* IInv holds in every reachable state, where the faults are recoverable.
THEOREM Invariance == Recoverable => (Spec => []IInv)
<1> SUFFICES ASSUME Recoverable PROVE Spec => []IInv
  OBVIOUS
<1>1. IInv /\ [Next]_vars => IInv'
  BY StepHolds
<1> QED
  BY <1>1, InitHolds, PTL DEF Spec

\* One machine at a time has the database open, through the handoff, the deaths of
\* updaters and of hosts that are not promoted, failed writes and every recovery, and none
\* while the snapshot is taken or put back: for any number of hosts, updates and such
\* faults, but not where a machine, a promoted host or one with an unnamed machine dies.
THEOREM OneWriterAlways == Recoverable => (Spec => []OneWriter)
<1>1. ASSUME IInv PROVE OneWriter
  <2>1. upd.pc \in {"snapshot", "clear", "restore"} => Machines = {}
    BY <1>1, Fields DEF IInv, WInv, Transaction, InPhase, During, StillAt, Empty, Runs, Machines
  <2>2. Cardinality(Machines) <= 1
    <3>1. CASE Machines = {}
      BY <3>1, FS_EmptySet
    <3>2. CASE Machines # {}
      <4>1. PICK p \in Machines : TRUE
        BY <3>2
      <4>2. Machines = {p}
        BY <1>1, <4>1, OneRuns DEF Machines, Runs
      <4> QED
        BY <4>2, FS_Singleton
    <3> QED
      BY <3>1, <3>2
  <2> QED
    BY <2>1, <2>2 DEF OneWriter
<1> QED
  BY <1>1, Invariance, PTL

\* Whenever no update is pending the database holds all work that was ever accepted,
\* however often an update was rolled back or recovered.
THEOREM NothingLostAlways == Recoverable => (Spec => []NothingLost)
<1>1. IInv => NothingLost
  BY DEF IInv, Settled, NothingLost
<1> QED
  BY <1>1, Invariance, PTL

\* A predecessor that a rollback starts again finds the data it left.
THEOREM RollbackPristineAlways == Recoverable => (Spec => []RollbackPristine)
<1>1. ASSUME IInv PROVE RollbackPristine
  <2> SUFFICES ASSUME NEW p \in Hosts, journal.phase = "rollback", host[p].st = "open"
               PROVE  db = [work |-> accepted, schema |-> journal.pred]
    BY DEF RollbackPristine
  <2>1. journal.present
    BY <1>1 DEF IInv, WInv, Transaction
  <2>2. journal.successor = p /\ p # 0
    BY <1>1, <2>1, Opening, Fields
  <2>3. db.work = accepted /\ db.schema = journal.pred
    BY <1>1, <2>2 DEF IInv, Restored
  <2> QED
    BY <1>1, <2>3, Fields
<1> QED
  BY <1>1, Invariance, PTL

\* Whenever no update is pending the selection files name one release, which the
\* serving host runs.
THEOREM SelectionAgreesAlways == Recoverable => (Spec => []SelectionAgrees)
<1>1. IInv => SelectionAgrees
  BY DEF IInv, Settled, SelectionAgrees, Holder, Opened
<1> QED
  BY <1>1, Invariance, PTL
=============================================================================
