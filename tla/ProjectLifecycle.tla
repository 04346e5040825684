-------------------------- MODULE ProjectLifecycle --------------------------
(***************************************************************************)
(* The lifecycle of a cloud project and its workspaces.                    *)
(*                                                                         *)
(* A request checks what it asks for and queues an operation on the        *)
(* project authority (project-authority.ts); the authority's alarm runs    *)
(* the operations one at a time, oldest first, by calling each workspace's *)
(* own object (space-authority.ts), which decides from its own copy of     *)
(* the lifecycle (workspace-metadata.ts) whether it accepts writes, and    *)
(* then tells the project (cloud-workspace-lifecycle.ts).  The account's   *)
(* directory of projects is a fourth object.                               *)
(*                                                                         *)
(* Every call between two objects is a step, and one may fail or be cut    *)
(* off at each.  A cut-off operation is still "running" and runs again     *)
(* from its first step.  The alarm is armed whenever an operation is       *)
(* queued or running, so it is not a variable.  Only worktrees are         *)
(* modelled; the base workspace follows its project alone.                 *)
(***************************************************************************)
EXTENDS Integers, Sequences, SequencesExt

CONSTANTS
  Workspaces,
  MaxOps,      \* bound: operations queued
  MaxFaults,   \* bound: calls that fail, runs and requests that are cut off
  MaxEdits     \* bound: changes of a workspace's phase or of the project's repository

ASSUME LifecycleAssumption ==
  /\ "project" \notin Workspaces
  /\ {MaxOps, MaxFaults, MaxEdits} \subseteq Nat

VARIABLES
  project,   \* project authority: lifecycle and revision
  rows,      \* project authority: the workspaces' definitions
  gone,      \* project authority: deleted_workspaces
  ops,       \* project authority: operations, in the order they were created
  run,       \* the alarm's run of an operation
  asks,      \* requests between two of their calls
  obj,       \* each workspace object's metadata
  seed,      \* each workspace object's read of its project in flight
  phase,     \* each workspace object's change of phase in flight
  use,       \* each workspace's runtime: idle, a write admitted, at work
  index,     \* account directory: the project's entry
  puts,      \* summaries on their way to the directory
  located,   \* account directory: workspace locations
  repo,      \* workspaces that have a repository
  faults, edits,
  torn,      \* history: the object and the row are between their two writes
  late,      \* history: recorded while a project operation was past its listing
  stale,     \* history: a phase change or a seed wrote what it had read over something newer
  slipped,   \* history: work began in a workspace that had closed: admitted before, or opened to read
  unpublished \* history: the project changed and its summary was lost

authority == <<project, rows, gone>>
directory == <<index, puts, located>>
history   == <<torn, late, stale, slipped, unpublished>>
bounds    == <<faults, edits>>
vars == <<authority, ops, run, asks, obj, seed, phase, use, directory, repo, bounds, history>>

NoRow    == [life |-> "none", rev |-> 0]
NoObject == [life |-> "none", rev |-> 0, plife |-> "none", prev |-> 0]
NoPhase  == [pc |-> "idle", cur |-> NoObject]
NoRun    == [op |-> 0, pc |-> "idle", def |-> NoRow, proj |-> NoRow, todo |-> {}, cur |-> "project", tomb |-> NoObject]

RowLives     == {"none", "provisioning", "active", "failed", "archived", "deleting"}
ProjectLives == {"none", "active", "archiving", "archived", "restoring", "deleting"}
WorkspaceKinds == {"create", "archive", "restore", "delete"}
ProjectKinds   == {"parchive", "prestore", "pdelete"}
Records  == [life : RowLives, rev : Nat]
Summaries == [life : ProjectLives, rev : Nat]
Objects  == [life : RowLives, rev : Nat, plife : ProjectLives, prev : Nat]

TypeOK ==
  /\ project \in Summaries /\ rows \in [Workspaces -> Records]
  /\ gone \subseteq Workspaces /\ located \subseteq Workspaces /\ repo \subseteq Workspaces
  /\ ops \in Seq([kind : WorkspaceKinds \cup ProjectKinds, ws : Workspaces \cup {"project"},
                  st : {"queued", "running", "succeeded", "failed"}]) /\ Len(ops) <= MaxOps
  /\ run \in [op : 0..MaxOps,
              pc : {"idle", "read", "source", "fork", "activate", "seed", "mark", "apply", "stop", "record",
                    "adopt", "unrepo", "remove", "unlocate", "begin", "set", "list", "each", "eachstop", "settle",
                    "publish", "tomb", "unindex", "end"},
              def : Records, proj : Summaries, todo : SUBSET Workspaces,
              cur : Workspaces \cup {"project"}, tomb : Objects]
  /\ asks \in Seq([kind : WorkspaceKinds \cup ProjectKinds, ws : Workspaces \cup {"project"},
                   pc : {"put", "locate", "check", "append"}, rev : Nat])
  /\ obj \in [Workspaces -> Objects] /\ seed \in [Workspaces -> Objects]
  /\ phase \in [Workspaces -> [pc : {"idle", "write", "record", "adopt"}, cur : Objects]]
  /\ use \in [Workspaces -> {"idle", "admitted", "working"}]
  /\ index \in Summaries /\ puts \subseteq Summaries
  /\ faults \in 0..MaxFaults /\ edits \in 0..MaxEdits
  /\ \A set \in {torn, late, stale, slipped} : set \subseteq Workspaces
  /\ unpublished \in BOOLEAN

\* A project in use, with some of its workspaces.  One of an earlier release has no
\* metadata of its own yet.
Init ==
  /\ project = [life |-> "active", rev |-> 1] /\ index = project
  /\ \E existing \in SUBSET Workspaces, seeded \in SUBSET Workspaces :
       /\ seeded \subseteq existing
       /\ rows = [w \in Workspaces |-> IF w \in existing THEN [life |-> "active", rev |-> 1] ELSE NoRow]
       /\ obj = [w \in Workspaces |-> IF w \in seeded THEN [life |-> "active", rev |-> 1, plife |-> "active", prev |-> 1]
                                      ELSE NoObject]
       /\ located = existing /\ repo = existing
  /\ gone = {} /\ ops = <<>> /\ asks = <<>> /\ run = NoRun /\ puts = {}
  /\ seed = [w \in Workspaces |-> NoObject] /\ phase = [w \in Workspaces |-> NoPhase]
  /\ use = [w \in Workspaces |-> "idle"]
  /\ faults = 0 /\ edits = 0
  /\ torn = {} /\ late = {} /\ stale = {} /\ slipped = {} /\ unpublished = FALSE

-----------------------------------------------------------------------------
(* The records. *)

Present(w) == rows[w].life # "none"
Seeded(w)  == obj[w].life # "none"

\* Mutant: whatever was read last is taken.
AdoptAlways(cur, def, proj) == [life |-> def.life, rev |-> def.rev, plife |-> proj.life, prev |-> proj.rev]

\* adoptWorkspaceMetadata: each half only when it is newer than what is held.
Adopt(cur, def, proj) ==
  LET new == cur.life = "none"
  IN  [life  |-> IF new \/ def.rev > cur.rev THEN def.life ELSE cur.life,
       rev   |-> IF new \/ def.rev > cur.rev THEN def.rev ELSE cur.rev,
       plife |-> IF new \/ proj.rev > cur.prev THEN proj.life ELSE cur.plife,
       prev  |-> IF new \/ proj.rev > cur.prev THEN proj.rev ELSE cur.prev]

\* SpaceAuthorityDO.adopt: the definition, with the project state the object holds.
AdoptRow(cur, def) == Adopt(cur, def, [life |-> cur.plife, rev |-> cur.prev])

\* authorizeWorkspaceRuntime, to read and to write.
Available(o) == o.life \notin {"none", "deleting"} /\ o.plife # "deleting"
Writable(o)  == Available(o) /\ o.plife # "archived" /\ o.life # "archived"

\* putWorkspace refuses a deleted identity, a closed project and a moved revision.
CanPut(w, rev) ==
  /\ w \notin gone /\ project.life \notin {"archived", "deleting"}
  /\ rows[w].rev = rev
Put(w, life) == [rows EXCEPT ![w] = [life |-> life, rev |-> @.rev + 1]]

\* commitWorkspaceLifecycle: repeating a recorded lifecycle returns it.
Commit(w, life) == IF rows[w].life = life THEN rows ELSE Put(w, life)

\* setProjectLifecycle.
CanSet(rev) == project.life # "deleting" /\ project.rev = rev
SetTo(life) == [life |-> life, rev |-> project.rev + 1]

\* UserProjects.put: an older summary changes nothing, a removed project is refused.
IndexPut(s) == IF index.life # "none" /\ s.rev >= index.rev THEN s ELSE index

Live(i)   == ops[i].st \in {"queued", "running"}
LiveOps   == {i \in DOMAIN ops : Live(i)}
Busy(ws)  == \E i \in LiveOps : ops[i].ws = ws

\* A workspace recorded now is missed by a project operation that has listed them.
Listed == run.pc \in {"each", "eachstop", "settle", "tomb", "publish"}
LateOnes(w) == IF Listed THEN late \cup {w} ELSE late

-----------------------------------------------------------------------------
(* Requests.  One that is refused at its first checks is left out. *)

Ask(kind, ws, pc, rev) ==
  /\ index.life # "none" /\ Len(ops) + Len(asks) < MaxOps
  /\ asks' = Append(asks, [kind |-> kind, ws |-> ws, pc |-> pc, rev |-> rev])
  /\ UNCHANGED <<authority, ops, run, obj, seed, phase, use, directory, repo, bounds, history>>

\* createCloudWorkspace up to its write of the definition.
AskCreate(w) == project.life = "active" /\ ~Present(w) /\ Ask("create", w, "put", 0)

\* retryCloudWorkspaceCreation.
AskRetry(w) ==
  /\ w \in located /\ rows[w].life \in {"failed", "provisioning"} /\ project.life = "active"
  /\ ~\E i \in LiveOps : ops[i].ws = w /\ ops[i].kind = "create"
  /\ Ask("create", w, IF rows[w].life = "failed" THEN "put" ELSE "check", rows[w].rev)

\* archiveCloudWorkspace, restoreCloudWorkspace and deleteCloudWorkspace.
AskWorkspace(kind, w) ==
  /\ \/ kind = "archive" /\ rows[w].life \in {"active", "failed", "archived"}
     \/ kind = "restore" /\ w \in located /\ rows[w].life \in {"archived", "active"}
     \/ kind = "delete"  /\ w \in located /\ Present(w)
  /\ ~Busy(w)
  /\ Ask(kind, w, "append", 0)

\* archiveCloudProject, restoreCloudProject and deleteCloudProject.
AskProject(kind) ==
  /\ \/ kind = "parchive" /\ project.life \in {"active", "archiving"}
     \/ kind = "prestore" /\ project.life \in {"archived", "restoring"}
     \/ kind = "pdelete"  /\ project.life # "deleting"
  /\ ~Busy("project")
  /\ Ask(kind, "project", "append", 0)

\* retryCloudOperation of anything but a creation.
AskAgain(i) ==
  /\ ops[i].st = "failed" /\ ops[i].kind # "create" /\ ~Busy(ops[i].ws)
  /\ Ask(ops[i].kind, ops[i].ws, "append", 0)

\* The later calls of a request.
AskPut(k) ==
  /\ asks[k].pc = "put"
  /\ LET w == asks[k].ws
     IN  IF CanPut(w, asks[k].rev)
         THEN /\ rows' = Put(w, "provisioning") /\ late' = LateOnes(w)
              /\ asks' = [asks EXCEPT ![k].pc = IF asks[k].rev = 0 THEN "locate" ELSE "check"]
         ELSE asks' = RemoveAt(asks, k) /\ UNCHANGED <<rows, late>>
  /\ UNCHANGED <<project, gone, ops, run, obj, seed, phase, use, directory, repo, bounds,
                 torn, stale, slipped, unpublished>>

AskLocate(k) ==
  /\ asks[k].pc = "locate"
  /\ IF index.life # "none"
     THEN /\ located' = located \cup {asks[k].ws} /\ asks' = [asks EXCEPT ![k].pc = "check"]
     ELSE asks' = RemoveAt(asks, k) /\ UNCHANGED located
  /\ UNCHANGED <<authority, ops, run, obj, seed, phase, use, index, puts, repo, bounds, history>>

AskCheck(k) ==
  /\ asks[k].pc = "check"
  /\ asks' = IF Busy(asks[k].ws) THEN RemoveAt(asks, k) ELSE [asks EXCEPT ![k].pc = "append"]
  /\ UNCHANGED <<authority, ops, run, obj, seed, phase, use, directory, repo, bounds, history>>

\* ProjectAuthorityDO.queueOperation, which also arms the alarm.
AskAppend(k) ==
  /\ asks[k].pc = "append"
  /\ ops' = Append(ops, [kind |-> asks[k].kind, ws |-> asks[k].ws, st |-> "queued"])
  /\ asks' = RemoveAt(asks, k)
  /\ UNCHANGED <<authority, run, obj, seed, phase, use, directory, repo, bounds, history>>

\* The request is cut off between two calls.
AskLost(k) ==
  /\ faults < MaxFaults /\ faults' = faults + 1
  /\ asks' = RemoveAt(asks, k)
  /\ UNCHANGED <<authority, ops, run, obj, seed, phase, use, directory, repo, edits, history>>

\* setCloudProjectRepository: the revision moves, the directory hears of it later.
Move ==
  /\ edits < MaxEdits /\ edits' = edits + 1
  /\ index.life # "none" /\ project.life = "active"
  /\ project' = SetTo("active") /\ puts' = puts \cup {project'}
  /\ UNCHANGED <<rows, gone, ops, run, asks, obj, seed, phase, use, index, located, repo, faults, history>>

Published(s) ==
  /\ s \in puts /\ puts' = puts \ {s} /\ index' = IndexPut(s)
  /\ UNCHANGED <<authority, ops, run, asks, obj, seed, phase, use, located, repo, bounds, history>>

-----------------------------------------------------------------------------
(* The workspace object: seeding itself, admitting writes, its phase. *)

CanSeed(w) == Present(w) /\ project.life # "deleting"

\* metadata: one read of the project, shared by everyone who waits for it.  The runner's
\* calls wait here too; only the runner removes definitions, so it never waits in vain.
SeedRead(w) ==
  /\ ~Seeded(w) /\ seed[w] = NoObject /\ CanSeed(w)
  /\ seed' = [seed EXCEPT ![w] = [life |-> rows[w].life, rev |-> rows[w].rev,
                                  plife |-> project.life, prev |-> project.rev]]
  /\ UNCHANGED <<authority, ops, run, asks, obj, phase, use, directory, repo, bounds, history>>

SeedWrite(w) ==
  /\ seed[w] # NoObject
  /\ obj' = [obj EXCEPT ![w] = Adopt(@, [life |-> seed[w].life, rev |-> seed[w].rev],
                                        [life |-> seed[w].plife, rev |-> seed[w].prev])]
  /\ stale' = IF obj[w].plife = "deleting" /\ obj'[w] # obj[w] THEN stale \cup {w} ELSE stale
  /\ seed' = [seed EXCEPT ![w] = NoObject]
  /\ UNCHANGED <<authority, ops, run, asks, phase, use, directory, repo, bounds, torn, late, slipped, unpublished>>

\* runtimeAccess to write, and the write itself some calls later.
Admit(w) ==
  /\ use[w] = "idle" /\ Writable(obj[w])
  /\ use' = [use EXCEPT ![w] = "admitted"]
  /\ UNCHANGED <<authority, ops, run, asks, obj, seed, phase, directory, repo, bounds, history>>

\* getRuntime: the runtime's own alarm and the project agent's start are checked to read only.
Open(w) ==
  /\ use[w] = "idle" /\ Available(obj[w])
  /\ use' = [use EXCEPT ![w] = "admitted"]
  /\ UNCHANGED <<authority, ops, run, asks, obj, seed, phase, directory, repo, bounds, history>>

Work(w) ==
  /\ use[w] = "admitted"
  /\ use' = [use EXCEPT ![w] = "working"]
  /\ slipped' = IF Writable(obj[w]) THEN slipped ELSE slipped \cup {w}
  /\ UNCHANGED <<authority, ops, run, asks, obj, seed, phase, directory, repo, bounds,
                 torn, late, stale, unpublished>>

Rest(w) ==
  /\ use[w] # "idle"
  /\ use' = [use EXCEPT ![w] = "idle"] /\ slipped' = slipped \ {w}
  /\ UNCHANGED <<authority, ops, run, asks, obj, seed, phase, directory, repo, bounds,
                 torn, late, stale, unpublished>>

\* setWorkspacePhase: it keeps what it read, asks the project for the dependencies,
\* writes all of what it kept, has the project record the phase and adopts the answer.
PhaseBegin(w) ==
  /\ edits < MaxEdits /\ edits' = edits + 1
  /\ phase[w] = NoPhase /\ Available(obj[w]) /\ obj[w].plife # "archived"
  /\ phase' = [phase EXCEPT ![w] = [pc |-> "write", cur |-> obj[w]]]
  /\ UNCHANGED <<authority, ops, run, asks, obj, seed, use, directory, repo, faults, history>>

PhaseWrite(w) ==
  /\ phase[w].pc = "write"
  /\ obj' = [obj EXCEPT ![w] = phase[w].cur]
  /\ stale' = IF obj[w] = phase[w].cur THEN stale ELSE stale \cup {w}
  /\ phase' = [phase EXCEPT ![w].pc = "record"]
  /\ UNCHANGED <<authority, ops, run, asks, seed, use, directory, repo, bounds, torn, late, slipped, unpublished>>

\* commitWorkspaceChange: a phase the project already lists returns the row as it is.
PhaseRecord(w) ==
  /\ phase[w].pc = "record"
  /\ IF Present(w)
     THEN /\ rows' \in {rows, Put(w, rows[w].life)}
          /\ phase' = [phase EXCEPT ![w] = [pc |-> "adopt",
                                           cur |-> [NoObject EXCEPT !.life = rows[w].life, !.rev = rows'[w].rev]]]
     ELSE phase' = [phase EXCEPT ![w] = NoPhase] /\ UNCHANGED rows
  /\ UNCHANGED <<project, gone, ops, run, asks, obj, seed, use, directory, repo, bounds, history>>

PhaseAdopt(w) ==
  /\ phase[w].pc = "adopt"
  /\ obj' = [obj EXCEPT ![w] = AdoptRow(@, phase[w].cur)]
  /\ stale' = IF obj'[w].life = obj[w].life THEN stale ELSE stale \cup {w}
  /\ phase' = [phase EXCEPT ![w] = NoPhase]
  /\ UNCHANGED <<authority, ops, run, asks, seed, use, directory, repo, bounds, torn, late, slipped, unpublished>>

-----------------------------------------------------------------------------
(* The alarm's run of one operation. *)

Kind    == ops[run.op].kind
Target  == ops[run.op].ws
At(pc)  == run.op # 0 /\ run.pc = pc /\ UNCHANGED <<asks, seed, phase, puts, bounds>>
Go(pc)  == run' = [run EXCEPT !.pc = pc] /\ UNCHANGED ops
End(st) == ops' = [ops EXCEPT ![run.op].st = st] /\ run' = NoRun
Stopped(w) == [use EXCEPT ![w] = IF @ = "working" THEN "idle" ELSE @]
Settled(w) == IF use[w] = "working" THEN slipped \ {w} ELSE slipped

\* Mutant: only a queued operation is looked for.
BeginQueued ==
  /\ run.op = 0 /\ \E i \in DOMAIN ops : ops[i].st = "queued"
  /\ LET o == CHOOSE i \in DOMAIN ops : ops[i].st = "queued" /\ \A j \in 1..(i - 1) : ops[j].st # "queued"
     IN  /\ ops' = [ops EXCEPT ![o].st = "running"]
         /\ run' = [NoRun EXCEPT !.op = o,
                     !.pc = IF ops[o].kind \in ProjectKinds THEN "begin" ELSE "read"]
  /\ UNCHANGED <<authority, asks, obj, seed, phase, use, directory, repo, bounds, history>>

\* alarm and runQueuedOperation: the oldest operation still to run, from its first step.
Begin ==
  /\ run.op = 0 /\ LiveOps # {}
  /\ LET o == CHOOSE i \in LiveOps : \A j \in LiveOps : i <= j
     IN  /\ ops' = [ops EXCEPT ![o].st = "running"]
         /\ run' = [NoRun EXCEPT !.op = o,
                     !.pc = IF ops[o].kind \in ProjectKinds THEN "begin" ELSE "read"]
  /\ UNCHANGED <<authority, asks, obj, seed, phase, use, directory, repo, bounds, history>>

Finish ==
  /\ At("end") /\ End("succeeded")
  /\ UNCHANGED <<authority, obj, use, index, located, repo, history>>

\* The first reads of each runner of a workspace.
Read ==
  /\ At("read")
  /\ LET def == rows[Target]
     IN  CASE Kind = "create" /\ def.life = "provisioning" ->
                /\ run' = [run EXCEPT !.def = def, !.proj = project,
                                      !.pc = IF project.life = "active" THEN "source" ELSE "mark"]
                /\ UNCHANGED ops
           [] Kind = "archive" /\ def.life \notin {"none", "archived"} ->
                run' = [run EXCEPT !.def = def, !.pc = "apply"] /\ UNCHANGED ops
           [] Kind = "archive" /\ def.life = "archived" -> Go("end")
           [] Kind = "restore" /\ def.life = "archived" ->
                run' = [run EXCEPT !.def = def, !.pc = "apply"] /\ UNCHANGED ops
           [] Kind = "restore" /\ def.life = "active" -> Go("end")
           [] Kind = "delete" ->
                /\ run' = [run EXCEPT !.def = def, !.pc = IF def.life = "none" THEN "unrepo" ELSE "apply"]
                /\ UNCHANGED ops
           [] OTHER -> End("failed")
  /\ UNCHANGED <<authority, obj, use, index, located, repo, history>>

\* runWorkspaceCreation: the source commit is recorded.
Source ==
  /\ At("source")
  /\ IF CanPut(Target, run.def.rev)
     THEN /\ rows' = Put(Target, "provisioning")
          /\ run' = [run EXCEPT !.def = rows'[Target], !.pc = "fork"] /\ UNCHANGED ops
     ELSE Go("mark") /\ UNCHANGED rows
  /\ UNCHANGED <<project, gone, obj, use, index, located, repo, history>>

Fork ==
  /\ At("fork") /\ Go("activate")
  /\ repo' = repo \cup {Target}
  /\ UNCHANGED <<authority, obj, use, index, located, history>>

Activate ==
  /\ At("activate")
  /\ IF CanPut(Target, run.def.rev)
     THEN /\ rows' = Put(Target, "active") /\ torn' = torn \cup {Target}
          /\ run' = [run EXCEPT !.def = rows'[Target], !.pc = "seed"] /\ UNCHANGED ops
     ELSE Go("mark") /\ UNCHANGED <<rows, torn>>
  /\ UNCHANGED <<project, gone, obj, use, index, located, repo, late, stale, slipped, unpublished>>

SeedWorkspace ==
  /\ At("seed") /\ Go("end")
  /\ obj' = [obj EXCEPT ![Target] = Adopt(@, run.def, run.proj)] /\ torn' = torn \ {Target}
  /\ UNCHANGED <<authority, use, index, located, repo, late, stale, slipped, unpublished>>

\* markCreationFailed; a refused write is only logged.
MarkFailed ==
  /\ At("mark") /\ End("failed")
  /\ rows' = IF rows[Target].life = "provisioning" /\ CanPut(Target, rows[Target].rev)
             THEN Put(Target, "failed") ELSE rows
  /\ UNCHANGED <<project, gone, obj, use, index, located, repo, history>>

\* What the workspace object refuses, once it has adopted the definition.
Refuses(kind, o) ==
  \/ kind = "archive" /\ (o.plife \in {"archived", "deleting"} \/ o.life \notin {"active", "failed", "archived"})
  \/ kind = "restore" /\ (o.plife # "active" \/ o.life \notin {"archived", "active"})

\* Mutant: the lifecycle on the way is recorded, not the one reached.
OutcomeOnTheWay(kind) == CASE kind = "archive" -> "archiving" [] kind = "restore" -> "active" [] kind = "delete" -> "deleting"

\* The lifecycle each operation leaves the workspace in.
Outcome(kind) == CASE kind = "archive" -> "archived" [] kind = "restore" -> "active" [] kind = "delete" -> "deleting"

\* archiveWorkspace, restoreWorkspace, deleteWorkspace: the object changes itself first.
Apply ==
  /\ At("apply") /\ Seeded(Target)
  /\ LET adopted == AdoptRow(obj[Target], run.def)
         applied == [adopted EXCEPT !.life = Outcome(Kind)]
     IN  IF Refuses(Kind, adopted)
         THEN obj' = [obj EXCEPT ![Target] = adopted] /\ End("failed") /\ UNCHANGED torn
         ELSE /\ obj' = [obj EXCEPT ![Target] = applied] /\ torn' = torn \cup {Target}
              /\ run' = [run EXCEPT !.tomb = applied, !.pc = IF Kind = "restore" THEN "record" ELSE "stop"]
              /\ UNCHANGED ops
  /\ UNCHANGED <<authority, use, index, located, repo, late, stale, slipped, unpublished>>

\* stopRuntime for an archive; the rest of erase, which writes the tombstone again, for a deletion.
Stop ==
  /\ At("stop") /\ Go("record")
  /\ use' = Stopped(Target) /\ slipped' = Settled(Target)
  /\ obj' = IF Kind = "delete" THEN [obj EXCEPT ![Target] = run.tomb] ELSE obj
  /\ UNCHANGED <<authority, index, located, repo, torn, late, stale, unpublished>>

\* recordLifecycle: the project records what the object has applied.
Record ==
  /\ At("record")
  /\ IF Present(Target)
     THEN /\ rows' = Commit(Target, Outcome(Kind))
          /\ run' = [run EXCEPT !.def = rows'[Target], !.pc = "adopt"] /\ UNCHANGED ops
     ELSE End("failed") /\ UNCHANGED rows
  /\ UNCHANGED <<project, gone, obj, use, index, located, repo, history>>

Adopted ==
  /\ At("adopt") /\ Go(IF Kind = "delete" THEN "unrepo" ELSE "end")
  /\ obj' = [obj EXCEPT ![Target] = AdoptRow(@, run.def)] /\ torn' = torn \ {Target}
  /\ UNCHANGED <<authority, use, index, located, repo, late, stale, slipped, unpublished>>

\* runWorkspaceDelete: the repository, the definition and the location.
Unrepo ==
  /\ At("unrepo") /\ Go(IF run.def.life = "none" THEN "unlocate" ELSE "remove")
  /\ repo' = repo \ {Target}
  /\ UNCHANGED <<authority, obj, use, index, located, history>>

RemoveRow ==
  /\ At("remove") /\ Go("unlocate")
  /\ rows' = [rows EXCEPT ![Target] = NoRow]
  /\ gone' = IF Present(Target) THEN gone \cup {Target} ELSE gone
  /\ UNCHANGED <<project, obj, use, index, located, repo, history>>

Unlocate ==
  /\ At("unlocate") /\ Go("end")
  /\ located' = located \ {Target}
  /\ UNCHANGED <<authority, obj, use, index, repo, history>>

\* The project runners: the project is read, then marked, then its workspaces are listed.
BeginProject ==
  /\ At("begin")
  /\ IF project.life = "deleting" /\ Kind # "pdelete"
     THEN End("failed")
     ELSE run' = [run EXCEPT !.proj = project, !.pc = IF Kind = "pdelete" THEN "list" ELSE "set"] /\ UNCHANGED ops
  /\ UNCHANGED <<authority, obj, use, index, located, repo, history>>

\* Mutant: a project deletion lists only the workspaces in use.
ListInUse ==
  /\ At("list")
  /\ run' = [run EXCEPT !.pc = "each",
                        !.todo = {w \in Workspaces : rows[w].life \notin {"none", "archived", "deleting"}}]
  /\ UNCHANGED <<authority, ops, obj, use, index, located, repo, history>>

SetProject ==
  /\ At("set")
  /\ IF CanSet(run.proj.rev)
     THEN /\ project' = SetTo(IF Kind = "parchive" THEN "archiving" ELSE "restoring")
          /\ run' = [run EXCEPT !.proj = project', !.pc = "list"] /\ UNCHANGED ops
     ELSE End("failed") /\ UNCHANGED project
  /\ UNCHANGED <<rows, gone, obj, use, index, located, repo, history>>

List ==
  /\ At("list")
  /\ run' = [run EXCEPT !.pc = "each",
                        !.todo = {w \in Workspaces : Present(w) /\ (Kind = "pdelete" \/ rows[w].life # "deleting")}]
  /\ UNCHANGED <<authority, ops, obj, use, index, located, repo, history>>

\* Mutant: a push at the revision already held is taken for an old one.
PushNewer(o, proj) ==
  IF proj.rev <= o.prev THEN o ELSE [o EXCEPT !.plife = proj.life, !.prev = proj.rev]

\* applyProjectLifecycle: what the project decided at its revision, unless the object holds newer.
Push(o, proj) ==
  IF proj.rev < o.prev THEN o ELSE [o EXCEPT !.plife = proj.life, !.prev = proj.rev]

\* applyProjectLifecycle or runtimeErase of one workspace, up to its stop.
Each(w) ==
  /\ At("each") /\ w \in run.todo /\ Seeded(w)
  /\ LET pushed == IF Kind = "pdelete" THEN [obj[w] EXCEPT !.plife = "deleting"]
                   ELSE Push(obj[w], [life |-> IF Kind = "parchive" THEN "archived" ELSE "active",
                                      rev |-> run.proj.rev])
     IN  /\ obj' = [obj EXCEPT ![w] = pushed]
         /\ IF Kind = "prestore" \/ (Kind = "parchive" /\ run.proj.rev < obj[w].prev)
            THEN run' = [run EXCEPT !.todo = @ \ {w}]
            ELSE run' = [run EXCEPT !.pc = "eachstop", !.cur = w, !.tomb = pushed, !.todo = @ \ {w}]
  /\ UNCHANGED <<authority, ops, use, index, located, repo, history>>

\* stopRuntime, or the rest of erase and the deletion of the repository.
EachStop ==
  /\ At("eachstop")
  /\ run' = [run EXCEPT !.pc = "each", !.cur = "project", !.tomb = NoObject]
  /\ use' = Stopped(run.cur) /\ slipped' = Settled(run.cur)
  /\ IF Kind = "pdelete"
     THEN obj' = [obj EXCEPT ![run.cur] = run.tomb] /\ repo' = repo \ {run.cur}
     ELSE UNCHANGED <<obj, repo>>
  /\ UNCHANGED <<authority, ops, index, located, torn, late, stale, unpublished>>

Reached ==
  /\ At("each") /\ run.todo = {} /\ Go(IF Kind = "pdelete" THEN "tomb" ELSE "settle")
  /\ UNCHANGED <<authority, obj, use, index, located, repo, history>>

Settle ==
  /\ At("settle")
  /\ IF CanSet(run.proj.rev)
     THEN /\ project' = SetTo(IF Kind = "parchive" THEN "archived" ELSE "active")
          /\ run' = [run EXCEPT !.proj = project', !.pc = "publish"] /\ UNCHANGED ops
          /\ unpublished' = TRUE
     ELSE End("failed") /\ UNCHANGED <<project, unpublished>>
  /\ UNCHANGED <<rows, gone, obj, use, index, located, repo, torn, late, stale, slipped>>

Publish ==
  /\ At("publish") /\ Go("end")
  /\ index' = IndexPut(run.proj) /\ unpublished' = FALSE
  /\ UNCHANGED <<authority, obj, use, located, repo, torn, late, stale, slipped>>

\* deleteProject: the definitions go with the tombstone; a repeat finds it and goes on.
DeleteProject ==
  /\ At("tomb")
  /\ IF project.life = "deleting" \/ CanSet(run.proj.rev)
     THEN /\ project' = IF project.life = "deleting" THEN project ELSE SetTo("deleting")
          /\ rows' = IF project.life = "deleting" THEN rows ELSE [w \in Workspaces |-> NoRow]
          /\ Go("unindex")
     ELSE End("failed") /\ UNCHANGED <<project, rows>>
  /\ UNCHANGED <<gone, obj, use, index, located, repo, history>>

\* UserProjects.remove, with the locations of the project's workspaces.
Unindex ==
  /\ At("unindex") /\ Go("end")
  /\ index' = NoRow /\ located' = {}
  /\ UNCHANGED <<authority, obj, use, repo, history>>

\* A call fails, or its answer is lost after it took effect.
RunFails ==
  /\ run.op # 0 /\ faults < MaxFaults /\ faults' = faults + 1
  /\ IF run.pc \in {"source", "fork", "activate", "seed"} THEN Go("mark") ELSE End("failed")
  /\ UNCHANGED <<authority, asks, obj, seed, phase, use, directory, repo, edits, history>>

\* A release or a reset cuts the run off; the operation stays "running".
RunCut ==
  /\ run.op # 0 /\ faults < MaxFaults /\ faults' = faults + 1
  /\ run' = NoRun
  /\ UNCHANGED <<authority, ops, asks, obj, seed, phase, use, directory, repo, edits, history>>

-----------------------------------------------------------------------------
Requests ==
  \/ \E w \in Workspaces : AskCreate(w) \/ AskRetry(w)
  \/ \E w \in Workspaces, kind \in WorkspaceKinds : AskWorkspace(kind, w)
  \/ \E kind \in ProjectKinds : AskProject(kind)
  \/ \E i \in DOMAIN ops : AskAgain(i)
  \/ \E k \in DOMAIN asks : AskLost(k)
  \/ Move

Calls ==
  \/ \E k \in DOMAIN asks : AskPut(k) \/ AskLocate(k) \/ AskCheck(k) \/ AskAppend(k)
  \/ \E s \in puts : Published(s)

ObjectCalls ==
  \E w \in Workspaces : SeedRead(w) \/ SeedWrite(w) \/ PhaseWrite(w) \/ PhaseRecord(w) \/ PhaseAdopt(w)

Users == \E w \in Workspaces : Admit(w) \/ Open(w) \/ Work(w) \/ Rest(w) \/ PhaseBegin(w)

Runner ==
  \/ Begin \/ Finish \/ Read \/ Source \/ Fork \/ Activate \/ SeedWorkspace \/ MarkFailed
  \/ Apply \/ Stop \/ Record \/ Adopted \/ Unrepo \/ RemoveRow \/ Unlocate
  \/ BeginProject \/ SetProject \/ List \/ (\E w \in Workspaces : Each(w)) \/ EachStop \/ Reached
  \/ Settle \/ Publish \/ DeleteProject \/ Unindex

Next == Requests \/ Calls \/ ObjectCalls \/ Users \/ Runner \/ RunFails \/ RunCut

Spec == Init /\ [][Next]_vars

\* The alarm is retried until its handler has run; a call that was sent is carried out.
Fairness ==
  /\ WF_vars(Runner)
  /\ \A w \in Workspaces : WF_vars(SeedRead(w)) /\ WF_vars(SeedWrite(w))

FairSpec == Spec /\ Fairness

-----------------------------------------------------------------------------
Sound(w) == w \notin torn \cup stale

\* Archived means quiet: once the project lists a workspace as archived, or is archived
\* itself, that workspace's own object refuses writes and nothing runs in it, whatever
\* requests, lazy seeds and retries raced with the archive.  Excepted are a workspace the
\* object and the project have not yet agreed on (torn), one a phase change wrote over,
\* one recorded after the project archive listed its workspaces, and work that began
\* once it had closed: a write admitted just before, or a call that is only checked to
\* read.
ArchivedQuiet ==
  \A w \in Workspaces :
    /\ Sound(w)
    /\ \/ rows[w].life = "archived"
       \/ project.life = "archived" /\ Present(w) /\ w \notin late
    => /\ ~Writable(obj[w])
       /\ use[w] = "working" => w \in slipped

\* A deleted workspace, and every workspace of a deleted project, stays unavailable: no
\* seed in flight, retry or cut-off run brings its object back.
DeletedUnavailable ==
  \A w \in Workspaces :
    /\ w \notin stale \cup late
    /\ w \in gone \/ project.life = "deleting"
    => ~Available(obj[w]) /\ (use[w] = "working" => w \in slipped)

\* The copies of a lifecycle agree: the project's listing and the workspace's own record
\* whenever no change is between its two writes, the directory and the project once
\* nothing is on its way there, in whatever order the summaries arrived.
Agreement ==
  /\ \A w \in Workspaces :
       Sound(w) /\ Seeded(w) /\ rows[w].life \in {"active", "archived"} => obj[w].life = rows[w].life
  /\ puts = {} /\ ~unpublished /\ project.life \in {"active", "archived"} => index = project

\* Every operation that was queued is run to its end, cut off or not.
QueueDrains == \A i \in 1..MaxOps : i \in LiveOps ~> i \in DOMAIN ops /\ ~Live(i)

\* "a stale read never undoes a change this workspace already applied to itself"
\* (workspace-metadata.ts:59): an object never goes back to an earlier project revision.
NeverUndone == [][\A w \in Workspaces : obj'[w].prev >= obj[w].prev]_vars
=============================================================================
