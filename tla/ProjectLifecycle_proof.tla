------------------------ MODULE ProjectLifecycle_proof ------------------------
(***************************************************************************)
(* Proofs about the lifecycle of a project and its workspaces, for any     *)
(* number of workspaces, operations, faults and edits.                     *)
(***************************************************************************)
EXTENDS ProjectLifecycle, WellFoundedInduction, SequenceTheorems, TLAPS

OpStates == {"queued", "running", "succeeded", "failed"}
Jobs == [kind : WorkspaceKinds \cup ProjectKinds, ws : Workspaces \cup {"project"}, st : OpStates]
Asked == [kind : WorkspaceKinds \cup ProjectKinds, ws : Workspaces \cup {"project"},
          pc : {"put", "locate", "check", "append"}, rev : Nat]
Positions == {"idle", "read", "source", "fork", "activate", "seed", "mark", "apply", "stop", "record",
              "adopt", "unrepo", "remove", "unlocate", "begin", "set", "list", "each", "eachstop",
              "settle", "publish", "tomb", "unindex", "end"}
Runs == [op : 0..MaxOps, pc : Positions, def : Records, proj : Summaries, todo : SUBSET Workspaces,
         cur : Workspaces \cup {"project"}, tomb : Objects]
PhaseType == [pc : {"idle", "write", "record", "adopt"}, cur : Objects]

\* TypeOK, by the types of its parts.
Typed ==
  /\ project \in Summaries /\ rows \in [Workspaces -> Records]
  /\ gone \subseteq Workspaces /\ located \subseteq Workspaces /\ repo \subseteq Workspaces
  /\ ops \in Seq(Jobs) /\ asks \in Seq(Asked) /\ run \in Runs
  /\ obj \in [Workspaces -> Objects] /\ seed \in [Workspaces -> Objects]
  /\ phase \in [Workspaces -> PhaseType]
  /\ use \in [Workspaces -> {"idle", "admitted", "working"}]
  /\ index \in Summaries /\ puts \subseteq Summaries
  /\ faults \in 0..MaxFaults /\ edits \in 0..MaxEdits
  /\ torn \subseteq Workspaces /\ late \subseteq Workspaces /\ stale \subseteq Workspaces
  /\ slipped \subseteq Workspaces
  /\ unpublished \in BOOLEAN

\* An operation of a workspace names it; only a creation makes calls before it is queued.
Queue ==
  /\ Len(ops) + Len(asks) <= MaxOps
  /\ \A i \in DOMAIN ops : ops[i].ws \in Workspaces <=> ops[i].kind \in WorkspaceKinds
  /\ \A k \in DOMAIN asks : asks[k].ws \in Workspaces <=> asks[k].kind \in WorkspaceKinds
  /\ \A k \in DOMAIN asks : asks[k].pc # "append" => asks[k].kind = "create"
  /\ run.op # 0 => run.op \in DOMAIN ops
  /\ run.op = 0 <=> run.pc = "idle"

\* The positions of each runner.
Runners ==
  /\ run.pc \in {"source", "fork", "activate", "seed", "mark"} => Kind = "create"
  /\ run.pc = "read" => Kind \in WorkspaceKinds
  /\ run.pc \in {"apply", "record", "adopt"} => Kind \in {"archive", "restore", "delete"}
  /\ run.pc = "stop" => Kind \in {"archive", "delete"}
  /\ run.pc \in {"unrepo", "remove", "unlocate"} => Kind = "delete"
  /\ run.pc \in {"begin", "list", "each"} => Kind \in ProjectKinds
  /\ run.pc \in {"set", "settle", "publish"} => Kind \in {"parchive", "prestore"}
  /\ run.pc \in {"tomb", "unindex"} => Kind = "pdelete"
  /\ run.pc = "eachstop" => Kind \in {"parchive", "pdelete"} /\ run.cur \in Workspaces

TInv == Typed /\ Queue /\ Runners

Quiet(w) == use[w] = "working" => w \in slipped
Shut(o) == o.plife \in {"archived", "deleting"}

\* Revisions only grow: what a copy holds of a definition or of the project is no newer
\* than the original.
Revisions ==
  /\ \A w \in Workspaces :
       /\ rows[w].rev = 0 <=> rows[w].life = "none"
       /\ Present(w) => /\ obj[w].rev <= rows[w].rev /\ seed[w].rev <= rows[w].rev
                        /\ phase[w].pc \in {"write", "adopt"} => phase[w].cur.rev <= rows[w].rev
       /\ obj[w].prev <= project.rev /\ seed[w].prev <= project.rev
       /\ phase[w].pc = "write" => phase[w].cur.prev <= project.rev
  /\ run.proj.rev <= project.rev
  /\ run.pc \in {"stop", "eachstop"} => run.tomb.prev <= project.rev
  /\ run.pc \in {"apply", "seed", "adopt"} => run.def.rev <= rows[Target].rev
  /\ run.pc = "stop" => run.tomb.rev <= rows[Target].rev
  /\ run.pc = "eachstop" => run.tomb.rev <= rows[run.cur].rev

\* Definitions come once: a workspace that has none was never recorded or is deleted.
Identities ==
  /\ \A w \in Workspaces :
       /\ w \in gone \/ project.life = "deleting" => ~Present(w)
       /\ ~Present(w) /\ w \notin gone /\ project.life # "deleting" =>
            obj[w] = NoObject /\ seed[w] = NoObject /\ use[w] = "idle"
       /\ ~Seeded(w) => obj[w] = NoObject /\ phase[w] = NoPhase
       /\ seed[w] # NoObject => seed[w].life # "none"
       /\ phase[w].pc \in {"write", "adopt"} => phase[w].cur.life # "none"
       /\ phase[w].pc = "idle" => phase[w] = NoPhase
  /\ \A k \in DOMAIN asks : asks[k].pc = "put" =>
       LET w == asks[k].ws
       IN  IF Present(w) THEN /\ asks[k].rev <= rows[w].rev
                              /\ asks[k].rev = rows[w].rev => rows[w].life = "failed"
           ELSE w \in gone \/ project.life = "deleting" \/ asks[k].rev = 0

\* A read of the project that is still in flight when the object has its metadata is no
\* news to it, but for edits of a project in use.
Seeds ==
  \A w \in Workspaces : seed[w] # NoObject /\ w \notin stale =>
    /\ Seeded(w) => /\ seed[w].rev <= obj[w].rev
                    /\ seed[w].prev > obj[w].prev =>
                         seed[w].plife = "active" /\ obj[w].plife # "archived"
    /\ ~Seeded(w) /\ w \notin torn /\ rows[w].life \in {"active", "archived"} =>
         seed[w].life = rows[w].life
    /\ \/ run.pc = "stop" /\ Target = w
       \/ run.pc = "eachstop" /\ run.cur = w /\ Kind = "pdelete"
       => /\ seed[w].rev <= run.tomb.rev
          /\ seed[w].prev > run.tomb.prev => seed[w].plife = "active" /\ run.tomb.plife # "archived"

\* Unless a change is between its two writes, the object's lifecycle is the project's;
\* a deletion is recorded after the object has applied it.
Lives ==
  \A w \in Workspaces : w \notin stale =>
    /\ w \notin torn /\ Seeded(w) /\ rows[w].life \in {"active", "archived"} =>
         obj[w].life = rows[w].life
    /\ w \notin torn /\ rows[w].life = "archived" => Quiet(w)
    /\ rows[w].life = "deleting" \/ w \in gone => obj[w].life = "deleting" /\ Quiet(w)

\* A creation.
Creating ==
  /\ run.pc \in {"source", "fork", "activate", "seed"} =>
       /\ project.life = "active" /\ run.proj.life = "active"
       /\ seed[Target] # NoObject /\ seed[Target].prev > run.proj.rev => seed[Target].plife = "active"
  /\ run.pc \in {"source", "fork", "activate"} => rows[Target].life = "provisioning"
  /\ run.pc = "seed" =>
       /\ rows[Target].life = "active" /\ run.def.life = "active"
       /\ ~Seeded(Target) => run.def.rev = rows[Target].rev
       /\ seed[Target] # NoObject /\ seed[Target].rev >= run.def.rev => seed[Target].life = "active"
       /\ phase[Target].pc = "adopt" /\ phase[Target].cur.rev >= run.def.rev =>
            phase[Target].cur.life = "active"
       /\ Target \notin stale /\ Seeded(Target) /\ obj[Target].rev >= run.def.rev =>
            obj[Target].life = "active"

\* A change of a workspace: the object first, then the runtime, then the definition.
Changing ==
  /\ run.pc = "apply" =>
       /\ Present(Target) /\ run.def.life # "none"
       /\ rows[Target].life \in {"active", "archived", "deleting"} => run.def.life = rows[Target].life
  /\ run.pc \in {"stop", "record", "adopt"} =>
       /\ Present(Target) /\ Target \in torn /\ Seeded(Target)
       /\ Target \notin stale => obj[Target].life = Outcome(Kind)
  /\ run.pc = "stop" =>
       /\ run.tomb.life = Outcome(Kind)
       /\ Target \notin stale /\ Shut(obj[Target]) => Shut(run.tomb)
  /\ run.pc \in {"record", "adopt"} /\ Kind # "restore" /\ Target \notin stale => Quiet(Target)
  /\ run.pc = "adopt" => rows[Target].life = Outcome(Kind) /\ run.def.life = Outcome(Kind)
  /\ run.pc = "remove" \/ (run.pc = "unrepo" /\ run.def.life # "none") => rows[Target].life = "deleting"

Reaching == run.pc \in {"each", "eachstop", "settle", "tomb"}
Passed(w) == /\ Present(w) /\ w \notin run.todo \cup late \cup stale
             /\ run.pc = "eachstop" => w # run.cur

\* A change of the project reaches every workspace it listed before it is recorded.
Pushing ==
  /\ run.pc \in {"list", "each", "eachstop", "settle"} /\ Kind # "pdelete" =>
       run.proj = project /\ project.life \in {"archiving", "restoring"}
  /\ run.pc \in {"settle", "tomb"} => run.todo = {}
  /\ Reaching => \A w \in run.todo : Present(w)
  /\ Reaching /\ Kind = "parchive" => \A w \in Workspaces : Passed(w) =>
       Seeded(w) /\ (Shut(obj[w]) \/ rows[w].life = "deleting") /\ Quiet(w)
  /\ Reaching /\ Kind = "pdelete" => \A w \in Workspaces : Passed(w) =>
       Seeded(w) /\ obj[w].plife = "deleting" /\ Quiet(w)
  /\ run.pc = "eachstop" =>
       /\ Present(run.cur) /\ Seeded(run.cur) /\ run.cur \notin run.todo
       /\ run.cur \notin stale => Shut(obj[run.cur])
       /\ Kind = "pdelete" => /\ run.tomb.plife = "deleting" /\ run.tomb.life # "none"
                              /\ run.cur \notin stale => /\ obj[run.cur].plife = "deleting"
                                                         /\ run.tomb.life = obj[run.cur].life

\* What an archived and a deleted project leave.
Closed ==
  \A w \in Workspaces : w \notin late \cup stale =>
    /\ project.life = "archived" /\ Present(w) =>
         Seeded(w) /\ (Shut(obj[w]) \/ rows[w].life = "deleting") /\ Quiet(w)
    /\ project.life = "deleting" /\ w \notin gone =>
         \/ Seeded(w) /\ obj[w].plife = "deleting" /\ Quiet(w)
         \/ ~Seeded(w) /\ seed[w] = NoObject /\ use[w] = "idle"

\* The directory has the project's summary, or it is on its way.
Listing ==
  /\ project.life # "none" /\ \A s \in puts : s.life # "none"
  /\ project.life # "deleting" => index.life # "none"
  /\ index.rev <= project.rev
  /\ \A s \in puts : s.rev <= project.rev /\ (s.rev = project.rev => s = project)
  /\ ~unpublished /\ project.life \in {"active", "archived"} => index = project \/ project \in puts
  /\ run.pc = "unindex" => project.life = "deleting"
  /\ run.pc = "publish" =>
       /\ run.proj.life # "none" /\ (run.proj.rev = project.rev => run.proj = project)
       /\ project.life \in {"active", "archived"} =>
            run.proj = project \/ project \in puts \/ index = project

IInv == /\ TInv /\ Revisions /\ Identities /\ Seeds /\ Lives
        /\ Creating /\ Changing /\ Pushing /\ Closed /\ Listing

\* A step that leaves the run where nothing depends on it, and all else alone.
Rests ==
  /\ \/ run'.pc \in {"idle", "read", "mark", "end", "unlocate", "begin", "set"}
     \/ run'.pc = "unrepo" /\ run'.def.life = "none"
  /\ run'.proj \in {run.proj, project, NoRow}
  /\ UNCHANGED <<project, rows, gone, asks, obj, seed, phase, use, index, puts, history>>

-----------------------------------------------------------------------------
(* Types. *)

\* The constants.
LEMMA Sizes ==
  /\ "project" \notin Workspaces /\ MaxOps \in Nat /\ MaxFaults \in Nat /\ MaxEdits \in Nat
  /\ 0 \in 0..MaxOps /\ 0 \in 0..MaxFaults /\ 0 \in 0..MaxEdits
  /\ WorkspaceKinds \cap ProjectKinds = {}
BY LifecycleAssumption DEF WorkspaceKinds, ProjectKinds

\* What stands for a definition, metadata, a change of phase and a run that is not there.
LEMMA Blank ==
  /\ NoRow \in Records /\ NoRow \in Summaries /\ NoRow.life = "none" /\ NoRow.rev = 0
  /\ NoObject \in Objects /\ NoObject.life = "none" /\ NoObject.rev = 0
  /\ NoObject.plife = "none" /\ NoObject.prev = 0
  /\ NoPhase \in PhaseType /\ NoPhase.pc = "idle" /\ NoPhase.cur = NoObject
  /\ NoRun \in Runs /\ NoRun.op = 0 /\ NoRun.pc = "idle" /\ NoRun.def = NoRow /\ NoRun.proj = NoRow
  /\ NoRun.todo = {} /\ NoRun.cur = "project" /\ NoRun.tomb = NoObject
<1>1. NoRow \in Records /\ NoRow \in Summaries /\ NoRow.life = "none" /\ NoRow.rev = 0
  BY DEF NoRow, Records, Summaries, RowLives, ProjectLives
<1>2. /\ NoObject \in Objects /\ NoObject.life = "none" /\ NoObject.rev = 0
      /\ NoObject.plife = "none" /\ NoObject.prev = 0
  BY DEF NoObject, Objects, RowLives, ProjectLives
<1>3. NoPhase \in PhaseType /\ NoPhase.pc = "idle" /\ NoPhase.cur = NoObject
  BY <1>2 DEF NoPhase, PhaseType
<1>4. /\ NoRun \in Runs /\ NoRun.op = 0 /\ NoRun.pc = "idle" /\ NoRun.def = NoRow /\ NoRun.proj = NoRow
      /\ NoRun.todo = {} /\ NoRun.cur = "project" /\ NoRun.tomb = NoObject
  BY <1>1, <1>2, Sizes DEF NoRun, Runs, Positions
<1> QED
  BY <1>1, <1>2, <1>3, <1>4

\* The types and the bound on the queue are what TypeOK says.
LEMMA TypedTypeOK == TInv => TypeOK
<1> SUFFICES ASSUME TInv PROVE TypeOK
  OBVIOUS
<1>1. ops \in Seq(Jobs) /\ asks \in Seq(Asked) /\ Len(ops) <= MaxOps
  <2>1. ops \in Seq(Jobs) /\ asks \in Seq(Asked) /\ Len(ops) + Len(asks) <= MaxOps
    BY DEF TInv, Typed, Queue
  <2>2. Len(ops) \in Nat /\ Len(asks) \in Nat
    BY <2>1
  <2> QED
    BY <2>1, <2>2, Sizes
<1> QED
  BY <1>1 DEF TypeOK, TInv, Typed, Jobs, OpStates, Asked, Runs, Positions, PhaseType

\* The fields of the records.
LEMMA Fields ==
  ASSUME TInv
  PROVE  /\ project.life \in ProjectLives /\ project.rev \in Nat
         /\ index.life \in ProjectLives /\ index.rev \in Nat
         /\ \A s \in puts : s.life \in ProjectLives /\ s.rev \in Nat
         /\ \A w \in Workspaces :
              /\ rows[w].life \in RowLives /\ rows[w].rev \in Nat
              /\ obj[w].life \in RowLives /\ obj[w].rev \in Nat
              /\ obj[w].plife \in ProjectLives /\ obj[w].prev \in Nat
              /\ seed[w].life \in RowLives /\ seed[w].rev \in Nat
              /\ seed[w].plife \in ProjectLives /\ seed[w].prev \in Nat
              /\ phase[w].pc \in {"idle", "write", "record", "adopt"}
              /\ phase[w].cur.life \in RowLives /\ phase[w].cur.rev \in Nat
              /\ phase[w].cur.plife \in ProjectLives /\ phase[w].cur.prev \in Nat
              /\ use[w] \in {"idle", "admitted", "working"}
         /\ run.op \in 0..MaxOps /\ run.pc \in Positions
         /\ run.def.life \in RowLives /\ run.def.rev \in Nat
         /\ run.proj.life \in ProjectLives /\ run.proj.rev \in Nat
         /\ run.tomb.life \in RowLives /\ run.tomb.rev \in Nat
         /\ run.tomb.plife \in ProjectLives /\ run.tomb.prev \in Nat
         /\ run.todo \subseteq Workspaces /\ run.cur \in Workspaces \cup {"project"}
BY DEF TInv, Typed, Summaries, Records, Objects, PhaseType, Runs

\* Fields of a definition or metadata that is adopted.
LEMMA AdoptTyped ==
  ASSUME NEW cur \in Objects, NEW def, def.life \in RowLives, def.rev \in Nat
  PROVE  /\ AdoptRow(cur, def) \in Objects
         /\ \A proj : proj.life \in ProjectLives /\ proj.rev \in Nat =>
              Adopt(cur, def, proj) \in Objects
<1>1. ASSUME NEW proj, proj.life \in ProjectLives, proj.rev \in Nat
      PROVE  Adopt(cur, def, proj) \in Objects
  BY <1>1 DEF Adopt, Objects
<1>2. AdoptRow(cur, def) \in Objects
  BY DEF AdoptRow, Adopt, Objects
<1> QED
  BY <1>1, <1>2

\* A request that is dropped.
LEMMA Removed ==
  ASSUME NEW S, NEW s \in Seq(S), NEW k \in DOMAIN s
  PROVE  /\ RemoveAt(s, k) \in Seq(S) /\ Len(RemoveAt(s, k)) = Len(s) - 1
         /\ \A j \in DOMAIN RemoveAt(s, k) : \E i \in DOMAIN s : RemoveAt(s, k)[j] = s[i]
<1> DEFINE a == SubSeq(s, 1, k - 1)
           b == SubSeq(s, k + 1, Len(s))
<1>1. k \in 1..Len(s) /\ Len(s) \in Nat
  OBVIOUS
<1>2. a \in Seq(S) /\ Len(a) = k - 1 /\ \A j \in 1..(k - 1) : a[j] = s[j]
  BY <1>1
<1>3. b \in Seq(S) /\ Len(b) = Len(s) - k /\ \A j \in 1..(Len(s) - k) : b[j] = s[k + j]
  BY <1>1
<1>4. RemoveAt(s, k) = a \o b
  BY DEF RemoveAt
<1> HIDE DEF a, b
<1>5. /\ a \o b \in Seq(S) /\ Len(a \o b) = Len(s) - 1
      /\ \A i \in 1..(Len(s) - 1) : (a \o b)[i] = IF i <= k - 1 THEN a[i] ELSE b[i - (k - 1)]
  <2>1. k - 1 \in Nat /\ Len(s) - k \in Nat /\ (k - 1) + (Len(s) - k) = Len(s) - 1
    BY <1>1
  <2>2. /\ a \o b \in Seq(S) /\ Len(a \o b) = Len(a) + Len(b)
        /\ \A i \in 1..(Len(a) + Len(b)) : (a \o b)[i] = IF i <= Len(a) THEN a[i] ELSE b[i - Len(a)]
    BY <1>2, <1>3, ConcatProperties, Zenon
  <2> QED
    BY <1>2, <1>3, <2>1, <2>2
<1>6. ASSUME NEW j \in DOMAIN (a \o b) PROVE \E i \in DOMAIN s : (a \o b)[j] = s[i]
  <2>1. j \in 1..(Len(s) - 1)
    BY <1>1, <1>5
  <2>2. CASE j <= k - 1
    <3>1. j \in 1..(k - 1) /\ j \in DOMAIN s
      BY <1>1, <2>1, <2>2
    <3> QED
      BY <1>2, <1>5, <2>1, <2>2, <3>1
  <2>3. CASE ~(j <= k - 1)
    <3>1. j - (k - 1) \in 1..(Len(s) - k) /\ j + 1 \in 1..Len(s) /\ k + (j - (k - 1)) = j + 1
      BY <1>1, <2>1, <2>3
    <3>2. (a \o b)[j] = b[j - (k - 1)]
      BY <1>5, <2>1, <2>3
    <3>3. b[j - (k - 1)] = s[k + (j - (k - 1))]
      BY <1>3, <3>1
    <3>4. (a \o b)[j] = s[j + 1] /\ j + 1 \in DOMAIN s
      BY <1>1, <3>1, <3>2, <3>3
    <3> QED
      BY <3>4
  <2> QED
    BY <2>2, <2>3
<1> QED
  BY <1>4, <1>5, <1>6

\* The operation the alarm runs.
LEMMA Running ==
  ASSUME TInv, run.op # 0
  PROVE  /\ run.op \in DOMAIN ops /\ Kind \in WorkspaceKinds \cup ProjectKinds
         /\ Kind \in WorkspaceKinds => Target \in Workspaces
         /\ Kind \in ProjectKinds => Target = "project"
<1>1. run.op \in DOMAIN ops /\ ops[run.op] \in Jobs
  BY DEF TInv, Typed, Queue
<1> QED
  BY <1>1, Sizes DEF Kind, Target, Jobs, TInv, Queue

\* A definition that is written.
LEMMA PutTyped ==
  ASSUME TInv, NEW w \in Workspaces, NEW life \in RowLives
  PROVE  /\ Put(w, life) \in [Workspaces -> Records]
         /\ Put(w, life)[w].life = life /\ Put(w, life)[w].rev = rows[w].rev + 1
         /\ \A v \in Workspaces : v # w => Put(w, life)[v] = rows[v]
<1>1. rows \in [Workspaces -> Records] /\ rows[w].rev + 1 \in Nat
  BY Fields DEF TInv, Typed
<1> QED
  BY <1>1 DEF Put, Records

\* A step that leaves requests and the queue alone.
LEMMA SameRun ==
  ASSUME TInv, UNCHANGED <<ops, asks, run>>
  PROVE  Queue' /\ Runners' /\ Kind' = Kind /\ Target' = Target
BY DEF TInv, Queue, Runners, Kind, Target

\* A step of the alarm's run within its operation.
LEMMA RunMoved ==
  ASSUME TInv, run.op # 0, run'.op = run.op, run'.pc # "idle", UNCHANGED <<ops, asks>>
  PROVE  Queue' /\ Kind' = Kind /\ Target' = Target
BY DEF TInv, Queue, Kind, Target

\* The alarm's run ends with the operation's state.
LEMMA RunEnded ==
  ASSUME TInv, run.op # 0, NEW st \in OpStates, End(st), UNCHANGED asks
  PROVE  run' = NoRun /\ ops' \in Seq(Jobs) /\ Queue' /\ Runners'
<1>1. run' = NoRun /\ ops' = [ops EXCEPT ![run.op].st = st] /\ run.op \in DOMAIN ops
  BY DEF End, TInv, Queue
<1>2. ops \in Seq(Jobs) /\ ops[run.op] \in Jobs
  BY <1>1 DEF TInv, Typed
<1>3. [ops[run.op] EXCEPT !.st = st] \in Jobs
  BY <1>2 DEF Jobs
<1>4. /\ ops' \in Seq(Jobs) /\ Len(ops') = Len(ops) /\ DOMAIN ops' = DOMAIN ops
      /\ \A i \in DOMAIN ops : ops'[i].ws = ops[i].ws /\ ops'[i].kind = ops[i].kind
  BY <1>1, <1>2, <1>3 DEF Jobs
<1>5. Queue'
  BY <1>1, <1>4, Blank DEF TInv, Queue
<1>6. Runners'
  BY <1>1, Blank DEF Runners
<1> QED
  BY <1>1, <1>4, <1>5, <1>6

\* A request that is dropped leaves the others.
LEMMA AskDropped ==
  ASSUME TInv, NEW k \in DOMAIN asks, asks' = RemoveAt(asks, k), UNCHANGED <<ops, run>>
  PROVE  /\ asks' \in Seq(Asked) /\ Queue' /\ Runners' /\ Kind' = Kind /\ Target' = Target
         /\ \A j \in DOMAIN asks' : \E i \in DOMAIN asks : asks'[j] = asks[i]
<1>1. asks \in Seq(Asked) /\ ops \in Seq(Jobs)
  BY DEF TInv, Typed
<1>2. /\ asks' \in Seq(Asked) /\ Len(asks') = Len(asks) - 1
      /\ \A j \in DOMAIN asks' : \E i \in DOMAIN asks : asks'[j] = asks[i]
  BY <1>1, Removed
<1>3. Len(ops) + Len(asks') <= MaxOps
  <2>1. Len(ops) \in Nat /\ Len(asks) \in Nat
    BY <1>1
  <2> QED
    BY <1>2, <2>1, Sizes DEF TInv, Queue
<1>4. Queue'
  BY <1>2, <1>3 DEF TInv, Queue
<1>5. Runners' /\ Kind' = Kind /\ Target' = Target
  BY DEF TInv, Runners, Kind, Target
<1> QED
  BY <1>2, <1>4, <1>5

\* A request that has made one of its calls.
LEMMA AskMoved ==
  ASSUME TInv, NEW k \in DOMAIN asks, NEW pc \in {"locate", "check", "append"}, asks[k].pc # "append",
         asks' = [asks EXCEPT ![k].pc = pc], UNCHANGED <<ops, run>>
  PROVE  /\ asks' \in Seq(Asked) /\ Queue' /\ Runners' /\ Kind' = Kind /\ Target' = Target
         /\ DOMAIN asks' = DOMAIN asks /\ asks'[k].pc = pc
         /\ \A i \in DOMAIN asks : i # k => asks'[i] = asks[i]
<1>1. asks \in Seq(Asked) /\ asks[k] \in Asked
  BY DEF TInv, Typed
<1> DEFINE new == [asks[k] EXCEPT !.pc = pc]
<1>2. new \in Asked /\ new.pc = pc /\ new.ws = asks[k].ws /\ new.kind = asks[k].kind
  BY <1>1 DEF Asked
<1>3. asks' = [asks EXCEPT ![k] = new]
  OBVIOUS
<1> HIDE DEF new
<1>4. /\ asks' \in Seq(Asked) /\ Len(asks') = Len(asks) /\ DOMAIN asks' = DOMAIN asks
      /\ asks'[k].pc = pc /\ asks'[k].ws = asks[k].ws /\ asks'[k].kind = asks[k].kind
      /\ \A i \in DOMAIN asks : i # k => asks'[i] = asks[i]
  BY <1>1, <1>2, <1>3
<1>5. Queue'
  BY <1>4 DEF TInv, Queue
<1>6. Runners' /\ Kind' = Kind /\ Target' = Target
  BY DEF TInv, Runners, Kind, Target
<1> QED
  BY <1>4, <1>5, <1>6

\* A request that is made.
LEMMA AskMade ==
  ASSUME TInv, NEW kind \in WorkspaceKinds \cup ProjectKinds, NEW ws \in Workspaces \cup {"project"},
         NEW pc \in {"put", "check", "append"}, NEW rev \in Nat,
           ws \in Workspaces <=> kind \in WorkspaceKinds,
         pc # "append" => kind = "create", Ask(kind, ws, pc, rev)
  PROVE  /\ TInv' /\ Kind' = Kind /\ Target' = Target
         /\ UNCHANGED <<project, rows, gone, ops, run, obj, seed, phase, use, index, puts, history>>
         /\ \A j \in DOMAIN asks' : \/ j \in DOMAIN asks /\ asks'[j] = asks[j]
                                    \/ asks'[j].ws = ws /\ asks'[j].pc = pc /\ asks'[j].rev = rev
<1> DEFINE new == [kind |-> kind, ws |-> ws, pc |-> pc, rev |-> rev]
<1>1. asks \in Seq(Asked) /\ ops \in Seq(Jobs) /\ new \in Asked
  BY DEF TInv, Typed, Asked
<1>2. new.kind = kind /\ new.ws = ws /\ new.pc = pc /\ new.rev = rev
  OBVIOUS
<1>3. asks' = Append(asks, new) /\ Len(ops) + Len(asks) < MaxOps
  BY DEF Ask
<1>4. UNCHANGED <<project, rows, gone, ops, run, obj, seed, phase, use, index, puts, located, repo,
                  bounds, history>>
  BY DEF Ask, authority, directory
<1> HIDE DEF new
<1>5. /\ asks' \in Seq(Asked) /\ Len(asks') = Len(asks) + 1
      /\ \A j \in DOMAIN asks' : (j \in DOMAIN asks /\ asks'[j] = asks[j]) \/ asks'[j] = new
  BY <1>1, <1>3
<1>6. Len(ops') + Len(asks') <= MaxOps
  <2>1. Len(ops) \in Nat /\ Len(asks) \in Nat
    BY <1>1
  <2> QED
    BY <1>3, <1>4, <1>5, <2>1, Sizes
<1>7. Typed'
  BY <1>4, <1>5 DEF TInv, Typed, bounds, history
<1>8. Queue'
  BY <1>2, <1>4, <1>5, <1>6 DEF TInv, Queue
<1>9. Runners' /\ Kind' = Kind /\ Target' = Target
  BY <1>4 DEF TInv, Runners, Kind, Target
<1> QED
  BY <1>2, <1>4, <1>5, <1>7, <1>8, <1>9 DEF TInv

\* An edit of the project.
LEMMA MoveDoes ==
  ASSUME TInv, Move
  PROVE  /\ TInv'
         /\ Kind' = Kind /\ Target' = Target
         /\ project.life = "active" /\ project'.life = "active" /\ project'.rev = project.rev + 1
         /\ puts' = puts \cup {project'}
         /\ UNCHANGED <<rows, gone, ops, run, asks, obj, seed, phase, use, index, torn, late, stale,
                        slipped, unpublished>>
<1>1. /\ project.life = "active" /\ project'.life = "active" /\ project'.rev = project.rev + 1
      /\ puts' = puts \cup {project'}
  BY DEF Move, SetTo
<1>2. UNCHANGED <<rows, gone, ops, run, asks, obj, seed, phase, use, index, located, repo, faults,
                  torn, late, stale, slipped, unpublished>>
  BY DEF Move, history, authority
<1>3. /\ project' \in Summaries
      /\ puts' \subseteq Summaries
      /\ edits' \in 0..MaxEdits
  BY <1>1, Fields, Sizes DEF TInv, Typed, Move, SetTo, Summaries, ProjectLives
<1>4. Typed'
  BY <1>2, <1>3 DEF TInv, Typed
<1>5. Queue' /\ Runners' /\ Kind' = Kind /\ Target' = Target
  BY <1>2, SameRun
<1> QED
  BY <1>1, <1>2, <1>4, <1>5 DEF TInv

\* A summary arrives at the directory.
LEMMA PublishedDoes ==
  ASSUME TInv, NEW s \in puts, Published(s)
  PROVE  /\ TInv'
         /\ Kind' = Kind /\ Target' = Target
         /\ puts' = puts \ {s} /\ index' = IndexPut(s)
         /\ UNCHANGED <<project, rows, gone, ops, run, asks, obj, seed, phase, use, torn, late, stale,
                        slipped, unpublished>>
<1>1. /\ puts' = puts \ {s} /\ index' = IndexPut(s)
  BY DEF Published
<1>2. UNCHANGED <<project, rows, gone, ops, run, asks, obj, seed, phase, use, located, repo, faults,
                  edits, torn, late, stale, slipped, unpublished>>
  BY DEF Published, history, authority, bounds
<1>3. /\ index' \in Summaries
      /\ puts' \subseteq Summaries
  BY <1>1 DEF TInv, Typed, IndexPut
<1>4. Typed'
  BY <1>2, <1>3 DEF TInv, Typed
<1>5. Queue' /\ Runners' /\ Kind' = Kind /\ Target' = Target
  BY <1>2, SameRun
<1> QED
  BY <1>1, <1>2, <1>4, <1>5 DEF TInv

\* A workspace object reads its project.
LEMMA SeedReadDoes ==
  ASSUME TInv, NEW w \in Workspaces, SeedRead(w)
  PROVE  /\ TInv'
         /\ Kind' = Kind /\ Target' = Target
         /\ obj[w].life = "none" /\ seed[w] = NoObject /\ Present(w) /\ project.life # "deleting"
         /\ seed'[w].life = rows[w].life /\ seed'[w].rev = rows[w].rev
         /\ seed'[w].plife = project.life /\ seed'[w].prev = project.rev
         /\ \A v \in Workspaces : v # w => seed'[v] = seed[v]
         /\ UNCHANGED <<project, rows, gone, ops, run, asks, obj, phase, use, index, puts, torn, late,
                        stale, slipped, unpublished>>
<1>1. /\ obj[w].life = "none" /\ seed[w] = NoObject /\ Present(w) /\ project.life # "deleting"
      /\ seed'[w].life = rows[w].life /\ seed'[w].rev = rows[w].rev
      /\ seed'[w].plife = project.life /\ seed'[w].prev = project.rev
      /\ \A v \in Workspaces : v # w => seed'[v] = seed[v]
  BY DEF SeedRead, Seeded, CanSeed, TInv, Typed
<1>2. UNCHANGED <<project, rows, gone, ops, run, asks, obj, phase, use, index, puts, located, repo,
                  faults, edits, torn, late, stale, slipped, unpublished>>
  BY DEF SeedRead, history, authority, bounds, directory
<1>3. /\ seed' \in [Workspaces -> Objects]
  BY Fields DEF TInv, Typed, SeedRead, Objects
<1>4. Typed'
  BY <1>2, <1>3 DEF TInv, Typed
<1>5. Queue' /\ Runners' /\ Kind' = Kind /\ Target' = Target
  BY <1>2, SameRun
<1> QED
  BY <1>1, <1>2, <1>4, <1>5 DEF TInv

\* A workspace object adopts what it read.
LEMMA SeedWriteDoes ==
  ASSUME TInv, NEW w \in Workspaces, SeedWrite(w)
  PROVE  /\ TInv'
         /\ Kind' = Kind /\ Target' = Target
         /\ seed[w] # NoObject /\ seed'[w] = NoObject
         /\ (\A v \in Workspaces : v # w => seed'[v] = seed[v])
         /\ LET new == obj[w].life = "none"
            IN  /\ obj'[w].life = IF new \/ seed[w].rev > obj[w].rev THEN seed[w].life ELSE obj[w].life
                /\ obj'[w].rev = IF new \/ seed[w].rev > obj[w].rev THEN seed[w].rev ELSE obj[w].rev
                /\ obj'[w].plife = IF new \/ seed[w].prev > obj[w].prev THEN seed[w].plife
                     ELSE obj[w].plife
                /\ obj'[w].prev = IF new \/ seed[w].prev > obj[w].prev THEN seed[w].prev
                     ELSE obj[w].prev
         /\ \A v \in Workspaces : v # w => obj'[v] = obj[v]
         /\ obj[w].plife = "deleting" => obj'[w] = obj[w] \/ w \in stale'
         /\ stale \subseteq stale'
         /\ \A v \in Workspaces : v # w => (v \in stale' <=> v \in stale)
         /\ UNCHANGED <<project, rows, gone, ops, run, asks, phase, use, index, puts, torn, late,
                        slipped, unpublished>>
<1>1. /\ seed[w] # NoObject /\ seed'[w] = NoObject
      /\ (\A v \in Workspaces : v # w => seed'[v] = seed[v])
      /\ LET new == obj[w].life = "none"
         IN  /\ obj'[w].life = IF new \/ seed[w].rev > obj[w].rev THEN seed[w].life ELSE obj[w].life
             /\ obj'[w].rev = IF new \/ seed[w].rev > obj[w].rev THEN seed[w].rev ELSE obj[w].rev
             /\ obj'[w].plife = IF new \/ seed[w].prev > obj[w].prev THEN seed[w].plife
                  ELSE obj[w].plife
             /\ obj'[w].prev = IF new \/ seed[w].prev > obj[w].prev THEN seed[w].prev ELSE obj[w].prev
      /\ \A v \in Workspaces : v # w => obj'[v] = obj[v]
      /\ obj[w].plife = "deleting" => obj'[w] = obj[w] \/ w \in stale'
      /\ stale \subseteq stale'
      /\ \A v \in Workspaces : v # w => (v \in stale' <=> v \in stale)
  BY DEF SeedWrite, Adopt, TInv, Typed
<1>2. UNCHANGED <<project, rows, gone, ops, run, asks, phase, use, index, puts, located, repo, faults,
                  edits, torn, late, slipped, unpublished>>
  BY DEF SeedWrite, authority, bounds, directory
<1>3. /\ obj' \in [Workspaces -> Objects]
      /\ seed' \in [Workspaces -> Objects]
      /\ stale' \subseteq Workspaces
  <2>1. Adopt(obj[w], [life |-> seed[w].life, rev |-> seed[w].rev],
                [life |-> seed[w].plife, rev |-> seed[w].prev]) \in Objects
    BY Fields, AdoptTyped DEF TInv, Typed
  <2> QED
    BY <2>1, Blank DEF TInv, Typed, SeedWrite
<1>4. Typed'
  BY <1>2, <1>3 DEF TInv, Typed
<1>5. Queue' /\ Runners' /\ Kind' = Kind /\ Target' = Target
  BY <1>2, SameRun
<1> QED
  BY <1>1, <1>2, <1>4, <1>5 DEF TInv

\* A call is let in, checked to write or only to read.
LEMMA AdmitDoes ==
  ASSUME TInv, NEW w \in Workspaces, Admit(w) \/ Open(w)
  PROVE  /\ TInv'
         /\ Kind' = Kind /\ Target' = Target
         /\ use[w] = "idle" /\ Available(obj[w]) /\ use'[w] = "admitted"
         /\ \A v \in Workspaces : v # w => use'[v] = use[v]
         /\ UNCHANGED <<project, rows, gone, ops, run, asks, obj, seed, phase, index, puts, torn, late,
                        stale, slipped, unpublished>>
<1>1. /\ use[w] = "idle" /\ Available(obj[w]) /\ use'[w] = "admitted"
      /\ \A v \in Workspaces : v # w => use'[v] = use[v]
  BY DEF Admit, Open, Writable, TInv, Typed
<1>2. UNCHANGED <<project, rows, gone, ops, run, asks, obj, seed, phase, index, puts, located, repo,
                  faults, edits, torn, late, stale, slipped, unpublished>>
  BY DEF Admit, Open, history, authority, bounds, directory
<1>3. /\ use' \in [Workspaces -> {"idle", "admitted", "working"}]
  BY DEF TInv, Typed, Admit, Open
<1>4. Typed'
  BY <1>2, <1>3 DEF TInv, Typed
<1>5. Queue' /\ Runners' /\ Kind' = Kind /\ Target' = Target
  BY <1>2, SameRun
<1> QED
  BY <1>1, <1>2, <1>4, <1>5 DEF TInv

\* A write that was admitted is made.
LEMMA WorkDoes ==
  ASSUME TInv, NEW w \in Workspaces, Work(w)
  PROVE  /\ TInv'
         /\ Kind' = Kind /\ Target' = Target
         /\ use[w] = "admitted" /\ use'[w] = "working"
         /\ \A v \in Workspaces : v # w => use'[v] = use[v]
         /\ slipped \subseteq slipped' /\ (~Writable(obj[w]) => w \in slipped')
         /\ \A v \in Workspaces : v # w => (v \in slipped' <=> v \in slipped)
         /\ UNCHANGED <<project, rows, gone, ops, run, asks, obj, seed, phase, index, puts, torn, late,
                        stale, unpublished>>
<1>1. /\ use[w] = "admitted" /\ use'[w] = "working"
      /\ \A v \in Workspaces : v # w => use'[v] = use[v]
      /\ slipped \subseteq slipped' /\ (~Writable(obj[w]) => w \in slipped')
      /\ \A v \in Workspaces : v # w => (v \in slipped' <=> v \in slipped)
  BY DEF Work, TInv, Typed
<1>2. UNCHANGED <<project, rows, gone, ops, run, asks, obj, seed, phase, index, puts, located, repo,
                  faults, edits, torn, late, stale, unpublished>>
  BY DEF Work, authority, bounds, directory
<1>3. /\ use' \in [Workspaces -> {"idle", "admitted", "working"}]
      /\ slipped' \subseteq Workspaces
  BY DEF TInv, Typed, Work
<1>4. Typed'
  BY <1>2, <1>3 DEF TInv, Typed
<1>5. Queue' /\ Runners' /\ Kind' = Kind /\ Target' = Target
  BY <1>2, SameRun
<1> QED
  BY <1>1, <1>2, <1>4, <1>5 DEF TInv

\* A workspace comes to rest.
LEMMA RestDoes ==
  ASSUME TInv, NEW w \in Workspaces, Rest(w)
  PROVE  /\ TInv'
         /\ Kind' = Kind /\ Target' = Target
         /\ use'[w] = "idle"
         /\ \A v \in Workspaces : v # w => use'[v] = use[v]
         /\ \A v \in Workspaces : v # w => (v \in slipped' <=> v \in slipped)
         /\ UNCHANGED <<project, rows, gone, ops, run, asks, obj, seed, phase, index, puts, torn, late,
                        stale, unpublished>>
<1>1. /\ use'[w] = "idle"
      /\ \A v \in Workspaces : v # w => use'[v] = use[v]
      /\ \A v \in Workspaces : v # w => (v \in slipped' <=> v \in slipped)
  BY DEF Rest, TInv, Typed
<1>2. UNCHANGED <<project, rows, gone, ops, run, asks, obj, seed, phase, index, puts, located, repo,
                  faults, edits, torn, late, stale, unpublished>>
  BY DEF Rest, authority, bounds, directory
<1>3. /\ use' \in [Workspaces -> {"idle", "admitted", "working"}]
      /\ slipped' \subseteq Workspaces
  BY DEF TInv, Typed, Rest
<1>4. Typed'
  BY <1>2, <1>3 DEF TInv, Typed
<1>5. Queue' /\ Runners' /\ Kind' = Kind /\ Target' = Target
  BY <1>2, SameRun
<1> QED
  BY <1>1, <1>2, <1>4, <1>5 DEF TInv

\* A change of phase keeps the metadata it read.
LEMMA PhaseBeginDoes ==
  ASSUME TInv, NEW w \in Workspaces, PhaseBegin(w)
  PROVE  /\ TInv'
         /\ Kind' = Kind /\ Target' = Target
         /\ phase[w] = NoPhase /\ Available(obj[w]) /\ phase'[w].pc = "write" /\ phase'[w].cur = obj[w]
         /\ \A v \in Workspaces : v # w => phase'[v] = phase[v]
         /\ UNCHANGED <<project, rows, gone, ops, run, asks, obj, seed, use, index, puts, torn, late,
                        stale, slipped, unpublished>>
<1>1. /\ phase[w] = NoPhase /\ Available(obj[w]) /\ phase'[w].pc = "write" /\ phase'[w].cur = obj[w]
      /\ \A v \in Workspaces : v # w => phase'[v] = phase[v]
  BY DEF PhaseBegin, TInv, Typed
<1>2. UNCHANGED <<project, rows, gone, ops, run, asks, obj, seed, use, index, puts, located, repo,
                  faults, torn, late, stale, slipped, unpublished>>
  BY DEF PhaseBegin, history, authority, directory
<1>3. /\ phase' \in [Workspaces -> PhaseType]
      /\ edits' \in 0..MaxEdits
  BY Sizes DEF TInv, Typed, PhaseBegin, PhaseType
<1>4. Typed'
  BY <1>2, <1>3 DEF TInv, Typed
<1>5. Queue' /\ Runners' /\ Kind' = Kind /\ Target' = Target
  BY <1>2, SameRun
<1> QED
  BY <1>1, <1>2, <1>4, <1>5 DEF TInv

\* A change of phase writes what it kept.
LEMMA PhaseWriteDoes ==
  ASSUME TInv, NEW w \in Workspaces, PhaseWrite(w)
  PROVE  /\ TInv'
         /\ Kind' = Kind /\ Target' = Target
         /\ phase[w].pc = "write" /\ phase'[w].pc = "record"
         /\ (\A v \in Workspaces : v # w => phase'[v] = phase[v])
         /\ obj'[w] = phase[w].cur /\ (\A v \in Workspaces : v # w => obj'[v] = obj[v])
         /\ obj'[w] = obj[w] \/ w \in stale'
         /\ stale \subseteq stale'
         /\ \A v \in Workspaces : v # w => (v \in stale' <=> v \in stale)
         /\ UNCHANGED <<project, rows, gone, ops, run, asks, seed, use, index, puts, torn, late,
                        slipped, unpublished>>
<1>1. /\ phase[w].pc = "write" /\ phase'[w].pc = "record"
      /\ (\A v \in Workspaces : v # w => phase'[v] = phase[v])
      /\ obj'[w] = phase[w].cur /\ (\A v \in Workspaces : v # w => obj'[v] = obj[v])
      /\ obj'[w] = obj[w] \/ w \in stale'
      /\ stale \subseteq stale'
      /\ \A v \in Workspaces : v # w => (v \in stale' <=> v \in stale)
  BY DEF PhaseWrite, TInv, Typed, PhaseType
<1>2. UNCHANGED <<project, rows, gone, ops, run, asks, seed, use, index, puts, located, repo, faults,
                  edits, torn, late, slipped, unpublished>>
  BY DEF PhaseWrite, authority, bounds, directory
<1>3. /\ obj' \in [Workspaces -> Objects]
      /\ phase' \in [Workspaces -> PhaseType]
      /\ stale' \subseteq Workspaces
  BY DEF TInv, Typed, PhaseWrite, PhaseType
<1>4. Typed'
  BY <1>2, <1>3 DEF TInv, Typed
<1>5. Queue' /\ Runners' /\ Kind' = Kind /\ Target' = Target
  BY <1>2, SameRun
<1> QED
  BY <1>1, <1>2, <1>4, <1>5 DEF TInv

\* The project records a change of phase, unless the workspace is deleted.
LEMMA PhaseRecordDoes ==
  ASSUME TInv, NEW w \in Workspaces, PhaseRecord(w)
  PROVE  /\ TInv'
         /\ Kind' = Kind /\ Target' = Target
         /\ phase[w].pc = "record" /\ (\A v \in Workspaces : v # w => phase'[v] = phase[v])
         /\ (\A v \in Workspaces : v # w => rows'[v] = rows[v])
         /\ Present(w) =>
              /\ rows'[w].life = rows[w].life /\ rows'[w].rev \in {rows[w].rev, rows[w].rev + 1}
              /\ phase'[w].pc = "adopt" /\ phase'[w].cur.life = rows[w].life
              /\ phase'[w].cur.rev = rows'[w].rev
         /\ ~Present(w) => rows' = rows /\ phase'[w] = NoPhase
         /\ UNCHANGED <<project, gone, ops, run, asks, obj, seed, use, index, puts, torn, late, stale,
                        slipped, unpublished>>
<1>1. /\ phase[w].pc = "record"
      /\ rows' \in [Workspaces -> Records] /\ phase' \in [Workspaces -> PhaseType]
      /\ (\A v \in Workspaces : v # w => phase'[v] = phase[v])
      /\ (\A v \in Workspaces : v # w => rows'[v] = rows[v])
      /\ Present(w) =>
           /\ rows'[w].life = rows[w].life /\ rows'[w].rev \in {rows[w].rev, rows[w].rev + 1}
           /\ phase'[w].pc = "adopt" /\ phase'[w].cur.life = rows[w].life
           /\ phase'[w].cur.rev = rows'[w].rev
      /\ ~Present(w) => rows' = rows /\ phase'[w] = NoPhase
  <2>0. CASE Present(w)
    <3> DEFINE cur == [NoObject EXCEPT !.life = rows[w].life, !.rev = rows'[w].rev]
               new == [pc |-> "adopt", cur |-> cur]
    <3>1. /\ rows' = rows \/ rows' = Put(w, rows[w].life)
          /\ phase' = [phase EXCEPT ![w] = new]
      BY <2>0 DEF PhaseRecord
    <3>2. rows[w].life \in RowLives /\ rows[w].rev \in Nat
      BY Fields
    <3> HIDE DEF new, cur
    <3>3. /\ rows' \in [Workspaces -> Records]
          /\ (\A v \in Workspaces : v # w => rows'[v] = rows[v])
          /\ rows'[w].life = rows[w].life /\ rows'[w].rev \in {rows[w].rev, rows[w].rev + 1}
      BY <3>1, <3>2, PutTyped DEF TInv, Typed
    <3>4. cur \in Objects /\ cur.life = rows[w].life /\ cur.rev = rows'[w].rev
      <4>1. rows'[w].rev \in Nat
        BY <3>2, <3>3
      <4> QED
        BY <3>2, <4>1 DEF cur, NoObject, Objects, ProjectLives
    <3>5. new \in PhaseType /\ new.pc = "adopt" /\ new.cur = cur
      BY <3>4 DEF new, PhaseType
    <3>6. /\ phase' \in [Workspaces -> PhaseType] /\ phase'[w] = new
          /\ (\A v \in Workspaces : v # w => phase'[v] = phase[v])
      BY <3>1, <3>5 DEF TInv, Typed
    <3> QED
      BY <2>0, <3>3, <3>4, <3>5, <3>6 DEF PhaseRecord
  <2>3. ~Present(w) => rows' = rows /\ phase' = [phase EXCEPT ![w] = NoPhase]
    BY DEF PhaseRecord
  <2>4. /\ phase[w].pc = "record" /\ rows \in [Workspaces -> Records]
        /\ phase \in [Workspaces -> PhaseType]
    BY DEF PhaseRecord, TInv, Typed
  <2>6. CASE ~Present(w)
    BY <2>3, <2>4, <2>6, Blank
  <2> QED
    BY <2>0, <2>6
<1>2. UNCHANGED <<project, gone, ops, run, asks, obj, seed, use, index, puts, located, repo, faults,
                  edits, torn, late, stale, slipped, unpublished>>
  BY DEF PhaseRecord, history, authority, bounds, directory
<1>3. Typed'
  BY <1>1, <1>2 DEF TInv, Typed
<1>4. Queue' /\ Runners' /\ Kind' = Kind /\ Target' = Target
  BY <1>2, SameRun
<1> QED
  BY <1>1, <1>2, <1>3, <1>4 DEF TInv

\* A change of phase adopts what the project recorded.
LEMMA PhaseAdoptDoes ==
  ASSUME TInv, NEW w \in Workspaces, PhaseAdopt(w)
  PROVE  /\ TInv'
         /\ Kind' = Kind /\ Target' = Target
         /\ phase[w].pc = "adopt" /\ phase'[w] = NoPhase
         /\ (\A v \in Workspaces : v # w => phase'[v] = phase[v])
         /\ (\A v \in Workspaces : v # w => obj'[v] = obj[v])
         /\ LET new == obj[w].life = "none" \/ phase[w].cur.rev > obj[w].rev
            IN  /\ obj'[w].life = IF new THEN phase[w].cur.life ELSE obj[w].life
                /\ obj'[w].rev = IF new THEN phase[w].cur.rev ELSE obj[w].rev
         /\ obj'[w].plife = obj[w].plife /\ obj'[w].prev = obj[w].prev
         /\ obj'[w].life = obj[w].life \/ w \in stale'
         /\ stale \subseteq stale'
         /\ \A v \in Workspaces : v # w => (v \in stale' <=> v \in stale)
         /\ UNCHANGED <<project, rows, gone, ops, run, asks, seed, use, index, puts, torn, late,
                        slipped, unpublished>>
<1>1. /\ phase[w].pc = "adopt" /\ phase'[w] = NoPhase
      /\ (\A v \in Workspaces : v # w => phase'[v] = phase[v])
      /\ (\A v \in Workspaces : v # w => obj'[v] = obj[v])
      /\ LET new == obj[w].life = "none" \/ phase[w].cur.rev > obj[w].rev
         IN  /\ obj'[w].life = IF new THEN phase[w].cur.life ELSE obj[w].life
             /\ obj'[w].rev = IF new THEN phase[w].cur.rev ELSE obj[w].rev
      /\ obj'[w].plife = obj[w].plife /\ obj'[w].prev = obj[w].prev
      /\ obj'[w].life = obj[w].life \/ w \in stale'
      /\ stale \subseteq stale'
      /\ \A v \in Workspaces : v # w => (v \in stale' <=> v \in stale)
  BY DEF PhaseAdopt, AdoptRow, Adopt, TInv, Typed
<1>2. UNCHANGED <<project, rows, gone, ops, run, asks, seed, use, index, puts, located, repo, faults,
                  edits, torn, late, slipped, unpublished>>
  BY DEF PhaseAdopt, authority, bounds, directory
<1>3. /\ obj' \in [Workspaces -> Objects]
      /\ phase' \in [Workspaces -> PhaseType]
      /\ stale' \subseteq Workspaces
  <2>1. AdoptRow(obj[w], phase[w].cur) \in Objects
    BY Fields, AdoptTyped DEF TInv, Typed
  <2> QED
    BY <2>1, Blank DEF TInv, Typed, PhaseAdopt
<1>4. Typed'
  BY <1>2, <1>3 DEF TInv, Typed
<1>5. Queue' /\ Runners' /\ Kind' = Kind /\ Target' = Target
  BY <1>2, SameRun
<1> QED
  BY <1>1, <1>2, <1>4, <1>5 DEF TInv

-----------------------------------------------------------------------------
(* What each step of the alarm's run does. *)

\* A step of the run that only moves it on.
LEMMA RunGone ==
  ASSUME TInv, NEW pc \in Positions, Go(pc)
  PROVE  /\ run' \in Runs /\ run'.pc = pc /\ run'.op = run.op /\ run'.def = run.def
         /\ run'.proj = run.proj
         /\ run'.todo = run.todo /\ run'.cur = run.cur /\ run'.tomb = run.tomb /\ ops' = ops
<1>1. run \in Runs
  BY DEF TInv, Typed
<1> QED
  BY <1>1 DEF Go, Runs

\* Some number of a set is the least.
LEMMA Least == ASSUME NEW S, S \subseteq Nat, S # {}
               PROVE  \E n \in S : \A m \in S : n <= m
<1>1. PICK n \in S : \A m \in S : <<m, n>> \notin OpToRel(<, Nat)
  BY NatLessThanWellFounded, WFMin
<1>2. ASSUME NEW m \in S PROVE n <= m
  <2>1. ~(m < n)
    BY <1>1 DEF OpToRel
  <2> QED
    BY <2>1
<1> QED
  BY <1>2

\* The alarm takes up an operation.
LEMMA BeginDoes ==
  ASSUME TInv, Begin
  PROVE  TInv' /\ Rests
<1> DEFINE o == CHOOSE i \in LiveOps : \A j \in LiveOps : i <= j
           new == [ops[o] EXCEPT !.st = "running"]
           pc == IF ops[o].kind \in ProjectKinds THEN "begin" ELSE "read"
<1>1. ops' = [ops EXCEPT ![o] = new] /\ run' = [NoRun EXCEPT !.op = o, !.pc = pc] /\ LiveOps # {}
  BY DEF Begin
<1>2. UNCHANGED <<project, rows, gone, asks, obj, seed, phase, use, index, puts, located, repo, faults,
                  edits, history>>
  BY DEF Begin, authority, directory, bounds
<1>3. /\ ops \in Seq(Jobs) /\ asks \in Seq(Asked) /\ LiveOps \subseteq DOMAIN ops
      /\ DOMAIN ops \subseteq Nat
  BY DEF TInv, Typed, LiveOps
<1>4. o \in DOMAIN ops
  <2>1. \E i \in LiveOps : \A j \in LiveOps : i <= j
    BY <1>1, <1>3, Least
  <2> QED
    BY <1>3, <2>1
<1> HIDE DEF o
<1>5. o \in 1..MaxOps
  <2>1. Len(ops) \in Nat /\ Len(asks) \in Nat /\ o \in 1..Len(ops) /\ Len(ops) + Len(asks) <= MaxOps
    BY <1>3, <1>4 DEF TInv, Queue
  <2> QED
    BY <2>1, Sizes
<1>6. ops[o] \in Jobs /\ new \in Jobs /\ new.kind = ops[o].kind /\ new.ws = ops[o].ws
  <2>1. ops[o] \in Jobs /\ "running" \in OpStates
    BY <1>3, <1>4 DEF OpStates
  <2> QED
    BY <2>1 DEF Jobs
<1>7. /\ run' \in Runs /\ run'.op = o /\ run'.pc = pc /\ run'.proj = NoRow
      /\ pc \in {"begin", "read"}
  <2>1. pc \in {"begin", "read"} /\ pc \in Positions /\ o \in 0..MaxOps
    BY <1>5, Sizes DEF Positions
  <2> HIDE DEF pc
  <2> QED
    BY <1>1, <2>1, Blank DEF Runs
<1> HIDE DEF new
<1>8. /\ ops' \in Seq(Jobs) /\ Len(ops') = Len(ops) /\ DOMAIN ops' = DOMAIN ops
      /\ ops'[o] = new /\ \A i \in DOMAIN ops : i # o => ops'[i] = ops[i]
  BY <1>1, <1>3, <1>4, <1>6
<1>9. Typed'
  BY <1>2, <1>7, <1>8 DEF TInv, Typed, history
<1>10. Queue'
  BY <1>2, <1>4, <1>5, <1>6, <1>7, <1>8 DEF TInv, Queue
<1>11. Kind' \in WorkspaceKinds \cup ProjectKinds /\ (run'.pc = "begin" <=> Kind' \in ProjectKinds)
  BY <1>6, <1>7, <1>8 DEF Kind, Jobs
<1>12. Runners'
  BY <1>7, <1>11 DEF Runners
<1>13. Rests
  BY <1>2, <1>7 DEF Rests
<1> QED
  BY <1>9, <1>10, <1>12, <1>13 DEF TInv

\* The run ends and leaves all else alone.
LEMMA EndRests ==
  ASSUME TInv, run.op # 0, NEW st \in OpStates, End(st),
         UNCHANGED <<project, rows, gone, asks, obj, seed, phase, use, index, puts, history>>
  PROVE  Rests /\ ops' \in Seq(Jobs) /\ run' \in Runs /\ Queue' /\ Runners'
BY RunEnded, Blank DEF Rests

\* The run moves on to where nothing depends on it.
LEMMA GoRests ==
  ASSUME TInv, run.op # 0, NEW pc \in {"mark", "end", "unlocate"}, Go(pc),
         pc = "mark" => Kind = "create", pc = "unlocate" => Kind = "delete",
         UNCHANGED <<project, rows, gone, asks, obj, seed, phase, use, index, puts, history>>
  PROVE  Rests /\ ops' \in Seq(Jobs) /\ run' \in Runs /\ Queue' /\ Runners'
<1>1. pc \in Positions
  BY DEF Positions
<1>2. run' \in Runs /\ run'.pc = pc /\ run'.op = run.op /\ run'.proj = run.proj /\ ops' = ops
  BY <1>1, RunGone
<1>3. Queue' /\ Kind' = Kind
  BY <1>2, RunMoved
<1>4. Runners'
  BY <1>2, <1>3 DEF Runners
<1> QED
  BY <1>2, <1>3, <1>4 DEF Rests, TInv, Typed

\* The operation succeeded.
LEMMA FinishDoes ==
  ASSUME TInv, Finish
  PROVE  /\ TInv'
         /\ Rests
<1>1. run.op # 0 /\ End("succeeded")
  BY DEF Finish, At
<1>2. UNCHANGED <<project, rows, gone, asks, obj, seed, phase, use, index, puts, located, repo, faults,
                  edits, torn, late, stale, slipped, unpublished>>
  BY DEF Finish, At, authority, directory, bounds, history
<1>3. Rests /\ ops' \in Seq(Jobs) /\ run' \in Runs /\ Queue' /\ Runners'
  BY <1>1, <1>2, EndRests DEF OpStates, history
<1>4. Typed'
  BY <1>2, <1>3 DEF TInv, Typed
<1> QED
  BY <1>3, <1>4 DEF TInv

\* The location of a deleted workspace goes.
LEMMA UnlocateDoes ==
  ASSUME TInv, Unlocate
  PROVE  /\ TInv'
         /\ Rests
<1>1. run.op # 0 /\ Go("end") /\ located' \subseteq Workspaces
  BY DEF Unlocate, At, TInv, Typed
<1>2. UNCHANGED <<project, rows, gone, asks, obj, seed, phase, use, index, puts, repo, faults, edits,
                  torn, late, stale, slipped, unpublished>>
  BY DEF Unlocate, At, authority, directory, bounds, history
<1>3. Rests /\ ops' \in Seq(Jobs) /\ run' \in Runs /\ Queue' /\ Runners'
  BY <1>1, <1>2, GoRests DEF history
<1>4. Typed'
  BY <1>1, <1>2, <1>3 DEF TInv, Typed
<1> QED
  BY <1>3, <1>4 DEF TInv

\* A call of the run fails.
LEMMA RunFailsDoes ==
  ASSUME TInv, RunFails
  PROVE  /\ TInv'
         /\ Rests
<1>1. run.op # 0 /\ faults' \in 0..MaxFaults
  BY Sizes DEF RunFails, TInv, Typed
<1>2. UNCHANGED <<project, rows, gone, asks, obj, seed, phase, use, index, puts, located, repo, edits,
                  torn, late, stale, slipped, unpublished>>
  BY DEF RunFails, authority, directory, history
<1>3. Rests /\ ops' \in Seq(Jobs) /\ run' \in Runs /\ Queue' /\ Runners'
  <2>1. CASE run.pc \in {"source", "fork", "activate", "seed"}
    <3>1. Go("mark") /\ Kind = "create"
      BY <2>1 DEF RunFails, TInv, Runners
    <3> QED
      BY <1>1, <1>2, <3>1, GoRests DEF history
  <2>2. CASE run.pc \notin {"source", "fork", "activate", "seed"}
    <3>1. End("failed")
      BY <2>2 DEF RunFails
    <3> QED
      BY <1>1, <1>2, <3>1, EndRests DEF OpStates, history
  <2> QED
    BY <2>1, <2>2
<1>4. Typed'
  BY <1>1, <1>2, <1>3 DEF TInv, Typed
<1> QED
  BY <1>3, <1>4 DEF TInv

\* The run is cut off.
LEMMA RunCutDoes ==
  ASSUME TInv, RunCut
  PROVE  /\ TInv'
         /\ Rests
<1>1. run.op # 0 /\ faults' \in 0..MaxFaults /\ run' = NoRun /\ ops' = ops
  BY Sizes DEF RunCut, TInv, Typed
<1>2. UNCHANGED <<project, rows, gone, asks, obj, seed, phase, use, index, puts, located, repo, edits,
                  torn, late, stale, slipped, unpublished>>
  BY DEF RunCut, authority, directory, history
<1>3. Queue' /\ Runners'
  BY <1>1, <1>2, Blank DEF TInv, Queue, Runners
<1>4. Rests
  BY <1>1, <1>2, Blank DEF Rests, history
<1>5. Typed'
  BY <1>1, <1>2, Blank DEF TInv, Typed
<1> QED
  BY <1>3, <1>4, <1>5 DEF TInv

\* The repository is made.
LEMMA ForkDoes ==
  ASSUME TInv, Fork
  PROVE  /\ TInv'
         /\ Kind' = Kind /\ Target' = Target /\ run.op # 0 /\ run.pc = "fork"
         /\ run'.pc = "activate" /\ run'.def = run.def /\ run'.proj = run.proj /\ run'.todo = run.todo
         /\ run'.cur = run.cur /\ run'.tomb = run.tomb
         /\ UNCHANGED <<project, rows, gone, asks, obj, seed, phase, use, index, puts, torn, late,
                        stale, slipped, unpublished>>
<1>1. run.op # 0 /\ run.pc = "fork"
  BY DEF Fork, At
<1>2. UNCHANGED <<project, rows, gone, asks, obj, seed, phase, use, index, puts, located, faults,
                  edits, torn, late, stale, slipped, unpublished>>
  BY DEF Fork, At, authority, directory, bounds, history
<1>3. /\ run'.pc = "activate" /\ run'.def = run.def /\ run'.proj = run.proj /\ run'.todo = run.todo
      /\ run'.cur = run.cur /\ run'.tomb = run.tomb
      /\ run'.op = run.op /\ run' \in Runs /\ ops' = ops
  <2>1. Go("activate") /\ "activate" \in Positions
    BY DEF Fork, Positions
  <2> QED
    BY <2>1, RunGone
<1>4. /\ repo' \subseteq Workspaces
  BY <1>1, Running DEF Fork, TInv, Typed, Runners, WorkspaceKinds
<1>5. Typed'
  BY <1>1, <1>2, <1>3, <1>4 DEF TInv, Typed
<1>6. Queue' /\ Kind' = Kind /\ Target' = Target
  BY <1>1, <1>2, <1>3, RunMoved
<1>7. Runners'
  BY <1>1, <1>3, <1>6 DEF TInv, Runners
<1> QED
  BY <1>1, <1>2, <1>3, <1>5, <1>6, <1>7 DEF TInv

\* The creation hands its definition to the object.
LEMMA SeedWorkspaceDoes ==
  ASSUME TInv, SeedWorkspace
  PROVE  /\ TInv'
         /\ Kind' = Kind /\ Target' = Target /\ run.op # 0 /\ run.pc = "seed"
         /\ run'.pc = "end" /\ run'.def = run.def /\ run'.proj = run.proj /\ run'.todo = run.todo
         /\ run'.cur = run.cur /\ run'.tomb = run.tomb
         /\ LET new == obj[Target].life = "none"
            IN  /\ obj'[Target].life = IF new \/ run.def.rev > obj[Target].rev
                     THEN run.def.life ELSE obj[Target].life
                /\ obj'[Target].rev = IF new \/ run.def.rev > obj[Target].rev
                     THEN run.def.rev ELSE obj[Target].rev
                /\ obj'[Target].plife = IF new \/ run.proj.rev > obj[Target].prev
                     THEN run.proj.life ELSE obj[Target].plife
                /\ obj'[Target].prev = IF new \/ run.proj.rev > obj[Target].prev
                     THEN run.proj.rev ELSE obj[Target].prev
         /\ Target \in Workspaces /\ torn' = torn \ {Target}
         /\ \A v \in Workspaces : v # Target => obj'[v] = obj[v]
         /\ UNCHANGED <<project, rows, gone, asks, seed, phase, use, index, puts, late, stale, slipped,
                        unpublished>>
<1>1. run.op # 0 /\ run.pc = "seed"
  BY DEF SeedWorkspace, At
<1>2. UNCHANGED <<project, rows, gone, asks, seed, phase, use, index, puts, located, repo, faults,
                  edits, late, stale, slipped, unpublished>>
  BY DEF SeedWorkspace, At, authority, directory, bounds, history
<1>3. /\ run'.pc = "end" /\ run'.def = run.def /\ run'.proj = run.proj /\ run'.todo = run.todo
      /\ run'.cur = run.cur /\ run'.tomb = run.tomb
      /\ run'.op = run.op /\ run' \in Runs /\ ops' = ops
  <2>1. Go("end") /\ "end" \in Positions
    BY DEF SeedWorkspace, Positions
  <2> QED
    BY <2>1, RunGone
<1>4. /\ LET new == obj[Target].life = "none"
         IN  /\ obj'[Target].life = IF new \/ run.def.rev > obj[Target].rev THEN run.def.life
                  ELSE obj[Target].life
             /\ obj'[Target].rev = IF new \/ run.def.rev > obj[Target].rev THEN run.def.rev
                  ELSE obj[Target].rev
             /\ obj'[Target].plife = IF new \/ run.proj.rev > obj[Target].prev
                  THEN run.proj.life ELSE obj[Target].plife
             /\ obj'[Target].prev = IF new \/ run.proj.rev > obj[Target].prev
                  THEN run.proj.rev ELSE obj[Target].prev
      /\ Target \in Workspaces /\ torn' = torn \ {Target}
      /\ \A v \in Workspaces : v # Target => obj'[v] = obj[v]
  <2>1. Target \in Workspaces
    BY <1>1, Running DEF TInv, Runners, WorkspaceKinds
  <2> QED
    BY <2>1 DEF SeedWorkspace, Adopt, TInv, Typed
<1>5. /\ obj' \in [Workspaces -> Objects]
      /\ torn' \subseteq Workspaces
  <2>1. Adopt(obj[Target], run.def, run.proj) \in Objects
    BY <1>4, Fields, AdoptTyped DEF TInv, Typed
  <2> QED
    BY <2>1, <1>4 DEF TInv, Typed, SeedWorkspace
<1>6. Typed'
  BY <1>1, <1>2, <1>3, <1>4, <1>5 DEF TInv, Typed
<1>7. Queue' /\ Kind' = Kind /\ Target' = Target
  BY <1>1, <1>2, <1>3, RunMoved
<1>8. Runners'
  BY <1>1, <1>3, <1>7 DEF TInv, Runners
<1> QED
  BY <1>1, <1>2, <1>3, <1>4, <1>6, <1>7, <1>8 DEF TInv

\* The runtime stops; a deletion writes its tombstone again.
LEMMA StopDoes ==
  ASSUME TInv, Stop
  PROVE  /\ TInv'
         /\ Kind' = Kind /\ Target' = Target /\ run.op # 0 /\ run.pc = "stop"
         /\ run'.pc = "record" /\ run'.def = run.def /\ run'.proj = run.proj /\ run'.todo = run.todo
         /\ run'.cur = run.cur /\ run'.tomb = run.tomb
         /\ Target \in Workspaces /\ use'[Target] # "working"
         /\ \A v \in Workspaces : v # Target => use'[v] = use[v]
         /\ use'[Target] = use[Target] \/ use'[Target] = "idle"
         /\ \A v \in Workspaces : v # Target => (v \in slipped' <=> v \in slipped)
         /\ obj'[Target] = IF Kind = "delete" THEN run.tomb ELSE obj[Target]
         /\ \A v \in Workspaces : v # Target => obj'[v] = obj[v]
         /\ UNCHANGED <<project, rows, gone, asks, seed, phase, index, puts, torn, late, stale,
                        unpublished>>
<1>1. run.op # 0 /\ run.pc = "stop"
  BY DEF Stop, At
<1>2. UNCHANGED <<project, rows, gone, asks, seed, phase, index, puts, located, repo, faults, edits,
                  torn, late, stale, unpublished>>
  BY DEF Stop, At, authority, directory, bounds, history
<1>3. /\ run'.pc = "record" /\ run'.def = run.def /\ run'.proj = run.proj /\ run'.todo = run.todo
      /\ run'.cur = run.cur /\ run'.tomb = run.tomb
      /\ run'.op = run.op /\ run' \in Runs /\ ops' = ops
  <2>1. Go("record") /\ "record" \in Positions
    BY DEF Stop, Positions
  <2> QED
    BY <2>1, RunGone
<1>4. /\ Target \in Workspaces /\ use'[Target] # "working"
      /\ \A v \in Workspaces : v # Target => use'[v] = use[v]
      /\ use'[Target] = use[Target] \/ use'[Target] = "idle"
      /\ \A v \in Workspaces : v # Target => (v \in slipped' <=> v \in slipped)
      /\ obj'[Target] = IF Kind = "delete" THEN run.tomb ELSE obj[Target]
      /\ \A v \in Workspaces : v # Target => obj'[v] = obj[v]
  <2>1. Target \in Workspaces
    BY <1>1, Running DEF TInv, Runners, WorkspaceKinds
  <2> QED
    BY <2>1 DEF Stop, Stopped, Settled, TInv, Typed
<1>5. /\ obj' \in [Workspaces -> Objects]
      /\ use' \in [Workspaces -> {"idle", "admitted", "working"}]
      /\ slipped' \subseteq Workspaces
  BY <1>4 DEF Stop, Stopped, Settled, TInv, Typed, Runs
<1>6. Typed'
  BY <1>1, <1>2, <1>3, <1>4, <1>5 DEF TInv, Typed
<1>7. Queue' /\ Kind' = Kind /\ Target' = Target
  BY <1>1, <1>2, <1>3, RunMoved
<1>8. Runners'
  BY <1>1, <1>3, <1>7 DEF TInv, Runners
<1> QED
  BY <1>1, <1>2, <1>3, <1>4, <1>6, <1>7, <1>8 DEF TInv

\* The project records what the object has applied.
LEMMA RecordDoes ==
  ASSUME TInv, Record
  PROVE  /\ TInv'
         /\ \/ Rests
            \/ /\ Kind' = Kind /\ Target' = Target /\ run.op # 0 /\ run.pc = "record"
               /\ run'.pc = "adopt" /\ run'.def = rows'[Target] /\ run'.proj = run.proj
               /\ run'.todo = run.todo /\ run'.cur = run.cur /\ run'.tomb = run.tomb
               /\ Target \in Workspaces /\ Present(Target)
               /\ rows'[Target].life = Outcome(Kind)
               /\ rows'[Target].rev = IF rows[Target].life = Outcome(Kind)
                    THEN rows[Target].rev ELSE rows[Target].rev + 1
               /\ \A v \in Workspaces : v # Target => rows'[v] = rows[v]
               /\ UNCHANGED <<project, gone, asks, obj, seed, phase, use, index, puts, torn, late,
                              stale, slipped, unpublished>>
<1>1. run.op # 0 /\ run.pc = "record"
  BY DEF Record, At
<1>2. UNCHANGED <<project, gone, asks, obj, seed, phase, use, index, puts, located, repo, faults,
                  edits, torn, late, stale, slipped, unpublished>>
  BY DEF Record, At, authority, directory, bounds, history
<1>3. CASE ~(Present(Target))
  <2>1. /\ End("failed")
        /\ UNCHANGED <<project, rows, gone, asks, obj, seed, phase, use, index, puts, history>>
    BY <1>1, <1>2, <1>3 DEF Record, history
  <2>2. Rests /\ ops' \in Seq(Jobs) /\ run' \in Runs /\ Queue' /\ Runners'
    BY <1>1, <2>1, EndRests DEF OpStates
  <2>3. Typed'
    BY <1>2, <2>1, <2>2 DEF TInv, Typed, history
  <2> QED
    BY <2>2, <2>3 DEF TInv
<1>4. CASE Present(Target)
  <2>0. /\ Target \in Workspaces /\ rows' \in [Workspaces -> Records]
        /\ rows'[Target].life = Outcome(Kind)
        /\ rows'[Target].rev = IF rows[Target].life = Outcome(Kind) THEN rows[Target].rev
             ELSE rows[Target].rev + 1
        /\ \A v \in Workspaces : v # Target => rows'[v] = rows[v]
    <3>1. Target \in Workspaces /\ Outcome(Kind) \in RowLives
      BY <1>1, Running DEF TInv, Runners, WorkspaceKinds, Outcome, RowLives
    <3>2. rows' = IF rows[Target].life = Outcome(Kind) THEN rows ELSE Put(Target, Outcome(Kind))
      BY <1>4 DEF Record, Commit
    <3> QED
      BY <3>1, <3>2, PutTyped DEF TInv, Typed
  <2>1. /\ run'.pc = "adopt" /\ run'.def = rows'[Target] /\ run'.proj = run.proj
        /\ run'.todo = run.todo /\ run'.cur = run.cur /\ run'.tomb = run.tomb
        /\ run'.op = run.op /\ run' \in Runs /\ ops' = ops
  <3>1. run' = [run EXCEPT !.def = rows'[Target], !.pc = "adopt"] /\ UNCHANGED ops
      BY <1>4 DEF Record
    <3> QED
      BY <2>0, <3>1 DEF TInv, Typed, Runs, Positions
  <2>2. /\ Target \in Workspaces /\ Present(Target)
        /\ rows'[Target].life = Outcome(Kind)
        /\ rows'[Target].rev = IF rows[Target].life = Outcome(Kind) THEN rows[Target].rev
             ELSE rows[Target].rev + 1
        /\ \A v \in Workspaces : v # Target => rows'[v] = rows[v]
    BY <1>4, <2>0
  <2>3. /\ rows' \in [Workspaces -> Records]
    BY <2>0
  <2>4. Typed'
    BY <1>1, <1>2, <1>4, <2>1, <2>2, <2>3 DEF TInv, Typed
  <2>5. Queue' /\ Kind' = Kind /\ Target' = Target
    BY <1>1, <1>2, <2>1, RunMoved
  <2>6. Runners'
    BY <1>1, <1>4, <2>1, <2>5 DEF TInv, Runners
  <2> QED
    BY <1>1, <1>2, <1>4, <2>1, <2>2, <2>4, <2>5, <2>6 DEF TInv
<1> QED
  BY <1>3, <1>4

\* The object adopts what the project recorded.
LEMMA AdoptedDoes ==
  ASSUME TInv, Adopted
  PROVE  /\ TInv'
         /\ Kind' = Kind /\ Target' = Target /\ run.op # 0 /\ run.pc = "adopt"
         /\ run'.pc = (IF Kind = "delete" THEN "unrepo" ELSE "end")
         /\ run'.def = run.def /\ run'.proj = run.proj /\ run'.todo = run.todo /\ run'.cur = run.cur
         /\ run'.tomb = run.tomb
         /\ LET new == obj[Target].life = "none" \/ run.def.rev > obj[Target].rev
            IN  /\ obj'[Target].life = IF new THEN run.def.life ELSE obj[Target].life
                /\ obj'[Target].rev = IF new THEN run.def.rev ELSE obj[Target].rev
         /\ obj'[Target].plife = obj[Target].plife /\ obj'[Target].prev = obj[Target].prev
         /\ Target \in Workspaces /\ torn' = torn \ {Target}
         /\ \A v \in Workspaces : v # Target => obj'[v] = obj[v]
         /\ UNCHANGED <<project, rows, gone, asks, seed, phase, use, index, puts, late, stale, slipped,
                        unpublished>>
<1>1. run.op # 0 /\ run.pc = "adopt"
  BY DEF Adopted, At
<1>2. UNCHANGED <<project, rows, gone, asks, seed, phase, use, index, puts, located, repo, faults,
                  edits, late, stale, slipped, unpublished>>
  BY DEF Adopted, At, authority, directory, bounds, history
<1>3. /\ run'.pc = (IF Kind = "delete" THEN "unrepo" ELSE "end")
      /\ run'.def = run.def /\ run'.proj = run.proj /\ run'.todo = run.todo /\ run'.cur = run.cur
      /\ run'.tomb = run.tomb
      /\ run'.op = run.op /\ run' \in Runs /\ ops' = ops
  <2>1. Go(IF Kind = "delete" THEN "unrepo" ELSE "end")
    BY DEF Adopted
  <2>2. (IF Kind = "delete" THEN "unrepo" ELSE "end") \in Positions
    BY DEF Positions
  <2> QED
    BY <2>1, <2>2, RunGone
<1>4. /\ LET new == obj[Target].life = "none" \/ run.def.rev > obj[Target].rev
         IN  /\ obj'[Target].life = IF new THEN run.def.life ELSE obj[Target].life
             /\ obj'[Target].rev = IF new THEN run.def.rev ELSE obj[Target].rev
      /\ obj'[Target].plife = obj[Target].plife /\ obj'[Target].prev = obj[Target].prev
      /\ Target \in Workspaces /\ torn' = torn \ {Target}
      /\ \A v \in Workspaces : v # Target => obj'[v] = obj[v]
  <2>1. Target \in Workspaces
    BY <1>1, Running DEF TInv, Runners, WorkspaceKinds
  <2> QED
    BY <2>1 DEF Adopted, AdoptRow, Adopt, TInv, Typed
<1>5. /\ obj' \in [Workspaces -> Objects]
      /\ torn' \subseteq Workspaces
  <2>1. AdoptRow(obj[Target], run.def) \in Objects
    BY <1>4, Fields, AdoptTyped DEF TInv, Typed
  <2> QED
    BY <2>1, <1>4 DEF TInv, Typed, Adopted
<1>6. Typed'
  BY <1>1, <1>2, <1>3, <1>4, <1>5 DEF TInv, Typed
<1>7. Queue' /\ Kind' = Kind /\ Target' = Target
  BY <1>1, <1>2, <1>3, RunMoved
<1>8. Runners'
  BY <1>1, <1>3, <1>7 DEF TInv, Runners
<1> QED
  BY <1>1, <1>2, <1>3, <1>4, <1>6, <1>7, <1>8 DEF TInv

\* The repository of a deleted workspace goes.
LEMMA UnrepoDoes ==
  ASSUME TInv, Unrepo
  PROVE  /\ TInv'
         /\ \/ Rests
            \/ /\ Kind' = Kind /\ Target' = Target /\ run.op # 0 /\ run.pc = "unrepo"
               /\ run'.pc = "remove" /\ run'.def = run.def /\ run'.proj = run.proj
               /\ run'.todo = run.todo /\ run'.cur = run.cur /\ run'.tomb = run.tomb
               /\ run.def.life # "none"
               /\ UNCHANGED <<project, rows, gone, asks, obj, seed, phase, use, index, puts, torn,
                              late, stale, slipped, unpublished>>
<1>1. run.op # 0 /\ run.pc = "unrepo"
  BY DEF Unrepo, At
<1>2. UNCHANGED <<project, rows, gone, asks, obj, seed, phase, use, index, puts, located, faults,
                  edits, torn, late, stale, slipped, unpublished>>
  BY DEF Unrepo, At, authority, directory, bounds, history
<1>3. CASE ~(run.def.life # "none")
  <2>1. /\ Go("unlocate") /\ repo' \subseteq Workspaces
        /\ UNCHANGED <<project, rows, gone, asks, obj, seed, phase, use, index, puts, history>>
    BY <1>1, <1>2, <1>3 DEF Unrepo, history, TInv, Typed
  <2>2. Rests /\ ops' \in Seq(Jobs) /\ run' \in Runs /\ Queue' /\ Runners'
    BY <1>1, <2>1, GoRests DEF TInv, Runners
  <2>3. Typed'
    BY <1>2, <2>1, <2>2 DEF TInv, Typed, history
  <2> QED
    BY <2>2, <2>3 DEF TInv
<1>4. CASE run.def.life # "none"
  <2>1. /\ run'.pc = "remove" /\ run'.def = run.def /\ run'.proj = run.proj /\ run'.todo = run.todo
        /\ run'.cur = run.cur /\ run'.tomb = run.tomb
        /\ run'.op = run.op /\ run' \in Runs /\ ops' = ops
  <3>1. Go("remove") /\ "remove" \in Positions
      BY <1>4 DEF Unrepo, Positions
    <3> QED
      BY <3>1, RunGone
  <2>2. /\ run.def.life # "none"
    BY <1>4
  <2>3. /\ repo' \subseteq Workspaces
    BY DEF Unrepo, TInv, Typed
  <2>4. Typed'
    BY <1>1, <1>2, <1>4, <2>1, <2>2, <2>3 DEF TInv, Typed
  <2>5. Queue' /\ Kind' = Kind /\ Target' = Target
    BY <1>1, <1>2, <2>1, RunMoved
  <2>6. Runners'
    BY <1>1, <1>4, <2>1, <2>5 DEF TInv, Runners
  <2> QED
    BY <1>1, <1>2, <1>4, <2>1, <2>2, <2>4, <2>5, <2>6 DEF TInv
<1> QED
  BY <1>3, <1>4

\* The definition of a deleted workspace goes.
LEMMA RemoveRowDoes ==
  ASSUME TInv, RemoveRow
  PROVE  /\ TInv'
         /\ Kind' = Kind /\ Target' = Target /\ run.op # 0 /\ run.pc = "remove"
         /\ run'.pc = "unlocate" /\ run'.def = run.def /\ run'.proj = run.proj /\ run'.todo = run.todo
         /\ run'.cur = run.cur /\ run'.tomb = run.tomb
         /\ Target \in Workspaces
         /\ rows'[Target] = NoRow /\ (\A v \in Workspaces : v # Target => rows'[v] = rows[v])
         /\ gone' = IF Present(Target) THEN gone \cup {Target} ELSE gone
         /\ UNCHANGED <<project, asks, obj, seed, phase, use, index, puts, torn, late, stale, slipped,
                        unpublished>>
<1>1. run.op # 0 /\ run.pc = "remove"
  BY DEF RemoveRow, At
<1>2. UNCHANGED <<project, asks, obj, seed, phase, use, index, puts, located, repo, faults, edits,
                  torn, late, stale, slipped, unpublished>>
  BY DEF RemoveRow, At, authority, directory, bounds, history
<1>3. /\ run'.pc = "unlocate" /\ run'.def = run.def /\ run'.proj = run.proj /\ run'.todo = run.todo
      /\ run'.cur = run.cur /\ run'.tomb = run.tomb
      /\ run'.op = run.op /\ run' \in Runs /\ ops' = ops
  <2>1. Go("unlocate") /\ "unlocate" \in Positions
    BY DEF RemoveRow, Positions
  <2> QED
    BY <2>1, RunGone
<1>4. /\ Target \in Workspaces
      /\ rows'[Target] = NoRow /\ (\A v \in Workspaces : v # Target => rows'[v] = rows[v])
      /\ gone' = IF Present(Target) THEN gone \cup {Target} ELSE gone
  <2>1. Target \in Workspaces
    BY <1>1, Running DEF TInv, Runners, WorkspaceKinds
  <2> QED
    BY <2>1 DEF RemoveRow, TInv, Typed
<1>5. /\ rows' \in [Workspaces -> Records]
      /\ gone' \subseteq Workspaces
  BY <1>4, Blank DEF RemoveRow, TInv, Typed
<1>6. Typed'
  BY <1>1, <1>2, <1>3, <1>4, <1>5 DEF TInv, Typed
<1>7. Queue' /\ Kind' = Kind /\ Target' = Target
  BY <1>1, <1>2, <1>3, RunMoved
<1>8. Runners'
  BY <1>1, <1>3, <1>7 DEF TInv, Runners
<1> QED
  BY <1>1, <1>2, <1>3, <1>4, <1>6, <1>7, <1>8 DEF TInv

\* The workspaces are listed.
LEMMA ListDoes ==
  ASSUME TInv, List
  PROVE  /\ TInv'
         /\ Kind' = Kind /\ Target' = Target /\ run.op # 0 /\ run.pc = "list"
         /\ run'.pc = "each" /\ run'.def = run.def /\ run'.proj = run.proj /\ run'.cur = run.cur
         /\ run'.tomb = run.tomb
         /\ run'.todo = {w \in Workspaces :
                           Present(w) /\ (Kind = "pdelete" \/ rows[w].life # "deleting")}
         /\ UNCHANGED <<project, rows, gone, asks, obj, seed, phase, use, index, puts, torn, late,
                        stale, slipped, unpublished>>
<1>1. run.op # 0 /\ run.pc = "list"
  BY DEF List, At
<1>2. UNCHANGED <<project, rows, gone, asks, obj, seed, phase, use, index, puts, located, repo, faults,
                  edits, torn, late, stale, slipped, unpublished>>
  BY DEF List, At, authority, directory, bounds, history
<1>3. /\ run'.pc = "each" /\ run'.def = run.def /\ run'.proj = run.proj /\ run'.cur = run.cur
      /\ run'.tomb = run.tomb
      /\ run'.todo = {w \in Workspaces : Present(w) /\ (Kind = "pdelete" \/ rows[w].life # "deleting")}
      /\ run'.op = run.op /\ run' \in Runs /\ ops' = ops
  <2> DEFINE listed == {w \in Workspaces :
                          Present(w) /\ (Kind = "pdelete" \/ rows[w].life # "deleting")}
  <2>1. run' = [run EXCEPT !.pc = "each", !.todo = listed] /\ ops' = ops /\ listed \in SUBSET Workspaces
    BY DEF List
  <2> HIDE DEF listed
  <2>2. run'.todo = listed /\ run'.pc = "each" /\ run'.op = run.op /\ run' \in Runs
    BY <2>1 DEF TInv, Typed, Runs, Positions
  <2>3. run'.def = run.def /\ run'.proj = run.proj /\ run'.cur = run.cur /\ run'.tomb = run.tomb
    BY <2>1 DEF TInv, Typed, Runs
  <2> QED
    BY <2>1, <2>2, <2>3 DEF listed
<1>4. Typed'
  BY <1>1, <1>2, <1>3 DEF TInv, Typed
<1>5. Queue' /\ Kind' = Kind /\ Target' = Target
  BY <1>1, <1>2, <1>3, RunMoved
<1>6. Runners'
  BY <1>1, <1>3, <1>5 DEF TInv, Runners
<1> QED
  BY <1>1, <1>2, <1>3, <1>4, <1>5, <1>6 DEF TInv

\* Every workspace that was listed has been reached.
LEMMA ReachedDoes ==
  ASSUME TInv, Reached
  PROVE  /\ TInv'
         /\ Kind' = Kind /\ Target' = Target /\ run.op # 0 /\ run.pc = "each"
         /\ run'.pc = (IF Kind = "pdelete" THEN "tomb" ELSE "settle")
         /\ run'.def = run.def /\ run'.proj = run.proj /\ run'.todo = run.todo /\ run'.cur = run.cur
         /\ run'.tomb = run.tomb
         /\ run.todo = {}
         /\ UNCHANGED <<project, rows, gone, asks, obj, seed, phase, use, index, puts, torn, late,
                        stale, slipped, unpublished>>
<1>1. run.op # 0 /\ run.pc = "each"
  BY DEF Reached, At
<1>2. UNCHANGED <<project, rows, gone, asks, obj, seed, phase, use, index, puts, located, repo, faults,
                  edits, torn, late, stale, slipped, unpublished>>
  BY DEF Reached, At, authority, directory, bounds, history
<1>3. /\ run'.pc = (IF Kind = "pdelete" THEN "tomb" ELSE "settle")
      /\ run'.def = run.def /\ run'.proj = run.proj /\ run'.todo = run.todo /\ run'.cur = run.cur
      /\ run'.tomb = run.tomb
      /\ run'.op = run.op /\ run' \in Runs /\ ops' = ops
  <2>1. Go(IF Kind = "pdelete" THEN "tomb" ELSE "settle")
    BY DEF Reached
  <2>2. (IF Kind = "pdelete" THEN "tomb" ELSE "settle") \in Positions
    BY DEF Positions
  <2> QED
    BY <2>1, <2>2, RunGone
<1>4. /\ run.todo = {}
  BY DEF Reached
<1>5. Typed'
  BY <1>1, <1>2, <1>3, <1>4 DEF TInv, Typed
<1>6. Queue' /\ Kind' = Kind /\ Target' = Target
  BY <1>1, <1>2, <1>3, RunMoved
<1>7. Runners'
  BY <1>1, <1>3, <1>6, Running DEF TInv, Runners, ProjectKinds
<1> QED
  BY <1>1, <1>2, <1>3, <1>4, <1>5, <1>6, <1>7 DEF TInv

\* The summary goes to the directory.
LEMMA PublishDoes ==
  ASSUME TInv, Publish
  PROVE  /\ TInv'
         /\ Kind' = Kind /\ Target' = Target /\ run.op # 0 /\ run.pc = "publish"
         /\ run'.pc = "end" /\ run'.def = run.def /\ run'.proj = run.proj /\ run'.todo = run.todo
         /\ run'.cur = run.cur /\ run'.tomb = run.tomb
         /\ index' = IndexPut(run.proj) /\ unpublished' = FALSE
         /\ UNCHANGED <<project, rows, gone, asks, obj, seed, phase, use, puts, torn, late, stale,
                        slipped>>
<1>1. run.op # 0 /\ run.pc = "publish"
  BY DEF Publish, At
<1>2. UNCHANGED <<project, rows, gone, asks, obj, seed, phase, use, puts, located, repo, faults, edits,
                  torn, late, stale, slipped>>
  BY DEF Publish, At, authority, directory, bounds, history
<1>3. /\ run'.pc = "end" /\ run'.def = run.def /\ run'.proj = run.proj /\ run'.todo = run.todo
      /\ run'.cur = run.cur /\ run'.tomb = run.tomb
      /\ run'.op = run.op /\ run' \in Runs /\ ops' = ops
  <2>1. Go("end") /\ "end" \in Positions
    BY DEF Publish, Positions
  <2> QED
    BY <2>1, RunGone
<1>4. /\ index' = IndexPut(run.proj) /\ unpublished' = FALSE
  BY DEF Publish
<1>5. /\ index' \in Summaries
      /\ unpublished' \in BOOLEAN
  BY <1>4 DEF IndexPut, TInv, Typed, Runs
<1>6. Typed'
  BY <1>1, <1>2, <1>3, <1>4, <1>5 DEF TInv, Typed
<1>7. Queue' /\ Kind' = Kind /\ Target' = Target
  BY <1>1, <1>2, <1>3, RunMoved
<1>8. Runners'
  BY <1>1, <1>3, <1>7 DEF TInv, Runners
<1> QED
  BY <1>1, <1>2, <1>3, <1>4, <1>6, <1>7, <1>8 DEF TInv

\* The project leaves the directory.
LEMMA UnindexDoes ==
  ASSUME TInv, Unindex
  PROVE  /\ TInv'
         /\ Kind' = Kind /\ Target' = Target /\ run.op # 0 /\ run.pc = "unindex"
         /\ run'.pc = "end" /\ run'.def = run.def /\ run'.proj = run.proj /\ run'.todo = run.todo
         /\ run'.cur = run.cur /\ run'.tomb = run.tomb
         /\ index' = NoRow
         /\ UNCHANGED <<project, rows, gone, asks, obj, seed, phase, use, puts, torn, late, stale,
                        slipped, unpublished>>
<1>1. run.op # 0 /\ run.pc = "unindex"
  BY DEF Unindex, At
<1>2. UNCHANGED <<project, rows, gone, asks, obj, seed, phase, use, puts, repo, faults, edits, torn,
                  late, stale, slipped, unpublished>>
  BY DEF Unindex, At, authority, directory, bounds, history
<1>3. /\ run'.pc = "end" /\ run'.def = run.def /\ run'.proj = run.proj /\ run'.todo = run.todo
      /\ run'.cur = run.cur /\ run'.tomb = run.tomb
      /\ run'.op = run.op /\ run' \in Runs /\ ops' = ops
  <2>1. Go("end") /\ "end" \in Positions
    BY DEF Unindex, Positions
  <2> QED
    BY <2>1, RunGone
<1>4. /\ index' = NoRow
  BY DEF Unindex
<1>5. /\ index' \in Summaries
      /\ located' \subseteq Workspaces
  BY Blank DEF Unindex
<1>6. Typed'
  BY <1>1, <1>2, <1>3, <1>4, <1>5 DEF TInv, Typed
<1>7. Queue' /\ Kind' = Kind /\ Target' = Target
  BY <1>1, <1>2, <1>3, RunMoved
<1>8. Runners'
  BY <1>1, <1>3, <1>7 DEF TInv, Runners
<1> QED
  BY <1>1, <1>2, <1>3, <1>4, <1>6, <1>7, <1>8 DEF TInv

\* The creation records its source.
LEMMA SourceDoes ==
  ASSUME TInv, Source
  PROVE  /\ TInv'
         /\ \/ Rests
            \/ /\ Kind' = Kind /\ Target' = Target /\ run.op # 0 /\ run.pc = "source"
               /\ run'.pc = "fork" /\ run'.def = rows'[Target] /\ run'.proj = run.proj
               /\ run'.todo = run.todo /\ run'.cur = run.cur /\ run'.tomb = run.tomb
               /\ Target \in Workspaces /\ CanPut(Target, run.def.rev)
               /\ rows'[Target].life = "provisioning" /\ rows'[Target].rev = rows[Target].rev + 1
               /\ \A v \in Workspaces : v # Target => rows'[v] = rows[v]
               /\ UNCHANGED <<project, gone, asks, obj, seed, phase, use, index, puts, torn, late,
                              stale, slipped, unpublished>>
<1>1. run.op # 0 /\ run.pc = "source"
  BY DEF Source, At
<1>2. UNCHANGED <<project, gone, asks, obj, seed, phase, use, index, puts, located, repo, faults,
                  edits, torn, late, stale, slipped, unpublished>>
  BY DEF Source, At, authority, directory, bounds, history
<1>3. CASE ~(CanPut(Target, run.def.rev))
  <2>1. /\ Go("mark")
        /\ UNCHANGED <<project, rows, gone, asks, obj, seed, phase, use, index, puts, history>>
    BY <1>1, <1>2, <1>3 DEF Source, history
  <2>2. Rests /\ ops' \in Seq(Jobs) /\ run' \in Runs /\ Queue' /\ Runners'
    BY <1>1, <2>1, GoRests DEF TInv, Runners
  <2>3. Typed'
    BY <1>2, <2>1, <2>2 DEF TInv, Typed, history
  <2> QED
    BY <2>2, <2>3 DEF TInv
<1>4. CASE CanPut(Target, run.def.rev)
  <2>0. /\ Target \in Workspaces /\ rows' \in [Workspaces -> Records]
        /\ rows'[Target].life = "provisioning" /\ rows'[Target].rev = rows[Target].rev + 1
        /\ \A v \in Workspaces : v # Target => rows'[v] = rows[v]
    <3>1. Target \in Workspaces /\ "provisioning" \in RowLives
      BY <1>1, Running DEF TInv, Runners, WorkspaceKinds, RowLives
    <3>2. rows' = Put(Target, "provisioning")
      BY <1>4 DEF Source
    <3> QED
      BY <3>1, <3>2, PutTyped
  <2>1. /\ run'.pc = "fork" /\ run'.def = rows'[Target] /\ run'.proj = run.proj /\ run'.todo = run.todo
        /\ run'.cur = run.cur /\ run'.tomb = run.tomb
        /\ run'.op = run.op /\ run' \in Runs /\ ops' = ops
  <3>1. run' = [run EXCEPT !.def = rows'[Target], !.pc = "fork"] /\ UNCHANGED ops
      BY <1>4 DEF Source
    <3> QED
      BY <2>0, <3>1 DEF TInv, Typed, Runs, Positions
  <2>2. /\ Target \in Workspaces /\ CanPut(Target, run.def.rev)
        /\ rows'[Target].life = "provisioning" /\ rows'[Target].rev = rows[Target].rev + 1
        /\ \A v \in Workspaces : v # Target => rows'[v] = rows[v]
    BY <1>4, <2>0
  <2>3. /\ rows' \in [Workspaces -> Records]
    BY <2>0
  <2>4. Typed'
    BY <1>1, <1>2, <1>4, <2>1, <2>2, <2>3 DEF TInv, Typed
  <2>5. Queue' /\ Kind' = Kind /\ Target' = Target
    BY <1>1, <1>2, <2>1, RunMoved
  <2>6. Runners'
    BY <1>1, <1>4, <2>1, <2>5 DEF TInv, Runners
  <2> QED
    BY <1>1, <1>2, <1>4, <2>1, <2>2, <2>4, <2>5, <2>6 DEF TInv
<1> QED
  BY <1>3, <1>4

\* The creation records that the workspace is in use.
LEMMA ActivateDoes ==
  ASSUME TInv, Activate
  PROVE  /\ TInv'
         /\ \/ Rests
            \/ /\ Kind' = Kind /\ Target' = Target /\ run.op # 0 /\ run.pc = "activate"
               /\ run'.pc = "seed" /\ run'.def = rows'[Target] /\ run'.proj = run.proj
               /\ run'.todo = run.todo /\ run'.cur = run.cur /\ run'.tomb = run.tomb
               /\ Target \in Workspaces /\ CanPut(Target, run.def.rev)
               /\ rows'[Target].life = "active" /\ rows'[Target].rev = rows[Target].rev + 1
               /\ \A v \in Workspaces : v # Target => rows'[v] = rows[v]
               /\ torn' = torn \cup {Target}
               /\ UNCHANGED <<project, gone, asks, obj, seed, phase, use, index, puts, late, stale,
                              slipped, unpublished>>
<1>1. run.op # 0 /\ run.pc = "activate"
  BY DEF Activate, At
<1>2. UNCHANGED <<project, gone, asks, obj, seed, phase, use, index, puts, located, repo, faults,
                  edits, late, stale, slipped, unpublished>>
  BY DEF Activate, At, authority, directory, bounds, history
<1>3. CASE ~(CanPut(Target, run.def.rev))
  <2>1. /\ Go("mark")
        /\ UNCHANGED <<project, rows, gone, asks, obj, seed, phase, use, index, puts, history>>
    BY <1>1, <1>2, <1>3 DEF Activate, history
  <2>2. Rests /\ ops' \in Seq(Jobs) /\ run' \in Runs /\ Queue' /\ Runners'
    BY <1>1, <2>1, GoRests DEF TInv, Runners
  <2>3. Typed'
    BY <1>2, <2>1, <2>2 DEF TInv, Typed, history
  <2> QED
    BY <2>2, <2>3 DEF TInv
<1>4. CASE CanPut(Target, run.def.rev)
  <2>0. /\ Target \in Workspaces /\ rows' \in [Workspaces -> Records]
        /\ rows'[Target].life = "active" /\ rows'[Target].rev = rows[Target].rev + 1
        /\ \A v \in Workspaces : v # Target => rows'[v] = rows[v]
    <3>1. Target \in Workspaces /\ "active" \in RowLives
      BY <1>1, Running DEF TInv, Runners, WorkspaceKinds, RowLives
    <3>2. rows' = Put(Target, "active")
      BY <1>4 DEF Activate
    <3> QED
      BY <3>1, <3>2, PutTyped
  <2>1. /\ run'.pc = "seed" /\ run'.def = rows'[Target] /\ run'.proj = run.proj /\ run'.todo = run.todo
        /\ run'.cur = run.cur /\ run'.tomb = run.tomb
        /\ run'.op = run.op /\ run' \in Runs /\ ops' = ops
  <3>1. run' = [run EXCEPT !.def = rows'[Target], !.pc = "seed"] /\ UNCHANGED ops
      BY <1>4 DEF Activate
    <3> QED
      BY <2>0, <3>1 DEF TInv, Typed, Runs, Positions
  <2>2. /\ Target \in Workspaces /\ CanPut(Target, run.def.rev)
        /\ rows'[Target].life = "active" /\ rows'[Target].rev = rows[Target].rev + 1
        /\ \A v \in Workspaces : v # Target => rows'[v] = rows[v]
        /\ torn' = torn \cup {Target}
    BY <1>4, <2>0 DEF Activate
  <2>3. /\ rows' \in [Workspaces -> Records]
        /\ torn' \subseteq Workspaces
    BY <1>4, <2>0 DEF Activate, TInv, Typed
  <2>4. Typed'
    BY <1>1, <1>2, <1>4, <2>1, <2>2, <2>3 DEF TInv, Typed
  <2>5. Queue' /\ Kind' = Kind /\ Target' = Target
    BY <1>1, <1>2, <2>1, RunMoved
  <2>6. Runners'
    BY <1>1, <1>4, <2>1, <2>5 DEF TInv, Runners
  <2> QED
    BY <1>1, <1>2, <1>4, <2>1, <2>2, <2>4, <2>5, <2>6 DEF TInv
<1> QED
  BY <1>3, <1>4

\* A creation that failed.
LEMMA MarkFailedDoes ==
  ASSUME TInv, MarkFailed
  PROVE  /\ TInv'
         /\ run' = NoRun /\ Target \in Workspaces
         /\ \/ rows' = rows
            \/ /\ rows[Target].life = "provisioning" /\ rows'[Target].life = "failed"
               /\ rows'[Target].rev = rows[Target].rev + 1
               /\ \A v \in Workspaces : v # Target => rows'[v] = rows[v]
         /\ UNCHANGED <<project, gone, asks, obj, seed, phase, use, index, puts, torn, late, stale,
                        slipped, unpublished>>
<1>1. run.op # 0 /\ run.pc = "mark" /\ End("failed")
  BY DEF MarkFailed, At
<1>2. UNCHANGED <<project, gone, asks, obj, seed, phase, use, index, puts, located, repo, faults,
                  edits, torn, late, stale, slipped, unpublished>>
  BY DEF MarkFailed, At, authority, directory, bounds, history
<1>3. run' = NoRun /\ ops' \in Seq(Jobs) /\ Queue' /\ Runners'
  BY <1>1, <1>2, RunEnded DEF OpStates
<1>4. Target \in Workspaces
  BY <1>1, Running DEF TInv, Runners, WorkspaceKinds
<1>5. /\ rows' \in [Workspaces -> Records]
      /\ \/ rows' = rows
         \/ /\ rows[Target].life = "provisioning" /\ rows'[Target].life = "failed"
            /\ rows'[Target].rev = rows[Target].rev + 1
            /\ \A v \in Workspaces : v # Target => rows'[v] = rows[v]
  <2>1. \/ rows' = rows
        \/ rows[Target].life = "provisioning" /\ rows' = Put(Target, "failed")
    BY DEF MarkFailed
  <2>2. "failed" \in RowLives /\ rows \in [Workspaces -> Records]
    BY DEF RowLives, TInv, Typed
  <2> QED
    BY <1>4, <2>1, <2>2, PutTyped
<1>6. Typed'
  BY <1>2, <1>3, <1>5, Blank DEF TInv, Typed
<1> QED
  BY <1>2, <1>3, <1>4, <1>5, <1>6 DEF TInv

\* The project is read.
LEMMA BeginProjectDoes ==
  ASSUME TInv, BeginProject
  PROVE  /\ TInv'
         /\ \/ Rests
            \/ /\ Kind = "pdelete" /\ Kind' = Kind /\ Target' = Target
               /\ run'.pc = "list" /\ run'.proj = project /\ run'.todo = run.todo
               /\ UNCHANGED <<project, rows, gone, asks, obj, seed, phase, use, index, puts, torn,
                              late, stale, slipped, unpublished>>
<1>1. run.op # 0 /\ run.pc = "begin" /\ Kind \in ProjectKinds
  BY DEF BeginProject, At, TInv, Runners
<1>2. UNCHANGED <<project, rows, gone, asks, obj, seed, phase, use, index, puts, located, repo, faults,
                  edits, torn, late, stale, slipped, unpublished>>
  BY DEF BeginProject, At, authority, directory, bounds, history
<1>3. CASE project.life = "deleting" /\ Kind # "pdelete"
  <2>1. End("failed")
    BY <1>3 DEF BeginProject
  <2>2. Rests /\ ops' \in Seq(Jobs) /\ run' \in Runs /\ Queue' /\ Runners'
    BY <1>1, <1>2, <2>1, EndRests DEF OpStates, history
  <2>3. Typed'
    BY <1>2, <2>2 DEF TInv, Typed
  <2> QED
    BY <2>2, <2>3 DEF TInv
<1>4. CASE ~(project.life = "deleting" /\ Kind # "pdelete")
  <2> DEFINE pc == IF Kind = "pdelete" THEN "list" ELSE "set"
  <2>1. run' = [run EXCEPT !.proj = project, !.pc = pc] /\ UNCHANGED ops
    BY <1>4 DEF BeginProject
  <2>2. pc \in {"list", "set"} /\ pc \in Positions
    BY DEF Positions
  <2>3. pc = "list" <=> Kind = "pdelete"
    OBVIOUS
  <2> HIDE DEF pc
  <2>4. run' \in Runs /\ run'.op = run.op /\ run'.pc = pc /\ run'.proj = project /\ run'.todo = run.todo
    BY <2>1, <2>2 DEF TInv, Typed, Runs
  <2>5. Queue' /\ Kind' = Kind /\ Target' = Target
    BY <1>1, <1>2, <2>1, <2>2, <2>4, RunMoved
  <2>6. Runners'
    BY <1>1, <2>2, <2>3, <2>4, <2>5 DEF Runners, ProjectKinds
  <2>7. Typed'
    BY <1>2, <2>1, <2>4 DEF TInv, Typed
  <2>8. CASE pc = "list"
    BY <1>2, <2>3, <2>4, <2>5, <2>6, <2>7, <2>8 DEF TInv
  <2>9. CASE pc = "set"
    <3>1. Rests
      BY <1>2, <2>4, <2>9 DEF Rests, history
    <3> QED
      BY <2>5, <2>6, <2>7, <3>1 DEF TInv
  <2> QED
    BY <2>2, <2>8, <2>9
<1> QED
  BY <1>3, <1>4

\* The project is marked.
LEMMA SetProjectDoes ==
  ASSUME TInv, SetProject
  PROVE  /\ TInv'
         /\ \/ Rests
            \/ /\ Kind' = Kind /\ Target' = Target /\ run.op # 0 /\ run.pc = "set"
               /\ run'.pc = "list" /\ run'.proj = project' /\ run'.def = run.def
               /\ run'.todo = run.todo /\ run'.cur = run.cur /\ run'.tomb = run.tomb
               /\ CanSet(run.proj.rev) /\ Kind \in {"parchive", "prestore"}
               /\ project'.life = (IF Kind = "parchive" THEN "archiving" ELSE "restoring")
               /\ project'.rev = project.rev + 1
               /\ UNCHANGED <<rows, gone, asks, obj, seed, phase, use, index, puts, torn, late, stale,
                              slipped, unpublished>>
<1>1. run.op # 0 /\ run.pc = "set"
  BY DEF SetProject, At
<1>2. UNCHANGED <<rows, gone, asks, obj, seed, phase, use, index, puts, located, repo, faults, edits,
                  torn, late, stale, slipped, unpublished>>
  BY DEF SetProject, At, authority, directory, bounds, history
<1>3. CASE ~(CanSet(run.proj.rev))
  <2>1. /\ End("failed")
        /\ UNCHANGED <<project, rows, gone, asks, obj, seed, phase, use, index, puts, history>>
    BY <1>1, <1>2, <1>3 DEF SetProject, history
  <2>2. Rests /\ ops' \in Seq(Jobs) /\ run' \in Runs /\ Queue' /\ Runners'
    BY <1>1, <2>1, EndRests DEF OpStates
  <2>3. Typed'
    BY <1>2, <2>1, <2>2 DEF TInv, Typed, history
  <2> QED
    BY <2>2, <2>3 DEF TInv
<1>4. CASE CanSet(run.proj.rev)
  <2>0. /\ project' \in Summaries /\ Kind \in {"parchive", "prestore"}
        /\ project'.life = (IF Kind = "parchive" THEN "archiving" ELSE "restoring")
        /\ project'.rev = project.rev + 1
    BY <1>1, <1>4, Fields DEF SetProject, SetTo, Summaries, ProjectLives, TInv, Runners
  <2>1. /\ run'.pc = "list" /\ run'.proj = project' /\ run'.def = run.def /\ run'.todo = run.todo
        /\ run'.cur = run.cur /\ run'.tomb = run.tomb
        /\ run'.op = run.op /\ run' \in Runs /\ ops' = ops
  <3>1. run' = [run EXCEPT !.proj = project', !.pc = "list"] /\ UNCHANGED ops
      BY <1>4 DEF SetProject
    <3> QED
      BY <2>0, <3>1 DEF TInv, Typed, Runs, Positions
  <2>2. /\ CanSet(run.proj.rev) /\ Kind \in {"parchive", "prestore"}
        /\ project'.life = (IF Kind = "parchive" THEN "archiving" ELSE "restoring")
        /\ project'.rev = project.rev + 1
    BY <1>4, <2>0
  <2>3. /\ project' \in Summaries
    BY <1>4, <2>0
  <2>4. Typed'
    BY <1>1, <1>2, <1>4, <2>1, <2>2, <2>3 DEF TInv, Typed
  <2>5. Queue' /\ Kind' = Kind /\ Target' = Target
    BY <1>1, <1>2, <2>1, RunMoved
  <2>6. Runners'
    BY <1>1, <1>4, <2>1, <2>5 DEF TInv, Runners, ProjectKinds
  <2> QED
    BY <1>1, <1>2, <1>4, <2>1, <2>2, <2>4, <2>5, <2>6 DEF TInv
<1> QED
  BY <1>3, <1>4

\* The project's change is recorded.
LEMMA SettleDoes ==
  ASSUME TInv, Settle
  PROVE  /\ TInv'
         /\ \/ Rests
            \/ /\ Kind' = Kind /\ Target' = Target /\ run.op # 0 /\ run.pc = "settle"
               /\ run'.pc = "publish" /\ run'.proj = project' /\ run'.def = run.def
               /\ run'.todo = run.todo /\ run'.cur = run.cur /\ run'.tomb = run.tomb
               /\ CanSet(run.proj.rev) /\ Kind \in {"parchive", "prestore"}
               /\ project'.life = (IF Kind = "parchive" THEN "archived" ELSE "active")
               /\ project'.rev = project.rev + 1
               /\ unpublished'
               /\ UNCHANGED <<rows, gone, asks, obj, seed, phase, use, index, puts, torn, late, stale,
                              slipped>>
<1>1. run.op # 0 /\ run.pc = "settle"
  BY DEF Settle, At
<1>2. UNCHANGED <<rows, gone, asks, obj, seed, phase, use, index, puts, located, repo, faults, edits,
                  torn, late, stale, slipped>>
  BY DEF Settle, At, authority, directory, bounds, history
<1>3. CASE ~(CanSet(run.proj.rev))
  <2>1. /\ End("failed")
        /\ UNCHANGED <<project, rows, gone, asks, obj, seed, phase, use, index, puts, history>>
    BY <1>1, <1>2, <1>3 DEF Settle, history
  <2>2. Rests /\ ops' \in Seq(Jobs) /\ run' \in Runs /\ Queue' /\ Runners'
    BY <1>1, <2>1, EndRests DEF OpStates
  <2>3. Typed'
    BY <1>2, <2>1, <2>2 DEF TInv, Typed, history
  <2> QED
    BY <2>2, <2>3 DEF TInv
<1>4. CASE CanSet(run.proj.rev)
  <2>0. /\ project' \in Summaries /\ Kind \in {"parchive", "prestore"}
        /\ project'.life = (IF Kind = "parchive" THEN "archived" ELSE "active")
        /\ project'.rev = project.rev + 1
    BY <1>1, <1>4, Fields DEF Settle, SetTo, Summaries, ProjectLives, TInv, Runners
  <2>1. /\ run'.pc = "publish" /\ run'.proj = project' /\ run'.def = run.def /\ run'.todo = run.todo
        /\ run'.cur = run.cur /\ run'.tomb = run.tomb
        /\ run'.op = run.op /\ run' \in Runs /\ ops' = ops
  <3>1. run' = [run EXCEPT !.proj = project', !.pc = "publish"] /\ UNCHANGED ops
      BY <1>4 DEF Settle
    <3> QED
      BY <2>0, <3>1 DEF TInv, Typed, Runs, Positions
  <2>2. /\ CanSet(run.proj.rev) /\ Kind \in {"parchive", "prestore"}
        /\ project'.life = (IF Kind = "parchive" THEN "archived" ELSE "active")
        /\ project'.rev = project.rev + 1
        /\ unpublished'
    BY <1>4, <2>0 DEF Settle
  <2>3. /\ project' \in Summaries
        /\ unpublished' \in BOOLEAN
    BY <1>4, <2>0 DEF Settle
  <2>4. Typed'
    BY <1>1, <1>2, <1>4, <2>1, <2>2, <2>3 DEF TInv, Typed
  <2>5. Queue' /\ Kind' = Kind /\ Target' = Target
    BY <1>1, <1>2, <2>1, RunMoved
  <2>6. Runners'
    BY <1>1, <1>4, <2>1, <2>5 DEF TInv, Runners
  <2> QED
    BY <1>1, <1>2, <1>4, <2>1, <2>2, <2>4, <2>5, <2>6 DEF TInv
<1> QED
  BY <1>3, <1>4

\* The project's tombstone, and the definitions with it.
LEMMA DeleteProjectDoes ==
  ASSUME TInv, DeleteProject
  PROVE  /\ TInv'
         /\ \/ Rests
            \/ /\ Kind' = Kind /\ Target' = Target /\ run.op # 0 /\ run.pc = "tomb"
               /\ run'.pc = "unindex" /\ run'.def = run.def /\ run'.proj = run.proj
               /\ run'.todo = run.todo /\ run'.cur = run.cur /\ run'.tomb = run.tomb
               /\ Kind = "pdelete" /\ project'.life = "deleting"
               /\ project.life = "deleting" => project' = project /\ rows' = rows
               /\ project.life # "deleting" =>
                    project'.rev = project.rev + 1 /\ \A w \in Workspaces : rows'[w] = NoRow
               /\ UNCHANGED <<gone, asks, obj, seed, phase, use, index, puts, torn, late, stale,
                              slipped, unpublished>>
<1>1. run.op # 0 /\ run.pc = "tomb"
  BY DEF DeleteProject, At
<1>2. UNCHANGED <<gone, asks, obj, seed, phase, use, index, puts, located, repo, faults, edits, torn,
                  late, stale, slipped, unpublished>>
  BY DEF DeleteProject, At, authority, directory, bounds, history
<1>3. CASE ~(project.life = "deleting" \/ CanSet(run.proj.rev))
  <2>1. /\ End("failed")
        /\ UNCHANGED <<project, rows, gone, asks, obj, seed, phase, use, index, puts, history>>
    BY <1>1, <1>2, <1>3 DEF DeleteProject, history
  <2>2. Rests /\ ops' \in Seq(Jobs) /\ run' \in Runs /\ Queue' /\ Runners'
    BY <1>1, <2>1, EndRests DEF OpStates
  <2>3. Typed'
    BY <1>2, <2>1, <2>2 DEF TInv, Typed, history
  <2> QED
    BY <2>2, <2>3 DEF TInv
<1>4. CASE project.life = "deleting" \/ CanSet(run.proj.rev)
  <2>1. /\ run'.pc = "unindex" /\ run'.def = run.def /\ run'.proj = run.proj /\ run'.todo = run.todo
        /\ run'.cur = run.cur /\ run'.tomb = run.tomb
        /\ run'.op = run.op /\ run' \in Runs /\ ops' = ops
  <3>1. Go("unindex") /\ "unindex" \in Positions
      BY <1>4 DEF DeleteProject, Positions
    <3> QED
      BY <3>1, RunGone
  <2>2. /\ Kind = "pdelete" /\ project'.life = "deleting"
        /\ project.life = "deleting" => project' = project /\ rows' = rows
        /\ project.life # "deleting" => project'.rev = project.rev + 1 /\ \A w \in Workspaces :
             rows'[w] = NoRow
    <3>1. CASE project.life = "deleting"
      BY <1>1, <1>4, <3>1 DEF DeleteProject, TInv, Runners
    <3>2. CASE project.life # "deleting"
      BY <1>1, <1>4, <3>2 DEF DeleteProject, SetTo, TInv, Runners
    <3> QED
      BY <3>1, <3>2
  <2>3. /\ project' \in Summaries
        /\ rows' \in [Workspaces -> Records]
    BY <1>4, Fields, Blank DEF DeleteProject, SetTo, Summaries, ProjectLives, TInv, Typed
  <2>4. Typed'
    BY <1>1, <1>2, <1>4, <2>1, <2>2, <2>3 DEF TInv, Typed
  <2>5. Queue' /\ Kind' = Kind /\ Target' = Target
    BY <1>1, <1>2, <2>1, RunMoved
  <2>6. Runners'
    BY <1>1, <1>4, <2>1, <2>5 DEF TInv, Runners
  <2> QED
    BY <1>1, <1>2, <1>4, <2>1, <2>2, <2>4, <2>5, <2>6 DEF TInv
<1> QED
  BY <1>3, <1>4

\* The definition is read.
LEMMA ReadDoes ==
  ASSUME TInv, Read
  PROVE  /\ TInv'
         /\ run.pc = "read"
         /\ \/ Rests
            \/ /\ Kind' = Kind /\ Target' = Target /\ Target \in Workspaces /\ run.op # 0
               /\ rows[Target].life = "provisioning" /\ project.life = "active"
               /\ run'.pc = "source" /\ run'.def = rows[Target] /\ run'.proj = project
            \/ /\ Kind' = Kind /\ Target' = Target /\ Target \in Workspaces /\ run.op # 0
               /\ Present(Target)
               /\ run'.pc = "apply" /\ run'.def = rows[Target] /\ run'.proj = run.proj
         /\ UNCHANGED <<project, rows, gone, asks, obj, seed, phase, use, index, puts, torn, late,
                        stale, slipped, unpublished>>
<1>1. run.op # 0 /\ run.pc = "read" /\ Kind \in WorkspaceKinds /\ Target \in Workspaces
  <2>1. run.op # 0 /\ run.pc = "read"
    BY DEF Read, At
  <2> QED
    BY <2>1, Running DEF TInv, Runners
<1>2. UNCHANGED <<project, rows, gone, asks, obj, seed, phase, use, index, puts, located, repo, faults,
                  edits, torn, late, stale, slipped, unpublished>>
  BY DEF Read, At, authority, directory, bounds, history
<1> DEFINE def == rows[Target]
           create == IF project.life = "active" THEN "source" ELSE "mark"
           delete == IF def.life = "none" THEN "unrepo" ELSE "apply"
<1>3. \/ Go("end") \/ End("failed")
      \/ /\ Kind = "create" /\ def.life = "provisioning" /\ UNCHANGED ops
         /\ run' = [run EXCEPT !.def = def, !.proj = project, !.pc = create]
      \/ /\ Kind \in {"archive", "restore"} /\ def.life # "none" /\ UNCHANGED ops
         /\ run' = [run EXCEPT !.def = def, !.pc = "apply"]
      \/ Kind = "delete" /\ UNCHANGED ops /\ run' = [run EXCEPT !.def = def, !.pc = delete]
  BY <1>1 DEF Read, WorkspaceKinds
<1>4. def \in Records /\ project \in Summaries
  BY <1>1 DEF TInv, Typed
<1>5. CASE Go("end")
  <2>1. Rests /\ ops' \in Seq(Jobs) /\ run' \in Runs /\ Queue' /\ Runners'
    BY <1>1, <1>2, <1>5, GoRests DEF history
  <2>2. Typed'
    BY <1>2, <2>1 DEF TInv, Typed
  <2> QED
    BY <1>1, <1>2, <2>1, <2>2 DEF TInv
<1>6. CASE End("failed")
  <2>1. Rests /\ ops' \in Seq(Jobs) /\ run' \in Runs /\ Queue' /\ Runners'
    BY <1>1, <1>2, <1>6, EndRests DEF OpStates, history
  <2>2. Typed'
    BY <1>2, <2>1 DEF TInv, Typed
  <2> QED
    BY <1>1, <1>2, <2>1, <2>2 DEF TInv
<1>7. ASSUME NEW pc \in {"source", "mark", "apply", "unrepo"}, NEW proj \in Summaries, UNCHANGED ops,
             run' = [run EXCEPT !.def = def, !.proj = proj, !.pc = pc],
             pc \in {"source", "mark"} => Kind = "create",
             pc = "apply" => Kind \in {"archive", "restore", "delete"},
             pc = "unrepo" => Kind = "delete"
      PROVE  /\ TInv' /\ Kind' = Kind /\ Target' = Target /\ run'.pc = pc /\ run'.def = def
             /\ run'.proj = proj
  <2>1. run' \in Runs /\ run'.op = run.op /\ run'.pc = pc /\ run'.def = def /\ run'.proj = proj
    BY <1>4, <1>7 DEF TInv, Typed, Runs, Positions
  <2>2. Queue' /\ Kind' = Kind /\ Target' = Target
    BY <1>1, <1>2, <1>7, <2>1, RunMoved
  <2>3. Runners'
    BY <1>7, <2>1, <2>2 DEF Runners
  <2>4. Typed'
    BY <1>2, <1>7, <2>1 DEF TInv, Typed
  <2> QED
    BY <2>1, <2>2, <2>3, <2>4 DEF TInv
<1>8. run \in Runs /\ \A pc :
        [run EXCEPT !.def = def, !.pc = pc] = [run EXCEPT !.def = def, !.proj = run.proj, !.pc = pc]
  BY DEF TInv, Typed, Runs
<1>9. run.proj \in Summaries
  BY <1>8 DEF Runs
<1> HIDE DEF def
<1>10. CASE /\ Kind = "create" /\ def.life = "provisioning" /\ UNCHANGED ops
            /\ run' = [run EXCEPT !.def = def, !.proj = project, !.pc = create]
  <2>1. create \in {"source", "mark"} /\ (create = "source" => project.life = "active")
    OBVIOUS
  <2> HIDE DEF create
  <2>2. /\ TInv' /\ Kind' = Kind /\ Target' = Target /\ run'.pc = create /\ run'.def = def
        /\ run'.proj = project
    BY <1>4, <1>7, <1>10, <2>1
  <2>3. create = "mark" => Rests
    BY <1>2, <2>2 DEF Rests, history
  <2> QED
    BY <1>1, <1>2, <1>10, <2>1, <2>2, <2>3 DEF def
<1>11. CASE /\ Kind \in {"archive", "restore"} /\ def.life # "none" /\ UNCHANGED ops
            /\ run' = [run EXCEPT !.def = def, !.pc = "apply"]
  <2>1. /\ TInv' /\ Kind' = Kind /\ Target' = Target /\ run'.pc = "apply" /\ run'.def = def
        /\ run'.proj = run.proj
    BY <1>7, <1>8, <1>9, <1>11
  <2> QED
    BY <1>1, <1>2, <1>11, <2>1 DEF def, Present
<1>12. CASE Kind = "delete" /\ UNCHANGED ops /\ run' = [run EXCEPT !.def = def, !.pc = delete]
  <2>1. delete \in {"unrepo", "apply"} /\ (delete = "unrepo" <=> def.life = "none")
    OBVIOUS
  <2> HIDE DEF delete
  <2>2. /\ TInv' /\ Kind' = Kind /\ Target' = Target /\ run'.pc = delete /\ run'.def = def
        /\ run'.proj = run.proj
    BY <1>7, <1>8, <1>9, <1>12, <2>1
  <2>3. delete = "unrepo" => Rests
    BY <1>2, <2>1, <2>2 DEF Rests, history
  <2> QED
    BY <1>1, <1>2, <2>1, <2>2, <2>3 DEF def, Present
<1> QED
  BY <1>3, <1>5, <1>6, <1>10, <1>11, <1>12

\* The object changes itself first.
LEMMA ApplyDoes ==
  ASSUME TInv, Apply
  PROVE  /\ TInv'
         /\ run.op # 0 /\ run.pc = "apply" /\ Target \in Workspaces /\ obj[Target].life # "none"
         /\ obj'[Target].rev = IF run.def.rev > obj[Target].rev THEN run.def.rev ELSE obj[Target].rev
         /\ obj'[Target].plife = obj[Target].plife /\ obj'[Target].prev = obj[Target].prev
         /\ \A v \in Workspaces : v # Target => obj'[v] = obj[v]
         /\ \/ /\ run' = NoRun /\ torn' = torn
               /\ obj'[Target].life = IF run.def.rev > obj[Target].rev THEN run.def.life
                    ELSE obj[Target].life
            \/ /\ Kind' = Kind /\ Target' = Target /\ obj'[Target].life = Outcome(Kind)
               /\ torn' = torn \cup {Target}
               /\ run'.tomb = obj'[Target] /\ run'.def = run.def /\ run'.proj = run.proj
               /\ run'.todo = run.todo /\ run'.cur = run.cur
               /\ run'.pc = IF Kind = "restore" THEN "record" ELSE "stop"
               /\ \/ Kind = "delete"
                  \/ (IF run.def.rev > obj[Target].rev THEN run.def.life
                      ELSE obj[Target].life) # "deleting"
         /\ UNCHANGED <<project, rows, gone, asks, seed, phase, use, index, puts, late, stale, slipped,
                        unpublished>>
<1>1. /\ run.op # 0 /\ run.pc = "apply" /\ Kind \in {"archive", "restore", "delete"}
      /\ Target \in Workspaces
  <2>1. run.op # 0 /\ run.pc = "apply"
    BY DEF Apply, At
  <2> QED
    BY <2>1, Running DEF TInv, Runners, WorkspaceKinds
<1>2. UNCHANGED <<project, rows, gone, asks, seed, phase, use, index, puts, located, repo, faults,
                  edits, late, stale, slipped, unpublished>>
  BY DEF Apply, At, authority, directory, bounds, history
<1> DEFINE adopted == AdoptRow(obj[Target], run.def)
           applied == [adopted EXCEPT !.life = Outcome(Kind)]
<1>3. /\ obj[Target].life # "none" /\ obj \in [Workspaces -> Objects] /\ run.def.life \in RowLives
      /\ run.def.rev \in Nat
  BY Fields DEF Apply, Seeded, TInv, Typed
<1>4. /\ adopted.life = IF run.def.rev > obj[Target].rev THEN run.def.life ELSE obj[Target].life
      /\ adopted.rev = IF run.def.rev > obj[Target].rev THEN run.def.rev ELSE obj[Target].rev
      /\ adopted.plife = obj[Target].plife /\ adopted.prev = obj[Target].prev
  BY <1>3 DEF AdoptRow, Adopt
<1>5. adopted \in Objects
  BY <1>1, <1>3, AdoptTyped
<1>6. /\ \/ Refuses(Kind, adopted) /\ obj' = [obj EXCEPT ![Target] = adopted] /\ End("failed")
      /\ UNCHANGED torn
      \/ /\ ~Refuses(Kind, adopted) /\ obj' = [obj EXCEPT ![Target] = applied]
         /\ torn' = torn \cup {Target}
         /\ run' = [run EXCEPT !.tomb = applied, !.pc = IF Kind = "restore" THEN "record" ELSE "stop"]
         /\ UNCHANGED ops
  BY DEF Apply
<1> HIDE DEF adopted
<1>7. /\ applied \in Objects /\ applied.life = Outcome(Kind) /\ applied.rev = adopted.rev
      /\ applied.plife = adopted.plife /\ applied.prev = adopted.prev
  <2>1. Outcome(Kind) \in RowLives
    BY <1>1 DEF Outcome, RowLives
  <2> QED
    BY <1>5, <2>1 DEF Objects
<1> HIDE DEF applied
<1>8. CASE /\ Refuses(Kind, adopted) /\ obj' = [obj EXCEPT ![Target] = adopted] /\ End("failed")
           /\ UNCHANGED torn
  <2>1. run' = NoRun /\ ops' \in Seq(Jobs) /\ Queue' /\ Runners'
    BY <1>1, <1>2, <1>8, RunEnded DEF OpStates
  <2>2. /\ obj' \in [Workspaces -> Objects] /\ obj'[Target] = adopted
        /\ \A v \in Workspaces : v # Target => obj'[v] = obj[v]
    BY <1>1, <1>3, <1>5, <1>8
  <2>3. Typed'
    BY <1>2, <1>8, <2>1, <2>2, Blank DEF TInv, Typed
  <2> QED
    BY <1>1, <1>2, <1>3, <1>4, <1>8, <2>1, <2>2, <2>3 DEF TInv
<1>9. CASE /\ ~Refuses(Kind, adopted) /\ obj' = [obj EXCEPT ![Target] = applied]
           /\ torn' = torn \cup {Target}
           /\ run' = [run EXCEPT !.tomb = applied, !.pc = IF Kind = "restore" THEN "record" ELSE "stop"]
           /\ UNCHANGED ops
  <2>1. /\ run' \in Runs /\ run'.op = run.op
        /\ run'.pc = (IF Kind = "restore" THEN "record" ELSE "stop")
        /\ run'.tomb = applied /\ run'.def = run.def /\ run'.proj = run.proj /\ run'.todo = run.todo
        /\ run'.cur = run.cur
    BY <1>7, <1>9 DEF TInv, Typed, Runs, Positions
  <2>2. Queue' /\ Kind' = Kind /\ Target' = Target
    BY <1>1, <1>2, <1>9, <2>1, RunMoved
  <2>3. Runners'
    BY <1>1, <2>1, <2>2 DEF Runners
  <2>4. /\ obj' \in [Workspaces -> Objects] /\ obj'[Target] = applied
        /\ \A v \in Workspaces : v # Target => obj'[v] = obj[v]
    BY <1>1, <1>3, <1>7, <1>9
  <2>5. Typed'
    BY <1>1, <1>2, <1>9, <2>1, <2>4 DEF TInv, Typed
  <2>6. Kind = "delete" \/ adopted.life # "deleting"
    BY <1>1, <1>9 DEF Refuses
  <2> QED
    BY <1>1, <1>2, <1>3, <1>4, <1>7, <1>9, <2>1, <2>2, <2>3, <2>4, <2>5, <2>6 DEF TInv
<1> QED
  BY <1>6, <1>8, <1>9

\* One workspace learns what the project decided.
LEMMA EachDoes ==
  ASSUME TInv, NEW w \in Workspaces, Each(w)
  PROVE  /\ TInv'
         /\ run.op # 0 /\ run.pc = "each" /\ w \in run.todo /\ obj[w].life # "none" /\ Kind' = Kind
         /\ Target' = Target
         /\ Kind \in ProjectKinds /\ obj'[w].life = obj[w].life /\ obj'[w].rev = obj[w].rev
         /\ \A v \in Workspaces : v # w => obj'[v] = obj[v]
         /\ Kind = "pdelete" => obj'[w].plife = "deleting" /\ obj'[w].prev = obj[w].prev
         /\ Kind # "pdelete" =>
              IF run.proj.rev < obj[w].prev THEN obj'[w] = obj[w]
              ELSE /\ obj'[w].plife = (IF Kind = "parchive" THEN "archived" ELSE "active")
                   /\ obj'[w].prev = run.proj.rev
         /\ run'.todo = run.todo \ {w} /\ run'.def = run.def /\ run'.proj = run.proj
         /\ \/ /\ Kind = "prestore" \/ (Kind = "parchive" /\ run.proj.rev < obj[w].prev)
               /\ run'.pc = "each" /\ run'.cur = run.cur /\ run'.tomb = run.tomb
            \/ /\ Kind = "pdelete" \/ (Kind = "parchive" /\ run.proj.rev >= obj[w].prev)
               /\ run'.pc = "eachstop" /\ run'.cur = w /\ run'.tomb = obj'[w]
         /\ UNCHANGED <<project, rows, gone, asks, seed, phase, use, index, puts, torn, late, stale,
                        slipped, unpublished>>
<1>1. /\ run.op # 0 /\ run.pc = "each" /\ w \in run.todo /\ obj[w].life # "none"
      /\ Kind \in ProjectKinds /\ UNCHANGED ops
  BY DEF Each, At, Seeded, TInv, Runners
<1>2. UNCHANGED <<project, rows, gone, asks, seed, phase, use, index, puts, located, repo, faults,
                  edits, torn, late, stale, slipped, unpublished>>
  BY DEF Each, At, authority, directory, bounds, history
<1> DEFINE life == IF Kind = "parchive" THEN "archived" ELSE "active"
           skips == Kind = "prestore" \/ (Kind = "parchive" /\ run.proj.rev < obj[w].prev)
           pushed == IF Kind = "pdelete" THEN [obj[w] EXCEPT !.plife = "deleting"]
                     ELSE Push(obj[w], [life |-> life, rev |-> run.proj.rev])
<1>3. /\ obj' = [obj EXCEPT ![w] = pushed]
      /\ skips => run' = [run EXCEPT !.todo = @ \ {w}]
      /\ ~skips => run' = [run EXCEPT !.pc = "eachstop", !.cur = w, !.tomb = pushed, !.todo = @ \ {w}]
  BY DEF Each
<1>4. /\ obj \in [Workspaces -> Objects] /\ obj[w] \in Objects /\ run \in Runs
      /\ run.proj.rev \in Nat /\ obj[w].prev \in Nat
  BY Fields DEF TInv, Typed
<1>5. pushed \in Objects /\ pushed.life = obj[w].life /\ pushed.rev = obj[w].rev
  BY <1>4 DEF Push, Objects, ProjectLives
<1>6. Kind = "pdelete" => pushed.plife = "deleting" /\ pushed.prev = obj[w].prev
  BY <1>4 DEF Objects
<1>7. Kind # "pdelete" => IF run.proj.rev < obj[w].prev THEN pushed = obj[w]
                          ELSE pushed.plife = life /\ pushed.prev = run.proj.rev
  BY <1>4 DEF Push, Objects
<1> HIDE DEF pushed
<1>8. /\ obj' \in [Workspaces -> Objects] /\ obj'[w] = pushed
      /\ \A v \in Workspaces : v # w => obj'[v] = obj[v]
  BY <1>3, <1>4, <1>5
<1>9. /\ run' \in Runs /\ run'.op = run.op /\ run'.todo = run.todo \ {w} /\ run'.def = run.def
      /\ run'.proj = run.proj
      /\ skips => run'.pc = "each" /\ run'.cur = run.cur /\ run'.tomb = run.tomb
      /\ ~skips => run'.pc = "eachstop" /\ run'.cur = w /\ run'.tomb = pushed
  <2>1. CASE skips
    BY <1>1, <1>3, <1>4, <2>1 DEF Runs
  <2>2. CASE ~skips
    BY <1>3, <1>4, <1>5, <2>2 DEF Runs, Positions
  <2> QED
    BY <2>1, <2>2
<1>10. skips \/ Kind = "pdelete" \/ (Kind = "parchive" /\ run.proj.rev >= obj[w].prev)
  BY <1>1, <1>4 DEF ProjectKinds
<1>11. Queue' /\ Kind' = Kind /\ Target' = Target
  BY <1>1, <1>2, <1>9, RunMoved
<1>12. Runners'
  BY <1>1, <1>9, <1>10, <1>11 DEF Runners
<1>13. Typed'
  BY <1>1, <1>2, <1>8, <1>9 DEF TInv, Typed
<1> QED
  BY <1>1, <1>2, <1>5, <1>6, <1>7, <1>8, <1>9, <1>10, <1>11, <1>12, <1>13 DEF TInv

\* That workspace stops.
LEMMA EachStopDoes ==
  ASSUME TInv, EachStop
  PROVE  /\ TInv'
         /\ run.op # 0 /\ run.pc = "eachstop" /\ run.cur \in Workspaces /\ Kind' = Kind
         /\ Target' = Target /\ Kind \in {"parchive", "pdelete"}
         /\ run'.pc = "each" /\ run'.def = run.def /\ run'.proj = run.proj /\ run'.todo = run.todo
         /\ use'[run.cur] # "working" /\ (use'[run.cur] = use[run.cur] \/ use'[run.cur] = "idle")
         /\ \A v \in Workspaces : v # run.cur => use'[v] = use[v]
         /\ \A v \in Workspaces : v # run.cur => (v \in slipped' <=> v \in slipped)
         /\ obj'[run.cur] = IF Kind = "pdelete" THEN run.tomb ELSE obj[run.cur]
         /\ \A v \in Workspaces : v # run.cur => obj'[v] = obj[v]
         /\ UNCHANGED <<project, rows, gone, asks, seed, phase, index, puts, torn, late, stale,
                        unpublished>>
<1>1. /\ run.op # 0 /\ run.pc = "eachstop" /\ run.cur \in Workspaces
      /\ Kind \in {"parchive", "pdelete"} /\ UNCHANGED ops
  BY DEF EachStop, At, TInv, Runners
<1>2. UNCHANGED <<project, rows, gone, asks, seed, phase, index, puts, located, faults, edits, torn,
                  late, stale, unpublished>>
  BY DEF EachStop, At, authority, directory, bounds, history
<1>3. /\ run' \in Runs /\ run'.op = run.op /\ run'.pc = "each"
      /\ run'.def = run.def /\ run'.proj = run.proj /\ run'.todo = run.todo
  BY Blank DEF EachStop, TInv, Typed, Runs, Positions
<1>4. /\ use' \in [Workspaces -> {"idle", "admitted", "working"}] /\ slipped' \subseteq Workspaces
      /\ use'[run.cur] # "working" /\ (use'[run.cur] = use[run.cur] \/ use'[run.cur] = "idle")
      /\ \A v \in Workspaces : v # run.cur => use'[v] = use[v]
      /\ \A v \in Workspaces : v # run.cur => (v \in slipped' <=> v \in slipped)
  BY <1>1 DEF EachStop, Stopped, Settled, TInv, Typed
<1>5. /\ obj' \in [Workspaces -> Objects] /\ repo' \subseteq Workspaces
      /\ obj'[run.cur] = IF Kind = "pdelete" THEN run.tomb ELSE obj[run.cur]
      /\ \A v \in Workspaces : v # run.cur => obj'[v] = obj[v]
  BY <1>1 DEF EachStop, TInv, Typed, Runs
<1>6. Queue' /\ Kind' = Kind /\ Target' = Target
  BY <1>1, <1>2, <1>3, RunMoved
<1>7. Runners'
  BY <1>1, <1>3, <1>6 DEF Runners, ProjectKinds
<1>8. Typed'
  BY <1>1, <1>2, <1>3, <1>4, <1>5 DEF TInv, Typed
<1> QED
  BY <1>1, <1>2, <1>3, <1>4, <1>5, <1>6, <1>7, <1>8 DEF TInv

-----------------------------------------------------------------------------
(* What each call of a request does. *)

\* A request is cut off.
LEMMA AskLostDoes ==
  ASSUME TInv, NEW k \in DOMAIN asks, AskLost(k)
  PROVE  /\ TInv'
         /\ run.op # 0 => Kind' = Kind /\ Target' = Target
         /\ \A j \in DOMAIN asks' : asks'[j].pc = "put" => \E i \in DOMAIN asks : asks'[j] = asks[i]
         /\ UNCHANGED <<project, rows, gone, run, obj, seed, phase, use, index, puts, history>>
<1>1. asks' = RemoveAt(asks, k) /\ faults' \in 0..MaxFaults
  BY Sizes DEF AskLost, TInv, Typed
<1>2. UNCHANGED <<project, rows, gone, ops, run, obj, seed, phase, use, index, puts, located, repo,
                  edits, history>>
  BY DEF AskLost, authority, directory
<1>3. /\ asks' \in Seq(Asked) /\ Queue' /\ Runners' /\ Kind' = Kind /\ Target' = Target
      /\ \A j \in DOMAIN asks' : \E i \in DOMAIN asks : asks'[j] = asks[i]
  BY <1>1, <1>2, AskDropped
<1>4. Typed'
  BY <1>1, <1>2, <1>3 DEF TInv, Typed, history
<1> QED
  BY <1>2, <1>3, <1>4 DEF TInv

\* A request records the location.
LEMMA AskLocateDoes ==
  ASSUME TInv, NEW k \in DOMAIN asks, AskLocate(k)
  PROVE  /\ TInv'
         /\ run.op # 0 => Kind' = Kind /\ Target' = Target
         /\ \A j \in DOMAIN asks' : asks'[j].pc = "put" => \E i \in DOMAIN asks : asks'[j] = asks[i]
         /\ UNCHANGED <<project, rows, gone, run, obj, seed, phase, use, index, puts, history>>
<1>1. UNCHANGED <<project, rows, gone, ops, run, obj, seed, phase, use, index, puts, repo, bounds,
                  history>>
  BY DEF AskLocate, authority, directory
<1>2. /\ asks' \in Seq(Asked) /\ Queue' /\ Runners' /\ Kind' = Kind /\ Target' = Target
      /\ \A j \in DOMAIN asks' : asks'[j].pc = "put" => \E i \in DOMAIN asks : asks'[j] = asks[i]
  <2>1. CASE index.life # "none"
    <3>1. asks' = [asks EXCEPT ![k].pc = "check"] /\ asks[k].pc # "append"
      BY <2>1 DEF AskLocate
    <3>2. /\ asks' \in Seq(Asked) /\ Queue' /\ Runners' /\ Kind' = Kind /\ Target' = Target
          /\ DOMAIN asks' = DOMAIN asks /\ asks'[k].pc = "check"
          /\ \A i \in DOMAIN asks : i # k => asks'[i] = asks[i]
      BY <1>1, <3>1, AskMoved
    <3> QED
      BY <3>2
  <2>2. CASE ~(index.life # "none")
    <3>1. asks' = RemoveAt(asks, k)
      BY <2>2 DEF AskLocate
    <3> QED
      BY <1>1, <3>1, AskDropped
  <2> QED
    BY <2>1, <2>2
<1>3. located' \subseteq Workspaces
  <2>1. asks[k].ws \in Workspaces
    BY DEF AskLocate, TInv, Queue, WorkspaceKinds
  <2> QED
    BY <2>1 DEF AskLocate, TInv, Typed
<1>4. Typed'
  BY <1>1, <1>2, <1>3 DEF TInv, Typed, bounds, history
<1> QED
  BY <1>1, <1>2, <1>4 DEF TInv

\* A request looks for a live operation.
LEMMA AskCheckDoes ==
  ASSUME TInv, NEW k \in DOMAIN asks, AskCheck(k)
  PROVE  /\ TInv'
         /\ run.op # 0 => Kind' = Kind /\ Target' = Target
         /\ \A j \in DOMAIN asks' : asks'[j].pc = "put" => \E i \in DOMAIN asks : asks'[j] = asks[i]
         /\ UNCHANGED <<project, rows, gone, run, obj, seed, phase, use, index, puts, history>>
<1>1. UNCHANGED <<project, rows, gone, ops, run, obj, seed, phase, use, index, puts, located, repo,
                  bounds, history>>
  BY DEF AskCheck, authority, directory
<1>2. /\ asks' \in Seq(Asked) /\ Queue' /\ Runners' /\ Kind' = Kind /\ Target' = Target
      /\ \A j \in DOMAIN asks' : asks'[j].pc = "put" => \E i \in DOMAIN asks : asks'[j] = asks[i]
  <2>1. CASE ~Busy(asks[k].ws)
    <3>1. asks' = [asks EXCEPT ![k].pc = "append"] /\ asks[k].pc # "append"
      BY <2>1 DEF AskCheck
    <3>2. /\ asks' \in Seq(Asked) /\ Queue' /\ Runners' /\ Kind' = Kind /\ Target' = Target
          /\ DOMAIN asks' = DOMAIN asks /\ asks'[k].pc = "append"
          /\ \A i \in DOMAIN asks : i # k => asks'[i] = asks[i]
      BY <1>1, <3>1, AskMoved
    <3> QED
      BY <3>2
  <2>2. CASE ~(~Busy(asks[k].ws))
    <3>1. asks' = RemoveAt(asks, k)
      BY <2>2 DEF AskCheck
    <3> QED
      BY <1>1, <3>1, AskDropped
  <2> QED
    BY <2>1, <2>2
<1>4. Typed'
  BY <1>1, <1>2 DEF TInv, Typed, bounds, history
<1> QED
  BY <1>1, <1>2, <1>4 DEF TInv

\* A request queues its operation.
LEMMA AskAppendDoes ==
  ASSUME TInv, NEW k \in DOMAIN asks, AskAppend(k)
  PROVE  /\ TInv'
         /\ run.op # 0 => Kind' = Kind /\ Target' = Target
         /\ \A j \in DOMAIN asks' : asks'[j].pc = "put" => \E i \in DOMAIN asks : asks'[j] = asks[i]
         /\ UNCHANGED <<project, rows, gone, run, obj, seed, phase, use, index, puts, history>>
<1> DEFINE new == [kind |-> asks[k].kind, ws |-> asks[k].ws, st |-> "queued"]
<1>1. UNCHANGED <<project, rows, gone, run, obj, seed, phase, use, index, puts, located, repo, bounds,
                  history>>
  BY DEF AskAppend, authority, directory
<1>2. /\ ops \in Seq(Jobs) /\ asks \in Seq(Asked) /\ Len(ops) \in Nat /\ Len(asks) \in Nat
      /\ asks[k] \in Asked
  BY DEF TInv, Typed
<1>3. new \in Jobs /\ new.kind = asks[k].kind /\ new.ws = asks[k].ws
  BY <1>2 DEF Asked, Jobs, OpStates
<1>4. ops' = Append(ops, new) /\ asks' = RemoveAt(asks, k)
  BY DEF AskAppend
<1> HIDE DEF new
<1>5. /\ ops' \in Seq(Jobs) /\ Len(ops') = Len(ops) + 1 /\ DOMAIN ops \subseteq DOMAIN ops'
      /\ \A i \in DOMAIN ops : ops'[i] = ops[i]
      /\ \A i \in DOMAIN ops' : i \in DOMAIN ops \/ ops'[i] = new
  BY <1>2, <1>3, <1>4
<1>6. /\ asks' \in Seq(Asked) /\ Len(asks') = Len(asks) - 1
      /\ \A j \in DOMAIN asks' : \E i \in DOMAIN asks : asks'[j] = asks[i]
  BY <1>2, <1>4, Removed
<1>7. Len(ops') + Len(asks') <= MaxOps
  BY <1>2, <1>5, <1>6, Sizes DEF TInv, Queue
<1>8. Queue'
  BY <1>1, <1>3, <1>5, <1>6, <1>7 DEF TInv, Queue
<1>9. run.op # 0 => Kind' = Kind /\ Target' = Target
  BY <1>1, <1>5 DEF TInv, Queue, Kind, Target
<1>10. Runners'
  <2>1. CASE run.op = 0
    BY <1>1, <2>1 DEF TInv, Queue, Runners
  <2>2. CASE run.op # 0
    BY <1>1, <1>9, <2>2 DEF TInv, Runners
  <2> QED
    BY <2>1, <2>2
<1>11. Typed'
  BY <1>1, <1>5, <1>6 DEF TInv, Typed, bounds, history
<1> QED
  BY <1>1, <1>6, <1>8, <1>9, <1>10, <1>11 DEF TInv

\* A request writes the definition.
LEMMA AskPutDoes ==
  ASSUME TInv, NEW k \in DOMAIN asks, AskPut(k)
  PROVE  /\ TInv'
         /\ Kind' = Kind /\ Target' = Target
         /\ \/ /\ rows' = rows /\ late' = late
               /\ \A j \in DOMAIN asks' : asks'[j].pc = "put" => \E i \in DOMAIN asks : asks'[j] = asks[i]
            \/ LET w == asks[k].ws
               IN  /\ w \in Workspaces /\ CanPut(w, asks[k].rev) /\ asks[k].pc = "put"
                   /\ late' = LateOnes(w)
                   /\ rows'[w].life = "provisioning" /\ rows'[w].rev = rows[w].rev + 1
                   /\ \A v \in Workspaces : v # w => rows'[v] = rows[v]
                   /\ DOMAIN asks' = DOMAIN asks /\ asks'[k].pc # "put"
                   /\ \A i \in DOMAIN asks : i # k => asks'[i] = asks[i]
         /\ UNCHANGED <<project, gone, run, obj, seed, phase, use, index, puts, torn, stale, slipped,
                        unpublished>>
<1>1. UNCHANGED <<project, gone, ops, run, obj, seed, phase, use, index, puts, located, repo, faults,
                  edits, torn, stale, slipped, unpublished>>
  BY DEF AskPut, directory, bounds
<1>2. asks[k].pc = "put" /\ asks[k].ws \in Workspaces
  BY DEF AskPut, TInv, Queue, WorkspaceKinds
<1>3. CASE ~CanPut(asks[k].ws, asks[k].rev)
  <2>1. asks' = RemoveAt(asks, k) /\ UNCHANGED <<rows, late>>
    BY <1>3 DEF AskPut
  <2>2. /\ asks' \in Seq(Asked) /\ Queue' /\ Runners' /\ Kind' = Kind /\ Target' = Target
        /\ \A j \in DOMAIN asks' : \E i \in DOMAIN asks : asks'[j] = asks[i]
    BY <1>1, <2>1, AskDropped
  <2>3. Typed'
    BY <1>1, <2>1, <2>2 DEF TInv, Typed
  <2> QED
    BY <1>1, <2>1, <2>2, <2>3 DEF TInv
<1>4. CASE CanPut(asks[k].ws, asks[k].rev)
  <2> DEFINE pc == IF asks[k].rev = 0 THEN "locate" ELSE "check"
  <2>1. /\ asks' = [asks EXCEPT ![k].pc = pc] /\ rows' = Put(asks[k].ws, "provisioning")
        /\ late' = LateOnes(asks[k].ws)
    BY <1>4 DEF AskPut
  <2>2. pc \in {"locate", "check"}
    OBVIOUS
  <2> HIDE DEF pc
  <2>3. /\ asks' \in Seq(Asked) /\ Queue' /\ Runners' /\ Kind' = Kind /\ Target' = Target
        /\ DOMAIN asks' = DOMAIN asks /\ asks'[k].pc = pc
        /\ \A i \in DOMAIN asks : i # k => asks'[i] = asks[i]
    BY <1>1, <1>2, <2>1, <2>2, AskMoved
  <2>4. /\ rows' \in [Workspaces -> Records]
        /\ rows'[asks[k].ws].life = "provisioning" /\ rows'[asks[k].ws].rev = rows[asks[k].ws].rev + 1
        /\ \A v \in Workspaces : v # asks[k].ws => rows'[v] = rows[v]
    BY <1>2, <2>1, PutTyped DEF RowLives
  <2>5. Typed'
    BY <1>1, <1>2, <2>1, <2>3, <2>4 DEF TInv, Typed, LateOnes
  <2> QED
    BY <1>1, <1>2, <1>4, <2>1, <2>2, <2>3, <2>4, <2>5 DEF TInv
<1> QED
  BY <1>3, <1>4

\* What the requests ask for.
LEMMA AsksDo ==
  ASSUME TInv, \/ \E w \in Workspaces : AskCreate(w) \/ AskRetry(w)
               \/ \E w \in Workspaces, kind \in WorkspaceKinds : AskWorkspace(kind, w)
               \/ \E kind \in ProjectKinds : AskProject(kind)
               \/ \E i \in DOMAIN ops : AskAgain(i)
  PROVE  /\ TInv' /\ Kind' = Kind /\ Target' = Target
         /\ UNCHANGED <<project, rows, gone, run, obj, seed, phase, use, index, puts, history>>
         /\ \A j \in DOMAIN asks' : asks'[j].pc = "put" =>
              \/ \E i \in DOMAIN asks : asks'[j] = asks[i]
              \/ asks'[j].ws \in Workspaces /\ ~Present(asks'[j].ws) /\ asks'[j].rev = 0
              \/ /\ asks'[j].ws \in Workspaces /\ rows[asks'[j].ws].life = "failed"
                 /\ asks'[j].rev = rows[asks'[j].ws].rev
<1>1. ASSUME NEW w \in Workspaces, AskCreate(w)
      PROVE  ~Present(w) /\ Ask("create", w, "put", 0)
  BY <1>1 DEF AskCreate
<1>2. CASE \E w \in Workspaces : AskCreate(w)
  BY <1>1, <1>2, AskMade DEF WorkspaceKinds
<1>3. CASE \E w \in Workspaces : AskRetry(w)
  <2>1. PICK w \in Workspaces : AskRetry(w)
    BY <1>3
  <2> DEFINE pc == IF rows[w].life = "failed" THEN "put" ELSE "check"
  <2>2. Ask("create", w, pc, rows[w].rev)
    BY <2>1 DEF AskRetry
  <2>3. rows[w].rev \in Nat /\ pc \in {"put", "check"} /\ (pc = "put" => rows[w].life = "failed")
    BY Fields
  <2> HIDE DEF pc
  <2> QED
    BY <2>2, <2>3, AskMade DEF WorkspaceKinds
<1>4. ASSUME NEW kind \in WorkspaceKinds \cup ProjectKinds, NEW ws \in Workspaces \cup {"project"},
             ws \in Workspaces <=> kind \in WorkspaceKinds, Ask(kind, ws, "append", 0)
      PROVE  /\ TInv' /\ Kind' = Kind /\ Target' = Target
             /\ UNCHANGED <<project, rows, gone, run, obj, seed, phase, use, index, puts, history>>
             /\ \A j \in DOMAIN asks' : asks'[j].pc = "put" => \E i \in DOMAIN asks : asks'[j] = asks[i]
  BY <1>4, AskMade
<1>5. CASE \E w \in Workspaces, kind \in WorkspaceKinds : AskWorkspace(kind, w)
  <2>1. PICK w \in Workspaces, kind \in WorkspaceKinds : Ask(kind, w, "append", 0)
    BY <1>5 DEF AskWorkspace
  <2> QED
    BY <1>4, <2>1
<1>6. CASE \E kind \in ProjectKinds : AskProject(kind)
  <2>1. PICK kind \in ProjectKinds : Ask(kind, "project", "append", 0)
    BY <1>6 DEF AskProject
  <2> QED
    BY <1>4, <2>1, Sizes
<1>7. CASE \E i \in DOMAIN ops : AskAgain(i)
  <2>1. PICK i \in DOMAIN ops : Ask(ops[i].kind, ops[i].ws, "append", 0)
    BY <1>7 DEF AskAgain
  <2>2. ops[i] \in Jobs /\ (ops[i].ws \in Workspaces <=> ops[i].kind \in WorkspaceKinds)
    BY DEF TInv, Typed, Queue
  <2>3. ops[i].kind \in WorkspaceKinds \cup ProjectKinds /\ ops[i].ws \in Workspaces \cup {"project"}
    BY <2>2 DEF Jobs
  <2> QED
    BY <1>4, <2>1, <2>2, <2>3
<1> QED
  BY <1>2, <1>3, <1>5, <1>6, <1>7

-----------------------------------------------------------------------------
(* Type correctness. *)

\* A project in use has no request, no operation and no run.
LEMMA InitTyped == Init => TInv
<1> SUFFICES ASSUME Init PROVE TInv
  OBVIOUS
<1>1. PICK existing \in SUBSET Workspaces, seeded \in SUBSET Workspaces :
        /\ seeded \subseteq existing
        /\ rows = [w \in Workspaces |-> IF w \in existing THEN [life |-> "active", rev |-> 1]
             ELSE NoRow]
        /\ obj = [w \in Workspaces |-> IF w \in seeded
             THEN [life |-> "active", rev |-> 1, plife |-> "active", prev |-> 1]
                                       ELSE NoObject]
        /\ located = existing /\ repo = existing
  BY DEF Init
<1>2. /\ [life |-> "active", rev |-> 1] \in Records /\ [life |-> "active", rev |-> 1] \in Summaries
      /\ [life |-> "active", rev |-> 1, plife |-> "active", prev |-> 1] \in Objects
  BY DEF Records, Summaries, Objects, RowLives, ProjectLives
<1>3. project \in Summaries /\ index \in Summaries
  BY <1>2 DEF Init
<1>4. rows \in [Workspaces -> Records] /\ obj \in [Workspaces -> Objects]
  BY <1>1, <1>2, Blank
<1>5. /\ ops = <<>> /\ asks = <<>> /\ run = NoRun
      /\ seed = [w \in Workspaces |-> NoObject] /\ phase = [w \in Workspaces |-> NoPhase]
      /\ use = [w \in Workspaces |-> "idle"]
  BY DEF Init
<1>6. Typed
  <2>1. ops \in Seq(Jobs) /\ asks \in Seq(Asked) /\ run \in Runs
    BY <1>5, Blank
  <2>2. /\ seed \in [Workspaces -> Objects] /\ phase \in [Workspaces -> PhaseType]
        /\ use \in [Workspaces -> {"idle", "admitted", "working"}]
    BY <1>5, Blank
  <2>3. /\ gone = {} /\ puts = {} /\ faults = 0 /\ edits = 0 /\ torn = {} /\ late = {} /\ stale = {}
        /\ slipped = {}
    BY DEF Init
  <2>4. unpublished = FALSE
    BY DEF Init
  <2> QED
    BY <1>1, <1>3, <1>4, <2>1, <2>2, <2>3, <2>4, Sizes DEF Typed
<1>7. Queue
  BY <1>5, Blank, Sizes DEF Queue
<1>8. Runners
  BY <1>5, Blank DEF Runners
<1> QED
  BY <1>6, <1>7, <1>8 DEF TInv

\* Every step keeps the types and the runners' positions.
LEMMA StepTyped == TInv /\ [Next]_vars => TInv'
<1> SUFFICES ASSUME TInv, [Next]_vars PROVE TInv'
  OBVIOUS
<1>1. CASE UNCHANGED vars
  BY <1>1 DEF vars, authority, directory, bounds, history, TInv, Typed, Queue, Runners, Kind, Target
<1>2. CASE Requests
  <2>1. CASE \E k \in DOMAIN asks : AskLost(k)
    BY <2>1, AskLostDoes
  <2>2. CASE Move
    BY <2>2, MoveDoes
  <2> QED
    BY <1>2, <2>1, <2>2, AsksDo DEF Requests
<1>3. CASE Calls
  <2>1. CASE \E s \in puts : Published(s)
    BY <2>1, PublishedDoes
  <2>2. CASE \E k \in DOMAIN asks : AskPut(k) \/ AskLocate(k) \/ AskCheck(k) \/ AskAppend(k)
    BY <2>2, AskPutDoes, AskLocateDoes, AskCheckDoes, AskAppendDoes
  <2> QED
    BY <1>3, <2>1, <2>2 DEF Calls
<1>4. CASE ObjectCalls
  BY <1>4, SeedReadDoes, SeedWriteDoes, PhaseWriteDoes, PhaseRecordDoes, PhaseAdoptDoes DEF ObjectCalls
<1>5. CASE Users
  BY <1>5, AdmitDoes, WorkDoes, RestDoes, PhaseBeginDoes DEF Users
<1>6. CASE Runner
  <2>1. CASE \E w \in Workspaces : Each(w)
    BY <2>1, EachDoes
  <2>2. CASE Begin \/ Finish \/ Read \/ Source \/ Fork \/ Activate \/ SeedWorkspace \/ MarkFailed
    BY <2>2, BeginDoes, FinishDoes, ReadDoes, SourceDoes, ForkDoes, ActivateDoes, SeedWorkspaceDoes,
       MarkFailedDoes
  <2>3. CASE Apply \/ Stop \/ Record \/ Adopted \/ Unrepo \/ RemoveRow \/ Unlocate
    BY <2>3, ApplyDoes, StopDoes, RecordDoes, AdoptedDoes, UnrepoDoes, RemoveRowDoes, UnlocateDoes
  <2>4. CASE BeginProject \/ SetProject \/ List \/ EachStop \/ Reached
    BY <2>4, BeginProjectDoes, SetProjectDoes, ListDoes, EachStopDoes, ReachedDoes
  <2>5. CASE Settle \/ Publish \/ DeleteProject \/ Unindex
    BY <2>5, SettleDoes, PublishDoes, DeleteProjectDoes, UnindexDoes
  <2> QED
    BY <1>6, <2>1, <2>2, <2>3, <2>4, <2>5 DEF Runner
<1>7. CASE RunFails \/ RunCut
  BY <1>7, RunFailsDoes, RunCutDoes
<1> QED
  BY <1>1, <1>2, <1>3, <1>4, <1>5, <1>6, <1>7 DEF Next

\* The lifecycles, revisions, requests, operations and positions of the alarm's run always
\* have their types, whatever calls race, fail or are cut off, and the queue stays within
\* its bound.
THEOREM TypeCorrect == Spec => []TypeOK
<1>1. Spec => []TInv
  BY InitTyped, StepTyped, PTL DEF Spec
<1> QED
  BY <1>1, TypedTypeOK, PTL

-----------------------------------------------------------------------------
(* The inductive invariant. *)

\* What stays as it is keeps the parts of the invariant that speak of it alone.
LEMMA Undisturbed ==
  ASSUME IInv, run.op # 0 => Kind' = Kind /\ Target' = Target
  PROVE  /\ UNCHANGED <<rows, obj, seed, phase, project, run>> => Revisions'
         /\ UNCHANGED <<gone, project, rows, obj, seed, use, phase, asks>> => Identities'
         /\ UNCHANGED <<seed, stale, obj, torn, rows, run>> => Seeds'
         /\ UNCHANGED <<stale, torn, obj, rows, use, slipped, gone>> => Lives'
         /\ UNCHANGED <<run, project, seed, rows, obj, phase, stale>> => Creating'
         /\ UNCHANGED <<run, rows, torn, obj, stale, use, slipped>> => Changing'
         /\ UNCHANGED <<run, project, rows, late, stale, obj, use, slipped>> => Pushing'
         /\ UNCHANGED <<late, stale, project, rows, obj, use, slipped, gone, seed>> => Closed'
         /\ UNCHANGED <<project, index, puts, unpublished, run>> => Listing'
<1>1. run.op = 0 <=> run.pc = "idle"
  BY DEF IInv, TInv, Queue
<1>2. UNCHANGED <<rows, obj, seed, phase, project, run>> => Revisions'
  BY <1>1 DEF IInv, Revisions, Present
<1>3. UNCHANGED <<gone, project, rows, obj, seed, use, phase, asks>> => Identities'
  BY DEF IInv, Identities, Present, Seeded
<1>4. UNCHANGED <<seed, stale, obj, torn, rows, run>> => Seeds'
  BY <1>1 DEF IInv, Seeds, Seeded
<1>5. UNCHANGED <<stale, torn, obj, rows, use, slipped, gone>> => Lives'
  BY DEF IInv, Lives, Seeded, Quiet
<1>6. UNCHANGED <<run, project, seed, rows, obj, phase, stale>> => Creating'
  BY <1>1 DEF IInv, Creating, Seeded
<1>7. UNCHANGED <<run, rows, torn, obj, stale, use, slipped>> => Changing'
  BY <1>1 DEF IInv, Changing, Present, Seeded, Quiet, Shut
<1>8. UNCHANGED <<run, project, rows, late, stale, obj, use, slipped>> => Pushing'
  BY <1>1 DEF IInv, Pushing, Reaching, Passed, Present, Seeded, Quiet, Shut
<1>9. UNCHANGED <<late, stale, project, rows, obj, use, slipped, gone, seed>> => Closed'
  BY DEF IInv, Closed, Present, Seeded, Quiet, Shut
<1>10. UNCHANGED <<project, index, puts, unpublished, run>> => Listing'
  BY DEF IInv, Listing
<1> QED
  BY <1>2, <1>3, <1>4, <1>5, <1>6, <1>7, <1>8, <1>9, <1>10

\* Where nothing depends on the run, only the rest of the state matters.
LEMMA Resting ==
  ASSUME IInv, TInv', Rests
  PROVE  IInv'
<1>1. /\ UNCHANGED <<project, rows, gone, asks, obj, seed, phase, use, index, puts, torn, late, stale,
                     slipped, unpublished>>
      /\ \/ run'.pc \in {"idle", "read", "mark", "end", "unlocate", "begin", "set"}
         \/ run'.pc = "unrepo" /\ run'.def.life = "none"
  BY DEF Rests, history
<1>2. run'.proj.rev <= project.rev
  BY Fields, Blank DEF Rests, IInv, Revisions
<1>3. Revisions'
  BY <1>1, <1>2 DEF IInv, Revisions, Present
<1>4. Identities'
  BY <1>1 DEF IInv, Identities, Present, Seeded
<1>5. Seeds'
  BY <1>1 DEF IInv, Seeds, Seeded
<1>6. Lives'
  BY <1>1 DEF IInv, Lives, Seeded, Quiet
<1>7. Creating' /\ Changing'
  BY <1>1 DEF Creating, Changing
<1>8. Pushing'
  BY <1>1 DEF Pushing, Reaching
<1>9. Closed'
  BY <1>1 DEF IInv, Closed, Present, Seeded, Quiet, Shut
<1>10. Listing'
  BY <1>1 DEF IInv, Listing
<1> QED
  BY <1>3, <1>4, <1>5, <1>6, <1>7, <1>8, <1>9, <1>10 DEF IInv

\* Whom the run is about.
LEMMA Targets ==
  ASSUME TInv
  PROVE  /\ run.pc \in {"read", "source", "fork", "activate", "seed", "mark", "apply", "stop",
              "record", "adopt",
                        "unrepo", "remove", "unlocate"} => Target \in Workspaces
         /\ run.pc \in {"apply", "record", "adopt"} => Kind \in {"archive", "restore", "delete"}
         /\ run.pc = "stop" => Kind \in {"archive", "delete"}
         /\ run.pc = "eachstop" => Kind \in {"parchive", "pdelete"} /\ run.cur \in Workspaces
<1>1. run.pc # "idle" => run.op # 0
  BY DEF TInv, Queue
<1>2. run.pc \in {"read", "source", "fork", "activate", "seed", "mark", "apply", "stop", "record",
        "adopt",
                  "unrepo", "remove", "unlocate"} => Kind \in WorkspaceKinds
  BY DEF TInv, Runners, WorkspaceKinds
<1> QED
  BY <1>1, <1>2, Running DEF TInv, Runners

\* What a request is about that is to write a definition.
LEMMA Putting ==
  ASSUME TInv
  PROVE  \A k \in DOMAIN asks : asks[k].pc = "put" => asks[k].ws \in Workspaces /\ asks[k].rev \in Nat
<1>1. \A k \in DOMAIN asks : asks[k] \in Asked
  BY DEF TInv, Typed
<1> QED
  BY <1>1 DEF TInv, Queue, Asked, WorkspaceKinds

-----------------------------------------------------------------------------
(* Every step keeps the inductive invariant.  First the requests,
  the workspace objects and the users. *)

\* Only a project in use is edited, so no change of the project is under way.
LEMMA MoveKeeps ==
  ASSUME IInv, Move
  PROVE  IInv'
<1>1. TInv'
  BY MoveDoes DEF IInv
<1>2. Seeds' /\ Lives' /\ Changing'
  BY MoveDoes, Undisturbed DEF IInv
<1>3. Revisions'
  BY MoveDoes, Fields, Targets DEF IInv, Revisions, Present
<1>4. Identities'
  BY MoveDoes, Fields DEF IInv, Identities, Present, Seeded
<1>5. Creating'
  BY MoveDoes, Fields, Targets DEF IInv, Creating, Seeded
<1>6. Pushing'
  BY MoveDoes, Fields, Targets DEF IInv, Pushing, Reaching, Passed, Present, Seeded, Quiet, Shut
<1>7. Closed'
  BY MoveDoes, Fields DEF IInv, Closed, Present, Seeded, Quiet, Shut
<1>8. Listing'
  BY MoveDoes, Fields DEF IInv, Listing, Revisions
<1> QED
  BY <1>1, <1>2, <1>3, <1>4, <1>5, <1>6, <1>7, <1>8 DEF IInv

\* Of two summaries the newer stays in the directory.
LEMMA PublishedKeeps ==
  ASSUME IInv, NEW s \in puts, Published(s)
  PROVE  IInv'
<1>1. TInv'
  BY PublishedDoes DEF IInv
<1>2. Revisions' /\ Identities' /\ Seeds' /\ Lives' /\ Creating' /\ Changing' /\ Pushing' /\ Closed'
  BY PublishedDoes, Undisturbed DEF IInv
<1>3. Listing'
  BY PublishedDoes, Fields DEF IInv, Listing, IndexPut
<1> QED
  BY <1>1, <1>2, <1>3 DEF IInv

\* What is read now is what the project holds.
LEMMA SeedReadKeeps ==
  ASSUME IInv, NEW w \in Workspaces, SeedRead(w)
  PROVE  IInv'
<1>1. TInv'
  BY SeedReadDoes DEF IInv
<1>2. Lives' /\ Changing' /\ Pushing' /\ Listing'
  BY SeedReadDoes, Undisturbed DEF IInv
<1>3. Revisions'
  BY SeedReadDoes, Fields, Blank, Targets DEF IInv, Revisions, Present
<1>4. Identities'
  BY SeedReadDoes, Fields, Blank DEF IInv, Identities, Present, Seeded
<1>5. Seeds'
  BY SeedReadDoes, Fields, Blank, Targets
     DEF IInv, Seeds, Seeded, Changing, Pushing, Present, Identities
<1>6. Creating'
  BY SeedReadDoes, Fields, Targets DEF IInv, Creating, Seeded
<1>7. Closed'
  BY SeedReadDoes, Fields DEF IInv, Closed, Present, Seeded, Quiet, Shut, Identities
<1> QED
  BY <1>1, <1>2, <1>3, <1>4, <1>5, <1>6, <1>7 DEF IInv

\* A read that arrives late is no news, or the object has nothing yet.
LEMMA SeedWriteKeeps ==
  ASSUME IInv, NEW w \in Workspaces, SeedWrite(w)
  PROVE  IInv'
<1>1. TInv'
  BY SeedWriteDoes DEF IInv
<1>2. Listing'
  BY SeedWriteDoes, Undisturbed DEF IInv
<1>3. Revisions'
  BY SeedWriteDoes, Fields, Blank, Targets DEF IInv, Revisions, Present
<1>4. Identities'
  BY SeedWriteDoes, Fields, Blank DEF IInv, Identities, Present, Seeded
<1>5. Seeds'
  BY SeedWriteDoes, Fields, Blank, Targets DEF IInv, Seeds, Seeded, Identities
<1>6. Lives'
  BY SeedWriteDoes, Fields DEF IInv, Lives, Seeded, Quiet, Seeds, Identities
<1>7. Creating'
  BY SeedWriteDoes, Fields, Targets DEF IInv, Creating, Seeded, Identities
<1>8. Changing'
  BY SeedWriteDoes, Fields, Targets DEF IInv, Changing, Present, Seeded, Quiet, Shut, Identities, Seeds
<1>9. Pushing'
  BY SeedWriteDoes, Fields, Targets
     DEF IInv, Pushing, Reaching, Passed, Present, Seeded, Quiet, Shut, Identities, Seeds
<1>10. Closed'
  BY SeedWriteDoes, Fields DEF IInv, Closed, Present, Seeded, Quiet, Shut, Identities, Seeds
<1> QED
  BY <1>1, <1>2, <1>3, <1>4, <1>5, <1>6, <1>7, <1>8, <1>9, <1>10 DEF IInv

\* A call that was let in is no work yet.
LEMMA AdmitKeeps ==
  ASSUME IInv, NEW w \in Workspaces, Admit(w) \/ Open(w)
  PROVE  IInv'
<1>1. TInv'
  BY AdmitDoes DEF IInv
<1>2. Revisions' /\ Seeds' /\ Creating' /\ Listing'
  BY AdmitDoes, Undisturbed DEF IInv
<1>3. Identities'
  BY AdmitDoes, Fields, Blank DEF IInv, Identities, Present, Seeded, Writable, Available
<1>4. Lives'
  BY AdmitDoes, Fields DEF IInv, Lives, Seeded, Quiet
<1>5. Changing'
  BY AdmitDoes, Fields, Targets DEF IInv, Changing, Present, Seeded, Quiet, Shut
<1>6. Pushing'
  BY AdmitDoes, Fields, Targets DEF IInv, Pushing, Reaching, Passed, Present, Seeded, Quiet, Shut
<1>7. Closed'
  BY AdmitDoes, Fields DEF IInv, Closed, Present, Seeded, Quiet, Shut, Writable, Available
<1> QED
  BY <1>1, <1>2, <1>3, <1>4, <1>5, <1>6, <1>7 DEF IInv

\* Work in a closed workspace was admitted before it closed.
LEMMA WorkKeeps ==
  ASSUME IInv, NEW w \in Workspaces, Work(w)
  PROVE  IInv'
<1>1. TInv'
  BY WorkDoes DEF IInv
<1>2. Revisions' /\ Seeds' /\ Creating' /\ Listing'
  BY WorkDoes, Undisturbed DEF IInv
<1>3. Identities'
  BY WorkDoes, Fields DEF IInv, Identities, Present, Seeded, Writable, Available, Lives
<1>4. Lives'
  BY WorkDoes, Fields DEF IInv, Lives, Seeded, Quiet, Writable, Available
<1>5. Changing'
  BY WorkDoes, Fields, Targets
     DEF IInv, Changing, Present, Seeded, Quiet, Shut, Writable, Available, Outcome, Runners, TInv
<1>6. Pushing'
  BY WorkDoes, Fields, Targets
     DEF IInv, Pushing, Reaching, Passed, Present, Seeded, Quiet, Shut, Writable, Available, Lives
<1>7. Closed'
  BY WorkDoes, Fields DEF IInv, Closed, Present, Seeded, Quiet, Shut, Writable, Available, Lives
<1> QED
  BY <1>1, <1>2, <1>3, <1>4, <1>5, <1>6, <1>7 DEF IInv

\* A workspace at rest is quiet.
LEMMA RestKeeps ==
  ASSUME IInv, NEW w \in Workspaces, Rest(w)
  PROVE  IInv'
<1>1. TInv'
  BY RestDoes DEF IInv
<1>2. Revisions' /\ Seeds' /\ Creating' /\ Listing'
  BY RestDoes, Undisturbed DEF IInv
<1>3. Identities'
  BY RestDoes, Fields DEF IInv, Identities, Present, Seeded
<1>4. Lives'
  BY RestDoes, Fields DEF IInv, Lives, Seeded, Quiet
<1>5. Changing'
  BY RestDoes, Fields, Targets DEF IInv, Changing, Present, Seeded, Quiet, Shut
<1>6. Pushing'
  BY RestDoes, Fields, Targets DEF IInv, Pushing, Reaching, Passed, Present, Seeded, Quiet, Shut
<1>7. Closed'
  BY RestDoes, Fields DEF IInv, Closed, Present, Seeded, Quiet, Shut
<1> QED
  BY <1>1, <1>2, <1>3, <1>4, <1>5, <1>6, <1>7 DEF IInv

\* A change of phase starts from the object's metadata.
LEMMA PhaseBeginKeeps ==
  ASSUME IInv, NEW w \in Workspaces, PhaseBegin(w)
  PROVE  IInv'
<1>1. TInv'
  BY PhaseBeginDoes DEF IInv
<1>2. Seeds' /\ Lives' /\ Changing' /\ Pushing' /\ Closed' /\ Listing'
  BY PhaseBeginDoes, Undisturbed DEF IInv
<1>3. Revisions'
  BY PhaseBeginDoes, Fields, Targets DEF IInv, Revisions, Present
<1>4. Identities'
  BY PhaseBeginDoes, Fields, Blank DEF IInv, Identities, Present, Seeded, Available
<1>5. Creating'
  BY PhaseBeginDoes, Fields, Targets DEF IInv, Creating, Seeded
<1> QED
  BY <1>1, <1>2, <1>3, <1>4, <1>5 DEF IInv

\* What a change of phase writes over something newer is noted.
LEMMA PhaseWriteKeeps ==
  ASSUME IInv, NEW w \in Workspaces, PhaseWrite(w)
  PROVE  IInv'
<1>1. TInv'
  BY PhaseWriteDoes DEF IInv
<1>2. Listing'
  BY PhaseWriteDoes, Undisturbed DEF IInv
<1>3. Revisions'
  BY PhaseWriteDoes, Fields, Targets DEF IInv, Revisions, Present, Identities
<1>4. Identities'
  BY PhaseWriteDoes, Fields, Blank DEF IInv, Identities, Present, Seeded
<1>5. Seeds'
  BY PhaseWriteDoes, Fields, Targets DEF IInv, Seeds, Seeded, Identities
<1>6. Lives'
  BY PhaseWriteDoes, Fields DEF IInv, Lives, Seeded, Quiet, Identities
<1>7. Creating'
  BY PhaseWriteDoes, Fields, Targets DEF IInv, Creating, Seeded, Identities
<1>8. Changing'
  BY PhaseWriteDoes, Fields, Targets DEF IInv, Changing, Present, Seeded, Quiet, Shut, Identities
<1>9. Pushing'
  BY PhaseWriteDoes, Fields, Targets
     DEF IInv, Pushing, Reaching, Passed, Present, Seeded, Quiet, Shut, Identities
<1>10. Closed'
  BY PhaseWriteDoes, Fields, Blank DEF IInv, Closed, Present, Seeded, Quiet, Shut, Identities
<1> QED
  BY <1>1, <1>2, <1>3, <1>4, <1>5, <1>6, <1>7, <1>8, <1>9, <1>10 DEF IInv

\* The recorded phase is newer than any request knows, with the same lifecycle.
LEMMA PhaseRecordKeeps ==
  ASSUME IInv, NEW w \in Workspaces, PhaseRecord(w)
  PROVE  IInv'
<1>1. TInv'
  BY PhaseRecordDoes DEF IInv
<1>2. Listing'
  BY PhaseRecordDoes, Undisturbed DEF IInv
<1>3. Revisions'
  BY PhaseRecordDoes, Fields, Blank, Targets DEF IInv, Revisions, Present, Identities
<1>4. Identities'
  BY PhaseRecordDoes, Fields, Blank, Putting DEF IInv, Identities, Present, Seeded
<1>5. Seeds'
  BY PhaseRecordDoes, Fields, Targets DEF IInv, Seeds, Seeded, Identities, Present
<1>6. Lives'
  BY PhaseRecordDoes, Fields DEF IInv, Lives, Seeded, Quiet, Identities, Present
<1>7. Creating'
  BY PhaseRecordDoes, Fields, Blank, Targets DEF IInv, Creating, Seeded, Identities, Present
<1>8. Changing'
  BY PhaseRecordDoes, Fields, Targets DEF IInv, Changing, Present, Seeded, Quiet, Shut, Identities
<1>9. Pushing'
  BY PhaseRecordDoes, Fields, Targets
     DEF IInv, Pushing, Reaching, Passed, Present, Seeded, Quiet, Shut, Identities
<1>10. Closed'
  BY PhaseRecordDoes, Fields DEF IInv, Closed, Present, Seeded, Quiet, Shut, Identities
<1> QED
  BY <1>1, <1>2, <1>3, <1>4, <1>5, <1>6, <1>7, <1>8, <1>9, <1>10 DEF IInv

\* The adopted phase leaves the lifecycle alone, or that is noted.
LEMMA PhaseAdoptKeeps ==
  ASSUME IInv, NEW w \in Workspaces, PhaseAdopt(w)
  PROVE  IInv'
<1>1. TInv'
  BY PhaseAdoptDoes DEF IInv
<1>2. Listing'
  BY PhaseAdoptDoes, Undisturbed DEF IInv
<1>3. Revisions'
  BY PhaseAdoptDoes, Fields, Blank, Targets DEF IInv, Revisions, Present, Identities
<1>4. Identities'
  BY PhaseAdoptDoes, Fields, Blank DEF IInv, Identities, Present, Seeded
<1>5. Seeds'
  BY PhaseAdoptDoes, Fields, Targets DEF IInv, Seeds, Seeded, Identities
<1>6. Lives'
  BY PhaseAdoptDoes, Fields DEF IInv, Lives, Seeded, Quiet, Identities
<1>7. Creating'
  BY PhaseAdoptDoes, Fields, Blank, Targets DEF IInv, Creating, Seeded, Identities
<1>8. Changing'
  BY PhaseAdoptDoes, Fields, Blank, Targets DEF IInv, Changing, Present, Seeded, Quiet, Shut, Identities
<1>9. Pushing'
  BY PhaseAdoptDoes, Fields, Blank, Targets
     DEF IInv, Pushing, Reaching, Passed, Present, Seeded, Quiet, Shut, Identities
<1>10. Closed'
  BY PhaseAdoptDoes, Fields DEF IInv, Closed, Present, Seeded, Quiet, Shut, Identities
<1> QED
  BY <1>1, <1>2, <1>3, <1>4, <1>5, <1>6, <1>7, <1>8, <1>9, <1>10 DEF IInv

\* A request that asks for nothing new to be written.
LEMMA Asking ==
  ASSUME IInv, TInv', run.op # 0 => Kind' = Kind /\ Target' = Target,
         UNCHANGED <<project, rows, gone, run, obj, seed, phase, use, index, puts, history>>,
         \A j \in DOMAIN asks' : asks'[j].pc = "put" =>
           \/ \E i \in DOMAIN asks : asks'[j] = asks[i]
           \/ asks'[j].ws \in Workspaces /\ ~Present(asks'[j].ws) /\ asks'[j].rev = 0
           \/ /\ asks'[j].ws \in Workspaces /\ rows[asks'[j].ws].life = "failed"
              /\ asks'[j].rev = rows[asks'[j].ws].rev
  PROVE  IInv'
<1>1. UNCHANGED <<torn, late, stale, slipped, unpublished>>
  BY DEF history
<1>2. Revisions' /\ Seeds' /\ Lives' /\ Creating' /\ Changing' /\ Pushing' /\ Closed' /\ Listing'
  BY <1>1, Undisturbed
<1>3. Identities'
  <2>1. \A w \in Workspaces :
          /\ w \in gone \/ project.life = "deleting" => ~Present(w)
          /\ ~Present(w) /\ w \notin gone /\ project.life # "deleting" =>
               obj[w] = NoObject /\ seed[w] = NoObject /\ use[w] = "idle"
          /\ ~Seeded(w) => obj[w] = NoObject /\ phase[w] = NoPhase
          /\ seed[w] # NoObject => seed[w].life # "none"
          /\ phase[w].pc \in {"write", "adopt"} => phase[w].cur.life # "none"
          /\ phase[w].pc = "idle" => phase[w] = NoPhase
    BY DEF IInv, Identities
  <2>2. ASSUME NEW j \in DOMAIN asks', asks'[j].pc = "put"
        PROVE  LET w == asks'[j].ws
               IN  IF Present(w) THEN /\ asks'[j].rev <= rows[w].rev
                                      /\ asks'[j].rev = rows[w].rev => rows[w].life = "failed"
                   ELSE w \in gone \/ project.life = "deleting" \/ asks'[j].rev = 0
    BY <2>2, Fields DEF IInv, Identities, Present
  <2> QED
    BY <2>1, <2>2 DEF Identities, Present, Seeded
<1> QED
  BY <1>2, <1>3 DEF IInv

\* A new request is to write what the project has not, or a failed creation.
LEMMA AsksKeep ==
  ASSUME IInv, \/ \E w \in Workspaces : AskCreate(w) \/ AskRetry(w)
               \/ \E w \in Workspaces, kind \in WorkspaceKinds : AskWorkspace(kind, w)
               \/ \E kind \in ProjectKinds : AskProject(kind)
               \/ \E i \in DOMAIN ops : AskAgain(i)
  PROVE  IInv'
<1>1. TInv
  BY DEF IInv
<1> HIDE DEF IInv
<1> QED
  BY <1>1, AsksDo, Asking

\* The requests that are left were there.
LEMMA AskLostKeeps ==
  ASSUME IInv, NEW k \in DOMAIN asks, AskLost(k)
  PROVE  IInv'
<1>1. TInv
  BY DEF IInv
<1> QED
  BY <1>1, AskLostDoes, Asking

\* A location decides nothing here.
LEMMA AskLocateKeeps ==
  ASSUME IInv, NEW k \in DOMAIN asks, AskLocate(k)
  PROVE  IInv'
<1>1. TInv
  BY DEF IInv
<1> QED
  BY <1>1, AskLocateDoes, Asking

\* A check decides nothing here.
LEMMA AskCheckKeeps ==
  ASSUME IInv, NEW k \in DOMAIN asks, AskCheck(k)
  PROVE  IInv'
<1>1. TInv
  BY DEF IInv
<1> QED
  BY <1>1, AskCheckDoes, Asking

\* The operation that runs stays the same.
LEMMA AskAppendKeeps ==
  ASSUME IInv, NEW k \in DOMAIN asks, AskAppend(k)
  PROVE  IInv'
<1>1. TInv
  BY DEF IInv
<1> QED
  BY <1>1, AskAppendDoes, Asking

\* Only a workspace that is unknown or whose creation failed is written, and noted as late.
LEMMA AskPutKeeps ==
  ASSUME IInv, NEW k \in DOMAIN asks, AskPut(k)
  PROVE  IInv'
<1>1. TInv'
  BY AskPutDoes DEF IInv
<1>2. Listing'
  BY AskPutDoes, Undisturbed DEF IInv
<1>3. Revisions'
  BY AskPutDoes, Fields, Putting, Blank, Targets
     DEF IInv, Revisions, Present, Identities, CanPut, LateOnes, Listed, Seeded
<1>4. Identities'
  BY AskPutDoes, Fields, Putting, Blank DEF IInv, Identities, Present, Seeded, CanPut, LateOnes, Listed
<1>5. Seeds'
  BY AskPutDoes, Fields, Putting, Blank, Targets
     DEF IInv, Seeds, Seeded, Identities, CanPut, LateOnes, Listed, Present
<1>6. Lives'
  BY AskPutDoes, Fields, Putting, Blank
     DEF IInv, Lives, Seeded, Quiet, Identities, CanPut, LateOnes, Listed, Present
<1>7. Creating'
  BY AskPutDoes, Fields, Putting, Blank, Targets
     DEF IInv, Creating, Seeded, Identities, CanPut, LateOnes, Listed, Present
<1>8. Changing'
  BY AskPutDoes, Fields, Putting, Blank, Targets
     DEF IInv, Changing, Present, Seeded, Quiet, Shut, Identities, CanPut, LateOnes, Listed, Outcome
<1>9. Pushing'
  BY AskPutDoes, Fields, Putting, Blank, Targets
     DEF IInv, Pushing, Reaching, Passed, Present, Seeded, Quiet, Shut, Identities, CanPut,
         LateOnes, Listed
<1>10. Closed'
  BY AskPutDoes, Fields, Putting, Blank
     DEF IInv, Closed, Present, Seeded, Quiet, Shut, Identities, CanPut, LateOnes, Listed
<1> QED
  BY <1>1, <1>2, <1>3, <1>4, <1>5, <1>6, <1>7, <1>8, <1>9, <1>10 DEF IInv

-----------------------------------------------------------------------------
(* ... and the alarm's run. *)

\* An operation starts over from its first step.
LEMMA BeginKeeps ==
  ASSUME IInv, Begin
  PROVE  IInv'
<1>1. TInv
  BY DEF IInv
<1> QED
  BY <1>1, BeginDoes, Resting

\* Nothing depends on a run that is done.
LEMMA FinishKeeps ==
  ASSUME IInv, Finish
  PROVE  IInv'
<1>1. TInv
  BY DEF IInv
<1> QED
  BY <1>1, FinishDoes, Resting

\* Nothing depends on a location.
LEMMA UnlocateKeeps ==
  ASSUME IInv, Unlocate
  PROVE  IInv'
<1>1. TInv
  BY DEF IInv
<1> QED
  BY <1>1, UnlocateDoes, Resting

\* What a failed run leaves half done is torn, or was not begun.
LEMMA RunFailsKeeps ==
  ASSUME IInv, RunFails
  PROVE  IInv'
<1>1. TInv
  BY DEF IInv
<1> QED
  BY <1>1, RunFailsDoes, Resting

\* What a cut-off run leaves half done is torn, or was not begun.
LEMMA RunCutKeeps ==
  ASSUME IInv, RunCut
  PROVE  IInv'
<1>1. TInv
  BY DEF IInv
<1> QED
  BY <1>1, RunCutDoes, Resting

\* The run starts from what the project holds.
LEMMA ReadKeeps ==
  ASSUME IInv, Read
  PROVE  IInv'
<1>1. TInv'
  BY ReadDoes DEF IInv
<1>2. CASE Rests
  BY <1>1, <1>2, Resting
<1>3. CASE ~Rests
  <2>2. Identities' /\ Lives' /\ Closed'
    BY <1>3, ReadDoes, Undisturbed DEF IInv
  <2>3. Revisions'
    BY <1>3, ReadDoes, Fields, Targets DEF IInv, Revisions, Present
  <2>4. Seeds'
    BY <1>3, ReadDoes, Fields, Targets DEF IInv, Seeds, Seeded
  <2>5. Creating'
    BY <1>3, ReadDoes, Fields, Targets DEF IInv, Creating, Seeded, Revisions
  <2>6. Changing'
    BY <1>3, ReadDoes, Fields, Targets DEF IInv, Changing, Present, Seeded, Quiet, Shut, Revisions
  <2>7. Pushing'
    BY <1>3, ReadDoes, Fields, Targets DEF IInv, Pushing, Reaching, Passed, Present, Seeded, Quiet, Shut
  <2>8. Listing'
    BY <1>3, ReadDoes, Fields DEF IInv, Listing
  <2> QED
    BY <1>1, <2>2, <2>3, <2>4, <2>5, <2>6, <2>7, <2>8 DEF IInv
<1> QED
  BY <1>2, <1>3

\* The definition gets a newer revision and stays provisioning.
LEMMA SourceKeeps ==
  ASSUME IInv, Source
  PROVE  IInv'
<1>1. TInv'
  BY SourceDoes DEF IInv
<1>2. CASE Rests
  BY <1>1, <1>2, Resting
<1>3. CASE ~Rests
  <2>2. Revisions'
    BY <1>3, SourceDoes, Fields, Targets DEF IInv, Revisions, Present, Creating
  <2>3. Identities'
    BY <1>3, SourceDoes, Fields, Putting, Blank DEF IInv, Identities, Present, Seeded, Creating
  <2>4. Seeds'
    BY <1>3, SourceDoes, Fields, Targets DEF IInv, Seeds, Seeded, Creating
  <2>5. Lives'
    BY <1>3, SourceDoes, Fields DEF IInv, Lives, Seeded, Quiet, Creating, Identities, CanPut
  <2>6. Creating'
    BY <1>3, SourceDoes, Fields, Targets DEF IInv, Creating, Seeded, Revisions
  <2>7. Changing'
    BY <1>3, SourceDoes, Fields, Targets DEF IInv, Changing, Present, Seeded, Quiet, Shut
  <2>8. Pushing'
    BY <1>3, SourceDoes, Fields, Targets
       DEF IInv, Pushing, Reaching, Passed, Present, Seeded, Quiet, Shut
  <2>9. Closed'
    BY <1>3, SourceDoes, Fields DEF IInv, Closed, Present, Seeded, Quiet, Shut, Creating
  <2>10. Listing'
    BY <1>3, SourceDoes, Fields DEF IInv, Listing
  <2> QED
    BY <1>1, <2>2, <2>3, <2>4, <2>5, <2>6, <2>7, <2>8, <2>9, <2>10 DEF IInv
<1> QED
  BY <1>2, <1>3

\* The definition stays provisioning.
LEMMA ForkKeeps ==
  ASSUME IInv, Fork
  PROVE  IInv'
<1>1. TInv'
  BY ForkDoes DEF IInv
<1>2. Identities' /\ Lives' /\ Closed'
  BY ForkDoes, Undisturbed DEF IInv
<1>3. Revisions'
  BY ForkDoes, Fields, Targets DEF IInv, Revisions, Present
<1>4. Seeds'
  BY ForkDoes, Fields, Targets DEF IInv, Seeds, Seeded
<1>5. Creating'
  BY ForkDoes, Fields, Targets DEF IInv, Creating, Seeded
<1>6. Changing'
  BY ForkDoes, Fields, Targets DEF IInv, Changing, Present, Seeded, Quiet, Shut
<1>7. Pushing'
  BY ForkDoes, Fields, Targets DEF IInv, Pushing, Reaching, Passed, Present, Seeded, Quiet, Shut
<1>8. Listing'
  BY ForkDoes, Fields DEF IInv, Listing
<1> QED
  BY <1>1, <1>2, <1>3, <1>4, <1>5, <1>6, <1>7, <1>8 DEF IInv

\* The object and the definition are torn from here on.
LEMMA ActivateKeeps ==
  ASSUME IInv, Activate
  PROVE  IInv'
<1>1. TInv'
  BY ActivateDoes DEF IInv
<1>2. CASE Rests
  BY <1>1, <1>2, Resting
<1>3. CASE ~Rests
  <2>2. Revisions'
    BY <1>3, ActivateDoes, Fields, Targets DEF IInv, Revisions, Present, Creating
  <2>3. Identities'
    BY <1>3, ActivateDoes, Fields, Putting, Blank DEF IInv, Identities, Present, Seeded, Creating
  <2>4. Seeds'
    BY <1>3, ActivateDoes, Fields, Targets DEF IInv, Seeds, Seeded, Creating
  <2>5. Lives'
    BY <1>3, ActivateDoes, Fields DEF IInv, Lives, Seeded, Quiet, Creating, Identities, CanPut
  <2>6. Creating'
    BY <1>3, ActivateDoes, Fields, Targets DEF IInv, Creating, Seeded, Revisions, Present
  <2>7. Changing'
    BY <1>3, ActivateDoes, Fields, Targets DEF IInv, Changing, Present, Seeded, Quiet, Shut
  <2>8. Pushing'
    BY <1>3, ActivateDoes, Fields, Targets
       DEF IInv, Pushing, Reaching, Passed, Present, Seeded, Quiet, Shut
  <2>9. Closed'
    BY <1>3, ActivateDoes, Fields DEF IInv, Closed, Present, Seeded, Quiet, Shut, Creating
  <2>10. Listing'
    BY <1>3, ActivateDoes, Fields DEF IInv, Listing
  <2> QED
    BY <1>1, <2>2, <2>3, <2>4, <2>5, <2>6, <2>7, <2>8, <2>9, <2>10 DEF IInv
<1> QED
  BY <1>2, <1>3

\* The object takes the new definition, or already has it.
LEMMA SeedWorkspaceKeeps ==
  ASSUME IInv, SeedWorkspace
  PROVE  IInv'
<1>1. TInv'
  BY SeedWorkspaceDoes DEF IInv
<1>2. Revisions'
  BY SeedWorkspaceDoes, Fields, Blank, Targets DEF IInv, Revisions, Present, Creating
<1>3. Identities'
  BY SeedWorkspaceDoes, Fields, Blank DEF IInv, Identities, Present, Seeded, Creating
<1>4. Seeds'
  BY SeedWorkspaceDoes, Fields, Blank, Targets DEF IInv, Seeds, Seeded, Creating, Revisions, Present
<1>5. Lives'
  BY SeedWorkspaceDoes, Fields, Blank DEF IInv, Lives, Seeded, Quiet, Creating, Identities, Present
<1>6. Creating'
  BY SeedWorkspaceDoes, Fields, Blank, Targets DEF IInv, Creating, Seeded
<1>7. Changing'
  BY SeedWorkspaceDoes, Fields, Blank, Targets DEF IInv, Changing, Present, Seeded, Quiet, Shut
<1>8. Pushing'
  BY SeedWorkspaceDoes, Fields, Blank, Targets
     DEF IInv, Pushing, Reaching, Passed, Present, Seeded, Quiet, Shut
<1>9. Closed'
  BY SeedWorkspaceDoes, Fields, Blank DEF IInv, Closed, Present, Seeded, Quiet, Shut, Creating
<1>10. Listing'
  BY SeedWorkspaceDoes, Fields, Blank DEF IInv, Listing
<1> QED
  BY <1>1, <1>2, <1>3, <1>4, <1>5, <1>6, <1>7, <1>8, <1>9, <1>10 DEF IInv

\* A failed creation is newer than any request knows.
LEMMA MarkFailedKeeps ==
  ASSUME IInv, MarkFailed
  PROVE  IInv'
<1>1. TInv'
  BY MarkFailedDoes DEF IInv
<1>2. Revisions'
  BY MarkFailedDoes, Fields, Putting, Blank, Targets DEF IInv, Revisions, Present
<1>3. Identities'
  BY MarkFailedDoes, Fields, Putting, Blank DEF IInv, Identities, Present, Seeded, Revisions
<1>4. Seeds'
  BY MarkFailedDoes, Fields, Putting, Blank, Targets DEF IInv, Seeds, Seeded
<1>5. Lives'
  BY MarkFailedDoes, Fields, Putting, Blank DEF IInv, Lives, Seeded, Quiet
<1>6. Creating'
  BY MarkFailedDoes, Fields, Putting, Blank, Targets DEF IInv, Creating, Seeded
<1>7. Changing'
  BY MarkFailedDoes, Fields, Putting, Blank, Targets DEF IInv, Changing, Present, Seeded, Quiet, Shut
<1>8. Pushing'
  BY MarkFailedDoes, Fields, Putting, Blank, Targets
     DEF IInv, Pushing, Reaching, Passed, Present, Seeded, Quiet, Shut
<1>9. Closed'
  BY MarkFailedDoes, Fields, Putting, Blank DEF IInv, Closed, Present, Seeded, Quiet, Shut
<1>10. Listing'
  BY MarkFailedDoes, Fields, Putting, Blank DEF IInv, Listing
<1> QED
  BY <1>1, <1>2, <1>3, <1>4, <1>5, <1>6, <1>7, <1>8, <1>9, <1>10 DEF IInv

\* The object takes what the project holds, then the change; from there on the two are torn.
LEMMA ApplyKeeps ==
  ASSUME IInv, Apply
  PROVE  IInv'
<1>1. TInv'
  BY ApplyDoes DEF IInv
<1>2. Revisions'
  BY ApplyDoes, Fields, Blank, Targets DEF IInv, Revisions, Present, Changing
<1>3. Identities'
  BY ApplyDoes, Fields, Blank, Targets DEF IInv, Identities, Present, Seeded, Changing, Outcome
<1>4. Seeds'
  BY ApplyDoes, Fields, Blank, Targets DEF IInv, Seeds, Seeded, Changing, Outcome, Present, Identities
<1>5. Lives'
  BY ApplyDoes, Fields, Blank, Targets
     DEF IInv, Lives, Seeded, Quiet, Changing, Outcome, Identities, Present
<1>6. Creating'
  BY ApplyDoes, Fields, Blank, Targets DEF IInv, Creating, Seeded
<1>7. Changing'
  BY ApplyDoes, Fields, Blank, Targets
     DEF IInv, Changing, Present, Seeded, Quiet, Shut, Outcome, Identities
<1>8. Pushing'
  BY ApplyDoes, Fields, Blank, Targets DEF IInv, Pushing, Reaching, Passed, Present, Seeded, Quiet, Shut
<1>9. Closed'
  BY ApplyDoes, Fields, Blank, Targets
     DEF IInv, Closed, Present, Seeded, Quiet, Shut, Changing, Identities, Outcome
<1>10. Listing'
  BY ApplyDoes, Fields, Blank, Targets DEF IInv, Listing
<1> QED
  BY <1>1, <1>2, <1>3, <1>4, <1>5, <1>6, <1>7, <1>8, <1>9, <1>10 DEF IInv

\* The runtime is quiet; the tombstone is what the object holds.
LEMMA StopKeeps ==
  ASSUME IInv, Stop
  PROVE  IInv'
<1>1. TInv'
  BY StopDoes DEF IInv
<1>2. Revisions'
  BY StopDoes, Fields, Blank, Targets DEF IInv, Revisions, Present, Changing
<1>3. Identities'
  BY StopDoes, Fields, Blank DEF IInv, Identities, Present, Seeded, Changing, Outcome
<1>4. Seeds'
  BY StopDoes, Fields, Blank, Targets DEF IInv, Seeds, Seeded, Changing, Outcome
<1>5. Lives'
  BY StopDoes, Fields, Blank DEF IInv, Lives, Seeded, Quiet, Changing, Outcome, Identities, Present
<1>6. Creating'
  BY StopDoes, Fields, Blank, Targets DEF IInv, Creating, Seeded
<1>7. Changing'
  BY StopDoes, Fields, Blank, Targets DEF IInv, Changing, Present, Seeded, Quiet, Shut, Outcome
<1>8. Pushing'
  BY StopDoes, Fields, Blank, Targets DEF IInv, Pushing, Reaching, Passed, Present, Seeded, Quiet, Shut
<1>9. Closed'
  BY StopDoes, Fields, Blank
     DEF IInv, Closed, Present, Seeded, Quiet, Shut, Changing, Identities, Outcome
<1>10. Listing'
  BY StopDoes, Fields, Blank DEF IInv, Listing
<1> QED
  BY <1>1, <1>2, <1>3, <1>4, <1>5, <1>6, <1>7, <1>8, <1>9, <1>10 DEF IInv

\* The object has applied what is recorded.
LEMMA RecordKeeps ==
  ASSUME IInv, Record
  PROVE  IInv'
<1>1. TInv'
  BY RecordDoes DEF IInv
<1>2. CASE Rests
  BY <1>1, <1>2, Resting
<1>3. CASE ~Rests
  <2>2. Revisions'
    BY <1>3, RecordDoes, Fields, Putting, Blank, Targets DEF IInv, Revisions, Present, Outcome
  <2>3. Identities'
    BY <1>3, RecordDoes, Fields, Putting, Blank, Targets
       DEF IInv, Identities, Present, Seeded, Changing, Outcome, Revisions
  <2>4. Seeds'
    BY <1>3, RecordDoes, Fields, Putting, Blank, Targets DEF IInv, Seeds, Seeded, Changing
  <2>5. Lives'
    BY <1>3, RecordDoes, Fields, Putting, Blank, Targets
       DEF IInv, Lives, Seeded, Quiet, Changing, Outcome, Identities, Present
  <2>6. Creating'
    BY <1>3, RecordDoes, Fields, Putting, Blank, Targets DEF IInv, Creating, Seeded
  <2>7. Changing'
    BY <1>3, RecordDoes, Fields, Putting, Blank, Targets
       DEF IInv, Changing, Present, Seeded, Quiet, Shut, Outcome
  <2>8. Pushing'
    BY <1>3, RecordDoes, Fields, Putting, Blank, Targets
       DEF IInv, Pushing, Reaching, Passed, Present, Seeded, Quiet, Shut
  <2>9. Closed'
    BY <1>3, RecordDoes, Fields, Putting, Blank, Targets
       DEF IInv, Closed, Present, Seeded, Quiet, Shut, Changing, Lives, Outcome
  <2>10. Listing'
    BY <1>3, RecordDoes, Fields, Putting, Blank DEF IInv, Listing
  <2> QED
    BY <1>1, <2>2, <2>3, <2>4, <2>5, <2>6, <2>7, <2>8, <2>9, <2>10 DEF IInv
<1> QED
  BY <1>2, <1>3

\* The two agree again.
LEMMA AdoptedKeeps ==
  ASSUME IInv, Adopted
  PROVE  IInv'
<1>1. TInv'
  BY AdoptedDoes DEF IInv
<1>2. Revisions'
  BY AdoptedDoes, Fields, Blank, Targets DEF IInv, Revisions, Present, Changing
<1>3. Identities'
  BY AdoptedDoes, Fields, Blank, Targets DEF IInv, Identities, Present, Seeded, Changing, Outcome
<1>4. Seeds'
  BY AdoptedDoes, Fields, Blank, Targets DEF IInv, Seeds, Seeded, Changing, Outcome
<1>5. Lives'
  BY AdoptedDoes, Fields, Blank, Targets
     DEF IInv, Lives, Seeded, Quiet, Changing, Outcome, Identities, Present
<1>6. Creating'
  BY AdoptedDoes, Fields, Blank, Targets DEF IInv, Creating, Seeded
<1>7. Changing'
  BY AdoptedDoes, Fields, Blank, Targets DEF IInv, Changing, Present, Seeded, Quiet, Shut, Outcome
<1>8. Pushing'
  BY AdoptedDoes, Fields, Blank, Targets
     DEF IInv, Pushing, Reaching, Passed, Present, Seeded, Quiet, Shut
<1>9. Closed'
  BY AdoptedDoes, Fields, Blank, Targets
     DEF IInv, Closed, Present, Seeded, Quiet, Shut, Changing, Identities, Outcome
<1>10. Listing'
  BY AdoptedDoes, Fields, Blank DEF IInv, Listing
<1> QED
  BY <1>1, <1>2, <1>3, <1>4, <1>5, <1>6, <1>7, <1>8, <1>9, <1>10 DEF IInv

\* The definition stays deleting.
LEMMA UnrepoKeeps ==
  ASSUME IInv, Unrepo
  PROVE  IInv'
<1>1. TInv'
  BY UnrepoDoes DEF IInv
<1>2. CASE Rests
  BY <1>1, <1>2, Resting
<1>3. CASE ~Rests
  <2>2. Identities' /\ Lives' /\ Closed'
    BY <1>3, UnrepoDoes, Undisturbed DEF IInv
  <2>3. Revisions'
    BY <1>3, UnrepoDoes, Fields, Targets DEF IInv, Revisions, Present
  <2>4. Seeds'
    BY <1>3, UnrepoDoes, Fields, Targets DEF IInv, Seeds, Seeded
  <2>5. Creating'
    BY <1>3, UnrepoDoes, Fields, Targets DEF IInv, Creating, Seeded
  <2>6. Changing'
    BY <1>3, UnrepoDoes, Fields, Targets DEF IInv, Changing, Present, Seeded, Quiet, Shut
  <2>7. Pushing'
    BY <1>3, UnrepoDoes, Fields, Targets
       DEF IInv, Pushing, Reaching, Passed, Present, Seeded, Quiet, Shut
  <2>8. Listing'
    BY <1>3, UnrepoDoes, Fields DEF IInv, Listing
  <2> QED
    BY <1>1, <2>2, <2>3, <2>4, <2>5, <2>6, <2>7, <2>8 DEF IInv
<1> QED
  BY <1>2, <1>3

\* A removed definition was deleting.
LEMMA RemoveRowKeeps ==
  ASSUME IInv, RemoveRow
  PROVE  IInv'
<1>1. TInv'
  BY RemoveRowDoes DEF IInv
<1>2. Revisions'
  BY RemoveRowDoes, Fields, Putting, Blank, Targets DEF IInv, Revisions, Present, Changing
<1>3. Identities'
  BY RemoveRowDoes, Fields, Putting, Blank DEF IInv, Identities, Present, Seeded, Changing
<1>4. Seeds'
  BY RemoveRowDoes, Fields, Putting, Blank, Targets DEF IInv, Seeds, Seeded, Changing, Present
<1>5. Lives'
  BY RemoveRowDoes, Fields, Putting, Blank DEF IInv, Lives, Seeded, Quiet, Changing, Present, Identities
<1>6. Creating'
  BY RemoveRowDoes, Fields, Putting, Blank, Targets DEF IInv, Creating, Seeded
<1>7. Changing'
  BY RemoveRowDoes, Fields, Putting, Blank, Targets DEF IInv, Changing, Present, Seeded, Quiet, Shut
<1>8. Pushing'
  BY RemoveRowDoes, Fields, Putting, Blank, Targets
     DEF IInv, Pushing, Reaching, Passed, Present, Seeded, Quiet, Shut
<1>9. Closed'
  BY RemoveRowDoes, Fields, Putting, Blank DEF IInv, Closed, Present, Seeded, Quiet, Shut, Changing
<1>10. Listing'
  BY RemoveRowDoes, Fields, Putting, Blank DEF IInv, Listing, Changing, Present
<1> QED
  BY <1>1, <1>2, <1>3, <1>4, <1>5, <1>6, <1>7, <1>8, <1>9, <1>10 DEF IInv

\* A deletion reads the project.
LEMMA BeginProjectKeeps ==
  ASSUME IInv, BeginProject
  PROVE  IInv'
<1>1. TInv'
  BY BeginProjectDoes DEF IInv
<1>2. CASE Rests
  BY <1>1, <1>2, Resting
<1>3. CASE ~Rests
  <2>2. Identities' /\ Lives' /\ Closed'
    BY <1>3, BeginProjectDoes, Undisturbed DEF IInv
  <2>3. Revisions'
    BY <1>3, BeginProjectDoes, Fields, Targets DEF IInv, Revisions, Present
  <2>4. Seeds'
    BY <1>3, BeginProjectDoes, Fields, Targets DEF IInv, Seeds, Seeded
  <2>5. Creating'
    BY <1>3, BeginProjectDoes, Fields, Targets DEF IInv, Creating, Seeded
  <2>6. Changing'
    BY <1>3, BeginProjectDoes, Fields, Targets DEF IInv, Changing, Present, Seeded, Quiet, Shut
  <2>7. Pushing'
    BY <1>3, BeginProjectDoes, Fields, Targets
       DEF IInv, Pushing, Reaching, Passed, Present, Seeded, Quiet, Shut
  <2>8. Listing'
    BY <1>3, BeginProjectDoes, Fields DEF IInv, Listing
  <2> QED
    BY <1>1, <2>2, <2>3, <2>4, <2>5, <2>6, <2>7, <2>8 DEF IInv
<1> QED
  BY <1>2, <1>3

\* The project leaves the state it was in.
LEMMA SetProjectKeeps ==
  ASSUME IInv, SetProject
  PROVE  IInv'
<1>1. TInv'
  BY SetProjectDoes DEF IInv
<1>2. CASE Rests
  BY <1>1, <1>2, Resting
<1>3. CASE ~Rests
  <2>2. Lives'
    BY <1>3, SetProjectDoes, Undisturbed DEF IInv
  <2>3. Revisions'
    BY <1>3, SetProjectDoes, Fields, Targets DEF IInv, Revisions, Present
  <2>4. Identities'
    BY <1>3, SetProjectDoes, Fields DEF IInv, Identities, Present, Seeded, CanSet
  <2>5. Seeds'
    BY <1>3, SetProjectDoes, Fields, Targets DEF IInv, Seeds, Seeded
  <2>6. Creating'
    BY <1>3, SetProjectDoes, Fields, Targets DEF IInv, Creating, Seeded
  <2>7. Changing'
    BY <1>3, SetProjectDoes, Fields, Targets DEF IInv, Changing, Present, Seeded, Quiet, Shut
  <2>8. Pushing'
    BY <1>3, SetProjectDoes, Fields, Targets
       DEF IInv, Pushing, Reaching, Passed, Present, Seeded, Quiet, Shut
  <2>9. Closed'
    BY <1>3, SetProjectDoes, Fields DEF IInv, Closed, Present, Seeded, Quiet, Shut, CanSet
  <2>10. Listing'
    BY <1>3, SetProjectDoes, Fields DEF IInv, Listing, CanSet, Revisions
  <2> QED
    BY <1>1, <2>2, <2>3, <2>4, <2>5, <2>6, <2>7, <2>8, <2>9, <2>10 DEF IInv
<1> QED
  BY <1>2, <1>3

\* What is not listed is being deleted.
LEMMA ListKeeps ==
  ASSUME IInv, List
  PROVE  IInv'
<1>1. TInv'
  BY ListDoes DEF IInv
<1>2. Identities' /\ Lives' /\ Closed'
  BY ListDoes, Undisturbed DEF IInv
<1>3. Revisions'
  BY ListDoes, Fields, Targets DEF IInv, Revisions, Present
<1>4. Seeds'
  BY ListDoes, Fields, Targets DEF IInv, Seeds, Seeded
<1>5. Creating'
  BY ListDoes, Fields, Targets DEF IInv, Creating, Seeded
<1>6. Changing'
  BY ListDoes, Fields, Targets DEF IInv, Changing, Present, Seeded, Quiet, Shut
<1>7. Pushing'
  BY ListDoes, Fields, Running, Targets
     DEF IInv, Pushing, Reaching, Passed, Present, Seeded, Quiet, Shut, Lives, Revisions
<1>8. Listing'
  BY ListDoes, Fields DEF IInv, Listing
<1> QED
  BY <1>1, <1>2, <1>3, <1>4, <1>5, <1>6, <1>7, <1>8 DEF IInv

\* The revision pushed is the project's own.
LEMMA EachKeeps ==
  ASSUME IInv, NEW w \in Workspaces, Each(w)
  PROVE  IInv'
<1>1. TInv'
  BY EachDoes DEF IInv
<1>2. Revisions'
  BY EachDoes, Fields, Targets DEF IInv, Revisions, Present, Pushing, Reaching
<1>3. Identities'
  BY EachDoes, Fields, Blank DEF IInv, Identities, Present, Seeded
<1>4. Seeds'
  BY EachDoes, Fields, Targets DEF IInv, Seeds, Seeded, Pushing, Reaching, Revisions, ProjectKinds
<1>5. Lives'
  BY EachDoes, Fields DEF IInv, Lives, Seeded, Quiet
<1>6. Creating'
  BY EachDoes, Fields, Targets DEF IInv, Creating, Seeded
<1>7. Changing'
  BY EachDoes, Fields, Targets DEF IInv, Changing, Present, Seeded, Quiet, Shut
<1>8. Pushing'
  BY EachDoes, Fields, Targets
     DEF IInv, Pushing, Reaching, Passed, Present, Seeded, Quiet, Shut, Revisions, ProjectKinds
<1>9. Closed'
  BY EachDoes, Fields
     DEF IInv, Closed, Present, Seeded, Quiet, Shut, Pushing, Reaching, Identities, ProjectKinds
<1>10. Listing'
  BY EachDoes, Fields DEF IInv, Listing
<1> QED
  BY <1>1, <1>2, <1>3, <1>4, <1>5, <1>6, <1>7, <1>8, <1>9, <1>10 DEF IInv

\* The workspace that stopped is closed and quiet.
LEMMA EachStopKeeps ==
  ASSUME IInv, EachStop
  PROVE  IInv'
<1>1. TInv'
  BY EachStopDoes DEF IInv
<1>2. Revisions'
  BY EachStopDoes, Fields, Blank, Targets DEF IInv, Revisions, Present, Pushing
<1>3. Identities'
  BY EachStopDoes, Fields, Blank DEF IInv, Identities, Present, Seeded, Pushing
<1>4. Seeds'
  BY EachStopDoes, Fields, Blank, Targets DEF IInv, Seeds, Seeded, Pushing
<1>5. Lives'
  BY EachStopDoes, Fields, Blank DEF IInv, Lives, Seeded, Quiet, Pushing, Identities, Present
<1>6. Creating'
  BY EachStopDoes, Fields, Blank, Targets DEF IInv, Creating, Seeded
<1>7. Changing'
  BY EachStopDoes, Fields, Blank, Targets DEF IInv, Changing, Present, Seeded, Quiet, Shut
<1>8. Pushing'
  BY EachStopDoes, Fields, Blank, Targets
     DEF IInv, Pushing, Reaching, Passed, Present, Seeded, Quiet, Shut
<1>9. Closed'
  BY EachStopDoes, Fields, Blank DEF IInv, Closed, Present, Seeded, Quiet, Shut, Pushing, Identities
<1>10. Listing'
  BY EachStopDoes, Fields, Blank DEF IInv, Listing
<1> QED
  BY <1>1, <1>2, <1>3, <1>4, <1>5, <1>6, <1>7, <1>8, <1>9, <1>10 DEF IInv

\* Nothing is left to reach.
LEMMA ReachedKeeps ==
  ASSUME IInv, Reached
  PROVE  IInv'
<1>1. TInv'
  BY ReachedDoes DEF IInv
<1>2. Identities' /\ Lives' /\ Closed'
  BY ReachedDoes, Undisturbed DEF IInv
<1>3. Revisions'
  BY ReachedDoes, Fields, Targets DEF IInv, Revisions, Present
<1>4. Seeds'
  BY ReachedDoes, Fields, Targets DEF IInv, Seeds, Seeded
<1>5. Creating'
  BY ReachedDoes, Fields, Targets DEF IInv, Creating, Seeded
<1>6. Changing'
  BY ReachedDoes, Fields, Targets DEF IInv, Changing, Present, Seeded, Quiet, Shut
<1>7. Pushing'
  BY ReachedDoes, Fields, Running, Targets
     DEF IInv, Pushing, Reaching, Passed, Present, Seeded, Quiet, Shut, ProjectKinds
<1>8. Listing'
  BY ReachedDoes, Fields DEF IInv, Listing
<1> QED
  BY <1>1, <1>2, <1>3, <1>4, <1>5, <1>6, <1>7, <1>8 DEF IInv

\* Every workspace that was listed is closed and quiet.
LEMMA SettleKeeps ==
  ASSUME IInv, Settle
  PROVE  IInv'
<1>1. TInv'
  BY SettleDoes DEF IInv
<1>2. CASE Rests
  BY <1>1, <1>2, Resting
<1>3. CASE ~Rests
  <2>2. Lives'
    BY <1>3, SettleDoes, Undisturbed DEF IInv
  <2>3. Revisions'
    BY <1>3, SettleDoes, Fields, Targets DEF IInv, Revisions, Present
  <2>4. Identities'
    BY <1>3, SettleDoes, Fields DEF IInv, Identities, Present, Seeded, CanSet
  <2>5. Seeds'
    BY <1>3, SettleDoes, Fields, Targets DEF IInv, Seeds, Seeded
  <2>6. Creating'
    BY <1>3, SettleDoes, Fields, Targets DEF IInv, Creating, Seeded
  <2>7. Changing'
    BY <1>3, SettleDoes, Fields, Targets DEF IInv, Changing, Present, Seeded, Quiet, Shut
  <2>8. Pushing'
    BY <1>3, SettleDoes, Fields, Targets
       DEF IInv, Pushing, Reaching, Passed, Present, Seeded, Quiet, Shut
  <2>9. Closed'
    BY <1>3, SettleDoes, Fields
       DEF IInv, Closed, Present, Seeded, Quiet, Shut, Pushing, Reaching, Passed, CanSet
  <2>10. Listing'
    BY <1>3, SettleDoes, Fields DEF IInv, Listing, CanSet, Revisions
  <2> QED
    BY <1>1, <2>2, <2>3, <2>4, <2>5, <2>6, <2>7, <2>8, <2>9, <2>10 DEF IInv
<1> QED
  BY <1>2, <1>3

\* The directory gets the newest summary.
LEMMA PublishKeeps ==
  ASSUME IInv, Publish
  PROVE  IInv'
<1>1. TInv'
  BY PublishDoes DEF IInv
<1>2. Identities' /\ Lives' /\ Closed'
  BY PublishDoes, Undisturbed DEF IInv
<1>3. Revisions'
  BY PublishDoes, Fields, Targets DEF IInv, Revisions, Present
<1>4. Seeds'
  BY PublishDoes, Fields, Targets DEF IInv, Seeds, Seeded
<1>5. Creating'
  BY PublishDoes, Fields, Targets DEF IInv, Creating, Seeded
<1>6. Changing'
  BY PublishDoes, Fields, Targets DEF IInv, Changing, Present, Seeded, Quiet, Shut
<1>7. Pushing'
  BY PublishDoes, Fields, Targets DEF IInv, Pushing, Reaching, Passed, Present, Seeded, Quiet, Shut
<1>8. Listing'
  BY PublishDoes, Fields DEF IInv, Listing, IndexPut, Revisions
<1> QED
  BY <1>1, <1>2, <1>3, <1>4, <1>5, <1>6, <1>7, <1>8 DEF IInv

\* Every workspace is deleted, or the project never recorded it.
LEMMA DeleteProjectKeeps ==
  ASSUME IInv, DeleteProject
  PROVE  IInv'
<1>1. TInv'
  BY DeleteProjectDoes DEF IInv
<1>2. CASE Rests
  BY <1>1, <1>2, Resting
<1>3. CASE ~Rests
  <2>2. Revisions'
    BY <1>3, DeleteProjectDoes, Fields, Blank, Putting, Targets DEF IInv, Revisions, Present
  <2>3. Identities'
    BY <1>3, DeleteProjectDoes, Fields, Blank, Putting DEF IInv, Identities, Present, Seeded
  <2>4. Seeds'
    BY <1>3, DeleteProjectDoes, Fields, Blank, Putting, Targets DEF IInv, Seeds, Seeded
  <2>5. Lives'
    BY <1>3, DeleteProjectDoes, Fields, Blank, Putting DEF IInv, Lives, Seeded, Quiet
  <2>6. Creating'
    BY <1>3, DeleteProjectDoes, Fields, Blank, Putting, Targets DEF IInv, Creating, Seeded
  <2>7. Changing'
    BY <1>3, DeleteProjectDoes, Fields, Blank, Putting, Targets
       DEF IInv, Changing, Present, Seeded, Quiet, Shut
  <2>8. Pushing'
    BY <1>3, DeleteProjectDoes, Fields, Blank, Putting, Targets
       DEF IInv, Pushing, Reaching, Passed, Present, Seeded, Quiet, Shut
  <2>9. Closed'
    BY <1>3, DeleteProjectDoes, Fields, Blank, Putting
       DEF IInv, Closed, Present, Seeded, Quiet, Shut, Pushing, Reaching, Passed, Identities
  <2>10. Listing'
    BY <1>3, DeleteProjectDoes, Fields, Blank, Putting DEF IInv, Listing, Revisions
  <2> QED
    BY <1>1, <2>2, <2>3, <2>4, <2>5, <2>6, <2>7, <2>8, <2>9, <2>10 DEF IInv
<1> QED
  BY <1>2, <1>3

\* Only a deleted project leaves the directory.
LEMMA UnindexKeeps ==
  ASSUME IInv, Unindex
  PROVE  IInv'
<1>1. TInv'
  BY UnindexDoes DEF IInv
<1>2. Identities' /\ Lives' /\ Closed'
  BY UnindexDoes, Undisturbed DEF IInv
<1>3. Revisions'
  BY UnindexDoes, Fields, Targets DEF IInv, Revisions, Present
<1>4. Seeds'
  BY UnindexDoes, Fields, Targets DEF IInv, Seeds, Seeded
<1>5. Creating'
  BY UnindexDoes, Fields, Targets DEF IInv, Creating, Seeded
<1>6. Changing'
  BY UnindexDoes, Fields, Targets DEF IInv, Changing, Present, Seeded, Quiet, Shut
<1>7. Pushing'
  BY UnindexDoes, Fields, Targets DEF IInv, Pushing, Reaching, Passed, Present, Seeded, Quiet, Shut
<1>8. Listing'
  BY UnindexDoes, Fields, Blank DEF IInv, Listing
<1> QED
  BY <1>1, <1>2, <1>3, <1>4, <1>5, <1>6, <1>7, <1>8 DEF IInv

-----------------------------------------------------------------------------
(* The theorems. *)

\* A project in use whose objects hold what it holds, or nothing yet.
LEMMA InitHolds == Init => IInv
<1> SUFFICES ASSUME Init PROVE IInv
  OBVIOUS
<1>1. TInv
  BY InitTyped
<1>2. PICK existing \in SUBSET Workspaces, seeded \in SUBSET Workspaces :
        /\ seeded \subseteq existing
        /\ rows = [w \in Workspaces |-> IF w \in existing THEN [life |-> "active", rev |-> 1]
             ELSE NoRow]
        /\ obj = [w \in Workspaces |-> IF w \in seeded
             THEN [life |-> "active", rev |-> 1, plife |-> "active", prev |-> 1]
                                       ELSE NoObject]
  BY DEF Init
<1>3. /\ project.life = "active" /\ project.rev = 1 /\ index = project /\ puts = {}
      /\ run = NoRun /\ asks = <<>> /\ gone = {}
      /\ \A w \in Workspaces : seed[w] = NoObject /\ phase[w] = NoPhase /\ use[w] = "idle"
  BY DEF Init
<1>4. \A w \in Workspaces :
        /\ w \in existing => rows[w].life = "active" /\ rows[w].rev = 1
        /\ w \notin existing => rows[w] = NoRow /\ obj[w] = NoObject
        /\ \/ obj[w] = NoObject
           \/ obj[w].life = "active" /\ obj[w].rev = 1 /\ obj[w].plife = "active" /\ obj[w].prev = 1
  BY <1>2
<1>5. Revisions
  BY <1>3, <1>4, Blank DEF Revisions, Present
<1>6. Identities
  BY <1>3, <1>4, Blank DEF Identities, Present, Seeded
<1>7. Seeds
  BY <1>3 DEF Seeds
<1>8. Lives
  BY <1>3, <1>4, Blank DEF Lives, Seeded, Quiet
<1>9. Creating /\ Changing
  BY <1>3, Blank DEF Creating, Changing
<1>10. Pushing /\ Closed
  BY <1>3, Blank DEF Pushing, Closed, Reaching
<1>11. Listing
  BY <1>3, Blank DEF Listing
<1> QED
  BY <1>1, <1>5, <1>6, <1>7, <1>8, <1>9, <1>10, <1>11 DEF IInv

\* Every step keeps the inductive invariant.
LEMMA StepHolds == IInv /\ [Next]_vars => IInv'
<1> SUFFICES ASSUME IInv, [Next]_vars PROVE IInv'
  OBVIOUS
<1>1. CASE UNCHANGED vars
  <2>1. /\ UNCHANGED <<project, rows, gone, ops, run, asks, obj, seed, phase, use, index, puts>>
        /\ UNCHANGED <<torn, late, stale, slipped, unpublished>> /\ Kind' = Kind /\ Target' = Target
    BY <1>1 DEF vars, authority, directory, history, Kind, Target
  <2>2. TInv'
    BY <1>1, StepTyped DEF IInv
  <2> QED
    BY <2>1, <2>2, Undisturbed DEF IInv
<1>2. CASE Requests
  <2>1. CASE \E k \in DOMAIN asks : AskLost(k)
    BY <2>1, AskLostKeeps
  <2>2. CASE Move
    BY <2>2, MoveKeeps
  <2> QED
    BY <1>2, <2>1, <2>2, AsksKeep DEF Requests
<1>3. CASE Calls
  <2>1. CASE \E s \in puts : Published(s)
    BY <2>1, PublishedKeeps
  <2>2. CASE \E k \in DOMAIN asks : AskPut(k) \/ AskLocate(k) \/ AskCheck(k) \/ AskAppend(k)
    BY <2>2, AskPutKeeps, AskLocateKeeps, AskCheckKeeps, AskAppendKeeps
  <2> QED
    BY <1>3, <2>1, <2>2 DEF Calls
<1>4. CASE ObjectCalls
  BY <1>4, SeedReadKeeps, SeedWriteKeeps, PhaseWriteKeeps, PhaseRecordKeeps, PhaseAdoptKeeps
     DEF ObjectCalls
<1>5. CASE Users
  BY <1>5, AdmitKeeps, WorkKeeps, RestKeeps, PhaseBeginKeeps DEF Users
<1>6. CASE Runner
  <2>1. CASE \E w \in Workspaces : Each(w)
    BY <2>1, EachKeeps
  <2>2. CASE Begin \/ Finish \/ Read \/ Source \/ Fork \/ Activate \/ SeedWorkspace \/ MarkFailed
    BY <2>2, BeginKeeps, FinishKeeps, ReadKeeps, SourceKeeps, ForkKeeps, ActivateKeeps,
       SeedWorkspaceKeeps,
       MarkFailedKeeps
  <2>3. CASE Apply \/ Stop \/ Record \/ Adopted \/ Unrepo \/ RemoveRow \/ Unlocate
    BY <2>3, ApplyKeeps, StopKeeps, RecordKeeps, AdoptedKeeps, UnrepoKeeps, RemoveRowKeeps,
       UnlocateKeeps
  <2>4. CASE BeginProject \/ SetProject \/ List \/ EachStop \/ Reached
    BY <2>4, BeginProjectKeeps, SetProjectKeeps, ListKeeps, EachStopKeeps, ReachedKeeps
  <2>5. CASE Settle \/ Publish \/ DeleteProject \/ Unindex
    BY <2>5, SettleKeeps, PublishKeeps, DeleteProjectKeeps, UnindexKeeps
  <2> QED
    BY <1>6, <2>1, <2>2, <2>3, <2>4, <2>5 DEF Runner
<1>7. CASE RunFails \/ RunCut
  BY <1>7, RunFailsKeeps, RunCutKeeps
<1> QED
  BY <1>1, <1>2, <1>3, <1>4, <1>5, <1>6, <1>7 DEF Next

\* The inductive invariant holds of every reachable state.
THEOREM Invariance == Spec => []IInv
BY InitHolds, StepHolds, PTL DEF Spec

\* Once the project lists a workspace as archived, or is archived itself, the workspace's own
\* object refuses writes and nothing runs in it, whatever requests, lazy seeds, failed and
\* cut-off runs raced with the archive (project-authority.ts, space-authority.ts); the
\* exceptions are those that ArchivedQuiet names.
THEOREM ArchivedStaysQuiet == Spec => []ArchivedQuiet
<1>1. IInv => ArchivedQuiet
  <2> SUFFICES ASSUME IInv, NEW w \in Workspaces, w \notin torn, w \notin stale,
                      \/ rows[w].life = "archived"
                      \/ project.life = "archived" /\ Present(w) /\ w \notin late
               PROVE  ~Writable(obj[w]) /\ (use[w] = "working" => w \in slipped)
    BY DEF ArchivedQuiet, Sound
  <2>1. CASE rows[w].life = "archived"
    BY <2>1 DEF IInv, Lives, Seeded, Quiet, Writable, Available
  <2>2. CASE project.life = "archived" /\ Present(w) /\ w \notin late
    BY <2>2 DEF IInv, Closed, Lives, Quiet, Shut, Writable, Available
  <2> QED
    BY <2>1, <2>2
<1> QED
  BY <1>1, Invariance, PTL

\* The object of a deleted workspace, and of every workspace of a deleted project, stays
\* unavailable: no seed in flight, retry or cut-off run brings it back.
THEOREM DeletedStaysUnavailable == Spec => []DeletedUnavailable
<1>1. IInv => DeletedUnavailable
  <2> SUFFICES ASSUME IInv, NEW w \in Workspaces, w \notin stale, w \notin late,
                      w \in gone \/ project.life = "deleting"
               PROVE  ~Available(obj[w]) /\ (use[w] = "working" => w \in slipped)
    BY DEF DeletedUnavailable
  <2>1. CASE w \in gone
    BY <2>1 DEF IInv, Lives, Quiet, Available
  <2>2. CASE project.life = "deleting" /\ w \notin gone
    BY <2>2 DEF IInv, Closed, Seeded, Quiet, Available
  <2> QED
    BY <2>1, <2>2
<1> QED
  BY <1>1, Invariance, PTL

\* The project's listing and the workspace's own record agree whenever no change is between
\* its two writes, and the directory and the project once no summary is on its way, in
\* whatever order the summaries arrived.
THEOREM CopiesAgree == Spec => []Agreement
<1>1. IInv => Agreement
  <2> SUFFICES ASSUME IInv PROVE Agreement
    OBVIOUS
  <2>1. \A w \in Workspaces :
          Sound(w) /\ Seeded(w) /\ rows[w].life \in {"active", "archived"} => obj[w].life = rows[w].life
    BY DEF IInv, Lives, Sound
  <2>2. puts = {} /\ ~unpublished /\ project.life \in {"active", "archived"} => index = project
    BY DEF IInv, Listing
  <2> QED
    BY <2>1, <2>2 DEF Agreement
<1> QED
  BY <1>1, Invariance, PTL

=============================================================================
