---------------------- MODULE ProjectAutomations_proof ----------------------
(***************************************************************************)
(* Proofs about the runs of a project's automations, for every number of   *)
(* runs, workspaces, slots, retries and faults.                            *)
(***************************************************************************)
EXTENDS ProjectAutomations, FiniteSetTheorems, WellFoundedInduction, TLAPS

Settled == {"finished", "skipped", "failed"}
Ended   == {"done", "broken", "aborted", "dropped"}

Run   == [state : {"none", "queued", "running", "finished", "skipped", "failed"},
          by : Automations \cup {"none"}, kind : {"message", "start", "notice"},
          to : Workspaces \cup {"none"}, submitted : BOOLEAN, attempts : 0..Retries,
          waiting : BOOLEAN]
Table == [Runs -> Run]

\* TypeOK, one variable at a time; the rest of the invariant does not depend on
\* the variables of aside, which have a conjunct of their own.
Typed ==
  /\ run \in Table
  /\ call \in [Runs -> {"none", "prepare", "sent", "armed", "error"}]
  /\ cancel \in [Runs -> {"none", "sent", "stopping", "withdrawn", "failed", "succeeded"}]
  /\ sub \in [Runs -> {"none", "noted", "queued", "placed", "done", "broken", "aborted", "dropped"}]
  /\ watch \in [Runs -> {"none", "armed", "started"}]
  /\ stopped \in SUBSET Workspaces /\ open \in SUBSET Workspaces
  /\ reports \in SUBSET [run : Runs, what : {"running", "finished", "failed", "asked"}]
  /\ withdrawn \in SUBSET Runs /\ late \in SUBSET Runs /\ asked \in SUBSET Runs
  /\ misheard \in SUBSET Runs /\ unheard \in SUBSET Runs
  /\ torn \in SUBSET Runs /\ unwatched \in SUBSET Runs
  /\ faults \in 0..MaxFaults

TypedAside == receiving \in BOOLEAN /\ unarmed \in SUBSET Runs /\ erased \in SUBSET Workspaces

\* Nothing outside the automations object knows of a run that holds no slot yet,
\* or of a start run whose workspace is not there.
Unsent ==
  \A r \in Runs :
    /\ run[r].state \in {"none", "queued"} =>
         sub[r] = "none" /\ call[r] = "none" /\ r \notin late /\ cancel[r] = "none"
    /\ run[r].kind = "start" =>
         sub[r] = "none" /\ call[r] \in {"none", "prepare", "error"} /\ r \notin late /\ cancel[r] = "none"

\* Nothing is going to be delivered for a run that is settled, unless it was
\* given up for unreachable; what was withdrawn is never delivered.
Closed ==
  \A r \in Runs :
    /\ run[r].state \in Settled /\ sub[r] = "none" /\ run[r].kind # "notice" =>
         r \in unheard \cup withdrawn \/ (r \notin late /\ call[r] \notin {"sent", "armed"})
    /\ r \in withdrawn => sub[r] \in {"none", "noted", "dropped"}
    /\ r \in unheard => run[r].state = "failed"

\* A submission that waits or works belongs to a run that holds its slot.
Backed ==
  \A r \in Runs :
    sub[r] \in {"queued", "placed"} /\ r \notin asked \cup unheard => run[r].state = "running"

\* A workspace has one turn at a time; notices start none.
Turns ==
  /\ \A r, q \in Runs : sub[r] = "placed" /\ sub[q] = "placed" /\ run[r].to = run[q].to => r = q
  /\ \A r \in Runs : /\ sub[r] = "noted" => run[r].kind = "notice"
                     /\ sub[r] \notin {"none", "noted"} => run[r].kind # "notice"
                     /\ call[r] = "armed" => run[r].kind # "notice"
                     /\ watch[r] = "started" => sub[r] \in Ended \cup {"placed"}

\* What a report or a receipt says of a submission is so, and stays so.
Truthful ==
  /\ \A m \in reports :
       /\ m.what = "finished" => sub[m.run] = "done"
       /\ m.what = "failed" => sub[m.run] \in {"broken", "aborted", "dropped"}
       /\ m.what = "asked" => m.run \in asked \/ sub[m.run] \in Ended
  /\ \A r \in Runs :
       /\ cancel[r] = "withdrawn" => sub[r] = "dropped" \/ (r \in withdrawn /\ sub[r] \in {"none", "noted"})
       /\ cancel[r] = "failed" => sub[r] \in {"broken", "aborted"}
       /\ cancel[r] = "succeeded" => sub[r] = "done"
       /\ r \in asked \/ cancel[r] = "stopping" => sub[r] \in Ended \cup {"placed"}

\* The watch is there before the submission, and goes only with the run's end.
Guarded ==
  \A r \in Runs :
    /\ call[r] = "armed" /\ sub[r] = "none" /\ r \notin withdrawn => watch[r] # "none" \/ r \in unwatched
    /\ run[r].state = "running" /\ sub[r] \notin {"none", "noted"} =>
         watch[r] # "none" \/ r \in torn \cup unwatched \/ cancel[r] = "withdrawn"

\* The runs that hold a slot are no more than there are slots.
Slots == Cardinality(Holding(run)) <= Concurrency

IInv == Typed /\ Unsent /\ Closed /\ Backed /\ Turns /\ Truthful /\ Guarded /\ Slots /\ OutcomeTrue

-----------------------------------------------------------------------------
(* Sets of runs. *)

LEMMA RunsFinite == ASSUME NEW S \in SUBSET Runs
                    PROVE  IsFiniteSet(S) /\ Cardinality(S) \in Nat
<1>1. MaxRuns \in Nat
  BY AutomationsAssumption
<1>2. IsFiniteSet(1..MaxRuns)
  BY <1>1, FS_Interval
<1>3. IsFiniteSet(S)
  BY <1>2, FS_Subset DEF Runs
<1> QED
  BY <1>3, FS_CardinalityType

\* Runs are recorded in order: some run of a set is the first.
LEMMA FirstRun == ASSUME NEW S \in SUBSET Runs, S # {}
                  PROVE  \E r \in S : \A q \in S : r <= q
<1>1. S \subseteq Nat
  BY AutomationsAssumption DEF Runs
<1>2. PICK r \in S : \A q \in S : <<q, r>> \notin OpToRel(<, Nat)
  BY <1>1, NatLessThanWellFounded, WFMin
<1>3. ASSUME NEW q \in S PROVE r <= q
  <2>1. ~(q < r)
    BY <1>1, <1>2 DEF OpToRel
  <2> QED
    BY <2>1, <1>1
<1> QED
  BY <1>3

\* ... and some run is the last.
LEMMA LastRun == ASSUME NEW S \in SUBSET Runs, S # {}
                 PROVE  \E r \in S : \A q \in S : q <= r
<1>1. MaxRuns \in Nat
  BY AutomationsAssumption
<1> DEFINE T == {n \in Runs : MaxRuns + 1 - n \in S}
<1>2. T \in SUBSET Runs
  OBVIOUS
<1>3. T # {}
  <2>1. PICK r \in S : TRUE
    OBVIOUS
  <2>2. MaxRuns + 1 - r \in T
    BY <1>1 DEF Runs
  <2> QED
    BY <2>2
<1>4. PICK n \in T : \A k \in T : n <= k
  <2> HIDE DEF T
  <2> QED
    BY <1>2, <1>3, FirstRun
<1>5. ASSUME NEW q \in S PROVE q <= MaxRuns + 1 - n
  <2>1. MaxRuns + 1 - q \in T
    BY <1>1 DEF Runs
  <2>2. n <= MaxRuns + 1 - q
    BY <2>1, <1>4
  <2> QED
    BY <2>2, <1>1 DEF Runs
<1> QED
  BY <1>4, <1>5

\* The alarm takes no more runs than it asks for.
LEMMA EarliestBounded == ASSUME NEW S \in SUBSET Runs, NEW n \in Nat
                         PROVE  Cardinality(Earliest(n, S)) <= n
<1>1. Earliest(n, S) \in SUBSET S /\ Earliest(n, S) \in SUBSET Runs
  BY DEF Earliest
<1>2. CASE Earliest(n, S) = {}
  BY <1>2, FS_EmptySet
<1>3. CASE Earliest(n, S) # {}
  <2>1. PICK r \in Earliest(n, S) : \A q \in Earliest(n, S) : q <= r
    BY <1>1, <1>3, LastRun
  <2> DEFINE U == {q \in S : q <= r}
  <2>2. Cardinality(U) <= n
    BY <2>1 DEF Earliest
  <2>3. Earliest(n, S) \in SUBSET U
    BY <1>1, <2>1
  <2>4. IsFiniteSet(U) /\ Cardinality(U) \in Nat
    <3>1. U \in SUBSET Runs
      OBVIOUS
    <3> QED
      BY <3>1, RunsFinite
  <2>5. Cardinality(Earliest(n, S)) <= Cardinality(U)
    BY <2>3, <2>4, FS_Subset
  <2>6. Cardinality(Earliest(n, S)) \in Nat
    BY <1>1, RunsFinite
  <2> QED
    BY <2>2, <2>4, <2>5, <2>6
<1> QED
  BY <1>2, <1>3
-----------------------------------------------------------------------------
(* What the operators on the table of runs do to a run. *)

Made(state, by, kind, to) == [NoRun EXCEPT !.state = state, !.by = by, !.kind = kind, !.to = to]

LEMMA NewRun ==
  ASSUME NEW state \in {"queued", "running", "finished", "skipped", "failed"}, NEW by \in Automations \cup {"none"},
         NEW kind \in {"message", "start", "notice"}, NEW to \in Workspaces \cup {"none"}
  PROVE  LET new == Made(state, by, kind, to)
         IN  new \in Run /\ new.state = state /\ new.kind = kind /\ new.to = to
<1>1. NoRun \in Run
  BY AutomationsAssumption DEF NoRun, Run
<1>2. ASSUME NEW x \in Run
      PROVE  LET new == [x EXCEPT !.state = state, !.by = by, !.kind = kind, !.to = to]
             IN  new \in Run /\ new.state = state /\ new.kind = kind /\ new.to = to
  BY DEF Run
<1> QED
  BY <1>1, <1>2, Zenon DEF Made

LEMMA TypedTypeOK == Typed /\ TypedAside <=> TypeOK
BY DEF Typed, TypedAside, TypeOK, Table, Run

\* Who a run is for does not change.
SameRun(f, g, q) == g[q].kind = f[q].kind /\ g[q].to = f[q].to

LEMMA FinishRuns ==
  ASSUME NEW f \in Table, NEW R, NEW state \in Settled
  PROVE  /\ Finish(f, R, state) \in Table
         /\ \A q \in Runs : /\ SameRun(f, Finish(f, R, state), q)
                            /\ q \in R => Finish(f, R, state)[q].state = state
                            /\ q \notin R => Finish(f, R, state)[q] = f[q]
<1>1. ASSUME NEW q \in Runs
      PROVE  Made(state, f[q].by, f[q].kind, f[q].to) \in Run
  <2>1. f[q] \in Run
    BY DEF Table
  <2>2. f[q].by \in Automations \cup {"none"} /\ f[q].kind \in {"message", "start", "notice"}
        /\ f[q].to \in Workspaces \cup {"none"}
    BY <2>1 DEF Run
  <2>3. state \in {"queued", "running", "finished", "skipped", "failed"}
    BY DEF Settled
  <2> QED
    BY <2>2, <2>3, NewRun
<1>2. Finish(f, R, state) \in Table
  BY <1>1 DEF Finish, Table, Made
<1>3. ASSUME NEW q \in Runs, q \in R
      PROVE  SameRun(f, Finish(f, R, state), q) /\ Finish(f, R, state)[q].state = state
  BY <1>3 DEF Finish, SameRun, NoRun
<1>4. ASSUME NEW q \in Runs, q \notin R
      PROVE  Finish(f, R, state)[q] = f[q]
  BY <1>4 DEF Finish
<1> QED
  BY <1>2, <1>3, <1>4 DEF SameRun

\* A run newly recorded takes the first free place.
LEMMA RecordRunRuns ==
  ASSUME NEW f \in Table, NEW a \in Automations, NEW event \in BOOLEAN, NEW kind \in {"message", "start", "notice"},
         NEW w \in Workspaces, NEW plan \in {"queued", "skipped", "failed"}, In(f, "none") # {}
  PROVE  LET g == RecordRun(f, a, event, kind, w, plan)
         IN  /\ g \in Table
             /\ \E p \in Runs : /\ f[p].state = "none"
                                /\ g[p].state \in {"queued", "skipped", "failed"}
                                /\ \A q \in Runs : q # p => g[q] = f[q]
<1> DEFINE state == IF plan = "queued" /\ ~event /\ Active(f, a) # {} THEN "skipped" ELSE plan
           fresh == CHOOSE r \in In(f, "none") : \A q \in In(f, "none") : r <= q
           new   == Made(state, a, kind, w)
<1>1. fresh \in In(f, "none")
  <2>1. In(f, "none") \in SUBSET Runs
    BY DEF In
  <2> QED
    BY <2>1, FirstRun
<1>2. fresh \in Runs /\ f[fresh].state = "none"
  BY <1>1 DEF In
<1>3. state \in {"queued", "skipped", "failed"}
  OBVIOUS
<1>4. new \in Run /\ new.state = state
  <2>1. state \in {"queued", "running", "finished", "skipped", "failed"}
    BY <1>3
  <2>2. a \in Automations \cup {"none"} /\ w \in Workspaces \cup {"none"}
    OBVIOUS
  <2> HIDE DEF state
  <2> QED
    BY <2>1, <2>2, NewRun
<1>5. RecordRun(f, a, event, kind, w, plan) = [f EXCEPT ![fresh] = new]
  BY DEF RecordRun, Made
<1> HIDE DEF state, fresh, new
<1> QED
  BY <1>2, <1>3, <1>4, <1>5 DEF Table

\* What is noted of a submission leaves the state of its run alone.
Submitted(f, r) == [f EXCEPT ![r].submitted = TRUE, ![r].waiting = FALSE]
Tried(f, r, n)  == [f EXCEPT ![r].attempts = n, ![r].waiting = TRUE]

LEMMA NotedRuns ==
  ASSUME NEW f \in Table, NEW r \in Runs, NEW n \in 0..Retries
  PROVE  /\ Submitted(f, r) \in Table /\ Tried(f, r, n) \in Table
         /\ \A q \in Runs : /\ SameRun(f, Submitted(f, r), q) /\ Submitted(f, r)[q].state = f[q].state
                            /\ SameRun(f, Tried(f, r, n), q) /\ Tried(f, r, n)[q].state = f[q].state
<1> DEFINE sent  == [f[r] EXCEPT !.submitted = TRUE, !.waiting = FALSE]
           tried == [f[r] EXCEPT !.attempts = n, !.waiting = TRUE]
<1>1. Submitted(f, r) = [f EXCEPT ![r] = sent]
  BY Zenon DEF Table, Submitted
<1>2. Tried(f, r, n) = [f EXCEPT ![r] = tried]
  BY Zenon DEF Table, Tried
<1>3. f[r] \in Run
  BY DEF Table
<1>4. sent \in Run /\ sent.state = f[r].state /\ sent.kind = f[r].kind /\ sent.to = f[r].to
  BY <1>3 DEF Run
<1>5. tried \in Run /\ tried.state = f[r].state /\ tried.kind = f[r].kind /\ tried.to = f[r].to
  BY <1>3 DEF Run
<1> HIDE DEF sent, tried
<1> QED
  BY <1>1, <1>2, <1>4, <1>5 DEF Table, SameRun

LEMMA AnsweredRuns ==
  ASSUME run \in Table, NEW r \in Runs
  PROVE  /\ Answered(r) \in Table
         /\ \A q \in Runs : /\ SameRun(run, Answered(r), q)
                            /\ q # r => Answered(r)[q].state = run[q].state
         /\ Answered(r)[r].state = IF run[r].state = "running" /\ run[r].kind = "notice"
                                     THEN "finished" ELSE run[r].state
<1>1. CASE run[r].state # "running"
  BY <1>1 DEF Answered, SameRun
<1>2. CASE run[r].state = "running" /\ run[r].kind = "notice"
  <2>1. Answered(r) = Finish(run, {r}, "finished")
    BY <1>2 DEF Answered
  <2> QED
    BY <1>2, <2>1, FinishRuns DEF Settled
<1>3. CASE run[r].state = "running" /\ run[r].kind # "notice"
  <2>1. Answered(r) = Submitted(run, r)
    BY <1>3 DEF Answered, Submitted
  <2>2. 0 \in 0..Retries
    BY AutomationsAssumption
  <2> QED
    BY <1>3, <2>1, <2>2, NotedRuns
<1> QED
  BY <1>1, <1>2, <1>3

LEMMA HeardRuns ==
  ASSUME run \in Table, NEW m \in [run : Runs, what : {"running", "finished", "failed", "asked"}]
  PROVE  /\ Heard(run, m) \in Table
         /\ \A q \in Runs : /\ SameRun(run, Heard(run, m), q)
                            /\ q # m.run => Heard(run, m)[q].state = run[q].state
         /\ Heard(run, m)[m.run].state =
              IF run[m.run].state # "running" \/ m.what = "running" THEN run[m.run].state
              ELSE IF m.what = "failed" THEN "failed" ELSE "finished"
<1>0. m.run \in Runs /\ m.what \in {"running", "finished", "failed", "asked"}
  OBVIOUS
<1>1. CASE run[m.run].state # "running"
  BY <1>1 DEF Heard, SameRun
<1>2. CASE run[m.run].state = "running" /\ m.what = "running"
  <2>1. Heard(run, m) = Submitted(run, m.run)
    BY <1>2 DEF Heard, Submitted
  <2>2. 0 \in 0..Retries
    BY AutomationsAssumption
  <2> QED
    BY <1>0, <1>2, <2>1, <2>2, NotedRuns
<1>3. CASE run[m.run].state = "running" /\ m.what = "failed"
  <2>1. Heard(run, m) = Finish(run, {m.run}, "failed")
    BY <1>3 DEF Heard
  <2> QED
    BY <1>0, <1>3, <2>1, FinishRuns DEF Settled
<1>4. CASE run[m.run].state = "running" /\ m.what \in {"finished", "asked"}
  <2>1. Heard(run, m) = Finish(run, {m.run}, "finished")
    BY <1>4 DEF Heard
  <2> QED
    BY <1>0, <1>4, <2>1, FinishRuns DEF Settled
<1> QED
  BY <1>0, <1>1, <1>2, <1>3, <1>4

\* A start run that is sent goes on as a message.
LEMMA StartedRuns ==
  ASSUME run \in Table, NEW r \in Runs
  PROVE  /\ Started(r) \in Table
         /\ \A q \in Runs \ {r} : Started(r)[q] = run[q]
         /\ Started(r)[r].state = run[r].state /\ Started(r)[r].to = run[r].to
         /\ Started(r)[r].kind = IF run[r].kind = "start" THEN "message" ELSE run[r].kind
<1>1. run[r] \in Run
  BY DEF Table
<1>2. [run[r] EXCEPT !.kind = "message"] \in Run
  BY <1>1 DEF Run
<1> QED
  BY <1>1, <1>2 DEF Started, Table, Run
LEMMA TakeRuns ==
  ASSUME NEW f \in Table, NEW R
  PROVE  /\ Take(f, R) \in Table
         /\ \A q \in Runs : /\ SameRun(f, Take(f, R), q)
                            /\ q \in R => Take(f, R)[q].state = "running"
                            /\ q \notin R => Take(f, R)[q] = f[q]
<1>1. ASSUME NEW q \in Runs
      PROVE  LET new == [f[q] EXCEPT !.state = "running"]
             IN  new \in Run /\ new.state = "running" /\ new.kind = f[q].kind /\ new.to = f[q].to
  <2>1. f[q] \in Run
    BY DEF Table
  <2> QED
    BY <2>1 DEF Run
<1> QED
  BY <1>1 DEF Take, Table, SameRun

\* Runs that leave their slots do not need more of them.
LEMMA FewerSlots ==
  ASSUME NEW f \in Table, NEW g \in Table, Cardinality(Holding(f)) <= Concurrency,
         \A q \in Runs : g[q].state = "running" /\ g[q].kind # "notice" => f[q].state = "running" /\ f[q].kind # "notice"
  PROVE  Cardinality(Holding(g)) <= Concurrency
<1>1. Holding(g) \in SUBSET Holding(f) /\ Holding(f) \in SUBSET Runs /\ Holding(g) \in SUBSET Runs
  BY DEF Holding, In
<1>2. Cardinality(Holding(g)) <= Cardinality(Holding(f))
  BY <1>1, RunsFinite, FS_Subset
<1> QED
  BY <1>1, <1>2, RunsFinite, AutomationsAssumption

\* The alarm moves queued runs to slots, and no more of them than there are slots.
LEMMA TakeSlotsRuns ==
  ASSUME NEW f \in Table, Cardinality(Holding(f)) <= Concurrency
  PROVE  LET g == TakeSlots(f)
         IN  /\ g \in Table
             /\ \A q \in Runs : /\ SameRun(f, g, q)
                                /\ \/ g[q].state = f[q].state
                                   \/ f[q].state = "queued" /\ g[q].state = "running"
             /\ Cardinality(Holding(g)) <= Concurrency
<1> DEFINE notices == {r \in In(f, "queued") : f[r].kind = "notice"}
           h    == Take(f, notices)
           free == Concurrency - Cardinality(Holding(h))
           take == Earliest(free, In(h, "queued"))
           g    == Take(h, take)
<1>1. /\ h \in Table
      /\ \A q \in Runs : /\ SameRun(f, h, q)
                         /\ q \in notices => h[q].state = "running"
                         /\ q \notin notices => h[q] = f[q]
  <2> HIDE DEF notices
  <2> QED
    BY TakeRuns
<1>2. \A q \in notices : f[q].state = "queued" /\ f[q].kind = "notice"
  BY DEF In
<1>3. Cardinality(Holding(h)) <= Concurrency
  <2> HIDE DEF h, notices
  <2> QED
    BY <1>1, <1>2, FewerSlots DEF SameRun
<1>4. Holding(h) \in SUBSET Runs
  BY DEF Holding, In
<1>5. free \in Nat
  BY <1>3, <1>4, RunsFinite, AutomationsAssumption
<1>6. In(h, "queued") \in SUBSET Runs
  BY DEF In
<1>7. take \in SUBSET In(h, "queued") /\ take \in SUBSET Runs /\ Cardinality(take) <= free
  <2> HIDE DEF free, h
  <2> QED
    BY <1>5, <1>6, EarliestBounded DEF Earliest
<1>8. /\ g \in Table
      /\ \A q \in Runs : /\ SameRun(h, g, q)
                         /\ q \in take => g[q].state = "running"
                         /\ q \notin take => g[q] = h[q]
  <2> HIDE DEF take, h
  <2> QED
    BY <1>1, TakeRuns
<1>9. \A q \in take : h[q].state = "queued"
  BY <1>7 DEF In
<1>10. TakeSlots(f) = g
  BY DEF TakeSlots
<1>11. Cardinality(Holding(g)) <= Concurrency
  <2>1. Holding(g) \in SUBSET (Holding(h) \cup take)
    <3> HIDE DEF g, h, take
    <3> QED
      BY <1>7, <1>8 DEF Holding, In, SameRun
  <2>2. IsFiniteSet(Holding(h)) /\ IsFiniteSet(take) /\ IsFiniteSet(Holding(h) \cap take)
        /\ Cardinality(Holding(h)) \in Nat /\ Cardinality(take) \in Nat /\ Cardinality(Holding(h) \cap take) \in Nat
    <3>1. Holding(h) \cap take \in SUBSET Runs
      BY <1>7
    <3> HIDE DEF take, h
    <3> QED
      BY <1>4, <1>7, <3>1, RunsFinite
  <2> HIDE DEF g, h, take
  <2>3. Cardinality(Holding(h) \cup take) = Cardinality(Holding(h)) + Cardinality(take) - Cardinality(Holding(h) \cap take)
        /\ IsFiniteSet(Holding(h) \cup take)
    BY <2>2, FS_Union
  <2>4. Cardinality(Holding(g)) <= Cardinality(Holding(h) \cup take)
    BY <2>1, <2>3, FS_Subset
  <2>5. Cardinality(Holding(g)) \in Nat
    <3>1. Holding(g) \in SUBSET Runs
      BY DEF Holding, In
    <3> QED
      BY <3>1, RunsFinite
  <2> QED
    BY <2>2, <2>3, <2>4, <2>5, <1>7, AutomationsAssumption
<1>12. ASSUME NEW q \in Runs
       PROVE  SameRun(f, g, q) /\ (g[q].state = f[q].state \/ (f[q].state = "queued" /\ g[q].state = "running"))
  <2> HIDE DEF g, h, take, notices
  <2> QED
    BY <1>1, <1>2, <1>8, <1>9 DEF SameRun
<1> HIDE DEF g
<1> QED
  BY <1>8, <1>10, <1>11, <1>12

-----------------------------------------------------------------------------
(* Steps of the automations object on its own. *)

\* What the automations object does with runs nobody else has heard of.
Moves(f, g, q) ==
  \/ SameRun(f, g, q) /\ g[q].state = f[q].state
  \/ f[q].state \in {"none", "queued"} /\ g[q].state \in {"queued", "running", "skipped", "failed"}

LEMMA UnsentMoves ==
  ASSUME IInv, run' \in Table, \A q \in Runs : Moves(run, run', q),
         call' \in [Runs -> {"none", "prepare", "sent", "armed", "error"}],
         \A q \in Runs : \/ call'[q] = call[q] /\ run'[q].state \notin {"none", "queued"}
                         \/ call'[q] = "none"
                         \/ call'[q] = "prepare" /\ run'[q].state = "running",
         Slots', UNCHANGED <<cancel, space, reports, late, faults, history>>
  PROVE  IInv'
<1>1. Typed'
  BY DEF IInv, Typed, space, history
<1>2. Truthful'
  BY DEF IInv, Truthful, space, history
<1>3. Unsent'
  BY DEF IInv, Typed, Unsent, Moves, SameRun, space
<1>4. Closed'
  BY DEF IInv, Typed, Unsent, Closed, Settled, Moves, SameRun, space, history
<1>5. Backed'
  BY DEF IInv, Typed, Unsent, Backed, Moves, SameRun, space, history
<1>6. Turns'
  BY DEF IInv, Typed, Unsent, Turns, Ended, Moves, SameRun, space
<1>7. Guarded'
  BY DEF IInv, Typed, Unsent, Guarded, Moves, SameRun, space, history
<1>8. OutcomeTrue'
  BY DEF IInv, Typed, Unsent, OutcomeTrue, Moves, SameRun, space, history
<1> QED
  BY <1>1, <1>2, <1>3, <1>4, <1>5, <1>6, <1>7, <1>8 DEF IInv

LEMMA RecordMoves ==
  ASSUME IInv, NEW a \in Automations, NEW event \in BOOLEAN, NEW kind \in {"message", "start", "notice"},
         NEW w \in Workspaces, NEW plan \in {"queued", "skipped", "failed"}, In(run, "none") # {}
  PROVE  LET g == RecordRun(run, a, event, kind, w, plan)
         IN  /\ g \in Table /\ Cardinality(Holding(g)) <= Concurrency
             /\ \A q \in Runs : Moves(run, g, q) /\ g[q].state \in {run[q].state, "queued", "skipped", "failed"}
             /\ \A q \in Runs : g[q].state \in {"none", "queued"} => run[q].state \in {"none", "queued"}
<1> DEFINE g == RecordRun(run, a, event, kind, w, plan)
<1>0. Cardinality(Holding(run)) <= Concurrency
  BY DEF IInv, Slots
<1>1. run \in Table
  BY DEF IInv, Typed
<1>2. /\ g \in Table
      /\ \E p \in Runs : /\ run[p].state = "none"
                         /\ g[p].state \in {"queued", "skipped", "failed"}
                         /\ \A q \in Runs : q # p => g[q] = run[q]
  BY <1>1, RecordRunRuns, SMTT(30)
<1> HIDE DEF g
<1>3. PICK p \in Runs : /\ run[p].state = "none"
                       /\ g[p].state \in {"queued", "skipped", "failed"}
                       /\ \A q \in Runs : q # p => g[q] = run[q]
  BY <1>2
<1>4. Cardinality(Holding(g)) <= Concurrency
  <2>1. \A q \in Runs : g[q].state = "running" /\ g[q].kind # "notice" => run[q].state = "running" /\ run[q].kind # "notice"
    BY <1>3
  <2> QED
    BY <1>0, <1>1, <1>2, <2>1, FewerSlots
<1>5. \A q \in Runs : Moves(run, g, q) /\ g[q].state \in {run[q].state, "queued", "skipped", "failed"}
                      /\ (g[q].state \in {"none", "queued"} => run[q].state \in {"none", "queued"})
  BY <1>3 DEF Moves, SameRun
<1> QED
  BY <1>2, <1>4, <1>5 DEF g

LEMMA RecordedKeeps ==
  ASSUME IInv, NEW a \in Automations, RunNow(a) \/ RunOnEvent(a) \/ Receive(a)
  PROVE  IInv'
<1>1. PICK event \in BOOLEAN, kind \in {"message", "start", "notice"}, w \in Workspaces,
           plan \in {"queued", "skipped", "failed"} :
        In(run, "none") # {} /\ run' = RecordRun(run, a, event, kind, w, plan)
  <2>1. CASE RunNow(a)
    BY <2>1 DEF RunNow
  <2>2. CASE RunOnEvent(a)
    BY <2>2, AutomationsAssumption DEF RunOnEvent
  <2>3. CASE Receive(a)
    BY <2>3, AutomationsAssumption DEF Receive
  <2> QED
    BY <2>1, <2>2, <2>3
<1>2. /\ run' \in Table /\ Cardinality(Holding(run')) <= Concurrency
      /\ \A q \in Runs : Moves(run, run', q)
      /\ \A q \in Runs : run'[q].state \in {"none", "queued"} => run[q].state \in {"none", "queued"}
  BY <1>1, RecordMoves
<1>3. UNCHANGED <<call, cancel, space, reports, late, faults, history>>
  BY DEF RunNow, RunOnEvent, Receive
<1>4. Slots'
  BY <1>2 DEF Slots, Holding, In
<1>5. /\ call' \in [Runs -> {"none", "prepare", "sent", "armed", "error"}]
      /\ \A q \in Runs : \/ call'[q] = call[q] /\ run'[q].state \notin {"none", "queued"}
                         \/ call'[q] = "none"
  BY <1>2, <1>3 DEF IInv, Typed, Unsent
<1> QED
  BY <1>2, <1>3, <1>4, <1>5, UnsentMoves

\* Setting the alarm after the last run of a delivery leaves the runs alone.
LEMMA ReceivedKeeps ==
  ASSUME IInv, Received
  PROVE  IInv'
BY DEF IInv, Typed, Unsent, Closed, Backed, Turns, Truthful, Guarded, Slots, OutcomeTrue, Holding, In,
       Received, object, space, history

LEMMA DeleteKeeps ==
  ASSUME IInv, NEW a \in Automations, Delete(a)
  PROVE  IInv'
<1> DEFINE old == {r \in In(run, "queued") : run[r].by = a}
<1>1. run' = Finish(run, old, "skipped") /\ UNCHANGED <<call, cancel, space, reports, late, faults, history>>
  BY DEF Delete
<1>2. \A q \in old : run[q].state = "queued"
  BY DEF In
<1>3. /\ run' \in Table
      /\ \A q \in Runs : /\ SameRun(run, run', q)
                         /\ q \in old => run'[q].state = "skipped"
                         /\ q \notin old => run'[q] = run[q]
  <2> HIDE DEF old
  <2> QED
    BY <1>1, FinishRuns DEF IInv, Typed, Settled
<1> HIDE DEF old
<1>4. \A q \in Runs : Moves(run, run', q) /\ (run'[q].state \in {"none", "queued"} => run[q].state \in {"none", "queued"})
  BY <1>2, <1>3 DEF Moves, SameRun
<1>5. Slots'
  <2>1. \A q \in Runs : run'[q].state = "running" /\ run'[q].kind # "notice" => run[q].state = "running" /\ run[q].kind # "notice"
    BY <1>3
  <2> QED
    BY <1>3, <2>1, FewerSlots DEF IInv, Typed, Slots
<1>6. /\ call' \in [Runs -> {"none", "prepare", "sent", "armed", "error"}]
      /\ \A q \in Runs : \/ call'[q] = call[q] /\ run'[q].state \notin {"none", "queued"}
                         \/ call'[q] = "none"
  BY <1>1, <1>4 DEF IInv, Typed, Unsent
<1> QED
  BY <1>1, <1>3, <1>4, <1>5, <1>6, UnsentMoves

\* The alarm's transaction on the table, whether or not it just recorded a run.
LEMMA AlarmRunsKeeps ==
  ASSUME IInv, NEW f \in Table, Cardinality(Holding(f)) <= Concurrency, \A q \in Runs : Moves(run, f, q),
         NEW old \in SUBSET In(f, "queued"), NEW again \in SUBSET Waiting(run), AlarmRuns(f, old, again)
  PROVE  IInv'
<1> DEFINE g == Finish(f, old, "skipped")
<1>1. /\ g \in Table
      /\ \A q \in Runs : /\ SameRun(f, g, q)
                         /\ q \in old => g[q].state = "skipped"
                         /\ q \notin old => g[q] = f[q]
  BY FinishRuns DEF Settled
<1>2. \A q \in old : f[q].state = "queued"
  BY DEF In
<1>3. run' = TakeSlots(g) /\ UNCHANGED <<cancel, space, reports, late, faults, history>>
  BY DEF AlarmRuns
<1> HIDE DEF g
<1>4. Cardinality(Holding(g)) <= Concurrency
  <2>1. \A q \in Runs : g[q].state = "running" /\ g[q].kind # "notice" => f[q].state = "running" /\ f[q].kind # "notice"
    BY <1>1
  <2> QED
    BY <1>1, <2>1, FewerSlots
<1>5. /\ run' \in Table
      /\ \A q \in Runs : /\ SameRun(g, run', q)
                         /\ run'[q].state = g[q].state \/ (g[q].state = "queued" /\ run'[q].state = "running")
      /\ Cardinality(Holding(run')) <= Concurrency
  BY <1>1, <1>3, <1>4, TakeSlotsRuns
<1>6. \A q \in Runs : Moves(run, run', q)
  BY <1>1, <1>2, <1>5 DEF Moves, SameRun
<1>7. Slots'
  BY <1>5 DEF Slots, Holding, In
<1>8. \A q \in Runs : call'[q] = IF q \in Due(run') \cup again THEN "prepare" ELSE "none"
  BY DEF AlarmRuns
<1>9. \A q \in Due(run') \cup again : run'[q].state = "running"
  BY <1>6 DEF Due, Waiting, In, Moves
<1>10. call' \in [Runs -> {"none", "prepare", "sent", "armed", "error"}]
  BY DEF AlarmRuns
<1>11. \A q \in Runs : \/ call'[q] = call[q] /\ run'[q].state \notin {"none", "queued"}
                       \/ call'[q] = "none"
                       \/ call'[q] = "prepare" /\ run'[q].state = "running"
  BY <1>8, <1>9
<1> QED
  BY <1>3, <1>5, <1>6, <1>7, <1>10, <1>11, UnsentMoves

LEMMA AlarmKeeps ==
  ASSUME IInv, NEW old, NEW again, Alarm(old, again)
  PROVE  IInv'
<1>1. run \in Table /\ Cardinality(Holding(run)) <= Concurrency /\ \A q \in Runs : Moves(run, run, q)
  BY DEF IInv, Typed, Slots, Moves, SameRun
<1> QED
  BY <1>1, AlarmRunsKeeps DEF Alarm

LEMMA ScheduledAlarmKeeps ==
  ASSUME IInv, NEW a \in Automations, ScheduledAlarm(a)
  PROVE  IInv'
<1>1. PICK event \in BOOLEAN, w \in Workspaces, plan \in {"queued", "skipped"} :
        In(run, "none") # {} /\ AlarmRuns(RecordRun(run, a, event, "message", w, plan), {}, {})
  BY DEF ScheduledAlarm
<1> DEFINE g == RecordRun(run, a, event, "message", w, plan)
<1>2. g \in Table /\ Cardinality(Holding(g)) <= Concurrency /\ \A q \in Runs : Moves(run, g, q)
  BY <1>1, RecordMoves
<1> HIDE DEF g
<1> QED
  BY <1>1, <1>2, AlarmRunsKeeps DEF g

-----------------------------------------------------------------------------
(* Steps of a submission. *)

\* A run goes out only while it is running, and a start run as a message.
LEMMA PreparedKeeps ==
  ASSUME IInv, NEW r \in Runs, Prepared(r)
  PROVE  IInv'
<1>1. run \in Table
  BY DEF IInv, Typed
<1>2. /\ run' \in Table /\ \A q \in Runs \ {r} : run'[q] = run[q]
      /\ run'[r].state = run[r].state /\ run'[r].to = run[r].to
      /\ \/ run'[r].kind = run[r].kind /\ (call'[r] = "sent" => run[r].kind # "start")
         \/ run[r].kind = "start" /\ run'[r].kind = "message"
  BY <1>1, StartedRuns DEF Prepared, IInv, Typed
<1>3. Typed'
  BY <1>2 DEF IInv, Typed, Prepared, space, history
<1>4. Truthful'
  BY <1>2 DEF IInv, Truthful, Prepared, space, history
<1>5. Unsent'
  BY <1>2 DEF IInv, Typed, Unsent, SameRun, Prepared, space, history
<1>6. Closed'
  BY <1>2 DEF IInv, Typed, Closed, Settled, SameRun, Prepared, space, history
<1>7. Backed'
  BY <1>2 DEF IInv, Typed, Backed, SameRun, Prepared, space, history
<1>8. Turns'
  BY <1>2 DEF IInv, Typed, Turns, Ended, SameRun, Prepared, space, history
<1>9. Guarded'
  BY <1>2 DEF IInv, Typed, Guarded, SameRun, Prepared, space, history
<1>10. Slots'
  BY <1>2, FewerSlots DEF IInv, Typed, Slots, SameRun
<1>11. OutcomeTrue'
  BY <1>2 DEF IInv, Typed, OutcomeTrue, SameRun, Prepared, space, history
<1> QED
  BY <1>3, <1>4, <1>5, <1>6, <1>7, <1>8, <1>9, <1>10, <1>11 DEF IInv

\* A start run that cannot be started was never sent.
LEMMA RoleGoneKeeps ==
  ASSUME IInv, NEW r \in Runs, RoleGone(r)
  PROVE  IInv'
<1>1. run \in Table
  BY DEF IInv, Typed
<1>2. /\ run' \in Table /\ \A q \in Runs : SameRun(run, run', q) /\ (q # r => run'[q].state = run[q].state)
      /\ run'[r].state = run[r].state \/ (run[r].state = "running" /\ run'[r].state = "failed")
  BY <1>1, FinishRuns DEF RoleGone, SameRun, Settled
<1>3. /\ run[r].kind = "start"
      /\ call' = [call EXCEPT ![r] = "none"] /\ UNCHANGED <<cancel, space, reports, late, faults, history>>
  BY DEF RoleGone
<1>4. Typed'
  BY <1>2, <1>3 DEF IInv, Typed, space, history
<1>5. Truthful'
  BY <1>2, <1>3 DEF IInv, Truthful, space, history
<1>6. Unsent'
  BY <1>2, <1>3 DEF IInv, Typed, Unsent, SameRun, space, history
<1>7. Closed'
  BY <1>2, <1>3 DEF IInv, Typed, Unsent, Closed, Settled, SameRun, space, history
<1>8. Backed'
  BY <1>2, <1>3 DEF IInv, Typed, Unsent, Backed, SameRun, space, history
<1>9. Turns'
  BY <1>2, <1>3 DEF IInv, Typed, Turns, Ended, SameRun, space, history
<1>10. Guarded'
  BY <1>2, <1>3 DEF IInv, Typed, Guarded, SameRun, space, history
<1>11. Slots'
  BY <1>2, <1>3, FewerSlots DEF IInv, Typed, Slots, SameRun
<1>12. OutcomeTrue'
  BY <1>2, <1>3 DEF IInv, Typed, Unsent, OutcomeTrue, SameRun, space, history
<1> QED
  BY <1>4, <1>5, <1>6, <1>7, <1>8, <1>9, <1>10, <1>11, <1>12 DEF IInv

LEMMA PrepareFailsKeeps ==
  ASSUME IInv, NEW r \in Runs, PrepareFails(r)
  PROVE  IInv'
<1>1. Typed'
  BY AutomationsAssumption DEF IInv, Typed, PrepareFails, Fault, space, history
<1>2. Backed' /\ Truthful' /\ Slots' /\ OutcomeTrue'
  BY DEF IInv, Backed, Truthful, Slots, OutcomeTrue, Holding, In, PrepareFails, Fault, space, history
<1>3. Unsent'
  BY DEF IInv, Typed, Unsent, PrepareFails, Fault, space, history
<1>4. Closed'
  BY DEF IInv, Typed, Closed, Settled, PrepareFails, Fault, space, history
<1>5. Turns'
  BY DEF IInv, Typed, Turns, Ended, PrepareFails, Fault, space, history
<1>6. Guarded'
  BY DEF IInv, Typed, Guarded, PrepareFails, Fault, space, history
<1> QED
  BY <1>1, <1>2, <1>3, <1>4, <1>5, <1>6 DEF IInv

\* A run given up while its submission may be out counts as unheard.
LEMMA SubmitFailsKeeps ==
  ASSUME IInv, NEW r \in Runs, SubmitFails(r)
  PROVE  IInv'
<1>1. run \in Table
  BY DEF IInv, Typed
<1>2. /\ run' \in Table /\ \A q \in Runs : SameRun(run, run', q) /\ (q # r => run'[q].state = run[q].state)
      /\ \/ run'[r].state = run[r].state /\ unheard' = unheard
         \/ /\ run[r].state = "running" /\ run'[r].state = "failed"
            /\ unheard' = IF r \in late \/ sub[r] # "none" THEN unheard \cup {r} ELSE unheard
  <2> DEFINE mine == run[r].state = "running" /\ ~run[r].submitted
  <2>1. CASE ~mine
    <3>1. run' = run /\ unheard' = unheard
      BY <2>1 DEF SubmitFails, Fails
    <3> QED
      BY <1>1, <3>1 DEF SameRun
  <2>2. CASE mine /\ run[r].attempts < Retries
    <3>1. run' = Tried(run, r, run[r].attempts + 1) /\ unheard' = unheard
      BY <2>2 DEF SubmitFails, Fails, Tried
    <3>2. run[r].attempts + 1 \in 0..Retries
      BY <1>1, <2>2, AutomationsAssumption DEF Table, Run
    <3> QED
      BY <1>1, <3>1, <3>2, NotedRuns DEF SameRun
  <2>3. CASE mine /\ ~(run[r].attempts < Retries)
    <3>1. run' = Finish(run, {r}, "failed")
      BY <2>3 DEF SubmitFails, Fails
    <3>2. unheard' = IF r \in late \/ sub[r] # "none" THEN unheard \cup {r} ELSE unheard
      BY <2>3 DEF SubmitFails, Fails
    <3> QED
      BY <1>1, <2>3, <3>1, <3>2, FinishRuns DEF SameRun, Settled
  <2> QED
    BY <2>1, <2>2, <2>3
<1>3. call' = [call EXCEPT ![r] = "none"] /\ UNCHANGED <<cancel, space, reports, late, faults, asked,
         misheard, torn, unwatched>>
  BY DEF SubmitFails, Fails
<1>4. Typed'
  BY <1>2, <1>3 DEF IInv, Typed, space
<1>5. Truthful'
  BY <1>2, <1>3 DEF IInv, Truthful, space
<1>6. Unsent'
  BY <1>2, <1>3 DEF IInv, Typed, Unsent, SameRun, space
<1>7. Closed'
  BY <1>2, <1>3 DEF IInv, Typed, Closed, Settled, SameRun, space
<1>8. Backed'
  BY <1>2, <1>3 DEF IInv, Typed, Backed, SameRun, space
<1>9. Turns'
  BY <1>2, <1>3 DEF IInv, Typed, Turns, Ended, SameRun, space
<1>10. Guarded'
  BY <1>2, <1>3 DEF IInv, Typed, Guarded, SameRun, space
<1>11. Slots'
  BY <1>2, <1>3, FewerSlots DEF IInv, Typed, Slots, SameRun
<1>12. OutcomeTrue'
  BY <1>2, <1>3 DEF IInv, Typed, OutcomeTrue, SameRun, space
<1> QED
  BY <1>4, <1>5, <1>6, <1>7, <1>8, <1>9, <1>10, <1>11, <1>12 DEF IInv

\* A notice is noted at most for its own request.
LEMMA NoticeKeeps ==
  ASSUME IInv, NEW r \in Runs, Notice(r)
  PROVE  IInv'
<1>1. run \in Table
  BY DEF IInv, Typed
<1>2. /\ run' \in Table /\ \A q \in Runs : SameRun(run, run', q) /\ (q # r => run'[q].state = run[q].state)
      /\ run'[r].state = IF run[r].state = "running" /\ run[r].kind = "notice" THEN "finished" ELSE run[r].state
  BY <1>1, AnsweredRuns DEF Notice
<1>3. /\ run[r].kind = "notice" /\ call[r] = "sent"
      /\ sub' = [sub EXCEPT ![r] = "noted"] /\ call' = [call EXCEPT ![r] = "none"]
      /\ UNCHANGED <<cancel, withdrawn, watch, stopped, open, reports, late, faults, history>>
  BY DEF Notice
<1>4. Typed'
  BY <1>2, <1>3 DEF IInv, Typed, history
<1>5. Unsent'
  BY <1>2, <1>3 DEF IInv, Typed, Unsent, SameRun, history
<1>6. Closed'
  BY <1>2, <1>3 DEF IInv, Typed, Closed, Settled, SameRun, history
<1>7. Backed'
  BY <1>2, <1>3 DEF IInv, Typed, Backed, SameRun, history
<1>8. Turns'
  BY <1>2, <1>3 DEF IInv, Typed, Turns, Ended, SameRun, history
<1>9. Truthful'
  BY <1>2, <1>3 DEF IInv, Typed, Turns, Truthful, Ended, SameRun, history
<1>10. Guarded'
  BY <1>2, <1>3 DEF IInv, Typed, Guarded, SameRun, history
<1>11. Slots'
  BY <1>2, <1>3, FewerSlots DEF IInv, Typed, Slots, SameRun
<1>12. OutcomeTrue'
  BY <1>2, <1>3 DEF IInv, Typed, OutcomeTrue, SameRun, history
<1> QED
  BY <1>4, <1>5, <1>6, <1>7, <1>8, <1>9, <1>10, <1>11, <1>12 DEF IInv

\* The watch is there before the submission.
LEMMA ArmKeeps ==
  ASSUME IInv, NEW r \in Runs, Arm(r)
  PROVE  IInv'
<1>1. Typed'
  BY DEF IInv, Typed, Arm, Armed, history
<1>2. Backed' /\ Truthful' /\ Slots' /\ OutcomeTrue'
  BY DEF IInv, Backed, Truthful, Slots, OutcomeTrue, Holding, In, Arm, Armed, history
<1>3. Unsent'
  BY DEF IInv, Typed, Unsent, Arm, Armed, history
<1>4. Closed'
  BY DEF IInv, Typed, Closed, Settled, Arm, Armed, history
<1>5. Turns'
  BY DEF IInv, Typed, Turns, Ended, Arm, Armed, history
<1>6. Guarded'
  BY DEF IInv, Typed, Guarded, Arm, Armed, history
<1> QED
  BY <1>1, <1>2, <1>3, <1>4, <1>5, <1>6 DEF IInv

\* What is delivered belongs to a run that is still running, or was given up unheard.
LEMMA SubmitKeeps ==
  ASSUME IInv, NEW r \in Runs, Submit(r)
  PROVE  IInv'
<1>1. run \in Table
  BY DEF IInv, Typed
<1>2. run[r].kind # "notice"
  BY DEF Submit, IInv, Turns
<1>3. /\ run' \in Table /\ \A q \in Runs : SameRun(run, run', q) /\ run'[q].state = run[q].state
  BY <1>1, <1>2, AnsweredRuns DEF Submit, SameRun
<1>4. /\ call[r] = "armed"
      /\ \/ call' = [call EXCEPT ![r] = "error"] /\ watch' = Unarmed(r) /\ UNCHANGED sub
         \/ call' = [call EXCEPT ![r] = "none"] /\ sub' = Delivered(r) /\ UNCHANGED watch
      /\ UNCHANGED <<cancel, withdrawn, stopped, open, reports, late, faults, history>>
  BY DEF Submit
<1>5. Typed'
  BY <1>2, <1>3, <1>4 DEF IInv, Typed, Unarmed, Delivered, history
<1>6. Unsent'
  BY <1>2, <1>3, <1>4 DEF IInv, Typed, Unsent, SameRun, Unarmed, Delivered, history
<1>7. Closed'
  BY <1>2, <1>3, <1>4 DEF IInv, Typed, Closed, Settled, SameRun, Unarmed, Delivered, history
<1>8. Backed'
  BY <1>2, <1>3, <1>4 DEF IInv, Typed, Unsent, Closed, Backed, Table, Run, Settled, SameRun, Unarmed,
         Delivered, history
<1>9. Turns'
  BY <1>2, <1>3, <1>4 DEF IInv, Typed, Turns, Ended, SameRun, Unarmed, Delivered, history
<1>10. Truthful'
  BY <1>2, <1>3, <1>4 DEF IInv, Typed, Truthful, Ended, SameRun, Unarmed, Delivered, history
<1>11. Guarded'
  BY <1>2, <1>3, <1>4 DEF IInv, Typed, Guarded, SameRun, Unarmed, Delivered, history
<1>12. Slots'
  BY <1>2, <1>3, <1>4, FewerSlots DEF IInv, Typed, Slots, SameRun
<1>13. OutcomeTrue'
  BY <1>2, <1>3, <1>4 DEF IInv, Typed, Unsent, Closed, OutcomeTrue, Settled, SameRun, Unarmed, Delivered,
         history
<1> QED
  BY <1>5, <1>6, <1>7, <1>8, <1>9, <1>10, <1>11, <1>12, <1>13 DEF IInv

LEMMA SubmitRefusedKeeps ==
  ASSUME IInv, NEW r \in Runs, SubmitRefused(r)
  PROVE  IInv'
<1>1. Typed'
  BY AutomationsAssumption DEF IInv, Typed, SubmitRefused, Fault, Unarmed, history
<1>2. Backed' /\ Truthful' /\ Slots' /\ OutcomeTrue'
  BY DEF IInv, Backed, Truthful, Slots, OutcomeTrue, Holding, In, SubmitRefused, Fault, Unarmed, history
<1>3. Unsent'
  BY DEF IInv, Typed, Unsent, SubmitRefused, Fault, Unarmed, history
<1>4. Closed'
  BY DEF IInv, Typed, Closed, Settled, SubmitRefused, Fault, Unarmed, history
<1>5. Turns'
  BY DEF IInv, Typed, Turns, Ended, SubmitRefused, Fault, Unarmed, history
<1>6. Guarded'
  BY DEF IInv, Typed, Guarded, SubmitRefused, Fault, Unarmed, history
<1> QED
  BY <1>1, <1>2, <1>3, <1>4, <1>5, <1>6 DEF IInv

LEMMA CallBreaksKeeps ==
  ASSUME IInv, NEW r \in Runs, CallBreaks(r)
  PROVE  IInv'
<1>1. Typed'
  BY AutomationsAssumption DEF IInv, Typed, CallBreaks, Fault, space, history
<1>2. Backed' /\ Truthful' /\ Slots' /\ OutcomeTrue'
  BY DEF IInv, Backed, Truthful, Slots, OutcomeTrue, Holding, In, CallBreaks, Fault, space, history
<1>3. Unsent'
  BY DEF IInv, Typed, Unsent, CallBreaks, Fault, space, history
<1>4. Closed'
  BY DEF IInv, Typed, Closed, Settled, CallBreaks, Fault, space, history
<1>5. Turns'
  BY DEF IInv, Typed, Turns, Ended, CallBreaks, Fault, space, history
<1>6. Guarded'
  BY DEF IInv, Typed, Guarded, CallBreaks, Fault, space, history
<1> QED
  BY <1>1, <1>2, <1>3, <1>4, <1>5, <1>6 DEF IInv

\* A late submission finds its run running, given up unheard, or withdrawn.
LEMMA LateLandsKeeps ==
  ASSUME IInv, NEW r \in Runs, LateLands(r)
  PROVE  IInv'
<1>1. Typed'
  BY DEF IInv, Typed, LateLands, Armed, Delivered, object, history
<1>2. Slots'
  BY DEF IInv, Slots, Holding, In, LateLands, Armed, Delivered, object, history
<1>3. Unsent'
  BY DEF IInv, Typed, Unsent, LateLands, Armed, Delivered, object, history
<1>4. Closed'
  BY DEF IInv, Typed, Closed, Settled, LateLands, Armed, Delivered, object, history
<1>5. Backed'
  BY DEF IInv, Typed, Unsent, Closed, Backed, Table, Run, Settled, LateLands, Armed, Delivered, object,
         history
<1>6. Turns'
  BY DEF IInv, Typed, Turns, Ended, LateLands, Armed, Delivered, object, history
<1>7. Truthful'
  BY DEF IInv, Typed, Turns, Truthful, Ended, LateLands, Armed, Delivered, object, history
<1>8. Guarded'
  BY DEF IInv, Typed, Guarded, LateLands, Armed, Delivered, object, history
<1>9. OutcomeTrue'
  BY DEF IInv, Typed, Unsent, Closed, OutcomeTrue, Settled, LateLands, Armed, Delivered, object, history
<1> QED
  BY <1>1, <1>2, <1>3, <1>4, <1>5, <1>6, <1>7, <1>8, <1>9 DEF IInv

\* An abandoned submission may take the watch of the next try.
LEMMA LateRefusedKeeps ==
  ASSUME IInv, NEW r \in Runs, LateRefused(r)
  PROVE  IInv'
<1>1. Typed'
  BY AutomationsAssumption DEF IInv, Typed, LateRefused, Unarmed, Fault, object
<1>2. Backed' /\ Truthful' /\ Slots' /\ OutcomeTrue'
  BY DEF IInv, Backed, Truthful, Slots, OutcomeTrue, Holding, In, LateRefused, Unarmed, Fault, object
<1>3. Unsent'
  BY DEF IInv, Typed, Unsent, LateRefused, Unarmed, Fault, object
<1>4. Closed'
  BY DEF IInv, Typed, Closed, Settled, LateRefused, Unarmed, Fault, object
<1>5. Turns'
  BY DEF IInv, Typed, Turns, Ended, LateRefused, Unarmed, Fault, object
<1>6. Guarded'
  BY DEF IInv, Typed, Guarded, LateRefused, Unarmed, Fault, object
<1> QED
  BY <1>1, <1>2, <1>3, <1>4, <1>5, <1>6 DEF IInv

-----------------------------------------------------------------------------
(* Steps of a turn and of its reports. *)

\* One turn at a time in each workspace.
LEMMA PlaceKeeps ==
  ASSUME IInv, NEW r \in Runs, Place(r)
  PROVE  IInv'
<1>1. Typed'
  BY DEF IInv, Typed, Place, Report, Placed, At, object, history
<1>2. Slots'
  BY DEF IInv, Slots, Holding, In, Place, Report, Placed, At, object, history
<1>3. Unsent'
  BY DEF IInv, Typed, Unsent, Place, Report, Placed, At, object, history
<1>4. Closed'
  BY DEF IInv, Typed, Closed, Settled, Place, Report, Placed, At, object, history
<1>5. Backed'
  BY DEF IInv, Typed, Backed, Place, Report, Placed, At, object, history
<1>6. Turns'
  BY DEF IInv, Typed, Turns, Ended, Place, Report, Placed, At, object, history
<1>7. Truthful'
  BY DEF IInv, Typed, Truthful, Ended, Place, Report, Placed, At, object, history
<1>8. Guarded'
  BY DEF IInv, Typed, Guarded, Place, Report, Placed, At, object, history
<1>9. OutcomeTrue'
  BY DEF IInv, Typed, OutcomeTrue, Place, Report, Placed, At, object, history
<1> QED
  BY <1>1, <1>2, <1>3, <1>4, <1>5, <1>6, <1>7, <1>8, <1>9 DEF IInv

\* A turn is reported the way it ended.
LEMMA TurnEndsKeeps ==
  ASSUME IInv, NEW r \in Runs, TurnEnds(r)
  PROVE  IInv'
<1>1. Typed'
  BY DEF IInv, Typed, TurnEnds, Report, object, history
<1>2. Slots'
  BY DEF IInv, Slots, Holding, In, TurnEnds, Report, object, history
<1>3. Unsent'
  BY DEF IInv, Typed, Unsent, TurnEnds, Report, object, history
<1>4. Closed'
  BY DEF IInv, Typed, Closed, Settled, TurnEnds, Report, object, history
<1>5. Backed'
  BY DEF IInv, Typed, Backed, TurnEnds, Report, object, history
<1>6. Turns'
  BY DEF IInv, Typed, Turns, Ended, TurnEnds, Report, object, history
<1>7. Truthful'
  BY DEF IInv, Typed, Truthful, Ended, TurnEnds, Report, object, history
<1>8. Guarded'
  BY DEF IInv, Typed, Guarded, TurnEnds, Report, object, history
<1>9. OutcomeTrue'
  BY DEF IInv, Typed, OutcomeTrue, TurnEnds, Report, object, history
<1> QED
  BY <1>1, <1>2, <1>3, <1>4, <1>5, <1>6, <1>7, <1>8, <1>9 DEF IInv

\* A question is reported for turns that asked and for turns that are over.
LEMMA QuestionKeeps ==
  ASSUME IInv, NEW w \in Workspaces, Question(w)
  PROVE  IInv'
<1>1. Typed'
  BY DEF IInv, Typed, Question, Placed, At, object, space
<1>2. Unsent' /\ Closed' /\ Turns' /\ Guarded' /\ Slots'
  BY DEF IInv, Unsent, Closed, Turns, Guarded, Slots, Holding, In, Question, Placed, At, object, space
<1>3. Backed'
  BY DEF IInv, Typed, Backed, Question, Placed, At, object, space
<1>4. Truthful'
  BY DEF IInv, Typed, Turns, Truthful, Ended, Question, Placed, At, object, space
<1>5. OutcomeTrue'
  BY DEF IInv, Typed, OutcomeTrue, Question, Placed, At, object, space
<1> QED
  BY <1>1, <1>2, <1>3, <1>4, <1>5 DEF IInv

\* A report settles its run the way the turn ended, and takes the watch.
LEMMA DeliverKeeps ==
  ASSUME IInv, NEW m \in reports, Deliver(m)
  PROVE  IInv'
<1>1. /\ m \in [run : Runs, what : {"running", "finished", "failed", "asked"}]
      /\ run \in Table
  BY DEF IInv, Typed
<1>2. /\ run' \in Table /\ \A q \in Runs : SameRun(run, run',
         q) /\ (q # m.run => run'[q].state = run[q].state)
      /\ run'[m.run].state = IF run[m.run].state # "running" \/ m.what = "running" THEN run[m.run].state
                             ELSE IF m.what = "failed" THEN "failed" ELSE "finished"
  BY <1>1, HeardRuns DEF Deliver, Learned
<1>3. /\ reports' = reports \ {m} /\ misheard' = Misheard(m)
      /\ watch' = IF m.what = "running" THEN watch ELSE [watch EXCEPT ![m.run] = "none"]
      /\ UNCHANGED <<call, cancel, sub, withdrawn, stopped, open, late, faults, asked, unheard, torn,
         unwatched>>
  BY DEF Deliver, Learned
<1>4. Typed'
  BY <1>1, <1>2, <1>3 DEF IInv, Typed, Misheard
<1>5. Unsent'
  BY <1>1, <1>2, <1>3 DEF IInv, Typed, Unsent, SameRun, Misheard
<1>6. Closed'
  BY <1>1, <1>2, <1>3 DEF IInv, Typed, Closed, Truthful, Settled, Ended, SameRun, Misheard
<1>7. Backed'
  BY <1>1, <1>2, <1>3 DEF IInv, Typed, Backed, Truthful, Ended, SameRun, Misheard
<1>8. Turns'
  BY <1>1, <1>2, <1>3 DEF IInv, Typed, Turns, Ended, SameRun, Misheard
<1>9. Truthful'
  BY <1>1, <1>2, <1>3 DEF IInv, Typed, Truthful, Ended, SameRun, Misheard
<1>10. Guarded'
  BY <1>1, <1>2, <1>3 DEF IInv, Typed, Truthful, Guarded, Ended, SameRun, Misheard
<1>11. Slots'
  BY <1>1, <1>2, <1>3, FewerSlots DEF IInv, Typed, Slots, SameRun
<1>12. OutcomeTrue'
  BY <1>1, <1>2, <1>3 DEF IInv, Typed, Truthful, OutcomeTrue, Ended, SameRun, Misheard
<1> QED
  BY <1>4, <1>5, <1>6, <1>7, <1>8, <1>9, <1>10, <1>11, <1>12 DEF IInv

\* A report that fails leaves the watch.
LEMMA DeliverFailsKeeps ==
  ASSUME IInv, NEW m \in reports, DeliverFails(m)
  PROVE  IInv'
<1>1. /\ m \in [run : Runs, what : {"running", "finished", "failed", "asked"}]
      /\ run \in Table
  BY DEF IInv, Typed
<1>2. /\ run' \in Table /\ \A q \in Runs : SameRun(run, run',
         q) /\ (q # m.run => run'[q].state = run[q].state)
      /\ \/ run' = run
         \/ run'[m.run].state = IF run[m.run].state # "running" \/ m.what = "running" THEN run[m.run].state
                             ELSE IF m.what = "failed" THEN "failed" ELSE "finished"
  BY <1>1, HeardRuns DEF DeliverFails, Learned, SameRun
<1>3. Typed'
  BY <1>1, <1>2, AutomationsAssumption DEF IInv, Typed, DeliverFails, Learned, Misheard, Fault, space
<1>4. Unsent'
  BY <1>1, <1>2 DEF IInv, Typed, Unsent, SameRun, DeliverFails, Learned, Misheard, Fault, space
<1>5. Closed'
  BY <1>1, <1>2 DEF IInv, Typed, Closed, Truthful, Settled, Ended, SameRun, DeliverFails, Learned, Misheard, Fault,
         space
<1>6. Backed'
  BY <1>1, <1>2 DEF IInv, Typed, Backed, Truthful, Ended, SameRun, DeliverFails, Learned, Misheard, Fault, space
<1>7. Turns'
  BY <1>1, <1>2 DEF IInv, Typed, Turns, Ended, SameRun, DeliverFails, Learned, Misheard, Fault, space
<1>8. Truthful'
  BY <1>1, <1>2 DEF IInv, Typed, Truthful, Ended, SameRun, DeliverFails, Learned, Misheard, Fault, space
<1>9. Guarded'
  BY <1>1, <1>2 DEF IInv, Typed, Truthful, Guarded, Ended, SameRun, DeliverFails, Learned, Misheard, Fault, space
<1>10. Slots'
  BY <1>1, <1>2, FewerSlots DEF IInv, Typed, Slots, SameRun, DeliverFails, Learned, Misheard, Fault, space
<1>11. OutcomeTrue'
  BY <1>1, <1>2 DEF IInv, Typed, Truthful, OutcomeTrue, Ended, SameRun, DeliverFails, Learned, Misheard, Fault, space
<1> QED
  BY <1>3, <1>4, <1>5, <1>6, <1>7, <1>8, <1>9, <1>10, <1>11 DEF IInv

-----------------------------------------------------------------------------
(* Steps of a cancel. *)

\* A run skipped at once was never sent.
LEMMA CancelRunKeeps ==
  ASSUME IInv, NEW r \in Runs, CancelRun(r)
  PROVE  IInv'
<1>1. run \in Table
  BY DEF IInv, Typed
<1>2. /\ run' \in Table /\ \A q \in Runs : SameRun(run, run', q) /\ (q # r => run'[q].state = run[q].state)
      /\ \/ run' = run /\ run[r].state = "running" /\ run[r].kind # "start" /\ cancel' = [cancel EXCEPT ![r] = "sent"]
         \/ /\ run'[r].state = "skipped" /\ cancel' = cancel
            /\ run[r].state = "queued" \/ (run[r].state = "running" /\ run[r].kind = "start")
  BY <1>1, FinishRuns DEF CancelRun, SameRun, Settled
<1>3. cancel[r] = "none" /\ UNCHANGED <<call, space, reports, late, faults, history>>
  BY DEF CancelRun
<1>4. Typed'
  BY <1>2, <1>3 DEF IInv, Typed, space, history
<1>5. Unsent'
  BY <1>2, <1>3 DEF IInv, Typed, Unsent, SameRun, space, history
<1>6. Closed'
  BY <1>2, <1>3 DEF IInv, Typed, Unsent, Closed, Settled, SameRun, space, history
<1>7. Backed'
  BY <1>2, <1>3 DEF IInv, Typed, Unsent, Backed, SameRun, space, history
<1>8. Turns'
  BY <1>2, <1>3 DEF IInv, Typed, Turns, Ended, SameRun, space, history
<1>9. Truthful'
  BY <1>2, <1>3 DEF IInv, Typed, Truthful, Ended, SameRun, space, history
<1>10. Guarded'
  BY <1>2, <1>3 DEF IInv, Typed, Guarded, SameRun, space, history
<1>11. Slots'
  BY <1>2, <1>3, FewerSlots DEF IInv, Typed, Slots, SameRun
<1>12. OutcomeTrue'
  BY <1>2, <1>3 DEF IInv, Typed, Unsent, OutcomeTrue, SameRun, space, history
<1> QED
  BY <1>4, <1>5, <1>6, <1>7, <1>8, <1>9, <1>10, <1>11, <1>12 DEF IInv

\* A receipt says withdrawn only of what will never be delivered.
LEMMA WithdrawKeeps ==
  ASSUME IInv, NEW r \in Runs, Withdraw(r)
  PROVE  IInv'
<1>1. Typed'
  BY DEF IInv, Typed, Withdraw, Receipt, Report, history
<1>2. Slots'
  BY DEF IInv, Slots, Holding, In, Withdraw, Receipt, Report, history
<1>3. Unsent'
  BY DEF IInv, Typed, Unsent, Withdraw, Receipt, Report, history
<1>4. Closed'
  BY DEF IInv, Typed, Closed, Settled, Withdraw, Receipt, Report, history
<1>5. Backed'
  BY DEF IInv, Typed, Backed, Withdraw, Receipt, Report, history
<1>6. Turns'
  BY DEF IInv, Typed, Turns, Ended, Withdraw, Receipt, Report, history
<1>7. Truthful'
  BY DEF IInv, Typed, Truthful, Ended, Withdraw, Receipt, Report, history
<1>8. Guarded'
  BY DEF IInv, Typed, Guarded, Withdraw, Receipt, Report, history
<1>9. OutcomeTrue'
  BY DEF IInv, Typed, OutcomeTrue, Withdraw, Receipt, Report, history
<1> QED
  BY <1>1, <1>2, <1>3, <1>4, <1>5, <1>6, <1>7, <1>8, <1>9 DEF IInv

LEMMA WithdrawTooLateKeeps ==
  ASSUME IInv, NEW r \in Runs, WithdrawTooLate(r)
  PROVE  IInv'
<1>1. Typed'
  BY DEF IInv, Typed, WithdrawTooLate, space, history
<1>2. Closed' /\ Backed' /\ Turns' /\ Slots' /\ OutcomeTrue'
  BY DEF IInv, Closed, Backed, Turns, Slots, OutcomeTrue, Holding, In, WithdrawTooLate, space, history
<1>3. Unsent'
  BY DEF IInv, Typed, Unsent, WithdrawTooLate, space, history
<1>4. Truthful'
  BY DEF IInv, Typed, Truthful, Ended, WithdrawTooLate, space, history
<1>5. Guarded'
  BY DEF IInv, Typed, Guarded, WithdrawTooLate, space, history
<1> QED
  BY <1>1, <1>2, <1>3, <1>4, <1>5 DEF IInv

\* A Stop ends the turns of the workspace, and says so truthfully.
LEMMA StopKeeps ==
  ASSUME IInv, NEW r \in Runs, Stop(r)
  PROVE  IInv'
<1>1. Typed'
  BY DEF IInv, Typed, Stop, Halted, Receipt, Report, At, history
<1>2. Slots'
  BY DEF IInv, Slots, Holding, In, Stop, Halted, Receipt, Report, At, history
<1>3. Unsent'
  BY DEF IInv, Typed, Unsent, Stop, Halted, Receipt, Report, At, history
<1>4. Closed'
  BY DEF IInv, Typed, Closed, Settled, Stop, Halted, Receipt, Report, At, history
<1>5. Backed'
  BY DEF IInv, Typed, Backed, Stop, Halted, Receipt, Report, At, history
<1>6. Turns'
  BY DEF IInv, Typed, Turns, Ended, Stop, Halted, Receipt, Report, At, history
<1>7. Truthful'
  BY DEF IInv, Typed, Truthful, Ended, Stop, Halted, Receipt, Report, At, history
<1>8. Guarded'
  BY DEF IInv, Typed, Guarded, Stop, Halted, Receipt, Report, At, history
<1>9. OutcomeTrue'
  BY DEF IInv, Typed, OutcomeTrue, Stop, Halted, Receipt, Report, At, history
<1> QED
  BY <1>1, <1>2, <1>3, <1>4, <1>5, <1>6, <1>7, <1>8, <1>9 DEF IInv

\* A person's Stop does what a cancel's does.
LEMMA PersonStopsKeeps ==
  ASSUME IInv, NEW w \in Workspaces, PersonStops(w)
  PROVE  IInv'
<1>1. Typed'
  BY AutomationsAssumption DEF IInv, Typed, PersonStops, Fault, Halted, Report, At, object, history
<1>2. Slots'
  BY DEF IInv, Slots, Holding, In, PersonStops, Fault, Halted, Report, At, object, history
<1>3. Unsent'
  BY DEF IInv, Typed, Unsent, PersonStops, Fault, Halted, Report, At, object, history
<1>4. Closed'
  BY DEF IInv, Typed, Closed, Settled, PersonStops, Fault, Halted, Report, At, object, history
<1>5. Backed'
  BY DEF IInv, Typed, Backed, PersonStops, Fault, Halted, Report, At, object, history
<1>6. Turns'
  BY DEF IInv, Typed, Turns, Ended, PersonStops, Fault, Halted, Report, At, object, history
<1>7. Truthful'
  BY DEF IInv, Typed, Truthful, Ended, PersonStops, Fault, Halted, Report, At, object, history
<1>8. Guarded'
  BY DEF IInv, Typed, Guarded, PersonStops, Fault, Halted, Report, At, object, history
<1>9. OutcomeTrue'
  BY DEF IInv, Typed, OutcomeTrue, PersonStops, Fault, Halted, Report, At, object, history
<1> QED
  BY <1>1, <1>2, <1>3, <1>4, <1>5, <1>6, <1>7, <1>8, <1>9 DEF IInv

\* A receipt settles its run the way the submission ended.
LEMMA CancelReturnsKeeps ==
  ASSUME IInv, NEW r \in Runs, CancelReturns(r)
  PROVE  IInv'
<1>1. run \in Table
  BY DEF IInv, Typed
<1>2. /\ run' \in Table /\ \A q \in Runs : SameRun(run, run', q) /\ (q # r => run'[q].state = run[q].state)
      /\ \/ run' = run /\ run[r].state # "running"
         \/ /\ run[r].state = "running"
            /\ run'[r].state = IF cancel[r] = "withdrawn" THEN "skipped" ELSE IF cancel[r] = "failed" THEN "failed" ELSE "finished"
  <2>1. CASE run[r].state # "running"
    BY <1>1, <2>1 DEF CancelReturns, SameRun
  <2>2. CASE run[r].state = "running"
    <3>1. run' = Finish(run, {r},
         IF cancel[r] = "withdrawn" THEN "skipped" ELSE IF cancel[r] = "failed" THEN "failed" ELSE "finished")
      BY <2>2 DEF CancelReturns
    <3> QED
      BY <1>1, <2>2, <3>1, FinishRuns DEF SameRun, Settled
  <2> QED
    BY <2>1, <2>2
<1>3. /\ cancel[r] \in {"withdrawn", "failed", "succeeded"}
      /\ cancel' = [cancel EXCEPT ![r] = "none"] /\ UNCHANGED <<call, space, reports, late, faults, history>>
  BY DEF CancelReturns
<1>4. Typed'
  BY <1>2, <1>3 DEF IInv, Typed, space, history
<1>5. Unsent'
  BY <1>2, <1>3 DEF IInv, Typed, Unsent, SameRun, space, history
<1>6. Closed'
  BY <1>2, <1>3 DEF IInv, Typed, Closed, Truthful, Settled, Ended, SameRun, space, history
<1>7. Backed'
  BY <1>2, <1>3 DEF IInv, Typed, Backed, Truthful, Ended, SameRun, space, history
<1>8. Turns'
  BY <1>2, <1>3 DEF IInv, Typed, Turns, Ended, SameRun, space, history
<1>9. Truthful'
  BY <1>2, <1>3 DEF IInv, Typed, Truthful, Ended, SameRun, space, history
<1>10. Guarded'
  BY <1>2, <1>3 DEF IInv, Typed, Guarded, SameRun, space, history
<1>11. Slots'
  BY <1>2, <1>3, FewerSlots DEF IInv, Typed, Slots, SameRun
<1>12. OutcomeTrue'
  BY <1>2, <1>3 DEF IInv, Typed, Turns, Truthful, OutcomeTrue, Ended, SameRun, space, history
<1> QED
  BY <1>4, <1>5, <1>6, <1>7, <1>8, <1>9, <1>10, <1>11, <1>12 DEF IInv

\* A lost receipt of a withdrawal is remembered.
LEMMA CancelBreaksKeeps ==
  ASSUME IInv, NEW r \in Runs, CancelBreaks(r)
  PROVE  IInv'
<1>1. Typed'
  BY AutomationsAssumption DEF IInv, Typed, CancelBreaks, Fault, space
<1>2. Closed' /\ Backed' /\ Turns' /\ Slots' /\ OutcomeTrue'
  BY DEF IInv, Closed, Backed, Turns, Slots, OutcomeTrue, Holding, In, CancelBreaks, Fault, space
<1>3. Unsent'
  BY DEF IInv, Typed, Unsent, CancelBreaks, Fault, space
<1>4. Truthful'
  BY DEF IInv, Typed, Truthful, Ended, CancelBreaks, Fault, space
<1>5. Guarded'
  BY DEF IInv, Typed, Guarded, CancelBreaks, Fault, space
<1> QED
  BY <1>1, <1>2, <1>3, <1>4, <1>5 DEF IInv

LEMMA ResumeKeeps ==
  ASSUME IInv, NEW w \in Workspaces, Resume(w)
  PROVE  IInv'
<1>1. Typed'
  BY DEF IInv, Typed, Resume, object, history
<1>2. Unsent' /\ Closed' /\ Backed' /\ Turns' /\ Truthful' /\ Guarded' /\ Slots' /\ OutcomeTrue'
  BY DEF IInv, Unsent, Closed, Backed, Turns, Truthful, Guarded, Slots, OutcomeTrue, Holding, In, Resume,
         object, history
<1> QED
  BY <1>1, <1>2 DEF IInv

-----------------------------------------------------------------------------
(* Objects go and come back. *)

LEMMA EvictKeeps ==
  ASSUME IInv, NEW w \in Workspaces, Evict(w)
  PROVE  IInv'
<1>1. Typed'
  BY DEF IInv, Typed, Evict, object, history
<1>2. Unsent' /\ Closed' /\ Backed' /\ Turns' /\ Truthful' /\ Guarded' /\ Slots' /\ OutcomeTrue'
  BY DEF IInv, Unsent, Closed, Backed, Turns, Truthful, Guarded, Slots, OutcomeTrue, Holding, In, Evict,
         object, history
<1> QED
  BY <1>1, <1>2 DEF IInv

\* A workspace that dies breaks what it was serving and keeps its watches.
LEMMA SpaceCrashKeeps ==
  ASSUME IInv, NEW w \in Workspaces, SpaceCrash(w)
  PROVE  IInv'
<1>1. Typed'
  BY AutomationsAssumption DEF IInv, Typed, SpaceCrash, Fault, At, history
<1>2. Backed' /\ Slots' /\ OutcomeTrue'
  BY DEF IInv, Backed, Slots, OutcomeTrue, Holding, In, SpaceCrash, Fault, At, history
<1>3. Unsent'
  BY DEF IInv, Typed, Unsent, SpaceCrash, Fault, At, history
<1>4. Closed'
  BY DEF IInv, Typed, Closed, Settled, SpaceCrash, Fault, At, history
<1>5. Turns'
  BY DEF IInv, Typed, Turns, Ended, SpaceCrash, Fault, At, history
<1>6. Truthful'
  BY DEF IInv, Typed, Truthful, Ended, SpaceCrash, Fault, At, history
<1>7. Guarded'
  BY DEF IInv, Typed, Guarded, SpaceCrash, Fault, At, history
<1> QED
  BY <1>1, <1>2, <1>3, <1>4, <1>5, <1>6, <1>7 DEF IInv

\* A deletion aborts what works, says so truthfully, and remembers the watches it took.
LEMMA EraseKeeps ==
  ASSUME IInv, NEW w \in Workspaces, Erase(w)
  PROVE  IInv'
<1>1. Typed'
  BY AutomationsAssumption DEF IInv, Typed, Erase, Fault, Report, At, object
<1>2. Slots'
  BY DEF IInv, Slots, Holding, In, Erase, Fault, Report, At, object
<1>3. Unsent'
  BY DEF IInv, Typed, Unsent, Erase, Fault, Report, At, object
<1>4. Closed'
  BY DEF IInv, Typed, Closed, Settled, Erase, Fault, Report, At, object
<1>5. Backed'
  BY DEF IInv, Typed, Backed, Erase, Fault, Report, At, object
<1>6. Turns'
  BY DEF IInv, Typed, Turns, Ended, Erase, Fault, Report, At, object
<1>7. Truthful'
  BY DEF IInv, Typed, Truthful, Ended, Erase, Fault, Report, At, object
<1>8. Guarded'
  BY DEF IInv, Typed, Guarded, Erase, Fault, Report, At, object
<1>9. OutcomeTrue'
  BY DEF IInv, Typed, OutcomeTrue, Erase, Fault, Report, At, object
<1> QED
  BY <1>1, <1>2, <1>3, <1>4, <1>5, <1>6, <1>7, <1>8, <1>9 DEF IInv

\* A refused cancel of a request that was withdrawn is a lost receipt.
LEMMA RefusedKeeps ==
  ASSUME IInv, NEW r \in Runs, Refused(r)
  PROVE  IInv'
<1>1. Typed'
  BY AutomationsAssumption DEF IInv, Typed, Refused, space
<1>2. Slots'
  BY DEF IInv, Slots, Holding, In, Refused, space
<1>3. Unsent'
  BY DEF IInv, Typed, Unsent, Refused, space
<1>4. Closed'
  BY DEF IInv, Typed, Closed, Settled, Refused, space
<1>5. Backed'
  BY DEF IInv, Typed, Backed, Refused, space
<1>6. Turns'
  BY DEF IInv, Typed, Turns, Ended, Refused, space
<1>7. Truthful'
  BY DEF IInv, Typed, Truthful, Ended, Refused, space
<1>8. Guarded'
  BY DEF IInv, Typed, Guarded, Refused, space
<1>9. OutcomeTrue'
  BY DEF IInv, Typed, OutcomeTrue, Refused, space
<1> QED
  BY <1>1, <1>2, <1>3, <1>4, <1>5, <1>6, <1>7, <1>8, <1>9 DEF IInv

\* The automations object forgets its calls; they may still arrive.
LEMMA CrashKeeps ==
  ASSUME IInv, Crash
  PROVE  IInv'
<1>1. Typed'
  BY AutomationsAssumption DEF IInv, Typed, Crash, Fault, space
<1>2. Backed' /\ Slots' /\ OutcomeTrue'
  BY DEF IInv, Backed, Slots, OutcomeTrue, Holding, In, Crash, Fault, space
<1>3. Unsent'
  BY DEF IInv, Typed, Unsent, Crash, Fault, space
<1>4. Closed'
  BY DEF IInv, Typed, Closed, Settled, Crash, Fault, space
<1>5. Turns'
  BY DEF IInv, Typed, Turns, Ended, Crash, Fault, space
<1>6. Truthful'
  BY DEF IInv, Typed, Truthful, Ended, Crash, Fault, space
<1>7. Guarded'
  BY DEF IInv, Typed, Guarded, Crash, Fault, space
<1> QED
  BY <1>1, <1>2, <1>3, <1>4, <1>5, <1>6, <1>7 DEF IInv

\* A runtime that opens reports what its watches say.
LEMMA OpenKeeps ==
  ASSUME IInv, NEW w \in Workspaces, Open(w)
  PROVE  IInv'
<1>1. Typed /\ Turns /\ Truthful
  BY DEF IInv
<1>2. watch' \in [Runs -> {"none", "armed", "started"}]
      /\ \A q \in Runs : \/ watch'[q] = watch[q]
                         \/ watch'[q] = "started" /\ watch[q] # "none" /\ sub[q] = "placed"
  BY <1>1 DEF Open, Typed, At
<1> DEFINE Says(m, q) ==
             \/ m = [run |-> q, what |-> "running"]
             \/ m = [run |-> q, what |-> "asked"] /\ Placed(w) \cap asked # {} /\ watch'[q] = "started"
             \/ m = [run |-> q, what |-> "finished"] /\ sub[q] = "done"
             \/ m = [run |-> q, what |-> "failed"] /\ sub[q] \in {"broken", "aborted", "dropped"}
<1>3. ASSUME NEW m \in reports', m \notin reports
      PROVE  \E q \in At(w) : Says(m, q)
  <2> DEFINE Of(s) == {r \in At(w) : watch[r] # "none" /\ sub[r] \in s}
             running  == UNION {Report(r, "running") : r \in Of({"placed"})}
             again    == {r \in At(w) : Placed(w) \cap asked # {} /\ watch'[r] = "started"}
             question == {[run |-> r, what |-> "asked"] : r \in again}
             finished == {[run |-> r, what |-> "finished"] : r \in Of({"done"})}
             failed   == {[run |-> r, what |-> "failed"] : r \in Of({"broken", "aborted", "dropped"})}
  <2>1. m \in running \cup question \cup finished \cup failed
    <3>1. reports' = reports \cup running \cup question \cup finished \cup failed
      BY Zenon DEF Open
    <3> HIDE DEF running, question, finished, failed
    <3> QED
      BY <1>3, <3>1
  <2>2. CASE m \in running
    <3>1. PICK q \in At(w) : m \in Report(q, "running")
      BY <2>2
    <3> QED
      BY <3>1 DEF Report
  <2>3. CASE m \in question
    BY <2>3
  <2>4. CASE m \in finished
    BY <2>4
  <2>5. CASE m \in failed
    BY <2>5
  <2> HIDE DEF running, question, finished, failed
  <2> QED
    BY <2>1, <2>2, <2>3, <2>4, <2>5
<1>4. At(w) \in SUBSET Runs
  BY DEF At
<1>5. reports' \in SUBSET [run : Runs, what : {"running", "finished", "failed", "asked"}]
  BY <1>1, <1>3, <1>4 DEF Typed
<1>6. Typed'
  BY <1>1, <1>2, <1>5 DEF Typed, Open, object, history
<1>7. Unsent' /\ Closed' /\ Backed' /\ Slots' /\ OutcomeTrue'
  BY DEF IInv, Unsent, Closed, Backed, Slots, OutcomeTrue, Holding, In, Open, object, history
<1>8. Turns' /\ Guarded'
  BY <1>2 DEF IInv, Turns, Guarded, Open, object, history
<1>9. Truthful'
  <2>1. UNCHANGED <<sub, asked, cancel, withdrawn>>
    BY DEF Open, object, history
  <2>2. ASSUME NEW m \in reports'
        PROVE  /\ m.what = "finished" => sub[m.run] = "done"
               /\ m.what = "failed" => sub[m.run] \in {"broken", "aborted", "dropped"}
               /\ m.what = "asked" => m.run \in asked \/ sub[m.run] \in Ended
    <3>1. CASE m \in reports
      BY <1>1, <3>1 DEF Truthful
    <3>2. CASE m \notin reports
      <4>1. PICK q \in At(w) : Says(m, q)
        BY <1>3, <3>2
      <4>2. CASE m = [run |-> q, what |-> "asked"] /\ Placed(w) \cap asked # {} /\ watch'[q] = "started"
        <5>1. sub[q] \in Ended \cup {"placed"}
          BY <1>1, <1>2, <1>4, <4>2 DEF Turns
        <5>2. sub[q] = "placed" => q \in asked
          BY <1>1, <4>2 DEF Turns, Placed, At
        <5> QED
          BY <4>2, <5>1, <5>2
      <4> QED
        BY <4>1, <4>2
    <3> QED
      BY <3>1, <3>2
  <2> QED
    BY <1>1, <2>1, <2>2 DEF Truthful
<1> QED
  BY <1>6, <1>7, <1>8, <1>9 DEF IInv

-----------------------------------------------------------------------------
(* The theorems. *)

LEMMA InitIInv == Init => IInv
<1> SUFFICES ASSUME Init PROVE IInv
  OBVIOUS
<1>1. NoRun \in Run /\ NoRun.state = "none" /\ NoRun.kind = "message"
  BY AutomationsAssumption DEF NoRun, Run
<1>2. run \in Table /\ \A r \in Runs : run[r].state = "none" /\ run[r].kind = "message"
  BY <1>1 DEF Init, Table
<1>3. Typed
  BY <1>2, AutomationsAssumption DEF Init, Typed
<1>4. Unsent /\ Closed /\ Backed /\ Turns /\ Truthful /\ Guarded /\ OutcomeTrue
  BY <1>2 DEF Init, Unsent, Closed, Settled, Backed, Turns, Truthful, Guarded, OutcomeTrue
<1>5. Slots
  <2>1. Holding(run) = {}
    BY <1>2 DEF Holding, In
  <2> QED
    BY <2>1, FS_EmptySet, AutomationsAssumption DEF Slots
<1> QED
  BY <1>3, <1>4, <1>5 DEF IInv

LEMMA StepIInv == IInv /\ [Next]_vars => IInv'
<1> SUFFICES ASSUME IInv, [Next]_vars PROVE IInv'
  OBVIOUS
<1>1. CASE UNCHANGED vars
  BY <1>1 DEF IInv, Typed, Unsent, Closed, Backed, Turns, Truthful, Guarded, Slots, OutcomeTrue, Holding, In,
              vars, object, space, history
<1>2. ASSUME NEW a \in Automations, Record(a) PROVE IInv'
  BY <1>2, RecordedKeeps, DeleteKeeps, ScheduledAlarmKeeps DEF Record
<1>3. CASE Received \/ AnyAlarm \/ Crash
  BY <1>3, ReceivedKeeps, AlarmKeeps, CrashKeeps DEF AnyAlarm
<1>4. ASSUME NEW r \in Runs, CallStep(r) \/ RoleGone(r) \/ LateLands(r) \/ Failure(r) PROVE IInv'
  BY <1>4, PreparedKeeps, NoticeKeeps, ArmKeeps, SubmitKeeps, SubmitFailsKeeps, RoleGoneKeeps, LateLandsKeeps,
     PrepareFailsKeeps, SubmitRefusedKeeps, CallBreaksKeeps, LateRefusedKeeps, CancelBreaksKeeps, RefusedKeeps
     DEF CallStep, Failure
<1>5. ASSUME NEW r \in Runs, Place(r) \/ TurnEnds(r) \/ CancelRun(r) \/ CancelStep(r) PROVE IInv'
  BY <1>5, PlaceKeeps, TurnEndsKeeps, CancelRunKeeps, WithdrawKeeps, WithdrawTooLateKeeps, StopKeeps,
     CancelReturnsKeeps DEF CancelStep
<1>6. ASSUME NEW m \in reports, Deliver(m) \/ DeliverFails(m) PROVE IInv'
  BY <1>6, DeliverKeeps, DeliverFailsKeeps
<1>7. ASSUME NEW w \in Workspaces, \/ Question(w) \/ PersonStops(w) \/ Resume(w) \/ Evict(w)
                                  \/ SpaceCrash(w) \/ Open(w) \/ Erase(w)
      PROVE  IInv'
  BY <1>7, QuestionKeeps, PersonStopsKeeps, ResumeKeeps, EvictKeeps, SpaceCrashKeeps, OpenKeeps, EraseKeeps
<1> QED
  BY <1>1, <1>2, <1>3, <1>4, <1>5, <1>6, <1>7 DEF Next

\* Every step leaves what is aside, sets the alarm, or adds to one of its sets.
LEMMA AsideTyped == TypedAside /\ [Next]_vars => TypedAside'
<1> SUFFICES ASSUME TypedAside, [Next]_vars PROVE TypedAside'
  OBVIOUS
<1>1. CASE UNCHANGED vars
  BY <1>1 DEF TypedAside, vars, aside
<1>2. ASSUME NEW a \in Automations, Record(a) PROVE TypedAside'
  BY <1>2 DEF TypedAside, Record, RunNow, RunOnEvent, Receive, Delete, ScheduledAlarm, AlarmRuns, Rescheduled, In
<1>3. CASE Received \/ AnyAlarm \/ Crash
  BY <1>3 DEF TypedAside, Received, AnyAlarm, Alarm, AlarmRuns, Crash, Rescheduled
<1>4. ASSUME NEW r \in Runs, CallStep(r) \/ RoleGone(r) \/ LateLands(r) \/ Failure(r) PROVE TypedAside'
  BY <1>4 DEF TypedAside, CallStep, Prepared, Notice, Arm, Submit, SubmitFails, Fails, Refused, RoleGone, LateLands,
              Failure, PrepareFails, SubmitRefused, CallBreaks, LateRefused, CancelBreaks, aside
<1>5. ASSUME NEW r \in Runs, Place(r) \/ TurnEnds(r) \/ CancelRun(r) \/ CancelStep(r) PROVE TypedAside'
  BY <1>5 DEF TypedAside, Place, TurnEnds, CancelRun, CancelStep, Withdraw, WithdrawTooLate, Stop, CancelReturns,
              Rescheduled, aside
<1>6. ASSUME NEW m \in reports, Deliver(m) \/ DeliverFails(m) PROVE TypedAside'
  BY <1>6 DEF TypedAside, Deliver, DeliverFails, Learned, Rescheduled, aside
<1>7. ASSUME NEW w \in Workspaces, \/ Question(w) \/ PersonStops(w) \/ Resume(w) \/ Evict(w)
                                  \/ SpaceCrash(w) \/ Open(w) \/ Erase(w)
      PROVE  TypedAside'
  BY <1>7 DEF TypedAside, Question, PersonStops, Resume, Evict, SpaceCrash, Open, Erase, aside
<1> QED
  BY <1>1, <1>2, <1>3, <1>4, <1>5, <1>6, <1>7 DEF Next

\* The inductive invariant holds of every reachable state.
THEOREM Invariance == Spec => []IInv
BY InitIInv, StepIInv, PTL DEF Spec

\* Every variable keeps its type.
THEOREM TypeCorrect == Spec => []TypeOK
<1>1. IInv /\ TypedAside => TypeOK
  BY TypedTypeOK DEF IInv
<1>2. Init => TypedAside
  BY DEF Init, TypedAside
<1> QED
  BY <1>1, <1>2, AsideTyped, Invariance, PTL DEF Spec

\* The history of runs says what the agents did (finish is only ever called with
\* what a report, a receipt or an exhausted retry says of the run's submission).
THEOREM HistoryTrue == Spec => []OutcomeTrue
<1>1. IInv => OutcomeTrue
  BY DEF IInv
<1> QED
  BY <1>1, Invariance, PTL

\* No more agents work at once than settings.concurrency allows, however many
\* workspaces, retries and broken calls there are: each agent that works has its
\* run in a slot, and the alarm fills no more slots than there are.
THEOREM SlotsRespected == Spec => []SlotsBounded
<1>1. ASSUME IInv PROVE SlotsBounded
  <2> DEFINE working == {r \in Runs : sub[r] = "placed"} \ (asked \cup unheard)
  <2>1. working \in SUBSET Holding(run)
    BY <1>1 DEF IInv, Backed, Turns, Holding, In
  <2>2. Holding(run) \in SUBSET Runs /\ working \in SUBSET Runs
    BY DEF Holding, In
  <2> HIDE DEF working
  <2>3. Cardinality(working) <= Cardinality(Holding(run))
    BY <2>1, <2>2, RunsFinite, FS_Subset
  <2>4. Cardinality(working) <= Concurrency
    BY <1>1, <2>2, <2>3, RunsFinite, AutomationsAssumption DEF IInv, Slots
  <2> QED
    BY <2>4 DEF SlotsBounded, working
<1> QED
  BY <1>1, Invariance, PTL

\* A run that holds a slot for a submission is watched until its end is on its
\* way to the automations object.
THEOREM RunsWatched == Spec => []Watched
<1>1. IInv => Watched
  BY DEF IInv, Guarded, Watched
<1> QED
  BY <1>1, Invariance, PTL
=============================================================================
