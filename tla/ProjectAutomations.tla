------------------------- MODULE ProjectAutomations -------------------------
(***************************************************************************)
(* The runs of a project's automations: the project's automations object   *)
(* (account-worker/src/project-automations.ts) that records, queues and    *)
(* submits them, and the workspace objects that carry them out             *)
(* (automation-turns.ts, runtime-core/src/automation-requests.ts).         *)
(*                                                                         *)
(* The two sides share no storage.  They talk by three kinds of calls, any *)
(* of which may be delayed or broken: a submission with a request id, a    *)
(* person's cancel, and the workspace's report that a turn started, ended  *)
(* or stopped to ask.  A run holds one of the project's slots from the     *)
(* alarm that picks it until it is settled, and nothing polls.  What an    *)
(* instruction says is left out, and so are conditions, trust and links:   *)
(* a plan is a kind, a workspace and whether it runs at all.               *)
(***************************************************************************)
EXTENDS Integers, FiniteSets

CONSTANTS
  Automations, Workspaces,
  Kinds,        \* kinds of plans: "message", "start", "notice"
  Concurrency,  \* settings.concurrency
  Retries,      \* the length of SUBMIT_RETRY_MS
  MaxRuns,      \* bound: runs recorded
  MaxFaults     \* bound: broken calls, lost reports, crashes, a person's stops and deletions

ASSUME AutomationsAssumption ==
  /\ Kinds \subseteq {"message", "start", "notice"}
  /\ Concurrency \in Nat \ {0}
  /\ {Retries, MaxRuns, MaxFaults} \subseteq Nat

Runs == 1..MaxRuns

VARIABLES
  run,        \* automation_runs, in the order they were recorded
  call,       \* what each run's submission in the alarm handler is doing
  cancel,     \* what each run's cancelRun is doing
  sub,        \* workspace: the submission with the run's request id
  withdrawn,  \* workspace: requests withdrawn, submitted or not
  watch,      \* workspace: workspace_automation_turns
  stopped,    \* workspace: conversations a Stop holds until a person writes
  open,       \* workspaces whose runtime is open
  reports,    \* reports on their way to the automations object
  late,       \* submissions whose caller gave up and that may still arrive
  receiving,  \* a delivery has still to set the alarm for the runs it recorded
  unarmed,    \* queued runs recorded since the alarm was last set
  erased,     \* workspaces deleted with all they kept
  faults,
  asked,      \* history: turns that stopped to ask a person
  misheard,   \* history: runs settled by the question of another turn
  unheard,    \* history: runs failed as unreachable while their submission was out
  torn,       \* history: runs withdrawn by a cancel whose receipt was lost
  unwatched   \* history: runs whose watch an abandoned submission or a deletion removed

object  == <<run, call, cancel>>
space   == <<sub, withdrawn, watch, stopped, open>>
aside   == <<receiving, unarmed, erased>>
history == <<asked, misheard, unheard, torn, unwatched>>
vars == <<object, space, reports, late, aside, faults, history>>

NoRun == [state |-> "none", by |-> "none", kind |-> "message", to |-> "none",
          submitted |-> FALSE, attempts |-> 0, waiting |-> FALSE]

Init ==
  /\ run = [r \in Runs |-> NoRun]
  /\ call = [r \in Runs |-> "none"] /\ cancel = [r \in Runs |-> "none"]
  /\ sub = [r \in Runs |-> "none"] /\ withdrawn = {} /\ watch = [r \in Runs |-> "none"]
  /\ stopped = {} /\ open = Workspaces /\ reports = {} /\ late = {}
  /\ receiving = FALSE /\ unarmed = {} /\ erased = {}
  /\ faults = 0
  /\ asked = {} /\ misheard = {} /\ unheard = {} /\ torn = {} /\ unwatched = {}

Fault == faults < MaxFaults /\ faults' = faults + 1

-----------------------------------------------------------------------------
(* The runs of the project.  These operators take the table as it stands.  *)

In(f, state)  == {r \in Runs : f[r].state = state}
Active(f, a)  == {r \in In(f, "queued") \cup In(f, "running") : f[r].by = a}
Holding(f)    == {r \in In(f, "running") : f[r].kind # "notice"}
Due(f)        == {r \in In(f, "running") : ~f[r].submitted /\ ~f[r].waiting}
Waiting(f)    == {r \in In(f, "running") : f[r].waiting}
Earliest(n, S) == {r \in S : Cardinality({q \in S : q <= r}) <= n}

\* finish; how far a settled run had got is never read again.
Finish(f, R, state) ==
  [r \in Runs |-> IF r \in R THEN [NoRun EXCEPT !.state = state, !.by = f[r].by, !.kind = f[r].kind, !.to = f[r].to]
                 ELSE f[r]]

\* The alarm's handler is waiting for its submissions; it ends in changed.
Handling == \E r \in Runs : call[r] # "none"

\* changed: reschedule sets the alarm for all that is recorded by now.
Rescheduled == unarmed' = {} /\ receiving' = FALSE /\ UNCHANGED erased

\* recordRun: a scheduled or manual run does not overlap its automation's
\* previous one.  plan says what evaluating it came to: the daily cap and a
\* condition that does not hold skip it, a failed check fails it.
RecordRun(f, a, event, kind, w, plan) ==
  LET state == IF plan = "queued" /\ ~event /\ Active(f, a) # {} THEN "skipped" ELSE plan
      fresh == CHOOSE r \in In(f, "none") : \A q \in In(f, "none") : r <= q
  IN  [f EXCEPT ![fresh] = [NoRun EXCEPT !.state = state, !.by = a, !.kind = kind, !.to = w]]

\* runNow of a schedule or manual automation: one that is active is refused.
RunNow(a) ==
  /\ In(run, "none") # {} /\ Active(run, a) = {} /\ "message" \in Kinds
  /\ \E w \in Workspaces, plan \in {"queued", "skipped"} : run' = RecordRun(run, a, FALSE, "message", w, plan)
  /\ UNCHANGED <<call, cancel, space, reports, late, faults, history>> /\ Rescheduled

\* runOnEvent: the automation is read, its trust, links and conditions are
\* evaluated with the help of other objects, and the run is recorded, whatever
\* became of the automation meanwhile.
RunOnEvent(a) ==
  /\ In(run, "none") # {}
  /\ \E kind \in Kinds, w \in Workspaces, plan \in {"queued", "skipped", "failed"} :
       run' = RecordRun(run, a, TRUE, kind, w, plan)
  /\ UNCHANGED <<call, cancel, space, reports, late, faults, history>> /\ Rescheduled

\* receive: the same for each automation that a delivery starts, but the alarm
\* is set only after the last.
Receive(a) ==
  /\ In(run, "none") # {}
  /\ \E kind \in Kinds, w \in Workspaces, plan \in {"queued", "skipped", "failed"} :
       run' = RecordRun(run, a, TRUE, kind, w, plan)
  /\ unarmed' = IF Handling THEN unarmed ELSE unarmed \cup (In(run', "queued") \ In(run, "queued"))
  /\ receiving' = (unarmed' # {})
  /\ UNCHANGED <<call, cancel, space, reports, late, erased, faults, history>>

Received ==
  /\ receiving /\ Rescheduled
  /\ UNCHANGED <<object, space, reports, late, faults, history>>

\* delete skips the queued runs; the automation may be made again, and an
\* evaluation that read it before may still record a run.
Delete(a) ==
  /\ \E r \in In(run, "queued") : run[r].by = a
  /\ run' = Finish(run, {r \in In(run, "queued") : run[r].by = a}, "skipped")
  /\ UNCHANGED <<call, cancel, space, reports, late, faults, history>> /\ Rescheduled

-----------------------------------------------------------------------------
(* The alarm: the one that fires while a handler runs fires again after it. *)

\* reschedule: a change sets the alarm in the same storage write, so it is set
\* whenever there is work it has seen, and for the deadlines of what waits.
AlarmSet ==
  LET seen == In(run, "queued") \ unarmed
  IN  \/ Due(run) # {}
      \/ \E r \in seen : run[r].kind = "notice"
      \/ seen # {} /\ Cardinality(Holding(run)) < Concurrency

Take(f, R) == [r \in Runs |-> IF r \in R THEN [f[r] EXCEPT !.state = "running"] ELSE f[r]]

\* Mutant: the runs that hold a slot are not counted.
TakeSlotsUncounted(f) == Take(f, Earliest(Concurrency, In(f, "queued")))

\* A notice takes no slot; the oldest queued runs take the free ones.
TakeSlots(f) ==
  LET g    == Take(f, {r \in In(f, "queued") : f[r].kind = "notice"})
      free == Concurrency - Cardinality(Holding(g))
  IN  Take(g, Earliest(free, In(g, "queued")))

\* The transaction, then submit reads the runs that are due.  old are queued
\* runs that have waited a day, again runs whose retry is due by now.
AlarmRuns(f, old, again) ==
  /\ ~Handling
  /\ run' = TakeSlots(Finish(f, old, "skipped"))
  /\ call' = [r \in Runs |-> IF r \in Due(run') \cup again THEN "prepare" ELSE "none"]
  /\ UNCHANGED <<cancel, space, reports, late, faults, history>> /\ Rescheduled

Alarm(old, again) ==
  /\ old \subseteq In(run, "queued") /\ again \subseteq Waiting(run)
  /\ AlarmSet \/ old \ unarmed # {} \/ again # {}
  /\ AlarmRuns(run, old, again)

\* An alarm at a schedule's time first records the scheduled run.
ScheduledAlarm(a) ==
  /\ In(run, "none") # {} /\ "message" \in Kinds
  /\ \E w \in Workspaces, plan \in {"queued", "skipped"} :
       AlarmRuns(RecordRun(run, a, FALSE, "message", w, plan), {}, {})

\* A start run whose workspace is there goes on as a message to it.
Started(r) == IF run[r].kind = "start" THEN [run EXCEPT ![r].kind = "message"] ELSE run

\* startWorkspace or reopen is over and the run, unless it was settled
\* meanwhile, is sent.
Prepared(r) ==
  /\ call[r] = "prepare"
  /\ IF run[r].state = "running"
       THEN call' = [call EXCEPT ![r] = "sent"] /\ run' = Started(r)
       ELSE call' = [call EXCEPT ![r] = "none"] /\ UNCHANGED run
  /\ UNCHANGED <<cancel, space, reports, late, faults, history, aside>>

\* startWorkspace: the profile no longer has the run's model role.
RoleGone(r) ==
  /\ call[r] = "prepare" /\ run[r].kind = "start"
  /\ run' = IF run[r].state = "running" THEN Finish(run, {r}, "failed") ELSE run
  /\ call' = [call EXCEPT ![r] = "none"]
  /\ UNCHANGED <<cancel, space, reports, late, faults, history, aside>>

PrepareFails(r) ==
  /\ Fault /\ call[r] = "prepare" /\ call' = [call EXCEPT ![r] = "error"]
  /\ UNCHANGED <<run, cancel, space, reports, late, history, aside>>

\* The submission is answered; for a notice that is its end.  An answer that is
\* lost is a call that breaks and lands late.
Answered(r) ==
  IF run[r].state # "running" THEN run
  ELSE IF run[r].kind = "notice" THEN Finish(run, {r}, "finished")
  ELSE [run EXCEPT ![r].submitted = TRUE, ![r].waiting = FALSE]

\* submit's catch: nothing once the run is settled or known to have arrived;
\* else another try after SUBMIT_RETRY_MS[attempts], or the end.
Fails(r, again) ==
  LET mine == run[r].state = "running" /\ ~run[r].submitted
  IN  /\ call[r] = "error" /\ call' = [call EXCEPT ![r] = "none"]
      /\ run' = IF ~mine THEN run
                ELSE IF again THEN [run EXCEPT ![r].attempts = @ + 1, ![r].waiting = TRUE]
                ELSE Finish(run, {r}, "failed")
      /\ unheard' = IF mine /\ ~again /\ (r \in late \/ sub[r] # "none") THEN unheard \cup {r} ELSE unheard
      /\ UNCHANGED <<cancel, space, reports, late, faults, asked, misheard, torn, unwatched, aside>>

\* Mutant: one try more than there are delays.
SubmitFailsOnceMore(r) == Fails(r, run[r].attempts <= Retries)

SubmitFails(r) == Fails(r, run[r].attempts < Retries)

-----------------------------------------------------------------------------
(* A workspace: the submission.                                            *)

At(w)     == {r \in Runs : run[r].to = w}
Placed(w) == {r \in At(w) : sub[r] = "placed"}
Stale(r, what)  == what = "running" /\ (run[r].state # "running" \/ run[r].submitted)
Report(r, what) == IF watch[r] = "none" \/ Stale(r, what) THEN {} ELSE {[run |-> r, what |-> what]}

\* runtimeAutomationNotice, keyed by the request id.
Notice(r) ==
  /\ call[r] = "sent" /\ run[r].kind = "notice" /\ run[r].to \in open
  /\ sub' = [sub EXCEPT ![r] = "noted"]
  /\ call' = [call EXCEPT ![r] = "none"] /\ run' = Answered(r)
  /\ UNCHANGED <<cancel, withdrawn, watch, stopped, open, reports, late, faults, history, aside>>

\* INSERT OR IGNORE of the watch, unless the turn is there already.
Armed(r) == IF sub[r] = "none" /\ watch[r] = "none" THEN [watch EXCEPT ![r] = "armed"] ELSE watch

\* submitAutomationTurn: the watch exists before the submission does.
Arm(r) ==
  /\ call[r] = "sent" /\ run[r].kind # "notice" /\ run[r].to \in open
  /\ watch' = Armed(r) /\ call' = [call EXCEPT ![r] = "armed"]
  /\ UNCHANGED <<run, cancel, sub, withdrawn, stopped, open, reports, late, faults, history, aside>>

\* Mutant: a request withdrawn before it arrived is delivered.
DeliveredAnyway(r) == IF sub[r] # "none" THEN sub ELSE [sub EXCEPT ![r] = "queued"]

\* automationSubmit: a request withdrawn before it arrived delivers nothing, and
\* one that is there already delivers nothing again.
Delivered(r) == IF r \in withdrawn \/ sub[r] # "none" THEN sub ELSE [sub EXCEPT ![r] = "queued"]

\* submitAutomationTurn's catch: the watch of a turn that exists stays.
Unarmed(r) == IF sub[r] = "none" THEN [watch EXCEPT ![r] = "none"] ELSE watch

\* runWhileActive refuses a stopped conversation.
Submit(r) ==
  /\ call[r] = "armed" /\ run[r].to \in open
  /\ IF run[r].to \in stopped
       THEN call' = [call EXCEPT ![r] = "error"] /\ watch' = Unarmed(r) /\ UNCHANGED <<sub, run>>
       ELSE call' = [call EXCEPT ![r] = "none"] /\ sub' = Delivered(r) /\ run' = Answered(r) /\ UNCHANGED watch
  /\ UNCHANGED <<cancel, withdrawn, stopped, open, reports, late, faults, history, aside>>

\* Inference is not admitted: the request is recorded and nothing submitted.
SubmitRefused(r) ==
  /\ Fault /\ call[r] = "armed" /\ run[r].to \in open /\ sub[r] = "none" /\ r \notin withdrawn
  /\ call' = [call EXCEPT ![r] = "error"] /\ watch' = Unarmed(r)
  /\ UNCHANGED <<run, cancel, sub, withdrawn, stopped, open, reports, late, history, aside>>

\* The call breaks for its caller; the workspace may still carry it out.
CallBreaks(r) ==
  /\ Fault /\ call[r] \in {"sent", "armed"}
  /\ call' = [call EXCEPT ![r] = "error"] /\ late' = late \cup {r}
  /\ UNCHANGED <<run, cancel, space, reports, history, aside>>

LateLands(r) ==
  /\ r \in late /\ run[r].to \in open /\ late' = late \ {r}
  /\ IF run[r].kind = "notice" THEN sub' = [sub EXCEPT ![r] = "noted"] /\ UNCHANGED watch
     ELSE run[r].to \notin stopped /\ watch' = Armed(r) /\ sub' = Delivered(r)
  /\ UNCHANGED <<object, withdrawn, stopped, open, reports, faults, history, aside>>

\* The abandoned submission is refused, and ends the watch that the next try
\* may already have found armed.
LateRefused(r) ==
  /\ r \in late /\ run[r].to \in open /\ run[r].kind # "notice" /\ late' = late \ {r}
  /\ \/ run[r].to \in stopped /\ UNCHANGED faults
     \/ Fault /\ sub[r] = "none" /\ r \notin withdrawn
  /\ watch' = Unarmed(r)
  /\ unwatched' = IF call[r] = "armed" /\ sub[r] = "none" THEN unwatched \cup {r} ELSE unwatched
  /\ UNCHANGED <<object, sub, withdrawn, stopped, open, reports, asked, misheard, unheard, torn, aside>>

-----------------------------------------------------------------------------
(* A workspace: the turn of the main conversation, and what it reports.    *)

\* pi starts a queued input when the turn before it is over.
Place(r) ==
  /\ sub[r] = "queued" /\ run[r].to \in open /\ Placed(run[r].to) = {}
  /\ sub' = [sub EXCEPT ![r] = "placed"]
  /\ watch' = IF watch[r] = "none" THEN watch ELSE [watch EXCEPT ![r] = "started"]
  /\ reports' = reports \cup Report(r, "running")
  /\ UNCHANGED <<object, withdrawn, stopped, open, late, faults, history, aside>>

\* A turn that asked ends only once a person has answered.
TurnEnds(r) ==
  /\ sub[r] = "placed" /\ run[r].to \in open
  /\ \E how \in {"done", "broken"} :
       /\ sub' = [sub EXCEPT ![r] = how]
       /\ reports' = reports \cup Report(r, IF how = "done" THEN "finished" ELSE "failed")
  /\ UNCHANGED <<object, withdrawn, watch, stopped, open, late, faults, history, aside>>

\* published: a question of the workspace is reported for every watch that
\* started, the ones whose turn is over and whose report was lost too.
Question(w) ==
  LET heard == {r \in At(w) : watch[r] = "started"}
  IN  /\ w \in open /\ heard # {} /\ (Placed(w) = {} \/ ~(Placed(w) \subseteq asked))
      /\ asked' = asked \cup Placed(w)
      /\ reports' = reports \cup {[run |-> r, what |-> "asked"] : r \in heard}
      /\ UNCHANGED <<object, space, late, faults, misheard, unheard, torn, unwatched, aside>>

\* runTurnChanged
Heard(f, m) ==
  IF f[m.run].state # "running" THEN f
  ELSE CASE m.what = "running" -> [f EXCEPT ![m.run].submitted = TRUE, ![m.run].waiting = FALSE]
         [] m.what = "failed"  -> Finish(f, {m.run}, "failed")
         [] OTHER              -> Finish(f, {m.run}, "finished")

Misheard(m) ==
  IF m.what = "asked" /\ m.run \notin asked /\ run[m.run].state = "running" THEN misheard \cup {m.run} ELSE misheard

\* The alarm is set again unless the report changes nothing.
Learned(m) ==
  /\ run' = Heard(run, m) /\ misheard' = Misheard(m)
  /\ IF run' = run THEN UNCHANGED aside ELSE Rescheduled

\* The watch ends once the report of the end is delivered.
Deliver(m) ==
  /\ m \in reports /\ reports' = reports \ {m} /\ Learned(m)
  /\ watch' = IF m.what = "running" THEN watch ELSE [watch EXCEPT ![m.run] = "none"]
  /\ UNCHANGED <<call, cancel, sub, withdrawn, stopped, open, late, faults, asked, unheard, torn, unwatched>>

\* Mutant: the watch ends with the report, sent or not.
DeliverFailsForgotten(m) ==
  /\ Fault /\ m \in reports /\ reports' = reports \ {m}
  /\ watch' = IF m.what = "running" THEN watch ELSE [watch EXCEPT ![m.run] = "none"]
  /\ UNCHANGED <<object, sub, withdrawn, stopped, open, late, history, aside>>

\* Sending it fails, before it arrived or after.
DeliverFails(m) ==
  /\ Fault /\ m \in reports /\ reports' = reports \ {m}
  /\ Learned(m) \/ UNCHANGED <<run, misheard, aside>>
  /\ UNCHANGED <<call, cancel, space, late, asked, unheard, torn, unwatched>>

-----------------------------------------------------------------------------
(* A person's cancel, and Stop.                                            *)

\* cancelRun: a run no workspace has heard of is skipped at once.
CancelRun(r) ==
  LET unstarted == run[r].kind = "start"
  IN  /\ run[r].state \in {"queued", "running"} /\ cancel[r] = "none"
      /\ IF run[r].state = "queued" \/ unstarted
           THEN run' = Finish(run, {r}, "skipped") /\ Rescheduled /\ UNCHANGED cancel
           ELSE cancel' = [cancel EXCEPT ![r] = "sent"] /\ UNCHANGED <<run, aside>>
      /\ UNCHANGED <<call, space, reports, late, faults, history>>

\* status of a request that does not wait or work
Receipt(s) == CASE s = "done" -> "succeeded"
                [] s \in {"broken", "aborted"} -> "failed"
                [] OTHER -> "withdrawn"

\* automationCancel: withdraw.  The settling of the withdrawn submission is
\* reported like any other end.
Withdraw(r) ==
  /\ cancel[r] = "sent" /\ run[r].to \in open /\ sub[r] # "placed"
  /\ withdrawn' = IF sub[r] \in {"none", "noted", "queued"} THEN withdrawn \cup {r} ELSE withdrawn
  /\ sub' = IF sub[r] = "queued" THEN [sub EXCEPT ![r] = "dropped"] ELSE sub
  /\ reports' = IF sub[r] = "queued" THEN reports \cup Report(r, "failed") ELSE reports
  /\ cancel' = [cancel EXCEPT ![r] = Receipt(sub'[r])]
  /\ watch' = IF Receipt(sub'[r]) = "withdrawn" THEN [watch EXCEPT ![r] = "none"] ELSE watch
  /\ UNCHANGED <<run, call, stopped, open, late, faults, history, aside>>

\* It has started: the agent is going to be stopped.
WithdrawTooLate(r) ==
  /\ cancel[r] = "sent" /\ run[r].to \in open /\ sub[r] = "placed"
  /\ cancel' = [cancel EXCEPT ![r] = "stopping"]
  /\ UNCHANGED <<run, call, space, reports, late, faults, history, aside>>

\* stop: it ends whichever turn the conversation is in by now, and drops its queue.
Halted(w) ==
  LET victims == {q \in At(w) : sub[q] \in {"placed", "queued"}}
  IN  /\ w \in open /\ stopped' = stopped \cup {w}
      /\ sub' = [q \in Runs |-> IF q \notin victims THEN sub[q] ELSE IF sub[q] = "placed" THEN "aborted" ELSE "dropped"]
      /\ reports' = reports \cup UNION {Report(q, "failed") : q \in victims}

\* The stop of a cancel, and the receipt it reads after.
Stop(r) ==
  /\ cancel[r] = "stopping" /\ Halted(run[r].to)
  /\ cancel' = [cancel EXCEPT ![r] = Receipt(sub'[r])]
  /\ UNCHANGED <<run, call, withdrawn, watch, open, late, faults, history, aside>>

\* A person stops the workspace's conversation.
PersonStops(w) ==
  /\ Fault /\ w \notin stopped /\ Halted(w)
  /\ UNCHANGED <<object, withdrawn, watch, open, late, history, aside>>

\* The workspace may have reported the turn while the cancel was on its way.
CancelReturns(r) ==
  /\ cancel[r] \in {"withdrawn", "failed", "succeeded"}
  /\ run' = IF run[r].state # "running" THEN run
            ELSE Finish(run, {r}, CASE cancel[r] = "withdrawn" -> "skipped"
                                    [] cancel[r] = "failed"    -> "failed"
                                    [] OTHER                   -> "finished")
  /\ cancel' = [cancel EXCEPT ![r] = "none"]
  /\ UNCHANGED <<call, space, reports, late, faults, history>> /\ Rescheduled

CancelBreaks(r) ==
  /\ Fault /\ cancel[r] # "none" /\ cancel' = [cancel EXCEPT ![r] = "none"]
  /\ torn' = IF r \in withdrawn \/ cancel[r] = "withdrawn" THEN torn \cup {r} ELSE torn
  /\ UNCHANGED <<run, call, space, reports, late, asked, misheard, unheard, unwatched, aside>>

\* A person's message lets the conversation go on.
Resume(w) ==
  /\ w \in stopped \cap open /\ stopped' = stopped \ {w}
  /\ UNCHANGED <<object, sub, withdrawn, watch, open, reports, late, faults, history, aside>>

-----------------------------------------------------------------------------
(* Objects go and come back.                                               *)

Busy(w) ==
  \/ \E r \in At(w) : call[r] \in {"sent", "armed"} \/ cancel[r] \in {"sent", "stopping"}
  \/ \E m \in reports : run[m.run].to = w
  \/ ~(Placed(w) \subseteq asked) \/ (Placed(w) = {} /\ \E r \in At(w) : sub[r] = "queued")

\* An idle workspace object is evicted; seen here when a watch is left.
Evict(w) ==
  /\ w \in open /\ ~Busy(w) /\ (\E r \in At(w) : watch[r] # "none")
  /\ open' = open \ {w}
  /\ UNCHANGED <<object, sub, withdrawn, watch, stopped, reports, late, faults, history, aside>>

\* A workspace object dies: the calls it was serving break, its reports are lost.
SpaceCrash(w) ==
  /\ Fault /\ w \in open /\ open' = open \ {w}
  /\ call' = [r \in Runs |-> IF r \in At(w) /\ call[r] \in {"sent", "armed"} THEN "error" ELSE call[r]]
  /\ cancel' = [r \in Runs |-> IF r \in At(w) /\ cancel[r] \in {"sent", "stopping"} THEN "none" ELSE cancel[r]]
  /\ reports' = {m \in reports : run[m.run].to # w} /\ late' = late \ At(w)
  /\ UNCHANGED <<run, sub, withdrawn, watch, stopped, history, aside>>

\* Mutant: a runtime that opens reads only the turns that still run.
OpenUnreconciled(w) ==
  LET running == {r \in At(w) : watch[r] # "none" /\ sub[r] = "placed"}
  IN  /\ w \notin open \cup erased /\ open' = open \cup {w}
      /\ reports' = reports \cup {[run |-> r, what |-> "running"] : r \in running}
      /\ UNCHANGED <<object, sub, withdrawn, watch, stopped, late, faults, history, aside>>

\* The runtime opens for the next call: reconcileAutomationTurns reads every
\* watched turn once, and a question still there is published again.
Open(w) ==
  LET Of(s) == {r \in At(w) : watch[r] # "none" /\ sub[r] \in s}
  IN  /\ w \notin open \cup erased /\ open' = open \cup {w}
      /\ watch' = [r \in Runs |-> IF r \in Of({"placed"}) THEN "started" ELSE watch[r]]
      /\ reports' = reports
           \cup (UNION {Report(r, "running") : r \in Of({"placed"})})
           \cup {[run |-> r, what |-> "asked"] : r \in {q \in At(w) : Placed(w) \cap asked # {} /\ watch'[q] = "started"}}
           \cup {[run |-> r, what |-> "finished"] : r \in Of({"done"})}
           \cup {[run |-> r, what |-> "failed"] : r \in Of({"broken", "aborted", "dropped"})}
      /\ UNCHANGED <<object, sub, withdrawn, stopped, late, faults, history, aside>>

\* erase: a deleted workspace stops what a loaded runtime works on and reports it,
\* and loses its watches; a runtime that is not loaded reports nothing.
Erase(w) ==
  LET victims == {q \in At(w) : sub[q] \in {"placed", "queued"}}
  IN  /\ Fault /\ w \notin erased /\ erased' = erased \cup {w} /\ open' = open \ {w}
      /\ sub' = [q \in Runs |-> IF q \notin victims THEN sub[q] ELSE IF sub[q] = "placed" THEN "aborted" ELSE "dropped"]
      /\ reports' = IF w \in open THEN reports \cup UNION {Report(q, "failed") : q \in victims} ELSE reports
      /\ watch' = [q \in Runs |-> IF q \in At(w) THEN "none" ELSE watch[q]]
      /\ unwatched' = unwatched \cup {q \in At(w) : watch[q] # "none"}
      /\ late' = late \ At(w)
      /\ UNCHANGED <<object, withdrawn, stopped, receiving, unarmed, asked, misheard, unheard, torn>>

\* A call to a deleted workspace is refused; a cancel that is refused settles nothing.
Refused(r) ==
  /\ run[r].to \in erased
  /\ \/ /\ call[r] \in {"sent", "armed"} /\ call' = [call EXCEPT ![r] = "error"]
        /\ UNCHANGED <<cancel, torn>>
     \/ /\ cancel[r] \in {"sent", "stopping"} /\ cancel' = [cancel EXCEPT ![r] = "none"]
        /\ torn' = IF r \in withdrawn THEN torn \cup {r} ELSE torn
        /\ UNCHANGED call
  /\ UNCHANGED <<run, space, reports, late, faults, asked, misheard, unheard, unwatched, aside>>

\* The automations object dies with its handler, which the platform runs again,
\* or with a delivery, which nobody repeats.
Crash ==
  /\ Fault /\ (Handling \/ receiving \/ \E r \in Runs : cancel[r] # "none")
  /\ call' = [r \in Runs |-> "none"] /\ cancel' = [r \in Runs |-> "none"]
  /\ late' = late \cup {r \in Runs : call[r] \in {"sent", "armed"}}
  /\ torn' = torn \cup {r \in Runs : cancel[r] = "withdrawn" \/ (cancel[r] # "none" /\ r \in withdrawn)}
  /\ receiving' = FALSE /\ unarmed' = IF Handling THEN {} ELSE unarmed
  /\ UNCHANGED <<run, space, reports, erased, asked, misheard, unheard, unwatched>>

-----------------------------------------------------------------------------
Record(a) == RunNow(a) \/ RunOnEvent(a) \/ Receive(a) \/ Delete(a) \/ ScheduledAlarm(a)
AnyAlarm == \E old, again \in SUBSET Runs : Alarm(old, again)
CallStep(r) == Prepared(r) \/ Notice(r) \/ Arm(r) \/ Submit(r) \/ SubmitFails(r) \/ Refused(r)
CancelStep(r) == Withdraw(r) \/ WithdrawTooLate(r) \/ Stop(r) \/ CancelReturns(r)
Failure(r) == PrepareFails(r) \/ SubmitRefused(r) \/ CallBreaks(r) \/ LateRefused(r) \/ CancelBreaks(r)

Next ==
  \/ \E a \in Automations : Record(a)
  \/ Received \/ AnyAlarm \/ Crash
  \/ \E r \in Runs : CallStep(r) \/ RoleGone(r) \/ LateLands(r) \/ Failure(r)
  \/ \E r \in Runs : Place(r) \/ TurnEnds(r) \/ CancelRun(r) \/ CancelStep(r)
  \/ \E m \in reports : Deliver(m) \/ DeliverFails(m)
  \/ \E w \in Workspaces : Question(w) \/ PersonStops(w) \/ Resume(w) \/ Evict(w) \/ SpaceCrash(w) \/ Open(w) \/ Erase(w)

Spec == Init /\ [][Next]_vars

\* What opens a workspace: a call that waits for it, and the alarm its runtime
\* keeps while a turn works (heartbeat).  Nothing opens one that is idle.
Called(w) ==
  \/ \E r \in At(w) : call[r] \in {"sent", "armed"} \/ cancel[r] \in {"sent", "stopping"}
  \/ ~(Placed(w) \subseteq asked)

\* Alarms fire and are run again, a delivery is gone through, calls return or break,
\* time passes, a turn ends unless it asks, an idle object is evicted.
Fairness ==
  /\ WF_vars(Alarm({}, {})) /\ WF_vars(Received)
  /\ \A r \in Runs :
       /\ SF_vars(\E old, again \in SUBSET Runs : r \in old \cup again /\ Alarm(old, again))
       /\ WF_vars(CallStep(r)) /\ WF_vars(CancelStep(r))
       /\ WF_vars(Place(r)) /\ WF_vars(r \notin asked /\ TurnEnds(r))
       /\ WF_vars(\E m \in reports : m.run = r /\ Deliver(m))
  /\ \A w \in Workspaces : WF_vars(Evict(w)) /\ WF_vars(Called(w) /\ Open(w))

FairSpec == Spec /\ Fairness

-----------------------------------------------------------------------------
(* Properties *)

\* Every variable keeps its type.
TypeOK ==
  /\ run \in [Runs -> [state : {"none", "queued", "running", "finished", "skipped", "failed"},
                       by : Automations \cup {"none"}, kind : {"message", "start", "notice"},
                       to : Workspaces \cup {"none"}, submitted : BOOLEAN, attempts : 0..Retries,
                       waiting : BOOLEAN]]
  /\ call \in [Runs -> {"none", "prepare", "sent", "armed", "error"}]
  /\ cancel \in [Runs -> {"none", "sent", "stopping", "withdrawn", "failed", "succeeded"}]
  /\ sub \in [Runs -> {"none", "noted", "queued", "placed", "done", "broken", "aborted", "dropped"}]
  /\ watch \in [Runs -> {"none", "armed", "started"}]
  /\ stopped \subseteq Workspaces /\ open \subseteq Workspaces
  /\ reports \subseteq [run : Runs, what : {"running", "finished", "failed", "asked"}]
  /\ UNION {withdrawn, late, unarmed, asked, misheard, unheard, torn, unwatched} \subseteq Runs
  /\ receiving \in BOOLEAN /\ erased \subseteq Workspaces
  /\ faults \in 0..MaxFaults

\* The history of runs says what the agents did: a skipped run's agent never
\* worked on it, a finished run's turn ended well or asked, and a failed run's
\* turn did not end well, unless every word of it was lost.
OutcomeTrue ==
  \A r \in Runs : run[r].kind # "notice" =>
    /\ run[r].state = "skipped" => sub[r] \in {"none", "dropped"}
    /\ run[r].state = "finished" => sub[r] = "done" \/ r \in asked \cup misheard
    /\ run[r].state = "failed" => sub[r] \in {"none", "broken", "aborted", "dropped"} \/ r \in unheard

\* No more agents work for automations at once than the project has slots, over
\* all its workspaces; one that asked a person, or failed unheard, is not counted.
SlotsBounded ==
  Cardinality({r \in Runs : sub[r] = "placed"} \ (asked \cup unheard)) <= Concurrency

\* A run that holds its slot for a submission is watched, or its end is on its
\* way: nothing polls, so a watch lost before its report would hold the slot for good.
Watched ==
  \A r \in Runs :
    run[r].state = "running" /\ sub[r] \notin {"none", "noted"} =>
      \/ watch[r] # "none" \/ r \in torn \cup unwatched
      \/ cancel[r] \in {"withdrawn", "failed", "succeeded"}
      \/ \E m \in reports : m.run = r /\ m.what # "running"

\* The turn of a run waits behind a question that a person has not answered.
Behind(r) == sub[r] = "queued" /\ Placed(run[r].to) # {} /\ Placed(run[r].to) \subseteq asked

\* Every run ends and frees its slot, whatever broke on the way, except behind a
\* person's unanswered question, after a cancel or a watch that got lost, and where
\* nothing ever comes back to it: no change sets the alarm for a run whose delivery
\* was cut off, or nobody calls the idle workspace that lost the report of its end.
RunsEnd ==
  \A r \in Runs : run[r].state \in {"queued", "running"}
    ~> \/ run[r].state \notin {"queued", "running"} \/ Behind(r) \/ r \in torn \cup unwatched
       \/ [](r \in unarmed) \/ [](run[r].to \notin open)
=============================================================================
