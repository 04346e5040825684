# TLA+ specifications of gitspace

These modules model the parts of gitspace that replace running software (the
deployment engine, the machine host, the complete-machine update), that run
commands on machines (the dispatch of tool calls, the process supervisor), and
that coordinate durable objects in the cloud (the lifecycle of projects and
workspaces, the runs of automations). TLC checks them on small instances; TLAPS
proves the safety properties of all of them for every value of the constants.

- [1. The system](#1-the-system)
- [2. Plan](#2-plan)
- [3. The modules and the code](#3-the-modules-and-the-code)
- [4. Runs, bounds and what they show](#4-runs-bounds-and-what-they-show)
- [5. Fairness](#5-fairness)
- [6. Proofs](#6-proofs)
- [7. Where the code and its documentation disagree](#7-where-the-code-and-its-documentation-disagree)
- [8. What is not modelled](#8-what-is-not-modelled)

To check everything in this directory: `tlc -config <cfg> <module>` for the runs
of section 4, `tlapm <module>_proof.tla` for the proofs (section 6).

## 1. The system

gitspace lets agents work in *workspaces*. A workspace is a durable object in
the cloud that keeps the conversation, its tasks and their results; its checkout
is attached to a *machine*, a computer that runs the gitspace host. The cloud
reaches a machine through a relay connection that the machine opens. Paths below
are under `src/packages/`.

### Components

| Component | State | Operations | Interacts with |
|---|---|---|---|
| Deployment engine, journal (`deployment/src/engine.ts`, `journal.ts`) | `deployment_runs`, `deployment_steps` in SQLite | `execute`: drain, stage, activate, health, commit, finalize; rollback, recovery | calls the drivers; called by the machine host |
| Replacement drivers (`deployment/src/policies/`) | `current.json`, `rollback-*.json`, generation directories | the seven driver methods | the machine host, the frontend host |
| Machine host (`account-machine/src/replacement-environment.ts`) | `accepting`, `current`, `activeUrl`, running generations | deploy queue, start, stop, switch, restart after a crash, proxy | spawns machine generations, owns the relay connection |
| Machine update (`account-machine/src/machine-update.ts`, `host.ts`, `machine-bootstrap.ts`) | `machine-update.json`, selection files, `host-ready.json`, `host-machine.json`, the database checkpoint | request, hand-off, stop, checkpoint, start, commit, roll back, recover | replaces the host itself; started by the host and by `gitspace machine start` |
| Tool dispatch (`account-worker/src/runtime-services.ts`, `runtime-workspace-do/src/attachments.ts`) | dispatch rows, settled results, task outcomes | dispatch, send, repeat, give up, cancel, reconcile | sends through the relay, tells the task |
| Machine executor (`runtime-machine/src/`, `account-machine/src/runtime-executor.ts`) | attempts map, `executor_results`, `executor_attachments` | run, join, replay, abort; attach, release | starts commands in the supervisor |
| Relay (`account-machine/src/relay-connector.ts`, `account-worker/src/index.ts`) | one socket per machine, outstanding requests | request, answer, cancel, reconnect | between cloud and host |
| Supervisor (`supervisor/src/`) | one run per name with its state, claim and exit, `meta.json`, completions | start, stop, restart, restart after an exit, shut down, recover, reconcile | outlives the machine process; asked by the executor and by machine workspaces |
| Release follower (`account-machine/src/release-follower.ts`) | release seen, release applied | poll, download, ask for a deploy or an update | machine host, machine update |
| Machine workspaces (`account-machine/src/workspace-*.ts`) | services, environments, terminals | start, stop, rehydrate | supervisor |
| Conversation runtime (`runtime-core/src/`) | tasks, jobs, agents | run, retry, steer, stop, compact | tool dispatch, inference |
| Workspace object (`runtime-workspace-do/src/`) | files, artifacts, transcript, drafts, running marks | read, write, snapshot, merge | conversation runtime, browsers |
| Authorities (`account-worker/src/project-authority.ts`, `space-authority.ts`, `cloud-workspace-lifecycle.ts`, `workspace-metadata.ts`) | the project's record, its workspaces' definitions and queue of operations; each workspace object's own metadata; the account directory | create, archive, restore, delete, retry; seed, push, change of phase, erase | each object calls the others; the alarm of the project runs the queue |
| Automations (`account-worker/src/project-automations.ts`, `automation-turns.ts`, `runtime-core/src/automation-requests.ts`) | runs, slots and retries of a project; watches and submissions in each workspace | record, queue, submit, retry, cancel, report, reconcile | workspace objects, conversation runtime, GitHub |
| Hosted routes (`account-worker/src/hosted-route-registry.ts`) | pointer, active route, ingress of a hostname | lease, pin, release, clear | machines, service ingress |
| Fleet, sandboxes (`account-worker/src/application.ts`, `sandbox-rollout.ts`) | machines and their transitions | provision, resume, roll out | sandbox worker |
| Platform (`platform/src/`) | credit ledger, tenant deployments, storage breaker | reserve, settle, deploy, quarantine | workers of the tenants |
| Clients (`cli`, `account-web`, `ui`, `browser-extension`, `mcp-server`, operator) | views | — | all of the above |

### What is hard, and what makes each part correct

The behaviours that no test of the repository drives through all their orders:

- **A process dies between an effect and the write that records it.** The engine
  records a step after its driver returned; the updater journals each phase; the
  executor stores a result after the command ended. Correct is: a replaced
  target can be undone until the decision is on disk; the recorded outcome is
  true of all targets; accepted work is never lost; a command with effects runs
  at most once.
- **Two writers of one database.** The machine database is copied and put back
  while generations, hosts, restart loops and updaters come and go. Correct is:
  at most one machine has it open, and none while it is copied.
- **A restart loop beside a replacement.** A crashed generation comes back by
  itself, unless a replacement is under way, which then owns the outcome.
- **Partial failure of a rollback**, which must go on with the other targets and
  must not be reported as success.
- **A lost reply.** The relay connection breaks, the command goes on, the same
  request arrives again; meanwhile the task may be cancelled, the workspace
  object may restart, the attachment may be replaced. Correct is: what the task
  is told is true, and it is told something.
- **Timeouts racing the answer**: stop escalation, readiness, recovery time.
- **Requests that meet in the middle of each other.** Starts, stops, restarts,
  exits and timers of one process name interleave at every await. Correct is: a
  name has one process, a stop that was answered holds, and what is recorded as
  ended has ended.
- **A read before an await, written after it.** A workspace object and its
  project keep two copies of one lifecycle and tell each other by calls that may
  be lost, repeated or overtaken. Correct is: an archived workspace is quiet, a
  deleted one stays gone, and the copies agree when nothing is under way.
- **Objects that share nothing and do not poll.** The automations object learns
  only from reports what an agent does. Correct is: the history is true, no more
  agents work than there are slots, and every run ends and frees its slot.

`PROJECT.json` lists these at their lines under `hazards`, with the property
that would catch each one, or the reason why none does yet.

## 2. Plan

The order follows what would hurt most: first what replaces running software
(a mistake there loses data or a machine), then what runs commands.

| | Module | Extends | Status |
|---|---|---|---|
| 1 | `DeploymentEngine` | | done |
| 2 | `ReplacementTargets`: the engine over drivers that keep their contract; `AtomicReplacement`: what a plan promises | 1 | done |
| 3 | `ReplacementTargets_proof` | 2 | done |
| 4 | `HostReplacement`: the engine over the real drivers and the machine host; `HostReplacement_proof`, `HostOutcome_proof` | 1 | done |
| 5 | `MachineUpdate`: the complete-machine update; `MachineUpdate_proof` | | done |
| 6 | `ToolDispatch`: cloud, relay, executor, supervisor process; `ToolDispatch_proof` | | done |
| 7 | `Supervisor`: requests, launches, exits, shutdown and recovery of one name; `Supervisor_proof` | | done |
| 8 | `ProjectLifecycle`: project authority, workspace objects, directory; `ProjectLifecycle_proof` | | done |
| 9 | `ProjectAutomations`: the runs of a project and the turns of its workspaces; `ProjectAutomations_proof` | | done |
| 10 | `HostedRoutes`: leases and pins of a hostname | | planned |
| 11 | `RuntimeJobs`: jobs, subagents, run-end delivery, tool re-execution after a restart; composes with 6 | | planned |
| 12 | `CreditLedger`, `TenantDeployments` | | planned |
| 13 | `ReleaseFollower`, `SandboxRollout`: who asks for deployments and updates | 4, 5 | planned |
| 14 | `SyncCursors`: the cursors of the sync protocol and the drafts | | planned |

Abstract specifications worth stating: the atomic replacement (done); a command
as an object that is run at most once and has one outcome (for 6); a name that
has one live process (for 7); one lifecycle of which object, row and directory
are copies (for 8); a lease with one owner (for 10).

Proved (section 6): every invariant that a run checks, of the engine and of
`HostReplacement`, `MachineUpdate`, `ToolDispatch`, `Supervisor`,
`ProjectLifecycle` and `ProjectAutomations`. Worth proving next: that
`ToolDispatch` and `Supervisor` implement the abstract specifications above, once
these are stated.

## 3. The modules and the code

Each definition that models code has its lines in `PROJECT.json` under `map`.

### DeploymentEngine

`run` and `attempt` are the columns of `deployment_runs`, `step` the rows of
`deployment_steps` of the current attempt. `pc` is the loop of
`DeploymentEngine` that runs, `todo` what it has still to visit, `failed`
whether `rollbackErrors` has an entry, `call` the driver method in flight. One
action is what happens up to one journal write: `Execute*` are the branches of
`execute` on the state that `journal.begin` returns, `EnterLoop` the transition
at the head of a phase, `Invoke` and `RecordOk` the body of a loop,
`failAndRollback`, `RollbackError` and `RollbackDone` the failure path,
`RecoverError`, `RecoverDone` and `Restart` `rollbackRecordedAttempt`,
`FinalizeError` and `FinalizeDone` `finalize`. `Crash` may happen between any
two. What a driver does is left to the modules that extend this one.

### ReplacementTargets, AtomicReplacement

The engine over drivers that do what the comments of the `ReplacementDriver`
interface in `engine.ts` ask and nothing more. `serving` is the release that a target serves, `kept` the
attempts whose rollback record it holds. A method that fails may have had its
effect. `AtomicReplacement` has two variables: whether an attempt is open,
undone, decided or done, and whether the targets are all on the old release, all
on the new one or mixed. The refinement maps `run` to the first and `serving` to
the second.

### HostReplacement

The same engine over `policies/machine.ts`, `policies/frontend.ts` and
`MachineHost`. An action is what JavaScript runs between two awaits, so the
machine driver is a small program (`drv`) whose steps interleave with exits of
generations (`Exit`), their handling (`generationExited`) and one restart loop
per exit (`LoopWakes`, `LoopReady`, `LoopFails`, `LoopSwitches`). A start that
became ready may still fail while it writes `host-machine.json`: the generation,
tracked by then, is killed and awaited (`RegisterFails`, `Reaped` for the driver,
`LoopUnrecorded`, `LoopReaped` for a restart loop). `proc` are the
generation processes: `starting`, `live`, `stopping` (signalled), `stuck`
(survived SIGKILL), `exited`, `gone`; the first four may write the database; `running` the host's map of them, `url` the process behind
`activeUrl`, `files` the two pointer files. The frontend driver is one step per
method, with the partial effects that its order of writes allows.
Two history variables say when the host has left what it promises: `broken` (a
deployment ended as `failed`) and `overlapped` (a drain began while a restart
waited for readiness, or a second restart loop of one generation started).

### MachineUpdate

`journal` is `machine-update.json` field by field, `ckpt` the checkpoint
directory, `db` the database reduced to how much work it holds and which release
last migrated it. Hosts and updaters are processes that die at any step; the
machine of a host is a child that outlives it. The updater's `pc` runs through
`runMachineUpdate`, its catch block, `stopHost`, `startHost`, `snapshot` and
`restore`; `Bootstrap` is `startMachineHost`; `HostAuthorized` (the check of the
journal), `HostLocks` (the host lock), `HostOpens` (the orphan that
`host-machine.json` names is retired) to `HostReady` are `host.ts`, and other
processes move between any two of them. `HandoffFails` and `RecordFails` are the
two journal writes whose failure leaves a process that the journal does not
name. An artifact that fails verification is an updater that dies. Faults
are named, so that a run can choose which may happen. One order is left out:
`Bootstrap` starts no host while another stands between its check of the journal
(`host.ts:32`) and the lock (`host.ts:35`), so the model has no host that stalls
there while another one starts, becomes ready and is updated.

### ToolDispatch

`row`, `settled` and `told` are what the workspace object keeps of an attempt;
`call` and `lost` are the loop of `AttachmentStore.execute`; `wire` and
`cancelling` are what the relay carries for each incarnation of the object, since
a request may arrive after its sender restarted (`Reset`), and its answer is then
dropped (`Answered`). After a restart the task of a repeatable tool calls again
with the dispatch it stored (`Resume`), that of another asks for the outcome
(`Reconcile`). `run`, `linked` and `saved` are the
executor's attempts map and its journal; `proc` is the command's process, which
belongs to the supervisor and outlives the machine; `remote`, `local`, `lane`
and `step` are the attachment in the cloud, on the machine, and the assignment
lane between them; `prepared` are the checkouts that are set up, which a later
read installs again without preparing them (`Reinstall`). A run ends when its
process has exited or was stopped, or when the connection to the supervisor
closes, which answers for a process that lives on (`Complete`, `Abort`). Two
histories name what is excepted from the promises: `again` (tasks that called
again) and `severed` (runs that the supervisor stopped answering for). The host holds the relay connection and proxies to the
machine process, so a machine restart (`Shutdown`, `Crash`, `Boot`) is not a lost
connection (`Drop`, `Connect`). A payload is its attempt, since signature and
fingerprint checks compare what never differs in these behaviours.

### Supervisor

`ProcessSupervisor` for one name. `runs` are the `Running` objects, of which
`cur` is the one in the map, `proc` the operating-system processes, `meta` the
name's `meta.json`, `completions` and `saved` the completion records in memory
and on disk. An action is what happens between two awaits. A client's request is a
thread (`task`): `Ask` is its synchronous part, `DrainEnds` the wait for what the
name is doing, `StartResumes`, `RestartResumes` and `StopResumes` what follows.
A launch (`Claim`, `ClaimFails`, `Spawn`, `Identify`, `LaunchFails`) runs in the thread of a
request or of the restart timer. `Exited`, `ExitWritten` and `ExitRestarts` are
the exit handler around its two writes, `TerminateResumes` to `CloseTimesOut` the
termination of a process, `ShutdownBegins`, `ShutdownRun` and `BrokerExits` a
clean close, `Crash` and `Reboot` the end of the broker or of the computer at any
step, and `Recover` reads the records of what they left. `Detached` is the spec
field that lets a process outlive a clean close. Two histories say when the code
has lost a process: `raced` (two requests launched the run that both had drained)
and `leaked` (a launch failed after its spawn).

### ProjectLifecycle

Four stores that only calls connect. `project`, `rows`, `gone` and `ops` are the
project authority: its own record, the definitions of its workspaces,
`deleted_workspaces` and the queue of operations. `obj` is what each workspace
object knows of itself: its lifecycle and revision and those of its project.
`index`, `puts` and `located` are the account directory and the summaries on
their way to it. A request (`asks`) checks, records and appends in separate calls
(`Ask*`); the alarm runs the queue one operation at a time (`run`), each step an
action, and after a failure (`RunFails`) or a cut-off (`RunCut`) as the code
does: failed, or once more from the first step. Beside them run the lazy seed of an object
(`SeedRead`, `SeedWrite`), the project's pushes (`Push`), a change of
phase (`PhaseBegin` to `PhaseAdopt`), work in a workspace (`use`: `Admit` checks
that it accepts writes, `Open`, for the runtime's own alarm and the project
agent's start, only that it may be read) and changes of repository. Metadata is adopted by `Adopt`, which compares revisions
as `adoptWorkspaceMetadata` does. Repositories, commits and branches are left
out: a step on them succeeds or fails.

### ProjectAutomations

The automations object of a project on one side, the objects of its workspaces
on the other. `run` is `automation_runs`; `call` is what the alarm handler's
submission of each run is doing, `cancel` what a person's cancel is. `sub` is the
submission with the run's request id in the workspace's main conversation,
`watch` the row of `workspace_automation_turns`, `withdrawn` the withdrawn
requests, `stopped` the conversations that a Stop holds. `reports` are on their
way back. A call may break for its caller and still be carried out (`late`); an
object may be evicted or die and is opened again by the next call, which
reconciles its watches (`Open`). What a plan says is a kind, a workspace and
whether it runs; the daily cap and conditions are the choice of `plan`. The
conversation is pi's queue: one turn is placed at a time, it may ask a person,
and Stop ends it and drops what waits behind it. Four histories name what the
code gives up on (section 7): `misheard`, `unheard`, `torn`, `unwatched`; `asked`
are the turns that stopped to ask.

Every change of the project sets the alarm for what is recorded by then
(`Rescheduled`), but a delivery that starts several automations records a run,
evaluates the next automation and sets the alarm only at its end: `Receive` is one
of its runs, `unarmed` are those that no alarm has seen, `receiving` says that the
delivery has not come to its end (`Received`). A person may stop a conversation
(`PersonStops`), and a workspace may be deleted with its watches and queue
(`Erase`), after which calls to it are refused (`Refused`).

## 4. Runs, bounds and what they show

Each passing run finishes within three minutes (two workers). `CHECK_DEADLOCK FALSE` is
needed everywhere: after the last deployment, update or command the system rests.

| Run | Configuration | States | Shows |
|---|---|---|---|
| `engine` | `MCReplacementTargets` | 10,961 | engine safety, `ExecuteReturns`, refinement of `AtomicReplacement` |
| `host_replacement` | `MCHostReplacement` | 1,464,034 | `QuietDisk`, `GenerationsTracked`, `OutcomeSelected` |
| `host_restart` | `MCHostRestart` | 122,634 | `ProxyServesCurrent`, `CrashHeals` |
| `machine_update` | `MCMachineUpdate` | 3,281,274 | `OneWriter`, `NothingLost`, `RollbackPristine`, `SelectionAgrees` |
| `update_live` | `MCMachineUpdateLive` | 138,714 | `UpdateResolves` |
| `tool_dispatch` | `MCToolDispatch` | 1,272,071 | `RunsOnce`, `RefusedNeverRan`, `AnswerIsFinal`, `Resolves` |
| `supervisor` | `MCSupervisor` | 1,446,700 | `OneProcess`, `StopHolds`, `CompletionsTrue` |
| `supervisor_live` | `MCSupervisorLive` | 76,020 | `Answered`, `Relaunched` |
| `lifecycle` | `MCProjectLifecycle` | 729,443 | `ArchivedQuiet`, `DeletedUnavailable`, `Agreement`, `QueueDrains` |
| `project_undone` | `MCProjectUndone` | violation | `NeverUndone`: section 7 |
| `automations` | `MCProjectAutomations` | 3,514,294 | `OutcomeTrue`, `SlotsBounded`, `Watched` |
| `automations_live` | `MCProjectAutomationsLive` | 68,867 | `RunsEnd` |

**engine.** Three targets are the least for which one is in the middle of a
rollback with one before and one after it; two attempts are the least for which
records of an older attempt exist. The proofs remove both bounds.

- `Reversible`: until the decision is on disk, a target on the new release holds
  its rollback record and the journal would roll it back.
- `AllOrNothing`: a run recorded rolled back left no target on the new release,
  a decided one none on the old.
- `UndoneInReverse`: targets are undone last to first.
- `DiscardAfterDecision`: `finalize` is only called once all have committed,
  `rollback` never after the decision.
- `ExecuteReturns`, `ImplementsAtomic`.

**host_replacement, host_restart.** Two targets because the machine and the
frontend are all there are (`N` is at most 2); three deployments so that a
rollback goes back to a generation that itself replaced one; one exit or failing
write of `host-machine.json`, or two of the machine alone. `MaxProcs` bounds the processes alive or still
referenced at once; a slot is used again when nothing refers to it.
`QuietDisk` counts every process that may still write: one that is starting, live,
signalled and not yet gone, or left over from a SIGKILL. `QuietDisk` and parts of
`GenerationsTracked` and `OutcomeSelected` are promised while `Sound` holds: until the first deployment that ends as `failed` (every
deploy is a new plan, so nothing ever completes a rollback that failed) and
until a restart overlaps a drain or another restart (section 7).

**machine_update, update_live.** Two updates, because the second starts from
what the first left; three faults, because the recovery of a recovery is where
the journal is read twice, and the third strikes what that recovery left. The
proofs remove these bounds. One unit of work is enough to see one lost. `Faults` of
the safety run are death of the updater, death of a host before its promotion,
`gitspace machine stop` and a journal write that fails. The three left out (a
promoted successor that dies, a machine that crashes, a machine that neither a
record nor a journal names) break `OneWriter`: neither the run nor the theorem
says anything of them, and they are the subject of section 7. The liveness run
has all seven.

**tool_dispatch.** One command: nothing relates two attempts but the connection,
and two attempts multiply the states without a new order. Two attachments, two
lost connections and one reset of the workspace object during the call allow a
repeat of a repeat, an attachment replaced under a running command, and a task that
calls again while the request of its former incarnation is on its way. One machine restart is included; the three
safety properties are promised while there was none (`Unrestarted`), since
section 7 shows that a restart breaks them. `Resolves` is promised always, with
the machine gone for good too.

**supervisor, supervisor_live.** Two clients and three requests let a start or
restart meet a stop and another restart in every order; two runs of the name so
that a replacement is seen beside the run it replaces; one death of broker or
computer. Processes and runs are not reused. The liveness run has two requests and a
process that does not outlive a clean close, the safety run three and one that
does.

- `OneProcess`: a name has at most one process, through restarts, replacements,
  shutdowns, recoveries and whatever a dead broker left.
- `StopHolds`: after a stop was answered no timer, exit handler, launch or
  recovery brings the process back until somebody asks.
- `CompletionsTrue`: an execution recorded as ended has ended.
- `Answered`, `Relaunched`.

**lifecycle.** One workspace, two operations, one failed or cut-off call and one
edit (a change of phase or of the repository) beside them. Two operations are the
least for which one is queued behind another, retried, or undoes it. Safety was
also checked for three operations, for two workspaces and for two edits before
work that is only opened to read (`Open`) was added; the proofs remove these
bounds.

- `ArchivedQuiet`: what the project lists as archived refuses writes in its own
  object, and nothing works there.
- `DeletedUnavailable`: a deleted workspace does not come back.
- `Agreement`: the project's row and the object's metadata agree whenever no
  change is between its two writes, and the directory shows the project once
  nothing is on its way there, whatever order the summaries arrived in.
- `QueueDrains`: every queued operation is run to its end.

**automations, automations_live.** Two runs, two workspaces and one slot: the
second run waits for the first wherever it works, or is queued behind it in one
conversation. One fault breaks any one call, report or object, or is a person's
Stop or the deletion of a workspace (`MaxFaults` bounds these too).
`SUBMIT_RETRY_MS` is shortened to one retry, the least with a retry and an end.
Notices show nothing new in the safety run and are left to the liveness run, which
has one run of any kind and three faults: enough to lose a submission, its retry
and a report.

- `OutcomeTrue`: a skipped run's agent never worked on it, a finished run's turn
  ended well or asked, a failed run's did not end well.
- `SlotsBounded`: no more agents work than the project has slots.
- `Watched`: a run that holds a slot for a submission is watched or its end is on
  its way.
- `RunsEnd`: every run ends, except behind a person's unanswered question, when its
  watch or the receipt of its cancel was lost, and where nothing comes back to it:
  no alarm was ever set for it, or nobody ever calls its idle workspace again.

Every property of a passing run has a mutant: a named variant of an action, next
to it in the module, that changes it as a plausible mistake would and that
breaks the property (for example `needsRollbackAfterActivation`,
`SurvivorIgnored`, `FailWithoutStop`, `FinishedUnsaved`,
`KillsUnconfirmed`, `AdoptAlways`, `DeliverFailsForgotten`).

## 5. Fairness

- **Engine.** Weak fairness of the engine's own steps and of the answer of a
  driver: the event loop goes on, and every driver method is bounded by a
  timeout of the host. Nothing is assumed of crashes or of a later `execute`.
- **Host.** The same, and weak fairness of exit handlers and of the steps of a
  restart loop, one of which is either active (`LoopSwitches`) or cannot be recorded
(`LoopUnrecorded`); strong fairness of `LoopReady`: a generation started again and
  again is ready some time. `CrashHeals` says nothing of a generation that never
  starts.
- **Update.** Weak fairness of the updater, of the steps of a starting host and
  of the bootstrap, which whoever runs the machine starts again while no host is
  ready; and misfortune (a host that could have become ready and does not, a
  process that survives SIGKILL) does not strike for ever. Without the last, an
  update is retried for ever, as the code means it to be.
- **Dispatch.** Weak fairness of the workspace object's steps, of delivery on a
  live connection and of a command's deadline; a task whose object was restarted
  calls again or asks for its outcome. Strong fairness of `GiveUp`: the
  recovery time ends however often the call is repeated before. Nothing is
  assumed of the machine coming back.
- **Supervisor.** Weak fairness of the continuations of requests, launches, exit
  handlers and terminations, and of the restart timer: the broker's event loop
  goes on and each of its waits has a deadline. Nothing is assumed of exits,
  crashes, requests or of the broker being started again.
- **Lifecycle.** Weak fairness of the runner: the platform runs an alarm again
  until its handler has returned, and the handler sets the next one while
  operations are queued. A read of the project by an object returns. Faults are
  bounded, since a call that failed for ever would keep no promise.
- **Automations.** Weak fairness of the alarm, of the rest of a delivery that is
  not cut off, of the calls the alarm makes and of their answers; strong fairness
  of the alarm at the deadline of a run that waits (a handler under way only delays
  it); a turn ends unless it asks, a report on its way is delivered or lost, an
  idle object is evicted (the platform's part). A workspace is opened only when
  something calls it (`Called`): a submission or cancel that waits for it, or the
  alarm that its runtime arms while a turn works (`runtime-workspace-do/src/runtime.ts:741-747`).
  Nothing is assumed to open an idle one, to repeat a delivery, or of a person
  answering, cancelling or writing.

## 6. Proofs

One module of proofs per component, `<component>_proof` (the host has two,
`HostOutcome_proof` extends `HostReplacement_proof`). Every theorem is a theorem
of `Spec` for every value of the constants that the assumptions next to their
declarations admit; these ask for natural numbers, non-zero where zero would
leave nothing to run, and for names that do not clash. Each module has the same
shape: an inductive invariant, a lemma that the initial states satisfy it, a
lemma per action that the action keeps it, `Invariance`, and one theorem per
property. TLC checked each inductive invariant on the run's instance first.

| Module | Theorem | Statement |
|---|---|---|
| `ReplacementTargets_proof` | `TypeCorrect` | `Spec => []TypeOK` |
| | `AtomicOutcome`, `ReplacedReversible` | `Spec => [](Reversible /\ AllOrNothing)` |
| | `ReverseUndo` | `Spec => []UndoneInReverse` |
| | `DecisionRespected` | `Spec => []DiscardAfterDecision` |
| | `RefinesAtomic` | `Spec => ImplementsAtomic` |
| `HostReplacement_proof` | `TypeCorrect` | `Spec => []TypeOK` |
| | `ProxyTrue` | `Spec => []ProxyServesCurrent` |
| `HostOutcome_proof` | `OutcomesTrue` | `Spec => []OutcomeSelected` |
| | `DiskQuiet` | `Spec => []QuietDisk` |
| | `AllTracked` | `Spec => []GenerationsTracked` |
| `MachineUpdate_proof` | `TypeCorrect` | `Spec => []TypeOK` |
| | `OneWriterAlways` | `Recoverable => (Spec => []OneWriter)` |
| | `NothingLostAlways` | `Recoverable => (Spec => []NothingLost)` |
| | `RollbackPristineAlways` | `Recoverable => (Spec => []RollbackPristine)` |
| | `SelectionAgreesAlways` | `Recoverable => (Spec => []SelectionAgrees)` |
| `ToolDispatch_proof` | `TypeCorrect` | `Spec => []TypeOK` |
| | `StartedOnce` | `Spec => []RunsOnce` |
| | `RefusalsTrue` | `Spec => []RefusedNeverRan` |
| | `AnswersFinal` | `Spec => []AnswerIsFinal` |
| `Supervisor_proof` | `TypeCorrect` | `Spec => []TypeOK` |
| | `NeverTwoProcesses` | `Spec => []OneProcess` |
| | `StoppedStaysDown` | `Spec => []StopHolds` |
| | `CompletionsAreTrue` | `Spec => []CompletionsTrue` |
| `ProjectLifecycle_proof` | `TypeCorrect` | `Spec => []TypeOK` |
| | `ArchivedStaysQuiet` | `Spec => []ArchivedQuiet` |
| | `DeletedStaysUnavailable` | `Spec => []DeletedUnavailable` |
| | `CopiesAgree` | `Spec => []Agreement` |
| `ProjectAutomations_proof` | `TypeCorrect` | `Spec => []TypeOK` |
| | `HistoryTrue` | `Spec => []OutcomeTrue` |
| | `SlotsRespected` | `Spec => []SlotsBounded` |
| | `RunsWatched` | `Spec => []Watched` |

### The engine

`Reversible` and `AllOrNothing` are not inductive: that a target on the new
release is one that the journal would roll back depends on where the loop is.
The inductive invariant `IInv` adds

- `Control`: a running loop has written its run state, and a call in flight
  belongs to it;
- `Progress`: the step rows are exactly as far as the forward loop (visited
  targets have its state, the others that of the loop before), and a decided run
  has every step committed or finalized;
- `Materialised`: what an answered call or a recorded step says is true of the
  target: a staged one holds its record, a committed one serves the new release,
  one whose rollback was answered serves the old;
- `RollbackPending`: a rollback loop that has met no error has still to visit
  every recorded target, and once it is over there is none.

`Initially` and `Inductive` establish it, `Inductive` with one step per action.
`RefinesAtomic` rests on it through `FleetFacts`: a step changes the phase or the
fleet, never both, and the phase only along `Open`, `Undo`, `Decide`, `Finish`.

### The machine host

For any number of deployments, processes and exits, with the machine alone or
with the frontend (`N` is 1 or 2, since there is no third target), and one
attempt per plan, since every deployment is a new plan. Three invariants build
on each other.

- `IInv`, for `ProxyTrue`. The proxy's process is one of the current generation
  because every switch is made by somebody who holds a process of the generation
  that he switches to: the driver (`Held`, with `Positions` saying which method
  brought the call where it is), or a restart loop (`Restarts`). `Tracked` says
  the same of the host's map and `Apart` that no two of them wait for one
  process, one that is being reaped included.
- `OInv`, for `OutcomesTrue`. `Progress` ties the step rows to the loop, and
  `Reached` counts an answer that the journal has not yet recorded. `Pointers`
  and `Published` then say, by how far a target has come, which generation host,
  files and frontend select; `Kept` that what is staged has its record, and that
  a record says `restored` only on the way out; `Closed` that the machine takes
  no requests from its drain on.
- `QInv`, for `DiskQuiet` and `AllTracked`. `Spawns`: a starting process is held
  by the call or by a loop. `Alone`, until a restart overlaps: one loop for a
  generation, restarts only of the current one while it takes requests, and
  nothing alive, signalled or stuck that the host does not track. `Manned`, while no rollback of the
  machine has failed either: what lives is of the one generation that the
  deployment has charge of by then (`Charge`), and nothing lives between a drain
  and a stage or while a database is restored.

### The machine update

For any number of hosts, updaters, updates, units of work and faults. `Recoverable`
says of the constant `Faults` that it has none of `"promoted"`, `"machine"` and
`"unrecorded"`, the three that break `OneWriter` (section 7); `TypeCorrect` does
without it. An updater may stop at any position, so the invariant says for every
phase of the journal what is true whoever continues, and for every position what
the updater has done since the last journal write.

- `OneWriter` is not inductive, since nothing in it says which machine it is.
  `Processes`: one host holds the lock, and a machine that serves is on record.
  `During`: while a journal is there, what holds the lock or runs is the
  predecessor, then nobody, then the successor that the journal names.
  `Between`: without a journal a machine that lost its host is on record, which is
  what `HostOpens` retires.
- `NothingLost` and `RollbackPristine` rest on `Saved` (all work is in the database
  until the copy is complete, and in the copy from then on, with the predecessor's
  schema; nobody admits work once the predecessor is stopped), `Restored` (what a
  rollback has put back before it starts the predecessor) and `Settled` (what holds
  without a journal).
- `SelectionAgrees` rests on `Settled`, and needs that the host that an updater
  starts has the release it chose (`Owners`) and that no host starts by itself
  beside a journal (`Starters`).

### Tool dispatch

The machine does not know what the cloud thinks. `Once` says, of a command that
must not be repeated, what both know: its life on the machine (`Life`: not
started, running in the attempts map, or over with its result in the journal) and
that what is settled, or on the wire to any incarnation of the workspace object,
agrees with it (`Said`). It needs `NotYet` (what was not sent was not started),
`Calls` (where the cloud's call can be when a result is there or on the way; until
a task calls again only one incarnation has a request of it) and `Counted` (a
machine that is down was restarted, so nothing is promised). `RefusalsTrue` says
nothing of a task in `again`, and `AnswersFinal` lets a process in `severed` live
on, since the code breaks both there (section 7).

### The supervisor

`Single` (one process lives or waits for its exit handler, and it belongs to the
run that owns the name) is `OneProcess` made inductive. A launch must find
nothing alive (`Launches`), a timer exists only after the process has ended and
never after a stop (`Restarts`), the broker knows the process that lives (`Known`)
and so does the disk (`Recorded`), which is what a recovery starts from; a
completion is of an execution that came before (`Counted`). These are kept while
no launch raced or leaked. `Stops` is `StopHolds` with what could undo a stop:
exits, launches, timers and requests. `Forgotten` says that a broker that is down
holds nothing in memory.

### The project lifecycle

For any number of workspaces, operations, faults and edits. What makes the three
properties hard is that each store decides by what it read of another one some
calls ago. The inductive invariant `IInv` therefore says of everything that is
still on its way what it may bring.

- `TInv` is `TypeOK` with the positions of the runner: which kind of operation can
  be where (`Runners`), and that a request or operation of a workspace names it
  (`Queue`). `TypeCorrect` needs no more.
- `Revisions`: no copy is newer than its original. With it a comparison of
  revisions in `Adopt` can be resolved at all. `Identities`: a definition comes
  once, so that a workspace without one was never recorded or is deleted for good,
  and a request that is about to record one has read the row as it still is, or
  what it read no longer matters.
- `Seeds`: a read of the project that arrives after the object has its metadata is
  not newer than what the object knows, nor than the tombstone that the runner is
  about to write; newer can only be an edit of a project in use.
- `Lives`: object and row have the same lifecycle unless a change is between its
  two writes. This is `Agreement` made inductive; a deletion is applied by the
  object before the project records it.
- `Creating`, `Changing` and `Pushing`: for every position of the runner, what it
  has made true so far. `Pushing` is the argument for archived and deleted
  projects: what was listed and is no longer to be visited has heard of it and is
  quiet; the rest is still listed, or came later (`late`).
- `Closed`: what an archived or deleted project leaves. It follows from `Pushing`
  when the last step records the outcome, and is kept from then on by `Revisions`
  and `Seeds`.
- `Listing`: the directory has the project's summary, or it is on its way, and an
  older one that arrives later does not replace it.

A lemma `<Action>Does` says what a step changes and keeps `TInv`, a lemma
`<Action>Keeps` that it keeps the rest. Most steps of the runner only move it or
end its operation; `Rests` says so and `Resting` deals with them all, as
`Undisturbed` does with the parts of the invariant that a step does not touch. TLC
checked `IInv` on the run's instance.

### Automations

`Backed` (a submission that waits or works belongs to a run that holds its slot)
and `Slots` (no more rows hold slots than there are) give `SlotsBounded` by an
injection from turns to rows, since a workspace has one turn (`Turns`). `Truthful`
says that what a report or receipt on its way says is so and stays so; with
`Closed` (nothing more is delivered for a run that is settled) it makes
`OutcomeTrue` inductive. `Guarded`: the watch is there before the submission and
goes only with the run's end, or is named in `torn` or `unwatched`. What records
runs without setting the alarm touches none of this (`TypedAside`): that such runs
end is liveness and stays with TLC.

### What the proofs changed in the models

- `ProjectAutomations`: a cancel whose receipt "withdrawn" is lost leaves its run
  without a watch, like the other receipts, and is recorded in `torn`. Within the
  bounds of the run the case did not break `Watched`.
- `MachineUpdate`: the fault `"unrecorded"` was the death of a host that no updater
  had started. The proof of `Between` failed for a host that one had started: a
  recovered commit accepts a successor that lives, ready or not, and removes the
  journal (section 7). From then on nothing names its machine, as for the other
  hosts, so the fault now is that of any host whose machine neither
  `host-machine.json` nor a journal names. TLC needs three faults to get there,
  and the run has three now.
- `Supervisor`: `contested` is set afresh by every request: a start or restart
  contests the stops under way, and a new stop is contested when it finds a start
  or restart under way, never because an earlier one of the same client was.

### Only model-checked

Liveness (`ExecuteReturns`, `CrashHeals`, `UpdateResolves`, `Resolves`,
`Answered`, `Relaunched`, `QueueDrains`, `RunsEnd`), since fairness is out of the
prover's reach. `NeverUndone` is no theorem: the code violates it (section 7).

## 7. Where the code and its documentation disagree

`project_undone` checks a sentence of the repository, "a stale read never undoes
a change this workspace already applied to itself" (`workspace-metadata.ts:58`),
and TLC finds a behaviour in ten states that contradicts it: `setWorkspacePhase`
(`space-authority.ts:726-730`) reads the object's metadata, awaits the project for
the dependencies of the phase, and writes back what it read. The archive of the
project that was pushed during the wait is gone, and the object accepts writes.

The other disagreements met while modelling are kept out of the passing runs by a
history variable, by `Faults` or by a condition of the property: the property and
its theorem say nothing of them. They can be seen by dropping that condition.

Machine:

- The generation exits while a drain is asking it to retire. `generationExited`
  sees admissions stopped and returns; the drain fails and resumes admissions;
  the proxy forwards to nothing and no loop runs, although "while it is the
  active one the proxy answers 503 instead of failing to connect, and it is
  started again" (`replacement-environment.ts:455`).
- Without `overlapped`, `QuietDisk` fails: a restart is waiting for readiness
  when the drain begins, is not in the map, is not stopped and becomes ready
  during the checkpoint, although "checkpoint/start/restore cannot proceed while
  the old writer may still be alive" (`docs/ROLLING-LIFECYCLE-HANDOFF.md:37`).
- With `"promoted"` added to the safety run's `Faults`, `OneWriter` fails: the
  ready successor dies and leaves its machine, and `startHost` removes
  `host-machine.json` (`machine-update.ts:509`), so the next host does not retire
  it ("Process-owned locks prevent two hosts or updaters from writing at once",
  `docs/FLEET.md:636`).
- Without `Unrestarted`, `RunsOnce` fails: after a restart of the machine the
  repeat finds neither a run nor a result and starts the command again
  ("Uncertain unsafe effects are not replayed automatically", `docs/FLEET.md:13`).
- Without `again`, `RefusedNeverRan` fails with no restart of the machine: a
  workspace object that restarts has its dispatch stored and no result; the task of
  a repeatable tool (`bash`, `runtime-core/src/tools.ts:246`) calls
  `executeMachineOnce` again, which sends the stored dispatch as if for the first
  time (`runtime-services.ts:387-419`), and a machine that is away or an attachment
  that is gone is then answered as if nothing had been sent
  (`attachments.ts:176-179`, `195`), although the command ran.
- Without `severed`, `AnswerIsFinal` fails: the connection to the supervisor closes,
  the wait or the stop is rejected (`commands.ts:64`, `67`), and the command is
  answered failed or interrupted while its process lives on.
- A run listens to the request that started it only. After a lost connection no
  abort reaches it ("Aborting the request stops the command on the machine",
  `runtime-services.ts:421`).
- Installing a newer attachment marks the older one detached in the journal, and
  `release` is skipped for what is detached already ("Stops sync and commands for
  an attachment the cloud released", `runtime-executor.ts:550`).
- With `Faults = {"machine"}`, `OneWriter` of `MachineUpdate` fails: `close()`
  stops the tracked generations only, so a machine that the restart loop has
  just spawned survives its host, although `host.ts:107` says "never exit and
  leave an untracked child writing the database".
- With `"unrecorded"` added to the safety run's `Faults`, `OneWriter` fails: a
  host that dies after its machine opened the database and before it wrote
  `host-machine.json` leaves a machine that the next host does not find. A
  successor is exposed to this too: an updater that finds the update committed
  takes a successor that lives for ready and removes the journal
  (`machine-update.ts:509`).
- Without `Unrestarted`, `RefusedNeverRan` fails: when the machine process exits,
  the host's proxy answers 500 for the command it was forwarding and the cloud
  reads that as a rejection, while `docs/SIMPLIFICATION.md:15` says "A machine
  restart reports a running command as `interrupted`".
- `OutcomeSelected` asks only of a machine that was rolled back that it takes
  requests again. If stage fails after drain, `needsRollback` leaves out
  `drained`, so nobody calls the machine driver: the run is recorded rolled back
  and the predecessor stays stopped.
- Without `overlapped`, `GenerationsTracked` fails with two exits: a restarted
  generation that exits again while `host-machine.json` is being written gets a
  second restart loop, and the two start two processes of which the host tracks
  one.
- Two restarts, or a start and a restart, drain the same run and both launch
  (`supervisor.ts:460`, history `raced`); a launch that fails after its spawn
  leaves the process (`supervisor.ts:275`, `leaked`).

Cloud:

- A lazy seed in flight that read a newer revision of the project rewrites the
  tombstone of an erase (`space-authority.ts:220`, `stale`), although "nothing
  reopens what this removes" (`space-authority.ts:632`).
- An archive that fails between the object and the row leaves the row active, and
  a restore then answers success while the object stays archived
  (`cloud-workspace-lifecycle.ts:417`, `torn`). A creation cut off between the row
  and the seed is refused when it runs again (line 315, `torn`), although "every
  step is idempotent" (line 20).
- A workspace recorded after a project archive or delete listed the workspaces
  escapes it (`cloud-workspace-lifecycle.ts:469`, `late`).
- A submission that its caller had given up on is refused and removes the watch
  of its retry (`automation-turns.ts:15`, `unwatched`); a cancel whose receipt is
  lost leaves a run that nothing ends (`project-automations.ts:757`, `torn`); a run
  whose every answer was lost is failed while its agent works
  (`project-automations.ts:927`, `unheard`); a question of another turn ends a run
  whose own report was lost (`automation-turns.ts:51`, `misheard`).
- A delivery records its runs one by one and sets the alarm after the last
  (`project-automations.ts:722-728`). If the object dies between, or the deliverer
  gives up, nobody repeats the delivery (`github-app.ts:851`) and a queued run has
  no alarm until something else changes the project (`RunsEnd` excepts it:
  `unarmed`).
- A run whose end report was lost holds its slot until somebody calls its
  workspace: the alarm of a runtime is armed only while work runs
  (`runtime-workspace-do/src/runtime.ts:741-747`) and the automations object does
  not poll, although "A run holds a slot only while its agent works"
  (`docs/AUTOMATIONS-DESIGN.md:130`). `RunsEnd` excepts a workspace that is never
  opened again.
- A deleted workspace takes its watches with it (`space-authority.ts:650`,
  `unwatched`). If its runtime was not loaded nobody reports its runs, a cancel sent
  to it is refused (line 327), and they hold their slots.
- Work begins in an archived workspace: the runtime's own alarm and the project
  agent's start are checked for reading only (`space-authority.ts:153-163`,
  `185-189`, `slipped`).
- A run cancelled before it started may be recorded failed, since the settling of
  its submission is reported before the receipt returns, although it "is skipped"
  (`project-automations.ts:748`). A run queued behind an unanswered question holds
  its slot (`Behind`), although "a workspace waiting for you does not"
  (`docs/AUTOMATIONS-DESIGN.md:130`).

Further hazards that were seen and that no property covers:

- a rollback of the first frontend does not unpublish it
  (`policies/frontend.ts:116`); a finalize error leaves `machineHash` behind
  (`replacement-environment.ts:772`); a reused process id looks like a living owner
  (`machine-update.ts:55`); a host that stalls between `host.ts:32` and `host.ts:35`
  while another is started and updated;
- a failed launch leaves a rejected promise in the run, so that later starts fail
  until the broker restarts (`supervisor.ts:378`; one that fails at its claim,
  `ClaimFails`, leaves the name starting as well); a process that is not
  persistent survives its broker without a record (`supervisor.ts:90`);
- a request lost between a workspace's row and its location leaves a provisioning
  workspace that can be neither retried nor deleted
  (`cloud-workspace-lifecycle.ts:347`); a project delete that meets a revision
  conflict has already erased its workspaces (line 613); a creation retried from a
  workspace source whose head moved throws (line 307);
- an event's evaluation records a run of an automation that was deleted meanwhile
  (`project-automations.ts:725`, in the model, and harmless to its properties);
  the Stop of a cancel ends whichever turn runs by then and drops the queue
  (`automation-requests.ts:101`);
- a retried credit reservation whose id expired or settled is answered ok, and a
  settlement after the expiry is not billed (`credit-ledger.ts:141`, `180`).

## 8. What is not modelled

- In the modelled parts: which artifacts a deployment changes and in which order
  (`affectedArtifacts`), release channels, downloads, signatures and hashes; the
  death of the host in the middle of an engine deployment (each of the two is
  modelled by itself: engine crashes in `ReplacementTargets`, host deaths in
  `MachineUpdate`); the migration of legacy hosts; reuse of process ids; files
  synchronised between cloud and machine; the browser tools; several names and
  their schedules in one supervisor, its sockets and logs; commits, branches and
  sources of a workspace; conditions, trust, links and watches of automations,
  changes of their concurrency setting (which may fall below the slots that are
  held), and turns of a person that occupy a workspace's conversation.
- External: the durable task runner that decides when a tool call is executed
  again, the container platform, git and the inference providers.
- Most of the repository is not state that actors share: views, schemas, request
  handlers over one row, clients of external services and their tests. Its lines
  are many and a model of them would restate assignments.
- Components of section 1 without a module: those of section 2 marked
  planned; the schemas, the block reducer and the user interfaces, which keep no
  shared state; workers that forward to external services.
