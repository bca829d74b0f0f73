# A verification of the oh-my-codex team runtime

oh-my-codex runs a *team* of coding agents in tmux panes. Nothing coordinates
them but files: task records, a configuration, a phase, an event log, a monitor
snapshot, mailboxes and dispatch requests, read and written by the leader's
process, by every worker's command line, by hooks that Codex starts, and by a
Rust program that keeps one more store of its own. This directory holds TLA+
modules that are translated from that code, the TLC configurations that check
them, and theorems about them whose proofs TLAPS checks.

`PROJECT.json` gives, for every definition that models code, the lines it
models; every run with its properties; for each property a plausible bug that
breaks it; the findings; the hazards; and the theorems. To run anything:

    tlc -workers 2 -config MCTeamTasks.cfg MCTeamTasks
    tlapm TeamTasksProofs.tla

Paths below are relative to the repository root; line numbers are in
`PROJECT.json`.

## 1. Inventory

### The parts that carry the system's own logic

| Part | State | Operations | What is hard | Correct when |
|---|---|---|---|---|
| **Task board** `src/team/state/tasks.ts`, `state.ts` | `tasks/task-N.json`, `config.next_task_id`, `config.workers` | createTask, updateTask, claimTask, releaseTaskClaim, transitionTaskStatus, reclaimExpiredTaskClaim, assignTask, scaleDown's requeue | leases that run out while their holder validates evidence; a crash between two writes; dependencies edited after they were checked | claim, status, owner and membership agree; a finished task stays finished; a task starts on finished work only; code tasks complete on evidence for the very claim |
| **Membership barrier** `src/team/state/locks.ts` | lock directories with owner file and lease | withTeamLock, withScalingLock, heartbeat, stale recovery | a holder that dies at any step; two waiters that recover one lock | holders exclude one another; a dead holder's lock goes away |
| **Monitor** `src/team/runtime.ts` `monitorTeam` | `monitor-snapshot.json`, the event log, what a poll has read | list, reclaim, rebalance, phase reconciliation, derived events, save | a poll reads at its start what it writes at its end, and only some of it under the barrier | no claim is taken away while it runs; each completion is announced; the log tells the truth |
| **Phase** `src/team/orchestrator.ts`, `phase-controller.ts` | `phase.json` | transitionPhase, buildTransitionPath, reconcilePhaseStateForMonitor | written by poll, shutdown and hook without a common lock | fix attempts are bounded; no poll throws; shutdown is final |
| **Shutdown** `src/team/runtime.ts` `shutdownTeam` | terminal epoch in `phase.json` | gate, stamp, kill, remove | work created while it runs | a gated shutdown leaves no unfinished task |
| **Membership journal** `src/team/state.ts`, `scaling.ts` | `.membership-task-transaction.json`, config, manifest, tasks | prepare, write, commit, recover, finalize | crash at every point; readers that recover | old or new generation, never a mixture |
| **Dispatch and mailbox (TypeScript)** `src/team/state/dispatch.ts`, `mailbox.ts`, `dispatch-recovery.ts`, `src/scripts/notify-hook/team-dispatch.ts` | `dispatch/requests.json`, `mailbox/*.json`, shadows of the Rust store | enqueue, drain, inject, retry, receipt, mark, acknowledge | injection that is slower than its lease; two stores for one message; process killed after it took effect | a request is injected once per attempt; an acknowledgement is never lost; no duplicate message |
| **Runtime engine (Rust)** `crates/omx-runtime-core`, `crates/omx-runtime` | `events.json`, `dispatch-seen.json`, `snapshot.json`, `mailbox.json`, `dispatch.json` | exec: load, process, compact, persist, compatibility view | five files written one after another by a process its caller kills after ten seconds | a command happens whole or not at all; a request id is accepted once |
| **Mode state** `src/state/operations.ts`, `workflow-transition*.ts`, `mode-binding-lease.ts`, `pinned-atomic-file.ts` | one file per mode and session, lease files | start, write, clear, transition, takeover | modes that exclude one another started by two sessions | exclusive modes do not overlap |
| **Workflows** `src/ralph`, `src/ralplan`, `src/autopilot`, `src/question`, `src/subagents` | one file or journal each | phase steps, recovery, answer, track | lock-free read-modify-write; a journal recovered after a crash | per workflow |

How they meet. Workers and leader call the task board through one command-line
API; each call takes the *membership barrier* for its whole length. The monitor
calls the board's operations under the barrier and reads and writes everything
else outside. `transitionTaskStatus` appends its own event and marks the task in
the monitor's snapshot; the monitor derives the same event from a comparison of
snapshots unless it finds the mark. Scaling changes membership and tasks in one
journalled transaction. Dispatch requests and messages go to the Rust store if
its binary is there, through one process per command, and to JSON files if not.
Hooks run in processes of their own, with no lock.

The remaining parts (tmux and worktree handling, planning heuristics, prompts and
overlays, notifications, HUD, MCP fronts, setup, configuration generation,
authentication, catalog, wiki, search, the VS Code extension, the other Rust
binaries) are I/O, text or rendering; each is listed in `PROJECT.json` with the
reason it is not modelled.

### Hazards

`PROJECT.json` lists them one by one, at the line where they bite: interleavings
of poll and transition, stale snapshots and phases written back, crashes between
two writes, leases that end while their holder works, ids that could be reused,
locks removed by the wrong process, journals replayed over newer files, prompts
injected twice. The properties were chosen for them. Those that no property covers
have a note. Behaviour that is deliberate is not in the list: a task whose dependency failed,
or whose dependencies make a cycle, waits for the leader; so does a pending task
whose owner died; `task_failed`, unlike `task_completed`, is not derived from
snapshots, so a crash right before it is appended loses it.

## 2. The modules

| Module | Models | Built on |
|---|---|---|
| `TeamTasks` | the task board, serialised by the barrier | - |
| `TeamPhase` | the phase controller's pure functions | - |
| `TeamMonitor` | poll, transition tail, shutdown, transport-failure hook | `TeamTasks`, `TeamPhase`; implements `TeamTasks` |
| `TeamLock` | the lock the barrier is made of | - |
| `RuntimeLog` | what the Rust commands do to dispatch log and mailbox | - |
| `RuntimeStore` | the atomic store the runtime promises | `RuntimeLog` |
| `RuntimeEngine` | the process that keeps it in files | `RuntimeLog`; implements `RuntimeStore` |
| `MembershipStore` | all or nothing: what a change of several files promises | - |
| `MembershipJournal` | the journal that keeps the promise, write by write | implements `MembershipStore` |
| `TeamScaling` | scale-up, scale-down, and everyone else who changes membership | `MembershipJournal` |
| `TeamDispatch` | dispatch requests: leader, hook drains, runtime commands that fail | - |
| `TeamTasksProofs`, `TeamMonitorProofs`, `TeamLockProofs`, `MembershipJournalProofs`, `TeamScalingProofs`, `TeamDispatchProofs`, `RuntimeEngineProofs` | theorems | the module they are named after |
| `TeamMembershipProofs` | theorems: members, debts, claims and panes | `TeamScaling` |
| `MC...` | symmetry sets for TLC | the module they are named after |

### TeamTasks

State: `task` (the task files; status, owner, claim, dependency list,
requires_code_change, evidence, version), `nextId`, `members`, and `op`, the
operation that holds the barrier with how far it has got. `granted`, `tokens` and
`crashes` are history and counters.

An operation with a single durable write is one step, since the barrier keeps
everybody else out. Those with several hold the barrier from step to step and
`Crash` may end them in between:

- `CreateTask` / `AdvanceCounter`: the task file first, the counter second; a
  crash in between leaves a counter that lags, which `IsNewId` makes up for by
  looking at the files (`computeNextTaskIdFromDisk`).
- `CheckTransition` / `WriteTransition` / `EndTransition`: the checks and the
  validation of evidence, then the write of the record that was read *before*
  them. `Tick` lets the lease run out in the middle.
- `AssignTask` / `RefreshAssigned` / `DispatchSucceeds` or `DispatchFails`: the
  leader's assignment with its roll-back.

`ClaimTask`, `ReleaseTaskClaim`, `ReclaimExpired`, `UpdateTask` and `ScaleDown` are
one step each. A lease is a number of ticks; a token is its number; evidence is
the claim it was made for, which is what the validation tells apart. The API
never writes the status `blocked`, so there is none.

### TeamPhase and TeamMonitor

`TeamPhase` has `TransitionPhase`, `BuildPath`, `Reconcile` and `InferTarget` as
functions over the four fields of `phase.json` that decide anything.

`TeamMonitor` adds `snapshot`, `events` (how often each event was appended, up to
two), `tail` (the end of `transitionTaskStatus`: append, read the snapshot, write
it with the mark), `phase`, `mon` (the poll's step and what it has read) and
`hook`. Its `BoardStep` is the board as others see it. A poll is

    MonStart  MonList  MonReclaim*  (MonRelist)  MonAssign*...  (MonRelist)
    MonReadPhase  MonWritePhase  MonEmit*  MonSave

in which every read and every write of a file is a step of its own; those the
code does under the barrier (list, reclaim, assign) need the barrier, those it
does outside (snapshot, phase, events) do not. `MonCrash` ends a poll anywhere.
`ShutdownTeam` is the gate and the terminal epoch; `HookRead`/`HookWrite` is
`markTeamTransportFailure`, the one other writer of `phase.json`. Which ready task
goes to which worker is the policy's choice and left open; so are the workers'
reported states, except for one bit: whether all of a prompt-mode team are dead.

### TeamLock

One lock directory and several contenders. `MakeDir`, `WriteOwner`, `WriteLease`
acquire; `FindStale` and `RemoveStale` are the two halves of
`maybeRecoverStaleLock`; `Leave`/`Release` check the owner file and then remove.
Directories are numbered, so the model can say whose directory a removal hits:
`misfired` records the first that hits one it did not mean. `Expire` is the
passing of LOCK_STALE_MS, which the heartbeat of a live holder prevents as long as the owner file
names it, whatever directory is there by then (`Refreshed`).

### RuntimeLog, RuntimeStore, RuntimeEngine

`RuntimeLog` has the commands as functions from a store to a store: the status of
each dispatch request and the level (created, notified, delivered) of each
mailbox record, which is known by its message id *and* its team, with the
fall-back of `find_mut` to the only record without a team.

`RuntimeStore` is the promise: one command at a time, applied whole at one point
between start and answer; a process that dies loses at most its own command; a
request id, once spent, stays spent. What it does *not* promise is that the state
survives every death: it may become unreadable (`Lose`).

`RuntimeEngine` is the code: `Run` loads the directory and processes the command in
memory, `Persist(f)` writes one file after another in the order of
`persist`, `Reply` ends the process, `Death` ends it anywhere and may leave the file being
written torn (the ledger is renamed into place and never torn). `Loads` are the
conditions of `load`; a directory that has files and does not load is refused.
The event log is a pair of sets: the events of different records do not depend on
one another's order, and those of one record are ordered by its states. Rejected
commands change nothing and are no steps.

The refinement: between commands, the store is what a load would make of the
directory; during one, the writing of `events.json` is the point where it takes
effect; the spent ids are those of the ledger, written one step earlier.

### MembershipStore, MembershipJournal, TeamScaling

`MembershipStore` is the promise: a call names files and contents; while it runs the
files may waver between the contents before and after; it ends with all of the
change (`Succeed`), with either (`Fail`, `Die`), never with a mixture.

`MembershipJournal` is the code. `txn` is how far the process in the barrier has got.
`Enter` reads the journal a dead process left; `Replay`/`ReplayEnd` finish it in the
direction it names before anything else happens. `BeginCall` fixes a change;
`WriteJournal`, `Apply` file by file, `MarkCommitted`, `Clear` carry it out; `Finalize`,
`Restore` and `Unlink` are the other ways it ends. The code makes changes in
four styles, told apart by the phase the journal starts in, by what the catch does,
and by whether the journal is kept: `SaveConfig` (`writeConfig`), `Prepared` (a
shutdown's change, the one whose catch restores the old bytes itself), `Forward` and
`ForwardKept` (scale-down and the roll-back of a scale-up). `WriteFails` lets any write fail
before or *after* it took effect (rename done, directory not synced); `Crash` ends the
process anywhere. The refinement reads the files through the journal (`Resolved`).

`TeamScaling` uses it as `scaling.ts` and its neighbours do. `duty` is who holds the
barrier and what for, `job` the leader's scale-down from one section to the next:
settle the debt an earlier one left (`Reconcile`, `SettleDebt`, `Consume`), remove members,
tasks and write the debt in one section (`FindTargets`, `CommitRemoval`, `KillTargets`), settle its own debt. A
scale-up keeps the barrier for all its workers: `Plan` chooses them, `CreateUpTask`, `NumberUpTask` and
`ListUpTask` make the tasks that come with them (for any owner), then `Split`, `Join` and `Joined` bring in
one worker after the other, and on failure at any of them `RollBack`, `Track`, `KillUpPanes`, `Roll` and `Rolled`
undo all that was done. A task that was written but is not on the list yet (`ListUpTask` did not happen) stays on the
board. Beside them:
`Create`/`Number` (createTask), `Claim`, `Unclaim`, `Read` and later `Save` of a stale
configuration (saveTeamConfig compares generations), `Mutate` (a shutdown's change). A pane
that ends by itself is found gone when somebody looks, so panes go in `Kill` only;
a missing manifest generation counts as zero; the names a team has used up stand for
`next_worker_index`.

### TeamDispatch

A request's status is in three places: `runtime` (the Rust store's events and the projection
it publishes), `requests` (`requests.json`) and `receipts` (the journal of outcomes the
runtime could not be told). `Shown` is what `readDispatchRequests` makes of the three. A
command of the runtime (`Executes`) takes effect and is published; or, when a `Fault` is
left, is not started (a transport error, for which a receipt is written), ends before its
event was written, or ends after that and before the projection was published. Each section
under the dispatch lock is one step:

- the leader: `Enqueue` (with the refresh of the projection and the dedupe; to
  requests.json when there is no runtime), `ReadReceipt` (what the wait ends with), `Fallback` (types into
  the pane), then `MarkNotified`, or `GiveUp` and `TransitionToFailed`;
- a drain: `Claim` replays the receipts (`Reconciled`), refreshes, takes a lease for each of
  up to `MaxPerTick` pending requests; `Inject` is outside the lock; `Finalize` reads the request
  again and, if it is still pending, writes the outcome, receipts first.

`DrainDies`, `LeaderLeaves` and `LeaseAges` (30 seconds; of a dead drain's lease at any time, of
a working drain's as a fault) are the environment. Cooldowns and the order within a drain
are an open choice of which requests a claim takes. A death in the middle of `Finalize` leaves the
files as an error there does, which the model has.

## 3. The runs that pass

| Run | Bounds | Distinct states |
|---|---|---|
| `team_tasks` | 2 workers, 2 tasks, 3 claims, update-task up to version 3, 1 crash, task 2 may depend on task 1, task 1 on itself | 1,234,792 (with symmetry) |
| `team_monitor` | 1 worker, 2 tasks, 2 claims, prompt mode, 1 fix attempt, 1 hook run | 2,513,396 |
| `team_monitor_live` | 2 workers, 1 task, 1 claim, 1 crash of an operation, 1 of the leader, interactive mode, no fix attempt | 244,638 |
| `team_lock` | 3 contenders, 2 deaths, 5 directories | 30,592 |
| `runtime_engine` | 2 requests, 1 message, 2 teams and none, 2 deaths | 415,710 (with symmetry) |
| `team_scaling` | 3 workers of which 1 at first, 1 task, 5 generations, 1 failed write, 1 death | 2,157,141 (with symmetry) |
| `team_dispatch` | 2 messages, 2 requests, 2 drains, 2 attempts, 2 faults | 568,179 |

**team_tasks** shows `TypeOK` and:
`OwnershipAgrees` (in progress exactly while claimed; record, claim and membership
name one owner); `InFlightOwnsClaim` (nobody changes the record under a transition
that validates evidence or an assignment that waits for its dispatch);
`ClaimedAfterDeps` (the dependencies a task had when it was claimed are completed,
and stay so); `EvidenceBeforeCompleted`; `TerminalIsFinal`;
`VersionCountsWrites`; `LiveClaimNotTakenOver`.

**team_monitor** shows that the monitor implements the board (`ImplementsBoard`),
that no poll ends a claim whose lease runs however old its list
(`PollSparesLiveClaims`), that `transitionPhase` is never asked for an edge it
rejects (`PollNeverThrows`) and that no fix round is forgotten: from one phase.json to
the next the count of attempts goes down only when the phase is ended, and an entry into
the fix phase raises it, though three writers overwrite one another with copies read
earlier (`FixRoundsCounted`; that the count stays within its maximum is part of the
type). What ends the count is a terminal phase, and that is what `fix_loop` is about.

**team_monitor_live** shows that a mark is there only for an announced completion
(`MarkImpliesAnnounced`), that the log announces no outcome a task does not have
(`EventsTellTheTruth`), and three things that must happen: every claim ends
(`EveryClaimEnds`), a completion whose event a crash swallowed is announced
(`LostCompletionRecovered`), a phase `complete` written over new work is undone
(`CompletePhaseReopens`).

**team_lock** shows what can break the lock and that nothing else can: until a
removal hits a directory it did not mean, the holder is alone
(`HolderAloneUnlessMisfired`), and the first such removal is the second half of a
stale-lock recovery (`OnlyRecoveryMisfires`); and that a dead holder's lock goes
away, wherever it died (`DeadLockRemoved`).

**runtime_engine** shows `ImplementsStore`, the refinement; `NeverRequeued` (an id is
accepted once, through compaction, removal and deaths); `OldAndNewFilesLoad` (any mixture
of old and new files that deaths leave behind loads, as long as none that matters is torn).

**team_scaling** shows `ImplementsStore`, the refinement, as the whole of scaling uses the
journal; and what a reader of `scaling.ts` would want of a team that grows and shrinks:
a worker that was removed and killed never comes back, whatever journal is replayed,
stale configuration saved or scale-up rolled back later (`KilledAreOut`); the debt names members
only or none (`DebtAllOrNothing`, so the inconsistency the code checks for never arises); nobody is
removed with a claim (`ClaimedByMember`); a live pane that the configuration or the debt accounts for stays
accounted for until it is gone (`NoPaneLost`).

**team_dispatch** shows that what a reader sees of a request moves forward only, though three
files are read and any of them may lag (`StatusMovesForward`, with the one exception its comment names); that
no status is shown without somebody having seen it happen (`StatusTellsTheTruth`); that a drain
claims nothing of which an outcome is on record (`ClaimsAreOpen`); that no outcome leaves the receipt journal
before the event log is as far (`ReceiptsOutliveDoubt`); that two drains hold a request only
after a lease went stale (`OneInjector`); that retries end (`AttemptsLeft`); that a leader
has one open request per message even when an answer was lost (`OneOpenRequest`); and that the
queue empties whatever the leader does (`QueueEmpties`).

### Why the bounds are enough

Two tasks allow a dependency, an id reused after a crash, and a task created
while a poll works on another; three claims allow a claim, its takeover after the lease,
and a reclaim with a third grant, so evidence of an earlier claim exists. Two
workers allow a takeover and a scale-down that leaves one. One tick of lease is
enough for every order of expiry and step, since a tick may come anywhere. One
crash per run is what makes the second operation meet the debris of the first;
the lock's run has two because a recovery may itself die. In the monitor's run one
worker is enough: the interplay is between the poll and whoever moves a task, and
`ImplementsBoard` makes the board's own run count for it. Three contenders are
a dead holder and two waiters; the proof covers any number. Two requests allow removal
of one, and of both at once, while the other has events; one message id with two
teams and none has every case of `find_mut`; two deaths allow the second process to die
over the debris of the first. In the scaling run one worker stays while two join, so that a
scale-up of two fails at its second, after the first has become a member, and a scale-down leaves with a debt. A save,
and each worker that joins, needs three generations (`RoomForOneMore`: its own and the two of a
roll-back); five let a scale-up follow a removal and be rolled back, a stale configuration be saved over
a removal, and a scale-up of two be rolled back from its second; one failed write and one
death meet in every order, a failure in a recovery included. In the dispatch run two
requests may be for one message or for two, two drains may hold both; the limit is 2 attempts where the
code has 3, enough for a retry and a last one; two faults are a lost outcome and the death of whoever
would repair it. Ids that nobody has used and idle drains are alike, so the first is taken (`OneOf`).

Deadlock is checked for the two monitor runs, where the leader can always poll. The
others say `CHECK_DEADLOCK FALSE`: a board whose claims are used up, a lock whose
directories are used up or contenders dead, a runtime directory that is refused, and a
dispatch queue whose requests are used up really stop. It is also checked for `team_scaling`.

## 4. Fairness, and why the code justifies it

`FairSpec` of `TeamMonitor`: an operation under the barrier goes on unless it
crashes (`WF OpGoesOn`: it is a sequence of awaits in one process); time passes
(`WF TimePasses`); the leader keeps polling and finishes its polls
(`WF OutsideBarrier`). Polls need the barrier, which is a lock that is retried at
intervals and not queued for, so weak fairness would not do when others keep taking it:
`SF UnderBarrier` says that a poll that finds the barrier free again and again gets it.
Nothing is assumed of workers, of new tasks, of the policy, of shutdown or of the hook. A
process that dies under the barrier blocks the others until its lock is stale;
`DeadLockRemoved` of `TeamLock` is what ends that wait.

`FairSpec` of `TeamLock`: time passes, and each live process goes on and tries again.

`Fairness` of `TeamDispatch`: claimed requests are injected and finalized (a loop in one process);
hooks and the watcher keep draining, and a drain that finds pending requests whose cooldown is over
claims some; a dead drain's lease ages. Nothing is asked of the leader: its fallback is no part of why
the queue empties. Faults are finite in number, as the bound says.

`RuntimeEngine` has no liveness: nothing of it happens by itself. `TeamScaling` has none either: a journal
or a debt that is left waits for the next process that enters the barrier.

## 5. What the code does not uphold

Each is a run that expects a violation, and a finding in `PROJECT.json` with the
line it quotes.

- `duplicate_announcement`: a poll that began before a worker finished saves the
  marks as they were at its start; the next poll announces the completion again.
- `shutdown_epoch`: a poll that read the phase before shutdown stamped its epoch
  writes the phase back without; new tasks are accepted after a gate that let the
  team go because there were none left.
- `fix_loop`: a team that failed because its fix attempts were used up is
  reopened by the next poll, over the same failed tasks, with a fresh count.
- `lock_exclusion`: of two waiters that found a dead holder's lock stale, the
  slower removes the lock the faster has meanwhile taken; two operations run
  under the barrier.
- `runtime_replay`: a process killed while it overwrites `events.json`,
  `mailbox.json` or `dispatch.json` in place leaves a file that does not parse, and
  every later command is refused, although for the latter two the events to
  rebuild them are there. A first command killed between `snapshot.json` and
  `events.json` has the same effect on an empty store (`Usable` is false), which is why
  `RuntimeStore` has to allow `Lose`.

## 6. What is proved

For every value of the constants; the runs above check the same definitions on
small instances.

`TeamTasksProofs` proves `TypeOK` and the seven properties of `team_tasks`. None of
the invariants is inductive alone. The inductive one is

    IInv == TypeOK /\ TaskInv /\ InFlightOwnsClaim /\ OpInFlight

where `TaskInv` is `OwnershipAgrees`, `ClaimedAfterDeps` and
`EvidenceBeforeCompleted` with two facts about files: an id without a file has
left nothing behind (`AbsentIsEmpty`, else a new task could inherit a grant), and
the claim in a record is the last one granted (`ClaimIsGranted`, else evidence
could belong to an older one). `OpInFlight` says what an operation knows of its
task: it exists, a transition's copy is in progress with its evidence checked, an
assignment's task is claimed. `ClaimedAfterDeps` is kept because what a claim rests on
is terminal, hence final. The action properties follow from what a step may do to
one task (`StepOK`), shown action by action.

`TeamMonitorProofs` proves `MonitorSpec => ImplementsBoard`, step by step, so every
theorem about the board holds of the composed system; and every safety property of `team_monitor` and
`team_monitor_live`, from

    IInv /\ MonitorTypeOK /\ LogInv

with `IInv` the board's invariant. The types carry the phase: a `phase.json` in which the attempts
are within bounds, in the file and in every stale copy of it, is what `Reconcile` makes of such a file
(`ReconcileKeepsFile`), so they stay within bounds whoever writes it back; and every path that `BuildPath` makes
from one phase to another has only edges of `TransitionPhase` (`PathsAreLegal`), hence `PollsNeverThrow`.
`FixRoundsAreCounted` rests on one more invariant, `CopiesFollow`: the phase a poll is about to write back agrees with
the file in phase and attempts unless the file has become terminal since, and the hook writes back only what it
made failed. So a stale copy takes no round away from a team that still works, and along a legal path no leg
lowers the count except into a terminal phase (`LegGoesOnward`, `ReconcileGoesOnward`).
`LogInv` is `MarkImpliesAnnounced` and `EventsTellTheTruth` with what makes them inductive: the marks are
borne out in every copy, the poll's and the tail's, since any of them may be written back
(`MarksAnnounced`); a tail that has appended is that of the transition that wrote the completion
(`TailAnnounced`); an outcome that is written and not announced has no event of its own yet
(`WrittenOutcome`); and what a poll has listed as completed is so, and stays so (`ViewIsPast`).
`PollsSpareLiveClaims` needs the types of the board only.

`TeamLockProofs` proves that the lock keeps its types, `HolderAloneUnlessMisfired` and
`OnlyRecoveryMisfires`, from

    IInv == TypeOK /\ MadeOnce /\ (~misfired => CountsRightly /\ JudgedIsStale /\ NoneFailed)

`MadeOnce`: a directory is made by one process, so two that count on the one there are
one. `CountsRightly`: who counts on its directory is right, and it is not stale.
`JudgedIsStale`: a directory once found stale and still there is stale; with the
former, a recovery that hits what it meant hits nobody's. `NoneFailed`: a clean-up
presupposes a removal that went astray.

`MembershipJournalProofs` proves `JournalTypeCorrect` and `JournalImplementsStore`, the refinement,
for any workers, tasks, files of a change, failures and deaths, under one assumption, `ClearIsLast`:
the removal of the journal by a shutdown's change does not fail after it took effect. The
inductive invariant `JInv` says, for each step of a process, how files, journal and call agree: every file
that is still to be written has its old or its new contents and every other one has what the journal's
direction asks for. With that, every write of a file under a journal is a stutter of the store, and the one
step that turns the direction, or removes the journal, is where the change takes effect.

`TeamScalingProofs` proves that every step of `TeamScaling` is a step of `JournalSpec` or leaves the
journal alone (`ScalingIsJournalled`), hence `ScalingImplementsStore`: what a team that grows and shrinks does
to config, manifest and tasks is all-or-nothing. The invariant `SInv` adds to `JInv` the types and `Fit`:
on both sides of a change config and manifest are memberships and leave room, below the bound, for the
generations the operation under way still needs. `TeamMembershipProofs` proves all four properties of
`team_scaling` for any team, under `ClearIsLast` and `ScalingAssumption` (a task is not called config or
manifest). Two inductive invariants:

    MInv == SInv /\ AllRight /\ DownInOrder
    PInv == MInv /\ CallSafe /\ UndoSafe /\ DebtInOrder /\ PaneOfUp

`AllRight` says the same of the files as the next to enter will find them and of both sides of a change
under way, so a death or a replay cannot reach anything else: config and manifest agree, who read this
generation read these members, nobody killed is a member and his name is used up, a debt names members only
or none, a claim is a member's, and a team that grows has no more than the members it had and those of its new
workers that have a pane, none of whom is killed or in a debt. `DownInOrder`: the debt is written
before the removal, the removal before the kill. From `MInv` follow `KilledStayOut`, `DebtIsWhole` and
`ClaimsStayWithMembers`. `NoPaneIsLost` is about a step: `CallSafe` says a change drops no live pane that
the debt does not name, `UndoSafe` that only a change which keeps the members is ever written back,
`DebtInOrder` that a debt is consumed when its panes are gone and none is left when a removal starts, and
`PaneOfUp` that a roll-back drops only those of its workers that have no live pane left.

`TeamDispatchProofs` proves every property of `team_dispatch` but `QueueEmpties`, for any number of
requests, messages, drains and faults, any limits and a journal of any length. `OneInjectorPerRequest` is from
`LeaseInv`: what a drain holds it has the lease of, unless the lease went stale under it, and a stale
lease is a dead drain's or recorded as gone stale. The other seven are from

    FullInv == DispatchInv /\ LeaseInv
    DispatchInv == DispatchTypeOK /\ (\A r \in Request : SaneAt(r)) /\ OneOpen /\ LeaderBusy

`SaneAt` says what the three files may disagree about in one request. It is a formula (`Sane`) over six
values: the status in the log and in the projection, status and attempts in `requests.json`, what the request is
for, and the set of outcomes its receipts bear out. The projection is behind the log and never
aside of it; `requests.json` says nothing of a request whose creation was not published; a receipt is for a
request the log has; a delivery is on record with its notification; a failure is the last word of
`requests.json` until the projection has one; and what is shown pending has attempts left. `OneOpen` says it of two
requests: no two for one message are open in the eyes of the log and the journal.

The argument goes in three layers. Lemmas over the six values (`Rewritten`, `Created`, `Handled`, `TriedAgain`,
`ReplayedAll`, `ReplayedInPart`) say that each kind of change keeps `Sane` and moves the shown status only as
`Onward`, `Witnessed` and `StaysClosed` allow. Lemmas about a section (`ExecFacts`, `ReachedNext`,
`Confirmed`, `ReplayEnds`) say which kinds of change its commands can come to. Lemmas for each action
put the two together for the request it is about, and for all others that are left alone or written back.
The replay of the journal is a recursive function over it. The library's induction rules speak of operators, so
the induction is had from the well-foundedness of proper inclusion (`FirstOf`, `UpTo`) and stated over
a family of sets (`ReplayKeeps`): after the first k receipts the log is as far as each of them
(`Midway`, `Past`). That is why a drain that gets through the journal claims nothing that has an outcome
(`OnlyOpenIsClaimed`), one that does not leaves files that the next can start over from, and neither
takes a receipt from the journal that the log does not bear out (`KeptAt`, for `ReceiptsOutlive`).

`RuntimeEngineProofs` proves all four properties of `runtime_engine` for any requests, messages, teams and
deaths: the types, `OldAndNewFilesLoad`, `NeverRequeued` and the refinement to `RuntimeStore`. The inductive
invariant is

    IInv == EngineTypeOK /\ DiskInv /\ ExecInv

`DiskInv` holds of the files whoever died over them: the event log is in order (no gaps), the ledger
covers its ids, those of `dispatch.json` and every id ever queued, no record of `mailbox.json` is ahead of
its events, and a directory that counts as never written is empty. Without the third, the merge of
`mailbox.json` with the events could invent an acknowledgement; with it the merge is the replay of the events.
`ExecInv` says for each step of `persist` which files are already those of the engine after the command.
The lemmas on the log show that every command keeps an engine equal to the replay of its log
(`ProcessedSound`, `CompactedSound`), so that at each step the abstract store is the replay of the
`events.json` on disk (`StoreOfDisk`), and only writing that file changes it.

The assumptions are those named in the modules: the constants' sorts, leases of at
least one tick, bounds that are numbers.

Only model-checked: the liveness properties (`EveryClaimEnds`, `LostCompletionRecovered`, `CompletePhaseReopens`,
`DeadLockRemoved`, `QueueEmpties`), since liveness under fairness is beyond the provers, and the
properties that the code does not uphold. Every safety property of every passing run is a theorem.

## 7. Plan

Order, with the behaviour that matters most first. Done: `TeamTasks`,
`TeamPhase`, `TeamMonitor`, `TeamLock` with their proofs; `RuntimeLog`,
`RuntimeStore`, `RuntimeEngine` with their proof; `MembershipStore`, `MembershipJournal` with its proof,
`TeamScaling` with the proofs of all it promises; `TeamDispatch` with the proofs of all its safety.

1. Mailbox requests in `TeamDispatch`, with their own dedupe, the mark in the mailbox and the removal of
   old records, over `RuntimeStore` as the store behind it.
2. Workflow modules: mode transitions and binding leases; the advisory recovery
   journal; questions; the subagent tracker.

## 8. What is not modelled, and the assumptions this makes

- `TeamTasks` takes the barrier to exclude. `TeamLock` says what that is worth: it
  holds until a process dies under the lock and two waiters recover it at once.
- `TeamLock` takes a live process to need less than five minutes from mkdir to
  its first heartbeat, between beats, and from its last beat to its rm: a suspended
  process, or an event loop blocked so long, would break that. `rm -r` is one step.
- The claim lock, the mailbox lock and the dispatch lock have no lease; they are a
  hazard with a note. `TeamDispatch` takes the dispatch lock to exclude.
- Of `MembershipJournal`: a shutdown's removal of its committed journal that fails after it took effect
  makes the catch write the old bytes with no journal on disk; a death among these writes leaves config
  and manifest of different generations. The run and the theorem exclude this one failure
  (`AllButTheLast`, `ClearIsLast`).
- Of `TeamPhase`: nothing writes the phase `cancelled` to `phase.json` (shutdown writes it to the mode's state
  file), so no run reaches it; the functions and the lemmas about them know it.
- Of `TeamScaling`: the validation of paths, worktrees and other resources of a worker, the
  limit of workers, and a pane whose scale-up dies between the split and its record,
  which no file ever names.
- Of `TeamDispatch`: the lanes that mark at once (direct transport and prompt mode), mailbox requests
  (`markMessageNotified`, their dedupe), `markDispatchRequestDelivered` outside the drain, the deferral
  when the leader's pane is missing, the removal and pruning of records, damaged projections,
  `OMX_RUNTIME_BRIDGE=0` and the wait for startup evidence. A crash between injection
  and `Finalize` forgets an attempt and lets the prompt be typed again: the code promises at
  least once there. After a receipt whose request nobody marked in requests.json, a leader still sees
  it pending and may type the prompt itself; what is promised, and checked, is that no *drain* does.
- Task files are read and written whole (`writeAtomic` renames).
- Files are not lost: no power failure, only the death of processes.
- Of `RuntimeEngine`: the mutation lock is the kernel's and excludes. Readers that
  do not take it (the TypeScript side) see only the two projections; `TeamDispatch` has them lag
  but not torn. Authority leases and the replay cursor are left out, since nothing in
  `src/` sends their commands; so are the hook's attempt counts, which `load`
  recovers from `dispatch.json`, and message bodies.
- Of the monitor: worker states, pane activity, nudges, recommendations, and the
  policy's choice. Of shutdown: everything after the epoch.
- The text of task results, plans, evidence and messages.
