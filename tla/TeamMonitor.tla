---------------------------- MODULE TeamMonitor ----------------------------
(* The leader's monitor over the task board: what transitionTaskStatus and     *)
(* monitorTeam exchange through the event log and monitor-snapshot.json, and   *)
(* what the monitor, shutdownTeam and the transport-failure hook do to         *)
(* phase.json. A poll reads a file in one step and writes it in a later one,   *)
(* mostly outside the barrier, so everything else may happen in between.       *)
EXTENDS TeamTasks, TeamPhase

CONSTANTS
  LaunchMode,    \* worker_launch_mode: "prompt" or "interactive"
  MaxFix,        \* max_fix_attempts
  MaxRestart,    \* bound: polls cut short by a crash of the leader
  MaxHook        \* bound: transport failures reported by the hook

ASSUME ModeAssumption == LaunchMode \in {"prompt", "interactive"}
ASSUME MonitorBoundAssumption == MaxFix \in Nat /\ MaxRestart \in Nat /\ MaxHook \in Nat

VARIABLES
  snapshot,   \* monitor-snapshot.json: the statuses last seen, the marks
  events,     \* the task_completed and task_failed events in the log
  tail,       \* how far the transition that wrote its task has got
  phase,      \* phase.json
  mon,        \* the poll: its step and what it has read so far
  hook,       \* what the transport-failure hook is about to write
  gated,      \* history: a shutdown has passed the gate
  restarts, failures   \* polls cut short and hook runs so far

logVars == <<snapshot, events, tail>>
pollVars == <<mon, restarts>>
phaseVars == <<phase, hook, gated, failures>>
vars == <<boardVars, logVars, pollVars, phaseVars>>

SnapshotFile == [status : [TaskId -> TaskStatus], marked : SUBSET TaskId]
(* A missing snapshot file reads like one that has seen no task.             *)
NoSnapshot == [status |-> [t \in TaskId |-> "absent"], marked |-> {}]

(* How often each event was appended; two stands for two or more.            *)
EventLog == [direct : [TaskId -> 0..2], derived : [TaskId -> 0..2], failed : [TaskId -> 0..2]]
Appended(log, t) == [log EXCEPT ![t] = IF @ < 2 THEN @ + 1 ELSE 2]

NoTail == [step |-> "none", seen |-> NoSnapshot]

MonStep == {"idle", "list", "reclaim", "balance", "assigning", "phase", "reconcile", "emit"}
Mon == [step : MonStep, prev : SnapshotFile, view : [TaskId -> TaskStatus],
        unverified : BOOLEAN, todo : SUBSET TaskId, ready : SUBSET TaskId,
        dirty : BOOLEAN, phase : PhaseFile(MaxFix)]
IdleMon == [step |-> "idle", prev |-> NoSnapshot, view |-> NoSnapshot.status,
            unverified |-> FALSE, todo |-> {}, ready |-> {}, dirty |-> FALSE,
            phase |-> InitialPhase(MaxFix)]
NoHook == [read |-> FALSE, phase |-> InitialPhase(MaxFix)]

MonitorTypeOK ==
  /\ TypeOK
  /\ snapshot \in SnapshotFile
  /\ events \in EventLog
  /\ tail \in [step : {"none", "appended", "marking"}, seen : SnapshotFile]
  /\ phase \in PhaseFile(MaxFix)
  /\ mon \in Mon
  /\ hook \in [read : BOOLEAN, phase : PhaseFile(MaxFix)]
  /\ gated \in BOOLEAN
  /\ restarts \in 0..MaxRestart
  /\ failures \in 0..MaxHook

MonitorInit ==
  /\ Init
  /\ snapshot = NoSnapshot
  /\ events = [kind \in {"direct", "derived", "failed"} |-> [t \in TaskId |-> 0]]
  /\ tail = NoTail
  /\ phase = InitialPhase(MaxFix)
  /\ mon = IdleMon
  /\ hook = NoHook
  /\ gated = FALSE
  /\ restarts = 0
  /\ failures = 0

-----------------------------------------------------------------------------
(* The board's operations, as the rest of the team sees them.                 *)

(* createTask and assignTask are refused once the phase is terminal or has an  *)
(* epoch; claims are not.                                                     *)
Closed(p) == p.epoch \/ p.current \in TerminalPhases

BoardStep ==
  /\ \/ /\ ~Closed(phase)
        /\ \E owner \in Worker \cup {NoWorker}, deps \in DepChoice, code \in CodeChoice :
             CreateTask(owner, deps, code)
     \/ AdvanceCounter
     \/ \E t \in TaskId, deps \in DepChoice, code \in CodeChoice : UpdateTask(t, deps, code)
     \/ \E t \in TaskId, w \in Worker : ClaimTask(t, w)
     \/ \E t \in TaskId, token \in Token : ReleaseTaskClaim(t, token)
     \/ \E t \in TaskId, to \in TerminalStatus, token \in Token,
           evidence \in Token \cup {NoToken} : CheckTransition(t, to, token, evidence)
     \/ WriteTransition
     \/ RefreshAssigned
     \/ \E w \in Worker : ScaleDown(w)
     \/ Tick
  /\ UNCHANGED <<logVars, pollVars, phaseVars>>

(* The end of transitionTaskStatus, still under the barrier: the event is       *)
(* appended, and for a completion the snapshot is read, and written back with   *)
(* the task marked in completedEventTaskIds.                                  *)
AppendCompleted ==
  /\ op.step = "written" /\ op.to = "completed" /\ tail.step = "none"
  /\ events' = [events EXCEPT !.direct = Appended(@, op.task)]
  /\ tail' = [tail EXCEPT !.step = "appended"]
  /\ UNCHANGED <<boardVars, snapshot, pollVars, phaseVars>>

AppendFailed ==
  /\ op.to = "failed"
  /\ EndTransition
  /\ events' = [events EXCEPT !.failed = Appended(@, op.task)]
  /\ UNCHANGED <<snapshot, tail, pollVars, phaseVars>>

MarkableUnannounced == {"none", "appended"}
Markable == {"appended"}
ReadSnapshotForMark ==
  /\ op.step = "written" /\ op.to = "completed" /\ tail.step \in Markable
  /\ tail' = [step |-> "marking", seen |-> snapshot]
  /\ UNCHANGED <<boardVars, snapshot, events, pollVars, phaseVars>>

MarkCompletion ==
  /\ tail.step = "marking"
  /\ EndTransition
  /\ snapshot' = [tail.seen EXCEPT !.marked = @ \cup {op.task}]
  /\ tail' = NoTail
  /\ UNCHANGED <<events, pollVars, phaseVars>>

(* The operation under the barrier dies; an assignment is the monitor's own     *)
(* and takes the poll with it.                                                *)
CrashOperation ==
  /\ Crash
  /\ tail' = NoTail
  /\ mon' = IF mon.step = "assigning" THEN IdleMon ELSE mon
  /\ UNCHANGED <<snapshot, events, phaseVars, restarts>>

-----------------------------------------------------------------------------
(* monitorTeam, one poll. Every call that takes the barrier waits for it.      *)

MonStart ==
  /\ mon.step = "idle"
  /\ mon' = [mon EXCEPT !.step = "list", !.prev = snapshot]
  /\ UNCHANGED <<boardVars, logVars, phaseVars, restarts>>

(* listTasks, and what a poll keeps of the list: the statuses, and the tasks    *)
(* the rebalance policy may hand out.                                         *)
View(m, step) ==
  [m EXCEPT !.step = step, !.dirty = FALSE,
            !.view = [t \in TaskId |-> task[t].status],
            !.unverified = \E t \in TaskId : /\ task[t].status = "completed"
                                             /\ task[t].code /\ task[t].evidence = NoToken,
            !.ready = IF step = "phase" THEN {}
                      ELSE {t \in TaskId : /\ task[t].status = "pending" /\ Ready(t)
                                           /\ task[t].owner = NoWorker}]

MonList ==
  /\ mon.step = "list" /\ BarrierFree
  /\ mon' = [View(mon, "reclaim") EXCEPT !.todo = {t \in TaskId : task[t].status = "in_progress"}]
  /\ UNCHANGED <<boardVars, logVars, phaseVars, restarts>>

MonReclaimAsListed(t) ==
  /\ mon.step = "reclaim" /\ t \in mon.todo /\ BarrierFree
  /\ task' = [task EXCEPT ![t] = Requeued(task[t])]
  /\ mon' = [mon EXCEPT !.todo = @ \ {t}, !.dirty = TRUE]
  /\ UNCHANGED <<nextId, members, op, granted, tokens, crashes, logVars, phaseVars, restarts>>

(* A claim that was running when it was listed is tried all the same:          *)
(* reclaimExpiredTaskClaim looks at the record again.                         *)
MonReclaim(t) ==
  /\ mon.step = "reclaim" /\ t \in mon.todo
  /\ \/ ReclaimExpired(t)
     \/ BarrierFree /\ ~Reclaimable(task[t]) /\ UNCHANGED boardVars
  /\ mon' = [mon EXCEPT !.todo = @ \ {t}, !.dirty = @ \/ Reclaimable(task[t])]
  /\ UNCHANGED <<logVars, phaseVars, restarts>>

(* A poll lists again before it assigns if it reclaimed, and before it counts   *)
(* if it assigned.                                                            *)
MonRelist ==
  /\ mon.step \in {"reclaim", "balance"} /\ mon.todo = {} /\ mon.dirty /\ BarrierFree
  /\ mon' = View(mon, IF mon.step = "reclaim" THEN "balance" ELSE "phase")
  /\ UNCHANGED <<boardVars, logVars, phaseVars, restarts>>

(* Which of the ready tasks go to which available worker is the policy's        *)
(* choice, left open; an assignment the checks refuse changes nothing.         *)
MonAssign(t, w) ==
  /\ \/ mon.step = "balance"
     \/ mon.step = "reclaim" /\ mon.todo = {} /\ ~mon.dirty
  /\ t \in mon.ready /\ ~Closed(phase)
  /\ AssignTask(t, w)
  /\ mon' = [mon EXCEPT !.step = "assigning", !.ready = @ \ {t}]
  /\ UNCHANGED <<logVars, phaseVars, restarts>>

MonAssigned ==
  /\ DispatchSucceeds
  /\ mon' = [mon EXCEPT !.step = "balance", !.dirty = TRUE]
  /\ UNCHANGED <<logVars, phaseVars, restarts>>

MonAssignFailed ==
  /\ DispatchFails
  /\ mon' = [mon EXCEPT !.step = "balance"]
  /\ UNCHANGED <<logVars, phaseVars, restarts>>

(* phase.json is read, and written later, without the barrier.                *)
MonReadPhase ==
  /\ mon.step \in {"reclaim", "balance", "phase"} /\ mon.todo = {} /\ ~mon.dirty
  /\ mon' = [mon EXCEPT !.step = "reconcile", !.phase = phase, !.ready = {}]
  /\ UNCHANGED <<boardVars, logVars, phaseVars, restarts>>

Viewed(statuses) == \E t \in TaskId : mon.view[t] \in statuses

(* emitMonitorDerivedEvents: the completions of the view that the snapshot saw  *)
(* unfinished and transitionTaskStatus had not marked when the poll began.     *)
FinishedSinceSnapshot ==
  {t \in TaskId : /\ mon.view[t] \in TerminalStatus
                  /\ mon.prev.status[t] \notin {"absent"} \cup TerminalStatus
                  /\ t \notin mon.prev.marked}
FirstSeenCompleted ==
  {t \in TaskId : mon.view[t] = "completed" /\ mon.prev.status[t] = "absent"
                  /\ t \notin mon.prev.marked}
CompletedSinceSnapshot ==
  {t \in TaskId : /\ mon.view[t] = "completed"
                  /\ mon.prev.status[t] \notin {"absent", "completed"}
                  /\ t \notin mon.prev.marked}

(* All workers of a prompt-mode team may be dead while work remains.           *)
MonWritePhase(stall) ==
  /\ mon.step = "reconcile"
  /\ stall => LaunchMode = "prompt" /\ Viewed({"pending", "in_progress"})
  /\ phase' = Reconcile(mon.phase,
                IF stall THEN "failed"
                ELSE InferTarget(Viewed({"pending", "in_progress"}), Viewed({"failed"}),
                                 mon.unverified))
  /\ mon' = [mon EXCEPT !.step = "emit", !.todo = CompletedSinceSnapshot,
                        !.phase = InitialPhase(MaxFix), !.unverified = FALSE]
  /\ UNCHANGED <<boardVars, logVars, hook, gated, failures, restarts>>

MonEmit(t) ==
  /\ mon.step = "emit" /\ t \in mon.todo
  /\ events' = [events EXCEPT !.derived = Appended(@, t)]
  /\ mon' = [mon EXCEPT !.todo = @ \ {t}]
  /\ UNCHANGED <<boardVars, snapshot, tail, phaseVars, restarts>>

(* The view, with the marks as they were when the poll began.                  *)
MonSave ==
  /\ mon.step = "emit" /\ mon.todo = {}
  /\ snapshot' = [status |-> mon.view, marked |-> mon.prev.marked]
  /\ mon' = IdleMon
  /\ UNCHANGED <<boardVars, events, tail, phaseVars, restarts>>

(* The leader's process dies outside the barrier, or the poll throws because    *)
(* it cannot take the barrier in time.                                        *)
MonCrash ==
  /\ mon.step \notin {"idle", "assigning"} /\ restarts < MaxRestart
  /\ mon' = IdleMon
  /\ restarts' = restarts + 1
  /\ UNCHANGED <<boardVars, logVars, phaseVars>>

-----------------------------------------------------------------------------
(* shutdownTeam up to the terminal epoch, under the barrier: past the gate with *)
(* no unfinished task, or without it (--force, or a governance without gate).   *)
ShutdownTeam(how) ==
  /\ BarrierFree
  /\ how = "gated" => \A t \in TaskId : ~Unfinished(t)
  /\ phase' = [phase EXCEPT !.epoch = TRUE]
  /\ gated' = (gated \/ how = "gated")
  /\ UNCHANGED <<boardVars, logVars, pollVars, hook, failures>>

(* markTeamTransportFailure of the Codex hook, outside the barrier: reads the   *)
(* phase and, unless it is terminal, makes a failed one of it, with no epoch,   *)
(* and writes that.                                                           *)
HookRead ==
  /\ failures < MaxHook /\ ~hook.read
  /\ phase.current \notin TerminalPhases
  /\ hook' = [read |-> TRUE, phase |-> [phase EXCEPT !.current = "failed", !.epoch = FALSE]]
  /\ failures' = failures + 1
  /\ UNCHANGED <<boardVars, logVars, pollVars, phase, gated>>

HookWrite ==
  /\ hook.read
  /\ phase' = hook.phase
  /\ hook' = NoHook
  /\ UNCHANGED <<boardVars, logVars, pollVars, gated, failures>>

-----------------------------------------------------------------------------
TransitionTail == AppendCompleted \/ AppendFailed \/ ReadSnapshotForMark \/ MarkCompletion
OutsideBarrier == \/ MonStart \/ MonReadPhase \/ MonSave
                  \/ \E stall \in BOOLEAN : MonWritePhase(stall)
                  \/ \E t \in TaskId : MonEmit(t)
UnderBarrier == MonList \/ MonRelist \/ \E t \in TaskId : MonReclaim(t)

MonitorNext ==
  \/ BoardStep \/ TransitionTail \/ CrashOperation
  \/ OutsideBarrier \/ UnderBarrier
  \/ \E t \in TaskId, w \in Worker : MonAssign(t, w)
  \/ MonAssigned \/ MonAssignFailed \/ MonCrash
  \/ \E how \in {"gated", "forced"} : ShutdownTeam(how)
  \/ HookRead \/ HookWrite

MonitorSpec == MonitorInit /\ [][MonitorNext]_vars

-----------------------------------------------------------------------------
(* Properties.                                                               *)

(* Every step of the composed system is a step of the board, or leaves it       *)
(* alone: the poll, the hook and shutdown do to task files only what the        *)
(* board's operations do.                                                     *)
ImplementsBoard == Spec

(* A completedEventTaskIds mark, which silences the monitor, is there only for  *)
(* a completion whose event is in the log, whatever crash or stale snapshot     *)
(* came between.                                                              *)
MarkImpliesAnnounced ==
  \A t \in snapshot.marked : events.direct[t] > 0

(* The log never announces an outcome a task does not have, and the worker's    *)
(* own transition announces one outcome once.                                  *)
EventsTellTheTruth ==
  \A t \in TaskId :
    /\ events.direct[t] + events.failed[t] <= 1
    /\ events.direct[t] + events.derived[t] > 0 => task[t].status = "completed"
    /\ events.failed[t] > 0 => task[t].status = "failed"

(* transitionPhase is never asked for an edge it rejects: its exception would   *)
(* end the poll before its events and its snapshot.                           *)
PollNeverThrows == \A target \in Phases : PathIsLegal(phase.current, target)

(* Until the team has completed or failed, or is made to fail, no round of fixing  *)
(* is forgotten and each new one is counted, though polls and the hook write back   *)
(* what they read earlier. With the bound on the count, which MonitorTypeOK holds,   *)
(* work that fails, is added and fails again is tried max_fix_attempts times before  *)
(* that (transitionPhase's loop limit).                                           *)
FixRoundsCounted ==
  [][phase.current \notin TerminalPhases /\ phase'.current # "failed" =>
       /\ phase'.attempt >= phase.attempt
       /\ phase'.current = "team-fix" /\ phase.current # "team-fix"
            => phase'.attempt > phase.attempt]_vars

(* No poll, however old its list, ends a claim whose lease still runs, except    *)
(* one it has itself granted and could not dispatch.                          *)
PollSparesLiveClaims ==
  [][\A t \in TaskId :
       mon' # mon /\ op' = op /\ Live(task[t].claim) => task'[t] = task[t]]_vars

(* Stated by the source and not upheld by it.                                *)

(* "monitorTeam does not emit duplicate task_completed when                   *)
(* transitionTaskStatus completed the task first (issue #161)"                *)
NoDuplicateAnnouncement ==
  \A t \in TaskId : events.direct[t] + events.derived[t] <= 1

(* "terminal epoch rejects duplicate late assignment and task creation": the    *)
(* shutdown gate let the team go with no unfinished task, so none appears.      *)
GatedShutdownIsFinal ==
  gated => \A t \in TaskId : ~Unfinished(t)

(* "enforces bounded team-fix loop and transitions to failed": a team that has  *)
(* failed and has no unfinished task does not start fixing again.              *)
FixLoopEnds ==
  [][phase.current = "failed" /\ (\A t \in TaskId : ~Unfinished(t))
       => phase'.current # "team-fix"]_vars

-----------------------------------------------------------------------------
(* Liveness. An operation that holds the barrier goes on unless it crashes; the  *)
(* leader keeps polling; time passes. The lock is retried, not queued for, so a  *)
(* poll gets the barrier only if it is free again and again: strong fairness.    *)
OpGoesOn == \/ (AdvanceCounter \/ WriteTransition) /\ UNCHANGED <<logVars, pollVars, phaseVars>>
            \/ TransitionTail \/ MonAssigned \/ MonAssignFailed
TimePasses == Tick /\ UNCHANGED <<logVars, pollVars, phaseVars>>

FairSpec ==
  /\ MonitorSpec
  /\ WF_vars(OpGoesOn) /\ WF_vars(TimePasses)
  /\ WF_vars(OutsideBarrier) /\ SF_vars(UnderBarrier)

(* The claim of a worker that died or went silent is not kept for ever: it runs  *)
(* out and some poll, or the next claimant, ends it.                           *)
EveryClaimEnds ==
  \A t \in TaskId, k \in Token : (task[t].claim.token = k) ~> (task[t].claim.token # k)

(* A completion whose event a crash swallowed is announced by the monitor, given *)
(* that the snapshot has seen the task unfinished and no transition is about to  *)
(* write an older snapshot back over it.                                      *)
LostCompletionRecovered ==
  \A t \in TaskId :
    (/\ task[t].status = "completed" /\ tail.step # "marking"
     /\ snapshot.status[t] \in {"pending", "in_progress"})
      ~> (events.direct[t] + events.derived[t] > 0)

(* A phase "complete" written by a poll over work created meanwhile is undone by  *)
(* a later poll, unless shutdown froze it or the work got done.                 *)
CompletePhaseReopens ==
  \A t \in TaskId :
    (phase.current = "complete" /\ Unfinished(t))
      ~> (phase.current # "complete" \/ phase.epoch \/ ~Unfinished(t))
=============================================================================
