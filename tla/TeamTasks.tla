----------------------------- MODULE TeamTasks -----------------------------
(* The task board of a team: the task files and the operations that write     *)
(* them, serialised by the membership barrier (withTeamTaskBarrier). An        *)
(* operation with a single durable write is one step; one with several holds   *)
(* the barrier (`op`) from its first step to its last and may crash between.   *)
(* Events, snapshot, phase and the monitor's poll are in TeamMonitor, which    *)
(* composes with this module and implements it.                               *)
EXTENDS Naturals, FiniteSets

CONSTANTS
  Worker,        \* the workers of the team's initial config
  NoWorker,      \* an owner field that is undefined
  LeaseTicks,    \* ticks a claim's lease lasts (15 minutes in the code)
  DepChoice,     \* the dependency lists callers write
  CodeChoice,    \* what callers say of requires_code_change
  MaxTask,       \* bound: task ids
  MaxClaim,      \* bound: claims granted
  MaxVersion,    \* bound: version up to which update-task is called
  MaxCrash       \* bound: crashes of an operation under the barrier

ASSUME WorkerAssumption == NoWorker \notin Worker
ASSUME LeaseAssumption == LeaseTicks \in Nat \ {0}
ASSUME ChoiceAssumption ==
  DepChoice \subseteq SUBSET (1..MaxTask) /\ CodeChoice \subseteq BOOLEAN
ASSUME BoundAssumption ==
  MaxTask \in Nat /\ MaxClaim \in Nat /\ MaxVersion \in Nat /\ MaxCrash \in Nat

VARIABLES
  task,       \* tasks/task-<id>.json, "absent" where there is no file
  nextId,     \* config.next_task_id
  members,    \* config.workers
  op,         \* the operation that holds the barrier and how far it got
  granted,    \* history: the last claim granted on each task
  tokens,     \* claims granted so far; a token is its number
  crashes     \* crashes so far

boardVars == <<task, nextId, members, op, granted, tokens, crashes>>

TaskId == 1..MaxTask
Token == 1..MaxClaim
NoToken == 0
TerminalStatus == {"completed", "failed"}
TaskStatus == {"absent", "pending", "in_progress"} \cup TerminalStatus
(* TEAM_TASK_STATUS_TRANSITIONS.                                             *)
CanTransition(from, to) == from = "in_progress" /\ to \in TerminalStatus

(* A claim's leased_until, as the ticks still left of it.                    *)
Claim == [owner : Worker, token : Token, left : 0..LeaseTicks]
NoClaim == [owner |-> NoWorker, token |-> NoToken, left |-> 0]

(* `evidence` is the claim whose completion evidence was validated: the code  *)
(* checks it against task.claim.token and the claim time.                     *)
TaskFile ==
  [status : TaskStatus, owner : Worker \cup {NoWorker}, claim : Claim \cup {NoClaim},
   deps : SUBSET TaskId, code : BOOLEAN, evidence : Token \cup {NoToken}, version : Nat]
NoFile ==
  [status |-> "absent", owner |-> NoWorker, claim |-> NoClaim, deps |-> {},
   code |-> FALSE, evidence |-> NoToken, version |-> 0]

OpStep == {"free", "created", "checked", "written", "claimed", "dispatching"}
Op == [step : OpStep, task : 0..MaxTask, to : TerminalStatus \cup {"none"},
       file : TaskFile, evidence : Token \cup {NoToken}]
FreeOp == [step |-> "free", task |-> 0, to |-> "none", file |-> NoFile, evidence |-> NoToken]

(* withTeamTaskBarrier lets an operation start only when no other holds it.   *)
BarrierSkipped == op.step # "created"
BarrierFree == op.step = "free"

TypeOK ==
  /\ task \in [TaskId -> TaskFile]
  /\ nextId \in 1..(MaxTask + 1)
  /\ members \in SUBSET Worker
  /\ op \in Op
  /\ granted \in [TaskId -> [token : Token \cup {NoToken}, deps : SUBSET TaskId]]
  /\ tokens \in 0..MaxClaim
  /\ crashes \in 0..MaxCrash

Init ==
  /\ task = [t \in TaskId |-> NoFile]
  /\ nextId = 1
  /\ members = Worker
  /\ op = FreeOp
  /\ granted = [t \in TaskId |-> [token |-> NoToken, deps |-> {}]]
  /\ tokens = 0
  /\ crashes = 0

-----------------------------------------------------------------------------
(* What the operations ask of a task file and do to it.                      *)

Exists(t) == task[t].status # "absent"
Unfinished(t) == task[t].status \in {"pending", "in_progress"}
LiveAtDeadline(c) == c.left >= 0
Live(c) == c.left > 0

(* computeTaskReadiness: a dependency with no file is not completed.         *)
ReadyIfNoneWaits(t) == \A d \in task[t].deps : ~Unfinished(d)
Ready(t) == \A d \in task[t].deps : task[d].status = "completed"

ClaimableBeforeExpiry(f, w) ==
  \/ f.status = "in_progress" /\ f.claim # NoClaim
  \/ f.status = "pending" /\ f.owner \in {NoWorker, w}
(* claimTask's tests on the record it read under the claim lock.             *)
Claimable(f, w) ==
  \/ f.status = "in_progress" /\ f.claim # NoClaim /\ ~Live(f.claim)
  \/ /\ f.status = "pending"
     /\ f.claim = NoClaim \/ ~Live(f.claim)
     /\ f.owner \in {NoWorker, w}

Claimed(f, w) ==
  [f EXCEPT !.status = "in_progress", !.owner = w,
            !.claim = [owner |-> w, token |-> tokens + 1, left |-> LeaseTicks],
            !.version = f.version + 1]

RequeuedSilently(f) ==
  [f EXCEPT !.status = "pending", !.owner = NoWorker, !.claim = NoClaim]
Requeued(f) ==
  [f EXCEPT !.status = "pending", !.owner = NoWorker, !.claim = NoClaim,
            !.version = f.version + 1]

(* transitionTaskStatus and releaseTaskClaim: the caller's token is the one   *)
(* the record holds, and its lease runs.                                     *)
Holds(f, token) ==
  /\ f.owner # NoWorker /\ f.claim.owner = f.owner /\ f.claim.token = token
  /\ Live(f.claim)

(* reclaimExpiredTaskClaim, on the record it read under the claim lock.       *)
ReclaimableAsListed(f) == f.status = "in_progress"
ReclaimableOfLeaver(f) == f.status = "in_progress" /\ f.claim.owner \notin members
Reclaimable(f) == f.status = "in_progress" /\ f.claim # NoClaim /\ ~Live(f.claim)

(* validateCompletionEvidence: the evidence is for the current claim.         *)
EvidenceForAnyClaim(f, evidence) == evidence # NoToken
EvidenceAccepted(f, evidence) == evidence = f.claim.token

Finished(f, to, evidence) ==
  [f EXCEPT !.status = to, !.claim = NoClaim, !.version = f.version + 1,
            !.evidence = evidence]

(* updateTask: completion evidence is never waived again, and not demanded    *)
(* of a task that is finished.                                               *)
MayRequireCode(f, code) ==
  (f.code => code) /\ (code /\ ~f.code => f.status \notin TerminalStatus)

(* createTask's id: the config's counter, or the one after the last task file  *)
(* if that is larger, as a crash before the counter's write leaves it.        *)
IsNewIdByCounter(i) == i = nextId
IsNewId(i) ==
  /\ i >= nextId
  /\ \A t \in TaskId : Exists(t) => t < i
  /\ i > nextId => Exists(i - 1)

-----------------------------------------------------------------------------
(* The operations.                                                           *)

CreateTask(owner, deps, code) ==
  /\ BarrierFree
  /\ \E id \in TaskId :
       /\ IsNewId(id)
       /\ task' = [task EXCEPT ![id] = [NoFile EXCEPT !.status = "pending", !.owner = owner,
                                          !.deps = deps, !.code = code, !.version = 1]]
       /\ op' = [FreeOp EXCEPT !.step = "created", !.task = id]
  /\ UNCHANGED <<nextId, members, granted, tokens, crashes>>

AdvanceCounter ==
  /\ op.step = "created"
  /\ nextId' = op.task + 1
  /\ op' = FreeOp
  /\ UNCHANGED <<task, members, granted, tokens, crashes>>

Grant(t, w) ==
  /\ tokens < MaxClaim
  /\ Exists(t) /\ Ready(t) /\ w \in members /\ Claimable(task[t], w)
  /\ task' = [task EXCEPT ![t] = Claimed(task[t], w)]
  /\ granted' = [granted EXCEPT ![t] = [token |-> tokens + 1, deps |-> task[t].deps]]
  /\ tokens' = tokens + 1

ClaimTask(t, w) ==
  /\ BarrierFree
  /\ Grant(t, w)
  /\ UNCHANGED <<nextId, members, op, crashes>>

ReleaseTaskClaim(t, token) ==
  /\ BarrierFree
  /\ Unfinished(t) /\ Holds(task[t], token)
  /\ task' = [task EXCEPT ![t] = Requeued(task[t])]
  /\ UNCHANGED <<nextId, members, op, granted, tokens, crashes>>

ReclaimExpired(t) ==
  /\ BarrierFree
  /\ Reclaimable(task[t])
  /\ task' = [task EXCEPT ![t] = Requeued(task[t])]
  /\ UNCHANGED <<nextId, members, op, granted, tokens, crashes>>

(* update-task, in the fields the API lets through that others depend on.     *)
UpdateTask(t, deps, code) ==
  /\ BarrierFree /\ Exists(t) /\ task[t].version < MaxVersion
  /\ MayRequireCode(task[t], code)
  /\ task' = [task EXCEPT ![t] = [task[t] EXCEPT !.deps = deps, !.code = code,
                                    !.version = task[t].version + 1]]
  /\ UNCHANGED <<nextId, members, op, granted, tokens, crashes>>

(* transitionTaskStatus: the checks and the evidence's validation, then the    *)
(* write of the record that was read before them, and, in TeamMonitor, the     *)
(* event and the mark before the barrier is given up.                         *)
CheckTransition(t, to, token, evidence) ==
  /\ BarrierFree
  /\ CanTransition(task[t].status, to)
  /\ Holds(task[t], token)
  /\ IF to = "completed" /\ task[t].code
     THEN EvidenceAccepted(task[t], evidence) ELSE evidence = NoToken
  /\ op' = [step |-> "checked", task |-> t, to |-> to, file |-> task[t], evidence |-> evidence]
  /\ UNCHANGED <<task, nextId, members, granted, tokens, crashes>>

WriteTransition ==
  /\ op.step = "checked"
  /\ task' = [task EXCEPT ![op.task] = Finished(op.file, op.to, op.evidence)]
  /\ op' = [op EXCEPT !.step = "written", !.file = NoFile, !.evidence = NoToken]
  /\ UNCHANGED <<nextId, members, granted, tokens, crashes>>

EndTransition ==
  /\ op.step = "written"
  /\ op' = FreeOp
  /\ UNCHANGED <<task, nextId, members, granted, tokens, crashes>>

(* assignTask, under the barrier to its end: the claim, the refresh of the     *)
(* task's plan, the dispatch to the worker, and the release of the claim when  *)
(* any of that fails.                                                        *)
AssignTask(t, w) ==
  /\ BarrierFree
  /\ Grant(t, w)
  /\ op' = [FreeOp EXCEPT !.step = "claimed", !.task = t, !.file = Claimed(task[t], w)]
  /\ UNCHANGED <<nextId, members, crashes>>

RefreshAssigned ==
  /\ op.step = "claimed"
  /\ task' = [task EXCEPT ![op.task].version = @ + 1]
  /\ op' = [op EXCEPT !.step = "dispatching"]
  /\ UNCHANGED <<nextId, members, granted, tokens, crashes>>

DispatchSucceeds ==
  /\ op.step \in {"claimed", "dispatching"}
  /\ op' = FreeOp
  /\ UNCHANGED <<task, nextId, members, granted, tokens, crashes>>

DispatchFails ==
  /\ op.step \in {"claimed", "dispatching"}
  /\ task' = IF Holds(task[op.task], op.file.claim.token)
             THEN [task EXCEPT ![op.task] = Requeued(task[op.task])] ELSE task
  /\ op' = FreeOp
  /\ UNCHANGED <<nextId, members, granted, tokens, crashes>>

(* scaleDown's membership transaction, in one step: the worker leaves the      *)
(* config and its unfinished tasks go back to the queue. At least one stays.   *)
LeavesBehindByOwner(f, w) == f.status = "pending" /\ f.owner = w
LeavesBehind(f, w) == f.owner = w \/ f.claim.owner = w

ScaleDown(w) ==
  /\ BarrierFree
  /\ w \in members /\ members \ {w} # {}
  /\ members' = members \ {w}
  /\ task' = [t \in TaskId |-> IF Unfinished(t) /\ LeavesBehind(task[t], w)
                                THEN Requeued(task[t]) ELSE task[t]]
  /\ UNCHANGED <<nextId, op, granted, tokens, crashes>>

(* The process of the operation under the barrier dies. Its lock goes stale    *)
(* and is taken over; until then every other operation times out unchanged.    *)
Crash ==
  /\ ~BarrierFree /\ crashes < MaxCrash
  /\ op' = FreeOp
  /\ crashes' = crashes + 1
  /\ UNCHANGED <<task, nextId, members, granted, tokens>>

(* Time passes for every lease.                                              *)
Tick ==
  /\ \E t \in TaskId : Live(task[t].claim)
  /\ task' = [t \in TaskId |->
                IF Live(task[t].claim) THEN [task[t] EXCEPT !.claim.left = @ - 1] ELSE task[t]]
  /\ UNCHANGED <<nextId, members, op, granted, tokens, crashes>>

Next ==
  \/ \E owner \in Worker \cup {NoWorker}, deps \in DepChoice, code \in CodeChoice :
       CreateTask(owner, deps, code)
  \/ AdvanceCounter
  \/ \E t \in TaskId, deps \in DepChoice, code \in CodeChoice : UpdateTask(t, deps, code)
  \/ \E t \in TaskId, w \in Worker : ClaimTask(t, w) \/ AssignTask(t, w)
  \/ \E t \in TaskId, token \in Token : ReleaseTaskClaim(t, token)
  \/ \E t \in TaskId : ReclaimExpired(t)
  \/ \E t \in TaskId, to \in TerminalStatus, token \in Token, evidence \in Token \cup {NoToken} :
       CheckTransition(t, to, token, evidence)
  \/ WriteTransition \/ EndTransition
  \/ RefreshAssigned \/ DispatchSucceeds \/ DispatchFails
  \/ \E w \in Worker : ScaleDown(w)
  \/ Crash \/ Tick

Spec == Init /\ [][Next]_boardVars

-----------------------------------------------------------------------------
(* Properties.                                                               *)

(* A task is in progress exactly while its record holds a claim, the claim     *)
(* and the record name the same owner, and that owner is still a member of     *)
(* the team. Claim, release, transition, reclaim, assignment (tasks.ts) and    *)
(* scale-down (scaling.ts) each rewrite these fields apart from each other.    *)
OwnershipAgrees ==
  \A t \in TaskId :
    /\ task[t].status = "in_progress" <=> task[t].claim # NoClaim
    /\ task[t].claim # NoClaim =>
         task[t].claim.owner = task[t].owner /\ task[t].owner \in members

SameButLease(f, g) == f = [g EXCEPT !.claim.left = f.claim.left]

(* While transitionTaskStatus validates evidence, and while assignTask waits   *)
(* for a dispatch, nobody changes the record under it: the record written      *)
(* back is the one on disk, and the claim rolled back the one just granted.    *)
InFlightOwnsClaim ==
  /\ op.step = "checked" => SameButLease(op.file, task[op.task])
  /\ op.step \in {"claimed", "dispatching"} =>
       task[op.task].claim.token = op.file.claim.token

(* Whatever was ever claimed rested on completed work, and still does: the     *)
(* dependencies a task had when it was claimed stay completed, through         *)
(* scale-down, id reuse after a crash and later edits of either task.          *)
ClaimedAfterDeps ==
  \A t \in TaskId : \A d \in granted[t].deps : task[d].status = "completed"

(* A code task counts as completed only on evidence made for the very claim     *)
(* that completed it, not for an earlier claim of the same task, and evidence  *)
(* cannot be demanded after the fact (tasks.ts, updateTask of state.ts).       *)
EvidenceBeforeCompleted ==
  \A t \in TaskId : task[t].status = "completed" /\ task[t].code =>
    task[t].evidence = granted[t].token /\ granted[t].token # NoToken

(* A finished task stays finished: no release, scale-down, reclaim or reused    *)
(* id brings it back or changes its outcome.                                  *)
TerminalIsFinal ==
  [][\A t \in TaskId :
       task[t].status \in TerminalStatus => task'[t].status = task[t].status]_boardVars

(* The version counts the writes of a record, which is what expected_version    *)
(* of claim-task relies on; a file is never replaced by another task's.         *)
VersionCountsWrites ==
  [][\A t \in TaskId :
       ~SameButLease(task'[t], task[t]) => task'[t].version = task[t].version + 1]_boardVars

(* No step puts another claim in the place of one whose lease still runs: a claim  *)
(* request, an assignment or a transition that writes back what it read earlier.   *)
(* (A running claim may be dropped without another: by its holder, by scale-down,  *)
(* or when the dispatch of an assignment fails.)                                *)
LiveClaimNotTakenOver ==
  [][\A t \in TaskId :
       Live(task[t].claim) /\ task'[t].claim.token # task[t].claim.token
         => task'[t].claim = NoClaim]_boardVars
=============================================================================
