-------------------------- MODULE TeamTasksProofs --------------------------
(* What TeamTasks' operations preserve, for every team, every number of tasks  *)
(* and claims and every lease. One inductive invariant carries all of it: the  *)
(* safety properties themselves, and three facts that relate a task file to    *)
(* the operation in flight and to the last claim granted.                     *)
EXTENDS TeamTasks, TLAPS

(* An id without a file has left nothing behind.                             *)
AbsentIsEmpty == \A t \in TaskId : ~Exists(t) => task[t] = NoFile

(* The claim in a record is the last one granted on that task.                *)
ClaimIsGranted ==
  \A t \in TaskId : task[t].claim # NoClaim => task[t].claim.token = granted[t].token

(* The operation under the barrier works on a task that exists, a transition   *)
(* on one in progress and past its checks, an assignment on one it claimed.   *)
OpInFlight ==
  /\ op.step # "free" => op.task \in TaskId /\ Exists(op.task)
  /\ op.step = "checked" =>
       /\ CanTransition(op.file.status, op.to) /\ op.file.claim # NoClaim
       /\ op.to = "completed" /\ op.file.code => op.evidence = op.file.claim.token
  /\ op.step \in {"claimed", "dispatching"} => task[op.task].claim # NoClaim

TaskInv ==
  /\ OwnershipAgrees
  /\ ClaimedAfterDeps
  /\ EvidenceBeforeCompleted
  /\ AbsentIsEmpty
  /\ ClaimIsGranted

IInv == TypeOK /\ TaskInv /\ InFlightOwnsClaim /\ OpInFlight

(* What a step may do to one task, in the words of the three action properties. *)
StepOK(t) ==
  /\ task[t].status \in TerminalStatus => task'[t].status = task[t].status
  /\ ~SameButLease(task'[t], task[t]) => task'[t].version = task[t].version + 1
  /\ Live(task[t].claim) /\ task'[t].claim.token # task[t].claim.token
       => task'[t].claim = NoClaim

-----------------------------------------------------------------------------
(* What the records the operations write are.                                *)

(* The empty record is one, and holds no claim.                              *)
LEMMA NoFileFacts ==
  /\ NoFile \in TaskFile
  /\ NoClaim.owner = NoWorker /\ NoClaim.token = NoToken /\ ~Live(NoClaim)
  /\ FreeOp \in Op
<1>1. NoFile \in TaskFile
  BY DEF NoFile, TaskFile, TaskStatus
<1>2. 0 \in 0..MaxTask
  BY BoundAssumption
<1> QED
  BY <1>1, <1>2 DEF NoClaim, NoToken, Live, FreeOp, Op, OpStep

(* Requeueing gives up owner and claim, counts a version, keeps the rest.      *)
LEMMA RequeuedFacts ==
  ASSUME NEW f \in TaskFile
  PROVE  /\ Requeued(f) \in TaskFile
         /\ Requeued(f).status = "pending" /\ Requeued(f).owner = NoWorker
         /\ Requeued(f).claim = NoClaim /\ Requeued(f).deps = f.deps
         /\ Requeued(f).code = f.code /\ Requeued(f).evidence = f.evidence
         /\ Requeued(f).version = f.version + 1
<1>1. PICK v \in Nat : v = f.version + 1
  BY DEF TaskFile
<1>2. "pending" \in TaskStatus
  BY DEF TaskStatus
<1>3. Requeued(f) \in TaskFile
  BY <1>1, <1>2 DEF Requeued, TaskFile
<1> QED
  BY <1>3 DEF Requeued, TaskFile

(* A grant makes an in-progress record with the next token and a full lease.   *)
LEMMA ClaimedFacts ==
  ASSUME NEW f \in TaskFile, NEW w \in Worker, tokens + 1 \in Token
  PROVE  /\ Claimed(f, w) \in TaskFile
         /\ Claimed(f, w).status = "in_progress" /\ Claimed(f, w).owner = w
         /\ Claimed(f, w).claim # NoClaim
         /\ Claimed(f, w).claim.owner = w /\ Claimed(f, w).claim.token = tokens + 1
         /\ Claimed(f, w).deps = f.deps /\ Claimed(f, w).code = f.code
         /\ Claimed(f, w).evidence = f.evidence
         /\ Claimed(f, w).version = f.version + 1
<1>1. PICK v \in Nat : v = f.version + 1
  BY DEF TaskFile
<1>2. "in_progress" \in TaskStatus
  BY DEF TaskStatus
<1>2a. LeaseTicks \in 0..LeaseTicks
  BY LeaseAssumption
<1>3. PICK c \in Claim : c = [owner |-> w, token |-> tokens + 1, left |-> LeaseTicks]
  BY <1>2a DEF Claim
<1>4. c.owner = w /\ c.token = tokens + 1 /\ c # NoClaim
  BY <1>3, WorkerAssumption DEF NoClaim
<1>5. Claimed(f, w) =
        [f EXCEPT !.status = "in_progress", !.owner = w, !.claim = c, !.version = v]
  BY <1>1, <1>3 DEF Claimed
<1>6. Claimed(f, w) \in TaskFile
  BY <1>2, <1>5 DEF TaskFile
<1> QED
  BY <1>1, <1>4, <1>5, <1>6 DEF TaskFile

(* A transition writes the outcome and the evidence, and gives up the claim.    *)
LEMMA FinishedFacts ==
  ASSUME NEW f \in TaskFile, NEW to \in TerminalStatus, NEW e \in Token \cup {NoToken}
  PROVE  /\ Finished(f, to, e) \in TaskFile
         /\ Finished(f, to, e).status = to /\ Finished(f, to, e).owner = f.owner
         /\ Finished(f, to, e).claim = NoClaim /\ Finished(f, to, e).deps = f.deps
         /\ Finished(f, to, e).code = f.code /\ Finished(f, to, e).evidence = e
         /\ Finished(f, to, e).version = f.version + 1
<1>1. PICK v \in Nat : v = f.version + 1
  BY DEF TaskFile
<1>2. to \in TaskStatus
  BY DEF TaskStatus
<1>3. Finished(f, to, e) \in TaskFile
  BY <1>1, <1>2 DEF Finished, TaskFile
<1> QED
  BY <1>3 DEF Finished, TaskFile

(* Initially the invariant holds.                                            *)
LEMMA InitIInv == Init => IInv
<1> SUFFICES ASSUME Init PROVE IInv
  OBVIOUS
<1> USE NoFileFacts DEF Init
<1>1. TypeOK
  <2>1. nextId \in 1..(MaxTask + 1) /\ tokens \in 0..MaxClaim /\ crashes \in 0..MaxCrash
    BY BoundAssumption
  <2> QED
    BY <2>1 DEF TypeOK
<1>2. \A t \in TaskId : task[t] = NoFile /\ granted[t].deps = {}
  OBVIOUS
<1>3. TaskInv
  BY <1>2 DEF OwnershipAgrees, ClaimedAfterDeps, EvidenceBeforeCompleted, AbsentIsEmpty,
       ClaimIsGranted, TaskInv, NoFile
<1>4. InFlightOwnsClaim /\ OpInFlight
  BY DEF InFlightOwnsClaim, OpInFlight, FreeOp
<1> QED
  BY <1>1, <1>3, <1>4 DEF IInv

-----------------------------------------------------------------------------
(* What each way of writing the task files preserves. A lemma per way, shared   *)
(* by the operations that write so.                                          *)

(* A write of one file leaves the others as they are.                         *)
LEMMA OneFile ==
  ASSUME task \in [TaskId -> TaskFile], NEW t \in TaskId, NEW f \in TaskFile,
         task' = [task EXCEPT ![t] = f]
  PROVE  /\ task' \in [TaskId -> TaskFile]
         /\ task'[t] = f
         /\ \A u \in TaskId : u # t => task'[u] = task[u]
OBVIOUS

(* A record is the same but for its lease as itself.                          *)
LEMMA SameAsItself ==
  ASSUME NEW f \in TaskFile
  PROVE  SameButLease(f, f)
BY DEF SameButLease, TaskFile, Claim, NoClaim

(* Nothing is written.                                                        *)
LEMMA NothingWritten ==
  ASSUME TypeOK, TaskInv, UNCHANGED <<task, granted, members>>
  PROVE  TaskInv' /\ \A t \in TaskId : StepOK(t)
<1>1. TaskInv'
  BY DEF TaskInv, OwnershipAgrees, ClaimedAfterDeps, EvidenceBeforeCompleted, AbsentIsEmpty,
       ClaimIsGranted, Exists
<1>2. \A t \in TaskId : StepOK(t)
  BY SameAsItself DEF StepOK, TypeOK
<1> QED
  BY <1>1, <1>2

(* The dependencies that claims were granted on stay completed if what is      *)
(* finished stays so and no new claim is granted.                             *)
LEMMA DepsStayCompleted ==
  ASSUME TypeOK, ClaimedAfterDeps, \A t \in TaskId : StepOK(t), UNCHANGED granted
  PROVE  ClaimedAfterDeps'
BY DEF TypeOK, ClaimedAfterDeps, StepOK, TerminalStatus

(* A set of unfinished tasks is requeued, among them those of everyone who     *)
(* leaves the team.                                                          *)
LEMMA SomeRequeued ==
  ASSUME TypeOK, TaskInv, NEW S \in SUBSET TaskId,
         \A t \in S : Unfinished(t),
         task' = [t \in TaskId |-> IF t \in S THEN Requeued(task[t]) ELSE task[t]],
         \A t \in TaskId \ S : task[t].claim # NoClaim => task[t].owner \in members',
         UNCHANGED granted
  PROVE  /\ task' \in [TaskId -> TaskFile]
         /\ TaskInv'
         /\ \A t \in TaskId : StepOK(t)
<1>1. \A t \in S : /\ task'[t] \in TaskFile
                   /\ task'[t].status = "pending" /\ task'[t].owner = NoWorker
                   /\ task'[t].claim = NoClaim
                   /\ task'[t].version = task[t].version + 1
  BY RequeuedFacts DEF TypeOK
<1>2. \A t \in TaskId \ S : task'[t] = task[t] /\ task[t] \in TaskFile
  BY DEF TypeOK
<1>3. task' \in [TaskId -> TaskFile]
  <2>1. \A t \in TaskId : task'[t] \in TaskFile
    BY <1>1, <1>2
  <2> QED
    BY <2>1
<1>4. \A t \in TaskId : StepOK(t)
  <2> TAKE t \in TaskId
  <2>1. CASE t \in S
    BY <2>1, <1>1 DEF StepOK, Unfinished, TerminalStatus
  <2>2. CASE t \notin S
    BY <2>2, <1>2, SameAsItself DEF StepOK
  <2> QED
    BY <2>1, <2>2
<1>5. OwnershipAgrees'
  BY <1>1, <1>2 DEF TaskInv, OwnershipAgrees
<1>6. ClaimedAfterDeps'
  BY <1>4, DepsStayCompleted DEF TaskInv
<1>7. EvidenceBeforeCompleted'
  BY <1>1, <1>2 DEF TaskInv, EvidenceBeforeCompleted
<1>8. AbsentIsEmpty'
  BY <1>1, <1>2 DEF TaskInv, AbsentIsEmpty, Exists
<1>9. ClaimIsGranted'
  BY <1>1, <1>2 DEF TaskInv, ClaimIsGranted
<1> QED
  BY <1>3, <1>4, <1>5, <1>6, <1>7, <1>8, <1>9 DEF TaskInv

(* One record changes only in fields no claim rests on.                       *)
LEMMA OneEdited ==
  ASSUME TypeOK, TaskInv, NEW t \in TaskId, NEW f \in TaskFile, Exists(t),
         task' = [task EXCEPT ![t] = f],
         f.status = task[t].status, f.owner = task[t].owner, f.claim = task[t].claim,
         f.evidence = task[t].evidence, f.version = task[t].version + 1,
         f.status = "completed" /\ f.code => task[t].code,
         UNCHANGED <<granted, members>>
  PROVE  /\ task' \in [TaskId -> TaskFile]
         /\ TaskInv'
         /\ \A u \in TaskId : StepOK(u)
<1>1. /\ task' \in [TaskId -> TaskFile] /\ task'[t] = f
      /\ \A u \in TaskId : u # t => task'[u] = task[u] /\ task[u] \in TaskFile
  BY OneFile DEF TypeOK
<1>2. \A u \in TaskId : StepOK(u)
  BY <1>1, SameAsItself DEF StepOK
<1>3. OwnershipAgrees'
  BY <1>1 DEF TaskInv, OwnershipAgrees
<1>4. ClaimedAfterDeps'
  BY <1>2, DepsStayCompleted DEF TaskInv
<1>5. EvidenceBeforeCompleted'
  BY <1>1 DEF TaskInv, EvidenceBeforeCompleted
<1>6. AbsentIsEmpty' /\ ClaimIsGranted'
  BY <1>1 DEF TaskInv, AbsentIsEmpty, ClaimIsGranted, Exists
<1> QED
  BY <1>1, <1>2, <1>3, <1>4, <1>5, <1>6 DEF TaskInv

(* A new file takes an id that no file has.                                   *)
LEMMA OneCreated ==
  ASSUME TypeOK, TaskInv, NEW t \in TaskId, NEW f \in TaskFile, ~Exists(t),
         task' = [task EXCEPT ![t] = f],
         f.status = "pending", f.claim = NoClaim, f.version = 1,
         UNCHANGED <<granted, members>>
  PROVE  /\ task' \in [TaskId -> TaskFile]
         /\ TaskInv'
         /\ \A u \in TaskId : StepOK(u)
<1>1. /\ task' \in [TaskId -> TaskFile] /\ task'[t] = f
      /\ \A u \in TaskId : u # t => task'[u] = task[u] /\ task[u] \in TaskFile
  BY OneFile DEF TypeOK
<1>2. /\ task[t].status = "absent" /\ task[t].version = 0 /\ ~Live(task[t].claim)
  BY NoFileFacts DEF TaskInv, AbsentIsEmpty, Exists, NoFile
<1>3. \A u \in TaskId : StepOK(u)
  BY <1>1, <1>2, SameAsItself DEF StepOK, TerminalStatus
<1>4. OwnershipAgrees'
  BY <1>1 DEF TaskInv, OwnershipAgrees
<1>5. ClaimedAfterDeps'
  BY <1>3, DepsStayCompleted DEF TaskInv
<1>6. EvidenceBeforeCompleted'
  BY <1>1 DEF TaskInv, EvidenceBeforeCompleted
<1>7. AbsentIsEmpty' /\ ClaimIsGranted'
  BY <1>1 DEF TaskInv, AbsentIsEmpty, ClaimIsGranted, Exists
<1> QED
  BY <1>1, <1>3, <1>4, <1>5, <1>6, <1>7 DEF TaskInv

(* A claim is granted. The task was ready, so what it rests on is completed,    *)
(* and it was not itself completed, so nothing rested on it.                  *)
LEMMA OneGranted ==
  ASSUME TypeOK, TaskInv, NEW t \in TaskId, NEW w \in Worker, Grant(t, w), UNCHANGED members
  PROVE  /\ task' \in [TaskId -> TaskFile]
         /\ tokens' \in 0..MaxClaim
         /\ granted' \in [TaskId -> [token : Token \cup {NoToken}, deps : SUBSET TaskId]]
         /\ TaskInv'
         /\ \A u \in TaskId : StepOK(u)
         /\ Exists(t)' /\ task'[t] = Claimed(task[t], w) /\ task'[t].claim # NoClaim
<1>1. tokens + 1 \in Token /\ tokens' \in 0..MaxClaim
  BY BoundAssumption DEF Grant, TypeOK, Token
<1>2. task[t] \in TaskFile /\ task[t].deps \in SUBSET TaskId
  BY DEF TypeOK, TaskFile
<1> DEFINE f == Claimed(task[t], w)
           g == [token |-> tokens + 1, deps |-> task[t].deps]
<1>3. /\ f \in TaskFile /\ f.status = "in_progress" /\ f.owner = w /\ f.claim # NoClaim
      /\ f.claim.owner = w /\ f.claim.token = tokens + 1 /\ f.version = task[t].version + 1
  BY <1>1, <1>2, ClaimedFacts
<1>4. task' = [task EXCEPT ![t] = f] /\ granted' = [granted EXCEPT ![t] = g]
  BY DEF Grant
<1>5. g \in [token : Token \cup {NoToken}, deps : SUBSET TaskId]
  BY <1>1, <1>2
<1>6. /\ task[t].status \in {"pending", "in_progress"} /\ ~Live(task[t].claim)
      /\ w \in members /\ \A d \in task[t].deps : task[d].status = "completed"
  BY NoFileFacts DEF Grant, Claimable, Ready
<1>6a. g.token = tokens + 1 /\ g.deps = task[t].deps
  OBVIOUS
<1> HIDE DEF f, g
<1>7. /\ task' \in [TaskId -> TaskFile] /\ task'[t] = f
      /\ \A u \in TaskId : u # t => task'[u] = task[u] /\ task[u] \in TaskFile
  BY <1>3, <1>4, OneFile DEF TypeOK
<1>8. /\ granted' \in [TaskId -> [token : Token \cup {NoToken}, deps : SUBSET TaskId]]
      /\ granted'[t] = g /\ \A u \in TaskId : u # t => granted'[u] = granted[u]
  BY <1>4, <1>5 DEF TypeOK
<1>9. \A u \in TaskId : StepOK(u)
  BY <1>3, <1>6, <1>7, SameAsItself DEF StepOK, TerminalStatus
<1>10. OwnershipAgrees'
  BY <1>3, <1>6, <1>7 DEF TaskInv, OwnershipAgrees
<1>11. ClaimedAfterDeps'
  <2> SUFFICES ASSUME NEW u \in TaskId, NEW d \in granted'[u].deps
               PROVE  task'[d].status = "completed"
    BY DEF ClaimedAfterDeps
  <2>1. d \in TaskId /\ task[d].status = "completed"
    BY <1>2, <1>6, <1>6a, <1>8 DEF TaskInv, ClaimedAfterDeps, TypeOK
  <2> QED
    BY <2>1, <1>6, <1>7
<1>12. EvidenceBeforeCompleted'
  BY <1>3, <1>7, <1>8 DEF TaskInv, EvidenceBeforeCompleted
<1>13. AbsentIsEmpty'
  BY <1>3, <1>7 DEF TaskInv, AbsentIsEmpty, Exists
<1>14. ClaimIsGranted'
  BY <1>3, <1>6a, <1>7, <1>8 DEF TaskInv, ClaimIsGranted
<1> QED
  BY <1>1, <1>3, <1>7, <1>8, <1>9, <1>10, <1>11, <1>12, <1>13, <1>14 DEF TaskInv, Exists, f

(* Time passes: what a lease has left is all that changes.                    *)
LEMMA LeasesShorten ==
  ASSUME TypeOK, TaskInv, Tick
  PROVE  /\ task' \in [TaskId -> TaskFile]
         /\ TaskInv'
         /\ \A t \in TaskId : /\ StepOK(t) /\ SameButLease(task'[t], task[t])
                              /\ task[t].claim # NoClaim => task'[t].claim # NoClaim
                              /\ task'[t].claim.token = task[t].claim.token
                              /\ task'[t].status = task[t].status
<1>1. ASSUME NEW t \in TaskId
      PROVE  /\ task'[t] \in TaskFile
             /\ task'[t].status = task[t].status /\ task'[t].owner = task[t].owner
             /\ task'[t].code = task[t].code /\ task'[t].evidence = task[t].evidence
             /\ task'[t].claim.owner = task[t].claim.owner
             /\ task'[t].claim.token = task[t].claim.token
             /\ task[t].claim # NoClaim <=> task'[t].claim # NoClaim
             /\ SameButLease(task'[t], task[t])
  <2>1. task[t] \in TaskFile
    BY DEF TypeOK
  <2>2. CASE ~Live(task[t].claim)
    BY <2>1, <2>2, SameAsItself DEF Tick
  <2>3. CASE Live(task[t].claim)
    <3>1. task[t].claim \in Claim
      BY <2>1, <2>3, NoFileFacts DEF TaskFile
    <3>2. PICK n \in 0..LeaseTicks : n = task[t].claim.left - 1
      BY <2>3, <3>1, LeaseAssumption DEF Claim, Live
    <3>3. task'[t] = [task[t] EXCEPT !.claim.left = n]
      BY <2>3, <3>2 DEF Tick
    <3>4. PICK c \in Claim : c = [task[t].claim EXCEPT !.left = n]
      BY <3>1 DEF Claim
    <3>5. /\ c.owner = task[t].claim.owner /\ c.token = task[t].claim.token
          /\ c # NoClaim /\ task[t].claim # NoClaim /\ c.left = n
      BY <3>1, <3>4, WorkerAssumption DEF Claim, NoClaim
    <3>6. task'[t] = [task[t] EXCEPT !.claim = c]
      BY <2>1, <3>3, <3>4 DEF TaskFile
    <3>7. task'[t] \in TaskFile /\ task'[t].claim = c
      BY <2>1, <3>6 DEF TaskFile
    <3>8. SameButLease(task'[t], task[t])
      BY <3>3, <3>5, <3>7 DEF SameButLease
    <3> QED
      BY <2>1, <3>5, <3>6, <3>7, <3>8 DEF TaskFile
  <2> QED
    BY <2>2, <2>3
<1>2. task' \in [TaskId -> TaskFile]
  BY <1>1 DEF Tick
<1>3. \A t \in TaskId : StepOK(t)
  BY <1>1 DEF StepOK
<1>4. UNCHANGED <<granted, members>>
  BY DEF Tick
<1>5. OwnershipAgrees'
  BY <1>1, <1>4 DEF TaskInv, OwnershipAgrees
<1>6. ClaimedAfterDeps'
  BY <1>3, <1>4, DepsStayCompleted DEF TaskInv
<1>7. EvidenceBeforeCompleted' /\ ClaimIsGranted'
  BY <1>1, <1>4 DEF TaskInv, EvidenceBeforeCompleted, ClaimIsGranted
<1>8. AbsentIsEmpty'
  <2> SUFFICES ASSUME NEW t \in TaskId, task'[t].status = "absent"
               PROVE  task'[t] = NoFile
    BY DEF AbsentIsEmpty, Exists
  <2>1. task[t] = NoFile
    BY <1>1 DEF TaskInv, AbsentIsEmpty, Exists
  <2>2. ~Live(task[t].claim)
    BY <2>1, NoFileFacts DEF NoFile
  <2> QED
    BY <2>1, <2>2 DEF Tick
<1> QED
  BY <1>1, <1>2, <1>3, <1>5, <1>6, <1>7, <1>8 DEF TaskInv

-----------------------------------------------------------------------------
(* The operations.                                                           *)

(* One unfinished task is requeued.                                          *)
LEMMA OneRequeued ==
  ASSUME TypeOK, TaskInv, NEW t \in TaskId, Unfinished(t),
         task' = [task EXCEPT ![t] = Requeued(task[t])],
         UNCHANGED <<granted, members>>
  PROVE  /\ task' \in [TaskId -> TaskFile]
         /\ TaskInv'
         /\ \A u \in TaskId : StepOK(u)
<1>1. task' = [u \in TaskId |-> IF u \in {t} THEN Requeued(task[u]) ELSE task[u]]
  BY DEF TypeOK
<1>2. \A u \in TaskId \ {t} : task[u].claim # NoClaim => task[u].owner \in members'
  BY DEF TaskInv, OwnershipAgrees
<1> QED
  BY <1>1, <1>2, SomeRequeued

(* The barrier is given up and no file written.                               *)
LEMMA OpGivenUp ==
  ASSUME IInv, op' = FreeOp, UNCHANGED <<task, nextId, members, granted, tokens>>,
         crashes' \in 0..MaxCrash
  PROVE  IInv' /\ \A t \in TaskId : StepOK(t)
<1>1. TaskInv' /\ \A t \in TaskId : StepOK(t)
  BY NothingWritten DEF IInv
<1>2. TypeOK'
  BY NoFileFacts DEF IInv, TypeOK
<1>3. InFlightOwnsClaim' /\ OpInFlight'
  BY DEF InFlightOwnsClaim, OpInFlight, FreeOp
<1> QED
  BY <1>1, <1>2, <1>3 DEF IInv

(* A record with the same lease-free part stays the same but for its lease.     *)
LEMMA SameButLeaseTwice ==
  ASSUME NEW f \in TaskFile, NEW g \in TaskFile, NEW h \in TaskFile,
         SameButLease(f, g), SameButLease(h, g)
  PROVE  SameButLease(f, h)
<1>1. \A a, b \in TaskFile : SameButLease(a, b) =>
        /\ a.status = b.status /\ a.owner = b.owner /\ a.deps = b.deps /\ a.code = b.code
        /\ a.evidence = b.evidence /\ a.version = b.version
  BY DEF SameButLease, TaskFile
<1>2. f.claim = [g.claim EXCEPT !.left = f.claim.left] /\ h.claim = [g.claim EXCEPT !.left = h.claim.left]
  BY DEF SameButLease, TaskFile
<1>3. f.claim = [h.claim EXCEPT !.left = f.claim.left]
  BY <1>2
<1>4. [h EXCEPT !.claim.left = f.claim.left] = [h EXCEPT !.claim = f.claim]
  BY <1>3
<1> QED
  BY <1>1, <1>4 DEF SameButLease, TaskFile

(* Every step preserves the invariant and keeps to the action properties.      *)
LEMMA StepIInv ==
  ASSUME IInv, [Next]_boardVars
  PROVE  IInv' /\ \A t \in TaskId : StepOK(t)
<1> USE DEF IInv
<1> DEFINE Goal == IInv' /\ \A t \in TaskId : StepOK(t)
<1>1. ASSUME NEW owner \in Worker \cup {NoWorker}, NEW deps \in DepChoice,
             NEW code \in CodeChoice, CreateTask(owner, deps, code)
      PROVE  Goal
  <2>1. PICK id \in TaskId :
          /\ IsNewId(id)
          /\ task' = [task EXCEPT ![id] = [NoFile EXCEPT !.status = "pending", !.owner = owner,
                                             !.deps = deps, !.code = code, !.version = 1]]
          /\ op' = [FreeOp EXCEPT !.step = "created", !.task = id]
    BY <1>1 DEF CreateTask
  <2>2. PICK f \in TaskFile :
          /\ f = [NoFile EXCEPT !.status = "pending", !.owner = owner, !.deps = deps,
                                !.code = code, !.version = 1]
          /\ f.status = "pending" /\ f.claim = NoClaim /\ f.version = 1
    <3>1. "pending" \in TaskStatus /\ deps \in SUBSET TaskId /\ code \in BOOLEAN
      BY ChoiceAssumption DEF TaskStatus, TaskId
    <3>2. [NoFile EXCEPT !.status = "pending", !.owner = owner, !.deps = deps,
                         !.code = code, !.version = 1] \in TaskFile
      BY <3>1, NoFileFacts DEF TaskFile
    <3> QED
      BY <3>2 DEF NoFile
  <2>3. ~Exists(id)
    BY <2>1 DEF IsNewId, TaskId, Exists
  <2>4. task' \in [TaskId -> TaskFile] /\ task'[id] = f /\ TaskInv' /\ \A u \in TaskId : StepOK(u)
    BY <1>1, <2>1, <2>2, <2>3, OneCreated, OneFile DEF CreateTask, TypeOK
  <2>5. op' \in Op /\ op'.step = "created" /\ op'.task = id
    <3>1. id \in 0..MaxTask
      BY BoundAssumption DEF TaskId
    <3> QED
      BY <2>1, <3>1, NoFileFacts DEF FreeOp, Op, OpStep
  <2>6. TypeOK'
    BY <1>1, <2>4, <2>5 DEF CreateTask, TypeOK
  <2>7. InFlightOwnsClaim' /\ OpInFlight'
    BY <2>2, <2>4, <2>5 DEF InFlightOwnsClaim, OpInFlight, Exists
  <2> QED
    BY <2>4, <2>6, <2>7
<1>2. CASE AdvanceCounter
  <2>1. op.task + 1 \in 1..(MaxTask + 1)
    BY <1>2, BoundAssumption DEF AdvanceCounter, OpInFlight, TaskId
  <2>2. TaskInv' /\ \A t \in TaskId : StepOK(t)
    BY <1>2, NothingWritten DEF AdvanceCounter
  <2>3. TypeOK'
    BY <1>2, <2>1, NoFileFacts DEF AdvanceCounter, TypeOK
  <2>4. InFlightOwnsClaim' /\ OpInFlight'
    BY <1>2 DEF AdvanceCounter, InFlightOwnsClaim, OpInFlight, FreeOp
  <2> QED
    BY <2>2, <2>3, <2>4
<1>3. ASSUME NEW t \in TaskId, NEW deps \in DepChoice, NEW code \in CodeChoice,
             UpdateTask(t, deps, code)
      PROVE  Goal
  <2>1. task[t] \in TaskFile /\ deps \in SUBSET TaskId /\ code \in BOOLEAN
    BY ChoiceAssumption DEF TypeOK, TaskId
  <2>2. PICK v \in Nat : v = task[t].version + 1
    BY <2>1 DEF TaskFile
  <2>3. PICK f \in TaskFile : f = [task[t] EXCEPT !.deps = deps, !.code = code, !.version = v]
    BY <2>1 DEF TaskFile
  <2>4. /\ f.status = task[t].status /\ f.owner = task[t].owner /\ f.claim = task[t].claim
        /\ f.evidence = task[t].evidence /\ f.version = task[t].version + 1 /\ f.code = code
    BY <2>1, <2>2, <2>3 DEF TaskFile
  <2>5. f.status = "completed" /\ f.code => task[t].code
    BY <1>3, <2>1, <2>4 DEF UpdateTask, MayRequireCode, TerminalStatus, TaskFile
  <2>6. /\ task' = [task EXCEPT ![t] = f] /\ Exists(t) /\ op.step = "free"
        /\ UNCHANGED <<nextId, members, op, granted, tokens, crashes>>
    BY <1>3, <2>2, <2>3 DEF UpdateTask, BarrierFree
  <2>7. task' \in [TaskId -> TaskFile] /\ TaskInv' /\ \A u \in TaskId : StepOK(u)
    BY <2>4, <2>5, <2>6, OneEdited
  <2>8. TypeOK'
    BY <2>6, <2>7 DEF TypeOK
  <2>9. InFlightOwnsClaim' /\ OpInFlight'
    BY <2>6 DEF InFlightOwnsClaim, OpInFlight
  <2> QED
    BY <2>7, <2>8, <2>9
<1>4. ASSUME NEW t \in TaskId, NEW w \in Worker, ClaimTask(t, w)
      PROVE  Goal
  <2>1. Grant(t, w) /\ op.step = "free" /\ UNCHANGED <<nextId, members, op, crashes>>
    BY <1>4 DEF ClaimTask, BarrierFree
  <2>2. /\ task' \in [TaskId -> TaskFile] /\ tokens' \in 0..MaxClaim
        /\ granted' \in [TaskId -> [token : Token \cup {NoToken}, deps : SUBSET TaskId]]
        /\ TaskInv' /\ \A u \in TaskId : StepOK(u)
    BY <2>1, OneGranted
  <2>3. TypeOK'
    BY <2>1, <2>2 DEF TypeOK
  <2>4. InFlightOwnsClaim' /\ OpInFlight'
    BY <2>1 DEF InFlightOwnsClaim, OpInFlight
  <2> QED
    BY <2>2, <2>3, <2>4
<1>5. ASSUME NEW t \in TaskId, NEW w \in Worker, AssignTask(t, w)
      PROVE  Goal
  <2>1. /\ Grant(t, w) /\ UNCHANGED <<nextId, members, crashes>>
        /\ op' = [FreeOp EXCEPT !.step = "claimed", !.task = t, !.file = Claimed(task[t], w)]
    BY <1>5 DEF AssignTask
  <2>2. /\ task' \in [TaskId -> TaskFile] /\ tokens' \in 0..MaxClaim
        /\ granted' \in [TaskId -> [token : Token \cup {NoToken}, deps : SUBSET TaskId]]
        /\ TaskInv' /\ \A u \in TaskId : StepOK(u)
        /\ Exists(t)' /\ task'[t] = Claimed(task[t], w) /\ task'[t].claim # NoClaim
    BY <2>1, OneGranted
  <2>3. op' \in Op /\ op'.step = "claimed" /\ op'.task = t /\ op'.file = task'[t]
    <3>1. t \in 0..MaxTask /\ task'[t] \in TaskFile
      BY <2>2, BoundAssumption DEF TaskId
    <3> QED
      BY <2>1, <2>2, <3>1, NoFileFacts DEF FreeOp, Op, OpStep
  <2>4. TypeOK'
    BY <2>1, <2>2, <2>3 DEF TypeOK
  <2>5. InFlightOwnsClaim' /\ OpInFlight'
    BY <2>2, <2>3 DEF InFlightOwnsClaim, OpInFlight
  <2> QED
    BY <2>2, <2>4, <2>5
<1>6. ASSUME NEW t \in TaskId, NEW token \in Token, ReleaseTaskClaim(t, token)
      PROVE  Goal
  <2>1. /\ op.step = "free" /\ Unfinished(t)
        /\ task' = [task EXCEPT ![t] = Requeued(task[t])]
        /\ UNCHANGED <<nextId, members, op, granted, tokens, crashes>>
    BY <1>6 DEF ReleaseTaskClaim, BarrierFree
  <2>2. task' \in [TaskId -> TaskFile] /\ TaskInv' /\ \A u \in TaskId : StepOK(u)
    BY <2>1, OneRequeued
  <2>3. TypeOK'
    BY <2>1, <2>2 DEF TypeOK
  <2>4. InFlightOwnsClaim' /\ OpInFlight'
    BY <2>1 DEF InFlightOwnsClaim, OpInFlight
  <2> QED
    BY <2>2, <2>3, <2>4
<1>7. ASSUME NEW t \in TaskId, ReclaimExpired(t)
      PROVE  Goal
  <2>1. /\ op.step = "free" /\ Unfinished(t)
        /\ task' = [task EXCEPT ![t] = Requeued(task[t])]
        /\ UNCHANGED <<nextId, members, op, granted, tokens, crashes>>
    BY <1>7 DEF ReclaimExpired, BarrierFree, Reclaimable, Unfinished
  <2>2. task' \in [TaskId -> TaskFile] /\ TaskInv' /\ \A u \in TaskId : StepOK(u)
    BY <2>1, OneRequeued
  <2>3. TypeOK'
    BY <2>1, <2>2 DEF TypeOK
  <2>4. InFlightOwnsClaim' /\ OpInFlight'
    BY <2>1 DEF InFlightOwnsClaim, OpInFlight
  <2> QED
    BY <2>2, <2>3, <2>4
<1>8. ASSUME NEW t \in TaskId, NEW to \in TerminalStatus, NEW token \in Token,
             NEW evidence \in Token \cup {NoToken}, CheckTransition(t, to, token, evidence)
      PROVE  Goal
  <2>1. /\ op' = [step |-> "checked", task |-> t, to |-> to, file |-> task[t],
                   evidence |-> evidence]
        /\ UNCHANGED <<task, nextId, members, granted, tokens, crashes>>
        /\ CanTransition(task[t].status, to)
        /\ to = "completed" /\ task[t].code => evidence = task[t].claim.token
    BY <1>8 DEF CheckTransition, EvidenceAccepted
  <2>2. task[t] \in TaskFile /\ t \in 0..MaxTask
    BY BoundAssumption DEF TypeOK, TaskId
  <2>3. /\ op' \in Op /\ op'.step = "checked" /\ op'.task = t /\ op'.to = to
        /\ op'.file = task'[t] /\ op'.evidence = evidence
    BY <2>1, <2>2 DEF Op, OpStep
  <2>4. TaskInv' /\ \A u \in TaskId : StepOK(u)
    BY <2>1, NothingWritten
  <2>5. TypeOK'
    BY <2>1, <2>3 DEF TypeOK
  <2>6. InFlightOwnsClaim'
    BY <2>1, <2>2, <2>3, SameAsItself DEF InFlightOwnsClaim
  <2>7. task[t].claim # NoClaim /\ Exists(t)
    BY <2>1 DEF TaskInv, OwnershipAgrees, CanTransition, Exists
  <2>8. OpInFlight'
    BY <2>1, <2>3, <2>7 DEF OpInFlight, Exists
  <2> QED
    BY <2>4, <2>5, <2>6, <2>8
<1>9. CASE WriteTransition
  <2> DEFINE t == op.task
             f == Finished(op.file, op.to, op.evidence)
  <2>1. /\ op.step = "checked"
        /\ task' = [task EXCEPT ![t] = f]
        /\ op' = [op EXCEPT !.step = "written", !.file = NoFile, !.evidence = NoToken]
        /\ UNCHANGED <<nextId, members, granted, tokens, crashes>>
    BY <1>9 DEF WriteTransition
  <2>2. /\ t \in TaskId /\ op.file \in TaskFile /\ op.to \in TerminalStatus
        /\ op.evidence \in Token \cup {NoToken} /\ op.file.status = "in_progress"
        /\ op.to = "completed" /\ op.file.code => op.evidence = op.file.claim.token
        /\ op.file.claim # NoClaim
    BY <2>1 DEF OpInFlight, TypeOK, Op, CanTransition
  <2>3. /\ task[t] \in TaskFile /\ task[t].status = "in_progress"
        /\ task[t].version = op.file.version /\ task[t].code = op.file.code
        /\ task[t].deps = op.file.deps
        /\ op.file.claim.token = task[t].claim.token
    BY <2>1, <2>2 DEF InFlightOwnsClaim, SameButLease, TypeOK, TaskFile, Claim, NoClaim
  <2>4. task[t].claim # NoClaim /\ task[t].claim.token = granted[t].token
    BY <2>2, <2>3 DEF TaskInv, OwnershipAgrees, ClaimIsGranted
  <2>5. granted[t].token # NoToken
    <3>1. task[t].claim \in Claim
      BY <2>3, <2>4 DEF TaskFile
    <3> QED
      BY <2>4, <3>1 DEF Claim, Token, NoToken
  <2>6. /\ f \in TaskFile /\ f.status = op.to /\ f.claim = NoClaim
        /\ f.version = task[t].version + 1 /\ f.code = task[t].code
        /\ f.evidence = op.evidence
    BY <2>2, <2>3, FinishedFacts
  <2> HIDE DEF f, t
  <2>7. /\ task' \in [TaskId -> TaskFile] /\ task'[t] = f
        /\ \A u \in TaskId : u # t => task'[u] = task[u] /\ task[u] \in TaskFile
    BY <2>1, <2>2, <2>6, OneFile DEF TypeOK
  <2>8. \A u \in TaskId : StepOK(u)
    BY <2>2, <2>3, <2>6, <2>7, SameAsItself DEF StepOK, TerminalStatus
  <2>9. TaskInv'
    <3>1. OwnershipAgrees'
      BY <2>1, <2>2, <2>6, <2>7 DEF TaskInv, OwnershipAgrees, TerminalStatus
    <3>2. ClaimedAfterDeps'
      BY <2>1, <2>8, DepsStayCompleted DEF TaskInv
    <3>3. EvidenceBeforeCompleted'
      BY <2>1, <2>2, <2>3, <2>4, <2>5, <2>6, <2>7 DEF TaskInv, EvidenceBeforeCompleted
    <3>4. AbsentIsEmpty' /\ ClaimIsGranted'
      BY <2>1, <2>2, <2>6, <2>7 DEF TaskInv, AbsentIsEmpty, ClaimIsGranted, Exists, TerminalStatus
    <3> QED
      BY <3>1, <3>2, <3>3, <3>4 DEF TaskInv
  <2>10. op' \in Op /\ op'.step = "written" /\ op'.task = t
    BY <2>1, NoFileFacts DEF TypeOK, Op, OpStep, t
  <2>11. TypeOK'
    BY <2>1, <2>7, <2>10 DEF TypeOK
  <2>12. InFlightOwnsClaim' /\ OpInFlight'
    BY <2>2, <2>6, <2>7, <2>10 DEF InFlightOwnsClaim, OpInFlight, Exists, TerminalStatus
  <2> QED
    BY <2>8, <2>9, <2>11, <2>12
<1>10. CASE EndTransition
  <2>1. op' = FreeOp /\ UNCHANGED <<task, nextId, members, granted, tokens, crashes>>
    BY <1>10 DEF EndTransition
  <2> QED
    BY <2>1, OpGivenUp DEF TypeOK
<1>11. CASE RefreshAssigned
  <2> DEFINE t == op.task
  <2>1. /\ op.step = "claimed" /\ op' = [op EXCEPT !.step = "dispatching"]
        /\ task' = [task EXCEPT ![t].version = @ + 1]
        /\ UNCHANGED <<nextId, members, granted, tokens, crashes>>
    BY <1>11 DEF RefreshAssigned
  <2>2. /\ t \in TaskId /\ Exists(t) /\ task[t].claim # NoClaim
        /\ task[t].claim.token = op.file.claim.token /\ task[t] \in TaskFile
    BY <2>1 DEF OpInFlight, InFlightOwnsClaim, TypeOK
  <2>3. PICK v \in Nat : v = task[t].version + 1
    BY <2>2 DEF TaskFile
  <2>4. PICK f \in TaskFile : f = [task[t] EXCEPT !.version = v]
    BY <2>2 DEF TaskFile
  <2> HIDE DEF t
  <2>5. /\ f.status = task[t].status /\ f.owner = task[t].owner /\ f.claim = task[t].claim
        /\ f.evidence = task[t].evidence /\ f.version = task[t].version + 1
        /\ f.code = task[t].code
    BY <2>2, <2>3, <2>4 DEF TaskFile
  <2>6. task' = [task EXCEPT ![t] = f]
    BY <2>1, <2>2, <2>3, <2>4 DEF TypeOK
  <2>7. /\ task' \in [TaskId -> TaskFile] /\ TaskInv' /\ \A u \in TaskId : StepOK(u)
        /\ task'[t] = f
    BY <2>1, <2>2, <2>5, <2>6, OneEdited, OneFile DEF TypeOK
  <2>8. /\ op' \in Op /\ op'.step = "dispatching" /\ op'.task = t /\ op'.file = op.file
    BY <2>1 DEF TypeOK, Op, OpStep, t
  <2>9. TypeOK'
    BY <2>1, <2>7, <2>8 DEF TypeOK
  <2>10. InFlightOwnsClaim' /\ OpInFlight'
    BY <2>2, <2>5, <2>7, <2>8 DEF InFlightOwnsClaim, OpInFlight, Exists
  <2> QED
    BY <2>7, <2>9, <2>10
<1>12. CASE DispatchSucceeds
  <2>1. op' = FreeOp /\ UNCHANGED <<task, nextId, members, granted, tokens, crashes>>
    BY <1>12 DEF DispatchSucceeds
  <2> QED
    BY <2>1, OpGivenUp DEF TypeOK
<1>13. CASE DispatchFails
  <2>1. op' = FreeOp /\ UNCHANGED <<nextId, members, granted, tokens, crashes>>
    BY <1>13 DEF DispatchFails
  <2>2. CASE ~Holds(task[op.task], op.file.claim.token)
    BY <1>13, <2>1, <2>2, OpGivenUp DEF DispatchFails, TypeOK
  <2>3. CASE Holds(task[op.task], op.file.claim.token)
    <3>1. op.task \in TaskId /\ Unfinished(op.task)
      BY <1>13, <2>3 DEF DispatchFails, OpInFlight, TaskInv, OwnershipAgrees, Unfinished
    <3>2. task' = [task EXCEPT ![op.task] = Requeued(task[op.task])]
      BY <1>13, <2>3 DEF DispatchFails
    <3>3. task' \in [TaskId -> TaskFile] /\ TaskInv' /\ \A u \in TaskId : StepOK(u)
      BY <2>1, <3>1, <3>2, OneRequeued
    <3>4. TypeOK'
      BY <2>1, <3>3, NoFileFacts DEF TypeOK
    <3>5. InFlightOwnsClaim' /\ OpInFlight'
      BY <2>1 DEF InFlightOwnsClaim, OpInFlight, FreeOp
    <3> QED
      BY <3>3, <3>4, <3>5
  <2> QED
    BY <2>2, <2>3
<1>14. ASSUME NEW w \in Worker, ScaleDown(w)
       PROVE  Goal
  <2> DEFINE S == {t \in TaskId : Unfinished(t) /\ LeavesBehind(task[t], w)}
  <2>1. /\ op.step = "free" /\ members' = members \ {w}
        /\ task' = [t \in TaskId |-> IF t \in S THEN Requeued(task[t]) ELSE task[t]]
        /\ UNCHANGED <<nextId, op, granted, tokens, crashes>>
    BY <1>14 DEF ScaleDown, BarrierFree
  <2>2. \A t \in TaskId \ S : task[t].claim # NoClaim => task[t].owner \in members'
    BY <2>1 DEF TaskInv, OwnershipAgrees, Unfinished, LeavesBehind
  <2>3. S \in SUBSET TaskId /\ \A t \in S : Unfinished(t)
    OBVIOUS
  <2> HIDE DEF S
  <2>4. task' \in [TaskId -> TaskFile] /\ TaskInv' /\ \A u \in TaskId : StepOK(u)
    BY <2>1, <2>2, <2>3, SomeRequeued
  <2>5. TypeOK'
    BY <2>1, <2>4 DEF TypeOK
  <2>6. InFlightOwnsClaim' /\ OpInFlight'
    BY <2>1 DEF InFlightOwnsClaim, OpInFlight
  <2> QED
    BY <2>4, <2>5, <2>6
<1>15. CASE Crash
  <2>1. /\ op' = FreeOp /\ crashes' \in 0..MaxCrash
        /\ UNCHANGED <<task, nextId, members, granted, tokens>>
    BY <1>15, BoundAssumption DEF Crash, TypeOK
  <2> QED
    BY <2>1, OpGivenUp
<1>16. CASE Tick
  <2>1. UNCHANGED <<nextId, members, op, granted, tokens, crashes>>
    BY <1>16 DEF Tick
  <2>2. /\ task' \in [TaskId -> TaskFile] /\ TaskInv'
        /\ \A t \in TaskId : /\ StepOK(t) /\ SameButLease(task'[t], task[t])
                             /\ task[t].claim # NoClaim => task'[t].claim # NoClaim
                             /\ task'[t].claim.token = task[t].claim.token
                             /\ task'[t].status = task[t].status
    BY <1>16, LeasesShorten
  <2>3. TypeOK'
    BY <2>1, <2>2 DEF TypeOK
  <2>4. OpInFlight'
    BY <2>1, <2>2 DEF OpInFlight, Exists
  <2>5. InFlightOwnsClaim'
    <3>1. ASSUME op.step = "checked"
          PROVE  SameButLease(op.file, task'[op.task])
      <4>1. /\ op.task \in TaskId /\ op.file \in TaskFile /\ task[op.task] \in TaskFile
            /\ task'[op.task] \in TaskFile /\ SameButLease(op.file, task[op.task])
            /\ SameButLease(task'[op.task], task[op.task])
        BY <2>2, <3>1 DEF OpInFlight, TypeOK, Op, InFlightOwnsClaim
      <4> QED
        BY <4>1, SameButLeaseTwice
    <3>2. op.step \in {"claimed", "dispatching"} =>
            task'[op.task].claim.token = op.file.claim.token
      BY <2>2 DEF InFlightOwnsClaim, OpInFlight
    <3> QED
      BY <2>1, <3>1, <3>2 DEF InFlightOwnsClaim
  <2> QED
    BY <2>2, <2>3, <2>4, <2>5
<1>17. CASE UNCHANGED boardVars
  <2>1. UNCHANGED <<task, nextId, members, op, granted, tokens, crashes>>
    BY <1>17 DEF boardVars
  <2>2. TaskInv' /\ \A t \in TaskId : StepOK(t)
    BY <2>1, NothingWritten
  <2>3. TypeOK' /\ InFlightOwnsClaim' /\ OpInFlight'
    BY <2>1 DEF TypeOK, InFlightOwnsClaim, OpInFlight, Exists
  <2> QED
    BY <2>2, <2>3
<1> QED
  BY <1>1, <1>2, <1>3, <1>4, <1>5, <1>6, <1>7, <1>8, <1>9, <1>10, <1>11, <1>12, <1>13,
     <1>14, <1>15, <1>16, <1>17 DEF Next

-----------------------------------------------------------------------------
(* The theorems.                                                             *)

(* The invariant holds in every reachable state.                             *)
LEMMA Invariance == Spec => []IInv
<1>1. Init => IInv
  BY InitIInv
<1>2. IInv /\ [Next]_boardVars => IInv'
  BY StepIInv
<1> QED
  BY <1>1, <1>2, PTL DEF Spec

(* Every variable keeps its type.                                            *)
THEOREM TypeCorrect == Spec => []TypeOK
BY Invariance, PTL DEF IInv

(* Status, claim, owner and membership agree on every task.                    *)
THEOREM OwnershipAlwaysAgrees == Spec => []OwnershipAgrees
<1>1. IInv => OwnershipAgrees
  BY DEF IInv, TaskInv
<1> QED
  BY <1>1, Invariance, PTL

(* What is written back or rolled back under the barrier is what was read.      *)
THEOREM InFlightAlwaysOwnsClaim == Spec => []InFlightOwnsClaim
BY Invariance, PTL DEF IInv

(* No claim is ever granted on, or later left without, completed dependencies.  *)
THEOREM ClaimsRestOnCompletedWork == Spec => []ClaimedAfterDeps
<1>1. IInv => ClaimedAfterDeps
  BY DEF IInv, TaskInv
<1> QED
  BY <1>1, Invariance, PTL

(* A code task completes only on the evidence of the claim that completed it.   *)
THEOREM EvidenceIsForTheClaim == Spec => []EvidenceBeforeCompleted
<1>1. IInv => EvidenceBeforeCompleted
  BY DEF IInv, TaskInv
<1> QED
  BY <1>1, Invariance, PTL

(* A finished task stays as it finished.                                      *)
THEOREM TerminalStaysFinal == Spec => TerminalIsFinal
<1>1. IInv /\ [Next]_boardVars =>
        [\A t \in TaskId :
           task[t].status \in TerminalStatus => task'[t].status = task[t].status]_boardVars
  BY StepIInv DEF StepOK
<1> QED
  BY <1>1, Invariance, PTL DEF Spec, TerminalIsFinal

(* A record changes only with its version, by one.                            *)
THEOREM VersionsCount == Spec => VersionCountsWrites
<1>1. IInv /\ [Next]_boardVars =>
        [\A t \in TaskId : ~SameButLease(task'[t], task[t])
           => task'[t].version = task[t].version + 1]_boardVars
  BY StepIInv DEF StepOK
<1> QED
  BY <1>1, Invariance, PTL DEF Spec, VersionCountsWrites

(* A claim whose lease runs is not replaced by another.                       *)
THEOREM LiveClaimsAreSafe == Spec => LiveClaimNotTakenOver
<1>1. IInv /\ [Next]_boardVars =>
        [\A t \in TaskId : Live(task[t].claim) /\ task'[t].claim.token # task[t].claim.token
           => task'[t].claim = NoClaim]_boardVars
  BY StepIInv DEF StepOK
<1> QED
  BY <1>1, Invariance, PTL DEF Spec, LiveClaimNotTakenOver
=============================================================================
