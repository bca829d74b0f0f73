------------------------- MODULE TeamMonitorProofs -------------------------
(* What holds of the monitor composed with the board, for any team: it          *)
(* implements the board, so that every theorem about the board holds of the     *)
(* composed system; its variables keep their types; no poll asks for a          *)
(* phase it may not enter; fix attempts are bounded; the event log              *)
(* announces what the task files say, and a mark only what the log              *)
(* announces; no poll takes a claim away while it runs.                         *)
EXTENDS TeamMonitor, TeamTasksProofs, SequenceTheorems

(* A step of the system is a step of the board or leaves it alone.             *)
LEMMA MonitorStepsAreBoardSteps == MonitorNext => [Next]_boardVars
<1> SUFFICES ASSUME MonitorNext PROVE [Next]_boardVars
  OBVIOUS
<1>1. CASE BoardStep
  <2>1. CASE \E owner \in Worker \cup {NoWorker}, deps \in DepChoice, code \in CodeChoice :
                CreateTask(owner, deps, code)
    BY <2>1 DEF Next
  <2>2. CASE \E t \in TaskId, w \in Worker : ClaimTask(t, w)
    BY <2>2 DEF Next
  <2>3. CASE \/ AdvanceCounter \/ WriteTransition \/ RefreshAssigned \/ Tick
             \/ \E t \in TaskId, deps \in DepChoice, code \in CodeChoice :
                  UpdateTask(t, deps, code)
             \/ \E t \in TaskId, token \in Token : ReleaseTaskClaim(t, token)
             \/ \E t \in TaskId, to \in TerminalStatus, token \in Token,
                   evidence \in Token \cup {NoToken} : CheckTransition(t, to, token, evidence)
             \/ \E w \in Worker : ScaleDown(w)
    BY <2>3 DEF Next
  <2> QED
    BY <1>1, <2>1, <2>2, <2>3 DEF BoardStep
<1>2. CASE TransitionTail
  BY <1>2 DEF TransitionTail, AppendCompleted, AppendFailed, ReadSnapshotForMark,
       MarkCompletion, Next
<1>3. CASE CrashOperation
  BY <1>3 DEF CrashOperation, Next
<1>4. CASE OutsideBarrier
  BY <1>4 DEF OutsideBarrier, MonStart, MonReadPhase, MonSave, MonWritePhase, MonEmit
<1>5. CASE UnderBarrier
  BY <1>5 DEF UnderBarrier, MonList, MonRelist, MonReclaim, Next
<1>6. ASSUME NEW t \in TaskId, NEW w \in Worker, MonAssign(t, w)
      PROVE  [Next]_boardVars
  BY <1>6 DEF MonAssign, Next
<1>7. CASE MonAssigned \/ MonAssignFailed \/ MonCrash
  BY <1>7 DEF MonAssigned, MonAssignFailed, MonCrash, Next
<1>8. ASSUME NEW how \in {"gated", "forced"}, ShutdownTeam(how)
      PROVE  [Next]_boardVars
  BY <1>8 DEF ShutdownTeam
<1>9. CASE HookRead \/ HookWrite
  BY <1>9 DEF HookRead, HookWrite
<1> QED
  BY <1>1, <1>2, <1>3, <1>4, <1>5, <1>6, <1>7, <1>8, <1>9 DEF MonitorNext

(* The composed system implements the task board.                             *)
THEOREM MonitorImplementsBoard == MonitorSpec => ImplementsBoard
<1>1. MonitorInit => Init
  BY DEF MonitorInit
<1>2. [MonitorNext]_vars => [Next]_boardVars
  <2>1. UNCHANGED vars => UNCHANGED boardVars
    BY DEF vars
  <2> QED
    BY <2>1, MonitorStepsAreBoardSteps
<1> QED
  BY <1>1, <1>2, PTL DEF MonitorSpec, ImplementsBoard, Spec

-----------------------------------------------------------------------------
(* The phase controller: where buildTransitionPath leads, and what             *)
(* reconcilePhaseStateForMonitor makes of a file.                             *)

(* Every leg of the path is an edge transitionPhase accepts.                  *)
Consecutive(path) == \A i \in 1..(Len(path) - 1) : path[i + 1] \in Transitions[path[i]]
Legs(to) == CASE to = "team-exec"   -> SubSeq(Chain, 1, 3)
              [] to = "team-verify" -> Chain
              [] OTHER              -> Append(Chain, to)

(* What transitionPhase accepts, phase by phase.                              *)
LEMMA Edges ==
  /\ Transitions["team-plan"] = {"team-prd"}
  /\ Transitions["team-prd"] = {"team-exec"}
  /\ Transitions["team-exec"] = {"team-verify"}
  /\ Transitions["team-verify"] = {"team-fix", "complete", "failed"}
  /\ Transitions["team-fix"] = {"team-exec", "team-verify", "complete", "failed"}
BY DEF Transitions, Phases, TerminalPhases

(* The forward chain has four different phases.                               *)
LEMMA ChainFacts ==
  /\ Chain \in Seq(Phases) /\ Len(Chain) = 4
  /\ Chain[1] = "team-plan" /\ Chain[2] = "team-prd"
  /\ Chain[3] = "team-exec" /\ Chain[4] = "team-verify"
BY DEF Chain, Phases

(* A path longer by one phase, and one of two.                                *)
LEMMA OneMore ==
  ASSUME NEW path \in Seq(Phases), NEW to \in Phases
  PROVE  /\ Append(path, to) \in Seq(Phases)
         /\ Len(Append(path, to)) = Len(path) + 1
         /\ \A i \in 1..Len(path) : Append(path, to)[i] = path[i]
         /\ Append(path, to)[Len(path) + 1] = to
BY AppendProperties

(* Two phases are a path.                                                       *)
LEMMA TwoLegs ==
  ASSUME NEW p \in Phases, NEW q \in Phases
  PROVE  <<p, q>> \in Seq(Phases)
OBVIOUS

(* The place of a phase in the chain.                                         *)
LEMMA PlaceInChain ==
  ASSUME NEW from \in Phases \ (TerminalPhases \cup {"team-fix"})
  PROVE  \E k \in 1..4 : Chain[k] = from /\ (CHOOSE i \in 1..4 : Chain[i] = from) = k
<1>1. PICK k \in 1..4 : Chain[k] = from
  BY ChainFacts DEF Phases
<1>2. \A i \in 1..4 : Chain[i] = from => i = k
  BY <1>1, ChainFacts
<1> QED
  BY <1>1, <1>2

(* The chain as far as a target, or past its end to one.                      *)
LEMMA LegsFacts ==
  ASSUME NEW to \in Phases \ {"team-plan", "team-prd", "cancelled"}
  PROVE  /\ Legs(to) \in Seq(Phases) /\ Consecutive(Legs(to))
         /\ \A i \in 1..Len(Legs(to)) : i <= 4 => Legs(to)[i] = Chain[i]
         /\ Len(Legs(to)) \in 3..5
<1> USE ChainFacts, Edges
<1>1. CASE to = "team-exec"
  <2>1. Legs(to) = SubSeq(Chain, 1, 3)
    BY <1>1 DEF Legs
  <2>2. \A i \in 1..3 : Chain[i] \in Phases
    BY DEF Phases
  <2>3. /\ SubSeq(Chain, 1, 3) \in Seq(Phases) /\ Len(SubSeq(Chain, 1, 3)) = 3
        /\ \A i \in 1..3 : SubSeq(Chain, 1, 3)[i] = Chain[i]
    BY <2>2, SubSeqProperties
  <2> QED
    BY <2>1, <2>3 DEF Consecutive
<1>2. CASE to = "team-verify"
  <2>1. Legs(to) = Chain
    BY <1>2 DEF Legs
  <2>2. \A i \in 1..3 : Chain[i + 1] \in Transitions[Chain[i]]
    <3> TAKE i \in 1..3
    <3>1. CASE i = 1
      BY <3>1
    <3>2. CASE i = 2
      BY <3>2
    <3>3. CASE i = 3
      BY <3>3
    <3> QED
      BY <3>1, <3>2, <3>3
  <2>3. Consecutive(Chain)
    BY <2>2 DEF Consecutive
  <2> HIDE DEF Legs
  <2> QED
    BY <2>1, <2>3
<1>3. CASE to \in {"team-fix", "complete", "failed"}
  <2>1. Legs(to) = Append(Chain, to)
    BY <1>3 DEF Legs
  <2>2. /\ Append(Chain, to) \in Seq(Phases) /\ Len(Append(Chain, to)) = 5
        /\ \A i \in 1..4 : Append(Chain, to)[i] = Chain[i]
        /\ Append(Chain, to)[5] = to
    <3>1. to \in Phases
      OBVIOUS
    <3>2. /\ Append(Chain, to) \in Seq(Phases)
          /\ Len(Append(Chain, to)) = Len(Chain) + 1
          /\ \A i \in 1..Len(Chain) : Append(Chain, to)[i] = Chain[i]
          /\ Append(Chain, to)[Len(Chain) + 1] = to
      BY <3>1, OneMore
    <3> QED
      BY <3>2
  <2> HIDE DEF Legs
  <2>3. \A i \in 1..4 : Append(Chain, to)[i + 1] \in Transitions[Append(Chain, to)[i]]
    BY <1>3, <2>2
  <2> QED
    BY <2>1, <2>2, <2>3 DEF Consecutive
<1> QED
  BY <1>1, <1>2, <1>3 DEF Phases, TerminalPhases

(* A path is a tail of the legs, or goes from team-fix in one step or two, or    *)
(* is empty.                                                                  *)
LEMMA PathShape ==
  ASSUME NEW from \in Phases, NEW to \in Phases
  PROVE  \/ BuildPath(from, to) = <<>>
         \/ from = "team-fix" /\ to = "team-verify"
            /\ BuildPath(from, to) = <<"team-exec", "team-verify">>
         \/ from = "team-fix" /\ to \in {"team-exec", "complete", "failed"}
            /\ BuildPath(from, to) = <<to>>
         \/ /\ to \notin {"team-plan", "team-prd", "cancelled"}
            /\ \E k \in 1..4 : /\ Chain[k] = from
                               /\ BuildPath(from, to) = SubSeq(Legs(to), 1 + k, Len(Legs(to)))
<1>1. CASE from = to \/ to \in {"team-plan", "team-prd", "cancelled"}
  BY <1>1 DEF BuildPath
<1>2. CASE from \in TerminalPhases /\ from # to /\ to \notin {"team-plan", "team-prd", "cancelled"}
  BY <1>2 DEF BuildPath
<1>3. CASE from = "team-fix" /\ from # to /\ to \notin {"team-plan", "team-prd", "cancelled"}
  BY <1>3 DEF BuildPath, Phases, TerminalPhases
<1>4. CASE /\ from \notin TerminalPhases \cup {"team-fix"} /\ from # to
           /\ to \notin {"team-plan", "team-prd", "cancelled"}
  <2>1. BuildPath(from, to) =
          SubSeq(Legs(to), 1 + CHOOSE i \in 1..4 : Chain[i] = from, Len(Legs(to)))
    BY <1>4 DEF BuildPath, Legs
  <2> QED
    BY <1>4, <2>1, PlaceInChain
<1> QED
  BY <1>1, <1>2, <1>3, <1>4

(* Whatever the phase and the target, the path between them is one of phases,    *)
(* and every edge of it is accepted.                                          *)
LEMMA PathsAreLegal ==
  ASSUME NEW from \in Phases, NEW to \in Phases
  PROVE  BuildPath(from, to) \in Seq(Phases) /\ PathIsLegal(from, to)
<1> DEFINE path == BuildPath(from, to)
<1> SUFFICES path \in Seq(Phases) /\ Consecutive(<<from>> \o path)
  BY DEF PathIsLegal, Consecutive
<1>1. ASSUME path \in Seq(Phases)
      PROVE  /\ Len(<<from>> \o path) = 1 + Len(path) /\ (<<from>> \o path)[1] = from
             /\ \A i \in 2..(1 + Len(path)) : (<<from>> \o path)[i] = path[i - 1]
  <2> HIDE DEF path
  <2>1. <<from>> \in Seq(Phases) /\ Len(<<from>>) = 1 /\ <<from>>[1] = from
    OBVIOUS
  <2>2. Len(path) \in Nat
    BY <1>1
  <2> QED
    BY <1>1, <2>1, <2>2, ConcatProperties
<1>2. CASE path = <<>>
  BY <1>1, <1>2 DEF Consecutive
<1>3. CASE from = "team-fix" /\ to = "team-verify" /\ path = <<"team-exec", "team-verify">>
  <2>1. Len(path) = 2 /\ path[1] = "team-exec" /\ path[2] = "team-verify"
    BY <1>3
  <2>2. "team-exec" \in Phases /\ "team-verify" \in Phases
    BY DEF Phases
  <2>3. path \in Seq(Phases)
    BY <1>3, <2>2, TwoLegs
  <2> HIDE DEF path
  <2> QED
    BY <1>1, <1>3, <2>1, <2>3, Edges DEF Consecutive
<1>4. CASE from = "team-fix" /\ to \in {"team-exec", "complete", "failed"} /\ path = <<to>>
  <2>1. path \in Seq(Phases) /\ Len(path) = 1 /\ path[1] = to
    BY <1>4
  <2> HIDE DEF path
  <2> QED
    BY <1>1, <1>4, <2>1, Edges DEF Consecutive, TerminalPhases
<1>5. ASSUME to \notin {"team-plan", "team-prd", "cancelled"}, NEW k \in 1..4, Chain[k] = from,
             path = SubSeq(Legs(to), 1 + k, Len(Legs(to)))
      PROVE  path \in Seq(Phases) /\ Consecutive(<<from>> \o path)
  <2> DEFINE legs == Legs(to)
             n == Len(legs)
  <2>1. /\ legs \in Seq(Phases) /\ Consecutive(legs) /\ n \in 3..5
        /\ \A i \in 1..n : i <= 4 => legs[i] = Chain[i]
    BY <1>5, LegsFacts
  <2>2. path = SubSeq(legs, 1 + k, n)
    BY <1>5
  <2> HIDE DEF path, legs, n
  <2>3. \A i \in (1 + k)..n : legs[i] \in Phases
    BY <2>1 DEF n
  <2>4. /\ path \in Seq(Phases) /\ Len(path) = (IF 1 + k <= n THEN n - k ELSE 0)
        /\ \A i \in 1..(n - k) : path[i] = legs[i + k]
    BY <2>1, <2>2, <2>3, SubSeqProperties
  <2>5. ASSUME NEW i \in 1..Len(path)
        PROVE  (<<from>> \o path)[i + 1] \in Transitions[(<<from>> \o path)[i]]
    <3>1. k + 1 <= n /\ Len(path) = n - k /\ i + k \in 2..n
      BY <2>1, <2>4, <2>5
    <3>2. (<<from>> \o path)[i + 1] = legs[i + k]
      BY <1>1, <2>1, <2>4, <3>1
    <3>3. (<<from>> \o path)[i] = legs[(i + k) - 1]
      <4>1. CASE i = 1
        BY <1>1, <1>5, <2>1, <2>4, <3>1, <4>1
      <4>2. CASE i > 1
        <5>1. i - 1 \in 1..(n - k) /\ (i - 1) + k = (i + k) - 1 /\ i \in 2..(1 + Len(path))
          BY <2>1, <2>4, <3>1, <4>2
        <5>2. (<<from>> \o path)[i] = path[i - 1]
          BY <1>1, <2>4, <5>1
        <5>3. path[i - 1] = legs[(i - 1) + k]
          BY <2>4, <5>1
        <5> QED
          BY <5>1, <5>2, <5>3
      <4> QED
        BY <4>1, <4>2
    <3>4. legs[i + k] \in Transitions[legs[(i + k) - 1]]
      BY <2>1, <3>1 DEF Consecutive, n
    <3> QED
      BY <3>2, <3>3, <3>4
  <2> QED
    BY <1>1, <2>1, <2>4, <2>5 DEF Consecutive
<1> QED
  <2> HIDE DEF path
  <2>1. \/ path = <<>>
        \/ from = "team-fix" /\ to = "team-verify" /\ path = <<"team-exec", "team-verify">>
        \/ from = "team-fix" /\ to \in {"team-exec", "complete", "failed"} /\ path = <<to>>
        \/ /\ to \notin {"team-plan", "team-prd", "cancelled"}
           /\ \E k \in 1..4 : Chain[k] = from /\ path = SubSeq(Legs(to), 1 + k, Len(Legs(to)))
    BY PathShape DEF path
  <2> QED
    BY <1>2, <1>3, <1>4, <1>5, <2>1

(* One leg of the walk, the walk, and the whole reconciliation keep the file a   *)
(* phase file: in particular, never more attempts than the maximum.            *)
LEMMA LegKeepsFile ==
  ASSUME NEW m \in Nat, NEW s \in PhaseFile(m), NEW path \in Seq(Phases), NEW i \in Nat \ {0}
  PROVE  Leg(s, path, i) \in PhaseFile(m)
<1>1. ASSUME NEW to \in Phases PROVE TransitionPhase(s, to) \in PhaseFile(m)
  <2>1. CASE to = "team-fix" /\ s.attempt + 1 > s.max
    BY <2>1 DEF TransitionPhase, PhaseFile, Phases, TerminalPhases
  <2>2. CASE to = "team-fix" /\ ~(s.attempt + 1 > s.max)
    <3>1. PICK n \in 0..m : n = s.attempt + 1
      BY <2>2 DEF PhaseFile
    <3>2. TransitionPhase(s, to) = [s EXCEPT !.current = to, !.attempt = n]
      BY <2>2, <3>1 DEF TransitionPhase, PhaseFile
    <3> QED
      BY <3>2 DEF PhaseFile
  <2>3. CASE to # "team-fix"
    <3>1. TransitionPhase(s, to) = [s EXCEPT !.current = to]
      BY <2>3 DEF TransitionPhase, PhaseFile
    <3> QED
      BY <3>1 DEF PhaseFile
  <2> QED
    BY <2>1, <2>2, <2>3
<1>2. CASE i > Len(path)
  BY <1>2 DEF Leg
<1>3. CASE ~(i > Len(path))
  <2>1. path[i] \in Phases
    BY <1>3
  <2> QED
    BY <1>1, <2>1 DEF Leg
<1> QED
  BY <1>2, <1>3

(* What the poll makes of phase.json is a phase.json, its fix attempts          *)
(* within bounds.                                                               *)
LEMMA ReconcileKeepsFile ==
  ASSUME NEW m \in Nat, NEW s \in PhaseFile(m), NEW target \in Phases
  PROVE  Reconcile(s, target) \in PhaseFile(m)
<1>1. CASE s.epoch \/ s.current = target
  BY <1>1 DEF Reconcile
<1>2. CASE ~s.epoch /\ s.current # target /\ s.current \in TerminalPhases
  <2>1. Reconcile(s, target) = IF target \in TerminalPhases THEN s
                               ELSE [s EXCEPT !.current = target, !.attempt = 0]
    BY <1>2 DEF Reconcile
  <2>2. 0 \in 0..m
    OBVIOUS
  <2>3. [s EXCEPT !.current = target, !.attempt = 0] \in PhaseFile(m)
    BY <2>2 DEF PhaseFile
  <2> QED
    BY <2>1, <2>3
<1>3. CASE ~s.epoch /\ s.current # target /\ s.current \notin TerminalPhases
  <2> DEFINE path == BuildPath(s.current, target)
  <2>1. Reconcile(s, target) = Walk(s, path)
    BY <1>3 DEF Reconcile
  <2>2. path \in Seq(Phases)
    BY PathsAreLegal DEF PhaseFile
  <2> HIDE DEF path
  <2>3. Leg(s, path, 1) \in PhaseFile(m)
    BY <2>2, LegKeepsFile
  <2>4. Leg(Leg(s, path, 1), path, 2) \in PhaseFile(m)
    BY <2>2, <2>3, LegKeepsFile
  <2>5. Leg(Leg(Leg(s, path, 1), path, 2), path, 3) \in PhaseFile(m)
    BY <2>2, <2>4, LegKeepsFile
  <2>6. Leg(Leg(Leg(Leg(s, path, 1), path, 2), path, 3), path, 4) \in PhaseFile(m)
    BY <2>2, <2>5, LegKeepsFile
  <2> QED
    BY <2>1, <2>6 DEF Walk
<1> QED
  BY <1>1, <1>2, <1>3

-----------------------------------------------------------------------------
(* The types, group by group: a step that leaves a group alone keeps it.        *)
LogTyped ==
  /\ snapshot \in SnapshotFile
  /\ events \in EventLog
  /\ tail \in [step : {"none", "appended", "marking"}, seen : SnapshotFile]
PollTyped == mon \in Mon /\ restarts \in 0..MaxRestart
PhaseTyped ==
  /\ phase \in PhaseFile(MaxFix)
  /\ hook \in [read : BOOLEAN, phase : PhaseFile(MaxFix)]
  /\ gated \in BOOLEAN
  /\ failures \in 0..MaxHook

(* The groups together are the types.                                           *)
LEMMA TypesInGroups == MonitorTypeOK <=> TypeOK /\ LogTyped /\ PollTyped /\ PhaseTyped
BY DEF MonitorTypeOK, LogTyped, PollTyped, PhaseTyped

(* A step that leaves the log alone keeps its types.                            *)
LEMMA SameLog == LogTyped /\ UNCHANGED logVars => LogTyped'
BY DEF LogTyped, logVars
(* The same of the poll.                                                        *)
LEMMA SamePoll == PollTyped /\ UNCHANGED pollVars => PollTyped'
BY DEF PollTyped, pollVars
(* The same of the phase.                                                       *)
LEMMA SamePhase == PhaseTyped /\ UNCHANGED phaseVars => PhaseTyped'
BY DEF PhaseTyped, phaseVars

(* The files as they are when there are none, and the poll at rest.            *)
LEMMA RestFacts ==
  /\ NoSnapshot \in SnapshotFile /\ NoSnapshot.marked = {}
  /\ \A t \in TaskId : NoSnapshot.status[t] = "absent"
  /\ InitialPhase(MaxFix) \in PhaseFile(MaxFix)
  /\ IdleMon \in Mon /\ IdleMon.prev = NoSnapshot /\ IdleMon.view = NoSnapshot.status
  /\ IdleMon.step = "idle"
  /\ NoHook \in [read : BOOLEAN, phase : PhaseFile(MaxFix)]
  /\ NoTail \in [step : {"none", "appended", "marking"}, seen : SnapshotFile]
  /\ NoTail.step = "none" /\ NoTail.seen = NoSnapshot
<1>1. NoSnapshot.status \in [TaskId -> TaskStatus] /\ NoSnapshot.marked = {}
  BY DEF NoSnapshot, TaskStatus
<1>2. NoSnapshot \in SnapshotFile /\ \A t \in TaskId : NoSnapshot.status[t] = "absent"
  BY <1>1 DEF NoSnapshot, SnapshotFile
<1>3. InitialPhase(MaxFix) \in PhaseFile(MaxFix)
  <2>1. 0 \in 0..MaxFix
    BY MonitorBoundAssumption
  <2> QED
    BY <2>1 DEF InitialPhase, PhaseFile, Phases
<1>4. IdleMon \in Mon /\ IdleMon.prev = NoSnapshot /\ IdleMon.view = NoSnapshot.status
  BY <1>1, <1>2, <1>3 DEF IdleMon, Mon, MonStep
<1> QED
  BY <1>1, <1>2, <1>3, <1>4 DEF NoHook, NoTail, IdleMon

(* An append counts the event of one task, up to two.                         *)
LEMMA AppendedFacts ==
  ASSUME NEW log \in [TaskId -> 0..2], NEW t \in TaskId
  PROVE  /\ Appended(log, t) \in [TaskId -> 0..2]
         /\ Appended(log, t)[t] = IF log[t] < 2 THEN log[t] + 1 ELSE 2
         /\ \A u \in TaskId : u # t => Appended(log, t)[u] = log[u]
BY DEF Appended

(* What a poll keeps of a list.                                              *)
LEMMA ViewFacts ==
  ASSUME TypeOK, NEW m \in Mon, NEW step \in MonStep
  PROVE  /\ View(m, step) \in Mon
         /\ View(m, step).step = step /\ View(m, step).prev = m.prev
         /\ View(m, step).todo = m.todo
         /\ View(m, step).view = [t \in TaskId |-> task[t].status]
<1> DEFINE v == [t \in TaskId |-> task[t].status]
           U == \E t \in TaskId : /\ task[t].status = "completed"
                                  /\ task[t].code /\ task[t].evidence = NoToken
           R == IF step = "phase" THEN {}
                ELSE {t \in TaskId : /\ task[t].status = "pending" /\ Ready(t)
                                     /\ task[t].owner = NoWorker}
<1>1. v \in [TaskId -> TaskStatus]
  BY DEF TypeOK, TaskFile
<1>2. R \in SUBSET TaskId
  OBVIOUS
<1>3. PICK b \in BOOLEAN : b = U
  OBVIOUS
<1>4. View(m, step) = [m EXCEPT !.step = step, !.dirty = FALSE, !.view = v,
                                !.unverified = U, !.ready = R]
  BY DEF View
<1> HIDE DEF v, U, R
<1>5. View(m, step) = [m EXCEPT !.step = step, !.dirty = FALSE, !.view = v,
                                !.unverified = b, !.ready = R]
  BY <1>3, <1>4
<1> QED
  BY <1>1, <1>2, <1>5 DEF Mon, v

(* Initially the types hold.                                                 *)
LEMMA MonitorTypeInit == MonitorInit => MonitorTypeOK
<1> SUFFICES ASSUME MonitorInit PROVE MonitorTypeOK
  OBVIOUS
<1>1. TypeOK
  BY InitIInv DEF MonitorInit, IInv
<1>2. events \in EventLog
  BY DEF MonitorInit, EventLog
<1>3. restarts \in 0..MaxRestart /\ failures \in 0..MaxHook
  BY MonitorBoundAssumption DEF MonitorInit
<1> QED
  BY <1>1, <1>2, <1>3, RestFacts DEF MonitorInit, MonitorTypeOK

(* Every step keeps the types of the board: it is a step of the board.          *)
LEMMA BoardKept ==
  ASSUME IInv, [MonitorNext]_vars
  PROVE  /\ IInv' /\ \A t \in TaskId : StepOK(t)
         /\ op.step # "free" => op.task \in TaskId
<1>1. [Next]_boardVars
  BY MonitorStepsAreBoardSteps DEF vars
<1>2. op.step # "free" => op.task \in TaskId
  BY DEF IInv, OpInFlight
<1> QED
  BY <1>1, <1>2, StepIInv

(* The event log and the snapshot.                                           *)
LEMMA LogTypeStep ==
  ASSUME IInv, MonitorTypeOK, MonitorNext
  PROVE  LogTyped'
<1> USE TypesInGroups
<1>1. CASE UNCHANGED logVars
  BY <1>1, SameLog
<1>2. CASE AppendCompleted
  <2>1. op.task \in TaskId
    BY <1>2 DEF AppendCompleted, IInv, OpInFlight
  <2>2. PICK log \in [TaskId -> 0..2] : log = Appended(events.direct, op.task)
    BY <2>1, AppendedFacts DEF LogTyped, EventLog
  <2>3. events' = [events EXCEPT !.direct = log]
    BY <1>2, <2>2 DEF AppendCompleted
  <2>4. events' \in EventLog
    BY <2>3 DEF LogTyped, EventLog
  <2> QED
    BY <1>2, <2>4 DEF AppendCompleted, LogTyped
<1>3. CASE AppendFailed
  <2>1. op.task \in TaskId
    BY <1>3 DEF AppendFailed, EndTransition, IInv, OpInFlight
  <2>2. PICK log \in [TaskId -> 0..2] : log = Appended(events.failed, op.task)
    BY <2>1, AppendedFacts DEF LogTyped, EventLog
  <2>3. events' = [events EXCEPT !.failed = log]
    BY <1>3, <2>2 DEF AppendFailed
  <2>4. events' \in EventLog
    BY <2>3 DEF LogTyped, EventLog
  <2> QED
    BY <1>3, <2>4 DEF AppendFailed, LogTyped
<1>4. CASE ReadSnapshotForMark
  BY <1>4 DEF ReadSnapshotForMark, LogTyped
<1>5. CASE MarkCompletion
  <2>1. op.task \in TaskId
    BY <1>5 DEF MarkCompletion, EndTransition, IInv, OpInFlight
  <2>2. snapshot' \in SnapshotFile
    BY <1>5, <2>1 DEF MarkCompletion, LogTyped, SnapshotFile
  <2> QED
    BY <1>5, <2>2, RestFacts DEF MarkCompletion, LogTyped
<1>6. CASE CrashOperation
  BY <1>6, RestFacts DEF CrashOperation, LogTyped
<1>7. ASSUME NEW t \in TaskId, MonEmit(t) PROVE LogTyped'
  <2>1. PICK log \in [TaskId -> 0..2] : log = Appended(events.derived, t)
    BY AppendedFacts DEF LogTyped, EventLog
  <2>2. events' = [events EXCEPT !.derived = log]
    BY <1>7, <2>1 DEF MonEmit
  <2>3. events' \in EventLog
    BY <2>2 DEF LogTyped, EventLog
  <2> QED
    BY <1>7, <2>3 DEF MonEmit, LogTyped
<1>8. CASE MonSave
  <2>1. mon.view \in [TaskId -> TaskStatus] /\ mon.prev.marked \in SUBSET TaskId
    BY DEF PollTyped, Mon, SnapshotFile
  <2> QED
    BY <1>8, <2>1 DEF MonSave, LogTyped, SnapshotFile
<1>9. CASE BoardStep \/ MonStart \/ MonReadPhase \/ MonAssigned \/ MonAssignFailed \/ MonCrash
           \/ HookRead \/ HookWrite \/ UnderBarrier
           \/ (\E stall \in BOOLEAN : MonWritePhase(stall))
           \/ (\E t \in TaskId, w \in Worker : MonAssign(t, w))
           \/ (\E how \in {"gated", "forced"} : ShutdownTeam(how))
  <2>1. UNCHANGED logVars
    BY <1>9 DEF BoardStep, MonStart, MonReadPhase, MonAssigned, MonAssignFailed, MonCrash,
         HookRead, HookWrite, UnderBarrier, MonList, MonRelist, MonReclaim, MonWritePhase,
         MonAssign, ShutdownTeam
  <2> QED
    BY <2>1, SameLog
<1> QED
  BY <1>2, <1>3, <1>4, <1>5, <1>6, <1>7, <1>8, <1>9 DEF MonitorNext, TransitionTail,
     OutsideBarrier

(* The poll.                                                                 *)
LEMMA PollTypeStep ==
  ASSUME MonitorTypeOK, MonitorNext
  PROVE  PollTyped'
<1> USE TypesInGroups DEF PollTyped
<1>1. CASE CrashOperation
  BY <1>1, RestFacts DEF CrashOperation
<1>2. CASE MonStart
  BY <1>2 DEF MonStart, Mon, MonStep, LogTyped
<1>3. CASE MonReadPhase
  BY <1>3 DEF MonReadPhase, Mon, MonStep, PhaseTyped
<1>4. CASE MonSave
  BY <1>4, RestFacts DEF MonSave
<1>5. ASSUME NEW stall \in BOOLEAN, MonWritePhase(stall) PROVE PollTyped'
  <2>1. CompletedSinceSnapshot \in SUBSET TaskId
    BY DEF CompletedSinceSnapshot
  <2>2. mon' \in Mon
    BY <1>5, <2>1, RestFacts DEF MonWritePhase, Mon, MonStep
  <2> QED
    BY <1>5, <2>2 DEF MonWritePhase
<1>6. ASSUME NEW t \in TaskId, MonEmit(t) PROVE PollTyped'
  BY <1>6 DEF MonEmit, Mon
<1>7. CASE MonList
  <2> DEFINE S == {t \in TaskId : task[t].status = "in_progress"}
  <2>1. View(mon, "reclaim") \in Mon
    BY ViewFacts DEF MonStep
  <2>2. mon' = [View(mon, "reclaim") EXCEPT !.todo = S]
    BY <1>7 DEF MonList
  <2>3. S \in SUBSET TaskId
    OBVIOUS
  <2> HIDE DEF S
  <2>4. mon' \in Mon
    BY <2>1, <2>2, <2>3 DEF Mon
  <2> QED
    BY <1>7, <2>4 DEF MonList
<1>8. CASE MonRelist
  <2>1. mon' \in Mon
    BY <1>8, ViewFacts DEF MonRelist, MonStep
  <2> QED
    BY <1>8, <2>1 DEF MonRelist
<1>9. ASSUME NEW t \in TaskId, MonReclaim(t) PROVE PollTyped'
  <2>1. PICK b \in BOOLEAN : b = (mon.dirty \/ Reclaimable(task[t]))
    OBVIOUS
  <2>2. mon' = [mon EXCEPT !.todo = @ \ {t}, !.dirty = b]
    BY <1>9, <2>1 DEF MonReclaim
  <2>3. mon' \in Mon
    BY <2>2 DEF Mon
  <2> QED
    BY <1>9, <2>3 DEF MonReclaim
<1>10. ASSUME NEW t \in TaskId, NEW w \in Worker, MonAssign(t, w) PROVE PollTyped'
  BY <1>10 DEF MonAssign, Mon, MonStep
<1>11. CASE MonAssigned
  BY <1>11 DEF MonAssigned, Mon, MonStep
<1>12. CASE MonAssignFailed
  BY <1>12 DEF MonAssignFailed, Mon, MonStep
<1>13. CASE MonCrash
  <2>1. restarts' \in 0..MaxRestart
    BY <1>13, MonitorBoundAssumption DEF MonCrash
  <2> QED
    BY <1>13, <2>1, RestFacts DEF MonCrash
<1>14. CASE BoardStep \/ TransitionTail \/ HookRead \/ HookWrite
            \/ (\E how \in {"gated", "forced"} : ShutdownTeam(how))
  <2>1. UNCHANGED pollVars
    BY <1>14 DEF BoardStep, TransitionTail, AppendCompleted, AppendFailed, ReadSnapshotForMark,
         MarkCompletion, HookRead, HookWrite, ShutdownTeam
  <2> QED
    BY <2>1 DEF pollVars
<1> QED
  BY <1>1, <1>2, <1>3, <1>4, <1>5, <1>6, <1>7, <1>8, <1>9, <1>10, <1>11, <1>12, <1>13, <1>14
     DEF MonitorNext, OutsideBarrier, UnderBarrier

(* The phase, and what the hook is about to make of it.                        *)
LEMMA PhaseTypeStep ==
  ASSUME MonitorTypeOK, MonitorNext
  PROVE  PhaseTyped'
<1> USE TypesInGroups DEF PhaseTyped
<1>1. ASSUME NEW stall \in BOOLEAN, MonWritePhase(stall) PROVE PhaseTyped'
  <2>1. PICK target \in Phases : phase' = Reconcile(mon.phase, target)
    BY <1>1 DEF MonWritePhase, InferTarget, Phases, TerminalPhases
  <2>2. phase' \in PhaseFile(MaxFix)
    BY <2>1, ReconcileKeepsFile, MonitorBoundAssumption DEF PollTyped, Mon
  <2> QED
    BY <1>1, <2>2 DEF MonWritePhase
<1>2. ASSUME NEW how \in {"gated", "forced"}, ShutdownTeam(how) PROVE PhaseTyped'
  <2>1. phase' \in PhaseFile(MaxFix)
    BY <1>2 DEF ShutdownTeam, PhaseFile
  <2>2. gated' \in BOOLEAN
    BY <1>2 DEF ShutdownTeam
  <2> QED
    BY <1>2, <2>1, <2>2 DEF ShutdownTeam
<1>3. CASE HookRead
  <2>1. failures' \in 0..MaxHook
    BY <1>3, MonitorBoundAssumption DEF HookRead
  <2>2. PICK f \in PhaseFile(MaxFix) : f = [phase EXCEPT !.current = "failed", !.epoch = FALSE]
    BY DEF PhaseFile, Phases, TerminalPhases
  <2>3. hook' = [read |-> TRUE, phase |-> f]
    BY <1>3, <2>2 DEF HookRead
  <2> QED
    BY <1>3, <2>1, <2>3 DEF HookRead
<1>4. CASE HookWrite
  BY <1>4, RestFacts DEF HookWrite
<1>5. CASE BoardStep \/ TransitionTail \/ CrashOperation \/ MonStart \/ MonReadPhase \/ MonSave
           \/ UnderBarrier \/ MonAssigned \/ MonAssignFailed \/ MonCrash
           \/ (\E t \in TaskId : MonEmit(t)) \/ (\E t \in TaskId, w \in Worker : MonAssign(t, w))
  <2>1. UNCHANGED phaseVars
    BY <1>5 DEF BoardStep, TransitionTail, AppendCompleted, AppendFailed, ReadSnapshotForMark,
         MarkCompletion, CrashOperation, MonStart, MonReadPhase, MonSave, UnderBarrier, MonList,
         MonRelist, MonReclaim, MonAssigned, MonAssignFailed, MonCrash, MonEmit, MonAssign
  <2> QED
    BY <2>1 DEF phaseVars
<1> QED
  BY <1>1, <1>2, <1>3, <1>4, <1>5 DEF MonitorNext, OutsideBarrier

(* Every step keeps every type.                                                 *)
LEMMA MonitorTypeStep ==
  ASSUME IInv, MonitorTypeOK, [MonitorNext]_vars
  PROVE  MonitorTypeOK'
<1>1. TypeOK'
  BY BoardKept DEF IInv
<1>2. CASE MonitorNext
  <2>1. LogTyped' /\ PollTyped' /\ PhaseTyped'
    BY <1>2, LogTypeStep, PollTypeStep, PhaseTypeStep
  <2> QED
    BY <1>1, <2>1 DEF MonitorTypeOK, LogTyped, PollTyped, PhaseTyped
<1>3. CASE UNCHANGED vars
  BY <1>1, <1>3 DEF vars, boardVars, logVars, pollVars, phaseVars, MonitorTypeOK
<1> QED
  BY <1>2, <1>3

(* The invariant of the board and the types hold always.                         *)
LEMMA MonitorInvariance == MonitorSpec => [](IInv /\ MonitorTypeOK)
<1>1. MonitorInit => IInv /\ MonitorTypeOK
  BY MonitorTypeInit, InitIInv DEF MonitorInit
<1>2. (IInv /\ MonitorTypeOK) /\ [MonitorNext]_vars => (IInv /\ MonitorTypeOK)'
  BY MonitorTypeStep, BoardKept
<1> QED
  BY <1>1, <1>2, PTL DEF MonitorSpec

(* Every variable of the composed system keeps its type: snapshot, event        *)
(* log, phase.json and what a poll or a hook has read of them.                  *)
THEOREM MonitorTypeCorrect == MonitorSpec => []MonitorTypeOK
BY MonitorInvariance, PTL

(* The poll never asks transitionPhase for an edge it rejects, from whatever     *)
(* phase and to whatever target.                                              *)
THEOREM PollsNeverThrow == MonitorSpec => []PollNeverThrows
<1>1. MonitorTypeOK => PollNeverThrows
  BY PathsAreLegal DEF MonitorTypeOK, PhaseFile, PollNeverThrows
<1> QED
  BY <1>1, MonitorTypeCorrect, PTL

(* From one phase file to the next no round of fixing is forgotten and a new one   *)
(* is counted, unless the team is made to fail.                                *)
Onward(s, r) ==
  r.current # "failed" =>
    /\ r.attempt >= s.attempt
    /\ r.current = "team-fix" /\ s.current # "team-fix" => r.attempt > s.attempt

(* A leg of the walk goes onward.                                               *)
LEMMA LegGoesOnward ==
  ASSUME NEW m \in Nat, NEW s \in PhaseFile(m), NEW r \in PhaseFile(m), Onward(s, r),
         NEW path \in Seq(Phases), NEW i \in Nat \ {0}
  PROVE  Onward(s, Leg(r, path, i))
<1>1. CASE Leg(r, path, i) = r
  BY <1>1
<1>2. CASE Leg(r, path, i) # r
  <2>1. PICK to \in Phases : /\ r.current # to /\ r.current \notin TerminalPhases
                             /\ Leg(r, path, i) = TransitionPhase(r, to)
    BY <1>2 DEF Leg
  <2>2. r.attempt \in Nat /\ s.attempt \in Nat
    BY DEF PhaseFile
  <2>3. CASE to = "team-fix" /\ r.attempt + 1 > r.max
    BY <2>1, <2>3 DEF TransitionPhase, PhaseFile, Onward
  <2>4. CASE to = "team-fix" /\ ~(r.attempt + 1 > r.max)
    BY <2>1, <2>2, <2>4 DEF TransitionPhase, PhaseFile, Onward, TerminalPhases
  <2>5. CASE to # "team-fix"
    BY <2>1, <2>2, <2>5 DEF TransitionPhase, PhaseFile, Onward, TerminalPhases
  <2> QED
    BY <2>3, <2>4, <2>5
<1> QED
  BY <1>1, <1>2

(* What the poll makes of a phase that is not terminal is onward of it.            *)
LEMMA ReconcileGoesOnward ==
  ASSUME NEW m \in Nat, NEW s \in PhaseFile(m), NEW target \in Phases,
         s.current \notin TerminalPhases
  PROVE  Onward(s, Reconcile(s, target))
<1>0. Onward(s, s)
  BY DEF Onward, PhaseFile
<1>1. CASE s.epoch \/ s.current = target
  BY <1>0, <1>1 DEF Reconcile
<1>2. CASE ~s.epoch /\ s.current # target
  <2> DEFINE path == BuildPath(s.current, target)
             s1 == Leg(s, path, 1)
             s2 == Leg(s1, path, 2)
             s3 == Leg(s2, path, 3)
  <2>1. Reconcile(s, target) = Leg(s3, path, 4)
    BY <1>2 DEF Reconcile, Walk
  <2>2. path \in Seq(Phases)
    BY PathsAreLegal DEF PhaseFile
  <2> HIDE DEF path
  <2>3. s1 \in PhaseFile(m) /\ Onward(s, s1)
    BY <1>0, <2>2, LegKeepsFile, LegGoesOnward
  <2> HIDE DEF s1
  <2>4. s2 \in PhaseFile(m) /\ Onward(s, s2)
    BY <2>2, <2>3, LegKeepsFile, LegGoesOnward
  <2> HIDE DEF s2
  <2>5. s3 \in PhaseFile(m) /\ Onward(s, s3)
    BY <2>2, <2>4, LegKeepsFile, LegGoesOnward
  <2> HIDE DEF s3
  <2>6. Onward(s, Leg(s3, path, 4))
    BY <2>2, <2>5, LegGoesOnward
  <2> QED
    BY <2>1, <2>6
<1> QED
  BY <1>1, <1>2

(* A copy of phase.json that is about to be written: the poll's is what the file    *)
(* says but for an epoch, until somebody else makes it terminal; the hook's is a     *)
(* failure.                                                                    *)
CopiesFollow ==
  /\ mon.step = "reconcile" =>
       \/ phase.current \in TerminalPhases
       \/ phase.current = mon.phase.current /\ phase.attempt = mon.phase.attempt
  /\ hook.read => hook.phase.current = "failed"

(* Every step keeps the copies so.                                              *)
LEMMA CopiesFollowStep ==
  ASSUME MonitorTypeOK, CopiesFollow, MonitorNext
  PROVE  CopiesFollow'
<1> USE DEF CopiesFollow
<1>1. CASE MonReadPhase
  <2>1. mon'.phase = phase /\ UNCHANGED <<phase, hook>>
    BY <1>1 DEF MonReadPhase, MonitorTypeOK, Mon, phaseVars
  <2> QED
    BY <2>1
<1>2. ASSUME NEW how \in {"gated", "forced"}, ShutdownTeam(how) PROVE CopiesFollow'
  <2>1. phase'.current = phase.current /\ phase'.attempt = phase.attempt
    BY <1>2 DEF ShutdownTeam, MonitorTypeOK, PhaseFile
  <2> QED
    BY <1>2, <2>1 DEF ShutdownTeam, pollVars
<1>3. CASE HookRead
  <2>1. hook'.phase.current = "failed" /\ UNCHANGED <<mon, phase>>
    BY <1>3 DEF HookRead, MonitorTypeOK, PhaseFile, pollVars
  <2> QED
    BY <2>1
<1>4. CASE HookWrite
  <2>1. phase'.current = "failed" /\ ~hook'.read
    BY <1>4 DEF HookWrite, NoHook
  <2> QED
    BY <2>1 DEF TerminalPhases
<1>5. ASSUME NEW stall \in BOOLEAN, MonWritePhase(stall) PROVE CopiesFollow'
  <2>1. mon'.step = "emit" /\ hook' = hook
    BY <1>5 DEF MonWritePhase, MonitorTypeOK, Mon
  <2> QED
    BY <2>1
<1>6. CASE BoardStep \/ TransitionTail \/ CrashOperation \/ MonStart \/ MonSave \/ UnderBarrier
           \/ MonAssigned \/ MonAssignFailed \/ MonCrash
           \/ (\E t \in TaskId : MonEmit(t)) \/ (\E t \in TaskId, w \in Worker : MonAssign(t, w))
  <2>1. UNCHANGED <<phase, hook>>
    BY <1>6 DEF BoardStep, TransitionTail, AppendCompleted, AppendFailed, ReadSnapshotForMark,
         MarkCompletion, CrashOperation, MonStart, MonSave, UnderBarrier, MonList, MonRelist,
         MonReclaim, MonAssigned, MonAssignFailed, MonCrash, MonEmit, MonAssign, phaseVars
  <2>2. mon' = mon \/ mon'.step # "reconcile"
    <3>1. CASE BoardStep \/ TransitionTail \/ CrashOperation \/ MonCrash \/ MonSave
      BY <3>1 DEF BoardStep, TransitionTail, AppendCompleted, AppendFailed, ReadSnapshotForMark,
           MarkCompletion, CrashOperation, MonCrash, MonSave, IdleMon, pollVars
    <3>2. CASE MonStart \/ MonAssigned \/ MonAssignFailed
               \/ (\E t \in TaskId : MonEmit(t)) \/ (\E t \in TaskId, w \in Worker : MonAssign(t, w))
      BY <3>2 DEF MonStart, MonAssigned, MonAssignFailed, MonEmit, MonAssign, MonitorTypeOK, Mon
    <3>3. CASE UnderBarrier
      BY <3>3 DEF UnderBarrier, MonList, MonRelist, MonReclaim, View, MonitorTypeOK, Mon
    <3> QED
      BY <1>6, <3>1, <3>2, <3>3
  <2> QED
    BY <2>1, <2>2
<1> QED
  BY <1>1, <1>2, <1>3, <1>4, <1>5, <1>6 DEF MonitorNext, OutsideBarrier

(* No poll and no hook, however old the phase it read, forgets a round of fixing    *)
(* before the team has completed, failed or is made to fail; each new one counts.    *)
THEOREM FixRoundsAreCounted == MonitorSpec => FixRoundsCounted
<1> DEFINE Counts ==
      phase.current \notin TerminalPhases /\ phase'.current # "failed" =>
        /\ phase'.attempt >= phase.attempt
        /\ phase'.current = "team-fix" /\ phase.current # "team-fix"
             => phase'.attempt > phase.attempt
<1>1. MonitorInit => CopiesFollow
  BY DEF MonitorInit, CopiesFollow, IdleMon, NoHook
<1>2. MonitorTypeOK /\ CopiesFollow /\ [MonitorNext]_vars => CopiesFollow'
  <2> SUFFICES ASSUME MonitorTypeOK, CopiesFollow, [MonitorNext]_vars PROVE CopiesFollow'
    OBVIOUS
  <2>1. CASE UNCHANGED vars
    BY <2>1 DEF vars, pollVars, phaseVars, CopiesFollow
  <2> QED
    BY <2>1, CopiesFollowStep
<1>3. MonitorTypeOK /\ CopiesFollow /\ MonitorNext => Counts
  <2> SUFFICES ASSUME MonitorTypeOK, CopiesFollow, MonitorNext,
                      phase.current \notin TerminalPhases, phase'.current # "failed"
               PROVE  /\ phase'.attempt >= phase.attempt
                      /\ phase'.current = "team-fix" /\ phase.current # "team-fix"
                           => phase'.attempt > phase.attempt
    OBVIOUS
  <2>1. phase.attempt \in Nat
    BY DEF MonitorTypeOK, PhaseFile
  <2>2. ASSUME NEW stall \in BOOLEAN, MonWritePhase(stall) PROVE Onward(mon.phase, phase')
    <3>1. PICK target \in Phases : phase' = Reconcile(mon.phase, target)
      BY <2>2 DEF MonWritePhase, InferTarget, Phases, TerminalPhases
    <3>2. mon.phase \in PhaseFile(MaxFix) /\ mon.phase.current = phase.current
      BY <2>2 DEF MonWritePhase, CopiesFollow, MonitorTypeOK, Mon
    <3> QED
      BY <3>1, <3>2, ReconcileGoesOnward, MonitorBoundAssumption
  <2>3. ASSUME NEW stall \in BOOLEAN, MonWritePhase(stall)
        PROVE  mon.phase.current = phase.current /\ mon.phase.attempt = phase.attempt
    BY <2>3 DEF MonWritePhase, CopiesFollow
  <2>4. CASE \E how \in {"gated", "forced"} : ShutdownTeam(how)
    <3>1. phase'.current = phase.current /\ phase'.attempt = phase.attempt
      BY <2>4 DEF ShutdownTeam, MonitorTypeOK, PhaseFile
    <3> QED
      BY <2>1, <3>1
  <2>5. CASE HookWrite
    BY <2>5 DEF HookWrite, CopiesFollow
  <2>6. CASE BoardStep \/ TransitionTail \/ CrashOperation \/ MonStart \/ MonReadPhase \/ MonSave
             \/ UnderBarrier \/ MonAssigned \/ MonAssignFailed \/ MonCrash \/ HookRead
             \/ (\E t \in TaskId : MonEmit(t)) \/ (\E t \in TaskId, w \in Worker : MonAssign(t, w))
    <3>1. phase' = phase
      BY <2>6 DEF BoardStep, TransitionTail, AppendCompleted, AppendFailed, ReadSnapshotForMark,
           MarkCompletion, CrashOperation, MonStart, MonReadPhase, MonSave, UnderBarrier, MonList,
           MonRelist, MonReclaim, MonAssigned, MonAssignFailed, MonCrash, HookRead, MonEmit,
           MonAssign, phaseVars
    <3> QED
      BY <2>1, <3>1
  <2>7. CASE \E stall \in BOOLEAN : MonWritePhase(stall)
    BY <2>2, <2>3, <2>7 DEF Onward
  <2> QED
    BY <2>4, <2>5, <2>6, <2>7 DEF MonitorNext, OutsideBarrier
<1>4. MonitorTypeOK /\ CopiesFollow /\ [MonitorNext]_vars => [Counts]_vars
  BY <1>3
<1> QED
  BY <1>1, <1>2, <1>4, MonitorTypeCorrect, PTL DEF MonitorSpec, FixRoundsCounted

-----------------------------------------------------------------------------
(* The event log against the task files. A mark is made from the snapshot read    *)
(* before it, and the monitor saves the marks it read when its poll began; so    *)
(* every copy of the marks has to be borne out, not only the file. An outcome    *)
(* is written before it is announced: between the two the task has no event of   *)
(* its transition yet, and what the monitor has listed as completed is so.       *)
Announced(S) == \A t \in S : events.direct[t] > 0
MarksAnnounced ==
  /\ MarkImpliesAnnounced
  /\ Announced(mon.prev.marked) /\ Announced(tail.seen.marked)
TailAnnounced ==
  tail.step # "none" => op.step = "written" /\ op.to = "completed" /\ events.direct[op.task] > 0
WrittenOutcome ==
  op.step = "written" =>
    /\ task[op.task].status = op.to
    /\ tail.step = "none" => events.direct[op.task] = 0 /\ events.failed[op.task] = 0
ViewIsPast ==
  /\ \A t \in TaskId : mon.view[t] = "completed" => task[t].status = "completed"
  /\ mon.step = "emit" => \A t \in mon.todo : task[t].status = "completed"

LogInv == MarksAnnounced /\ EventsTellTheTruth /\ TailAnnounced /\ WrittenOutcome /\ ViewIsPast

(* At first nothing is announced, marked or listed.                             *)
LEMMA LogInvInit == MonitorInit => LogInv
<1> SUFFICES ASSUME MonitorInit PROVE LogInv
  OBVIOUS
<1>1. \A t \in TaskId : events.direct[t] = 0 /\ events.derived[t] = 0 /\ events.failed[t] = 0
  BY DEF MonitorInit
<1>2. MarksAnnounced
  BY RestFacts DEF MonitorInit, MarksAnnounced, Announced, MarkImpliesAnnounced
<1>3. EventsTellTheTruth
  BY <1>1 DEF EventsTellTheTruth
<1>4. TailAnnounced /\ WrittenOutcome
  BY RestFacts DEF MonitorInit, Init, FreeOp, TailAnnounced, WrittenOutcome
<1>5. ViewIsPast
  BY RestFacts DEF MonitorInit, ViewIsPast
<1> QED
  BY <1>2, <1>3, <1>4, <1>5 DEF LogInv

(* What is completed or failed stays so, so a step that appends nothing keeps    *)
(* the log true, and one that lists nothing keeps the view past.                *)
LEMMA StaysFinished ==
  ASSUME \A t \in TaskId : StepOK(t)
  PROVE  \A t \in TaskId : task[t].status \in {"completed", "failed"}
                             => task'[t].status = task[t].status
BY DEF StepOK, TerminalStatus

(* A step that appends nothing keeps the log true.                              *)
LEMMA SameEvents ==
  ASSUME EventsTellTheTruth, \A t \in TaskId : StepOK(t), events' = events
  PROVE  EventsTellTheTruth'
BY StaysFinished DEF EventsTellTheTruth

(* A step that lists nothing keeps the view past.                               *)
LEMMA SameView ==
  ASSUME ViewIsPast, \A t \in TaskId : StepOK(t), mon \in Mon, mon'.view = mon.view,
         mon'.step = "emit" => mon.step = "emit" /\ mon'.todo \subseteq mon.todo
  PROVE  ViewIsPast'
<1>1. \A t \in TaskId : task[t].status = "completed" => task'[t].status = "completed"
  BY StaysFinished
<1> QED
  BY <1>1 DEF ViewIsPast, Mon

(* A poll at rest has no view.                                                  *)
LEMMA RestView == mon' = IdleMon => ViewIsPast'
BY RestFacts DEF ViewIsPast

(* The board's own steps, before an outcome is written and after.               *)
LEMMA LogInvBoard ==
  ASSUME IInv, IInv', MonitorTypeOK, LogInv, \A t \in TaskId : StepOK(t), BoardStep
  PROVE  LogInv'
<1>1. UNCHANGED <<snapshot, events, tail, mon>>
  BY DEF BoardStep, logVars, pollVars
<1>2. MarksAnnounced'
  BY <1>1 DEF LogInv, MarksAnnounced, Announced, MarkImpliesAnnounced
<1>3. EventsTellTheTruth' /\ ViewIsPast'
  BY <1>1, SameEvents, SameView DEF LogInv, MonitorTypeOK
<1>4. CASE WriteTransition
  <2> DEFINE t == op.task
  <2>1. /\ op.step = "checked" /\ op' = [op EXCEPT !.step = "written", !.file = NoFile,
                                                  !.evidence = NoToken]
        /\ task' = [task EXCEPT ![t] = Finished(op.file, op.to, op.evidence)]
    BY <1>4 DEF WriteTransition
  <2>2. /\ t \in TaskId /\ task[t].status = "in_progress" /\ op.to \in TerminalStatus
        /\ op.file \in TaskFile
    BY <2>1 DEF IInv, OpInFlight, InFlightOwnsClaim, SameButLease, CanTransition, TypeOK, Op,
         TaskFile
  <2>3. op'.step = "written" /\ op'.to = op.to /\ op'.task = t
    BY <2>1 DEF IInv, TypeOK, Op
  <2>4. task'[t].status = op.to
    BY <2>1, <2>2 DEF Finished, TaskFile, IInv, TypeOK
  <2>5. events.direct[t] \in 0..2 /\ events.derived[t] \in 0..2 /\ events.failed[t] \in 0..2
    BY <2>2 DEF MonitorTypeOK, EventLog
  <2>6. events.direct[t] = 0 /\ events.failed[t] = 0
    BY <2>2, <2>5 DEF LogInv, EventsTellTheTruth
  <2>7. tail.step = "none"
    BY <2>1 DEF LogInv, TailAnnounced
  <2> HIDE DEF t
  <2>8. TailAnnounced' /\ WrittenOutcome'
    BY <1>1, <2>3, <2>4, <2>6, <2>7 DEF TailAnnounced, WrittenOutcome
  <2> QED
    BY <1>2, <1>3, <2>8 DEF LogInv
<1>5. CASE ~WriteTransition
  <2>1. /\ op'.step = "written" <=> op.step = "written"
        /\ op.step = "written" => op' = op
    <3>1. CASE Tick
      BY <3>1 DEF Tick
    <3>2. CASE op.step = "free" /\ op' = op
      BY <3>2
    <3>3. CASE op.step = "free" /\ op'.step \in {"created", "checked"}
      BY <3>3
    <3>4. CASE AdvanceCounter \/ RefreshAssigned
      BY <3>4 DEF AdvanceCounter, RefreshAssigned, FreeOp, IInv, TypeOK, Op
    <3>5. ASSUME NEW owner \in Worker \cup {NoWorker}, NEW deps \in DepChoice,
                 NEW code \in CodeChoice, CreateTask(owner, deps, code)
          PROVE  op.step = "free" /\ op'.step = "created"
      BY <3>5 DEF CreateTask, BarrierFree, FreeOp
    <3>6. ASSUME NEW t \in TaskId, NEW to \in TerminalStatus, NEW token \in Token,
                 NEW evidence \in Token \cup {NoToken}, CheckTransition(t, to, token, evidence)
          PROVE  op.step = "free" /\ op'.step = "checked"
      BY <3>6 DEF CheckTransition, BarrierFree
    <3>7. ASSUME \/ \E t \in TaskId, deps \in DepChoice, code \in CodeChoice :
                      UpdateTask(t, deps, code)
                 \/ \E t \in TaskId, w \in Worker : ClaimTask(t, w)
                 \/ \E t \in TaskId, token \in Token : ReleaseTaskClaim(t, token)
                 \/ \E w \in Worker : ScaleDown(w)
          PROVE  op.step = "free" /\ op' = op
      BY <3>7 DEF UpdateTask, ClaimTask, ReleaseTaskClaim, ScaleDown, BarrierFree
    <3> QED
      BY <1>5, <3>1, <3>2, <3>3, <3>4, <3>5, <3>6, <3>7 DEF BoardStep
  <2>2. op.step = "written" => op.task \in TaskId /\ op.to \in TerminalStatus \cup {"none"}
    BY DEF IInv, OpInFlight, TypeOK, Op
  <2>3. op.step = "written" => op.to \in {"completed", "failed"}
    BY <2>2 DEF LogInv, WrittenOutcome, IInv, TypeOK, TaskFile, TaskStatus, TerminalStatus
  <2>4. op.step = "written" => task'[op.task].status = task[op.task].status
    BY <2>2, <2>3, StaysFinished DEF LogInv, WrittenOutcome
  <2>5. TailAnnounced' /\ WrittenOutcome'
    BY <1>1, <2>1, <2>4 DEF LogInv, TailAnnounced, WrittenOutcome
  <2> QED
    BY <1>2, <1>3, <2>5 DEF LogInv
<1> QED
  BY <1>4, <1>5

(* An event more is no fewer: marks that were borne out still are.             *)
LEMMA MoreEvents ==
  ASSUME NEW t \in TaskId, events \in EventLog, events'.direct = Appended(events.direct, t)
  PROVE  /\ events'.direct[t] > 0
         /\ \A u \in TaskId : events.direct[u] > 0 => events'.direct[u] > 0
<1>1. events.direct \in [TaskId -> 0..2]
  BY DEF EventLog
<1>2. /\ events'.direct[t] = IF events.direct[t] < 2 THEN events.direct[t] + 1 ELSE 2
      /\ \A u \in TaskId : u # t => events'.direct[u] = events.direct[u]
      /\ events.direct[t] \in 0..2
  BY <1>1, AppendedFacts
<1> QED
  BY <1>2

(* The end of a transition: the event, then the mark.                          *)
LEMMA LogInvTail ==
  ASSUME IInv, MonitorTypeOK, LogInv, \A t \in TaskId : StepOK(t), TransitionTail
  PROVE  LogInv'
<1> DEFINE t == op.task
<1>1. op.step = "written" /\ t \in TaskId /\ task' = task /\ mon' = mon
  BY DEF TransitionTail, AppendCompleted, AppendFailed, ReadSnapshotForMark, MarkCompletion,
     EndTransition, boardVars, pollVars, IInv, OpInFlight, LogInv, TailAnnounced
<1>2. ViewIsPast'
  BY <1>1, SameView DEF LogInv, MonitorTypeOK
<1>3. CASE AppendCompleted
  <2>1. /\ op.to = "completed" /\ tail.step = "none" /\ op' = op /\ snapshot' = snapshot
        /\ events' = [events EXCEPT !.direct = Appended(@, t)]
        /\ tail' = [tail EXCEPT !.step = "appended"]
    BY <1>3 DEF AppendCompleted, boardVars
  <2> HIDE DEF t
  <2>2. /\ events'.direct = Appended(events.direct, t) /\ events'.derived = events.derived
        /\ events'.failed = events.failed
        /\ events.direct \in [TaskId -> 0..2] /\ events.failed \in [TaskId -> 0..2]
        /\ events.derived \in [TaskId -> 0..2]
    BY <2>1 DEF MonitorTypeOK, EventLog
  <2>3. /\ events'.direct[t] > 0
        /\ \A u \in TaskId : events.direct[u] > 0 => events'.direct[u] > 0
    BY <1>1, <2>2, MoreEvents DEF MonitorTypeOK
  <2>4. tail'.step = "appended" /\ tail'.seen = tail.seen
    BY <2>1 DEF MonitorTypeOK
  <2>5. MarksAnnounced'
    BY <1>1, <2>1, <2>3, <2>4 DEF LogInv, MarksAnnounced, Announced, MarkImpliesAnnounced,
       MonitorTypeOK, Mon, SnapshotFile
  <2>6. events.direct[t] = 0 /\ events.failed[t] = 0 /\ task[t].status = "completed"
    BY <1>1, <2>1 DEF LogInv, WrittenOutcome, t
  <2>7. EventsTellTheTruth'
    <3> SUFFICES ASSUME NEW u \in TaskId
                 PROVE  /\ events'.direct[u] + events'.failed[u] <= 1
                        /\ events'.direct[u] + events'.derived[u] > 0
                             => task[u].status = "completed"
                        /\ events'.failed[u] > 0 => task[u].status = "failed"
      BY <1>1 DEF EventsTellTheTruth
    <3>1. CASE u = t
      <4>1. events'.direct[t] = 1
        BY <1>1, <2>2, <2>6, AppendedFacts
      <4> QED
        BY <2>2, <2>6, <3>1, <4>1
    <3>2. CASE u # t
      <4>1. \A v \in TaskId : v # t => Appended(events.direct, t)[v] = events.direct[v]
        BY <1>1, <2>2, AppendedFacts
      <4>2. events'.direct[u] = events.direct[u]
        BY <2>2, <3>2, <4>1
      <4> QED
        BY <2>2, <4>2 DEF LogInv, EventsTellTheTruth
    <3> QED
      BY <3>1, <3>2
  <2>8. TailAnnounced' /\ WrittenOutcome'
    BY <1>1, <2>1, <2>3, <2>4 DEF LogInv, TailAnnounced, WrittenOutcome, t
  <2> QED
    BY <1>2, <2>5, <2>7, <2>8 DEF LogInv
<1>4. CASE AppendFailed
  <2>1. /\ op.to = "failed" /\ op'.step = "free" /\ snapshot' = snapshot /\ tail' = tail
        /\ events' = [events EXCEPT !.failed = Appended(@, t)]
    BY <1>4 DEF AppendFailed, EndTransition, FreeOp
  <2> HIDE DEF t
  <2>2. /\ events'.failed = Appended(events.failed, t) /\ events'.derived = events.derived
        /\ events'.direct = events.direct
        /\ events.direct \in [TaskId -> 0..2] /\ events.failed \in [TaskId -> 0..2]
        /\ events.derived \in [TaskId -> 0..2]
    BY <2>1 DEF MonitorTypeOK, EventLog
  <2>3. tail.step = "none"
    BY <2>1 DEF LogInv, TailAnnounced
  <2>4. MarksAnnounced'
    BY <1>1, <2>1, <2>2 DEF LogInv, MarksAnnounced, Announced, MarkImpliesAnnounced
  <2>5. events.direct[t] = 0 /\ events.failed[t] = 0 /\ task[t].status = "failed"
    BY <1>1, <2>1, <2>3 DEF LogInv, WrittenOutcome, t
  <2>6. EventsTellTheTruth'
    <3> SUFFICES ASSUME NEW u \in TaskId
                 PROVE  /\ events'.direct[u] + events'.failed[u] <= 1
                        /\ events'.direct[u] + events'.derived[u] > 0
                             => task[u].status = "completed"
                        /\ events'.failed[u] > 0 => task[u].status = "failed"
      BY <1>1 DEF EventsTellTheTruth
    <3>1. CASE u = t
      <4>1. events'.failed[t] = 1
        BY <1>1, <2>2, <2>5, AppendedFacts
      <4>2. events.direct[t] + events.derived[t] > 0 => task[t].status = "completed"
        BY <1>1 DEF LogInv, EventsTellTheTruth
      <4> QED
        BY <2>2, <2>5, <3>1, <4>1, <4>2
    <3>2. CASE u # t
      <4>1. \A v \in TaskId : v # t => Appended(events.failed, t)[v] = events.failed[v]
        BY <1>1, <2>2, AppendedFacts
      <4>2. events'.failed[u] = events.failed[u]
        BY <2>2, <3>2, <4>1
      <4> QED
        BY <2>2, <4>2 DEF LogInv, EventsTellTheTruth
    <3> QED
      BY <3>1, <3>2
  <2>7. TailAnnounced' /\ WrittenOutcome'
    BY <2>1, <2>3 DEF TailAnnounced, WrittenOutcome
  <2> QED
    BY <1>2, <2>4, <2>6, <2>7 DEF LogInv
<1>5. CASE ReadSnapshotForMark
  <2>1. /\ tail.step = "appended" /\ op' = op /\ snapshot' = snapshot /\ events' = events
        /\ tail' = [step |-> "marking", seen |-> snapshot]
    BY <1>5 DEF ReadSnapshotForMark, Markable, boardVars
  <2>2. EventsTellTheTruth'
    BY <2>1, SameEvents DEF LogInv
  <2>3. MarksAnnounced'
    BY <1>1, <2>1 DEF LogInv, MarksAnnounced, Announced, MarkImpliesAnnounced
  <2>4. TailAnnounced' /\ WrittenOutcome'
    BY <1>1, <2>1 DEF LogInv, TailAnnounced, WrittenOutcome
  <2> QED
    BY <1>2, <2>2, <2>3, <2>4 DEF LogInv
<1>6. CASE MarkCompletion
  <2>1. /\ tail.step = "marking" /\ op'.step = "free" /\ events' = events /\ tail' = NoTail
        /\ snapshot' = [tail.seen EXCEPT !.marked = @ \cup {t}]
    BY <1>6 DEF MarkCompletion, EndTransition, FreeOp
  <2>2. EventsTellTheTruth'
    BY <2>1, SameEvents DEF LogInv
  <2>3. snapshot'.marked = tail.seen.marked \cup {t}
    BY <2>1 DEF MonitorTypeOK, SnapshotFile
  <2>4. events.direct[t] > 0
    BY <2>1 DEF LogInv, TailAnnounced
  <2>5. MarksAnnounced'
    BY <1>1, <2>1, <2>3, <2>4, RestFacts DEF LogInv, MarksAnnounced, Announced,
       MarkImpliesAnnounced
  <2>6. TailAnnounced' /\ WrittenOutcome'
    BY <2>1, RestFacts DEF TailAnnounced, WrittenOutcome
  <2> QED
    BY <1>2, <2>2, <2>5, <2>6 DEF LogInv
<1> QED
  BY <1>3, <1>4, <1>5, <1>6 DEF TransitionTail

(* A crash, in the operation or between polls, announces and marks nothing.      *)
LEMMA LogInvCrash ==
  ASSUME MonitorTypeOK, LogInv, \A t \in TaskId : StepOK(t), CrashOperation
  PROVE  LogInv'
<1>1. /\ op'.step = "free" /\ task' = task /\ snapshot' = snapshot /\ events' = events
      /\ tail' = NoTail /\ (mon' = IdleMon \/ mon' = mon)
  BY DEF CrashOperation, Crash, FreeOp
<1>2. EventsTellTheTruth'
  BY <1>1, SameEvents DEF LogInv
<1>3. MarksAnnounced'
  BY <1>1, RestFacts DEF LogInv, MarksAnnounced, Announced, MarkImpliesAnnounced
<1>4. TailAnnounced' /\ WrittenOutcome'
  BY <1>1, RestFacts DEF TailAnnounced, WrittenOutcome
<1>5. ViewIsPast'
  BY <1>1, RestView, SameView DEF LogInv, MonitorTypeOK
<1> QED
  BY <1>2, <1>3, <1>4, <1>5 DEF LogInv

(* A step of the poll that appends nothing: the marks it reads or writes back    *)
(* are ones that were borne out already.                                      *)
LEMMA LogInvQuiet ==
  ASSUME IInv, LogInv, \A t \in TaskId : StepOK(t), UNCHANGED <<events, tail>>,
         op' = op \/ (op.step # "written" /\ op'.step # "written"),
         Announced(snapshot'.marked), Announced(mon'.prev.marked), ViewIsPast'
  PROVE  LogInv'
<1>1. EventsTellTheTruth'
  BY SameEvents DEF LogInv
<1>2. MarksAnnounced'
  BY DEF LogInv, MarksAnnounced, Announced, MarkImpliesAnnounced
<1>3. TailAnnounced' /\ WrittenOutcome'
  <2>1. CASE op.step # "written" /\ op'.step # "written"
    BY <2>1 DEF LogInv, TailAnnounced, WrittenOutcome
  <2>2. CASE op' = op /\ op.step = "written"
    <3>1. op.task \in TaskId /\ task[op.task].status = op.to
      BY <2>2 DEF IInv, OpInFlight, LogInv, WrittenOutcome
    <3>2. op.to \in {"completed", "failed"}
      BY <3>1 DEF IInv, TypeOK, Op, TaskFile, TaskStatus, TerminalStatus
    <3>3. task'[op.task].status = op.to
      BY <3>1, <3>2, StaysFinished
    <3> QED
      BY <2>2, <3>3 DEF LogInv, TailAnnounced, WrittenOutcome
  <2> QED
    BY <2>1, <2>2
<1> QED
  BY <1>1, <1>2, <1>3 DEF LogInv

(* The poll outside the barrier.                                             *)
LEMMA LogInvOutside ==
  ASSUME IInv, MonitorTypeOK, LogInv, \A t \in TaskId : StepOK(t), OutsideBarrier
  PROVE  LogInv'
<1>1. UNCHANGED <<tail, op, task>>
  BY DEF OutsideBarrier, MonStart, MonReadPhase, MonSave, MonWritePhase, MonEmit, boardVars,
     logVars
<1>2. Announced(snapshot.marked) /\ Announced(mon.prev.marked)
  BY DEF LogInv, MarksAnnounced, Announced, MarkImpliesAnnounced
<1>3. CASE MonStart
  <2>1. /\ mon'.prev = snapshot /\ mon'.view = mon.view /\ mon'.step = "list"
        /\ UNCHANGED <<snapshot, events>>
    BY <1>3 DEF MonStart, logVars, MonitorTypeOK, Mon
  <2>2. ViewIsPast'
    BY <2>1, SameView DEF LogInv, MonitorTypeOK
  <2> QED
    BY <1>1, <1>2, <2>1, <2>2, LogInvQuiet
<1>4. CASE MonReadPhase
  <2>1. /\ mon'.prev = mon.prev /\ mon'.view = mon.view /\ mon'.step = "reconcile"
        /\ UNCHANGED <<snapshot, events>>
    BY <1>4 DEF MonReadPhase, logVars, MonitorTypeOK, Mon
  <2>2. ViewIsPast'
    BY <2>1, SameView DEF LogInv, MonitorTypeOK
  <2> QED
    BY <1>1, <1>2, <2>1, <2>2, LogInvQuiet
<1>5. ASSUME NEW stall \in BOOLEAN, MonWritePhase(stall) PROVE LogInv'
  <2>1. /\ mon'.prev = mon.prev /\ mon'.view = mon.view /\ mon'.todo = CompletedSinceSnapshot
        /\ UNCHANGED <<snapshot, events>>
    BY <1>5 DEF MonWritePhase, logVars, MonitorTypeOK, Mon
  <2>2. \A t \in CompletedSinceSnapshot : t \in TaskId /\ mon.view[t] = "completed"
    BY DEF CompletedSinceSnapshot
  <2>3. ViewIsPast'
    BY <1>1, <2>1, <2>2 DEF LogInv, ViewIsPast
  <2> QED
    BY <1>1, <1>2, <2>1, <2>3, LogInvQuiet
<1>6. CASE MonSave
  <2>1. /\ mon' = IdleMon /\ mon'.prev.marked = {} /\ snapshot'.marked = mon.prev.marked
        /\ events' = events
    BY <1>6, RestFacts DEF MonSave
  <2>2. Announced(mon'.prev.marked)
    BY <2>1 DEF Announced
  <2> QED
    BY <1>1, <1>2, <2>1, <2>2, RestView, LogInvQuiet
<1>7. ASSUME NEW t \in TaskId, MonEmit(t) PROVE LogInv'
  <2>1. /\ mon.step = "emit" /\ t \in mon.todo /\ snapshot' = snapshot
        /\ events' = [events EXCEPT !.derived = Appended(@, t)]
        /\ mon' = [mon EXCEPT !.todo = @ \ {t}]
    BY <1>7 DEF MonEmit
  <2>2. /\ events'.derived = Appended(events.derived, t)
        /\ events'.direct = events.direct /\ events'.failed = events.failed
        /\ events.derived \in [TaskId -> 0..2] /\ events.direct \in [TaskId -> 0..2]
    BY <2>1 DEF MonitorTypeOK, EventLog
  <2>3. /\ mon'.prev = mon.prev /\ mon'.view = mon.view /\ mon'.step = mon.step
        /\ mon'.todo \subseteq mon.todo
    BY <2>1 DEF MonitorTypeOK, Mon
  <2>4. ViewIsPast'
    BY <2>1, <2>3, SameView DEF LogInv, MonitorTypeOK
  <2>5. MarksAnnounced'
    BY <1>1, <2>1, <2>2, <2>3 DEF LogInv, MarksAnnounced, Announced, MarkImpliesAnnounced
  <2>6. TailAnnounced' /\ WrittenOutcome'
    BY <1>1, <2>2 DEF LogInv, TailAnnounced, WrittenOutcome
  <2>7. task[t].status = "completed"
    BY <2>1 DEF LogInv, ViewIsPast
  <2>8. \A u \in TaskId : u # t => events'.derived[u] = events.derived[u]
    BY <2>2, AppendedFacts
  <2>9. EventsTellTheTruth'
    BY <1>1, <2>2, <2>7, <2>8 DEF LogInv, EventsTellTheTruth
  <2> QED
    BY <2>4, <2>5, <2>6, <2>9 DEF LogInv
<1> QED
  BY <1>3, <1>4, <1>5, <1>6, <1>7 DEF OutsideBarrier

(* The poll under the barrier, its assignments, and its end.                    *)
LEMMA LogInvUnder ==
  ASSUME IInv, MonitorTypeOK, LogInv, \A t \in TaskId : StepOK(t),
         \/ UnderBarrier \/ MonAssigned \/ MonAssignFailed \/ MonCrash
         \/ \E t \in TaskId, w \in Worker : MonAssign(t, w)
  PROVE  LogInv'
<1>1. UNCHANGED <<snapshot, events, tail>>
  BY DEF UnderBarrier, MonList, MonRelist, MonReclaim, MonAssigned, MonAssignFailed, MonCrash,
     MonAssign, logVars
<1>2. Announced(snapshot.marked) /\ Announced(mon.prev.marked)
  BY DEF LogInv, MarksAnnounced, Announced, MarkImpliesAnnounced
<1>3. mon \in Mon /\ ViewIsPast
  BY DEF MonitorTypeOK, LogInv
<1>4. op' = op \/ (op.step # "written" /\ op'.step # "written")
  <2>1. CASE UnderBarrier \/ MonCrash
    BY <2>1 DEF UnderBarrier, MonList, MonRelist, MonReclaim, ReclaimExpired, MonCrash, boardVars
  <2>2. CASE MonAssigned \/ MonAssignFailed
    BY <2>2 DEF MonAssigned, DispatchSucceeds, MonAssignFailed, DispatchFails, FreeOp
  <2>3. ASSUME NEW t \in TaskId, NEW w \in Worker, MonAssign(t, w)
        PROVE  op.step = "free" /\ op'.step = "claimed"
    BY <2>3 DEF MonAssign, AssignTask, BarrierFree, FreeOp
  <2> QED
    BY <2>1, <2>2, <2>3
<1>5. Announced(mon'.prev.marked) /\ ViewIsPast'
  <2>1. CASE MonList
    <3>1. /\ View(mon, "reclaim") \in Mon /\ View(mon, "reclaim").prev = mon.prev
          /\ View(mon, "reclaim").step = "reclaim"
          /\ View(mon, "reclaim").view = [t \in TaskId |-> task[t].status]
      BY <1>3, ViewFacts DEF MonStep, MonitorTypeOK
    <3>2. /\ mon'.prev = mon.prev /\ mon'.step = "reclaim" /\ task' = task
          /\ mon'.view = [t \in TaskId |-> task[t].status]
      BY <2>1, <3>1 DEF MonList, Mon, boardVars
    <3> QED
      BY <1>2, <3>2 DEF ViewIsPast
  <2>2. CASE MonRelist
    <3>1. PICK step \in {"balance", "phase"} : mon' = View(mon, step) /\ task' = task
      BY <2>2 DEF MonRelist, boardVars
    <3>2. /\ mon'.prev = mon.prev /\ mon'.step = step
          /\ mon'.view = [t \in TaskId |-> task[t].status]
      BY <1>3, <3>1, ViewFacts DEF MonStep, MonitorTypeOK
    <3> QED
      BY <1>2, <3>1, <3>2 DEF ViewIsPast
  <2>3. ASSUME NEW t \in TaskId, MonReclaim(t)
        PROVE  Announced(mon'.prev.marked) /\ ViewIsPast'
    <3>1. mon'.prev = mon.prev /\ mon'.view = mon.view /\ mon'.step = "reclaim"
      BY <1>3, <2>3 DEF MonReclaim, Mon
    <3> QED
      BY <1>2, <1>3, <3>1, SameView
  <2>4. ASSUME NEW t \in TaskId, NEW w \in Worker, MonAssign(t, w)
        PROVE  Announced(mon'.prev.marked) /\ ViewIsPast'
    <3>1. mon'.prev = mon.prev /\ mon'.view = mon.view /\ mon'.step = "assigning"
      BY <1>3, <2>4 DEF MonAssign, Mon
    <3> QED
      BY <1>2, <1>3, <3>1, SameView
  <2>5. CASE MonAssigned \/ MonAssignFailed
    <3>1. mon'.prev = mon.prev /\ mon'.view = mon.view /\ mon'.step = "balance"
      BY <1>3, <2>5 DEF MonAssigned, MonAssignFailed, Mon
    <3> QED
      BY <1>2, <1>3, <3>1, SameView
  <2>6. CASE MonCrash
    <3>1. mon' = IdleMon /\ mon'.prev.marked = {}
      BY <2>6, RestFacts DEF MonCrash
    <3> QED
      BY <3>1, RestView DEF Announced
  <2> QED
    BY <2>1, <2>2, <2>3, <2>4, <2>5, <2>6 DEF UnderBarrier
<1> QED
  BY <1>1, <1>2, <1>4, <1>5, LogInvQuiet

(* Every step keeps the log true.                                             *)
LEMMA LogInvStep ==
  ASSUME IInv, MonitorTypeOK, LogInv, [MonitorNext]_vars
  PROVE  LogInv'
<1>1. IInv' /\ \A t \in TaskId : StepOK(t)
  BY BoardKept
<1>2. CASE BoardStep
  BY <1>1, <1>2, LogInvBoard
<1>3. CASE TransitionTail
  BY <1>1, <1>3, LogInvTail
<1>4. CASE CrashOperation
  BY <1>1, <1>4, LogInvCrash
<1>5. CASE OutsideBarrier
  BY <1>1, <1>5, LogInvOutside
<1>6. CASE \/ UnderBarrier \/ MonAssigned \/ MonAssignFailed \/ MonCrash
           \/ \E t \in TaskId, w \in Worker : MonAssign(t, w)
  BY <1>1, <1>6, LogInvUnder
<1>7. CASE \/ HookRead \/ HookWrite \/ UNCHANGED vars
           \/ \E how \in {"gated", "forced"} : ShutdownTeam(how)
  <2>1. UNCHANGED <<task, op, snapshot, events, tail, mon>>
    BY <1>7 DEF HookRead, HookWrite, ShutdownTeam, vars, boardVars, logVars, pollVars
  <2> QED
    BY <2>1 DEF LogInv, MarksAnnounced, Announced, MarkImpliesAnnounced, EventsTellTheTruth,
       TailAnnounced, WrittenOutcome, ViewIsPast
<1> QED
  BY <1>2, <1>3, <1>4, <1>5, <1>6, <1>7 DEF MonitorNext

(* The invariant of the log holds always.                                       *)
LEMMA LogInvariance == MonitorSpec => [](IInv /\ MonitorTypeOK /\ LogInv)
<1>1. MonitorInit => IInv /\ MonitorTypeOK /\ LogInv
  BY MonitorTypeInit, InitIInv, LogInvInit DEF MonitorInit
<1>2. (IInv /\ MonitorTypeOK /\ LogInv) /\ [MonitorNext]_vars
        => (IInv /\ MonitorTypeOK /\ LogInv)'
  BY MonitorTypeStep, BoardKept, LogInvStep
<1> QED
  BY <1>1, <1>2, PTL DEF MonitorSpec

(* A mark is there only for a completion whose event is in the log.             *)
THEOREM MarksAreAnnounced == MonitorSpec => []MarkImpliesAnnounced
<1>1. LogInv => MarkImpliesAnnounced
  BY DEF LogInv, MarksAnnounced
<1> QED
  BY <1>1, LogInvariance, PTL

(* The log announces only outcomes that tasks have, and a transition only one.   *)
THEOREM LogTellsTheTruth == MonitorSpec => []EventsTellTheTruth
<1>1. LogInv => EventsTellTheTruth
  BY DEF LogInv
<1> QED
  BY <1>1, LogInvariance, PTL

(* A poll requeues nothing but what has run out, and what it cannot dispatch.    *)
THEOREM PollsSpareLiveClaims == MonitorSpec => PollSparesLiveClaims
<1>1. IInv /\ [MonitorNext]_vars =>
        [\A t \in TaskId :
           mon' # mon /\ op' = op /\ Live(task[t].claim) => task'[t] = task[t]]_vars
  <2> SUFFICES ASSUME IInv, MonitorNext, NEW t \in TaskId, mon' # mon, op' = op,
                      Live(task[t].claim)
               PROVE  task'[t] = task[t]
    OBVIOUS
  <2>1. CASE BoardStep \/ TransitionTail \/ HookRead \/ HookWrite
             \/ (\E how \in {"gated", "forced"} : ShutdownTeam(how))
    BY <2>1 DEF BoardStep, TransitionTail, AppendCompleted, AppendFailed, ReadSnapshotForMark,
       MarkCompletion, HookRead, HookWrite, ShutdownTeam, pollVars
  <2>2. CASE CrashOperation \/ OutsideBarrier \/ MonList \/ MonRelist \/ MonCrash
    BY <2>2 DEF CrashOperation, Crash, OutsideBarrier, MonStart, MonReadPhase, MonSave,
       MonWritePhase, MonEmit, MonList, MonRelist, MonCrash, boardVars
  <2>3. ASSUME NEW u \in TaskId, MonReclaim(u) PROVE task'[t] = task[t]
    <3>1. CASE UNCHANGED boardVars
      BY <3>1 DEF boardVars
    <3>2. CASE ReclaimExpired(u)
      <4>1. ~Live(task[u].claim) /\ task' = [task EXCEPT ![u] = Requeued(task[u])]
        BY <3>2 DEF ReclaimExpired, Reclaimable
      <4> QED
        BY <4>1 DEF IInv, TypeOK
    <3> QED
      BY <2>3, <3>1, <3>2 DEF MonReclaim
  <2>4. ASSUME NEW u \in TaskId, NEW w \in Worker, MonAssign(u, w) PROVE FALSE
    BY <2>4 DEF MonAssign, AssignTask, BarrierFree, FreeOp
  <2>5. CASE MonAssigned \/ MonAssignFailed
    BY <2>5 DEF MonAssigned, MonAssignFailed, DispatchSucceeds, DispatchFails, FreeOp
  <2> QED
    BY <2>1, <2>2, <2>3, <2>4, <2>5 DEF MonitorNext, UnderBarrier
<1> QED
  BY <1>1, MonitorInvariance, PTL DEF MonitorSpec, PollSparesLiveClaims
=============================================================================
