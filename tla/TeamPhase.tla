----------------------------- MODULE TeamPhase -----------------------------
(* The team's phase controller: the pure functions of                        *)
(* src/src/team/orchestrator.ts and src/src/team/phase-controller.ts, over   *)
(* the part of phase.json their results depend on. TeamMonitor composes them   *)
(* with the monitor that reads and writes the file.                          *)
EXTENDS Naturals, Sequences

(* No code asks the monitor for "cancelled" (shutdown writes it to the mode's     *)
(* state file, not to phase.json), but the functions know it.                     *)
TerminalPhases == {"complete", "failed", "cancelled"}
Phases == {"team-plan", "team-prd", "team-exec", "team-verify", "team-fix"}
            \cup TerminalPhases

(* phase.json: current_phase, current_fix_attempt, max_fix_attempts, and     *)
(* whether shutdown has stamped a terminal_epoch on it.                      *)
PhaseFile(maxFix) ==
  [current : Phases, attempt : 0..maxFix, max : {maxFix}, epoch : BOOLEAN]

InitialPhase(maxFix) ==
  [current |-> "team-exec", attempt |-> 0, max |-> maxFix, epoch |-> FALSE]

(* TRANSITIONS, the edges transitionPhase accepts.                           *)
Transitions ==
  [p \in Phases |->
     CASE p = "team-plan"   -> {"team-prd"}
       [] p = "team-prd"    -> {"team-exec"}
       [] p = "team-exec"   -> {"team-verify"}
       [] p = "team-verify" -> {"team-fix", "complete", "failed"}
       [] p = "team-fix"    -> {"team-exec", "team-verify", "complete", "failed"}
       [] p \in TerminalPhases -> {}]

(* transitionPhase on an accepted edge; toPhaseState, applied to the result  *)
(* of a walk, keeps no terminal epoch (there is none to keep: Reconcile).    *)
TransitionPhaseUnbounded(s, to) ==
  [s EXCEPT !.current = to, !.attempt = IF to = "team-fix" THEN @ + 1 ELSE @]

TransitionPhaseForgets(s, to) ==
  IF to = "team-fix" /\ s.attempt + 1 > s.max
  THEN [s EXCEPT !.current = "failed"]
  ELSE [s EXCEPT !.current = to,
                 !.attempt = IF to = "team-fix" THEN @ + 1 ELSE 0]

TransitionPhase(s, to) ==
  IF to = "team-fix" /\ s.attempt + 1 > s.max
  THEN [s EXCEPT !.current = "failed"]
  ELSE [s EXCEPT !.current = to,
                 !.attempt = IF to = "team-fix" THEN @ + 1 ELSE @]

(* buildTransitionPath: the rest of the forward chain after `from`. Nothing    *)
(* leads to a phase itself, out of a terminal phase, or from team-verify back *)
(* to team-exec; team-fix goes to team-verify through team-exec, and to every     *)
(* other target in one step.                                                  *)
Chain == <<"team-plan", "team-prd", "team-exec", "team-verify">>

BuildPathDirect(from, to) == IF from = to THEN <<>> ELSE <<to>>
BuildPath(from, to) ==
  LET legs == CASE to = "team-exec"   -> SubSeq(Chain, 1, 3)
                [] to = "team-verify" -> Chain
                [] OTHER              -> Append(Chain, to)
  IN  CASE from = to \/ to \in {"team-plan", "team-prd", "cancelled"} -> <<>>
        [] from \in TerminalPhases /\ from # to -> <<>>
        [] from = "team-fix" /\ to = "team-verify" -> <<"team-exec", "team-verify">>
        [] from = "team-fix" /\ to \in {"team-exec", "complete", "failed"} -> <<to>>
        [] OTHER -> SubSeq(legs, 1 + CHOOSE i \in 1..4 : Chain[i] = from, Len(legs))

(* The loop of reconcilePhaseStateForMonitor over a path, at most four legs  *)
(* long: a leg already reached is skipped, a terminal phase ends the walk.   *)
Leg(s, path, i) ==
  IF i > Len(path) \/ s.current \in TerminalPhases \/ s.current = path[i]
  THEN s ELSE TransitionPhase(s, path[i])
Walk(s, path) == Leg(Leg(Leg(Leg(s, path, 1), path, 2), path, 3), path, 4)

ReconcileTerminalIsFinal(s, target) ==
  IF s.epoch \/ s.current = target \/ s.current \in TerminalPhases
  THEN s ELSE Walk(s, BuildPath(s.current, target))

(* reconcilePhaseStateForMonitor: an epoch freezes the file; a terminal phase *)
(* with unfinished work under it is reopened with a fresh attempt count.      *)
Reconcile(s, target) ==
  CASE s.epoch -> s
    [] ~s.epoch /\ s.current = target -> s
    [] ~s.epoch /\ s.current # target /\ s.current \in TerminalPhases ->
         IF target \in TerminalPhases THEN s
         ELSE [s EXCEPT !.current = target, !.attempt = 0]
    [] OTHER -> Walk(s, BuildPath(s.current, target))

(* inferPhaseTargetFromTaskCounts.                                           *)
InferTarget(someUnfinished, someFailed, verificationPending) ==
  CASE someUnfinished -> "team-exec"
    [] ~someUnfinished /\ someFailed -> "team-fix"
    [] ~someUnfinished /\ ~someFailed /\ verificationPending -> "team-verify"
    [] OTHER -> "complete"

(* Every edge a path takes is one transitionPhase accepts, so a monitor poll  *)
(* never throws "Invalid transition" half way through its work.               *)
PathIsLegal(from, to) ==
  LET path == <<from>> \o BuildPath(from, to)
  IN  \A i \in 1..(Len(path) - 1) : path[i + 1] \in Transitions[path[i]]
=============================================================================
