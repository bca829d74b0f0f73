---------------------------- MODULE TeamScaling ----------------------------
(* Growing and shrinking a running team (src/src/team/scaling.ts), with what the  *)
(* membership journal is used for by everyone else. A leader holds the scaling     *)
(* lock for a whole scale-down, which takes the barrier three times: to settle     *)
(* the debt an earlier one left, to remove members and kill their panes, and to     *)
(* settle its own debt. A scale-up of several workers keeps the barrier from end    *)
(* to end and undoes all it did when one of its steps fails. Shutdown              *)
(* settles debt with no scaling lock.                                          *)
EXTENDS MembershipJournal

ASSUME ScalingAssumption ==
  /\ {"config", "manifest"} \cap Task = {}
  /\ NoFile \notin TaskFile

VARIABLES
  panes,      \* the workers whose tmux pane, the newest of that name, is live (one
              \* that ended by itself is found gone when somebody looks)
  debt,       \* .scale-down-cleanup-debt.json: the workers it names
  duty,       \* who holds the barrier, and what for
  job,        \* the leader's scale-down, from one of its sections to the next
  up,         \* the scale-up that runs
  saved,      \* a config somebody read, to change and save later
  killed      \* history: the workers whose pane a scale-down killed

vars == <<jvars, panes, debt, duty, job, up, saved, killed>>

Idle == [who |-> "nobody", doing |-> "nothing"]
Doing == {"nothing", "operate", "number", "reconcile", "consume", "remove", "commit",
          "kill", "plan", "create", "listed", "split", "start", "save", "track", "tracked",
          "roll", "rolled", "done", "failed"}
NoJob == [stage |-> "none", set |-> {}]
(* The workers a scale-up has still to split panes for, and those that have one;   *)
(* the task createTask is making, and those it has made; the members and used-up    *)
(* names from before it; the workers whose pane a roll-back could not kill.          *)
NoUp == [wants |-> {}, new |-> {}, task |-> NoFile, tasks |-> {},
         members |-> {}, spent |-> {}, unresolved |-> {}]

(* readTeamConfig: the members from the manifest, the generation from the config.  *)
ReadConfig ==
  [members |-> disk["manifest"].members, spent |-> disk["manifest"].spent,
   gen |-> disk["config"].gen]
Members == disk["manifest"].members
Gen == disk["config"].gen

ScalingTypeOK ==
  /\ JournalTypeOK
  /\ panes \subseteq Worker
  /\ debt \subseteq Worker
  /\ duty \in [who : {"nobody", "leader", "other"}, doing : Doing]
  /\ job \in [stage : {"none", "prior", "remove", "clean", "up"}, set : SUBSET Worker]
  /\ up \in [wants : SUBSET Worker, new : SUBSET Worker, task : Task \cup {NoFile},
             tasks : SUBSET Task, members : SUBSET Worker, spent : SUBSET Worker,
             unresolved : SUBSET Worker]
  /\ saved \in Membership
  /\ killed \subseteq Worker

Init ==
  /\ JournalInit
  /\ panes = FirstWorkers
  /\ debt = {} /\ duty = Idle /\ job = NoJob /\ up = NoUp
  /\ saved = ReadConfig
  /\ killed = {}

-----------------------------------------------------------------------------
(* Holding the barrier.                                                       *)

Holds(doing) == duty.doing = doing
Ready(doing) == txn.step = "ready" /\ Holds(doing)
Goes(doing) == duty' = [duty EXCEPT !.doing = doing]
Unscaled == UNCHANGED <<panes, debt, job, up, saved, killed>>

Take(who, doing) ==
  /\ duty = Idle /\ Enter
  /\ duty' = [who |-> who, doing |-> doing]
  /\ UNCHANGED <<panes, debt, up, saved, killed>>

(* What a leader does once a section of its scale-down is over.                  *)
NextStage ==
  IF Holds("failed") \/ txn.step = "thrown" THEN {NoJob}
  ELSE CASE job.stage = "prior" ->
              {[stage |-> "remove", set |-> R] : R \in SUBSET Members \ {{}, Members}} \cup {NoJob}
         [] job.stage = "remove" -> {[job EXCEPT !.stage = "clean"]}
         [] OTHER -> {NoJob}

RollsBack == duty.doing \in {"create", "listed", "split", "start", "save"}
Finish ==
  /\ \/ txn.step = "ready" /\ duty.doing \in {"done", "failed"}
     \/ txn.step = "thrown" /\ ~RollsBack
  /\ Release
  /\ duty' = Idle
  /\ IF duty.who = "leader" THEN job' \in NextStage /\ up' = NoUp
                            ELSE UNCHANGED <<job, up>>
  /\ UNCHANGED <<panes, debt, saved, killed>>

-----------------------------------------------------------------------------
(* The task board and the config, under the barrier for one call.                *)

OneFurther(members, spent, gen) ==
  LET m == [members |-> members, spent |-> spent, gen |-> gen + 1]
  IN [NoChange EXCEPT !["config"] = m, !["manifest"] = m]
Both(members, spent, gen) ==
  LET m == [members |-> members, spent |-> spent, gen |-> gen]
  IN [NoChange EXCEPT !["config"] = m, !["manifest"] = m]

(* Every save and the two changes of a roll-back take a generation.                *)
RoomForOneMore == Gen + 3 <= MaxGen
Operate == Take("other", "operate") /\ UNCHANGED job

(* claimTask, by a member only; releaseTaskClaim and the end of a task.           *)
Claim(t, w) ==
  /\ Ready("operate") /\ w \in Members
  /\ disk[t] \in [owner : {w, Nobody}, claimed : {FALSE}]
  /\ WriteFile(t, [owner |-> w, claimed |-> TRUE]) \/ WriteFileFails(t, [owner |-> w, claimed |-> TRUE])
  /\ Goes("done") /\ Unscaled
Unclaim(t) ==
  /\ Ready("operate") /\ disk[t] \in [owner : Worker, claimed : {TRUE}]
  /\ WriteFile(t, [owner |-> Nobody, claimed |-> FALSE])
  /\ Goes("done") /\ Unscaled

(* createTask writes the task, then saves the config for its next_task_id.        *)
NewTask(t, owner) ==
  /\ disk[t] = NoFile
  /\ \/ WriteFile(t, [owner |-> owner, claimed |-> FALSE])
     \/ WriteFileFails(t, [owner |-> owner, claimed |-> FALSE])
Create(t) == Ready("operate") /\ NewTask(t, Nobody) /\ Goes("number") /\ Unscaled
NextTaskId == BeginCall(Both(Members, disk["manifest"].spent, Gen), SaveConfig)
Number == Ready("number") /\ NextTaskId /\ Goes("done") /\ Unscaled

Read ==
  /\ Ready("operate") /\ saved' = ReadConfig
  /\ Goes("done") /\ UNCHANGED <<jvars, panes, debt, job, up, killed>>

(* saveTeamConfig refuses a config of another generation than the one on disk.     *)
SaveAnyGeneration ==
  /\ Ready("operate") /\ RoomForOneMore
  /\ BeginCall(Both(saved.members, saved.spent, Gen + 1), SaveConfig)
  /\ Goes("done") /\ Unscaled
Save ==
  /\ Ready("operate")
  /\ IF saved.gen = Gen
     THEN /\ RoomForOneMore /\ BeginCall(Both(saved.members, saved.spent, Gen + 1), SaveConfig)
          /\ Goes("done")
     ELSE UNCHANGED jvars /\ Goes("failed")
  /\ Unscaled

(* mutateShutdownConfig: the members stay, what a shutdown forgets is left out.     *)
Mutate ==
  /\ Ready("operate") /\ RoomForOneMore
  /\ BeginCall(Both(Members, disk["manifest"].spent, Gen + 1), Prepared)
  /\ Goes("done") /\ Unscaled

-----------------------------------------------------------------------------
(* reconcileScaleDownCleanupDebt, by a scale-down or by a shutdown.               *)

Reconcile == Take("other", "reconcile") /\ UNCHANGED job

Live(W) == W \cap panes
Kill(K) == panes' = panes \ K
SetDebt(W) ==
  \/ debt' = W /\ UNCHANGED jvars
  \/ debt' \in {debt, W} /\ WriteFileFails("config", disk["config"])
Canonical == debt \cap Members

(* A debt whose workers are all members was written before a removal that never    *)
(* happened: it is dropped. When they are members no more every pane of it is        *)
(* found gone or killed, as far as that can be proved safe; then what they left is   *)
(* cleaned up, and the debt stays if that fails.                                 *)
SettleDebt ==
  /\ Ready("reconcile")
  /\ IF Canonical = debt
     THEN /\ IF debt = {} THEN UNCHANGED <<jvars, debt>> ELSE SetDebt({})
          /\ Goes("done") /\ UNCHANGED <<panes, killed>>
     ELSE /\ UNCHANGED <<jvars, debt>>
          /\ \E K \in IF Canonical = {} THEN SUBSET Live(debt) ELSE {{}} :
               /\ Kill(K) /\ killed' = killed \cup K
               /\ Goes(IF Canonical = {} /\ K = Live(debt) THEN "consume" ELSE "failed")
  /\ UNCHANGED <<job, up, saved>>
Consume ==
  /\ Ready("consume")
  /\ \/ SetDebt({}) /\ Goes("done")
     \/ UNCHANGED <<jvars, debt>> /\ Goes("failed")
  /\ UNCHANGED <<panes, job, up, saved, killed>>

-----------------------------------------------------------------------------
(* scaleDown.                                                                 *)

StartDown ==
  /\ job = NoJob /\ Take("leader", "reconcile")
  /\ job' = [stage |-> "prior", set |-> {}]
NextSection ==
  /\ job.stage \in {"remove", "clean"}
  /\ job.stage = "remove" => Resolved["config"].gen < MaxGen
  /\ Take("leader", IF job.stage = "remove" THEN "remove" ELSE "reconcile")
  /\ UNCHANGED job

(* The workers are looked for once more; a debt that names them comes first.        *)
FindTargets ==
  /\ Ready("remove")
  /\ IF job.set \subseteq Members THEN SetDebt(job.set) /\ Goes("commit")
                                  ELSE UNCHANGED <<jvars, debt>> /\ Goes("failed")
  /\ UNCHANGED <<panes, job, up, saved, killed>>

(* Their open tasks go back to the board with their names off it.                   *)
WithoutOne(R) ==
  LET m == [members |-> disk["config"].members \ {CHOOSE w \in R : TRUE},
            spent |-> disk["config"].spent, gen |-> Gen + 1]
  IN [NoChange EXCEPT !["config"] = m, !["manifest"] = m]
WithoutTasks(R) ==
  LET m == [members |-> disk["config"].members \ R, spent |-> disk["config"].spent,
            gen |-> Gen + 1]
  IN [NoChange EXCEPT !["config"] = m, !["manifest"] = m]
Without(R) ==
  [f \in File |->
     CASE f \in Task -> IF disk[f] # NoFile /\ disk[f].owner \in R
                        THEN [owner |-> Nobody, claimed |-> FALSE] ELSE Untouched
       [] OTHER -> [members |-> disk["config"].members \ R, spent |-> disk["config"].spent,
                    gen |-> Gen + 1]]
CommitRemoval ==
  /\ Ready("commit") /\ BeginCall(Without(job.set), Forward)
  /\ Goes("kill") /\ Unscaled

KillTargets ==
  /\ Ready("kill")
  /\ \E K \in SUBSET Live(job.set) :
       /\ Kill(K) /\ killed' = killed \cup K
       /\ Goes(IF K = Live(job.set) THEN "done" ELSE "failed")
  /\ UNCHANGED <<jvars, debt, job, up, saved>>

-----------------------------------------------------------------------------
(* scaleUp, for any number of workers. Their names come from next_worker_index.   *)

StartUp ==
  /\ job = NoJob /\ Take("leader", "plan")
  /\ job' = [stage |-> "up", set |-> {}]

UpGoes(doing, u) ==
  /\ up' = u /\ Goes(doing)
  /\ UNCHANGED <<debt, job, saved, killed>>

Plan ==
  /\ Ready("plan") /\ UNCHANGED <<jvars, panes>>
  /\ \/ \E W \in SUBSET (Worker \ disk["manifest"].spent) \ {{}} :
          /\ RoomForOneMore
          /\ UpGoes("create", [NoUp EXCEPT !.wants = W, !.members = Members,
                                           !.spent = disk["manifest"].spent])
     \/ UpGoes("failed", up)

(* They may come with tasks, for whatever owner, each on the list once createTask    *)
(* has returned.                                                              *)
CreateUpTask(t, owner) ==
  /\ Ready("create") /\ up.task = NoFile
  /\ NewTask(t, owner)
  /\ UpGoes("create", [up EXCEPT !.task = t]) /\ UNCHANGED panes
NumberUpTask ==
  /\ Ready("create") /\ up.task # NoFile /\ NextTaskId
  /\ UpGoes("listed", up) /\ UNCHANGED panes
ListUpTask ==
  /\ Ready("listed") /\ UNCHANGED <<jvars, panes>>
  /\ UpGoes("create", [up EXCEPT !.task = NoFile, !.tasks = @ \cup {up.task}])

(* One worker after the other gets its pane.                                    *)
Split(w) ==
  /\ Ready("split") \/ (Ready("create") /\ up.task = NoFile)
  /\ w \in up.wants
  /\ panes' = panes \cup {w}
  /\ UpGoes("start", [up EXCEPT !.wants = @ \ {w}, !.new = @ \cup {w}])
  /\ UNCHANGED jvars

(* The worker has been sent its first instruction: it becomes a member.             *)
Join ==
  /\ Ready("start") /\ RoomForOneMore
  /\ BeginCall(Both(Members \cup up.new, disk["manifest"].spent \cup up.new, Gen + 1), SaveConfig)
  /\ UpGoes("save", up) /\ UNCHANGED panes
Joined ==
  /\ Ready("save") /\ UNCHANGED <<jvars, panes>>
  /\ UpGoes(IF up.wants = {} THEN "done" ELSE "split", up)

(* Whatever fails before the end is rolled back (rollbackScaleUp): the journal is   *)
(* recovered first.                                                            *)
RollBack ==
  /\ RollsBack
  /\ \/ Ready(duty.doing) /\ ~Holds("listed") /\ UNCHANGED jvars
     \/ txn.step = "thrown" /\ Enter
  /\ UpGoes("track", up) /\ UNCHANGED panes

(* The new workers, those that have a pane, become members before a pane is touched. *)
NoWorker == {}
UpWorkers == up.new
Track ==
  /\ Ready("track")
  /\ BeginCall(Both(disk["config"].members \cup UpWorkers, disk["config"].spent \cup UpWorkers,
                    Gen + 1), Forward)
  /\ UpGoes("tracked", up) /\ UNCHANGED panes

(* A pane is killed when it is proved to be the one that was split. The workers of   *)
(* the others keep their names, and with them those of the names before theirs.      *)
KillUpPanes ==
  /\ Ready("tracked") /\ UNCHANGED jvars
  /\ \E U \in SUBSET UpWorkers, S \in SUBSET UpWorkers :
       /\ U \subseteq S /\ (U = {} => S = {})
       /\ Kill(UpWorkers \ U)
       /\ UpGoes("roll", [up EXCEPT !.unresolved = U, !.spent = @ \cup S])

(* Back to the members of before, with the workers whose pane may still run; the     *)
(* tasks that came with them go, but for those of a worker that stays.                *)
RolledBack ==
  [f \in File |->
     CASE f \in Task -> IF f \notin up.tasks THEN Untouched
                        ELSE IF disk[f] # NoFile /\ disk[f].owner \in up.unresolved
                        THEN disk[f] ELSE NoFile
       [] OTHER -> [members |-> up.members \cup up.unresolved, spent |-> up.spent,
                    gen |-> Gen + 1]]
Roll ==
  /\ Ready("roll") /\ BeginCall(RolledBack, ForwardKept)
  /\ UpGoes("rolled", up) /\ UNCHANGED panes
Rolled == Ready("rolled") /\ UpGoes("failed", up) /\ UNCHANGED <<jvars, panes>>

-----------------------------------------------------------------------------
(* The journal's own steps, and what happens to the processes.                     *)

Journalling ==
  /\ \/ ReplayEnd \/ WriteJournal \/ MarkCommitted \/ Clear \/ Finalize \/ Unlink
     \/ \E f \in File : Replay(f) \/ Apply(f) \/ Restore(f)
  /\ UNCHANGED duty /\ Unscaled

JournalFails == WriteFails /\ UNCHANGED duty /\ Unscaled

HolderDies ==
  /\ Crash /\ duty' = Idle
  /\ IF duty.who = "leader" THEN job' = NoJob /\ up' = NoUp ELSE UNCHANGED <<job, up>>
  /\ UNCHANGED <<panes, debt, saved, killed>>
LeaderDies ==
  /\ duty.who # "leader" /\ job # NoJob /\ job' = NoJob
  /\ UNCHANGED <<jvars, panes, debt, duty, up, saved, killed>>

-----------------------------------------------------------------------------
Next ==
  \/ Finish \/ Operate \/ Number \/ Read \/ Save \/ Mutate
  \/ Reconcile \/ SettleDebt \/ Consume
  \/ StartDown \/ NextSection \/ FindTargets \/ CommitRemoval \/ KillTargets
  \/ StartUp \/ Plan \/ NumberUpTask \/ ListUpTask \/ Join \/ Joined
  \/ RollBack \/ Track \/ KillUpPanes \/ Roll \/ Rolled
  \/ Journalling \/ JournalFails \/ HolderDies \/ LeaderDies
  \/ \E w \in Worker : Split(w)
  \/ \E t \in Task : \/ Create(t) \/ Unclaim(t)
                     \/ \E owner \in Worker \cup {Nobody} : CreateUpTask(t, owner)
                     \/ \E w \in Worker : Claim(t, w)

Spec == Init /\ [][Next]_vars

-----------------------------------------------------------------------------
(* Properties.                                                               *)

ResolvedMembers == Resolved["manifest"].members
(* The panes that the members or the debt of a scale-down account for.             *)
Accounted == panes \cap (ResolvedMembers \cup debt)

(* scaling.ts:796, "canonical config/manifest state still identifies each live      *)
(* pane": a live pane that the files account for is accounted for until it is gone,  *)
(* through every crash, replay, roll-back and failed kill.                       *)
NoPaneLost == [][Accounted \cap panes' \subseteq Accounted']_vars

(* A worker whose pane a scale-down killed is no member then or later, whatever    *)
(* journal is replayed, stale config saved or scale-up rolled back afterwards.      *)
KilledAreOut == killed \cap ResolvedMembers = {}

(* The debt names members only (the removal has not happened) or none (it has):    *)
(* "scale_down_cleanup_debt_membership_inconsistent" is never answered.            *)
DebtAllOrNothing == debt \cap ResolvedMembers \in {{}, debt}

(* A task somebody works on is a member's: nobody is removed with the claim of a   *)
(* task, in the files or in what the journal makes of them.                      *)
ClaimedByMember ==
  \A t \in Task : Resolved[t] \in [owner : Worker, claimed : {TRUE}]
                    => Resolved[t].owner \in ResolvedMembers
=============================================================================
