------------------------- MODULE TeamScalingProofs -------------------------
(* Whatever a team does when it grows, shrinks, rolls back, settles a debt or is      *)
(* shut down, it uses the membership journal as the journal is meant to be used:      *)
(* every step is a step of MembershipJournal or leaves it alone. So what is proved    *)
(* of the journal holds of the team.                                             *)
EXTENDS TeamScaling, MembershipJournalProofs

(* The generations a scale-up may still use before the bound, by what it does next.    *)
AheadOf(x) ==
  IF x \in {"create", "listed", "split", "start", "save", "track"} THEN 2
  ELSE IF x \in {"tracked", "roll", "remove", "commit"} THEN 1
  ELSE 0
Ahead == AheadOf(duty.doing)

(* Files as they are between changes: config and manifest say who is a member, and      *)
(* the bound leaves room for the generations to come.                              *)
Fit(c) ==
  /\ c["config"] \in Membership /\ c["manifest"] \in Membership
  /\ c["config"].gen + Ahead <= MaxGen
StoreFits == Fit(Resolved) /\ (call # NoCall => Fit(call.before) /\ Fit(call.after))

(* Only a task that was made is put on the list of those a scale-up has made.          *)
TaskIsMade == duty.doing = "listed" => up.task \in Task

TeamTyped ==
  /\ panes \subseteq Worker /\ debt \subseteq Worker
  /\ duty \in [who : {"nobody", "leader", "other"}, doing : Doing]
  /\ job \in [stage : {"none", "prior", "remove", "clean", "up"}, set : SUBSET Worker]
  /\ up \in [wants : SUBSET Worker, new : SUBSET Worker, task : Task \cup {NoFile},
             tasks : SUBSET Task, members : SUBSET Worker, spent : SUBSET Worker,
             unresolved : SUBSET Worker]
  /\ saved \in Membership
  /\ killed \subseteq Worker

TeamInv == TeamTyped /\ TaskIsMade /\ StoreFits
SInv == JInv /\ TeamInv

-----------------------------------------------------------------------------
(* Basic facts.                                                              *)

LEMMA AheadNat == Ahead \in 0..2 /\ Ahead' \in 0..2
BY DEF Ahead, AheadOf

LEMMA StillRoom ==
  ASSUME NEW g \in Nat, NEW a \in Nat, NEW b \in Nat, b <= a, g + a <= MaxGen
  PROVE  g + b <= MaxGen
BY JournalAssumption

LEMMA FileFacts ==
  /\ "config" \in File /\ "manifest" \in File
  /\ \A f \in Task : f \in File /\ f # "config" /\ f # "manifest"
  /\ \A f \in File : f \notin Task => f \in {"config", "manifest"}
BY ScalingAssumption DEF File

(* Who finds no journal reads what everybody would read.                            *)
LEMMA ReadyFacts ==
  ASSUME SInv, txn.step = "ready"
  PROVE  /\ journal = NoJournal /\ call = NoCall /\ disk \in [File -> Value]
         /\ Resolved = disk /\ Fit(disk)
         /\ Members \subseteq Worker /\ disk["manifest"].spent \subseteq Worker
         /\ disk["config"].members \subseteq Worker /\ disk["config"].spent \subseteq Worker
         /\ Gen \in 0..MaxGen /\ Gen + Ahead <= MaxGen
<1>1. journal = NoJournal /\ call = NoCall /\ disk \in [File -> Value]
  BY DEF SInv, JInv, Settled, JournalTypeOK
<1>2. Resolved = disk
  BY <1>1, NoJournalResolved DEF Resolved
<1>3. Fit(disk)
  BY <1>2 DEF SInv, TeamInv, StoreFits
<1> QED
  BY <1>1, <1>2, <1>3 DEF Fit, Membership, Members, Gen

(* A step of the journal leaves the files as they were, or makes them one of the two    *)
(* sides of the change that runs.                                                *)
LEMMA StepResolved ==
  ASSUME JInv, JInv', ClearIsLast, JournalStep
  PROVE  /\ call' \in {call, NoCall}
         /\ Resolved' = Resolved \/ (call # NoCall /\ Resolved' \in {call.before, call.after})
<1>1. call' \in {call, NoCall}
  BY DEF JournalStep, Enter, ReplayEnd, WriteJournal, MarkCommitted, Clear, Finalize, Unlink,
     Release, WriteFails, Crash, Replay, Apply, Restore, End
<1>2. CASE call # NoCall
  <2>1. call.open
    BY <1>2 DEF JInv, JournalTypeOK, Call
  <2>2. StoreStep
    BY StepRefines DEF JournalNext
  <2> QED
    BY <1>1, <1>2, <2>1, <2>2 DEF StoreStep, Abstract!StoreNext, Abstract!Begin, Abstract!Waver,
       Abstract!Succeed, Abstract!Fail, Abstract!Die, Abstract!Hear, Abstract!Write
<1>3. ASSUME call = NoCall PROVE Resolved' = Resolved
  <2>1. txn.step \notin CallStep
    BY <1>3, OpenIsACall DEF JInv, InCall
  <2>2. CASE Enter \/ Release \/ Crash
    BY <2>2, SameResolved DEF Enter, Release, Crash
  <2>3. CASE \E f \in File : Replay(f)
    BY <2>3, ReplayWriteResolved DEF Replay
  <2>4. CASE ReplayEnd
    BY <2>4, ReplayedResolved DEF ReplayEnd
  <2>5. CASE WriteFails
    <3>1. Busy /\ Failed /\ txn.step \in CallStep \cup {"replay"}
      BY <2>5, BusySteps DEF WriteFails, Busy, Failed
    <3> QED
      BY <2>1, <3>1, SameResolved, ReplayedResolved, ReplayWriteResolved DEF Failed, Effect, CallStep
  <2>6. CASE WriteJournal \/ MarkCommitted \/ Clear \/ Finalize \/ Unlink
             \/ \E f \in File : Apply(f) \/ Restore(f)
    BY <2>1, <2>6 DEF CallStep, WriteJournal, MarkCommitted, Clear, Finalize, Unlink, Apply, Restore
  <2> QED
    BY <2>2, <2>3, <2>4, <2>5, <2>6 DEF JournalStep
<1> QED
  BY <1>1, <1>2, <1>3

-----------------------------------------------------------------------------
(* The four ways a step of the team moves the files. None of them asks for more       *)
(* generations than there were to come.                                           *)
LEMMA Quiet ==
  ASSUME SInv, Ahead' <= Ahead, call' \in {call, NoCall},
         Resolved' = Resolved \/ (call # NoCall /\ Resolved' \in {call.before, call.after})
  PROVE  StoreFits'
<1>1. Ahead \in Nat /\ Ahead' \in Nat
  BY AheadNat
<1>2. ASSUME NEW c, Fit(c)
      PROVE  /\ c["config"] \in Membership /\ c["manifest"] \in Membership
             /\ c["config"].gen + Ahead' <= MaxGen
  <2>1. c["config"].gen \in 0..MaxGen /\ c["config"].gen + Ahead <= MaxGen
    BY <1>2 DEF Fit, Membership
  <2> QED
    BY <1>1, <1>2, <2>1, StillRoom DEF Fit
<1>3. /\ Resolved'["config"] \in Membership /\ Resolved'["manifest"] \in Membership
      /\ Resolved'["config"].gen + Ahead' <= MaxGen
  BY <1>2 DEF SInv, TeamInv, StoreFits
<1>4. call' # NoCall => call' = call /\ Fit(call.before) /\ Fit(call.after)
  BY DEF SInv, TeamInv, StoreFits
<1> QED
  BY <1>2, <1>3, <1>4 DEF StoreFits, Fit

LEMMA SameFiles ==
  ASSUME SInv, Ahead' <= Ahead, UNCHANGED jvars
  PROVE  StoreFits'
BY Quiet, SameResolved DEF jvars

LEMMA StepFits ==
  ASSUME SInv, JInv', ClearIsLast, JournalStep, Ahead' <= Ahead
  PROVE  StoreFits'
BY Quiet, StepResolved DEF SInv

LEMMA BeginFits ==
  ASSUME SInv, NEW new \in Change, NEW style \in Style, BeginCall(new, style),
         new["config"] \in Membership, new["manifest"] \in Membership,
         new["config"].gen + Ahead' <= MaxGen, Ahead' <= Ahead
  PROVE  StoreFits'
<1>1. /\ disk \in [File -> Value] /\ Resolved = disk /\ Fit(disk) /\ Gen \in 0..MaxGen
      /\ Gen + Ahead <= MaxGen
  BY ReadyFacts DEF BeginCall
<1>2. Ahead \in Nat /\ Ahead' \in Nat
  BY AheadNat
<1>3. Gen + Ahead' <= MaxGen
  BY <1>1, <1>2, StillRoom
<1>4. Resolved' = disk /\ call'.before = disk /\ call'.after = Changed(disk, new)
  BY <1>1, SameResolved DEF BeginCall
<1>5. new["config"] # Untouched /\ new["manifest"] # Untouched
  BY ValueAssumption DEF Value
<1>6. Changed(disk, new)["config"] = new["config"] /\ Changed(disk, new)["manifest"] = new["manifest"]
  BY <1>5, FileFacts DEF Changed
<1> QED
  BY <1>1, <1>3, <1>4, <1>6 DEF StoreFits, Fit, Gen

(* The write of a task file; a write that fails and would change nothing.              *)
LEMMA WriteFits ==
  ASSUME SInv, NEW f \in File, NEW v \in Value, WriteFile(f, v) \/ WriteFileFails(f, v),
         f \in Task \/ v = disk[f], Ahead' <= Ahead
  PROVE  StoreFits'
<1>1. /\ disk \in [File -> Value] /\ Resolved = disk /\ Fit(disk) /\ Gen \in 0..MaxGen
      /\ Gen + Ahead <= MaxGen /\ journal = NoJournal /\ call = NoCall
  BY ReadyFacts DEF WriteFile, WriteFileFails
<1>2. Ahead \in Nat /\ Ahead' \in Nat
  BY AheadNat
<1>3. Gen + Ahead' <= MaxGen
  BY <1>1, <1>2, StillRoom
<1>4. disk' \in {disk, [disk EXCEPT ![f] = v]} /\ journal' = NoJournal /\ call' = NoCall
  BY <1>1 DEF WriteFile, WriteFileFails
<1>5. disk' \in [File -> Value] /\ disk'["config"] = disk["config"] /\ disk'["manifest"] = disk["manifest"]
  BY <1>1, <1>4, FileFacts
<1>6. Resolved' = disk'
  <2>1. Resolved' = Changed(disk', Direction(journal'))
    BY DEF Resolved, Direction
  <2> QED
    BY <1>4, <1>5, <2>1, NoJournalResolved
<1> QED
  BY <1>1, <1>3, <1>4, <1>5, <1>6 DEF StoreFits, Fit, Gen

(* Changes of the membership that may be asked for.                                 *)
LEMMA BothTyped ==
  ASSUME NEW m \in SUBSET Worker, NEW s \in SUBSET Worker, NEW g \in 0..MaxGen
  PROVE  /\ Both(m, s, g) \in Change
         /\ Both(m, s, g)["config"] \in Membership /\ Both(m, s, g)["manifest"] \in Membership
         /\ Both(m, s, g)["config"].gen = g
<1>1. [members |-> m, spent |-> s, gen |-> g] \in Membership
  BY DEF Membership
<1>2. /\ Both(m, s, g) \in [File -> Value \cup {Untouched}]
      /\ Both(m, s, g)["config"] = [members |-> m, spent |-> s, gen |-> g]
      /\ Both(m, s, g)["manifest"] = [members |-> m, spent |-> s, gen |-> g]
  BY <1>1, FileFacts DEF Both, NoChange, Value
<1> QED
  BY <1>1, <1>2 DEF Change

LEMMA StyleFacts == {SaveConfig, Prepared, Forward, ForwardKept} \subseteq Style
BY DEF Style

-----------------------------------------------------------------------------
(* What an action has to show, by what it does to the journal.                       *)
StepFine == [JournalNext]_jvars /\ StoreFits'

LEMMA ByRest == SInv /\ UNCHANGED jvars /\ Ahead' <= Ahead => StepFine
BY SameFiles DEF StepFine

LEMMA ByStep == SInv /\ ClearIsLast /\ JournalStep /\ Ahead' <= Ahead => StepFine
<1> SUFFICES ASSUME SInv, ClearIsLast, JournalStep, Ahead' <= Ahead PROVE StepFine
  OBVIOUS
<1>1. [JournalNext]_jvars
  BY DEF JournalNext
<1>2. JInv'
  BY <1>1, StepKeeps DEF SInv
<1> QED
  BY <1>1, <1>2, StepFits DEF StepFine

LEMMA ByWrite ==
  ASSUME SInv, NEW f \in File, NEW v \in Value, WriteFile(f, v) \/ WriteFileFails(f, v),
         f \in Task \/ v = disk[f], Ahead' <= Ahead
  PROVE  StepFine
BY WriteFits DEF StepFine, JournalNext

LEMMA ByBegin ==
  ASSUME SInv, NEW new \in Change, NEW style \in Style, BeginCall(new, style),
         new["config"] \in Membership, new["manifest"] \in Membership,
         new["config"].gen + Ahead' <= MaxGen, Ahead' <= Ahead
  PROVE  StepFine
BY BeginFits DEF StepFine, JournalNext

LEMMA ByBoth ==
  ASSUME SInv, NEW m \in SUBSET Worker, NEW s \in SUBSET Worker, NEW g \in 0..MaxGen,
         NEW style \in Style, BeginCall(Both(m, s, g), style),
         g + Ahead' <= MaxGen, Ahead' <= Ahead
  PROVE  StepFine
<1>1. /\ Both(m, s, g) \in Change
      /\ Both(m, s, g)["config"] \in Membership /\ Both(m, s, g)["manifest"] \in Membership
      /\ Both(m, s, g)["config"].gen = g
  BY BothTyped
<1> QED
  BY <1>1, ByBegin

(* What the process in the barrier does next.                                       *)
LEMMA GoesFacts ==
  ASSUME TeamTyped, NEW x \in Doing, Goes(x)
  PROVE  /\ duty' \in [who : {"nobody", "leader", "other"}, doing : Doing]
         /\ duty'.doing = x /\ Ahead' = AheadOf(x)
BY DEF TeamTyped, Goes, Ahead

LEMMA TakeFacts ==
  ASSUME SInv, ClearIsLast, NEW who \in {"leader", "other"}, NEW x \in Doing, Take(who, x),
         AheadOf(x) = 0 \/ (AheadOf(x) = 1 /\ Resolved["config"].gen < MaxGen)
  PROVE  /\ StepFine /\ duty'.doing = x
         /\ duty' \in [who : {"nobody", "leader", "other"}, doing : Doing]
         /\ UNCHANGED <<panes, debt, up, saved, killed>>
<1>1. /\ duty = Idle /\ Enter /\ duty' = [who |-> who, doing |-> x]
      /\ UNCHANGED <<panes, debt, up, saved, killed>>
  BY DEF Take
<1>2. Ahead' = AheadOf(x)
  BY <1>1 DEF Ahead
<1>3. Ahead = 0
  BY <1>1 DEF Ahead, AheadOf, Idle
<1>4. CASE AheadOf(x) = 0
  <2>1. Ahead' <= Ahead
    BY <1>2, <1>3, <1>4
  <2> QED
    BY <1>1, <2>1, ByStep DEF JournalStep
<1>5. CASE AheadOf(x) = 1 /\ Resolved["config"].gen < MaxGen
  <2>1. [JournalNext]_jvars
    BY <1>1 DEF JournalNext, JournalStep
  <2>2. Resolved' = Resolved /\ call' = call /\ call = NoCall
    BY <1>1, SameResolved DEF Enter, SInv, JInv, Settled
  <2>3. /\ Resolved["config"] \in Membership /\ Resolved["manifest"] \in Membership
        /\ Resolved["config"].gen \in 0..MaxGen
    BY DEF SInv, TeamInv, StoreFits, Fit, Membership
  <2>4. Resolved["config"].gen + Ahead' <= MaxGen
    BY <1>2, <1>5, <2>3, JournalAssumption
  <2>5. StoreFits'
    BY <2>2, <2>3, <2>4 DEF StoreFits, Fit
  <2> QED
    BY <1>1, <2>1, <2>5 DEF StepFine
<1> QED
  BY <1>1, <1>4, <1>5

-----------------------------------------------------------------------------
(* The actions, one after another.                                                *)
Good == StepFine /\ TeamTyped' /\ TaskIsMade'

LEMMA FinishGood == SInv /\ ClearIsLast /\ Finish => Good
<1> SUFFICES ASSUME SInv, ClearIsLast, Finish PROVE Good
  OBVIOUS
<1> USE DEF SInv, TeamInv
<1>1. duty' = Idle /\ Release /\ UNCHANGED <<panes, debt, saved, killed>>
  BY DEF Finish
<1>2. Ahead' = 0 /\ Ahead' <= Ahead
  BY <1>1, AheadNat DEF Ahead, AheadOf, Idle
<1>3. StepFine
  BY <1>1, <1>2, ByStep DEF JournalStep
<1>4. duty' \in [who : {"nobody", "leader", "other"}, doing : Doing] /\ duty'.doing # "listed"
  BY <1>1 DEF Idle, Doing
<1>5. NextStage \subseteq [stage : {"none", "prior", "remove", "clean", "up"}, set : SUBSET Worker]
  <2>1. NoJob \in [stage : {"none", "prior", "remove", "clean", "up"}, set : SUBSET Worker]
    BY DEF NoJob
  <2>2. CASE Holds("failed") \/ txn.step = "thrown"
    BY <2>1, <2>2 DEF NextStage
  <2>3. CASE ~(Holds("failed") \/ txn.step = "thrown")
    <3>1. Members \subseteq Worker
      BY <2>3, ReadyFacts DEF Finish
    <3>2. CASE job.stage = "prior"
      BY <2>1, <2>3, <3>1, <3>2 DEF NextStage
    <3>3. CASE job.stage = "remove"
      BY <2>3, <3>3 DEF NextStage, TeamTyped
    <3>4. CASE job.stage \notin {"prior", "remove"}
      BY <2>1, <2>3, <3>4 DEF NextStage
    <3> QED
      BY <3>2, <3>3, <3>4
  <2> QED
    BY <2>2, <2>3
<1>6. /\ job' \in [stage : {"none", "prior", "remove", "clean", "up"}, set : SUBSET Worker]
      /\ up' = up \/ up' = NoUp
  BY <1>5 DEF Finish, TeamTyped
<1>7. NoUp \in [wants : SUBSET Worker, new : SUBSET Worker, task : Task \cup {NoFile},
                tasks : SUBSET Task, members : SUBSET Worker, spent : SUBSET Worker,
                unresolved : SUBSET Worker]
  BY DEF NoUp
<1>8. TeamTyped'
  BY <1>1, <1>4, <1>6, <1>7 DEF TeamTyped
<1>9. TaskIsMade'
  BY <1>4 DEF TaskIsMade
<1> QED
  BY <1>3, <1>8, <1>9 DEF Good

LEMMA TakesGood ==
  SInv /\ ClearIsLast /\ (Operate \/ Reconcile \/ StartDown \/ NextSection \/ StartUp) => Good
<1> SUFFICES ASSUME SInv, ClearIsLast, Operate \/ Reconcile \/ StartDown \/ NextSection \/ StartUp
             PROVE  Good
  OBVIOUS
<1> DEFINE Prior == [stage |-> "prior", set |-> {}]
           Up == [stage |-> "up", set |-> {}]
           Room(x) == x = "remove" => Resolved["config"].gen < MaxGen
<1>1. PICK who \in {"leader", "other"}, x \in {"operate", "reconcile", "remove", "plan"} :
         Take(who, x) /\ Room(x) /\ job' \in {job, Prior, Up}
  <2>1. CASE Operate
    BY <2>1 DEF Operate
  <2>2. CASE Reconcile
    BY <2>2 DEF Reconcile
  <2>3. CASE StartDown
    BY <2>3 DEF StartDown
  <2>4. CASE NextSection
    BY <2>4 DEF NextSection
  <2>5. CASE StartUp
    BY <2>5 DEF StartUp
  <2> QED
    BY <2>1, <2>2, <2>3, <2>4, <2>5
<1>2. x \in Doing /\ x # "listed"
  BY DEF Doing
<1>3. AheadOf(x) = 0 \/ (AheadOf(x) = 1 /\ Resolved["config"].gen < MaxGen)
  BY <1>1 DEF AheadOf
<1>4. /\ StepFine /\ duty'.doing = x
      /\ duty' \in [who : {"nobody", "leader", "other"}, doing : Doing]
      /\ UNCHANGED <<panes, debt, up, saved, killed>>
  BY <1>1, <1>2, <1>3, TakeFacts
<1> QED
  BY <1>1, <1>2, <1>4 DEF Good, TeamTyped, TaskIsMade, SInv, TeamInv

(* Steps under the barrier that leave scale-up and scale-down alone.                   *)
LEMMA UnscaledGood ==
  ASSUME SInv, NEW x \in Doing, x # "listed", Goes(x), Unscaled
  PROVE  TeamTyped' /\ TaskIsMade'
BY GoesFacts DEF Unscaled, TeamTyped, TaskIsMade, SInv, TeamInv

LEMMA BoardGood ==
  ASSUME SInv, NEW t \in Task, Create(t) \/ Unclaim(t) \/ \E w \in Worker : Claim(t, w)
  PROVE  Good
<1>1. PICK v \in TaskFile, x \in {"done", "number"} :
        (WriteFile(t, v) \/ WriteFileFails(t, v)) /\ Goes(x) /\ Unscaled
  <2>1. CASE Create(t)
    BY <2>1 DEF Create, NewTask, TaskFile
  <2>2. CASE Unclaim(t)
    BY <2>2 DEF Unclaim, TaskFile
  <2>3. CASE \E w \in Worker : Claim(t, w)
    BY <2>3 DEF Claim, TaskFile
  <2> QED
    BY <2>1, <2>2, <2>3
<1>2. x \in Doing /\ x # "listed" /\ AheadOf(x) = 0
  BY DEF Doing, AheadOf
<1>3. Ahead' <= Ahead
  BY <1>1, <1>2, GoesFacts, AheadNat DEF SInv, TeamInv
<1>4. t \in File /\ v \in Value
  BY FileFacts DEF Value
<1> QED
  BY <1>1, <1>2, <1>3, <1>4, ByWrite, UnscaledGood DEF Good

LEMMA SavesGood == SInv /\ (Number \/ Save \/ Mutate) => Good
<1> SUFFICES ASSUME SInv, Number \/ Save \/ Mutate PROVE Good
  OBVIOUS
<1>1. Ready("number") \/ Ready("operate")
  BY DEF Number, Save, Mutate
<1>2. /\ Members \in SUBSET Worker /\ disk["manifest"].spent \in SUBSET Worker
      /\ Gen \in 0..MaxGen /\ Ahead \in Nat
  BY <1>1, ReadyFacts, AheadNat DEF Ready
<1>3. saved.members \in SUBSET Worker /\ saved.spent \in SUBSET Worker
  BY DEF SInv, TeamInv, TeamTyped, Membership
<1>4. PICK x \in {"done", "failed"} : Goes(x) /\ Unscaled
  BY DEF Number, Save, Mutate
<1>5. x \in Doing /\ x # "listed" /\ AheadOf(x) = 0
  BY DEF Doing, AheadOf
<1>6. Ahead' = 0 /\ Ahead' <= Ahead
  BY <1>4, <1>5, GoesFacts, AheadNat DEF SInv, TeamInv
<1>7. CASE UNCHANGED jvars
  BY <1>4, <1>5, <1>6, <1>7, ByRest, UnscaledGood DEF Good
<1>8. CASE Number
  <2>1. BeginCall(Both(Members, disk["manifest"].spent, Gen), SaveConfig) /\ Gen + Ahead' <= MaxGen
    BY <1>2, <1>6, <1>8 DEF Number, NextTaskId
  <2> QED
    BY <1>2, <1>4, <1>5, <1>6, <2>1, ByBoth, StyleFacts, UnscaledGood DEF Good
<1>9. CASE RoomForOneMore /\ BeginCall(Both(saved.members, saved.spent, Gen + 1), SaveConfig)
  <2>1. Gen + 1 \in 0..MaxGen /\ Gen + 1 + Ahead' <= MaxGen
    BY <1>2, <1>6, <1>9, JournalAssumption DEF RoomForOneMore
  <2> QED
    BY <1>3, <1>4, <1>5, <1>6, <1>9, <2>1, ByBoth, StyleFacts, UnscaledGood DEF Good
<1>10. CASE Mutate
  <2>1. Gen + 1 \in 0..MaxGen /\ Gen + 1 + Ahead' <= MaxGen
    BY <1>2, <1>6, <1>10, JournalAssumption DEF Mutate, RoomForOneMore
  <2> QED
    BY <1>2, <1>4, <1>5, <1>6, <1>10, <2>1, ByBoth, StyleFacts, UnscaledGood DEF Good, Mutate
<1> QED
  BY <1>7, <1>8, <1>9, <1>10 DEF Save

LEMMA ReadGood == SInv /\ Read => Good
<1> SUFFICES ASSUME SInv, Read PROVE Good
  OBVIOUS
<1>1. /\ Ready("operate") /\ saved' = ReadConfig /\ Goes("done")
      /\ UNCHANGED <<jvars, panes, debt, job, up, killed>>
  BY DEF Read
<1>2. "done" \in Doing /\ "done" # "listed" /\ AheadOf("done") = 0
  BY DEF Doing, AheadOf
<1>3. Ahead' <= Ahead
  BY <1>1, <1>2, GoesFacts, AheadNat DEF SInv, TeamInv
<1>4. ReadConfig \in Membership
  <2>1. /\ Members \subseteq Worker /\ disk["manifest"].spent \subseteq Worker
        /\ Gen \in 0..MaxGen
    BY <1>1, ReadyFacts DEF Ready
  <2> QED
    BY <2>1 DEF ReadConfig, Membership, Members, Gen
<1> QED
  BY <1>1, <1>2, <1>3, <1>4, GoesFacts, ByRest DEF Good, SInv, TeamInv, TeamTyped, TaskIsMade

(* Steps under the barrier that do not move the scale-up.                             *)
LEMMA DownGood ==
  ASSUME SInv, NEW x \in Doing, x # "listed", Goes(x), panes' \subseteq Worker,
         debt' \subseteq Worker, killed' \subseteq Worker, UNCHANGED <<job, up, saved>>
  PROVE  TeamTyped' /\ TaskIsMade'
BY GoesFacts DEF TeamTyped, TaskIsMade, SInv, TeamInv

LEMMA SetDebtFine ==
  ASSUME SInv, txn.step = "ready", NEW W \in SUBSET Worker, SetDebt(W), Ahead' <= Ahead
  PROVE  StepFine /\ debt' \subseteq Worker
<1>1. debt' \subseteq Worker
  BY DEF SetDebt, SInv, TeamInv, TeamTyped
<1>2. CASE UNCHANGED jvars
  BY <1>1, <1>2, ByRest
<1>3. CASE WriteFileFails("config", disk["config"])
  <2>1. "config" \in File /\ disk["config"] \in Value
    BY FileFacts, ReadyFacts
  <2> QED
    BY <1>1, <1>3, <2>1, ByWrite
<1> QED
  BY <1>2, <1>3 DEF SetDebt

LEMMA SettleGood == SInv /\ (SettleDebt \/ Consume) => Good
<1> SUFFICES ASSUME SInv, SettleDebt \/ Consume PROVE Good
  OBVIOUS
<1>1. /\ txn.step = "ready" /\ UNCHANGED <<job, up, saved>>
      /\ panes' \subseteq Worker /\ killed' \subseteq Worker
  <2>1. panes \subseteq Worker /\ debt \subseteq Worker /\ killed \subseteq Worker
    BY DEF SInv, TeamInv, TeamTyped
  <2> QED
    BY <2>1 DEF SettleDebt, Consume, Ready, Kill, Live
<1>2. PICK x \in {"done", "consume", "failed"} : Goes(x)
  BY DEF SettleDebt, Consume
<1>3. x \in Doing /\ x # "listed" /\ AheadOf(x) = 0
  BY DEF Doing, AheadOf
<1>4. Ahead' <= Ahead
  BY <1>2, <1>3, GoesFacts, AheadNat DEF SInv, TeamInv
<1>5. (UNCHANGED jvars /\ debt' = debt) \/ SetDebt({})
  BY DEF SettleDebt, Consume
<1>6. StepFine /\ debt' \subseteq Worker
  <2>1. debt \subseteq Worker
    BY DEF SInv, TeamInv, TeamTyped
  <2> QED
    BY <1>1, <1>4, <1>5, <2>1, ByRest, SetDebtFine
<1> QED
  BY <1>1, <1>2, <1>3, <1>6, DownGood DEF Good

LEMMA TargetsGood == SInv /\ FindTargets => Good
<1> SUFFICES ASSUME SInv, FindTargets PROVE Good
  OBVIOUS
<1>1. txn.step = "ready" /\ UNCHANGED <<panes, job, up, saved, killed>> /\ duty.doing = "remove"
  BY DEF FindTargets, Ready, Holds
<1>2. PICK x \in {"commit", "failed"} : Goes(x)
  BY DEF FindTargets
<1>3. x \in Doing /\ x # "listed" /\ AheadOf(x) \in 0..1 /\ Ahead = 1
  BY <1>1 DEF Doing, Ahead, AheadOf
<1>4. Ahead' <= Ahead
  BY <1>2, <1>3, GoesFacts DEF SInv, TeamInv
<1>5. (UNCHANGED jvars /\ debt' = debt) \/ SetDebt(job.set)
  BY DEF FindTargets
<1>6. job.set \subseteq Worker /\ panes \subseteq Worker /\ debt \subseteq Worker /\ killed \subseteq Worker
  BY DEF SInv, TeamInv, TeamTyped
<1>7. StepFine /\ debt' \subseteq Worker
  BY <1>1, <1>4, <1>5, <1>6, ByRest, SetDebtFine
<1> QED
  BY <1>1, <1>2, <1>3, <1>6, <1>7, DownGood DEF Good

LEMMA RemovalGood == SInv /\ CommitRemoval => Good
<1> SUFFICES ASSUME SInv, CommitRemoval PROVE Good
  OBVIOUS
<1>1. /\ txn.step = "ready" /\ duty.doing = "commit" /\ Goes("kill") /\ Unscaled
      /\ BeginCall(Without(job.set), Forward)
  BY DEF CommitRemoval, Ready, Holds
<1>2. "kill" \in Doing /\ "kill" # "listed" /\ AheadOf("kill") = 0 /\ Ahead = 1
  BY <1>1 DEF Doing, Ahead, AheadOf
<1>3. Ahead' = 0
  BY <1>1, <1>2, GoesFacts DEF SInv, TeamInv
<1>4. /\ disk["config"].members \subseteq Worker /\ disk["config"].spent \subseteq Worker
      /\ Gen \in 0..MaxGen /\ Gen + 1 <= MaxGen
  BY <1>1, <1>2, ReadyFacts
<1> DEFINE M == [members |-> disk["config"].members \ job.set, spent |-> disk["config"].spent,
                 gen |-> Gen + 1]
<1>5. M \in Membership /\ M.gen = Gen + 1
  BY <1>4, JournalAssumption DEF Membership
<1>6. [owner |-> Nobody, claimed |-> FALSE] \in TaskFile
  BY DEF TaskFile
<1>7. /\ Without(job.set) \in Change
      /\ Without(job.set)["config"] = M /\ Without(job.set)["manifest"] = M
  <2>1. Without(job.set)["config"] = M /\ Without(job.set)["manifest"] = M
    BY FileFacts, ScalingAssumption DEF Without
  <2>2. ASSUME NEW f \in File PROVE Without(job.set)[f] \in Value \cup {Untouched}
    <3>1. CASE f \in Task
      BY <1>6, <3>1 DEF Without, Value
    <3>2. CASE f \notin Task
      BY <1>5, <2>1, <3>2, FileFacts DEF Value
    <3> QED
      BY <3>1, <3>2
  <2>3. Without(job.set) = [f \in File |-> Without(job.set)[f]]
    BY DEF Without
  <2> QED
    BY <2>1, <2>2, <2>3 DEF Change
<1>8. Gen + 1 + Ahead' <= MaxGen /\ Ahead' <= Ahead
  BY <1>2, <1>3, <1>4, JournalAssumption
<1>9. StepFine
  BY <1>1, <1>5, <1>7, <1>8, ByBegin, StyleFacts
<1> QED
  BY <1>1, <1>2, <1>9, UnscaledGood DEF Good

LEMMA KillsGood == SInv /\ KillTargets => Good
<1> SUFFICES ASSUME SInv, KillTargets PROVE Good
  OBVIOUS
<1>1. PICK x \in {"done", "failed"} : Goes(x)
  BY DEF KillTargets
<1>2. x \in Doing /\ x # "listed" /\ AheadOf(x) = 0
  BY DEF Doing, AheadOf
<1>3. Ahead' <= Ahead
  BY <1>1, <1>2, GoesFacts, AheadNat DEF SInv, TeamInv
<1>4. panes \subseteq Worker /\ debt \subseteq Worker /\ killed \subseteq Worker
  BY DEF SInv, TeamInv, TeamTyped
<1>5. /\ UNCHANGED <<jvars, debt, job, up, saved>>
      /\ panes' \subseteq Worker /\ killed' \subseteq Worker
  BY <1>4 DEF KillTargets, Kill, Live
<1> QED
  BY <1>1, <1>2, <1>3, <1>4, <1>5, DownGood, ByRest DEF Good

(* Steps of the scale-up.                                                         *)
UpTyped ==
  up' \in [wants : SUBSET Worker, new : SUBSET Worker, task : Task \cup {NoFile},
          tasks : SUBSET Task, members : SUBSET Worker, spent : SUBSET Worker,
          unresolved : SUBSET Worker]

LEMMA UpGood ==
  ASSUME SInv, NEW x \in Doing, NEW u, UpGoes(x, u), UpTyped, panes' \subseteq Worker,
         x = "listed" => u.task \in Task
  PROVE  TeamTyped' /\ TaskIsMade'
<1>1. up' = u /\ Goes(x) /\ UNCHANGED <<debt, job, saved, killed>>
  BY DEF UpGoes
<1>2. TeamTyped /\ duty' \in [who : {"nobody", "leader", "other"}, doing : Doing]
  BY <1>1, GoesFacts DEF SInv, TeamInv
<1>3. TaskIsMade'
  BY <1>1, GoesFacts DEF TaskIsMade, SInv, TeamInv
<1> QED
  BY <1>1, <1>2, <1>3 DEF TeamTyped, UpTyped

(* The names and sets a scale-up works with.                                         *)
LEMMA UpFacts ==
  ASSUME SInv
  PROVE  /\ panes \subseteq Worker /\ up.members \subseteq Worker /\ up.spent \subseteq Worker
         /\ up.unresolved \subseteq Worker /\ (up' = up => UpTyped)
         /\ UpWorkers \subseteq Worker /\ up.new \subseteq Worker
BY DEF SInv, TeamInv, TeamTyped, UpTyped, UpWorkers

(* What a step of a scale-up does next, when it uses no more generations.              *)
LEMMA UpAhead ==
  ASSUME SInv, NEW x \in Doing, NEW u, UpGoes(x, u), AheadOf(x) <= Ahead
  PROVE  Ahead' <= Ahead /\ Ahead' = AheadOf(x)
BY GoesFacts DEF UpGoes, SInv, TeamInv

LEMMA PlanGood == SInv /\ Plan => Good
<1> SUFFICES ASSUME SInv, Plan PROVE Good
  OBVIOUS
<1>1. txn.step = "ready" /\ UNCHANGED <<jvars, panes>>
  BY DEF Plan, Ready
<1>2. CASE UpGoes("failed", up)
  <2>1. "failed" \in Doing /\ AheadOf("failed") = 0 /\ Goes("failed")
    BY <1>2 DEF Doing, AheadOf, UpGoes
  <2>2. Ahead' <= Ahead
    BY <2>1, GoesFacts, AheadNat DEF SInv, TeamInv
  <2>3. UpTyped /\ panes' \subseteq Worker
    BY <1>1, <1>2, UpFacts DEF UpGoes
  <2> QED
    BY <1>1, <1>2, <2>1, <2>2, <2>3, ByRest, UpGood DEF Good
<1>3. ASSUME NEW W \in SUBSET Worker, RoomForOneMore,
             UpGoes("create", [NoUp EXCEPT !.wants = W, !.members = Members,
                                           !.spent = disk["manifest"].spent])
      PROVE  Good
  <2>1. "create" \in Doing /\ AheadOf("create") = 2 /\ Goes("create")
    BY <1>3 DEF Doing, AheadOf, UpGoes
  <2>2. Ahead' = 2
    BY <2>1, GoesFacts DEF SInv, TeamInv
  <2>3. Resolved' = disk /\ call' = NoCall /\ Fit(disk) /\ Gen \in 0..MaxGen
    BY <1>1, ReadyFacts, SameResolved DEF jvars
  <2>4. Gen + 2 <= MaxGen
    BY <1>3, <2>3, JournalAssumption DEF RoomForOneMore
  <2>5. StepFine
    BY <1>1, <2>2, <2>3, <2>4 DEF StepFine, StoreFits, Fit, Gen
  <2>6. Members \subseteq Worker /\ disk["manifest"].spent \subseteq Worker
    BY <1>1, ReadyFacts
  <2>7. UpTyped /\ panes' \subseteq Worker
    BY <1>1, <1>3, <2>6, UpFacts DEF UpGoes, UpTyped, NoUp
  <2> QED
    BY <1>3, <2>1, <2>5, <2>7, UpGood DEF Good
<1> QED
  BY <1>2, <1>3 DEF Plan

LEMMA CreateUpGood ==
  ASSUME SInv, NEW t \in Task, NEW owner \in Worker \cup {Nobody}, CreateUpTask(t, owner)
  PROVE  Good
<1>1. /\ txn.step = "ready" /\ duty.doing = "create" /\ NewTask(t, owner)
      /\ UpGoes("create", [up EXCEPT !.task = t]) /\ panes' = panes
  BY DEF CreateUpTask, Ready, Holds
<1>2. "create" \in Doing /\ AheadOf("create") = Ahead /\ Ahead = 2
  BY <1>1 DEF Doing, AheadOf, Ahead
<1>3. UpTyped /\ panes' \subseteq Worker
  BY <1>1 DEF UpGoes, UpTyped, SInv, TeamInv, TeamTyped
<1>4. Ahead' <= Ahead
  BY <1>1, <1>2, UpAhead
<1>5. t \in File /\ [owner |-> owner, claimed |-> FALSE] \in Value
  BY FileFacts DEF Value, TaskFile
<1>6. StepFine
  BY <1>1, <1>4, <1>5, ByWrite DEF NewTask
<1> QED
  BY <1>1, <1>2, <1>3, <1>6, UpGood DEF Good

LEMMA NumberUpGood == SInv /\ NumberUpTask => Good
<1> SUFFICES ASSUME SInv, NumberUpTask PROVE Good
  OBVIOUS
<1>1. /\ txn.step = "ready" /\ duty.doing = "create" /\ UpGoes("listed", up) /\ panes' = panes
      /\ up.task # NoFile
      /\ BeginCall(Both(Members, disk["manifest"].spent, Gen), SaveConfig)
  BY DEF NumberUpTask, NextTaskId, Ready, Holds
<1>2. "listed" \in Doing /\ AheadOf("listed") = 2 /\ Ahead = 2
  BY <1>1 DEF Doing, AheadOf, Ahead
<1>3. Ahead' = 2
  BY <1>1, <1>2, UpAhead
<1>4. /\ Members \in SUBSET Worker /\ disk["manifest"].spent \in SUBSET Worker
      /\ Gen \in 0..MaxGen /\ Gen + Ahead <= MaxGen
  BY <1>1, ReadyFacts
<1>5. StepFine
  BY <1>1, <1>2, <1>3, <1>4, ByBoth, StyleFacts
<1>6. UpTyped /\ panes' \subseteq Worker /\ up.task \in Task
  BY <1>1, UpFacts DEF UpGoes, SInv, TeamInv, TeamTyped
<1> QED
  BY <1>1, <1>2, <1>5, <1>6, UpGood DEF Good

(* The task numbered last is put on the list of those this scale-up has made.            *)
LEMMA ListUpGood == SInv /\ ListUpTask => Good
<1> SUFFICES ASSUME SInv, ListUpTask PROVE Good
  OBVIOUS
<1>1. /\ duty.doing = "listed" /\ UNCHANGED <<jvars, panes>>
      /\ UpGoes("create", [up EXCEPT !.task = NoFile, !.tasks = @ \cup {up.task}])
  BY DEF ListUpTask, Ready, Holds
<1>2. "create" \in Doing /\ AheadOf("create") = Ahead /\ Ahead = 2
  BY <1>1 DEF Doing, AheadOf, Ahead
<1>3. Ahead' <= Ahead
  BY <1>1, <1>2, UpAhead
<1>4. up.task \in Task
  BY <1>1 DEF SInv, TeamInv, TaskIsMade
<1>5. UpTyped /\ panes' \subseteq Worker
  BY <1>1, <1>4 DEF UpGoes, UpTyped, SInv, TeamInv, TeamTyped
<1> QED
  BY <1>1, <1>2, <1>3, <1>5, ByRest, UpGood DEF Good

LEMMA SplitGood == ASSUME SInv, NEW w \in Worker, Split(w) PROVE Good
<1>1. /\ duty.doing \in {"split", "create"} /\ panes' = panes \cup {w} /\ UNCHANGED jvars
      /\ UpGoes("start", [up EXCEPT !.wants = @ \ {w}, !.new = @ \cup {w}])
  BY DEF Split, Ready, Holds
<1>2. "start" \in Doing /\ AheadOf("start") = Ahead /\ Ahead = 2
  BY <1>1 DEF Doing, AheadOf, Ahead
<1>3. UpTyped /\ panes' \subseteq Worker
  BY <1>1 DEF UpGoes, UpTyped, SInv, TeamInv, TeamTyped
<1>4. Ahead' <= Ahead
  BY <1>1, <1>2, UpAhead
<1> QED
  BY <1>1, <1>2, <1>3, <1>4, ByRest, UpGood DEF Good

LEMMA JoinGood == SInv /\ Join => Good
<1> SUFFICES ASSUME SInv, Join PROVE Good
  OBVIOUS
<1> DEFINE m == Members \cup up.new
           s == disk["manifest"].spent \cup up.new
<1>1. /\ txn.step = "ready" /\ duty.doing = "start" /\ UpGoes("save", up) /\ panes' = panes
      /\ BeginCall(Both(m, s, Gen + 1), SaveConfig) /\ Gen + 3 <= MaxGen
  BY DEF Join, Ready, Holds, RoomForOneMore
<1>2. "save" \in Doing /\ AheadOf("save") = 2 /\ Ahead = 2
  BY <1>1 DEF Doing, AheadOf, Ahead
<1>3. Ahead' = 2 /\ Ahead' <= Ahead
  BY <1>1, <1>2, UpAhead
<1>4. UpTyped /\ panes' \subseteq Worker /\ up.new \subseteq Worker
  BY <1>1, UpFacts DEF UpGoes
<1>5. m \in SUBSET Worker /\ s \in SUBSET Worker /\ Gen \in 0..MaxGen
  BY <1>1, <1>4, ReadyFacts
<1>6. Gen + 1 \in 0..MaxGen /\ Gen + 1 + Ahead' <= MaxGen
  BY <1>1, <1>3, <1>5, JournalAssumption
<1>7. StepFine
  <2> HIDE DEF m, s
  <2> QED
    BY <1>1, <1>3, <1>5, <1>6, ByBoth, StyleFacts
<1> QED
  BY <1>1, <1>2, <1>4, <1>7, UpGood DEF Good

LEMMA EndsGood == SInv /\ (Joined \/ Rolled) => Good
<1> SUFFICES ASSUME SInv, Joined \/ Rolled PROVE Good
  OBVIOUS
<1>1. PICK x \in {"done", "failed", "split"} :
         UpGoes(x, up) /\ UNCHANGED <<jvars, panes>> /\ (x = "split" => duty.doing = "save")
  BY DEF Joined, Rolled, Ready, Holds
<1>2. x \in Doing /\ AheadOf(x) <= Ahead
  BY <1>1, AheadNat DEF Doing, AheadOf, Ahead
<1>3. Ahead' <= Ahead
  BY <1>1, <1>2, UpAhead
<1>4. UpTyped /\ panes' \subseteq Worker
  BY <1>1, UpFacts DEF UpGoes
<1> QED
  BY <1>1, <1>2, <1>3, <1>4, ByRest, UpGood DEF Good

LEMMA RollBackGood == SInv /\ ClearIsLast /\ RollBack => Good
<1> SUFFICES ASSUME SInv, ClearIsLast, RollBack PROVE Good
  OBVIOUS
<1>1. /\ duty.doing \in {"create", "listed", "split", "start", "save"} /\ UpGoes("track", up)
      /\ panes' = panes /\ (UNCHANGED jvars \/ Enter)
  BY DEF RollBack, RollsBack
<1>2. "track" \in Doing /\ AheadOf("track") = Ahead /\ Ahead = 2
  BY <1>1 DEF Doing, AheadOf, Ahead
<1>3. UpTyped /\ panes' \subseteq Worker
  BY <1>1, UpFacts DEF UpGoes
<1>4. Ahead' <= Ahead
  BY <1>1, <1>2, UpAhead
<1>5. StepFine
  BY <1>1, <1>4, ByRest, ByStep DEF JournalStep
<1> QED
  BY <1>1, <1>2, <1>3, <1>5, UpGood DEF Good

LEMMA TrackGood == SInv /\ Track => Good
<1> SUFFICES ASSUME SInv, Track PROVE Good
  OBVIOUS
<1> DEFINE m == disk["config"].members \cup UpWorkers
           s == disk["config"].spent \cup UpWorkers
<1>1. /\ txn.step = "ready" /\ duty.doing = "track" /\ UpGoes("tracked", up) /\ panes' = panes
      /\ BeginCall(Both(m, s, Gen + 1), Forward)
  BY DEF Track, Ready, Holds
<1>2. "tracked" \in Doing /\ AheadOf("tracked") = 1 /\ Ahead = 2
  BY <1>1 DEF Doing, AheadOf, Ahead
<1>3. Ahead' = 1 /\ Ahead' <= Ahead
  BY <1>1, <1>2, UpAhead
<1>4. UpTyped /\ panes' \subseteq Worker /\ UpWorkers \subseteq Worker
  BY <1>1, UpFacts DEF UpGoes
<1>5. m \in SUBSET Worker /\ s \in SUBSET Worker /\ Gen \in 0..MaxGen /\ Gen + 2 <= MaxGen
  BY <1>1, <1>2, <1>4, ReadyFacts
<1>6. Gen + 1 \in 0..MaxGen /\ Gen + 1 + Ahead' <= MaxGen
  BY <1>3, <1>5, JournalAssumption
<1>7. StepFine
  <2> HIDE DEF m, s
  <2> QED
    BY <1>1, <1>3, <1>5, <1>6, ByBoth, StyleFacts
<1> QED
  BY <1>1, <1>2, <1>4, <1>7, UpGood DEF Good

LEMMA KillUpGood == SInv /\ KillUpPanes => Good
<1> SUFFICES ASSUME SInv, KillUpPanes PROVE Good
  OBVIOUS
<1>1. PICK U \in SUBSET UpWorkers, S \in SUBSET UpWorkers :
         /\ panes' = panes \ (UpWorkers \ U)
         /\ UpGoes("roll", [up EXCEPT !.unresolved = U, !.spent = @ \cup S])
  BY DEF KillUpPanes, Kill
<1>2. duty.doing = "tracked" /\ UNCHANGED jvars
  BY DEF KillUpPanes, Ready, Holds
<1>3. "roll" \in Doing /\ AheadOf("roll") = Ahead /\ Ahead = 1
  BY <1>2 DEF Doing, AheadOf, Ahead
<1>4. Ahead' <= Ahead
  BY <1>1, <1>3, UpAhead
<1>5. UpTyped /\ panes' \subseteq Worker
  <2>1. U \subseteq Worker /\ S \subseteq Worker
    BY UpFacts
  <2> QED
    BY <1>1, <2>1 DEF UpGoes, UpTyped, SInv, TeamInv, TeamTyped
<1> QED
  BY <1>1, <1>2, <1>3, <1>4, <1>5, ByRest, UpGood DEF Good

LEMMA RollGood == SInv /\ Roll => Good
<1> SUFFICES ASSUME SInv, Roll PROVE Good
  OBVIOUS
<1>1. /\ txn.step = "ready" /\ duty.doing = "roll" /\ UpGoes("rolled", up) /\ panes' = panes
      /\ BeginCall(RolledBack, ForwardKept)
  BY DEF Roll, Ready, Holds
<1>2. "rolled" \in Doing /\ AheadOf("rolled") = 0 /\ Ahead = 1
  BY <1>1 DEF Doing, AheadOf, Ahead
<1>3. Ahead' = 0 /\ Ahead' <= Ahead
  BY <1>1, <1>2, UpAhead
<1>4. /\ UpTyped /\ panes' \subseteq Worker /\ up.members \subseteq Worker
      /\ up.spent \subseteq Worker /\ up.unresolved \subseteq Worker
  BY <1>1, UpFacts DEF UpGoes
<1>5. Gen \in 0..MaxGen /\ Gen + 1 <= MaxGen /\ disk \in [File -> Value]
  BY <1>1, <1>2, ReadyFacts
<1> DEFINE M == [members |-> up.members \cup up.unresolved, spent |-> up.spent, gen |-> Gen + 1]
<1>6. M \in Membership /\ M.gen = Gen + 1
  BY <1>4, <1>5, JournalAssumption DEF Membership
<1>7. RolledBack \in Change /\ RolledBack["config"] = M /\ RolledBack["manifest"] = M
  <2>1. RolledBack["config"] = M /\ RolledBack["manifest"] = M
    BY FileFacts, ScalingAssumption DEF RolledBack
  <2>2. ASSUME NEW f \in File PROVE RolledBack[f] \in Value \cup {Untouched}
    <3>1. CASE f \in Task
      BY <1>5, <3>1 DEF RolledBack, Value
    <3>2. CASE f \notin Task
      BY <1>6, <2>1, <3>2, FileFacts DEF Value
    <3> QED
      BY <3>1, <3>2
  <2>3. RolledBack = [f \in File |-> RolledBack[f]]
    BY DEF RolledBack
  <2> QED
    BY <2>1, <2>2, <2>3 DEF Change
<1>8. Gen + 1 + Ahead' <= MaxGen
  BY <1>3, <1>5, JournalAssumption
<1>9. StepFine
  BY <1>1, <1>3, <1>6, <1>7, <1>8, ByBegin, StyleFacts
<1> QED
  BY <1>1, <1>2, <1>4, <1>9, UpGood DEF Good

LEMMA JournallingGood == SInv /\ ClearIsLast /\ (Journalling \/ JournalFails) => Good
<1> SUFFICES ASSUME SInv, ClearIsLast, Journalling \/ JournalFails PROVE Good
  OBVIOUS
<1>1. JournalStep /\ UNCHANGED duty /\ Unscaled
  BY DEF Journalling, JournalFails, JournalStep
<1>2. Ahead' <= Ahead
  BY <1>1, AheadNat DEF Ahead
<1>3. StepFine
  BY <1>1, <1>2, ByStep
<1> QED
  BY <1>1, <1>3 DEF Good, Unscaled, SInv, TeamInv, TeamTyped, TaskIsMade

LEMMA DeathsGood == SInv /\ ClearIsLast /\ (HolderDies \/ LeaderDies) => Good
<1> SUFFICES ASSUME SInv, ClearIsLast, HolderDies \/ LeaderDies PROVE Good
  OBVIOUS
<1>1. NoJob \in [stage : {"none", "prior", "remove", "clean", "up"}, set : SUBSET Worker]
  BY DEF NoJob
<1>2. NoUp \in [wants : SUBSET Worker, new : SUBSET Worker, task : Task \cup {NoFile},
                tasks : SUBSET Task, members : SUBSET Worker, spent : SUBSET Worker,
                unresolved : SUBSET Worker]
  BY DEF NoUp
<1>3. CASE HolderDies
  <2>1. /\ Crash /\ duty' = Idle /\ UNCHANGED <<panes, debt, saved, killed>>
        /\ job' \in {job, NoJob} /\ up' \in {up, NoUp}
    BY <1>3 DEF HolderDies
  <2>2. Ahead' = 0 /\ Ahead' <= Ahead
    BY <2>1, AheadNat DEF Ahead, AheadOf, Idle
  <2>3. duty' \in [who : {"nobody", "leader", "other"}, doing : Doing] /\ duty'.doing # "listed"
    BY <2>1 DEF Idle, Doing
  <2>4. TeamTyped'
    BY <1>1, <1>2, <2>1, <2>3 DEF TeamTyped, SInv, TeamInv
  <2>5. TaskIsMade'
    BY <2>3 DEF TaskIsMade
  <2> QED
    BY <2>1, <2>2, <2>4, <2>5, ByStep DEF Good, JournalStep
<1>4. CASE LeaderDies
  <2>1. job' = NoJob /\ UNCHANGED <<jvars, panes, debt, duty, up, saved, killed>>
    BY <1>4 DEF LeaderDies
  <2>2. Ahead' <= Ahead
    BY <2>1, AheadNat DEF Ahead
  <2> QED
    BY <1>1, <2>1, <2>2, ByRest DEF Good, TeamTyped, TaskIsMade, SInv, TeamInv
<1> QED
  BY <1>3, <1>4

-----------------------------------------------------------------------------
(* Every step.                                                                    *)
LEMMA InitSInv == Init => SInv
<1> SUFFICES ASSUME Init PROVE SInv
  OBVIOUS
<1>1. JInv /\ disk \in [File -> Value] /\ journal = NoJournal /\ call = NoCall
  <2>1. JInv
    BY InitJInv DEF Init
  <2> QED
    BY <2>1 DEF Init, JournalInit, JInv, JournalTypeOK
<1> DEFINE M == [members |-> FirstWorkers, spent |-> FirstWorkers, gen |-> 0]
<1>2. M \in Membership /\ M.gen = 0
  BY JournalAssumption DEF Membership
<1>3. disk["config"] = M /\ disk["manifest"] = M
  BY FileFacts DEF Init, JournalInit
<1>4. Ahead = 0
  BY DEF Init, Idle, Ahead, AheadOf
<1>5. Resolved = disk
  BY <1>1, NoJournalResolved DEF Resolved
<1>6. StoreFits
  BY <1>1, <1>2, <1>3, <1>4, <1>5, JournalAssumption DEF StoreFits, Fit
<1>7. saved \in Membership
  BY <1>2, <1>3 DEF Init, ReadConfig, Membership
<1>8. TeamTyped
  BY <1>7, JournalAssumption DEF TeamTyped, Init, Idle, Doing, NoJob, NoUp
<1>9. TaskIsMade
  BY DEF TaskIsMade, Init, Idle
<1> QED
  BY <1>1, <1>6, <1>8, <1>9 DEF SInv, TeamInv

LEMMA NextGood == SInv /\ ClearIsLast /\ Next => Good
BY FinishGood, TakesGood, BoardGood, SavesGood, ReadGood, SettleGood, TargetsGood, RemovalGood,
   KillsGood, PlanGood, CreateUpGood, NumberUpGood, ListUpGood, SplitGood, JoinGood, EndsGood,
   RollBackGood, TrackGood, KillUpGood, RollGood, JournallingGood, DeathsGood DEF Next

LEMMA StillGood == SInv /\ UNCHANGED vars => Good
<1> SUFFICES ASSUME SInv, UNCHANGED vars PROVE Good
  OBVIOUS
<1>1. UNCHANGED jvars /\ UNCHANGED <<panes, debt, duty, job, up, saved, killed>>
  BY DEF vars
<1>2. Ahead' <= Ahead
  BY <1>1, AheadNat DEF Ahead
<1> QED
  BY <1>1, <1>2, ByRest DEF Good, TeamTyped, TaskIsMade, SInv, TeamInv

LEMMA TeamStep ==
  SInv /\ ClearIsLast /\ [Next]_vars => [JournalNext]_jvars /\ SInv'
<1> SUFFICES ASSUME SInv, ClearIsLast, [Next]_vars PROVE [JournalNext]_jvars /\ SInv'
  OBVIOUS
<1>1. Good
  BY NextGood, StillGood
<1>2. [JournalNext]_jvars /\ TeamInv'
  BY <1>1 DEF Good, StepFine, TeamInv
<1> QED
  BY <1>2, StepKeeps DEF SInv

(* The files, the panes, the debt and the stages of a scale-up, a scale-down or a       *)
(* settlement are always in one of the states the code can leave them in.              *)
THEOREM ScalingTypeCorrect ==
  ASSUME ClearIsLast
  PROVE  Spec => []ScalingTypeOK
<1>1. SInv /\ [Next]_vars => SInv'
  BY TeamStep
<1>2. SInv => ScalingTypeOK
  BY DEF SInv, JInv, TeamInv, TeamTyped, ScalingTypeOK
<1> QED
  BY <1>1, <1>2, InitSInv, PTL DEF Spec

(* Scaling, shutdown and the task board use the journal by its protocol: nobody           *)
(* writes a file or begins a change while a journal waits to be replayed, or inside      *)
(* another change, however the holder of the barrier failed or died.                 *)
THEOREM ScalingIsJournalled ==
  ASSUME ClearIsLast
  PROVE  Spec => JournalSpec
<1>1. SInv /\ [Next]_vars => [JournalNext]_jvars /\ SInv'
  BY TeamStep
<1>2. Init => JournalInit
  BY DEF Init
<1> QED
  BY <1>1, <1>2, InitSInv, PTL DEF Spec, JournalSpec

(* So a team's config, manifest and tasks change together or not at all, in every         *)
(* scale-up, scale-down, roll-back and save.                                        *)
THEOREM ScalingImplementsStore ==
  ASSUME ClearIsLast
  PROVE  Spec => ImplementsStore
<1>1. Spec => JournalSpec
  BY ScalingIsJournalled
<1>2. JournalSpec => ImplementsStore
  BY JournalImplementsStore
<1> QED
  BY <1>1, <1>2
=============================================================================
