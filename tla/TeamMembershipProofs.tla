------------------------ MODULE TeamMembershipProofs ------------------------
(* Who is a member, who is owed a kill and who has been killed, for any team: a       *)
(* removed worker does not come back, the debt is never half paid, and a claim is      *)
(* always a member's. What makes this so is a fact about both sides of the change      *)
(* that is under way, so a crash, a replay or a roll-back finds it wherever it ends.    *)
EXTENDS TeamScalingProofs

Claims(c, W) ==
  \A t \in Task : c[t] \in [owner : Worker, claimed : {TRUE}] => c[t].owner \in W
AllOrNone(d, W) == d \cap W \in {{}, d}

(* Files c are sound beside a config s somebody read, the workers k that were killed    *)
(* and a debt d: config and manifest agree; who read this generation read these         *)
(* members; nobody killed is a member, and his name is used up.                       *)
Sound(c, s, k, d) ==
  LET m == c["manifest"] IN
  /\ c["config"] = m /\ m \in Membership
  /\ m.members \subseteq m.spent
  /\ s.gen \in 0..m.gen
  /\ s.gen = m.gen => s.members = m.members /\ s.spent = m.spent
  /\ k \subseteq m.spent /\ k \cap m.members = {}
  /\ d \subseteq m.spent /\ AllOrNone(d, m.members)
  /\ Claims(c, m.members)

(* While a team grows: it has the members it had, and perhaps some of the workers that    *)
(* have got a pane since. None of those to come has been killed or is in the debt.        *)
UpDoing == {"create", "listed", "split", "start", "save", "track", "tracked", "roll"}
GrowsFrom(u, k, d) ==
  /\ u.members \subseteq u.spent /\ u.unresolved \subseteq u.new \cap u.spent
  /\ (u.wants \cup u.new) \cap (k \cup d) = {}
  /\ k \subseteq u.spent /\ k \cap u.members = {}
  /\ d \subseteq u.spent /\ AllOrNone(d, u.members)
Growing(c, u) ==
  /\ c["manifest"].members \subseteq u.members \cup u.new
  /\ Claims(c, u.members)

Right(c, s, k, d, doing, u) ==
  Sound(c, s, k, d) /\ (doing \in UpDoing => GrowsFrom(u, k, d) /\ Growing(c, u))

RightNow(c) == Right(c, saved, killed, debt, duty.doing, up)
RightNext(c) == Right(c, saved', killed', debt', duty'.doing, up')
AllRight == RightNow(Resolved) /\ (call # NoCall => RightNow(call.before) /\ RightNow(call.after))

(* A scale-down writes its debt before it removes, and removes before it kills.         *)
DownInOrder ==
  /\ duty.doing \in {"remove", "commit", "kill"} => duty.who = "leader"
  /\ duty.doing = "commit" => /\ txn.step \in {"ready", "thrown"}
                              /\ txn.step = "ready" => debt = job.set
  /\ duty.doing = "kill" =>
       /\ txn.step # "out" /\ (txn.step = "replay" => txn.caught)
       /\ debt = job.set
       /\ txn.step = "ready" => job.set \cap ResolvedMembers = {}
       /\ call # NoCall => job.set \cap call.after["manifest"].members = {}

MInv == SInv /\ AllRight /\ DownInOrder

-----------------------------------------------------------------------------
(* Which steps keep both sides right.                                               *)

(* The same scale-up goes on: at most some more of its workers have got their pane.     *)
SameUp(u, v) ==
  /\ u.members = v.members /\ u.spent = v.spent /\ u.unresolved = v.unresolved
  /\ u.new \subseteq v.new /\ v.wants \cup v.new \subseteq u.wants \cup u.new
StillGrows == duty'.doing \in UpDoing => duty.doing \in UpDoing /\ SameUp(up, up')
SameOwed == UNCHANGED <<saved, killed, debt>>

LEMMA RightKept ==
  ASSUME SameOwed, StillGrows, NEW c, RightNow(c)
  PROVE  RightNext(c)
<1>1. saved' = saved /\ killed' = killed /\ debt' = debt
  BY DEF SameOwed
<1>2. Sound(c, saved', killed', debt')
  BY <1>1 DEF RightNow, Right
<1>3. ASSUME duty'.doing \in UpDoing
      PROVE  GrowsFrom(up', killed', debt') /\ Growing(c, up')
  <2>1. GrowsFrom(up, killed, debt) /\ Growing(c, up) /\ SameUp(up, up')
    BY <1>3 DEF RightNow, Right, StillGrows
  <2> QED
    BY <1>1, <2>1 DEF GrowsFrom, Growing, SameUp
<1> QED
  BY <1>2, <1>3 DEF RightNext, Right

LEMMA SidesKept ==
  ASSUME MInv, SameOwed, StillGrows, call' \in {call, NoCall},
         Resolved' = Resolved \/ (call # NoCall /\ Resolved' \in {call.before, call.after})
  PROVE  AllRight'
<1>1. RightNow(Resolved) /\ (call # NoCall => RightNow(call.before) /\ RightNow(call.after))
  BY DEF MInv, AllRight
<1>2. RightNext(Resolved')
  BY <1>1, RightKept
<1>3. call' # NoCall => RightNext(call'.before) /\ RightNext(call'.after)
  BY <1>1, RightKept
<1> QED
  BY <1>2, <1>3 DEF AllRight, RightNow, RightNext

LEMMA StepSides ==
  ASSUME MInv, SInv', ClearIsLast, JournalStep, SameOwed, StillGrows
  PROVE  AllRight'
BY SidesKept, StepResolved DEF MInv, SInv

LEMMA RestSides ==
  ASSUME MInv, UNCHANGED jvars, SameOwed, StillGrows
  PROVE  AllRight'
BY SidesKept, SameResolved DEF jvars

(* What whoever may read and write reads.                                           *)
Spent == disk["manifest"].spent

LEMMA ReadySound ==
  ASSUME MInv, txn.step = "ready"
  PROVE  /\ journal = NoJournal /\ call = NoCall /\ disk \in [File -> Value]
         /\ Resolved = disk /\ RightNow(disk) /\ Sound(disk, saved, killed, debt)
         /\ disk["config"] = disk["manifest"]
         /\ Members \subseteq Worker /\ Spent \subseteq Worker /\ Members \subseteq Spent
         /\ Gen \in 0..MaxGen /\ disk["manifest"].gen = Gen
<1>1. /\ journal = NoJournal /\ call = NoCall /\ disk \in [File -> Value] /\ Resolved = disk
      /\ Members \subseteq Worker /\ Spent \subseteq Worker /\ Gen \in 0..MaxGen
  BY ReadyFacts DEF MInv, Spent
<1>2. RightNow(disk)
  BY <1>1 DEF MInv, AllRight
<1>3. Sound(disk, saved, killed, debt)
  BY <1>2 DEF RightNow, Right
<1>4. disk["config"] = disk["manifest"] /\ Members \subseteq Spent
  BY <1>3 DEF Sound, Members, Spent
<1> QED
  BY <1>1, <1>2, <1>3, <1>4 DEF Gen

LEMMA HereSides ==
  ASSUME call' = NoCall, RightNext(Resolved')
  PROVE  AllRight'
BY DEF AllRight, RightNow, RightNext

LEMMA BeginSides ==
  ASSUME MInv, NEW new, NEW style, BeginCall(new, style), SameOwed, StillGrows,
         RightNext(Changed(disk, new))
  PROVE  AllRight'
<1>1. /\ txn.step = "ready" /\ UNCHANGED <<disk, journal>>
      /\ call' = [open |-> TRUE, before |-> disk, after |-> Changed(disk, new)]
  BY DEF BeginCall
<1>2. Resolved = disk /\ RightNow(disk)
  BY <1>1, ReadySound
<1>3. Resolved' = disk
  BY <1>1, <1>2, SameResolved
<1>4. RightNext(disk)
  BY <1>2, RightKept
<1>5. call'.before = disk /\ call'.after = Changed(disk, new)
  BY <1>1
<1> QED
  BY <1>3, <1>4, <1>5 DEF AllRight, RightNow, RightNext

(* Changes of config and manifest that add the workers A, or nobody.                   *)
LEMMA BothChanged ==
  ASSUME disk \in [File -> Value], NEW m \in SUBSET Worker, NEW s \in SUBSET Worker,
         NEW g \in 0..MaxGen
  PROVE  LET c == Changed(disk, Both(m, s, g))
             M == [members |-> m, spent |-> s, gen |-> g]
         IN c["config"] = M /\ c["manifest"] = M /\ \A t \in Task : c[t] = disk[t]
<1> DEFINE M == [members |-> m, spent |-> s, gen |-> g]
<1>1. M \in Value
  BY DEF Membership, Value
<1>2. M # Untouched
  BY <1>1, ValueAssumption
<1>3. /\ Both(m, s, g)["config"] = M /\ Both(m, s, g)["manifest"] = M
      /\ \A t \in Task : Both(m, s, g)[t] = Untouched
  BY FileFacts DEF Both, NoChange
<1> QED
  BY <1>2, <1>3, FileFacts DEF Changed

LEMMA BothSides ==
  ASSUME MInv, NEW style, NEW A \in SUBSET Worker, NEW g \in 0..MaxGen,
         BeginCall(Both(Members \cup A, Spent \cup A, g), style),
         g = Gen + 1 \/ (g = Gen /\ A = {}),
         A \cap killed = {}, A \cap debt = {}, SameOwed, StillGrows,
         duty'.doing \in UpDoing => A \subseteq up.new
  PROVE  AllRight'
<1> DEFINE c == Changed(disk, Both(Members \cup A, Spent \cup A, g))
           M == [members |-> Members \cup A, spent |-> Spent \cup A, gen |-> g]
<1>1. txn.step = "ready"
  BY DEF BeginCall
<1>2. /\ disk \in [File -> Value] /\ Sound(disk, saved, killed, debt) /\ RightNow(disk)
      /\ Members \subseteq Worker /\ Spent \subseteq Worker /\ Members \subseteq Spent
      /\ Gen \in 0..MaxGen /\ disk["manifest"].gen = Gen
  BY <1>1, ReadySound
<1>3. c["config"] = M /\ c["manifest"] = M /\ \A t \in Task : c[t] = disk[t]
  <2> DEFINE m == Members \cup A
             s == Spent \cup A
  <2>1. m \in SUBSET Worker /\ s \in SUBSET Worker /\ disk \in [File -> Value]
    BY <1>2
  <2> HIDE DEF m, s
  <2>2. LET b == Changed(disk, Both(m, s, g))
            N == [members |-> m, spent |-> s, gen |-> g]
        IN b["config"] = N /\ b["manifest"] = N /\ \A t \in Task : b[t] = disk[t]
    BY <2>1, BothChanged
  <2> QED
    BY <2>2 DEF m, s
<1>4. Sound(c, saved, killed, debt)
  <2>1. /\ saved.gen \in 0..Gen
        /\ saved.gen = Gen => saved.members = Members /\ saved.spent = Spent
        /\ killed \subseteq Spent /\ killed \cap Members = {}
        /\ debt \subseteq Spent /\ debt \cap Members \in {{}, debt}
        /\ Claims(disk, Members)
    BY <1>2 DEF Sound, Members, Spent, AllOrNone
  <2>2. /\ saved.gen \in 0..g
        /\ saved.gen = g => saved.members = M.members /\ saved.spent = M.spent
    BY <1>2, <2>1, JournalAssumption
  <2>3. debt \cap M.members \in {{}, debt} /\ debt \subseteq M.spent
    BY <2>1
  <2>4. killed \subseteq M.spent /\ killed \cap M.members = {}
    BY <2>1
  <2>5. Claims(c, M.members)
    BY <1>3, <2>1 DEF Claims
  <2>6. M \in Membership /\ M.members \subseteq M.spent /\ M.gen = g
    BY <1>2 DEF Membership
  <2> HIDE DEF M, c
  <2> QED
    BY <1>3, <2>2, <2>3, <2>4, <2>5, <2>6 DEF Sound, AllOrNone
<1>5. ASSUME duty'.doing \in UpDoing
      PROVE  GrowsFrom(up', killed', debt') /\ Growing(c, up')
  <2>1. RightNext(disk)
    BY <1>2, RightKept
  <2>2. GrowsFrom(up', killed', debt') /\ Growing(disk, up')
    BY <1>5, <2>1 DEF RightNext, Right
  <2>3. A \subseteq up'.new
    BY <1>5 DEF StillGrows, SameUp
  <2>4. Claims(c, up'.members)
    BY <1>3, <2>2 DEF Claims, Growing
  <2>5. M.members \subseteq up'.members \cup up'.new
    BY <2>2, <2>3 DEF Growing, Members
  <2> HIDE DEF M, c
  <2> QED
    BY <1>3, <2>2, <2>4, <2>5 DEF Growing
<1>6. RightNext(c)
  BY <1>4, <1>5 DEF RightNext, Right, SameOwed
<1> QED
  BY <1>6, BeginSides

(* The write of a task file.                                                       *)
LEMMA TaskSides ==
  ASSUME MInv, NEW t \in Task, NEW v \in TaskFile, WriteFile(t, v) \/ WriteFileFails(t, v),
         v.claimed => v.owner \in Members /\ duty'.doing \notin UpDoing,
         SameOwed, StillGrows
  PROVE  AllRight'
<1>1. /\ txn.step = "ready" /\ journal' = journal /\ call' = call
      /\ disk' \in {disk, [disk EXCEPT ![t] = v]}
  BY DEF WriteFile, WriteFileFails
<1>2. /\ disk \in [File -> Value] /\ RightNow(disk) /\ call = NoCall /\ journal = NoJournal
  BY <1>1, ReadySound
<1>3. RightNext(disk)
  BY <1>2, RightKept
<1>4. /\ disk' \in [File -> Value] /\ disk'["config"] = disk["config"]
      /\ disk'["manifest"] = disk["manifest"]
      /\ \A x \in Task : disk'[x] = disk[x] \/ disk'[x] = v
  BY <1>1, <1>2, FileFacts DEF Value
<1>5. Resolved' = disk'
  <2>1. Resolved' = Changed(disk', Direction(journal'))
    BY DEF Resolved, Direction
  <2> QED
    BY <1>1, <1>2, <1>4, <2>1, NoJournalResolved
<1>6. ASSUME NEW W, Claims(disk, W), v.claimed => v.owner \in W
      PROVE  Claims(disk', W)
  BY <1>4, <1>6 DEF Claims, TaskFile
<1>7. Sound(disk', saved', killed', debt')
  <2>1. Sound(disk, saved', killed', debt')
    BY <1>3 DEF RightNext, Right
  <2>2. Claims(disk', disk["manifest"].members)
    BY <1>6, <2>1 DEF Sound, Members
  <2> QED
    BY <1>4, <2>1, <2>2 DEF Sound
<1>8. ASSUME duty'.doing \in UpDoing
      PROVE  GrowsFrom(up', killed', debt') /\ Growing(disk', up')
  <2>1. GrowsFrom(up', killed', debt') /\ Growing(disk, up') /\ ~v.claimed
    BY <1>3, <1>8 DEF RightNext, Right
  <2>2. Claims(disk', up'.members)
    BY <1>6, <2>1 DEF Growing
  <2> QED
    BY <1>4, <2>1, <2>2 DEF Growing
<1> QED
  BY <1>1, <1>2, <1>5, <1>7, <1>8, HereSides DEF RightNext, Right

-----------------------------------------------------------------------------
(* The actions, one after another.                                                *)
Safe == AllRight' /\ DownInOrder'
DownDoing == {"remove", "commit", "kill"}

LEMMA NotDown == duty'.doing \notin DownDoing => DownInOrder'
BY DEF DownInOrder, DownDoing

(* What is done next, when it is no part of growing or removing.                       *)
LEMMA PlainGoes ==
  ASSUME MInv, NEW x \in {"nothing", "operate", "number", "reconcile", "consume", "plan", "done",
                         "failed", "rolled"}, duty'.doing = x
  PROVE  StillGrows /\ DownInOrder' /\ duty'.doing \notin UpDoing
<1>1. x \notin UpDoing /\ x \notin DownDoing
  BY DEF UpDoing, DownDoing
<1> QED
  BY <1>1, NotDown DEF StillGrows

LEMMA GoesTo ==
  ASSUME MInv, NEW x \in Doing, Goes(x)
  PROVE  duty'.doing = x /\ duty'.who = duty.who
BY DEF MInv, SInv, TeamInv, TeamTyped, Goes

LEMMA FinishSafe == MInv /\ SInv' /\ ClearIsLast /\ Finish => Safe
<1> SUFFICES ASSUME MInv, SInv', ClearIsLast, Finish PROVE Safe
  OBVIOUS
<1>1. Release /\ duty'.doing = "nothing" /\ SameOwed
  BY DEF Finish, Idle, SameOwed
<1> QED
  BY <1>1, PlainGoes, StepSides DEF Safe, JournalStep

LEMMA TakesSafe ==
  MInv /\ SInv' /\ ClearIsLast /\ (Operate \/ Reconcile \/ StartDown \/ NextSection \/ StartUp) => Safe
<1> SUFFICES ASSUME MInv, SInv', ClearIsLast,
                    Operate \/ Reconcile \/ StartDown \/ NextSection \/ StartUp
             PROVE  Safe
  OBVIOUS
<1>1. PICK who \in {"leader", "other"}, x \in {"operate", "reconcile", "remove", "plan"} :
         Take(who, x) /\ (x = "remove" => who = "leader")
  <2>1. CASE Operate
    BY <2>1 DEF Operate
  <2>2. CASE Reconcile
    BY <2>2 DEF Reconcile
  <2>3. CASE StartDown
    BY <2>3 DEF StartDown
  <2>4. CASE NextSection
    BY <2>4 DEF NextSection
  <2>5. CASE StartUp
    BY <2>5 DEF StartUp
  <2> QED
    BY <2>1, <2>2, <2>3, <2>4, <2>5
<1>2. Enter /\ duty' = [who |-> who, doing |-> x] /\ SameOwed
  BY <1>1 DEF Take, SameOwed
<1>3. StillGrows
  BY <1>2 DEF StillGrows, UpDoing
<1>4. DownInOrder'
  BY <1>1, <1>2 DEF DownInOrder
<1> QED
  BY <1>2, <1>3, <1>4, StepSides DEF Safe, JournalStep

LEMMA SavesSafe == MInv /\ (Number \/ Save \/ Mutate) => Safe
<1> SUFFICES ASSUME MInv, Number \/ Save \/ Mutate PROVE Safe
  OBVIOUS
<1>1. txn.step = "ready" /\ SameOwed
  BY DEF Number, Save, Mutate, Ready, Unscaled, SameOwed
<1>2. PICK x \in {"done", "failed"} : Goes(x)
  BY DEF Number, Save, Mutate
<1>3. duty'.doing = x
  BY <1>2, GoesTo DEF Doing
<1>4. StillGrows /\ DownInOrder' /\ duty'.doing \notin UpDoing
  BY <1>3, PlainGoes
<1>5. /\ Sound(disk, saved, killed, debt) /\ Gen \in 0..MaxGen /\ disk["manifest"].gen = Gen
  BY <1>1, ReadySound
<1>6. CASE UNCHANGED jvars
  BY <1>1, <1>4, <1>6, RestSides DEF Safe
<1>7. ASSUME NEW g \in {Gen, Gen + 1}, NEW style, g <= MaxGen,
             BeginCall(Both(Members, Spent, g), style)
      PROVE  Safe
  <2>1. Members \cup {} = Members /\ Spent \cup {} = Spent /\ g \in 0..MaxGen
    BY <1>5, <1>7, JournalAssumption
  <2>2. BeginCall(Both(Members \cup {}, Spent \cup {}, g), style)
    BY <1>7, <2>1
  <2> DEFINE A == {}
  <2>3. /\ A \in SUBSET Worker /\ A \cap killed = {} /\ A \cap debt = {}
        /\ g = Gen + 1 \/ (g = Gen /\ A = {})
        /\ BeginCall(Both(Members \cup A, Spent \cup A, g), style)
    BY <1>7, <2>2
  <2> HIDE DEF A
  <2>4. AllRight'
    BY <1>1, <1>4, <2>1, <2>3, BothSides
  <2> QED
    BY <1>4, <2>4 DEF Safe
<1>8. CASE saved.gen = Gen /\ RoomForOneMore /\ BeginCall(Both(saved.members, saved.spent, Gen + 1), SaveConfig)
  <2>1. saved.members = Members /\ saved.spent = Spent
    BY <1>5, <1>8 DEF Sound, Members, Spent
  <2> QED
    BY <1>5, <1>7, <1>8, <2>1, JournalAssumption DEF RoomForOneMore
<1>9. CASE Number
  BY <1>5, <1>7, <1>9, JournalAssumption DEF Number, NextTaskId, Spent
<1>10. CASE Mutate
  BY <1>5, <1>7, <1>10, JournalAssumption DEF Mutate, Spent, RoomForOneMore
<1> QED
  BY <1>6, <1>8, <1>9, <1>10 DEF Save

LEMMA ReadSafe == MInv /\ Read => Safe
<1> SUFFICES ASSUME MInv, Read PROVE Safe
  OBVIOUS
<1>1. /\ txn.step = "ready" /\ saved' = ReadConfig /\ Goes("done")
      /\ UNCHANGED jvars /\ killed' = killed /\ debt' = debt
  BY DEF Read, Ready
<1>2. duty'.doing = "done"
  BY <1>1, GoesTo DEF Doing
<1>3. DownInOrder' /\ duty'.doing \notin UpDoing
  BY <1>2, PlainGoes
<1>4. /\ Sound(disk, saved, killed, debt) /\ Resolved = disk /\ call = NoCall
      /\ disk["manifest"].gen = Gen /\ Gen \in 0..MaxGen
  BY <1>1, ReadySound
<1>5. saved'.gen = Gen /\ saved'.members = Members /\ saved'.spent = Spent
  BY <1>1 DEF ReadConfig, Spent, Members, Gen
<1>6. Sound(disk, saved', killed', debt')
  BY <1>1, <1>4, <1>5 DEF Sound, Members, Spent
<1>7. Resolved' = disk /\ call' = NoCall
  BY <1>1, <1>4, SameResolved DEF jvars
<1> QED
  BY <1>3, <1>6, <1>7, HereSides DEF Safe, RightNext, Right

LEMMA BoardSafe ==
  ASSUME MInv, NEW t \in Task, Create(t) \/ Unclaim(t) \/ \E w \in Worker : Claim(t, w)
  PROVE  Safe
<1>1. PICK v \in TaskFile, x \in {"done", "number"} :
        /\ WriteFile(t, v) \/ WriteFileFails(t, v)
        /\ v.claimed => v.owner \in Members
        /\ Goes(x) /\ Unscaled
  <2>1. CASE Create(t)
    BY <2>1 DEF Create, NewTask, TaskFile
  <2>2. CASE Unclaim(t)
    BY <2>2 DEF Unclaim, TaskFile
  <2>3. CASE \E w \in Worker : Claim(t, w)
    BY <2>3 DEF Claim, TaskFile
  <2> QED
    BY <2>1, <2>2, <2>3
<1>2. duty'.doing = x /\ SameOwed
  BY <1>1, GoesTo DEF Doing, Unscaled, SameOwed
<1>3. StillGrows /\ DownInOrder' /\ duty'.doing \notin UpDoing
  BY <1>2, PlainGoes
<1> QED
  BY <1>1, <1>2, <1>3, TaskSides DEF Safe

-----------------------------------------------------------------------------
(* Debts, removals and kills.                                                      *)

(* With the files as they are, only the debt or the killed change.                     *)
LEMMA OwedSides ==
  ASSUME MInv, txn.step = "ready", UNCHANGED jvars \/ WriteFileFails("config", disk["config"]),
         saved' = saved, duty'.doing \notin UpDoing,
         debt' \subseteq Spent, AllOrNone(debt', Members),
         killed' \subseteq Spent, killed' \cap Members = {}
  PROVE  AllRight'
<1>1. /\ Sound(disk, saved, killed, debt) /\ Resolved = disk /\ call = NoCall
      /\ disk \in [File -> Value] /\ disk["manifest"].members = Members
      /\ disk["manifest"].spent = Spent
  BY ReadySound DEF Members, Spent
<1>2. Sound(disk, saved', killed', debt')
  BY <1>1 DEF Sound
<1>3. disk' = disk /\ journal' = journal /\ call' = call
  BY <1>1 DEF jvars, WriteFileFails
<1>4. Resolved' = disk
  BY <1>1, <1>3, SameResolved
<1> QED
  BY <1>1, <1>2, <1>3, <1>4, HereSides DEF RightNext, Right

LEMMA DebtSound ==
  ASSUME MInv, txn.step = "ready"
  PROVE  /\ debt \subseteq Spent /\ AllOrNone(debt, Members)
         /\ killed \subseteq Spent /\ killed \cap Members = {}
         /\ Members \subseteq Spent
BY ReadySound DEF Sound, Members, Spent

LEMMA SettleSafe == MInv /\ (SettleDebt \/ Consume) => Safe
<1> SUFFICES ASSUME MInv, SettleDebt \/ Consume PROVE Safe
  OBVIOUS
<1>1. txn.step = "ready" /\ saved' = saved
  BY DEF SettleDebt, Consume, Ready
<1>2. PICK x \in {"done", "consume", "failed"} : Goes(x)
  BY DEF SettleDebt, Consume
<1>3. duty'.doing = x
  BY <1>2, GoesTo DEF Doing
<1>4. DownInOrder' /\ duty'.doing \notin UpDoing
  BY <1>3, PlainGoes
<1>5. UNCHANGED jvars \/ WriteFileFails("config", disk["config"])
  BY DEF SettleDebt, Consume, SetDebt
<1>6. debt' \in {debt, {}}
  BY DEF SettleDebt, Consume, SetDebt
<1>7. killed' = killed \/ (debt \cap Members = {} /\ killed' \subseteq killed \cup debt)
  BY DEF SettleDebt, Consume, Canonical, Live
<1>8. /\ debt \subseteq Spent /\ AllOrNone(debt, Members)
      /\ killed \subseteq Spent /\ killed \cap Members = {}
  BY <1>1, DebtSound
<1>9. /\ debt' \subseteq Spent /\ AllOrNone(debt', Members)
      /\ killed' \subseteq Spent /\ killed' \cap Members = {}
  BY <1>6, <1>7, <1>8 DEF AllOrNone
<1> QED
  BY <1>1, <1>4, <1>5, <1>9, OwedSides DEF Safe

LEMMA TargetsSafe == MInv /\ FindTargets => Safe
<1> SUFFICES ASSUME MInv, FindTargets PROVE Safe
  OBVIOUS
<1>1. /\ txn.step = "ready" /\ duty.doing = "remove" /\ saved' = saved /\ killed' = killed
      /\ job' = job
  BY DEF FindTargets, Ready, Holds
<1>2. /\ debt \subseteq Spent /\ AllOrNone(debt, Members) /\ Members \subseteq Spent
      /\ killed \subseteq Spent /\ killed \cap Members = {}
  BY <1>1, DebtSound
<1>3. CASE UNCHANGED <<jvars, debt>> /\ Goes("failed")
  <2>1. duty'.doing = "failed"
    BY <1>3, GoesTo DEF Doing
  <2>2. DownInOrder' /\ duty'.doing \notin UpDoing
    BY <2>1, PlainGoes
  <2> QED
    BY <1>1, <1>2, <1>3, <2>2, OwedSides DEF Safe
<1>4. CASE job.set \subseteq Members /\ SetDebt(job.set) /\ Goes("commit")
  <2>1. duty'.doing = "commit" /\ duty'.who = duty.who
    BY <1>4, GoesTo DEF Doing
  <2>2. duty'.doing \notin UpDoing
    BY <2>1 DEF UpDoing
  <2>3. debt' \in {debt, job.set} /\ (UNCHANGED jvars \/ WriteFileFails("config", disk["config"]))
    BY <1>4 DEF SetDebt
  <2>4. debt' \subseteq Spent /\ AllOrNone(debt', Members)
    BY <1>2, <1>4, <2>3 DEF AllOrNone
  <2>5. AllRight'
    BY <1>1, <1>2, <2>2, <2>3, <2>4, OwedSides
  <2>6. \/ txn'.step = "ready" /\ debt' = job.set
        \/ txn'.step = "thrown"
    BY <1>1, <1>4 DEF SetDebt, jvars, WriteFileFails, At
  <2>7. DownInOrder'
    BY <1>1, <2>1, <2>6 DEF DownInOrder, MInv
  <2> QED
    BY <2>5, <2>7 DEF Safe
<1> QED
  BY <1>3, <1>4 DEF FindTargets

LEMMA KillsSafe == MInv /\ KillTargets => Safe
<1> SUFFICES ASSUME MInv, KillTargets PROVE Safe
  OBVIOUS
<1>1. /\ txn.step = "ready" /\ duty.doing = "kill" /\ saved' = saved /\ debt' = debt
      /\ UNCHANGED jvars /\ killed' \subseteq killed \cup (job.set \cap panes)
  BY DEF KillTargets, Ready, Holds, Live
<1>2. PICK x \in {"done", "failed"} : Goes(x)
  BY DEF KillTargets
<1>3. duty'.doing = x
  BY <1>2, GoesTo DEF Doing
<1>4. DownInOrder' /\ duty'.doing \notin UpDoing
  BY <1>3, PlainGoes
<1>5. job.set \cap Members = {} /\ job.set = debt
  BY <1>1, ReadySound DEF MInv, DownInOrder, ResolvedMembers, Members
<1>6. /\ debt' \subseteq Spent /\ AllOrNone(debt', Members)
      /\ killed' \subseteq Spent /\ killed' \cap Members = {}
  BY <1>1, <1>5, DebtSound
<1> QED
  BY <1>1, <1>4, <1>6, OwedSides DEF Safe

(* What a removal makes of config and manifest.                                      *)
LEMMA RemovalFiles ==
  ASSUME MInv, txn.step = "ready", duty.doing = "commit", NEW R
  PROVE  LET c == Changed(disk, Without(R))
             M == [members |-> Members \ R, spent |-> Spent, gen |-> Gen + 1]
         IN M \in Membership /\ c["config"] = M /\ c["manifest"] = M
<1> DEFINE c == Changed(disk, Without(R))
           M == [members |-> Members \ R, spent |-> Spent, gen |-> Gen + 1]
<1>1. /\ Members \subseteq Worker /\ Spent \subseteq Worker /\ Gen \in 0..MaxGen
      /\ disk["config"] = disk["manifest"]
  BY ReadySound
<1>2. Gen + 1 \in 0..MaxGen
  <2>1. Ahead = 1
    BY DEF Ahead, AheadOf
  <2>2. Gen + Ahead <= MaxGen
    BY ReadyFacts DEF MInv
  <2> QED
    BY <1>1, <2>1, <2>2, JournalAssumption
<1>3. M \in Membership
  BY <1>1, <1>2 DEF Membership
<1>4. M # Untouched
  BY <1>3, ValueAssumption DEF Value
<1>5. Without(R)["config"] = M /\ Without(R)["manifest"] = M
  BY <1>1, FileFacts, ScalingAssumption DEF Without, Members, Spent
<1>6. c["config"] = M /\ c["manifest"] = M
  BY <1>4, <1>5, FileFacts DEF Changed
<1> QED
  BY <1>3, <1>6

LEMMA RemovalSafe == MInv /\ CommitRemoval => Safe
<1> SUFFICES ASSUME MInv, CommitRemoval PROVE Safe
  OBVIOUS
<1> DEFINE R == job.set
           c == Changed(disk, Without(R))
           M == [members |-> Members \ R, spent |-> Spent, gen |-> Gen + 1]
<1>1. /\ txn.step = "ready" /\ duty.doing = "commit" /\ Goes("kill") /\ SameOwed
      /\ BeginCall(Without(R), Forward) /\ job' = job
  BY DEF CommitRemoval, Ready, Holds, Unscaled, SameOwed
<1>2. duty'.doing = "kill" /\ duty'.who = duty.who /\ duty'.doing \notin UpDoing
  BY <1>1, GoesTo DEF Doing, UpDoing
<1>3. StillGrows
  BY <1>2 DEF StillGrows
<1>4. debt = R
  BY <1>1 DEF MInv, DownInOrder
<1>5. /\ Sound(disk, saved, killed, debt) /\ disk \in [File -> Value]
      /\ Members \subseteq Worker /\ Spent \subseteq Worker /\ Members \subseteq Spent
      /\ disk["config"] = disk["manifest"] /\ Gen \in 0..MaxGen /\ disk["manifest"].gen = Gen
  BY <1>1, ReadySound
<1>7. M \in Membership
  BY <1>1, RemovalFiles
<1>9. c["config"] = M /\ c["manifest"] = M
  BY <1>1, RemovalFiles
<1>10. ASSUME NEW t \in Task, c[t] \in [owner : Worker, claimed : {TRUE}]
       PROVE  c[t] = disk[t] /\ disk[t].owner \notin R
  <2>1. c[t] = IF Without(R)[t] = Untouched THEN disk[t] ELSE Without(R)[t]
    BY FileFacts DEF Changed
  <2>2. CASE disk[t] # NoFile /\ disk[t].owner \in R
    <3>1. Without(R)[t] = [owner |-> Nobody, claimed |-> FALSE]
      BY <2>2, FileFacts DEF Without
    <3>2. [owner |-> Nobody, claimed |-> FALSE] \in Value
      BY DEF Value, TaskFile
    <3>3. c[t] = [owner |-> Nobody, claimed |-> FALSE]
      BY <2>1, <3>1, <3>2, ValueAssumption
    <3> HIDE DEF c
    <3>4. c[t].claimed = TRUE
      BY <1>10
    <3> QED
      BY <3>3, <3>4
  <2>3. CASE disk[t] = NoFile \/ disk[t].owner \notin R
    <3>1. Without(R)[t] = Untouched
      BY <2>3, FileFacts DEF Without
    <3>2. c[t] = disk[t]
      BY <2>1, <3>1
    <3>3. disk[t] \in TaskFile
      <4> HIDE DEF c
      <4> QED
        BY <1>10, <3>2 DEF TaskFile
    <3> QED
      BY <2>3, <3>2, <3>3, ScalingAssumption
  <2> QED
    BY <2>2, <2>3
<1>11. Claims(c, M.members)
  <2> HIDE DEF c
  <2> QED
    BY <1>5, <1>10 DEF Sound, Claims, Members
<1>12. Sound(c, saved, killed, debt)
  <2>1. /\ saved.gen \in 0..M.gen /\ saved.gen # M.gen
        /\ killed \subseteq M.spent /\ killed \cap M.members = {}
        /\ debt \subseteq M.spent /\ AllOrNone(debt, M.members)
        /\ M.members \subseteq M.spent
    BY <1>4, <1>5, JournalAssumption DEF Sound, AllOrNone, Members, Spent
  <2> HIDE DEF M, c
  <2> QED
    BY <1>7, <1>9, <1>11, <2>1 DEF Sound
<1>13. RightNext(c)
  BY <1>1, <1>2, <1>12 DEF RightNext, Right, SameOwed
<1>14. AllRight'
  BY <1>1, <1>3, <1>13, BeginSides
<1>15. DownInOrder'
  <2>1. txn'.step = "prepare" /\ call'.after = c
    BY <1>1 DEF BeginCall, At
  <2>2. R \cap c["manifest"].members = {}
    BY <1>9
  <2> HIDE DEF c
  <2> QED
    BY <1>1, <1>2, <1>4, <2>1, <2>2 DEF DownInOrder, MInv, SameOwed
<1> QED
  BY <1>14, <1>15 DEF Safe

-----------------------------------------------------------------------------
(* Growing.                                                                       *)

LEMMA GrowthFacts ==
  ASSUME MInv, txn.step = "ready", duty.doing \in UpDoing
  PROVE  /\ GrowsFrom(up, killed, debt) /\ Growing(disk, up)
         /\ UpWorkers = up.new /\ up.new \subseteq Worker
         /\ \A A \in SUBSET up.new : A \cap killed = {} /\ A \cap debt = {}
<1>1. GrowsFrom(up, killed, debt) /\ Growing(disk, up)
  BY ReadySound DEF RightNow, Right
<1>2. UpWorkers = up.new /\ up.new \subseteq Worker
  BY DEF MInv, SInv, TeamInv, TeamTyped, UpWorkers
<1>3. \A A \in SUBSET up.new : A \cap killed = {} /\ A \cap debt = {}
  BY <1>1 DEF GrowsFrom
<1> QED
  BY <1>1, <1>2, <1>3

(* The next step of a scale-up.                                                    *)
LEMMA UpGoesTo ==
  ASSUME MInv, NEW x \in Doing, x \notin DownDoing, NEW u, UpGoes(x, u)
  PROVE  duty'.doing = x /\ DownInOrder' /\ SameOwed /\ up' = u
BY GoesTo, NotDown DEF UpGoes, SameOwed

LEMMA PlanSafe == MInv /\ Plan => Safe
<1> SUFFICES ASSUME MInv, Plan PROVE Safe
  OBVIOUS
<1>1. txn.step = "ready" /\ UNCHANGED jvars
  BY DEF Plan, Ready
<1>2. CASE UpGoes("failed", up)
  <2>1. duty'.doing = "failed" /\ DownInOrder' /\ SameOwed
    BY <1>2, UpGoesTo DEF Doing, DownDoing
  <2>2. StillGrows
    BY <2>1, PlainGoes
  <2> QED
    BY <1>1, <2>1, <2>2, RestSides DEF Safe
<1>3. ASSUME NEW W \in SUBSET (Worker \ Spent), NEW u,
             u = [NoUp EXCEPT !.wants = W, !.members = Members, !.spent = Spent],
             UpGoes("create", u)
      PROVE  Safe
  <2>1. DownInOrder' /\ SameOwed /\ up' = u
    BY <1>3, UpGoesTo DEF Doing, DownDoing
  <2>2. /\ u.wants = W /\ u.new = {} /\ u.unresolved = {}
        /\ u.members = Members /\ u.spent = Spent
    BY <1>3 DEF NoUp
  <2>3. /\ Sound(disk, saved, killed, debt) /\ Resolved = disk /\ call = NoCall
        /\ Members \subseteq Spent
    BY <1>1, ReadySound
  <2>4. GrowsFrom(u, killed, debt) /\ Growing(disk, u)
    BY <2>2, <2>3 DEF Sound, GrowsFrom, Growing, Members, Spent
  <2>5. RightNext(disk)
    BY <2>1, <2>3, <2>4 DEF RightNext, Right, SameOwed
  <2>6. Resolved' = disk /\ call' = NoCall
    BY <1>1, <2>3, SameResolved DEF jvars
  <2> QED
    BY <2>1, <2>5, <2>6, HereSides DEF Safe
<1> QED
  BY <1>2, <1>3 DEF Plan, Spent

LEMMA CreateUpSafe ==
  ASSUME MInv, NEW t \in Task, NEW owner \in Worker \cup {Nobody}, CreateUpTask(t, owner)
  PROVE  Safe
<1>1. /\ duty.doing = "create" /\ NewTask(t, owner) /\ UpGoes("create", [up EXCEPT !.task = t])
  BY DEF CreateUpTask, Ready, Holds
<1>2. duty'.doing = "create" /\ DownInOrder' /\ SameOwed /\ up' = [up EXCEPT !.task = t]
  BY <1>1, UpGoesTo DEF Doing, DownDoing
<1>3. SameUp(up, up')
  BY <1>2 DEF SameUp, MInv, SInv, TeamInv, TeamTyped
<1>4. StillGrows
  BY <1>1, <1>2, <1>3 DEF StillGrows
<1> DEFINE v == [owner |-> owner, claimed |-> FALSE]
<1>5. v \in TaskFile /\ ~v.claimed /\ (WriteFile(t, v) \/ WriteFileFails(t, v))
  BY <1>1 DEF NewTask, TaskFile
<1> HIDE DEF v
<1>6. AllRight'
  BY <1>2, <1>4, <1>5, TaskSides
<1> QED
  BY <1>2, <1>6 DEF Safe

(* Steps of a scale-up that leave the files to themselves, or ask for a change.          *)
Asks ==
  \E A \in SUBSET up.new, g \in 0..MaxGen, style \in Style :
    /\ g = Gen + 1 \/ (g = Gen /\ A = {})
    /\ BeginCall(Both(Members \cup A, Spent \cup A, g), style)

LEMMA UpStepSafe ==
  ASSUME MInv, NEW x \in UpDoing, NEW u, duty.doing \in UpDoing, UpGoes(x, u), SameUp(up, u),
         UNCHANGED jvars \/ Asks
  PROVE  Safe
<1>1. x \in Doing /\ x \notin DownDoing
  BY DEF UpDoing, Doing, DownDoing
<1>2. duty'.doing = x /\ DownInOrder' /\ SameOwed /\ up' = u
  BY <1>1, UpGoesTo
<1>3. StillGrows
  BY <1>2 DEF StillGrows
<1>4. CASE UNCHANGED jvars
  BY <1>2, <1>3, <1>4, RestSides DEF Safe
<1>5. ASSUME NEW A \in SUBSET up.new, NEW g \in 0..MaxGen, NEW style \in Style,
             g = Gen + 1 \/ (g = Gen /\ A = {}),
             BeginCall(Both(Members \cup A, Spent \cup A, g), style)
      PROVE  Safe
  <2>1. txn.step = "ready"
    BY <1>5 DEF BeginCall
  <2>2. up.new \subseteq Worker /\ A \cap killed = {} /\ A \cap debt = {}
    BY <2>1, GrowthFacts
  <2>3. A \in SUBSET Worker
    BY <2>2
  <2>4. AllRight'
    BY <1>2, <1>3, <1>5, <2>2, <2>3, BothSides
  <2> QED
    BY <1>2, <2>4 DEF Safe
<1> QED
  BY <1>4, <1>5 DEF Asks

LEMMA AsksFor ==
  ASSUME NEW A \in SUBSET up.new, NEW g \in 0..MaxGen, NEW style \in Style,
         g = Gen + 1 \/ (g = Gen /\ A = {}),
         BeginCall(Both(Members \cup A, Spent \cup A, g), style)
  PROVE  Asks
BY DEF Asks

LEMMA SplitSafe ==
  ASSUME MInv, (\E w \in Worker : Split(w)) \/ ListUpTask
  PROVE  Safe
<1>1. CASE ListUpTask
  <2>1. /\ duty.doing = "listed" /\ UNCHANGED jvars
        /\ UpGoes("create", [up EXCEPT !.task = NoFile, !.tasks = @ \cup {up.task}])
    BY <1>1 DEF ListUpTask, Ready, Holds
  <2>2. SameUp(up, [up EXCEPT !.task = NoFile, !.tasks = @ \cup {up.task}])
    BY DEF SameUp, MInv, SInv, TeamInv, TeamTyped
  <2> QED
    BY <2>1, <2>2, UpStepSafe DEF UpDoing
<1>2. ASSUME NEW w \in Worker, Split(w) PROVE Safe
  <2>1. /\ duty.doing \in {"split", "create"} /\ UNCHANGED jvars /\ w \in up.wants
        /\ UpGoes("start", [up EXCEPT !.wants = @ \ {w}, !.new = @ \cup {w}])
    BY <1>2 DEF Split, Ready, Holds
  <2>2. SameUp(up, [up EXCEPT !.wants = @ \ {w}, !.new = @ \cup {w}])
    BY <2>1 DEF SameUp, MInv, SInv, TeamInv, TeamTyped
  <2> QED
    BY <2>1, <2>2, UpStepSafe DEF UpDoing
<1> QED
  BY <1>1, <1>2

LEMMA UpsSafe == MInv /\ (NumberUpTask \/ Join \/ Track) => Safe
<1> SUFFICES ASSUME MInv, NumberUpTask \/ Join \/ Track PROVE Safe
  OBVIOUS
<1>1. txn.step = "ready" /\ duty.doing \in {"create", "start", "track"}
  BY DEF NumberUpTask, Join, Track, Ready, Holds
<1>2. duty.doing \in UpDoing /\ Ahead >= 2
  BY <1>1 DEF UpDoing, Ahead, AheadOf
<1>3. /\ Gen \in 0..MaxGen /\ Gen + Ahead <= MaxGen /\ Ahead \in Nat
      /\ disk["config"] = disk["manifest"]
  BY <1>1, ReadyFacts, ReadySound, AheadNat DEF MInv
<1>4. Gen + 1 \in 0..MaxGen
  BY <1>2, <1>3, JournalAssumption
<1>5. PICK x \in {"listed", "save", "tracked"} : UpGoes(x, up)
  BY DEF NumberUpTask, Join, Track
<1>6. SameUp(up, up) /\ x \in UpDoing
  BY DEF SameUp, UpDoing
<1>7. Asks
  <2>1. CASE NumberUpTask
    <3> DEFINE A == {}
    <3>1. A \in SUBSET up.new /\ A = {} /\ Members \cup A = Members /\ Spent \cup A = Spent
      OBVIOUS
    <3>2. BeginCall(Both(Members, Spent, Gen), SaveConfig)
      BY <2>1 DEF NumberUpTask, NextTaskId, Spent
    <3> HIDE DEF A
    <3>3. BeginCall(Both(Members \cup A, Spent \cup A, Gen), SaveConfig)
      BY <3>1, <3>2
    <3> QED
      BY <1>3, <3>1, <3>3, AsksFor, StyleFacts
  <2>2. CASE Join
    <3>1. BeginCall(Both(Members \cup up.new, Spent \cup up.new, Gen + 1), SaveConfig)
      BY <2>2 DEF Join, Spent
    <3> QED
      BY <1>4, <3>1, AsksFor, StyleFacts
  <2>3. CASE Track
    <3>1. BeginCall(Both(Members \cup up.new, Spent \cup up.new, Gen + 1), Forward)
      BY <1>3, <2>3 DEF Track, Spent, Members, UpWorkers
    <3> QED
      BY <1>4, <3>1, AsksFor, StyleFacts
  <2> QED
    BY <2>1, <2>2, <2>3
<1> QED
  BY <1>2, <1>5, <1>6, <1>7, UpStepSafe

LEMMA KillUpSafe == MInv /\ KillUpPanes => Safe
<1> SUFFICES ASSUME MInv, KillUpPanes PROVE Safe
  OBVIOUS
<1>1. txn.step = "ready" /\ duty.doing = "tracked" /\ UNCHANGED jvars
  BY DEF KillUpPanes, Ready, Holds
<1>2. PICK U \in SUBSET UpWorkers, S \in SUBSET UpWorkers :
         U \subseteq S /\ UpGoes("roll", [up EXCEPT !.unresolved = U, !.spent = @ \cup S])
  BY DEF KillUpPanes
<1> DEFINE u == [up EXCEPT !.unresolved = U, !.spent = @ \cup S]
<1>3. /\ u.wants = up.wants /\ u.new = up.new /\ u.members = up.members
      /\ u.spent = up.spent \cup S /\ u.unresolved = U
  BY DEF MInv, SInv, TeamInv, TeamTyped
<1>4. UpGoes("roll", u)
  BY <1>2
<1> HIDE DEF u
<1>5. DownInOrder' /\ SameOwed /\ up' = u
  BY <1>4, UpGoesTo DEF Doing, DownDoing
<1>6. GrowsFrom(up, killed, debt) /\ Growing(disk, up) /\ UpWorkers = up.new
  BY <1>1, GrowthFacts DEF UpDoing
<1>7. GrowsFrom(u, killed, debt) /\ Growing(disk, u)
  BY <1>2, <1>3, <1>6 DEF GrowsFrom, Growing
<1>8. Sound(disk, saved, killed, debt) /\ Resolved = disk /\ call = NoCall
  BY <1>1, ReadySound
<1>9. RightNext(disk)
  BY <1>5, <1>7, <1>8 DEF RightNext, Right, SameOwed
<1>10. Resolved' = disk /\ call' = NoCall
  BY <1>1, <1>8, SameResolved DEF jvars
<1> QED
  BY <1>5, <1>9, <1>10, HereSides DEF Safe

LEMMA EndsSafe == MInv /\ (Joined \/ Rolled) => Safe
<1> SUFFICES ASSUME MInv, Joined \/ Rolled PROVE Safe
  OBVIOUS
<1>1. PICK x \in {"done", "failed", "split"} :
        UpGoes(x, up) /\ UNCHANGED jvars /\ (x = "split" => duty.doing = "save")
  BY DEF Joined, Rolled, Ready, Holds
<1>2. duty'.doing = x /\ DownInOrder' /\ SameOwed /\ up' = up
  BY <1>1, UpGoesTo DEF Doing, DownDoing
<1>3. StillGrows
  BY <1>1, <1>2 DEF StillGrows, SameUp, UpDoing
<1> QED
  BY <1>1, <1>2, <1>3, RestSides DEF Safe

LEMMA RollBackSafe == MInv /\ SInv' /\ ClearIsLast /\ RollBack => Safe
<1> SUFFICES ASSUME MInv, SInv', ClearIsLast, RollBack PROVE Safe
  OBVIOUS
<1>1. /\ duty.doing \in {"create", "listed", "split", "start", "save"} /\ UpGoes("track", up)
      /\ (UNCHANGED jvars \/ Enter)
  BY DEF RollBack, RollsBack
<1>2. duty'.doing = "track" /\ DownInOrder' /\ SameOwed /\ up' = up
  BY <1>1, UpGoesTo DEF Doing, DownDoing
<1>3. StillGrows
  BY <1>1, <1>2 DEF StillGrows, SameUp, UpDoing
<1>4. AllRight'
  BY <1>1, <1>2, <1>3, RestSides, StepSides DEF JournalStep
<1> QED
  BY <1>2, <1>4 DEF Safe

(* What a roll-back makes of config and manifest.                                     *)
LEMMA RollFiles ==
  ASSUME MInv, txn.step = "ready", duty.doing = "roll"
  PROVE  LET c == Changed(disk, RolledBack)
             M == [members |-> up.members \cup up.unresolved,
                   spent |-> up.spent, gen |-> Gen + 1]
         IN M \in Membership /\ c["config"] = M /\ c["manifest"] = M
<1> DEFINE c == Changed(disk, RolledBack)
           M == [members |-> up.members \cup up.unresolved,
                 spent |-> up.spent, gen |-> Gen + 1]
<1>1. Ahead = 1 /\ Gen \in 0..MaxGen /\ Gen + Ahead <= MaxGen
  <2>1. Ahead = 1
    BY DEF Ahead, AheadOf
  <2> QED
    BY <2>1, ReadyFacts DEF MInv
<1>2. M \in Membership
  <2>1. Gen + 1 \in 0..MaxGen
    BY <1>1, JournalAssumption
  <2>2. up.members \subseteq Worker /\ up.spent \subseteq Worker /\ up.unresolved \subseteq Worker
    BY DEF MInv, SInv, TeamInv, TeamTyped
  <2> QED
    BY <2>1, <2>2 DEF Membership
<1>3. M # Untouched
  BY <1>2, ValueAssumption DEF Value
<1>4. RolledBack["config"] = M /\ RolledBack["manifest"] = M
  BY FileFacts, ScalingAssumption DEF RolledBack
<1>5. c["config"] = M /\ c["manifest"] = M
  BY <1>3, <1>4, FileFacts DEF Changed
<1> QED
  BY <1>2, <1>5

LEMMA RollSafe == MInv /\ Roll => Safe
<1> SUFFICES ASSUME MInv, Roll PROVE Safe
  OBVIOUS
<1> DEFINE c == Changed(disk, RolledBack)
           M == [members |-> up.members \cup up.unresolved,
                 spent |-> up.spent, gen |-> Gen + 1]
<1>1. /\ txn.step = "ready" /\ duty.doing = "roll" /\ UpGoes("rolled", up)
      /\ BeginCall(RolledBack, ForwardKept)
  BY DEF Roll, Ready, Holds
<1>2. duty'.doing = "rolled" /\ DownInOrder' /\ SameOwed
  BY <1>1, UpGoesTo DEF Doing, DownDoing
<1>3. StillGrows /\ duty'.doing \notin UpDoing
  BY <1>2, PlainGoes
<1>4. GrowsFrom(up, killed, debt) /\ Growing(disk, up)
  <2>1. duty.doing \in UpDoing
    BY <1>1 DEF UpDoing
  <2> QED
    BY <1>1, <2>1, GrowthFacts
<1>5. Sound(disk, saved, killed, debt) /\ disk \in [File -> Value] /\ disk["manifest"].gen = Gen
  BY <1>1, ReadySound
<1>6. Gen \in 0..MaxGen
  BY <1>1, ReadySound
<1>7. M \in Membership
  BY <1>1, RollFiles
<1>9. c["config"] = M /\ c["manifest"] = M
  BY <1>1, RollFiles
<1>10. ASSUME NEW t \in Task PROVE c[t] \in {disk[t], NoFile}
  <2>1. RolledBack[t] \in {Untouched, disk[t], NoFile}
    BY FileFacts DEF RolledBack
  <2> QED
    BY <2>1, FileFacts DEF Changed
<1>11. Claims(c, up.members)
  <2>1. ASSUME NEW t \in Task, c[t] \in [owner : Worker, claimed : {TRUE}]
        PROVE  c[t].owner \in up.members
    <3> HIDE DEF c
    <3>1. c[t] # NoFile
      BY <2>1, ScalingAssumption DEF TaskFile
    <3>2. c[t] = disk[t]
      BY <1>10, <3>1
    <3> QED
      BY <1>4, <2>1, <3>2 DEF Growing, Claims
  <2> HIDE DEF c
  <2> QED
    BY <2>1 DEF Claims
<1>12. Sound(c, saved, killed, debt)
  <2>1. /\ saved.gen \in 0..M.gen /\ saved.gen # M.gen
        /\ killed \subseteq M.spent /\ killed \cap M.members = {}
        /\ debt \subseteq M.spent /\ AllOrNone(debt, M.members)
        /\ M.members \subseteq M.spent
    <3>1. saved.gen \in 0..Gen
      BY <1>5 DEF Sound
    <3>2. saved.gen \in 0..(Gen + 1) /\ saved.gen # Gen + 1
      BY <1>6, <3>1
    <3>3. up.unresolved \cap killed = {} /\ up.unresolved \cap debt = {}
      BY <1>4 DEF GrowsFrom
    <3>4. AllOrNone(debt, M.members)
      BY <1>4, <3>3 DEF GrowsFrom, AllOrNone
    <3> QED
      BY <1>4, <3>2, <3>3, <3>4 DEF GrowsFrom
  <2>2. Claims(c, M.members)
    <3> HIDE DEF c
    <3> QED
      BY <1>11 DEF Claims
  <2> HIDE DEF M, c
  <2> QED
    BY <1>7, <1>9, <2>1, <2>2 DEF Sound
<1>13. RightNext(c)
  BY <1>2, <1>3, <1>12 DEF RightNext, Right, SameOwed
<1>14. AllRight'
  BY <1>1, <1>2, <1>3, <1>13, BeginSides
<1> QED
  BY <1>2, <1>14 DEF Safe

-----------------------------------------------------------------------------
(* The journal's own steps, and deaths.                                              *)

(* While the leader removes workers, a step of the journal keeps the order.              *)
LEMMA KillStep ==
  ASSUME MInv, duty.doing = "kill", Journalling \/ JournalFails
  PROVE  /\ txn'.step # "out" /\ (txn'.step = "replay" => txn'.caught)
         /\ txn'.step = "ready" => call # NoCall /\ Resolved' = call.after
         /\ call' # NoCall => call' = call
<1>1. (txn.step = "replay" => txn.caught) /\ JInv
  BY DEF MInv, SInv, DownInOrder
<1> DEFINE P == /\ txn'.step # "out" /\ (txn'.step = "replay" => txn'.caught)
                /\ txn'.step = "ready" => call # NoCall /\ Resolved' = call.after
                /\ call' # NoCall => call' = call
<1>2. CASE ReplayEnd
  BY <1>1, <1>2 DEF ReplayEnd, End, At
<1>3. CASE Clear \/ Finalize
  <2>1. RemoveJournal /\ txn.step \in {"clear", "kept"} /\ End("ok", "ready")
    BY <1>3 DEF Clear, Finalize
  <2>2. call \in Call /\ Resolved' = call.after
    BY <1>1, <2>1, RemovedResolved
  <2> QED
    BY <2>1, <2>2, OpenIsACall DEF End, At
<1>4. CASE Unlink
  BY <1>4 DEF Unlink, End, At
<1>5. CASE WriteJournal \/ MarkCommitted
  BY <1>1, <1>5 DEF WriteJournal, MarkCommitted, JInv, JournalTypeOK, Txn
<1>6. ASSUME NEW f \in File, Replay(f) \/ Apply(f) \/ Restore(f) PROVE P
  BY <1>1, <1>6 DEF Replay, Apply, Restore, JInv, JournalTypeOK, Txn
<1>7. CASE WriteFails
  <2>1. CASE InTry /\ Caught.step # "thrown" /\ txn' = Caught /\ UNCHANGED call
    <3>1. txn \in Txn
      BY <1>1 DEF JInv, JournalTypeOK
    <3>2. txn'.step \in {"restore", "thrown", "replay"} /\ (txn'.step = "replay" => txn'.caught)
      BY <2>1, <3>1 DEF Caught, Recovering, At, Txn
    <3> QED
      BY <2>1, <3>2
  <2>2. CASE End("error", "thrown")
    BY <2>2 DEF End, At
  <2> QED
    BY <1>7, <2>1, <2>2 DEF WriteFails
<1> QED
  BY <1>2, <1>3, <1>4, <1>5, <1>6, <1>7 DEF Journalling, JournalFails

LEMMA JournallingSafe ==
  MInv /\ SInv' /\ ClearIsLast /\ (Journalling \/ JournalFails) => Safe
<1> SUFFICES ASSUME MInv, SInv', ClearIsLast, Journalling \/ JournalFails PROVE Safe
  OBVIOUS
<1>1. JournalStep /\ UNCHANGED <<duty, job, up>> /\ SameOwed
  BY DEF Journalling, JournalFails, JournalStep, Unscaled, SameOwed
<1>2. StillGrows
  BY <1>1 DEF StillGrows, SameUp
<1>3. AllRight'
  BY <1>1, <1>2, StepSides
<1>4. duty.doing # "commit"
  <2>1. txn.step \notin {"ready", "thrown"}
    BY DEF Journalling, JournalFails, ReplayEnd, WriteJournal, MarkCommitted, Clear, Finalize,
       Unlink, Replay, Apply, Restore, WriteFails
  <2> QED
    BY <2>1 DEF MInv, DownInOrder
<1>5. CASE duty.doing = "kill"
  <2>1. /\ txn'.step # "out" /\ (txn'.step = "replay" => txn'.caught)
        /\ txn'.step = "ready" => call # NoCall /\ Resolved' = call.after
        /\ call' # NoCall => call' = call
    BY <1>5, KillStep
  <2>2. /\ duty.who = "leader" /\ debt = job.set
        /\ call # NoCall => job.set \cap call.after["manifest"].members = {}
    BY <1>5 DEF MInv, DownInOrder
  <2>3. ResolvedMembers' = Resolved'["manifest"].members
    BY DEF ResolvedMembers
  <2>4. DownInOrder'
    BY <1>1, <1>5, <2>1, <2>2, <2>3 DEF DownInOrder, SameOwed
  <2> QED
    BY <1>3, <2>4 DEF Safe
<1>6. CASE duty.doing # "kill"
  BY <1>1, <1>3, <1>4, <1>6 DEF Safe, MInv, DownInOrder
<1> QED
  BY <1>5, <1>6

LEMMA DeathsSafe == MInv /\ SInv' /\ ClearIsLast /\ (HolderDies \/ LeaderDies) => Safe
<1> SUFFICES ASSUME MInv, SInv', ClearIsLast, HolderDies \/ LeaderDies PROVE Safe
  OBVIOUS
<1>1. CASE HolderDies
  <2>1. Crash /\ duty'.doing = "nothing" /\ SameOwed
    BY <1>1 DEF HolderDies, Idle, SameOwed
  <2> QED
    BY <2>1, PlainGoes, StepSides DEF Safe, JournalStep
<1>2. CASE LeaderDies
  <2>1. UNCHANGED <<jvars, duty, up>> /\ SameOwed /\ duty.who # "leader"
    BY <1>2 DEF LeaderDies, SameOwed
  <2>2. StillGrows
    BY <2>1 DEF StillGrows, SameUp
  <2>3. duty'.doing \notin DownDoing
    BY <2>1 DEF MInv, DownInOrder, DownDoing
  <2> QED
    BY <2>1, <2>2, <2>3, NotDown, RestSides DEF Safe
<1> QED
  BY <1>1, <1>2

-----------------------------------------------------------------------------
(* Every step.                                                                    *)
LEMMA InitMInv == Init => MInv
<1> SUFFICES ASSUME Init PROVE MInv
  OBVIOUS
<1>1. SInv
  BY InitSInv
<1> DEFINE M == [members |-> FirstWorkers, spent |-> FirstWorkers, gen |-> 0]
<1>2. /\ disk["config"] = M /\ disk["manifest"] = M /\ (\A t \in Task : disk[t] = NoFile)
      /\ disk \in [File -> Value] /\ journal = NoJournal /\ call = NoCall
  BY <1>1, FileFacts DEF Init, JournalInit, SInv, JInv, JournalTypeOK
<1>3. Resolved = disk
  BY <1>2, NoJournalResolved DEF Resolved
<1>4. saved.gen = 0 /\ saved.members = FirstWorkers /\ saved.spent = FirstWorkers
  BY <1>2 DEF Init, ReadConfig
<1>5. Sound(disk, saved, killed, debt)
  <2>1. M \in Membership
    BY JournalAssumption DEF Membership
  <2>2. Claims(disk, M.members)
    BY <1>2, ScalingAssumption DEF Claims, TaskFile
  <2>3. killed = {} /\ debt = {}
    BY DEF Init
  <2> QED
    BY <1>2, <1>4, <2>1, <2>2, <2>3 DEF Sound, AllOrNone
<1>6. duty.doing = "nothing"
  BY DEF Init, Idle
<1>7. AllRight
  BY <1>2, <1>3, <1>5, <1>6 DEF AllRight, RightNow, Right, UpDoing
<1>8. DownInOrder
  BY <1>6 DEF DownInOrder
<1> QED
  BY <1>1, <1>7, <1>8 DEF MInv

LEMMA MStep == MInv /\ ClearIsLast /\ [Next]_vars => MInv'
<1> SUFFICES ASSUME MInv, ClearIsLast, [Next]_vars PROVE MInv'
  OBVIOUS
<1>1. SInv'
  BY TeamStep DEF MInv
<1>2. CASE Next
  BY <1>1, <1>2, FinishSafe, TakesSafe, SavesSafe, ReadSafe, BoardSafe, SettleSafe, TargetsSafe,
     RemovalSafe, KillsSafe, PlanSafe, CreateUpSafe, SplitSafe, UpsSafe, KillUpSafe, EndsSafe,
     RollBackSafe, RollSafe, JournallingSafe, DeathsSafe DEF Next, Safe, MInv
<1>3. CASE UNCHANGED vars
  <2>1. UNCHANGED <<jvars, duty, job, up>> /\ SameOwed
    BY <1>3 DEF vars, SameOwed
  <2>2. AllRight'
    BY <2>1, RestSides DEF StillGrows, SameUp
  <2>3. UNCHANGED <<txn, call, Resolved>>
    BY <2>1, SameResolved DEF jvars
  <2>4. DownInOrder'
    BY <2>1, <2>3 DEF DownInOrder, MInv, ResolvedMembers, SameOwed
  <2> QED
    BY <1>1, <2>2, <2>4 DEF MInv
<1> QED
  BY <1>2, <1>3

LEMMA MemberFacts == MInv => KilledAreOut /\ DebtAllOrNothing /\ ClaimedByMember
<1> SUFFICES ASSUME MInv PROVE KilledAreOut /\ DebtAllOrNothing /\ ClaimedByMember
  OBVIOUS
<1>1. Sound(Resolved, saved, killed, debt)
  BY DEF MInv, AllRight, RightNow, Right
<1> QED
  BY <1>1 DEF Sound, AllOrNone, Claims, KilledAreOut, DebtAllOrNothing, ClaimedByMember,
     ResolvedMembers

(* A worker that a scale-down removed and killed is no member again, however many         *)
(* workers, tasks, failures and deaths: no journal that is replayed, configuration that   *)
(* is saved late or scale-up that is rolled back brings him in.                       *)
THEOREM KilledStayOut ==
  ASSUME ClearIsLast
  PROVE  Spec => []KilledAreOut
<1>1. MInv /\ [Next]_vars => MInv'
  BY MStep
<1>2. MInv => KilledAreOut
  BY MemberFacts
<1> QED
  BY <1>1, <1>2, InitMInv, PTL DEF Spec

(* The debt a scale-down leaves names members only or no member at all, so whoever         *)
(* settles it can tell a removal that happened from one that did not.                 *)
THEOREM DebtIsWhole ==
  ASSUME ClearIsLast
  PROVE  Spec => []DebtAllOrNothing
<1>1. MInv /\ [Next]_vars => MInv'
  BY MStep
<1>2. MInv => DebtAllOrNothing
  BY MemberFacts
<1> QED
  BY <1>1, <1>2, InitMInv, PTL DEF Spec

(* Nobody is removed with the claim of a task, and no roll-back leaves a claim without      *)
(* its member.                                                                    *)
THEOREM ClaimsStayWithMembers ==
  ASSUME ClearIsLast
  PROVE  Spec => []ClaimedByMember
<1>1. MInv /\ [Next]_vars => MInv'
  BY MStep
<1>2. MInv => ClaimedByMember
  BY MemberFacts
<1> QED
  BY <1>1, <1>2, InitMInv, PTL DEF Spec

-----------------------------------------------------------------------------
(* That no pane is lost is about one step, not a state: what it rests on is that a       *)
(* change under way drops no live pane the debt does not name, that only a change         *)
(* which keeps the members is ever undone, and that debts come and go in order.          *)

CallSafe ==
  call # NoCall =>
    panes \cap call.before["manifest"].members \subseteq call.after["manifest"].members \cup debt
UndoSafe ==
  txn.step \in CallStep =>
    /\ txn.step \in {"restore", "unlink"} => txn.style.undo = "restore"
    /\ txn.style.undo = "restore" =>
         call.before["manifest"].members = call.after["manifest"].members

Settling == {"reconcile", "consume", "done", "failed"}
DebtInOrder ==
  /\ duty.doing = "consume" => panes \cap debt = {}
  /\ duty.doing \in DownDoing => job.stage = "remove"
  /\ duty.who = "leader" /\ job.stage = "prior" =>
       /\ duty.doing \in Settling
       /\ duty.doing = "done" => txn.step = "thrown" \/ (txn.step = "ready" /\ debt = {})
  /\ job.stage = "remove" /\ (duty.who # "leader" \/ duty.doing = "remove") => debt = {}

(* A roll-back drops only those of its workers whose pane is gone.                      *)
PaneOfUp == duty.doing = "roll" => panes \cap up.new \subseteq up.unresolved

PInv == MInv /\ CallSafe /\ UndoSafe /\ DebtInOrder /\ PaneOfUp

-----------------------------------------------------------------------------
(* A step of the journal leaves the files as they are, or goes forward, or undoes.       *)

LEMMA StepEffect ==
  ASSUME JournalStep
  PROVE  UNCHANGED <<disk, journal>> \/ Effect
BY DEF JournalStep, Effect, Enter, ReplayEnd, WriteJournal, MarkCommitted, Clear, Finalize, Unlink,
   Release, WriteFails, Crash, Replay, Apply, Restore

LEMMA EffectForward ==
  ASSUME JInv, Effect
  PROVE  \/ Resolved' = Resolved
         \/ call \in Call /\ Resolved' = call.after
         \/ txn.step \in {"restore", "unlink"}
<1> USE DEF JInv
<1>1. CASE txn.step = "replay"
  BY <1>1, ReplayedResolved, ReplayWriteResolved DEF Effect
<1>2. CASE txn.step \in {"clear", "kept"}
  BY <1>2, RemovedResolved DEF Effect
<1>3. CASE txn.step = "prepare"
  <2>1. /\ NewJournal /\ disk' = disk /\ journal' \in Journal /\ journal'.phase \in Phase
        /\ journal'.new = txn.new /\ journal'.old = OldIn(call.before, txn.new)
    BY <1>3, NewJournalFacts DEF Effect
  <2>2. /\ call \in Call /\ call.after = Changed(call.before, txn.new) /\ txn.new \in Change
        /\ disk = call.before /\ disk \in [File -> Value] /\ journal = NoJournal
    BY <1>3 DEF InCall, CallStep, Preparing, JournalTypeOK, Txn
  <2>3. Resolved = disk
    BY <2>2, NoJournalResolved DEF Resolved
  <2>4. Resolved' = Changed(disk', Direction(journal'))
    BY DEF Resolved, Direction
  <2>5. Changed(disk', Direction(journal')) \in {call.after, disk}
    BY <2>1, <2>2, WrittenResolved
  <2> QED
    BY <2>2, <2>3, <2>4, <2>5
<1>4. CASE txn.step = "mark"
  <2>1. /\ MarkJournal /\ disk' = disk /\ journal' \in Journal /\ journal'.phase = "committed"
        /\ journal'.new = txn.new /\ journal'.old = OldIn(call.before, txn.new)
    BY <1>4, MarkJournalFacts DEF Effect
  <2>2. /\ call \in Call /\ call.after = Changed(call.before, txn.new) /\ txn.new \in Change
        /\ disk \in [File -> Value] /\ call.before \in [File -> Value]
        /\ \A f \in File : txn.new[f] = Untouched => disk[f] = call.before[f]
    BY <1>4 DEF InCall, CallStep, JournalTypeOK, Txn, Call
  <2>3. Resolved' = Changed(disk', Direction(journal'))
    BY DEF Resolved, Direction
  <2>4. Changed(disk', Direction(journal')) = call.after
    BY <2>1, <2>2, WrittenResolved DEF Phase
  <2> QED
    BY <2>2, <2>3, <2>4
<1>5. CASE txn.step = "apply"
  <2>1. PICK f \in NextFile : WriteFileFrom(txn.new, f)
    BY <1>5 DEF Effect
  <2>2. f \in File /\ txn.new[f] # Untouched /\ journal.new = txn.new /\ disk \in [File -> Value]
    BY <1>5, <2>1 DEF NextFile, JournalTypeOK, Txn, InCall, CallStep, Written, WrittenStep
  <2>3. Direction(journal)[f] # Untouched /\ Direction(journal) \in Change
    BY <2>2, DirectionTyped
  <2>4. Direction(journal)' = Direction(journal) /\ disk' = [disk EXCEPT ![f] = txn.new[f]]
    BY <2>1 DEF WriteFileFrom, Direction
  <2> QED
    BY <2>2, <2>3, <2>4, WriteResolved DEF Resolved
<1> QED
  BY <1>1, <1>2, <1>3, <1>4, <1>5 DEF Effect

(* Only a change whose style says so is undone.                                       *)
LEMMA UndoStep ==
  ASSUME JInv, UndoSafe, JournalStep
  PROVE  UndoSafe'
<1>1. CASE txn'.step \notin CallStep
  BY <1>1 DEF UndoSafe
<1>2. ASSUME txn'.step \in CallStep
      PROVE  /\ txn.step \in CallStep /\ txn'.style = txn.style /\ call' = call
             /\ txn'.step \in {"restore", "unlink"} => txn.style.undo = "restore"
  <2>1. txn \in Txn
    BY DEF JInv, JournalTypeOK
  <2>2. CASE Enter
    BY <1>2, <2>2 DEF Enter, Recovering, At, CallStep
  <2>3. CASE ReplayEnd \/ Clear \/ Finalize \/ Unlink \/ Release \/ Crash
    BY <1>2, <2>3 DEF ReplayEnd, Clear, Finalize, Unlink, Release, Crash, End, At, CallStep
  <2>4. CASE WriteJournal \/ MarkCommitted
    BY <1>2, <2>1, <2>4 DEF WriteJournal, MarkCommitted, CallStep, Txn
  <2>5. CASE \E f \in File : Replay(f)
    BY <1>2, <2>1, <2>5 DEF Replay, CallStep, Txn
  <2>6. CASE \E f \in File : Apply(f) \/ Restore(f)
    BY <1>2, <2>1, <2>6 DEF Apply, Restore, CallStep, Txn, UndoSafe
  <2>7. CASE WriteFails
    <3>1. txn' = Caught /\ InTry /\ call' = call
      BY <1>2, <2>7 DEF WriteFails, End, At, CallStep
    <3>2. txn.style.undo = "restore" /\ txn' = [txn EXCEPT !.step = "restore", !.todo = Named(txn.new)]
      BY <1>2, <3>1 DEF Caught, Recovering, At, CallStep
    <3> QED
      BY <2>1, <3>1, <3>2 DEF InTry, CallStep, Txn
  <2> QED
    BY <2>2, <2>3, <2>4, <2>5, <2>6, <2>7 DEF JournalStep
<1> QED
  BY <1>1, <1>2 DEF UndoSafe

(* Nobody who was accounted for and is still there is lost.                            *)
Kept == Accounted \cap panes' \subseteq Accounted'

LEMMA SameKept == ResolvedMembers' = ResolvedMembers /\ debt' = debt => Kept
BY DEF Kept, Accounted

LEMMA JournalHolds ==
  ASSUME PInv, SInv', ClearIsLast, JournalStep, UNCHANGED <<panes, debt>>
  PROVE  CallSafe' /\ UndoSafe' /\ Kept
<1>1. JInv /\ JInv'
  BY DEF PInv, MInv, SInv
<1>2. /\ call' \in {call, NoCall}
      /\ Resolved' = Resolved \/ (call # NoCall /\ Resolved' \in {call.before, call.after})
  BY <1>1, StepResolved
<1>3. CallSafe'
  BY <1>2 DEF CallSafe, PInv
<1>4. UndoSafe'
  BY <1>1, UndoStep DEF PInv
<1>5. /\ ResolvedMembers = Resolved["manifest"].members
      /\ ResolvedMembers' = Resolved'["manifest"].members
  BY DEF ResolvedMembers
<1>6. ASSUME Resolved' = Resolved PROVE Kept
  BY <1>5, <1>6, SameKept
<1>7. ASSUME call \in Call, Resolved' = call.after PROVE Kept
  <2>1. call # NoCall /\ Resolved \in {call.before, call.after}
    BY <1>1, <1>7, OpenIsACall, CallResolved
  <2>2. panes \cap ResolvedMembers \subseteq ResolvedMembers' \cup debt
    BY <1>5, <1>7, <2>1 DEF CallSafe, PInv
  <2> QED
    BY <2>2 DEF Kept, Accounted
<1>8. ASSUME txn.step \in {"restore", "unlink"}, Resolved' # Resolved PROVE Kept
  <2>1. call # NoCall /\ Resolved \in {call.before, call.after} /\ Resolved' \in {call.before, call.after}
    BY <1>1, <1>2, <1>8, CallResolved
  <2>2. call.before["manifest"].members = call.after["manifest"].members
    BY <1>8 DEF UndoSafe, PInv, CallStep
  <2> QED
    BY <1>5, <2>1, <2>2, SameKept
<1>9. \/ Resolved' = Resolved
      \/ call \in Call /\ Resolved' = call.after
      \/ txn.step \in {"restore", "unlink"}
  BY <1>1, StepEffect, SameResolved, EffectForward
<1> QED
  BY <1>3, <1>4, <1>6, <1>7, <1>8, <1>9

-----------------------------------------------------------------------------
(* The actions once more.                                                          *)
Held == CallSafe' /\ UndoSafe' /\ DebtInOrder' /\ PaneOfUp' /\ Kept

LEMMA RestHolds ==
  ASSUME PInv, \/ call' = NoCall /\ txn'.step \notin CallStep
               \/ UNCHANGED <<txn, call, panes, debt>>
  PROVE  CallSafe' /\ UndoSafe'
BY DEF PInv, CallSafe, UndoSafe

LEMMA BeginHolds ==
  ASSUME PInv, NEW new, NEW style \in Style, BeginCall(new, style), UNCHANGED <<panes, debt>>,
         panes \cap Members \subseteq Changed(disk, new)["manifest"].members \cup debt,
         style.undo = "restore" => Changed(disk, new)["manifest"].members = Members
  PROVE  /\ CallSafe' /\ UndoSafe' /\ Kept
         /\ ResolvedMembers' = Members /\ call'.before["manifest"].members = Members
         /\ call'.after = Changed(disk, new)
<1>1. /\ txn.step = "ready" /\ UNCHANGED <<disk, journal>>
      /\ call'.before = disk /\ call'.after = Changed(disk, new)
      /\ txn'.step = "prepare" /\ txn'.style = style
  BY DEF BeginCall, At
<1>2. Resolved = disk
  BY <1>1, ReadySound DEF PInv
<1>3. Resolved' = disk
  BY <1>1, <1>2, SameResolved
<1>4. ResolvedMembers' = Members /\ ResolvedMembers = Members
  BY <1>2, <1>3 DEF ResolvedMembers, Members
<1>5. CallSafe' /\ UndoSafe'
  BY <1>1 DEF CallSafe, UndoSafe, Members
<1>6. Kept
  BY <1>4, SameKept
<1> QED
  BY <1>1, <1>4, <1>5, <1>6 DEF Members

LEMMA BothHolds ==
  ASSUME PInv, NEW A \in SUBSET Worker, NEW g \in 0..MaxGen, NEW style \in Style,
         BeginCall(Both(Members \cup A, Spent \cup A, g), style),
         style.undo = "restore" => A = {}, UNCHANGED <<panes, debt>>
  PROVE  /\ CallSafe' /\ UndoSafe' /\ Kept
         /\ ResolvedMembers' = Members /\ call'.before["manifest"].members = Members
         /\ call'.after["manifest"].members = Members \cup A
<1> DEFINE m == Members \cup A
           s == Spent \cup A
           n == Both(m, s, g)
<1>1. m \in SUBSET Worker /\ s \in SUBSET Worker /\ disk \in [File -> Value]
  BY ReadySound DEF PInv, BeginCall
<1>2. BeginCall(n, style) /\ (style.undo = "restore" => m = Members) /\ Members \subseteq m
  OBVIOUS
<1>3. Changed(disk, n)["manifest"].members = m
  <2> HIDE DEF m, s
  <2>1. Changed(disk, n)["manifest"] = [members |-> m, spent |-> s, gen |-> g]
    BY <1>1, BothChanged
  <2> QED
    BY <2>1
<1> HIDE DEF n
<1> QED
  BY <1>2, <1>3, BeginHolds

(* The same for who is left alone.                                                   *)
LEMMA NobodyNew ==
  ASSUME PInv, NEW g \in 0..MaxGen, NEW style \in Style,
         BeginCall(Both(Members, Spent, g), style), UNCHANGED <<panes, debt>>
  PROVE  /\ CallSafe' /\ UndoSafe' /\ Kept
         /\ ResolvedMembers' = Members /\ call'.before["manifest"].members = Members
         /\ call'.after["manifest"].members = Members
<1> DEFINE A == {}
<1>1. A \in SUBSET Worker /\ A = {} /\ Members \cup A = Members /\ Spent \cup A = Spent
  OBVIOUS
<1> HIDE DEF A
<1> QED
  BY <1>1, BothHolds

(* A step that has no part in the order of debts; one that has none in growing.           *)
LEMMA OtherDuty ==
  ASSUME PInv, duty.doing \notin Settling, duty'.doing \notin DownDoing \cup {"consume"},
         duty'.who = duty.who, UNCHANGED <<debt, job>>
  PROVE  DebtInOrder'
BY DEF PInv, DebtInOrder, DownDoing

LEMMA NotUp == duty'.doing # "roll" => PaneOfUp'
BY DEF PaneOfUp

LEMMA ReadySame ==
  ASSUME MInv, txn.step = "ready", UNCHANGED jvars
  PROVE  /\ ResolvedMembers' = ResolvedMembers /\ ResolvedMembers = Members
         /\ call' = NoCall /\ txn'.step \notin CallStep
BY SameResolved, ReadySound DEF ResolvedMembers, Members, jvars, CallStep

LEMMA WriteSame ==
  ASSUME MInv, NEW f \in File, NEW v \in Value, WriteFile(f, v) \/ WriteFileFails(f, v),
         f \in Task \/ v = disk[f]
  PROVE  /\ ResolvedMembers' = ResolvedMembers /\ ResolvedMembers = Members
         /\ call' = NoCall /\ txn'.step \notin CallStep
<1>1. /\ txn.step = "ready" /\ journal' = journal /\ call' = call /\ txn' \in {txn, At("thrown")}
      /\ disk' \in {disk, [disk EXCEPT ![f] = v]}
  BY DEF WriteFile, WriteFileFails
<1>2. /\ disk \in [File -> Value] /\ Resolved = disk /\ call = NoCall /\ journal = NoJournal
  BY <1>1, ReadySound
<1>3. disk' \in [File -> Value] /\ disk'["manifest"] = disk["manifest"]
  BY <1>1, <1>2, FileFacts
<1>4. Resolved' = disk'
  <2>1. Resolved' = Changed(disk', Direction(journal'))
    BY DEF Resolved, Direction
  <2> QED
    BY <1>1, <1>2, <1>3, <2>1, NoJournalResolved
<1>5. txn'.step \notin CallStep
  BY <1>1 DEF At, CallStep
<1> QED
  BY <1>1, <1>2, <1>3, <1>4, <1>5 DEF ResolvedMembers, Members

LEMMA FinishHeld == PInv /\ SInv' /\ ClearIsLast /\ Finish => Held
<1> SUFFICES ASSUME PInv, SInv', ClearIsLast, Finish PROVE Held
  OBVIOUS
<1>1. /\ Release /\ duty' = Idle /\ UNCHANGED <<panes, debt>>
      /\ IF duty.who = "leader" THEN job' \in NextStage ELSE job' = job
      /\ txn.step = "thrown" \/ duty.doing \in {"done", "failed"}
  BY DEF Finish
<1>2. CallSafe' /\ UndoSafe' /\ Kept
  BY <1>1, JournalHolds DEF JournalStep
<1>3. duty'.doing = "nothing" /\ duty'.who = "nobody" /\ PaneOfUp'
  BY <1>1, NotUp DEF Idle, UpDoing
<1>4. job'.stage = "remove" => debt = {}
  <2> SUFFICES ASSUME job'.stage = "remove" PROVE debt = {}
    OBVIOUS
  <2>1. CASE duty.who # "leader"
    BY <1>1, <2>1 DEF PInv, DebtInOrder
  <2>2. CASE duty.who = "leader"
    <3>1. job' \in NextStage
      BY <1>1, <2>2
    <3>2. ~(Holds("failed") \/ txn.step = "thrown")
      BY <3>1 DEF NextStage, NoJob
    <3>3. duty.doing = "done"
      BY <1>1, <3>2 DEF Holds
    <3>4. job.stage = "prior"
      <4>1. job \in [stage : {"none", "prior", "remove", "clean", "up"}, set : SUBSET Worker]
        BY DEF PInv, MInv, SInv, TeamInv, TeamTyped
      <4>2. CASE job.stage = "remove"
        BY <3>1, <3>2, <4>1, <4>2 DEF NextStage
      <4>3. CASE job.stage \notin {"prior", "remove"}
        BY <3>1, <3>2, <4>3 DEF NextStage, NoJob
      <4> QED
        BY <4>2, <4>3
    <3> QED
      BY <2>2, <3>2, <3>3, <3>4 DEF PInv, DebtInOrder
  <2> QED
    BY <2>1, <2>2
<1>5. DebtInOrder'
  BY <1>1, <1>3, <1>4 DEF DebtInOrder, DownDoing
<1> QED
  BY <1>2, <1>3, <1>5 DEF Held

LEMMA TakesHeld ==
  PInv /\ SInv' /\ ClearIsLast /\ (Operate \/ Reconcile \/ StartDown \/ NextSection \/ StartUp) => Held
<1> SUFFICES ASSUME PInv, SInv', ClearIsLast,
                    Operate \/ Reconcile \/ StartDown \/ NextSection \/ StartUp
             PROVE  Held
  OBVIOUS
<1>1. PICK who \in {"leader", "other"}, x \in {"operate", "reconcile", "remove", "plan"} :
         /\ Take(who, x)
         /\ \/ job' = job /\ who = "other" /\ x # "remove"
            \/ job'.stage = "prior" /\ x = "reconcile"
            \/ job' = job /\ job.stage = "remove" /\ x = "remove"
            \/ job' = job /\ job.stage = "clean" /\ x = "reconcile"
            \/ job'.stage = "up" /\ x = "plan"
  <2>1. CASE Operate
    BY <2>1 DEF Operate
  <2>2. CASE Reconcile
    BY <2>2 DEF Reconcile
  <2>3. CASE StartDown
    BY <2>3 DEF StartDown
  <2>4. CASE NextSection
    BY <2>4 DEF NextSection
  <2>5. CASE StartUp
    BY <2>5 DEF StartUp
  <2> QED
    BY <2>1, <2>2, <2>3, <2>4, <2>5
<1>2. Enter /\ duty' = [who |-> who, doing |-> x] /\ UNCHANGED <<panes, debt>> /\ duty = Idle
  BY <1>1 DEF Take
<1>3. CallSafe' /\ UndoSafe' /\ Kept
  BY <1>2, JournalHolds DEF JournalStep
<1>4. PaneOfUp'
  BY <1>2, NotUp DEF UpDoing
<1>5. job.stage = "remove" => debt = {}
  BY <1>2 DEF PInv, DebtInOrder, Idle
<1>6. DebtInOrder'
  BY <1>1, <1>2, <1>5 DEF DebtInOrder, DownDoing, Settling
<1> QED
  BY <1>3, <1>4, <1>6 DEF Held

LEMMA SavesHeld == PInv /\ (Number \/ Save \/ Mutate) => Held
<1> SUFFICES ASSUME PInv, Number \/ Save \/ Mutate PROVE Held
  OBVIOUS
<1>1. /\ txn.step = "ready" /\ duty.doing \in {"operate", "number"}
      /\ UNCHANGED <<panes, debt, job>>
  BY DEF Number, Save, Mutate, Ready, Holds, Unscaled
<1>2. PICK x \in {"done", "failed"} : Goes(x)
  BY DEF Number, Save, Mutate
<1>3. duty'.doing = x /\ duty'.who = duty.who
  BY <1>2, GoesTo DEF Doing, PInv
<1>4. PaneOfUp' /\ DebtInOrder'
  BY <1>1, <1>3, NotUp, OtherDuty DEF UpDoing, Settling, DownDoing
<1>5. /\ Sound(disk, saved, killed, debt) /\ disk \in [File -> Value]
      /\ Members \subseteq Worker /\ Spent \subseteq Worker /\ Gen \in 0..MaxGen
  BY <1>1, ReadySound DEF PInv
<1>6. CASE UNCHANGED jvars
  BY <1>1, <1>4, <1>6, ReadySame, RestHolds, SameKept DEF Held, PInv
<1>7. ASSUME NEW g \in {Gen, Gen + 1}, g <= MaxGen, NEW style \in Style,
             BeginCall(Both(Members, Spent, g), style)
      PROVE  Held
  <2>1. g \in 0..MaxGen
    BY <1>5, <1>7, JournalAssumption
  <2>2. CallSafe' /\ UndoSafe' /\ Kept
    BY <1>1, <1>7, <2>1, NobodyNew
  <2> QED
    BY <1>4, <2>2 DEF Held
<1>8. CASE saved.gen = Gen /\ RoomForOneMore /\ BeginCall(Both(saved.members, saved.spent, Gen + 1), SaveConfig)
  <2>1. saved.members = Members /\ saved.spent = Spent
    BY <1>5, <1>8 DEF Sound, Members, Spent, Gen
  <2> QED
    BY <1>5, <1>7, <1>8, <2>1, StyleFacts, JournalAssumption DEF RoomForOneMore
<1>9. CASE Number
  BY <1>5, <1>7, <1>9, StyleFacts, JournalAssumption DEF Number, NextTaskId, Spent
<1>10. CASE Mutate
  BY <1>5, <1>7, <1>10, StyleFacts, JournalAssumption DEF Mutate, Spent, RoomForOneMore
<1> QED
  BY <1>6, <1>8, <1>9, <1>10 DEF Save

LEMMA ReadHeld == PInv /\ Read => Held
<1> SUFFICES ASSUME PInv, Read PROVE Held
  OBVIOUS
<1>1. /\ txn.step = "ready" /\ duty.doing = "operate" /\ Goes("done") /\ UNCHANGED <<jvars, panes, debt, job>>
  BY DEF Read, Ready, Holds
<1>2. duty'.doing = "done" /\ duty'.who = duty.who
  BY <1>1, GoesTo DEF Doing, PInv
<1>3. PaneOfUp' /\ DebtInOrder'
  BY <1>1, <1>2, NotUp, OtherDuty DEF UpDoing, Settling, DownDoing
<1> QED
  BY <1>1, <1>3, ReadySame, RestHolds, SameKept DEF Held, PInv

LEMMA BoardHeld ==
  ASSUME PInv, NEW t \in Task, Create(t) \/ Unclaim(t) \/ \E w \in Worker : Claim(t, w)
  PROVE  Held
<1>1. PICK v \in TaskFile, x \in {"done", "number"} :
        /\ WriteFile(t, v) \/ WriteFileFails(t, v)
        /\ duty.doing = "operate" /\ Goes(x) /\ UNCHANGED <<panes, debt, job>>
  <2>1. CASE Create(t)
    BY <2>1 DEF Create, NewTask, TaskFile, Ready, Holds, Unscaled
  <2>2. CASE Unclaim(t)
    BY <2>2 DEF Unclaim, TaskFile, Ready, Holds, Unscaled
  <2>3. CASE \E w \in Worker : Claim(t, w)
    BY <2>3 DEF Claim, TaskFile, Ready, Holds, Unscaled
  <2> QED
    BY <2>1, <2>2, <2>3
<1>2. duty'.doing = x /\ duty'.who = duty.who
  BY <1>1, GoesTo DEF Doing, PInv
<1>3. PaneOfUp' /\ DebtInOrder'
  BY <1>1, <1>2, NotUp, OtherDuty DEF UpDoing, Settling, DownDoing
<1>4. t \in File /\ v \in Value
  BY FileFacts DEF Value
<1> QED
  BY <1>1, <1>3, <1>4, WriteSame, RestHolds, SameKept DEF Held, PInv

(* What the steps that settle a debt or begin a removal do to the files: nothing.         *)
LEMMA DebtSame ==
  ASSUME PInv, txn.step = "ready", UNCHANGED jvars \/ WriteFileFails("config", disk["config"])
  PROVE  /\ ResolvedMembers' = ResolvedMembers /\ ResolvedMembers = Members
         /\ CallSafe' /\ UndoSafe'
<1>1. MInv /\ "config" \in File /\ disk["config"] \in Value
  BY ReadySound, FileFacts DEF PInv
<1>2. /\ ResolvedMembers' = ResolvedMembers /\ ResolvedMembers = Members
      /\ call' = NoCall /\ txn'.step \notin CallStep
  <2>1. CASE UNCHANGED jvars
    BY <1>1, <2>1, ReadySame
  <2>2. CASE WriteFileFails("config", disk["config"])
    BY <1>1, <2>2, WriteSame
  <2> QED
    BY <2>1, <2>2
<1> QED
  BY <1>2, RestHolds

LEMMA SettleHeld == PInv /\ (SettleDebt \/ Consume) => Held
<1> SUFFICES ASSUME PInv, SettleDebt \/ Consume PROVE Held
  OBVIOUS
<1>1. /\ txn.step = "ready" /\ job' = job /\ panes' \subseteq panes
      /\ UNCHANGED jvars \/ WriteFileFails("config", disk["config"])
  BY DEF SettleDebt, Consume, Ready, SetDebt, Kill
<1>2. PICK x \in {"done", "consume", "failed"} : Goes(x)
  BY DEF SettleDebt, Consume
<1>3. duty'.doing = x /\ duty'.who = duty.who
  BY <1>2, GoesTo DEF Doing, PInv
<1>4. PaneOfUp'
  BY <1>3, NotUp DEF UpDoing
<1>5. /\ ResolvedMembers' = ResolvedMembers /\ ResolvedMembers = Members
      /\ CallSafe' /\ UndoSafe'
  BY <1>1, DebtSame
<1>6. debt' \in {debt, {}} /\ (debt' # debt => panes \cap debt \subseteq Members)
  <2>1. CASE SettleDebt
    BY <2>1 DEF SettleDebt, SetDebt, Canonical
  <2>2. CASE Consume
    <3>1. panes \cap debt = {}
      BY <2>2 DEF Consume, Ready, Holds, PInv, DebtInOrder
    <3> QED
      BY <2>2, <3>1 DEF Consume, SetDebt
  <2> QED
    BY <2>1, <2>2
<1>7. Kept
  BY <1>5, <1>6 DEF Kept, Accounted
<1>8. x = "consume" => panes' \cap debt' = {}
  <2> SUFFICES ASSUME x = "consume" PROVE panes' \cap debt' = {}
    OBVIOUS
  <2>1. Canonical # debt /\ SettleDebt
    BY <1>2, <1>3, GoesTo DEF SettleDebt, Consume, Doing, PInv
  <2>2. /\ UNCHANGED debt
        /\ \E K \in IF Canonical = {} THEN SUBSET Live(debt) ELSE {{}} :
             /\ Kill(K)
             /\ Goes(IF Canonical = {} /\ K = Live(debt) THEN "consume" ELSE "failed")
    BY <2>1 DEF SettleDebt
  <2>3. PICK K \in IF Canonical = {} THEN SUBSET Live(debt) ELSE {{}} :
          /\ Kill(K)
          /\ Goes(IF Canonical = {} /\ K = Live(debt) THEN "consume" ELSE "failed")
    BY <2>2
  <2>4. K = Live(debt)
    BY <1>3, <2>3, GoesTo DEF Doing, PInv
  <2> QED
    BY <2>2, <2>3, <2>4 DEF Kill, Live
<1>9. x = "done" => txn'.step = "thrown" \/ (txn'.step = "ready" /\ debt' = {})
  <2> SUFFICES ASSUME x = "done" PROVE txn'.step = "thrown" \/ (txn'.step = "ready" /\ debt' = {})
    OBVIOUS
  <2>1. SetDebt({}) \/ (debt = {} /\ UNCHANGED <<jvars, debt>>)
    <3>1. CASE SettleDebt
      <4>1. CASE Canonical = debt
        BY <3>1, <4>1 DEF SettleDebt
      <4>2. CASE Canonical # debt
        <5>1. \E y \in {"consume", "failed"} : Goes(y)
          BY <3>1, <4>2 DEF SettleDebt
        <5> QED
          BY <1>3, <5>1, GoesTo DEF Doing, PInv
      <4> QED
        BY <4>1, <4>2
    <3>2. CASE Consume
      <4>1. SetDebt({}) \/ Goes("failed")
        BY <3>2 DEF Consume
      <4> QED
        BY <1>3, <4>1, GoesTo DEF Doing, PInv
    <3> QED
      BY <3>1, <3>2
  <2> QED
    BY <1>1, <2>1 DEF SetDebt, jvars, WriteFileFails, At
<1>10. DebtInOrder'
  <2>1. job.stage = "remove" /\ duty.who # "leader" => debt = {}
    BY DEF PInv, DebtInOrder
  <2>2. duty'.doing \in {"done", "consume", "failed"}
    BY <1>3
  <2> QED
    BY <1>1, <1>3, <1>6, <1>8, <1>9, <2>1, <2>2 DEF DebtInOrder, DownDoing, Settling
<1> QED
  BY <1>4, <1>5, <1>7, <1>10 DEF Held

LEMMA TargetsHeld == PInv /\ FindTargets => Held
<1> SUFFICES ASSUME PInv, FindTargets PROVE Held
  OBVIOUS
<1>1. /\ txn.step = "ready" /\ duty.doing = "remove" /\ UNCHANGED <<panes, job>>
      /\ UNCHANGED jvars \/ WriteFileFails("config", disk["config"])
  BY DEF FindTargets, Ready, Holds, SetDebt
<1>2. job.stage = "remove" /\ debt = {}
  BY <1>1 DEF PInv, DebtInOrder, DownDoing
<1>3. PICK x \in {"commit", "failed"} : Goes(x)
  BY DEF FindTargets
<1>4. duty'.doing = x /\ duty'.who = duty.who
  BY <1>3, GoesTo DEF Doing, PInv
<1>5. PaneOfUp'
  BY <1>4, NotUp DEF UpDoing
<1>6. /\ ResolvedMembers' = ResolvedMembers /\ ResolvedMembers = Members
      /\ CallSafe' /\ UndoSafe'
  BY <1>1, DebtSame
<1>7. Kept
  BY <1>2, <1>6 DEF Kept, Accounted
<1>8. DebtInOrder'
  <2>1. duty.who = "leader"
    BY <1>1 DEF PInv, MInv, DownInOrder
  <2> QED
    BY <1>1, <1>2, <1>4, <2>1 DEF DebtInOrder
<1> QED
  BY <1>5, <1>6, <1>7, <1>8 DEF Held

LEMMA RemovalHeld == PInv /\ CommitRemoval => Held
<1> SUFFICES ASSUME PInv, CommitRemoval PROVE Held
  OBVIOUS
<1> DEFINE R == job.set
           n == Without(R)
<1>1. /\ txn.step = "ready" /\ duty.doing = "commit" /\ Goes("kill")
      /\ UNCHANGED <<panes, debt, job>> /\ BeginCall(n, Forward)
  BY DEF CommitRemoval, Ready, Holds, Unscaled
<1>2. duty'.doing = "kill" /\ duty'.who = duty.who
  BY <1>1, GoesTo DEF Doing, PInv
<1>3. debt = R /\ MInv /\ duty.who = "leader"
  BY <1>1 DEF PInv, MInv, DownInOrder
<1>4. Changed(disk, n)["manifest"].members = Members \ R
  <2>1. Changed(disk, n)["manifest"] = [members |-> Members \ R, spent |-> Spent, gen |-> Gen + 1]
    BY <1>1, <1>3, RemovalFiles
  <2> QED
    BY <2>1
<1>5. panes \cap Members \subseteq Changed(disk, n)["manifest"].members \cup debt
  BY <1>3, <1>4
<1>6. Forward \in Style /\ Forward.undo # "restore"
  BY StyleFacts DEF Forward
<1> HIDE DEF n
<1>7. CallSafe' /\ UndoSafe' /\ Kept
  BY <1>1, <1>5, <1>6, BeginHolds
<1>8. PaneOfUp'
  BY <1>2, NotUp DEF UpDoing
<1>9. DebtInOrder'
  <2>1. job.stage = "remove"
    BY <1>1 DEF PInv, DebtInOrder, DownDoing
  <2> QED
    BY <1>1, <1>2, <1>3, <2>1 DEF DebtInOrder
<1> QED
  BY <1>7, <1>8, <1>9 DEF Held

LEMMA KillsHeld == PInv /\ KillTargets => Held
<1> SUFFICES ASSUME PInv, KillTargets PROVE Held
  OBVIOUS
<1>1. /\ txn.step = "ready" /\ duty.doing = "kill" /\ UNCHANGED <<debt, job>> /\ UNCHANGED jvars
  BY DEF KillTargets, Ready, Holds
<1>2. PICK x \in {"done", "failed"} : Goes(x)
  BY DEF KillTargets
<1>3. duty'.doing = x /\ duty'.who = duty.who
  BY <1>2, GoesTo DEF Doing, PInv
<1>4. PaneOfUp' /\ DebtInOrder'
  BY <1>1, <1>3, NotUp, OtherDuty DEF UpDoing, Settling, DownDoing
<1>5. ResolvedMembers' = ResolvedMembers /\ CallSafe' /\ UndoSafe'
  BY <1>1, DebtSame
<1> QED
  BY <1>1, <1>4, <1>5, SameKept DEF Held

(* A scale-up has no part in the order of debts.                                       *)
LEMMA UpDuty ==
  ASSUME PInv, duty.doing \notin Settling, NEW x \in Doing, x \notin DownDoing \cup {"consume"},
         NEW u, UpGoes(x, u)
  PROVE  /\ duty'.doing = x /\ up' = u /\ debt' = debt /\ DebtInOrder'
         /\ x # "roll" => PaneOfUp'
<1>1. Goes(x) /\ up' = u /\ UNCHANGED <<debt, job>>
  BY DEF UpGoes
<1>2. duty'.doing = x /\ duty'.who = duty.who
  BY <1>1, GoesTo DEF PInv
<1>3. DebtInOrder'
  BY <1>1, <1>2, OtherDuty
<1> QED
  BY <1>1, <1>2, <1>3, NotUp

LEMMA PlanHeld == PInv /\ Plan => Held
<1> SUFFICES ASSUME PInv, Plan PROVE Held
  OBVIOUS
<1>1. /\ txn.step = "ready" /\ duty.doing = "plan" /\ UNCHANGED <<jvars, panes>>
      /\ duty.doing \notin Settling
  BY DEF Plan, Ready, Holds, Settling
<1>2. /\ ResolvedMembers' = ResolvedMembers /\ ResolvedMembers = Members
      /\ CallSafe' /\ UndoSafe' /\ call' = NoCall
  BY <1>1, DebtSame, ReadySame DEF PInv
<1>3. CASE UpGoes("failed", up)
  BY <1>1, <1>2, <1>3, UpDuty, SameKept DEF Held, Doing, DownDoing, UpDoing
<1>4. ASSUME NEW u, UpGoes("create", u)
      PROVE  Held
  <2>1. debt' = debt /\ DebtInOrder' /\ PaneOfUp'
    BY <1>1, <1>4, UpDuty DEF Doing, DownDoing
  <2> QED
    BY <1>1, <1>2, <2>1, SameKept DEF Held
<1> QED
  BY <1>3, <1>4 DEF Plan

LEMMA CreateUpHeld ==
  ASSUME PInv, NEW t \in Task, NEW owner \in Worker \cup {Nobody}, CreateUpTask(t, owner)
  PROVE  Held
<1> DEFINE v == [owner |-> owner, claimed |-> FALSE]
<1>1. /\ duty.doing = "create" /\ UpGoes("create", [up EXCEPT !.task = t]) /\ panes' = panes
      /\ WriteFile(t, v) \/ WriteFileFails(t, v)
      /\ duty.doing \notin Settling
  BY DEF CreateUpTask, NewTask, Ready, Holds, Settling
<1>2. debt' = debt /\ DebtInOrder' /\ PaneOfUp'
  BY <1>1, UpDuty DEF Doing, DownDoing
<1>3. t \in File /\ v \in Value
  BY FileFacts DEF Value, TaskFile
<1> HIDE DEF v
<1>4. ResolvedMembers' = ResolvedMembers /\ call' = NoCall /\ txn'.step \notin CallStep
  BY <1>1, <1>3, WriteSame DEF PInv
<1> QED
  BY <1>2, <1>4, RestHolds, SameKept DEF Held

LEMMA SplitHeld ==
  ASSUME PInv, (\E w \in Worker : Split(w)) \/ ListUpTask
  PROVE  Held
<1>1. /\ txn.step = "ready" /\ duty.doing \in {"create", "listed", "split"} /\ UNCHANGED jvars
      /\ duty.doing \notin Settling
  BY DEF Split, ListUpTask, Ready, Holds, Settling
<1>2. PICK x \in {"create", "start"}, u \in {up'} : UpGoes(x, u)
  BY DEF Split, ListUpTask, UpGoes
<1>3. debt' = debt /\ DebtInOrder' /\ PaneOfUp'
  BY <1>1, <1>2, UpDuty DEF Doing, DownDoing
<1>4. ResolvedMembers' = ResolvedMembers /\ call' = NoCall /\ txn'.step \notin CallStep
  BY <1>1, ReadySame DEF PInv
<1> QED
  BY <1>3, <1>4, RestHolds, SameKept DEF Held

(* What a scale-up that asks for a change finds.                                        *)
LEMMA UpReady ==
  ASSUME PInv, txn.step = "ready", duty.doing \in UpDoing
  PROVE  /\ up.new \in SUBSET Worker /\ UpWorkers = up.new
         /\ Gen \in 0..MaxGen /\ (Ahead >= 1 => Gen + 1 \in 0..MaxGen)
         /\ disk["config"] = disk["manifest"]
<1>1. up.new \in SUBSET Worker /\ UpWorkers = up.new /\ disk["config"] = disk["manifest"]
  BY GrowthFacts, ReadySound DEF PInv
<1>2. Gen \in 0..MaxGen /\ Gen + Ahead <= MaxGen /\ Ahead \in 0..2
  BY ReadyFacts, AheadNat DEF PInv, MInv
<1>3. Ahead >= 1 => Gen + 1 \in 0..MaxGen
  BY <1>2, JournalAssumption
<1> QED
  BY <1>1, <1>2, <1>3

LEMMA NumberUpHeld == PInv /\ NumberUpTask => Held
<1> SUFFICES ASSUME PInv, NumberUpTask PROVE Held
  OBVIOUS
<1>1. /\ txn.step = "ready" /\ duty.doing = "create" /\ panes' = panes /\ UpGoes("listed", up)
      /\ BeginCall(Both(Members, Spent, Gen), SaveConfig)
      /\ duty.doing \notin Settling /\ duty.doing \in UpDoing
  BY DEF NumberUpTask, NextTaskId, Spent, Ready, Holds, Settling, UpDoing
<1>2. debt' = debt /\ DebtInOrder' /\ PaneOfUp'
  BY <1>1, UpDuty DEF Doing, DownDoing
<1>3. Gen \in 0..MaxGen
  BY <1>1, UpReady
<1>4. CallSafe' /\ UndoSafe' /\ Kept
  BY <1>1, <1>2, <1>3, NobodyNew, StyleFacts
<1> QED
  BY <1>2, <1>4 DEF Held

LEMMA JoinHeld == PInv /\ (Join \/ Track) => Held
<1> SUFFICES ASSUME PInv, Join \/ Track PROVE Held
  OBVIOUS
<1>1. /\ txn.step = "ready" /\ duty.doing \in {"start", "track"} /\ panes' = panes
      /\ duty.doing \notin Settling /\ duty.doing \in UpDoing /\ Ahead >= 1
  BY DEF Join, Track, Ready, Holds, Settling, UpDoing, Ahead, AheadOf
<1>2. PICK x \in {"save", "tracked"} : UpGoes(x, up)
  BY DEF Join, Track
<1>3. debt' = debt /\ DebtInOrder' /\ PaneOfUp'
  BY <1>1, <1>2, UpDuty DEF Doing, DownDoing
<1>4. /\ Gen + 1 \in 0..MaxGen /\ up.new \in SUBSET Worker /\ UpWorkers = up.new
      /\ disk["config"] = disk["manifest"]
  BY <1>1, UpReady
<1>5. PICK style \in {SaveConfig, Forward} :
         BeginCall(Both(Members \cup up.new, Spent \cup up.new, Gen + 1), style)
  <2>1. CASE Join
    BY <2>1 DEF Join, Members, Spent
  <2>2. CASE Track
    <3>1. BeginCall(Both(Members \cup up.new, Spent \cup up.new, Gen + 1), Forward)
      BY <1>4, <2>2 DEF Track, Members, Spent
    <3> QED
      BY <3>1
  <2> QED
    BY <2>1, <2>2
<1>6. style \in Style /\ style.undo # "restore"
  <2>1. SaveConfig \in Style /\ Forward \in Style
    BY StyleFacts
  <2>2. SaveConfig.undo = "recover" /\ Forward.undo = "recover"
    BY DEF SaveConfig, Forward
  <2> QED
    BY <2>1, <2>2
<1>7. CallSafe' /\ UndoSafe' /\ Kept
  BY <1>1, <1>3, <1>4, <1>5, <1>6, BothHolds
<1> QED
  BY <1>3, <1>7 DEF Held

LEMMA KillUpHeld == PInv /\ KillUpPanes => Held
<1> SUFFICES ASSUME PInv, KillUpPanes PROVE Held
  OBVIOUS
<1>1. /\ txn.step = "ready" /\ duty.doing = "tracked" /\ UNCHANGED jvars
      /\ duty.doing \notin Settling
  BY DEF KillUpPanes, Ready, Holds, Settling
<1>2. PICK U \in SUBSET UpWorkers, S \in SUBSET UpWorkers :
        /\ panes' = panes \ (UpWorkers \ U)
        /\ UpGoes("roll", [up EXCEPT !.unresolved = U, !.spent = @ \cup S])
  BY DEF KillUpPanes, Kill
<1>3. /\ up' = [up EXCEPT !.unresolved = U, !.spent = @ \cup S]
      /\ debt' = debt /\ DebtInOrder'
  BY <1>1, <1>2, UpDuty DEF Doing, DownDoing
<1>4. up'.new = UpWorkers /\ up'.unresolved = U
  BY <1>3 DEF UpWorkers, PInv, MInv, SInv, TeamInv, TeamTyped
<1>5. PaneOfUp'
  BY <1>2, <1>4 DEF PaneOfUp
<1>6. ResolvedMembers' = ResolvedMembers /\ call' = NoCall /\ txn'.step \notin CallStep
  BY <1>1, ReadySame DEF PInv
<1> QED
  BY <1>3, <1>5, <1>6, RestHolds, SameKept DEF Held

LEMMA EndsHeld == PInv /\ (Joined \/ Rolled) => Held
<1> SUFFICES ASSUME PInv, Joined \/ Rolled PROVE Held
  OBVIOUS
<1>1. /\ txn.step = "ready" /\ UNCHANGED jvars /\ panes' = panes
      /\ duty.doing \notin Settling
  BY DEF Joined, Rolled, Ready, Holds, Settling
<1>2. PICK x \in {"done", "failed", "split"} : UpGoes(x, up)
  BY DEF Joined, Rolled
<1>3. debt' = debt /\ DebtInOrder' /\ PaneOfUp'
  BY <1>1, <1>2, UpDuty DEF Doing, DownDoing
<1>4. ResolvedMembers' = ResolvedMembers /\ call' = NoCall /\ txn'.step \notin CallStep
  BY <1>1, ReadySame DEF PInv
<1> QED
  BY <1>3, <1>4, RestHolds, SameKept DEF Held

LEMMA RollBackHeld == PInv /\ SInv' /\ ClearIsLast /\ RollBack => Held
<1> SUFFICES ASSUME PInv, SInv', ClearIsLast, RollBack PROVE Held
  OBVIOUS
<1>1. /\ UpGoes("track", up) /\ (UNCHANGED jvars \/ Enter)
      /\ UNCHANGED <<disk, journal, call>> /\ panes' = panes /\ duty.doing \notin Settling
  BY DEF RollBack, RollsBack, Settling, Enter, jvars
<1>2. debt' = debt /\ DebtInOrder' /\ PaneOfUp'
  BY <1>1, UpDuty DEF Doing, DownDoing
<1>3. ResolvedMembers' = ResolvedMembers /\ call' = call
  BY <1>1, SameResolved DEF ResolvedMembers
<1>4. CallSafe' /\ UndoSafe' /\ Kept
  <2>1. CASE Enter
    BY <1>1, <1>2, <2>1, JournalHolds DEF JournalStep
  <2>2. CASE UNCHANGED jvars
    BY <1>1, <1>2, <1>3, <2>2, RestHolds, SameKept DEF jvars
  <2> QED
    BY <1>1, <2>1, <2>2
<1> QED
  BY <1>2, <1>4 DEF Held

LEMMA RollHeld == PInv /\ Roll => Held
<1> SUFFICES ASSUME PInv, Roll PROVE Held
  OBVIOUS
<1> DEFINE m == Changed(disk, RolledBack)["manifest"].members
<1>1. /\ txn.step = "ready" /\ duty.doing = "roll" /\ panes' = panes /\ UpGoes("rolled", up)
      /\ BeginCall(RolledBack, ForwardKept)
      /\ duty.doing \notin Settling /\ duty.doing \in UpDoing
  BY DEF Roll, Ready, Holds, Settling, UpDoing
<1>2. duty'.doing = "rolled" /\ debt' = debt /\ DebtInOrder' /\ PaneOfUp'
  BY <1>1, UpDuty DEF Doing, DownDoing, UpDoing
<1>3. m = up.members \cup up.unresolved
  <2>1. Changed(disk, RolledBack)["manifest"] =
          [members |-> up.members \cup up.unresolved, spent |-> up.spent,
           gen |-> Gen + 1]
    BY <1>1, RollFiles DEF PInv
  <2> QED
    BY <2>1
<1>4. Members \subseteq up.members \cup up.new
  <2>1. Growing(disk, up)
    BY <1>1, GrowthFacts DEF PInv
  <2> QED
    BY <2>1 DEF Growing, Members
<1>5. panes \cap up.new \subseteq up.unresolved
  BY <1>1 DEF PInv, PaneOfUp
<1>6. panes \cap Members \subseteq m \cup debt
  BY <1>3, <1>4, <1>5
<1>7. ForwardKept \in Style /\ ForwardKept.undo # "restore"
  BY StyleFacts DEF ForwardKept
<1>8. CallSafe' /\ UndoSafe' /\ Kept
  BY <1>1, <1>2, <1>6, <1>7, BeginHolds
<1> QED
  BY <1>2, <1>8 DEF Held

LEMMA JournallingHeld ==
  PInv /\ SInv' /\ ClearIsLast /\ (Journalling \/ JournalFails) => Held
<1> SUFFICES ASSUME PInv, SInv', ClearIsLast, Journalling \/ JournalFails PROVE Held
  OBVIOUS
<1>1. JournalStep /\ UNCHANGED <<panes, debt, duty, job, up>>
  BY DEF Journalling, JournalFails, JournalStep, Unscaled
<1>2. txn.step \notin {"ready", "thrown"}
  BY DEF Journalling, JournalFails, ReplayEnd, WriteJournal, MarkCommitted, Clear, Finalize,
     Unlink, Replay, Apply, Restore, WriteFails
<1>3. CallSafe' /\ UndoSafe' /\ Kept
  BY <1>1, JournalHolds
<1>4. DebtInOrder'
  BY <1>1, <1>2 DEF PInv, DebtInOrder
<1>5. PaneOfUp'
  BY <1>1 DEF PInv, PaneOfUp
<1> QED
  BY <1>3, <1>4, <1>5 DEF Held

LEMMA DeathsHeld == PInv /\ SInv' /\ ClearIsLast /\ (HolderDies \/ LeaderDies) => Held
<1> SUFFICES ASSUME PInv, SInv', ClearIsLast, HolderDies \/ LeaderDies PROVE Held
  OBVIOUS
<1>1. CASE HolderDies
  <2>1. /\ Crash /\ duty' = Idle /\ UNCHANGED <<panes, debt>>
        /\ job' = NoJob \/ (duty.who # "leader" /\ job' = job)
    BY <1>1 DEF HolderDies
  <2>2. CallSafe' /\ UndoSafe' /\ Kept
    BY <2>1, JournalHolds DEF JournalStep
  <2>3. PaneOfUp'
    BY <2>1, NotUp DEF Idle, UpDoing
  <2>4. DebtInOrder'
    BY <2>1 DEF PInv, DebtInOrder, Idle, NoJob, DownDoing
  <2> QED
    BY <2>2, <2>3, <2>4 DEF Held
<1>2. CASE LeaderDies
  <2>1. UNCHANGED <<jvars, panes, debt, duty, up>> /\ duty.who # "leader" /\ job' = NoJob
    BY <1>2 DEF LeaderDies
  <2>2. UNCHANGED <<disk, journal, txn, call>>
    BY <2>1 DEF jvars
  <2>3. ResolvedMembers' = ResolvedMembers
    BY <2>2, SameResolved DEF ResolvedMembers
  <2>4. CallSafe' /\ UndoSafe' /\ Kept
    BY <2>1, <2>2, <2>3, RestHolds, SameKept
  <2>5. PaneOfUp'
    BY <2>1, <2>2, <2>3 DEF PInv, PaneOfUp
  <2>6. DebtInOrder'
    BY <2>1 DEF PInv, MInv, DownInOrder, DebtInOrder, NoJob, DownDoing
  <2> QED
    BY <2>4, <2>5, <2>6 DEF Held
<1> QED
  BY <1>1, <1>2

-----------------------------------------------------------------------------
(* Every step.                                                                    *)
LEMMA InitPInv == Init => PInv
<1> SUFFICES ASSUME Init PROVE PInv
  OBVIOUS
<1>1. MInv
  BY InitMInv
<1>2. call = NoCall /\ txn.step = "out" /\ duty = Idle /\ job = NoJob
  BY DEF Init, JournalInit, At
<1> QED
  BY <1>1, <1>2 DEF PInv, CallSafe, UndoSafe, DebtInOrder, PaneOfUp, CallStep, Idle, NoJob,
     DownDoing, UpDoing

LEMMA PStep == PInv /\ ClearIsLast /\ [Next]_vars => PInv' /\ Kept
<1> SUFFICES ASSUME PInv, ClearIsLast, [Next]_vars PROVE PInv' /\ Kept
  OBVIOUS
<1>1. MInv' /\ SInv'
  BY MStep DEF PInv, MInv
<1>2. CASE Next
  <2>1. Held
    BY <1>1, <1>2, FinishHeld, TakesHeld, SavesHeld, ReadHeld, BoardHeld, SettleHeld, TargetsHeld,
       RemovalHeld, KillsHeld, PlanHeld, CreateUpHeld, SplitHeld, NumberUpHeld, JoinHeld,
       KillUpHeld, EndsHeld, RollBackHeld, RollHeld, JournallingHeld, DeathsHeld DEF Next
  <2> QED
    BY <1>1, <2>1 DEF Held, PInv
<1>3. CASE UNCHANGED vars
  <2>1. UNCHANGED <<disk, journal, txn, call, panes, debt, duty, job, up>>
    BY <1>3 DEF vars, jvars
  <2>2. ResolvedMembers' = ResolvedMembers
    BY <2>1, SameResolved DEF ResolvedMembers
  <2>3. CallSafe' /\ UndoSafe' /\ Kept
    BY <2>1, <2>2, RestHolds, SameKept
  <2>4. PaneOfUp' /\ DebtInOrder'
    BY <2>1, <2>2 DEF PInv, PaneOfUp, DebtInOrder
  <2> QED
    BY <1>1, <2>3, <2>4 DEF PInv
<1> QED
  BY <1>2, <1>3

(* No live pane that the files or the debt account for stops being accounted for while     *)
(* it lives: not when a process dies between two writes, when a journal is replayed or a    *)
(* scale-up rolled back, nor when a debt is dropped or a kill fails.                     *)
THEOREM NoPaneIsLost ==
  ASSUME ClearIsLast
  PROVE  Spec => NoPaneLost
<1>1. PInv /\ [Next]_vars => PInv'
  BY PStep
<1>2. PInv /\ [Next]_vars => [Accounted \cap panes' \subseteq Accounted']_vars
  BY PStep DEF Kept
<1> QED
  BY <1>1, <1>2, InitPInv, PTL DEF Spec, NoPaneLost
=============================================================================
