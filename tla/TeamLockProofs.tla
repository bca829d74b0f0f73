--------------------------- MODULE TeamLockProofs ---------------------------
(* How far the membership lock excludes, for any number of contenders and of    *)
(* deaths: until a stale-lock recovery removes a lock taken meanwhile, whoever   *)
(* holds the lock is alone.                                                   *)
EXTENDS TeamLock, TLAPS

(* The steps at which a process counts on the directory it made.               *)
Counting == {"made", "owned", "critical", "leaving"}

(* Until something misfires, a process that counts on the directory it made is   *)
(* right: it is there, it is not stale, and it names the process once named.     *)
CountsRightly ==
  \A p \in Process : pc[p] \in Counting =>
    /\ dir.number = mine[p] /\ ~dir.stale
    /\ pc[p] # "made" => dir.owner = p

(* Directories are made by one process each, and numbered as they are made.      *)
MadeOnce ==
  /\ dir.number <= made
  /\ \A p \in Process : mine[p] <= made /\ judged[p] <= made
  /\ \A p, q \in Process : mine[p] = mine[q] /\ mine[p] # 0 => p = q
  /\ \A p \in Process : pc[p] \in Counting \cup {"failed"} => mine[p] # 0

(* A directory that was found stale and is still there is stale.                 *)
JudgedIsStale ==
  \A p \in Process : pc[p] = "judged" =>
    judged[p] # 0 /\ (judged[p] = dir.number => dir.stale)

(* A clean-up follows a write that found no directory, so something misfired.    *)
NoneFailed == \A p \in Process : pc[p] # "failed"

IInv ==
  /\ TypeOK
  /\ MadeOnce
  /\ ~misfired => CountsRightly /\ JudgedIsStale /\ NoneFailed

-----------------------------------------------------------------------------
(* A process moves from one step to another, and only it.                      *)
LEMMA OneGoes ==
  ASSUME TypeOK, NEW p \in Process, NEW from \in Step, NEW to \in Step, Goes(p, from, to)
  PROVE  /\ pc' \in [Process -> Step] /\ pc[p] = from /\ pc'[p] = to
         /\ \A q \in Process : q # p => pc'[q] = pc[q]
BY DEF Goes, TypeOK

(* There is a directory record for no directory.                              *)
LEMMA NoDirFacts ==
  /\ NoDir \in LockDir /\ NoDir.number = 0 /\ ~NoDir.stale /\ NoDir.owner = None
<1>1. 0 \in 0..MaxDir
  BY LockBoundAssumption
<1> QED
  BY <1>1 DEF NoDir, LockDir

(* Initially the invariant holds.                                            *)
LEMMA InitIInv == Init => IInv
<1> SUFFICES ASSUME Init PROVE IInv
  OBVIOUS
<1>1. 0 \in 0..MaxDir /\ 0 \in 0..MaxCrash
  BY LockBoundAssumption
<1>2. TypeOK
  BY <1>1, NoDirFacts DEF Init, TypeOK, Step
<1>3. MadeOnce
  BY NoDirFacts DEF Init, MadeOnce, Counting
<1>4. CountsRightly /\ JudgedIsStale /\ NoneFailed
  BY DEF Init, CountsRightly, JudgedIsStale, NoneFailed, Counting
<1> QED
  BY <1>2, <1>3, <1>4 DEF IInv

(* A removal that did not misfire took away a directory nobody counts on: the    *)
(* remover's own, or one it had found stale.                                   *)
LEMMA RemovalKeeps ==
  ASSUME IInv, NEW p \in Process, NEW from \in {"failed", "judged", "leaving"}, NEW n \in 0..MaxDir,
         Goes(p, from, "trying"), RemoveDir(n),
         from = "judged" => n = judged[p], from # "judged" => n = mine[p],
         UNCHANGED <<made, mine, judged, crashes>>
  PROVE  IInv'
<1> USE DEF IInv
<1>1. /\ pc' \in [Process -> Step] /\ pc[p] = from /\ pc'[p] = "trying"
      /\ \A q \in Process : q # p => pc'[q] = pc[q]
  BY OneGoes DEF Step
<1>2. /\ dir' \in LockDir /\ dir'.number = 0 /\ ~dir'.stale
      /\ misfired' \in BOOLEAN /\ (misfired => misfired')
      /\ (~misfired' /\ dir.number # 0 => dir.number = n)
  BY NoDirFacts DEF RemoveDir, TypeOK, Present
<1>3. TypeOK'
  BY <1>1, <1>2 DEF TypeOK
<1>4. MadeOnce'
  BY <1>1, <1>2, LockBoundAssumption DEF MadeOnce, TypeOK, Counting
<1>5. ASSUME ~misfired'
      PROVE  CountsRightly' /\ JudgedIsStale' /\ NoneFailed'
  <2>1. ~misfired /\ CountsRightly /\ JudgedIsStale /\ NoneFailed
    BY <1>2, <1>5 DEF TypeOK
  <2>2. \A q \in Process : pc'[q] \in Counting => FALSE
    <3> SUFFICES ASSUME NEW q \in Process, pc'[q] \in Counting
                 PROVE  FALSE
      OBVIOUS
    <3>1. q # p /\ pc[q] \in Counting
      BY <1>1 DEF Counting
    <3>2. dir.number = mine[q] /\ ~dir.stale /\ mine[q] # 0 /\ dir.number = n
      BY <1>2, <1>5, <2>1, <3>1 DEF CountsRightly, MadeOnce
    <3>3. CASE from = "judged"
      BY <1>1, <2>1, <3>2, <3>3 DEF JudgedIsStale
    <3>4. CASE from # "judged"
      BY <3>1, <3>2, <3>4 DEF MadeOnce
    <3> QED
      BY <3>3, <3>4
  <2>3. CountsRightly'
    BY <2>2 DEF CountsRightly
  <2>4. JudgedIsStale'
    BY <1>1, <1>2, <2>1 DEF JudgedIsStale
  <2>5. NoneFailed'
    BY <1>1, <2>1 DEF NoneFailed
  <2> QED
    BY <2>3, <2>4, <2>5
<1> QED
  BY <1>3, <1>4, <1>5

(* Every step preserves the invariant.                                       *)
LEMMA StepIInv == IInv /\ [Next]_vars => IInv'
<1> SUFFICES ASSUME IInv, [Next]_vars PROVE IInv'
  OBVIOUS
<1> USE DEF IInv
<1>1. ASSUME NEW p \in Process, MakeDir(p)
      PROVE  IInv'
  <2>1. /\ pc' \in [Process -> Step] /\ pc[p] = "trying" /\ pc'[p] = "made"
        /\ \A q \in Process : q # p => pc'[q] = pc[q]
    BY <1>1, OneGoes DEF MakeDir, Step
  <2>2. made + 1 \in 1..MaxDir /\ made' = made + 1 /\ dir.number = 0
    BY <1>1, LockBoundAssumption DEF MakeDir, TypeOK, Present
  <2>3. dir' \in LockDir /\ dir'.number = made + 1 /\ ~dir'.stale
    <3>1. made + 1 \in 0..MaxDir
      BY <2>2
    <3> QED
      BY <1>1, <3>1, NoDirFacts DEF MakeDir, LockDir, NoDir
  <2>4. /\ mine' \in [Process -> 0..MaxDir] /\ mine'[p] = made + 1
        /\ \A q \in Process : q # p => mine'[q] = mine[q]
    BY <1>1, <2>2 DEF MakeDir, TypeOK
  <2>5. UNCHANGED <<judged, misfired, crashes>>
    BY <1>1 DEF MakeDir
  <2>6. TypeOK'
    BY <2>1, <2>2, <2>3, <2>4, <2>5 DEF TypeOK
  <2>7. MadeOnce'
    BY <2>1, <2>2, <2>3, <2>4, <2>5 DEF MadeOnce, TypeOK, Counting
  <2>8. ASSUME ~misfired
        PROVE  CountsRightly' /\ JudgedIsStale' /\ NoneFailed'
    <3>1. \A q \in Process : pc[q] \notin Counting
      BY <2>2, <2>8 DEF CountsRightly, MadeOnce
    <3>2. CountsRightly'
      BY <2>1, <2>3, <2>4, <3>1 DEF CountsRightly
    <3>3. JudgedIsStale'
      BY <2>1, <2>2, <2>3, <2>5, <2>8 DEF JudgedIsStale, MadeOnce, TypeOK
    <3>4. NoneFailed'
      BY <2>1, <2>8 DEF NoneFailed
    <3> QED
      BY <3>2, <3>3, <3>4
  <2> QED
    BY <2>5, <2>6, <2>7, <2>8
<1>2. ASSUME NEW p \in Process, WriteOwner(p) \/ WriteLease(p)
      PROVE  IInv'
  <2>1. PICK from, to \in Step :
          /\ Goes(p, from, to) /\ from \in {"made", "owned"} /\ to \in {"owned", "critical"}
          /\ from = "owned" => dir'.owner = dir.owner
    BY <1>2 DEF WriteOwner, WriteLease, Step, TypeOK, LockDir
  <2>2. /\ pc' \in [Process -> Step] /\ pc[p] = from /\ pc'[p] = to
        /\ \A q \in Process : q # p => pc'[q] = pc[q]
    BY <2>1, OneGoes
  <2>3. /\ dir' \in LockDir /\ dir'.number = dir.number /\ dir'.number # 0
        /\ (dir'.stale => dir.stale) /\ UNCHANGED <<made, mine, judged, misfired, crashes>>
        /\ (from = "made" => dir'.owner = p)
    BY <1>2, <2>1, <2>2 DEF WriteOwner, WriteLease, TypeOK, LockDir, Present, Goes
  <2>4. TypeOK'
    BY <2>2, <2>3 DEF TypeOK
  <2>5. MadeOnce'
    BY <2>1, <2>2, <2>3 DEF MadeOnce, Counting
  <2>6. ASSUME ~misfired
        PROVE  CountsRightly' /\ JudgedIsStale' /\ NoneFailed'
    <3>1. \A q \in Process : q # p => pc[q] \notin Counting
      BY <2>1, <2>2, <2>6 DEF CountsRightly, MadeOnce, Counting
    <3>2. /\ dir.number = mine[p] /\ ~dir.stale /\ (from = "owned" => dir.owner = p)
      BY <2>1, <2>2, <2>6 DEF CountsRightly, Counting
    <3>3. CountsRightly'
      BY <2>1, <2>2, <2>3, <3>1, <3>2 DEF CountsRightly
    <3>4. JudgedIsStale'
      BY <2>1, <2>2, <2>3, <2>6, <3>2 DEF JudgedIsStale
    <3>5. NoneFailed'
      BY <2>1, <2>2, <2>6 DEF NoneFailed
    <3> QED
      BY <3>3, <3>4, <3>5
  <2> QED
    BY <2>3, <2>4, <2>5, <2>6
<1>3. ASSUME NEW p \in Process, WriteFails(p)
      PROVE  IInv'
  <2>1. PICK from \in Step : Goes(p, from, "failed") /\ from \in {"made", "owned"}
    BY <1>3 DEF WriteFails, Step
  <2>2. /\ pc' \in [Process -> Step] /\ pc[p] = from /\ pc'[p] = "failed"
        /\ \A q \in Process : q # p => pc'[q] = pc[q]
    BY <2>1, OneGoes DEF Step
  <2>3. dir.number = 0 /\ UNCHANGED <<dir, made, mine, judged, misfired, crashes>>
    BY <1>3 DEF WriteFails, Present
  <2>4. misfired
    BY <2>1, <2>2, <2>3 DEF CountsRightly, MadeOnce, Counting
  <2>5. TypeOK'
    BY <2>2, <2>3 DEF TypeOK
  <2>6. MadeOnce'
    BY <2>1, <2>2, <2>3 DEF MadeOnce, Counting
  <2> QED
    BY <2>3, <2>4, <2>5, <2>6
<1>4. ASSUME NEW p \in Process, CleanUp(p)
      PROVE  IInv'
  <2>1. mine[p] \in 0..MaxDir
    BY DEF TypeOK
  <2> QED
    BY <1>4, <2>1, RemovalKeeps DEF CleanUp
<1>5. ASSUME NEW p \in Process, FindStale(p)
      PROVE  IInv'
  <2>1. /\ pc' \in [Process -> Step] /\ pc[p] = "trying" /\ pc'[p] = "judged"
        /\ \A q \in Process : q # p => pc'[q] = pc[q]
    BY <1>5, OneGoes DEF FindStale, Step
  <2>2. /\ dir.number # 0 /\ dir.stale /\ UNCHANGED <<dir, made, mine, misfired, crashes>>
        /\ judged' \in [Process -> 0..MaxDir] /\ judged'[p] = dir.number
        /\ \A q \in Process : q # p => judged'[q] = judged[q]
    BY <1>5 DEF FindStale, Present, Stale, TypeOK, LockDir
  <2>3. TypeOK'
    BY <2>1, <2>2 DEF TypeOK
  <2>4. MadeOnce'
    BY <2>1, <2>2 DEF MadeOnce, Counting
  <2>5. ~misfired => CountsRightly' /\ JudgedIsStale' /\ NoneFailed'
    BY <2>1, <2>2 DEF CountsRightly, JudgedIsStale, NoneFailed, Counting
  <2> QED
    BY <2>2, <2>3, <2>4, <2>5
<1>6. ASSUME NEW p \in Process, RemoveStale(p)
      PROVE  IInv'
  <2>1. judged[p] \in 0..MaxDir
    BY DEF TypeOK
  <2> QED
    BY <1>6, <2>1, RemovalKeeps DEF RemoveStale
<1>7. ASSUME NEW p \in Process, Leave(p) \/ LeaveLost(p) \/ Crash(p)
      PROVE  IInv'
  <2>1. /\ pc' \in [Process -> Step]
        /\ \A q \in Process : q # p => pc'[q] = pc[q]
        /\ \/ pc'[p] \in {"trying", "crashed"}
           \/ pc[p] = "critical" /\ pc'[p] = "leaving"
    BY <1>7 DEF Leave, LeaveLost, Crash, Goes, TypeOK, Step
  <2>2. crashes' \in 0..MaxCrash
    BY <1>7, LockBoundAssumption DEF Leave, LeaveLost, Crash, TypeOK
  <2>3. UNCHANGED <<dir, made, mine, judged, misfired>>
    BY <1>7 DEF Leave, LeaveLost, Crash
  <2>4. TypeOK'
    BY <2>1, <2>2, <2>3 DEF TypeOK
  <2>5. MadeOnce'
    BY <2>1, <2>3 DEF MadeOnce, Counting
  <2>6. ~misfired => CountsRightly' /\ JudgedIsStale' /\ NoneFailed'
    BY <2>1, <2>3 DEF CountsRightly, JudgedIsStale, NoneFailed, Counting
  <2> QED
    BY <2>3, <2>4, <2>5, <2>6
<1>8. ASSUME NEW p \in Process, Release(p)
      PROVE  IInv'
  <2>1. mine[p] \in 0..MaxDir
    BY DEF TypeOK
  <2> QED
    BY <1>8, <2>1, RemovalKeeps DEF Release
<1>9. CASE Expire
  <2>1. /\ dir' \in LockDir /\ dir'.number = dir.number
        /\ UNCHANGED <<made, pc, mine, judged, misfired, crashes>>
        /\ \A p \in Process : ~Refreshed(p)
        /\ dir'.stale
    BY <1>9 DEF Expire, TypeOK, LockDir
  <2>2. TypeOK' /\ MadeOnce'
    BY <2>1 DEF TypeOK, MadeOnce
  <2>3. ~misfired => \A p \in Process : pc[p] \notin Counting
    BY <2>1 DEF IInv, CountsRightly, Counting, Refreshed, InPassing
  <2>4. ~misfired => CountsRightly' /\ JudgedIsStale' /\ NoneFailed'
    BY <2>1, <2>3 DEF IInv, CountsRightly, JudgedIsStale, NoneFailed
  <2> QED
    BY <2>1, <2>2, <2>4 DEF IInv
<1>10. CASE UNCHANGED vars
  BY <1>10 DEF vars, TypeOK, MadeOnce, CountsRightly, JudgedIsStale, NoneFailed
<1> QED
  BY <1>1, <1>2, <1>3, <1>4, <1>5, <1>6, <1>7, <1>8, <1>9, <1>10 DEF Next, Works

(* The invariant holds in every reachable state.                             *)
LEMMA Invariance == Spec => []IInv
BY InitIInv, StepIInv, PTL DEF Spec

(* The types are right.                                                      *)
THEOREM LockTypeCorrect == Spec => []TypeOK
BY Invariance, PTL DEF IInv

(* Until a removal misfires, the holder is alone and its files are in place.     *)
THEOREM HolderIsAlone == Spec => []HolderAloneUnlessMisfired
<1>1. IInv => HolderAloneUnlessMisfired
  BY DEF IInv, HolderAloneUnlessMisfired, CountsRightly, MadeOnce, Critical, Counting
<1> QED
  BY <1>1, Invariance, PTL

(* The first misfire is a stale-lock recovery's.                              *)
THEOREM RecoveryMisfiresFirst == Spec => OnlyRecoveryMisfires
<1>1. ASSUME IInv, [Next]_vars
      PROVE  [~misfired /\ misfired' =>
                \E p \in Process : pc[p] = "judged" /\ pc'[p] = "trying"]_vars
  <2> SUFFICES ASSUME ~misfired, misfired', Next
               PROVE  \E p \in Process : pc[p] = "judged" /\ pc'[p] = "trying"
    BY <1>1 DEF vars, IInv, TypeOK
  <2>1. PICK p \in Process : CleanUp(p) \/ RemoveStale(p) \/ Release(p)
    BY DEF Next, Works, Expire, MakeDir, WriteOwner, WriteLease, WriteFails, FindStale, Leave,
         LeaveLost, Crash
  <2>2. CASE CleanUp(p)
    BY <1>1, <2>2 DEF CleanUp, Goes, IInv, NoneFailed
  <2>3. CASE RemoveStale(p)
    BY <1>1, <2>3 DEF RemoveStale, Goes, IInv, TypeOK
  <2>4. CASE Release(p)
    BY <1>1, <2>4 DEF Release, RemoveDir, Goes, IInv, CountsRightly, Counting
  <2> QED
    BY <2>1, <2>2, <2>3, <2>4
<1> QED
  BY <1>1, Invariance, PTL DEF Spec, OnlyRecoveryMisfires
=============================================================================
