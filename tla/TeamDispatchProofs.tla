------------------------- MODULE TeamDispatchProofs -------------------------
(* What a dispatch request is worth, for any number of requests, messages,      *)
(* hook processes and faults: the lease of a request; and, whatever the         *)
(* event log, requests.json and the journal of receipts disagree about,         *)
(* that a reader of the three is shown a status that only moves forward and     *)
(* that somebody saw happen, that a drain claims only what none of them has an  *)
(* outcome for, and that no outcome is lost with the receipt that bore it out.  *)
EXTENDS TeamDispatch, FiniteSetTheorems, WellFoundedInduction, SequenceTheorems, TLAPS

(* A drain owns the lease of whatever it holds, unless the lease went stale under a   *)
(* drain; an old lease that nobody is recorded to have lost belongs to a dead one.     *)
Held(d, r) == r \in drains[d].todo \/ drains[d].now = r
LeaseInv ==
  /\ drains \in [Drain -> [todo : SUBSET Request, now : Request \cup {Nobody},
                           result : {"none", "confirmed", "unconfirmed", "refused"}]]
  /\ leases \in [Request -> [owner : Drain \cup {Nobody, Dead}, old : BOOLEAN]]
  /\ \A d \in Drain, r \in Request : Held(d, r) => leases[r].owner = d \/ r \in aged
  /\ \A r \in Request : leases[r].old => leases[r].owner = Dead \/ r \in aged
  /\ \A d \in Drain : drains[d].now \notin drains[d].todo

-----------------------------------------------------------------------------

(* At first no drain holds anything.                                           *)
LEMMA LeaseInit == ASSUME Init PROVE LeaseInv
<1> USE DispatchAssumption
<1>1. drains \in [Drain -> [todo : SUBSET Request, now : Request \cup {Nobody},
                            result : {"none", "confirmed", "unconfirmed", "refused"}]]
  BY DEF Init, NoClaims
<1>2. leases \in [Request -> [owner : Drain \cup {Nobody, Dead}, old : BOOLEAN]]
  BY DEF Init, FreeLease
<1>3. \A d \in Drain, r \in Request : ~Held(d, r)
  BY DEF Init, NoClaims, Held
<1>4. \A r \in Request : ~leases[r].old
  BY DEF Init, FreeLease
<1>5. \A d \in Drain : drains[d].now \notin drains[d].todo
  BY DEF Init, NoClaims
<1> QED BY <1>1, <1>2, <1>3, <1>4, <1>5 DEF LeaseInv

(* Whatever leaves drains, leases and the history alone.                         *)
LEMMA LeaseStutter ==
  ASSUME LeaseInv, UNCHANGED <<drains, leases, aged>> PROVE LeaseInv'
BY DEF LeaseInv, Held

(* A drain at rest takes leases that are free or old: what another drain held with an  *)
(* old lease is on record.                                                      *)
LEMMA LeaseTakes ==
  ASSUME LeaseInv, NEW d \in Drain, drains[d] = NoClaims, NEW C \in SUBSET Request,
         \A r \in C : Available(r),
         leases' = [r \in Request |-> IF r \in C THEN [owner |-> d, old |-> FALSE] ELSE leases[r]],
         drains' = [drains EXCEPT ![d].todo = C], aged' = aged
  PROVE  LeaseInv'
<1> USE DispatchAssumption
<1>1. drains' \in [Drain -> [todo : SUBSET Request, now : Request \cup {Nobody},
                             result : {"none", "confirmed", "unconfirmed", "refused"}]]
  BY DEF LeaseInv
<1>2. leases' \in [Request -> [owner : Drain \cup {Nobody, Dead}, old : BOOLEAN]]
  BY DEF LeaseInv
<1>3. ASSUME NEW e \in Drain, NEW r \in Request, Held(e, r)'
      PROVE  leases'[r].owner = e \/ r \in aged'
  <2>1. CASE e = d
    <3>1. r \in C
      BY <1>3, <2>1 DEF Held, NoClaims, LeaseInv
    <3> QED BY <2>1, <3>1
  <2>2. CASE e # d
    <3>1. Held(e, r)
      BY <1>3, <2>2 DEF Held, LeaseInv
    <3>2. leases[r].owner = e \/ r \in aged
      BY <3>1 DEF LeaseInv
    <3>3. CASE r \in C
      BY <3>2, <3>3 DEF LeaseInv, Available
    <3>4. CASE r \notin C
      BY <3>2, <3>4
    <3> QED BY <3>3, <3>4
  <2> QED BY <2>1, <2>2
<1>4. ASSUME NEW r \in Request, leases'[r].old PROVE leases'[r].owner = Dead \/ r \in aged'
  BY <1>4 DEF LeaseInv
<1>5. \A e \in Drain : drains'[e].now \notin drains'[e].todo
  BY DEF LeaseInv, NoClaims
<1> QED BY <1>1, <1>2, <1>3, <1>4, <1>5 DEF LeaseInv

(* A drain lets go of S, and gives up the leases of S that are still its own.         *)
LEMMA LeaseReleased ==
  ASSUME LeaseInv, NEW d \in Drain, NEW S, leases' = Released(d, S), aged' = aged,
         NEW c \in [todo : SUBSET Request, now : Request \cup {Nobody},
                    result : {"none", "confirmed", "unconfirmed", "refused"}],
         drains' = [drains EXCEPT ![d] = c], c.now = Nobody,
         c.todo \subseteq drains[d].todo \ S
  PROVE  LeaseInv'
<1> USE DispatchAssumption
<1>1. drains' \in [Drain -> [todo : SUBSET Request, now : Request \cup {Nobody},
                             result : {"none", "confirmed", "unconfirmed", "refused"}]]
  BY DEF LeaseInv
<1>2. leases' \in [Request -> [owner : Drain \cup {Nobody, Dead}, old : BOOLEAN]]
  BY DEF LeaseInv, Released, FreeLease
<1>3. ASSUME NEW e \in Drain, NEW r \in Request, Held(e, r)'
      PROVE  leases'[r].owner = e \/ r \in aged'
  <2>1. Held(e, r) /\ (e = d => r \notin S)
    BY <1>3 DEF Held, LeaseInv
  <2>2. leases[r].owner = e \/ r \in aged
    BY <2>1 DEF LeaseInv
  <2> QED BY <2>1, <2>2 DEF Released, LeaseInv
<1>4. ASSUME NEW r \in Request, leases'[r].old PROVE leases'[r].owner = Dead \/ r \in aged'
  BY <1>4 DEF LeaseInv, Released, FreeLease
<1>5. \A e \in Drain : drains'[e].now \notin drains'[e].todo
  BY DEF LeaseInv
<1> QED BY <1>1, <1>2, <1>3, <1>4, <1>5 DEF LeaseInv

(* The locked part of a drain.                                                 *)
LEMMA LeaseClaim == ASSUME LeaseInv, NEW d \in Drain, Claim(d) PROVE LeaseInv'
<1>1. drains[d] = NoClaims /\ aged' = aged
  BY DEF Claim, OneOf, DrainOnly
<1>2. CASE UNCHANGED <<leases, drains>>
  BY <1>1, <1>2, LeaseStutter
<1>3. ASSUME NEW shown, NEW C \in SUBSET Claimable(shown), Takes(d, C, shown) PROVE LeaseInv'
  <2>1. C \in SUBSET Request /\ \A r \in C : Available(r)
    BY <1>3 DEF Claimable
  <2> QED BY <1>1, <1>3, <2>1, LeaseTakes DEF Takes
<1> QED BY <1>2, <1>3 DEF Claim

(* Typing into a pane changes no lease.                                         *)
LEMMA LeaseInject == ASSUME LeaseInv, NEW d \in Drain, Inject(d) PROVE LeaseInv'
<1>1. PICK r \in drains[d].todo, result \in {"confirmed", "unconfirmed", "refused"} :
        drains' = [drains EXCEPT ![d] = [todo |-> @.todo \ {r}, now |-> r, result |-> result]]
  BY DEF Inject
<1>2. leases' = leases /\ aged' = aged
  BY DEF Inject
<1>3. r \in Request
  BY DEF LeaseInv
<1>4. drains' \in [Drain -> [todo : SUBSET Request, now : Request \cup {Nobody},
                             result : {"none", "confirmed", "unconfirmed", "refused"}]]
  BY <1>1, <1>3 DEF LeaseInv
<1>5. ASSUME NEW e \in Drain, NEW q \in Request, Held(e, q)' PROVE Held(e, q)
  BY <1>1, <1>5 DEF Held, LeaseInv
<1>6. \A e \in Drain : drains'[e].now \notin drains'[e].todo
  BY <1>1 DEF LeaseInv
<1> QED BY <1>2, <1>4, <1>5, <1>6 DEF LeaseInv

(* The outcome of an injection, and the end of a drain that could not record it.       *)
LEMMA LeaseFinalize == ASSUME LeaseInv, NEW d \in Drain, Finalize(d) PROVE LeaseInv'
<1> USE DispatchAssumption
<1>1. aged' = aged /\ (FinishClaim(d) \/ FinishDrain(d))
  BY DEF Finalize
<1>2. drains[d] \in [todo : SUBSET Request, now : Request \cup {Nobody},
                     result : {"none", "confirmed", "unconfirmed", "refused"}]
  BY DEF LeaseInv
<1>3. CASE FinishDrain(d)
  <2> DEFINE S == drains[d].todo \cup {drains[d].now}
  <2>1. /\ NoClaims \in [todo : SUBSET Request, now : Request \cup {Nobody},
                         result : {"none", "confirmed", "unconfirmed", "refused"}]
        /\ NoClaims.now = Nobody /\ NoClaims.todo \subseteq drains[d].todo \ S
    BY DEF NoClaims
  <2>2. leases' = Released(d, S) /\ drains' = [drains EXCEPT ![d] = NoClaims]
    BY <1>3 DEF FinishDrain
  <2> QED
    <3> HIDE DEF S
    <3> QED BY <1>1, <2>1, <2>2, LeaseReleased
<1>4. CASE FinishClaim(d)
  <2> DEFINE S == {drains[d].now}
             c == [NoClaims EXCEPT !.todo = drains[d].todo]
  <2>1. /\ c \in [todo : SUBSET Request, now : Request \cup {Nobody},
                  result : {"none", "confirmed", "unconfirmed", "refused"}]
        /\ c.now = Nobody /\ c.todo = drains[d].todo
    BY <1>2 DEF NoClaims
  <2>2. c.todo \subseteq drains[d].todo \ S
    BY <2>1 DEF LeaseInv
  <2>3. leases' = Released(d, S) /\ drains' = [drains EXCEPT ![d] = c]
    BY <1>4 DEF FinishClaim
  <2> QED
    <3> HIDE DEF S, c
    <3> QED BY <1>1, <2>1, <2>2, <2>3, LeaseReleased
<1> QED BY <1>1, <1>3, <1>4

(* A drain that dies holds nothing, and its leases are nobody's to release.            *)
LEMMA LeaseDies == ASSUME LeaseInv, NEW d \in Drain, DrainDies(d) PROVE LeaseInv'
<1> USE DispatchAssumption
<1>1. /\ drains' = [drains EXCEPT ![d] = NoClaims] /\ aged' = aged
      /\ leases' = [r \in Request |-> IF leases[r].owner = d THEN [leases[r] EXCEPT !.owner = Dead]
                                      ELSE leases[r]]
  BY DEF DrainDies
<1>2. drains' \in [Drain -> [todo : SUBSET Request, now : Request \cup {Nobody},
                             result : {"none", "confirmed", "unconfirmed", "refused"}]]
  BY <1>1 DEF LeaseInv, NoClaims
<1>3. leases' \in [Request -> [owner : Drain \cup {Nobody, Dead}, old : BOOLEAN]]
  BY <1>1 DEF LeaseInv
<1>4. ASSUME NEW e \in Drain, NEW r \in Request, Held(e, r)'
      PROVE  leases'[r].owner = e \/ r \in aged'
  <2>1. e # d /\ Held(e, r)
    BY <1>1, <1>4 DEF Held, NoClaims, LeaseInv
  <2> QED BY <1>1, <2>1 DEF LeaseInv
<1>5. ASSUME NEW r \in Request, leases'[r].old PROVE leases'[r].owner = Dead \/ r \in aged'
  BY <1>1, <1>5 DEF LeaseInv
<1>6. \A e \in Drain : drains'[e].now \notin drains'[e].todo
  BY <1>1 DEF LeaseInv, NoClaims
<1> QED BY <1>2, <1>3, <1>4, <1>5, <1>6 DEF LeaseInv

(* A lease that ages under a live drain is on record.                               *)
LEMMA LeaseAgesKeeps == ASSUME LeaseInv, NEW r \in Request, LeaseAges(r) PROVE LeaseInv'
<1>1. drains' = drains /\ leases' = [leases EXCEPT ![r].old = TRUE]
  BY DEF LeaseAges
<1>2. aged \subseteq aged' /\ (leases[r].owner = Dead \/ r \in aged')
  BY DEF LeaseAges
<1>3. leases' \in [Request -> [owner : Drain \cup {Nobody, Dead}, old : BOOLEAN]]
  BY <1>1 DEF LeaseInv
<1>4. \A q \in Request : leases'[q].owner = leases[q].owner
  BY <1>1 DEF LeaseInv
<1>5. ASSUME NEW d \in Drain, NEW q \in Request, Held(d, q)'
      PROVE  leases'[q].owner = d \/ q \in aged'
  BY <1>1, <1>2, <1>4, <1>5 DEF Held, LeaseInv
<1>6. ASSUME NEW q \in Request, leases'[q].old PROVE leases'[q].owner = Dead \/ q \in aged'
  BY <1>1, <1>2, <1>4, <1>6 DEF LeaseInv
<1> QED BY <1>1, <1>3, <1>5, <1>6 DEF LeaseInv

(* The leader takes no lease.                                                  *)
LEMMA LeaseLeader == ASSUME LeaseInv, LeaderStep PROVE LeaseInv'
<1>1. UNCHANGED <<drains, leases, aged>>
  BY DEF LeaderStep, Enqueue, ReadReceipt, Fallback, MarkNotified, GiveUp, TransitionToFailed,
         LeaderLeaves, LeaderOnly
<1> QED BY <1>1, LeaseStutter

(* Every step keeps the leases in order.                                          *)
LEMMA LeaseStep == ASSUME LeaseInv, [Next]_vars PROVE LeaseInv'
<1>1. CASE LeaderStep
  BY <1>1, LeaseLeader
<1>2. ASSUME NEW d \in Drain, DrainStep(d) PROVE LeaseInv'
  BY <1>2, LeaseClaim, LeaseInject, LeaseFinalize, LeaseDies DEF DrainStep
<1>3. ASSUME NEW r \in Request, LeaseAges(r) PROVE LeaseInv'
  BY <1>3, LeaseAgesKeeps
<1>4. CASE UNCHANGED vars
  BY <1>4, LeaseStutter DEF vars
<1> QED BY <1>1, <1>2, <1>3, <1>4 DEF Next

(* Two hook processes hold the same request only after its lease went stale under a     *)
(* hook process that was still at work (tryAcquireDispatchRequestLease).               *)
THEOREM OneInjectorPerRequest == Spec => []OneInjector
<1>1. Init => LeaseInv
  BY LeaseInit
<1>2. LeaseInv /\ [Next]_vars => LeaseInv'
  BY LeaseStep
<1>3. LeaseInv => OneInjector
  <2> SUFFICES ASSUME LeaseInv, NEW d \in Drain, NEW e \in Drain, d # e,
                      NEW r \in Claims(d) \cap Claims(e), r # Nobody
               PROVE  r \in aged
    BY DEF OneInjector
  <2>1. r \in Request /\ Held(d, r) /\ Held(e, r)
    BY DEF LeaseInv, Claims, Held
  <2> QED BY <2>1 DEF LeaseInv
<1> QED BY <1>1, <1>2, <1>3, PTL DEF Spec

-----------------------------------------------------------------------------
(* Up to a bound, a set of numbers that has 0 and is closed under successor has   *)
(* every number. The library's induction rules speak of an operator; this one,     *)
(* of a set, is had from the well-foundedness of proper inclusion.                *)
LEMMA FirstOf ==
  ASSUME NEW n \in Nat, NEW Bad \in SUBSET (0..n), Bad # {}
  PROVE  \E i \in Bad : \A j \in Bad : ~(j < i)
<1> DEFINE U == 0..n
           T == {0..i : i \in Bad}
<1>1. IsFiniteSet(U)
  BY FS_Interval
<1>2. T \subseteq SUBSET U /\ T # {}
  <2>1. PICK k : k \in Bad
    OBVIOUS
  <2>2. 0..k \in T
    BY <2>1
  <2>3. ASSUME NEW x \in T PROVE x \subseteq U
    <3>1. PICK i \in Bad : x = 0..i
      OBVIOUS
    <3>2. i \in 0..n
      OBVIOUS
    <3> QED BY <3>1, <3>2
  <2> QED BY <2>2, <2>3
<1>3. PICK x \in T : \A y \in T : ~(<<y, x>> \in StrictSubsetOrdering(U))
  <2> HIDE DEF T, U
  <2>1. IsWellFoundedOn(StrictSubsetOrdering(U), FiniteSubsetsOf(U))
    BY <1>1, FS_StrictSubsetOrderingWellFounded
  <2>2. T \subseteq FiniteSubsetsOf(U)
    BY <1>1, <1>2, FS_Subset DEF FiniteSubsetsOf
  <2> QED BY <1>2, <2>1, <2>2, WFMin
<1>4. PICK i \in Bad : x = 0..i
  BY <1>3
<1>5. ASSUME NEW j \in Bad, j < i PROVE FALSE
  <2>1. 0..j \in T /\ 0..j \subseteq 0..i /\ i \notin 0..j /\ i \in 0..i
    BY <1>5
  <2>2. <<0..j, 0..i>> \in StrictSubsetOrdering(U)
    BY <2>1, <1>2 DEF StrictSubsetOrdering
  <2> QED BY <1>3, <1>4, <2>1, <2>2
<1> QED BY <1>5

(* A set of numbers up to n that has 0 and is closed under successor is all     *)
(* of them.                                                                     *)
LEMMA UpTo ==
  ASSUME NEW n \in Nat, NEW Good \in SUBSET (0..n), 0 \in Good,
         \A i \in 1..n : i - 1 \in Good => i \in Good
  PROVE  Good = 0..n
<1> SUFFICES ASSUME (0..n) \ Good # {} PROVE FALSE
  OBVIOUS
<1>1. PICK i \in (0..n) \ Good : \A j \in (0..n) \ Good : ~(j < i)
  <2> DEFINE Bad == (0..n) \ Good
  <2>1. Bad \in SUBSET (0..n) /\ Bad # {}
    OBVIOUS
  <2> HIDE DEF Bad
  <2>2. \E i \in Bad : \A j \in Bad : ~(j < i)
    BY <2>1, FirstOf
  <2> QED BY <2>2 DEF Bad
<1>2. i \in 1..n /\ i - 1 \in 0..n /\ i - 1 < i
  BY <1>1
<1> QED BY <1>1, <1>2

(* The replay of the journal: there is such a function, so it starts where it      *)
(* says and goes on as it says.                                                 *)
ReplayStart == {[Section EXCEPT !.runtime = IF receipts = <<>> THEN @ ELSE Published(@)]}
ReplayNext(S, i) == UNION {Replay(x, receipts[i]) : x \in S}

(* There is a function that Replayed defines.                                   *)
LEMMA ReplayExists ==
  ASSUME receipts \in Seq(Receipt)
  PROVE  \E f : f = [i \in 0..Len(receipts) |->
                       IF i = 0 THEN ReplayStart ELSE ReplayNext(f[i - 1], i)]
<1> DEFINE n == Len(receipts)
           Upto(f, k) == f = [i \in 0..k |-> IF i = 0 THEN ReplayStart ELSE ReplayNext(f[i - 1], i)]
           Good == {k \in 0..n : \E f : Upto(f, k)}
<1>1. n \in Nat /\ Good \in SUBSET (0..n)
  OBVIOUS
<1>2. 0 \in Good
  <2> DEFINE f == [i \in 0..0 |-> ReplayStart]
  <2>1. \A i \in 0..0 : f[i] = IF i = 0 THEN ReplayStart ELSE ReplayNext(f[i - 1], i)
    OBVIOUS
  <2>2. f = [i \in 0..0 |-> f[i]]
    OBVIOUS
  <2> HIDE DEF f
  <2>3. f = [i \in 0..0 |-> IF i = 0 THEN ReplayStart ELSE ReplayNext(f[i - 1], i)]
    BY <2>1, <2>2, Zenon
  <2>4. Upto(f, 0)
    BY <2>3
  <2> QED BY <1>1, <2>4
<1>3. ASSUME NEW k \in 1..n, k - 1 \in Good PROVE k \in Good
  <2>1. PICK f : Upto(f, k - 1)
    BY <1>3
  <2> DEFINE g == [i \in 0..k |-> IF i <= k - 1 THEN f[i] ELSE ReplayNext(f[k - 1], k)]
  <2>2. \A i \in 0..(k - 1) : f[i] = IF i = 0 THEN ReplayStart ELSE ReplayNext(f[i - 1], i)
    BY <2>1
  <2>3. \A i \in 0..(k - 1) : g[i] = f[i]
    OBVIOUS
  <2>4. g[k] = ReplayNext(f[k - 1], k)
    OBVIOUS
  <2>5. ASSUME NEW i \in 0..k
        PROVE  g[i] = IF i = 0 THEN ReplayStart ELSE ReplayNext(g[i - 1], i)
    <3>1. CASE i = k
      BY <2>3, <2>4, <3>1
    <3>2. CASE i # k
      BY <2>2, <2>3, <3>2
    <3> QED BY <3>1, <3>2
  <2>6. g = [i \in 0..k |-> g[i]]
    OBVIOUS
  <2> HIDE DEF g
  <2>7. g = [i \in 0..k |-> IF i = 0 THEN ReplayStart ELSE ReplayNext(g[i - 1], i)]
    BY <2>5, <2>6, Zenon
  <2>8. Upto(g, k)
    BY <2>7
  <2> QED BY <2>8
<1> HIDE DEF Good, n
<1>4. Good = 0..n
  BY <1>1, <1>2, <1>3, UpTo
<1>5. n \in Good
  BY <1>1, <1>4
<1> QED BY <1>5 DEF Good, n

(* So Replayed starts where it says and goes on as it says.                     *)
LEMMA ReplayUnfolds ==
  ASSUME receipts \in Seq(Receipt)
  PROVE  /\ Replayed[0] = ReplayStart
         /\ \A i \in 1..Len(receipts) : Replayed[i] = ReplayNext(Replayed[i - 1], i)
<1>1. Replayed = [i \in 0..Len(receipts) |->
                    IF i = 0 THEN ReplayStart ELSE ReplayNext(Replayed[i - 1], i)]
  BY ReplayExists DEF Replayed, ReplayStart, ReplayNext
<1>2. Len(receipts) \in Nat
  OBVIOUS
<1> HIDE DEF Replayed
<1> QED BY <1>1, <1>2

(* What the start has and every receipt keeps, the end has.                       *)
LEMMA ReplayKeeps ==
  ASSUME receipts \in Seq(Receipt), NEW X, ReplayStart \subseteq X[0],
         \A i \in 1..Len(receipts) : \A x \in X[i - 1] : Replay(x, receipts[i]) \subseteq X[i]
  PROVE  Reconciled \subseteq X[Len(receipts)]
<1> DEFINE n == Len(receipts)
           Good == {i \in 0..n : Replayed[i] \subseteq X[i]}
<1>1. n \in Nat /\ Good \in SUBSET (0..n)
  OBVIOUS
<1>2. 0 \in Good
  BY <1>1, ReplayUnfolds
<1>3. ASSUME NEW i \in 1..n, i - 1 \in Good PROVE i \in Good
  BY <1>3, ReplayUnfolds DEF ReplayNext
<1> HIDE DEF Good, n
<1>4. Good = 0..n
  BY <1>1, <1>2, <1>3, UpTo
<1>5. n \in Good
  BY <1>1, <1>4
<1> QED BY <1>5 DEF Good, n, Reconciled

-----------------------------------------------------------------------------
(* One request, seen through what the three files have of it: its status in the     *)
(* event log (e) and in the projection (d), status (s) and attempts (a) in          *)
(* requests.json, what it is for (m), and the statuses its receipts bear out (H).    *)
AnyStatusOrNone == Status \cup {"none"}
Final == {"delivered", "failed"}
Outcome == {"notified", "delivered", "failed"}
On(j, r) == {t \in Outcome : HasReceipt(j, r, t)}
See(d, s, H) == IF d = "none" \/ (d \notin Final /\ s \in H) THEN s ELSE d

CanBecome(x, y) ==
  \/ x = y \/ x = "none"
  \/ x = "pending" /\ y # "none"
  \/ x = "notified" /\ y \in Final

(* What the files may disagree about. The projection is behind the log, never aside   *)
(* of it; a request the log has but the projection does not was never shown, so       *)
(* requests.json has nothing of it; a receipt is for a request the log has, a          *)
(* delivery was confirmed before it was recorded, and a failure stays the last word    *)
(* of requests.json until the projection has one.                                 *)
Sane(e, d, s, a, m, H) ==
  /\ CanBecome(d, e)
  /\ d = "none" /\ (e # "none" \/ m = Nobody) => s = "none" /\ a = 0
  /\ m = Nobody => e = "none"
  /\ H # {} => e # "none"
  /\ "delivered" \in H => "notified" \in H
  /\ "failed" \in H => d \in Final \/ s = "failed"
  /\ See(d, s, H) = "pending" => a < MaxAttempts

(* What a step may do to it: forward, with a witness (W) for what it says new, and    *)
(* never open again once the log or the journal closed it.                         *)
Onward(e, d, s, a, H, d2, s2, a2, H2) ==
  /\ Rank(See(d2, s2, H2)) >= Rank(See(d, s, H))
  /\ a2 >= a
  /\ Rank(See(d, s, H)) = 3 /\ See(d2, s2, H2) # See(d, s, H) =>
       /\ e # See(d, s, H)
       /\ \/ e = See(d2, s2, H2)
          \/ See(d2, s2, H2) = "delivered" /\ "delivered" \in H
Witnessed(e, d, s, H, d2, s2, H2, W) ==
  \A t \in {"notified", "delivered"} :
    See(d2, s2, H2) = t \/ t \in H2 => See(d, s, H) = t \/ e = t \/ t \in H \/ t \in W
StaysClosed(e, s, H, e2, s2, H2) ==
  See(e2, s2, H2) = "pending" => See(e, s, H) = "pending"
Allowed(e, d, s, a, H, e2, d2, s2, a2, H2, W) ==
  /\ Onward(e, d, s, a, H, d2, s2, a2, H2)
  /\ Witnessed(e, d, s, H, d2, s2, H2, W)
  /\ StaysClosed(e, s, H, e2, s2, H2)

(* The projection may catch up, and requests.json be written back as it is read.      *)
LEMMA Rewritten ==
  ASSUME NEW e \in AnyStatusOrNone, NEW d \in AnyStatusOrNone, NEW s \in AnyStatusOrNone,
         NEW a \in Nat, NEW m, NEW H \in SUBSET Outcome, Sane(e, d, s, a, m, H),
         NEW d2 \in {d, e}, NEW s2 \in {s, See(d, s, H), See(d2, s, H)}
  PROVE  Sane(e, d2, s2, a, m, H) /\ Allowed(e, d, s, a, H, e, d2, s2, a, H, {})
<1> USE DEF AnyStatusOrNone, Status, Final, Outcome, See, CanBecome, Sane
<1>1. d2 \in AnyStatusOrNone /\ s2 \in AnyStatusOrNone
  OBVIOUS
<1>2. CASE d = "none"
  <2>1. CASE e = "none"
    <3>1. d2 = "none" /\ s2 = s /\ H = {}
      BY <1>2, <2>1
    <3> QED BY <1>2, <2>1, <3>1 DEF Onward, Witnessed, StaysClosed, Allowed, Rank
  <2>2. CASE e # "none"
    <3>1. s = "none" /\ a = 0 /\ s2 \in {"none", d2} /\ See(d, s, H) = "none" /\ See(d2, s, H) = d2
      BY <1>2, <2>2
    <3>2. CASE d2 = "none"
      BY <1>2, <2>2, <3>1, <3>2 DEF Onward, Witnessed, StaysClosed, Allowed, Rank
    <3>3. CASE d2 = e
      <4>1. See(d2, s2, H) = e
        BY <3>1, <3>3
      <4>2. Sane(e, d2, s2, a, m, H)
        BY <1>1, <2>2, <3>1, <3>3, <4>1, DispatchAssumption
      <4> QED BY <1>2, <2>2, <3>1, <3>3, <4>1, <4>2 DEF Onward, Witnessed, StaysClosed, Allowed, Rank
    <3> QED BY <1>2, <3>2, <3>3
  <2> QED BY <2>1, <2>2
<1>3. CASE d \in Final
  BY <1>1, <1>3 DEF Onward, Witnessed, StaysClosed, Allowed, Rank
<1>4. CASE d \in {"pending", "notified"}
  <2>1. Sane(e, d2, s2, a, m, H)
    BY <1>1, <1>4
  <2>2. Onward(e, d, s, a, H, d2, s2, a, H)
    <3>1. CASE s \in H
      BY <1>1, <1>4, <3>1 DEF Onward, Rank
    <3>2. CASE s \notin H
      BY <1>1, <1>4, <3>2 DEF Onward, Rank
    <3> QED BY <3>1, <3>2
  <2>3. Witnessed(e, d, s, H, d2, s2, H, {})
    BY <1>1, <1>4 DEF Witnessed
  <2>4. StaysClosed(e, s, H, e, s2, H)
    BY <1>1, <1>4 DEF StaysClosed
  <2> QED BY <2>1, <2>2, <2>3, <2>4 DEF Allowed
<1> QED BY <1>2, <1>3, <1>4

(* A new request is open and has no attempt behind it.                             *)
LEMMA Created ==
  ASSUME NEW e \in AnyStatusOrNone, NEW d \in AnyStatusOrNone, NEW s \in AnyStatusOrNone,
         NEW a \in Nat, NEW H \in SUBSET Outcome, Sane(e, d, s, a, Nobody, H), NEW m, m # Nobody
  PROVE  /\ e = "none" /\ d = "none" /\ s = "none" /\ a = 0 /\ H = {}
         /\ Sane("pending", "pending", "none", 0, m, {})
         /\ Sane("pending", "none", "none", 0, m, {})
         /\ Sane("none", "none", "pending", 0, m, {})
         /\ Onward("none", "none", "none", 0, {}, "pending", "none", 0, {})
         /\ Onward("none", "none", "none", 0, {}, "none", "none", 0, {})
         /\ Onward("none", "none", "none", 0, {}, "none", "pending", 0, {})
BY DispatchAssumption DEF AnyStatusOrNone, Status, Final, Outcome, See, CanBecome, Sane, Onward, Rank

(* The leader or a drain acts on a request that is shown pending or notified: the log   *)
(* may move on, the projection too, receipts come to the journal; requests.json        *)
(* either stays as it was or has an outcome that nothing, a receipt or the projection  *)
(* bears out.                                                                    *)
LEMMA Handled ==
  ASSUME NEW e \in AnyStatusOrNone, NEW d \in AnyStatusOrNone, NEW s \in AnyStatusOrNone,
         NEW a \in Nat, NEW m, NEW H \in SUBSET Outcome, Sane(e, d, s, a, m, H),
         See(d, s, H) \in {"pending", "notified"},
         NEW e2 \in AnyStatusOrNone, NEW d2 \in AnyStatusOrNone, NEW s2 \in AnyStatusOrNone,
         NEW a2 \in Nat, NEW H2 \in SUBSET Outcome, H \subseteq H2,
         CanBecome(e, e2), CanBecome(d, d2), CanBecome(d2, e2),
         e = "none" => e2 = "none" /\ d2 = "none" /\ H2 = H,
         "delivered" \in H2 => "notified" \in H2,
         "failed" \in H2 => "failed" \in H \/ s2 = "failed",
         \/ s2 = s /\ a2 = a
         \/ /\ a2 = a + 1 /\ s2 \in Outcome /\ Rank(s2) >= Rank(See(d, s, H))
            /\ e = "none" \/ s2 \in H2 \/ d2 = s2
  PROVE  /\ Sane(e2, d2, s2, a2, m, H2)
         /\ Onward(e, d, s, a, H, d2, s2, a2, H2)
         /\ StaysClosed(e, s, H, e2, s2, H2)
BY DEF AnyStatusOrNone, Status, Final, Outcome, See, CanBecome, Sane, Onward,
   StaysClosed, Rank

(* An attempt that was not confirmed, of a request with attempts left.              *)
LEMMA TriedAgain ==
  ASSUME NEW e \in AnyStatusOrNone, NEW d \in AnyStatusOrNone, NEW s \in AnyStatusOrNone,
         NEW a \in Nat, NEW m, NEW H \in SUBSET Outcome, Sane(e, d, s, a, m, H),
         See(d, s, H) = "pending", a + 1 < MaxAttempts
  PROVE  /\ Sane(e, d, "pending", a + 1, m, H)
         /\ Allowed(e, d, s, a, H, e, d, "pending", a + 1, H, {})
BY DEF AnyStatusOrNone, Status, Final, Outcome, See, CanBecome, Sane, Onward, Witnessed,
   StaysClosed, Allowed, Rank

(* Where the replay of its receipts can take a status of the log.                   *)
From(e, x, H) ==
  \/ x = e
  \/ e = "pending" /\ x = "notified" /\ "notified" \in H
  \/ e \in {"pending", "notified"} /\ x \in Final /\ x \in H

(* The whole journal was replayed, and is empty: the log is as far as every receipt.    *)
LEMMA ReplayedAll ==
  ASSUME NEW e \in AnyStatusOrNone, NEW d \in AnyStatusOrNone, NEW s \in AnyStatusOrNone,
         NEW a \in Nat, NEW m, NEW H \in SUBSET Outcome, Sane(e, d, s, a, m, H),
         NEW e2 \in AnyStatusOrNone, From(e, e2, H), \A t \in H : Rank(e2) >= Rank(t),
         NEW s2 \in {s, See(e2, s, {})}
  PROVE  /\ Sane(e2, e2, s2, a, m, {}) /\ Allowed(e, d, s, a, H, e2, e2, s2, a, {}, {})
         /\ See(e2, s, {}) = "pending" => e \in {"none", "pending"} /\ H = {}
<1> USE DEF AnyStatusOrNone, Status, Final, Outcome, See, CanBecome, Sane, From
<1>1. CASE e = "none"
  <2>1. d = "none" /\ e2 = "none" /\ H = {} /\ s2 = s
    BY <1>1
  <2> QED BY <1>1, <2>1 DEF Onward, Witnessed, StaysClosed, Allowed, Rank
<1>2. CASE e # "none"
  <2>1. e2 # "none" /\ See(e2, s2, {}) = e2 /\ See(e2, s, {}) = e2
    BY <1>2
  <2>2. e2 = "pending" => e = "pending" /\ H = {}
    <3>1. H # {} => \E t \in H : Rank(t) >= 2
      BY DEF Rank
    <3> QED BY <1>2, <3>1 DEF Rank
  <2>3. e2 = "pending" => a < MaxAttempts
    BY <1>2, <2>2, DispatchAssumption
  <2>4. Sane(e2, e2, s2, a, m, {})
    BY <1>2, <2>1, <2>3
  <2>5. Onward(e, d, s, a, H, e2, s2, a, {})
    <3>1. CASE d = "none"
      BY <1>2, <2>1, <3>1 DEF Onward, Rank
    <3>2. CASE d # "none" /\ s \in H /\ d \notin Final
      <4>1. See(d, s, H) = s /\ Rank(e2) >= Rank(s)
        BY <3>2
      <4>2. CASE s = "notified"
        BY <1>2, <2>1, <3>2, <4>1, <4>2 DEF Onward, Rank
      <4>3. CASE s \in Final
        <5>1. e2 \in Final
          BY <4>1, <4>3 DEF Rank
        <5>2. s # e2 => e # s /\ (e = e2 \/ (e2 = "delivered" /\ "delivered" \in H))
          BY <1>2, <3>2, <4>3, <5>1
        <5> HIDE DEF See, Sane, From
        <5> QED BY <2>1, <4>1, <4>3, <5>1, <5>2 DEF Onward, Rank
      <4> QED BY <3>2, <4>2, <4>3
    <3>3. CASE d # "none" /\ (s \notin H \/ d \in Final)
      BY <1>2, <2>1, <3>3 DEF Onward, Rank
    <3> QED BY <3>1, <3>2, <3>3
  <2>6. Witnessed(e, d, s, H, e2, s2, {}, {})
    BY <1>2, <2>1 DEF Witnessed
  <2>7. StaysClosed(e, s, H, e2, s2, {})
    BY <1>2, <2>1, <2>2 DEF StaysClosed
  <2> QED BY <2>1, <2>2, <2>4, <2>5, <2>6, <2>7 DEF Allowed
<1> QED BY <1>1, <1>2

(* It was cut short, and starts over next time.                                   *)
LEMMA ReplayedInPart ==
  ASSUME NEW e \in AnyStatusOrNone, NEW d \in AnyStatusOrNone, NEW s \in AnyStatusOrNone,
         NEW a \in Nat, NEW m, NEW H \in SUBSET Outcome, Sane(e, d, s, a, m, H),
         NEW e2 \in AnyStatusOrNone, From(e, e2, H), NEW d2 \in AnyStatusOrNone, From(e, d2, H),
         CanBecome(d2, e2)
  PROVE  Sane(e2, d2, s, a, m, H) /\ Allowed(e, d, s, a, H, e2, d2, s, a, H, {})
<1> USE DEF AnyStatusOrNone, Status, Final, Outcome, See, CanBecome, Sane, From
<1>1. CASE e = "none"
  <2>1. d = "none" /\ e2 = "none" /\ d2 = "none" /\ H = {}
    BY <1>1
  <2> QED BY <1>1, <2>1 DEF Onward, Witnessed, StaysClosed, Allowed, Rank
<1>2. CASE e # "none"
  <2>1. e2 # "none" /\ d2 # "none" /\ (e2 = "pending" => e = "pending")
        /\ (d2 = "pending" => e = "pending")
    BY <1>2
  <2>2. Sane(e2, d2, s, a, m, H)
    <3>1. d2 \in Final => d2 = e \/ d2 \in H
      BY <1>2
    <3>2. See(d2, s, H) = "pending" => a < MaxAttempts
      BY <1>2, <2>1, DispatchAssumption
    <3> QED BY <1>2, <2>1, <3>1, <3>2
  <2>3. Onward(e, d, s, a, H, d2, s, a, H)
    <3>1. CASE d = "none"
      BY <1>2, <2>1, <3>1 DEF Onward, Rank
    <3>2. CASE d # "none" /\ s \in H /\ d \notin Final
      BY <1>2, <2>1, <3>2 DEF Onward, Rank
    <3>3. CASE d # "none" /\ (s \notin H \/ d \in Final)
      BY <1>2, <2>1, <3>3 DEF Onward, Rank
    <3> QED BY <3>1, <3>2, <3>3
  <2>4. Witnessed(e, d, s, H, d2, s, H, {})
    BY <1>2, <2>1 DEF Witnessed
  <2>5. StaysClosed(e, s, H, e2, s, H)
    BY <1>2, <2>1 DEF StaysClosed
  <2> QED BY <2>2, <2>3, <2>4, <2>5 DEF Allowed
<1> QED BY <1>1, <1>2

-----------------------------------------------------------------------------
(* What a section under the dispatch lock can come to.                             *)
Command == {"notify", "deliver", "fail"}
RuntimeType == [events : [Request -> Status \cup {"none"}],
                dispatch : [Request -> Status \cup {"none"}], faults : 0..MaxFaults]
FileEntry == [status : Status \cup {"none"}, attempts : Nat]
SectionType == [runtime : RuntimeType, receipts : Seq(Receipt), answer : {"ok", "transport", "threw"}]

(* A fault changes nothing that is on disk; publishing makes the projection the log.   *)
LEMMA FaultFacts ==
  ASSUME NEW w \in RuntimeType, NEW v \in Fault(w)
  PROVE  v \in RuntimeType /\ v.events = w.events /\ v.dispatch = w.dispatch
<1>1. PICK n \in {w.faults} \ {0} : v = [w EXCEPT !.faults = n - 1]
  BY DEF Fault
<1>2. n \in 0..MaxFaults /\ n # 0
  BY <1>1 DEF RuntimeType
<1>3. PICK k \in 0..MaxFaults : k = n - 1
  BY <1>2, DispatchAssumption
<1> QED BY <1>1, <1>3 DEF RuntimeType

(* Publishing makes the projection the log.                                     *)
LEMMA PublishedFacts ==
  ASSUME NEW w \in RuntimeType
  PROVE  /\ Published(w) \in RuntimeType
         /\ Published(w).events = w.events /\ Published(w).dispatch = w.events
BY DEF Published, RuntimeType

(* A section starts from the files as they are.                                 *)
LEMMA SectionFacts ==
  ASSUME DispatchTypeOK
  PROVE  /\ runtime \in RuntimeType /\ receipts \in Seq(Receipt)
         /\ Section \in SectionType /\ Section.runtime = runtime
         /\ Section.receipts = receipts /\ Section.answer = "ok"
BY DEF DispatchTypeOK, RuntimeType, SectionType, Section

(* What each command makes of which statuses.                                   *)
LEMMA TargetFacts ==
  ASSUME NEW c \in Command
  PROVE  /\ Target(c) \in Outcome /\ Source(c) \subseteq {"pending", "notified"}
         /\ \A t \in Source(c) : CanBecome(t, Target(c))
         /\ Target("notify") = "notified" /\ Source("notify") = {"pending"}
         /\ Target("deliver") = "delivered" /\ Source("deliver") = {"notified"}
         /\ Target("fail") = "failed" /\ Source("fail") = {"pending", "notified"}
BY DEF Command, Target, Source, Outcome, CanBecome, Final

(* A command given to the runtime.                                               *)
LEMMA ExecutesFacts ==
  ASSUME NEW x \in SectionType, NEW c \in Command, NEW r \in Request, NEW y \in Executes(x, c, r)
  PROVE  /\ y \in SectionType /\ y.receipts = x.receipts
         /\ \A q \in Request \ {r} : y.runtime.events[q] = x.runtime.events[q]
         /\ \/ y.runtime.events[r] = x.runtime.events[r]
            \/ x.runtime.events[r] \in Source(c) /\ y.runtime.events[r] = Target(c)
         /\ y.answer = "ok" =>
              /\ x.runtime.events[r] \in Source(c) /\ y.runtime.events[r] = Target(c)
              /\ y.runtime.dispatch = y.runtime.events
         /\ y.answer # "ok" => y.runtime.dispatch = x.runtime.dispatch
         /\ y.answer = "transport" => y.runtime.events = x.runtime.events
<1> DEFINE w == x.runtime
           done == [w EXCEPT !.events[r] = Target(c)]
<1>1. w \in RuntimeType
  BY DEF SectionType
<1>2. Target(c) \in Status \cup {"none"}
  BY TargetFacts DEF Outcome, Status
<1>3. /\ done \in RuntimeType /\ done.dispatch = w.dispatch
      /\ done.events[r] = Target(c) /\ \A q \in Request \ {r} : done.events[q] = w.events[q]
  BY <1>1, <1>2 DEF RuntimeType
<1>4. \/ /\ w.events[r] \in Source(c)
         /\ y = Ended(x, Published(done), "ok") \/ \E v \in Fault(done) : y = Ended(x, v, "threw")
      \/ y = Ended(x, w, "threw")
      \/ \E v \in Fault(w) : y = Ended(x, v, "transport") \/ y = Ended(x, v, "threw")
  BY DEF Executes
<1>5. ASSUME NEW v \in RuntimeType, NEW answer \in {"ok", "transport", "threw"}
      PROVE  /\ Ended(x, v, answer) \in SectionType /\ Ended(x, v, answer).runtime = v
             /\ Ended(x, v, answer).receipts = x.receipts /\ Ended(x, v, answer).answer = answer
  BY DEF Ended, SectionType
<1> HIDE DEF done, w
<1>6. CASE w.events[r] \in Source(c) /\ y = Ended(x, Published(done), "ok")
  BY <1>3, <1>5, <1>6, PublishedFacts DEF w
<1>7. ASSUME w.events[r] \in Source(c), NEW v \in Fault(done), y = Ended(x, v, "threw")
      PROVE  /\ y \in SectionType /\ y.receipts = x.receipts /\ y.answer = "threw"
             /\ y.runtime.events = done.events /\ y.runtime.dispatch = w.dispatch
  BY <1>3, <1>5, <1>7, FaultFacts
<1>8. CASE y = Ended(x, w, "threw")
  BY <1>1, <1>5, <1>8 DEF w
<1>9. ASSUME NEW v \in Fault(w), y = Ended(x, v, "transport") \/ y = Ended(x, v, "threw")
      PROVE  /\ y \in SectionType /\ y.receipts = x.receipts /\ y.answer # "ok"
             /\ y.runtime.events = w.events /\ y.runtime.dispatch = w.dispatch
  BY <1>1, <1>5, <1>9, FaultFacts
<1> QED BY <1>3, <1>4, <1>6, <1>7, <1>8, <1>9 DEF w

(* A command in a section: what it leaves of the files.                             *)
LEMMA ExecFacts ==
  ASSUME NEW x \in SectionType, NEW c \in Command, NEW r \in Request, NEW y \in Exec(x, c, r)
  PROVE  /\ y \in SectionType
         /\ \A q \in Request \ {r} : y.runtime.events[q] = x.runtime.events[q]
         /\ \/ y.runtime.events[r] = x.runtime.events[r]
            \/ x.runtime.events[r] \in Source(c) /\ y.runtime.events[r] = Target(c)
         /\ \/ y.runtime.dispatch = x.runtime.dispatch
            \/ y.runtime.dispatch = y.runtime.events
         /\ \/ y.receipts = x.receipts
            \/ /\ y.receipts = Append(x.receipts, Finalization(c, r))
               /\ y.answer = "transport" /\ x.runtime.events[r] # "none"
         /\ y.answer = "ok" => y.runtime.events[r] = Target(c) /\ y.runtime.dispatch[r] = Target(c)
         /\ y.answer = "transport" =>
              \/ x.runtime.events[r] = "none" /\ y.runtime = x.runtime
              \/ y.receipts = Append(x.receipts, Finalization(c, r))
         /\ x.answer = "threw" => y = x
<1>1. CASE x.answer = "threw"
  BY <1>1 DEF Exec
<1>2. CASE x.answer # "threw" /\ x.runtime.events[r] = "none"
  <2>1. y = [x EXCEPT !.answer = "transport"]
    BY <1>2 DEF Exec, HasIdentity
  <2>2. /\ y \in SectionType /\ y.runtime = x.runtime /\ y.receipts = x.receipts
        /\ y.answer = "transport"
    BY <2>1 DEF SectionType
  <2> QED BY <1>2, <2>2
<1>3. CASE x.answer # "threw" /\ x.runtime.events[r] # "none"
  <2>1. PICK z \in Executes(x, c, r) :
          y = IF z.answer = "transport"
                THEN [z EXCEPT !.receipts = Append(@, Finalization(c, r))] ELSE z
    BY <1>3 DEF Exec, HasIdentity
  <2>2. /\ z \in SectionType /\ z.receipts = x.receipts
        /\ \A q \in Request \ {r} : z.runtime.events[q] = x.runtime.events[q]
        /\ \/ z.runtime.events[r] = x.runtime.events[r]
           \/ x.runtime.events[r] \in Source(c) /\ z.runtime.events[r] = Target(c)
        /\ z.answer = "ok" =>
             /\ x.runtime.events[r] \in Source(c) /\ z.runtime.events[r] = Target(c)
             /\ z.runtime.dispatch = z.runtime.events
        /\ z.answer # "ok" => z.runtime.dispatch = x.runtime.dispatch
        /\ z.answer = "transport" => z.runtime.events = x.runtime.events
    BY ExecutesFacts
  <2>3. CASE z.answer = "transport"
    <3>1. y = [z EXCEPT !.receipts = Append(x.receipts, Finalization(c, r))]
      BY <2>1, <2>2, <2>3 DEF SectionType
    <3>2. Finalization(c, r) \in Receipt
      BY DEF Finalization, Receipt, Command
    <3>3. Append(x.receipts, Finalization(c, r)) \in Seq(Receipt)
      BY <3>2 DEF SectionType
    <3>4. /\ y \in SectionType /\ y.runtime = z.runtime /\ y.answer = "transport"
          /\ y.receipts = Append(x.receipts, Finalization(c, r))
      BY <2>2, <2>3, <3>1, <3>3 DEF SectionType
    <3> QED BY <1>3, <2>2, <2>3, <3>4
  <2>4. CASE z.answer # "transport"
    <3>1. y = z
      BY <2>1, <2>4
    <3> QED BY <1>3, <2>2, <2>4, <3>1
  <2> QED BY <2>3, <2>4
<1> QED BY <1>1, <1>2, <1>3

-----------------------------------------------------------------------------
(* What the journal bears out, and what a reader is shown.                          *)

(* A receipt bears out an outcome, never that a request is pending.             *)
LEMMA ReceiptTarget ==
  ASSUME NEW j \in Seq(Receipt), NEW r, NEW t
  PROVE  HasReceipt(j, r, t) => t \in Outcome /\ t \in On(j, r)
<1> SUFFICES ASSUME HasReceipt(j, r, t) PROVE t \in Outcome
  BY DEF On
<1>1. PICK i \in 1..Len(j) : j[i].request = r /\ Target(j[i].command) = t
  BY DEF HasReceipt
<1>2. j[i] \in Receipt
  OBVIOUS
<1>3. j[i].command \in Command
  BY <1>2 DEF Receipt, Command
<1> QED BY <1>1, <1>3, TargetFacts

(* A receipt that is appended bears out one outcome of one request more.        *)
LEMMA OnAppended ==
  ASSUME NEW j \in Seq(Receipt), NEW c \in Command, NEW r \in Request, NEW q \in Request
  PROVE  /\ Append(j, Finalization(c, r)) \in Seq(Receipt)
         /\ On(Append(j, Finalization(c, r)), q) =
              IF q = r THEN On(j, q) \cup {Target(c)} ELSE On(j, q)
<1> DEFINE f == Finalization(c, r)
           k == Append(j, f)
<1>1. f \in Receipt /\ f.request = r /\ f.command = c
  BY DEF Finalization, Receipt, Command
<1> HIDE DEF f
<1>2. /\ k \in Seq(Receipt) /\ Len(k) = Len(j) + 1 /\ k[Len(j) + 1] = f
      /\ \A i \in 1..Len(j) : k[i] = j[i]
  BY <1>1, AppendProperties
<1> HIDE DEF k
<1>3. ASSUME NEW t PROVE HasReceipt(k, q, t) <=> HasReceipt(j, q, t) \/ (q = r /\ t = Target(c))
  <2>1. ASSUME HasReceipt(k, q, t) PROVE HasReceipt(j, q, t) \/ (q = r /\ t = Target(c))
    <3>1. PICK i \in 1..Len(k) : k[i].request = q /\ Target(k[i].command) = t
      BY <2>1 DEF HasReceipt
    <3>2. CASE i = Len(j) + 1
      BY <1>1, <1>2, <3>1, <3>2
    <3>3. CASE i # Len(j) + 1
      <4>1. i \in 1..Len(j)
        BY <1>2, <3>1, <3>3
      <4> QED BY <1>2, <3>1, <4>1 DEF HasReceipt
    <3> QED BY <3>2, <3>3
  <2>2. ASSUME HasReceipt(j, q, t) PROVE HasReceipt(k, q, t)
    <3>1. PICK i \in 1..Len(j) : j[i].request = q /\ Target(j[i].command) = t
      BY <2>2 DEF HasReceipt
    <3> QED BY <1>2, <3>1 DEF HasReceipt
  <2>3. ASSUME q = r, t = Target(c) PROVE HasReceipt(k, q, t)
    <3>1. Len(j) + 1 \in 1..Len(k)
      BY <1>2
    <3> QED BY <1>1, <1>2, <2>3, <3>1 DEF HasReceipt
  <2> QED BY <2>1, <2>2, <2>3
<1>4. Target(c) \in Outcome
  BY TargetFacts
<1>5. On(k, q) = IF q = r THEN On(j, q) \cup {Target(c)} ELSE On(j, q)
  BY <1>3, <1>4 DEF On
<1> QED BY <1>2, <1>5 DEF k, f

(* An empty journal bears out nothing.                                          *)
LEMMA OnEmpty == \A r : On(<<>>, r) = {}
BY DEF On, HasReceipt

(* The overlay of readDispatchRequests.                                           *)
LEMMA MergedFacts ==
  ASSUME requests \in [Request -> FileEntry], NEW w \in RuntimeType, NEW j \in Seq(Receipt)
  PROVE  /\ Merged(w, j) \in [Request -> FileEntry]
         /\ \A r \in Request :
              /\ Merged(w, j)[r].status = See(w.dispatch[r], requests[r].status, On(j, r))
              /\ Merged(w, j)[r].attempts = requests[r].attempts
<1>1. ASSUME NEW r \in Request
      PROVE  /\ Merged(w, j)[r] \in FileEntry
             /\ Merged(w, j)[r].status = See(w.dispatch[r], requests[r].status, On(j, r))
             /\ Merged(w, j)[r].attempts = requests[r].attempts
  <2>1. w.dispatch[r] \in Status \cup {"none"} /\ requests[r] \in FileEntry
    BY DEF RuntimeType
  <2>2. HasReceipt(j, r, requests[r].status) <=> requests[r].status \in On(j, r)
    BY ReceiptTarget DEF On
  <2>3. CASE w.dispatch[r] = "none" \/ Overlays(w, j, r)
    <3>1. Merged(w, j)[r] = requests[r]
      BY <2>3 DEF Merged
    <3>2. See(w.dispatch[r], requests[r].status, On(j, r)) = requests[r].status
      BY <2>2, <2>3 DEF Overlays, See, Final
    <3> QED BY <2>1, <3>1, <3>2
  <2>4. CASE ~(w.dispatch[r] = "none" \/ Overlays(w, j, r))
    <3>1. Merged(w, j)[r] = [requests[r] EXCEPT !.status = w.dispatch[r]]
      BY <2>4 DEF Merged
    <3>2. See(w.dispatch[r], requests[r].status, On(j, r)) = w.dispatch[r]
      BY <2>2, <2>4 DEF Overlays, See, Final
    <3> QED BY <2>1, <3>1, <3>2 DEF FileEntry
  <2> QED BY <2>3, <2>4
<1>2. Merged(w, j) \in [Request -> FileEntry]
  BY <1>1 DEF Merged
<1> QED BY <1>1, <1>2

-----------------------------------------------------------------------------
(* Every request of the team, and the leader.                                     *)
SaneAt(r) ==
  Sane(runtime.events[r], runtime.dispatch[r], requests[r].status, requests[r].attempts,
       want[r], On(receipts, r))
IsOpen(r) == See(runtime.events[r], requests[r].status, On(receipts, r)) = "pending"

(* No two open requests say the same, in the eyes of the log.                       *)
OneOpen ==
  \A r, q \in Request :
    want[r] # Nobody /\ want[r] = want[q] /\ IsOpen(r) /\ IsOpen(q) => r = q
LeaderBusy == leader.doing # "nothing" => leader.request \in Request

DispatchInv == DispatchTypeOK /\ (\A r \in Request : SaneAt(r)) /\ OneOpen /\ LeaderBusy

AllowedAt(r, W) ==
  Allowed(runtime.events[r], runtime.dispatch[r], requests[r].status, requests[r].attempts,
          On(receipts, r), runtime'.events[r], runtime'.dispatch[r], requests'[r].status,
          requests'[r].attempts, On(receipts', r), W)
OnwardAt(r) ==
  Onward(runtime.events[r], runtime.dispatch[r], requests[r].status, requests[r].attempts,
         On(receipts, r), runtime'.dispatch[r], requests'[r].status, requests'[r].attempts,
         On(receipts', r))
WitnessedAt(r, W) ==
  Witnessed(runtime.events[r], runtime.dispatch[r], requests[r].status, On(receipts, r),
            runtime'.dispatch[r], requests'[r].status, On(receipts', r), W)
ClosedAt(r) ==
  StaysClosed(runtime.events[r], requests[r].status, On(receipts, r), runtime'.events[r],
              requests'[r].status, On(receipts', r))

(* What a step takes from the journal of a request, the log is as far as.              *)
KeptAt(r) ==
  \A t \in On(receipts, r) : t \in On(receipts', r) \/ Rank(runtime'.events[r]) >= Rank(t)

(* Who saw what a step says of a request.                                          *)
Witness(r) == {t \in {"notified", "delivered"} :
                 \/ t = "notified" /\ TypedNow(r)
                 \/ t = "delivered" /\ ConfirmedNow(r)}
StepGood == /\ \A r \in Request : SaneAt(r)' /\ OnwardAt(r) /\ WitnessedAt(r, Witness(r)) /\ KeptAt(r)
            /\ OneOpen'

(* The types, as sections and shown requests have them.                             *)
LEMMA FileTypes ==
  ASSUME DispatchTypeOK
  PROVE  /\ runtime \in RuntimeType /\ receipts \in Seq(Receipt)
         /\ requests \in [Request -> FileEntry] /\ Shown \in [Request -> FileEntry]
         /\ \A r \in Request :
              /\ runtime.events[r] \in AnyStatusOrNone /\ runtime.dispatch[r] \in AnyStatusOrNone
              /\ requests[r].status \in AnyStatusOrNone /\ requests[r].attempts \in Nat
              /\ On(receipts, r) \in SUBSET Outcome
              /\ Shown[r].status = See(runtime.dispatch[r], requests[r].status, On(receipts, r))
              /\ Shown[r].attempts = requests[r].attempts
<1>1. /\ runtime \in RuntimeType /\ receipts \in Seq(Receipt) /\ requests \in [Request -> FileEntry]
  BY DEF DispatchTypeOK, RuntimeType, FileEntry
<1>2. /\ Shown \in [Request -> FileEntry]
      /\ \A r \in Request :
           /\ Shown[r].status = See(runtime.dispatch[r], requests[r].status, On(receipts, r))
           /\ Shown[r].attempts = requests[r].attempts
  BY <1>1, MergedFacts DEF Shown
<1>3. \A r \in Request : runtime.events[r] \in AnyStatusOrNone /\ runtime.dispatch[r] \in AnyStatusOrNone
  BY <1>1 DEF RuntimeType, AnyStatusOrNone
<1>4. \A r \in Request : requests[r].status \in AnyStatusOrNone /\ requests[r].attempts \in Nat
  BY <1>1 DEF FileEntry, AnyStatusOrNone
<1>5. \A r \in Request : On(receipts, r) \in SUBSET Outcome
  BY DEF On
<1> QED BY <1>1, <1>2, <1>3, <1>4, <1>5

(* A request to which nothing is done but that the projection catches up, or            *)
(* requests.json is written back as it is read, before or after that.                  *)
Left(q) ==
  /\ runtime'.events[q] = runtime.events[q]
  /\ runtime'.dispatch[q] \in {runtime.dispatch[q], runtime.events[q]}
  /\ On(receipts', q) = On(receipts, q)
  /\ requests'[q].status \in
       {requests[q].status, See(runtime.dispatch[q], requests[q].status, On(receipts, q)),
        See(runtime'.dispatch[q], requests[q].status, On(receipts, q))}
  /\ requests'[q].attempts = requests[q].attempts
  /\ want'[q] = want[q]

(* A request that a step leaves alone stays sane, and moves as a step may.      *)
LEMMA LeftAlone ==
  ASSUME DispatchTypeOK, NEW q \in Request, SaneAt(q), Left(q)
  PROVE  SaneAt(q)' /\ AllowedAt(q, {})
<1> DEFINE e == runtime.events[q]
           d == runtime.dispatch[q]
           s == requests[q].status
           a == requests[q].attempts
           H == On(receipts, q)
           d2 == runtime'.dispatch[q]
           s2 == requests'[q].status
<1>1. /\ e \in AnyStatusOrNone /\ d \in AnyStatusOrNone /\ s \in AnyStatusOrNone /\ a \in Nat
      /\ H \in SUBSET Outcome
  BY FileTypes
<1>2. Sane(e, d, s, a, want[q], H)
  BY DEF SaneAt
<1>3. d2 \in {d, e} /\ s2 \in {s, See(d, s, H), See(d2, s, H)}
  BY DEF Left
<1>4. /\ runtime'.events[q] = e /\ requests'[q].attempts = a /\ want'[q] = want[q]
      /\ On(receipts', q) = H
  BY DEF Left
<1> HIDE DEF e, d, s, a, H, d2, s2
<1>5. Sane(e, d2, s2, a, want[q], H) /\ Allowed(e, d, s, a, H, e, d2, s2, a, H, {})
  BY <1>1, <1>2, <1>3, Rewritten
<1>6. SaneAt(q)' = Sane(runtime'.events[q], d2, s2, requests'[q].attempts, want'[q], On(receipts', q))
  BY DEF SaneAt, d2, s2
<1>7. AllowedAt(q, {}) = Allowed(e, d, s, a, H, runtime'.events[q], d2, s2, requests'[q].attempts,
                               On(receipts', q), {})
  BY DEF AllowedAt, e, d, s, a, H, d2, s2
<1> QED BY <1>4, <1>5, <1>6, <1>7

(* Every request closed stays closed: at most one is open as before.                  *)
LEMMA StillOneOpen ==
  ASSUME OneOpen, want' = want, \A r \in Request : ClosedAt(r)
  PROVE  OneOpen'
<1>1. \A r \in Request : IsOpen(r)' => IsOpen(r)
  BY DEF ClosedAt, StaysClosed, IsOpen
<1> QED BY <1>1 DEF OneOpen

(* An allowed step with some witness is what StepGood asks, if they were there.         *)
LEMMA AllAllowed ==
  ASSUME OneOpen, want' = want, \A r \in Request : KeptAt(r),
         \A r \in Request : SaneAt(r)' /\ \E W \in SUBSET Witness(r) : AllowedAt(r, W)
  PROVE  StepGood
<1>1. \A r \in Request : SaneAt(r)' /\ OnwardAt(r) /\ WitnessedAt(r, Witness(r)) /\ ClosedAt(r)
  BY DEF AllowedAt, Allowed, OnwardAt, WitnessedAt, Witnessed, ClosedAt
<1> QED BY <1>1, StillOneOpen DEF StepGood

-----------------------------------------------------------------------------
(* What every step does to the three files and to what requests are for: types here,   *)
(* and StepGood.                                                                *)
FilesTypeOK ==
  /\ runtime \in RuntimeType /\ want \in [Request -> Message \cup {Nobody}]
  /\ requests \in [Request -> FileEntry] /\ receipts \in Seq(Receipt)
FilesGood == FilesTypeOK' /\ StepGood

(* A step that moves nothing but the projection, and maybe writes requests.json back.    *)
LEMMA Quiet ==
  ASSUME DispatchInv, runtime' \in RuntimeType, runtime'.events = runtime.events,
         runtime'.dispatch \in {runtime.dispatch, runtime.events}, receipts' = receipts,
         want' = want, requests' \in {requests, Shown}
  PROVE  FilesGood
<1>1. DispatchTypeOK /\ OneOpen /\ \A q \in Request : SaneAt(q)
  BY DEF DispatchInv
<1>2. FilesTypeOK'
  <2>1. requests' \in [Request -> FileEntry] /\ receipts' \in Seq(Receipt)
    BY <1>1, FileTypes
  <2>2. want' \in [Request -> Message \cup {Nobody}]
    BY <1>1 DEF DispatchTypeOK
  <2> QED BY <2>1, <2>2 DEF FilesTypeOK
<1>3. ASSUME NEW q \in Request PROVE Left(q)
  BY <1>1, FileTypes DEF Left
<1>4. \A q \in Request : SaneAt(q)' /\ AllowedAt(q, {})
  BY <1>1, <1>3, LeftAlone
<1>5. \A q \in Request : KeptAt(q)
  BY DEF KeptAt
<1>6. StepGood
  BY <1>1, <1>4, <1>5, AllAllowed
<1> QED BY <1>2, <1>6 DEF FilesGood

(* A section that acts on one request only, whose other requests the files have as       *)
(* before.                                                                      *)
Spares(x, r) ==
  /\ x \in SectionType
  /\ \A q \in Request \ {r} :
       /\ x.runtime.events[q] = runtime.events[q]
       /\ x.runtime.dispatch[q] \in {runtime.dispatch[q], runtime.events[q]}
       /\ On(x.receipts, q) = On(receipts, q)

(* A section about one request leaves the others alone.                         *)
LEMMA OthersLeft ==
  ASSUME DispatchTypeOK, NEW r \in Request, NEW x, Spares(x, r), runtime' = x.runtime,
         receipts' = x.receipts, want' = want,
         \A q \in Request \ {r} : requests'[q] \in {requests[q], Shown[q], Merged(x.runtime, x.receipts)[q]}
  PROVE  \A q \in Request \ {r} : Left(q)
<1> SUFFICES ASSUME NEW q \in Request \ {r} PROVE Left(q)
  OBVIOUS
<1>1. x.runtime \in RuntimeType /\ x.receipts \in Seq(Receipt)
  BY DEF Spares, SectionType
<1>2. /\ Merged(x.runtime, x.receipts)[q].status =
           See(x.runtime.dispatch[q], requests[q].status, On(x.receipts, q))
      /\ Merged(x.runtime, x.receipts)[q].attempts = requests[q].attempts
  BY <1>1, FileTypes, MergedFacts
<1>3. /\ Shown[q].status = See(runtime.dispatch[q], requests[q].status, On(receipts, q))
      /\ Shown[q].attempts = requests[q].attempts
  BY FileTypes
<1>4. /\ x.runtime.events[q] = runtime.events[q] /\ On(x.receipts, q) = On(receipts, q)
      /\ x.runtime.dispatch[q] \in {runtime.dispatch[q], runtime.events[q]}
  BY DEF Spares
<1> QED BY <1>2, <1>3, <1>4 DEF Left

(* If it treats the one as it should, it treats all so.                              *)
LEMMA OneTreated ==
  ASSUME DispatchInv, FilesTypeOK', want' = want, NEW r \in Request,
         \A q \in Request \ {r} : Left(q),
         SaneAt(r)', OnwardAt(r), WitnessedAt(r, Witness(r)), ClosedAt(r), KeptAt(r)
  PROVE  FilesGood
<1>1. DispatchTypeOK /\ OneOpen /\ \A q \in Request : SaneAt(q)
  BY DEF DispatchInv
<1>2. ASSUME NEW q \in Request \ {r}
      PROVE  SaneAt(q)' /\ OnwardAt(q) /\ WitnessedAt(q, Witness(q)) /\ ClosedAt(q) /\ KeptAt(q)
  <2>1. SaneAt(q)' /\ AllowedAt(q, {})
    BY <1>1, LeftAlone
  <2>2. KeptAt(q)
    BY DEF Left, KeptAt
  <2> QED BY <2>1, <2>2 DEF AllowedAt, Allowed, OnwardAt, WitnessedAt, Witnessed, ClosedAt
<1>3. OneOpen'
  BY <1>1, <1>2, StillOneOpen
<1> QED BY <1>2, <1>3 DEF FilesGood, StepGood

-----------------------------------------------------------------------------
(* What commands about a request make of it, when what they claim is in T: the log and   *)
(* the projection go forward, and whatever is new anywhere is in T.                   *)
Reached(x, r, T) ==
  /\ Spares(x, r)
  /\ CanBecome(runtime.events[r], x.runtime.events[r])
  /\ CanBecome(runtime.dispatch[r], x.runtime.dispatch[r])
  /\ CanBecome(x.runtime.dispatch[r], x.runtime.events[r])
  /\ x.runtime.events[r] \in {runtime.events[r]} \cup T
  /\ x.runtime.dispatch[r] \in {runtime.dispatch[r], runtime.events[r]} \cup T
  /\ On(receipts, r) \subseteq On(x.receipts, r)
  /\ On(x.receipts, r) \subseteq On(receipts, r) \cup T
  /\ runtime.events[r] = "none" =>
       /\ x.runtime.events[r] = "none" /\ x.runtime.dispatch[r] = "none"
       /\ On(x.receipts, r) = On(receipts, r)

(* A section that has given no command yet has changed nothing.                 *)
LEMMA ReachedFirst ==
  ASSUME DispatchInv, NEW r \in Request, NEW T PROVE Reached(Section, r, T)
<1>1. SaneAt(r) /\ DispatchTypeOK
  BY DEF DispatchInv
<1>2. Spares(Section, r)
  BY <1>1, SectionFacts DEF Spares
<1>3. CanBecome(runtime.dispatch[r], runtime.events[r])
  BY <1>1 DEF SaneAt, Sane
<1>4. runtime.events[r] = "none" => runtime.dispatch[r] = "none"
  BY <1>3 DEF CanBecome, Final
<1> QED BY <1>1, <1>2, <1>3, <1>4, SectionFacts DEF Reached, CanBecome

(* What a status can become goes one way.                                        *)
LEMMA CanBecomeFurther ==
  ASSUME NEW s, NEW t, NEW u, CanBecome(s, t), CanBecome(t, u) PROVE CanBecome(s, u)
BY DEF CanBecome, Final

(* One command more.                                                            *)
LEMMA ReachedNext ==
  ASSUME NEW r \in Request, NEW T, NEW c \in Command, Target(c) \in T,
         NEW x, Reached(x, r, T), NEW y \in Exec(x, c, r)
  PROVE  Reached(y, r, T) /\ On(x.receipts, r) \subseteq On(y.receipts, r)
<1>1. x \in SectionType
  BY DEF Reached, Spares
<1> DEFINE e == x.runtime.events[r]
           e2 == y.runtime.events[r]
<1>2. /\ y \in SectionType
      /\ \A q \in Request \ {r} : y.runtime.events[q] = x.runtime.events[q]
      /\ e2 = e \/ (e \in Source(c) /\ e2 = Target(c))
      /\ \/ y.runtime.dispatch = x.runtime.dispatch
         \/ y.runtime.dispatch = y.runtime.events
      /\ \/ y.receipts = x.receipts
         \/ y.receipts = Append(x.receipts, Finalization(c, r)) /\ e # "none"
  BY <1>1, ExecFacts
<1>3. x.receipts \in Seq(Receipt)
  BY <1>1 DEF SectionType
<1>4. ASSUME NEW q \in Request
      PROVE  \/ On(y.receipts, q) = On(x.receipts, q)
             \/ q = r /\ e # "none" /\ On(y.receipts, q) = On(x.receipts, q) \cup {Target(c)}
  <2>1. CASE y.receipts = x.receipts
    BY <2>1
  <2>2. CASE y.receipts = Append(x.receipts, Finalization(c, r)) /\ e # "none"
    BY <1>3, <2>2, OnAppended
  <2> QED BY <1>2, <2>1, <2>2
<1>5. CanBecome(e, e2) /\ (e = "none" => e2 = "none")
  BY <1>2, TargetFacts DEF CanBecome
<1>6. CanBecome(runtime.events[r], e2)
  BY <1>5, CanBecomeFurther DEF Reached
<1>7. y.runtime.dispatch[r] \in {x.runtime.dispatch[r], e2}
  BY <1>2
<1>8. CanBecome(x.runtime.dispatch[r], e2)
  BY <1>5, CanBecomeFurther DEF Reached
<1>9. CanBecome(runtime.dispatch[r], e2)
  BY <1>8, CanBecomeFurther DEF Reached
<1>10. Spares(y, r)
  <2> SUFFICES ASSUME NEW q \in Request \ {r}
               PROVE  /\ y.runtime.events[q] = runtime.events[q]
                      /\ y.runtime.dispatch[q] \in {runtime.dispatch[q], runtime.events[q]}
                      /\ On(y.receipts, q) = On(receipts, q)
    BY <1>2 DEF Spares
  <2> QED BY <1>2, <1>4 DEF Reached, Spares
<1>11. e2 \in {runtime.events[r]} \cup T
  BY <1>2 DEF Reached
<1>12. /\ CanBecome(runtime.dispatch[r], y.runtime.dispatch[r])
       /\ CanBecome(y.runtime.dispatch[r], e2)
       /\ y.runtime.dispatch[r] \in {runtime.dispatch[r], runtime.events[r]} \cup T
  <2>1. CASE y.runtime.dispatch[r] = e2
    BY <1>9, <1>11, <2>1 DEF CanBecome
  <2>2. CASE y.runtime.dispatch[r] = x.runtime.dispatch[r]
    BY <1>8, <2>2 DEF Reached
  <2> QED BY <1>7, <2>1, <2>2
<1>13. /\ On(receipts, r) \subseteq On(y.receipts, r) /\ On(x.receipts, r) \subseteq On(y.receipts, r)
       /\ On(y.receipts, r) \subseteq On(receipts, r) \cup T
  BY <1>4 DEF Reached
<1>14. runtime.events[r] = "none" =>
         e2 = "none" /\ y.runtime.dispatch[r] = "none" /\ On(y.receipts, r) = On(receipts, r)
  BY <1>4, <1>5, <1>7 DEF Reached
<1> QED BY <1>6, <1>10, <1>11, <1>12, <1>13, <1>14 DEF Reached

(* A command that did not throw is on record, in the projection or in the journal.       *)
LEMMA Recorded ==
  ASSUME NEW r \in Request, NEW c \in Command, NEW x \in SectionType, NEW y \in Exec(x, c, r)
  PROVE  /\ y.answer = "transport" =>
              x.runtime.events[r] = "none" \/ Target(c) \in On(y.receipts, r)
         /\ y.answer = "ok" => y.runtime.dispatch[r] = Target(c)
         /\ y.answer # "transport" => y.receipts = x.receipts
<1>1. /\ y.answer = "ok" => y.runtime.dispatch[r] = Target(c)
      /\ y.receipts = x.receipts \/ y.answer = "transport"
      /\ y.answer = "transport" =>
           \/ x.runtime.events[r] = "none"
           \/ y.receipts = Append(x.receipts, Finalization(c, r))
  BY ExecFacts
<1>2. x.receipts \in Seq(Receipt)
  BY DEF SectionType
<1>3. Target(c) \in On(Append(x.receipts, Finalization(c, r)), r)
  BY <1>2, OnAppended
<1> QED BY <1>1, <1>3

(* What is new was said by who saw it.                                             *)
LEMMA Attested ==
  ASSUME NEW e, NEW d, NEW s, NEW H, NEW d2, NEW s2, NEW H2, NEW T, NEW W,
         d2 \in {d, e} \cup T, H \subseteq H2, H2 \subseteq H \cup T,
         s2 = s \/ (s2 \in T /\ (s2 \in H2 \/ d2 = s2 \/ d = "none")),
         CanBecome(d, d2), T \cap {"notified", "delivered"} \subseteq W
  PROVE  Witnessed(e, d, s, H, d2, s2, H2, W)
<1> SUFFICES ASSUME NEW t \in {"notified", "delivered"}, See(d2, s2, H2) = t \/ t \in H2,
                    t \notin H, t \notin T
             PROVE  See(d, s, H) = t \/ e = t
  BY DEF Witnessed
<1>1. See(d2, s2, H2) = t /\ t \notin H2
  OBVIOUS
<1>2. CASE d2 = t
  <2>1. d = t \/ e = t
    BY <1>2
  <2>2. ASSUME d = t PROVE See(d, s, H) = t \/ (s \in H /\ t = "notified")
    BY <2>2 DEF See, Final
  <2>3. ASSUME d = t, s \in H, t = "notified", s # t PROVE FALSE
    <3>1. s2 \in H2 => See(d2, s2, H2) = s2
      BY <1>2, <2>3 DEF See, Final
    <3>2. s2 # s
      BY <1>1, <2>3, <3>1
    <3> QED BY <1>1, <1>2, <2>3, <3>1, <3>2 DEF See, Final
  <2> QED BY <2>1, <2>2, <2>3 DEF See, Final
<1>3. CASE d2 # t
  <2>1. s2 = t /\ d2 = "none"
    BY <1>1, <1>3 DEF See
  <2>2. s = t /\ d = "none"
    BY <2>1 DEF CanBecome, Final
  <2> QED BY <2>2 DEF See
<1> QED BY <1>2, <1>3

(* The leader or a drain has acted on a request that was shown pending or notified.      *)
LEMMA Acted ==
  ASSUME DispatchInv, NEW r \in Request, Shown[r].status \in {"pending", "notified"},
         NEW T \in SUBSET Outcome, T \cap {"notified", "delivered"} \subseteq Witness(r),
         NEW x, Reached(x, r, T), runtime' = x.runtime, receipts' = x.receipts, want' = want,
         requests' \in [Request -> FileEntry],
         \A q \in Request \ {r} : requests'[q] \in {requests[q], Shown[q], Merged(x.runtime, x.receipts)[q]},
         "delivered" \in On(x.receipts, r) => "notified" \in On(x.receipts, r),
         "failed" \in On(x.receipts, r) =>
           "failed" \in On(receipts, r) \/ requests'[r].status = "failed",
         \/ requests'[r] = requests[r]
         \/ /\ requests'[r].attempts = Shown[r].attempts + 1
            /\ requests'[r].status \in T /\ Rank(requests'[r].status) >= Rank(Shown[r].status)
            /\ \/ runtime.events[r] = "none" \/ requests'[r].status \in On(x.receipts, r)
               \/ x.runtime.dispatch[r] = requests'[r].status
  PROVE  FilesGood
<1> DEFINE e == runtime.events[r]
           d == runtime.dispatch[r]
           s == requests[r].status
           a == requests[r].attempts
           H == On(receipts, r)
           e2 == x.runtime.events[r]
           d2 == x.runtime.dispatch[r]
           s2 == requests'[r].status
           a2 == requests'[r].attempts
           H2 == On(x.receipts, r)
<1>1. DispatchTypeOK /\ SaneAt(r)
  BY DEF DispatchInv
<1>2. x \in SectionType /\ x.runtime \in RuntimeType
  BY DEF Reached, Spares, SectionType
<1>3. FilesTypeOK'
  <2>1. want' \in [Request -> Message \cup {Nobody}]
    BY <1>1 DEF DispatchTypeOK
  <2>2. receipts' \in Seq(Receipt)
    BY <1>2 DEF SectionType
  <2> QED BY <1>2, <2>1, <2>2 DEF FilesTypeOK
<1>4. \A q \in Request \ {r} : Left(q)
  BY <1>1, OthersLeft DEF Reached
<1>5. /\ e \in AnyStatusOrNone /\ d \in AnyStatusOrNone /\ s \in AnyStatusOrNone /\ a \in Nat
      /\ H \in SUBSET Outcome
      /\ Shown[r].status = See(d, s, H) /\ Shown[r].attempts = a
  BY <1>1, FileTypes
<1>6. /\ e2 \in AnyStatusOrNone /\ d2 \in AnyStatusOrNone /\ H2 \in SUBSET Outcome
      /\ s2 \in AnyStatusOrNone /\ a2 \in Nat
  <2>1. e2 \in AnyStatusOrNone /\ d2 \in AnyStatusOrNone
    BY <1>2 DEF RuntimeType, AnyStatusOrNone
  <2>2. H2 \in SUBSET Outcome
    BY DEF On
  <2>3. s2 \in AnyStatusOrNone /\ a2 \in Nat
    BY DEF FileEntry, AnyStatusOrNone
  <2> QED BY <2>1, <2>2, <2>3
<1>7. Sane(e, d, s, a, want[r], H)
  BY <1>1 DEF SaneAt
<1>8. /\ CanBecome(e, e2) /\ CanBecome(d, d2) /\ CanBecome(d2, e2) /\ H \subseteq H2
      /\ e = "none" => e2 = "none" /\ d2 = "none" /\ H2 = H
      /\ d2 \in {d, e} \cup T /\ H2 \subseteq H \cup T
  BY DEF Reached
<1>9. See(d, s, H) \in {"pending", "notified"}
  BY <1>5
<1>10. \/ s2 = s /\ a2 = a
       \/ /\ a2 = a + 1 /\ s2 \in T /\ s2 \in Outcome /\ Rank(s2) >= Rank(See(d, s, H))
          /\ e = "none" \/ s2 \in H2 \/ d2 = s2
  BY <1>5
<1>11. /\ "delivered" \in H2 => "notified" \in H2
       /\ "failed" \in H2 => "failed" \in H \/ s2 = "failed"
  OBVIOUS
<1>12. runtime'.events[r] = e2 /\ runtime'.dispatch[r] = d2 /\ On(receipts', r) = H2 /\ want'[r] = want[r]
  OBVIOUS
<1>13. /\ SaneAt(r)' = Sane(runtime'.events[r], runtime'.dispatch[r], s2, a2, want'[r], On(receipts', r))
       /\ OnwardAt(r) = Onward(e, d, s, a, H, runtime'.dispatch[r], s2, a2, On(receipts', r))
       /\ WitnessedAt(r, Witness(r)) =
            Witnessed(e, d, s, H, runtime'.dispatch[r], s2, On(receipts', r), Witness(r))
       /\ ClosedAt(r) = StaysClosed(e, s, H, runtime'.events[r], s2, On(receipts', r))
  BY DEF SaneAt, OnwardAt, WitnessedAt, ClosedAt
<1> HIDE DEF e, d, s, a, H, e2, d2, s2, a2, H2
<1>14. /\ Sane(e2, d2, s2, a2, want[r], H2) /\ Onward(e, d, s, a, H, d2, s2, a2, H2)
       /\ StaysClosed(e, s, H, e2, s2, H2)
  BY <1>5, <1>6, <1>7, <1>8, <1>9, <1>10, <1>11, Handled
<1>15. e = "none" => d = "none"
  BY <1>7 DEF Sane, CanBecome, Final
<1>16. Witnessed(e, d, s, H, d2, s2, H2, Witness(r))
  BY <1>8, <1>10, <1>15, Attested
<1>17. SaneAt(r)' /\ OnwardAt(r) /\ WitnessedAt(r, Witness(r)) /\ ClosedAt(r)
  BY <1>12, <1>13, <1>14, <1>16
<1>18. KeptAt(r)
  BY <1>8, <1>12 DEF KeptAt, H
<1> QED BY <1>3, <1>4, <1>17, <1>18, OneTreated

-----------------------------------------------------------------------------
(* Steps that leave every request alone, but for a fault.                            *)
LEMMA OnlyFaults ==
  ASSUME DispatchInv, UNCHANGED files, runtime' = runtime \/ runtime' \in Fault(runtime)
  PROVE  FilesGood
<1>1. runtime \in RuntimeType
  BY FileTypes DEF DispatchInv
<1>2. /\ runtime' \in RuntimeType /\ runtime'.events = runtime.events
      /\ runtime'.dispatch = runtime.dispatch
  <2>1. CASE runtime' = runtime
    BY <1>1, <2>1
  <2>2. CASE runtime' \in Fault(runtime)
    BY <1>1, <2>2, FaultFacts
  <2> QED BY <2>1, <2>2
<1>3. receipts' = receipts /\ want' = want /\ requests' = requests
  BY DEF files
<1> QED BY <1>2, <1>3, Quiet

(* The steps that write none of the three files.                                *)
LEMMA Asides ==
  ASSUME DispatchInv,
         \/ ReadReceipt \/ Fallback \/ GiveUp \/ LeaderLeaves
         \/ \E d \in Drain : Inject(d) \/ DrainDies(d)
         \/ \E r \in Request : LeaseAges(r)
         \/ UNCHANGED vars
  PROVE  FilesGood
<1>1. UNCHANGED files /\ (runtime' = runtime \/ runtime' \in Fault(runtime))
  BY DEF ReadReceipt, Fallback, GiveUp, LeaderLeaves, Inject, DrainDies, LeaseAges, DrainOnly,
     vars, files
<1> QED BY <1>1, OnlyFaults

(* The leader reads its notification off the pane it typed into.                     *)
LEMMA MarkGood == ASSUME DispatchInv, MarkNotified PROVE FilesGood
<1> DEFINE r == leader.request
<1>1. /\ DispatchTypeOK /\ leader.doing = "mark" /\ r \in Request /\ want' = want
      /\ SaneAt(r)
  BY DEF DispatchInv, MarkNotified, LeaderBusy
<1>2. CASE Shown[r].status # "pending"
  <2>1. UNCHANGED files /\ runtime' = runtime
    BY <1>1, <1>2 DEF MarkNotified, files
  <2> QED BY <2>1, OnlyFaults
<1>3. CASE Shown[r].status = "pending"
  <2>1. PICK x \in Exec(Section, "notify", r) :
          /\ runtime' = x.runtime /\ receipts' = x.receipts
          /\ requests' = IF x.answer = "transport" THEN Moved(x, r, "notified") ELSE requests
    BY <1>3 DEF MarkNotified
  <2> DEFINE T == {"notified"}
  <2>2. "notify" \in Command /\ Target("notify") = "notified"
    BY TargetFacts DEF Command
  <2>3. Reached(x, r, T)
    BY <1>1, <2>2, ReachedFirst, ReachedNext
  <2>4. x.runtime \in RuntimeType /\ x.receipts \in Seq(Receipt)
    BY <2>3 DEF Reached, Spares, SectionType
  <2>5. Merged(x.runtime, x.receipts) \in [Request -> FileEntry] /\ requests \in [Request -> FileEntry]
        /\ Shown \in [Request -> FileEntry]
    BY <1>1, <2>4, FileTypes, MergedFacts
  <2>6. Shown[r].attempts + 1 \in Nat
    BY <1>1, <2>5 DEF FileEntry
  <2>7. [status |-> "notified", attempts |-> Shown[r].attempts + 1] \in FileEntry
    BY <2>6 DEF FileEntry, Status
  <2>8. /\ requests' \in [Request -> FileEntry]
        /\ \A q \in Request \ {r} : requests'[q] \in {requests[q], Merged(x.runtime, x.receipts)[q]}
        /\ \/ requests'[r] = requests[r]
           \/ /\ x.answer = "transport"
              /\ requests'[r] = [status |-> "notified", attempts |-> Shown[r].attempts + 1]
    <3>1. CASE x.answer = "transport"
      <4>1. requests' = [Merged(x.runtime, x.receipts) EXCEPT
                           ![r] = [status |-> "notified", attempts |-> Shown[r].attempts + 1]]
        BY <2>1, <3>1 DEF Moved
      <4> HIDE DEF r
      <4> QED BY <1>1, <2>5, <2>7, <3>1, <4>1
    <3>2. CASE x.answer # "transport"
      BY <2>1, <2>5, <3>2
    <3> QED BY <3>1, <3>2
  <2>9. x.answer = "transport" => runtime.events[r] = "none" \/ "notified" \in On(x.receipts, r)
    BY <1>1, <2>1, <2>2, SectionFacts, Recorded
  <2>10. On(x.receipts, r) \subseteq On(receipts, r) \cup T /\ On(receipts, r) \subseteq On(x.receipts, r)
    BY <2>3 DEF Reached
  <2>11. "delivered" \in On(receipts, r) => "notified" \in On(receipts, r)
    BY <1>1 DEF SaneAt, Sane
  <2>12. T \in SUBSET Outcome /\ T \cap {"notified", "delivered"} \subseteq Witness(r)
    BY <1>1 DEF Outcome, Witness, TypedNow
  <2>13. Rank("notified") >= Rank(Shown[r].status)
    BY <1>3 DEF Rank
  <2> HIDE DEF T, r
  <2>14. "delivered" \in On(x.receipts, r) => "notified" \in On(x.receipts, r)
    BY <2>10, <2>11 DEF T
  <2>15. "failed" \in On(x.receipts, r) => "failed" \in On(receipts, r)
    BY <2>10 DEF T
  <2>16. \/ requests'[r] = requests[r]
         \/ /\ requests'[r].attempts = Shown[r].attempts + 1
            /\ requests'[r].status \in T /\ Rank(requests'[r].status) >= Rank(Shown[r].status)
            /\ runtime.events[r] = "none" \/ requests'[r].status \in On(x.receipts, r)
    BY <2>8, <2>9, <2>13 DEF T
  <2> QED BY <1>1, <1>3, <2>1, <2>3, <2>8, <2>12, <2>14, <2>15, <2>16, Acted
<1> QED BY <1>2, <1>3

(* An attempt is written into requests.json as a section read it.                    *)
LEMMA Written ==
  ASSUME DispatchTypeOK, NEW r \in Request, NEW M \in [Request -> FileEntry], NEW t \in Status,
         requests' = [M EXCEPT ![r] = [status |-> t, attempts |-> Shown[r].attempts + 1]]
  PROVE  /\ requests' \in [Request -> FileEntry]
         /\ requests'[r].status = t /\ requests'[r].attempts = Shown[r].attempts + 1
         /\ \A q \in Request \ {r} : requests'[q] = M[q]
<1>1. Shown[r].attempts \in Nat
  BY FileTypes DEF FileEntry
<1> DEFINE entry == [status |-> t, attempts |-> Shown[r].attempts + 1]
<1>2. entry \in FileEntry /\ entry.status = t /\ entry.attempts = Shown[r].attempts + 1
  BY <1>1 DEF FileEntry
<1> HIDE DEF entry
<1>3. requests' = [M EXCEPT ![r] = entry]
  BY DEF entry
<1> QED BY <1>2, <1>3

(* The leader gives a request up.                                                 *)
LEMMA FailGood == ASSUME DispatchInv, TransitionToFailed PROVE FilesGood
<1> DEFINE r == leader.request
           Fails1 == Shown[r].status = leader.from /\ CanFail(Shown[r].status)
<1>1. /\ DispatchTypeOK /\ r \in Request /\ want' = want /\ SaneAt(r)
  BY DEF DispatchInv, TransitionToFailed, LeaderBusy
<1>2. CASE ~Fails1
  <2>1. /\ runtime' = runtime /\ receipts' = receipts /\ requests' \in {requests, Shown}
    BY <1>2 DEF TransitionToFailed
  <2>2. runtime \in RuntimeType
    BY <1>1, FileTypes
  <2> QED BY <1>1, <2>1, <2>2, Quiet
<1>3. CASE Fails1
  <2>1. PICK x \in Exec(Section, "fail", r) :
          /\ runtime' = x.runtime /\ receipts' = x.receipts
          /\ requests' = IF x.answer = "threw" THEN requests ELSE Moved(x, r, "failed")
    BY <1>3 DEF TransitionToFailed
  <2>2. Shown[r].status \in {"pending", "notified"}
    BY <1>3 DEF CanFail
  <2> DEFINE T == {"failed"}
  <2>3. "fail" \in Command /\ Target("fail") = "failed"
    BY TargetFacts DEF Command
  <2>4. Reached(x, r, T)
    BY <1>1, <2>3, ReachedFirst, ReachedNext
  <2>5. x.runtime \in RuntimeType /\ x.receipts \in Seq(Receipt) /\ x.answer \in {"ok", "transport", "threw"}
    BY <2>4 DEF Reached, Spares, SectionType
  <2>6. Merged(x.runtime, x.receipts) \in [Request -> FileEntry] /\ requests \in [Request -> FileEntry]
    BY <1>1, <2>5, FileTypes, MergedFacts
  <2>7. /\ requests' \in [Request -> FileEntry]
        /\ \A q \in Request \ {r} : requests'[q] \in {requests[q], Merged(x.runtime, x.receipts)[q]}
        /\ \/ requests'[r] = requests[r] /\ x.answer = "threw"
           \/ /\ x.answer # "threw" /\ requests'[r].status = "failed"
              /\ requests'[r].attempts = Shown[r].attempts + 1
    <3>1. CASE x.answer = "threw"
      BY <2>1, <2>6, <3>1
    <3>2. CASE x.answer # "threw"
      <4>1. requests' = [Merged(x.runtime, x.receipts) EXCEPT
                           ![r] = [status |-> "failed", attempts |-> Shown[r].attempts + 1]]
        BY <2>1, <3>2 DEF Moved
      <4> HIDE DEF r
      <4> QED BY <1>1, <2>6, <3>2, <4>1, Written DEF Status
    <3> QED BY <3>1, <3>2
  <2>8. /\ \/ x.answer = "threw" \/ runtime.events[r] = "none"
           \/ "failed" \in On(x.receipts, r) \/ x.runtime.dispatch[r] = "failed"
        /\ x.answer = "threw" => x.receipts = receipts
    BY <1>1, <2>1, <2>3, <2>5, SectionFacts, Recorded
  <2>9. On(x.receipts, r) \subseteq On(receipts, r) \cup T /\ On(receipts, r) \subseteq On(x.receipts, r)
    BY <2>4 DEF Reached
  <2>10. "delivered" \in On(receipts, r) => "notified" \in On(receipts, r)
    BY <1>1 DEF SaneAt, Sane
  <2>11. T \in SUBSET Outcome /\ T \cap {"notified", "delivered"} \subseteq Witness(r)
    BY DEF Outcome
  <2>12. Rank("failed") >= Rank(Shown[r].status)
    BY <2>2 DEF Rank
  <2> HIDE DEF T, r
  <2>13. "delivered" \in On(x.receipts, r) => "notified" \in On(x.receipts, r)
    BY <2>9, <2>10 DEF T
  <2>14. "failed" \in On(x.receipts, r) => "failed" \in On(receipts, r) \/ requests'[r].status = "failed"
    BY <2>7, <2>8
  <2>15. \/ requests'[r] = requests[r]
         \/ /\ requests'[r].attempts = Shown[r].attempts + 1
            /\ requests'[r].status \in T /\ Rank(requests'[r].status) >= Rank(Shown[r].status)
            /\ \/ runtime.events[r] = "none" \/ requests'[r].status \in On(x.receipts, r)
               \/ x.runtime.dispatch[r] = requests'[r].status
    BY <2>7, <2>8, <2>12 DEF T
  <2> QED BY <1>1, <2>1, <2>2, <2>4, <2>7, <2>11, <2>13, <2>14, <2>15, Acted
<1> QED BY <1>2, <1>3

(* A confirmed delivery: its receipts are in the journal before the runtime hears of it.   *)
LEMMA Confirmed ==
  ASSUME DispatchInv, NEW r \in Request, NEW y \in Confirms(r)
  PROVE  /\ Reached(y, r, {"notified", "delivered"})
         /\ runtime.events[r] = "none" \/ {"notified", "delivered"} \subseteq On(y.receipts, r)
<1> DEFINE T == {"notified", "delivered"}
           told == IF HasIdentity(runtime, r)
                     THEN [Section EXCEPT !.receipts =
                             @ \o <<Finalization("notify", r), Finalization("deliver", r)>>]
                     ELSE Section
<1>1. DispatchTypeOK
  BY DEF DispatchInv
<1>2. /\ "notify" \in Command /\ Target("notify") = "notified"
      /\ "deliver" \in Command /\ Target("deliver") = "delivered"
  BY TargetFacts DEF Command
<1>3. Reached(told, r, T) /\ (runtime.events[r] = "none" \/ T \subseteq On(told.receipts, r))
  <2>1. CASE ~HasIdentity(runtime, r)
    BY <2>1, ReachedFirst DEF HasIdentity
  <2>2. CASE HasIdentity(runtime, r)
    <3> DEFINE one == Append(receipts, Finalization("notify", r))
               two == Append(one, Finalization("deliver", r))
    <3>1. one \in Seq(Receipt) /\ two \in Seq(Receipt)
      BY <1>1, <1>2, SectionFacts, OnAppended
    <3>2. \A q \in Request :
            /\ On(one, q) = IF q = r THEN On(receipts, q) \cup {"notified"} ELSE On(receipts, q)
            /\ On(two, q) = IF q = r THEN On(one, q) \cup {"delivered"} ELSE On(one, q)
      <4>1. receipts \in Seq(Receipt)
        BY <1>1, SectionFacts
      <4> SUFFICES ASSUME NEW q \in Request
                   PROVE  /\ On(one, q) = IF q = r THEN On(receipts, q) \cup {"notified"}
                                          ELSE On(receipts, q)
                          /\ On(two, q) = IF q = r THEN On(one, q) \cup {"delivered"}
                                          ELSE On(one, q)
        OBVIOUS
      <4>2. On(one, q) = IF q = r THEN On(receipts, q) \cup {"notified"} ELSE On(receipts, q)
        BY <1>2, <4>1, OnAppended
      <4> HIDE DEF one
      <4>3. On(two, q) = IF q = r THEN On(one, q) \cup {"delivered"} ELSE On(one, q)
        BY <1>2, <3>1, OnAppended
      <4> QED BY <4>2, <4>3
    <3>3. two = receipts \o <<Finalization("notify", r), Finalization("deliver", r)>>
      <4>1. receipts \in Seq(Receipt)
        BY <1>1, SectionFacts
      <4>2. Finalization("notify", r) \in Receipt /\ Finalization("deliver", r) \in Receipt
        BY DEF Finalization, Receipt
      <4> QED BY <4>1, <4>2
    <3> HIDE DEF one, two
    <3>4. told = [Section EXCEPT !.receipts = two]
      BY <1>1, <2>2, <3>3, SectionFacts DEF SectionType
    <3>5. /\ told \in SectionType /\ told.runtime = runtime /\ told.receipts = two
      BY <1>1, <3>1, <3>4, SectionFacts DEF SectionType
    <3> HIDE DEF told
    <3>6. Reached(Section, r, T)
      BY ReachedFirst
    <3>7. Section.runtime = runtime /\ Section.receipts = receipts
      BY <1>1, SectionFacts
    <3>8. On(told.receipts, r) = On(receipts, r) \cup T
      BY <3>2, <3>5
    <3>9. Spares(told, r)
      BY <3>2, <3>5 DEF Spares
    <3>10. runtime.events[r] # "none"
      BY <2>2 DEF HasIdentity
    <3> QED BY <3>5, <3>6, <3>7, <3>8, <3>9, <3>10 DEF Reached
  <2> QED BY <2>1, <2>2
<1>4. PICK x \in Exec(told, "notify", r) : y \in Exec(x, "deliver", r)
  BY DEF Confirms
<1> HIDE DEF told
<1>5. Reached(x, r, T) /\ On(told.receipts, r) \subseteq On(x.receipts, r)
  BY <1>2, <1>3, ReachedNext
<1>6. Reached(y, r, T) /\ On(x.receipts, r) \subseteq On(y.receipts, r)
  BY <1>2, <1>4, <1>5, ReachedNext
<1> QED BY <1>3, <1>5, <1>6

(* The attempt was not confirmed, and there are attempts left.                        *)
LEMMA PendingAgain ==
  ASSUME DispatchInv, NEW r \in Request, Shown[r].status = "pending",
         Shown[r].attempts + 1 < MaxAttempts, UNCHANGED <<runtime, receipts, want>>,
         requests' \in [Request -> FileEntry], requests'[r].status = "pending",
         requests'[r].attempts = Shown[r].attempts + 1,
         \A q \in Request \ {r} : requests'[q] \in {requests[q], Shown[q]}
  PROVE  FilesGood
<1> DEFINE e == runtime.events[r]
           d == runtime.dispatch[r]
           s == requests[r].status
           a == requests[r].attempts
           H == On(receipts, r)
<1>1. DispatchTypeOK /\ SaneAt(r)
  BY DEF DispatchInv
<1>2. /\ e \in AnyStatusOrNone /\ d \in AnyStatusOrNone /\ s \in AnyStatusOrNone /\ a \in Nat
      /\ H \in SUBSET Outcome
      /\ Shown[r].status = See(d, s, H) /\ Shown[r].attempts = a
  BY <1>1, FileTypes
<1>3. Sane(e, d, s, a, want[r], H)
  BY <1>1 DEF SaneAt
<1>4. requests'[r].status = "pending" /\ requests'[r].attempts = a + 1
  BY <1>2
<1>5. /\ SaneAt(r)' = Sane(runtime'.events[r], runtime'.dispatch[r], requests'[r].status,
                          requests'[r].attempts, want'[r], On(receipts', r))
      /\ AllowedAt(r, {}) =
           Allowed(e, d, s, a, H, runtime'.events[r], runtime'.dispatch[r], requests'[r].status,
                   requests'[r].attempts, On(receipts', r), {})
  BY DEF SaneAt, AllowedAt
<1>6. /\ runtime'.events[r] = e /\ runtime'.dispatch[r] = d /\ On(receipts', r) = H
      /\ want'[r] = want[r]
  OBVIOUS
<1>7. Reached(Section, r, {})
  BY ReachedFirst
<1>8. \A q \in Request \ {r} : Left(q)
  BY <1>1, <1>7, SectionFacts, OthersLeft DEF Reached
<1>9. FilesTypeOK'
  <2>1. runtime \in RuntimeType /\ receipts \in Seq(Receipt)
    BY <1>1, FileTypes
  <2>2. want \in [Request -> Message \cup {Nobody}]
    BY <1>1 DEF DispatchTypeOK
  <2> QED BY <2>1, <2>2 DEF FilesTypeOK
<1> HIDE DEF e, d, s, a, H
<1>10. Sane(e, d, "pending", a + 1, want[r], H) /\ Allowed(e, d, s, a, H, e, d, "pending", a + 1, H, {})
  BY <1>2, <1>3, TriedAgain
<1>11. SaneAt(r)' /\ AllowedAt(r, {})
  BY <1>4, <1>5, <1>6, <1>10
<1>12. OnwardAt(r) /\ WitnessedAt(r, Witness(r)) /\ ClosedAt(r)
  BY <1>11 DEF AllowedAt, Allowed, OnwardAt, WitnessedAt, Witnessed, ClosedAt
<1>13. KeptAt(r)
  BY DEF KeptAt
<1> QED BY <1>8, <1>9, <1>11, <1>12, <1>13, OneTreated

(* A drain writes down what came of a request it injected.                             *)
LEMMA FinalizeGood == ASSUME DispatchInv, NEW d \in Drain, Finalize(d) PROVE FilesGood
<1> DEFINE r == drains[d].now
           result == drains[d].result
           attempts == Shown[r].attempts + 1
           status == Ends(r, result, attempts)
<1>1. DispatchTypeOK /\ want' = want /\ r \in Request
  BY DEF DispatchInv, Finalize, DrainOnly, DispatchTypeOK
<1>2. SaneAt(r)
  BY <1>1 DEF DispatchInv
<1>3. CASE ~StillPending(r)
  <2>1. UNCHANGED files /\ runtime' = runtime
    BY <1>1, <1>3 DEF Finalize, files
  <2> QED BY <2>1, OnlyFaults
<1>4. CASE StillPending(r)
  <2>1. PICK x \in Commands(r, status) :
          /\ runtime' = x.runtime /\ receipts' = x.receipts
          /\ IF x.answer = "threw" THEN requests' = requests
             ELSE requests' = [Shown EXCEPT ![r] = [status |-> status, attempts |-> attempts]]
    BY <1>4 DEF Finalize
  <2>2. Shown[r].status = "pending" /\ Shown \in [Request -> FileEntry] /\ requests \in [Request -> FileEntry]
    BY <1>1, <1>4, FileTypes DEF StillPending
  <2>3. \/ status = "delivered" /\ result = "confirmed"
        \/ status = "pending" /\ attempts < MaxAttempts
        \/ status = "failed"
    BY DEF Ends
  <2> HIDE DEF r, result, status
  <2>4. /\ requests' \in [Request -> FileEntry]
        /\ \A q \in Request \ {r} : requests'[q] \in {requests[q], Shown[q]}
        /\ \/ requests'[r] = requests[r] /\ x.answer = "threw"
           \/ /\ x.answer # "threw" /\ requests'[r].status = status
              /\ requests'[r].attempts = Shown[r].attempts + 1
    <3>1. CASE x.answer = "threw"
      BY <2>1, <2>2, <3>1
    <3>2. CASE x.answer # "threw"
      <4>1. requests' = [Shown EXCEPT ![r] = [status |-> status, attempts |-> Shown[r].attempts + 1]]
        BY <2>1, <3>2
      <4>2. status \in Status
        BY <2>3 DEF Status
      <4> QED BY <1>1, <2>2, <3>2, <4>1, <4>2, Written
    <3> QED BY <3>1, <3>2
  <2>5. "delivered" \in On(receipts, r) => "notified" \in On(receipts, r)
    BY <1>2 DEF SaneAt, Sane
  <2>6. Rank("delivered") >= Rank(Shown[r].status) /\ Rank("failed") >= Rank(Shown[r].status)
    BY <2>2 DEF Rank
  <2>7. CASE status = "delivered" /\ result = "confirmed"
    <3> DEFINE T == {"notified", "delivered"}
    <3>1. x \in Confirms(r)
      BY <2>1, <2>7 DEF Commands
    <3>2. /\ Reached(x, r, T)
          /\ runtime.events[r] = "none" \/ T \subseteq On(x.receipts, r)
      BY <1>1, <3>1, Confirmed
    <3>3. T \in SUBSET Outcome /\ T \subseteq Witness(r)
      BY <2>7 DEF Outcome, Witness, TypedNow, ConfirmedNow, r, result
    <3>4. "delivered" \in On(x.receipts, r) => "notified" \in On(x.receipts, r)
      <4>1. runtime.events[r] = "none" => On(x.receipts, r) = On(receipts, r)
        BY <3>2 DEF Reached
      <4> QED BY <2>5, <3>2, <4>1
    <3>5. "failed" \in On(x.receipts, r) => "failed" \in On(receipts, r)
      BY <3>2 DEF Reached
    <3>6. \/ requests'[r] = requests[r]
          \/ /\ requests'[r].attempts = Shown[r].attempts + 1
             /\ requests'[r].status \in T /\ Rank(requests'[r].status) >= Rank(Shown[r].status)
             /\ runtime.events[r] = "none" \/ requests'[r].status \in On(x.receipts, r)
      BY <2>4, <2>6, <2>7, <3>2
    <3> HIDE DEF T
    <3> QED BY <1>1, <2>1, <2>2, <2>4, <3>2, <3>3, <3>4, <3>5, <3>6, Acted
  <2>8. CASE status = "failed"
    <3> DEFINE T == {"failed"}
    <3>1. x \in Exec(Section, "fail", r)
      BY <2>1, <2>8 DEF Commands
    <3>2. "fail" \in Command /\ Target("fail") = "failed"
      BY TargetFacts DEF Command
    <3>3. Reached(x, r, T)
      BY <1>1, <3>1, <3>2, ReachedFirst, ReachedNext
    <3>4. x.answer \in {"ok", "transport", "threw"}
      BY <3>3 DEF Reached, Spares, SectionType
    <3>5. /\ \/ x.answer = "threw" \/ runtime.events[r] = "none"
             \/ "failed" \in On(x.receipts, r) \/ x.runtime.dispatch[r] = "failed"
          /\ x.answer = "threw" => x.receipts = receipts
      BY <1>1, <3>1, <3>2, <3>4, SectionFacts, Recorded
    <3>6. On(x.receipts, r) \subseteq On(receipts, r) \cup T /\ On(receipts, r) \subseteq On(x.receipts, r)
      BY <3>3 DEF Reached
    <3>7. T \in SUBSET Outcome /\ T \cap {"notified", "delivered"} \subseteq Witness(r)
      BY DEF Outcome
    <3> HIDE DEF T
    <3>8. "delivered" \in On(x.receipts, r) => "notified" \in On(x.receipts, r)
      BY <2>5, <3>6 DEF T
    <3>9. "failed" \in On(x.receipts, r) => "failed" \in On(receipts, r) \/ requests'[r].status = "failed"
      BY <2>4, <2>8, <3>5
    <3>10. \/ requests'[r] = requests[r]
           \/ /\ requests'[r].attempts = Shown[r].attempts + 1
              /\ requests'[r].status \in T /\ Rank(requests'[r].status) >= Rank(Shown[r].status)
              /\ \/ runtime.events[r] = "none" \/ requests'[r].status \in On(x.receipts, r)
                 \/ x.runtime.dispatch[r] = requests'[r].status
      BY <2>4, <2>6, <2>8, <3>5 DEF T
    <3> QED BY <1>1, <2>1, <2>2, <2>4, <3>3, <3>7, <3>8, <3>9, <3>10, Acted
  <2>9. CASE status = "pending" /\ attempts < MaxAttempts
    <3>1. x = Section /\ x.runtime = runtime /\ x.receipts = receipts /\ x.answer = "ok"
      BY <1>1, <2>1, <2>9, SectionFacts DEF Commands
    <3>2. /\ runtime' = runtime /\ receipts' = receipts
          /\ requests'[r].status = "pending" /\ requests'[r].attempts = Shown[r].attempts + 1
      BY <2>1, <2>4, <2>9, <3>1
    <3>3. Shown[r].attempts + 1 < MaxAttempts
      BY <2>9
    <3> QED BY <1>1, <2>2, <2>4, <3>2, <3>3, PendingAgain
  <2> QED BY <2>3, <2>7, <2>8, <2>9
<1> QED BY <1>3, <1>4

(* The leader's fresh look at the runtime shows requests as the log has them: without     *)
(* authority the log has none, and then the projection has none either.                  *)
LEMMA RefreshedFacts ==
  ASSUME DispatchInv
  PROVE  /\ Refreshed \in RuntimeType /\ Refreshed.events = runtime.events
         /\ Refreshed.dispatch \in {runtime.dispatch, runtime.events}
         /\ Merged(Refreshed, receipts) \in [Request -> FileEntry]
         /\ \A r \in Request :
              /\ Refreshed.dispatch[r] = runtime.events[r]
              /\ Merged(Refreshed, receipts)[r].status =
                   See(runtime.events[r], requests[r].status, On(receipts, r))
              /\ Merged(Refreshed, receipts)[r].attempts = requests[r].attempts
<1>1. /\ DispatchTypeOK /\ runtime \in RuntimeType /\ receipts \in Seq(Receipt)
      /\ requests \in [Request -> FileEntry]
  BY FileTypes DEF DispatchInv
<1>2. /\ Refreshed \in RuntimeType /\ Refreshed.events = runtime.events
      /\ Refreshed.dispatch \in {runtime.dispatch, runtime.events}
      /\ HasAuthority(runtime) => Refreshed.dispatch = runtime.events
      /\ ~HasAuthority(runtime) => Refreshed = runtime
  BY <1>1, PublishedFacts DEF Refreshed
<1>3. ASSUME NEW r \in Request PROVE Refreshed.dispatch[r] = runtime.events[r]
  <2>1. CASE HasAuthority(runtime)
    BY <1>2, <2>1
  <2>2. CASE ~HasAuthority(runtime)
    <3>1. runtime.events[r] = "none" /\ Refreshed = runtime
      BY <1>2, <2>2 DEF HasAuthority
    <3>2. CanBecome(runtime.dispatch[r], runtime.events[r])
      BY DEF DispatchInv, SaneAt, Sane
    <3> QED BY <3>1, <3>2 DEF CanBecome, Final
  <2> QED BY <2>1, <2>2
<1>4. /\ Merged(Refreshed, receipts) \in [Request -> FileEntry]
      /\ \A r \in Request :
           /\ Merged(Refreshed, receipts)[r].status =
                See(Refreshed.dispatch[r], requests[r].status, On(receipts, r))
           /\ Merged(Refreshed, receipts)[r].attempts = requests[r].attempts
  BY <1>1, <1>2, MergedFacts
<1> QED BY <1>2, <1>3, <1>4

(* A request is opened for a message that has no open one.                             *)
LEMMA Opened ==
  ASSUME DispatchInv, NEW m \in Message, NEW r \in Request, want[r] = Nobody,
         want' = [want EXCEPT ![r] = m], \A q \in Request : IsOpen(q) => want[q] # m,
         receipts' = receipts, runtime' \in RuntimeType, requests' \in [Request -> FileEntry],
         \A q \in Request \ {r} : Left(q),
         \/ /\ runtime'.events[r] = "pending" /\ runtime'.dispatch[r] \in {"pending", "none"}
            /\ requests'[r] = requests[r]
         \/ /\ runtime'.events[r] = "none" /\ runtime'.dispatch[r] = "none"
            /\ requests'[r] = [status |-> "pending", attempts |-> 0]
  PROVE  FilesGood
<1> DEFINE e == runtime.events[r]
           d == runtime.dispatch[r]
           s == requests[r].status
           a == requests[r].attempts
           H == On(receipts, r)
           e2 == runtime'.events[r]
           d2 == runtime'.dispatch[r]
           s2 == requests'[r].status
           a2 == requests'[r].attempts
<1>1. DispatchTypeOK /\ OneOpen /\ \A q \in Request : SaneAt(q)
  BY DEF DispatchInv
<1>2. m # Nobody /\ Nobody \notin Message
  BY DispatchAssumption
<1>3. /\ e \in AnyStatusOrNone /\ d \in AnyStatusOrNone /\ s \in AnyStatusOrNone /\ a \in Nat
      /\ H \in SUBSET Outcome
  BY <1>1, FileTypes
<1>4. Sane(e, d, s, a, Nobody, H)
  BY <1>1 DEF SaneAt
<1>5. On(receipts', r) = H
  OBVIOUS
<1>6. want \in [Request -> Message \cup {Nobody}]
  BY <1>1 DEF DispatchTypeOK
<1>7. want'[r] = m /\ \A q \in Request \ {r} : want'[q] = want[q]
  BY <1>6
<1>8. FilesTypeOK'
  BY <1>1, <1>6, FileTypes DEF FilesTypeOK
<1>9. /\ SaneAt(r)' = Sane(e2, d2, s2, a2, want'[r], On(receipts', r))
      /\ OnwardAt(r) = Onward(e, d, s, a, H, d2, s2, a2, On(receipts', r))
      /\ WitnessedAt(r, Witness(r)) =
           Witnessed(e, d, s, H, d2, s2, On(receipts', r), Witness(r))
  BY DEF SaneAt, OnwardAt, WitnessedAt
<1>10. \/ e2 = "pending" /\ d2 = "pending" /\ s2 = s /\ a2 = a
       \/ e2 = "pending" /\ d2 = "none" /\ s2 = s /\ a2 = a
       \/ e2 = "none" /\ d2 = "none" /\ s2 = "pending" /\ a2 = 0
  OBVIOUS
<1> HIDE DEF e, d, s, a, H, e2, d2, s2, a2
<1>11. /\ e = "none" /\ d = "none" /\ s = "none" /\ a = 0 /\ H = {}
       /\ Sane("pending", "pending", "none", 0, m, {})
       /\ Sane("pending", "none", "none", 0, m, {})
       /\ Sane("none", "none", "pending", 0, m, {})
       /\ Onward("none", "none", "none", 0, {}, "pending", "none", 0, {})
       /\ Onward("none", "none", "none", 0, {}, "none", "none", 0, {})
       /\ Onward("none", "none", "none", 0, {}, "none", "pending", 0, {})
  BY <1>2, <1>3, <1>4, Created
<1>12. SaneAt(r)' /\ OnwardAt(r)
  BY <1>5, <1>7, <1>9, <1>10, <1>11
<1>13. WitnessedAt(r, Witness(r))
  BY <1>5, <1>9, <1>10, <1>11 DEF Witnessed, See
<1>14. ASSUME NEW q \in Request \ {r}
       PROVE  SaneAt(q)' /\ OnwardAt(q) /\ WitnessedAt(q, Witness(q)) /\ ClosedAt(q)
  <2>1. SaneAt(q)' /\ AllowedAt(q, {})
    BY <1>1, LeftAlone
  <2> QED BY <2>1 DEF AllowedAt, Allowed, OnwardAt, WitnessedAt, Witnessed, ClosedAt
<1>15. \A q \in Request \ {r} : IsOpen(q)' => IsOpen(q)
  BY <1>14 DEF ClosedAt, StaysClosed, IsOpen
<1>16. ASSUME NEW p \in Request, NEW q \in Request, want'[p] # Nobody, want'[p] = want'[q],
              IsOpen(p)', IsOpen(q)', p # q
       PROVE  FALSE
  <2>1. CASE p = r
    BY <1>7, <1>15, <1>16, <2>1
  <2>2. CASE q = r
    BY <1>7, <1>15, <1>16, <2>2
  <2>3. CASE p # r /\ q # r
    BY <1>1, <1>7, <1>15, <1>16, <2>3 DEF OneOpen
  <2> QED BY <2>1, <2>2, <2>3
<1>17. OneOpen'
  BY <1>16 DEF OneOpen
<1>18. \A q \in Request : KeptAt(q)
  BY DEF KeptAt
<1> QED BY <1>8, <1>12, <1>13, <1>14, <1>17, <1>18 DEF FilesGood, StepGood

(* The leader dispatches a message.                                               *)
LEMMA EnqueueGood == ASSUME DispatchInv, NEW m \in Message, Enqueue(m) PROVE FilesGood
<1> DEFINE shown == Merged(Refreshed, receipts)
<1>1. DispatchTypeOK /\ runtime \in RuntimeType /\ requests \in [Request -> FileEntry]
  BY FileTypes DEF DispatchInv
<1>2. /\ Refreshed \in RuntimeType /\ Refreshed.events = runtime.events
      /\ Refreshed.dispatch \in {runtime.dispatch, runtime.events}
      /\ shown \in [Request -> FileEntry]
      /\ \A r \in Request :
           /\ Refreshed.dispatch[r] = runtime.events[r]
           /\ shown[r].status = See(runtime.events[r], requests[r].status, On(receipts, r))
           /\ shown[r].attempts = requests[r].attempts
  BY RefreshedFacts
<1> HIDE DEF shown
<1>3. CASE Dedupe(m, shown)
  <2>1. runtime' = Refreshed /\ UNCHANGED files
    BY <1>3 DEF Dedupe
  <2> QED BY <1>2, <2>1, Quiet DEF files
<1>4. ASSUME Equivalent(shown, m) = {}, NEW r \in {q \in Request : want[q] = Nobody},
             Queue(m, r) \/ QueueLocally(m, r, shown)
      PROVE  FilesGood
  <2>1. want[r] = Nobody /\ want' = [want EXCEPT ![r] = m] /\ receipts' = receipts
    BY <1>4 DEF Queue, QueueLocally
  <2>2. want \in [Request -> Message \cup {Nobody}]
    BY <1>1 DEF DispatchTypeOK
  <2>3. \A q \in Request : IsOpen(q) => want[q] # m
    BY <1>2, <1>4 DEF Equivalent, IsOpen
  <2>4. \A q \in Request \ {r} : want'[q] = want[q]
    BY <2>1, <2>2
  <2>5. SaneAt(r)
    BY DEF DispatchInv
  <2>6. runtime.events[r] = "none" /\ runtime.dispatch[r] = "none"
    <3>1. runtime.events[r] = "none" /\ CanBecome(runtime.dispatch[r], runtime.events[r])
      BY <2>1, <2>5 DEF SaneAt, Sane
    <3> QED BY <3>1 DEF CanBecome, Final
  <2>7. CASE Queue(m, r)
    <3> DEFINE w == [Refreshed EXCEPT !.events[r] = "pending"]
    <3>1. /\ w \in RuntimeType /\ w.dispatch = Refreshed.dispatch /\ w.events[r] = "pending"
          /\ \A q \in Request \ {r} : w.events[q] = runtime.events[q]
      BY <1>2 DEF RuntimeType, Status
    <3>2. (runtime' = Published(w) \/ runtime' \in Fault(w)) /\ requests' = requests
      BY <2>7 DEF Queue
    <3> HIDE DEF w
    <3>3. /\ runtime' \in RuntimeType /\ runtime'.events = w.events
          /\ runtime'.dispatch \in {w.dispatch, w.events}
      BY <3>1, <3>2, PublishedFacts, FaultFacts
    <3>4. /\ runtime'.events[r] = "pending" /\ runtime'.dispatch[r] \in {"pending", "none"}
          /\ \A q \in Request \ {r} :
               /\ runtime'.events[q] = runtime.events[q]
               /\ runtime'.dispatch[q] = runtime.events[q]
      BY <1>2, <2>6, <3>1, <3>3
    <3>5. \A q \in Request \ {r} : Left(q)
      BY <2>1, <2>4, <3>2, <3>4 DEF Left
    <3> QED BY <1>1, <2>1, <2>3, <3>2, <3>3, <3>4, <3>5, Opened
  <2>8. CASE QueueLocally(m, r, shown)
    <3>1. /\ runtime' \in Fault(runtime)
          /\ requests' = [shown EXCEPT ![r] = [status |-> "pending", attempts |-> 0]]
      BY <2>8 DEF QueueLocally
    <3>2. /\ runtime' \in RuntimeType /\ runtime'.events = runtime.events
          /\ runtime'.dispatch = runtime.dispatch
      BY <1>1, <3>1, FaultFacts
    <3>3. [status |-> "pending", attempts |-> 0] \in FileEntry
      BY DEF FileEntry, Status
    <3>4. /\ requests' \in [Request -> FileEntry]
          /\ requests'[r] = [status |-> "pending", attempts |-> 0]
          /\ \A q \in Request \ {r} : requests'[q] = shown[q]
      BY <1>2, <3>1, <3>3
    <3>5. \A q \in Request \ {r} : runtime.events[q] = "none" /\ runtime.dispatch[q] = "none"
      <4>1. \A q \in Request : runtime.events[q] = "none"
        BY <2>8 DEF QueueLocally, HasAuthority
      <4>2. \A q \in Request : CanBecome(runtime.dispatch[q], runtime.events[q])
        BY DEF DispatchInv, SaneAt, Sane
      <4> QED BY <4>1, <4>2 DEF CanBecome, Final
    <3>6. \A q \in Request \ {r} : Left(q)
      BY <1>2, <2>1, <2>4, <3>2, <3>4, <3>5 DEF Left
    <3> QED BY <2>1, <2>3, <2>6, <3>2, <3>4, <3>6, Opened
  <2> QED BY <1>4, <2>7, <2>8
<1>5. \/ Dedupe(m, shown)
      \/ /\ Equivalent(shown, m) = {}
         /\ \E r \in OneOf({q \in Request : want[q] = Nobody}) :
              Queue(m, r) \/ QueueLocally(m, r, shown)
  BY DEF Enqueue, shown
<1>6. OneOf({q \in Request : want[q] = Nobody}) \subseteq {q \in Request : want[q] = Nobody}
  BY DEF OneOf
<1> QED BY <1>3, <1>4, <1>5, <1>6

-----------------------------------------------------------------------------
(* A replay under way: every status is one its receipts can take it to, and the commands   *)
(* that the runtime took are published. After the k-th receipt the log is as far as the     *)
(* first k of them.                                                              *)
Midway(x) ==
  /\ x \in SectionType /\ x.receipts = receipts /\ x.answer \in {"ok", "threw"}
  /\ \A q \in Request :
       /\ From(runtime.events[q], x.runtime.events[q], On(receipts, q))
       /\ From(runtime.events[q], x.runtime.dispatch[q], On(receipts, q))
       /\ CanBecome(x.runtime.dispatch[q], x.runtime.events[q])
  /\ x.answer = "ok" => x.runtime.dispatch = x.runtime.events
Past(x, k) ==
  x.answer = "ok" =>
    \A i \in 1..k : Rank(x.runtime.events[receipts[i].request]) >= Rank(Target(receipts[i].command))

(* One command of the replay.                                                     *)
LEMMA ReplayOne ==
  ASSUME NEW x, Midway(x), x.answer = "ok", NEW c \in Command, NEW r \in Request,
         Target(c) \in On(receipts, r), NEW y \in Verified(Executes(x, c, r))
  PROVE  /\ Midway(y) /\ (y.answer = "ok" => y.runtime.events[r] = Target(c))
         /\ \A q \in Request : Rank(y.runtime.events[q]) >= Rank(x.runtime.events[q])
<1>1. PICK z \in Executes(x, c, r) : y = IF z.answer = "transport" THEN [z EXCEPT !.answer = "threw"] ELSE z
  BY DEF Verified
<1>2. /\ x \in SectionType /\ x.receipts = receipts /\ x.runtime.dispatch = x.runtime.events
  BY DEF Midway
<1> DEFINE e == runtime.events[r]
           e1 == x.runtime.events[r]
           e2 == z.runtime.events[r]
<1>3. /\ z \in SectionType /\ z.receipts = receipts
      /\ \A q \in Request \ {r} : z.runtime.events[q] = x.runtime.events[q]
      /\ e2 = e1 \/ (e1 \in Source(c) /\ e2 = Target(c))
      /\ z.answer = "ok" => e2 = Target(c) /\ z.runtime.dispatch = z.runtime.events
      /\ z.answer # "ok" => z.runtime.dispatch = x.runtime.dispatch
  BY <1>2, ExecutesFacts
<1>4. /\ y \in SectionType /\ y.receipts = receipts /\ y.answer \in {"ok", "threw"}
      /\ y.runtime = z.runtime /\ (y.answer = "ok" => z.answer = "ok")
  BY <1>1, <1>3 DEF SectionType
<1>5. From(e, e1, On(receipts, r))
  BY DEF Midway
<1>6. From(e, e2, On(receipts, r)) /\ CanBecome(e1, e2)
  <2>1. CASE e2 = e1
    BY <1>5, <2>1 DEF CanBecome
  <2>2. CASE e1 \in Source(c) /\ e2 = Target(c)
    <3>1. CanBecome(e1, e2) /\ e1 \in {"pending", "notified"} /\ e2 \in On(receipts, r)
      BY <2>2, TargetFacts
    <3>2. c \in {"notify", "deliver", "fail"}
      BY DEF Command
    <3>3. e1 \in {"pending", "notified"} /\ (c = "notify" => e1 = "pending")
      BY <2>2, <3>1, TargetFacts
    <3>4. e \in {"pending", "notified"} /\ (e1 = "pending" => e = "pending")
      BY <1>5, <3>3 DEF From, Final
    <3>5. (c = "notify" /\ e2 = "notified") \/ e2 \in Final
      BY <2>2, <3>2, TargetFacts DEF Final
    <3> QED BY <3>1, <3>3, <3>4, <3>5 DEF From
  <2> QED BY <1>3, <2>1, <2>2
<1>7. Rank(e2) >= Rank(e1)
  BY <1>6 DEF CanBecome, Rank, Final
<1>8. ASSUME NEW q \in Request
      PROVE  /\ From(runtime.events[q], y.runtime.events[q], On(receipts, q))
             /\ From(runtime.events[q], y.runtime.dispatch[q], On(receipts, q))
             /\ CanBecome(y.runtime.dispatch[q], y.runtime.events[q])
  <2>1. From(runtime.events[q], y.runtime.events[q], On(receipts, q))
    BY <1>3, <1>4, <1>6 DEF Midway
  <2>2. From(runtime.events[q], x.runtime.events[q], On(receipts, q))
    BY DEF Midway
  <2>3. y.runtime.dispatch[q] \in {x.runtime.events[q], y.runtime.events[q]}
    BY <1>2, <1>3, <1>4
  <2>4. CanBecome(x.runtime.events[q], y.runtime.events[q])
    BY <1>3, <1>4, <1>6 DEF CanBecome
  <2> QED BY <2>1, <2>2, <2>3, <2>4 DEF CanBecome
<1>9. \A q \in Request : Rank(y.runtime.events[q]) >= Rank(x.runtime.events[q])
  <2> SUFFICES ASSUME NEW q \in Request
               PROVE  Rank(y.runtime.events[q]) >= Rank(x.runtime.events[q])
    OBVIOUS
  <2>1. CASE q = r
    BY <1>4, <1>7, <2>1
  <2>2. CASE q # r
    BY <1>3, <1>4, <2>2 DEF Rank
  <2> QED BY <2>1, <2>2
<1> QED BY <1>3, <1>4, <1>8, <1>9 DEF Midway

(* One receipt of it.                                                             *)
LEMMA ReplayOneReceipt ==
  ASSUME DispatchInv, NEW x, Midway(x), NEW i \in 1..Len(receipts), Past(x, i - 1),
         NEW y \in Replay(x, receipts[i])
  PROVE  Midway(y) /\ Past(y, i)
<1> DEFINE r == receipts[i].request
           c == receipts[i].command
           s == x.runtime.dispatch[r]
           H == On(receipts, r)
<1>1. DispatchTypeOK /\ receipts \in Seq(Receipt)
  BY FileTypes DEF DispatchInv
<1>2. r \in Request /\ c \in Command /\ \A j \in 1..Len(receipts) : receipts[j].request \in Request
  <2>1. \A j \in 1..Len(receipts) : receipts[j] \in Receipt
    BY <1>1
  <2> QED BY <2>1 DEF Receipt, Command
<1>3. Target(c) \in H
  BY <1>1, ReceiptTarget DEF HasReceipt
<1>4. SaneAt(r) /\ runtime.events[r] # "none" /\ ("delivered" \in H => "notified" \in H)
  BY <1>2, <1>3 DEF DispatchInv, SaneAt, Sane
<1>5. CASE x.answer = "threw"
  <2>1. y = x
    BY <1>5 DEF Replay
  <2> QED BY <1>5, <2>1 DEF Past
<1>6. CASE x.answer # "threw"
  <2>1. /\ x.answer = "ok" /\ s = x.runtime.events[r] /\ s \in Status \cup {"none"}
        /\ From(runtime.events[r], s, H)
    BY <1>2, <1>6 DEF Midway, SectionType, RuntimeType
  <2>2. \A j \in 1..(i - 1) :
          /\ receipts[j].request \in Request
          /\ Rank(x.runtime.events[receipts[j].request]) >= Rank(Target(receipts[j].command))
    <3>1. i \in Nat /\ \A j \in 1..(i - 1) : j \in 1..Len(receipts)
      BY <1>1
    <3> QED BY <1>2, <2>1, <3>1 DEF Past
  <2>3. \A q \in Request : \A t \in Command : Rank(x.runtime.events[q]) \in Nat /\ Rank(Target(t)) \in Nat
    BY DEF Rank
  <2>4. ASSUME NEW z, Midway(z),
               \A q \in Request : Rank(z.runtime.events[q]) >= Rank(x.runtime.events[q]),
               z.answer = "ok" => Rank(z.runtime.events[r]) >= Rank(Target(c))
        PROVE  Past(z, i)
    <3> SUFFICES ASSUME z.answer = "ok", NEW j \in 1..i
                 PROVE  Rank(z.runtime.events[receipts[j].request]) >= Rank(Target(receipts[j].command))
      BY DEF Past
    <3>1. CASE j = i
      BY <2>4, <3>1
    <3>2. CASE j # i
      <4>1. j \in 1..(i - 1) /\ receipts[j].request \in Request
        BY <2>2, <3>2
      <4>2. /\ Rank(z.runtime.events[receipts[j].request]) >= Rank(x.runtime.events[receipts[j].request])
            /\ Rank(x.runtime.events[receipts[j].request]) >= Rank(Target(receipts[j].command))
        BY <2>2, <2>4, <4>1
      <4> QED BY <4>2 DEF Rank
    <3> QED BY <3>1, <3>2
  <2>5. CASE Settled(s, c)
    <3>1. y = x
      BY <2>5 DEF Replay
    <3>2. s # "none"
      BY <1>4, <2>1 DEF From, Final
    <3>3. Rank(s) >= Rank(Target(c))
      <4>1. c \in {"notify", "deliver", "fail"} /\ (c = "notify" => Target(c) = "notified")
        BY <1>2, TargetFacts DEF Command
      <4> QED BY <2>5, <3>2, <4>1 DEF Settled, Rank
    <3>4. \A q \in Request : Rank(y.runtime.events[q]) >= Rank(x.runtime.events[q])
      BY <3>1 DEF Rank
    <3> QED BY <2>1, <2>4, <3>1, <3>3, <3>4
  <2>6. CASE ~Settled(s, c) /\ c = "deliver" /\ s = "pending"
    <3>1. PICK z \in Verified(Executes(x, "notify", r)) :
            y \in IF z.answer = "threw" THEN {z} ELSE Verified(Executes(z, c, r))
      BY <1>6, <2>6 DEF Replay
    <3>2. "notify" \in Command /\ Target("notify") \in H
      BY <1>3, <1>4, <2>6, TargetFacts DEF Command
    <3>3. /\ Midway(z) /\ \A q \in Request : Rank(z.runtime.events[q]) >= Rank(x.runtime.events[q])
      BY <1>2, <2>1, <3>1, <3>2, ReplayOne
    <3>4. CASE z.answer = "threw"
      <4>1. y = z
        BY <3>1, <3>4
      <4> QED BY <3>3, <3>4, <4>1 DEF Past
    <3>5. CASE z.answer # "threw"
      <4>1. z.answer = "ok" /\ y \in Verified(Executes(z, c, r))
        BY <3>1, <3>3, <3>5 DEF Midway
      <4>2. /\ Midway(y) /\ (y.answer = "ok" => y.runtime.events[r] = Target(c))
            /\ \A q \in Request : Rank(y.runtime.events[q]) >= Rank(z.runtime.events[q])
        BY <1>2, <1>3, <3>3, <4>1, ReplayOne
      <4>3. \A q \in Request : Rank(y.runtime.events[q]) >= Rank(x.runtime.events[q])
        BY <3>3, <4>2 DEF Rank
      <4>4. y.answer = "ok" => Rank(y.runtime.events[r]) >= Rank(Target(c))
        BY <4>2 DEF Rank
      <4> QED BY <2>4, <4>2, <4>3, <4>4
    <3> QED BY <3>4, <3>5
  <2>7. CASE ~Settled(s, c) /\ ~(c = "deliver" /\ s = "pending")
    <3>1. y \in Verified(Executes(x, c, r))
      BY <1>6, <2>7 DEF Replay
    <3>2. /\ Midway(y) /\ (y.answer = "ok" => y.runtime.events[r] = Target(c))
          /\ \A q \in Request : Rank(y.runtime.events[q]) >= Rank(x.runtime.events[q])
      BY <1>2, <1>3, <2>1, <3>1, ReplayOne
    <3>3. y.answer = "ok" => Rank(y.runtime.events[r]) >= Rank(Target(c))
      BY <3>2 DEF Rank
    <3> QED BY <2>4, <3>2, <3>3
  <2> QED BY <2>5, <2>6, <2>7
<1> QED BY <1>5, <1>6

(* The replay at its end.                                                         *)
LEMMA ReplayEnds ==
  ASSUME DispatchInv, NEW x \in Reconciled
  PROVE  /\ x \in SectionType
         /\ \A q \in Request : From(runtime.events[q], x.runtime.events[q], On(receipts, q))
         /\ x.answer = "threw" =>
              \A q \in Request :
                /\ From(runtime.events[q], x.runtime.dispatch[q], On(receipts, q))
                /\ CanBecome(x.runtime.dispatch[q], x.runtime.events[q])
         /\ x.answer # "threw" =>
              \A q \in Request : \A t \in On(receipts, q) : Rank(x.runtime.events[q]) >= Rank(t)
<1>1. /\ DispatchTypeOK /\ receipts \in Seq(Receipt) /\ runtime \in RuntimeType
      /\ Section \in SectionType /\ Section.runtime = runtime /\ Section.receipts = receipts
      /\ Section.answer = "ok"
  BY SectionFacts DEF DispatchInv
<1>2. CASE receipts = <<>>
  <2>1. Reconciled = ReplayStart
    BY <1>1, <1>2, ReplayUnfolds DEF Reconciled
  <2>2. x = [Section EXCEPT !.runtime = Section.runtime]
    BY <1>2, <2>1 DEF ReplayStart
  <2>3. x = Section
    BY <1>1, <2>2 DEF SectionType
  <2>4. \A q : On(receipts, q) = {}
    BY <1>2, OnEmpty
  <2> QED BY <1>1, <2>3, <2>4 DEF From
<1>3. CASE receipts # <<>>
  <2> DEFINE n == Len(receipts)
             X == [k \in 0..n |-> {y \in SectionType : Midway(y) /\ Past(y, k)}]
  <2>1. n \in Nat
    BY <1>1
  <2>2. ReplayStart \subseteq X[0]
    <3> SUFFICES ASSUME NEW y \in ReplayStart PROVE y \in SectionType /\ Midway(y) /\ Past(y, 0)
      BY <2>1
    <3>1. y = [Section EXCEPT !.runtime = Published(Section.runtime)]
      BY <1>3 DEF ReplayStart
    <3>2. /\ y \in SectionType /\ y.runtime = Published(runtime) /\ y.receipts = receipts
          /\ y.answer = "ok"
      BY <1>1, <3>1, PublishedFacts DEF SectionType
    <3>3. y.runtime.events = runtime.events /\ y.runtime.dispatch = runtime.events
      BY <1>1, <3>2, PublishedFacts
    <3>4. Midway(y)
      BY <3>2, <3>3 DEF Midway, From, CanBecome
    <3>5. Past(y, 0)
      BY DEF Past
    <3> QED BY <3>2, <3>4, <3>5
  <2>3. ASSUME NEW i \in 1..n, NEW y \in X[i - 1] PROVE Replay(y, receipts[i]) \subseteq X[i]
    <3>1. i - 1 \in 0..n /\ i \in 0..n
      BY <2>1
    <3>2. Midway(y) /\ Past(y, i - 1)
      BY <2>3, <3>1
    <3>3. \A z \in Replay(y, receipts[i]) : Midway(z) /\ Past(z, i)
      BY <3>2, ReplayOneReceipt
    <3>4. \A z \in Replay(y, receipts[i]) : z \in SectionType
      BY <3>3 DEF Midway
    <3> QED BY <3>1, <3>3, <3>4
  <2> HIDE DEF X
  <2>4. Reconciled \subseteq X[n]
    BY <1>1, <2>2, <2>3, ReplayKeeps
  <2>5. x \in SectionType /\ Midway(x) /\ Past(x, n)
    BY <2>1, <2>4 DEF X
  <2>6. ASSUME x.answer # "threw", NEW q \in Request, NEW t \in On(receipts, q)
        PROVE  Rank(x.runtime.events[q]) >= Rank(t)
    <3>1. PICK i \in 1..n : receipts[i].request = q /\ Target(receipts[i].command) = t
      BY <2>6 DEF On, HasReceipt
    <3>2. x.answer = "ok"
      BY <2>5, <2>6 DEF Midway
    <3> QED BY <2>5, <3>1, <3>2 DEF Past
  <2> QED BY <2>5, <2>6 DEF Midway
<1> QED BY <1>2, <1>3

(* A drain that could replay the journal claims only what nothing has an outcome for.      *)
LEMMA ReplayedRequest ==
  ASSUME DispatchInv, NEW x \in Reconciled, x.answer # "threw", NEW q \in Request
  PROVE  LET e2 == x.runtime.events[q]
             s == requests[q].status
         IN /\ \A s2 \in {s, See(e2, s, {})} :
                 /\ Sane(e2, e2, s2, requests[q].attempts, want[q], {})
                 /\ Allowed(runtime.events[q], runtime.dispatch[q], s, requests[q].attempts,
                            On(receipts, q), e2, e2, s2, requests[q].attempts, {}, {})
            /\ See(e2, s, {}) = "pending" =>
                 runtime.events[q] \in {"none", "pending"} /\ On(receipts, q) = {}
<1> DEFINE e == runtime.events[q]
           d == runtime.dispatch[q]
           s == requests[q].status
           a == requests[q].attempts
           H == On(receipts, q)
           e2 == x.runtime.events[q]
<1>1. DispatchTypeOK /\ SaneAt(q)
  BY DEF DispatchInv
<1>2. /\ e \in AnyStatusOrNone /\ d \in AnyStatusOrNone /\ s \in AnyStatusOrNone /\ a \in Nat
      /\ H \in SUBSET Outcome
  BY <1>1, FileTypes
<1>3. Sane(e, d, s, a, want[q], H)
  BY <1>1 DEF SaneAt
<1>4. x \in SectionType /\ From(e, e2, H) /\ \A t \in H : Rank(e2) >= Rank(t)
  BY ReplayEnds
<1>5. e2 \in AnyStatusOrNone
  BY <1>4 DEF SectionType, RuntimeType, AnyStatusOrNone
<1> HIDE DEF e, d, s, a, H, e2
<1>6. \A s2 \in {s, See(e2, s, {})} :
        /\ Sane(e2, e2, s2, a, want[q], {}) /\ Allowed(e, d, s, a, H, e2, e2, s2, a, {}, {})
        /\ See(e2, s, {}) = "pending" => e \in {"none", "pending"} /\ H = {}
  BY <1>2, <1>3, <1>4, <1>5, ReplayedAll
<1>7. See(e2, s, {}) = "pending" => e \in {"none", "pending"} /\ H = {}
  BY <1>6
<1> QED BY <1>6, <1>7 DEF e, d, s, a, H, e2

(* What a reader sees once the log is published and the journal is empty.               *)
LEMMA MergedAfresh ==
  ASSUME requests \in [Request -> FileEntry], NEW v \in RuntimeType
  PROVE  /\ Merged(Published(v), <<>>) \in [Request -> FileEntry]
         /\ \A q \in Request :
              /\ Merged(Published(v), <<>>)[q].status = See(v.events[q], requests[q].status, {})
              /\ Merged(Published(v), <<>>)[q].attempts = requests[q].attempts
<1> DEFINE w == Published(v)
           j == <<>>
<1>1. w \in RuntimeType /\ w.dispatch = v.events /\ j \in Seq(Receipt) /\ \A q : On(j, q) = {}
  BY PublishedFacts, OnEmpty
<1> HIDE DEF w, j
<1>2. /\ Merged(w, j) \in [Request -> FileEntry]
      /\ \A q \in Request :
           /\ Merged(w, j)[q].status = See(w.dispatch[q], requests[q].status, On(j, q))
           /\ Merged(w, j)[q].attempts = requests[q].attempts
  BY <1>1, MergedFacts
<1> QED BY <1>1, <1>2 DEF w, j

(* A drain claims, or its replay was cut short and it leaves the rest for the next.        *)
LEMMA ClaimGood == ASSUME DispatchInv, NEW d \in Drain, Claim(d) PROVE FilesGood
<1>1. /\ DispatchTypeOK /\ OneOpen /\ want' = want
      /\ runtime \in RuntimeType /\ receipts \in Seq(Receipt) /\ requests \in [Request -> FileEntry]
      /\ want \in [Request -> Message \cup {Nobody}]
  BY FileTypes DEF DispatchInv, Claim, DrainOnly, DispatchTypeOK
<1>2. PICK x \in Reconciled :
        IF x.answer = "threw"
          THEN runtime' = x.runtime /\ UNCHANGED <<requests, receipts, leases, drains>>
          ELSE /\ runtime' = Published(x.runtime) /\ receipts' = <<>>
               /\ \E C \in SUBSET Request :
                    requests' = IF C = {} THEN requests ELSE Merged(Published(x.runtime), <<>>)
  <2>1. PICK x \in Reconciled :
          IF x.answer = "threw"
          THEN runtime' = x.runtime /\ UNCHANGED <<requests, receipts, leases, drains>>
          ELSE LET w == Published(x.runtime)
                   shown == Merged(w, <<>>) IN
            /\ runtime' = w /\ receipts' = <<>>
            /\ \E C \in SUBSET Claimable(shown) :
                 Cardinality(C) <= MaxPerTick /\ Takes(d, C, shown)
    BY DEF Claim
  <2> QED BY <2>1 DEF Takes, Claimable
<1>3. /\ x \in SectionType /\ x.runtime \in RuntimeType
      /\ \A q \in Request : From(runtime.events[q], x.runtime.events[q], On(receipts, q))
      /\ x.answer = "threw" =>
           \A q \in Request :
             /\ From(runtime.events[q], x.runtime.dispatch[q], On(receipts, q))
             /\ CanBecome(x.runtime.dispatch[q], x.runtime.events[q])
  BY ReplayEnds DEF SectionType
<1>4. ASSUME FilesTypeOK', \A q \in Request : SaneAt(q)' /\ AllowedAt(q, {}) /\ KeptAt(q)
      PROVE  FilesGood
  <2>1. StepGood
    BY <1>1, <1>4, AllAllowed
  <2> QED BY <1>4, <2>1 DEF FilesGood
<1>5. CASE x.answer = "threw"
  <2>1. runtime' = x.runtime /\ requests' = requests /\ receipts' = receipts
    BY <1>2, <1>5
  <2>2. FilesTypeOK'
    BY <1>1, <1>3, <2>1 DEF FilesTypeOK
  <2>3. \A q \in Request : KeptAt(q)
    BY <2>1 DEF KeptAt
  <2>4. ASSUME NEW q \in Request PROVE SaneAt(q)' /\ AllowedAt(q, {})
    <3> DEFINE e == runtime.events[q]
               p == runtime.dispatch[q]
               s == requests[q].status
               a == requests[q].attempts
               H == On(receipts, q)
               e2 == x.runtime.events[q]
               d2 == x.runtime.dispatch[q]
    <3>1. /\ e \in AnyStatusOrNone /\ p \in AnyStatusOrNone /\ s \in AnyStatusOrNone /\ a \in Nat
          /\ H \in SUBSET Outcome /\ Sane(e, p, s, a, want[q], H)
      BY <1>1, FileTypes DEF DispatchInv, SaneAt
    <3>2. /\ e2 \in AnyStatusOrNone /\ d2 \in AnyStatusOrNone
          /\ From(e, e2, H) /\ From(e, d2, H) /\ CanBecome(d2, e2)
      BY <1>3, <1>5 DEF RuntimeType, AnyStatusOrNone
    <3>3. /\ SaneAt(q)' = Sane(e2, d2, s, a, want[q], H)
          /\ AllowedAt(q, {}) = Allowed(e, p, s, a, H, e2, d2, s, a, H, {})
      BY <1>1, <2>1 DEF SaneAt, AllowedAt
    <3> HIDE DEF e, p, s, a, H, e2, d2
    <3>4. Sane(e2, d2, s, a, want[q], H) /\ Allowed(e, p, s, a, H, e2, d2, s, a, H, {})
      BY <3>1, <3>2, ReplayedInPart
    <3> QED BY <3>3, <3>4
  <2> QED BY <1>4, <2>2, <2>3, <2>4
<1>6. CASE x.answer # "threw"
  <2>1. /\ runtime' = Published(x.runtime) /\ receipts' = <<>>
        /\ requests' \in {requests, Merged(Published(x.runtime), <<>>)}
    BY <1>2, <1>6
  <2>2. /\ Published(x.runtime) \in RuntimeType
        /\ Published(x.runtime).events = x.runtime.events
        /\ Published(x.runtime).dispatch = x.runtime.events
    BY <1>3, PublishedFacts
  <2>3. <<>> \in Seq(Receipt)
    OBVIOUS
  <2>4. /\ Merged(Published(x.runtime), <<>>) \in [Request -> FileEntry]
        /\ \A q \in Request :
             /\ Merged(Published(x.runtime), <<>>)[q].status =
                  See(x.runtime.events[q], requests[q].status, {})
             /\ Merged(Published(x.runtime), <<>>)[q].attempts = requests[q].attempts
    BY <1>1, <1>3, MergedAfresh
  <2>5. FilesTypeOK'
    BY <1>1, <2>1, <2>2, <2>3, <2>4 DEF FilesTypeOK
  <2>6. \A q \in Request : KeptAt(q)
    <3>1. \A q \in Request : \A t \in On(receipts, q) : Rank(x.runtime.events[q]) >= Rank(t)
      BY <1>6, ReplayEnds
    <3> QED BY <2>1, <2>2, <3>1 DEF KeptAt
  <2>7. ASSUME NEW q \in Request PROVE SaneAt(q)' /\ AllowedAt(q, {})
    <3> DEFINE e == runtime.events[q]
               p == runtime.dispatch[q]
               s == requests[q].status
               a == requests[q].attempts
               H == On(receipts, q)
               e2 == x.runtime.events[q]
               s2 == requests'[q].status
    <3>1. s2 \in {s, See(e2, s, {})} /\ requests'[q].attempts = a
      BY <2>1, <2>4
    <3>2. On(receipts', q) = {}
      BY <2>1, OnEmpty
    <3>3. /\ SaneAt(q)' = Sane(e2, e2, s2, a, want[q], {})
          /\ AllowedAt(q, {}) = Allowed(e, p, s, a, H, e2, e2, s2, a, {}, {})
      BY <1>1, <2>1, <2>2, <3>1, <3>2 DEF SaneAt, AllowedAt
    <3>4. \A t \in {s, See(e2, s, {})} :
            Sane(e2, e2, t, a, want[q], {}) /\ Allowed(e, p, s, a, H, e2, e2, t, a, {}, {})
      BY <1>6, ReplayedRequest
    <3> HIDE DEF e, p, s, a, H, e2, s2
    <3> QED BY <3>1, <3>3, <3>4
  <2> QED BY <1>4, <2>5, <2>6, <2>7
<1> QED BY <1>5, <1>6

(* What it claims.                                                                *)
LEMMA ClaimOpen ==
  ASSUME DispatchInv, NEW d \in Drain, Claim(d), NEW f \in Drain,
         NEW r \in drains'[f].todo \ (drains[f].todo \cup {drains[f].now})
  PROVE  r \in Request /\ runtime.events[r] \in {"none", "pending"} /\ On(receipts, r) = {}
<1>1. DispatchTypeOK /\ requests \in [Request -> FileEntry]
  BY FileTypes DEF DispatchInv
<1>2. PICK x \in Reconciled :
        IF x.answer = "threw"
        THEN runtime' = x.runtime /\ UNCHANGED <<requests, receipts, leases, drains>>
        ELSE LET w == Published(x.runtime)
                 shown == Merged(w, <<>>) IN
          /\ runtime' = w /\ receipts' = <<>>
          /\ \E C \in SUBSET Claimable(shown) :
               Cardinality(C) <= MaxPerTick /\ Takes(d, C, shown)
  BY DEF Claim
<1>3. x.answer # "threw"
  BY <1>2
<1>4. PICK C \in SUBSET Claimable(Merged(Published(x.runtime), <<>>)) :
        drains' = [drains EXCEPT ![d].todo = C]
  BY <1>2, <1>3 DEF Takes
<1>5. r \in C
  <2>1. drains \in [Drain -> [todo : SUBSET Request, now : Request \cup {Nobody},
                            result : {"none", "confirmed", "unconfirmed", "refused"}]]
    BY <1>1 DEF DispatchTypeOK
  <2>2. CASE f = d
    BY <1>4, <2>1, <2>2
  <2>3. CASE f # d
    <3>1. drains'[f] = drains[f]
      BY <1>4, <2>1, <2>3
    <3> QED BY <3>1
  <2> QED BY <2>2, <2>3
<1>6. r \in Request /\ Merged(Published(x.runtime), <<>>)[r].status = "pending"
  BY <1>4, <1>5 DEF Claimable
<1>7. x.runtime \in RuntimeType
  BY ReplayEnds DEF SectionType
<1>8. Merged(Published(x.runtime), <<>>)[r].status =
        See(x.runtime.events[r], requests[r].status, {})
  BY <1>1, <1>6, <1>7, MergedAfresh
<1> QED BY <1>3, <1>6, <1>8, ReplayedRequest

-----------------------------------------------------------------------------
(* Every step is good for the files.                                              *)
LEMMA FilesStep == ASSUME DispatchInv, [Next]_vars PROVE FilesGood
<1>1. CASE \E m \in Used \cup OneOf(Message \ Used) : Enqueue(m)
  <2>1. PICK m \in Used \cup OneOf(Message \ Used) : Enqueue(m)
    BY <1>1
  <2>2. Used \subseteq Message
    <3>1. want \in [Request -> Message \cup {Nobody}]
      BY DEF DispatchInv, DispatchTypeOK
    <3> QED BY <3>1 DEF Used
  <2>3. m \in Message
    BY <2>2 DEF OneOf
  <2> QED BY <2>1, <2>3, EnqueueGood
<1>2. CASE MarkNotified
  BY <1>2, MarkGood
<1>3. CASE TransitionToFailed
  BY <1>3, FailGood
<1>4. ASSUME NEW d \in Drain, Claim(d) PROVE FilesGood
  BY <1>4, ClaimGood
<1>5. ASSUME NEW d \in Drain, Finalize(d) PROVE FilesGood
  BY <1>5, FinalizeGood
<1>6. CASE \/ ReadReceipt \/ Fallback \/ GiveUp \/ LeaderLeaves
           \/ \E d \in Drain : Inject(d) \/ DrainDies(d)
           \/ \E r \in Request : LeaseAges(r)
           \/ UNCHANGED vars
  BY <1>6, Asides
<1> QED BY <1>1, <1>2, <1>3, <1>4, <1>5, <1>6 DEF Next, LeaderStep, DrainStep

(* The leader always knows which request it is about.                                *)
LeaderTypeOK ==
  leader \in [doing : {"nothing", "wait", "fallback", "resend", "mark", "give up", "fail"},
              request : Request \cup {Nobody}, from : Status \cup {"none"}]

(* Every step keeps the type of the leader, and that it knows its request.      *)
LEMMA LeaderTypes == ASSUME DispatchInv, [Next]_vars PROVE LeaderTypeOK' /\ LeaderBusy'
<1>1. LeaderTypeOK /\ LeaderBusy /\ Shown \in [Request -> FileEntry]
  BY FileTypes DEF DispatchInv, DispatchTypeOK, LeaderTypeOK
<1>2. ASSUME UNCHANGED leader PROVE LeaderTypeOK' /\ LeaderBusy'
  BY <1>1, <1>2 DEF LeaderTypeOK, LeaderBusy
<1>3. ASSUME Rests PROVE LeaderTypeOK' /\ LeaderBusy'
  BY <1>3 DEF Rests, AtRest, LeaderTypeOK, LeaderBusy
<1>4. ASSUME NEW doing \in {"fallback", "resend", "mark", "give up"}, leader.doing # "nothing", Does(doing)
      PROVE  LeaderTypeOK' /\ LeaderBusy'
  <2>1. leader.request \in Request
    BY <1>1, <1>4 DEF LeaderBusy
  <2> QED BY <1>1, <1>4, <2>1 DEF Does, LeaderTypeOK, LeaderBusy
<1>5. ASSUME NEW status \in Status \cup {"none"}, leader.doing # "nothing", Fails(status)
      PROVE  LeaderTypeOK' /\ LeaderBusy'
  <2>1. leader.request \in Request
    BY <1>1, <1>5 DEF LeaderBusy
  <2> QED BY <1>1, <1>5, <2>1 DEF Fails, LeaderTypeOK, LeaderBusy
<1>6. ASSUME NEW r \in Request, Awaits(r) PROVE LeaderTypeOK' /\ LeaderBusy'
  BY <1>6 DEF Awaits, AtRest, LeaderTypeOK, LeaderBusy
<1>7. ASSUME NEW m, Enqueue(m) PROVE LeaderTypeOK' /\ LeaderBusy'
  <2>1. UNCHANGED leader \/ \E r \in Request : Awaits(r)
    BY <1>7 DEF Enqueue, Dedupe, Equivalent, Queue, QueueLocally, OneOf
  <2> QED BY <1>2, <1>6, <2>1
<1>8. CASE ReadReceipt
  <2>1. leader.doing # "nothing" /\ (Rests \/ Does("resend") \/ Does("fallback"))
    BY <1>8 DEF ReadReceipt
  <2> QED BY <1>3, <1>4, <2>1
<1>9. CASE Fallback
  <2>1. leader.doing # "nothing" /\ (Fails("failed") \/ Does("mark") \/ Does("give up"))
    BY <1>9 DEF Fallback
  <2> QED BY <1>4, <1>5, <2>1 DEF Status
<1>10. CASE MarkNotified
  <2>1. leader.doing # "nothing" /\ (Fails("failed") \/ Rests)
    BY <1>10 DEF MarkNotified
  <2> QED BY <1>3, <1>5, <2>1 DEF Status
<1>11. CASE GiveUp
  <2>1. leader.doing # "nothing" /\ (Fails(Shown[leader.request].status) \/ Rests)
    BY <1>11 DEF GiveUp
  <2>2. Shown[leader.request].status \in Status \cup {"none"}
    BY <1>1, <2>1 DEF LeaderBusy, FileEntry
  <2> QED BY <1>3, <1>5, <2>1, <2>2
<1>12. CASE TransitionToFailed
  BY <1>3, <1>12 DEF TransitionToFailed
<1>13. CASE LeaderLeaves
  BY <1>3, <1>13 DEF LeaderLeaves
<1>14. CASE \E d \in Drain : DrainStep(d)
  BY <1>2, <1>14 DEF DrainStep, Claim, Inject, Finalize, DrainDies, DrainOnly
<1>15. CASE \E r \in Request : LeaseAges(r)
  BY <1>2, <1>15 DEF LeaseAges, DrainOnly
<1>16. CASE UNCHANGED vars
  BY <1>2, <1>16 DEF vars
<1> QED BY <1>7, <1>8, <1>9, <1>10, <1>11, <1>12, <1>13, <1>14, <1>15, <1>16 DEF Next, LeaderStep

(* The history is of requests.                                                    *)
LEMMA AgedTypes == ASSUME DispatchInv, [Next]_vars PROVE aged' \subseteq Request
<1>1. aged \subseteq Request
  BY DEF DispatchInv, DispatchTypeOK
<1>2. ASSUME aged' # aged PROVE \E r \in Request : aged' = aged \cup {r}
  BY <1>2 DEF Next, LeaderStep, Enqueue, ReadReceipt, Fallback, MarkNotified, GiveUp, TransitionToFailed,
     LeaderLeaves, LeaderOnly, DrainStep, Claim, Inject, Finalize, DrainDies, LeaseAges, vars
<1> QED BY <1>1, <1>2

(* The invariant: types, what the files may disagree about, and the leases.              *)
FullInv == DispatchInv /\ LeaseInv

(* The invariant holds at first.                                                *)
LEMMA FullInit == ASSUME Init PROVE FullInv
<1> USE DispatchAssumption
<1>1. LeaseInv
  BY LeaseInit
<1>2. /\ runtime \in RuntimeType /\ want \in [Request -> Message \cup {Nobody}]
      /\ requests \in [Request -> FileEntry] /\ receipts \in Seq(Receipt)
  <2>1. MaxFaults \in 0..MaxFaults
    OBVIOUS
  <2> QED BY <2>1 DEF Init, RuntimeType, FileEntry, Absent, Status
<1>3. LeaderTypeOK /\ LeaderBusy
  BY DEF Init, AtRest, LeaderTypeOK, LeaderBusy
<1>4. DispatchTypeOK
  BY <1>1, <1>2, <1>3 DEF LeaseInv, LeaderTypeOK, DispatchTypeOK, RuntimeType, FileEntry, Init
<1>5. \A r \in Request :
        /\ runtime.events[r] = "none" /\ runtime.dispatch[r] = "none"
        /\ requests[r].status = "none" /\ requests[r].attempts = 0 /\ On(receipts, r) = {}
        /\ want[r] = Nobody
  BY OnEmpty DEF Init, Absent
<1>6. \A r \in Request : SaneAt(r)
  BY <1>5 DEF SaneAt, Sane, CanBecome, See
<1>7. OneOpen
  BY <1>5 DEF OneOpen
<1> QED BY <1>1, <1>3, <1>4, <1>6, <1>7 DEF FullInv, DispatchInv

(* Every step keeps it, and is good for every request.                          *)
LEMMA FullStep == ASSUME FullInv, [Next]_vars PROVE FullInv' /\ StepGood
<1>1. FilesTypeOK' /\ StepGood
  BY FilesStep DEF FullInv, FilesGood
<1>2. LeaderTypeOK' /\ LeaderBusy' /\ aged' \subseteq Request /\ LeaseInv'
  BY LeaderTypes, AgedTypes, LeaseStep DEF FullInv
<1>3. DispatchTypeOK'
  BY <1>1, <1>2 DEF FilesTypeOK, LeaderTypeOK, LeaseInv, DispatchTypeOK, RuntimeType, FileEntry
<1>4. (\A r \in Request : SaneAt(r))' /\ OneOpen'
  BY <1>1 DEF StepGood
<1> QED BY <1>1, <1>2, <1>3, <1>4 DEF FullInv, DispatchInv

(* So it holds always.                                                          *)
LEMMA FullAlways == Spec => [](FullInv)
<1>1. Init => FullInv
  BY FullInit
<1>2. FullInv /\ [Next]_vars => FullInv'
  BY FullStep
<1> QED BY <1>1, <1>2, PTL DEF Spec

-----------------------------------------------------------------------------
(* The types are invariant: no section, no replay of the journal and no write of           *)
(* requests.json leaves a status, a number of attempts or a receipt the code has no name   *)
(* for.                                                                         *)
THEOREM DispatchTypeCorrect == Spec => []DispatchTypeOK
<1>1. FullInv => DispatchTypeOK
  BY DEF FullInv, DispatchInv
<1> QED BY <1>1, FullAlways, PTL

(* A request that a reader is shown as pending has attempts left, whichever file it was    *)
(* read from: finalizeClaimedDispatchRequest gives up at MAX_UNCONFIRMED_ATTEMPTS, and no   *)
(* replay or rewrite shows a request pending again with its attempts used up.             *)
THEOREM AttemptsAreLeft == Spec => []AttemptsLeft
<1>1. FullInv => AttemptsLeft
  <2> SUFFICES ASSUME FullInv, NEW r \in Request, Shown[r].status = "pending"
               PROVE  Shown[r].attempts < MaxAttempts
    BY DEF AttemptsLeft
  <2>1. DispatchTypeOK /\ SaneAt(r)
    BY DEF FullInv, DispatchInv
  <2> QED BY <2>1, FileTypes DEF SaneAt, Sane
<1> QED BY <1>1, FullAlways, PTL

(* The leader never has two requests open for one message: it looks for an equivalent one   *)
(* in the runtime read afresh, so not even a request whose answer was lost is queued twice. *)
THEOREM OneOpenPerMessage == Spec => []OneOpenRequest
<1>1. FullInv => OneOpenRequest
  <2> SUFFICES ASSUME FullInv, NEW m \in Message
               PROVE  Cardinality({r \in Request :
                        want[r] = m /\ Merged(Published(runtime), receipts)[r].status = "pending"}) <= 1
    BY DEF OneOpenRequest
  <2> DEFINE S == {r \in Request :
                     want[r] = m /\ Merged(Published(runtime), receipts)[r].status = "pending"}
  <2>1. /\ DispatchTypeOK /\ OneOpen /\ runtime \in RuntimeType /\ receipts \in Seq(Receipt)
        /\ requests \in [Request -> FileEntry] /\ m # Nobody
    BY FileTypes, DispatchAssumption DEF FullInv, DispatchInv
  <2>2. Published(runtime) \in RuntimeType /\ Published(runtime).dispatch = runtime.events
    BY <2>1, PublishedFacts
  <2>3. \A r \in Request : Merged(Published(runtime), receipts)[r].status =
                             See(runtime.events[r], requests[r].status, On(receipts, r))
    BY <2>1, <2>2, MergedFacts
  <2>4. \A r, q \in S : r = q
    BY <2>1, <2>3 DEF OneOpen, IsOpen
  <2> HIDE DEF S
  <2>5. Cardinality(S) <= 1
    <3>1. CASE S = {}
      BY <3>1, FS_EmptySet
    <3>2. ASSUME NEW r \in S PROVE Cardinality(S) <= 1
      <4>1. S = {r}
        BY <2>4
      <4> QED BY <4>1, FS_Singleton
    <3> QED BY <3>1, <3>2
  <2> QED BY <2>5 DEF S
<1> QED BY <1>1, FullAlways, PTL

(* What a reader is shown, in the terms of the three files.                            *)
ShownAsIs ==
  \A r \in Request :
    /\ Shown[r].status = See(runtime.dispatch[r], requests[r].status, On(receipts, r))
    /\ Shown[r].attempts = requests[r].attempts
    /\ \A t \in {"notified", "delivered"} : HasReceipt(receipts, r, t) <=> t \in On(receipts, r)

(* Shown is the overlay of the three files, request by request.                 *)
LEMMA ShownIsSo == DispatchTypeOK => ShownAsIs
<1> SUFFICES ASSUME DispatchTypeOK, NEW r \in Request
             PROVE  /\ Shown[r].status = See(runtime.dispatch[r], requests[r].status, On(receipts, r))
                    /\ Shown[r].attempts = requests[r].attempts
                    /\ \A t \in {"notified", "delivered"} :
                         HasReceipt(receipts, r, t) <=> t \in On(receipts, r)
  BY DEF ShownAsIs
<1> QED BY FileTypes DEF On, Outcome

(* What a reader is shown only moves forward: no attempt is forgotten, and a final          *)
(* status yields to nothing but what was on record before it.                          *)
THEOREM StatusOnlyMovesForward == Spec => StatusMovesForward
<1> DEFINE Forward ==
      \A r \in Request :
        /\ Rank(Shown'[r].status) >= Rank(Shown[r].status)
        /\ Shown'[r].attempts >= Shown[r].attempts
        /\ Rank(Shown[r].status) = 3 /\ Shown'[r].status # Shown[r].status =>
             runtime.events[r] # Shown[r].status /\ OnRecord(r, Shown'[r].status)
<1>1. FullInv => ShownAsIs
  BY ShownIsSo DEF FullInv, DispatchInv
<1>2. FullInv /\ ShownAsIs /\ ShownAsIs' /\ [Next]_vars => Forward
  <2> SUFFICES ASSUME FullInv, ShownAsIs, ShownAsIs', [Next]_vars, NEW r \in Request
               PROVE  /\ Rank(Shown'[r].status) >= Rank(Shown[r].status)
                      /\ Shown'[r].attempts >= Shown[r].attempts
                      /\ Rank(Shown[r].status) = 3 /\ Shown'[r].status # Shown[r].status =>
                           runtime.events[r] # Shown[r].status /\ OnRecord(r, Shown'[r].status)
    OBVIOUS
  <2>1. OnwardAt(r)
    BY FullStep DEF StepGood
  <2>2. /\ Shown[r].status = See(runtime.dispatch[r], requests[r].status, On(receipts, r))
        /\ Shown[r].attempts = requests[r].attempts
        /\ HasReceipt(receipts, r, "delivered") <=> "delivered" \in On(receipts, r)
    BY DEF ShownAsIs
  <2>3. /\ Shown'[r].status = See(runtime'.dispatch[r], requests'[r].status, On(receipts', r))
        /\ Shown'[r].attempts = requests'[r].attempts
    BY DEF ShownAsIs
  <2> HIDE DEF Forward
  <2> QED BY <2>1, <2>2, <2>3 DEF OnwardAt, Onward, OnRecord
<1>3. FullInv /\ FullInv' /\ [Next]_vars => [Forward]_vars
  BY <1>1, <1>2, PTL
<1>4. StatusMovesForward <=> [][Forward]_vars
  BY DEF StatusMovesForward
<1> HIDE DEF Forward
<1> QED BY <1>3, <1>4, FullAlways, PTL DEF Spec

(* What a reader is newly shown, and what the journal newly claims, has a witness: who       *)
(* typed it, the drain that confirmed it, or a record that said so before.                *)
THEOREM StatusHasWitness == Spec => StatusTellsTheTruth
<1> DEFINE True ==
      \A r \in Request :
        /\ Shown'[r].status = "notified" \/ HasReceipt(receipts', r, "notified") =>
             Shown[r].status = "notified" \/ Said(r, "notified") \/ TypedNow(r)
        /\ Shown'[r].status = "delivered" \/ HasReceipt(receipts', r, "delivered") =>
             Shown[r].status = "delivered" \/ Said(r, "delivered") \/ ConfirmedNow(r)
<1>1. FullInv => ShownAsIs
  BY ShownIsSo DEF FullInv, DispatchInv
<1>2. FullInv /\ ShownAsIs /\ ShownAsIs' /\ [Next]_vars => True
  <2> SUFFICES ASSUME FullInv, ShownAsIs, ShownAsIs', [Next]_vars, NEW r \in Request
               PROVE  /\ Shown'[r].status = "notified" \/ HasReceipt(receipts', r, "notified") =>
                           Shown[r].status = "notified" \/ Said(r, "notified") \/ TypedNow(r)
                      /\ Shown'[r].status = "delivered" \/ HasReceipt(receipts', r, "delivered") =>
                           Shown[r].status = "delivered" \/ Said(r, "delivered") \/ ConfirmedNow(r)
    OBVIOUS
  <2>1. WitnessedAt(r, Witness(r))
    BY FullStep DEF StepGood
  <2>2. /\ Shown[r].status = See(runtime.dispatch[r], requests[r].status, On(receipts, r))
        /\ \A t \in {"notified", "delivered"} : HasReceipt(receipts, r, t) <=> t \in On(receipts, r)
    BY DEF ShownAsIs
  <2>3. /\ Shown'[r].status = See(runtime'.dispatch[r], requests'[r].status, On(receipts', r))
        /\ \A t \in {"notified", "delivered"} : HasReceipt(receipts', r, t) <=> t \in On(receipts', r)
    BY DEF ShownAsIs
  <2>4. /\ "notified" \in Witness(r) => TypedNow(r)
        /\ "delivered" \in Witness(r) => ConfirmedNow(r)
    BY DEF Witness
  <2> HIDE DEF True
  <2> QED BY <2>1, <2>2, <2>3, <2>4 DEF WitnessedAt, Witnessed, Said
<1>3. FullInv /\ FullInv' /\ [Next]_vars => [True]_vars
  BY <1>1, <1>2, PTL
<1>4. StatusTellsTheTruth <=> [][True]_vars
  BY DEF StatusTellsTheTruth
<1> HIDE DEF True
<1> QED BY <1>3, <1>4, FullAlways, PTL DEF Spec

(* A drain claims only requests that neither the event log nor the journal has an outcome    *)
(* for: reconcileRuntimeFinalizations tells the runtime first what the journal has.         *)
THEOREM OnlyOpenIsClaimed == Spec => ClaimsAreOpen
<1> DEFINE Open1 ==
      \A d \in Drain : \A r \in drains'[d].todo \ (drains[d].todo \cup {drains[d].now}) :
        /\ runtime.events[r] \in {"none", "pending"}
        /\ \A s \in Status : ~HasReceipt(receipts, r, s)
<1>1. FullInv /\ [Next]_vars => Open1
  <2> SUFFICES ASSUME FullInv, [Next]_vars, NEW f \in Drain,
                      NEW r \in drains'[f].todo \ (drains[f].todo \cup {drains[f].now})
               PROVE  /\ runtime.events[r] \in {"none", "pending"}
                      /\ \A s \in Status : ~HasReceipt(receipts, r, s)
    OBVIOUS
  <2>1. /\ DispatchInv /\ receipts \in Seq(Receipt)
        /\ drains \in [Drain -> [todo : SUBSET Request, now : Request \cup {Nobody},
                                 result : {"none", "confirmed", "unconfirmed", "refused"}]]
    BY FileTypes DEF FullInv, DispatchInv, DispatchTypeOK
  <2>2. ASSUME NEW d \in Drain, Claim(d) PROVE runtime.events[r] \in {"none", "pending"} /\ On(receipts, r) = {}
    BY <2>1, <2>2, ClaimOpen
  <2>3. ASSUME UNCHANGED drains PROVE FALSE
    BY <2>3
  <2>4. ASSUME LeaderStep PROVE FALSE
    BY <2>3, <2>4 DEF LeaderStep, Enqueue, ReadReceipt, Fallback, MarkNotified, GiveUp,
       TransitionToFailed, LeaderLeaves, LeaderOnly
  <2>5. ASSUME NEW d \in Drain, Inject(d) PROVE FALSE
    <3>1. PICK q \in drains[d].todo, result \in {"confirmed", "unconfirmed", "refused"} :
            drains' = [drains EXCEPT ![d] = [todo |-> drains[d].todo \ {q}, now |-> q, result |-> result]]
      BY <2>5 DEF Inject
    <3>2. drains'[f].todo \subseteq drains[f].todo
      BY <2>1, <3>1
    <3> QED BY <3>2
  <2>6. ASSUME NEW d \in Drain, Finalize(d) \/ DrainDies(d) PROVE FALSE
    <3>1. \/ drains' = [drains EXCEPT ![d] = [NoClaims EXCEPT !.todo = drains[d].todo]]
          \/ drains' = [drains EXCEPT ![d] = NoClaims]
      BY <2>6 DEF Finalize, DrainDies, FinishClaim, FinishDrain
    <3>2. drains'[f].todo \subseteq drains[f].todo
      BY <2>1, <3>1 DEF NoClaims
    <3> QED BY <3>2
  <2>7. ASSUME \E q \in Request : LeaseAges(q) PROVE FALSE
    BY <2>3, <2>7 DEF LeaseAges
  <2>8. ASSUME UNCHANGED vars PROVE FALSE
    BY <2>3, <2>8 DEF vars
  <2>9. runtime.events[r] \in {"none", "pending"} /\ On(receipts, r) = {}
    BY <2>2, <2>4, <2>5, <2>6, <2>7, <2>8 DEF Next, DrainStep
  <2>10. \A s \in Status : ~HasReceipt(receipts, r, s)
    BY <2>1, <2>9, ReceiptTarget
  <2> QED BY <2>9, <2>10
<1>2. ClaimsAreOpen <=> [][Open1]_vars
  BY DEF ClaimsAreOpen
<1> HIDE DEF Open1
<1> QED BY <1>1, <1>2, FullAlways, PTL DEF Spec

(* An outcome is struck from the journal only when the event log is as far: a replay that   *)
(* is cut short keeps the whole journal, and one that is not gave each receipt its command. *)
THEOREM ReceiptsOutlive == Spec => ReceiptsOutliveDoubt
<1> DEFINE Outlived ==
      \A r \in Request, s \in Status :
        HasReceipt(receipts, r, s) =>
          HasReceipt(receipts', r, s) \/ Rank(runtime'.events[r]) >= Rank(s)
<1>1. FullInv /\ [Next]_vars => Outlived
  <2> SUFFICES ASSUME FullInv, [Next]_vars, NEW r \in Request, NEW s \in Status,
                      HasReceipt(receipts, r, s)
               PROVE  HasReceipt(receipts', r, s) \/ Rank(runtime'.events[r]) >= Rank(s)
    OBVIOUS
  <2>1. KeptAt(r)
    BY FullStep DEF StepGood
  <2>2. receipts \in Seq(Receipt)
    BY FileTypes DEF FullInv, DispatchInv
  <2>3. s \in On(receipts, r)
    BY <2>2, ReceiptTarget
  <2>4. s \in On(receipts', r) => HasReceipt(receipts', r, s)
    BY DEF On
  <2> QED BY <2>1, <2>3, <2>4 DEF KeptAt
<1>2. ReceiptsOutliveDoubt <=> [][Outlived]_vars
  BY DEF ReceiptsOutliveDoubt
<1> HIDE DEF Outlived
<1> QED BY <1>1, <1>2, FullAlways, PTL DEF Spec
=============================================================================
