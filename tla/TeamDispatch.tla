---------------------------- MODULE TeamDispatch ----------------------------
(* Dispatch requests of one team: the leader queues "type this into the worker's  *)
(* pane" (src/src/team/state/dispatch.ts), waits for a hook to do it, and does it   *)
(* itself when none answers in time (dispatchCriticalInboxInstruction in           *)
(* src/src/team/runtime.ts); hook processes drain the queue                        *)
(* (src/src/scripts/notify-hook/team-dispatch.ts). The status of a request is in    *)
(* three places: the runtime's events, requests.json, and a journal of outcomes     *)
(* the runtime could not be told (src/src/team/state/dispatch-recovery.ts). Every   *)
(* section under the dispatch lock is one step.                                   *)
EXTENDS Naturals, Sequences, FiniteSets

CONSTANTS
  Message,     \* what a leader has to say: a worker and a correlation key
  Request,     \* dispatch request ids
  Drain,       \* hook processes
  Nobody, Dead,
  MaxAttempts, \* MAX_UNCONFIRMED_ATTEMPTS, 3
  MaxPerTick,  \* requests one drain claims, 5
  MaxFaults    \* bound: commands that fail, processes that die, leases that age under
               \* a drain at work

ASSUME DispatchAssumption ==
  /\ {Nobody, Dead} \cap (Message \cup Request \cup Drain) = {} /\ Nobody # Dead
  /\ MaxAttempts \in Nat \ {0} /\ MaxPerTick \in Nat \ {0} /\ MaxFaults \in Nat

VARIABLES
  runtime,     \* the runtime's events, its projection dispatch.json, faults to come
  want,        \* what each request is for
  requests,    \* requests.json
  receipts,    \* runtime-finalizations.jsonl
  leases,      \* dispatch/.processing-<request>
  drains,      \* what each hook process has claimed and injected
  leader,      \* what the leader does about the request it dispatches
  aged         \* history: requests whose lease went stale under a live drain

files == <<want, requests, receipts>>
vars == <<runtime, files, leases, drains, leader, aged>>

(* Ids that nothing has used yet and hook processes at rest are all alike.              *)
OneOf(S) == IF S = {} THEN {} ELSE {CHOOSE x \in S : TRUE}

Status == {"pending", "notified", "delivered", "failed"}
Absent == [status |-> "none", attempts |-> 0]
FreeLease == [owner |-> Nobody, old |-> FALSE]
NoClaims == [todo |-> {}, now |-> Nobody, result |-> "none"]
AtRest == [doing |-> "nothing", request |-> Nobody, from |-> "none"]
Receipt == [command : {"notify", "deliver", "fail"}, request : Request]

DispatchTypeOK ==
  /\ runtime \in [events : [Request -> Status \cup {"none"}],
                  dispatch : [Request -> Status \cup {"none"}], faults : 0..MaxFaults]
  /\ want \in [Request -> Message \cup {Nobody}]
  /\ requests \in [Request -> [status : Status \cup {"none"}, attempts : Nat]]
  /\ receipts \in Seq(Receipt)
  /\ leases \in [Request -> [owner : Drain \cup {Nobody, Dead}, old : BOOLEAN]]
  /\ drains \in [Drain -> [todo : SUBSET Request, now : Request \cup {Nobody},
                           result : {"none", "confirmed", "unconfirmed", "refused"}]]
  /\ leader \in [doing : {"nothing", "wait", "fallback", "resend", "mark", "give up", "fail"},
                 request : Request \cup {Nobody}, from : Status \cup {"none"}]
  /\ aged \subseteq Request

Init ==
  /\ runtime = [events |-> [r \in Request |-> "none"],
                dispatch |-> [r \in Request |-> "none"], faults |-> MaxFaults]
  /\ want = [r \in Request |-> Nobody]
  /\ requests = [r \in Request |-> Absent]
  /\ receipts = <<>>
  /\ leases = [r \in Request |-> FreeLease]
  /\ drains = [d \in Drain |-> NoClaims]
  /\ leader = AtRest
  /\ aged = {}

-----------------------------------------------------------------------------
(* The runtime: a command that is legal takes effect and is published; it may also  *)
(* not be started at all, end before it did anything, or end after the event was     *)
(* written and before the projection was.                                         *)

Source(c) == CASE c = "notify" -> {"pending"}
               [] c = "deliver" -> {"notified"}
               [] c = "fail" -> {"pending", "notified"}
Target(c) == CASE c = "notify" -> "notified"
               [] c = "deliver" -> "delivered"
               [] c = "fail" -> "failed"

Published(w) == [w EXCEPT !.dispatch = w.events]
Fault(w) == {[w EXCEPT !.faults = n - 1] : n \in {w.faults} \ {0}}
HasAuthority(w) == \E r \in Request : w.events[r] # "none"
HasIdentity(w, r) == w.events[r] # "none"

(* One command in a section, after the commands x went through. A transport failure  *)
(* leaves a receipt; any other failure ends the section.                            *)
Ended(x, w, answer) == [x EXCEPT !.runtime = w, !.answer = answer]
Executes(x, c, r) ==
  LET w == x.runtime
      done == [w EXCEPT !.events[r] = Target(c)]
  IN (IF w.events[r] \in Source(c)
        THEN {Ended(x, Published(done), "ok")} \cup {Ended(x, v, "threw") : v \in Fault(done)}
        ELSE {Ended(x, w, "threw")})
     \cup UNION {{Ended(x, v, "transport"), Ended(x, v, "threw")} : v \in Fault(w)}

Finalization(c, r) == [command |-> c, request |-> r]
Exec(x, c, r) ==
  IF x.answer = "threw" THEN {x}
  ELSE IF ~HasIdentity(x.runtime, r) THEN {[x EXCEPT !.answer = "transport"]}
  ELSE {IF y.answer = "transport"
          THEN [y EXCEPT !.receipts = Append(@, Finalization(c, r))] ELSE y :
          y \in Executes(x, c, r)}

Section == [runtime |-> runtime, receipts |-> receipts, answer |-> "ok"]

(* readDispatchRequests: the projection, and over it what requests.json says when a   *)
(* receipt bears it out; the runtime's final status always wins.                     *)
HasReceipt(j, r, status) ==
  \E i \in 1..Len(j) : j[i].request = r /\ Target(j[i].command) = status
Overlays(w, j, r) ==
  w.dispatch[r] \notin {"delivered", "failed"} /\ HasReceipt(j, r, requests[r].status)
Merged(w, j) ==
  [r \in Request |->
     IF w.dispatch[r] = "none" \/ Overlays(w, j, r) THEN requests[r]
     ELSE [requests[r] EXCEPT !.status = w.dispatch[r]]]
Shown == Merged(runtime, receipts)

-----------------------------------------------------------------------------
(* The leader.                                                                *)

LeaderOnly == UNCHANGED <<leases, drains, aged>>
Does(doing) == leader' = [leader EXCEPT !.doing = doing]
Rests == leader' = AtRest
Awaits(r) == leader' = [AtRest EXCEPT !.doing = "wait", !.request = r]

(* enqueueDispatchRequest: the runtime, if there is one, is read afresh first.        *)
NotRefreshed == runtime
Refreshed == IF HasAuthority(runtime) THEN Published(runtime) ELSE runtime
Equivalent(shown, m) == {r \in Request : want[r] = m /\ shown[r].status = "pending"}

Dedupe(m, shown) ==
  \E r \in Equivalent(shown, m) :
    runtime' = Refreshed /\ Awaits(r) /\ UNCHANGED files

Queue(m, r) ==
  LET w == [Refreshed EXCEPT !.events[r] = "pending"] IN
  /\ want' = [want EXCEPT ![r] = m]
  /\ \/ runtime' = Published(w) /\ Awaits(r)
     \/ runtime' \in Fault(w) /\ UNCHANGED leader
  /\ UNCHANGED <<requests, receipts>>

QueueLocally(m, r, shown) ==
  /\ ~HasAuthority(runtime) /\ runtime' \in Fault(runtime)
  /\ want' = [want EXCEPT ![r] = m]
  /\ requests' = [shown EXCEPT ![r] = [status |-> "pending", attempts |-> 0]]
  /\ Awaits(r) /\ UNCHANGED receipts

Enqueue(m) ==
  LET shown == Merged(Refreshed, receipts) IN
  /\ leader.doing = "nothing"
  /\ \/ Dedupe(m, shown)
     \/ /\ Equivalent(shown, m) = {}
        /\ \E r \in OneOf({q \in Request : want[q] = Nobody}) : Queue(m, r) \/ QueueLocally(m, r, shown)
  /\ LeaderOnly

(* waitForDispatchReceipt: the status, or what it still is when the time is over.      *)
ReadReceipt ==
  LET status == Shown[leader.request].status IN
  /\ leader.doing = "wait"
  /\ CASE status \in {"notified", "delivered"} -> Rests
       [] status = "failed" -> Does("resend")
       [] OTHER -> Does("fallback")
  /\ LeaderOnly /\ UNCHANGED <<runtime, files>>

(* notifyWorkerOutcome types into the pane. After a failed receipt nothing but the     *)
(* reason of the failure is left to write.                                         *)
Fails(status) == leader' = [leader EXCEPT !.doing = "fail", !.from = status]
Fallback ==
  /\ \/ leader.doing = "resend" /\ Fails("failed")
     \/ leader.doing = "fallback" /\ (Does("mark") \/ Does("give up"))
  /\ LeaderOnly /\ UNCHANGED <<runtime, files>>

(* transitionDispatchRequestLocked, after the command that went before it.            *)
MovedBack(x, r, status) ==
  [Merged(x.runtime, x.receipts) EXCEPT
     ![r] = [status |-> status, attempts |-> Shown[r].attempts - 1]]
Moved(x, r, status) ==
  [Merged(x.runtime, x.receipts) EXCEPT
     ![r] = [status |-> status, attempts |-> Shown[r].attempts + 1]]

(* markDispatchRequestNotified.                                                *)
MarkNotified ==
  LET r == leader.request IN
  /\ leader.doing = "mark" /\ IF Shown[r].status = "failed" THEN Fails("failed") ELSE Rests
  /\ IF Shown[r].status # "pending"
       THEN UNCHANGED <<runtime, receipts, requests>>
       ELSE \E x \in Exec(Section, "notify", r) :
              /\ runtime' = x.runtime /\ receipts' = x.receipts
              /\ requests' = IF x.answer = "transport" THEN Moved(x, r, "notified") ELSE requests
  /\ LeaderOnly /\ UNCHANGED want

(* The fallback failed too: the status is read without the lock ...                  *)
GiveUp ==
  LET status == Shown[leader.request].status IN
  /\ leader.doing = "give up"
  /\ IF status = "failed" THEN Rests
     ELSE Fails(status)
  /\ LeaderOnly /\ UNCHANGED <<runtime, files>>

(* ... and the request moves to failed if that is still its status. One that is failed    *)
(* is written back as it is read, with every other request.                          *)
CanFail(status) == status \in {"pending", "notified"}
TransitionToFailed ==
  LET r == leader.request IN
  /\ leader.doing = "fail" /\ Rests
  /\ IF Shown[r].status = leader.from /\ CanFail(Shown[r].status)
       THEN \E x \in Exec(Section, "fail", r) :
              /\ runtime' = x.runtime /\ receipts' = x.receipts
              /\ requests' = IF x.answer = "threw" THEN requests ELSE Moved(x, r, "failed")
       ELSE /\ requests' = IF Shown[r].status = "failed" THEN Shown ELSE requests
            /\ UNCHANGED <<runtime, receipts>>
  /\ LeaderOnly /\ UNCHANGED want

(* It is interrupted, and whoever comes next has other things to say.                   *)
LeaderLeaves ==
  /\ leader # AtRest /\ Rests
  /\ runtime' \in Fault(runtime)
  /\ LeaderOnly /\ UNCHANGED files

-----------------------------------------------------------------------------
(* A drain of the queue by a hook process.                                       *)

DrainOnly == UNCHANGED <<leader, want>>
AnyLease(r) == TRUE
YoungLease(r) == leases[r].owner = Nobody
Available(r) == leases[r].owner = Nobody \/ leases[r].old
Released(d, S) ==
  [r \in Request |-> IF r \in S /\ leases[r].owner = d THEN FreeLease ELSE leases[r]]

(* reconcileRuntimeFinalizations: every receipt in its order, until a command fails.  *)
Unverified(S) == S
Verified(S) == {IF x.answer = "transport" THEN [x EXCEPT !.answer = "threw"] ELSE x : x \in S}
Settled(status, c) ==
  status \in {"none", "delivered", "failed"} \/ (c = "notify" /\ status = "notified")
Replay(x, receipt) ==
  LET r == receipt.request
      c == receipt.command
      s == x.runtime.dispatch[r]
  IN IF x.answer = "threw" \/ Settled(s, c) THEN {x}
     ELSE IF c = "deliver" /\ s = "pending"
       THEN UNION {IF y.answer = "threw" THEN {y} ELSE Verified(Executes(y, c, r)) :
                     y \in Verified(Executes(x, "notify", r))}
     ELSE Verified(Executes(x, c, r))
Unreconciled == {Section}
Replayed[i \in 0..Len(receipts)] ==
  IF i = 0 THEN {[Section EXCEPT !.runtime = IF receipts = <<>> THEN @ ELSE Published(@)]}
  ELSE UNION {Replay(x, receipts[i]) : x \in Replayed[i - 1]}
Reconciled == Replayed[Len(receipts)]

(* The locked part of drainPendingTeamDispatch. Cooldowns pass over some requests.     *)
Claimable(shown) == {r \in Request : shown[r].status = "pending" /\ Available(r)}
Takes(d, C, shown) ==
  /\ leases' = [r \in Request |-> IF r \in C THEN [owner |-> d, old |-> FALSE] ELSE leases[r]]
  /\ drains' = [drains EXCEPT ![d].todo = C]
  /\ requests' = IF C = {} THEN requests ELSE shown
Claim(d) ==
  /\ d \in OneOf({e \in Drain : drains[e] = NoClaims})
  /\ \E x \in Reconciled :
       IF x.answer = "threw"
       THEN runtime' = x.runtime /\ UNCHANGED <<requests, receipts, leases, drains>>
       ELSE LET w == Published(x.runtime)
                shown == Merged(w, <<>>) IN
         /\ runtime' = w /\ receipts' = <<>>
         /\ \E C \in SUBSET Claimable(shown) :
              Cardinality(C) <= MaxPerTick /\ Takes(d, C, shown)
  /\ DrainOnly /\ UNCHANGED aged

(* injectDispatchRequest, outside the lock.                                      *)
Inject(d) ==
  /\ drains[d].now = Nobody
  /\ \E r \in drains[d].todo, result \in {"confirmed", "unconfirmed", "refused"} :
       /\ drains' = [drains EXCEPT ![d] = [todo |-> @.todo \ {r}, now |-> r, result |-> result]]
  /\ DrainOnly /\ UNCHANGED <<runtime, requests, receipts, leases, aged>>

(* finalizeClaimedDispatchRequest: a confirmed delivery leaves its receipts before the  *)
(* runtime is told; a command that fails otherwise than in transport ends the drain     *)
(* and leaves requests.json as it was.                                            *)
Confirms(r) ==
  LET told == IF HasIdentity(runtime, r)
                THEN [Section EXCEPT !.receipts =
                        @ \o <<Finalization("notify", r), Finalization("deliver", r)>>]
                ELSE Section
  IN UNION {Exec(x, "deliver", r) : x \in Exec(told, "notify", r)}

EndsLate(r, result, attempts) ==
  CASE result = "confirmed" -> "delivered"
    [] result = "unconfirmed" /\ attempts <= MaxAttempts -> "pending"
    [] OTHER -> "failed"
EndsSent(r, result, attempts) == IF result = "refused" THEN "failed" ELSE "delivered"
Ends(r, result, attempts) ==
  CASE result = "confirmed" -> "delivered"
    [] result = "unconfirmed" /\ attempts < MaxAttempts -> "pending"
    [] OTHER -> "failed"
Commands(r, status) ==
  CASE status = "delivered" -> Confirms(r)
    [] status = "failed" -> Exec(Section, "fail", r)
    [] OTHER -> {Section}

FinishClaim(d) ==
  /\ drains' = [drains EXCEPT ![d] = [NoClaims EXCEPT !.todo = drains[d].todo]]
  /\ leases' = Released(d, {drains[d].now})
FinishDrain(d) ==
  /\ drains' = [drains EXCEPT ![d] = NoClaims]
  /\ leases' = Released(d, drains[d].todo \cup {drains[d].now})

AnyStatus(r) == TRUE
StillPending(r) == Shown[r].status = "pending"
Finalize(d) ==
  LET r == drains[d].now
      attempts == Shown[r].attempts + 1
      status == Ends(r, drains[d].result, attempts) IN
  /\ r # Nobody
  /\ IF ~StillPending(r)
       THEN FinishClaim(d) /\ UNCHANGED <<runtime, requests, receipts>>
       ELSE \E x \in Commands(r, status) :
              /\ runtime' = x.runtime /\ receipts' = x.receipts
              /\ IF x.answer = "threw" THEN FinishDrain(d) /\ UNCHANGED requests
                 ELSE /\ FinishClaim(d)
                      /\ requests' =
                           [Shown EXCEPT ![r] = [status |-> status, attempts |-> attempts]]
  /\ DrainOnly /\ UNCHANGED aged

(* A hook process dies; its leases stay until they are 30 seconds old. So may the       *)
(* lease of a drain that still works: it takes all its leases at once and injects one   *)
(* request after the other.                                                      *)
DrainDies(d) ==
  /\ drains[d] # NoClaims /\ runtime' \in Fault(runtime)
  /\ drains' = [drains EXCEPT ![d] = NoClaims]
  /\ leases' = [r \in Request |-> IF leases[r].owner = d THEN [leases[r] EXCEPT !.owner = Dead]
                                  ELSE leases[r]]
  /\ DrainOnly /\ UNCHANGED <<requests, receipts, aged>>

LeaseAges(r) ==
  /\ leases[r].owner # Nobody /\ ~leases[r].old
  /\ IF leases[r].owner = Dead THEN UNCHANGED <<runtime, aged>>
     ELSE runtime' \in Fault(runtime) /\ aged' = aged \cup {r}
  /\ leases' = [leases EXCEPT ![r].old = TRUE]
  /\ DrainOnly /\ UNCHANGED <<requests, receipts, drains>>

DrainStep(d) ==
  Claim(d) \/ Inject(d) \/ Finalize(d) \/ DrainDies(d)
Used == {want[r] : r \in Request} \ {Nobody}
LeaderStep ==
  \/ \E m \in Used \cup OneOf(Message \ Used) : Enqueue(m)
  \/ ReadReceipt \/ Fallback \/ MarkNotified \/ GiveUp \/ TransitionToFailed \/ LeaderLeaves
Next ==
  \/ LeaderStep
  \/ \E d \in Drain : DrainStep(d)
  \/ \E r \in Request : LeaseAges(r)

(* Hooks run at every turn and a watcher at every tick: claimed requests are dealt with,    *)
(* a drain that finds requests claims some once their cooldown has ended, and the lease     *)
(* of a dead drain ages. Nothing is asked of the leader.                              *)
Open == {r \in Request : Shown[r].status = "pending"}
Attends(d) == Claim(d) /\ (drains'[d].todo # {} \/ Open' = {})
Fairness ==
  /\ WF_vars(\E d \in Drain : Inject(d) \/ Finalize(d))
  /\ WF_vars(\E d \in Drain : Attends(d))
  /\ WF_vars(\E r \in Request : leases[r].owner = Dead /\ LeaseAges(r))

Spec == Init /\ [][Next]_vars /\ Fairness

-----------------------------------------------------------------------------
(* What a reader sees of a request only moves forward: no attempt is forgotten, a        *)
(* notified request is never pending again, and a final status stays, whichever of the     *)
(* three files it was read from. One exception: a status that the event log does not have  *)
(* yet yields to the outcome that was on record before it, in the log or in the journal.    *)
Rank(status) == CASE status = "none" -> 0 [] status = "pending" -> 1
                  [] status = "notified" -> 2 [] OTHER -> 3
OnRecord(r, status) ==
  runtime.events[r] = status \/ (status = "delivered" /\ HasReceipt(receipts, r, status))
StatusMovesForward ==
  [][\A r \in Request :
       /\ Rank(Shown'[r].status) >= Rank(Shown[r].status)
       /\ Shown'[r].attempts >= Shown[r].attempts
       /\ Rank(Shown[r].status) = 3 /\ Shown'[r].status # Shown[r].status =>
            runtime.events[r] # Shown[r].status /\ OnRecord(r, Shown'[r].status)]_vars

(* What is shown, and what the journal claims, has an author who saw it: a request is      *)
(* shown notified after a leader typed it or a drain confirmed it, delivered after a drain  *)
(* confirmed it, or because the log or the journal said so already.                    *)
ConfirmedNow(r) == \E d \in Drain : drains[d].now = r /\ drains[d].result = "confirmed"
TypedNow(r) == ConfirmedNow(r) \/ (leader.doing = "mark" /\ leader.request = r)
Said(r, status) == runtime.events[r] = status \/ HasReceipt(receipts, r, status)
StatusTellsTheTruth ==
  [][\A r \in Request :
       /\ Shown'[r].status = "notified" \/ HasReceipt(receipts', r, "notified") =>
            Shown[r].status = "notified" \/ Said(r, "notified") \/ TypedNow(r)
       /\ Shown'[r].status = "delivered" \/ HasReceipt(receipts', r, "delivered") =>
            Shown[r].status = "delivered" \/ Said(r, "delivered") \/ ConfirmedNow(r)]_vars

(* A drain claims only what nobody has an outcome for: not the event log, whatever the    *)
(* projection showed before, and not the journal ("cannot inject the prompt again",       *)
(* docs/contracts/team-delivery-state-contract.md:30).                              *)
ClaimsAreOpen ==
  [][\A d \in Drain : \A r \in drains'[d].todo \ (drains[d].todo \cup {drains[d].now}) :
       /\ runtime.events[r] \in {"none", "pending"}
       /\ \A s \in Status : ~HasReceipt(receipts, r, s)]_vars

(* An outcome leaves the journal only when the event log is as far, so no replay, cut      *)
(* short where it may be, forgets what the runtime was never told.                     *)
ReceiptsOutliveDoubt ==
  [][\A r \in Request, s \in Status :
       HasReceipt(receipts, r, s) =>
         HasReceipt(receipts', r, s) \/ Rank(runtime'.events[r]) >= Rank(s)]_vars

(* Two drains hold the same request only after a lease of it went stale under the first.  *)
Claims(d) == drains[d].todo \cup {drains[d].now}
OneInjector ==
  \A d, e \in Drain : d # e => Claims(d) \cap Claims(e) \subseteq aged \cup {Nobody}

(* A request that is still pending has attempts left.                               *)
AttemptsLeft ==
  \A r \in Request : Shown[r].status = "pending" => Shown[r].attempts < MaxAttempts

(* A leader never has two requests open for the same message, not even when the runtime    *)
(* committed one and its answer was lost.                                            *)
OneOpenRequest ==
  \A m \in Message :
    Cardinality({r \in Request : want[r] = m /\ Merged(Published(runtime), receipts)[r].status = "pending"}) <= 1

(* Every request that is queued is notified, delivered or failed in the end, even if the    *)
(* leader that queued it is gone: the queue empties.                                *)
QueueEmpties == Open # {} ~> Open = {}
=============================================================================
