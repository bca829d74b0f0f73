------------------------------ MODULE TeamLock ------------------------------
(* withTeamLock and withScalingLock (src/src/team/state/locks.ts): the lock     *)
(* directories behind the membership barrier and behind scaling. Whoever makes  *)
(* the directory holds the lock; files in it name the owner and carry a lease   *)
(* that the owner's heartbeat refreshes; a waiter removes the directory of a     *)
(* lock it found stale. TeamTasks takes the barrier for granted; this module    *)
(* says what it is worth.                                                      *)
EXTENDS Naturals

CONSTANTS
  Process,    \* the processes that want the lock
  None,       \* no owner file
  MaxDir,     \* bound: directories made
  MaxCrash    \* bound: processes that die

ASSUME NoneAssumption == None \notin Process
ASSUME LockBoundAssumption == MaxDir \in Nat /\ MaxCrash \in Nat

VARIABLES
  dir,        \* the lock directory
  made,       \* directories made so far; a directory is its number
  pc,         \* where each process is
  mine,       \* the directory a process last made
  judged,     \* the directory a process last found stale
  misfired,   \* history: a process removed a directory other than it meant to
  crashes     \* processes that died so far

vars == <<dir, made, pc, mine, judged, misfired, crashes>>

(* `number` 0: no directory. `stale`: lease, or without one the directory, has   *)
(* not been touched for longer than LOCK_STALE_MS.                            *)
LockDir == [number : 0..MaxDir, owner : Process \cup {None}, lease : BOOLEAN, stale : BOOLEAN]
NoDir == [number |-> 0, owner |-> None, lease |-> FALSE, stale |-> FALSE]
Present == dir.number # 0

Step == {"trying", "judged", "made", "owned", "failed", "critical", "leaving", "crashed"}

TypeOK ==
  /\ dir \in LockDir
  /\ made \in 0..MaxDir
  /\ pc \in [Process -> Step]
  /\ mine \in [Process -> 0..MaxDir]
  /\ judged \in [Process -> 0..MaxDir]
  /\ misfired \in BOOLEAN
  /\ crashes \in 0..MaxCrash

Init ==
  /\ dir = NoDir
  /\ made = 0
  /\ pc = [p \in Process |-> "trying"]
  /\ mine = [p \in Process |-> 0]
  /\ judged = [p \in Process |-> 0]
  /\ misfired = FALSE
  /\ crashes = 0

Goes(p, from, to) == pc[p] = from /\ pc' = [pc EXCEPT ![p] = to]

(* rm -r of the path, whatever directory is there by now.                      *)
RemoveDir(meant) ==
  /\ dir' = NoDir
  /\ misfired' = (misfired \/ (Present /\ dir.number # meant))

-----------------------------------------------------------------------------
(* Acquiring. mkdir, the owner file, the lease file; a write that finds no       *)
(* directory fails, and the process cleans up and throws.                      *)

MakeDir(p) ==
  /\ Goes(p, "trying", "made")
  /\ ~Present /\ made < MaxDir
  /\ made' = made + 1
  /\ dir' = [NoDir EXCEPT !.number = made + 1]
  /\ mine' = [mine EXCEPT ![p] = made + 1]
  /\ UNCHANGED <<judged, misfired, crashes>>

WriteOwner(p) ==
  /\ Present
  /\ Goes(p, "made", "owned")
  /\ dir' = [dir EXCEPT !.owner = p]
  /\ UNCHANGED <<made, mine, judged, misfired, crashes>>

WriteLease(p) ==
  /\ Present
  /\ Goes(p, "owned", "critical")
  /\ dir' = [dir EXCEPT !.lease = TRUE, !.stale = FALSE]
  /\ UNCHANGED <<made, mine, judged, misfired, crashes>>

WriteFails(p) ==
  /\ ~Present
  /\ Goes(p, "made", "failed") \/ Goes(p, "owned", "failed")
  /\ UNCHANGED <<dir, made, mine, judged, misfired, crashes>>

CleanUp(p) ==
  /\ Goes(p, "failed", "trying")
  /\ RemoveDir(mine[p])
  /\ UNCHANGED <<made, mine, judged, crashes>>

(* maybeRecoverStaleLock: the check and the removal are two steps. A check that  *)
(* finds the lock fresh is retried, or given up for a later call.              *)
StaleByLease == dir.lease /\ dir.stale
Stale == dir.stale

FindStale(p) ==
  /\ Present /\ Stale
  /\ Goes(p, "trying", "judged")
  /\ judged' = [judged EXCEPT ![p] = dir.number]
  /\ UNCHANGED <<dir, made, mine, misfired, crashes>>

RemoveStale(p) ==
  /\ Goes(p, "judged", "trying")
  /\ RemoveDir(judged[p])
  /\ UNCHANGED <<made, mine, judged, crashes>>

-----------------------------------------------------------------------------
(* Releasing: only the lock whose owner file still names the process.           *)

MayRelease(p) == Present /\ dir.owner = p

Leave(p) ==
  /\ MayRelease(p)
  /\ Goes(p, "critical", "leaving")
  /\ UNCHANGED <<dir, made, mine, judged, misfired, crashes>>

LeaveLost(p) ==
  /\ ~MayRelease(p)
  /\ Goes(p, "critical", "trying")
  /\ UNCHANGED <<dir, made, mine, judged, misfired, crashes>>

Release(p) ==
  /\ Goes(p, "leaving", "trying")
  /\ RemoveDir(mine[p])
  /\ UNCHANGED <<made, mine, judged, crashes>>

-----------------------------------------------------------------------------
Crash(p) ==
  /\ pc[p] \notin {"trying", "crashed"} /\ crashes < MaxCrash
  /\ pc' = [pc EXCEPT ![p] = "crashed"]
  /\ crashes' = crashes + 1
  /\ UNCHANGED <<dir, made, mine, judged, misfired>>

(* LOCK_STALE_MS pass. The heartbeat of a holder refreshes the lease of whatever   *)
(* directory is there, as long as its owner file names the holder; five minutes    *)
(* are more than a live process takes from mkdir to its heartbeat or from its last  *)
(* beat to its rm.                                                             *)
InPassing(p) == pc[p] \in {"made", "owned", "leaving"} /\ mine[p] = dir.number
Refreshed(p) == InPassing(p) \/ (pc[p] = "critical" /\ dir.owner = p)

Expire ==
  /\ Present /\ ~dir.stale
  /\ ~\E p \in Process : Refreshed(p)
  /\ dir' = [dir EXCEPT !.stale = TRUE]
  /\ UNCHANGED <<made, pc, mine, judged, misfired, crashes>>

Works(p) ==
  \/ MakeDir(p) \/ WriteOwner(p) \/ WriteLease(p) \/ WriteFails(p) \/ CleanUp(p)
  \/ FindStale(p) \/ RemoveStale(p)
  \/ Leave(p) \/ LeaveLost(p) \/ Release(p)

Next == Expire \/ \E p \in Process : Works(p) \/ Crash(p)

Spec == Init /\ [][Next]_vars

(* A process that runs goes on and tries again; time passes.                    *)
FairSpec == Spec /\ WF_vars(Expire) /\ \A p \in Process : WF_vars(Works(p))

-----------------------------------------------------------------------------
(* Properties.                                                               *)

Critical == {p \in Process : pc[p] \in {"critical", "leaving"}}

(* As long as no process has removed a directory it did not mean to, whoever is  *)
(* past the lock is alone, and the directory is the one it made and named        *)
(* itself the owner of.                                                        *)
HolderAloneUnlessMisfired ==
  ~misfired =>
    /\ \A p \in Critical : dir.number = mine[p] /\ dir.owner = p
    /\ \A p, q \in Critical : p = q

(* The first removal of a directory that was not meant is the second half of a    *)
(* stale-lock recovery: release and clean-up, which look first or remove what     *)
(* they made, only go astray after that.                                      *)
OnlyRecoveryMisfires ==
  [][~misfired /\ misfired' =>
       \E p \in Process : pc[p] = "judged" /\ pc'[p] = "trying"]_vars

(* A lock whose maker died does not stay for ever, wherever between mkdir and    *)
(* rm it died, as long as somebody wants the lock and the bounds let them.       *)
DeadLockRemoved ==
  \A n \in 1..MaxDir :
    (/\ dir.number = n /\ \E p \in Process : pc[p] = "crashed" /\ mine[p] = n
     /\ \E p \in Process : pc[p] # "crashed")
      ~> (dir.number # n \/ \A p \in Process : pc[p] = "crashed")

(* Stated by the source and not upheld by it: "Serializes membership snapshots   *)
(* with task creation and claims."                                            *)
MutualExclusion == \A p, q \in Critical : p = q
=============================================================================
