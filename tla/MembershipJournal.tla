------------------------- MODULE MembershipJournal -------------------------
(* The journalled replacement of a team's config, manifest and task files       *)
(* (src/src/team/state.ts). A process that holds the barrier first finishes what *)
(* a journal on disk says, then reads and writes; a change of several files is    *)
(* written to the journal, then to the files one after another. Each write is     *)
(* atomic (renamed into place) and may fail: before it took effect, or after,     *)
(* when the directory cannot be synced. A process may die between any two steps.   *)
EXTENDS Naturals, FiniteSets

CONSTANTS
  Worker, Task,
  Nobody,          \* the owner of a task nobody owns
  NoFile,          \* what a file that does not exist says
  Untouched,       \* stands for a file a change does not name
  FirstWorkers,    \* the members the team starts with
  LateFault,       \* the steps, by style of undoing, whose write may fail after it
                   \* took effect
  MaxGen, MaxCrash, MaxFault    \* bounds

ASSUME JournalAssumption ==
  /\ FirstWorkers \subseteq Worker
  /\ Nobody \notin Worker
  /\ MaxGen \in Nat /\ MaxCrash \in Nat /\ MaxFault \in Nat

VARIABLES
  disk,       \* what the files say
  journal,    \* .membership-task-transaction.json
  txn,        \* how far the process that holds the barrier has got
  call,       \* the change under way, with the files before and after it
  answer,     \* how the last change ended for its caller
  crashes, faults

jvars == <<disk, journal, txn, call, answer, crashes, faults>>

File == {"config", "manifest"} \cup Task
(* The members, the worker names that are used up (next_worker_index) and the    *)
(* generation, in config.json and in manifest.v2.json; the owner of a task and    *)
(* whether it has claimed it.                                                  *)
Membership == [members : SUBSET Worker, spent : SUBSET Worker, gen : 0..MaxGen]
TaskFile == [owner : Worker \cup {Nobody}, claimed : BOOLEAN]
Value == Membership \cup TaskFile \cup {NoFile}

ASSUME ValueAssumption == Untouched \notin Value

Change == [File -> Value \cup {Untouched}]
NoChange == [f \in File |-> Untouched]
Named(c) == {f \in File : c[f] # Untouched}
Changed(d, c) == [f \in File |-> IF c[f] = Untouched THEN d[f] ELSE c[f]]
(* The old contents of the files a change names.                                *)
OldOf(c) == [f \in File |-> IF c[f] = Untouched THEN Untouched ELSE disk[f]]

Phase == {"prepared", "committed"}
Journal == [phase : Phase \cup {"none"}, old : Change, new : Change]
NoJournal == [phase |-> "none", old |-> NoChange, new |-> NoChange]
Direction(j) == IF j.phase = "committed" THEN j.new ELSE j.old

(* The three ways a change is made: writeConfig; a shutdown's change of the      *)
(* config; a scale-down or the roll-back of a scale-up, whose journal says         *)
(* committed from the start. The last of these keeps it for a check.             *)
SaveConfig == [phase |-> "prepared", undo |-> "recover", retain |-> FALSE]
Prepared == [phase |-> "prepared", undo |-> "restore", retain |-> FALSE]
Forward == [phase |-> "committed", undo |-> "recover", retain |-> FALSE]
ForwardKept == [phase |-> "committed", undo |-> "recover", retain |-> TRUE]
Style == {SaveConfig, Prepared, Forward, ForwardKept}

Step == {"out", "replay", "ready", "prepare", "apply", "mark", "clear", "kept",
         "restore", "unlink", "thrown"}
Txn == [step : Step, todo : SUBSET File, new : Change, style : Style, caught : BOOLEAN]
At(s) == [step |-> s, todo |-> {}, new |-> NoChange, style |-> SaveConfig,
          caught |-> FALSE]

Call == [open : {TRUE}, before : [File -> Value], after : [File -> Value]]
NoCall == [open |-> FALSE, before |-> <<>>, after |-> <<>>]

JournalTypeOK ==
  /\ disk \in [File -> Value]
  /\ journal \in Journal
  /\ txn \in Txn
  /\ call \in Call \cup {NoCall}
  /\ answer \in {"none", "ok", "error"}
  /\ crashes \in 0..MaxCrash /\ faults \in 0..MaxFault

JournalInit ==
  /\ disk = [f \in File |-> IF f \in Task THEN NoFile
               ELSE [members |-> FirstWorkers, spent |-> FirstWorkers, gen |-> 0]]
  /\ journal = NoJournal
  /\ txn = At("out")
  /\ call = NoCall
  /\ answer = "none"
  /\ crashes = 0 /\ faults = 0

-----------------------------------------------------------------------------
(* The files are written in the order of the list: tasks, config, manifest.      *)
NextFile ==
  {f \in txn.todo : /\ f = "config" => txn.todo \subseteq {"config", "manifest"}
                    /\ f = "manifest" => txn.todo = {"manifest"}}

WriteFileFrom(c, f) ==
  /\ disk' = [disk EXCEPT ![f] = c[f]]
  /\ UNCHANGED journal
RemoveJournal == journal' = NoJournal /\ UNCHANGED disk

(* recoverTeamMembershipTaskTransaction, on entry or in the catch of a change.    *)
NotRecovering(j, caught, after) == At(after)
Recovering(j, caught, after) ==
  IF j.phase = "none" THEN At(after)
  ELSE [At("replay") EXCEPT !.todo = Named(j.new), !.caught = caught]

Enter ==
  /\ txn.step \in {"out", "thrown"}
  /\ txn' = Recovering(journal, FALSE, "ready")
  /\ UNCHANGED <<disk, journal, call, answer, crashes, faults>>

End(result, s) ==
  /\ txn' = At(s)
  /\ call' = NoCall
  /\ answer' = IF call.open THEN result ELSE answer

Replay(f) ==
  /\ txn.step = "replay" /\ f \in NextFile
  /\ WriteFileFrom(Direction(journal), f)
  /\ txn' = [txn EXCEPT !.todo = @ \ {f}]
  /\ UNCHANGED <<call, answer, crashes, faults>>

ReplayEnd ==
  /\ txn.step = "replay" /\ txn.todo = {}
  /\ RemoveJournal
  /\ End("error", IF txn.caught THEN "thrown" ELSE "ready")
  /\ UNCHANGED <<crashes, faults>>

-----------------------------------------------------------------------------
(* writeConfig and commitTeamMembershipTaskTransaction.                         *)

BeginCall(new, style) ==
  /\ txn.step = "ready" /\ Named(new) # {}
  /\ txn' = [At("prepare") EXCEPT !.new = new, !.style = style]
  /\ call' = [open |-> TRUE, before |-> disk, after |-> Changed(disk, new)]
  /\ answer' = "none"
  /\ UNCHANGED <<disk, journal, crashes, faults>>

NewJournal ==
  /\ journal' = [phase |-> txn.style.phase, old |-> OldOf(txn.new), new |-> txn.new]
  /\ UNCHANGED disk
WriteJournal ==
  /\ txn.step = "prepare"
  /\ NewJournal
  /\ txn' = [txn EXCEPT !.step = "apply", !.todo = Named(txn.new)]
  /\ UNCHANGED <<call, answer, crashes, faults>>

Apply(f) ==
  /\ txn.step = "apply" /\ f \in NextFile
  /\ WriteFileFrom(txn.new, f)
  /\ txn' = [txn EXCEPT !.todo = @ \ {f}, !.step = IF txn.todo = {f} THEN "mark" ELSE "apply"]
  /\ UNCHANGED <<call, answer, crashes, faults>>

MarkJournal == journal' = [journal EXCEPT !.phase = "committed"] /\ UNCHANGED disk
MarkCommitted ==
  /\ txn.step = "mark"
  /\ MarkJournal
  /\ txn' = [txn EXCEPT !.step = IF txn.style.retain THEN "kept" ELSE "clear"]
  /\ UNCHANGED <<call, answer, crashes, faults>>

Clear ==
  /\ txn.step = "clear"
  /\ RemoveJournal
  /\ End("ok", "ready")
  /\ UNCHANGED <<crashes, faults>>

(* finalizeTeamMembershipTaskTransaction, once the caller has read the files back. *)
Finalize ==
  /\ txn.step = "kept"
  /\ RemoveJournal
  /\ End("ok", "ready")
  /\ UNCHANGED <<crashes, faults>>

(* The catch of a prepared change writes the old bytes back and removes the       *)
(* journal.                                                                    *)
Restore(f) ==
  /\ txn.step = "restore" /\ f \in NextFile
  /\ WriteFileFrom(call.before, f)
  /\ txn' = [txn EXCEPT !.todo = @ \ {f}, !.step = IF txn.todo = {f} THEN "unlink" ELSE "restore"]
  /\ UNCHANGED <<call, answer, crashes, faults>>

Unlink ==
  /\ txn.step = "unlink"
  /\ RemoveJournal
  /\ End("error", "thrown")
  /\ UNCHANGED <<crashes, faults>>

(* A single task file is written under the barrier, or removed.                  *)
WriteFile(f, v) ==
  /\ txn.step = "ready"
  /\ disk' = [disk EXCEPT ![f] = v]
  /\ UNCHANGED <<journal, txn, call, answer, crashes, faults>>

Release ==
  /\ txn.step \in {"ready", "thrown"}
  /\ txn' = At("out") /\ answer' = "none"
  /\ UNCHANGED <<disk, journal, call, crashes, faults>>

-----------------------------------------------------------------------------
(* Failures.                                                                  *)

(* The write that comes next, as far as the disk is concerned.                   *)
Effect ==
  \/ txn.step = "prepare" /\ NewJournal
  \/ txn.step = "apply" /\ \E f \in NextFile : WriteFileFrom(txn.new, f)
  \/ txn.step = "mark" /\ MarkJournal
  \/ txn.step \in {"clear", "kept", "unlink"} /\ RemoveJournal
  \/ txn.step = "restore" /\ \E f \in NextFile : WriteFileFrom(call.before, f)
  \/ /\ txn.step = "replay"
     /\ \/ txn.todo = {} /\ RemoveJournal
        \/ \E f \in NextFile : WriteFileFrom(Direction(journal), f)

(* Inside the try of a change a failure is caught; elsewhere it reaches the caller. *)
InTry == txn.step \in {"apply", "mark", "clear"}
Caught ==
  IF txn.style.undo = "restore"
  THEN [txn EXCEPT !.step = "restore", !.todo = Named(txn.new)]
  ELSE Recovering(journal', TRUE, "thrown")

WriteFails ==
  /\ txn.step \notin {"out", "ready", "thrown"} /\ faults < MaxFault
  /\ faults' = faults + 1
  /\ \/ UNCHANGED <<disk, journal>>
     \/ <<txn.step, txn.style.undo>> \in LateFault /\ Effect
  /\ IF InTry /\ Caught.step # "thrown"
     THEN txn' = Caught /\ UNCHANGED <<call, answer>>
     ELSE End("error", "thrown")
  /\ UNCHANGED crashes

(* The same for the write of a single file.                                     *)
WriteFileFails(f, v) ==
  /\ txn.step = "ready" /\ faults < MaxFault
  /\ faults' = faults + 1
  /\ disk' \in {disk, [disk EXCEPT ![f] = v]}
  /\ txn' = At("thrown")
  /\ UNCHANGED <<journal, call, answer, crashes>>

(* The process dies; the barrier goes to the next when its lock is stale.         *)
Crash ==
  /\ txn.step # "out" /\ crashes < MaxCrash
  /\ crashes' = crashes + 1
  /\ txn' = At("out")
  /\ call' = NoCall
  /\ answer' = "none"
  /\ UNCHANGED <<disk, journal, faults>>

-----------------------------------------------------------------------------
JournalStep ==
  \/ Enter \/ ReplayEnd \/ WriteJournal \/ MarkCommitted \/ Clear \/ Finalize
  \/ Unlink \/ Release \/ WriteFails \/ Crash
  \/ \E f \in File : Replay(f) \/ Apply(f) \/ Restore(f)

JournalNext ==
  \/ JournalStep
  \/ \E new \in Change, style \in Style : BeginCall(new, style)
  \/ \E f \in File, v \in Value : WriteFile(f, v) \/ WriteFileFails(f, v)

JournalSpec == JournalInit /\ [][JournalNext]_jvars

-----------------------------------------------------------------------------
(* Properties.                                                               *)

(* What the files say to whoever enters the barrier next: the journal decides.    *)
Resolved == Changed(disk, Direction(journal))

Abstract == INSTANCE MembershipStore WITH
  Files <- File, Contents <- Value, content <- Resolved

(* "Persist config/manifest and task membership changes as an old-or-new journaled  *)
(* generation" (state.ts): whatever fails and whenever a process dies, the files     *)
(* change as the store promises, whole or not at all. Not upheld when a "restore"     *)
(* style's removal of its journal fails late (LateFault): the old bytes are then       *)
(* written back with no journal.                                                *)
ImplementsStore == Abstract!StoreSpec
=============================================================================
