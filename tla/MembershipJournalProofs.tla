---------------------- MODULE MembershipJournalProofs ----------------------
(* The journalled change of the membership files keeps the promise of             *)
(* MembershipStore for any workers, tasks and generations, and any number of        *)
(* failures and deaths, if the last step of a shutdown's change cannot fail after    *)
(* it took effect.                                                              *)
EXTENDS MembershipJournal, TLAPS

ClearIsLast == <<"clear", "restore">> \notin LateFault

CallStep == {"prepare", "apply", "mark", "clear", "kept", "restore", "unlink"}
WrittenStep == CallStep \ {"prepare"}

(* What a change keeps of the files it names, and what it makes of them.           *)
OldIn(b, n) == [f \in File |-> IF n[f] = Untouched THEN Untouched ELSE b[f]]

(* Old and new bytes are of the same files.                                      *)
JournalMatches ==
  /\ \A f \in File : journal.old[f] = Untouched <=> journal.new[f] = Untouched
  /\ journal.phase = "none" => journal = NoJournal

(* Between two changes no call is open; whoever may read sees no journal.          *)
Settled ==
  /\ txn.step \in {"out", "ready", "thrown"} => call = NoCall
  /\ txn.step = "ready" => journal = NoJournal
  /\ txn.step \in {"mark", "clear", "kept", "unlink"} => txn.todo = {}

(* What is replayed so far is what the journal says.                              *)
Replaying ==
  txn.step = "replay" =>
    /\ journal.phase \in Phase
    /\ \A f \in txn.todo : journal.new[f] # Untouched
    /\ \A f \in File \ txn.todo : journal.new[f] # Untouched => disk[f] = Direction(journal)[f]
    /\ call # NoCall => Resolved \in {call.before, call.after}

(* The files a change does not name stay; the others are old or new as far as the   *)
(* change has got, and the journal knows both.                                    *)
InCall ==
  txn.step \in CallStep =>
    /\ call \in Call
    /\ call.after = Changed(call.before, txn.new)
    /\ \A f \in txn.todo : txn.new[f] # Untouched
    /\ \A f \in File : txn.new[f] = Untouched => disk[f] = call.before[f]
Preparing == txn.step = "prepare" => journal = NoJournal /\ disk = call.before
Written ==
  txn.step \in WrittenStep =>
    /\ journal.phase \in Phase
    /\ journal.new = txn.new /\ journal.old = OldIn(call.before, txn.new)
Applying ==
  txn.step \in {"apply", "mark", "clear", "kept"} =>
    \A f \in File \ txn.todo : txn.new[f] # Untouched => disk[f] = txn.new[f]
Restoring ==
  txn.step \in {"restore", "unlink"} =>
    \A f \in File \ txn.todo : txn.new[f] # Untouched => disk[f] = call.before[f]

JInv ==
  /\ JournalTypeOK /\ JournalMatches /\ Settled /\ Replaying
  /\ InCall /\ Preparing /\ Written /\ Applying /\ Restoring

-----------------------------------------------------------------------------
(* Basic facts.                                                              *)

LEMMA NoChangeFacts ==
  /\ NoChange \in Change /\ NoJournal \in Journal /\ Named(NoChange) = {}
  /\ \A f \in File : NoChange[f] = Untouched
BY DEF NoChange, Change, NoJournal, Journal, Named

LEMMA AtFacts ==
  ASSUME NEW s \in Step
  PROVE  At(s) \in Txn /\ At(s).step = s /\ At(s).todo = {}
BY NoChangeFacts DEF At, Txn, Style, SaveConfig

(* A file that is written holds a value.                                        *)
LEMMA ChangedTyped ==
  ASSUME NEW d \in [File -> Value], NEW c \in Change
  PROVE  Changed(d, c) \in [File -> Value]
<1>1. ASSUME NEW f \in File PROVE (IF c[f] = Untouched THEN d[f] ELSE c[f]) \in Value
  BY DEF Change
<1> QED
  BY <1>1 DEF Changed

(* With no journal the files say what they say.                                  *)
LEMMA NoJournalResolved ==
  ASSUME NEW d \in [File -> Value]
  PROVE  Changed(d, Direction(NoJournal)) = d
BY DEF Changed, Direction, NoJournal, NoChange

(* While a change runs, its journal resolves to the files before it or after it.    *)
LEMMA WrittenResolved ==
  ASSUME NEW d \in [File -> Value], NEW b \in [File -> Value], NEW n \in Change,
         NEW j \in Journal, j.phase \in Phase, j.new = n, j.old = OldIn(b, n),
         \A f \in File : n[f] = Untouched => d[f] = b[f]
  PROVE  Changed(d, Direction(j)) = IF j.phase = "committed" THEN Changed(b, n) ELSE b
<1>1. CASE j.phase = "committed"
  BY <1>1 DEF Changed, Direction
<1>2. CASE j.phase # "committed"
  <2>1. ASSUME NEW f \in File
        PROVE  (IF OldIn(b, n)[f] = Untouched THEN d[f] ELSE OldIn(b, n)[f]) = b[f]
    BY ValueAssumption DEF OldIn
  <2> QED
    BY <1>2, <2>1 DEF Changed, Direction
<1> QED
  BY <1>1, <1>2

(* Writing a file the journal names changes nothing of what it resolves to.        *)
LEMMA WriteResolved ==
  ASSUME NEW d \in [File -> Value], NEW c \in Change, NEW f \in File, NEW v,
         c[f] # Untouched
  PROVE  Changed([d EXCEPT ![f] = v], c) = Changed(d, c)
BY DEF Changed

LEMMA DirectionTyped ==
  ASSUME JournalTypeOK, JournalMatches
  PROVE  /\ Direction(journal) \in Change
         /\ \A f \in File : journal.new[f] # Untouched <=> Direction(journal)[f] # Untouched
         /\ \A f \in File : journal.new[f] # Untouched => Direction(journal)[f] \in Value
BY DEF JournalTypeOK, JournalMatches, Journal, Direction, Change

-----------------------------------------------------------------------------
LEMMA InitJInv == JournalInit => JInv
<1> SUFFICES ASSUME JournalInit PROVE JInv
  OBVIOUS
<1>1. "out" \in Step /\ 0 \in 0..MaxGen /\ 0 \in 0..MaxCrash /\ 0 \in 0..MaxFault
  BY JournalAssumption DEF Step
<1>2. disk \in [File -> Value]
  <2>1. [members |-> FirstWorkers, spent |-> FirstWorkers, gen |-> 0] \in Membership
    BY <1>1, JournalAssumption DEF Membership
  <2> QED
    BY <2>1 DEF JournalInit, Value
<1>3. JournalTypeOK
  BY <1>1, <1>2, AtFacts, NoChangeFacts DEF JournalInit, JournalTypeOK
<1>4. txn.step = "out"
  BY <1>1, AtFacts DEF JournalInit
<1>5. JournalMatches /\ Settled /\ Replaying /\ InCall /\ Preparing /\ Written /\ Applying /\ Restoring
  BY <1>4, NoChangeFacts DEF JournalInit, JournalMatches, Settled, Replaying, InCall, Preparing,
     Written, Applying, Restoring, NoJournal, CallStep, WrittenStep
<1> QED
  BY <1>3, <1>5 DEF JInv

-----------------------------------------------------------------------------
(* The invariant holds at a step where no change runs and nothing is replayed.     *)
LEMMA AtRest ==
  ASSUME JournalTypeOK', JournalMatches', txn'.step \in {"out", "ready", "thrown"},
         call' = NoCall, txn'.step = "ready" => journal' = NoJournal
  PROVE  JInv'
BY DEF JInv, Settled, Replaying, InCall, Preparing, Written, Applying, Restoring,
   CallStep, WrittenStep

(* Beginning to replay a journal, or finding none.                                *)
LEMMA RecoveringFacts ==
  ASSUME NEW j \in Journal, j.phase = "none" => j = NoJournal, NEW caught \in BOOLEAN,
         NEW after \in Step
  PROVE  /\ Recovering(j, caught, after) \in Txn
         /\ j.phase = "none" => Recovering(j, caught, after).step = after
         /\ j.phase # "none" => /\ Recovering(j, caught, after).step = "replay"
                                /\ Recovering(j, caught, after).todo = Named(j.new)
<1>1. "replay" \in Step /\ Named(j.new) \subseteq File
  BY DEF Step, Named
<1>2. At("replay") \in Txn /\ At(after) \in Txn /\ At(after).step = after
  BY <1>1, AtFacts
<1>3. [At("replay") EXCEPT !.todo = Named(j.new), !.caught = caught] \in Txn
  BY <1>1, <1>2 DEF Txn
<1>4. At("replay").step = "replay"
  BY <1>1, AtFacts
<1> QED
  BY <1>1, <1>2, <1>3, <1>4 DEF Recovering, Txn

LEMMA ReplayBegins ==
  ASSUME JournalTypeOK', JournalMatches', txn'.step = "replay", txn'.todo = Named(journal'.new),
         journal'.phase \in Phase, call' # NoCall => Resolved' \in {call'.before, call'.after}
  PROVE  JInv'
BY DEF JInv, Settled, Replaying, InCall, Preparing, Written, Applying, Restoring,
   CallStep, WrittenStep, Named

LEMMA EnterKeeps == JInv /\ Enter => JInv'
<1> SUFFICES ASSUME JInv, Enter PROVE JInv'
  OBVIOUS
<1> USE DEF JInv
<1>1. call' = NoCall /\ journal' = journal /\ disk' = disk
  BY DEF Enter, Settled
<1>2. "ready" \in Step /\ FALSE \in BOOLEAN
  BY DEF Step
<1>3. journal \in Journal
  BY DEF JournalTypeOK
<1>4. JournalMatches'
  BY <1>1 DEF JournalMatches
<1>5. /\ txn' \in Txn
      /\ journal.phase = "none" => txn'.step = "ready"
      /\ journal.phase # "none" => txn'.step = "replay" /\ txn'.todo = Named(journal.new)
  BY <1>2, <1>3, RecoveringFacts DEF Enter, JournalMatches
<1>6. JournalTypeOK'
  BY <1>1, <1>5 DEF JournalTypeOK, Enter
<1>7. CASE journal.phase = "none"
  BY <1>1, <1>4, <1>5, <1>6, <1>7, AtRest DEF JournalMatches
<1>8. CASE journal.phase # "none"
  <2>1. journal'.phase \in Phase
    BY <1>1, <1>3, <1>8 DEF Journal
  <2> QED
    BY <1>1, <1>4, <1>5, <1>6, <1>8, <2>1, ReplayBegins
<1> QED
  BY <1>7, <1>8

LEMMA ReplayKeeps == ASSUME JInv, NEW f \in File, Replay(f) PROVE JInv'
<1> USE DEF JInv
<1>1. /\ txn.step = "replay" /\ f \in txn.todo /\ journal' = journal /\ call' = call
      /\ disk' = [disk EXCEPT ![f] = Direction(journal)[f]]
      /\ txn' = [txn EXCEPT !.todo = @ \ {f}]
  BY DEF Replay, NextFile, WriteFileFrom
<1>2. /\ journal.new[f] # Untouched /\ Direction(journal)[f] # Untouched
      /\ Direction(journal)[f] \in Value /\ Direction(journal) \in Change
  BY <1>1, DirectionTyped DEF Replaying
<1>3. disk \in [File -> Value] /\ txn \in Txn
  BY DEF JournalTypeOK
<1>4. disk' \in [File -> Value] /\ txn' \in Txn /\ txn'.step = "replay" /\ txn'.todo = txn.todo \ {f}
  BY <1>1, <1>2, <1>3 DEF Txn
<1>5. JournalTypeOK'
  BY <1>1, <1>4 DEF JournalTypeOK, Replay
<1>6. Direction(journal)' = Direction(journal)
  BY <1>1 DEF Direction
<1>7. Resolved' = Resolved
  BY <1>1, <1>2, <1>3, <1>6, WriteResolved DEF Resolved
<1>8. Replaying'
  <2>1. ASSUME NEW g \in File \ txn'.todo, journal.new[g] # Untouched
        PROVE  disk'[g] = Direction(journal)[g]
    BY <1>1, <1>3, <1>4, <2>1 DEF Replaying
  <2> QED
    BY <1>1, <1>4, <1>6, <1>7, <2>1 DEF Replaying
<1>9. JournalMatches' /\ Settled'
  BY <1>1, <1>4 DEF JournalMatches, Settled
<1>10. InCall' /\ Preparing' /\ Written' /\ Applying' /\ Restoring'
  BY <1>4 DEF InCall, Preparing, Written, Applying, Restoring, CallStep, WrittenStep
<1> QED
  BY <1>5, <1>8, <1>9, <1>10

(* The end of a call, or of a replay, at a step where nothing runs.                 *)
LEMMA EndKeeps ==
  ASSUME JInv, NEW result \in {"ok", "error"}, NEW s \in {"ready", "thrown"}, End(result, s),
         disk' \in [File -> Value], journal' \in Journal, JournalMatches',
         s = "ready" => journal' = NoJournal, crashes' \in 0..MaxCrash, faults' \in 0..MaxFault
  PROVE  JInv'
<1>1. s \in Step
  BY DEF Step
<1>2. txn' \in Txn /\ txn'.step = s /\ call' = NoCall
  BY <1>1, AtFacts DEF End
<1>3. answer' \in {"none", "ok", "error"}
  BY DEF End, JInv, JournalTypeOK
<1>4. JournalTypeOK'
  BY <1>2, <1>3 DEF JournalTypeOK
<1> QED
  BY <1>2, <1>4, AtRest

LEMMA NoJournalMatches == journal' = NoJournal => journal' \in Journal /\ JournalMatches'
BY NoChangeFacts DEF JournalMatches, NoJournal

LEMMA ReplayEndKeeps == JInv /\ ReplayEnd => JInv'
<1> SUFFICES ASSUME JInv, ReplayEnd PROVE JInv'
  OBVIOUS
<1>1. journal' = NoJournal /\ disk' = disk /\ crashes' = crashes /\ faults' = faults
  BY DEF ReplayEnd, RemoveJournal
<1>2. disk' \in [File -> Value] /\ crashes' \in 0..MaxCrash /\ faults' \in 0..MaxFault
  BY <1>1 DEF JInv, JournalTypeOK
<1>3. CASE txn.caught
  BY <1>1, <1>2, <1>3, NoJournalMatches, EndKeeps DEF ReplayEnd
<1>4. CASE ~txn.caught
  BY <1>1, <1>2, <1>4, NoJournalMatches, EndKeeps DEF ReplayEnd
<1> QED
  BY <1>3, <1>4

(* A change ends by the removal of its journal.                                  *)
LEMMA RemovalKeeps ==
  ASSUME JInv, Clear \/ Finalize \/ Unlink
  PROVE  JInv'
<1>1. journal' = NoJournal /\ disk' = disk /\ crashes' = crashes /\ faults' = faults
  BY DEF Clear, Finalize, Unlink, RemoveJournal
<1>2. disk' \in [File -> Value] /\ crashes' \in 0..MaxCrash /\ faults' \in 0..MaxFault
  BY <1>1 DEF JInv, JournalTypeOK
<1>3. End("ok", "ready") \/ End("error", "thrown")
  BY DEF Clear, Finalize, Unlink
<1> QED
  BY <1>1, <1>2, <1>3, NoJournalMatches, EndKeeps

LEMMA BeginCallKeeps ==
  ASSUME JInv, NEW new \in Change, NEW style \in Style, BeginCall(new, style)
  PROVE  JInv'
<1> USE DEF JInv
<1>1. /\ txn.step = "ready" /\ journal = NoJournal /\ journal' = journal /\ disk' = disk
      /\ crashes' = crashes /\ faults' = faults
      /\ call' = [open |-> TRUE, before |-> disk, after |-> Changed(disk, new)]
      /\ txn' = [At("prepare") EXCEPT !.new = new, !.style = style]
  BY DEF BeginCall, Settled
<1>2. disk \in [File -> Value] /\ Changed(disk, new) \in [File -> Value]
  BY ChangedTyped DEF JournalTypeOK
<1>3. call' \in Call /\ call'.before = disk /\ call'.after = Changed(disk, new)
  BY <1>1, <1>2 DEF Call
<1>4. "prepare" \in Step
  BY DEF Step
<1>5. At("prepare") \in Txn /\ At("prepare").step = "prepare" /\ At("prepare").todo = {}
  BY <1>4, AtFacts
<1>6. txn' \in Txn /\ txn'.step = "prepare" /\ txn'.new = new /\ txn'.todo = {}
  BY <1>1, <1>5 DEF Txn
<1>7. JournalTypeOK'
  BY <1>1, <1>3, <1>6 DEF JournalTypeOK, BeginCall
<1>8. InCall' /\ Preparing' /\ JournalMatches'
  BY <1>1, <1>3, <1>6 DEF InCall, Preparing, JournalMatches
<1>9. Settled' /\ Replaying' /\ Written' /\ Applying' /\ Restoring'
  BY <1>6 DEF Settled, Replaying, Written, Applying, Restoring, WrittenStep, CallStep
<1> QED
  BY <1>7, <1>8, <1>9

-----------------------------------------------------------------------------
(* The steps of a change.                                                     *)

LEMMA OldInMatches ==
  ASSUME NEW b \in [File -> Value], NEW n \in Change
  PROVE  OldIn(b, n) \in Change /\ \A f \in File : OldIn(b, n)[f] = Untouched <=> n[f] = Untouched
BY ValueAssumption DEF OldIn, Change

(* The journal that is written first.                                           *)
LEMMA NewJournalFacts ==
  ASSUME JInv, txn.step = "prepare", NewJournal
  PROVE  /\ disk' = disk /\ journal' \in Journal /\ JournalMatches'
         /\ journal'.phase \in Phase /\ journal'.new = txn.new
         /\ journal'.old = OldIn(call.before, txn.new)
<1>1. call \in Call /\ disk = call.before /\ txn \in Txn /\ disk \in [File -> Value]
  BY DEF JInv, InCall, Preparing, JournalTypeOK, CallStep
<1>2. OldOf(txn.new) = OldIn(call.before, txn.new)
  BY <1>1 DEF OldOf, OldIn
<1>3. txn.new \in Change /\ txn.style.phase \in Phase
  BY <1>1 DEF Txn, Style, SaveConfig, Prepared, Forward, ForwardKept, Phase
<1>4. /\ OldIn(call.before, txn.new) \in Change
      /\ \A f \in File : OldIn(call.before, txn.new)[f] = Untouched <=> txn.new[f] = Untouched
  BY <1>1, <1>3, OldInMatches
<1>5. journal' = [phase |-> txn.style.phase, old |-> OldIn(call.before, txn.new), new |-> txn.new]
  BY <1>2 DEF NewJournal
<1>6. journal'.phase # "none"
  BY <1>3, <1>5 DEF Phase
<1> QED
  BY <1>3, <1>4, <1>5, <1>6 DEF NewJournal, Journal, JournalMatches

LEMMA WriteJournalKeeps == JInv /\ WriteJournal => JInv'
<1> SUFFICES ASSUME JInv, WriteJournal PROVE JInv'
  OBVIOUS
<1> USE DEF JInv
<1>1. /\ txn.step = "prepare" /\ NewJournal /\ call' = call
      /\ txn' = [txn EXCEPT !.step = "apply", !.todo = Named(txn.new)]
  BY DEF WriteJournal
<1>2. /\ disk' = disk /\ journal' \in Journal /\ JournalMatches'
      /\ journal'.phase \in Phase /\ journal'.new = txn.new
      /\ journal'.old = OldIn(call.before, txn.new)
  BY <1>1, NewJournalFacts
<1>3. Named(txn.new) \subseteq File /\ "apply" \in Step /\ txn \in Txn
  BY DEF Named, Step, JournalTypeOK
<1>4. /\ txn' \in Txn /\ txn'.step = "apply" /\ txn'.todo = Named(txn.new)
      /\ txn'.new = txn.new
  BY <1>1, <1>3 DEF Txn
<1>5. JournalTypeOK'
  BY <1>1, <1>2, <1>4 DEF JournalTypeOK, WriteJournal
<1>6. InCall'
  BY <1>1, <1>2, <1>4 DEF InCall, CallStep, Named
<1>7. Written' /\ Applying'
  BY <1>1, <1>2, <1>4 DEF Written, Applying, Named
<1>8. Settled' /\ Replaying' /\ Preparing' /\ Restoring'
  BY <1>4 DEF Settled, Replaying, Preparing, Restoring
<1> QED
  BY <1>2, <1>5, <1>6, <1>7, <1>8

(* One file of the change, new or old, is written.                               *)
LEMMA FileOfChange ==
  ASSUME JInv, txn.step \in {"apply", "restore"}, NEW f \in txn.todo,
         NEW c \in {txn.new, call.before}, WriteFileFrom(c, f)
  PROVE  /\ f \in File /\ txn.new[f] # Untouched /\ journal' = journal
         /\ disk' \in [File -> Value] /\ disk'[f] = c[f]
         /\ \A g \in File : g # f => disk'[g] = disk[g]
<1>1. call \in Call /\ txn \in Txn /\ disk \in [File -> Value] /\ txn.new[f] # Untouched
  BY DEF JInv, InCall, CallStep, JournalTypeOK
<1>2. f \in File /\ c[f] \in Value
  BY <1>1 DEF Txn, Call, Change
<1> QED
  BY <1>1, <1>2 DEF WriteFileFrom

LEMMA ApplyKeeps == ASSUME JInv, NEW f \in File, Apply(f) PROVE JInv'
<1> USE DEF JInv
<1>1. /\ txn.step = "apply" /\ f \in txn.todo /\ WriteFileFrom(txn.new, f) /\ call' = call
      /\ txn' = [txn EXCEPT !.todo = @ \ {f}, !.step = IF txn.todo = {f} THEN "mark" ELSE "apply"]
  BY DEF Apply, NextFile
<1>2. /\ txn.new[f] # Untouched /\ journal' = journal
      /\ disk' \in [File -> Value] /\ disk'[f] = txn.new[f]
      /\ \A g \in File : g # f => disk'[g] = disk[g]
  BY <1>1, FileOfChange
<1>3. /\ txn' \in Txn /\ txn'.todo = txn.todo \ {f} /\ txn'.new = txn.new
      /\ txn'.step \in {"apply", "mark"}
      /\ txn'.step = "mark" => txn'.todo = {}
  <2>1. txn \in Txn /\ "apply" \in Step /\ "mark" \in Step
    BY DEF JournalTypeOK, Step
  <2> QED
    BY <1>1, <2>1 DEF Txn
<1>4. JournalTypeOK' /\ JournalMatches'
  BY <1>1, <1>2, <1>3 DEF JournalTypeOK, JournalMatches, Apply
<1>5. InCall'
  BY <1>1, <1>2, <1>3 DEF InCall, CallStep
<1>6. Written'
  BY <1>1, <1>2, <1>3 DEF Written, WrittenStep, CallStep
<1>7. Applying'
  BY <1>1, <1>2, <1>3 DEF Applying
<1>8. Settled' /\ Replaying' /\ Preparing' /\ Restoring'
  BY <1>3 DEF Settled, Replaying, Preparing, Restoring
<1> QED
  BY <1>4, <1>5, <1>6, <1>7, <1>8

LEMMA RestoreKeeps == ASSUME JInv, NEW f \in File, Restore(f) PROVE JInv'
<1> USE DEF JInv
<1>1. /\ txn.step = "restore" /\ f \in txn.todo /\ WriteFileFrom(call.before, f) /\ call' = call
      /\ txn' = [txn EXCEPT !.todo = @ \ {f}, !.step = IF txn.todo = {f} THEN "unlink" ELSE "restore"]
  BY DEF Restore, NextFile
<1>2. /\ txn.new[f] # Untouched /\ journal' = journal
      /\ disk' \in [File -> Value] /\ disk'[f] = call.before[f]
      /\ \A g \in File : g # f => disk'[g] = disk[g]
  BY <1>1, FileOfChange
<1>3. /\ txn' \in Txn /\ txn'.todo = txn.todo \ {f} /\ txn'.new = txn.new
      /\ txn'.step \in {"restore", "unlink"}
      /\ txn'.step = "unlink" => txn'.todo = {}
  <2>1. txn \in Txn /\ "restore" \in Step /\ "unlink" \in Step
    BY DEF JournalTypeOK, Step
  <2> QED
    BY <1>1, <2>1 DEF Txn
<1>4. JournalTypeOK' /\ JournalMatches'
  BY <1>1, <1>2, <1>3 DEF JournalTypeOK, JournalMatches, Restore
<1>5. InCall'
  BY <1>1, <1>2, <1>3 DEF InCall, CallStep
<1>6. Written'
  BY <1>1, <1>2, <1>3 DEF Written, WrittenStep, CallStep
<1>7. Restoring'
  BY <1>1, <1>2, <1>3 DEF Restoring
<1>8. Settled' /\ Replaying' /\ Preparing' /\ Applying'
  BY <1>3 DEF Settled, Replaying, Preparing, Applying
<1> QED
  BY <1>4, <1>5, <1>6, <1>7, <1>8

(* The journal says committed once every file is new.                            *)
LEMMA MarkJournalFacts ==
  ASSUME JInv, txn.step = "mark", MarkJournal
  PROVE  /\ disk' = disk /\ journal' \in Journal /\ JournalMatches'
         /\ journal'.phase = "committed" /\ journal'.new = txn.new
         /\ journal'.old = OldIn(call.before, txn.new)
<1>1. /\ journal \in Journal /\ journal.new = txn.new
      /\ journal.old = OldIn(call.before, txn.new) /\ JournalMatches
  BY DEF JInv, JournalTypeOK, Written, WrittenStep, CallStep
<1>2. journal' = [journal EXCEPT !.phase = "committed"] /\ disk' = disk
  BY DEF MarkJournal
<1>3. /\ journal' \in Journal /\ journal'.phase = "committed" /\ journal'.old = journal.old
      /\ journal'.new = journal.new
  BY <1>1, <1>2 DEF Journal, Phase
<1> QED
  BY <1>1, <1>2, <1>3 DEF JournalMatches

LEMMA MarkCommittedKeeps == JInv /\ MarkCommitted => JInv'
<1> SUFFICES ASSUME JInv, MarkCommitted PROVE JInv'
  OBVIOUS
<1> USE DEF JInv
<1>1. /\ txn.step = "mark" /\ MarkJournal /\ call' = call /\ txn.todo = {}
      /\ txn' = [txn EXCEPT !.step = IF txn.style.retain THEN "kept" ELSE "clear"]
  BY DEF MarkCommitted, Settled
<1>2. /\ disk' = disk /\ journal' \in Journal /\ JournalMatches'
      /\ journal'.phase = "committed" /\ journal'.new = txn.new
      /\ journal'.old = OldIn(call.before, txn.new)
  BY <1>1, MarkJournalFacts
<1>3. txn \in Txn /\ "kept" \in Step /\ "clear" \in Step
  BY DEF JournalTypeOK, Step
<1>4. /\ txn' \in Txn /\ txn'.todo = {} /\ txn'.new = txn.new
      /\ txn'.step \in {"kept", "clear"}
  BY <1>1, <1>3 DEF Txn
<1>5. JournalTypeOK'
  BY <1>1, <1>2, <1>4 DEF JournalTypeOK, MarkCommitted
<1>6. InCall' /\ Written'
  BY <1>1, <1>2, <1>4 DEF InCall, Written, CallStep, WrittenStep, Phase
<1>7. Applying'
  BY <1>1, <1>2, <1>4 DEF Applying
<1>8. Settled' /\ Replaying' /\ Preparing' /\ Restoring'
  BY <1>4 DEF Settled, Replaying, Preparing, Restoring
<1> QED
  BY <1>2, <1>5, <1>6, <1>7, <1>8

-----------------------------------------------------------------------------
(* Failures and deaths.                                                       *)

LEMMA TaskWriteKeeps ==
  ASSUME JInv, NEW f \in File, NEW v \in Value, WriteFile(f, v) \/ WriteFileFails(f, v)
  PROVE  JInv'
<1> USE DEF JInv
<1>1. /\ txn.step = "ready" /\ journal' = journal /\ call' = call /\ call = NoCall
      /\ journal = NoJournal
      /\ disk' \in {disk, [disk EXCEPT ![f] = v]}
      /\ txn' \in {txn, At("thrown")}
  BY DEF WriteFile, WriteFileFails, Settled
<1>2. disk' \in [File -> Value] /\ "thrown" \in Step /\ txn \in Txn
  BY <1>1 DEF JournalTypeOK, Step
<1>3. txn' \in Txn /\ txn'.step \in {"ready", "thrown"}
  BY <1>1, <1>2, AtFacts
<1>4. faults' \in 0..MaxFault /\ crashes' = crashes /\ answer' = answer
  BY JournalAssumption DEF WriteFile, WriteFileFails, JournalTypeOK
<1>5. JournalTypeOK' /\ JournalMatches'
  BY <1>1, <1>2, <1>3, <1>4 DEF JournalTypeOK, JournalMatches
<1> QED
  BY <1>1, <1>3, <1>5, AtRest

LEMMA ReleaseKeeps == JInv /\ Release => JInv'
<1> SUFFICES ASSUME JInv, Release PROVE JInv'
  OBVIOUS
<1> USE DEF JInv
<1>1. "out" \in Step
  BY DEF Step
<1>2. txn' \in Txn /\ txn'.step = "out" /\ call' = NoCall
  BY <1>1, AtFacts DEF Release, Settled
<1>3. JournalTypeOK' /\ JournalMatches'
  BY <1>2 DEF JournalTypeOK, JournalMatches, Release
<1> QED
  BY <1>2, <1>3, AtRest

LEMMA CrashKeeps == JInv /\ Crash => JInv'
<1> SUFFICES ASSUME JInv, Crash PROVE JInv'
  OBVIOUS
<1> USE DEF JInv
<1>1. "out" \in Step
  BY DEF Step
<1>2. txn' \in Txn /\ txn'.step = "out" /\ call' = NoCall
  BY <1>1, AtFacts DEF Crash
<1>3. crashes' \in 0..MaxCrash
  BY JournalAssumption DEF Crash, JournalTypeOK
<1>4. JournalTypeOK' /\ JournalMatches'
  BY <1>2, <1>3 DEF JournalTypeOK, JournalMatches, Crash
<1> QED
  BY <1>2, <1>4, AtRest

(* A step that writes, whether or not it took effect before it failed.             *)
Busy == txn.step \notin {"out", "ready", "thrown"}
Failed == UNCHANGED <<disk, journal>> \/ Effect

LEMMA BusySteps == JInv /\ Busy => txn.step \in CallStep \cup {"replay"}
<1> SUFFICES ASSUME JInv, Busy PROVE txn.step \in CallStep \cup {"replay"}
  OBVIOUS
<1>1. txn.step \in Step
  BY DEF JInv, JournalTypeOK, Txn
<1> QED
  BY <1>1 DEF Step, Busy, CallStep

(* The journal and the files of a change that failed in the middle.                *)
LEMMA FailedWritten ==
  ASSUME JInv, txn.step \in {"apply", "mark", "restore"}, Failed
  PROVE  /\ disk' \in [File -> Value] /\ journal' \in Journal /\ JournalMatches'
         /\ journal'.phase \in Phase /\ journal'.new = txn.new
         /\ journal'.old = OldIn(call.before, txn.new)
         /\ \A f \in File : txn.new[f] = Untouched => disk'[f] = call.before[f]
<1> USE DEF JInv
<1>1. /\ disk \in [File -> Value] /\ journal \in Journal /\ JournalMatches
      /\ journal.phase \in Phase /\ journal.new = txn.new
      /\ journal.old = OldIn(call.before, txn.new)
      /\ \A f \in File : txn.new[f] = Untouched => disk[f] = call.before[f]
  BY DEF JournalTypeOK, Written, WrittenStep, CallStep, InCall
<1>2. CASE UNCHANGED <<disk, journal>>
  BY <1>1, <1>2 DEF JournalMatches
<1>3. CASE txn.step = "mark" /\ MarkJournal
  BY <1>1, <1>3, MarkJournalFacts DEF Phase
<1>4. ASSUME txn.step \in {"apply", "restore"}, NEW f \in txn.todo,
             NEW c \in {txn.new, call.before}, WriteFileFrom(c, f)
      PROVE  /\ disk' \in [File -> Value] /\ journal' = journal
             /\ \A g \in File : txn.new[g] = Untouched => disk'[g] = call.before[g]
  BY <1>1, <1>4, FileOfChange
<1>5. CASE txn.step # "mark" /\ Effect
  <2>1. PICK f \in txn.todo, c \in {txn.new, call.before} : WriteFileFrom(c, f)
    BY <1>5 DEF Effect, NextFile
  <2>2. txn.step \in {"apply", "restore"}
    BY <1>5
  <2> QED
    BY <1>1, <1>4, <2>1, <2>2 DEF JournalMatches
<1> QED
  BY <1>2, <1>3, <1>5 DEF Failed, Effect

LEMMA FailedTyped ==
  ASSUME JInv, Busy, Failed
  PROVE  disk' \in [File -> Value] /\ journal' \in Journal /\ JournalMatches'
<1> USE DEF JInv
<1>1. CASE UNCHANGED <<disk, journal>>
  BY <1>1 DEF JournalTypeOK, JournalMatches
<1>2. CASE RemoveJournal
  BY <1>2, NoJournalMatches DEF RemoveJournal, JournalTypeOK
<1>3. CASE txn.step = "prepare" /\ NewJournal
  BY <1>3, NewJournalFacts DEF JournalTypeOK
<1>4. CASE txn.step \in {"apply", "mark", "restore"}
  BY <1>4, FailedWritten
<1>5. CASE txn.step = "replay" /\ \E f \in NextFile : WriteFileFrom(Direction(journal), f)
  <2>1. PICK f \in txn.todo : WriteFileFrom(Direction(journal), f)
    BY <1>5 DEF NextFile
  <2>2. f \in File /\ Direction(journal)[f] \in Value
    BY <1>5, DirectionTyped DEF Replaying, JournalTypeOK, Txn
  <2> QED
    BY <2>1, <2>2 DEF WriteFileFrom, JournalTypeOK, JournalMatches
<1> QED
  BY <1>1, <1>2, <1>3, <1>4, <1>5 DEF Failed, Effect

(* The catch of a change that writes the old bytes back.                          *)
LEMMA RestoreBegins ==
  ASSUME JInv, ClearIsLast, Failed, txn.step \in {"apply", "mark", "clear"},
         txn.step = "clear" => UNCHANGED <<disk, journal>>,
         txn' = [txn EXCEPT !.step = "restore", !.todo = Named(txn.new)],
         call' = call, answer' = answer, crashes' = crashes, faults' \in 0..MaxFault
  PROVE  JInv'
<1> USE DEF JInv
<1>1. /\ disk' \in [File -> Value] /\ journal' \in Journal /\ JournalMatches'
      /\ journal'.phase \in Phase /\ journal'.new = txn.new
      /\ journal'.old = OldIn(call.before, txn.new)
      /\ \A f \in File : txn.new[f] = Untouched => disk'[f] = call.before[f]
  <2>1. CASE txn.step = "clear"
    BY <2>1 DEF JournalTypeOK, JournalMatches, Written, WrittenStep, CallStep, InCall
  <2>2. CASE txn.step # "clear"
    BY <2>2, FailedWritten
  <2> QED
    BY <2>1, <2>2
<1>2. txn \in Txn /\ "restore" \in Step /\ Named(txn.new) \subseteq File
  BY DEF JournalTypeOK, Step, Named
<1>3. /\ txn' \in Txn /\ txn'.step = "restore" /\ txn'.todo = Named(txn.new)
      /\ txn'.new = txn.new
  BY <1>2 DEF Txn
<1>4. JournalTypeOK'
  BY <1>1, <1>3 DEF JournalTypeOK
<1>5. InCall' /\ Written'
  BY <1>1, <1>3 DEF InCall, Written, CallStep, WrittenStep, Named
<1>6. Restoring'
  BY <1>3 DEF Restoring, Named
<1>7. Settled' /\ Replaying' /\ Preparing' /\ Applying'
  BY <1>3 DEF Settled, Replaying, Preparing, Applying
<1> QED
  BY <1>1, <1>4, <1>5, <1>6, <1>7

(* The catch of a change that replays its journal.                                *)
LEMMA CatchReplays ==
  ASSUME JInv, Failed, txn.step \in {"apply", "mark", "clear"},
         txn' = Recovering(journal', TRUE, "thrown"), txn'.step # "thrown",
         call' = call, answer' = answer, crashes' = crashes, faults' \in 0..MaxFault
  PROVE  JInv'
<1> USE DEF JInv
<1>1. Busy /\ "thrown" \in Step /\ TRUE \in BOOLEAN
  BY DEF Busy, Step
<1>2. disk' \in [File -> Value] /\ journal' \in Journal /\ JournalMatches'
  BY <1>1, FailedTyped
<1>3. /\ txn' \in Txn /\ journal'.phase # "none" /\ txn'.step = "replay"
      /\ txn'.todo = Named(journal'.new)
  BY <1>1, <1>2, RecoveringFacts DEF JournalMatches
<1>4. JournalTypeOK' /\ journal'.phase \in Phase
  BY <1>2, <1>3 DEF JournalTypeOK, Journal
<1>5. /\ journal'.new = txn.new /\ journal'.old = OldIn(call.before, txn.new)
      /\ \A f \in File : txn.new[f] = Untouched => disk'[f] = call.before[f]
  <2>1. CASE txn.step # "clear"
    BY <2>1, FailedWritten
  <2>2. CASE txn.step = "clear"
    <3>1. ~RemoveJournal
      BY <1>3 DEF RemoveJournal, NoJournal
    <3>2. UNCHANGED <<disk, journal>>
      BY <2>2, <3>1 DEF Failed, Effect
    <3> QED
      BY <2>2, <3>2 DEF Written, WrittenStep, CallStep, InCall
  <2> QED
    BY <2>1, <2>2
<1>6. call \in Call /\ call.after = Changed(call.before, txn.new) /\ txn.new \in Change
      /\ call.before \in [File -> Value]
  BY DEF InCall, CallStep, Call, JournalTypeOK, Txn
<1>7. Resolved' \in {call'.before, call'.after}
  BY <1>2, <1>4, <1>5, <1>6, WrittenResolved DEF Resolved
<1> QED
  BY <1>2, <1>3, <1>4, <1>7, ReplayBegins

LEMMA WriteFailsKeeps == JInv /\ ClearIsLast /\ WriteFails => JInv'
<1> SUFFICES ASSUME JInv, ClearIsLast, WriteFails PROVE JInv'
  OBVIOUS
<1>1. /\ Busy /\ Failed /\ crashes' = crashes
      /\ <<txn.step, txn.style.undo>> \in LateFault \/ UNCHANGED <<disk, journal>>
  BY DEF WriteFails, Busy, Failed
<1>2. faults' \in 0..MaxFault
  BY JournalAssumption DEF WriteFails, JInv, JournalTypeOK
<1>3. disk' \in [File -> Value] /\ journal' \in Journal /\ JournalMatches'
  BY <1>1, FailedTyped
<1>4. CASE End("error", "thrown")
  <2>1. crashes' \in 0..MaxCrash
    BY <1>1 DEF JInv, JournalTypeOK
  <2> QED
    BY <1>2, <1>3, <1>4, <2>1, EndKeeps
<1>5. CASE InTry /\ Caught.step # "thrown" /\ txn' = Caught /\ UNCHANGED <<call, answer>>
  <2>1. txn.step \in {"apply", "mark", "clear"}
    BY <1>5 DEF InTry
  <2>2. CASE txn.style.undo = "restore"
    <3>1. txn' = [txn EXCEPT !.step = "restore", !.todo = Named(txn.new)]
      BY <1>5, <2>2 DEF Caught
    <3>2. txn.step = "clear" => UNCHANGED <<disk, journal>>
      BY <1>1, <2>2 DEF ClearIsLast
    <3> QED
      BY <1>1, <1>2, <1>5, <2>1, <3>1, <3>2, RestoreBegins
  <2>3. CASE txn.style.undo # "restore"
    <3>1. txn' = Recovering(journal', TRUE, "thrown") /\ txn'.step # "thrown"
      BY <1>5, <2>3 DEF Caught
    <3> QED
      BY <1>1, <1>2, <1>5, <2>1, <3>1, CatchReplays
  <2> QED
    BY <2>2, <2>3
<1> QED
  BY <1>4, <1>5 DEF WriteFails

LEMMA StepKeeps == JInv /\ ClearIsLast /\ [JournalNext]_jvars => JInv'
<1> SUFFICES ASSUME JInv, ClearIsLast, [JournalNext]_jvars PROVE JInv'
  OBVIOUS
<1>1. CASE UNCHANGED jvars
  BY <1>1 DEF jvars, JInv, JournalTypeOK, JournalMatches, Settled, Replaying, InCall, Preparing,
     Written, Applying, Restoring, Resolved, Direction
<1>2. ASSUME NEW f \in File, Replay(f) \/ Apply(f) \/ Restore(f) PROVE JInv'
  BY <1>2, ReplayKeeps, ApplyKeeps, RestoreKeeps
<1>3. CASE JournalStep
  BY <1>2, <1>3, EnterKeeps, ReplayEndKeeps, WriteJournalKeeps, MarkCommittedKeeps, RemovalKeeps,
     ReleaseKeeps, WriteFailsKeeps, CrashKeeps DEF JournalStep
<1>4. CASE \E new \in Change, style \in Style : BeginCall(new, style)
  BY <1>4, BeginCallKeeps
<1>5. CASE \E f \in File, v \in Value : WriteFile(f, v) \/ WriteFileFails(f, v)
  BY <1>5, TaskWriteKeeps
<1> QED
  BY <1>1, <1>3, <1>4, <1>5 DEF JournalNext

(* The files, the journal and the barrier's holder are always in one of the states   *)
(* of the protocol.                                                            *)
THEOREM JournalTypeCorrect ==
  ASSUME ClearIsLast
  PROVE  JournalSpec => []JournalTypeOK
<1>1. JInv /\ [JournalNext]_jvars => JInv'
  BY StepKeeps
<1>2. JInv => JournalTypeOK
  BY DEF JInv
<1> QED
  BY <1>1, <1>2, InitJInv, PTL DEF JournalSpec

-----------------------------------------------------------------------------
(* What the journal resolves to, step by step, is what the store promises.         *)

StoreStep == [Abstract!StoreNext]_<<Resolved, call, answer>>

LEMMA ResolvedTyped == ASSUME JInv PROVE Resolved \in [File -> Value]
BY DirectionTyped, ChangedTyped DEF Resolved, JInv, JournalTypeOK

LEMMA CallResolved == JInv /\ call # NoCall => Resolved \in {call.before, call.after}
<1> SUFFICES ASSUME JInv, call # NoCall PROVE Resolved \in {call.before, call.after}
  OBVIOUS
<1> USE DEF JInv
<1>1. CASE txn.step = "replay"
  BY <1>1 DEF Replaying
<1>2. CASE txn.step = "prepare"
  BY <1>2, NoJournalResolved DEF Preparing, Resolved, JournalTypeOK
<1>3. CASE txn.step \in WrittenStep
  <2>1. /\ journal \in Journal /\ journal.phase \in Phase /\ journal.new = txn.new
        /\ journal.old = OldIn(call.before, txn.new) /\ txn.new \in Change
        /\ call \in Call /\ call.after = Changed(call.before, txn.new)
        /\ \A f \in File : txn.new[f] = Untouched => disk[f] = call.before[f]
    BY <1>3 DEF Written, InCall, WrittenStep, JournalTypeOK, Txn
  <2>2. disk \in [File -> Value] /\ call.before \in [File -> Value]
    BY <2>1 DEF JournalTypeOK, Call
  <2> QED
    BY <2>1, <2>2, WrittenResolved DEF Resolved
<1>4. txn.step \in Step
  BY DEF JournalTypeOK, Txn
<1> QED
  BY <1>1, <1>2, <1>3, <1>4 DEF Settled, Step, WrittenStep, CallStep

(* A call that has begun is a call.                                             *)
LEMMA OpenIsACall == call \in Call => call # NoCall
<1>1. NoCall.open = FALSE
  BY DEF NoCall
<1>2. call \in Call => call.open = TRUE
  BY DEF Call
<1> QED
  BY <1>1, <1>2

(* While a change runs it is one or the other, before and after a step.             *)
LEMMA Wavers ==
  ASSUME JInv, JInv', call' = call, answer' = answer, call # NoCall
  PROVE  StoreStep
<1>1. call \in Call /\ call.open
  BY DEF JInv, JournalTypeOK, Call
<1>2. (JInv /\ call # NoCall => Resolved \in {call.before, call.after})'
  BY CallResolved, PTL
<1>3. Resolved' \in {call.before, call.after}
  BY <1>2
<1> QED
  BY <1>1, <1>3 DEF StoreStep, Abstract!StoreNext, Abstract!Waver

LEMMA Stutters ==
  ASSUME Resolved' = Resolved, call' = call, answer' = answer
  PROVE  StoreStep
BY DEF StoreStep

LEMMA SameResolved == UNCHANGED <<disk, journal>> => Resolved' = Resolved
BY DEF Resolved, Direction

LEMMA InitRefines == JournalInit => Abstract!StoreInit
<1> SUFFICES ASSUME JournalInit PROVE Abstract!StoreInit
  OBVIOUS
<1>1. Resolved \in [File -> Value]
  BY InitJInv, ResolvedTyped
<1> QED
  BY <1>1 DEF JournalInit, Abstract!StoreInit, Abstract!States, NoCall, Abstract!NoCall

(* A replay, once over, has made the files what they were already taken to be.       *)
LEMMA ReplayedResolved ==
  ASSUME JInv, txn.step = "replay", txn.todo = {}, RemoveJournal
  PROVE  Resolved' = Resolved
<1> USE DEF JInv
<1>1. /\ disk' = disk /\ journal' = NoJournal /\ disk \in [File -> Value]
      /\ \A f \in File : journal.new[f] # Untouched => disk[f] = Direction(journal)[f]
  BY DEF RemoveJournal, Replaying, JournalTypeOK
<1>2. Resolved' = disk
  <2>1. Resolved' = Changed(disk', Direction(journal'))
    BY DEF Resolved, Direction
  <2> QED
    BY <1>1, <2>1, NoJournalResolved
<1>3. ASSUME NEW f \in File
      PROVE  (IF Direction(journal)[f] = Untouched THEN disk[f] ELSE Direction(journal)[f]) = disk[f]
  BY <1>1, DirectionTyped
<1>4. Resolved = disk
  BY <1>1, <1>3 DEF Resolved, Changed
<1> QED
  BY <1>2, <1>4

LEMMA ReplayWriteResolved ==
  ASSUME JInv, txn.step = "replay", NEW f \in NextFile, WriteFileFrom(Direction(journal), f)
  PROVE  Resolved' = Resolved
<1> USE DEF JInv
<1>1. /\ f \in File /\ Direction(journal)[f] # Untouched /\ Direction(journal) \in Change
      /\ disk \in [File -> Value]
  BY DirectionTyped DEF NextFile, Replaying, JournalTypeOK, Txn
<1>2. /\ disk' = [disk EXCEPT ![f] = Direction(journal)[f]]
      /\ Direction(journal)' = Direction(journal)
  BY DEF WriteFileFrom, Direction
<1> QED
  BY <1>1, <1>2, WriteResolved DEF Resolved

(* A call that ends has changed all or nothing.                                  *)
LEMMA EndRefines ==
  ASSUME JInv, NEW s \in Step, End("error", s),
         call # NoCall => Resolved' \in {call.before, call.after},
         call = NoCall => Resolved' = Resolved
  PROVE  StoreStep
<1>1. CASE call = NoCall
  <2>1. call' = call /\ answer' = answer
    BY <1>1 DEF End, NoCall
  <2> QED
    BY <1>1, <2>1, Stutters
<1>2. CASE call # NoCall
  <2>1. call.open /\ call' = NoCall /\ answer' = "error"
    BY <1>2 DEF End, JInv, JournalTypeOK, Call
  <2> QED
    BY <1>2, <2>1 DEF StoreStep, Abstract!StoreNext, Abstract!Fail, NoCall, Abstract!NoCall
<1> QED
  BY <1>1, <1>2

(* The removal of the journal at the end of a change leaves the new files, or, after  *)
(* a restore, the old ones.                                                      *)
LEMMA RemovedResolved ==
  ASSUME JInv, txn.step \in {"clear", "kept", "unlink"}, RemoveJournal
  PROVE  /\ call \in Call
         /\ Resolved' = IF txn.step = "unlink" THEN call.before ELSE call.after
<1> USE DEF JInv
<1>1. /\ disk' = disk /\ journal' = NoJournal /\ disk \in [File -> Value] /\ txn.todo = {}
      /\ call \in Call /\ call.after = Changed(call.before, txn.new)
      /\ \A f \in File : txn.new[f] = Untouched => disk[f] = call.before[f]
  BY DEF RemoveJournal, JournalTypeOK, InCall, CallStep, Settled
<1>2. Resolved' = disk
  <2>1. Resolved' = Changed(disk', Direction(journal'))
    BY DEF Resolved, Direction
  <2> QED
    BY <1>1, <2>1, NoJournalResolved
<1>3. call.before \in [File -> Value]
  BY <1>1 DEF Call
<1>4. CASE txn.step = "unlink"
  <2>1. \A f \in File : disk[f] = call.before[f]
    BY <1>1, <1>4 DEF Restoring
  <2> QED
    BY <1>1, <1>2, <1>3, <1>4, <2>1
<1>5. CASE txn.step # "unlink"
  <2>1. \A f \in File : disk[f] = IF txn.new[f] = Untouched THEN call.before[f] ELSE txn.new[f]
    BY <1>1, <1>5 DEF Applying
  <2>2. disk = Changed(call.before, txn.new)
    BY <1>1, <2>1 DEF Changed
  <2> QED
    BY <1>1, <1>2, <1>5, <2>2
<1> QED
  BY <1>1, <1>4, <1>5

LEMMA WriteFailsRefines == JInv /\ JInv' /\ ClearIsLast /\ WriteFails => StoreStep
<1> SUFFICES ASSUME JInv, JInv', ClearIsLast, WriteFails PROVE StoreStep
  OBVIOUS
<1>1. Busy /\ Failed /\ txn.step \in CallStep \cup {"replay"}
  BY BusySteps DEF WriteFails, Busy, Failed
<1>2. call = NoCall => Resolved' = Resolved
  <2> SUFFICES ASSUME call = NoCall PROVE Resolved' = Resolved
    OBVIOUS
  <2>1. txn.step = "replay"
    BY <1>1 DEF JInv, InCall, Call, NoCall
  <2> QED
    BY <1>1, <2>1, SameResolved, ReplayedResolved, ReplayWriteResolved DEF Failed, Effect
<1>3. CASE InTry /\ Caught.step # "thrown" /\ txn' = Caught /\ UNCHANGED <<call, answer>>
  <2>1. call # NoCall
    BY <1>3, OpenIsACall DEF InTry, JInv, InCall, CallStep
  <2> QED
    BY <1>3, <2>1, Wavers
<1>4. CASE End("error", "thrown")
  <2>1. "thrown" \in Step
    BY DEF Step
  <2>2. call # NoCall => Resolved' \in {call.before, call.after}
    <3> SUFFICES ASSUME call # NoCall PROVE Resolved' \in {call.before, call.after}
      OBVIOUS
    <3>1. Resolved \in {call.before, call.after}
      BY CallResolved
    <3>2. CASE UNCHANGED <<disk, journal>>
      BY <3>1, <3>2, SameResolved
    <3>3. CASE txn.step = "replay"
      BY <1>1, <3>1, <3>3, SameResolved, ReplayedResolved, ReplayWriteResolved DEF Failed, Effect
    <3>4. CASE txn.step \in {"clear", "kept", "unlink"} /\ RemoveJournal
      BY <3>4, RemovedResolved
    <3>5. CASE (txn.step = "prepare" /\ NewJournal) \/ txn.step \in {"apply", "mark", "restore"}
      <4>1. /\ disk' \in [File -> Value] /\ journal' \in Journal
            /\ journal'.phase \in Phase /\ journal'.new = txn.new
            /\ journal'.old = OldIn(call.before, txn.new)
        BY <1>1, <3>5, NewJournalFacts, FailedWritten DEF JInv, JournalTypeOK
      <4>2. /\ call \in Call /\ call.after = Changed(call.before, txn.new) /\ txn.new \in Change
            /\ call.before \in [File -> Value]
        BY <3>5 DEF JInv, InCall, CallStep, Call, JournalTypeOK, Txn
      <4>3. \A f \in File : txn.new[f] = Untouched => disk'[f] = call.before[f]
        BY <1>1, <3>5, NewJournalFacts, FailedWritten DEF JInv, InCall, CallStep
      <4>4. Resolved' = Changed(disk', Direction(journal'))
        BY DEF Resolved, Direction
      <4> QED
        BY <4>1, <4>2, <4>3, <4>4, WrittenResolved
    <3> QED
      BY <1>1, <3>2, <3>3, <3>4, <3>5 DEF Failed, Effect
  <2> QED
    BY <1>2, <1>4, <2>1, <2>2, EndRefines
<1> QED
  BY <1>3, <1>4 DEF WriteFails

LEMMA ReplayEndRefines == JInv /\ ReplayEnd => StoreStep
<1> SUFFICES ASSUME JInv, ReplayEnd PROVE StoreStep
  OBVIOUS
<1>1. Resolved' = Resolved
  BY ReplayedResolved DEF ReplayEnd
<1>2. "thrown" \in Step /\ "ready" \in Step
  BY DEF Step
<1>3. call # NoCall => Resolved' \in {call.before, call.after}
  BY <1>1, CallResolved
<1>4. End("error", "thrown") \/ End("error", "ready")
  BY DEF ReplayEnd
<1> QED
  BY <1>1, <1>2, <1>3, <1>4, EndRefines

LEMMA RemovalRefines == JInv /\ (Clear \/ Finalize \/ Unlink) => StoreStep
<1> SUFFICES ASSUME JInv, Clear \/ Finalize \/ Unlink PROVE StoreStep
  OBVIOUS
<1>1. RemoveJournal /\ txn.step \in {"clear", "kept", "unlink"}
  BY DEF Clear, Finalize, Unlink
<1>2. call \in Call /\ Resolved' = IF txn.step = "unlink" THEN call.before ELSE call.after
  BY <1>1, RemovedResolved
<1>3. call.open /\ call' = NoCall /\ answer' = IF txn.step = "unlink" THEN "error" ELSE "ok"
  BY <1>2 DEF Clear, Finalize, Unlink, End, Call
<1> QED
  BY <1>2, <1>3 DEF StoreStep, Abstract!StoreNext, Abstract!Fail, Abstract!Succeed, NoCall,
     Abstract!NoCall

LEMMA BeginCallRefines ==
  ASSUME JInv, NEW new \in Change, NEW style \in Style, BeginCall(new, style)
  PROVE  StoreStep
<1>1. /\ disk \in [File -> Value] /\ journal = NoJournal /\ call = NoCall
      /\ UNCHANGED <<disk, journal>>
  BY DEF JInv, JournalTypeOK, Settled, BeginCall
<1>2. Resolved = disk /\ Resolved' = Resolved
  BY <1>1, NoJournalResolved, SameResolved DEF Resolved
<1>3. Changed(disk, new) \in [File -> Value]
  BY <1>1, ChangedTyped
<1>4. call' \in [open : {TRUE}, before : {Resolved}, after : [File -> Value]] /\ answer' = "none"
  BY <1>2, <1>3 DEF BeginCall
<1> QED
  BY <1>1, <1>2, <1>4 DEF StoreStep, Abstract!StoreNext, Abstract!Begin, Abstract!States, NoCall

LEMMA TaskWriteRefines ==
  ASSUME JInv, NEW f \in File, NEW v \in Value, WriteFile(f, v) \/ WriteFileFails(f, v)
  PROVE  StoreStep
<1>1. /\ disk \in [File -> Value] /\ journal = NoJournal /\ call = NoCall
      /\ journal' = journal /\ call' = call /\ answer' = answer
      /\ disk' \in {disk, [disk EXCEPT ![f] = v]}
  BY DEF JInv, JournalTypeOK, Settled, WriteFile, WriteFileFails
<1>2. disk' \in [File -> Value]
  BY <1>1
<1>3. Resolved = disk /\ Resolved' = disk'
  <2>1. Resolved' = Changed(disk', Direction(journal'))
    BY DEF Resolved, Direction
  <2> QED
    BY <1>1, <1>2, <2>1, NoJournalResolved DEF Resolved
<1>4. CASE disk' = disk
  BY <1>1, <1>3, <1>4, Stutters
<1>5. CASE disk' = [disk EXCEPT ![f] = v]
  BY <1>1, <1>3, <1>5 DEF StoreStep, Abstract!StoreNext, Abstract!Write, NoCall
<1> QED
  BY <1>1, <1>4, <1>5

LEMMA StepRefines == JInv /\ JInv' /\ ClearIsLast /\ [JournalNext]_jvars => StoreStep
<1> SUFFICES ASSUME JInv, JInv', ClearIsLast, [JournalNext]_jvars PROVE StoreStep
  OBVIOUS
<1>1. CASE UNCHANGED jvars
  BY <1>1, SameResolved, Stutters DEF jvars
<1>2. CASE Enter
  BY <1>2, SameResolved, Stutters DEF Enter
<1>3. CASE \E f \in File : Replay(f)
  BY <1>3, ReplayWriteResolved, Stutters DEF Replay
<1>4. CASE WriteJournal \/ MarkCommitted \/ \E f \in File : Apply(f) \/ Restore(f)
  <2>1. txn.step \in CallStep /\ call' = call /\ answer' = answer
    BY <1>4 DEF WriteJournal, MarkCommitted, Apply, Restore, CallStep
  <2>2. call # NoCall
    BY <2>1, OpenIsACall DEF JInv, InCall
  <2> QED
    BY <2>1, <2>2, Wavers
<1>5. CASE Release
  <2>1. call = NoCall /\ call' = call /\ answer' = "none" /\ Resolved' = Resolved
    BY <1>5, SameResolved DEF Release, JInv, Settled
  <2> QED
    BY <2>1 DEF StoreStep, Abstract!StoreNext, Abstract!Hear, NoCall
<1>6. CASE Crash
  <2>1. call' = NoCall /\ answer' = "none" /\ Resolved' = Resolved
    BY <1>6, SameResolved DEF Crash
  <2> QED
    BY <2>1 DEF StoreStep, Abstract!StoreNext, Abstract!Die, NoCall, Abstract!NoCall
<1>7. CASE \E new \in Change, style \in Style : BeginCall(new, style)
  BY <1>7, BeginCallRefines
<1>8. CASE \E f \in File, v \in Value : WriteFile(f, v) \/ WriteFileFails(f, v)
  BY <1>8, TaskWriteRefines
<1> QED
  BY <1>1, <1>2, <1>3, <1>4, <1>5, <1>6, <1>7, <1>8, ReplayEndRefines, RemovalRefines,
     WriteFailsRefines DEF JournalNext, JournalStep

(* Changing several files through the journal, with any failures and deaths but the  *)
(* one ClearIsLast excludes, is changing them all at once or not at all.             *)
THEOREM JournalImplementsStore ==
  ASSUME ClearIsLast
  PROVE  JournalSpec => ImplementsStore
<1>1. JInv /\ [JournalNext]_jvars => JInv'
  BY StepKeeps
<1>2. JInv /\ JInv' /\ [JournalNext]_jvars => [Abstract!StoreNext]_<<Resolved, call, answer>>
  BY StepRefines DEF StoreStep
<1> QED
  BY <1>1, <1>2, InitJInv, InitRefines, PTL DEF JournalSpec, ImplementsStore, Abstract!StoreSpec
=============================================================================
