--------------------------- MODULE RuntimeEngine ---------------------------
(* omx-runtime exec (crates/omx-runtime, crates/omx-runtime-core): a process    *)
(* that takes the mutation lock of a state directory, loads its files, runs one *)
(* command and writes the files back one after another. The lock is the         *)
(* kernel's and ends with the process, which the caller kills after ten seconds; *)
(* the other ways to die are as possible. A file being written when the process  *)
(* dies may be left torn, except for the ledger, which is renamed into place.    *)
EXTENDS RuntimeLog

CONSTANTS MaxDeath     \* bound: processes that die

ASSUME DeathAssumption == MaxDeath \in Nat

VARIABLES
  disk,       \* the state directory
  exec,       \* the process that holds the mutation lock
  queued,     \* history: requests that were ever on the dispatch log
  deaths      \* processes that died so far

vars == <<disk, exec, queued, deaths>>

(* events.json. The order of the events of different records is irrelevant, and  *)
(* that of the events of one record is the order of its states.                 *)
DispatchEvent == Request \X {"queued", "notified", "delivered", "failed"}
MailEvent == Key \X {"created", "notified", "delivered"}
EventLog == [dispatch : SUBSET DispatchEvent, mail : SUBSET MailEvent]
NoEvents == [dispatch |-> {}, mail |-> {}]

File == {"snapshot", "ledger", "events", "mailbox", "dispatch"}
(* What the files that are loaded say; of dispatch.json only the ids matter.     *)
Disk == [files : SUBSET File, torn : SUBSET File, ledger : SUBSET Request,
         log : EventLog, mail : [Key -> MailLevel], ids : SUBSET Request]
EmptyDisk == [files |-> {}, torn |-> {}, ledger |-> {}, log |-> NoEvents,
              mail |-> EmptyStore.mail, ids |-> {}]

(* RuntimeEngine: the store, the ids seen, the event log.                       *)
Engine == [store : Store, seen : SUBSET Request, log : EventLog]
NewEngine == [store |-> EmptyStore, seen |-> {}, log |-> NoEvents]

(* The files in the order persist writes them, and the compatibility view.       *)
LedgerAfterEvents ==
  [s \in File |-> CASE s = "snapshot" -> "events" [] s = "events" -> "ledger"
                    [] s = "ledger" -> "mailbox" [] s = "mailbox" -> "dispatch"
                    [] s = "dispatch" -> "view"]
NextFile ==
  [s \in File |-> CASE s = "snapshot" -> "ledger" [] s = "ledger" -> "events"
                    [] s = "events" -> "mailbox" [] s = "mailbox" -> "dispatch"
                    [] s = "dispatch" -> "view"]
Exec == [step : File \cup {"idle", "view"}, cmd : Command, compact : BOOLEAN,
         before : Engine, engine : Engine]
IdleExec == [step |-> "idle", cmd |-> Capture, compact |-> FALSE,
             before |-> NewEngine, engine |-> NewEngine]

EngineTypeOK ==
  /\ disk \in Disk
  /\ exec \in Exec
  /\ queued \subseteq Request
  /\ deaths \in 0..MaxDeath

Init ==
  /\ disk = EmptyDisk
  /\ exec = IdleExec
  /\ queued = {}
  /\ deaths = 0

-----------------------------------------------------------------------------
(* load.                                                                      *)

(* Replay of the dispatch events; it stops at a history that has gaps.           *)
ReplayedDispatch(events) ==
  [r \in Request |->
     CASE <<r, "failed">> \in events -> "failed"
       [] <<r, "failed">> \notin events /\ <<r, "delivered">> \in events -> "delivered"
       [] /\ <<r, "failed">> \notin events /\ <<r, "delivered">> \notin events
          /\ <<r, "notified">> \in events -> "notified"
       [] /\ \A k \in {"failed", "delivered", "notified"} : <<r, k>> \notin events
          /\ <<r, "queued">> \in events -> "pending"
       [] OTHER -> "absent"]
QueuedIds(events) == {r \in Request : <<r, "queued">> \in events}
WellFormed(events) ==
  \A e \in events :
    /\ <<e[1], "queued">> \in events
    /\ e[2] = "delivered" =>
         <<e[1], "notified">> \in events /\ <<e[1], "failed">> \notin events

ReplayedMail(events) ==
  [k \in Key |->
     CASE <<k, "created">> \notin events -> "absent"
       [] <<k, "created">> \in events /\ <<k, "delivered">> \in events -> "delivered"
       [] /\ <<k, "created">> \in events /\ <<k, "delivered">> \notin events
          /\ <<k, "notified">> \in events -> "notified"
       [] OTHER -> "created"]
Rank == [l \in MailLevel |->
  CASE l = "absent" -> 0 [] l = "created" -> 1 [] l = "notified" -> 2 [] l = "delivered" -> 3]

(* mailbox.json, and on top of it the events it does not reflect.               *)
AsFiled(mail, events) == mail
Merged(mail, events) ==
  [k \in Key |-> IF Rank[mail[k]] < Rank[ReplayedMail(events)[k]]
                 THEN ReplayedMail(events)[k] ELSE mail[k]]

Loads ==
  /\ {"events", "ledger"} \subseteq disk.files
  /\ disk.torn \cap {"events", "mailbox", "dispatch"} = {}
  /\ WellFormed(disk.log.dispatch)
  /\ QueuedIds(disk.log.dispatch) \cup disk.ids \subseteq disk.ledger
(* A directory that was never written gets a new engine; any other that does not *)
(* load is refused.                                                           *)
Unwritten == disk.files \cap {"events", "snapshot", "mailbox"} = {}
Usable == Loads \/ Unwritten

SeenFromEvents == QueuedIds(disk.log.dispatch)
SeenFromLedger == disk.ledger
Loaded ==
  [store |-> [dispatch |-> ReplayedDispatch(disk.log.dispatch),
              mail |-> IF "mailbox" \in disk.files
                       THEN Merged(disk.mail, disk.log.mail)
                       ELSE ReplayedMail(disk.log.mail)],
   seen |-> SeenFromLedger,
   log |-> disk.log]
Base == IF Loads THEN Loaded ELSE NewEngine

-----------------------------------------------------------------------------
(* process and compact.                                                       *)

EventOf == [k \in DispatchKind |->
  CASE k = "queue" -> "queued" [] k = "notify" -> "notified" [] k = "deliver" -> "delivered"
    [] k = "fail" -> "failed" [] k = "remove" -> "none"]
OfRequests(rs) == {e \in DispatchEvent : e[1] \in rs}
Finished(s) == {r \in Request : s.dispatch[r] \in TerminalState}

Logged(g, c) ==
  [dispatch |-> CASE c.kind = "remove" -> g.log.dispatch \ OfRequests(c.ids)
                  [] c.kind \in DispatchKind \ {"remove"} ->
                       g.log.dispatch \cup (c.ids \X {EventOf[c.kind]})
                  [] OTHER -> g.log.dispatch,
   mail |-> IF c.kind \in MailKind
            THEN g.log.mail \cup (Touched(g.store, c) \X {LevelAfter[c.kind]})
            ELSE g.log.mail]

Processed(g, c) ==
  [store |-> Result(g.store, c), seen |-> g.seen \cup Reserves(c), log |-> Logged(g, c)]

CompactedKeepingEvents(g) == [g EXCEPT !.store = Compacted(g.store)]
CompactedEngine(g) ==
  [g EXCEPT !.store = Compacted(g.store),
            !.log.dispatch = g.log.dispatch \ OfRequests(Finished(g.store))]

Run(c, compact) ==
  /\ exec.step = "idle" /\ Usable
  /\ Accepts(Base.store, Base.seen, c)
  /\ LET g == Processed(Base, c)
     IN  exec' = [step |-> "snapshot", cmd |-> c, compact |-> compact, before |-> Base,
                  engine |-> IF compact THEN CompactedEngine(g) ELSE g]
  /\ UNCHANGED <<disk, queued, deaths>>

-----------------------------------------------------------------------------
(* persist, one file after another, and the answer.                            *)

Present(store) == {r \in Request : store.dispatch[r] # "absent"}

Written(f) ==
  [disk EXCEPT !.files = @ \cup {f}, !.torn = @ \ {f},
               !.ledger = IF f = "ledger" THEN exec.engine.seen ELSE @,
               !.log = IF f = "events" THEN exec.engine.log ELSE @,
               !.mail = IF f = "mailbox" THEN exec.engine.store.mail ELSE @,
               !.ids = IF f = "dispatch" THEN Present(exec.engine.store) ELSE @]

Persist(f) ==
  /\ exec.step = f
  /\ disk' = Written(f)
  /\ exec' = [exec EXCEPT !.step = NextFile[f]]
  /\ queued' = IF f = "events" THEN queued \cup Present(exec.engine.store) ELSE queued
  /\ UNCHANGED deaths

(* write_compatibility_view writes dispatch.json and mailbox.json once more, and *)
(* files only the TypeScript side reads; then the event is printed.             *)
Reply ==
  /\ exec.step = "view"
  /\ exec' = IdleExec
  /\ UNCHANGED <<disk, queued, deaths>>

(* The files whose writing may be what the death interrupts.                    *)
InWriting ==
  CASE exec.step = "view" -> {"mailbox", "dispatch"}
    [] exec.step \in File \ {"ledger"} -> {exec.step}
    [] OTHER -> {}

Death ==
  /\ exec.step # "idle" /\ deaths < MaxDeath
  /\ exec' = IdleExec
  /\ deaths' = deaths + 1
  /\ \/ UNCHANGED disk
     \/ \E f \in InWriting :
          disk' = [disk EXCEPT !.files = @ \cup {f}, !.torn = @ \cup {f}]
  /\ UNCHANGED queued

Next ==
  \/ \E c \in Command, compact \in BOOLEAN : Run(c, compact)
  \/ \E f \in File : Persist(f)
  \/ Reply \/ Death

Spec == Init /\ [][Next]_vars

-----------------------------------------------------------------------------
(* Properties.                                                               *)

(* The engine implements the store: at rest, the store is what a load would make *)
(* of the directory; while a command runs, the writing of events.json is where   *)
(* it takes effect.                                                           *)
Running == exec.step # "idle"
Effective == exec.step \in {"mailbox", "dispatch", "view"}
AbstractStore ==
  CASE ~Running -> IF Usable THEN Base.store ELSE EmptyStore
    [] Running /\ ~Effective -> exec.before.store
    [] Running /\ Effective -> exec.engine.store
AbstractJob ==
  [cmd |-> exec.cmd, compact |-> exec.compact, running |-> Running, applied |-> Effective]
Lost == ~Running /\ ~Usable

Abstract == INSTANCE RuntimeStore WITH
  store <- AbstractStore, reserved <- IF Lost THEN {} ELSE disk.ledger,
  job <- AbstractJob, lost <- Lost

ImplementsStore == Abstract!StoreSpec

(* A request id is accepted once and never again, across deaths, compaction and   *)
(* removal, after which no event and no record of it is left.                  *)
NeverRequeued ==
  [][\A r \in Request :
       (AbstractStore.dispatch[r] = "absent" /\ AbstractStore'.dispatch[r] # "absent")
         => r \notin queued]_vars

(* Once a first command has been persisted, a process that dies between two      *)
(* writes leaves a directory that loads: whichever files are old and whichever    *)
(* new, the ledger covers them and the events have no gaps.                     *)
OldAndNewFilesLoad ==
  /\ {"events", "ledger"} \subseteq disk.files
  /\ disk.torn \subseteq {"snapshot"}
  => Loads

(* Stated by the documents and not upheld: "Replay is cursor-based and durable." *)
(* A request that was on the event log can be replayed whenever nothing runs.     *)
ReplayIsDurable == queued # {} /\ ~Running => Loads
=============================================================================
