----------------------------- MODULE RuntimeLog -----------------------------
(* What the runtime's commands do to its dispatch log and its mailbox (the      *)
(* dispatch and mailbox modules of crates/omx-runtime-core), as functions from  *)
(* a store to a store. RuntimeStore promises them to be atomic; RuntimeEngine   *)
(* is the process that keeps a store in files.                                *)
EXTENDS Naturals, FiniteSets

CONSTANTS
  Request,   \* ids of dispatch requests
  Message,   \* ids of mailbox messages
  Team,      \* team names
  NoTeam     \* the team_name of a record or a command without one

ASSUME TeamAssumption == NoTeam \notin Team

(* A mailbox record is known by its message id and its team.                   *)
Key == Message \X (Team \cup {NoTeam})

TerminalState == {"delivered", "failed"}
DispatchState == {"absent", "pending", "notified"} \cup TerminalState
(* notified_at and delivered_at of a mailbox record, as far as they went.       *)
MailLevel == {"absent", "created", "notified", "delivered"}
Store == [dispatch : [Request -> DispatchState], mail : [Key -> MailLevel]]
EmptyStore == [dispatch |-> [r \in Request |-> "absent"], mail |-> [k \in Key |-> "absent"]]

(* The commands that bear on them; `ids` is a singleton but for a removal.      *)
DispatchKind == {"queue", "notify", "deliver", "fail", "remove"}
MailKind == {"create", "mailNotify", "mailDeliver"}
Command ==
  [kind : DispatchKind, ids : SUBSET Request \ {{}}]
    \cup [kind : MailKind, key : Key]
    \cup [kind : {"capture"}]
Capture == [kind |-> "capture"]

(* mark_notified, mark_delivered, mark_failed: from which state to which.       *)
MarkableFrom ==
  [k \in {"notify", "deliver", "fail"} |->
     CASE k = "notify"  -> {"pending"}
       [] k = "deliver" -> {"notified"}
       [] k = "fail"    -> {"pending", "notified"}]
MarkedAs ==
  [k \in {"notify", "deliver", "fail"} |->
     CASE k = "notify" -> "notified" [] k = "deliver" -> "delivered" [] k = "fail" -> "failed"]

RecordsOf(mail, m) == {k \in Key : k[1] = m /\ mail[k] # "absent"}

(* find_mut: the record of that team, or the only record of that id if it has    *)
(* no team.                                                                   *)
FoundAnyTeam(mail, key) == RecordsOf(mail, key[1])
Found(mail, key) ==
  IF key[2] # NoTeam /\ mail[key] # "absent" THEN {key}
  ELSE {k \in RecordsOf(mail, key[1]) : k[2] = NoTeam /\ RecordsOf(mail, key[1]) = {k}}

(* create: an id may be used once per team, and not both with and without one.   *)
Clashes(mail, key) ==
  \E k \in RecordsOf(mail, key[1]) : NoTeam \in {k[2], key[2]} \/ k[2] = key[2]

(* Whether the command is accepted, given the request ids seen so far.          *)
Accepts(s, seen, c) ==
  \/ c.kind = "capture"
  \/ c.kind = "queue" /\ \E r \in Request : c.ids = {r} /\ r \notin seen /\ s.dispatch[r] = "absent"
  \/ /\ c.kind \in {"notify", "deliver", "fail"}
     /\ \E r \in Request : c.ids = {r} /\ s.dispatch[r] \in MarkableFrom[c.kind]
  \/ c.kind = "remove" /\ \A r \in c.ids : s.dispatch[r] # "absent"
  \/ c.kind = "create" /\ ~Clashes(s.mail, c.key)
  \/ c.kind = "mailNotify" /\ \E k \in Found(s.mail, c.key) : s.mail[k] # "delivered"
  \/ c.kind = "mailDeliver" /\ Found(s.mail, c.key) # {}

(* The records a command writes, and the state it brings them to.              *)
Touched(s, c) ==
  IF c.kind = "create" THEN {c.key}
  ELSE IF c.kind \in MailKind THEN Found(s.mail, c.key) ELSE {}
LevelAfter ==
  [k \in MailKind |-> CASE k = "create" -> "created" [] k = "mailNotify" -> "notified"
                        [] k = "mailDeliver" -> "delivered"]
StateByKind(k) == IF k = "queue" THEN "queued" ELSE MarkedAs[k]
StateAfter(k) ==
  CASE k = "queue" -> "pending" [] k = "remove" -> "absent" [] OTHER -> MarkedAs[k]

Result(s, c) ==
  [dispatch |-> [r \in Request |->
                   IF c.kind \in DispatchKind /\ r \in c.ids THEN StateAfter(c.kind)
                   ELSE s.dispatch[r]],
   mail |-> [k \in Key |-> IF k \in Touched(s, c) THEN LevelAfter[c.kind] ELSE s.mail[k]]]

(* compact, when the command line asks for it: finished requests are dropped.    *)
Compacted(s) ==
  [s EXCEPT !.dispatch = [r \in Request |->
     IF s.dispatch[r] \in TerminalState THEN "absent" ELSE s.dispatch[r]]]
ResultOf(s, c, compact) == IF compact THEN Compacted(Result(s, c)) ELSE Result(s, c)

(* The request id a command reserves for ever.                                *)
Reserves(c) == IF c.kind = "queue" THEN c.ids ELSE {}
=============================================================================
