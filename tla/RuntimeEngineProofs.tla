------------------------ MODULE RuntimeEngineProofs ------------------------
(* The runtime engine keeps an atomic store in files that are written one by    *)
(* one, for any requests, messages, teams and deaths: whatever mixture of old    *)
(* and new files a death leaves behind, a load that succeeds finds the store     *)
(* before the command or the one after it, and no request id is accepted twice.  *)
EXTENDS RuntimeEngine, TLAPS

MailInOrder(events) == \A e \in events : <<e[1], "created">> \in events

(* An engine that agrees with its event log, and whose ledger covers it.         *)
SoundDispatch(d, events, seen) ==
  /\ events \in SUBSET DispatchEvent /\ WellFormed(events)
  /\ d = ReplayedDispatch(events)
  /\ QueuedIds(events) \subseteq seen
SoundMail(m, events) ==
  /\ events \in SUBSET MailEvent /\ MailInOrder(events)
  /\ m = ReplayedMail(events)
Sound(g) ==
  /\ g \in Engine
  /\ SoundDispatch(g.store.dispatch, g.log.dispatch, g.seen)
  /\ SoundMail(g.store.mail, g.log.mail)

(* Records that are at most as far as others.                                   *)
NotAhead(old, new) == \A k \in Key : Rank[old[k]] <= Rank[new[k]]

(* The files, also those of a directory that does not load any more.             *)
DiskInv ==
  /\ WellFormed(disk.log.dispatch) /\ MailInOrder(disk.log.mail)
  /\ QueuedIds(disk.log.dispatch) \cup disk.ids \cup queued \subseteq disk.ledger
  /\ NotAhead(disk.mail, ReplayedMail(disk.log.mail))
  /\ "ledger" \notin disk.torn
  /\ Unwritten => disk = EmptyDisk /\ queued = {}

(* What the process in exec has done.                                          *)
Ran(g, c, compact) == IF compact THEN CompactedEngine(Processed(g, c)) ELSE Processed(g, c)

(* The process, and how its memory and the files belong together at each step.   *)
ExecInv ==
  Running =>
    /\ Sound(exec.before) /\ Accepts(exec.before.store, exec.before.seen, exec.cmd)
    /\ exec.engine = Ran(exec.before, exec.cmd, exec.compact)
    /\ disk.torn \subseteq {"snapshot"}
    /\ ~Effective => disk.log = exec.before.log /\ queued \subseteq exec.before.seen
    /\ Effective => disk.log = exec.engine.log /\ {"events", "ledger"} \subseteq disk.files
    /\ exec.step \in {"snapshot", "ledger"} => disk.ledger = exec.before.seen
    /\ exec.step = "ledger" => "snapshot" \in disk.files
    /\ exec.step = "events" => {"snapshot", "ledger"} \subseteq disk.files
    /\ exec.step \notin {"snapshot", "ledger"} => disk.ledger = exec.engine.seen

IInv == EngineTypeOK /\ DiskInv /\ ExecInv

-----------------------------------------------------------------------------
(* Event logs of requests.                                                     *)

(* Well-formedness, request by request.                                        *)
LEMMA WellFormedByRequest ==
  ASSUME NEW events \in SUBSET DispatchEvent
  PROVE  WellFormed(events) <=>
           \A r \in Request :
             /\ \A k \in {"notified", "delivered", "failed"} :
                  <<r, k>> \in events => <<r, "queued">> \in events
             /\ <<r, "delivered">> \in events =>
                  <<r, "notified">> \in events /\ <<r, "failed">> \notin events
<1> DEFINE ByRequest ==
      \A r \in Request :
        /\ \A k \in {"notified", "delivered", "failed"} :
             <<r, k>> \in events => <<r, "queued">> \in events
        /\ <<r, "delivered">> \in events =>
             <<r, "notified">> \in events /\ <<r, "failed">> \notin events
<1>1. ASSUME WellFormed(events), NEW r \in Request, NEW k, <<r, k>> \in events
      PROVE  /\ <<r, "queued">> \in events
             /\ k = "delivered" => <<r, "notified">> \in events /\ <<r, "failed">> \notin events
  <2> DEFINE e == <<r, k>>
  <2>1. e \in events /\ e[1] = r /\ e[2] = k
    BY <1>1
  <2> QED
    BY <1>1, <2>1 DEF WellFormed
<1>2. WellFormed(events) => ByRequest
  BY <1>1
<1>3. ASSUME ByRequest, NEW e \in events
      PROVE  /\ <<e[1], "queued">> \in events
             /\ e[2] = "delivered" =>
                  <<e[1], "notified">> \in events /\ <<e[1], "failed">> \notin events
  <2>1. PICK r \in Request, k \in {"queued", "notified", "delivered", "failed"} : e = <<r, k>>
    BY DEF DispatchEvent
  <2>2. e[1] = r /\ e[2] = k
    BY <2>1
  <2> QED
    BY <1>3, <2>1, <2>2
<1> QED
  BY <1>2, <1>3 DEF WellFormed

(* The replay of a well-formed log: which state comes from which events.         *)
LEMMA ReplayFacts ==
  ASSUME NEW events \in SUBSET DispatchEvent, WellFormed(events), NEW r \in Request
  PROVE  LET s == ReplayedDispatch(events)[r]
         IN  /\ s \in DispatchState
             /\ s = "absent" <=> <<r, "queued">> \notin events
             /\ s = "pending" <=> /\ <<r, "queued">> \in events
                                  /\ \A k \in {"notified", "delivered", "failed"} :
                                       <<r, k>> \notin events
             /\ s = "notified" <=> /\ <<r, "notified">> \in events
                                   /\ \A k \in {"delivered", "failed"} : <<r, k>> \notin events
             /\ s = "delivered" <=> <<r, "delivered">> \in events
             /\ s = "failed" <=> <<r, "failed">> \in events
BY WellFormedByRequest DEF ReplayedDispatch, DispatchState, TerminalState

(* The events of one request decide its state.                                   *)
LEMMA SameEvents ==
  ASSUME NEW old, NEW new, NEW r \in Request,
         \A k \in {"queued", "notified", "delivered", "failed"} :
           <<r, k>> \in new <=> <<r, k>> \in old
  PROVE  ReplayedDispatch(new)[r] = ReplayedDispatch(old)[r]
BY DEF ReplayedDispatch

LEMMA MarkingReplayed ==
  ASSUME NEW events \in SUBSET DispatchEvent, WellFormed(events), NEW q \in Request,
         NEW kind \in {"queue", "notify", "deliver", "fail"},
         kind = "queue" => ReplayedDispatch(events)[q] = "absent",
         kind # "queue" => ReplayedDispatch(events)[q] \in MarkableFrom[kind]
  PROVE  LET new == events \cup ({q} \X {EventOf[kind]})
         IN  /\ new \in SUBSET DispatchEvent /\ WellFormed(new)
             /\ QueuedIds(new) = QueuedIds(events) \cup (IF kind = "queue" THEN {q} ELSE {})
             /\ ReplayedDispatch(new) =
                  [r \in Request |-> IF r = q THEN StateAfter(kind)
                                     ELSE ReplayedDispatch(events)[r]]
<1> DEFINE x == EventOf[kind]
           new == events \cup ({q} \X {x})
<1>1. /\ kind = "queue" => x = "queued"
      /\ kind = "notify" => x = "notified"
      /\ kind = "deliver" => x = "delivered"
      /\ kind = "fail" => x = "failed"
  BY DEF EventOf, DispatchKind
<1> HIDE DEF x
<1>2. \A r, k : <<r, k>> \in new <=> <<r, k>> \in events \/ (r = q /\ k = x)
  OBVIOUS
<1>3. new \in SUBSET DispatchEvent
  BY <1>1 DEF DispatchEvent
<1>4. /\ kind = "queue" => \A k \in {"queued", "notified", "delivered", "failed"} : <<q, k>> \notin events
      /\ kind = "notify" => /\ <<q, "queued">> \in events
                            /\ \A k \in {"notified", "delivered", "failed"} : <<q, k>> \notin events
      /\ kind = "deliver" => /\ <<q, "queued">> \in events /\ <<q, "notified">> \in events
                             /\ \A k \in {"delivered", "failed"} : <<q, k>> \notin events
      /\ kind = "fail" => /\ <<q, "queued">> \in events
                          /\ \A k \in {"delivered", "failed"} : <<q, k>> \notin events
  BY ReplayFacts, WellFormedByRequest DEF MarkableFrom
<1> HIDE DEF new
<1>5. WellFormed(new)
  <2>1. ASSUME NEW r \in Request
        PROVE  /\ \A k \in {"notified", "delivered", "failed"} :
                    <<r, k>> \in new => <<r, "queued">> \in new
               /\ <<r, "delivered">> \in new =>
                    <<r, "notified">> \in new /\ <<r, "failed">> \notin new
    <3>1. /\ \A k \in {"notified", "delivered", "failed"} :
               <<r, k>> \in events => <<r, "queued">> \in events
          /\ <<r, "delivered">> \in events =>
               <<r, "notified">> \in events /\ <<r, "failed">> \notin events
      BY WellFormedByRequest
    <3>2. CASE r = q
      BY <1>1, <1>2, <1>4, <3>2
    <3>3. CASE r # q
      BY <1>2, <3>1, <3>3
    <3> QED
      BY <3>2, <3>3
  <2> QED
    BY <1>3, <2>1, WellFormedByRequest
<1>6. QueuedIds(new) = QueuedIds(events) \cup (IF kind = "queue" THEN {q} ELSE {})
  BY <1>1, <1>2 DEF QueuedIds
<1>7. ReplayedDispatch(new)[q] = StateAfter(kind)
  BY <1>1, <1>2, <1>3, <1>4, <1>5, ReplayFacts DEF StateAfter, MarkedAs
<1>8. ASSUME NEW r \in Request, r # q PROVE ReplayedDispatch(new)[r] = ReplayedDispatch(events)[r]
  BY <1>2, <1>8, SameEvents
<1>9. ReplayedDispatch(new) = [r \in Request |-> ReplayedDispatch(new)[r]]
  BY DEF ReplayedDispatch
<1>10. ReplayedDispatch(new) =
         [r \in Request |-> IF r = q THEN StateAfter(kind) ELSE ReplayedDispatch(events)[r]]
  BY <1>7, <1>8, <1>9
<1> QED
  BY <1>3, <1>5, <1>6, <1>10 DEF new, x

LEMMA RemovingReplayed ==
  ASSUME NEW events \in SUBSET DispatchEvent, WellFormed(events), NEW R \in SUBSET Request
  PROVE  LET new == events \ OfRequests(R)
         IN  /\ new \in SUBSET DispatchEvent /\ WellFormed(new)
             /\ QueuedIds(new) \subseteq QueuedIds(events)
             /\ ReplayedDispatch(new) =
                  [r \in Request |-> IF r \in R THEN "absent" ELSE ReplayedDispatch(events)[r]]
<1> DEFINE new == events \ OfRequests(R)
<1>1. new \in SUBSET DispatchEvent
  OBVIOUS
<1>2. ASSUME NEW r \in Request, NEW k
      PROVE  <<r, k>> \in new <=> <<r, k>> \in events /\ r \notin R
  <2> DEFINE e == <<r, k>>
  <2>1. e[1] = r
    OBVIOUS
  <2>2. e \in DispatchEvent => (e \in OfRequests(R) <=> r \in R)
    BY <2>1 DEF OfRequests
  <2> QED
    BY <2>2
<1> HIDE DEF new
<1>3. WellFormed(new)
  <2>1. \A r \in Request :
          /\ \A k \in {"notified", "delivered", "failed"} :
               <<r, k>> \in new => <<r, "queued">> \in new
          /\ <<r, "delivered">> \in new =>
               <<r, "notified">> \in new /\ <<r, "failed">> \notin new
    BY <1>2, WellFormedByRequest
  <2> QED
    BY <1>1, <2>1, WellFormedByRequest
<1>4. QueuedIds(new) \subseteq QueuedIds(events)
  BY <1>2 DEF QueuedIds
<1>5. ASSUME NEW r \in R PROVE ReplayedDispatch(new)[r] = "absent"
  BY <1>1, <1>2, <1>3, ReplayFacts
<1>6. ASSUME NEW r \in Request \ R PROVE ReplayedDispatch(new)[r] = ReplayedDispatch(events)[r]
  BY <1>2, SameEvents
<1>7. ReplayedDispatch(new) = [r \in Request |-> ReplayedDispatch(new)[r]]
  BY DEF ReplayedDispatch
<1>8. ReplayedDispatch(new) =
        [r \in Request |-> IF r \in R THEN "absent" ELSE ReplayedDispatch(events)[r]]
  BY <1>5, <1>6, <1>7
<1> QED
  BY <1>1, <1>3, <1>4, <1>8 DEF new

-----------------------------------------------------------------------------
(* Event logs of mailbox records.                                                *)

LEMMA RankFacts ==
  Rank["absent"] = 0 /\ Rank["created"] = 1 /\ Rank["notified"] = 2 /\ Rank["delivered"] = 3
BY DEF Rank, MailLevel

LEMMA MailFacts ==
  ASSUME NEW events \in SUBSET MailEvent, MailInOrder(events), NEW k \in Key
  PROVE  LET l == ReplayedMail(events)[k]
         IN  /\ l \in MailLevel
             /\ l = "absent" <=> <<k, "created">> \notin events
             /\ l = "absent" => <<k, "notified">> \notin events /\ <<k, "delivered">> \notin events
             /\ l = "delivered" <=> <<k, "delivered">> \in events
<1>1. ASSUME NEW x, <<k, x>> \in events PROVE <<k, "created">> \in events
  <2> DEFINE e == <<k, x>>
  <2>1. e \in events /\ e[1] = k
    BY <1>1
  <2> QED
    BY <2>1 DEF MailInOrder
<1> QED
  BY <1>1 DEF ReplayedMail, MailLevel

(* Records that may be brought to a level.                                      *)
MayBecome(m, T, l) ==
  \A k \in T : /\ l = "created" <=> m[k] = "absent"
               /\ l = "notified" => m[k] # "delivered"

LEMMA MailReplayed ==
  ASSUME NEW events \in SUBSET MailEvent, MailInOrder(events), NEW T \in SUBSET Key,
         NEW l \in {"created", "notified", "delivered"},
         MayBecome(ReplayedMail(events), T, l), NEW new, new = events \cup (T \X {l})
  PROVE  /\ new \in SUBSET MailEvent /\ MailInOrder(new)
         /\ ReplayedMail(new) = [k \in Key |-> IF k \in T THEN l ELSE ReplayedMail(events)[k]]
         /\ NotAhead(ReplayedMail(events), ReplayedMail(new))
<1>1. new \in SUBSET MailEvent
  BY DEF MailEvent
<1>2. \A k, x : <<k, x>> \in new <=> <<k, x>> \in events \/ (k \in T /\ x = l)
  OBVIOUS
<1>3. ASSUME NEW e \in new PROVE <<e[1], "created">> \in new
  <2>1. CASE e \in events
    BY <2>1 DEF MailInOrder
  <2>2. ASSUME NEW k \in T, e = <<k, l>> PROVE <<e[1], "created">> \in new
    <3>1. e[1] = k
      BY <2>2
    <3> QED
      BY <3>1, MailFacts DEF MayBecome
  <2> QED
    BY <2>1, <2>2
<1>4. MailInOrder(new)
  BY <1>3 DEF MailInOrder
<1>5. ASSUME NEW k \in T PROVE ReplayedMail(new)[k] = l
  BY <1>2, MailFacts DEF ReplayedMail, MayBecome
<1>6. ASSUME NEW k \in Key \ T PROVE ReplayedMail(new)[k] = ReplayedMail(events)[k]
  BY <1>2 DEF ReplayedMail
<1>7. ReplayedMail(new) = [k \in Key |-> ReplayedMail(new)[k]]
  BY DEF ReplayedMail
<1>8. ASSUME NEW k \in Key
      PROVE  Rank[ReplayedMail(events)[k]] <= Rank[ReplayedMail(new)[k]]
  <2>1. ReplayedMail(events)[k] \in {"absent", "created", "notified", "delivered"}
    BY MailFacts DEF MailLevel
  <2>2. CASE k \in T
    <3>1. /\ ReplayedMail(new)[k] = l
          /\ l = "created" => ReplayedMail(events)[k] = "absent"
          /\ l = "notified" => ReplayedMail(events)[k] # "delivered"
      BY <1>5, <2>2 DEF MayBecome
    <3> QED
      BY <2>1, <3>1, RankFacts
  <2>3. CASE k \notin T
    BY <1>6, <2>1, <2>3, RankFacts
  <2> QED
    BY <2>2, <2>3
<1> QED
  BY <1>1, <1>4, <1>5, <1>6, <1>7, <1>8 DEF NotAhead

-----------------------------------------------------------------------------
(* Commands.                                                                  *)

LEMMA FoundFacts ==
  ASSUME NEW mail, NEW key \in Key
  PROVE  /\ Found(mail, key) \subseteq Key
         /\ \A j, k \in Found(mail, key) : j = k
         /\ \A k \in Found(mail, key) : mail[k] # "absent"
BY DEF Found, RecordsOf

(* What processing does to the requests of a sound engine.                          *)
LEMMA ProcessedDispatch ==
  ASSUME NEW g, Sound(g), NEW c \in Command, Accepts(g.store, g.seen, c)
  PROVE  /\ SoundDispatch(Processed(g, c).store.dispatch, Processed(g, c).log.dispatch,
                          Processed(g, c).seen)
         /\ Processed(g, c).store.dispatch \in [Request -> DispatchState]
<1> DEFINE d == g.store.dispatch
           events == g.log.dispatch
           d2 == Processed(g, c).store.dispatch
           events2 == Processed(g, c).log.dispatch
<1>1. /\ events \in SUBSET DispatchEvent /\ WellFormed(events) /\ d = ReplayedDispatch(events)
      /\ QueuedIds(events) \subseteq g.seen /\ d \in [Request -> DispatchState]
  BY DEF Sound, SoundDispatch, Engine, Store
<1>2. /\ d2 = [r \in Request |-> IF c.kind \in DispatchKind /\ r \in c.ids THEN StateAfter(c.kind)
                                 ELSE d[r]]
      /\ events2 = Logged(g, c).dispatch
      /\ Processed(g, c).seen = g.seen \cup Reserves(c)
  BY DEF Processed, Result
<1>3. d2 \in [Request -> DispatchState]
  <2>1. c.kind \in DispatchKind => StateAfter(c.kind) \in DispatchState
    BY DEF StateAfter, MarkedAs, DispatchKind, DispatchState, TerminalState
  <2> QED
    BY <1>1, <1>2, <2>1
<1>4. CASE c.kind \in {"queue", "notify", "deliver", "fail"}
  <2>1. PICK q \in Request :
          /\ c.ids = {q}
          /\ c.kind = "queue" => d[q] = "absent"
          /\ c.kind # "queue" => d[q] \in MarkableFrom[c.kind]
    BY <1>4 DEF Accepts
  <2>2. events2 = events \cup ({q} \X {EventOf[c.kind]})
    BY <1>2, <1>4, <2>1 DEF Logged, DispatchKind
  <2>3. /\ events2 \in SUBSET DispatchEvent /\ WellFormed(events2)
        /\ QueuedIds(events2) = QueuedIds(events) \cup (IF c.kind = "queue" THEN {q} ELSE {})
        /\ ReplayedDispatch(events2) =
             [r \in Request |-> IF r = q THEN StateAfter(c.kind) ELSE d[r]]
    <3> DEFINE kind == c.kind
    <3>1. /\ events \in SUBSET DispatchEvent /\ WellFormed(events) /\ d = ReplayedDispatch(events)
          /\ kind \in {"queue", "notify", "deliver", "fail"}
          /\ kind = "queue" => ReplayedDispatch(events)[q] = "absent"
          /\ kind # "queue" => ReplayedDispatch(events)[q] \in MarkableFrom[kind]
          /\ events2 = events \cup ({q} \X {EventOf[kind]})
      BY <1>1, <1>4, <2>1, <2>2
    <3> HIDE DEF kind, d, events, events2
    <3>2. LET new == events \cup ({q} \X {EventOf[kind]})
          IN  /\ new \in SUBSET DispatchEvent /\ WellFormed(new)
              /\ QueuedIds(new) = QueuedIds(events) \cup (IF kind = "queue" THEN {q} ELSE {})
              /\ ReplayedDispatch(new) =
                   [r \in Request |-> IF r = q THEN StateAfter(kind)
                                      ELSE ReplayedDispatch(events)[r]]
      BY <3>1, MarkingReplayed
    <3> QED
      BY <3>1, <3>2 DEF kind
  <2>4. d2 = ReplayedDispatch(events2)
    BY <1>2, <1>4, <2>1, <2>3 DEF DispatchKind
  <2>5. QueuedIds(events2) \subseteq g.seen \cup Reserves(c)
    BY <1>1, <2>1, <2>3 DEF Reserves
  <2> QED
    BY <1>2, <1>3, <2>3, <2>4, <2>5 DEF SoundDispatch
<1>5. CASE c.kind = "remove"
  <2>1. c.ids \in SUBSET Request
    BY <1>5 DEF Command, DispatchKind, MailKind
  <2>2. events2 = events \ OfRequests(c.ids)
    BY <1>2, <1>5 DEF Logged
  <2>3. /\ events2 \in SUBSET DispatchEvent /\ WellFormed(events2)
        /\ QueuedIds(events2) \subseteq QueuedIds(events)
        /\ ReplayedDispatch(events2) = [r \in Request |-> IF r \in c.ids THEN "absent" ELSE d[r]]
    <3> DEFINE R == c.ids
    <3>1. /\ events \in SUBSET DispatchEvent /\ WellFormed(events) /\ d = ReplayedDispatch(events)
          /\ R \in SUBSET Request /\ events2 = events \ OfRequests(R)
      BY <1>1, <2>1, <2>2
    <3> HIDE DEF R, d, events, events2
    <3>2. LET new == events \ OfRequests(R)
          IN  /\ new \in SUBSET DispatchEvent /\ WellFormed(new)
              /\ QueuedIds(new) \subseteq QueuedIds(events)
              /\ ReplayedDispatch(new) =
                   [r \in Request |-> IF r \in R THEN "absent" ELSE ReplayedDispatch(events)[r]]
      BY <3>1, RemovingReplayed
    <3> QED
      BY <3>1, <3>2 DEF R
  <2>4. d2 = ReplayedDispatch(events2)
    BY <1>2, <1>5, <2>3 DEF DispatchKind, StateAfter
  <2>5. QueuedIds(events2) \subseteq g.seen \cup Reserves(c)
    BY <1>1, <2>3
  <2> QED
    BY <1>2, <1>3, <2>3, <2>4, <2>5 DEF SoundDispatch
<1>6. CASE c.kind \notin DispatchKind
  <2>1. d2 = d /\ events2 = events
    BY <1>1, <1>2, <1>6 DEF Logged, DispatchKind
  <2>2. QueuedIds(events2) \subseteq g.seen \cup Reserves(c)
    BY <1>1, <2>1
  <2> QED
    BY <1>1, <1>2, <2>1, <2>2 DEF SoundDispatch
<1> QED
  BY <1>4, <1>5, <1>6 DEF DispatchKind

LEMMA ProcessedMail ==
  ASSUME NEW g, Sound(g), NEW c \in Command, Accepts(g.store, g.seen, c)
  PROVE  /\ SoundMail(Processed(g, c).store.mail, Processed(g, c).log.mail)
         /\ Processed(g, c).store.mail \in [Key -> MailLevel]
         /\ NotAhead(g.store.mail, Processed(g, c).store.mail)
<1> DEFINE m == g.store.mail
           events == g.log.mail
           m2 == Processed(g, c).store.mail
           events2 == Processed(g, c).log.mail
           T == Touched(g.store, c)
           l == LevelAfter[c.kind]
<1>1. /\ events \in SUBSET MailEvent /\ MailInOrder(events) /\ m = ReplayedMail(events)
      /\ m \in [Key -> MailLevel]
  BY DEF Sound, SoundMail, Engine, Store
<1>2. /\ m2 = [k \in Key |-> IF k \in T THEN l ELSE m[k]]
      /\ events2 = Logged(g, c).mail
  BY DEF Processed, Result
<1>3. CASE c.kind \in MailKind
  <2>1. /\ c.key \in Key
        /\ c.kind = "create" => T = {c.key} /\ l = "created"
        /\ c.kind = "mailNotify" => T = Found(m, c.key) /\ l = "notified"
        /\ c.kind = "mailDeliver" => T = Found(m, c.key) /\ l = "delivered"
    BY <1>3 DEF Touched, LevelAfter, MailKind, Command, DispatchKind
  <2>2. T \in SUBSET Key /\ l \in {"created", "notified", "delivered"}
    BY <1>3, <2>1, FoundFacts DEF MailKind
  <2>3. ASSUME NEW k \in T
        PROVE  /\ l = "created" <=> m[k] = "absent"
               /\ l = "notified" => m[k] # "delivered"
    <3>1. CASE c.kind = "create"
      <4>1. ~Clashes(m, c.key)
        BY <3>1 DEF Accepts, MailKind
      <4>2. c.key \notin RecordsOf(m, c.key[1])
        BY <2>1, <4>1 DEF Clashes
      <4>3. m[c.key] = "absent"
        BY <2>1, <4>2 DEF RecordsOf
      <4> QED
        BY <2>1, <2>3, <3>1, <4>3
    <3>2. CASE c.kind = "mailNotify"
      <4>1. \E j \in Found(m, c.key) : m[j] # "delivered"
        BY <3>2 DEF Accepts
      <4> QED
        BY <2>1, <2>3, <3>2, <4>1, FoundFacts
    <3>3. CASE c.kind = "mailDeliver"
      BY <2>1, <2>3, <3>3, FoundFacts
    <3> QED
      BY <1>3, <3>1, <3>2, <3>3 DEF MailKind
  <2>4. events2 = events \cup (T \X {l})
    BY <1>2, <1>3 DEF Logged
  <2> HIDE DEF T, l, events, events2, m, m2
  <2>5. /\ events2 \in SUBSET MailEvent /\ MailInOrder(events2)
        /\ ReplayedMail(events2) = [k \in Key |-> IF k \in T THEN l ELSE m[k]]
        /\ NotAhead(m, ReplayedMail(events2))
    <3>1. MayBecome(ReplayedMail(events), T, l)
      BY <1>1, <2>3 DEF MayBecome
    <3>2. /\ events2 \in SUBSET MailEvent /\ MailInOrder(events2)
          /\ ReplayedMail(events2) = [k \in Key |-> IF k \in T THEN l ELSE ReplayedMail(events)[k]]
          /\ NotAhead(ReplayedMail(events), ReplayedMail(events2))
      BY <1>1, <2>2, <2>4, <3>1, MailReplayed
    <3> QED
      BY <1>1, <3>2
  <2>6. m2 \in [Key -> MailLevel]
    BY <1>1, <1>2, <2>2 DEF MailLevel
  <2>7. m2 = ReplayedMail(events2)
    BY <1>2, <2>5
  <2>8. SoundMail(m2, events2) /\ NotAhead(m, m2)
    BY <2>5, <2>7 DEF SoundMail
  <2> QED
    BY <2>6, <2>8 DEF m, m2, events2
<1>4. CASE c.kind \notin MailKind
  <2>1. T = {}
    BY <1>4 DEF Touched, MailKind
  <2>2. m2 = m /\ events2 = events
    BY <1>1, <1>2, <1>4, <2>1 DEF Logged
  <2>3. NotAhead(m, m)
    <3>1. ASSUME NEW k \in Key PROVE Rank[m[k]] <= Rank[m[k]]
      BY <1>1, RankFacts DEF MailLevel
    <3> QED
      BY <3>1 DEF NotAhead
  <2>4. SoundMail(m, events)
    BY <1>1 DEF SoundMail
  <2> QED
    BY <1>1, <2>2, <2>3, <2>4
<1> QED
  BY <1>3, <1>4

LEMMA ProcessedSound ==
  ASSUME NEW g, Sound(g), NEW c \in Command, Accepts(g.store, g.seen, c)
  PROVE  /\ Sound(Processed(g, c))
         /\ Processed(g, c).seen = g.seen \cup Reserves(c)
         /\ NotAhead(g.store.mail, Processed(g, c).store.mail)
<1> DEFINE h == Processed(g, c)
<1>1. /\ SoundDispatch(h.store.dispatch, h.log.dispatch, h.seen)
      /\ h.store.dispatch \in [Request -> DispatchState]
  BY ProcessedDispatch
<1>2. /\ SoundMail(h.store.mail, h.log.mail)
      /\ h.store.mail \in [Key -> MailLevel]
      /\ NotAhead(g.store.mail, h.store.mail)
  BY ProcessedMail
<1>3. h.seen = g.seen \cup Reserves(c)
  BY DEF Processed
<1>4. h.seen \in SUBSET Request
  BY <1>3 DEF Reserves, Command, DispatchKind, MailKind, Sound, Engine
<1>5. h = [store |-> h.store, seen |-> h.seen, log |-> h.log]
  BY DEF Processed
<1>6. h.store = [dispatch |-> h.store.dispatch, mail |-> h.store.mail]
  BY DEF Processed, Result
<1>7. h.log = [dispatch |-> h.log.dispatch, mail |-> h.log.mail]
  BY DEF Processed, Logged
<1> HIDE DEF h
<1>8. h.store \in Store
  BY <1>1, <1>2, <1>6 DEF Store
<1>9. h.log \in EventLog
  BY <1>1, <1>2, <1>7 DEF EventLog, SoundDispatch, SoundMail
<1>10. h \in Engine
  BY <1>4, <1>5, <1>8, <1>9 DEF Engine
<1>11. Sound(h)
  BY <1>1, <1>2, <1>10 DEF Sound
<1> QED
  BY <1>2, <1>3, <1>11 DEF h

LEMMA CompactedSound ==
  ASSUME NEW g, Sound(g)
  PROVE  /\ Sound(CompactedEngine(g))
         /\ CompactedEngine(g).seen = g.seen
         /\ CompactedEngine(g).store.mail = g.store.mail
         /\ CompactedEngine(g).store = Compacted(g.store)
<1> DEFINE h == CompactedEngine(g)
           R == Finished(g.store)
           d == g.store.dispatch
           events == g.log.dispatch
<1>1. /\ events \in SUBSET DispatchEvent /\ WellFormed(events) /\ d = ReplayedDispatch(events)
      /\ QueuedIds(events) \subseteq g.seen /\ d \in [Request -> DispatchState]
      /\ g.store \in Store /\ g.log \in EventLog /\ g \in Engine
      /\ SoundMail(g.store.mail, g.log.mail)
  BY DEF Sound, SoundDispatch, Engine, Store
<1>2. /\ h.seen = g.seen /\ h.store = Compacted(g.store)
      /\ h.log = [g.log EXCEPT !.dispatch = events \ OfRequests(R)]
  BY <1>1 DEF CompactedEngine, Engine
<1>3. h.log.dispatch = events \ OfRequests(R) /\ h.log.mail = g.log.mail
  BY <1>1, <1>2 DEF EventLog
<1>4. /\ h.store.mail = g.store.mail
      /\ h.store.dispatch = [r \in Request |-> IF d[r] \in TerminalState THEN "absent" ELSE d[r]]
  BY <1>1, <1>2 DEF Compacted, Store
<1>5. R \in SUBSET Request /\ \A r \in Request : r \in R <=> d[r] \in TerminalState
  BY DEF Finished
<1>6. h \in Engine
  <2>1. h.store.dispatch \in [Request -> DispatchState]
    BY <1>1, <1>4 DEF DispatchState
  <2>2. h.store = [g.store EXCEPT !.dispatch = h.store.dispatch]
    BY <1>2, <1>4 DEF Compacted
  <2>3. h = [g EXCEPT !.store = h.store, !.log = h.log]
    BY <1>1, <1>2 DEF CompactedEngine, Engine
  <2> HIDE DEF h
  <2>4. h.store \in Store
    BY <1>1, <2>1, <2>2 DEF Store
  <2>5. h.log \in EventLog
    BY <1>1, <1>2 DEF EventLog
  <2> QED
    BY <1>1, <2>3, <2>4, <2>5 DEF Engine
<1>7. SoundDispatch(h.store.dispatch, h.log.dispatch, h.seen)
  <2> DEFINE new == events \ OfRequests(R)
  <2>1. /\ new \in SUBSET DispatchEvent /\ WellFormed(new)
        /\ QueuedIds(new) \subseteq QueuedIds(events)
        /\ ReplayedDispatch(new) =
             [r \in Request |-> IF r \in R THEN "absent" ELSE ReplayedDispatch(events)[r]]
    BY <1>1, <1>5, RemovingReplayed
  <2>2. h.store.dispatch = ReplayedDispatch(new)
    BY <1>1, <1>4, <1>5, <2>1
  <2> HIDE DEF h, new
  <2>3. h.log.dispatch = new
    BY <1>3 DEF new
  <2> QED
    BY <1>1, <1>2, <2>1, <2>2, <2>3 DEF SoundDispatch
<1> QED
  BY <1>1, <1>2, <1>3, <1>4, <1>6, <1>7 DEF Sound

LEMMA RanSound ==
  ASSUME NEW g, Sound(g), NEW c \in Command, Accepts(g.store, g.seen, c), NEW compact \in BOOLEAN
  PROVE  /\ Sound(Ran(g, c, compact))
         /\ Ran(g, c, compact).seen = g.seen \cup Reserves(c)
         /\ NotAhead(g.store.mail, Ran(g, c, compact).store.mail)
         /\ Ran(g, c, compact).store = ResultOf(g.store, c, compact)
<1>1. /\ Sound(Processed(g, c))
      /\ Processed(g, c).seen = g.seen \cup Reserves(c)
      /\ NotAhead(g.store.mail, Processed(g, c).store.mail)
      /\ Processed(g, c).store = Result(g.store, c)
  BY ProcessedSound DEF Processed
<1>2. CASE compact
  BY <1>1, <1>2, CompactedSound DEF Ran, ResultOf
<1>3. CASE ~compact
  BY <1>1, <1>3 DEF Ran, ResultOf
<1> QED
  BY <1>2, <1>3

-----------------------------------------------------------------------------
(* Loading.                                                                   *)

StoreOf(log) ==
  [dispatch |-> ReplayedDispatch(log.dispatch), mail |-> ReplayedMail(log.mail)]

LEMMA StoreOfSound ==
  ASSUME NEW g, Sound(g)
  PROVE  g.store = StoreOf(g.log)
BY DEF Sound, SoundDispatch, SoundMail, StoreOf, Engine, Store

LEMMA ReplayedTyped ==
  ASSUME NEW events \in SUBSET DispatchEvent, WellFormed(events),
         NEW mails \in SUBSET MailEvent, MailInOrder(mails)
  PROVE  /\ ReplayedDispatch(events) \in [Request -> DispatchState]
         /\ ReplayedMail(mails) \in [Key -> MailLevel]
<1>1. ReplayedDispatch(events) = [r \in Request |-> ReplayedDispatch(events)[r]]
  BY DEF ReplayedDispatch
<1>2. ReplayedMail(mails) = [k \in Key |-> ReplayedMail(mails)[k]]
  BY DEF ReplayedMail
<1>3. \A r \in Request : ReplayedDispatch(events)[r] \in DispatchState
  BY ReplayFacts
<1>4. \A k \in Key : ReplayedMail(mails)[k] \in MailLevel
  BY MailFacts
<1>5. ReplayedDispatch(events) \in [Request -> DispatchState]
  BY <1>1, <1>3
<1>6. ReplayedMail(mails) \in [Key -> MailLevel]
  BY <1>2, <1>4
<1> QED
  BY <1>5, <1>6

LEMMA NewSound == Sound(NewEngine) /\ NewEngine.store = EmptyStore
<1>1. ReplayedDispatch({}) = EmptyStore.dispatch
  BY DEF ReplayedDispatch, EmptyStore
<1>2. ReplayedMail({}) = EmptyStore.mail
  BY DEF ReplayedMail, EmptyStore
<1>3. WellFormed({}) /\ MailInOrder({}) /\ QueuedIds({}) = {}
  BY DEF WellFormed, MailInOrder, QueuedIds
<1>4. EmptyStore \in Store
  BY DEF EmptyStore, Store, DispatchState, MailLevel
<1>5. NewEngine \in Engine
  BY <1>4 DEF NewEngine, Engine, EventLog, NoEvents
<1> QED
  BY <1>1, <1>2, <1>3, <1>5 DEF Sound, SoundDispatch, SoundMail, NewEngine, NoEvents

(* The merge of the mailbox with its events is the replay of its events.           *)
LEMMA MergedIsReplayed ==
  ASSUME NEW mail \in [Key -> MailLevel], NEW events \in SUBSET MailEvent, MailInOrder(events),
         NotAhead(mail, ReplayedMail(events))
  PROVE  Merged(mail, events) = ReplayedMail(events)
<1>1. ReplayedMail(events) \in [Key -> MailLevel]
  <2>1. ReplayedMail(events) = [k \in Key |-> ReplayedMail(events)[k]]
    BY DEF ReplayedMail
  <2>2. \A k \in Key : ReplayedMail(events)[k] \in MailLevel
    BY MailFacts
  <2> QED
    BY <2>1, <2>2
<1>2. ASSUME NEW k \in Key, ~(Rank[mail[k]] < Rank[ReplayedMail(events)[k]])
      PROVE  mail[k] = ReplayedMail(events)[k]
  <2>1. Rank[mail[k]] <= Rank[ReplayedMail(events)[k]]
    BY DEF NotAhead
  <2>2. /\ mail[k] \in {"absent", "created", "notified", "delivered"}
        /\ ReplayedMail(events)[k] \in {"absent", "created", "notified", "delivered"}
    BY <1>1 DEF MailLevel
  <2> QED
    BY <1>2, <2>1, <2>2, RankFacts
<1>3. Merged(mail, events) = [k \in Key |-> ReplayedMail(events)[k]]
  BY <1>2 DEF Merged
<1> QED
  BY <1>1, <1>3

LEMMA LoadedFacts ==
  ASSUME EngineTypeOK, DiskInv, Loads
  PROVE  /\ Sound(Base) /\ Base.log = disk.log /\ Base.seen = disk.ledger
         /\ Base.store = StoreOf(disk.log) /\ queued \subseteq Base.seen
         /\ disk.torn \subseteq {"snapshot"} /\ {"events", "ledger"} \subseteq disk.files
         /\ ~Unwritten
<1> DEFINE L == disk.log
<1>1. /\ disk.log \in EventLog /\ L.dispatch \in SUBSET DispatchEvent /\ L.mail \in SUBSET MailEvent
      /\ disk.mail \in [Key -> MailLevel] /\ disk.ledger \in SUBSET Request
      /\ disk.torn \in SUBSET File /\ disk.files \in SUBSET File
  BY DEF EngineTypeOK, Disk, EventLog
<1>2. /\ WellFormed(L.dispatch) /\ MailInOrder(L.mail) /\ QueuedIds(L.dispatch) \subseteq disk.ledger
      /\ queued \subseteq disk.ledger
      /\ NotAhead(disk.mail, ReplayedMail(L.mail)) /\ "ledger" \notin disk.torn
  BY DEF DiskInv
<1>3. Base.seen = disk.ledger /\ Base.log = disk.log
  BY DEF Base, Loaded, SeenFromLedger
<1>4. Base.store = StoreOf(disk.log)
  <2>1. Merged(disk.mail, L.mail) = ReplayedMail(L.mail)
    BY <1>1, <1>2, MergedIsReplayed
  <2> QED
    BY <2>1 DEF Base, Loaded, StoreOf
<1>5. Base = [store |-> Base.store, seen |-> Base.seen, log |-> Base.log]
  BY DEF Base, Loaded
<1>6. Base.store \in Store
  BY <1>1, <1>2, <1>4, ReplayedTyped DEF StoreOf, Store
<1>7. Base \in Engine
  BY <1>1, <1>3, <1>5, <1>6 DEF Engine
<1>8. Sound(Base)
  BY <1>1, <1>2, <1>3, <1>4, <1>7 DEF Sound, SoundDispatch, SoundMail, StoreOf
<1>9. disk.torn \subseteq {"snapshot"} /\ {"events", "ledger"} \subseteq disk.files
  BY <1>1, <1>2 DEF Loads, File
<1>10. ~Unwritten
  BY <1>9 DEF Unwritten
<1> QED
  BY <1>2, <1>3, <1>4, <1>8, <1>9, <1>10

(* Whoever may run a command has a sound engine, and the files are its.             *)
LEMMA BaseFacts ==
  ASSUME EngineTypeOK, DiskInv, Usable
  PROVE  /\ Sound(Base) /\ Base.log = disk.log /\ Base.seen = disk.ledger
         /\ queued \subseteq Base.seen /\ disk.torn \subseteq {"snapshot"}
<1>1. CASE Loads
  BY <1>1, LoadedFacts
<1>2. CASE ~Loads
  <2>1. disk = EmptyDisk /\ queued = {} /\ Base = NewEngine
    BY <1>2 DEF Usable, DiskInv, Base
  <2> QED
    BY <2>1, NewSound DEF EmptyDisk, NewEngine
<1> QED
  BY <1>1, <1>2

(* The process that runs: what it had, what it made of it.                          *)
LEMMA RunningFacts ==
  ASSUME IInv, Running
  PROVE  /\ Sound(exec.before) /\ Sound(exec.engine)
         /\ exec.engine.seen = exec.before.seen \cup Reserves(exec.cmd)
         /\ NotAhead(exec.before.store.mail, exec.engine.store.mail)
         /\ exec.engine.store = ResultOf(exec.before.store, exec.cmd, exec.compact)
<1>1. exec.cmd \in Command /\ exec.compact \in BOOLEAN
  BY DEF IInv, EngineTypeOK, Exec
<1>2. /\ Sound(exec.before) /\ Accepts(exec.before.store, exec.before.seen, exec.cmd)
      /\ exec.engine = Ran(exec.before, exec.cmd, exec.compact)
  BY DEF IInv, ExecInv
<1> QED
  BY <1>1, <1>2, RanSound

LEMMA PresentFacts == ASSUME NEW g, Sound(g) PROVE Present(g.store) \subseteq g.seen
<1> DEFINE events == g.log.dispatch
<1>1. /\ events \in SUBSET DispatchEvent /\ WellFormed(events)
      /\ g.store.dispatch = ReplayedDispatch(events) /\ QueuedIds(events) \subseteq g.seen
  BY DEF Sound, SoundDispatch
<1>2. ASSUME NEW r \in Request, ReplayedDispatch(events)[r] # "absent" PROVE r \in QueuedIds(events)
  BY <1>1, <1>2, ReplayFacts DEF QueuedIds
<1> QED
  BY <1>1, <1>2 DEF Present

-----------------------------------------------------------------------------
(* Every step keeps the invariant.                                               *)

LEMMA InitIInv == Init => IInv
<1> SUFFICES ASSUME Init PROVE IInv
  OBVIOUS
<1>1. Sound(NewEngine)
  BY NewSound
<1>2. NewEngine \in Engine /\ EmptyStore \in Store
  BY <1>1 DEF Sound, NewEngine, Engine
<1>3. Capture \in Command
  BY DEF Capture, Command
<1>4. EngineTypeOK
  BY <1>2, <1>3, DeathAssumption DEF Init, EngineTypeOK, EmptyDisk, Disk, EventLog, NoEvents, Store,
     EmptyStore, IdleExec, Exec
<1>5. ~Running
  BY DEF Init, IdleExec, Running
<1>6. NotAhead(EmptyStore.mail, ReplayedMail({}))
  <2>1. ReplayedMail({}) = EmptyStore.mail
    BY DEF ReplayedMail, EmptyStore
  <2>2. ASSUME NEW k \in Key PROVE Rank[EmptyStore.mail[k]] <= Rank[EmptyStore.mail[k]]
    BY RankFacts DEF EmptyStore
  <2> QED
    BY <2>1, <2>2 DEF NotAhead
<1>7. DiskInv
  BY <1>6 DEF Init, DiskInv, EmptyDisk, NoEvents, WellFormed, MailInOrder, QueuedIds
<1> QED
  BY <1>4, <1>5, <1>7 DEF IInv, ExecInv

LEMMA RunKeeps == ASSUME IInv, NEW c \in Command, NEW compact \in BOOLEAN, Run(c, compact) PROVE IInv'
<1>1. /\ exec.step = "idle" /\ Usable /\ Accepts(Base.store, Base.seen, c)
      /\ exec' = [step |-> "snapshot", cmd |-> c, compact |-> compact, before |-> Base,
                  engine |-> Ran(Base, c, compact)]
      /\ UNCHANGED <<disk, queued, deaths>>
  BY DEF Run, Ran
<1>2. /\ Sound(Base) /\ Base.log = disk.log /\ Base.seen = disk.ledger
      /\ queued \subseteq Base.seen /\ disk.torn \subseteq {"snapshot"}
  BY <1>1, BaseFacts DEF IInv
<1>3. Sound(Ran(Base, c, compact))
  BY <1>1, <1>2, RanSound
<1>4. EngineTypeOK'
  <2>1. Base \in Engine /\ Ran(Base, c, compact) \in Engine
    BY <1>2, <1>3 DEF Sound
  <2>2. exec' \in Exec
    BY <1>1, <2>1 DEF Exec, File
  <2> QED
    BY <1>1, <2>2 DEF IInv, EngineTypeOK
<1>5. DiskInv'
  BY <1>1 DEF IInv, DiskInv, Unwritten
<1>6. exec'.step = "snapshot" /\ exec'.before = Base /\ exec'.engine = Ran(Base, c, compact)
      /\ exec'.cmd = c /\ exec'.compact = compact
  BY <1>1
<1>7. ExecInv'
  BY <1>1, <1>2, <1>6 DEF ExecInv, Effective
<1> QED
  BY <1>4, <1>5, <1>7 DEF IInv

LEMMA NextFileFacts ==
  /\ NextFile["snapshot"] = "ledger" /\ NextFile["ledger"] = "events"
  /\ NextFile["events"] = "mailbox" /\ NextFile["mailbox"] = "dispatch"
  /\ NextFile["dispatch"] = "view"
BY DEF NextFile, File

LEMMA WrittenFacts ==
  ASSUME EngineTypeOK, NEW f \in File, Persist(f)
  PROVE  /\ disk'.files = disk.files \cup {f} /\ disk'.torn = disk.torn \ {f}
         /\ disk'.ledger = IF f = "ledger" THEN exec.engine.seen ELSE disk.ledger
         /\ disk'.log = IF f = "events" THEN exec.engine.log ELSE disk.log
         /\ disk'.mail = IF f = "mailbox" THEN exec.engine.store.mail ELSE disk.mail
         /\ disk'.ids = IF f = "dispatch" THEN Present(exec.engine.store) ELSE disk.ids
         /\ disk' = [files |-> disk'.files, torn |-> disk'.torn, ledger |-> disk'.ledger,
                     log |-> disk'.log, mail |-> disk'.mail, ids |-> disk'.ids]
         /\ exec' = [exec EXCEPT !.step = NextFile[f]]
         /\ exec'.step = NextFile[f] /\ exec'.cmd = exec.cmd /\ exec'.compact = exec.compact
         /\ exec'.before = exec.before /\ exec'.engine = exec.engine
         /\ exec.step = f /\ Running
<1>1. disk \in Disk /\ disk' = Written(f) /\ exec \in Exec /\ exec' = [exec EXCEPT !.step = NextFile[f]]
      /\ exec.step = f
  BY DEF EngineTypeOK, Persist
<1> QED
  BY <1>1 DEF Written, Disk, Exec, Running, File

LEMMA NotAheadOver ==
  ASSUME NEW a \in [Key -> MailLevel], NEW b \in [Key -> MailLevel], NEW d \in [Key -> MailLevel],
         NotAhead(a, b), NotAhead(b, d)
  PROVE  NotAhead(a, d) /\ NotAhead(d, d)
<1>1. \A l \in MailLevel : Rank[l] \in Nat
  BY RankFacts DEF MailLevel
<1>2. ASSUME NEW k \in Key PROVE Rank[a[k]] <= Rank[d[k]] /\ Rank[d[k]] <= Rank[d[k]]
  <2>1. Rank[a[k]] <= Rank[b[k]] /\ Rank[b[k]] <= Rank[d[k]]
    BY DEF NotAhead
  <2>2. Rank[a[k]] \in Nat /\ Rank[b[k]] \in Nat /\ Rank[d[k]] \in Nat
    BY <1>1
  <2> QED
    BY <2>1, <2>2
<1> QED
  BY <1>2 DEF NotAhead

(* One file is written: the ledger runs ahead of the events, the events ahead of  *)
(* mailbox.json, and each file belongs to the engine before or to the one after.  *)
LEMMA PersistKeeps == ASSUME IInv, NEW f \in File, Persist(f) PROVE IInv'
<1>1. EngineTypeOK /\ DiskInv /\ ExecInv
  BY DEF IInv
<1>2. /\ disk'.files = disk.files \cup {f} /\ disk'.torn = disk.torn \ {f}
      /\ disk'.ledger = IF f = "ledger" THEN exec.engine.seen ELSE disk.ledger
      /\ disk'.log = IF f = "events" THEN exec.engine.log ELSE disk.log
      /\ disk'.mail = IF f = "mailbox" THEN exec.engine.store.mail ELSE disk.mail
      /\ disk'.ids = IF f = "dispatch" THEN Present(exec.engine.store) ELSE disk.ids
      /\ disk' = [files |-> disk'.files, torn |-> disk'.torn, ledger |-> disk'.ledger,
                  log |-> disk'.log, mail |-> disk'.mail, ids |-> disk'.ids]
      /\ exec' = [exec EXCEPT !.step = NextFile[f]]
      /\ exec'.step = NextFile[f] /\ exec'.cmd = exec.cmd /\ exec'.compact = exec.compact
      /\ exec'.before = exec.before /\ exec'.engine = exec.engine
      /\ exec.step = f /\ Running
  BY <1>1, WrittenFacts
<1>3. /\ Sound(exec.before) /\ Sound(exec.engine)
      /\ exec.engine.seen = exec.before.seen \cup Reserves(exec.cmd)
      /\ NotAhead(exec.before.store.mail, exec.engine.store.mail)
  BY <1>2, RunningFacts
<1>4. /\ disk.torn \subseteq {"snapshot"}
      /\ f \in {"snapshot", "ledger", "events"} =>
           disk.log = exec.before.log /\ queued \subseteq exec.before.seen
      /\ f \in {"mailbox", "dispatch"} =>
           disk.log = exec.engine.log /\ {"events", "ledger"} \subseteq disk.files
      /\ f \in {"snapshot", "ledger"} => disk.ledger = exec.before.seen
      /\ f = "ledger" => "snapshot" \in disk.files
      /\ f = "events" => {"snapshot", "ledger"} \subseteq disk.files
      /\ f \notin {"snapshot", "ledger"} => disk.ledger = exec.engine.seen
  BY <1>1, <1>2 DEF ExecInv, Effective
<1>5. /\ exec.engine \in Engine /\ exec.engine.store.mail \in [Key -> MailLevel]
      /\ exec.engine.seen \in SUBSET Request /\ exec.engine.log \in EventLog
      /\ exec.before.store.mail \in [Key -> MailLevel]
  BY <1>3 DEF Sound, Engine, Store
<1>6. /\ disk.mail \in [Key -> MailLevel] /\ disk.files \in SUBSET File
      /\ disk.torn \in SUBSET File /\ disk.ledger \in SUBSET Request
      /\ disk.log \in EventLog /\ disk.ids \in SUBSET Request
      /\ queued \in SUBSET Request /\ exec \in Exec /\ deaths \in 0..MaxDeath
  BY <1>1 DEF EngineTypeOK, Disk
<1>7. /\ queued' = IF f = "events" THEN queued \cup Present(exec.engine.store) ELSE queued
      /\ deaths' = deaths
  BY DEF Persist
<1>8. Present(exec.engine.store) \subseteq exec.engine.seen
  BY <1>3, PresentFacts
<1>9. /\ WellFormed(exec.engine.log.dispatch) /\ MailInOrder(exec.engine.log.mail)
      /\ QueuedIds(exec.engine.log.dispatch) \subseteq exec.engine.seen
      /\ exec.engine.store.mail = ReplayedMail(exec.engine.log.mail)
      /\ exec.before.store.mail = ReplayedMail(exec.before.log.mail)
  BY <1>3 DEF Sound, SoundDispatch, SoundMail
<1>10. /\ WellFormed(disk.log.dispatch) /\ MailInOrder(disk.log.mail)
       /\ QueuedIds(disk.log.dispatch) \cup disk.ids \cup queued \subseteq disk.ledger
       /\ NotAhead(disk.mail, ReplayedMail(disk.log.mail))
       /\ "ledger" \notin disk.torn
  BY <1>1 DEF DiskInv
<1>11. EngineTypeOK'
  <2>1. disk' \in Disk
    BY <1>2, <1>5, <1>6, <1>8 DEF Disk
  <2>2. NextFile[f] \in File \cup {"idle", "view"}
    BY NextFileFacts DEF File
  <2>3. exec' \in Exec
    BY <1>2, <1>6, <2>2 DEF Exec
  <2>4. queued' \subseteq Request /\ deaths' \in 0..MaxDeath
    BY <1>5, <1>6, <1>7, <1>8
  <2> QED
    BY <2>1, <2>3, <2>4 DEF EngineTypeOK
<1>12. WellFormed(disk'.log.dispatch) /\ MailInOrder(disk'.log.mail)
  BY <1>2, <1>9, <1>10
<1>13. QueuedIds(disk'.log.dispatch) \cup disk'.ids \cup queued' \subseteq disk'.ledger
  <2>1. CASE f = "ledger"
    BY <1>2, <1>3, <1>4, <1>7, <1>10, <2>1
  <2>2. CASE f = "events"
    BY <1>2, <1>4, <1>7, <1>8, <1>9, <1>10, <2>2
  <2>3. CASE f = "dispatch"
    BY <1>2, <1>4, <1>7, <1>8, <1>10, <2>3
  <2>4. CASE f \in {"snapshot", "mailbox"}
    BY <1>2, <1>7, <1>10, <2>4
  <2> QED
    BY <2>1, <2>2, <2>3, <2>4 DEF File
<1>14. NotAhead(disk'.mail, ReplayedMail(disk'.log.mail))
  <2>1. CASE f = "events"
    <3> DEFINE a == disk.mail
               b == exec.before.store.mail
               d == exec.engine.store.mail
    <3>1. /\ a \in [Key -> MailLevel] /\ b \in [Key -> MailLevel] /\ d \in [Key -> MailLevel]
          /\ NotAhead(a, b) /\ NotAhead(b, d)
      BY <1>3, <1>4, <1>5, <1>6, <1>9, <1>10, <2>1
    <3>2. disk'.mail = a /\ ReplayedMail(disk'.log.mail) = d
      BY <1>2, <1>9, <2>1
    <3> HIDE DEF a, b, d
    <3>3. NotAhead(a, d)
      BY <3>1, NotAheadOver
    <3> QED
      BY <3>2, <3>3
  <2>2. CASE f = "mailbox"
    <3> DEFINE b == exec.before.store.mail
               d == exec.engine.store.mail
    <3>1. b \in [Key -> MailLevel] /\ d \in [Key -> MailLevel] /\ NotAhead(b, d)
      BY <1>3, <1>5
    <3>2. disk'.mail = d /\ ReplayedMail(disk'.log.mail) = d
      BY <1>2, <1>4, <1>9, <2>2
    <3> HIDE DEF b, d
    <3>3. NotAhead(b, b)
      <4>1. ASSUME NEW k \in Key PROVE Rank[b[k]] <= Rank[b[k]]
        BY <3>1, RankFacts DEF MailLevel
      <4> QED
        BY <4>1 DEF NotAhead
    <3>4. NotAhead(d, d)
      BY <3>1, <3>3, NotAheadOver
    <3> QED
      BY <3>2, <3>4
  <2>3. CASE f \notin {"events", "mailbox"}
    BY <1>2, <1>10, <2>3
  <2> QED
    BY <2>1, <2>2, <2>3
<1>15. "ledger" \notin disk'.torn
  BY <1>2, <1>10
<1>16. ~Unwritten'
  <2>1. CASE f \in {"snapshot", "events", "mailbox"}
    BY <1>2, <2>1 DEF Unwritten
  <2>2. CASE f = "ledger"
    BY <1>2, <1>4, <2>2 DEF Unwritten
  <2>3. CASE f = "dispatch"
    BY <1>2, <1>4, <2>3 DEF Unwritten
  <2> QED
    BY <2>1, <2>2, <2>3 DEF File
<1>17. DiskInv'
  BY <1>12, <1>13, <1>14, <1>15, <1>16 DEF DiskInv
<1>18. ExecInv'
  <2>1. /\ Sound(exec'.before) /\ Accepts(exec'.before.store, exec'.before.seen, exec'.cmd)
        /\ exec'.engine = Ran(exec'.before, exec'.cmd, exec'.compact)
        /\ disk'.torn \subseteq {"snapshot"}
    BY <1>1, <1>2, <1>4 DEF ExecInv
  <2>2. ~Effective' => disk'.log = exec'.before.log /\ queued' \subseteq exec'.before.seen
    BY <1>2, <1>4, <1>7, NextFileFacts DEF Effective, File
  <2>3. Effective' => disk'.log = exec'.engine.log /\ {"events", "ledger"} \subseteq disk'.files
    BY <1>2, <1>4, NextFileFacts DEF Effective, File
  <2>4. exec'.step \in {"snapshot", "ledger"} => disk'.ledger = exec'.before.seen
    BY <1>2, <1>4, NextFileFacts DEF File
  <2>5. /\ exec'.step = "ledger" => "snapshot" \in disk'.files
        /\ exec'.step = "events" => {"snapshot", "ledger"} \subseteq disk'.files
    BY <1>2, <1>4, NextFileFacts DEF File
  <2>6. exec'.step \notin {"snapshot", "ledger"} => disk'.ledger = exec'.engine.seen
    BY <1>2, <1>4, NextFileFacts DEF File
  <2> QED
    BY <2>1, <2>2, <2>3, <2>4, <2>5, <2>6 DEF ExecInv
<1> QED
  BY <1>11, <1>17, <1>18 DEF IInv

LEMMA ReplyKeeps == ASSUME IInv, Reply PROVE IInv'
<1>1. NewEngine \in Engine /\ Capture \in Command
  BY NewSound DEF Sound, Capture, Command
<1>2. EngineTypeOK'
  BY <1>1 DEF IInv, EngineTypeOK, Reply, IdleExec, Exec
<1>3. DiskInv'
  BY DEF IInv, DiskInv, Reply, Unwritten
<1>4. ~Running'
  BY DEF Reply, IdleExec, Running
<1> QED
  BY <1>2, <1>3, <1>4 DEF IInv, ExecInv

(* A process dies: the file it was writing may be torn, never the ledger.         *)
LEMMA DeathKeeps == ASSUME IInv, Death PROVE IInv'
<1>1. NewEngine \in Engine /\ Capture \in Command
  BY NewSound DEF Sound, Capture, Command
<1>2. ~Running'
  BY DEF Death, IdleExec, Running
<1>3. ExecInv'
  BY <1>2 DEF ExecInv
<1>4. exec' \in Exec /\ queued' = queued /\ deaths' \in 0..MaxDeath /\ exec.step # "idle"
  <2>1. IdleExec \in Exec
    BY <1>1 DEF IdleExec, Exec
  <2>2. exec' = IdleExec /\ queued' = queued /\ deaths' = deaths + 1 /\ deaths < MaxDeath
        /\ exec.step # "idle"
    BY DEF Death
  <2>3. deaths' \in 0..MaxDeath
    BY <2>2, DeathAssumption DEF IInv, EngineTypeOK
  <2> QED
    BY <2>1, <2>2, <2>3
<1>5. CASE disk' = disk
  <2>1. EngineTypeOK'
    BY <1>4, <1>5 DEF IInv, EngineTypeOK
  <2>2. DiskInv'
    BY <1>4, <1>5 DEF IInv, DiskInv, Unwritten
  <2> QED
    BY <1>3, <2>1, <2>2 DEF IInv
<1>6. ASSUME NEW f \in InWriting, disk' = [disk EXCEPT !.files = @ \cup {f}, !.torn = @ \cup {f}]
      PROVE  IInv'
  <2>1. disk \in Disk /\ f \in {"snapshot", "events", "mailbox", "dispatch"}
    BY DEF InWriting, File, IInv, EngineTypeOK
  <2>2. /\ disk'.files = disk.files \cup {f} /\ disk'.torn = disk.torn \cup {f}
        /\ disk'.ledger = disk.ledger /\ disk'.log = disk.log /\ disk'.mail = disk.mail
        /\ disk'.ids = disk.ids /\ disk' \in Disk
    BY <1>6, <2>1 DEF Disk, File
  <2>3. EngineTypeOK'
    BY <1>4, <2>2 DEF IInv, EngineTypeOK
  <2>6. ~Unwritten'
    <3>1. CASE f # "dispatch"
      BY <2>1, <2>2, <3>1 DEF Unwritten
    <3>2. CASE f = "dispatch"
      <4>1. exec.step \in {"dispatch", "view"}
        BY <3>2 DEF InWriting, File
      <4>2. "events" \in disk.files
        BY <1>4, <4>1 DEF IInv, ExecInv, Running, Effective
      <4> QED
        BY <2>2, <4>2 DEF Unwritten
    <3> QED
      BY <3>1, <3>2
  <2>7. DiskInv'
    BY <1>4, <2>1, <2>2, <2>6 DEF IInv, DiskInv
  <2> QED
    BY <1>3, <2>3, <2>7 DEF IInv
<1> QED
  BY <1>5, <1>6 DEF Death

LEMMA StepKeeps == IInv /\ [Next]_vars => IInv'
<1> SUFFICES ASSUME IInv, [Next]_vars PROVE IInv'
  OBVIOUS
<1>1. CASE Next
  BY <1>1, RunKeeps, PersistKeeps, ReplyKeeps, DeathKeeps DEF Next
<1>2. CASE UNCHANGED vars
  BY <1>2 DEF vars, IInv, EngineTypeOK, DiskInv, ExecInv, Running, Effective, Unwritten
<1> QED
  BY <1>1, <1>2

LEMMA EngineInvariant == Spec => []IInv
<1> QED
  BY InitIInv, StepKeeps, PTL DEF Spec

-----------------------------------------------------------------------------
(* What holds in every state.                                                   *)

(* The files, the process and the history are what their types say.                *)
THEOREM EngineTypeCorrect == Spec => []EngineTypeOK
<1>1. IInv => EngineTypeOK
  BY DEF IInv
<1> QED
  BY <1>1, EngineInvariant, PTL

LEMMA CoveredLoad == ASSUME IInv PROVE OldAndNewFilesLoad
BY DEF IInv, DiskInv, OldAndNewFilesLoad, Loads

(* Whichever files a dead process left old and whichever new, the directory loads,  *)
(* unless the death tore one of them (persist and load of engine.rs).               *)
THEOREM OldAndNewLoad == Spec => []OldAndNewFilesLoad
<1>1. IInv => OldAndNewFilesLoad
  BY CoveredLoad
<1> QED
  BY <1>1, EngineInvariant, PTL

-----------------------------------------------------------------------------
(* The refinement: the store is the replay of the events on disk, at every step.      *)

StoreOfDisk == AbstractStore = IF Lost THEN EmptyStore ELSE StoreOf(disk.log)

LEMMA AbstractStoreFacts == ASSUME IInv PROVE StoreOfDisk
<1>1. CASE ~Running
  <2>1. CASE Loads
    BY <1>1, <2>1, LoadedFacts DEF IInv, StoreOfDisk, AbstractStore, Lost, Usable
  <2>2. CASE Usable /\ ~Loads
    <3>1. disk = EmptyDisk /\ Base = NewEngine
      BY <2>2 DEF Usable, IInv, DiskInv, Base
    <3>2. NewEngine.store = StoreOf(NewEngine.log)
      BY NewSound, StoreOfSound
    <3> QED
      BY <1>1, <2>2, <3>1, <3>2 DEF StoreOfDisk, AbstractStore, Lost, EmptyDisk, NewEngine
  <2>3. CASE ~Usable
    BY <1>1, <2>3 DEF StoreOfDisk, AbstractStore, Lost
  <2> QED
    BY <2>1, <2>2, <2>3
<1>2. CASE Running
  <2>1. /\ exec.before.store = StoreOf(exec.before.log)
        /\ exec.engine.store = StoreOf(exec.engine.log)
    BY <1>2, RunningFacts, StoreOfSound
  <2>2. CASE ~Effective
    BY <1>2, <2>1, <2>2 DEF IInv, ExecInv, StoreOfDisk, AbstractStore, Lost
  <2>3. CASE Effective
    BY <1>2, <2>1, <2>3 DEF IInv, ExecInv, StoreOfDisk, AbstractStore, Lost
  <2> QED
    BY <2>2, <2>3
<1> QED
  BY <1>1, <1>2

(* The engine and the store read the same definitions of the commands.               *)
LEMMA SameCommands ==
  /\ Abstract!Capture = Capture /\ Abstract!Command = Command
  /\ Abstract!EmptyStore = EmptyStore
  /\ \A c : Abstract!Reserves(c) = Reserves(c)
  /\ \A s, c, compact : Abstract!ResultOf(s, c, compact) = ResultOf(s, c, compact)
  /\ \A s, seen, c : Abstract!Accepts(s, seen, c) <=> Accepts(s, seen, c)
<1>1. Abstract!Key = Key
  BY DEF Abstract!Key, Key
<1>2. Abstract!Capture = Capture
  BY DEF Abstract!Capture, Capture
<1>3. Abstract!Command = Command
  BY <1>1 DEF Abstract!Command, Command, Abstract!DispatchKind, DispatchKind, Abstract!MailKind,
     MailKind
<1>4. Abstract!EmptyStore = EmptyStore
  BY <1>1 DEF Abstract!EmptyStore, EmptyStore
<1>5. \A c : Abstract!Reserves(c) = Reserves(c)
  BY DEF Abstract!Reserves, Reserves
<1>6. \A mail, m : Abstract!RecordsOf(mail, m) = RecordsOf(mail, m)
  BY <1>1 DEF Abstract!RecordsOf, RecordsOf
<1>7. \A mail, key : Abstract!Found(mail, key) = Found(mail, key)
  BY <1>6 DEF Abstract!Found, Found
<1>8. \A mail, key : Abstract!Clashes(mail, key) <=> Clashes(mail, key)
  BY <1>6 DEF Abstract!Clashes, Clashes
<1>9. Abstract!MarkableFrom = MarkableFrom
  BY DEF Abstract!MarkableFrom, MarkableFrom
<1>10. \A s, seen, c : Abstract!Accepts(s, seen, c) <=> Accepts(s, seen, c)
  BY <1>7, <1>8, <1>9 DEF Abstract!Accepts, Accepts
<1>11. \A s, c : Abstract!Touched(s, c) = Touched(s, c)
  BY <1>7 DEF Abstract!Touched, Touched, Abstract!MailKind, MailKind
<1>12. Abstract!LevelAfter = LevelAfter
  BY DEF Abstract!LevelAfter, LevelAfter, Abstract!MailKind, MailKind
<1>13. \A k : Abstract!StateAfter(k) = StateAfter(k)
  BY DEF Abstract!StateAfter, StateAfter, Abstract!MarkedAs, MarkedAs
<1>14. \A s, c : Abstract!Result(s, c) = Result(s, c)
  BY <1>1, <1>11, <1>12, <1>13 DEF Abstract!Result, Result, Abstract!DispatchKind, DispatchKind
<1>15. \A s : Abstract!Compacted(s) = Compacted(s)
  BY DEF Abstract!Compacted, Compacted, Abstract!TerminalState, TerminalState
<1>16. \A s, c, compact : Abstract!ResultOf(s, c, compact) = ResultOf(s, c, compact)
  BY <1>14, <1>15 DEF Abstract!ResultOf, ResultOf
<1> QED
  BY <1>2, <1>3, <1>4, <1>5, <1>10, <1>16

AbstractReserved == IF Lost THEN {} ELSE disk.ledger
StoreStep == [Abstract!StoreNext]_<<AbstractStore, AbstractReserved, AbstractJob, Lost>>

LEMMA BooleanFacts ==
  /\ Running \in BOOLEAN /\ Effective \in BOOLEAN /\ Lost \in BOOLEAN
  /\ Running' \in BOOLEAN /\ Effective' \in BOOLEAN /\ Lost' \in BOOLEAN
BY DEF Running, Effective, Lost

LEMMA InitRefines == ASSUME Init PROVE Abstract!StoreInit
<1>1. exec = IdleExec /\ disk = EmptyDisk
  BY DEF Init
<1>2. ~Running /\ Unwritten /\ ~Loads
  BY <1>1 DEF Running, Unwritten, Loads, IdleExec, EmptyDisk
<1>3. Usable /\ ~Lost /\ ~Effective /\ Base = NewEngine
  BY <1>1, <1>2 DEF Usable, Lost, Effective, Base, IdleExec
<1>4. AbstractStore = EmptyStore
  BY <1>2, <1>3, NewSound DEF AbstractStore
<1>5. AbstractJob = Abstract!NoJob
  BY BooleanFacts, <1>1, <1>2, <1>3, SameCommands DEF AbstractJob, IdleExec, Abstract!NoJob
<1>6. disk.ledger = {}
  BY <1>1 DEF EmptyDisk
<1> QED
  BY <1>3, <1>4, <1>5, <1>6, SameCommands DEF Abstract!StoreInit

LEMMA RunStarts ==
  ASSUME IInv, NEW c \in Command, NEW compact \in BOOLEAN, Run(c, compact) PROVE StoreStep
<1>1. /\ exec.step = "idle" /\ Usable /\ Accepts(Base.store, Base.seen, c)
      /\ exec' = [step |-> "snapshot", cmd |-> c, compact |-> compact, before |-> Base,
                  engine |-> Ran(Base, c, compact)]
      /\ UNCHANGED <<disk, queued, deaths>>
  BY DEF Run, Ran
<1>2. ~Running /\ ~Lost /\ ~Effective /\ AbstractStore = Base.store
  BY <1>1 DEF Running, Lost, Effective, AbstractStore
<1>3. Base.seen = disk.ledger /\ AbstractReserved = disk.ledger
  BY <1>1, <1>2, BaseFacts DEF IInv, AbstractReserved
<1>4. /\ exec'.step = "snapshot" /\ exec'.cmd = c /\ exec'.compact = compact /\ exec'.before = Base
      /\ disk' = disk
  BY <1>1
<1>5. Running' /\ ~Effective' /\ ~Lost'
  BY <1>4 DEF Running, Effective, Lost
<1>6. AbstractStore' = Base.store
  BY <1>4, <1>5 DEF AbstractStore
<1>7. AbstractReserved' = disk.ledger
  BY <1>4, <1>5 DEF AbstractReserved
<1>8. AbstractJob' = [cmd |-> c, compact |-> compact, running |-> TRUE, applied |-> FALSE]
  BY BooleanFacts, <1>4, <1>5 DEF AbstractJob
<1>9. ~AbstractJob.running
  BY <1>2 DEF AbstractJob
<1>10. Abstract!Accepts(AbstractStore, AbstractReserved, c) /\ c \in Abstract!Command
  BY <1>1, <1>2, <1>3, SameCommands
<1>11. Abstract!Start(c, compact)
  BY BooleanFacts, <1>2, <1>3, <1>5, <1>6, <1>7, <1>8, <1>9, <1>10 DEF Abstract!Start, AbstractReserved
<1> QED
  BY <1>10, <1>11 DEF StoreStep, Abstract!StoreNext

LEMMA AppliedJob ==
  ASSUME NEW j \in [cmd : Command, compact : BOOLEAN, running : BOOLEAN, applied : BOOLEAN],
         NEW t \in BOOLEAN
  PROVE  [j EXCEPT !.applied = t] =
           [cmd |-> j.cmd, compact |-> j.compact, running |-> j.running, applied |-> t]
OBVIOUS

LEMMA PersistWrites ==
  ASSUME IInv, IInv', StoreOfDisk, StoreOfDisk', NEW f \in File, Persist(f) PROVE StoreStep
<1>1. EngineTypeOK /\ ExecInv
  BY DEF IInv
<1>2. /\ disk'.ledger = IF f = "ledger" THEN exec.engine.seen ELSE disk.ledger
      /\ disk'.log = IF f = "events" THEN exec.engine.log ELSE disk.log
      /\ exec'.step = NextFile[f] /\ exec'.cmd = exec.cmd /\ exec'.compact = exec.compact
      /\ exec'.before = exec.before /\ exec'.engine = exec.engine
      /\ exec.step = f /\ Running
  BY <1>1, WrittenFacts
<1>3. Running' /\ ~Lost /\ ~Lost'
  BY <1>2, NextFileFacts DEF Running, Lost, File
<1>4. /\ AbstractReserved = disk.ledger /\ AbstractReserved' = disk'.ledger
      /\ AbstractStore = StoreOf(disk.log) /\ AbstractStore' = StoreOf(disk'.log)
  BY <1>3 DEF AbstractReserved, StoreOfDisk
<1>5. /\ AbstractJob = [cmd |-> exec.cmd, compact |-> exec.compact, running |-> TRUE,
                        applied |-> Effective]
      /\ AbstractJob' = [cmd |-> exec.cmd, compact |-> exec.compact, running |-> TRUE,
                         applied |-> Effective']
  BY <1>2, <1>3 DEF AbstractJob
<1>6. /\ exec.engine.seen = exec.before.seen \cup Reserves(exec.cmd)
      /\ exec.engine.store = ResultOf(exec.before.store, exec.cmd, exec.compact)
  BY <1>2, RunningFacts
<1>7. CASE f = "ledger"
  <2>1. disk.ledger = exec.before.seen /\ ~Effective /\ ~Effective'
    BY <1>1, <1>2, <1>7, NextFileFacts DEF ExecInv, Effective
  <2>2. /\ AbstractReserved' = AbstractReserved \cup Abstract!Reserves(exec.cmd)
        /\ AbstractStore' = AbstractStore /\ AbstractJob' = AbstractJob
    BY BooleanFacts, <1>2, <1>4, <1>5, <1>6, <1>7, <2>1, SameCommands
  <2>3. AbstractJob.running /\ ~AbstractJob.applied /\ AbstractJob.cmd = exec.cmd
    BY <1>5, <2>1
  <2>4. Abstract!Reserve
    BY BooleanFacts, <1>3, <2>2, <2>3 DEF Abstract!Reserve, AbstractReserved
  <2> QED
    BY <2>4 DEF StoreStep, Abstract!StoreNext
<1>8. CASE f = "events"
  <2>1. disk.ledger = exec.engine.seen /\ ~Effective /\ Effective'
    BY <1>1, <1>2, <1>8, NextFileFacts DEF ExecInv, Effective
  <2>2. AbstractStore = exec.before.store /\ AbstractStore' = exec.engine.store
    BY <1>2, <1>3, <2>1 DEF AbstractStore
  <2>3. /\ AbstractReserved' = AbstractReserved
        /\ Abstract!Reserves(AbstractJob.cmd) \subseteq AbstractReserved
    BY <1>2, <1>4, <1>5, <1>6, <1>8, <2>1, SameCommands
  <2>4. /\ AbstractJob.running /\ ~AbstractJob.applied
        /\ AbstractJob' = [AbstractJob EXCEPT !.applied = TRUE]
    <3>1. Effective = FALSE /\ Effective' = TRUE
      BY BooleanFacts, <2>1
    <3>2. /\ AbstractJob = [cmd |-> exec.cmd, compact |-> exec.compact, running |-> TRUE,
                            applied |-> FALSE]
          /\ AbstractJob' = [cmd |-> exec.cmd, compact |-> exec.compact, running |-> TRUE,
                             applied |-> TRUE]
      BY <1>5, <3>1
    <3>3. AbstractJob' = [AbstractJob EXCEPT !.applied = TRUE]
      <4> DEFINE j == AbstractJob
      <4>1. j = [cmd |-> exec.cmd, compact |-> exec.compact, running |-> TRUE, applied |-> FALSE]
        BY <3>2
      <4>2. exec.cmd \in Command /\ exec.compact \in BOOLEAN
        BY <1>1 DEF EngineTypeOK, Exec
      <4> HIDE DEF j
      <4>3. j \in [cmd : Command, compact : BOOLEAN, running : BOOLEAN, applied : BOOLEAN]
        BY <4>1, <4>2
      <4>4. j.cmd = exec.cmd /\ j.compact = exec.compact /\ j.running = TRUE
        BY <4>1
      <4>5. TRUE \in BOOLEAN
        OBVIOUS
      <4>6. [j EXCEPT !.applied = TRUE] =
              [cmd |-> j.cmd, compact |-> j.compact, running |-> j.running, applied |-> TRUE]
        BY <4>3, <4>5, AppliedJob
      <4>7. [j EXCEPT !.applied = TRUE] =
              [cmd |-> exec.cmd, compact |-> exec.compact, running |-> TRUE, applied |-> TRUE]
        BY <4>4, <4>6
      <4> QED
        BY <3>2, <4>7 DEF j
    <3>4. AbstractJob.running /\ ~AbstractJob.applied
      BY <3>2
    <3> QED
      BY <3>3, <3>4
  <2>5. AbstractStore' = Abstract!ResultOf(AbstractStore, AbstractJob.cmd, AbstractJob.compact)
    BY <1>5, <1>6, <2>2, SameCommands
  <2>6. Abstract!Apply
    BY BooleanFacts, <1>3, <2>3, <2>4, <2>5 DEF Abstract!Apply, AbstractReserved
  <2> QED
    BY <2>6 DEF StoreStep, Abstract!StoreNext
<1>9. CASE f \notin {"ledger", "events"}
  <2>1. Effective' = Effective
    BY <1>2, <1>9, NextFileFacts DEF Effective, File
  <2>2. /\ AbstractStore' = AbstractStore /\ AbstractReserved' = AbstractReserved
        /\ AbstractJob' = AbstractJob /\ Lost' = Lost
    BY BooleanFacts, <1>2, <1>3, <1>4, <1>5, <1>9, <2>1
  <2> QED
    BY <2>2 DEF StoreStep
<1> QED
  BY <1>7, <1>8, <1>9

LEMMA ReplyAnswers ==
  ASSUME IInv, IInv', StoreOfDisk, StoreOfDisk', Reply PROVE StoreStep
<1>1. exec.step = "view" /\ exec' = IdleExec /\ disk' = disk
  BY DEF Reply
<1>2. Running /\ Effective /\ ~Running' /\ ~Effective'
  BY <1>1 DEF Running, Effective, IdleExec
<1>3. {"events", "ledger"} \subseteq disk.files /\ disk.torn \subseteq {"snapshot"}
  BY <1>2 DEF IInv, ExecInv
<1>4. Loads'
  BY <1>1, <1>3, CoveredLoad DEF OldAndNewFilesLoad, Loads
<1>5. ~Lost /\ ~Lost'
  BY <1>2, <1>4 DEF Lost, Usable
<1>6. /\ AbstractStore' = AbstractStore /\ AbstractReserved' = AbstractReserved
      /\ AbstractReserved = disk.ledger
  BY <1>1, <1>5 DEF StoreOfDisk, AbstractReserved
<1>7. AbstractJob.applied /\ AbstractJob' = Abstract!NoJob
  BY BooleanFacts, <1>1, <1>2, SameCommands DEF AbstractJob, IdleExec, Abstract!NoJob
<1>8. Abstract!Answer
  BY BooleanFacts, <1>5, <1>6, <1>7 DEF Abstract!Answer, AbstractReserved
<1> QED
  BY <1>8 DEF StoreStep, Abstract!StoreNext

LEMMA DeathDies ==
  ASSUME IInv, IInv', StoreOfDisk, StoreOfDisk', Death PROVE StoreStep
<1>1. exec.step # "idle" /\ exec' = IdleExec
  BY DEF Death
<1>2. disk'.log = disk.log /\ disk'.ledger = disk.ledger
  <2>1. disk \in Disk
    BY DEF IInv, EngineTypeOK
  <2> QED
    BY <2>1 DEF Death, Disk
<1>3. Running /\ ~Lost /\ ~Running' /\ ~Effective'
  BY <1>1 DEF Running, Lost, Effective, IdleExec
<1>4. AbstractJob.running /\ AbstractJob' = Abstract!NoJob
  BY BooleanFacts, <1>1, <1>3, SameCommands DEF AbstractJob, IdleExec, Abstract!NoJob
<1>5. CASE Lost'
  <2>1. AbstractStore' = Abstract!EmptyStore /\ AbstractReserved' = {}
    BY <1>5, SameCommands DEF StoreOfDisk, AbstractReserved
  <2>2. Abstract!Lose
    BY <1>4, <1>5, <2>1 DEF Abstract!Lose, AbstractReserved
  <2> QED
    BY <2>2 DEF StoreStep, Abstract!StoreNext
<1>6. CASE ~Lost'
  <2>1. AbstractStore' = AbstractStore /\ AbstractReserved' = AbstractReserved
    BY <1>2, <1>3, <1>6 DEF StoreOfDisk, AbstractReserved
  <2>2. Abstract!Die
    BY BooleanFacts, <1>3, <1>4, <1>6, <2>1 DEF Abstract!Die, AbstractReserved
  <2> QED
    BY <2>2 DEF StoreStep, Abstract!StoreNext
<1> QED
  BY <1>5, <1>6

LEMMA StepRefines == IInv /\ IInv' /\ StoreOfDisk /\ StoreOfDisk' /\ [Next]_vars => StoreStep
<1> SUFFICES ASSUME IInv, IInv', StoreOfDisk, StoreOfDisk', [Next]_vars PROVE StoreStep
  OBVIOUS
<1>1. CASE Next
  BY <1>1, RunStarts, PersistWrites, ReplyAnswers, DeathDies DEF Next
<1>2. CASE UNCHANGED vars
  <2>1. disk' = disk /\ exec' = exec
    BY <1>2 DEF vars
  <2>2. Lost' = Lost /\ Effective' = Effective /\ Running' = Running
    BY <2>1 DEF Lost, Effective, Running, Usable, Loads, Unwritten
  <2>3. AbstractStore' = AbstractStore /\ AbstractReserved' = AbstractReserved
    BY <2>1, <2>2 DEF StoreOfDisk, AbstractReserved
  <2>4. AbstractJob' = AbstractJob
    BY <2>1, <2>2 DEF AbstractJob
  <2> QED
    BY <2>2, <2>3, <2>4 DEF StoreStep
<1> QED
  BY <1>1, <1>2

(* Loading the files, running a command and writing them back one by one is applying *)
(* the command at once, and a death undoes it, keeps it or makes the state           *)
(* unreadable, for any requests, messages, teams and deaths.                        *)
THEOREM EngineImplementsStore == Spec => ImplementsStore
<1>1. IInv => StoreOfDisk
  BY AbstractStoreFacts
<1>2. IInv /\ IInv' /\ StoreOfDisk /\ StoreOfDisk' /\ [Next]_vars =>
        [Abstract!StoreNext]_<<AbstractStore, IF Lost THEN {} ELSE disk.ledger, AbstractJob, Lost>>
  BY StepRefines DEF StoreStep, AbstractReserved
<1>3. Init => Abstract!StoreInit
  BY InitRefines
<1> QED
  BY <1>1, <1>2, <1>3, EngineInvariant, PTL DEF Spec, ImplementsStore, Abstract!StoreSpec

-----------------------------------------------------------------------------
(* No request id is accepted twice.                                              *)

LEMMA OnlyFresh ==
  ASSUME IInv, IInv', StoreOfDisk, StoreOfDisk', [Next]_vars, NEW r \in Request,
         AbstractStore.dispatch[r] = "absent", AbstractStore'.dispatch[r] # "absent"
  PROVE  r \notin queued
<1>1. ~Lost'
  BY DEF StoreOfDisk, EmptyStore
<1>2. CASE Running /\ disk'.log = disk.log
  <2>1. ~Lost
    BY <1>2 DEF Lost
  <2>2. AbstractStore' = AbstractStore
    BY <1>1, <1>2, <2>1 DEF StoreOfDisk
  <2> QED
    BY <2>2
<1>3. CASE ~Running
  <2>1. disk' = disk /\ (Usable \/ UNCHANGED vars)
    BY <1>3 DEF Next, Run, Persist, Reply, Death, Running, vars, File
  <2>2. CASE UNCHANGED vars
    <3>1. exec' = exec
      BY <2>2 DEF vars
    <3>2. Lost' = Lost
      BY <2>1, <3>1 DEF Lost, Running, Usable, Loads, Unwritten
    <3> QED
      BY <1>1, <2>1, <3>2 DEF StoreOfDisk
  <2>3. CASE Usable
    <3>1. ~Lost
      BY <2>3 DEF Lost
    <3> QED
      BY <1>1, <2>1, <3>1 DEF StoreOfDisk
  <2> QED
    BY <2>1, <2>2, <2>3
<1>4. CASE Running /\ disk'.log # disk.log
  <2>1. disk \in Disk
    BY DEF IInv, EngineTypeOK
  <2>2. Persist("events")
    <3>1. ~Reply /\ ~Death /\ ~(UNCHANGED vars) /\ \A c \in Command, compact \in BOOLEAN : ~Run(c, compact)
      BY <1>4, <2>1 DEF Run, Reply, Death, vars, Disk
    <3>2. PICK f \in File : Persist(f)
      BY <3>1 DEF Next
    <3>3. f = "events"
      BY <1>4, <3>2, WrittenFacts DEF IInv
    <3> QED
      BY <3>2, <3>3
  <2>3. exec.step = "events" /\ "events" \in File /\ exec'.step = "mailbox" /\ exec'.engine = exec.engine
    BY <2>2, NextFileFacts, WrittenFacts DEF IInv, File
  <2>4. ~Effective /\ Running' /\ Effective' /\ queued \subseteq exec.before.seen
    BY <1>4, <2>3 DEF Effective, Running, IInv, ExecInv
  <2>5. AbstractStore = exec.before.store /\ AbstractStore' = exec.engine.store
    BY <1>4, <2>3, <2>4 DEF AbstractStore
  <2>6. exec.engine.store = ResultOf(exec.before.store, exec.cmd, exec.compact)
    BY <1>4, RunningFacts
  <2>7. Accepts(exec.before.store, exec.before.seen, exec.cmd)
    BY <1>4 DEF IInv, ExecInv
  <2> DEFINE b == exec.before.store
             c == exec.cmd
  <2>8. b \in Store
    BY <1>4, RunningFacts DEF Sound, Engine
  <2>9. Result(b, c).dispatch[r] # "absent"
    <3>1. Result(b, c).dispatch[r] = "absent" => ResultOf(b, c, exec.compact).dispatch[r] = "absent"
      BY DEF ResultOf, Compacted, Result, TerminalState
    <3> QED
      BY <2>5, <2>6, <3>1
  <2>10. c.kind \in DispatchKind /\ r \in c.ids
    BY <2>5, <2>9 DEF Result
  <2>11. c.kind # "remove"
    BY <2>9, <2>10 DEF Result, StateAfter
  <2>12. c.kind = "queue" /\ \E q \in Request : c.ids = {q} /\ q \notin exec.before.seen
    <3>1. CASE c.kind = "queue"
      BY <2>7, <3>1 DEF Accepts
    <3>2. CASE c.kind \in {"notify", "deliver", "fail"}
      <4>1. \E q \in Request : c.ids = {q} /\ b.dispatch[q] \in MarkableFrom[c.kind]
        BY <2>7, <3>2 DEF Accepts
      <4>2. b.dispatch[r] \in MarkableFrom[c.kind]
        BY <2>10, <4>1
      <4> QED
        BY <2>5, <3>2, <4>2 DEF MarkableFrom
    <3> QED
      BY <2>10, <2>11, <3>1, <3>2 DEF DispatchKind
  <2> QED
    BY <2>4, <2>10, <2>12
<1> QED
  BY <1>2, <1>3, <1>4

(* A request id is accepted once: not again after its records and its events were     *)
(* removed or compacted, and not after any death, for any requests and deaths.         *)
THEOREM NeverQueuedTwice == Spec => NeverRequeued
<1>1. IInv => StoreOfDisk
  BY AbstractStoreFacts
<1>2. IInv /\ IInv' /\ StoreOfDisk /\ StoreOfDisk' /\ [Next]_vars =>
        [\A r \in Request :
           (AbstractStore.dispatch[r] = "absent" /\ AbstractStore'.dispatch[r] # "absent")
             => r \notin queued]_vars
  BY OnlyFresh
<1> QED
  BY <1>1, <1>2, EngineInvariant, PTL DEF Spec, NeverRequeued
=============================================================================
