-------------------------------- MODULE Feed --------------------------------
(***************************************************************************)
(* One of the seven live feeds, from the stream of the service that keeps  *)
(* it to the page that shows it.                                           *)
(*                                                                         *)
(* A stream numbers what it is told, keeps the last of it and, for some,   *)
(* the latest per key; it tells its listeners in the same turn.  A page    *)
(* first asks a query over HTTP (what is true now, or which event is the   *)
(* latest), then opens a tail over the socket.  The tail is a generator:   *)
(* it copies the history, hands it over entry by entry, and only then      *)
(* subscribes to the stream; between two entries other turns run.  When    *)
(* the socket drops the client opens a new tail by itself, and the last    *)
(* entry it was handed tells the service where to resume.  A restart of    *)
(* the service numbers its entries from zero again.                        *)
(***************************************************************************)
EXTENDS Naturals, Sequences, SequencesExt

CONSTANTS
  Key,            \* what entries are about (facts, tripwires, loops ...)
  None,           \* no entry
  BufferSize,     \* entries a stream keeps
  Window,         \* entries replayed to a client that does not resume
  KeptLines,      \* lines of the log that remain after a cut
  CutAbove,       \* the log is cut when it is longer than this
  MaxEmits,       \* bound: entries emitted
  MaxDrops,       \* bound: times the socket drops
  MaxRestarts     \* bound: restarts of the service

VARIABLES
  kind,       \* which of the feeds
  epoch,      \* the incarnation of the service
  nextId,     \* of the stream
  buffer,     \* of the stream: its history
  current,    \* of the stream: the latest entry per key
  tail,       \* the generator: where it stands and what it still has to hand over
  page,       \* of the client: what it is doing
  answer,     \* the answer to its query, on its way
  table,      \* of the client: the entry it shows per key
  lines,      \* of the client: the toasts, or the lines of the log
  pending,    \* of the client: lines not rendered yet
  seen,       \* of the client: the entry it resumes from
  status,     \* of the client: what it says of the connection
  lost,       \* history: entries that no tail of the page could hand over
  spent       \* how much of each bound is used up

streamVars == <<epoch, nextId, buffer, current>>
clientVars == <<page, answer, table, lines, pending, seen, status>>
vars == <<kind, streamVars, tail, clientVars, lost, spent>>

-----------------------------------------------------------------------------
(* What sets the streams, the tails and the pages apart.                   *)

FactStream     == [keyed |-> TRUE,  history |-> TRUE]
RecoveryStream == [keyed |-> TRUE,  history |-> TRUE]
ActivityStream == [keyed |-> TRUE,  history |-> TRUE]
NotifyStream   == [keyed |-> FALSE, history |-> TRUE]
LogStream      == [keyed |-> FALSE, history |-> TRUE]
LoopStream     == [keyed |-> TRUE,  history |-> FALSE]
DeviceStream   == [keyed |-> TRUE,  history |-> FALSE]

Stream ==
  [tracking |-> FactStream, recovery |-> RecoveryStream, activity |-> ActivityStream,
   notify |-> NotifyStream, logs |-> LogStream, loops |-> LoopStream, devices |-> DeviceStream]

(* What a tail hands over before it subscribes; whether its entries carry  *)
(* the id a client resumes from; whether it drops what it just handed over.*)
TrackingTail == [opening |-> "history", tracked |-> TRUE,  onlyChanges |-> FALSE]
RecoveryTail == [opening |-> "history", tracked |-> TRUE,  onlyChanges |-> FALSE]
ActivityTail == [opening |-> "history", tracked |-> TRUE,  onlyChanges |-> FALSE]
NotifyTail   == [opening |-> "history", tracked |-> TRUE,  onlyChanges |-> FALSE]
LogsTail     == [opening |-> "history", tracked |-> TRUE,  onlyChanges |-> FALSE]
LoopsTail    == [opening |-> "nothing", tracked |-> FALSE, onlyChanges |-> FALSE]
DevicesTail  == [opening |-> "latest",  tracked |-> FALSE, onlyChanges |-> TRUE]

TailOf(k) ==
  CASE k = "tracking" -> TrackingTail [] k = "recovery" -> RecoveryTail
    [] k = "activity" -> ActivityTail [] k = "notify" -> NotifyTail
    [] k = "logs" -> LogsTail [] k = "loops" -> LoopsTail [] k = "devices" -> DevicesTail

(* What a page asks before it opens the tail, what it makes of the entries,*)
(* and whether it says how the connection is.                              *)
FactsPage    == [asks |-> "snapshot", keeps |-> "table",  says |-> TRUE]
RecoveryPage == [asks |-> "snapshot", keeps |-> "table",  says |-> TRUE]
ActivityPage == [asks |-> "snapshot", keeps |-> "table",  says |-> TRUE]
NotifyToaster == [asks |-> "latest",  keeps |-> "toasts", says |-> FALSE]
LogFeedPage  == [asks |-> "nothing",  keeps |-> "log",    says |-> TRUE]
LoopsPage    == [asks |-> "snapshot", keeps |-> "table",  says |-> TRUE]
DevicesPage  == [asks |-> "nothing",  keeps |-> "table",  says |-> FALSE]

Page ==
  [tracking |-> FactsPage, recovery |-> RecoveryPage, activity |-> ActivityPage,
   notify |-> NotifyToaster, logs |-> LogFeedPage, loops |-> LoopsPage, devices |-> DevicesPage]

Kinds == DOMAIN Stream

-----------------------------------------------------------------------------
Entry == [epoch : 0 .. MaxRestarts, id : 0 .. MaxEmits, key : Key]
NoTable == [k \in Key |-> None]

(* The limits are those of the code up to their values: what is replayed   *)
(* to a new client fits in the history, and a cut keeps the newest line.   *)
ASSUME FeedAssumption ==
  /\ Key # {} /\ None \notin Entry
  /\ MaxEmits \in Nat /\ MaxDrops \in Nat /\ MaxRestarts \in Nat
  /\ BufferSize \in Nat /\ Window \in 0 .. BufferSize
  /\ CutAbove \in Nat /\ KeptLines \in 1 .. CutAbove

(* Events and lines have no key, and the list of devices is one value.     *)
Whole == CHOOSE k \in Key : TRUE
KeysOf(f) == IF f \in {"notify", "logs", "devices"} THEN {Whole} ELSE Key

(* A stream of a new process: empty, or the empty list of devices.         *)
NewStream(n, f) ==
  IF f = "devices"
    THEN [nextId |-> 1, current |-> [NoTable EXCEPT ![Whole] = [epoch |-> n, id |-> 0, key |-> Whole]]]
    ELSE [nextId |-> 0, current |-> NoTable]

Closed == [at |-> "closed", rest |-> <<>>]

Spend(what) == spent[what] > 0 /\ spent' = [spent EXCEPT ![what] = @ - 1]

Newest(s, n) == SubSeq(s, IF Len(s) > n THEN Len(s) - n + 1 ELSE 1, Len(s))

Init ==
  /\ kind \in Kinds
  /\ epoch = 0 /\ buffer = <<>>
  /\ nextId = NewStream(0, kind).nextId /\ current = NewStream(0, kind).current
  /\ tail = Closed
  /\ page = IF Page[kind].asks = "nothing" THEN "subscribed" ELSE "asking"
  /\ answer = None /\ table = NoTable /\ lines = <<>> /\ pending = <<>> /\ seen = None
  /\ status = "connecting"
  /\ lost = {}
  /\ spent = [emits |-> MaxEmits, drops |-> MaxDrops, restarts |-> MaxRestarts]

-----------------------------------------------------------------------------
(* The stream.                                                             *)

(* A tail that is subscribed queues the entry in the same turn; one that   *)
(* is still replaying is not told.                                         *)
Tell(e) ==
  /\ tail' = IF tail.at = "live" THEN [tail EXCEPT !.rest = Append(@, e)] ELSE tail
  /\ lost' = IF tail.at = "replaying" THEN lost \union {e} ELSE lost

(* A fact that has not changed is not emitted at all, so that every entry  *)
(* here is a change.                                                       *)
Emit(k) ==
  /\ k \in KeysOf(kind) /\ Spend("emits")
  /\ LET e == [epoch |-> epoch, id |-> nextId, key |-> k] IN
       /\ nextId' = nextId + 1
       /\ current' = [current EXCEPT ![k] = e]
       /\ buffer' = IF Stream[kind].history THEN Newest(Append(buffer, e), BufferSize) ELSE buffer
       /\ Tell(e)
  /\ UNCHANGED <<kind, epoch, clientVars>>

(* The list of devices is published at every poll, changed or not.         *)
Republish ==
  /\ kind = "devices" /\ tail.at = "live" /\ tail.rest = <<>>
  /\ Tell(current[Whole])
  /\ UNCHANGED <<kind, streamVars, clientVars, spent>>

-----------------------------------------------------------------------------
(* The tail.                                                               *)

(* Defect: the entry the client has already is handed over again.          *)
Defect_ResumeAt(history, from) ==
  IF from # None
    THEN LET at == SelectInSeq(history, LAMBDA e : e.id = from.id)
         IN SubSeq(history, IF at = 0 THEN 1 ELSE at, Len(history))
    ELSE Newest(history, Window)

(* A client that resumes gets what follows the entry it names, or all of   *)
(* the history when that entry is not in it; another client gets the last  *)
(* of it.  Ids are compared without regard to the process they are from.   *)
Replayed(history, from) ==
  IF from # None
    THEN SubSeq(history, SelectInSeq(history, LAMBDA e : e.id = from.id) + 1, Len(history))
    ELSE Newest(history, Window)

Opening ==
  CASE TailOf(kind).opening = "history" -> Replayed(buffer, seen)
    [] TailOf(kind).opening = "latest" -> <<current[Whole]>>
    [] OTHER -> <<>>

Live == Range(buffer) \union ({current[k] : k \in Key} \ {None})
Displayed(e) == table[e.key] = e \/ e \in Range(lines \o pending)

(* How far back a tail that is opened now reaches.                         *)
Reach ==
  CASE TailOf(kind).opening = "nothing" -> 0
    [] TailOf(kind).opening = "latest" -> MaxEmits + 1
    [] TailOf(kind).opening = "history" /\ seen = None -> Window
    [] OTHER -> BufferSize

(* Beyond that reach: too old, or emitted before an entry of this process  *)
(* that happens to have the id of the one, of another process, that the    *)
(* client resumes from.                                                    *)
Beyond(e) ==
  \/ e.id + Reach < nextId
  \/ seen # None /\ seen.epoch # epoch /\ e.id <= seen.id

(* The subscription reaches the service, for the first time or after the   *)
(* socket dropped.                                                         *)
TailOpens ==
  /\ page = "subscribed" /\ tail.at = "closed"
  /\ tail' = [at |-> IF TailOf(kind).opening = "nothing" THEN "live" ELSE "replaying", rest |-> Opening]
  /\ status' = IF Page[kind].says THEN "online" ELSE status
  /\ lost' = lost \union {e \in Live : Beyond(e) /\ ~ Displayed(e)}
  /\ UNCHANGED <<kind, streamVars, page, answer, table, lines, pending, seen, spent>>

(* The history is handed over: the tail subscribes.                        *)
TailSubscribes ==
  /\ tail.at = "replaying" /\ tail.rest = <<>>
  /\ tail' = [tail EXCEPT !.at = "live"]
  /\ UNCHANGED <<kind, streamVars, clientVars, lost, spent>>

(* The list of devices of the last message, which the tail compares with.  *)
Repeated(e) == TailOf(kind).onlyChanges /\ table[e.key] = e

(* Defect: the limit is off by one.                                       *)
Defect_CutLater(s) == IF Len(s) > CutAbove + 1 THEN Newest(s, KeptLines) ELSE s

Cut(s) == IF Len(s) > CutAbove THEN Newest(s, KeptLines) ELSE s

(* What a page makes of an entry: its row of the table, a toast, or a line *)
(* that waits to be rendered.                                              *)
Shown(e) ==
  /\ table' = IF Page[kind].keeps = "table" THEN [table EXCEPT ![e.key] = e] ELSE table
  /\ lines' = IF Page[kind].keeps = "toasts" THEN Append(lines, e) ELSE lines
  /\ pending' = IF Page[kind].keeps = "log" THEN Cut(Append(pending, e)) ELSE pending
  /\ seen' = IF TailOf(kind).tracked THEN e ELSE seen

(* Defect: a tail stops when it has handed over its opening.               *)
Defect_HandOverOpening ==
  /\ tail.at = "replaying" /\ tail.rest # <<>>
  /\ tail' = [tail EXCEPT !.rest = Tail(@)]
  /\ IF Repeated(tail.rest[1])
       THEN UNCHANGED <<table, lines, pending, seen>>
       ELSE Shown(tail.rest[1])
  /\ UNCHANGED <<kind, streamVars, page, answer, status, lost, spent>>

(* The tail yields its next entry, of the history or of its queue.         *)
HandOver ==
  /\ tail.rest # <<>>
  /\ tail' = [tail EXCEPT !.rest = Tail(@)]
  /\ IF Repeated(tail.rest[1])
       THEN UNCHANGED <<table, lines, pending, seen>>
       ELSE Shown(tail.rest[1])
  /\ UNCHANGED <<kind, streamVars, page, answer, status, lost, spent>>

-----------------------------------------------------------------------------
(* The page.                                                               *)

SnapshotAnswer == [what |-> "snapshot", rows |-> current]
LatestAnswer == [what |-> "latest", entry |-> IF buffer = <<>> THEN None ELSE Last(buffer)]

QueryAnswered ==
  /\ page = "asking" /\ answer = None
  /\ answer' = IF Page[kind].asks = "snapshot" THEN SnapshotAnswer ELSE LatestAnswer
  /\ UNCHANGED <<kind, streamVars, tail, page, table, lines, pending, seen, status, lost, spent>>

(* Defect: a page subscribes before it has the answer to its query.        *)
Defect_SubscribeFirst ==
  /\ \/ /\ page = "asking" /\ page' = "subscribed" /\ UNCHANGED <<table, answer, seen>>
     \/ /\ page = "subscribed" /\ answer # None
        /\ page' = page /\ answer' = None /\ UNCHANGED seen
        /\ table' = IF answer.what = "snapshot" THEN answer.rows ELSE table
  /\ UNCHANGED <<kind, streamVars, tail, lines, pending, status, lost, spent>>

(* The answer replaces the table, or names the event to resume from; the   *)
(* tail is opened only now.                                                *)
AnswerArrives ==
  /\ page = "asking" /\ answer # None
  /\ page' = "subscribed" /\ answer' = None
  /\ table' = IF answer.what = "snapshot" THEN answer.rows ELSE table
  /\ IF answer.what = "latest"
       THEN /\ seen' = answer.entry
            /\ lost' = {e \in Live : answer.entry # None /\ e.epoch = answer.entry.epoch /\ e.id <= answer.entry.id}
       ELSE UNCHANGED <<seen, lost>>
  /\ UNCHANGED <<kind, streamVars, tail, lines, pending, status, spent>>

(* Nothing catches a query that fails: the page never subscribes.          *)
QueryFails ==
  /\ page = "asking" /\ answer = None
  /\ page' = "stuck"
  /\ UNCHANGED <<kind, streamVars, tail, answer, table, lines, pending, seen, status, lost, spent>>

(* A quarter of a second after the first of them, the lines that wait are  *)
(* rendered at once.                                                       *)
Flush ==
  /\ page = "subscribed" /\ pending # <<>>
  /\ lines' = Cut(lines \o pending)
  /\ pending' = <<>>
  /\ UNCHANGED <<kind, streamVars, tail, page, answer, table, seen, status, lost, spent>>

(* The page is left: its timer is cleared and its tail closed.             *)
Unmount ==
  /\ page \in {"asking", "subscribed"}
  /\ page' = "gone" /\ tail' = Closed
  /\ answer' = None
  /\ UNCHANGED <<kind, streamVars, table, lines, pending, seen, status, lost, spent>>

-----------------------------------------------------------------------------
(* The environment.                                                        *)

Disconnected ==
  /\ tail' = Closed
  /\ status' = IF status = "online" THEN "reconnecting" ELSE status

Drop ==
  /\ tail.at # "closed" /\ Spend("drops")
  /\ Disconnected
  /\ UNCHANGED <<kind, streamVars, page, answer, table, lines, pending, seen, lost>>

Restart ==
  /\ Spend("restarts")
  /\ Disconnected
  /\ epoch' = epoch + 1 /\ buffer' = <<>>
  /\ nextId' = NewStream(epoch + 1, kind).nextId /\ current' = NewStream(epoch + 1, kind).current
  /\ UNCHANGED <<kind, page, answer, table, lines, pending, seen, lost>>

Next ==
  \/ \E k \in Key : Emit(k)
  \/ Republish \/ TailOpens \/ TailSubscribes \/ HandOver
  \/ QueryAnswered \/ AnswerArrives \/ QueryFails \/ Flush \/ Unmount
  \/ Drop \/ Restart

(* The event loop runs what is ready, the network answers or fails, and    *)
(* the client opens its tail again.                                        *)
Fairness ==
  /\ WF_vars(TailOpens) /\ WF_vars(TailSubscribes) /\ WF_vars(HandOver)
  /\ WF_vars(QueryAnswered \/ QueryFails) /\ WF_vars(AnswerArrives) /\ WF_vars(Flush)

Spec == Init /\ [][Next]_vars /\ Fairness

-----------------------------------------------------------------------------
(* Every variable keeps its shape, the buffer its size and the log its     *)
(* limit, and a page that is not subscribed has no tail.                   *)
TypeOK ==
  /\ kind \in Kinds /\ epoch \in 0 .. MaxRestarts /\ nextId \in 0 .. MaxEmits + 1
  /\ Range(buffer) \subseteq Entry /\ Len(buffer) <= BufferSize
  /\ current \in [Key -> Entry \union {None}] /\ table \in [Key -> Entry \union {None}]
  /\ tail.at \in {"closed", "replaying", "live"} /\ Range(tail.rest) \subseteq Entry
  /\ page \in {"asking", "subscribed", "stuck", "gone"}
  /\ Range(lines) \union Range(pending) \subseteq Entry
  /\ kind = "logs" => Len(lines) <= CutAbove /\ Len(pending) <= CutAbove
  /\ seen \in Entry \union {None}
  /\ status \in {"connecting", "online", "reconnecting"}
  /\ page # "subscribed" => tail.at = "closed"

(* The tail has handed over all it has.                                    *)
Settled == page = "subscribed" /\ tail.at = "live" /\ tail.rest = <<>>

(* A page that has been handed all there is shows the latest entry of every*)
(* key, or every event since it asked, but for what no tail of it could    *)
(* reach: neither the replay of history over a newer snapshot, nor the     *)
(* queue, the limits of the log or a reconnection leave anything older     *)
(* behind.                                                                 *)
SettledIsCurrent ==
  Settled =>
    IF Page[kind].keeps = "table"
      THEN \A k \in Key : current[k] \in {None, table[k]} \union lost
      ELSE \A e \in Range(buffer) :
             \/ Displayed(e) \/ e \in lost
             \/ kind = "logs" /\ \E f \in Range(lines \o pending) : f.epoch = epoch /\ f.id > e.id

(* A toast or a line comes once, after those emitted before it: across     *)
(* reconnections, evictions, restarts and cuts nothing is handed over twice*)
(* and nothing older follows what is newer.                                *)
HandedOverOnce ==
  kind \in {"notify", "logs"} =>
    LET all == lines \o pending IN
    \A i \in 2 .. Len(all) :
      \/ all[i].epoch > all[i - 1].epoch
      \/ all[i].epoch = all[i - 1].epoch /\ all[i].id > all[i - 1].id

(* A page that asked ends up with all there is, again and again, unless its*)
(* query failed or it is left.                                             *)
SettlesEventually == []<>(Settled \/ page \in {"stuck", "gone"})

=============================================================================
