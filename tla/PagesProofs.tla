----------------------------- MODULE PagesProofs -----------------------------
(***************************************************************************)
(* Proofs about module Feed, for any keys, limits and bounds: the types,   *)
(* that a settled page is current, and that nothing is handed over twice.  *)
(* Then about module MCPages: what holds of a feed and of the phone that is*)
(* provisioned holds of the two scenes together.                           *)
(***************************************************************************)
EXTENDS MCPages, SequenceTheorems, TLAPS

Rows == [Key -> Entry \union {None}]
Answers == [what : {"snapshot"}, rows : Rows] \union [what : {"latest"}, entry : Entry \union {None}]

Unkept == {"loops", "devices"}            \* the kinds without a history
Listed == {"notify", "logs"}            \* the kinds that keep entries, not a row per key

(* The shape of every variable, and what is left of the bounds.            *)
Shapes ==
  /\ kind \in Kinds /\ epoch \in 0 .. MaxRestarts /\ nextId \in 0 .. MaxEmits + 1
  /\ spent \in [emits : Nat, drops : Nat, restarts : Nat]
  /\ epoch + spent.restarts <= MaxRestarts /\ nextId + spent.emits <= MaxEmits + 1
  /\ buffer \in Seq(Entry) /\ current \in Rows /\ table \in Rows
  /\ tail \in [at : {"closed", "replaying", "live"}, rest : Seq(Entry)]
  /\ page \in {"asking", "subscribed", "stuck", "gone"} /\ answer \in Answers \union {None}
  /\ lines \in Seq(Entry) /\ pending \in Seq(Entry) /\ seen \in Entry \union {None}
  /\ status \in {"connecting", "online", "reconnecting"} /\ lost \in SUBSET Entry

(* What a page that stands somewhere has not got yet, and what a page of   *)
(* its kind never has.                                                     *)
PageRules ==
  /\ page # "subscribed" => tail = Closed
  /\ tail.at = "closed" => tail = Closed
  /\ page = "asking" => /\ Page[kind].asks # "nothing"
                        /\ seen = None /\ lines = <<>> /\ pending = <<>>
  /\ answer # None => answer.what = Page[kind].asks
  /\ kind \in Unkept => seen = None
  /\ kind # "logs" => pending = <<>>
  /\ kind \notin Listed => lines = <<>>
  /\ kind \in Listed => \A k \in Key : table[k] = None
  /\ kind = "logs" => Len(lines) <= CutAbove /\ Len(pending) <= CutAbove

(* The history is the last entries of this process, numbered without gaps; *)
(* the latest entry of a key is in it unless it is too old.  The list of   *)
(* devices is there from the start.                                        *)
StreamRules ==
  /\ Len(buffer) = IF kind \in Unkept THEN 0 ELSE IF nextId < BufferSize THEN nextId ELSE BufferSize
  /\ \A i \in 1 .. Len(buffer) :
       /\ buffer[i].epoch = epoch /\ buffer[i].id + Len(buffer) + 1 = nextId + i
       /\ current[buffer[i].key] # None /\ buffer[i].id <= current[buffer[i].key].id
  /\ \A k \in Key : current[k] # None =>
       /\ current[k].epoch = epoch /\ current[k].key = k /\ current[k].id < nextId
       /\ k \in KeysOf(kind)
       /\ kind \notin Unkept /\ nextId <= current[k].id + Len(buffer) => current[k] \in Range(buffer)
  /\ kind = "devices" => current[Whole] # None

(* What a tail still has to hand over is of this process, newer from entry *)
(* to entry, and newer than what the client resumes from.                  *)
RestRules ==
  /\ \A i \in 1 .. Len(tail.rest) :
       LET e == tail.rest[i] IN
       /\ e.epoch = epoch /\ e.id < nextId
       /\ current[e.key] # None /\ e.id <= current[e.key].id
       /\ seen # None /\ seen.epoch = epoch => seen.id < e.id
  /\ \A i, j \in 1 .. Len(tail.rest) : i < j => tail.rest[i].id < tail.rest[j].id

(* The client knows of no process or entry that is yet to come.            *)
Past(e) == e # None => e.epoch <= epoch /\ (e.epoch = epoch => e.id < nextId)
SeenRules ==
  /\ Past(seen)
  /\ answer # None /\ answer.what = "latest" => Past(answer.entry)

(* Toasts and lines are in the order of their entries, up to the one the   *)
(* client resumes from.                                                    *)
Before(a, b) == a.epoch < b.epoch \/ (a.epoch = b.epoch /\ a.id < b.id)
Ordered(s) == \A i, j \in 1 .. Len(s) : i < j => Before(s[i], s[j])
Precedes(s, t) == \A i \in 1 .. Len(s), j \in 1 .. Len(t) : Before(s[i], t[j])
UpTo(s, e) == \A i \in 1 .. Len(s) : e # None /\ ~ Before(e, s[i])
OrderRules ==
  /\ Ordered(lines) /\ Ordered(pending) /\ Precedes(lines, pending)
  /\ UpTo(lines, seen) /\ UpTo(pending, seen)

(* The latest entry of a key is in its row, or is still to be handed over, *)
(* or was out of reach; a row the client is past has it already.           *)
Ahead(k) == current[k] \in Range(tail.rest)
InRow(k) == table[k] = current[k] /\ \A i \in 1 .. Len(tail.rest) : tail.rest[i].key # k
TableRules ==
  kind \notin Listed => \A k \in Key : current[k] # None =>
    /\ tail.at # "closed" => current[k] \in lost \/ Ahead(k) \/ InRow(k)
    /\ seen # None /\ seen.epoch = epoch /\ current[k].id <= seen.id =>
         table[k] = current[k] \/ current[k] \in lost

(* An entry of the history is shown, or was out of reach, or was cut for a *)
(* newer one; or it is still to be handed over.                            *)
Newer(e, s) == \E i \in 1 .. Len(s) : s[i].epoch = epoch /\ s[i].id > e.id
Handled(e) ==
  \/ e \in Range(lines) \/ e \in Range(pending) \/ e \in lost
  \/ kind = "logs" /\ (Newer(e, lines) \/ Newer(e, pending))
ListRules ==
  kind \in Listed => \A e \in Range(buffer) :
    /\ tail.at # "closed" => Handled(e) \/ e \in Range(tail.rest)
    /\ seen # None /\ seen.epoch = epoch /\ e.id <= seen.id => Handled(e)

FeedInv ==
  /\ Shapes /\ PageRules /\ StreamRules /\ RestRules /\ SeenRules /\ OrderRules
  /\ TableRules /\ ListRules

-----------------------------------------------------------------------------
(* What the streams, the tails and the pages of a kind are like.           *)
LEMMA Traits ==
  ASSUME kind \in Kinds
  PROVE  /\ kind \in {"tracking", "recovery", "activity", "notify", "logs", "loops", "devices"}
         /\ Stream[kind].history <=> kind \notin Unkept
         /\ TailOf(kind).opening = IF kind = "loops" THEN "nothing"
                                   ELSE IF kind = "devices" THEN "latest" ELSE "history"
         /\ TailOf(kind).tracked = (kind \notin Unkept)
         /\ TailOf(kind).onlyChanges = (kind = "devices")
         /\ Page[kind].asks = IF kind \in {"logs", "devices"} THEN "nothing"
                              ELSE IF kind = "notify" THEN "latest" ELSE "snapshot"
         /\ Page[kind].keeps = IF kind = "notify" THEN "toasts"
                            ELSE IF kind = "logs" THEN "log" ELSE "table"
<1>1. kind \in {"tracking", "recovery", "activity", "notify", "logs", "loops", "devices"}
  BY DEF Kinds, Stream
<1>2. Stream[kind].history <=> kind \notin Unkept
  <2>1. CASE kind \in Unkept
    <3>1. Stream[kind] = LoopStream \/ Stream[kind] = DeviceStream
      BY <2>1 DEF Stream, Unkept
    <3> QED  BY <2>1, <3>1 DEF LoopStream, DeviceStream
  <2>2. CASE kind \notin Unkept
    <3>1. \/ Stream[kind] = FactStream \/ Stream[kind] = RecoveryStream \/ Stream[kind] = ActivityStream
          \/ Stream[kind] = NotifyStream \/ Stream[kind] = LogStream
      BY <1>1, <2>2 DEF Stream, Unkept
    <3> QED  BY <2>2, <3>1 DEF FactStream, RecoveryStream, ActivityStream, NotifyStream, LogStream
  <2> QED  BY <2>1, <2>2
<1>5. TailOf(kind).opening = IF kind = "loops" THEN "nothing"
                             ELSE IF kind = "devices" THEN "latest" ELSE "history"
  BY <1>1 DEF TailOf, TrackingTail, RecoveryTail, ActivityTail, NotifyTail, LogsTail,
     LoopsTail, DevicesTail
<1>3. /\ TailOf(kind).tracked = (kind \notin Unkept)
      /\ TailOf(kind).onlyChanges = (kind = "devices")
  BY <1>1 DEF TailOf, TrackingTail, RecoveryTail, ActivityTail, NotifyTail, LogsTail, LoopsTail,
     DevicesTail, Unkept
<1>4. /\ Page[kind].asks = IF kind \in {"logs", "devices"} THEN "nothing"
                           ELSE IF kind = "notify" THEN "latest" ELSE "snapshot"
      /\ Page[kind].keeps = IF kind = "notify" THEN "toasts"
                            ELSE IF kind = "logs" THEN "log" ELSE "table"
  BY <1>1 DEF Page, FactsPage, RecoveryPage, ActivityPage, NotifyToaster, LogFeedPage,
     LoopsPage, DevicesPage
<1> QED  BY <1>1, <1>2, <1>3, <1>4, <1>5

(* A suffix of a sequence, d entries shorter: what a stream keeps, a tail  *)
(* replays and a cut leaves.                                               *)
Suffix(t, s, d) ==
  /\ t \in Seq(Entry) /\ d \in 0 .. Len(s) /\ Len(t) = Len(s) - d
  /\ \A i \in 1 .. Len(t) : t[i] = s[i + d]

LEMMA SubSeqIsSuffix ==
  ASSUME NEW s \in Seq(Entry), NEW d \in 0 .. Len(s)
  PROVE  Suffix(SubSeq(s, d + 1, Len(s)), s, d)
  BY DEF Suffix

LEMMA NewestIsSuffix ==
  ASSUME NEW s \in Seq(Entry), NEW n \in Nat
  PROVE  Suffix(Newest(s, n), s, IF Len(s) > n THEN Len(s) - n ELSE 0)
<1> DEFINE d == IF Len(s) > n THEN Len(s) - n ELSE 0
<1>1. d \in 0 .. Len(s)
  OBVIOUS
<1>2. Newest(s, n) = SubSeq(s, d + 1, Len(s))
  BY DEF Newest
<1> QED  BY <1>1, <1>2, SubSeqIsSuffix

LEMMA CutIsSuffix ==
  ASSUME NEW s \in Seq(Entry)
  PROVE  /\ Cut(s) \in Seq(Entry) /\ Len(Cut(s)) <= CutAbove
         /\ \E d \in 0 .. Len(s) : Suffix(Cut(s), s, d) /\ (Len(s) > 0 => d < Len(s))
<1>1. CASE Len(s) > CutAbove
  <2>1. Cut(s) = Newest(s, KeptLines)
    BY <1>1 DEF Cut
  <2>2. KeptLines \in Nat /\ CutAbove \in Nat /\ KeptLines <= CutAbove /\ KeptLines >= 1
    BY FeedAssumption
  <2>3. Suffix(Cut(s), s, Len(s) - KeptLines)
    BY <1>1, <2>1, <2>2, NewestIsSuffix
  <2>4. Cut(s) \in Seq(Entry) /\ Len(Cut(s)) = KeptLines
    BY <1>1, <2>2, <2>3 DEF Suffix
  <2>5. Len(s) - KeptLines \in 0 .. Len(s) /\ Len(s) - KeptLines < Len(s)
    BY <1>1, <2>2
  <2> QED  BY <2>2, <2>3, <2>4, <2>5
<1>2. CASE ~ (Len(s) > CutAbove)
  <2>1. Cut(s) = s
    BY <1>2 DEF Cut
  <2>2. Suffix(Cut(s), s, 0)
    BY <2>1 DEF Suffix
  <2> QED  BY <1>2, <2>1, <2>2, FeedAssumption
<1> QED  BY <1>1, <1>2

(* What is replayed of a history numbered without gaps: the last of it, or *)
(* what follows the entry with the id of the one the client resumes from,  *)
(* or all of it.                                                           *)
LEMMA ReplayedIsSuffix ==
  ASSUME NEW h \in Seq(Entry), NEW n \in Nat, NEW from \in Entry \union {None},
         \A i \in 1 .. Len(h) : h[i].id + Len(h) + 1 = n + i
  PROVE  \E d \in 0 .. Len(h) :
           /\ Suffix(Replayed(h, from), h, d)
           /\ from = None => d = IF Len(h) > Window THEN Len(h) - Window ELSE 0
           /\ from # None => IF d > 0 THEN h[d].id = from.id
                                      ELSE \A i \in 1 .. Len(h) : h[i].id # from.id
<1>1. CASE from = None
  <2>1. Replayed(h, from) = Newest(h, Window)
    BY <1>1 DEF Replayed
  <2>2. Window \in Nat
    BY FeedAssumption
  <2> DEFINE d == IF Len(h) > Window THEN Len(h) - Window ELSE 0
  <2>3. d \in 0 .. Len(h)
    BY <2>2
  <2>4. Suffix(Replayed(h, from), h, d)
    BY <2>1, <2>2, NewestIsSuffix
  <2> QED  BY <1>1, <2>3, <2>4
<1>2. CASE from # None
  <2> DEFINE I == {i \in 1 .. Len(h) : h[i].id = from.id}
  <2> DEFINE at == SelectInSeq(h, LAMBDA e : e.id = from.id)
  <2>1. at = IF I # {} THEN Min(I) ELSE 0
    BY DEF SelectInSeq
  <2>2. Replayed(h, from) = SubSeq(h, at + 1, Len(h))
    BY <1>2 DEF Replayed
  <2> HIDE DEF at
  <2>3. \A i \in 1 .. Len(h) : h[i].id \in Int
    <3>1. \A e \in Entry : e.id \in Int
      BY FeedAssumption DEF Entry
    <3> QED  BY <3>1
  <2>4. CASE I = {}
    <3>1. at = 0 /\ \A i \in 1 .. Len(h) : h[i].id # from.id
      BY <2>1, <2>4
    <3>2. Suffix(Replayed(h, from), h, 0)
      <4>1. Replayed(h, from) = SubSeq(h, 0 + 1, Len(h)) /\ 0 \in 0 .. Len(h)
        BY <2>2, <3>1
      <4> QED  BY <4>1, SubSeqIsSuffix
    <3> QED  BY <1>2, <3>1, <3>2 DEF Suffix
  <2>5. CASE I # {}
    <3>1. PICK p \in 1 .. Len(h) : h[p].id = from.id
      BY <2>5
    <3>2. I = {p}
      BY <2>3, <3>1
    <3>3. Min({p}) = p
      BY <3>1 DEF Min
    <3>4. at = p
      BY <2>1, <3>2, <3>3
    <3>5. Suffix(Replayed(h, from), h, p)
      BY <2>2, <3>1, <3>4, SubSeqIsSuffix
    <3> QED  BY <1>2, <3>1, <3>5
  <2> QED  BY <2>4, <2>5
<1> QED  BY <1>1, <1>2

(* What an entry is made of.                                               *)
LEMMA EntryIs ==
  /\ \A e \in Entry : /\ e.epoch \in Nat /\ e.epoch \in 0 .. MaxRestarts
                      /\ e.id \in Nat /\ e.id \in 0 .. MaxEmits /\ e.key \in Key
                      /\ e # None
  /\ \A a, b \in Entry : a.epoch = b.epoch /\ a.id = b.id /\ a.key = b.key => a = b
<1>1. \A e \in Entry : e.epoch \in 0 .. MaxRestarts /\ e.id \in 0 .. MaxEmits /\ e.key \in Key
  BY DEF Entry
<1>2. \A a, b \in Entry : a.epoch = b.epoch /\ a.id = b.id /\ a.key = b.key => a = b
  BY DEF Entry
<1> QED  BY <1>1, <1>2, FeedAssumption

(* One of the bounds is used up by one.                                    *)
LEMMA SpendIs ==
  ASSUME spent \in [emits : Nat, drops : Nat, restarts : Nat]
  PROVE  /\ Spend("emits") =>
              /\ spent' \in [emits : Nat, drops : Nat, restarts : Nat] /\ spent.emits > 0
              /\ spent'.emits = spent.emits - 1 /\ spent'.restarts = spent.restarts
         /\ Spend("drops") =>
              /\ spent' \in [emits : Nat, drops : Nat, restarts : Nat]
              /\ spent'.emits = spent.emits /\ spent'.restarts = spent.restarts
         /\ Spend("restarts") =>
              /\ spent' \in [emits : Nat, drops : Nat, restarts : Nat] /\ spent.restarts > 0
              /\ spent'.emits = spent.emits /\ spent'.restarts = spent.restarts - 1
<1>1. ASSUME Spend("emits")
      PROVE  spent.emits > 0 /\ spent' = [spent EXCEPT !.emits = spent.emits - 1]
  BY <1>1 DEF Spend
<1>2. ASSUME Spend("drops")
      PROVE  spent.drops > 0 /\ spent' = [spent EXCEPT !.drops = spent.drops - 1]
  BY <1>2 DEF Spend
<1>3. ASSUME Spend("restarts")
      PROVE  spent.restarts > 0 /\ spent' = [spent EXCEPT !.restarts = spent.restarts - 1]
  BY <1>3 DEF Spend
<1> QED  BY <1>1, <1>2, <1>3

LEMMA WholeIsKey == Whole \in Key
  BY FeedAssumption DEF Whole

(* The first states: nothing has been emitted, and no tail is open.        *)
LEMMA InvInit == Init => FeedInv
<1> SUFFICES ASSUME Init PROVE FeedInv
  OBVIOUS
<1> USE DEF Init
<1>1. kind \in Kinds /\ (kind = "devices" \/ kind # "devices")
  OBVIOUS
<1> DEFINE first == [epoch |-> 0, id |-> 0, key |-> Whole]
<1>2. /\ first \in Entry /\ first # None /\ NoTable \in Rows
      /\ first.epoch = 0 /\ first.id = 0 /\ first.key = Whole
  BY WholeIsKey, FeedAssumption DEF Entry, NoTable, Rows
<1>3. \/ /\ kind # "devices" /\ nextId = 0 /\ \A k \in Key : current[k] = None
         /\ current \in Rows
      \/ /\ kind = "devices" /\ nextId = 1 /\ current[Whole] = first
         /\ \A k \in Key : k # Whole => current[k] = None
         /\ current \in Rows
  BY <1>2, WholeIsKey DEF NewStream, NoTable, Rows
<1> HIDE DEF first
<1>4. Shapes
  <2>1. Closed \in [at : {"closed", "replaying", "live"}, rest : Seq(Entry)]
    BY DEF Closed
  <2>2. spent \in [emits : Nat, drops : Nat, restarts : Nat] /\ spent.restarts = MaxRestarts
          /\ spent.emits = MaxEmits
    BY FeedAssumption
  <2>3. nextId \in 0 .. MaxEmits + 1 /\ nextId + spent.emits <= MaxEmits + 1
    BY <1>3, <2>2, FeedAssumption
  <2> QED  BY <1>2, <1>3, <2>1, <2>2, <2>3, FeedAssumption DEF Shapes
<1>5. PageRules
  BY <1>1, Traits, FeedAssumption DEF PageRules, Closed, NoTable
<1>6. StreamRules
  <2>1. Len(buffer) = 0 /\ \A k \in Key : current[k] # None =>
          /\ current[k] = first /\ k = Whole /\ nextId = 1 /\ kind = "devices"
    BY <1>3
  <2>2. Whole \in KeysOf("devices")
    BY DEF KeysOf
  <2> QED  BY <1>2, <1>3, <2>1, <2>2, FeedAssumption DEF StreamRules, Unkept
<1>7. RestRules
  BY DEF RestRules, Closed
<1>8. SeenRules
  BY FeedAssumption DEF SeenRules, Past, NoTable
<1>9. OrderRules
  BY DEF OrderRules, Ordered, Precedes, UpTo
<1>10. TableRules
  BY DEF TableRules, Closed
<1>11. ListRules
  BY DEF ListRules, Closed
<1> QED  BY <1>4, <1>5, <1>6, <1>7, <1>8, <1>9, <1>10, <1>11 DEF FeedInv

-----------------------------------------------------------------------------
(* The steps that touch neither the stream nor what the page shows.        *)

(* The history is handed over.                                             *)
LEMMA InvTailSubscribes == FeedInv /\ TailSubscribes => FeedInv'
<1> SUFFICES ASSUME FeedInv, TailSubscribes PROVE FeedInv'
  OBVIOUS
<1> USE DEF TailSubscribes, streamVars, clientVars
<1>1. tail' \in [at : {"closed", "replaying", "live"}, rest : Seq(Entry)] /\ tail'.rest = tail.rest
      /\ tail'.at = "live" /\ tail.at = "replaying"
  BY DEF FeedInv, Shapes
<1>2. Shapes'
  BY <1>1 DEF FeedInv, Shapes
<1>3. PageRules'
  BY <1>1 DEF FeedInv, PageRules, Closed
<1>4. StreamRules' /\ SeenRules' /\ OrderRules'
  BY DEF FeedInv, StreamRules, SeenRules, Past, OrderRules, Ordered, Precedes, UpTo
<1>5. RestRules'
  BY <1>1 DEF FeedInv, RestRules
<1>6. TableRules'
  BY <1>1 DEF FeedInv, TableRules, Ahead, InRow
<1>7. ListRules'
  BY <1>1 DEF FeedInv, ListRules, Handled, Newer
<1> QED  BY <1>2, <1>3, <1>4, <1>5, <1>6, <1>7 DEF FeedInv

(* The tail is closed: by the page, by the network or by the end of the    *)
(* process.                                                                *)
LEMMA ClosedTail ==
  ASSUME FeedInv, tail' = Closed,
         UNCHANGED <<kind, epoch, nextId, buffer, current, table, lines, pending, seen, lost>>
  PROVE  /\ StreamRules' /\ RestRules' /\ OrderRules' /\ TableRules' /\ ListRules'
         /\ tail' \in [at : {"closed", "replaying", "live"}, rest : Seq(Entry)]
<1>1. /\ tail'.at = "closed" /\ tail'.rest = <<>>
      /\ tail' \in [at : {"closed", "replaying", "live"}, rest : Seq(Entry)]
  BY DEF Closed
<1>2. StreamRules' /\ OrderRules'
  BY DEF FeedInv, StreamRules, OrderRules, Ordered, Precedes, UpTo
<1>3. RestRules'
  BY <1>1 DEF RestRules
<1>4. TableRules'
  BY <1>1 DEF FeedInv, TableRules
<1>5. ListRules'
  BY <1>1 DEF FeedInv, ListRules, Handled, Newer
<1> QED  BY <1>1, <1>2, <1>3, <1>4, <1>5

(* The page is left.                                                       *)
LEMMA InvUnmount == FeedInv /\ Unmount => FeedInv'
<1> SUFFICES ASSUME FeedInv, Unmount PROVE FeedInv'
  OBVIOUS
<1> USE DEF Unmount, streamVars
<1>1. /\ StreamRules' /\ RestRules' /\ OrderRules' /\ TableRules' /\ ListRules'
      /\ tail' \in [at : {"closed", "replaying", "live"}, rest : Seq(Entry)]
  BY ClosedTail
<1>2. Shapes'
  BY <1>1 DEF FeedInv, Shapes
<1>3. PageRules' /\ SeenRules'
  BY DEF FeedInv, PageRules, SeenRules, Past
<1> QED  BY <1>1, <1>2, <1>3 DEF FeedInv

(* The socket drops.                                                       *)
LEMMA InvDrop == FeedInv /\ Drop => FeedInv'
<1> SUFFICES ASSUME FeedInv, Drop PROVE FeedInv'
  OBVIOUS
<1> USE DEF Drop, Disconnected, streamVars
<1>1. /\ StreamRules' /\ RestRules' /\ OrderRules' /\ TableRules' /\ ListRules'
      /\ tail' \in [at : {"closed", "replaying", "live"}, rest : Seq(Entry)]
  BY ClosedTail
<1>2. /\ spent' \in [emits : Nat, drops : Nat, restarts : Nat]
      /\ spent'.emits = spent.emits /\ spent'.restarts = spent.restarts
  BY SpendIs DEF FeedInv, Shapes
<1>3. Shapes'
  BY <1>1, <1>2 DEF FeedInv, Shapes
<1>4. PageRules' /\ SeenRules'
  BY DEF FeedInv, PageRules, SeenRules, Past
<1> QED  BY <1>1, <1>3, <1>4 DEF FeedInv

(* The query fails.                                                        *)
LEMMA InvQueryFails == FeedInv /\ QueryFails => FeedInv'
<1> SUFFICES ASSUME FeedInv, QueryFails PROVE FeedInv'
  OBVIOUS
<1> USE DEF QueryFails, streamVars
<1>1. tail' = Closed
  BY DEF FeedInv, PageRules
<1>2. StreamRules' /\ RestRules' /\ OrderRules' /\ TableRules' /\ ListRules'
  BY <1>1, ClosedTail
<1>3. Shapes' /\ PageRules' /\ SeenRules'
  BY DEF FeedInv, Shapes, PageRules, SeenRules, Past
<1> QED  BY <1>2, <1>3 DEF FeedInv

(* The service answers the query: what it says is of the past.             *)
LEMMA InvQueryAnswered == FeedInv /\ QueryAnswered => FeedInv'
<1> SUFFICES ASSUME FeedInv, QueryAnswered PROVE FeedInv'
  OBVIOUS
<1> USE DEF QueryAnswered, streamVars
<1>1. tail' = Closed
  BY DEF FeedInv, PageRules
<1>2. StreamRules' /\ RestRules' /\ OrderRules' /\ TableRules' /\ ListRules'
  BY <1>1, ClosedTail
<1>3. /\ answer' \in Answers /\ answer'.what = Page[kind].asks
      /\ answer'.what = "latest" => Past(answer'.entry)
  <2>1. CASE Page[kind].asks = "snapshot"
    <3>1. answer' = [what |-> "snapshot", rows |-> current]
      BY <2>1 DEF SnapshotAnswer
    <3> QED  BY <2>1, <3>1 DEF Answers, FeedInv, Shapes
  <2>2. CASE Page[kind].asks # "snapshot"
    <3> DEFINE newest == IF buffer = <<>> THEN None ELSE Last(buffer)
    <3>1. answer' = [what |-> "latest", entry |-> newest]
      BY <2>2 DEF LatestAnswer
    <3>2. Page[kind].asks = "latest"
      BY <2>2, Traits DEF FeedInv, Shapes, PageRules
    <3>3. newest \in Entry \union {None} /\ Past(newest)
      <4>1. CASE buffer = <<>>
        BY <4>1 DEF Past
      <4>2. CASE buffer # <<>>
        <5>1. buffer \in Seq(Entry) /\ Len(buffer) \in 1 .. Len(buffer) /\ nextId \in Nat
          BY <4>2, FeedAssumption DEF FeedInv, Shapes
        <5>2. newest = buffer[Len(buffer)] /\ newest \in Entry
          BY <4>2, <5>1 DEF Last
        <5>3. newest.epoch = epoch /\ newest.id + Len(buffer) + 1 = nextId + Len(buffer)
          BY <5>1, <5>2 DEF FeedInv, StreamRules
        <5>4. newest.id < nextId
          BY <5>1, <5>2, <5>3, EntryIs
        <5>5. epoch <= epoch
          BY DEF FeedInv, Shapes
        <5> HIDE DEF newest
        <5> QED  BY <5>2, <5>3, <5>4, <5>5 DEF Past
      <4> QED  BY <4>1, <4>2
    <3> HIDE DEF newest
    <3> QED  BY <3>1, <3>2, <3>3 DEF Answers
  <2> QED  BY <2>1, <2>2
<1>4. Shapes'
  BY <1>3 DEF FeedInv, Shapes
<1>5. PageRules'
  BY <1>3 DEF FeedInv, PageRules
<1>6. SeenRules'
  BY <1>3 DEF FeedInv, SeenRules, Past
<1> QED  BY <1>2, <1>4, <1>5, <1>6 DEF FeedInv

(* The service restarts: its stream is new, and what the client knows is   *)
(* of an earlier process.                                                  *)
LEMMA InvRestart == FeedInv /\ Restart => FeedInv'
<1> SUFFICES ASSUME FeedInv, Restart PROVE FeedInv'
  OBVIOUS
<1> USE DEF Restart, Disconnected
<1> DEFINE first == [epoch |-> epoch + 1, id |-> 0, key |-> Whole]
<1>1. /\ spent' \in [emits : Nat, drops : Nat, restarts : Nat] /\ spent.restarts > 0
      /\ spent'.emits = spent.emits /\ spent'.restarts = spent.restarts - 1
  BY SpendIs DEF FeedInv, Shapes
<1>2. epoch \in Nat /\ epoch' \in 0 .. MaxRestarts /\ epoch' + spent'.restarts <= MaxRestarts
  BY <1>1, FeedAssumption DEF FeedInv, Shapes
<1>3. /\ first \in Entry /\ first # None /\ NoTable \in Rows
      /\ first.epoch = epoch' /\ first.id = 0 /\ first.key = Whole
  BY <1>2, WholeIsKey, FeedAssumption DEF Entry, NoTable, Rows
<1>4. /\ current' \in Rows
      /\ \/ /\ kind # "devices" /\ nextId' = 0 /\ \A k \in Key : current'[k] = None
         \/ /\ kind = "devices" /\ nextId' = 1 /\ current'[Whole] = first
            /\ \A k \in Key : k # Whole => current'[k] = None
  BY <1>3, WholeIsKey DEF NewStream, NoTable, Rows
<1>5. /\ tail'.at = "closed" /\ tail'.rest = <<>> /\ tail' = Closed
      /\ tail' \in [at : {"closed", "replaying", "live"}, rest : Seq(Entry)]
  BY DEF Closed
<1> HIDE DEF first
<1>6. nextId' \in 0 .. MaxEmits + 1 /\ nextId' + spent'.emits <= MaxEmits + 1
  <2>1. nextId' \in 0 .. 1 /\ spent.emits \in Nat /\ spent.emits <= MaxEmits + 1 - nextId
          /\ nextId \in Nat
    BY <1>4, FeedAssumption DEF FeedInv, Shapes
  <2>2. kind = "devices" => nextId >= 1
    <3>1. kind = "devices" => current[Whole] \in Entry /\ current[Whole].id < nextId
      BY WholeIsKey DEF FeedInv, StreamRules, Shapes, Rows
    <3> QED  BY <2>1, <3>1, EntryIs
  <2>3. nextId' = 0 \/ (nextId' = 1 /\ nextId >= 1)
    BY <1>4, <2>2
  <2> QED  BY <1>1, <2>1, <2>3, FeedAssumption
<1>7. Shapes'
  BY <1>1, <1>2, <1>4, <1>5, <1>6 DEF FeedInv, Shapes
<1>8. PageRules'
  BY <1>5 DEF FeedInv, PageRules
<1>9. StreamRules'
  <2>1. Len(buffer') = 0 /\ kind' = kind /\ \A k \in Key : current'[k] # None =>
          /\ current'[k] = first /\ k = Whole /\ nextId' = 1 /\ kind = "devices"
    BY <1>4
  <2>2. Whole \in KeysOf("devices")
    BY DEF KeysOf
  <2> QED  BY <1>3, <1>4, <2>1, <2>2, FeedAssumption DEF StreamRules, Unkept
<1>10. RestRules'
  BY <1>5 DEF RestRules
<1>11. \A e \in Entry : e.epoch <= epoch => (e.epoch <= epoch' /\ e.epoch # epoch')
  BY <1>2, EntryIs
<1>12. \A e \in Entry \union {None} : Past(e) => Past(e)' /\ (e # None => e.epoch # epoch')
  BY <1>11 DEF Past
<1>13. SeenRules'
  BY <1>12 DEF FeedInv, SeenRules, Shapes, Rows, Answers
<1>14. OrderRules'
  BY DEF FeedInv, OrderRules, Ordered, Precedes, UpTo
<1>15. TableRules'
  BY <1>5, <1>12 DEF FeedInv, TableRules, SeenRules, Shapes
<1>16. ListRules'
  BY DEF ListRules, Range
<1> QED  BY <1>7, <1>8, <1>9, <1>10, <1>13, <1>14, <1>15, <1>16 DEF FeedInv

(* The list of devices is published again to a tail that has none to hand  *)
(* over.                                                                   *)
LEMMA InvRepublish == FeedInv /\ Republish => FeedInv'
<1> SUFFICES ASSUME FeedInv, Republish PROVE FeedInv'
  OBVIOUS
<1> USE DEF Republish, streamVars, clientVars
<1> DEFINE c == current[Whole]
<1>1. /\ c \in Entry /\ c.epoch = epoch /\ c.id < nextId /\ c.key = Whole /\ c # None
      /\ tail \in [at : {"closed", "replaying", "live"}, rest : Seq(Entry)]
  BY WholeIsKey DEF FeedInv, StreamRules, Shapes, Rows
<1>2. tail' = [tail EXCEPT !.rest = Append(tail.rest, c)] /\ lost' = lost
  BY <1>1 DEF Tell
<1>3. /\ tail'.at = "live" /\ tail'.rest = <<c>>
      /\ tail' \in [at : {"closed", "replaying", "live"}, rest : Seq(Entry)]
  <2>1. tail.rest = <<>> /\ tail.at = "live" /\ <<c>> \in Seq(Entry)
    BY <1>1
  <2>2. Append(tail.rest, c) = <<c>>
    BY <2>1
  <2> HIDE DEF c
  <2> QED  BY <1>1, <1>2, <2>1, <2>2
<1>4. Shapes'
  BY <1>2, <1>3 DEF FeedInv, Shapes
<1>5. PageRules'
  BY <1>3 DEF FeedInv, PageRules, Closed
<1>6. StreamRules' /\ SeenRules' /\ OrderRules'
  BY DEF FeedInv, StreamRules, SeenRules, Past, OrderRules, Ordered, Precedes, UpTo
<1>7. seen = None
  BY DEF FeedInv, PageRules, Unkept
<1>8. RestRules'
  BY <1>1, <1>3, <1>7, EntryIs DEF RestRules
<1>9. \A k \in Key : current[k] # None => k = Whole
  BY DEF FeedInv, StreamRules, KeysOf
<1>10. TableRules'
  BY <1>3, <1>7, <1>9 DEF TableRules, Ahead, Range
<1>11. ListRules'
  BY DEF ListRules, Listed
<1> QED  BY <1>4, <1>5, <1>6, <1>8, <1>10, <1>11 DEF FeedInv

(* The answer arrives: the table is of the past, or the client resumes     *)
(* from the newest event the service had, and what came before it is out   *)
(* of reach.                                                               *)
LEMMA InvAnswerArrives == FeedInv /\ AnswerArrives => FeedInv'
<1> SUFFICES ASSUME FeedInv, AnswerArrives PROVE FeedInv'
  OBVIOUS
<1> USE DEF AnswerArrives, streamVars
<1>1. /\ tail' = Closed /\ tail = Closed /\ tail'.at = "closed" /\ tail'.rest = <<>>
      /\ seen = None /\ lines = <<>> /\ pending = <<>>
  BY DEF FeedInv, PageRules, Closed
<1>2. answer \in Answers /\ answer # None /\ answer.what = Page[kind].asks
  BY DEF FeedInv, PageRules, Shapes
<1>3. StreamRules' /\ RestRules' /\ OrderRules'
  BY <1>1 DEF FeedInv, StreamRules, RestRules, OrderRules, Ordered, Precedes, UpTo
<1>4. CASE answer.what = "snapshot"
  <2>1. answer.rows \in Rows
    BY <1>2, <1>4 DEF Answers
  <2>2. table' = answer.rows /\ seen' = None /\ lost' = lost /\ answer' = None
    BY <1>1, <1>4
  <2>3. kind \notin Listed
    BY <1>2, <1>4, Traits DEF FeedInv, Shapes, Listed
  <2>4. Shapes' /\ PageRules'
    BY <1>1, <2>1, <2>2, <2>3 DEF FeedInv, Shapes, PageRules
  <2>5. SeenRules'
    BY <2>1, <2>2 DEF SeenRules, Past
  <2>6. TableRules' /\ ListRules'
    BY <1>1, <2>2 DEF TableRules, ListRules
  <2> QED  BY <1>3, <2>4, <2>5, <2>6 DEF FeedInv
<1>5. CASE answer.what # "snapshot"
  <2>1. answer.what = "latest" /\ answer.entry \in Entry \union {None} /\ Past(answer.entry)
    BY <1>2, <1>5 DEF Answers, FeedInv, SeenRules
  <2>2. kind = "notify"
    BY <1>2, <2>1, Traits DEF FeedInv, Shapes
  <2>3. /\ table' = table /\ seen' = answer.entry /\ answer' = None
        /\ lost' = {e \in Live : answer.entry # None /\ e.epoch = answer.entry.epoch
             /\ e.id <= answer.entry.id}
    BY <1>5, <2>1
  <2>4. Live \in SUBSET Entry
    BY DEF Live, Range, FeedInv, Shapes, Rows
  <2>5. Shapes'
    BY <2>1, <2>3, <2>4, <1>1 DEF FeedInv, Shapes
  <2>6. PageRules'
    BY <1>1, <2>2, <2>3 DEF FeedInv, PageRules, Unkept, Listed
  <2>7. SeenRules'
    BY <2>1, <2>3 DEF SeenRules, Past
  <2>8. TableRules'
    BY <2>2 DEF TableRules, Listed
  <2>9. ListRules'
    <3>1. \A e \in Range(buffer) : e.epoch = epoch /\ e \in Live
      BY DEF FeedInv, Shapes, StreamRules, Range, Live
    <3> QED  BY <1>1, <2>3, <3>1 DEF ListRules, Handled
  <2> QED  BY <1>3, <2>5, <2>6, <2>7, <2>8, <2>9 DEF FeedInv
<1> QED  BY <1>4, <1>5

-----------------------------------------------------------------------------
(* Order and coverage of the toasts and lines, under a join and a cut.     *)

LEMMA Joined ==
  ASSUME NEW s \in Seq(Entry), NEW t \in Seq(Entry)
  PROVE  /\ s \o t \in Seq(Entry) /\ Len(s \o t) = Len(s) + Len(t)
         /\ \A i \in 1 .. Len(s \o t) :
              \/ i \in 1 .. Len(s) /\ (s \o t)[i] = s[i]
              \/ i - Len(s) \in 1 .. Len(t) /\ (s \o t)[i] = t[i - Len(s)]
         /\ \A i \in 1 .. Len(s) : i \in 1 .. Len(s \o t) /\ (s \o t)[i] = s[i]
         /\ \A i \in 1 .. Len(t) : Len(s) + i \in 1 .. Len(s \o t) /\ (s \o t)[Len(s) + i] = t[i]
<1>1. s \o t \in Seq(Entry) /\ Len(s \o t) = Len(s) + Len(t)
  OBVIOUS
<1>2. \A i \in 1 .. Len(s) + Len(t) : (s \o t)[i] = IF i <= Len(s) THEN s[i] ELSE t[i - Len(s)]
  OBVIOUS
<1>3. Len(s) \in Nat /\ Len(t) \in Nat
  OBVIOUS
<1>4. \A i \in 1 .. Len(t) : Len(s) + i \in 1 .. Len(s) + Len(t) /\ ~ (Len(s) + i <= Len(s))
        /\ (Len(s) + i) - Len(s) = i
  BY <1>3
<1> QED  BY <1>1, <1>2, <1>3, <1>4

LEMMA JoinOrdered ==
  ASSUME NEW s \in Seq(Entry), NEW t \in Seq(Entry), NEW x,
         Ordered(s), Ordered(t), Precedes(s, t), UpTo(s, x), UpTo(t, x)
  PROVE  Ordered(s \o t) /\ UpTo(s \o t, x)
<1>1. UpTo(s \o t, x)
  BY Joined DEF UpTo
<1>2. ASSUME NEW i \in 1 .. Len(s \o t), NEW j \in 1 .. Len(s \o t), i < j
      PROVE  Before((s \o t)[i], (s \o t)[j])
  <2>1. Len(s) \in Nat /\ Len(t) \in Nat
    OBVIOUS
  <2>2. CASE j \in 1 .. Len(s)
    <3>1. i \in 1 .. Len(s)
      BY <1>2, <2>1, <2>2, Joined
    <3> QED  BY <1>2, <2>2, <3>1, Joined DEF Ordered
  <2>3. CASE j - Len(s) \in 1 .. Len(t) /\ (s \o t)[j] = t[j - Len(s)]
    <3>1. CASE i \in 1 .. Len(s) /\ (s \o t)[i] = s[i]
      BY <2>3, <3>1 DEF Precedes
    <3>2. CASE i - Len(s) \in 1 .. Len(t) /\ (s \o t)[i] = t[i - Len(s)]
      <4>1. i - Len(s) < j - Len(s)
        BY <1>2, <2>1, Joined
      <4> QED  BY <2>3, <3>2, <4>1 DEF Ordered
    <3> QED  BY <3>1, <3>2, Joined
  <2> QED  BY <2>2, <2>3, Joined
<1> QED  BY <1>1, <1>2 DEF Ordered

LEMMA SuffixOrdered ==
  ASSUME NEW s \in Seq(Entry), NEW t, NEW d, Suffix(t, s, d)
  PROVE  /\ Ordered(s) => Ordered(t)
         /\ \A x : UpTo(s, x) => UpTo(t, x)
         /\ Range(t) \subseteq Range(s)
         /\ \A i \in 1 .. Len(t) : i + d \in 1 .. Len(s) /\ t[i] = s[i + d]
<1>1. Len(s) \in Nat /\ d \in 0 .. Len(s) /\ Len(t) = Len(s) - d
        /\ \A i \in 1 .. Len(t) : t[i] = s[i + d]
  BY DEF Suffix
<1>2. \A i \in 1 .. Len(t) : i + d \in 1 .. Len(s)
  BY <1>1
<1>3. \A i, j \in 1 .. Len(t) : i < j => i + d < j + d
  BY <1>1
<1>4. Ordered(s) => Ordered(t)
  BY <1>1, <1>2, <1>3 DEF Ordered
<1>5. \A x : UpTo(s, x) => UpTo(t, x)
  BY <1>1, <1>2 DEF UpTo
<1>6. t \in Seq(Entry) /\ DOMAIN t = 1 .. Len(t) /\ DOMAIN s = 1 .. Len(s)
  BY DEF Suffix
<1>7. Range(t) \subseteq Range(s)
  BY <1>1, <1>2, <1>6 DEF Range
<1> QED  BY <1>1, <1>2, <1>4, <1>5, <1>7

(* A cut that keeps the newest line keeps what it covers.                  *)
LEMMA CutCovers ==
  ASSUME NEW s \in Seq(Entry), Ordered(s), NEW t, NEW d, Suffix(t, s, d), d < Len(s),
         epoch \in Nat, s[Len(s)].epoch <= epoch,
         NEW e \in Entry, e.epoch = epoch, e \in Range(s) \/ Newer(e, s)
  PROVE  e \in Range(t) \/ Newer(e, t)
<1> DEFINE n == Len(s)
<1>1. n \in Nat /\ n \in 1 .. n /\ s[n] \in Entry /\ d \in 0 .. n /\ Len(t) = n - d
  BY DEF Suffix
<1>2. Len(t) \in 1 .. Len(t) /\ t[Len(t)] = s[n]
  <2>1. Len(t) \in 1 .. Len(t) /\ Len(t) + d = n
    BY <1>1
  <2> QED  BY <2>1 DEF Suffix
<1>3. t \in Seq(Entry) /\ DOMAIN t = 1 .. Len(t) /\ DOMAIN s = 1 .. n
  BY DEF Suffix
<1>4. ASSUME NEW i \in 1 .. n, s[i].epoch = epoch, i < n
      PROVE  s[n].epoch = epoch /\ s[n].id > s[i].id
  <2>1. Before(s[i], s[n])
    BY <1>1, <1>4 DEF Ordered
  <2>2. s[i] \in Entry
    OBVIOUS
  <2> QED  BY <1>1, <1>4, <2>1, <2>2, EntryIs DEF Before
<1>5. CASE e \in Range(s)
  <2>1. PICK i \in 1 .. n : s[i] = e
    BY <1>3, <1>5 DEF Range
  <2>2. CASE i = n
    BY <1>2, <1>3, <2>1, <2>2 DEF Range
  <2>3. CASE i < n
    BY <1>2, <1>4, <2>1, <2>3 DEF Newer
  <2> QED  BY <1>1, <2>2, <2>3
<1>6. CASE Newer(e, s)
  <2>1. PICK i \in 1 .. n : s[i].epoch = epoch /\ s[i].id > e.id
    BY <1>6 DEF Newer
  <2>2. s[n].epoch = epoch /\ s[n].id > e.id
    <3>1. s[i] \in Entry
      OBVIOUS
    <3>2. CASE i = n
      BY <2>1, <3>2
    <3>3. CASE i < n
      BY <1>1, <1>4, <2>1, <3>1, <3>3, EntryIs
    <3> QED  BY <1>1, <3>2, <3>3
  <2> QED  BY <1>2, <2>2 DEF Newer
<1> QED  BY <1>5, <1>6

(* The history is of this process.                                         *)
LEMMA HistoryIsNow ==
  ASSUME FeedInv, NEW e \in Range(buffer)
  PROVE  /\ e \in Entry /\ e.epoch = epoch
         /\ \E i \in 1 .. Len(buffer) : e = buffer[i]
<1>1. buffer \in Seq(Entry) /\ DOMAIN buffer = 1 .. Len(buffer)
  BY DEF FeedInv, Shapes
<1>2. PICK i \in 1 .. Len(buffer) : e = buffer[i]
  BY <1>1 DEF Range
<1> QED  BY <1>1, <1>2 DEF FeedInv, StreamRules

(* What the client has been handed is of no later process.                 *)
LEMMA HandedIsPast ==
  ASSUME FeedInv, NEW x \in Range(lines) \union Range(pending)
  PROVE  /\ x \in Entry /\ x.epoch \in Nat /\ epoch \in Nat /\ x.epoch <= epoch
         /\ seen \in Entry /\ seen # None /\ ~ Before(seen, x)
<1>1. /\ lines \in Seq(Entry) /\ pending \in Seq(Entry) /\ seen \in Entry \union {None} /\ epoch \in Nat
      /\ DOMAIN lines = 1 .. Len(lines) /\ DOMAIN pending = 1 .. Len(pending)
  BY FeedAssumption DEF FeedInv, Shapes
<1>2. x \in Entry /\ seen # None /\ ~ Before(seen, x)
  BY <1>1 DEF FeedInv, OrderRules, UpTo, Range
<1>3. seen \in Entry /\ seen.epoch <= epoch
  BY <1>1, <1>2 DEF FeedInv, SeenRules, Past
<1>4. x.epoch <= seen.epoch
  BY <1>2, <1>3, EntryIs DEF Before
<1> QED  BY <1>1, <1>2, <1>3, <1>4, EntryIs

LEMMA RangeJoined ==
  ASSUME NEW s \in Seq(Entry), NEW t \in Seq(Entry)
  PROVE  /\ Range(s \o t) = Range(s) \union Range(t)
         /\ \A e : Newer(e, s \o t) <=> Newer(e, s) \/ Newer(e, t)
<1>1. DOMAIN (s \o t) = 1 .. Len(s \o t) /\ DOMAIN s = 1 .. Len(s) /\ DOMAIN t = 1 .. Len(t)
  OBVIOUS
<1>2. Range(s \o t) = Range(s) \union Range(t)
  <2>1. ASSUME NEW x \in Range(s \o t) PROVE x \in Range(s) \union Range(t)
    BY <1>1, Joined DEF Range
  <2>2. ASSUME NEW x \in Range(s) PROVE x \in Range(s \o t)
    <3>1. PICK i \in 1 .. Len(s) : x = s[i]
      BY <1>1 DEF Range
    <3>2. i \in 1 .. Len(s \o t) /\ (s \o t)[i] = s[i]
      BY Joined
    <3> QED  BY <1>1, <3>1, <3>2 DEF Range
  <2>3. ASSUME NEW x \in Range(t) PROVE x \in Range(s \o t)
    <3>1. PICK i \in 1 .. Len(t) : x = t[i]
      BY <1>1 DEF Range
    <3>2. Len(s) + i \in 1 .. Len(s \o t) /\ (s \o t)[Len(s) + i] = t[i]
      BY Joined
    <3> QED  BY <1>1, <3>1, <3>2 DEF Range
  <2> QED  BY <2>1, <2>2, <2>3
<1>3. ASSUME NEW e PROVE Newer(e, s \o t) <=> Newer(e, s) \/ Newer(e, t)
  <2>1. ASSUME NEW i \in 1 .. Len(s), s[i].epoch = epoch, s[i].id > e.id PROVE Newer(e, s \o t)
    BY <2>1, Joined DEF Newer
  <2>2. ASSUME NEW i \in 1 .. Len(t), t[i].epoch = epoch, t[i].id > e.id PROVE Newer(e, s \o t)
    <3>1. Len(s) + i \in 1 .. Len(s \o t) /\ (s \o t)[Len(s) + i] = t[i]
      BY Joined
    <3> QED  BY <2>2, <3>1 DEF Newer
  <2>3. ASSUME Newer(e, s \o t) PROVE Newer(e, s) \/ Newer(e, t)
    BY <2>3, Joined DEF Newer
  <2> QED  BY <2>1, <2>2, <2>3 DEF Newer
<1> QED  BY <1>2, <1>3

(* The lines that wait are rendered, and the log is cut.                   *)
LEMMA InvFlush == FeedInv /\ Flush => FeedInv'
<1> SUFFICES ASSUME FeedInv, Flush PROVE FeedInv'
  OBVIOUS
<1> USE DEF Flush, streamVars
<1> DEFINE all == lines \o pending
<1>1. kind = "logs" /\ lines \in Seq(Entry) /\ pending \in Seq(Entry) /\ pending # <<>>
  BY DEF FeedInv, PageRules, Shapes
<1>2. all \in Seq(Entry) /\ Len(all) > 0
  BY <1>1
<1>3. Ordered(all) /\ UpTo(all, seen)
  BY <1>1, JoinOrdered DEF FeedInv, OrderRules
<1>4. /\ Range(all) = Range(lines) \union Range(pending)
      /\ \A e : Newer(e, all) <=> Newer(e, lines) \/ Newer(e, pending)
  BY <1>1, RangeJoined
<1>5. lines' = Cut(all) /\ pending' = <<>>
  OBVIOUS
<1> HIDE DEF all
<1>6. lines' \in Seq(Entry) /\ Len(lines') <= CutAbove
  BY <1>2, <1>5, CutIsSuffix
<1>7. PICK d \in 0 .. Len(all) : Suffix(lines', all, d) /\ d < Len(all)
  BY <1>2, <1>5, CutIsSuffix
<1>8. Ordered(lines') /\ UpTo(lines', seen)
  BY <1>2, <1>3, <1>7, SuffixOrdered
<1>9. Shapes'
  BY <1>5, <1>6 DEF FeedInv, Shapes
<1>10. PageRules'
  BY <1>1, <1>5, <1>6, FeedAssumption DEF FeedInv, PageRules, Listed
<1>11. StreamRules' /\ RestRules' /\ SeenRules'
  BY DEF FeedInv, StreamRules, RestRules, SeenRules, Past
<1>12. OrderRules'
  BY <1>5, <1>8 DEF OrderRules, Ordered, Precedes, UpTo
<1>13. TableRules'
  BY <1>1 DEF TableRules, Listed
<1>14. ASSUME NEW e \in Range(buffer), Handled(e) PROVE Handled(e)'
  <2>1. e \in Entry /\ e.epoch = epoch
    BY SMTT(30) DEF FeedInv, Shapes, StreamRules, Range
  <2>2. CASE e \in lost
    BY <2>2 DEF Handled
  <2>3. CASE e \in Range(all) \/ Newer(e, all)
    <3>1. Len(all) \in 1 .. Len(all) /\ all[Len(all)] \in Range(all)
      BY <1>2 DEF Range
    <3>2. all[Len(all)].epoch <= epoch /\ epoch \in Nat
      BY <1>4, <3>1, HandedIsPast
    <3>3. e \in Range(lines') \/ Newer(e, lines')
      BY <1>2, <1>3, <1>7, <2>1, <2>3, <3>2, CutCovers
    <3>4. Newer(e, lines') = Newer(e, lines)'
      BY DEF Newer
    <3> QED  BY <1>1, <3>3, <3>4 DEF Handled
  <2> QED  BY <1>4, <1>14, <2>2, <2>3 DEF Handled
<1>15. ListRules'
  BY <1>14 DEF FeedInv, ListRules
<1> QED  BY <1>9, <1>10, <1>11, <1>12, <1>13, <1>15 DEF FeedInv

-----------------------------------------------------------------------------
(* The tail hands over its next entry.                                     *)

(* What is handed over is newer than all that was.                         *)
LEMMA NextIsNewer ==
  ASSUME FeedInv, tail.rest # <<>>, NEW x \in Range(lines) \union Range(pending)
  PROVE  Before(x, tail.rest[1]) /\ ~ Before(tail.rest[1], x)
<1> DEFINE f == tail.rest[1]
<1>1. tail.rest \in Seq(Entry) /\ 1 \in 1 .. Len(tail.rest) /\ f \in Entry
  BY DEF FeedInv, Shapes
<1>2. f.epoch = epoch /\ (seen # None /\ seen.epoch = epoch => seen.id < f.id)
  BY <1>1 DEF FeedInv, RestRules
<1>3. /\ x \in Entry /\ x.epoch <= epoch /\ epoch \in Nat
      /\ seen \in Entry /\ seen # None /\ ~ Before(seen, x)
  BY HandedIsPast
<1>4. seen.epoch <= epoch
  BY <1>3 DEF FeedInv, SeenRules, Past
<1> QED  BY <1>1, <1>2, <1>3, <1>4, EntryIs DEF Before

(* The queue without its first entry.                                      *)
LEMMA RestWithoutFirst ==
  ASSUME tail.rest \in Seq(Entry), tail.rest # <<>>
  PROVE  /\ Tail(tail.rest) \in Seq(Entry) /\ Len(Tail(tail.rest)) = Len(tail.rest) - 1
         /\ 1 \in 1 .. Len(tail.rest) /\ Len(tail.rest) \in Nat
         /\ \A i \in 1 .. Len(tail.rest) - 1 :
              i + 1 \in 1 .. Len(tail.rest) /\ Tail(tail.rest)[i] = tail.rest[i + 1]
         /\ \A e \in Range(tail.rest) : e = tail.rest[1] \/ e \in Range(Tail(tail.rest))
<1> DEFINE r == tail.rest
<1>1. /\ Tail(r) \in Seq(Entry) /\ Len(Tail(r)) = Len(r) - 1 /\ 1 \in 1 .. Len(r) /\ Len(r) \in Nat
      /\ \A i \in 1 .. Len(r) - 1 : i + 1 \in 1 .. Len(r) /\ Tail(r)[i] = r[i + 1]
      /\ DOMAIN r = 1 .. Len(r) /\ DOMAIN Tail(r) = 1 .. Len(r) - 1
  OBVIOUS
<1>2. ASSUME NEW e \in Range(r), e # r[1] PROVE e \in Range(Tail(r))
  <2>1. PICK i \in 1 .. Len(r) : r[i] = e
    BY <1>1 DEF Range
  <2>2. i - 1 \in 1 .. Len(r) - 1 /\ (i - 1) + 1 = i
    BY <1>1, <1>2, <2>1
  <2>3. Tail(r)[i - 1] = e
    BY <1>1, <2>1, <2>2
  <2> QED  BY <1>1, <2>2, <2>3 DEF Range
<1> QED  BY <1>1, <1>2

LEMMA AppendOrdered ==
  ASSUME NEW s \in Seq(Entry), NEW f \in Entry, Ordered(s),
         \A x \in Range(s) : Before(x, f) /\ ~ Before(f, x)
  PROVE  /\ Append(s, f) \in Seq(Entry) /\ Len(Append(s, f)) > 0
         /\ Ordered(Append(s, f)) /\ UpTo(s, f) /\ UpTo(Append(s, f), f)
         /\ Range(Append(s, f)) = Range(s) \union {f}
         /\ Append(s, f)[Len(Append(s, f))] = f
         /\ \A i \in 1 .. Len(Append(s, f)) : Append(s, f)[i] = f \/ Append(s, f)[i] \in Range(s)
         /\ \A e : Newer(e, s) => Newer(e, Append(s, f))
<1> DEFINE t == Append(s, f)
<1> DEFINE n == Len(s)
<1>1. /\ t \in Seq(Entry) /\ Len(t) = n + 1 /\ n \in Nat /\ t[n + 1] = f
      /\ \A i \in 1 .. n : t[i] = s[i]
      /\ DOMAIN s = 1 .. n /\ DOMAIN t = 1 .. n + 1
  OBVIOUS
<1> HIDE DEF t
<1>2. \A i \in 1 .. n + 1 : i = n + 1 \/ (i \in 1 .. n /\ t[i] = s[i])
  BY <1>1
<1>3. \A i \in 1 .. n : s[i] \in Range(s) /\ i \in 1 .. n + 1
  BY <1>1 DEF Range
<1>4. f # None /\ ~ Before(f, f)
  BY EntryIs DEF Before
<1>5. UpTo(s, f)
  BY <1>3, <1>4 DEF UpTo
<1>6. UpTo(t, f)
  BY <1>1, <1>2, <1>3, <1>4 DEF UpTo
<1>7. Ordered(t)
  <2>1. ASSUME NEW i \in 1 .. n + 1, NEW j \in 1 .. n + 1, i < j PROVE Before(t[i], t[j])
    <3>1. i \in 1 .. n /\ t[i] = s[i]
      BY <1>1, <1>2, <2>1
    <3>2. CASE j = n + 1
      BY <1>1, <1>3, <3>1, <3>2
    <3>3. CASE j \in 1 .. n /\ t[j] = s[j]
      BY <2>1, <3>1, <3>3 DEF Ordered
    <3> QED  BY <1>2, <3>2, <3>3
  <2> QED  BY <1>1, <2>1 DEF Ordered
<1>8. Range(t) = Range(s) \union {f}
  <2>1. \A x \in Range(t) : x \in Range(s) \union {f}
    BY <1>1, <1>2, <1>3 DEF Range
  <2>2. \A x \in Range(s) : x \in Range(t)
    BY <1>1, <1>3 DEF Range
  <2>3. f \in Range(t)
    BY <1>1 DEF Range
  <2> QED  BY <2>1, <2>2, <2>3
<1>9. \A i \in 1 .. Len(t) : t[i] = f \/ t[i] \in Range(s)
  BY <1>1, <1>2, <1>3
<1>10. \A e : Newer(e, s) => Newer(e, t)
  BY <1>1, <1>3 DEF Newer
<1> QED  BY <1>1, <1>5, <1>6, <1>7, <1>8, <1>9, <1>10 DEF t

LEMMA InvHandOver == FeedInv /\ HandOver => FeedInv'
<1> SUFFICES ASSUME FeedInv, HandOver PROVE FeedInv'
  OBVIOUS
<1> USE DEF HandOver, streamVars
<1> DEFINE f == tail.rest[1]
<1> DEFINE rest == Tail(tail.rest)
<1>1. /\ tail \in [at : {"closed", "replaying", "live"}, rest : Seq(Entry)] /\ tail.rest \in Seq(Entry)
      /\ tail.rest # <<>> /\ kind \in Kinds /\ table \in Rows /\ epoch \in Nat
      /\ lines \in Seq(Entry) /\ pending \in Seq(Entry) /\ seen \in Entry \union {None}
  BY FeedAssumption DEF FeedInv, Shapes
<1>2. /\ rest \in Seq(Entry) /\ Len(rest) = Len(tail.rest) - 1
      /\ 1 \in 1 .. Len(tail.rest) /\ Len(tail.rest) \in Nat
      /\ \A i \in 1 .. Len(rest) : i + 1 \in 1 .. Len(tail.rest) /\ rest[i] = tail.rest[i + 1]
      /\ \A e \in Range(tail.rest) : e = f \/ e \in Range(rest)
  BY <1>1, RestWithoutFirst
<1>3. tail'.rest = rest /\ tail'.at = tail.at
        /\ tail' \in [at : {"closed", "replaying", "live"}, rest : Seq(Entry)]
  BY <1>1, <1>2
<1>4. /\ f \in Entry /\ f # None /\ f.epoch = epoch /\ f.id < nextId /\ f.key \in Key
      /\ current[f.key] # None /\ f.id <= current[f.key].id
  BY <1>1, <1>2, EntryIs DEF FeedInv, RestRules
<1>5. tail.at # "closed" /\ page = "subscribed"
  BY <1>1 DEF FeedInv, PageRules, Closed
<1>6. \A i \in 1 .. Len(rest) : rest[i].id > f.id /\ f.id \in Nat /\ rest[i].id \in Nat
  <2>1. TAKE i \in 1 .. Len(rest)
  <2>2. i + 1 \in 1 .. Len(tail.rest) /\ 1 < i + 1 /\ rest[i] = tail.rest[i + 1] /\ rest[i] \in Entry
    BY <1>2
  <2> QED  BY <1>2, <1>4, <2>2, EntryIs DEF FeedInv, RestRules
<1>7. \/ /\ kind = "devices" /\ table[f.key] = f
         /\ UNCHANGED <<table, lines, pending, seen>>
      \/ /\ kind \in Unkept /\ table' = [table EXCEPT ![f.key] = f]
         /\ UNCHANGED <<lines, pending, seen>>
      \/ /\ kind \notin Unkept /\ kind \notin Listed /\ table' = [table EXCEPT ![f.key] = f] /\ seen' = f
         /\ UNCHANGED <<lines, pending>>
      \/ /\ kind = "notify" /\ lines' = Append(lines, f) /\ seen' = f
         /\ UNCHANGED <<table, pending>>
      \/ /\ kind = "logs" /\ pending' = Cut(Append(pending, f)) /\ seen' = f
         /\ UNCHANGED <<table, lines>>
  BY <1>1, Traits DEF Repeated, Shown, Unkept, Listed
<1>8. /\ \A x \in Range(lines) \union Range(pending) : Before(x, f) /\ ~ Before(f, x)
  BY <1>1, NextIsNewer
<1>9. DOMAIN lines = 1 .. Len(lines) /\ DOMAIN pending = 1 .. Len(pending)
  BY <1>1
<1> HIDE DEF f, rest
<1>10. (kind \in Unkept => seen' = None /\ seen = None) /\ (kind \notin Unkept => seen' = f)
  BY <1>7 DEF FeedInv, PageRules, Unkept
<1>11. table' \in Rows /\ \A k \in Key : table'[k] = table[k] \/ (table'[k] = f /\ k = f.key)
  BY <1>1, <1>4, <1>7 DEF Rows
<1>12. \/ /\ kind \notin Listed
          /\ lines' = lines /\ pending' = pending /\ lines = <<>> /\ pending = <<>>
       \/ /\ kind = "notify" /\ lines' = Append(lines, f) /\ table' = table
          /\ pending' = pending /\ pending = <<>>
       \/ /\ kind = "logs" /\ pending' = Cut(Append(pending, f)) /\ lines' = lines /\ table' = table
  BY <1>7 DEF Listed, Unkept, FeedInv, PageRules
<1>13. Ordered(lines) /\ Ordered(pending) /\ Precedes(lines, pending)
  BY DEF FeedInv, OrderRules
<1>14. /\ lines' \in Seq(Entry) /\ pending' \in Seq(Entry)
            /\ (kind = "logs" => Len(pending') <= CutAbove)
       /\ OrderRules'
       /\ kind \in Listed => \A e \in Range(buffer) : (e = f \/ Handled(e)) => Handled(e)'
  <2>1. CASE /\ kind \notin Listed
             /\ lines' = lines /\ pending' = pending /\ lines = <<>> /\ pending = <<>>
    BY <2>1 DEF OrderRules, Ordered, Precedes, UpTo, Listed
  <2>2. CASE kind = "notify" /\ lines' = Append(lines, f) /\ pending' = pending /\ pending = <<>>
    <3>1. /\ lines' \in Seq(Entry) /\ Ordered(lines') /\ UpTo(lines', f)
          /\ Range(lines') = Range(lines) \union {f}
      BY <1>1, <1>4, <1>8, <1>13, <2>2, AppendOrdered
    <3>2. seen' = f
      BY <1>10, <2>2 DEF Unkept
    <3>3. OrderRules'
      BY <2>2, <3>1, <3>2 DEF OrderRules, Ordered, Precedes, UpTo
    <3>4. \A e \in Range(buffer) : (e = f \/ Handled(e)) => Handled(e)'
      BY <2>2, <3>1 DEF Handled
    <3> QED  BY <1>1, <2>2, <3>1, <3>3, <3>4
  <2>3. CASE kind = "logs" /\ pending' = Cut(Append(pending, f)) /\ lines' = lines
    <3> DEFINE p == Append(pending, f)
    <3>1. /\ p \in Seq(Entry) /\ Len(p) > 0 /\ Ordered(p) /\ UpTo(p, f)
               /\ Range(p) = Range(pending) \union {f}
          /\ p[Len(p)] = f
          /\ \A i \in 1 .. Len(p) : p[i] = f \/ p[i] \in Range(pending)
          /\ \A e : Newer(e, pending) => Newer(e, p)
      BY <1>1, <1>4, <1>8, <1>13, AppendOrdered
    <3> HIDE DEF p
    <3>2. pending' = Cut(p)
      BY <2>3 DEF p
    <3>3. pending' \in Seq(Entry) /\ Len(pending') <= CutAbove
      BY <3>1, <3>2, CutIsSuffix
    <3>4. PICK d \in 0 .. Len(p) : Suffix(pending', p, d) /\ d < Len(p)
      BY <3>1, <3>2, CutIsSuffix
    <3>5. /\ Ordered(pending') /\ UpTo(pending', f)
          /\ \A i \in 1 .. Len(pending') : i + d \in 1 .. Len(p) /\ pending'[i] = p[i + d]
      BY <3>1, <3>4, SuffixOrdered
    <3>6. UpTo(lines, f)
      BY <1>4, <1>8, <1>9 DEF UpTo, Range
    <3>7. Precedes(lines, pending')
      <4>1. ASSUME NEW i \in 1 .. Len(lines), NEW x \in Range(pending) \union {f}
            PROVE  Before(lines[i], x)
        BY <1>8, <1>9, <1>13 DEF Precedes, Range
      <4> QED  BY <3>1, <3>5, <4>1 DEF Precedes
    <3>8. seen' = f
      BY <1>10, <2>3 DEF Unkept
    <3>9. OrderRules'
      BY <1>13, <2>3, <3>5, <3>6, <3>7, <3>8 DEF OrderRules, Ordered, Precedes, UpTo
    <3>10. ASSUME NEW e \in Range(buffer), e = f \/ Handled(e) PROVE Handled(e)'
      <4>1. e \in Entry /\ e.epoch = epoch
        BY HistoryIsNow
      <4>2. CASE e \in Range(p) \/ Newer(e, p)
        <5>1. e \in Range(pending') \/ Newer(e, pending')
          BY <1>1, <1>4, <3>1, <3>4, <4>1, <4>2, CutCovers, EntryIs
        <5>2. Newer(e, pending') = Newer(e, pending)'
          BY DEF Newer
        <5> QED  BY <2>3, <5>1, <5>2 DEF Handled
      <4>3. CASE e \in lost \/ e \in Range(lines) \/ Newer(e, lines)
        BY <2>3, <4>3 DEF Handled, Newer
      <4> QED  BY <2>3, <3>1, <3>10, <4>2, <4>3 DEF Handled
    <3> QED  BY <1>1, <2>3, <3>3, <3>9, <3>10
  <2> QED  BY <1>12, <2>1, <2>2, <2>3
<1>15. Shapes'
  BY <1>3, <1>4, <1>10, <1>11, <1>14 DEF FeedInv, Shapes
<1>16. PageRules'
  BY <1>3, <1>5, <1>10, <1>12, <1>14 DEF FeedInv, PageRules, Listed, Unkept
<1>17. StreamRules'
  BY DEF FeedInv, StreamRules
<1>18. RestRules'
  <2>1. ASSUME NEW i \in 1 .. Len(rest)
        PROVE  /\ rest[i].epoch = epoch /\ rest[i].id < nextId
               /\ current[rest[i].key] # None /\ rest[i].id <= current[rest[i].key].id
    BY <1>2 DEF FeedInv, RestRules
  <2>2. ASSUME NEW i \in 1 .. Len(rest), NEW j \in 1 .. Len(rest), i < j PROVE rest[i].id < rest[j].id
    <3>1. i + 1 < j + 1
      BY <2>2
    <3> QED  BY <1>2, <3>1 DEF FeedInv, RestRules
  <2> QED  BY <1>3, <1>6, <1>10, <2>1, <2>2 DEF RestRules
<1>19. SeenRules'
  <2>1. Past(f)
    BY <1>1, <1>4 DEF Past
  <2>2. \A x : Past(x) => Past(x)'
    BY DEF Past
  <2> QED  BY <1>4, <1>10, <1>11, <2>1, <2>2 DEF FeedInv, SeenRules, Past
<1>20. TableRules'
  <2> SUFFICES ASSUME kind \notin Listed, NEW k \in Key, current[k] # None
               PROVE  /\ current[k] \in lost \/ Ahead(k)' \/ InRow(k)'
                      /\ seen' # None /\ seen'.epoch = epoch /\ current[k].id <= seen'.id =>
                           table'[k] = current[k] \/ current[k] \in lost
    BY DEF TableRules
  <2> DEFINE c == current[k]
  <2>1. c \in Entry /\ c.epoch = epoch /\ c.key = k
    BY DEF FeedInv, StreamRules, Shapes, Rows
  <2>2. table'[f.key] = f
    BY <1>1, <1>4, <1>7 DEF Rows, Listed
  <2>3. Ahead(k)' <=> c \in Range(rest)
    BY <1>3 DEF Ahead
  <2>4. InRow(k)' <=> table'[k] = c /\ \A i \in 1 .. Len(rest) : rest[i].key # k
    BY <1>3 DEF InRow
  <2>5. CASE c = f
    <3>1. \A i \in 1 .. Len(rest) : rest[i].key # k
      <4>1. ASSUME NEW i \in 1 .. Len(rest), rest[i].key = k PROVE FALSE
        <5>1. rest[i].id <= c.id
          BY <1>2, <4>1 DEF FeedInv, RestRules
        <5> QED  BY <1>6, <2>5, <5>1
      <4> QED  BY <4>1
    <3> QED  BY <2>1, <2>2, <2>4, <2>5, <3>1
  <2>6. CASE c # f /\ c \in Range(tail.rest)
    <3>1. c \in Range(rest)
      BY <1>2, <2>6
    <3>2. \E i \in 1 .. Len(rest) : c = rest[i]
      <4>1. DOMAIN rest = 1 .. Len(rest)
        BY <1>2
      <4> QED  BY <3>1, <4>1 DEF Range
    <3>3. ~ (c.id <= f.id)
      BY <1>6, <3>2
    <3> QED  BY <1>10, <2>3, <3>1, <3>3
  <2>7. CASE c # f /\ InRow(k)
    <3>1. f.key # k
      BY <1>2, <2>7 DEF InRow, f
    <3>2. table'[k] = c
      BY <1>11, <2>7, <3>1 DEF InRow
    <3>3. \A i \in 1 .. Len(rest) : rest[i].key # k
      BY <1>2, <2>7 DEF InRow
    <3> QED  BY <2>4, <3>2, <3>3
  <2>8. c \in lost \/ Ahead(k) \/ InRow(k)
    BY <1>5 DEF FeedInv, TableRules
  <2> QED  BY <2>5, <2>6, <2>7, <2>8 DEF Ahead
<1>21. ListRules'
  <2> SUFFICES ASSUME kind \in Listed, NEW e \in Range(buffer)
               PROVE  /\ Handled(e)' \/ e \in Range(rest)
                      /\ seen' # None /\ seen'.epoch = epoch /\ e.id <= seen'.id => Handled(e)'
    BY <1>3 DEF ListRules
  <2>1. e = f \/ Handled(e) => Handled(e)'
    BY <1>14
  <2>2. Handled(e) \/ e \in Range(tail.rest)
    BY <1>5 DEF FeedInv, ListRules
  <2>3. CASE e \in Range(rest)
    <3>1. \E i \in 1 .. Len(rest) : e = rest[i]
      <4>1. DOMAIN rest = 1 .. Len(rest)
        BY <1>2
      <4> QED  BY <2>3, <4>1 DEF Range
    <3>2. ~ (e.id <= f.id)
      BY <1>6, <3>1
    <3> QED  BY <1>10, <2>3, <3>2
  <2> QED  BY <1>2, <2>1, <2>2, <2>3
<1> QED  BY <1>14, <1>15, <1>16, <1>17, <1>18, <1>19, <1>20, <1>21 DEF FeedInv

-----------------------------------------------------------------------------
(* The tail opens.                                                         *)

(* The entries of the history by their place in it.                        *)
LEMMA HistoryPlaces ==
  ASSUME FeedInv
  PROVE  /\ buffer \in Seq(Entry) /\ Len(buffer) \in Nat /\ nextId \in Nat
         /\ DOMAIN buffer = 1 .. Len(buffer)
         /\ \A i \in 1 .. Len(buffer) : /\ buffer[i] \in Entry /\ buffer[i].id \in Nat
                                        /\ i \in Nat /\ i > 0
                                        /\ buffer[i].id + Len(buffer) + 1 = nextId + i
                                        /\ buffer[i].epoch = epoch
<1>1. buffer \in Seq(Entry) /\ nextId \in Nat
  BY FeedAssumption DEF FeedInv, Shapes
<1>2. \A i \in 1 .. Len(buffer) : buffer[i] \in Entry
  BY <1>1
<1> QED  BY <1>1, <1>2, EntryIs DEF FeedInv, StreamRules

LEMMA HistoryOrder ==
  ASSUME FeedInv
  PROVE  /\ \A i, j \in 1 .. Len(buffer) : i < j => buffer[i].id < buffer[j].id
         /\ \A i \in 1 .. Len(buffer) : buffer[i].id < nextId
         /\ \A m \in 1 .. Len(buffer), x \in Nat : buffer[m].id <= x /\ x < nextId =>
              \E q \in 1 .. Len(buffer) : buffer[q].id = x
<1> DEFINE L == Len(buffer)
<1>1. L \in Nat /\ nextId \in Nat
  BY HistoryPlaces
<1>2. ASSUME NEW i \in 1 .. L, NEW j \in 1 .. L, i < j
      PROVE  buffer[i].id < buffer[j].id
  <2> DEFINE a == buffer[i].id
  <2> DEFINE b == buffer[j].id
  <2>1. a \in Nat /\ b \in Nat /\ i \in Nat /\ j \in Nat /\ a + L + 1 = nextId + i
          /\ b + L + 1 = nextId + j
    BY HistoryPlaces
  <2> HIDE DEF a, b, L
  <2>2. a < b
    BY <1>1, <1>2, <2>1
  <2> QED  BY <2>2 DEF a, b
<1>3. ASSUME NEW i \in 1 .. L PROVE buffer[i].id < nextId
  <2> DEFINE a == buffer[i].id
  <2>1. a \in Nat /\ i \in Nat /\ i <= L /\ a + L + 1 = nextId + i
    BY <1>1, HistoryPlaces
  <2> HIDE DEF a, L
  <2>2. a < nextId
    BY <1>1, <2>1
  <2> QED  BY <2>2 DEF a
<1>4. ASSUME NEW m \in 1 .. L, NEW x \in Nat, buffer[m].id <= x, x < nextId
      PROVE  \E q \in 1 .. L : buffer[q].id = x
  <2> DEFINE a == buffer[m].id
  <2>1. a \in Nat /\ m \in Nat /\ m > 0 /\ m <= L /\ a + L + 1 = nextId + m /\ a <= x
    BY <1>1, <1>4, HistoryPlaces
  <2> DEFINE q == (x + L + 1) - nextId
  <2> HIDE DEF a
  <2> HIDE DEF L
  <2>2. q \in 1 .. L /\ x + L + 1 = nextId + q
    BY <1>1, <1>4, <2>1
  <2> HIDE DEF q
  <2> DEFINE b == buffer[q].id
  <2>3. b \in Nat /\ b + L + 1 = nextId + q
    BY <2>2, HistoryPlaces DEF L
  <2> HIDE DEF b
  <2>4. b = x
    BY <1>1, <2>2, <2>3
  <2> QED  BY <2>2, <2>4 DEF b
<1> QED  BY <1>2, <1>3, <1>4

(* What follows the place where a replay starts is replayed.               *)
LEMMA ReplayedFrom ==
  ASSUME FeedInv, NEW t, NEW d, Suffix(t, buffer, d),
         NEW j \in 1 .. Len(buffer), j > d
  PROVE  buffer[j] \in Range(t)
<1>1. buffer \in Seq(Entry) /\ Len(buffer) \in Nat
  BY HistoryPlaces
<1>2. d \in 0 .. Len(buffer) /\ Len(t) = Len(buffer) - d /\ t \in Seq(Entry)
      /\ \A i \in 1 .. Len(t) : t[i] = buffer[i + d]
  BY DEF Suffix
<1>3. j - d \in 1 .. Len(t) /\ (j - d) + d = j
  BY <1>1, <1>2
<1>4. t[j - d] = buffer[j] /\ DOMAIN t = 1 .. Len(t)
  BY <1>2, <1>3
<1> QED  BY <1>3, <1>4 DEF Range

(* The latest entry of a key is in the history unless it is out of reach.  *)
LEMMA LatestInHistory ==
  ASSUME FeedInv, kind \notin Unkept, NEW k \in Key, current[k] # None,
         nextId <= current[k].id + Len(buffer) \/ nextId <= current[k].id + BufferSize
  PROVE  \E j \in 1 .. Len(buffer) : current[k] = buffer[j]
<1>1. current[k] \in Entry /\ current[k].id \in Nat
  BY EntryIs DEF FeedInv, Shapes, Rows
<1>2. nextId <= current[k].id + Len(buffer)
  BY <1>1, HistoryPlaces, FeedAssumption DEF FeedInv, StreamRules
<1>3. current[k] \in Range(buffer)
  BY <1>2 DEF FeedInv, StreamRules
<1> QED  BY <1>3, HistoryIsNow

(* A replay hands over what is within reach and newer than what the client *)
(* resumes from.                                                           *)
LEMMA ReplayReaches ==
  ASSUME FeedInv, kind \notin Unkept, NEW t, NEW d, Suffix(t, buffer, d),
         seen = None => d = IF Len(buffer) > Window THEN Len(buffer) - Window ELSE 0,
         seen # None => IF d > 0 THEN buffer[d].id = seen.id
                                 ELSE \A i \in 1 .. Len(buffer) : buffer[i].id # seen.id,
         NEW j \in 1 .. Len(buffer),
         ~ Beyond(buffer[j]), ~ (seen # None /\ seen.epoch = epoch /\ buffer[j].id <= seen.id)
  PROVE  buffer[j] \in Range(t)
<1> DEFINE e == buffer[j]
<1>1. /\ Len(buffer) \in Nat /\ nextId \in Nat /\ e \in Entry /\ e.id \in Nat /\ e.epoch = epoch
      /\ e.id + Len(buffer) + 1 = nextId + j
  BY HistoryPlaces
<1>2. Reach = IF seen = None THEN Window ELSE BufferSize
  BY Traits DEF Reach, FeedInv, Shapes, Unkept
<1>3. ~ (e.id + Reach < nextId) /\ ~ (seen # None /\ seen.epoch # epoch /\ e.id <= seen.id)
  BY DEF Beyond
<1>4. d \in 0 .. Len(buffer)
  BY DEF Suffix
<1>5. j > d
  <2>1. CASE seen = None
    BY <1>1, <1>2, <1>3, <2>1, FeedAssumption
  <2>2. CASE seen # None
    <3>1. seen \in Entry /\ seen.id \in Nat /\ e.id > seen.id
      <4>1. seen \in Entry
        BY <2>2 DEF FeedInv, Shapes
      <4> QED  BY <1>1, <1>3, <2>2, <4>1, EntryIs
    <3>2. CASE d > 0
      <4>1. d \in 1 .. Len(buffer) /\ buffer[d].id = seen.id
        BY <1>4, <2>2, <3>2
      <4>2. buffer[d].id + Len(buffer) + 1 = nextId + d
        BY <4>1, HistoryPlaces
      <4> QED  BY <1>1, <1>4, <3>1, <4>1, <4>2
    <3>3. CASE ~ (d > 0)
      BY <1>4, <3>3
    <3> QED  BY <3>2, <3>3
  <2> QED  BY <2>1, <2>2
<1> QED  BY <1>5, ReplayedFrom

(* A replay that comes upon a key hands over its latest entry too.         *)
LEMMA ReplayCatchesUp ==
  ASSUME FeedInv, kind \notin Unkept, NEW t, NEW d, Suffix(t, buffer, d),
         NEW k \in Key, current[k] # None, NEW i \in 1 .. Len(t), t[i].key = k
  PROVE  current[k] \in Range(t)
<1>1. Len(buffer) \in Nat /\ nextId \in Nat
  BY HistoryPlaces
<1>2. PICK m \in 1 .. Len(buffer) : t[i] = buffer[m] /\ m > d
  <2>1. i \in Nat /\ i > 0 /\ d \in Nat /\ i + d \in 1 .. Len(buffer)
          /\ t[i] = buffer[i + d] /\ i + d > d
    BY <1>1 DEF Suffix
  <2> QED  BY <2>1
<1>3. buffer[m].id <= current[k].id /\ buffer[m].id + Len(buffer) + 1 = nextId + m
  BY <1>2 DEF FeedInv, StreamRules
<1>4. current[k] \in Entry /\ current[k].id \in Nat /\ buffer[m].id \in Nat
  BY <1>2, HistoryPlaces, EntryIs DEF FeedInv, Shapes, Rows
<1>5. nextId <= current[k].id + Len(buffer)
  <2>1. m \in Nat /\ m > 0
    BY HistoryPlaces
  <2>2. current[k].id + Len(buffer) \in Nat /\ nextId + m \in Nat
    BY <1>1, <1>4, <2>1
  <2> DEFINE c == current[k].id
  <2> DEFINE b == buffer[m].id
  <2> DEFINE L == Len(buffer)
  <2>3. b + L + 1 = nextId + m /\ b <= c /\ b \in Nat /\ c \in Nat /\ L \in Nat
    BY <1>1, <1>3, <1>4
  <2> HIDE DEF b, c, L
  <2>4. nextId <= c + L
    BY <1>1, <2>1, <2>3
  <2> QED  BY <2>4 DEF c, L
<1>6. PICK j \in 1 .. Len(buffer) : current[k] = buffer[j]
  BY <1>5, LatestInHistory
<1>7. d \in Nat /\ j > d
  BY <1>2, <1>3, <1>4, <1>6, HistoryOrder DEF Suffix
<1> QED  BY <1>6, <1>7, ReplayedFrom

(* The history is replayed.                                                *)
LEMMA InvHistoryOpens == FeedInv /\ kind \notin Unkept /\ TailOpens => FeedInv'
<1> SUFFICES ASSUME FeedInv, kind \notin Unkept, TailOpens PROVE FeedInv'
  OBVIOUS
<1>1. /\ buffer \in Seq(Entry) /\ nextId \in Nat /\ seen \in Entry \union {None}
      /\ \A i \in 1 .. Len(buffer) : buffer[i].id + Len(buffer) + 1 = nextId + i
  BY HistoryPlaces DEF FeedInv, Shapes
<1>2. \E d \in 0 .. Len(buffer) :
        /\ Suffix(Replayed(buffer, seen), buffer, d)
        /\ seen = None => d = IF Len(buffer) > Window THEN Len(buffer) - Window ELSE 0
        /\ seen # None => IF d > 0 THEN buffer[d].id = seen.id
                                   ELSE \A i \in 1 .. Len(buffer) : buffer[i].id # seen.id
  BY <1>1, ReplayedIsSuffix
<1> USE DEF TailOpens, streamVars
<1>3. TailOf(kind).opening = "history"
  BY Traits DEF FeedInv, Shapes, Unkept
<1> DEFINE rest == tail'.rest
<1>4. rest = Replayed(buffer, seen) /\ tail'.at = "replaying"
        /\ tail' = [at |-> "replaying", rest |-> rest]
  BY <1>3 DEF Opening
<1>5. PICK d \in 0 .. Len(buffer) :
        /\ Suffix(rest, buffer, d)
        /\ seen = None => d = IF Len(buffer) > Window THEN Len(buffer) - Window ELSE 0
        /\ seen # None => IF d > 0 THEN buffer[d].id = seen.id
                                   ELSE \A i \in 1 .. Len(buffer) : buffer[i].id # seen.id
  BY <1>2, <1>4
<1> HIDE DEF rest
<1>6. /\ rest \in Seq(Entry) /\ DOMAIN rest = 1 .. Len(rest) /\ Len(buffer) \in Nat
           /\ Len(rest) = Len(buffer) - d
      /\ \A i \in 1 .. Len(rest) : i + d \in 1 .. Len(buffer) /\ rest[i] = buffer[i + d]
  BY <1>1, <1>5 DEF Suffix
<1>7. tail' \in [at : {"closed", "replaying", "live"}, rest : Seq(Entry)] /\ tail'.rest = rest
  BY <1>4, <1>6 DEF rest
<1>8. lost' = lost \union {e \in Live : Beyond(e) /\ ~ Displayed(e)} /\ lost' \in SUBSET Entry
  BY DEF Live, Range, FeedInv, Shapes, Rows
<1>9. Shapes'
  BY <1>7, <1>8 DEF FeedInv, Shapes
<1>10. PageRules'
  BY <1>4 DEF FeedInv, PageRules
<1>11. StreamRules' /\ SeenRules' /\ OrderRules'
  BY DEF FeedInv, StreamRules, SeenRules, Past, OrderRules, Ordered, Precedes, UpTo
<1>12. RestRules'
  <2>1. ASSUME NEW i \in 1 .. Len(rest)
        PROVE  /\ rest[i].epoch = epoch /\ rest[i].id < nextId
               /\ current[rest[i].key] # None /\ rest[i].id <= current[rest[i].key].id
    <3>1. i + d \in 1 .. Len(buffer) /\ rest[i] = buffer[i + d]
      BY <1>6
    <3>2. buffer[i + d].id < nextId
      BY <3>1, HistoryOrder
    <3> QED  BY <3>1, <3>2 DEF FeedInv, StreamRules
  <2>2. ASSUME NEW i \in 1 .. Len(rest), NEW j \in 1 .. Len(rest), i < j PROVE rest[i].id < rest[j].id
    <3>1. i + d \in 1 .. Len(buffer) /\ rest[i] = buffer[i + d]
            /\ j + d \in 1 .. Len(buffer) /\ rest[j] = buffer[j + d]
      BY <1>6
    <3>2. i + d < j + d
      BY <1>6, <2>2
    <3> QED  BY <3>1, <3>2, HistoryOrder
  <2>3. ASSUME seen # None, seen.epoch = epoch, NEW i \in 1 .. Len(rest) PROVE seen.id < rest[i].id
    <3>1. seen \in Entry /\ seen.id \in Nat /\ seen.id < nextId
      BY <1>1, <2>3, EntryIs DEF FeedInv, SeenRules, Past
    <3>2. PICK m \in 1 .. Len(buffer) : rest[i] = buffer[m] /\ m > d
      <4>1. i + d \in 1 .. Len(buffer) /\ rest[i] = buffer[i + d] /\ i + d > d
        BY <1>6
      <4> QED  BY <4>1
    <3>3. buffer[m].id \in Nat
      BY HistoryPlaces
    <3>4. CASE d > 0
      <4>1. d \in 1 .. Len(buffer) /\ buffer[d].id = seen.id
        BY <1>5, <2>3, <3>4
      <4> QED  BY <3>2, <4>1, HistoryOrder
    <3>5. CASE ~ (d > 0) /\ buffer[m].id <= seen.id
      BY <1>5, <2>3, <3>1, <3>5, HistoryOrder
    <3> QED  BY <3>1, <3>2, <3>3, <3>4, <3>5
  <2> QED  BY <1>7, <2>1, <2>2, <2>3 DEF RestRules
<1>13. TableRules'
  <2> SUFFICES ASSUME kind \notin Listed, NEW k \in Key, current[k] # None
               PROVE  /\ current[k] \in lost' \/ Ahead(k)' \/ InRow(k)'
                      /\ seen # None /\ seen.epoch = epoch /\ current[k].id <= seen.id =>
                           table[k] = current[k] \/ current[k] \in lost'
    BY DEF TableRules
  <2> DEFINE c == current[k]
  <2>1. /\ c \in Entry /\ c.key = k /\ c.epoch = epoch /\ c \in Live
        /\ lines = <<>> /\ pending = <<>>
    BY DEF FeedInv, StreamRules, Shapes, Rows, PageRules, Live, Listed
  <2>2. Displayed(c) <=> table[k] = c
    BY <2>1 DEF Displayed, Range
  <2>3. Ahead(k)' <=> c \in Range(rest)
    BY <1>7 DEF Ahead
  <2>4. InRow(k)' <=> table[k] = c /\ \A i \in 1 .. Len(rest) : rest[i].key # k
    BY <1>7 DEF InRow
  <2>5. CASE table[k] = c
    BY <1>5, <2>3, <2>4, <2>5, ReplayCatchesUp
  <2>6. CASE table[k] # c /\ Beyond(c)
    BY <1>8, <2>1, <2>2, <2>6
  <2>7. CASE table[k] # c /\ ~ Beyond(c)
    <3>1. CASE seen # None /\ seen.epoch = epoch /\ c.id <= seen.id
      BY <1>8, <2>7, <3>1 DEF FeedInv, TableRules
    <3>2. CASE ~ (seen # None /\ seen.epoch = epoch /\ c.id <= seen.id)
      <4>1. Reach <= BufferSize /\ Reach \in Nat
        BY <1>3, FeedAssumption DEF Reach
      <4>2. nextId <= c.id + BufferSize
        BY <1>1, <2>1, <2>7, <4>1, EntryIs, FeedAssumption DEF Beyond
      <4>3. PICK j \in 1 .. Len(buffer) : c = buffer[j]
        BY <4>2, LatestInHistory
      <4>4. c \in Range(rest)
        BY <1>5, <2>7, <3>2, <4>3, ReplayReaches
      <4> QED  BY <2>3, <3>2, <4>4
    <3> QED  BY <3>1, <3>2
  <2> QED  BY <1>8, <2>5, <2>6, <2>7 DEF FeedInv, TableRules
<1>14. ListRules'
  <2> SUFFICES ASSUME kind \in Listed, NEW e \in Range(buffer)
               PROVE  /\ Handled(e)' \/ e \in Range(rest)
                      /\ seen # None /\ seen.epoch = epoch /\ e.id <= seen.id => Handled(e)'
    BY <1>7 DEF ListRules
  <2>1. Handled(e) => Handled(e)'
    BY <1>8 DEF Handled, Newer
  <2>2. PICK j \in 1 .. Len(buffer) : e = buffer[j] /\ e \in Entry /\ e \in Live
    BY HistoryIsNow DEF Live
  <2>3. CASE Beyond(e)
    <3>1. Displayed(e) => Handled(e)
      <4>1. table[e.key] # e
        BY <2>2, EntryIs DEF FeedInv, PageRules
      <4>2. Range(lines \o pending) = Range(lines) \union Range(pending)
        BY RangeJoined DEF FeedInv, Shapes
      <4> QED  BY <4>1, <4>2 DEF Displayed, Handled
    <3>2. ~ Displayed(e) => Handled(e)'
      BY <1>8, <2>2, <2>3 DEF Handled
    <3> QED  BY <2>1, <3>1, <3>2
  <2>4. CASE seen # None /\ seen.epoch = epoch /\ e.id <= seen.id
    BY <2>1, <2>4 DEF FeedInv, ListRules
  <2>5. CASE ~ Beyond(e) /\ ~ (seen # None /\ seen.epoch = epoch /\ e.id <= seen.id)
    BY <1>5, <2>2, <2>5, ReplayReaches
  <2> QED  BY <2>3, <2>4, <2>5
<1> QED  BY <1>9, <1>10, <1>11, <1>12, <1>13, <1>14 DEF FeedInv


(* A tail that opens with nothing to hand over, or with the list of devices*)
(* alone.                                                                  *)
LEMMA InvBareOpens == FeedInv /\ kind \in Unkept /\ TailOpens => FeedInv'
<1> SUFFICES ASSUME FeedInv, kind \in Unkept, TailOpens PROVE FeedInv'
  OBVIOUS
<1> USE DEF TailOpens, streamVars
<1>1. /\ TailOf(kind).opening = IF kind = "loops" THEN "nothing" ELSE "latest"
      /\ kind \in {"loops", "devices"} /\ kind \notin Listed /\ seen = None
      /\ lines = <<>> /\ pending = <<>>
  BY Traits DEF FeedInv, Shapes, PageRules, Unkept, Listed
<1>2. \A k \in Key : current[k] # None =>
        /\ current[k] \in Entry /\ current[k].epoch = epoch /\ current[k].key = k
        /\ current[k].id \in Nat /\ current[k].id < nextId /\ nextId \in Nat
        /\ current[k] \in Live /\ (kind = "devices" => k = Whole)
  BY SMTT(30), EntryIs, FeedAssumption DEF FeedInv, StreamRules, Shapes, Rows, Live, KeysOf
<1>3. lost' = lost \union {e \in Live : Beyond(e) /\ ~ Displayed(e)} /\ lost' \in SUBSET Entry
  BY DEF Live, Range, FeedInv, Shapes, Rows
<1>4. \/ /\ kind = "loops" /\ tail' = [at |-> "live", rest |-> <<>>]
      \/ /\ kind = "devices" /\ tail' = [at |-> "replaying", rest |-> <<current[Whole]>>]
         /\ current[Whole] \in Entry /\ current[Whole] # None
  BY <1>1, <1>2, WholeIsKey DEF Opening, FeedInv, StreamRules
<1>5. tail' \in [at : {"closed", "replaying", "live"}, rest : Seq(Entry)] /\ tail'.at # "closed"
  <2> DEFINE c == current[Whole]
  <2>1. c \in Entry => <<c>> \in Seq(Entry)
    OBVIOUS
  <2>2. \/ tail' = [at |-> "live", rest |-> <<>>]
        \/ tail' = [at |-> "replaying", rest |-> <<c>>] /\ c \in Entry
    BY <1>4
  <2> HIDE DEF c
  <2>3. <<>> \in Seq(Entry)
    OBVIOUS
  <2> QED  BY <2>1, <2>2, <2>3
<1>6. Shapes'
  BY <1>3, <1>5 DEF FeedInv, Shapes
<1>7. PageRules'
  BY <1>5 DEF FeedInv, PageRules
<1>8. StreamRules' /\ SeenRules' /\ OrderRules'
  BY DEF FeedInv, StreamRules, SeenRules, Past, OrderRules, Ordered, Precedes, UpTo
<1>9. RestRules'
  <2>1. CASE tail'.rest = <<>>
    BY <2>1 DEF RestRules
  <2>2. CASE tail'.rest = <<current[Whole]>> /\ current[Whole] # None
    <3> DEFINE c == current[Whole]
    <3>1. /\ c.epoch = epoch /\ c.id < nextId /\ c.key = Whole /\ c.id \in Nat /\ c # None
      BY <1>2, <2>2, WholeIsKey
    <3>2. tail'.rest = <<c>> /\ current[c.key] = c
      BY <2>2, <3>1
    <3> HIDE DEF c
    <3>3. \A i \in 1 .. Len(tail'.rest) : i = 1 /\ tail'.rest[i] = c
      <4>1. Len(<<c>>) = 1 /\ <<c>>[1] = c
        OBVIOUS
      <4>2. \A i \in 1 .. 1 : i = 1
        OBVIOUS
      <4> QED  BY <3>2, <4>1, <4>2
    <3> QED  BY <1>1, <3>1, <3>2, <3>3 DEF RestRules
  <2> QED  BY <1>4, <2>1, <2>2
<1>10. TableRules'
  <2> SUFFICES ASSUME NEW k \in Key, current[k] # None
               PROVE  current[k] \in lost' \/ Ahead(k)' \/ InRow(k)'
    BY <1>1 DEF TableRules
  <2>1. CASE kind = "loops"
    <3>1. Beyond(current[k])
      <4>1. Reach = 0
        <5>1. TailOf(kind).opening = "nothing"
          BY <1>1, <2>1
        <5> QED  BY <5>1 DEF Reach
      <4> QED  BY <1>2, <4>1 DEF Beyond
    <3>2. Displayed(current[k]) <=> table[k] = current[k]
      BY <1>1, <1>2 DEF Displayed, Range
    <3>3. tail'.rest = <<>>
      BY <1>4, <2>1
    <3> QED  BY <1>2, <1>3, <3>1, <3>2, <3>3 DEF InRow
  <2>2. CASE kind = "devices"
    <3>1. k = Whole /\ tail'.rest = <<current[Whole]>>
      BY <1>2, <1>4, <2>2
    <3> QED  BY <3>1 DEF Ahead, Range
  <2> QED  BY <1>1, <2>1, <2>2
<1>11. ListRules'
  BY <1>1 DEF ListRules
<1> QED  BY <1>6, <1>7, <1>8, <1>9, <1>10, <1>11 DEF FeedInv


LEMMA InvTailOpens == FeedInv /\ TailOpens => FeedInv'
  BY InvHistoryOpens, InvBareOpens

-----------------------------------------------------------------------------
(* An entry is emitted.                                                    *)

LEMMA AppendIs ==
  ASSUME NEW s \in Seq(Entry), NEW e \in Entry, NEW t, t = Append(s, e)
  PROVE  /\ t \in Seq(Entry) /\ Len(t) = Len(s) + 1 /\ Len(s) \in Nat
         /\ \A i \in 1 .. Len(t) : (i = Len(s) + 1 /\ t[i] = e) \/ (i \in 1 .. Len(s) /\ t[i] = s[i])
         /\ e \in Range(t) /\ \A x \in Range(s) : x \in Range(t)
<1>1. /\ t \in Seq(Entry) /\ Len(t) = Len(s) + 1 /\ Len(s) \in Nat
      /\ DOMAIN s = 1 .. Len(s) /\ DOMAIN t = 1 .. Len(s) + 1
      /\ t[Len(s) + 1] = e /\ \A i \in 1 .. Len(s) : t[i] = s[i]
  OBVIOUS
<1>2. \A i \in 1 .. Len(s) : i \in 1 .. Len(s) + 1
  BY <1>1
<1>3. Len(s) + 1 \in 1 .. Len(s) + 1
  BY <1>1
<1>4. e \in Range(t)
  BY <1>1, <1>3 DEF Range
<1>5. \A x \in Range(s) : x \in Range(t)
  BY <1>1, <1>2 DEF Range
<1> QED  BY <1>1, <1>4, <1>5

(* The history after an entry: one longer, or the same length with its     *)
(* oldest entry gone.                                                      *)
LEMMA HistoryGrows ==
  ASSUME FeedInv, kind \notin Unkept, NEW e \in Entry, NEW b, b = Newest(Append(buffer, e), BufferSize)
  PROVE  \E d \in {0, 1} :
           /\ b \in Seq(Entry) /\ Len(b) + d = Len(buffer) + 1 /\ Len(b) \in Nat
           /\ Len(b) = IF nextId + 1 < BufferSize THEN nextId + 1 ELSE BufferSize
           /\ \A i \in 1 .. Len(b) : \/ i + d = Len(buffer) + 1 /\ b[i] = e
                                     \/ i + d \in 1 .. Len(buffer) /\ b[i] = buffer[i + d]
<1> DEFINE s == Append(buffer, e)
<1> DEFINE L == Len(buffer)
<1> DEFINE d == IF L + 1 > BufferSize THEN L + 1 - BufferSize ELSE 0
<1>1. /\ L \in Nat /\ nextId \in Nat /\ BufferSize \in Nat /\ buffer \in Seq(Entry)
      /\ L = IF nextId < BufferSize THEN nextId ELSE BufferSize
  BY HistoryPlaces, FeedAssumption DEF FeedInv, StreamRules
<1>2. /\ s \in Seq(Entry) /\ Len(s) = L + 1
      /\ \A i \in 1 .. L + 1 : (i = L + 1 /\ s[i] = e) \/ (i \in 1 .. L /\ s[i] = buffer[i])
  BY <1>1, AppendIs
<1> HIDE DEF s
<1>3. Suffix(b, s, d)
  <2>1. Suffix(Newest(s, BufferSize), s, IF Len(s) > BufferSize THEN Len(s) - BufferSize ELSE 0)
    BY <1>1, <1>2, NewestIsSuffix
  <2>2. b = Newest(s, BufferSize)
    BY DEF s
  <2>3. d = IF Len(s) > BufferSize THEN Len(s) - BufferSize ELSE 0
    BY <1>1, <1>2
  <2> QED  BY <2>1, <2>2, <2>3
<1>4. d \in {0, 1} /\ d <= L + 1
  BY <1>1
<1> HIDE DEF d, L
<1>5. b \in Seq(Entry) /\ Len(b) = L + 1 - d /\ \A i \in 1 .. Len(b) : b[i] = s[i + d]
  <2>1. b \in Seq(Entry) /\ Len(b) = Len(s) - d /\ \A i \in 1 .. Len(b) : b[i] = s[i + d]
    BY <1>3 DEF Suffix
  <2> QED  BY <1>1, <1>2, <1>4, <2>1
<1>6. \A i \in 1 .. L + 1 - d : i + d \in 1 .. L + 1
  BY <1>1, <1>4
<1>7. Len(b) + d = L + 1 /\ Len(b) \in Nat
  BY <1>1, <1>4, <1>5
<1>8. Len(b) = IF nextId + 1 < BufferSize THEN nextId + 1 ELSE BufferSize
  BY <1>1, <1>4, <1>5 DEF d
<1>9. \A i \in 1 .. Len(b) : \/ i + d = L + 1 /\ b[i] = e
                             \/ i + d \in 1 .. L /\ b[i] = buffer[i + d]
  BY <1>2, <1>5, <1>6
<1> QED  BY <1>4, <1>5, <1>7, <1>8, <1>9 DEF L

(* What the history has after an entry was emitted.                        *)
LEMMA InHistory ==
  ASSUME FeedInv, kind \notin Unkept, NEW e \in Entry,
         NEW b, b = Newest(Append(buffer, e), BufferSize), NEW x \in Range(b)
  PROVE  x = e \/ x \in Range(buffer)
<1>1. PICK d \in {0, 1} : \A i \in 1 .. Len(b) :
        \/ i + d = Len(buffer) + 1 /\ b[i] = e
        \/ i + d \in 1 .. Len(buffer) /\ b[i] = buffer[i + d]
  BY HistoryGrows
<1>2. b \in Seq(Entry) /\ buffer \in Seq(Entry)
  BY HistoryGrows, HistoryPlaces
<1>3. PICK i \in 1 .. Len(b) : x = b[i]
  BY <1>2 DEF Range
<1> QED  BY <1>1, <1>2, <1>3 DEF Range

LEMMA InvEmit == \A k \in Key : FeedInv /\ Emit(k) => FeedInv'
<1> SUFFICES ASSUME NEW k \in Key, FeedInv, Emit(k) PROVE FeedInv'
  OBVIOUS
<1> USE DEF Emit, clientVars
<1> DEFINE e == [epoch |-> epoch, id |-> nextId, key |-> k]
<1>1. /\ spent' \in [emits : Nat, drops : Nat, restarts : Nat] /\ spent.emits > 0
      /\ spent'.emits = spent.emits - 1 /\ spent'.restarts = spent.restarts
  BY SpendIs DEF FeedInv, Shapes
<1>2. /\ nextId \in Nat /\ nextId <= MaxEmits /\ nextId' = nextId + 1
      /\ nextId' \in 0 .. MaxEmits + 1 /\ nextId' + spent'.emits <= MaxEmits + 1
  <2>1. nextId \in Nat /\ spent.emits \in Nat /\ nextId + spent.emits <= MaxEmits + 1
    BY FeedAssumption DEF FeedInv, Shapes
  <2> QED  BY <1>1, <2>1, FeedAssumption
<1>3. e \in Entry /\ e # None /\ e.epoch = epoch /\ e.id = nextId /\ e.key = k
  BY <1>2, EntryIs, FeedAssumption DEF Entry, FeedInv, Shapes
<1>4. /\ current' = [current EXCEPT ![k] = e]
      /\ buffer' = IF Stream[kind].history THEN Newest(Append(buffer, e), BufferSize) ELSE buffer
      /\ k \in KeysOf(kind) /\ Tell(e) /\ kind \in Kinds
  BY DEF FeedInv, Shapes
<1> HIDE DEF e
<1>5. /\ current' \in Rows /\ current'[k] = e
      /\ \A key \in Key : key # k => current'[key] = current[key]
  BY <1>3, <1>4 DEF Rows, FeedInv, Shapes
<1>6. \A x \in Entry : current[x.key] # None =>
        /\ current[x.key] \in Entry /\ current[x.key].id < nextId /\ current[x.key].id \in Nat
        /\ x.id \in Nat /\ x.key \in Key
        /\ (x.id <= current[x.key].id => current'[x.key] # None /\ x.id <= current'[x.key].id)
  <2> SUFFICES ASSUME NEW x \in Entry, current[x.key] # None
               PROVE  /\ current[x.key] \in Entry /\ current[x.key].id < nextId
                           /\ current[x.key].id \in Nat
                      /\ x.id \in Nat /\ x.key \in Key
                      /\ (x.id <= current[x.key].id => current'[x.key] # None
                           /\ x.id <= current'[x.key].id)
    OBVIOUS
  <2>1. x.key \in Key /\ x.id \in Nat
    BY EntryIs
  <2>2. current[x.key] \in Entry /\ current[x.key].id < nextId /\ current[x.key].id \in Nat
    BY <2>1, EntryIs DEF FeedInv, StreamRules, Shapes, Rows
  <2> QED  BY <1>2, <1>3, <1>5, <2>1, <2>2
<1>7. \/ tail.at = "closed" /\ tail' = tail /\ lost' = lost
      \/ tail.at = "replaying" /\ tail' = tail /\ lost' = lost \union {e}
      \/ tail.at = "live" /\ tail' = [tail EXCEPT !.rest = Append(tail.rest, e)] /\ lost' = lost
  BY <1>4 DEF Tell, FeedInv, Shapes
<1>8. tail \in [at : {"closed", "replaying", "live"}, rest : Seq(Entry)]
  BY DEF FeedInv, Shapes
<1>9. /\ tail' \in [at : {"closed", "replaying", "live"}, rest : Seq(Entry)]
      /\ tail'.at = tail.at /\ (tail.at # "live" => tail' = tail)
      /\ tail.at = "live" => e \in Range(tail'.rest)
      /\ \A x \in Range(tail.rest) : x \in Range(tail'.rest)
      /\ Len(tail.rest) \in Nat
      /\ \A i \in 1 .. Len(tail'.rest) : \/ i \in 1 .. Len(tail.rest) /\ tail'.rest[i] = tail.rest[i]
                                         \/ i = Len(tail.rest) + 1 /\ tail'.rest[i] = e
  <2>1. CASE tail' = tail /\ tail.at # "live"
    BY <1>8, <2>1
  <2>2. CASE tail.at = "live" /\ tail' = [tail EXCEPT !.rest = Append(tail.rest, e)]
    <3> DEFINE t == Append(tail.rest, e)
    <3>1. /\ t \in Seq(Entry) /\ Len(tail.rest) \in Nat
          /\ \A i \in 1 .. Len(t) : \/ i = Len(tail.rest) + 1 /\ t[i] = e
                                    \/ i \in 1 .. Len(tail.rest) /\ t[i] = tail.rest[i]
          /\ e \in Range(t) /\ \A x \in Range(tail.rest) : x \in Range(t)
      <4>1. tail.rest \in Seq(Entry) /\ t = Append(tail.rest, e)
        BY <1>8
      <4> DEFINE r == tail.rest
      <4> HIDE DEF t, r
      <4>2. r \in Seq(Entry) /\ t = Append(r, e)
        BY <4>1 DEF r
      <4>3. /\ t \in Seq(Entry) /\ Len(t) = Len(r) + 1 /\ Len(r) \in Nat
            /\ \A i \in 1 .. Len(t) : (i = Len(r) + 1 /\ t[i] = e) \/ (i \in 1 .. Len(r) /\ t[i] = r[i])
            /\ e \in Range(t) /\ \A x \in Range(r) : x \in Range(t)
        BY ZenonT(40), <1>3, <4>2, AppendIs
      <4> QED  BY <4>3 DEF r
    <3> HIDE DEF t
    <3>2. tail' = [tail EXCEPT !.rest = t]
      BY <2>2 DEF t
    <3>3. tail'.rest = t /\ tail'.at = "live"
            /\ tail' \in [at : {"closed", "replaying", "live"}, rest : Seq(Entry)]
      BY <1>8, <2>2, <3>1, <3>2
    <3> QED  BY <2>2, <3>1, <3>3
  <2> QED  BY <1>7, <2>1, <2>2
<1>10. lost' \in SUBSET Entry /\ lost \subseteq lost' /\ (tail.at = "replaying" => e \in lost')
  BY <1>3, <1>7 DEF FeedInv, Shapes
<1>11. buffer' \in Seq(Entry) /\ StreamRules'
  <2>1. ASSUME NEW key \in Key, current'[key] # None
        PROVE  /\ current'[key] \in Entry /\ current'[key].epoch = epoch /\ current'[key].key = key
               /\ current'[key].id < nextId' /\ key \in KeysOf(kind)
    <3>1. CASE key = k
      BY <1>2, <1>3, <1>4, <1>5, <3>1
    <3>2. CASE key # k
      <4>1. current'[key] = current[key]
        BY <1>5, <3>2
      <4>2. current[key] \in Entry /\ current[key].id < nextId /\ current[key].id \in Nat
        BY <2>1, <4>1, EntryIs DEF FeedInv, StreamRules, Shapes, Rows
      <4> QED  BY <1>2, <2>1, <4>1, <4>2 DEF FeedInv, StreamRules
    <3> QED  BY <3>1, <3>2
  <2>2. kind = "devices" => current'[Whole] # None
    BY <1>3, <1>5, WholeIsKey DEF FeedInv, StreamRules
  <2>3. CASE kind \in Unkept
    <3>1. buffer' = buffer /\ Len(buffer) = 0 /\ kind' = kind
      BY <1>4, <2>3, Traits DEF FeedInv, StreamRules
    <3>2. buffer' \in Seq(Entry)
      BY <3>1 DEF FeedInv, Shapes
    <3>3. epoch' = epoch /\ Len(buffer') = 0
      BY <3>1
    <3> QED  BY <2>1, <2>2, <2>3, <3>1, <3>2, <3>3 DEF StreamRules
  <2>4. CASE kind \notin Unkept
    <3>1. buffer' = Newest(Append(buffer, e), BufferSize) /\ kind' = kind /\ epoch' = epoch
      BY <1>4, <2>4, Traits
    <3>2. PICK d \in {0, 1} :
            /\ buffer' \in Seq(Entry) /\ Len(buffer') + d = Len(buffer) + 1 /\ Len(buffer') \in Nat
            /\ Len(buffer') = IF nextId + 1 < BufferSize THEN nextId + 1 ELSE BufferSize
            /\ \A i \in 1 .. Len(buffer') :
                 \/ i + d = Len(buffer) + 1 /\ buffer'[i] = e
                 \/ i + d \in 1 .. Len(buffer) /\ buffer'[i] = buffer[i + d]
      BY <1>3, <2>4, <3>1, HistoryGrows
    <3> DEFINE L == Len(buffer)
    <3> DEFINE M == Len(buffer')
    <3>3. L \in Nat /\ M \in Nat /\ M + d = L + 1
      BY <3>2, HistoryPlaces
    <3> HIDE DEF L, M
    <3>4. ASSUME NEW i \in 1 .. M
          PROVE  /\ buffer'[i].epoch = epoch /\ buffer'[i].id + M + 1 = nextId' + i
                 /\ current'[buffer'[i].key] # None /\ buffer'[i].id <= current'[buffer'[i].key].id
      <4>1. CASE i + d = L + 1 /\ buffer'[i] = e
        <5>1. i = M
          BY <3>3, <4>1
        <5>2. nextId + M + 1 = nextId' + M
          BY <1>2, <3>3
        <5> QED  BY <1>2, <1>3, <1>5, <4>1, <5>1, <5>2
      <4>2. CASE i + d \in 1 .. L /\ buffer'[i] = buffer[i + d]
        <5> DEFINE x == buffer[i + d]
        <5>1. x \in Entry /\ x.id \in Nat /\ x.id + L + 1 = nextId + (i + d) /\ x.epoch = epoch
          BY <4>2, HistoryPlaces DEF L
        <5>2. current[x.key] # None /\ x.id <= current[x.key].id
          BY <4>2 DEF FeedInv, StreamRules, L
        <5> DEFINE n == x.id
        <5>3. n \in Nat /\ n + L + 1 = nextId + (i + d)
          BY <5>1
        <5> HIDE DEF x, n
        <5>4. n + M + 1 = nextId' + i
          BY <1>2, <3>3, <5>3
        <5> QED  BY <1>6, <4>2, <5>1, <5>2, <5>4 DEF x, n
      <4> QED  BY <3>2, <4>1, <4>2 DEF L, M
    <3>5. ASSUME NEW key \in Key, current'[key] # None, nextId' <= current'[key].id + M
          PROVE  current'[key] \in Range(buffer')
      <4> DEFINE c == current'[key]
      <4>1. DOMAIN buffer' = 1 .. M
        BY <3>2 DEF M
      <4>2. CASE key = k
        <5>1. M > 0
          BY <1>2, <1>3, <1>5, <3>3, <3>5, <4>2
        <5>2. M \in 1 .. M
          BY <3>3, <5>1
        <5>3. buffer'[M] = e
          <6>1. ~ (M + d \in 1 .. L)
            BY <3>3
          <6> QED  BY <3>2, <5>2, <6>1 DEF L, M
        <5> QED  BY <1>5, <4>1, <4>2, <5>2, <5>3 DEF Range
      <4>3. CASE key # k
        <5>1. c = current[key] /\ c \in Entry /\ c.id \in Nat
          BY <1>5, <2>1, <3>5, <4>3, EntryIs
        <5> DEFINE n == c.id
        <5>2. n \in Nat /\ nextId + 1 <= n + M
          BY <1>2, <3>5, <5>1
        <5> HIDE DEF n
        <5>3. nextId <= n + L
          BY <1>2, <3>3, <5>2
        <5>4. PICK j \in 1 .. L : c = buffer[j]
          BY <2>4, <3>5, <5>1, <5>3, LatestInHistory DEF L, n
        <5>5. n + L + 1 = nextId + j
          BY <5>4, HistoryPlaces DEF L, n
        <5>6. j - d \in 1 .. M /\ (j - d) + d = j /\ j # L + 1
          BY <1>2, <3>3, <5>2, <5>5
        <5>7. buffer'[j - d] = c
          BY <3>2, <5>4, <5>6 DEF L, M
        <5> QED  BY <4>1, <5>6, <5>7 DEF Range
      <4> QED  BY <4>2, <4>3
    <3> QED  BY <2>1, <2>2, <2>4, <3>1, <3>2, <3>4, <3>5, <1>2 DEF StreamRules, M
  <2> QED  BY <2>3, <2>4
<1>12. Shapes'
  BY <1>1, <1>2, <1>5, <1>9, <1>10, <1>11 DEF FeedInv, Shapes
<1>13. PageRules'
  BY <1>9 DEF FeedInv, PageRules, Closed
<1>14. RestRules'
  <2>1. ASSUME NEW i \in 1 .. Len(tail.rest)
        PROVE  /\ tail.rest[i] \in Entry /\ tail.rest[i].epoch = epoch /\ tail.rest[i].id \in Nat
               /\ tail.rest[i].id < nextId /\ current'[tail.rest[i].key] # None
               /\ tail.rest[i].id <= current'[tail.rest[i].key].id
    <3>1. tail.rest[i] \in Entry
      BY <1>8
    <3> QED  BY <1>6, <3>1, EntryIs DEF FeedInv, RestRules
  <2>2. seen # None /\ seen.epoch = epoch => seen.id < nextId
    BY DEF FeedInv, SeenRules, Past
  <2>3. ASSUME NEW i \in 1 .. Len(tail'.rest)
        PROVE  /\ tail'.rest[i].epoch = epoch /\ tail'.rest[i].id < nextId'
               /\ current'[tail'.rest[i].key] # None
               /\ tail'.rest[i].id <= current'[tail'.rest[i].key].id
               /\ seen # None /\ seen.epoch = epoch => seen.id < tail'.rest[i].id
    <3>1. CASE i \in 1 .. Len(tail.rest) /\ tail'.rest[i] = tail.rest[i]
      BY <1>2, <2>1, <3>1 DEF FeedInv, RestRules
    <3>2. CASE tail'.rest[i] = e
      BY <1>2, <1>3, <1>5, <2>2, <3>2
    <3> QED  BY <1>9, <3>1, <3>2
  <2>4. ASSUME NEW i \in 1 .. Len(tail'.rest), NEW j \in 1 .. Len(tail'.rest), i < j
        PROVE  tail'.rest[i].id < tail'.rest[j].id
    <3>1. i \in 1 .. Len(tail.rest) /\ tail'.rest[i] = tail.rest[i]
      BY <1>9, <2>4
    <3>2. CASE j \in 1 .. Len(tail.rest) /\ tail'.rest[j] = tail.rest[j]
      BY <2>4, <3>1, <3>2 DEF FeedInv, RestRules
    <3>3. CASE tail'.rest[j] = e
      BY <1>3, <2>1, <3>1, <3>3
    <3> QED  BY <1>9, <3>2, <3>3
  <2> QED  BY <2>3, <2>4 DEF RestRules
<1>15. SeenRules'
  <2>1. \A x \in Entry \union {None} : Past(x) => Past(x)'
    BY <1>2, EntryIs DEF Past
  <2> QED  BY <2>1 DEF FeedInv, SeenRules, Shapes, Answers
<1>16. OrderRules'
  BY DEF FeedInv, OrderRules, Ordered, Precedes, UpTo
<1>17. seen # None /\ seen.epoch = epoch => ~ (e.id <= seen.id)
  <2>1. seen # None => seen.id \in Nat
    BY EntryIs DEF FeedInv, Shapes
  <2> QED  BY <1>2, <1>3, <2>1 DEF FeedInv, SeenRules, Past
<1>18. TableRules'
  <2> SUFFICES ASSUME kind \notin Listed, NEW key \in Key, current'[key] # None
               PROVE  /\ tail'.at # "closed" => current'[key] \in lost' \/ Ahead(key)' \/ InRow(key)'
                      /\ seen # None /\ seen.epoch = epoch /\ current'[key].id <= seen.id =>
                           table[key] = current'[key] \/ current'[key] \in lost'
    BY DEF TableRules
  <2>1. CASE key = k
    <3>1. tail'.at # "closed" => e \in lost' \/ e \in Range(tail'.rest)
      BY <1>8, <1>9, <1>10
    <3> QED  BY <1>5, <1>17, <2>1, <3>1 DEF Ahead
  <2>2. CASE key # k
    <3>1. current'[key] = current[key]
      BY <1>5, <2>2
    <3>2. Ahead(key) => Ahead(key)'
      BY <1>9, <3>1 DEF Ahead
    <3>3. InRow(key) => InRow(key)'
      BY <1>3, <1>9, <2>2, <3>1 DEF InRow
    <3> QED  BY <1>9, <1>10, <3>1, <3>2, <3>3 DEF FeedInv, TableRules
  <2> QED  BY <2>1, <2>2
<1>19. ListRules'
  <2> SUFFICES ASSUME kind \in Listed, NEW x \in Range(buffer')
               PROVE  /\ tail'.at # "closed" => Handled(x)' \/ x \in Range(tail'.rest)
                      /\ seen # None /\ seen.epoch = epoch /\ x.id <= seen.id => Handled(x)'
    BY DEF ListRules
  <2>1. Handled(x) => Handled(x)'
    BY <1>10 DEF Handled, Newer
  <2>2. x = e \/ x \in Range(buffer)
    <3>1. kind \notin Unkept
      BY DEF Listed, Unkept
    <3>2. buffer' = Newest(Append(buffer, e), BufferSize)
      BY <1>4, <3>1, Traits
    <3> QED  BY <1>3, <3>1, <3>2, InHistory
  <2>3. CASE x = e
    BY <1>8, <1>9, <1>10, <1>17, <2>3 DEF Handled
  <2>4. CASE x \in Range(buffer)
    BY <1>9, <2>1, <2>4 DEF FeedInv, ListRules
  <2> QED  BY <2>2, <2>3, <2>4
<1> QED  BY <1>11, <1>12, <1>13, <1>14, <1>15, <1>16, <1>18, <1>19 DEF FeedInv


-----------------------------------------------------------------------------
(* Every step keeps the invariant.                                         *)
LEMMA InvStep == FeedInv /\ [Next]_vars => FeedInv'
<1> SUFFICES ASSUME FeedInv, [Next]_vars PROVE FeedInv'
  OBVIOUS
<1>1. ASSUME NEW k \in Key, Emit(k) PROVE FeedInv'
  BY <1>1, InvEmit
<1>2. CASE UNCHANGED vars
  <2> USE <1>2 DEF vars, streamVars, clientVars
  <2>1. Shapes' /\ PageRules'
    BY DEF FeedInv, Shapes, PageRules
  <2>2. StreamRules' /\ RestRules' /\ SeenRules'
    BY DEF FeedInv, StreamRules, RestRules, SeenRules, Past
  <2>3. OrderRules'
    BY DEF FeedInv, OrderRules, Ordered, Precedes, UpTo
  <2>4. TableRules'
    BY DEF FeedInv, TableRules, Ahead, InRow
  <2>5. ListRules'
    BY DEF FeedInv, ListRules, Handled, Newer
  <2> QED  BY <2>1, <2>2, <2>3, <2>4, <2>5 DEF FeedInv
<1> QED  BY <1>1, <1>2, InvRepublish, InvTailOpens, InvTailSubscribes, InvHandOver, InvQueryAnswered,
     InvAnswerArrives, InvQueryFails, InvFlush, InvUnmount, InvDrop, InvRestart DEF Next

LEMMA FeedInvariant == Spec => []FeedInv
  BY InvInit, InvStep, PTL DEF Spec

LEMMA InvTypes == FeedInv => TypeOK
<1> SUFFICES ASSUME FeedInv PROVE TypeOK
  OBVIOUS
<1>1. /\ buffer \in Seq(Entry) /\ lines \in Seq(Entry) /\ pending \in Seq(Entry)
      /\ tail \in [at : {"closed", "replaying", "live"}, rest : Seq(Entry)]
  BY DEF FeedInv, Shapes
<1>2. \A s \in Seq(Entry) : Range(s) \subseteq Entry
  BY DEF Range
<1>3. Len(buffer) <= BufferSize
  BY HistoryPlaces, FeedAssumption DEF FeedInv, StreamRules
<1>4. page # "subscribed" => tail.at = "closed"
  BY DEF FeedInv, PageRules, Closed
<1> QED  BY <1>1, <1>2, <1>3, <1>4 DEF TypeOK, FeedInv, Shapes, PageRules, Rows

(* The tail has nothing left, so that what is current or in the history is *)
(* shown, or was out of reach.                                             *)
LEMMA InvSettles == FeedInv => SettledIsCurrent
<1> SUFFICES ASSUME FeedInv, Settled PROVE
        IF Page[kind].keeps = "table"
          THEN \A k \in Key : current[k] \in {None, table[k]} \union lost
          ELSE \A e \in Range(buffer) :
                 \/ Displayed(e) \/ e \in lost
                 \/ kind = "logs" /\ \E f \in Range(lines \o pending) : f.epoch = epoch /\ f.id > e.id
  BY DEF SettledIsCurrent
<1>1. tail.at = "live" /\ tail.rest = <<>> /\ Range(tail.rest) = {}
  BY DEF Settled, Range
<1>2. kind \in Kinds /\ lines \in Seq(Entry) /\ pending \in Seq(Entry)
  BY DEF FeedInv, Shapes
<1>3. (Page[kind].keeps = "table") <=> kind \notin Listed
  BY <1>2, Traits DEF Listed
<1>4. ASSUME kind \notin Listed, NEW k \in Key
      PROVE  current[k] \in {None, table[k]} \union lost
  BY <1>1, <1>4 DEF FeedInv, TableRules, Ahead, InRow
<1>5. ASSUME kind \in Listed, NEW e \in Range(buffer)
      PROVE  \/ Displayed(e) \/ e \in lost
             \/ kind = "logs" /\ \E f \in Range(lines \o pending) : f.epoch = epoch /\ f.id > e.id
  <2>1. Handled(e)
    BY <1>1, <1>5 DEF FeedInv, ListRules
  <2>2. Range(lines \o pending) = Range(lines) \union Range(pending)
    BY <1>2, RangeJoined
  <2>3. \A s \in Seq(Entry) : Newer(e, s) => \E f \in Range(s) : f.epoch = epoch /\ f.id > e.id
    BY DEF Newer, Range
  <2> QED  BY <1>2, <2>1, <2>2, <2>3 DEF Handled, Displayed
<1> QED  BY <1>3, <1>4, <1>5

(* What the client holds is in the order of its entries.                   *)
LEMMA InvOnce == FeedInv => HandedOverOnce
<1> SUFFICES ASSUME FeedInv, NEW i \in 2 .. Len(lines \o pending)
             PROVE  LET all == lines \o pending IN
                    \/ all[i].epoch > all[i - 1].epoch
                    \/ all[i].epoch = all[i - 1].epoch /\ all[i].id > all[i - 1].id
  BY DEF HandedOverOnce
<1> DEFINE all == lines \o pending
<1>1. lines \in Seq(Entry) /\ pending \in Seq(Entry)
  BY DEF FeedInv, Shapes
<1>2. all \in Seq(Entry) /\ Len(all) \in Nat
  BY <1>1
<1>3. Ordered(all)
  BY <1>1, JoinOrdered DEF FeedInv, OrderRules
<1> HIDE DEF all
<1>4. i \in 1 .. Len(all) /\ i - 1 \in 1 .. Len(all) /\ i - 1 < i
  BY <1>2 DEF all
<1>5. Before(all[i - 1], all[i])
  BY <1>3, <1>4 DEF Ordered
<1>6. all[i] \in Entry /\ all[i - 1] \in Entry
  BY <1>2, <1>4
<1> QED  BY <1>5, <1>6, EntryIs DEF Before, all

(* Every variable of a feed keeps its shape, the history its size and the  *)
(* log its limit (eventStream, LogFeed).                                   *)
THEOREM FeedTypeCorrect == Spec => []TypeOK
  BY FeedInvariant, InvTypes, PTL

(* A page that has been handed all there is shows the latest of every key, *)
(* or every event, but for what no tail could reach, whatever the limits   *)
(* and however the socket, the service and the queue got in the way.       *)
THEOREM SettledIsAlwaysCurrent == Spec => []SettledIsCurrent
  BY FeedInvariant, InvSettles, PTL

(* Nothing is handed over twice, and nothing older follows what is newer,  *)
(* across reconnections, restarts and cuts (tracked, resume).              *)
THEOREM AlwaysHandedOverOnce == Spec => []HandedOverOnce
  BY FeedInvariant, InvOnce, PTL

-----------------------------------------------------------------------------
(* The phone that is provisioned (Provisioning), and the two scenes.       *)
StatusShape ==
  [installed : BOOLEAN, permissionGranted : BOOLEAN, wifiDebuggingEnabled : BOOLEAN,
   usbDebuggingEnabled : BOOLEAN, dozeExempt : BOOLEAN, serviceRunning : BOOLEAN, versionCode : Nat]

(* What a run may still have to do: a plan, or the end of one.             *)
StepLists ==
  { <<"ExemptDoze">>, <<"LaunchOnce">>, <<"ExemptDoze", "LaunchOnce">>, <<"Grant", "LaunchOnce">>,
    <<"Grant", "ExemptDoze", "LaunchOnce">>, <<"Install", "LaunchOnce">>,
    <<"Install", "Grant", "LaunchOnce">>, <<"Install", "ExemptDoze", "LaunchOnce">>,
    <<"Install", "Grant", "ExemptDoze", "LaunchOnce">> }

ActorShape ==
  [at : {"idle", "read", "answer", "settle"} \union Steps, pass : 0 .. MaxPasses,
   steps : StepLists \union {<<>>}, copy : StatusShape \union {Unknown}]

USE DEF Steps

(* The shapes; a run has a pass left for what its steps will show, and the *)
(* reader applies none.                                                    *)
PhoneShapes ==
  /\ phone \in PhoneShape /\ actors \in [Actors -> ActorShape]
  /\ facts.checks \subseteq Checks /\ activity \in {"none", "provisioning", "provisioned", "failed"}
  /\ left \in Nat /\ disturbed \in BOOLEAN
  /\ \A a \in Actors :
       /\ actors[a].at = "answer" => actors[a].copy \in StatusShape
       /\ actors[a].at \in Steps => actors[a].steps \in StepLists /\ actors[a].pass < MaxPasses
       /\ actors[a].at \in {"uninstall", "reinstall"} => actors[a].steps[1] = "Install"
  /\ actors[Reader].at \in {"idle", "read", "answer"}

(* Up to date, so that no step uninstalls it; and what is true of a phone  *)
(* whose agent has the permission, was started, and will see to the rest.  *)
UpToDate == phone.installed /\ phone.version \notin 1 .. (Expected - 1)
Passes == IsHealthy(AgentStatus(phone))
SelfHealing ==
  /\ phone.granted /\ phone.exempt /\ phone.service
  /\ phone.due \/ (phone.wifi /\ phone.usb)

(* The answer a run has of the phone is true of it, or the agent has made  *)
(* it better since.                                                        *)
AnswerHolds(got) ==
  /\ got.installed <=> phone.installed
  /\ got.versionCode = AgentStatus(phone).versionCode
  /\ got.permissionGranted <=> phone.granted
  /\ got.dozeExempt <=> phone.exempt
  /\ got.wifiDebuggingEnabled => phone.wifi
  /\ got.usbDebuggingEnabled => phone.usb
  /\ got.serviceRunning => phone.service

(* What is done, or is still to be done.                                   *)
StepsSuffice(s) ==
  /\ "Grant" \in Range(s) \/ phone.granted
  /\ "ExemptDoze" \in Range(s) \/ phone.exempt
LeavesRest(s) ==
  "LaunchOnce" \in Range(s) \/ (phone.granted /\ phone.service /\ phone.wifi /\ phone.usb)

(* How far an undisturbed run has brought the phone, pass by pass: the     *)
(* first leaves it up to date, the second does all that is missing.        *)
RunProgress(a) ==
  /\ a.pass \in 1 .. 3
  /\ a.at = "answer" => AnswerHolds(a.copy)
  /\ a.at = "uninstall" => phone.installed
  /\ a.pass = 1 => /\ a.at # "settle"
                   /\ a.at \in Steps => "Install" \in Range(a.steps) \/ UpToDate
  /\ a.pass = 2 => /\ UpToDate
                   /\ a.at \in Steps => /\ "Install" \notin Range(a.steps)
                                         /\ StepsSuffice(a.steps) /\ LeavesRest(a.steps)
  /\ a.pass = 3 => /\ UpToDate /\ a.at \notin Steps
                   /\ a.at = "settle" => SelfHealing
                   /\ a.at = "read" => Passes
                   /\ a.at = "answer" => Passes /\ IsHealthy(a.copy)

Undisturbed ==
  ~ disturbed =>
    /\ phone.network /\ activity # "failed"
    /\ \A r \in Runs : actors[r].at # "idle" => RunProgress(actors[r])
    /\ \A r, q \in Runs : r # q => actors[r].at = "idle" \/ actors[q].at = "idle"

PhoneInv == PhoneShapes /\ Undisturbed

-----------------------------------------------------------------------------
(* The lists of steps.                                                     *)

LEMMA ListFacts ==
  ASSUME NEW s \in StepLists
  PROVE  /\ s # <<>> /\ s[1] \in {"Install", "Grant", "ExemptDoze", "LaunchOnce"}
         /\ Tail(s) \in StepLists \union {<<>>} /\ Range(s) = {s[1]} \union Range(Tail(s))
         /\ "Install" \notin Range(Tail(s))
         /\ Tail(s) = <<>> <=> s \in {<<"LaunchOnce">>, <<"ExemptDoze">>}
         /\ s[1] = "LaunchOnce" => s = <<"LaunchOnce">>
         /\ "LaunchOnce" \notin Range(s) => s = <<"ExemptDoze">>
<1> DEFINE Fine(t, x, u) ==
      /\ t # <<>> /\ t[1] = x /\ Tail(t) = u /\ Range(t) = {x} \union Range(u)
<1>1. ASSUME NEW x PROVE Fine(<<x>>, x, <<>>) /\ Range(<<x>>) = {x}
  BY DEF Range
<1>2. ASSUME NEW x, NEW y PROVE Fine(<<x, y>>, x, <<y>>) /\ Range(<<x, y>>) = {x, y}
  BY DEF Range
<1>3. ASSUME NEW x, NEW y, NEW z
      PROVE  Fine(<<x, y, z>>, x, <<y, z>>) /\ Range(<<x, y, z>>) = {x, y, z}
  BY DEF Range
<1>4. ASSUME NEW x, NEW y, NEW z, NEW w
      PROVE  Fine(<<x, y, z, w>>, x, <<y, z, w>>) /\ Range(<<x, y, z, w>>) = {x, y, z, w}
  BY DEF Range
<1>5. Range(<<>>) = {}
  BY DEF Range
<1> HIDE DEF Fine
<1>6. CASE s = <<"ExemptDoze">>
  BY <1>1, <1>5, <1>6 DEF StepLists, Fine
<1>7. CASE s = <<"LaunchOnce">>
  BY <1>1, <1>5, <1>7 DEF StepLists, Fine
<1>8. CASE s = <<"ExemptDoze", "LaunchOnce">>
  BY <1>2, <1>1, <1>8 DEF StepLists, Fine
<1>9. CASE s = <<"Grant", "LaunchOnce">>
  BY <1>2, <1>1, <1>9 DEF StepLists, Fine
<1>10. CASE s = <<"Grant", "ExemptDoze", "LaunchOnce">>
  BY <1>3, <1>2, <1>10 DEF StepLists, Fine
<1>11. CASE s = <<"Install", "LaunchOnce">>
  BY <1>2, <1>1, <1>11 DEF StepLists, Fine
<1>12. CASE s = <<"Install", "Grant", "LaunchOnce">>
  <2>1. /\ s[1] = "Install" /\ Tail(s) = <<"Grant", "LaunchOnce">>
        /\ Range(s) = {"Install", "Grant", "LaunchOnce"} /\ Range(Tail(s)) = {"Grant", "LaunchOnce"}
    <3>1. Fine(<<"Install", "Grant", "LaunchOnce">>, "Install", <<"Grant", "LaunchOnce">>)
            /\ Range(<<"Install", "Grant", "LaunchOnce">>) = {"Install", "Grant", "LaunchOnce"}
      BY <1>3
    <3>2. Range(<<"Grant", "LaunchOnce">>) = {"Grant", "LaunchOnce"}
      BY <1>2
    <3> QED  BY <1>12, <3>1, <3>2 DEF Fine
  <2>2. s # <<>> /\ Tail(s) # <<>> /\ s \notin {<<"LaunchOnce">>, <<"ExemptDoze">>}
    BY <1>12
  <2>3. Tail(s) \in StepLists
    BY <2>1 DEF StepLists
  <2> QED  BY <2>1, <2>2, <2>3
<1>13. CASE s = <<"Install", "ExemptDoze", "LaunchOnce">>
  <2>1. /\ s[1] = "Install" /\ Tail(s) = <<"ExemptDoze", "LaunchOnce">>
        /\ Range(s) = {"Install", "ExemptDoze", "LaunchOnce"}
             /\ Range(Tail(s)) = {"ExemptDoze", "LaunchOnce"}
    <3>1. Fine(<<"Install", "ExemptDoze", "LaunchOnce">>, "Install", <<"ExemptDoze",
            "LaunchOnce">>) /\ Range(<<"Install", "ExemptDoze", "LaunchOnce">>) = {"Install",
              "ExemptDoze", "LaunchOnce"}
      BY <1>3
    <3>2. Range(<<"ExemptDoze", "LaunchOnce">>) = {"ExemptDoze", "LaunchOnce"}
      BY <1>2
    <3> QED  BY <1>13, <3>1, <3>2 DEF Fine
  <2>2. s # <<>> /\ Tail(s) # <<>> /\ s \notin {<<"LaunchOnce">>, <<"ExemptDoze">>}
    BY <1>13
  <2>3. Tail(s) \in StepLists
    BY <2>1 DEF StepLists
  <2> QED  BY <2>1, <2>2, <2>3
<1>14. CASE s = <<"Install", "Grant", "ExemptDoze", "LaunchOnce">>
  <2>1. /\ s[1] = "Install" /\ Tail(s) = <<"Grant", "ExemptDoze", "LaunchOnce">>
        /\ Range(s) = {"Install", "Grant", "ExemptDoze", "LaunchOnce"}
             /\ Range(Tail(s)) = {"Grant", "ExemptDoze", "LaunchOnce"}
    <3>1. Fine(<<"Install", "Grant", "ExemptDoze", "LaunchOnce">>, "Install", <<"Grant",
            "ExemptDoze", "LaunchOnce">>)
              /\ Range(<<"Install", "Grant", "ExemptDoze", "LaunchOnce">>) = {"Install",
                   "Grant", "ExemptDoze", "LaunchOnce"}
      BY <1>4
    <3>2. Range(<<"Grant", "ExemptDoze", "LaunchOnce">>) = {"Grant", "ExemptDoze", "LaunchOnce"}
      BY <1>3
    <3> QED  BY <1>14, <3>1, <3>2 DEF Fine
  <2>2. s # <<>> /\ Tail(s) # <<>> /\ s \notin {<<"LaunchOnce">>, <<"ExemptDoze">>}
    BY <1>14
  <2>3. Tail(s) \in StepLists
    BY <2>1 DEF StepLists
  <2> QED  BY <2>1, <2>2, <2>3
<1> QED  BY <1>6, <1>7, <1>8, <1>9, <1>10, <1>11, <1>12, <1>13, <1>14 DEF StepLists

LEMMA Joins ==
  ASSUME NEW S
  PROVE  /\ \A x, y \in S : <<x>> \o <<y>> = <<x, y>>
         /\ \A x, y, z \in S : <<x, y>> \o <<z>> = <<x, y, z>>
         /\ \A x, y, z, w \in S : <<x, y, z>> \o <<w>> = <<x, y, z, w>>
         /\ \A s \in Seq(S) : s \o <<>> = s /\ <<>> \o s = s
<1>1. ASSUME NEW x \in S, NEW y \in S PROVE <<x>> \o <<y>> = <<x, y>>
  <2> DEFINE c == <<x>> \o <<y>>
  <2> DEFINE d == <<x, y>>
  <2>1. <<x>> \in Seq(S) /\ Len(<<x>>) = 1 /\ <<y>> \in Seq(S) /\ Len(<<y>>) = 1
    OBVIOUS
  <2>2. c \in Seq(S) /\ Len(c) = 2 /\ c[1] = x /\ c[2] = y
    BY <2>1
  <2>3. d \in Seq(S) /\ Len(d) = 2 /\ d[1] = x /\ d[2] = y
    OBVIOUS
  <2>4. \A j \in 1 .. 2 : j = 1 \/ j = 2
    OBVIOUS
  <2> HIDE DEF c, d
  <2>5. c = d
    BY <2>2, <2>3, <2>4, SeqEqual
  <2> QED  BY <2>5 DEF c, d
<1>2. ASSUME NEW x \in S, NEW y \in S, NEW z \in S PROVE <<x, y>> \o <<z>> = <<x, y, z>>
  <2> DEFINE c == <<x, y>> \o <<z>>
  <2> DEFINE d == <<x, y, z>>
  <2>1. <<x, y>> \in Seq(S) /\ Len(<<x, y>>) = 2 /\ <<z>> \in Seq(S) /\ Len(<<z>>) = 1
    OBVIOUS
  <2>2. c \in Seq(S) /\ Len(c) = 3 /\ c[1] = x /\ c[2] = y /\ c[3] = z
    BY <2>1
  <2>3. d \in Seq(S) /\ Len(d) = 3 /\ d[1] = x /\ d[2] = y /\ d[3] = z
    OBVIOUS
  <2>4. \A j \in 1 .. 3 : j = 1 \/ j = 2 \/ j = 3
    OBVIOUS
  <2> HIDE DEF c, d
  <2>5. c = d
    BY <2>2, <2>3, <2>4, SeqEqual
  <2> QED  BY <2>5 DEF c, d
<1>3. ASSUME NEW x \in S, NEW y \in S, NEW z \in S, NEW w \in S
               PROVE <<x, y, z>> \o <<w>> = <<x, y, z, w>>
  <2> DEFINE c == <<x, y, z>> \o <<w>>
  <2> DEFINE d == <<x, y, z, w>>
  <2>1. <<x, y, z>> \in Seq(S) /\ Len(<<x, y, z>>) = 3 /\ <<w>> \in Seq(S) /\ Len(<<w>>) = 1
    OBVIOUS
  <2>2. c \in Seq(S) /\ Len(c) = 4 /\ c[1] = x /\ c[2] = y /\ c[3] = z /\ c[4] = w
    BY <2>1
  <2>3. d \in Seq(S) /\ Len(d) = 4 /\ d[1] = x /\ d[2] = y /\ d[3] = z /\ d[4] = w
    OBVIOUS
  <2>4. \A j \in 1 .. 4 : j = 1 \/ j = 2 \/ j = 3 \/ j = 4
    OBVIOUS
  <2> HIDE DEF c, d
  <2>5. c = d
    BY <2>2, <2>3, <2>4, SeqEqual
  <2> QED  BY <2>5 DEF c, d
<1>4. \A s \in Seq(S) : s \o <<>> = s /\ <<>> \o s = s
  OBVIOUS
<1> QED  BY <1>1, <1>2, <1>3, <1>4

LEMMA PlanFacts ==
  ASSUME NEW got \in StatusShape, ~ IsHealthy(got)
  PROVE  /\ Plan(got) \in StepLists
         /\ "Install" \in Range(Plan(got)) <=> ~ got.installed \/ NeedsUpgrade(got)
         /\ "Grant" \in Range(Plan(got)) \/ got.permissionGranted
         /\ "ExemptDoze" \in Range(Plan(got)) \/ got.dozeExempt
         /\ \/ "LaunchOnce" \in Range(Plan(got))
            \/ /\ got.permissionGranted /\ got.wifiDebuggingEnabled
               /\ got.usbDebuggingEnabled /\ got.serviceRunning
<1> DEFINE i == IF NeedsUpgrade(got) THEN <<"Install">> ELSE <<>>
<1> DEFINE g == IF ~ got.permissionGranted THEN <<"Grant">> ELSE <<>>
<1> DEFINE e == IF ~ got.dozeExempt THEN <<"ExemptDoze">> ELSE <<>>
<1> DEFINE l == IF NeedsUpgrade(got) \/ \E c \in Checks \ {"installed", "dozeExempt"} : ~ got[c]
                  THEN <<"LaunchOnce">> ELSE <<>>
<1> DEFINE S == {"Install", "Grant", "ExemptDoze", "LaunchOnce"}
<1>0. /\ "Install" \in S /\ "Grant" \in S /\ "ExemptDoze" \in S /\ "LaunchOnce" \in S
      /\ <<>> \in Seq(S) /\ \A x \in S : <<x>> \in Seq(S)
      /\ \A x, y \in S : <<x, y>> \in Seq(S)
      /\ \A x, y, z \in S : <<x, y, z>> \in Seq(S)
  OBVIOUS
<1> HIDE DEF S
<1>1. Plan(got) = IF ~ got.installed THEN <<"Install", "Grant", "ExemptDoze", "LaunchOnce">>
                  ELSE i \o g \o e \o l
  BY DEF Plan
<1>2. (\E c \in Checks \ {"installed", "dozeExempt"} : ~ got[c])
      <=> ~ (/\ got.permissionGranted /\ got.wifiDebuggingEnabled
             /\ got.usbDebuggingEnabled /\ got.serviceRunning)
  BY DEF Checks
<1>3. IsHealthy(got) <=> /\ got.installed /\ got.permissionGranted /\ got.wifiDebuggingEnabled
                         /\ got.usbDebuggingEnabled /\ got.dozeExempt /\ got.serviceRunning
  BY DEF IsHealthy, Checks
<1>4. /\ Range(<<"ExemptDoze">>) = {"ExemptDoze"}
      /\ Range(<<"LaunchOnce">>) = {"LaunchOnce"}
      /\ Range(<<"ExemptDoze", "LaunchOnce">>) = {"ExemptDoze", "LaunchOnce"}
      /\ Range(<<"Grant", "LaunchOnce">>) = {"Grant", "LaunchOnce"}
      /\ Range(<<"Grant", "ExemptDoze", "LaunchOnce">>) = {"Grant", "ExemptDoze", "LaunchOnce"}
      /\ Range(<<"Install", "LaunchOnce">>) = {"Install", "LaunchOnce"}
      /\ Range(<<"Install", "Grant", "LaunchOnce">>) = {"Install", "Grant", "LaunchOnce"}
      /\ Range(<<"Install", "ExemptDoze", "LaunchOnce">>) = {"Install", "ExemptDoze", "LaunchOnce"}
      /\ Range(<<"Install", "Grant", "ExemptDoze", "LaunchOnce">>) = {"Install", "Grant",
           "ExemptDoze", "LaunchOnce"}
  BY DEF Range
<1> DEFINE up == NeedsUpgrade(got)
<1> DEFINE rest == /\ got.permissionGranted /\ got.wifiDebuggingEnabled
                   /\ got.usbDebuggingEnabled /\ got.serviceRunning
<1>5. got.permissionGranted \in BOOLEAN /\ got.dozeExempt \in BOOLEAN /\ got.installed \in BOOLEAN
  BY DEF StatusShape
<1>6. CASE ~ got.installed
  BY <1>1, <1>4, <1>6 DEF StepLists
<1>7. CASE got.installed /\ up /\ ~ got.permissionGranted /\ ~ got.dozeExempt
  <2>1. Plan(got) = <<"Install">> \o <<"Grant">> \o <<"ExemptDoze">> \o <<"LaunchOnce">>
    BY <1>1, <1>2, <1>7
  <2>2. Plan(got) = <<"Install", "Grant", "ExemptDoze", "LaunchOnce">>
    <3>1. <<"Install">> \o <<"Grant">> = <<"Install", "Grant">>
      BY <1>0, Joins
    <3>2. <<"Install", "Grant">> \o <<"ExemptDoze">> = <<"Install", "Grant", "ExemptDoze">>
      BY <1>0, Joins
    <3>3. <<"Install", "Grant", "ExemptDoze">> \o <<"LaunchOnce">> = <<"Install", "Grant",
            "ExemptDoze", "LaunchOnce">>
      BY <1>0, Joins
    <3> QED  BY <2>1, <3>1, <3>2, <3>3
  <2> QED  BY <1>4, <1>7, <2>2 DEF StepLists
<1>8. CASE got.installed /\ up /\ ~ got.permissionGranted /\ got.dozeExempt
  <2>1. Plan(got) = <<"Install">> \o <<"Grant">> \o <<>> \o <<"LaunchOnce">>
    BY <1>1, <1>2, <1>8
  <2>2. Plan(got) = <<"Install", "Grant", "LaunchOnce">>
    <3>1. <<"Install">> \o <<"Grant">> = <<"Install", "Grant">>
      BY <1>0, Joins
    <3>2. <<"Install", "Grant">> \o <<>> = <<"Install", "Grant">>
      BY <1>0, Joins
    <3>3. <<"Install", "Grant">> \o <<"LaunchOnce">> = <<"Install", "Grant", "LaunchOnce">>
      BY <1>0, Joins
    <3> QED  BY <2>1, <3>1, <3>2, <3>3
  <2> QED  BY <1>4, <1>8, <2>2 DEF StepLists
<1>9. CASE got.installed /\ up /\ got.permissionGranted /\ ~ got.dozeExempt
  <2>1. Plan(got) = <<"Install">> \o <<>> \o <<"ExemptDoze">> \o <<"LaunchOnce">>
    BY <1>1, <1>2, <1>9
  <2>2. Plan(got) = <<"Install", "ExemptDoze", "LaunchOnce">>
    <3>1. <<"Install">> \o <<>> = <<"Install">>
      BY <1>0, Joins
    <3>2. <<"Install">> \o <<"ExemptDoze">> = <<"Install", "ExemptDoze">>
      BY <1>0, Joins
    <3>3. <<"Install", "ExemptDoze">> \o <<"LaunchOnce">> = <<"Install", "ExemptDoze", "LaunchOnce">>
      BY <1>0, Joins
    <3> QED  BY <2>1, <3>1, <3>2, <3>3
  <2> QED  BY <1>4, <1>9, <2>2 DEF StepLists
<1>10. CASE got.installed /\ up /\ got.permissionGranted /\ got.dozeExempt
  <2>1. Plan(got) = <<"Install">> \o <<>> \o <<>> \o <<"LaunchOnce">>
    BY <1>1, <1>2, <1>10
  <2>2. Plan(got) = <<"Install", "LaunchOnce">>
    BY <1>0, <2>1, Joins
  <2> QED  BY <1>4, <1>10, <2>2 DEF StepLists
<1>11. CASE got.installed /\ ~ up /\ ~ got.permissionGranted /\ ~ got.dozeExempt
  <2>1. Plan(got) = <<>> \o <<"Grant">> \o <<"ExemptDoze">> \o <<"LaunchOnce">>
    BY <1>1, <1>2, <1>11
  <2>2. Plan(got) = <<"Grant", "ExemptDoze", "LaunchOnce">>
    <3>1. <<>> \o <<"Grant">> = <<"Grant">>
      BY <1>0, Joins
    <3>2. <<"Grant">> \o <<"ExemptDoze">> = <<"Grant", "ExemptDoze">>
      BY <1>0, Joins
    <3>3. <<"Grant", "ExemptDoze">> \o <<"LaunchOnce">> = <<"Grant", "ExemptDoze", "LaunchOnce">>
      BY <1>0, Joins
    <3> QED  BY <2>1, <3>1, <3>2, <3>3
  <2> QED  BY <1>4, <1>11, <2>2 DEF StepLists
<1>12. CASE got.installed /\ ~ up /\ ~ got.permissionGranted /\ got.dozeExempt
  <2>1. Plan(got) = <<>> \o <<"Grant">> \o <<>> \o <<"LaunchOnce">>
    BY <1>1, <1>2, <1>12
  <2>2. Plan(got) = <<"Grant", "LaunchOnce">>
    BY <1>0, <2>1, Joins
  <2> QED  BY <1>4, <1>12, <2>2 DEF StepLists
<1>13. CASE got.installed /\ ~ up /\ got.permissionGranted /\ ~ got.dozeExempt /\ ~ rest
  <2>1. Plan(got) = <<>> \o <<>> \o <<"ExemptDoze">> \o <<"LaunchOnce">>
    BY <1>1, <1>2, <1>13
  <2>2. Plan(got) = <<"ExemptDoze", "LaunchOnce">>
    BY <1>0, <2>1, Joins
  <2> QED  BY <1>4, <1>13, <2>2 DEF StepLists
<1>14. CASE got.installed /\ ~ up /\ got.permissionGranted /\ ~ got.dozeExempt /\ rest
  <2>1. Plan(got) = <<>> \o <<>> \o <<"ExemptDoze">> \o <<>>
    BY <1>1, <1>2, <1>14
  <2>2. Plan(got) = <<"ExemptDoze">>
    BY <1>0, <2>1, Joins
  <2> QED  BY <1>4, <1>14, <2>2 DEF StepLists
<1>15. CASE got.installed /\ ~ up /\ got.permissionGranted /\ got.dozeExempt /\ ~ rest
  <2>1. Plan(got) = <<>> \o <<>> \o <<>> \o <<"LaunchOnce">>
    BY <1>1, <1>2, <1>15
  <2>2. Plan(got) = <<"LaunchOnce">>
    BY <1>0, <2>1, Joins
  <2> QED  BY <1>4, <1>15, <2>2 DEF StepLists
<1> QED  BY <1>3, <1>5, <1>6, <1>7, <1>8, <1>9, <1>10, <1>11, <1>12, <1>13, <1>14, <1>15


-----------------------------------------------------------------------------
(* The phone and its status.                                               *)

LEMMA StatusIs ==
  ASSUME NEW p \in PhoneShape
  PROVE  /\ AgentStatus(p) \in StatusShape
         /\ AgentStatus(p).installed <=> p.installed
         /\ AgentStatus(p).permissionGranted <=> p.granted
         /\ AgentStatus(p).wifiDebuggingEnabled <=> p.wifi
         /\ AgentStatus(p).usbDebuggingEnabled <=> p.usb
         /\ AgentStatus(p).dozeExempt <=> p.exempt
         /\ AgentStatus(p).serviceRunning <=> p.service
         /\ AgentStatus(p).versionCode = IF p.installed THEN p.version ELSE 0
  BY DEF AgentStatus, PhoneShape, StatusShape

LEMMA HealthyIs ==
  ASSUME NEW got
  PROVE  IsHealthy(got) <=> /\ got.installed /\ got.permissionGranted /\ got.wifiDebuggingEnabled
                            /\ got.usbDebuggingEnabled /\ got.dozeExempt /\ got.serviceRunning
  BY DEF IsHealthy, Checks

LEMMA PassesIs ==
  ASSUME NEW p \in PhoneShape
  PROVE  IsHealthy(AgentStatus(p)) <=>
           p.installed /\ p.granted /\ p.wifi /\ p.usb /\ p.exempt /\ p.service
  BY StatusIs, HealthyIs

(* What the steps change of the phone.                                     *)
LEMMA StepsChange ==
  ASSUME NEW p \in PhoneShape
  PROVE  /\ Uninstalled(p) \in PhoneShape /\ (Uninstalled(p).network <=> p.network)
         /\ Installed(p) \in PhoneShape /\ Installed(p).installed /\ Installed(p).version = Expected
         /\ (Installed(p).network <=> p.network)
         /\ \A q \in {[p EXCEPT !.granted = TRUE], [p EXCEPT !.exempt = TRUE],
                      Started(p), [Started(p) EXCEPT !.front = TRUE]} :
              /\ q \in PhoneShape /\ (q.network <=> p.network)
              /\ (q.installed <=> p.installed) /\ q.version = p.version
              /\ (p.granted => q.granted) /\ (p.exempt => q.exempt) /\ (p.service => q.service)
              /\ (q.wifi <=> p.wifi) /\ (q.usb <=> p.usb)
         /\ [p EXCEPT !.granted = TRUE].granted /\ [p EXCEPT !.exempt = TRUE].exempt
         /\ \A q \in {Started(p), [Started(p) EXCEPT !.front = TRUE]} :
              q.service /\ q.due /\ (q.granted <=> p.granted) /\ (q.exempt <=> p.exempt)
<1>1. Expected \in Nat
  BY ProvisioningAssumption
<1>2. Uninstalled(p) \in PhoneShape /\ (Uninstalled(p).network <=> p.network)
  BY ZenonT(40) DEF Uninstalled, PhoneShape
<1>3. /\ Installed(p) \in PhoneShape /\ Installed(p).installed /\ Installed(p).version = Expected
      /\ (Installed(p).network <=> p.network)
  BY <1>1 DEF Installed, PhoneShape
<1>4. ASSUME NEW q, q = [p EXCEPT !.granted = TRUE] \/ q = [p EXCEPT !.exempt = TRUE]
      PROVE  /\ q \in PhoneShape /\ (q.network <=> p.network)
             /\ (q.installed <=> p.installed) /\ q.version = p.version
             /\ (p.granted => q.granted) /\ (p.exempt => q.exempt) /\ (p.service => q.service)
             /\ (q.wifi <=> p.wifi) /\ (q.usb <=> p.usb)
  BY <1>4 DEF PhoneShape
<1>5. [p EXCEPT !.granted = TRUE].granted /\ [p EXCEPT !.exempt = TRUE].exempt
  BY DEF PhoneShape
<1>6. ASSUME NEW q, q = Started(p) \/ q = [Started(p) EXCEPT !.front = TRUE]
      PROVE  /\ q \in PhoneShape /\ (q.network <=> p.network)
             /\ (q.installed <=> p.installed) /\ q.version = p.version
             /\ (p.granted <=> q.granted) /\ (p.exempt <=> q.exempt) /\ q.service /\ q.due
             /\ (q.wifi <=> p.wifi) /\ (q.usb <=> p.usb)
  <2>1. /\ Started(p) \in PhoneShape /\ (Started(p).network <=> p.network)
        /\ (Started(p).installed <=> p.installed) /\ Started(p).version = p.version
        /\ (p.granted <=> Started(p).granted) /\ (p.exempt <=> Started(p).exempt)
        /\ Started(p).service /\ Started(p).due
        /\ (Started(p).wifi <=> p.wifi) /\ (Started(p).usb <=> p.usb)
    BY DEF PhoneShape, Started
  <2> DEFINE s == Started(p)
  <2> HIDE DEF s
  <2>2. ASSUME NEW t \in PhoneShape, t = [s EXCEPT !.front = TRUE], s \in PhoneShape
        PROVE  /\ (t.network <=> s.network) /\ (t.installed <=> s.installed)
               /\ t.version = s.version /\ (s.granted <=> t.granted)
               /\ (s.exempt <=> t.exempt) /\ (s.service <=> t.service) /\ (s.due <=> t.due)
               /\ (t.wifi <=> s.wifi) /\ (t.usb <=> s.usb)
    BY <2>2 DEF PhoneShape
  <2>3. ASSUME s \in PhoneShape PROVE [s EXCEPT !.front = TRUE] \in PhoneShape
    BY <2>3 DEF PhoneShape
  <2>4. CASE q = Started(p)
    BY <2>1, <2>4
  <2>5. CASE q = [Started(p) EXCEPT !.front = TRUE]
    BY <2>1, <2>2, <2>3, <2>5 DEF s
  <2> QED  BY <1>6, <2>4, <2>5
<1> QED  BY <1>2, <1>3, <1>4, <1>5, <1>6

LEMMA MoveIs ==
  ASSUME actors \in [Actors -> ActorShape], NEW a \in Actors, NEW to \in ActorShape, Move(a, to)
  PROVE  /\ actors' \in [Actors -> ActorShape] /\ actors'[a] = to
         /\ \A b \in Actors \ {a} : actors'[b] = actors[b]
  BY DEF Move

LEMMA ActorIs ==
  /\ IdleActor \in ActorShape /\ IdleActor.at = "idle"
  /\ \A r \in Runs : r \in Actors /\ r # Reader
  /\ Reader \in Actors
<1>1. 0 \in 0 .. MaxPasses
  BY ProvisioningAssumption
<1> QED  BY <1>1, ProvisioningAssumption DEF IdleActor, ActorShape, Actors

(* The first states: nothing runs.                                         *)
LEMMA PhoneInit == PagesInit => PhoneInv
<1> SUFFICES ASSUME PagesInit PROVE PhoneInv
  OBVIOUS
<1>1. phone \in PhoneShape /\ phone.network
  <2>1. CASE phone \in Phones
    BY <2>1, ProvisioningAssumption
  <2>2. CASE phone = Bare
    <3>1. Bare \in PhoneShape /\ Bare.network
      BY DEF Bare, PhoneShape
    <3> QED  BY <2>2, <3>1
  <2> QED  BY <2>1, <2>2 DEF PagesInit, ProvisioningInit
<1>2. /\ actors = [a \in Actors |-> IdleActor] /\ facts = Unknown /\ activity = "none"
      /\ disturbed = FALSE /\ left \in Nat
  BY ProvisioningAssumption DEF PagesInit, ProvisioningInit
<1>3. actors \in [Actors -> ActorShape] /\ \A a \in Actors : actors[a].at = "idle"
  BY <1>2, ActorIs
<1>4. PhoneShapes
  BY <1>1, <1>2, <1>3, ActorIs DEF PhoneShapes, Unknown
<1>5. Undisturbed
  BY <1>1, <1>2, <1>3, ActorIs DEF Undisturbed
<1> QED  BY <1>4, <1>5 DEF PhoneInv

(* What the agent does by itself makes the phone better, or leaves it.     *)
LEMMA PhoneImproves ==
  ASSUME PhoneInv, UNCHANGED <<actors, facts, activity, disturbed, left>>,
         phone' \in PhoneShape, phone.network => phone'.network,
         phone'.installed <=> phone.installed, phone'.version = phone.version,
         phone'.granted <=> phone.granted, phone'.exempt <=> phone.exempt,
         phone.wifi => phone'.wifi, phone.usb => phone'.usb, phone.service => phone'.service,
         phone.network /\ SelfHealing => SelfHealing'
  PROVE  PhoneInv'
<1>1. PhoneShapes'
  BY DEF PhoneInv, PhoneShapes
<1>2. ASSUME NEW r \in Runs, phone.network, RunProgress(actors[r]) PROVE RunProgress(actors[r])'
  <2> DEFINE a == actors[r]
  <2>1. phone \in PhoneShape
    BY DEF PhoneInv, PhoneShapes
  <2>2. UpToDate => UpToDate'
    BY DEF UpToDate
  <2>3. Passes => Passes'
    BY <2>1, PassesIs DEF Passes
  <2>4. AnswerHolds(a.copy) => AnswerHolds(a.copy)'
    BY <2>1, StatusIs DEF AnswerHolds
  <2>5. /\ StepsSuffice(a.steps) => StepsSuffice(a.steps)'
        /\ LeavesRest(a.steps) => LeavesRest(a.steps)'
    BY DEF StepsSuffice, LeavesRest
  <2> QED  BY <1>2, <2>2, <2>3, <2>4, <2>5 DEF RunProgress
<1>3. Undisturbed'
  BY <1>2 DEF PhoneInv, Undisturbed
<1> QED  BY <1>1, <1>3 DEF PhoneInv


(* The reconcile that is due writes the settings that are off.             *)
LEMMA PhoneReconcile == PhoneInv /\ Reconcile => PhoneInv'
<1> SUFFICES ASSUME PhoneInv, Reconcile PROVE PhoneInv'
  OBVIOUS
<1> DEFINE wifi == phone.wifi \/ (phone.granted /\ phone.network)
<1> DEFINE usb == phone.usb \/ phone.granted
<1> DEFINE due == <<wifi, usb>> # <<phone.wifi, phone.usb>>
<1>1. /\ phone' = [phone EXCEPT !.wifi = wifi, !.usb = usb, !.due = due]
      /\ UNCHANGED <<actors, facts, activity, disturbed, left>>
  BY DEF Reconcile, PhoneBecomes
<1>2. phone \in PhoneShape
  BY DEF PhoneInv, PhoneShapes
<1>3. wifi \in BOOLEAN /\ usb \in BOOLEAN /\ due \in BOOLEAN
  BY <1>2 DEF PhoneShape
<1>4. /\ phone.wifi => wifi
      /\ phone.usb => usb
      /\ phone.network /\ phone.granted => wifi /\ usb
  OBVIOUS
<1> HIDE DEF wifi, usb, due
<1>5. /\ phone' \in PhoneShape /\ phone'.wifi = wifi /\ phone'.usb = usb
      /\ phone'.network = phone.network /\ phone'.installed = phone.installed
      /\ phone'.version = phone.version /\ phone'.granted = phone.granted
      /\ phone'.exempt = phone.exempt /\ phone'.service = phone.service
  BY ZenonT(40), <1>1, <1>2, <1>3 DEF PhoneShape
<1>6. phone.network /\ SelfHealing => SelfHealing'
  BY <1>4, <1>5 DEF SelfHealing
<1> QED  BY <1>1, <1>4, <1>5, <1>6, PhoneImproves

(* The tick makes one due, the network returns, Android recreates the      *)
(* service.                                                                *)
LEMMA PhoneRecovers == PhoneInv /\ (Tick \/ NetworkAvailable \/ Recreated) => PhoneInv'
<1> SUFFICES ASSUME PhoneInv, Tick \/ NetworkAvailable \/ Recreated PROVE PhoneInv'
  OBVIOUS
<1>1. UNCHANGED <<actors, facts, activity, disturbed, left>>
  BY DEF Tick, NetworkAvailable, Recreated, PhoneBecomes
<1>2. phone \in PhoneShape
  BY DEF PhoneInv, PhoneShapes
<1>3. CASE Tick
  <2>1. phone' = [phone EXCEPT !.due = TRUE]
    BY <1>3 DEF Tick, PhoneBecomes
  <2>2. /\ phone' \in PhoneShape /\ phone'.due /\ phone'.wifi = phone.wifi /\ phone'.usb = phone.usb
        /\ phone'.network = phone.network /\ phone'.installed = phone.installed
        /\ phone'.version = phone.version /\ phone'.granted = phone.granted
        /\ phone'.exempt = phone.exempt /\ phone'.service = phone.service
    BY <1>2, <2>1 DEF PhoneShape
  <2>3. SelfHealing => SelfHealing'
    BY <2>2 DEF SelfHealing
  <2> QED  BY <1>1, <2>2, <2>3, PhoneImproves
<1>4. CASE NetworkAvailable
  <2>1. ~ phone.network /\ phone' = [phone EXCEPT !.network = TRUE, !.due = phone.service]
    BY <1>4 DEF NetworkAvailable, PhoneBecomes
  <2>2. /\ phone' \in PhoneShape /\ phone'.wifi = phone.wifi /\ phone'.usb = phone.usb
        /\ phone'.network /\ phone'.installed = phone.installed
        /\ phone'.version = phone.version /\ phone'.granted = phone.granted
        /\ phone'.exempt = phone.exempt /\ phone'.service = phone.service
    BY <1>2, <2>1 DEF PhoneShape
  <2> QED  BY <1>1, <2>1, <2>2, PhoneImproves
<1>5. CASE Recreated
  <2>1. phone' = Started(phone) /\ ~ phone.service
    BY <1>5 DEF Recreated, PhoneBecomes
  <2>2. /\ phone' \in PhoneShape /\ (phone'.network <=> phone.network)
        /\ (phone'.installed <=> phone.installed) /\ phone'.version = phone.version
        /\ (phone.service => phone'.service)
        /\ (phone'.wifi <=> phone.wifi) /\ (phone'.usb <=> phone.usb)
        /\ phone'.granted <=> phone.granted
        /\ phone'.exempt <=> phone.exempt
    BY <1>2, <2>1, StepsChange
  <2>3. ~ SelfHealing
    BY <2>1 DEF SelfHealing
  <2> QED  BY <1>1, <2>2, <2>3, PhoneImproves
<1> QED  BY <1>3, <1>4, <1>5

(* What happens to the phone.                                              *)
LEMMA PhoneMishaps == PhoneInv /\ (SettingCleared \/ NetworkLost \/ Killed \/ Reboots) => PhoneInv'
<1> SUFFICES ASSUME PhoneInv, SettingCleared \/ NetworkLost \/ Killed \/ Reboots PROVE PhoneInv'
  OBVIOUS
<1>1. phone \in PhoneShape /\ left \in Nat
  BY DEF PhoneInv, PhoneShapes
<1>2. ASSUME NEW p \in PhoneShape, Mishap(p) PROVE PhoneInv'
  <2>1. phone' \in PhoneShape /\ UNCHANGED <<actors, facts, activity>> /\ disturbed' = TRUE
          /\ left' \in Nat
    BY <1>1, <1>2 DEF Mishap, Costs, PhoneBecomes
  <2> QED  BY <2>1 DEF PhoneInv, PhoneShapes, Undisturbed
<1>3. /\ [phone EXCEPT !.wifi = FALSE, !.due = phone.service] \in PhoneShape
      /\ [phone EXCEPT !.usb = FALSE, !.due = phone.service] \in PhoneShape
      /\ [phone EXCEPT !.network = FALSE, !.wifi = FALSE, !.due = phone.service] \in PhoneShape
      /\ [phone EXCEPT !.service = FALSE, !.front = FALSE, !.due = FALSE] \in PhoneShape
      /\ [phone EXCEPT !.service = phone.opened, !.due = phone.opened, !.front = FALSE, !.wifi = FALSE]
           \in PhoneShape
  BY <1>1 DEF PhoneShape
<1> QED  BY <1>2, <1>3 DEF SettingCleared, NetworkLost, Killed, Reboots

-----------------------------------------------------------------------------
(* The runs.                                                               *)

(* A run moves: what has to hold of it, and of the others.                 *)
LEMMA RunMoves ==
  ASSUME PhoneInv, NEW r \in Runs, NEW to \in ActorShape, Move(r, to), phone' \in PhoneShape,
         to.at = "answer" => to.copy \in StatusShape,
         to.at \in Steps => to.steps \in StepLists /\ to.pass < MaxPasses,
         to.at \in {"uninstall", "reinstall"} => to.steps[1] = "Install",
         facts'.checks \subseteq Checks, activity' \in {"none", "provisioning", "provisioned", "failed"},
         left' \in Nat, disturbed' \in BOOLEAN,
         ~ disturbed' =>
           /\ ~ disturbed /\ phone'.network /\ activity' # "failed"
           /\ to.at # "idle" => RunProgress(actors[r])'
           /\ \A q \in Runs \ {r} : actors[q].at = "idle"
  PROVE  PhoneInv'
<1>1. /\ actors' \in [Actors -> ActorShape] /\ actors'[r] = to
      /\ \A b \in Actors \ {r} : actors'[b] = actors[b]
  BY ActorIs, MoveIs DEF PhoneInv, PhoneShapes
<1>2. PhoneShapes'
  BY <1>1, ActorIs DEF PhoneInv, PhoneShapes
<1>3. Undisturbed'
  BY <1>1, ActorIs DEF PhoneInv, Undisturbed
<1> QED  BY <1>2, <1>3 DEF PhoneInv

LEMMA PhoneProvisions == \A r \in Runs : PhoneInv /\ Provisions(r) => PhoneInv'
<1> SUFFICES ASSUME NEW r \in Runs, PhoneInv, Provisions(r) PROVE PhoneInv'
  OBVIOUS
<1> DEFINE to == [IdleActor EXCEPT !.at = "read", !.pass = 1]
<1>1. 1 \in 0 .. MaxPasses
  BY ProvisioningAssumption
<1>2. to \in ActorShape /\ to.at = "read" /\ to.pass = 1
  BY <1>1, ActorIs DEF ActorShape
<1>3. Move(r, to) /\ UNCHANGED <<phone, facts>> /\ activity' = "provisioning" /\ left' \in Nat
      /\ disturbed' = (disturbed \/ \E other \in Runs \ {r} : actors[other].at # "idle")
  BY DEF Provisions, Costs, PhoneInv, PhoneShapes
<1> HIDE DEF to
<1>4. actors'[r] = to
  BY <1>2, <1>3, ActorIs, MoveIs DEF PhoneInv, PhoneShapes
<1>5. RunProgress(actors[r])'
  BY <1>2, <1>4 DEF RunProgress
<1> QED  BY <1>2, <1>3, <1>5, RunMoves DEF PhoneInv, PhoneShapes, Undisturbed


(* What an undisturbed run stands on.                                      *)
LEMMA RunIs ==
  ASSUME PhoneInv, NEW r \in Runs
  PROVE  /\ actors[r] \in ActorShape /\ r \in Actors /\ actors[r].pass \in 0 .. MaxPasses
         /\ actors[r].steps \in StepLists \union {<<>>}
         /\ phone \in PhoneShape /\ left \in Nat /\ disturbed \in BOOLEAN
              /\ facts.checks \subseteq Checks
         /\ activity \in {"none", "provisioning", "provisioned", "failed"}
         /\ actors[r].at = "answer" => actors[r].copy \in StatusShape
         /\ actors[r].at \in Steps => actors[r].steps \in StepLists /\ actors[r].pass < MaxPasses
         /\ actors[r].at \in {"uninstall", "reinstall"} => actors[r].steps[1] = "Install"
         /\ actors[r].at # "idle" /\ ~ disturbed =>
              /\ RunProgress(actors[r]) /\ phone.network /\ activity # "failed"
              /\ \A q \in Runs \ {r} : actors[q].at = "idle"
<1>1. actors[r] \in ActorShape /\ r \in Actors
  BY ActorIs DEF PhoneInv, PhoneShapes
<1>2. actors[r].pass \in 0 .. MaxPasses /\ actors[r].steps \in StepLists \union {<<>>}
  BY <1>1 DEF ActorShape
<1> QED  BY <1>1, <1>2 DEF PhoneInv, PhoneShapes, Undisturbed

(* A run ends.                                                             *)
LEMMA RunEnds ==
  ASSUME PhoneInv, NEW r \in Runs, actors[r].at # "idle", NEW how \in {"provisioned", "failed"},
         Ends(r, how), UNCHANGED phone, facts'.checks \subseteq Checks, left' \in Nat,
         disturbed' \in BOOLEAN, ~ disturbed' => ~ disturbed /\ how # "failed"
  PROVE  PhoneInv'
<1>1. Move(r, IdleActor) /\ activity' = how
  BY DEF Ends
<1>2. IdleActor \in ActorShape /\ IdleActor.at = "idle"
  BY ActorIs
<1>3. activity' \in {"none", "provisioning", "provisioned", "failed"}
  BY <1>1
<1> QED  BY <1>1, <1>2, <1>3, RunIs, RunMoves

(* The reader moves.                                                       *)
LEMMA ReaderMoves ==
  ASSUME PhoneInv, NEW to \in ActorShape, Move(Reader, to), to.at \in {"idle", "read", "answer"},
         to.at = "answer" => to.copy \in StatusShape,
         UNCHANGED <<phone, activity>>, facts'.checks \subseteq Checks, left' \in Nat,
         disturbed' \in BOOLEAN, ~ disturbed' => ~ disturbed
  PROVE  PhoneInv'
<1>1. /\ actors' \in [Actors -> ActorShape] /\ actors'[Reader] = to
      /\ \A b \in Actors \ {Reader} : actors'[b] = actors[b]
  BY ActorIs, MoveIs DEF PhoneInv, PhoneShapes
<1>2. PhoneShapes'
  BY <1>1, ActorIs DEF PhoneInv, PhoneShapes
<1>3. \A r \in Runs : actors'[r] = actors[r]
  BY <1>1, ActorIs
<1>4. \A r \in Runs : RunProgress(actors[r]) => RunProgress(actors[r])'
  BY <1>3 DEF RunProgress, AnswerHolds, UpToDate, StepsSuffice, LeavesRest, SelfHealing, Passes
<1>5. Undisturbed'
  BY <1>3, <1>4 DEF PhoneInv, Undisturbed
<1> QED  BY <1>2, <1>5 DEF PhoneInv

LEMMA PhoneRefreshes == PhoneInv /\ Refreshes => PhoneInv'
<1> SUFFICES ASSUME PhoneInv, Refreshes PROVE PhoneInv'
  OBVIOUS
<1> DEFINE to == [IdleActor EXCEPT !.at = "read"]
<1>1. to \in ActorShape /\ to.at = "read"
  BY ActorIs DEF ActorShape
<1>2. Move(Reader, to) /\ UNCHANGED <<phone, facts, activity, disturbed, left>>
  BY DEF Refreshes
<1> HIDE DEF to
<1> QED  BY <1>1, <1>2, ReaderMoves DEF PhoneInv, PhoneShapes

(* The status is read.                                                     *)
LEMMA PhoneRead == \A a \in Actors : PhoneInv /\ ReadAgentStatus(a) => PhoneInv'
<1> SUFFICES ASSUME NEW a \in Actors, PhoneInv, ReadAgentStatus(a) PROVE PhoneInv'
  OBVIOUS
<1> DEFINE got == AgentStatus(phone)
<1> DEFINE to == [actors[a] EXCEPT !.at = "answer", !.copy = got]
<1>1. phone \in PhoneShape /\ actors[a] \in ActorShape /\ got \in StatusShape /\ actors[a].at = "read"
  BY StatusIs DEF PhoneInv, PhoneShapes, ReadAgentStatus
<1>2. Move(a, to) /\ UNCHANGED <<phone, facts, activity, disturbed, left>>
  BY DEF ReadAgentStatus
<1> HIDE DEF got
<1>3. to \in ActorShape /\ to.at = "answer" /\ to.copy = got /\ to.pass = actors[a].pass
  BY <1>1 DEF ActorShape
<1> HIDE DEF to
<1>4. actors'[a] = to
  BY <1>2, <1>3, MoveIs DEF PhoneInv, PhoneShapes
<1>5. CASE a = Reader
  BY <1>1, <1>2, <1>3, <1>5, ReaderMoves DEF PhoneInv, PhoneShapes
<1>6. CASE a \in Runs
  <2>1. ASSUME ~ disturbed PROVE RunProgress(actors[a])'
    <3>1. RunProgress(actors[a])
      BY <1>1, <1>6, <2>1, RunIs
    <3>2. AnswerHolds(actors[a].copy)'
      BY <1>1, <1>2, <1>3, <1>4, StatusIs DEF AnswerHolds, got
    <3>3. (UpToDate => UpToDate') /\ (Passes => Passes' /\ IsHealthy(got))
      BY <1>2 DEF UpToDate, Passes, got
    <3> QED  BY <1>1, <1>3, <1>4, <3>1, <3>2, <3>3 DEF RunProgress
  <2> QED  BY <1>1, <1>2, <1>3, <1>6, <2>1, RunIs, RunMoves
<1> QED  BY <1>5, <1>6 DEF Actors

(* The agent has had its time: the settings are back.                      *)
LEMMA PhoneSettles == \A r \in Runs : PhoneInv /\ SettleEnds(r) => PhoneInv'
<1> SUFFICES ASSUME NEW r \in Runs, PhoneInv, SettleEnds(r) PROVE PhoneInv'
  OBVIOUS
<1> DEFINE to == [actors[r] EXCEPT !.at = "read"]
<1>1. phone \in PhoneShape /\ actors[r] \in ActorShape /\ actors[r].at = "settle"
        /\ ~ phone.due /\ r \in Actors
  BY RunIs DEF SettleEnds
<1>2. Move(r, to) /\ UNCHANGED <<phone, facts, activity, disturbed, left>>
  BY DEF SettleEnds
<1>3. to \in ActorShape /\ to.at = "read" /\ to.pass = actors[r].pass
  BY <1>1 DEF ActorShape
<1> HIDE DEF to
<1>4. actors'[r] = to
  BY <1>1, <1>2, <1>3, MoveIs DEF PhoneInv, PhoneShapes
<1>5. ASSUME ~ disturbed PROVE RunProgress(actors[r])'
  <2>1. RunProgress(actors[r])
    BY <1>1, <1>5, RunIs
  <2>2. UpToDate => UpToDate'
    BY <1>2 DEF UpToDate
  <2>3. UpToDate /\ SelfHealing => Passes'
    BY <1>1, <1>2, PassesIs DEF UpToDate, SelfHealing, Passes
  <2> QED  BY <1>1, <1>3, <1>4, <2>1, <2>2, <2>3 DEF RunProgress
<1> QED  BY <1>1, <1>2, <1>3, <1>5, RunIs, RunMoves

(* What was read is published; the run plans, or ends.                     *)
LEMMA PhoneConverges == \A a \in Actors : PhoneInv /\ Converge(a) => PhoneInv'
<1> SUFFICES ASSUME NEW a \in Actors, PhoneInv, Converge(a) PROVE PhoneInv'
  OBVIOUS
<1> DEFINE got == actors[a].copy
<1>1. /\ phone \in PhoneShape /\ actors[a] \in ActorShape /\ got \in StatusShape
           /\ actors[a].at = "answer"
      /\ facts'.checks \subseteq Checks /\ UNCHANGED <<phone, disturbed, left>>
      /\ left \in Nat /\ disturbed \in BOOLEAN
  BY DEF PhoneInv, PhoneShapes, Converge, ToFacts
<1>2. CASE a = Reader
  <2>1. Move(Reader, IdleActor) /\ UNCHANGED activity
    BY <1>2 DEF Converge
  <2> QED  BY <1>1, <2>1, ActorIs, ReaderMoves
<1>3. CASE a \in Runs
  <2>1. a # Reader
    BY <1>3, ActorIs
  <2>2. CASE IsHealthy(got)
    <3>1. Ends(a, "provisioned")
      BY <2>1, <2>2 DEF Converge
    <3> QED  BY <1>1, <1>3, <3>1, RunEnds
  <2>3. CASE ~ IsHealthy(got) /\ (IsLastPass(a) \/ Plan(got) = <<>>)
    <3>1. Ends(a, "failed")
      BY <2>1, <2>3 DEF Converge
    <3>2. disturbed
      <4>1. Plan(got) # <<>>
        BY <1>1, <2>3, PlanFacts, ListFacts
      <4>2. ASSUME ~ disturbed PROVE FALSE
        <5>1. RunProgress(actors[a])
          BY <1>1, <1>3, <4>2, RunIs
        <5>2. actors[a].pass = 3
          BY <2>3, <4>1, <5>1, ProvisioningAssumption DEF RunProgress, IsLastPass
        <5> QED  BY <1>1, <2>3, <5>1, <5>2 DEF RunProgress
      <4> QED  BY <4>2
    <3> QED  BY <1>1, <1>3, <3>1, <3>2, RunEnds
  <2>4. CASE ~ IsHealthy(got) /\ ~ (IsLastPass(a) \/ Plan(got) = <<>>)
    <3> DEFINE s == Plan(got)
    <3> DEFINE to == [actors[a] EXCEPT !.at = "apply", !.steps = s, !.copy = Unknown]
    <3>1. Move(a, to) /\ UNCHANGED activity
      BY <2>1, <2>4 DEF Converge
    <3>2. /\ s \in StepLists
          /\ "Install" \in Range(s) <=> ~ got.installed \/ NeedsUpgrade(got)
          /\ "Grant" \in Range(s) \/ got.permissionGranted
          /\ "ExemptDoze" \in Range(s) \/ got.dozeExempt
          /\ \/ "LaunchOnce" \in Range(s)
             \/ /\ got.permissionGranted /\ got.wifiDebuggingEnabled
                /\ got.usbDebuggingEnabled /\ got.serviceRunning
      BY <1>1, <2>4, PlanFacts
    <3> HIDE DEF s
    <3>3. /\ to \in ActorShape /\ to.at = "apply" /\ to.steps = s /\ to.pass = actors[a].pass
          /\ to.pass < MaxPasses
      <4>1. actors[a].pass \in Nat /\ MaxPasses \in Nat
        BY <1>1, ProvisioningAssumption DEF ActorShape
      <4>2. actors[a].pass < MaxPasses
        BY <2>4, <4>1 DEF IsLastPass
      <4>3. to \in ActorShape /\ to.at = "apply" /\ to.steps = s /\ to.pass = actors[a].pass
        BY <1>1, <3>2 DEF ActorShape
      <4> QED  BY <4>2, <4>3
    <3> HIDE DEF to
    <3>4. actors'[a] = to
      BY <3>1, <3>3, MoveIs DEF PhoneInv, PhoneShapes
    <3>5. ASSUME ~ disturbed PROVE RunProgress(actors[a])'
      <4>1. RunProgress(actors[a]) /\ AnswerHolds(got)
        BY <1>1, <1>3, <3>5, RunIs DEF RunProgress
      <4>2. UpToDate' <=> UpToDate
        BY <1>1 DEF UpToDate
      <4>3. UpToDate <=> got.installed /\ ~ NeedsUpgrade(got)
        BY <1>1, <4>1, StatusIs DEF UpToDate, NeedsUpgrade, AnswerHolds
      <4>4. StepsSuffice(actors[a].steps)' /\ LeavesRest(actors[a].steps)'
        BY <1>1, <3>2, <3>3, <3>4, <4>1 DEF StepsSuffice, LeavesRest, AnswerHolds
      <4>5. actors[a].pass # 3
        BY <1>1, <2>4, <4>1 DEF RunProgress
      <4> QED  BY <3>2, <3>3, <3>4, <4>1, <4>2, <4>3, <4>4, <4>5 DEF RunProgress
    <3> QED  BY <1>1, <1>3, <3>1, <3>2, <3>3, <3>5, RunIs, RunMoves
  <2> QED  BY <2>2, <2>3, <2>4
<1> QED  BY <1>2, <1>3 DEF Actors

(* A command fails: that is a mishap, and so was the loss of the network.  *)
LEMMA PhoneFails ==
  ASSUME PhoneInv, NEW a \in Actors, InCommand(a), Fails(a), disturbed' = TRUE, left' \in Nat
  PROVE  PhoneInv'
<1>1. /\ UNCHANGED <<phone, facts>> /\ facts'.checks \subseteq Checks /\ actors[a].at # "idle"
  BY DEF Fails, InCommand, PhoneInv, PhoneShapes
<1>2. CASE a = Reader
  <2>1. Move(Reader, IdleActor) /\ UNCHANGED activity
    BY <1>2 DEF Fails
  <2> QED  BY <1>1, <2>1, ActorIs, ReaderMoves
<1>3. CASE a \in Runs
  <2>1. Ends(a, "failed")
    BY <1>3, ActorIs DEF Fails
  <2> QED  BY <1>1, <1>3, <2>1, RunEnds
<1> QED  BY <1>2, <1>3 DEF Actors

LEMMA PhoneCommandFails ==
  \A a \in Actors : PhoneInv /\ (CommandFails(a) \/ CommandTimesOut(a)) => PhoneInv'
<1> SUFFICES ASSUME NEW a \in Actors, PhoneInv, CommandFails(a) \/ CommandTimesOut(a) PROVE PhoneInv'
  OBVIOUS
<1>1. InCommand(a) /\ Fails(a)
  BY DEF CommandFails, CommandTimesOut
<1>2. CASE CommandFails(a)
  <2>1. disturbed' = TRUE /\ left' \in Nat
    BY <1>2 DEF CommandFails, Costs, PhoneInv, PhoneShapes
  <2> QED  BY <1>1, <2>1, PhoneFails
<1>3. CASE CommandTimesOut(a)
  <2>1. disturbed' = TRUE /\ left' \in Nat
    BY <1>3 DEF CommandTimesOut, PhoneInv, PhoneShapes, Undisturbed
  <2> QED  BY <1>1, <2>1, PhoneFails
<1> QED  BY <1>2, <1>3

(* A step is done: the run goes on with the next, or with the next pass.   *)
LEMMA RunGoesOn ==
  ASSUME PhoneInv, NEW r \in Runs, actors[r].at \in Steps, StepDone(r), phone' \in PhoneShape,
         UNCHANGED <<facts, activity, left>>, disturbed' \in BOOLEAN, ~ disturbed' => ~ disturbed,
         phone.network => phone'.network,
         ~ disturbed' =>
           /\ actors[r].steps[1] = "Install" \/ UpToDate => UpToDate'
           /\ actors[r].steps[1] # "Install" =>
                /\ phone.granted \/ actors[r].steps[1] = "Grant" => phone'.granted
                /\ phone.exempt \/ actors[r].steps[1] = "ExemptDoze" => phone'.exempt
           /\ actors[r].steps[1] = "ExemptDoze" =>
                /\ phone.granted => phone'.granted
                /\ phone.service => phone'.service
                /\ phone.wifi => phone'.wifi
                /\ phone.usb => phone'.usb
           /\ actors[r].steps[1] = "LaunchOnce" => phone'.service /\ phone'.due
  PROVE  PhoneInv'
<1> DEFINE a == actors[r]
<1> DEFINE s == a.steps
<1> DEFINE rest == Tail(s)
<1>1. /\ a \in ActorShape /\ r \in Actors /\ s \in StepLists /\ a.pass \in Nat /\ a.pass < MaxPasses
      /\ actors \in [Actors -> ActorShape] /\ MaxPasses \in Nat
  BY RunIs, ProvisioningAssumption DEF PhoneInv, PhoneShapes
<1> HIDE DEF a
<1>2. /\ s # <<>> /\ s[1] \in {"Install", "Grant", "ExemptDoze", "LaunchOnce"}
      /\ rest \in StepLists \union {<<>>} /\ Range(s) = {s[1]} \union Range(rest)
      /\ "Install" \notin Range(rest)
      /\ rest = <<>> <=> s \in {<<"LaunchOnce">>, <<"ExemptDoze">>}
      /\ s[1] = "LaunchOnce" => s = <<"LaunchOnce">>
      /\ "LaunchOnce" \notin Range(s) => s = <<"ExemptDoze">>
  BY <1>1, ListFacts
<1>3. ASSUME ~ disturbed'
      PROVE  /\ RunProgress(a) /\ a.pass \in {1, 2} /\ phone'.network /\ activity # "failed" /\ UpToDate'
             /\ \A q \in Runs \ {r} : actors[q].at = "idle"
             /\ a.pass = 2 => s[1] # "Install" /\ "Install" \notin Range(s)
             /\ a.pass = 2 => StepsSuffice(s) /\ LeavesRest(s)
  <2>1. /\ RunProgress(a) /\ phone'.network /\ activity # "failed"
        /\ \A q \in Runs \ {r} : actors[q].at = "idle"
    BY <1>3, RunIs DEF a
  <2>2. a.pass \in {1, 2} /\ a.at \in Steps
    BY <2>1 DEF RunProgress, a
  <2>3. s[1] = "Install" \/ UpToDate
    BY <1>2, <2>1, <2>2 DEF RunProgress
  <2>4. UpToDate'
    BY <1>3, <2>3 DEF a
  <2>5. a.pass = 2 => "Install" \notin Range(s) /\ StepsSuffice(s) /\ LeavesRest(s)
    BY <2>1, <2>2 DEF RunProgress
  <2> QED  BY <1>2, <2>1, <2>2, <2>4, <2>5
<1>4. CASE rest # <<>>
  <2> DEFINE to == [a EXCEPT !.steps = rest, !.at = "apply"]
  <2>1. Move(r, to)
    BY <1>4 DEF StepDone, a
  <2>2. to \in ActorShape /\ to.at = "apply" /\ to.steps = rest /\ to.pass = a.pass /\ rest \in StepLists
    BY <1>1, <1>2, <1>4 DEF ActorShape, Steps, a
  <2> HIDE DEF to
  <2>3. actors'[r] = to
    BY <1>1, <2>1, <2>2, MoveIs
  <2>4. ASSUME ~ disturbed' PROVE RunProgress(actors[r])'
    <3>1. a.pass = 2 => StepsSuffice(actors[r].steps)'
      BY <1>2, <1>3, <2>2, <2>3, <2>4 DEF StepsSuffice, a
    <3>2. LeavesRest(actors[r].steps)'
      BY <1>2, <1>4, <2>2, <2>3 DEF LeavesRest
    <3> QED  BY <1>2, <1>3, <2>2, <2>3, <2>4, <3>1, <3>2 DEF RunProgress
  <2> QED  BY <1>1, <1>3, <2>1, <2>2, <2>4, RunIs, RunMoves
<1>5. CASE rest = <<>>
  <2> DEFINE then == IF s = <<"LaunchOnce">> THEN "settle" ELSE "read"
  <2> DEFINE to == [a EXCEPT !.steps = <<>>, !.pass = a.pass + 1, !.at = then]
  <2>1. Move(r, to)
    BY <1>5 DEF StepDone, a
  <2>2. a.pass + 1 \in 0 .. MaxPasses /\ then \in {"settle", "read"}
    BY <1>1
  <2> HIDE DEF then
  <2>3. to \in ActorShape /\ to.at = then /\ to.pass = a.pass + 1
    BY <1>1, <2>2 DEF ActorShape
  <2> HIDE DEF to
  <2>4. actors'[r] = to
    BY <1>1, <2>1, <2>3, MoveIs
  <2>5. ASSUME ~ disturbed' PROVE RunProgress(actors[r])'
    <3>1. CASE a.pass = 1
      BY <1>3, <2>2, <2>3, <2>4, <2>5, <3>1 DEF RunProgress
    <3>2. CASE a.pass = 2
      <4>1. StepsSuffice(s) /\ LeavesRest(s) /\ UpToDate'
        BY <1>3, <2>5, <3>2
      <4>2. CASE s = <<"LaunchOnce">>
        <5>1. s[1] = "LaunchOnce" /\ Range(s) = {"LaunchOnce"}
          BY <1>2, <1>5, <4>2 DEF Range
        <5>2. phone.granted /\ phone.exempt
          BY <4>1, <5>1 DEF StepsSuffice
        <5>3. SelfHealing'
          BY <2>5, <5>1, <5>2 DEF SelfHealing, a
        <5>4. then = "settle"
          BY <4>2 DEF then
        <5> QED  BY <2>3, <2>4, <3>2, <4>1, <5>3, <5>4 DEF RunProgress
      <4>3. CASE s = <<"ExemptDoze">>
        <5>1. s[1] = "ExemptDoze" /\ Range(s) = {"ExemptDoze"}
          BY <1>2, <1>5, <4>3 DEF Range
        <5>2. phone.granted /\ phone.service /\ phone.wifi /\ phone.usb
          BY <4>1, <5>1 DEF LeavesRest
        <5>3. Passes'
          BY <2>5, <4>1, <5>1, <5>2, PassesIs DEF Passes, UpToDate, a
        <5>4. then = "read"
          BY <4>3 DEF then
        <5> QED  BY <2>3, <2>4, <3>2, <4>1, <5>3, <5>4 DEF RunProgress
      <4> QED  BY <1>2, <1>5, <4>2, <4>3
    <3> QED  BY <1>3, <2>5, <3>1, <3>2
  <2> QED  BY <1>1, <1>3, <2>1, <2>2, <2>3, <2>5, RunIs, RunMoves
<1> QED  BY <1>4, <1>5

LEMMA PhoneRunStep == \A r \in Runs : PhoneInv /\ RunStep(r) => PhoneInv'
<1> SUFFICES ASSUME NEW r \in Runs, PhoneInv, RunStep(r) PROVE PhoneInv'
  OBVIOUS
<1> DEFINE s == actors[r].steps
<1>1. /\ actors[r].at = "apply" /\ UNCHANGED <<facts, activity, left>>
      /\ disturbed' = (disturbed \/ (s[1] = "LaunchOnce" /\ phone' = phone))
      /\ CASE s[1] = "Install" ->
                \/ /\ Refused(phone) /\ UNCHANGED phone
                   /\ Move(r, [actors[r] EXCEPT !.at = "uninstall"])
                \/ ~ Refused(phone) /\ phone' = Installed(phone) /\ StepDone(r)
           [] s[1] = "Grant" -> phone.installed /\ phone' = [phone EXCEPT !.granted = TRUE]
             /\ StepDone(r)
           [] s[1] = "ExemptDoze" -> phone.installed
             /\ phone' = [phone EXCEPT !.exempt = TRUE] /\ StepDone(r)
           [] s[1] = "LaunchOnce" -> phone.installed /\ phone' \in Launches(phone) /\ StepDone(r)
      /\ actors[r].at \in Steps
  BY DEF RunStep, Steps
<1>2. /\ s \in StepLists /\ phone \in PhoneShape /\ actors[r] \in ActorShape /\ r \in Actors
      /\ disturbed' \in BOOLEAN /\ (~ disturbed' => ~ disturbed) /\ facts.checks \subseteq Checks
      /\ left \in Nat /\ activity \in {"none", "provisioning", "provisioned", "failed"}
      /\ actors[r].pass < MaxPasses
  BY <1>1, RunIs
<1> HIDE DEF s
<1>3. s[1] \in {"Install", "Grant", "ExemptDoze", "LaunchOnce"} /\ s[1] \in Range(s)
  BY <1>2, ListFacts
<1>4. CASE /\ s[1] = "Install" /\ Refused(phone) /\ UNCHANGED phone
           /\ Move(r, [actors[r] EXCEPT !.at = "uninstall"])
  <2> DEFINE to == [actors[r] EXCEPT !.at = "uninstall"]
  <2>1. Move(r, to) /\ phone' = phone /\ phone.installed
    BY <1>4 DEF Refused
  <2>2. /\ to \in ActorShape /\ to.at = "uninstall" /\ to.steps = actors[r].steps
        /\ to.pass = actors[r].pass
    BY <1>2 DEF ActorShape, Steps
  <2> HIDE DEF to
  <2>3. actors'[r] = to
    BY <1>2, <2>1, <2>2, MoveIs DEF PhoneInv, PhoneShapes
  <2>4. ASSUME ~ disturbed PROVE RunProgress(actors[r])'
    <3>1. RunProgress(actors[r])
      BY <1>1, <2>4, RunIs
    <3>2. "Install" \in Range(actors[r].steps)
      BY <1>3, <1>4 DEF s
    <3> QED  BY <1>1, <1>2, <2>1, <2>2, <2>3, <3>1, <3>2 DEF RunProgress, Steps
  <2>5. ~ disturbed' => /\ ~ disturbed /\ phone'.network /\ activity' # "failed"
                        /\ RunProgress(actors[r])'
                        /\ \A q \in Runs \ {r} : actors[q].at = "idle"
    BY <1>1, <1>2, <2>1, <2>4, RunIs
  <2>6. to.steps[1] = "Install" /\ to.steps \in StepLists
    BY <1>2, <1>4, <2>2 DEF s
  <2> QED  BY <1>1, <1>2, <2>1, <2>2, <2>5, <2>6, RunMoves DEF Steps
<1>5. CASE s[1] = "Install" /\ phone' = Installed(phone) /\ StepDone(r)
  <2>1. /\ phone' \in PhoneShape /\ phone'.installed /\ phone'.version = Expected
        /\ phone'.network <=> phone.network
    BY <1>2, <1>5, StepsChange
  <2>2. UpToDate'
    BY <2>1, ProvisioningAssumption DEF UpToDate
  <2> QED  BY <1>1, <1>2, <1>5, <2>1, <2>2, RunGoesOn DEF s
<1>6. CASE s[1] = "Grant" /\ phone' = [phone EXCEPT !.granted = TRUE] /\ StepDone(r)
  <2>1. /\ phone' \in PhoneShape /\ (phone'.network <=> phone.network) /\ phone'.granted
        /\ (phone'.installed <=> phone.installed) /\ phone'.version = phone.version
        /\ (phone.exempt => phone'.exempt)
    BY <1>2, <1>6, StepsChange
  <2> QED  BY <1>1, <1>2, <1>6, <2>1, RunGoesOn DEF s, UpToDate
<1>7. CASE s[1] = "ExemptDoze" /\ phone' = [phone EXCEPT !.exempt = TRUE] /\ StepDone(r)
  <2>1. /\ phone' \in PhoneShape /\ (phone'.network <=> phone.network) /\ phone'.exempt
        /\ (phone'.installed <=> phone.installed) /\ phone'.version = phone.version
        /\ (phone.granted => phone'.granted) /\ (phone.service => phone'.service)
        /\ (phone'.wifi <=> phone.wifi) /\ (phone'.usb <=> phone.usb)
    BY <1>2, <1>7, StepsChange
  <2> QED  BY <1>1, <1>2, <1>7, <2>1, RunGoesOn DEF s, UpToDate
<1>8. CASE s[1] = "LaunchOnce" /\ phone' \in Launches(phone) /\ StepDone(r)
  <2>1. phone' = [Started(phone) EXCEPT !.front = TRUE] \/ phone' = phone
    BY <1>8 DEF Launches
  <2>2. /\ phone' \in PhoneShape /\ (phone'.network <=> phone.network)
        /\ (phone'.installed <=> phone.installed) /\ phone'.version = phone.version
        /\ (phone'.granted <=> phone.granted) /\ (phone'.exempt <=> phone.exempt)
        /\ phone' = phone \/ (phone'.service /\ phone'.due)
    <3>1. CASE phone' = phone
      BY <1>2, <3>1
    <3>2. CASE phone' = [Started(phone) EXCEPT !.front = TRUE]
      BY <1>2, <3>2, StepsChange
    <3> QED  BY <2>1, <3>1, <3>2
  <2> QED  BY <1>1, <1>2, <1>8, <2>2, RunGoesOn DEF s, UpToDate
<1> QED  BY <1>1, <1>3, <1>4, <1>5, <1>6, <1>7, <1>8


(* The second and the third command of an install that was refused.        *)
LEMMA PhoneReplaces == \A r \in Runs : PhoneInv /\ (Uninstalls(r) \/ Reinstalls(r)) => PhoneInv'
<1> SUFFICES ASSUME NEW r \in Runs, PhoneInv, Uninstalls(r) \/ Reinstalls(r) PROVE PhoneInv'
  OBVIOUS
<1>1. /\ actors[r].at \in {"uninstall", "reinstall"} /\ UNCHANGED <<facts, activity, disturbed, left>>
      /\ actors[r].at \in Steps
  BY DEF Uninstalls, Reinstalls, Steps
<1>2. /\ actors[r].steps \in StepLists /\ actors[r].steps[1] = "Install"
      /\ "Install" \in Range(actors[r].steps)
      /\ phone \in PhoneShape /\ actors[r] \in ActorShape /\ r \in Actors
      /\ disturbed \in BOOLEAN /\ facts.checks \subseteq Checks
      /\ left \in Nat /\ activity \in {"none", "provisioning", "provisioned", "failed"}
      /\ actors[r].pass < MaxPasses
  BY <1>1, RunIs, ListFacts
<1>3. CASE Uninstalls(r)
  <2> DEFINE to == [actors[r] EXCEPT !.at = "reinstall"]
  <2>1. phone' = Uninstalled(phone) /\ Move(r, to)
    BY <1>3 DEF Uninstalls
  <2>2. phone' \in PhoneShape /\ (phone'.network <=> phone.network)
    BY <1>2, <2>1, StepsChange
  <2>3. /\ to \in ActorShape /\ to.at = "reinstall" /\ to.steps = actors[r].steps
        /\ to.pass = actors[r].pass
    BY <1>2 DEF ActorShape, Steps
  <2> HIDE DEF to
  <2>4. actors'[r] = to
    BY <1>2, <2>1, <2>3, MoveIs DEF PhoneInv, PhoneShapes
  <2>5. ASSUME ~ disturbed PROVE RunProgress(actors[r])'
    <3>1. RunProgress(actors[r])
      BY <1>1, <2>5, RunIs DEF Steps
    <3> QED  BY <1>1, <1>2, <2>3, <2>4, <3>1 DEF RunProgress, Steps
  <2>6. ~ disturbed' => /\ ~ disturbed /\ phone'.network /\ activity' # "failed"
                        /\ RunProgress(actors[r])'
                        /\ \A q \in Runs \ {r} : actors[q].at = "idle"
    BY <1>1, <1>2, <2>2, <2>5, RunIs DEF Steps
  <2> QED  BY <1>1, <1>2, <2>1, <2>2, <2>3, <2>6, RunMoves DEF Steps
<1>4. CASE Reinstalls(r)
  <2>1. phone' = Installed(phone) /\ StepDone(r)
    BY <1>4 DEF Reinstalls
  <2>2. /\ phone' \in PhoneShape /\ phone'.installed /\ phone'.version = Expected
        /\ phone'.network <=> phone.network
    BY <1>2, <2>1, StepsChange
  <2>3. UpToDate'
    BY <2>2, ProvisioningAssumption DEF UpToDate
  <2> QED  BY <1>1, <1>2, <2>1, <2>2, <2>3, RunGoesOn
<1> QED  BY <1>3, <1>4

(* No package is gone under an undisturbed run.                            *)
LEMMA PhonePackageGone == \A r \in Runs : PhoneInv /\ PackageGone(r) => PhoneInv'
<1> SUFFICES ASSUME NEW r \in Runs, PhoneInv, PackageGone(r) PROVE PhoneInv'
  OBVIOUS
<1> DEFINE s == actors[r].steps
<1>1. /\ actors[r].at \in Steps /\ actors[r].at # "idle" /\ ~ phone.installed
      /\ actors[r].at = "uninstall" \/ s[1] # "Install"
      /\ UNCHANGED <<phone, facts, disturbed, left>>
  BY DEF PackageGone, Steps
<1>2. s \in StepLists
  BY <1>1, RunIs
<1> HIDE DEF s
<1>3. s[1] # "Install" => "Install" \notin Range(s)
  BY <1>1, <1>2, ListFacts
<1>4. ASSUME ~ disturbed PROVE FALSE
  <2>1. RunProgress(actors[r])
    BY <1>1, <1>4, RunIs
  <2> QED  BY <1>1, <1>3, <2>1 DEF RunProgress, UpToDate, s
<1>5. /\ facts.checks \subseteq Checks /\ left \in Nat /\ disturbed \in BOOLEAN
      /\ phone \in PhoneShape
  BY DEF PhoneInv, PhoneShapes
<1>6. CASE Ends(r, "failed")
  BY <1>1, <1>4, <1>5, <1>6, RunEnds
<1>7. CASE StepDone(r) /\ UNCHANGED activity
  BY <1>1, <1>4, <1>5, <1>7, RunGoesOn
<1> QED  BY <1>6, <1>7 DEF PackageGone

-----------------------------------------------------------------------------
(* The phone, step by step.                                                *)
LEMMA PhoneStep == PhoneInv /\ [ProvisioningNext]_provisioningVars => PhoneInv'
<1> SUFFICES ASSUME PhoneInv, [ProvisioningNext]_provisioningVars PROVE PhoneInv'
  OBVIOUS
<1>1. ASSUME NEW r \in Runs, \/ Provisions(r) \/ RunStep(r) \/ Uninstalls(r) \/ Reinstalls(r)
                              \/ SettleEnds(r) \/ PackageGone(r)
      PROVE  PhoneInv'
  BY <1>1, PhoneProvisions, PhoneRunStep, PhoneReplaces, PhoneSettles, PhonePackageGone
<1>2. ASSUME NEW a \in Actors,
             ReadAgentStatus(a) \/ Converge(a) \/ CommandFails(a) \/ CommandTimesOut(a)
      PROVE  PhoneInv'
  BY <1>2, PhoneRead, PhoneConverges, PhoneCommandFails
<1>3. CASE UNCHANGED provisioningVars
  <2> USE <1>3 DEF provisioningVars
  <2>1. PhoneShapes'
    BY DEF PhoneInv, PhoneShapes
  <2>2. ASSUME NEW r \in Runs, RunProgress(actors[r]) PROVE RunProgress(actors[r])'
    BY <2>2 DEF RunProgress, AnswerHolds, UpToDate, StepsSuffice, LeavesRest, SelfHealing, Passes
  <2>3. Undisturbed'
    BY <2>2 DEF PhoneInv, Undisturbed
  <2> QED  BY <2>1, <2>3 DEF PhoneInv
<1> QED  BY <1>1, <1>2, <1>3, PhoneRefreshes, PhoneReconcile, PhoneRecovers, PhoneMishaps
              DEF ProvisioningNext

(* What a run last said of the phone is true while nothing has happened.   *)
Truthful ==
  ~ disturbed /\ activity = "provisioned" => Passes /\ \A r \in Runs : actors[r].at = "idle"

(* The agent by itself only makes the phone better.                        *)
LEMMA PassesOn ==
  ASSUME PhoneInv, Reconcile \/ Tick \/ NetworkAvailable \/ Recreated, Passes
  PROVE  Passes'
<1>1. phone \in PhoneShape
  BY DEF PhoneInv, PhoneShapes
<1>2. phone.installed /\ phone.granted /\ phone.wifi /\ phone.usb /\ phone.exempt /\ phone.service
  BY <1>1, PassesIs DEF Passes
<1>3. /\ phone' \in PhoneShape
      /\ phone'.installed /\ phone'.granted /\ phone'.wifi /\ phone'.usb /\ phone'.exempt
      /\ phone'.service
  <2>1. CASE Reconcile
    <3> DEFINE wifi == phone.wifi \/ (phone.granted /\ phone.network)
    <3> DEFINE usb == phone.usb \/ phone.granted
    <3> DEFINE due == <<wifi, usb>> # <<phone.wifi, phone.usb>>
    <3>1. phone' = [phone EXCEPT !.wifi = wifi, !.usb = usb, !.due = due]
      BY <2>1 DEF Reconcile, PhoneBecomes
    <3>2. wifi = TRUE /\ usb = TRUE /\ due \in BOOLEAN
      BY <1>1, <1>2 DEF PhoneShape
    <3> HIDE DEF wifi, usb, due
    <3> QED  BY <1>1, <1>2, <3>1, <3>2 DEF PhoneShape
  <2>2. CASE Tick
    <3>1. phone' = [phone EXCEPT !.due = TRUE]
      BY <2>2 DEF Tick, PhoneBecomes
    <3> QED  BY <1>1, <1>2, <3>1 DEF PhoneShape
  <2>3. CASE NetworkAvailable
    <3>1. phone' = [phone EXCEPT !.network = TRUE, !.due = phone.service]
      BY <2>3 DEF NetworkAvailable, PhoneBecomes
    <3> QED  BY <1>1, <1>2, <3>1 DEF PhoneShape
  <2>4. CASE Recreated
    BY <1>2, <2>4 DEF Recreated
  <2> QED  BY <2>1, <2>2, <2>3, <2>4
<1>4. IsHealthy(AgentStatus(phone'))
  BY <1>3, PassesIs
<1> QED  BY <1>4 DEF Passes, AgentStatus

LEMMA TruthInit == PagesInit => Truthful
  BY DEF PagesInit, ProvisioningInit, Truthful

LEMMA TruthStep == PhoneInv /\ Truthful /\ [ProvisioningNext]_provisioningVars => Truthful'
<1> SUFFICES ASSUME PhoneInv, Truthful, [ProvisioningNext]_provisioningVars,
                    ~ disturbed', activity' = "provisioned"
             PROVE  Passes' /\ \A r \in Runs : actors'[r].at = "idle"
  BY DEF Truthful
<1> USE DEF PhoneInv
<1>0. actors \in [Actors -> ActorShape]
  BY DEF PhoneShapes
<1>1. ASSUME NEW r \in Runs, Provisions(r) PROVE FALSE
  BY <1>1 DEF Provisions
<1>2. ASSUME NEW r \in Runs, actors[r].at # "idle", UNCHANGED activity, ~ disturbed PROVE FALSE
  BY <1>2 DEF Truthful
<1>3. ASSUME NEW r \in Runs, \/ RunStep(r) \/ Uninstalls(r) \/ Reinstalls(r)
                             \/ SettleEnds(r) \/ PackageGone(r)
      PROVE  FALSE
  <2>1. actors[r].at # "idle" /\ ~ disturbed
    <3>1. CASE RunStep(r)
      BY <3>1 DEF RunStep
    <3>2. CASE Uninstalls(r) \/ Reinstalls(r)
      BY <3>2 DEF Uninstalls, Reinstalls
    <3>3. CASE SettleEnds(r) \/ PackageGone(r)
      BY <3>3 DEF SettleEnds, PackageGone
    <3> QED  BY <1>3, <3>1, <3>2, <3>3
  <2>2. ~ Ends(r, "failed")
    BY DEF Ends
  <2>3. UNCHANGED activity
    BY <1>3, <2>2 DEF RunStep, Uninstalls, Reinstalls, SettleEnds, PackageGone
  <2> QED  BY <1>2, <2>1, <2>3
<1>4. CASE Refreshes
  <2>1. Move(Reader, [IdleActor EXCEPT !.at = "read"]) /\ UNCHANGED <<phone, activity, disturbed>>
    BY <1>4 DEF Refreshes
  <2>2. \A r \in Runs : actors'[r] = actors[r]
    BY <1>0, <2>1, ActorIs DEF Move
  <2> QED  BY <2>1, <2>2 DEF Truthful, Passes
<1>5. ASSUME NEW a \in Actors, ReadAgentStatus(a) PROVE Passes' /\ \A r \in Runs : actors'[r].at = "idle"
  <2>1. actors[a].at = "read" /\ UNCHANGED <<phone, activity, disturbed>>
        /\ Move(a, [actors[a] EXCEPT !.at = "answer", !.copy = AgentStatus(phone)])
    BY <1>5 DEF ReadAgentStatus
  <2>2. a \notin Runs
    BY <1>2, <2>1
  <2>3. \A r \in Runs : actors'[r] = actors[r]
    BY <1>0, <2>1, <2>2, ActorIs DEF Move
  <2> QED  BY <2>1, <2>3 DEF Truthful, Passes
<1>6. ASSUME NEW a \in Actors, Converge(a) PROVE Passes' /\ \A r \in Runs : actors'[r].at = "idle"
  <2>1. actors[a].at = "answer" /\ UNCHANGED <<phone, disturbed>>
    BY <1>6 DEF Converge
  <2>2. CASE a = Reader
    <3>1. Move(a, IdleActor) /\ UNCHANGED activity
      BY <1>6, <2>2 DEF Converge
    <3>2. \A r \in Runs : actors'[r] = actors[r]
      BY <1>0, <2>2, <3>1, ActorIs DEF Move
    <3> QED  BY <2>1, <3>1, <3>2 DEF Truthful, Passes
  <2>3. CASE a \in Runs
    <3>1. a # Reader /\ ~ UNCHANGED activity
      BY <1>2, <2>1, <2>3, ActorIs
    <3>2. IsHealthy(actors[a].copy) /\ Ends(a, "provisioned")
      BY <1>6, <3>1 DEF Converge, Ends
    <3>3. AnswerHolds(actors[a].copy) /\ \A q \in Runs \ {a} : actors[q].at = "idle"
      BY <2>1, <2>3, RunIs DEF RunProgress
    <3>4. Passes
      BY <3>2, <3>3, HealthyIs, PassesIs DEF AnswerHolds, Passes, PhoneShapes
    <3>5. \A r \in Runs : actors'[r].at = "idle"
      BY <1>0, <3>2, <3>3, ActorIs DEF Ends, Move
    <3> QED  BY <2>1, <3>4, <3>5 DEF Passes
  <2> QED  BY <2>2, <2>3 DEF Actors
<1>7. ASSUME NEW a \in Actors, CommandFails(a) \/ CommandTimesOut(a) PROVE FALSE
  BY <1>7 DEF CommandFails, CommandTimesOut, Undisturbed
<1>8. CASE Reconcile \/ Tick \/ NetworkAvailable \/ Recreated
  <2>1. UNCHANGED <<actors, activity, disturbed>>
    BY <1>8 DEF Reconcile, Tick, NetworkAvailable, Recreated, PhoneBecomes
  <2>2. Passes /\ \A r \in Runs : actors[r].at = "idle"
    BY <2>1 DEF Truthful
  <2> QED  BY <1>8, <2>1, <2>2, PassesOn
<1>9. CASE SettingCleared \/ NetworkLost \/ Killed \/ Reboots
  BY <1>9 DEF SettingCleared, NetworkLost, Killed, Reboots, Mishap
<1>10. CASE UNCHANGED provisioningVars
  BY <1>10 DEF provisioningVars, Truthful, Passes
<1> QED  BY <1>1, <1>3, <1>4, <1>5, <1>6, <1>7, <1>8, <1>9, <1>10 DEF ProvisioningNext

LEMMA PhoneTypes == PhoneInv => ProvisioningTypeOK
<1> SUFFICES ASSUME PhoneInv PROVE ProvisioningTypeOK
  OBVIOUS
<1>1. \A f \in DOMAIN phone \ {"version"} : phone[f] \in BOOLEAN
  BY DEF PhoneInv, PhoneShapes, PhoneShape
<1>2. ASSUME NEW a \in Actors
      PROVE  /\ actors[a].at \in {"idle", "read", "answer", "settle"} \union Steps
             /\ actors[a].pass \in 0 .. MaxPasses
             /\ actors[a].at \in Steps => actors[a].steps # <<>>
  <2>1. actors[a] \in ActorShape
    BY DEF PhoneInv, PhoneShapes
  <2> QED  BY <2>1, ListFacts DEF PhoneInv, PhoneShapes, ActorShape
<1> QED  BY <1>1, <1>2 DEF ProvisioningTypeOK, PhoneInv, PhoneShapes

-----------------------------------------------------------------------------
(* The two scenes.                                                         *)

ScenesInv == scene \in {"feed", "phone"} /\ PhoneInv /\ Truthful /\ FeedInv

(* In the phone's scene the feed is one that nobody looks at.              *)
LEMMA ScenesInit == PagesInit => ScenesInv
<1> SUFFICES ASSUME PagesInit PROVE FeedInv /\ scene \in {"feed", "phone"}
  BY PhoneInit, TruthInit DEF ScenesInv
<1>1. CASE Init
  BY <1>1, InvInit DEF PagesInit
<1>2. CASE /\ scene = "phone"
           /\ kind = "logs" /\ epoch = 0 /\ nextId = 0 /\ buffer = <<>> /\ current = NoTable
           /\ tail = Closed /\ page = "gone" /\ answer = None /\ table = NoTable
           /\ lines = <<>> /\ pending = <<>> /\ seen = None /\ status = "connecting" /\ lost = {}
           /\ spent = [emits |-> 0, drops |-> 0, restarts |-> 0]
  <2> USE <1>2, FeedAssumption
  <2>1. NoTable \in Rows /\ \A k \in Key : NoTable[k] = None
    BY DEF NoTable, Rows
  <2>2. tail.at = "closed" /\ tail.rest = <<>>
        /\ tail \in [at : {"closed", "replaying", "live"}, rest : Seq(Entry)]
    BY DEF Closed
  <2>3. "logs" \in Kinds
    BY DEF Kinds, Stream
  <2>4. spent \in [emits : Nat, drops : Nat, restarts : Nat] /\ spent.emits = 0 /\ spent.restarts = 0
    OBVIOUS
  <2>5. Shapes
    BY <2>1, <2>2, <2>3, <2>4 DEF Shapes
  <2>6. PageRules
    BY <2>1, <2>2 DEF PageRules, Unkept, Listed
  <2>7. StreamRules
    BY <2>1 DEF StreamRules, Unkept
  <2>8. RestRules /\ SeenRules
    BY <2>2 DEF RestRules, SeenRules, Past
  <2>9. OrderRules
    BY DEF OrderRules, Ordered, Precedes, UpTo
  <2>10. TableRules /\ ListRules
    BY <2>1, <2>2 DEF TableRules, ListRules
  <2> QED  BY <2>5, <2>6, <2>7, <2>8, <2>9, <2>10 DEF FeedInv
<1> QED  BY <1>1, <1>2 DEF PagesInit

LEMMA ScenesStep == ScenesInv /\ [PagesNext]_pagesVars => ScenesInv'
<1> SUFFICES ASSUME ScenesInv, [PagesNext]_pagesVars PROVE ScenesInv'
  OBVIOUS
<1>1. UNCHANGED scene /\ [Next]_vars /\ [ProvisioningNext]_provisioningVars
  BY DEF PagesNext, pagesVars
<1> QED  BY <1>1, InvStep, PhoneStep, TruthStep DEF ScenesInv

LEMMA ScenesInvariant == PagesSpec => []ScenesInv
  BY ScenesInit, ScenesStep, PTL DEF PagesSpec

(* Every variable of the feeds and of the phone keeps its shape, for any   *)
(* keys, limits, phones and runs (the streams, `converge`).                *)
THEOREM PagesTypeCorrect == PagesSpec => []TypesOK
<1>1. ScenesInv => TypesOK
  BY InvTypes, PhoneTypes DEF ScenesInv, TypesOK
<1> QED  BY <1>1, ScenesInvariant, PTL

(* A settled page shows what is true, and no toast or line twice, for any  *)
(* history, replay window, log limit and number of drops and restarts      *)
(* (tracked, resume, LogFeed).                                             *)
THEOREM FeedsAlwaysExact == PagesSpec => []FeedsAreExact
<1>1. ScenesInv => FeedsAreExact
  BY InvSettles, InvOnce DEF ScenesInv, FeedsAreExact
<1> QED  BY <1>1, ScenesInvariant, PTL

(* Three passes are enough for a run that meets no mishap, whatever phone  *)
(* with a network it finds, and a phone that is said to be provisioned     *)
(* passes every check for as long as nothing happens to it (`converge`,    *)
(* `plan`).                                                                *)
THEOREM ProvisioningAlwaysHonest == PagesSpec => []ProvisioningIsHonest
<1>1. ScenesInv => ProvisioningIsHonest
  BY DEF ScenesInv, PhoneInv, Undisturbed, Truthful, Passes, ProvisioningIsHonest,
     UndisturbedProvisioningSucceeds
<1> QED  BY <1>1, ScenesInvariant, PTL

=============================================================================
