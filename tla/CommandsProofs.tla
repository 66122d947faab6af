--------------------------- MODULE CommandsProofs ---------------------------
(***************************************************************************)
(* Proofs about what the service does for its operators: what is told of a *)
(* trip (Notifier), a connection attempt (AdbConnection) and a pipeline or *)
(* a workflow (Workflow), each proved on its own for every instance of it, *)
(* and at the end as the scenes of Operations.                             *)
(***************************************************************************)
EXTENDS Operations, FiniteSetTheorems, SequenceTheorems, WellFoundedInduction, TLAPS

(***************************************************************************)
(* Notifications.                                                          *)
(***************************************************************************)
PostState == {"waiting", "skipped", "sent", "failed"}
DispatchShape ==
  [wire : Wire, lifecycle : Lifecycle, step : {"describing", "posting", "done"},
   described : BOOLEAN, posts : UNION {[S -> PostState] : S \in SUBSET Rule}]
NoticeShape ==
  [dispatch : Nat, wire : Wire, lifecycle : Lifecycle, rule : Rule,
   labelled : BOOLEAN, slack : PostState]

(* The shape of every variable.                                            *)
Shapes ==
  /\ slackActive \in BOOLEAN /\ policy \in [Rule -> SUBSET Lifecycle]
  /\ state \in [Wire -> WireState] /\ statusRow \in [Wire -> WireState \union {"none"}]
  /\ activityRow \in WireState \union {"none"}
  /\ dispatches \in Seq(DispatchShape) /\ notices \in Seq(NoticeShape)
  /\ logged \in Nat /\ moves \in 0 .. MaxMoves

(* Once its entity is described, a dispatch posts for exactly the rules    *)
(* that are for its lifecycle, to Slack when Slack is active, and it is    *)
(* over only when none of them waits.                                      *)
PostsMatch ==
  \A i \in DOMAIN dispatches :
    /\ dispatches[i].step = "describing" => DOMAIN dispatches[i].posts = {}
    /\ dispatches[i].step # "describing" =>
         DOMAIN dispatches[i].posts = Matching(dispatches[i].lifecycle)
    /\ dispatches[i].step = "done" =>
         \A r \in DOMAIN dispatches[i].posts : dispatches[i].posts[r] # "waiting"
    /\ \A r \in DOMAIN dispatches[i].posts : (dispatches[i].posts[r] = "skipped") = ~ slackActive

(* A notification is one of a dispatch that is over, and says how its post *)
(* went.                                                                   *)
NoticesStem ==
  \A n \in DOMAIN notices :
    /\ notices[n].dispatch \in DOMAIN dispatches
    /\ dispatches[notices[n].dispatch].step = "done"
    /\ notices[n].rule \in DOMAIN dispatches[notices[n].dispatch].posts
    /\ notices[n].slack = dispatches[notices[n].dispatch].posts[notices[n].rule]

(* No two notifications of a dispatch are of the same rule, and none is    *)
(* left out.                                                               *)
NoticesOnce ==
  \A m, n \in DOMAIN notices :
    notices[m].dispatch = notices[n].dispatch /\ notices[m].rule = notices[n].rule => m = n
NoticesAll ==
  \A i \in DOMAIN dispatches : dispatches[i].step = "done" =>
    \A r \in DOMAIN dispatches[i].posts :
      \E n \in DOMAIN notices : notices[n].dispatch = i /\ notices[n].rule = r

(* The log has one error per failed post, of all dispatches.               *)
FailedPosts ==
  {p \in (DOMAIN dispatches) \X Rule :
     p[2] \in DOMAIN dispatches[p[1]].posts /\ dispatches[p[1]].posts[p[2]] = "failed"}
LogCounts == IsFiniteSet(FailedPosts) /\ logged = Cardinality(FailedPosts)

RowsFollow == \A w \in Wire : statusRow[w] \in {state[w], "none"}

NotifierInv ==
  /\ Shapes /\ PostsMatch /\ NoticesStem /\ NoticesOnce /\ NoticesAll /\ LogCounts /\ RowsFollow

-----------------------------------------------------------------------------
(* The order in which the rules of a dispatch are published lists each     *)
(* once.                                                                   *)
LEMMA OrderLists ==
  ASSUME NEW S \in SUBSET Rule
  PROVE  LET order == CHOOSE s \in OrdersOf(S) : TRUE IN
         /\ Cardinality(S) \in Nat
         /\ order \in [1 .. Cardinality(S) -> S]
         /\ \A a, b \in 1 .. Cardinality(S) : order[a] = order[b] => a = b
         /\ \A r \in S : \E a \in 1 .. Cardinality(S) : order[a] = r
<1> DEFINE order == CHOOSE s \in OrdersOf(S) : TRUE
<1> DEFINE C == Cardinality(S)
<1>1. IsFiniteSet(S)
  BY NotifierAssumption, FS_Subset
<1>2. C \in Nat /\ ExistsBijection(1 .. C, S)
  BY <1>1, FS_CardinalityType
<1>3. PICK f \in Bijection(1 .. C, S) : TRUE
  BY <1>2 DEF ExistsBijection
<1>4. f \in OrdersOf(S)
  BY <1>3 DEF Bijection, Injection, OrdersOf, IsInjective
<1>5. order \in OrdersOf(S)
  BY <1>4
<1>6. order \in [1 .. C -> S] /\ \A a, b \in 1 .. C : order[a] = order[b] => a = b
  BY <1>5 DEF OrdersOf
<1>7. order \in Injection(1 .. C, S)
  BY <1>6 DEF Injection, IsInjective
<1>8. Cardinality(1 .. C) = C
  BY <1>2, FS_Interval
<1>9. order \in Surjection(1 .. C, S)
  BY <1>1, <1>7, <1>8, FS_Injection
<1> QED  BY <1>2, <1>6, <1>9 DEF Surjection


(* What appending to a sequence and replacing an element of it do.         *)
LEMMA Appended ==
  ASSUME NEW S, NEW seq \in Seq(S), NEW x \in S
  PROVE  /\ Append(seq, x) \in Seq(S)
         /\ DOMAIN seq \subseteq DOMAIN Append(seq, x)
         /\ \A i \in DOMAIN seq : Append(seq, x)[i] = seq[i]
         /\ \A i \in DOMAIN Append(seq, x) : i \in DOMAIN seq \/ Append(seq, x)[i] = x
  OBVIOUS

LEMMA OneReplaced ==
  ASSUME NEW S, NEW seq \in Seq(S), NEW i \in DOMAIN seq, NEW x \in S
  PROVE  /\ [seq EXCEPT ![i] = x] \in Seq(S)
         /\ DOMAIN [seq EXCEPT ![i] = x] = DOMAIN seq
         /\ [seq EXCEPT ![i] = x][i] = x
         /\ \A j \in DOMAIN seq : j # i => [seq EXCEPT ![i] = x][j] = seq[j]
  OBVIOUS

LEMMA InvInit == NotifierInit => NotifierInv
<1> SUFFICES ASSUME NotifierInit PROVE NotifierInv
  OBVIOUS
<1> USE NotifierAssumption DEF NotifierInit
<1>1. Shapes
  BY DEF Shapes, WireState
<1>2. DOMAIN dispatches = {} /\ DOMAIN notices = {}
  OBVIOUS
<1>3. FailedPosts = {}
  BY <1>2 DEF FailedPosts
<1>4. LogCounts
  BY <1>3, FS_EmptySet DEF LogCounts
<1>5. RowsFollow
  BY DEF RowsFollow
<1> QED  BY <1>1, <1>2, <1>4, <1>5 DEF NotifierInv, PostsMatch, NoticesStem, NoticesOnce, NoticesAll

(* A transition of a tripwire: a new dispatch has posted nothing yet.      *)
LEMMA InvMoves ==
  ASSUME NotifierInv, NEW w \in Wire, NEW s \in WireState, Moves(w, s)
  PROVE  NotifierInv'
<1> DEFINE l == CHOOSE l \in LifecycleOf(s) : TRUE
<1>1. LifecycleOf(s) # {} => l \in Lifecycle
  BY DEF LifecycleOf, Lifecycle
<1>2. LifecycleOf(s) # {} => NewDispatch(w, l) \in DispatchShape
  <2> DEFINE none == [r \in {} |-> "none"]
  <2>1. none \in [{} -> PostState]
    OBVIOUS
  <2>2. none \in UNION {[S -> PostState] : S \in SUBSET Rule}
    BY <2>1
  <2>3. NewDispatch(w, l) =
          [wire |-> w, lifecycle |-> l, step |-> "describing", described |-> FALSE, posts |-> none]
    BY Zenon DEF NewDispatch
  <2> HIDE DEF none, l
  <2>4. ASSUME l \in Lifecycle
        PROVE  [wire |-> w, lifecycle |-> l, step |-> "describing", described |-> FALSE, posts |-> none]
                 \in DispatchShape
    BY <2>2, <2>4 DEF DispatchShape
  <2> QED  BY <1>1, <2>3, <2>4
<1>3. \/ dispatches' = dispatches
      \/ dispatches' = Append(dispatches, NewDispatch(w, l)) /\ NewDispatch(w, l) \in DispatchShape
  BY <1>2 DEF Moves
<1> HIDE DEF l
<1>4. Shapes'
  <2>1. dispatches' \in Seq(DispatchShape)
    BY SMTT(30), <1>3, Appended DEF NotifierInv, Shapes
  <2> QED  BY <2>1, NotifierAssumption DEF NotifierInv, Moves, Shapes
<1>5. /\ DOMAIN dispatches \subseteq DOMAIN dispatches'
      /\ \A i \in DOMAIN dispatches : dispatches'[i] = dispatches[i]
      /\ \A i \in DOMAIN dispatches' : i \in DOMAIN dispatches \/ dispatches'[i] = NewDispatch(w, l)
  <2>1. dispatches \in Seq(DispatchShape)
    BY DEF NotifierInv, Shapes
  <2>2. CASE dispatches' = dispatches
    BY <2>2
  <2>3. CASE dispatches' = Append(dispatches, NewDispatch(w, l)) /\ NewDispatch(w, l) \in DispatchShape
    BY <2>1, <2>3, Appended
  <2> QED  BY <1>3, <2>2, <2>3
<1>6. PostsMatch'
  BY <1>5 DEF NotifierInv, PostsMatch, Moves, NewDispatch, Matching
<1>7. NoticesStem' /\ NoticesOnce' /\ NoticesAll'
  BY <1>5 DEF NotifierInv, NoticesStem, NoticesOnce, NoticesAll, Moves, NewDispatch
<1>8. FailedPosts' = FailedPosts
  BY <1>5 DEF FailedPosts, NewDispatch
<1>9. LogCounts'
  BY <1>8 DEF NotifierInv, LogCounts, Moves
<1>10. RowsFollow'
  BY DEF NotifierInv, Shapes, RowsFollow, Moves
<1> QED  BY <1>4, <1>6, <1>7, <1>9, <1>10 DEF NotifierInv

(* The posts of a dispatch leave: none has failed, and it is not over.     *)
LEMMA InvDescribed ==
  ASSUME NotifierInv, NEW i \in DOMAIN dispatches, NEW readable \in BOOLEAN, Described(i, readable)
  PROVE  NotifierInv'
<1> DEFINE posts == [r \in Matching(dispatches[i].lifecycle) |->
                      IF slackActive THEN "waiting" ELSE "skipped"]
<1>1. posts \in UNION {[S -> PostState] : S \in SUBSET Rule}
  <2>1. Matching(dispatches[i].lifecycle) \in SUBSET Rule
    BY DEF Matching
  <2>2. posts \in [Matching(dispatches[i].lifecycle) -> PostState]
    BY DEF PostState
  <2> QED  BY <2>1, <2>2
<1>2. dispatches[i] \in DispatchShape
  BY DEF NotifierInv, Shapes
<1>3. /\ dispatches[i].step = "describing"
      /\ DOMAIN dispatches' = DOMAIN dispatches
      /\ \A j \in DOMAIN dispatches : j # i => dispatches'[j] = dispatches[j]
      /\ dispatches'[i] =
           [dispatches[i] EXCEPT !.step = "posting", !.described = readable, !.posts = posts]
  BY DEF NotifierInv, Shapes, Described
<1>4. /\ dispatches'[i] \in DispatchShape
      /\ dispatches'[i].step = "posting" /\ dispatches'[i].posts = posts
      /\ dispatches'[i].lifecycle = dispatches[i].lifecycle
  BY <1>1, <1>2, <1>3 DEF DispatchShape
<1>5. dispatches' \in Seq(DispatchShape)
  <2>1. dispatches' = [dispatches EXCEPT ![i] = dispatches'[i]]
    BY <1>3 DEF NotifierInv, Shapes, Described
  <2>2. dispatches \in Seq(DispatchShape) /\ dispatches'[i] \in DispatchShape
    BY <1>4 DEF NotifierInv, Shapes
  <2> DEFINE d == dispatches'[i]
  <2> HIDE DEF d
  <2>3. [dispatches EXCEPT ![i] = d] \in Seq(DispatchShape)
    BY <2>2, OneReplaced DEF d
  <2> QED  BY <2>1, <2>3 DEF d
<1>6. Shapes'
  BY <1>5 DEF NotifierInv, Shapes, Described
<1>7. /\ DOMAIN posts = Matching(dispatches[i].lifecycle)
      /\ \A r \in DOMAIN posts : (posts[r] = "skipped") = ~ slackActive /\ posts[r] # "failed"
  BY DEF NotifierInv, Shapes
<1> HIDE DEF posts
<1>8. PostsMatch'
  BY <1>3, <1>4, <1>7 DEF NotifierInv, PostsMatch, Described, Matching
<1>9. NoticesStem' /\ NoticesOnce' /\ NoticesAll'
  BY <1>3, <1>4 DEF NotifierInv, NoticesStem, NoticesOnce, NoticesAll, Described
<1>10. FailedPosts' = FailedPosts
  <2>1. ASSUME NEW p \in (DOMAIN dispatches) \X Rule
        PROVE  p \in FailedPosts' <=> p \in FailedPosts
    <3>1. CASE p[1] = i
      <4>1. p \notin FailedPosts'
        BY <1>3, <1>4, <1>7, <3>1 DEF FailedPosts
      <4>2. p \notin FailedPosts
        BY <1>3, <3>1 DEF FailedPosts, NotifierInv, PostsMatch
      <4> QED  BY <4>1, <4>2
    <3>2. CASE p[1] # i
      BY <1>3, <3>2 DEF FailedPosts
    <3> QED  BY <3>1, <3>2
  <2> QED  BY <1>3, <2>1 DEF FailedPosts
<1>11. LogCounts' /\ RowsFollow'
  BY <1>10 DEF NotifierInv, LogCounts, RowsFollow, Described
<1> QED  BY <1>6, <1>8, <1>9, <1>11 DEF NotifierInv

(* An answer of Slack: a failure is one more failed post and one more line *)
(* of the log.                                                             *)
LEMMA InvPostAnswered ==
  ASSUME NotifierInv, NEW i \in DOMAIN dispatches, NEW r \in Rule, NEW ok \in BOOLEAN,
         PostAnswered(i, r, ok)
  PROVE  NotifierInv'
<1> DEFINE said == IF ok THEN "sent" ELSE "failed"
<1> DEFINE posts == [dispatches[i].posts EXCEPT ![r] = said]
<1>1. dispatches[i] \in DispatchShape
  BY DEF NotifierInv, Shapes
<1>2. PICK S \in SUBSET Rule : dispatches[i].posts \in [S -> PostState]
  BY <1>1 DEF DispatchShape
<1>3. r \in S /\ dispatches[i].posts[r] = "waiting" /\ dispatches[i].step = "posting"
  BY <1>2 DEF PostAnswered
<1>4. posts \in [S -> PostState]
  BY <1>2 DEF PostState
<1>5. posts \in UNION {[T -> PostState] : T \in SUBSET Rule}
  BY <1>4
<1>6. /\ DOMAIN posts = DOMAIN dispatches[i].posts
      /\ posts[r] = said
      /\ \A q \in DOMAIN posts : q # r => posts[q] = dispatches[i].posts[q]
  BY <1>2, <1>3
<1>7. /\ DOMAIN dispatches' = DOMAIN dispatches
      /\ \A j \in DOMAIN dispatches : j # i => dispatches'[j] = dispatches[j]
  BY DEF NotifierInv, Shapes, PostAnswered
<1>8. dispatches'[i] = [dispatches[i] EXCEPT !.posts = posts]
  BY DEF NotifierInv, Shapes, PostAnswered
<1> HIDE DEF posts
<1>9. /\ dispatches'[i] \in DispatchShape
      /\ dispatches'[i].step = "posting" /\ dispatches'[i].posts = posts
      /\ dispatches'[i].lifecycle = dispatches[i].lifecycle
  BY <1>1, <1>3, <1>5, <1>8 DEF DispatchShape
<1>10. dispatches' \in Seq(DispatchShape)
  BY <1>7, <1>9 DEF NotifierInv, Shapes, PostAnswered
<1>11. Shapes'
  BY <1>10 DEF NotifierInv, Shapes, PostAnswered
<1>12. (dispatches[i].posts[r] = "skipped") = ~ slackActive
  BY <1>2, <1>3 DEF NotifierInv, PostsMatch
<1>13. PostsMatch'
  <2>1. \A j \in DOMAIN dispatches : j # i =>
          dispatches'[j] = dispatches[j]
    BY <1>7
  <2>2. \A q \in DOMAIN posts : (posts[q] = "skipped") = ~ slackActive
    BY <1>3, <1>6, <1>12 DEF NotifierInv, PostsMatch
  <2> QED  BY <1>3, <1>6, <1>7, <1>9, <2>1, <2>2 DEF NotifierInv, PostsMatch, PostAnswered, Matching
<1>14. NoticesStem' /\ NoticesOnce' /\ NoticesAll'
  BY <1>3, <1>7, <1>9 DEF NotifierInv, NoticesStem, NoticesOnce, NoticesAll, PostAnswered
<1>15. LogCounts'
  <2>1. <<i, r>> \notin FailedPosts
    BY <1>3 DEF FailedPosts
  <2>2. CASE ok
    <3>1. FailedPosts' = FailedPosts
      <4>1. ASSUME NEW p \in (DOMAIN dispatches) \X Rule
            PROVE  p \in FailedPosts' <=> p \in FailedPosts
        <5>1. CASE p[1] # i
          BY <1>7, <5>1 DEF FailedPosts
        <5>2. CASE p[1] = i /\ p[2] # r
          BY <1>6, <1>7, <1>9, <5>2 DEF FailedPosts
        <5>3. CASE p[1] = i /\ p[2] = r
          BY <1>3, <1>6, <1>7, <1>9, <2>1, <2>2, <5>3 DEF FailedPosts
        <5> QED  BY <5>1, <5>2, <5>3
      <4> QED  BY <1>7, <4>1 DEF FailedPosts
    <3> QED  BY <2>2, <3>1 DEF NotifierInv, LogCounts, PostAnswered
  <2>3. CASE ~ ok
    <3>1. FailedPosts' = FailedPosts \union {<<i, r>>}
      <4>1. ASSUME NEW p \in (DOMAIN dispatches) \X Rule
            PROVE  p \in FailedPosts' <=> p \in FailedPosts \union {<<i, r>>}
        <5>0. p = <<p[1], p[2]>>
          OBVIOUS
        <5>1. CASE p[1] # i
          BY <1>7, <5>0, <5>1 DEF FailedPosts
        <5>2. CASE p[1] = i /\ p[2] # r
          <6>1. p # <<i, r>>
            BY <5>2
          <6>2. p \in FailedPosts' <=> p \in FailedPosts
            BY <1>6, <1>7, <1>9, <5>2 DEF FailedPosts
          <6> QED  BY <6>1, <6>2
        <5>3. CASE p[1] = i /\ p[2] = r
          <6>1. p = <<i, r>>
            BY <5>0, <5>3
          <6>2. p \in FailedPosts'
            BY <1>2, <1>3, <1>6, <1>7, <1>9, <2>3, <5>3 DEF FailedPosts
          <6> QED  BY <6>1, <6>2
        <5> QED  BY <5>1, <5>2, <5>3
      <4> QED  BY <1>7, <4>1 DEF FailedPosts
    <3>2. IsFiniteSet(FailedPosts) /\ logged = Cardinality(FailedPosts)
      BY DEF NotifierInv, LogCounts
    <3>3. IsFiniteSet(FailedPosts') /\ Cardinality(FailedPosts') = Cardinality(FailedPosts) + 1
      BY <2>1, <3>1, <3>2, FS_AddElement
    <3> QED  BY <2>3, <3>2, <3>3 DEF LogCounts, PostAnswered
  <2> QED  BY <2>2, <2>3
<1>16. RowsFollow'
  BY DEF NotifierInv, RowsFollow, PostAnswered
<1> QED  BY <1>11, <1>13, <1>14, <1>15, <1>16 DEF NotifierInv

(* The notifications of a dispatch are published: one per rule it posted   *)
(* for, after those of other dispatches.                                   *)
LEMMA InvPublishes ==
  ASSUME NotifierInv, NEW i \in DOMAIN dispatches, Publishes(i)
  PROVE  NotifierInv'
<1> DEFINE rules == DOMAIN dispatches[i].posts
<1> DEFINE order == CHOOSE s \in OrdersOf(rules) : TRUE
<1> DEFINE C == Cardinality(rules)
<1> DEFINE added == [n \in DOMAIN order |-> Notice(i, order[n])]
<1>1. dispatches[i] \in DispatchShape /\ dispatches[i].step = "posting"
  BY DEF NotifierInv, Shapes, Publishes
<1>2. rules \in SUBSET Rule /\ dispatches[i].posts \in [rules -> PostState]
  BY <1>1 DEF DispatchShape
<1>3. /\ C \in Nat /\ order \in [1 .. C -> rules]
      /\ \A a, b \in 1 .. C : order[a] = order[b] => a = b
      /\ \A r \in rules : \E a \in 1 .. C : order[a] = r
  BY <1>2, OrderLists
<1>4. \A r \in rules : dispatches[i].posts[r] # "waiting"
  BY DEF Publishes
<1>5. /\ DOMAIN dispatches' = DOMAIN dispatches
      /\ \A j \in DOMAIN dispatches : j # i => dispatches'[j] = dispatches[j]
  BY DEF NotifierInv, Shapes, Publishes
<1>6. dispatches'[i] = [dispatches[i] EXCEPT !.step = "done"]
  BY DEF NotifierInv, Shapes, Publishes
<1>7. /\ dispatches'[i] \in DispatchShape
      /\ dispatches'[i].step = "done" /\ dispatches'[i].posts = dispatches[i].posts
      /\ dispatches'[i].lifecycle = dispatches[i].lifecycle
  BY <1>1, <1>6 DEF DispatchShape
<1>8. dispatches' \in Seq(DispatchShape)
  <2>1. dispatches' = [dispatches EXCEPT ![i].step = "done"] /\ dispatches \in Seq(DispatchShape)
    BY DEF NotifierInv, Shapes, Publishes
  <2> DEFINE d == dispatches'[i]
  <2>2. dispatches' = [dispatches EXCEPT ![i] = d]
    BY <1>6, <2>1
  <2> HIDE DEF d
  <2>3. [dispatches EXCEPT ![i] = d] \in Seq(DispatchShape)
    BY <1>7, <2>1, OneReplaced DEF d
  <2> QED  BY <2>2, <2>3
<1>9. \A r \in rules : Notice(i, r) \in NoticeShape
  <2>1. i \in Nat
    BY DEF NotifierInv, Shapes
  <2> QED  BY <1>1, <1>2, <2>1 DEF Notice, NoticeShape, DispatchShape
<1>10. \A r \in rules : /\ Notice(i, r).dispatch = i /\ Notice(i, r).rule = r
                        /\ Notice(i, r).slack = dispatches[i].posts[r]
  BY DEF Notice
<1>11. notices' = notices \o added /\ notices \in Seq(NoticeShape)
  BY DEF NotifierInv, Shapes, Publishes
<1>12. DOMAIN order = 1 .. C
  BY <1>3
<1> HIDE DEF rules, order, C
<1>13. added \in Seq(NoticeShape) /\ Len(added) = C
  BY <1>3, <1>9, <1>12
<1>14. /\ \A n \in 1 .. C : added[n] = Notice(i, order[n])
       /\ \A n \in 1 .. C : order[n] \in rules
  BY <1>3, <1>12
<1> HIDE DEF added
<1>15. /\ notices' \in Seq(NoticeShape) /\ Len(notices') = Len(notices) + C
       /\ \A n \in 1 .. Len(notices) : notices'[n] = notices[n]
       /\ \A n \in 1 .. C : notices'[Len(notices) + n] = added[n]
  <2>0. notices \in Seq(NoticeShape) /\ added \in Seq(NoticeShape)
    BY <1>11, <1>13
  <2>1. /\ notices \o added \in Seq(NoticeShape) /\ Len(notices \o added) = Len(notices) + Len(added)
        /\ \A n \in 1 .. Len(notices) : (notices \o added)[n] = notices[n]
        /\ \A n \in 1 .. Len(added) : (notices \o added)[Len(notices) + n] = added[n]
    <3>1. ASSUME NEW s \in Seq(NoticeShape), NEW t \in Seq(NoticeShape)
          PROVE  /\ s \o t \in Seq(NoticeShape) /\ Len(s \o t) = Len(s) + Len(t)
                 /\ \A n \in 1 .. Len(s) : (s \o t)[n] = s[n]
                 /\ \A n \in 1 .. Len(t) : (s \o t)[Len(s) + n] = t[n]
      OBVIOUS
    <3> QED  BY <2>0, <3>1
  <2> QED  BY <1>11, <1>13, <2>1
<1>16. Len(notices) \in Nat
  BY <1>11
<1>17. \A n \in DOMAIN notices' :
         \/ n \in DOMAIN notices
         \/ \E k \in 1 .. C : n = Len(notices) + k
  <2>1. TAKE n \in DOMAIN notices'
  <2>2. n \in 1 .. Len(notices) + C
    BY <1>15
  <2>3. CASE n > Len(notices)
    <3>1. n - Len(notices) \in 1 .. C /\ n = Len(notices) + (n - Len(notices))
      BY <1>3, <1>16, <2>2, <2>3
    <3> QED  BY <3>1
  <2>4. CASE n <= Len(notices)
    BY <1>11, <1>16, <2>2, <2>4
  <2> QED  BY <1>16, <2>2, <2>3, <2>4
<1>18. /\ \A n \in DOMAIN notices : n \in DOMAIN notices' /\ notices'[n] = notices[n]
       /\ \A k \in 1 .. C : /\ Len(notices) + k \in DOMAIN notices'
                            /\ notices'[Len(notices) + k].dispatch = i
                            /\ notices'[Len(notices) + k].rule = order[k]
                            /\ notices'[Len(notices) + k].slack = dispatches[i].posts[order[k]]
  BY <1>3, <1>10, <1>11, <1>14, <1>15, <1>16
<1>19. Shapes'
  BY <1>8, <1>15 DEF NotifierInv, Shapes, Publishes
<1>20. PostsMatch'
  BY <1>1, <1>4, <1>5, <1>7 DEF NotifierInv, PostsMatch, Publishes, Matching, rules
<1>21. NoticesStem'
  <2>1. ASSUME NEW n \in DOMAIN notices
        PROVE  /\ notices[n].dispatch \in DOMAIN dispatches'
               /\ dispatches'[notices[n].dispatch].step = "done"
               /\ notices[n].rule \in DOMAIN dispatches'[notices[n].dispatch].posts
               /\ notices[n].slack = dispatches'[notices[n].dispatch].posts[notices[n].rule]
    BY <1>5, <1>7 DEF NotifierInv, NoticesStem
  <2> QED  BY <1>5, <1>7, <1>14, <1>17, <1>18, <2>1 DEF NoticesStem, rules
<1>22. \A n \in DOMAIN notices : notices[n].dispatch # i
  BY <1>1 DEF NotifierInv, NoticesStem
<1>23. NoticesOnce'
  <2>1. ASSUME NEW m \in DOMAIN notices', NEW n \in DOMAIN notices',
               notices'[m].dispatch = notices'[n].dispatch, notices'[m].rule = notices'[n].rule
        PROVE  m = n
    <3>1. CASE m \in DOMAIN notices /\ n \in DOMAIN notices
      BY <1>18, <2>1, <3>1 DEF NotifierInv, NoticesOnce
    <3>2. ASSUME NEW k \in 1 .. C, m = Len(notices) + k PROVE m = n
      <4>1. n \notin DOMAIN notices
        BY <1>18, <1>22, <2>1, <3>2
      <4>2. PICK j \in 1 .. C : n = Len(notices) + j
        BY <1>17, <4>1
      <4>3. order[k] = order[j]
        BY <1>18, <2>1, <3>2, <4>2
      <4> QED  BY <1>3, <3>2, <4>2, <4>3
    <3>3. ASSUME m \in DOMAIN notices, NEW k \in 1 .. C, n = Len(notices) + k PROVE FALSE
      BY <1>18, <1>22, <2>1, <3>3
    <3> QED  BY <1>17, <3>1, <3>2, <3>3
  <2> QED  BY <2>1 DEF NoticesOnce
<1>24. NoticesAll'
  <2>1. ASSUME NEW j \in DOMAIN dispatches, j # i, dispatches[j].step = "done",
               NEW r \in DOMAIN dispatches[j].posts
        PROVE  \E n \in DOMAIN notices' : notices'[n].dispatch = j /\ notices'[n].rule = r
    BY <1>18, <2>1 DEF NotifierInv, NoticesAll
  <2>2. ASSUME NEW r \in rules
        PROVE  \E n \in DOMAIN notices' : notices'[n].dispatch = i /\ notices'[n].rule = r
    BY <1>3, <1>18
  <2> QED  BY <1>5, <1>7, <2>1, <2>2 DEF NoticesAll, rules
<1>25. FailedPosts' = FailedPosts
  <2>1. \A j \in DOMAIN dispatches : dispatches'[j].posts = dispatches[j].posts
    BY <1>5, <1>7
  <2> QED  BY <1>5, <2>1 DEF FailedPosts
<1>26. LogCounts' /\ RowsFollow'
  BY <1>25 DEF NotifierInv, LogCounts, RowsFollow, Publishes
<1> QED  BY <1>19, <1>20, <1>21, <1>23, <1>24, <1>26 DEF NotifierInv

LEMMA InvStep == NotifierInv /\ [NotifierNext]_notifierVars => NotifierInv'
<1> SUFFICES ASSUME NotifierInv, [NotifierNext]_notifierVars PROVE NotifierInv'
  OBVIOUS
<1>1. CASE UNCHANGED notifierVars
  <2>1. Shapes' /\ RowsFollow'
    BY <1>1 DEF notifierVars, NotifierInv, Shapes, RowsFollow
  <2>2. PostsMatch'
    BY <1>1 DEF notifierVars, NotifierInv, PostsMatch, Matching
  <2>3. NoticesStem' /\ NoticesOnce' /\ NoticesAll'
    BY <1>1 DEF notifierVars, NotifierInv, NoticesStem, NoticesOnce, NoticesAll
  <2>4. LogCounts'
    BY <1>1 DEF notifierVars, NotifierInv, LogCounts, FailedPosts
  <2> QED
    BY <2>1, <2>2, <2>3, <2>4 DEF NotifierInv
<1>2. ASSUME NEW w \in Wire, NEW s \in WireState, Moves(w, s) PROVE NotifierInv'
  BY <1>2, InvMoves
<1>3. ASSUME NEW i \in DOMAIN dispatches, NEW readable \in BOOLEAN, Described(i, readable)
      PROVE  NotifierInv'
  BY <1>3, InvDescribed
<1>4. ASSUME NEW i \in DOMAIN dispatches, NEW r \in Rule, NEW ok \in BOOLEAN, PostAnswered(i, r, ok)
      PROVE  NotifierInv'
  BY <1>4, InvPostAnswered
<1>5. ASSUME NEW i \in DOMAIN dispatches, Publishes(i) PROVE NotifierInv'
  BY <1>5, InvPublishes
<1> QED  BY <1>1, <1>2, <1>3, <1>4, <1>5 DEF NotifierNext

LEMMA NotifierInvariant == NotifierSpec => []NotifierInv
  BY InvInit, InvStep, PTL DEF NotifierSpec

-----------------------------------------------------------------------------
(* Every variable of the notifications keeps its type (onStatus and the    *)
(* dispatches it starts).                                                  *)
THEOREM NotifierTypeCorrect == NotifierSpec => []NotifierTypeOK
<1>1. NotifierInv => NotifierTypeOK
  <2>1. ASSUME Shapes, NEW i \in DOMAIN dispatches PROVE dispatches[i] \in DispatchShape
    BY <2>1 DEF Shapes
  <2>2. ASSUME NEW d \in DispatchShape
        PROVE  d.lifecycle \in Lifecycle /\ d.step \in {"describing", "posting", "done"}
    BY DEF DispatchShape
  <2> QED  BY <2>1, <2>2 DEF NotifierInv, Shapes, NotifierTypeOK
<1> QED  BY <1>1, NotifierInvariant, PTL

(* The invariant says what the operator is heard of.                        *)
LEMMA InvTells == NotifierInv => EveryTripIsTold
<1> SUFFICES ASSUME NotifierInv PROVE EveryTripIsTold
  OBVIOUS
<1> USE DEF NotifierInv
<1>1. notices \in Seq(NoticeShape) /\ Len(notices) \in Nat /\ DOMAIN notices = 1 .. Len(notices)
  BY DEF Shapes
<1>2. \A S \in SUBSET (DOMAIN notices) : IsFiniteSet(S)
  <2>1. IsFiniteSet(1 .. Len(notices))
    BY <1>1, FS_Interval
  <2> QED  BY <1>1, <2>1, FS_Subset
<1>3. ASSUME NEW i \in DOMAIN dispatches
      PROVE  LET heard == {notices[n].rule : n \in NoticesOf(i)} IN
             /\ Cardinality(NoticesOf(i)) = Cardinality(heard)
             /\ heard = IF dispatches[i].step = "done"
                         THEN {r \in Rule : dispatches[i].lifecycle \in policy[r]} ELSE {}
  <2> DEFINE mine == NoticesOf(i)
  <2> DEFINE heard == {notices[n].rule : n \in mine}
  <2> DEFINE f == [n \in mine |-> notices[n].rule]
  <2>1. IsFiniteSet(mine)
    BY <1>2 DEF NoticesOf
  <2>2. f \in Bijection(mine, heard)
    BY DEF Bijection, Injection, Surjection, IsInjective, NoticesOf, NoticesOnce
  <2>3. Cardinality(mine) = Cardinality(heard)
    BY <2>1, <2>2, FS_Bijection DEF ExistsBijection
  <2>4. CASE dispatches[i].step = "done"
    <3>1. \A r \in heard : r \in DOMAIN dispatches[i].posts
      BY DEF NoticesOf, NoticesStem
    <3>2. \A r \in DOMAIN dispatches[i].posts : r \in heard
      BY <2>4 DEF NoticesOf, NoticesAll
    <3> QED  BY <2>3, <2>4, <3>1, <3>2 DEF PostsMatch, Matching
  <2>5. CASE dispatches[i].step # "done"
    BY <2>3, <2>5 DEF NoticesOf, NoticesStem
  <2> QED  BY <2>4, <2>5
<1>4. \A n \in DOMAIN notices : (notices[n].slack = "skipped") = ~ slackActive
  BY DEF NoticesStem, PostsMatch
<1>5. Cardinality({n \in DOMAIN notices : notices[n].slack = "failed"}) <= logged
  <2> DEFINE failed == {n \in DOMAIN notices : notices[n].slack = "failed"}
  <2> DEFINE f == [n \in failed |-> <<notices[n].dispatch, notices[n].rule>>]
  <2>1. \A n \in failed : <<notices[n].dispatch, notices[n].rule>> \in FailedPosts
    <3>1. TAKE n \in failed
    <3> DEFINE i == notices[n].dispatch
    <3> DEFINE r == notices[n].rule
    <3>2. i \in DOMAIN dispatches /\ r \in DOMAIN dispatches[i].posts
            /\ dispatches[i].posts[r] = "failed"
      BY DEF NoticesStem
    <3>3. notices[n] \in NoticeShape
      BY <1>1
    <3>4. r \in Rule
      BY <3>3 DEF NoticeShape
    <3> HIDE DEF i, r
    <3>5. <<i, r>> \in FailedPosts
      BY <3>2, <3>4 DEF FailedPosts
    <3> QED  BY <3>5 DEF i, r
  <2>2. \A m, n \in failed : f[m] = f[n] => m = n
    BY DEF NoticesOnce
  <2>3. f \in Injection(failed, FailedPosts)
    BY <2>1, <2>2 DEF Injection, IsInjective
  <2>4. Cardinality(failed) <= Cardinality(FailedPosts)
    BY <2>3, FS_Injection DEF LogCounts
  <2> QED  BY <2>4 DEF LogCounts
<1> QED  BY <1>3, <1>4, <1>5 DEF EveryTripIsTold, RowsFollow

(* However dispatches overlap and whatever Slack answers, a dispatch that  *)
(* is over has published each rule that is for its lifecycle exactly once, *)
(* and every failed post is in the log (dispatchNotification).             *)
THEOREM EveryTripToldAlways == NotifierSpec => []EveryTripIsTold
  BY InvTells, NotifierInvariant, PTL

-----------------------------------------------------------------------------
(* The connection attempt.  What is under way tells how far the machine is;*)
(* apart from the fixed port, the adb server is connected to the port of   *)
(* the attempt at most.                                                    *)
Found == Link!Port \ {AdbPort}

Ports ==
  /\ open \subseteq TlsPort \union {AdbPort} /\ transports \subseteq TlsPort \union {AdbPort}
  /\ tries \in 0 .. MaxRetries
  /\ \/ resolution = Link!Searching \/ resolution = Link!NotFound
     \/ \E p \in Found : resolution = Link!Resolved([ip |-> Address, port |-> p])

Only(p) == transports \subseteq {p, AdbPort}

Looking == /\ intent = Link!Intent("LookupPort", None) /\ resolution = Link!Searching
           /\ connection = Link!Unknown /\ transports \subseteq {AdbPort}
UnderWay(p) == /\ \/ intent = Link!Intent("ConnectTemporary", p)
                  \/ intent = Link!Intent("ConfigurePersistentPort", p)
                  \/ intent = Link!Intent("ConnectPersistent", AdbPort)
               /\ connection = Link!Temporary(p) /\ resolution.tag = "Resolved" /\ Only(p)
Connected(p) == /\ intent = Link!Intent("DisconnectTemporary", p)
                /\ connection = Link!Persistent(AdbPort) /\ resolution.tag = "Resolved" /\ Only(p)
                /\ blamed = {} => AdbPort \in transports
AttemptOver ==
  /\ intent = None
  /\ \/ connection = Link!Unknown /\ (resolution.tag # "Resolved" => transports \subseteq {AdbPort})
     \/ /\ connection = Link!Persistent(AdbPort) /\ resolution.tag = "Resolved"
        /\ blamed = {} => transports = {AdbPort}

ConnectionInv ==
  Ports /\ (Looking \/ AttemptOver \/ \E p \in Found : UnderWay(p) \/ Connected(p))

(* A set of naturals has a least element.                                  *)
LEMMA LeastOf ==
  ASSUME NEW S, S \subseteq Nat, S # {}
  PROVE  Link!Min(S) \in S
<1>1. PICK x \in S : \A y \in S : ~ (<<y, x>> \in OpToRel(<, Nat))
  BY NatLessThanWellFounded, WFMin
<1>2. \A y \in S : ~ (y < x)
  BY <1>1, Zenon DEF OpToRel
<1>3. \A y \in S : x <= y
  BY <1>2
<1> QED
  BY <1>3 DEF Link!Min

(* What a lookup finds is an endpoint of the address, at a port of a       *)
(* record.                                                                 *)
LEMMA FirstAtFinds ==
  ASSUME Link!ConnectionAssumption, NEW list \in Answers,
         Link!FirstAt(list, Link!Discovered(list)) # None
  PROVE  \E p \in Found : Link!FirstAt(list, Link!Discovered(list)) = [ip |-> Address, port |-> p]
<1> DEFINE found == Link!Discovered(list)
           at == {i \in found : list[i].ip = Address}
<1>1. found \subseteq DOMAIN list
  <2>1. ASSUME NEW kept, kept \subseteq DOMAIN list
        PROVE  Link!Deduplicated(list, kept) \subseteq DOMAIN list
    BY <2>1 DEF Link!Deduplicated
  <2>2. Link!AvahiParse(list) \subseteq DOMAIN list
    BY <2>1 DEF Link!AvahiParse
  <2>3. Link!ToEndpoints(list, Link!ParseServices(list)) \subseteq DOMAIN list
    <3>1. Link!ParseServices(list) \subseteq DOMAIN list
      <4> DEFINE proper == 1 .. 65535
      <4>1. Link!ParseServices(list) = {i \in DOMAIN list : list[i].sane /\ list[i].port \in proper}
        BY DEF Link!ParseServices
      <4> HIDE DEF proper
      <4> QED
        BY <4>1
    <3>2. {i \in Link!ParseServices(list) : list[i].ip # None} \subseteq DOMAIN list
      BY <3>1
    <3> QED
      BY <2>1, <3>2 DEF Link!ToEndpoints
  <2> QED
    BY <2>2, <2>3 DEF Link!Discovered
<1>2. DOMAIN list \subseteq Nat
  BY DEF Link!ConnectionAssumption
<1> HIDE DEF found
<1>3. at # {} /\ Link!FirstAt(list, found) = Link!EndpointOf(list[Link!Min(at)])
  BY DEF Link!FirstAt, found
<1>4. Link!Min(at) \in at
  BY <1>1, <1>2, <1>3, LeastOf
<1> DEFINE r == list[Link!Min(at)]
<1>5. r.ip = Address /\ Link!Min(at) \in DOMAIN list
  BY <1>1, <1>4
<1> HIDE DEF at
<1>6. r.port \in Found
  BY <1>5 DEF Found, Link!Port, Link!ConnectionAssumption
<1> QED
  BY <1>3, <1>5, <1>6 DEF Link!EndpointOf, found

(* The transitions of the machine that an attempt takes.                   *)
LEMMA Transitions ==
  ASSUME NEW p, NEW q
  PROVE  /\ Link!Reduce(Link!Unknown, Link!Event("TargetDiscovered", p)) =
              Link!To(Link!Temporary(p), Link!Intent("ConnectTemporary", p))
         /\ Link!Reduce(Link!Temporary(p), Link!Event("TemporaryHandshakeOk", p)) =
              Link!To(Link!Temporary(p), Link!Intent("ConfigurePersistentPort", p))
         /\ Link!Reduce(Link!Temporary(p), Link!Event("TcpipConfigured", q)) =
              Link!To(Link!Temporary(p), Link!Intent("ConnectPersistent", q))
         /\ Link!Reduce(Link!Temporary(p), Link!Event("PersistentHandshakeOk", q)) =
              Link!To(Link!Persistent(q), Link!Intent("DisconnectTemporary", p))
         /\ Link!Reduce(Link!Temporary(p), Link!Event("TemporaryHandshakeFailed", q)) =
              Link!To(Link!Unknown, None)
         /\ Link!Reduce(Link!Temporary(p), Link!Event("PersistentHandshakeFailed", q)) =
              Link!To(Link!Unknown, None)
<1>1. /\ Link!Unknown.tag = "Unknown" /\ Link!Temporary(p).tag = "Temporary"
           /\ Link!Temporary(p).port = p
      /\ \A tag, port : Link!Event(tag, port).tag = tag /\ Link!Event(tag, port).port = port
  BY DEF Link!Unknown, Link!Temporary, Link!Event
<1>2. Link!Reduce(Link!Unknown, Link!Event("TargetDiscovered", p)) =
        Link!To(Link!Temporary(p), Link!Intent("ConnectTemporary", p))
  BY <1>1 DEF Link!Reduce
<1>3. Link!Reduce(Link!Temporary(p), Link!Event("TemporaryHandshakeOk", p)) =
        Link!To(Link!Temporary(p), Link!Intent("ConfigurePersistentPort", p))
  BY <1>1 DEF Link!Reduce
<1>4. Link!Reduce(Link!Temporary(p), Link!Event("TcpipConfigured", q)) =
        Link!To(Link!Temporary(p), Link!Intent("ConnectPersistent", q))
  BY <1>1 DEF Link!Reduce
<1>5. Link!Reduce(Link!Temporary(p), Link!Event("PersistentHandshakeOk", q)) =
        Link!To(Link!Persistent(q), Link!Intent("DisconnectTemporary", p))
  BY <1>1 DEF Link!Reduce
<1>6. Link!Reduce(Link!Temporary(p), Link!Event("TemporaryHandshakeFailed", q))
        = Link!To(Link!Unknown, None)
  BY <1>1 DEF Link!Reduce
<1>7. Link!Reduce(Link!Temporary(p), Link!Event("PersistentHandshakeFailed", q))
        = Link!To(Link!Unknown, None)
  BY <1>1 DEF Link!Reduce
<1> QED
  BY <1>2, <1>3, <1>4, <1>5, <1>6, <1>7

(* Intents are told apart by what they do, and none is None.               *)
LEMMA Intents ==
  ASSUME Link!ConnectionAssumption
  PROVE  /\ \A do \in Link!Doing, p \in Found \union {AdbPort, None} : Link!Intent(do, p) # None
         /\ \A do, p : Link!Intent(do, p).do = do /\ Link!Intent(do, p).port = p
         /\ \A s, i : Link!To(s, i).state = s /\ Link!To(s, i).intent = i
         /\ AdbPort \notin Found /\ Found \subseteq Nat /\ AdbPort \in Nat
BY DEF Link!ConnectionAssumption, Found, Link!Port, Link!Intent, Link!To

(* What a command of adb makes of the transports.                          *)
LEMMA AdbConnects ==
  ASSUME Ports, NEW p, NEW ok \in BOOLEAN, Link!AdbConnect(p, ok)
  PROVE  /\ transports' \subseteq TlsPort \union {AdbPort}
         /\ transports' \subseteq transports \union {p}
         /\ blamed' = {} => blamed = {} /\ (ok => p \in transports')
<1>1. CASE ok
  BY <1>1 DEF Link!AdbConnect, Ports
<1>2. CASE ~ ok
  BY <1>2 DEF Link!AdbConnect, Ports
<1> QED
  BY <1>1, <1>2

LEMMA LinkLookupPort ==
  ASSUME Link!ConnectionAssumption, ConnectionInv, Link!LookupPort
  PROVE  ConnectionInv'
<1>1. /\ intent # None /\ intent.do = "LookupPort"
      /\ UNCHANGED <<tries, transports, blamed, backend, open, movesLeft>>
  BY DEF Link!LookupPort, Link!Outside
<1>2. Looking /\ Ports
  BY <1>1, Intents DEF ConnectionInv, UnderWay, Connected, AttemptOver
<1>3. PICK answer \in Answers \union {None} :
        LET target == IF answer = None THEN None ELSE Link!FirstAt(answer, Link!Discovered(answer)) IN
          IF target = None
            THEN /\ resolution' = Link!ReduceLookup(resolution, [tag |-> "PortNotFound"])
                 /\ intent' = None /\ UNCHANGED connection
            ELSE /\ resolution' =
                     Link!ReduceLookup(resolution, [tag |-> "PortResolved", target |-> target])
                 /\ Link!Dispatch(Link!Event("TargetDiscovered", target.port))
  BY DEF Link!LookupPort
<1> DEFINE target == IF answer = None THEN None ELSE Link!FirstAt(answer, Link!Discovered(answer))
<1>4. target # None => \E p \in Found : target = [ip |-> Address, port |-> p]
  BY FirstAtFinds
<1>5. /\ Link!ReduceLookup(Link!Searching, [tag |-> "PortNotFound"]) = Link!NotFound
      /\ \A t : Link!ReduceLookup(Link!Searching, [tag |-> "PortResolved", target |-> t])
              = Link!Resolved(t)
  BY DEF Link!ReduceLookup, Link!Searching
<1>6. CASE target = None
  <2>1. resolution' = Link!NotFound /\ intent' = None /\ connection' = Link!Unknown
    BY <1>2, <1>3, <1>5, <1>6 DEF Looking
  <2>2. Ports'
    BY <1>1, <1>2, <2>1 DEF Ports
  <2>3. AttemptOver'
    BY <1>1, <1>2, <2>1 DEF AttemptOver, Looking
  <2> QED
    BY <2>2, <2>3 DEF ConnectionInv
<1>7. CASE target # None
  <2>1. PICK p \in Found : target = [ip |-> Address, port |-> p]
    BY <1>4, <1>7
  <2>2. target.port = p
    BY <2>1
  <2>3. /\ resolution' = Link!ReduceLookup(resolution, [tag |-> "PortResolved", target |-> target])
        /\ Link!Dispatch(Link!Event("TargetDiscovered", target.port))
    BY <1>3, <1>7
  <2> HIDE DEF target
  <2>4. resolution' = Link!Resolved([ip |-> Address, port |-> p])
    BY <1>2, <1>5, <2>1, <2>3 DEF Looking
  <2>5. connection' = Link!Temporary(p) /\ intent' = Link!Intent("ConnectTemporary", p)
    <3>1. Link!Reduce(connection, Link!Event("TargetDiscovered", p)) =
            Link!To(Link!Temporary(p), Link!Intent("ConnectTemporary", p))
      BY <1>2, Transitions DEF Looking
    <3> QED
      BY <2>2, <2>3, <3>1, Intents DEF Link!Dispatch
  <2>6. Ports'
    BY <1>1, <1>2, <2>4 DEF Ports
  <2>7. UnderWay(p)'
    BY <1>1, <1>2, <2>4, <2>5 DEF UnderWay, Looking, Only, Link!Resolved
  <2> QED
    BY <2>6, <2>7 DEF ConnectionInv
<1> QED
  BY <1>6, <1>7

(* While an attempt is under way, its other steps either keep it so, end   *)
(* it, or have it disconnect.                                              *)
LEMMA UnderWayAt ==
  ASSUME Link!ConnectionAssumption, ConnectionInv, intent # None,
         intent.do \in {"ConnectTemporary", "ConfigurePersistentPort", "ConnectPersistent"}
  PROVE  /\ Ports
         /\ \E p \in Found :
              /\ UnderWay(p)
              /\ intent.port = IF intent.do = "ConnectPersistent" THEN AdbPort ELSE p
BY Intents DEF ConnectionInv, Looking, UnderWay, Connected, AttemptOver

LEMMA LinkConnectTemporary ==
  ASSUME Link!ConnectionAssumption, ConnectionInv, Link!ConnectTemporary
  PROVE  ConnectionInv'
<1>1. /\ intent # None /\ intent.do = "ConnectTemporary"
      /\ UNCHANGED <<resolution, tries, backend, open, movesLeft>>
  BY DEF Link!ConnectTemporary, Link!Outside
<1>2. PICK p \in Found : UnderWay(p) /\ intent.port = p
  BY <1>1, UnderWayAt
<1>3. Ports
  BY DEF ConnectionInv
<1>4. PICK ok \in BOOLEAN :
        /\ Link!AdbConnect(p, ok)
        /\ Link!Dispatch(Link!Event(IF ok THEN "TemporaryHandshakeOk"
             ELSE "TemporaryHandshakeFailed", p))
  BY <1>2 DEF Link!ConnectTemporary
<1>5. Ports' /\ Only(p)'
  BY <1>1, <1>2, <1>3, <1>4, AdbConnects DEF Ports, UnderWay, Only
<1>6. CASE ok
  <2>1. connection' = Link!Temporary(p) /\ intent' = Link!Intent("ConfigurePersistentPort", p)
    <3>1. Link!Reduce(connection, Link!Event("TemporaryHandshakeOk", p)) =
            Link!To(Link!Temporary(p), Link!Intent("ConfigurePersistentPort", p))
      BY <1>2, Transitions DEF UnderWay
    <3> QED
      BY <1>4, <1>6, <3>1, Intents DEF Link!Dispatch
  <2>2. UnderWay(p)'
    BY <1>1, <1>2, <1>5, <2>1 DEF UnderWay
  <2> QED
    BY <1>5, <2>2 DEF ConnectionInv
<1>7. CASE ~ ok
  <2>1. connection' = Link!Unknown /\ intent' = None
    <3>1. Link!Reduce(connection, Link!Event("TemporaryHandshakeFailed", p))
            = Link!To(Link!Unknown, None)
      BY <1>2, Transitions DEF UnderWay
    <3> QED
      BY <1>4, <1>7, <3>1, Intents DEF Link!Dispatch
  <2>2. AttemptOver'
    BY <1>1, <1>2, <2>1 DEF AttemptOver, UnderWay
  <2> QED
    BY <1>5, <2>2 DEF ConnectionInv
<1> QED
  BY <1>6, <1>7

LEMMA LinkConfigure ==
  ASSUME Link!ConnectionAssumption, ConnectionInv, Link!ConfigurePersistentPort
  PROVE  ConnectionInv'
<1>1. /\ intent # None /\ intent.do = "ConfigurePersistentPort"
      /\ UNCHANGED <<backend, resolution, tries, transports, blamed, movesLeft>>
  BY DEF Link!ConfigurePersistentPort
<1>2. PICK p \in Found : UnderWay(p) /\ intent.port = p
  BY <1>1, UnderWayAt
<1>3. Ports
  BY DEF ConnectionInv
<1>4. CASE /\ open' = open \union {AdbPort}
           /\ Link!Dispatch(Link!Event("TcpipConfigured", AdbPort))
  <2>1. connection' = Link!Temporary(p) /\ intent' = Link!Intent("ConnectPersistent", AdbPort)
    <3>1. Link!Reduce(connection, Link!Event("TcpipConfigured", AdbPort)) =
            Link!To(Link!Temporary(p), Link!Intent("ConnectPersistent", AdbPort))
      BY <1>2, Transitions DEF UnderWay
    <3> QED
      BY <1>4, <3>1, Intents DEF Link!Dispatch
  <2>2. Ports'
    BY <1>1, <1>3, <1>4 DEF Ports
  <2>3. UnderWay(p)'
    BY <1>1, <1>2, <2>1 DEF UnderWay, Only
  <2> QED
    BY <2>2, <2>3 DEF ConnectionInv
<1>5. CASE Link!Dispatch(Link!Event("PersistentHandshakeFailed", None)) /\ UNCHANGED open
  <2>1. connection' = Link!Unknown /\ intent' = None
    <3>1. Link!Reduce(connection, Link!Event("PersistentHandshakeFailed", None))
            = Link!To(Link!Unknown, None)
      BY <1>2, Transitions DEF UnderWay
    <3> QED
      BY <1>5, <3>1, Intents DEF Link!Dispatch
  <2>2. Ports' /\ AttemptOver'
    BY <1>1, <1>2, <1>3, <1>5, <2>1 DEF Ports, AttemptOver, UnderWay
  <2> QED
    BY <2>2 DEF ConnectionInv
<1> QED
  BY <1>4, <1>5 DEF Link!ConfigurePersistentPort

LEMMA LinkConnectPersistent ==
  ASSUME Link!ConnectionAssumption, ConnectionInv, Link!ConnectPersistent
  PROVE  ConnectionInv'
<1>1. /\ intent # None /\ intent.do = "ConnectPersistent"
      /\ UNCHANGED <<resolution, backend, open, movesLeft>>
  BY DEF Link!ConnectPersistent, Link!Outside
<1>2. PICK p \in Found : UnderWay(p) /\ intent.port = AdbPort
  BY <1>1, UnderWayAt
<1>3. Ports
  BY DEF ConnectionInv
<1>4. PICK ok \in BOOLEAN :
        /\ Link!AdbConnect(AdbPort, ok)
        /\ IF ok THEN Link!Dispatch(Link!Event("PersistentHandshakeOk", AdbPort)) /\ UNCHANGED tries
           ELSE IF tries < MaxRetries THEN tries' = tries + 1 /\ UNCHANGED <<connection, intent>>
           ELSE Link!Dispatch(Link!Event("PersistentHandshakeFailed", None)) /\ UNCHANGED tries
  BY <1>2 DEF Link!ConnectPersistent
<1>5. /\ transports' \subseteq TlsPort \union {AdbPort} /\ Only(p)'
      /\ blamed' = {} => (ok => AdbPort \in transports')
  BY <1>2, <1>3, <1>4, AdbConnects DEF UnderWay, Only
<1>6. tries' \in 0 .. MaxRetries
  BY <1>3, <1>4 DEF Ports, Link!ConnectionAssumption
<1>7. Ports'
  BY <1>1, <1>3, <1>5, <1>6 DEF Ports
<1>8. CASE ok
  <2>1. connection' = Link!Persistent(AdbPort) /\ intent' = Link!Intent("DisconnectTemporary", p)
    <3>1. Link!Reduce(connection, Link!Event("PersistentHandshakeOk", AdbPort)) =
            Link!To(Link!Persistent(AdbPort), Link!Intent("DisconnectTemporary", p))
      BY <1>2, Transitions DEF UnderWay
    <3> QED
      BY <1>4, <1>8, <3>1, Intents DEF Link!Dispatch
  <2>2. Connected(p)'
    BY <1>1, <1>2, <1>5, <1>8, <2>1 DEF UnderWay, Connected
  <2> QED
    BY <1>7, <2>2 DEF ConnectionInv
<1>9. CASE ~ ok /\ UNCHANGED <<connection, intent>>
  BY <1>1, <1>2, <1>5, <1>7, <1>9 DEF UnderWay, ConnectionInv
<1>10. CASE Link!Dispatch(Link!Event("PersistentHandshakeFailed", None))
  <2>1. connection' = Link!Unknown /\ intent' = None
    <3>1. Link!Reduce(connection, Link!Event("PersistentHandshakeFailed", None))
            = Link!To(Link!Unknown, None)
      BY <1>2, Transitions DEF UnderWay
    <3> QED
      BY <1>10, <3>1, Intents DEF Link!Dispatch
  <2>2. AttemptOver'
    BY <1>1, <1>2, <2>1 DEF AttemptOver, UnderWay
  <2> QED
    BY <1>7, <2>2 DEF ConnectionInv
<1> QED
  BY <1>4, <1>8, <1>9, <1>10

LEMMA LinkDisconnect ==
  ASSUME Link!ConnectionAssumption, ConnectionInv, Link!DisconnectTemporary
  PROVE  ConnectionInv'
<1>1. /\ intent # None /\ intent.do = "DisconnectTemporary" /\ intent' = None
      /\ UNCHANGED <<resolution, connection, tries, backend, open, movesLeft>>
      /\ \/ transports' = transports \ {intent.port} /\ UNCHANGED blamed
         \/ blamed' = blamed \union {"not disconnected"} /\ UNCHANGED transports
  BY DEF Link!DisconnectTemporary, Link!Outside
<1>2. PICK p \in Found : Connected(p) /\ intent.port = p
  <2>1. ~ Looking /\ ~ AttemptOver /\ \A p \in Found : ~ UnderWay(p)
    <3>1. intent # None /\ intent.do = "DisconnectTemporary"
      BY <1>1
    <3> QED
      BY <3>1, Intents DEF Looking, UnderWay, AttemptOver
  <2>2. PICK p \in Found : Connected(p)
    BY <2>1 DEF ConnectionInv
  <2>3. intent.port = p
    BY <2>2, Intents DEF Connected
  <2> QED
    BY <2>2, <2>3
<1>3. Ports'
  BY <1>1 DEF ConnectionInv, Ports
<1>4. blamed' = {} => transports' = {AdbPort}
  <2>1. p # AdbPort
    BY Intents
  <2>2. ASSUME blamed' = {} PROVE transports' = transports \ {p} /\ blamed = {}
    BY <1>1, <1>2, <2>2
  <2> QED
    BY <1>2, <2>1, <2>2 DEF Connected, Only
<1>5. AttemptOver'
  BY <1>1, <1>2, <1>4 DEF AttemptOver, Connected
<1> QED
  BY <1>3, <1>5 DEF ConnectionInv

LEMMA LinkPhoneMoves ==
  ASSUME Link!ConnectionAssumption, ConnectionInv, Link!PhoneMoves
  PROVE  ConnectionInv'
<1>1. /\ UNCHANGED <<backend, resolution, connection, intent, tries>>
      /\ open' \subseteq TlsPort \union {AdbPort} /\ transports' \subseteq transports
      /\ blamed' = {} => blamed = {} /\ transports' = transports
  BY DEF Link!PhoneMoves
<1>2. Ports'
  BY <1>1 DEF ConnectionInv, Ports
<1>3. CASE Looking
  BY <1>1, <1>2, <1>3 DEF ConnectionInv, Looking
<1>4. CASE AttemptOver
  BY <1>1, <1>2, <1>4 DEF ConnectionInv, AttemptOver
<1>5. ASSUME NEW p \in Found, UnderWay(p) PROVE UnderWay(p)'
  BY <1>1, <1>5 DEF UnderWay, Only
<1>6. ASSUME NEW p \in Found, Connected(p) PROVE Connected(p)'
  BY <1>1, <1>6 DEF Connected, Only
<1> QED
  BY <1>2, <1>3, <1>4, <1>5, <1>6 DEF ConnectionInv

LEMMA ConnectionInvHolds ==
  ASSUME Link!ConnectionAssumption
  PROVE  Link!ConnectionSpec => []ConnectionInv
<1>1. Link!ConnectionInit => ConnectionInv
  <2> SUFFICES ASSUME Link!ConnectionInit PROVE ConnectionInv
    OBVIOUS
  <2>1. /\ resolution = Link!ReduceLookup(Link!Searching, Link!Event("ResolutionRequested", None))
        /\ connection = Link!Unknown /\ intent = Link!Intent("LookupPort", None) /\ tries = 0
        /\ open \subseteq TlsPort /\ transports \subseteq {AdbPort}
    BY DEF Link!ConnectionInit
  <2>2. resolution = Link!Searching
    BY <2>1 DEF Link!ReduceLookup, Link!Searching, Link!Event
  <2> QED
    BY <2>1, <2>2 DEF ConnectionInv, Ports, Looking, Link!ConnectionAssumption
<1>2. ConnectionInv /\ [Link!ConnectionNext]_Link!connectionVars => ConnectionInv'
  <2> SUFFICES ASSUME ConnectionInv, [Link!ConnectionNext]_Link!connectionVars PROVE ConnectionInv'
    OBVIOUS
  <2>1. CASE UNCHANGED Link!connectionVars
    BY <2>1 DEF Link!connectionVars, ConnectionInv, Ports, Looking, AttemptOver, UnderWay,
       Connected, Only
  <2> QED
    BY <2>1, LinkLookupPort, LinkConnectTemporary, LinkConfigure, LinkConnectPersistent,
       LinkDisconnect, LinkPhoneMoves DEF Link!ConnectionNext
<1> QED
  BY <1>1, <1>2, PTL DEF Link!ConnectionSpec

(* Every variable of a connection attempt keeps its shape.                 *)
THEOREM ConnectionTypeCorrect ==
  ASSUME Link!ConnectionAssumption
  PROVE  Link!ConnectionSpec => []Link!ConnectionTypeOK
<1>1. ConnectionInv => Link!ConnectionTypeOK
  <2> SUFFICES ASSUME ConnectionInv PROVE Link!ConnectionTypeOK
    OBVIOUS
  <2>1. resolution.tag \in {"Searching", "Resolved", "NotFound"}
    BY DEF ConnectionInv, Ports, Link!Searching, Link!NotFound, Link!Resolved
  <2>2. /\ connection.tag \in {"Unknown", "Temporary", "Persistent"}
        /\ connection.port \in Nat \union {None}
    BY Intents DEF ConnectionInv, Looking, AttemptOver, UnderWay, Connected,
       Link!Unknown, Link!Temporary, Link!Persistent
  <2> QED
    BY <2>1, <2>2 DEF ConnectionInv, Ports, Link!ConnectionTypeOK
<1> QED
  BY <1>1, ConnectionInvHolds, PTL

(* AttemptTellsTheTruth: once the two machines of an attempt come to rest  *)
(* the phone is connected on the fixed port and on no other, or Unknown,   *)
(* whatever the lookup found and however often a command was retried;      *)
(* unless a command failed with success or the phone moved.                *)
THEOREM AttemptsTellTheTruth ==
  ASSUME Link!ConnectionAssumption
  PROVE  Link!ConnectionSpec => []Link!AttemptTellsTheTruth
<1>1. ConnectionInv => Link!AttemptTellsTheTruth
  <2> SUFFICES ASSUME ConnectionInv PROVE Link!AttemptTellsTheTruth
    OBVIOUS
  <2>1. resolution.tag = "Resolved" => resolution.target.ip = Address
    BY DEF ConnectionInv, Ports, Link!Searching, Link!NotFound, Link!Resolved
  <2>2. intent = None => AttemptOver
    BY Intents DEF ConnectionInv, Looking, UnderWay, Connected, Link!Doing
  <2>3. /\ Link!Unknown.tag = "Unknown"
        /\ Link!Persistent(AdbPort).tag = "Persistent" /\ Link!Persistent(AdbPort).port = AdbPort
    BY DEF Link!Unknown, Link!Persistent
  <2> QED
    BY <2>1, <2>2, <2>3 DEF AttemptOver, Link!AttemptTellsTheTruth
<1> QED
  BY <1>1, ConnectionInvHolds, PTL

-----------------------------------------------------------------------------
(* The interpreter: what is on its stack.                                  *)
Tree == Job!Nodes(pipeline)
TreeNode == [type : {"and", "or"}, parts : Seq(Tree)]

What(f) ==
  /\ f.do = "pipeline" => f.what \in Tree
  /\ f.do = "leaf"     => f.what \in Tree /\ Job!IsLeaf(f.what)
  /\ f.do = "node"     => f.what \in TreeNode
  /\ f.do = "commands" => f.what \in Seq(Job!Commanded)

Whats == Tree \union TreeNode \union Seq(Job!Commanded) \union {None, pipeline}
Framed ==
  [do : {"pipeline", "node", "not", "leaf", "commands", "start"}, what : Whats, depth : 0 .. MaxDepth]

(* A workflow runs for a leaf or for the operator, and above what is left  *)
(* of the formula.                                                         *)
Stacked(st) ==
  /\ st \in Seq(Framed) /\ \A i \in 1 .. Len(st) : What(st[i])
  /\ \A i \in 2 .. Len(st) : st[i].do = "commands" => st[i].what # <<>>
  /\ domain = "manual" => \A i \in 1 .. Len(st) : st[i].do \in {"start", "commands"}
  /\ domain # "manual" =>
       /\ \A i \in 1 .. Len(st) : st[i].do # "start"
       /\ \A i \in 2 .. Len(st) :
            IF st[i - 1].do = "commands" THEN st[i].do \in {"commands", "leaf"}
                                         ELSE st[i].do \in {"node", "not"}
       /\ Len(st) > 0 => st[Len(st)].do # "commands"

CallShape ==
  /\ call = [at |-> call.at, camera |-> call.camera, to |-> call.to, moved |-> call.moved,
             polls |-> call.polls, answer |-> call.answer]
  /\ call.at \in {"none", "await", "waiting", "gated", "running", "probing", "answered",
                 "suspect", "rebooted", "telling"}
  /\ call.polls \in 0 .. Patience

(* What has left for the device went to a host, which is still that of the *)
(* entity unless it was edited.                                            *)
Reaching ==
  call.at \in {"running", "probing", "suspect", "rebooted"} =>
    call.to # None /\ (~ call.moved => Job!ResolveTarget = call.to)

(* The bridge hears of cameras only, one at a time.                        *)
ToldShape ==
  /\ told = [event |-> told.event, camera |-> told.camera, moved |-> told.moved,
             connected |-> told.connected, there |-> told.there]
  /\ told.camera \in Phone \union {None}

BridgeShape ==
  /\ registry.camera \in Phone \union {None} /\ registry.host \in [Phone -> Endpoint \union {None}]
  /\ registry = [camera |-> registry.camera, host |-> registry.host]
  /\ accepting \in [Phone -> BOOLEAN]
  /\ told # None => ToldShape
  /\ call.at = "telling" =>
       ToldShape /\ told.camera \in Phone /\ (~ told.moved => told.camera \in told.there)

Given == {None, "true", "false", "left"}

(* A call belongs to the command on top, or to the probe that is the       *)
(* condition on top, and a value comes back to a workflow for the command  *)
(* on top.  What has come to its end has a value.                          *)
Busy ==
  /\ value = None => todo # <<>>
  /\ call.at # "none" =>
       /\ value = None /\ todo # <<>>
       /\ \/ todo[1].do = "commands"
          \/ /\ todo[1].do = "pipeline" /\ Job!Condition = "probe"
             /\ call.at \in {"probing", "answered", "suspect", "telling"}
  /\ (value # None \/ call.at # "none") /\ todo # <<>> /\ todo[1].do = "commands" => todo[1].what # <<>>

StackInv ==
  /\ Stacked(todo) /\ value \in Given /\ Busy
  /\ domain # "manual" => Job!IsFormula(pipeline)

CallInv ==
  CallShape /\ Reaching /\ BridgeShape /\ Job!BridgeHearsOfTheCulprit /\ Job!WaitSeesTheReboot

-----------------------------------------------------------------------------
(* What the sequences of the stack give.                                   *)
LEMMA Popped ==
  ASSUME NEW S, NEW st \in Seq(S), st # <<>>
  PROVE  /\ Tail(st) \in Seq(S) /\ Len(st) \in Nat /\ Len(st) > 0 /\ Len(Tail(st)) = Len(st) - 1
         /\ st[1] \in S /\ \A i \in 1 .. Len(st) - 1 : Tail(st)[i] = st[i + 1]
BY EmptySeq, HeadTailProperties

LEMMA Pushed1 ==
  ASSUME NEW S, NEW f \in S, NEW st \in Seq(S)
  PROVE  /\ <<f>> \o st \in Seq(S) /\ Len(st) \in Nat /\ Len(<<f>> \o st) = Len(st) + 1
         /\ (<<f>> \o st)[1] = f
         /\ \A i \in 1 .. Len(st) : (<<f>> \o st)[i + 1] = st[i]
OBVIOUS

LEMMA Pushed2 ==
  ASSUME NEW S, NEW f \in S, NEW g \in S, NEW st \in Seq(S)
  PROVE  /\ <<f, g>> \o st \in Seq(S) /\ Len(st) \in Nat /\ Len(<<f, g>> \o st) = Len(st) + 2
         /\ (<<f, g>> \o st)[1] = f /\ (<<f, g>> \o st)[2] = g
         /\ \A i \in 1 .. Len(st) : (<<f, g>> \o st)[i + 2] = st[i]
OBVIOUS

(* The stack keeps its order whatever an action does to it: takes the top  *)
(* off, replaces it, or puts more upon it.                                 *)
LEMMA StackPops ==
  ASSUME Stacked(todo), todo # <<>>
  PROVE  Stacked(Tail(todo))
<1> DEFINE st == Tail(todo)
<1>1. /\ st \in Seq(Framed) /\ Len(todo) \in Nat /\ Len(todo) > 0 /\ Len(st) = Len(todo) - 1
      /\ \A i \in 1 .. Len(todo) - 1 : st[i] = todo[i + 1]
  BY Popped DEF Stacked
<1> HIDE DEF st
<1>2. \A i \in 1 .. Len(st) : i + 1 \in 1 .. Len(todo) /\ st[i] = todo[i + 1]
  BY <1>1
<1>3. \A i \in 1 .. Len(st) : What(st[i])
  BY <1>2 DEF Stacked
<1>4. ASSUME domain # "manual"
      PROVE  /\ \A i \in 1 .. Len(st) : st[i].do # "start"
             /\ \A i \in 2 .. Len(st) :
                  IF st[i - 1].do = "commands" THEN st[i].do \in {"commands", "leaf"}
                                               ELSE st[i].do \in {"node", "not"}
             /\ Len(st) > 0 => st[Len(st)].do # "commands"
  <2>1. \A i \in 1 .. Len(st) : st[i].do # "start"
    BY <1>2, <1>4 DEF Stacked
  <2>2. ASSUME NEW i \in 2 .. Len(st)
        PROVE  IF st[i - 1].do = "commands" THEN st[i].do \in {"commands", "leaf"}
                                            ELSE st[i].do \in {"node", "not"}
    <3>1. i + 1 \in 2 .. Len(todo) /\ st[i] = todo[i + 1] /\ st[i - 1] = todo[i] /\ (i + 1) - 1 = i
      BY <1>1
    <3> QED
      BY <1>4, <3>1 DEF Stacked
  <2>3. Len(st) > 0 => st[Len(st)] = todo[Len(todo)]
    BY <1>1
  <2> QED
    BY <1>1, <1>4, <2>1, <2>2, <2>3 DEF Stacked
<1>5. domain = "manual" => \A i \in 1 .. Len(st) : st[i].do \in {"start", "commands"}
  BY <1>2 DEF Stacked
<1>6. \A i \in 2 .. Len(st) : st[i].do = "commands" => st[i].what # <<>>
  <2> SUFFICES ASSUME NEW i \in 2 .. Len(st), st[i].do = "commands" PROVE st[i].what # <<>>
    OBVIOUS
  <2>1. i + 1 \in 2 .. Len(todo) /\ st[i] = todo[i + 1]
    BY <1>1
  <2> QED
    BY <2>1 DEF Stacked
<1> QED
  BY <1>1, <1>3, <1>4, <1>5, <1>6 DEF Stacked, st

(* What may stand on the rest of the stack.                                *)
Upon(f, st) ==
  /\ f \in Framed /\ What(f)
  /\ st # <<>> /\ st[1].do = "commands" => st[1].what # <<>>
  /\ domain = "manual" => f.do \in {"start", "commands"}
  /\ domain # "manual" =>
       /\ f.do # "start"
       /\ IF st = <<>> THEN f.do # "commands"
          ELSE IF f.do = "commands" THEN st[1].do \in {"commands", "leaf"}
                                    ELSE st[1].do \in {"node", "not"}

LEMMA StackPushes ==
  ASSUME NEW st, Stacked(st), NEW f, Upon(f, st)
  PROVE  Stacked(<<f>> \o st) /\ <<f>> \o st # <<>>
<1> DEFINE new == <<f>> \o st
<1>1. /\ new \in Seq(Framed) /\ Len(st) \in Nat /\ Len(new) = Len(st) + 1
      /\ new[1] = f /\ \A i \in 1 .. Len(st) : new[i + 1] = st[i]
  BY Pushed1 DEF Upon, Stacked
<1> HIDE DEF new
<1>2. \A i \in 2 .. Len(new) : i - 1 \in 1 .. Len(st) /\ new[i] = st[i - 1]
  <2> SUFFICES ASSUME NEW i \in 2 .. Len(new) PROVE i - 1 \in 1 .. Len(st) /\ new[i] = st[i - 1]
    OBVIOUS
  <2>1. i - 1 \in 1 .. Len(st) /\ (i - 1) + 1 = i
    BY <1>1
  <2> QED
    BY <1>1, <2>1
<1>3. \A i \in 1 .. Len(new) : What(new[i])
  <2> SUFFICES ASSUME NEW i \in 1 .. Len(new) PROVE What(new[i])
    OBVIOUS
  <2>1. i = 1 \/ i \in 2 .. Len(new)
    BY <1>1
  <2> QED
    BY <1>1, <1>2, <2>1 DEF Stacked, Upon
<1>4. ASSUME domain # "manual"
      PROVE  /\ \A i \in 1 .. Len(new) : new[i].do # "start"
             /\ \A i \in 2 .. Len(new) :
                  IF new[i - 1].do = "commands" THEN new[i].do \in {"commands", "leaf"}
                                                ELSE new[i].do \in {"node", "not"}
             /\ Len(new) > 0 => new[Len(new)].do # "commands"
  <2>1. \A i \in 1 .. Len(new) : new[i].do # "start"
    <3>1. \A i \in 1 .. Len(new) : i = 1 \/ i \in 2 .. Len(new)
      BY <1>1
    <3> QED
      BY <1>1, <1>2, <1>4, <3>1 DEF Stacked, Upon
  <2>2. ASSUME NEW i \in 2 .. Len(new)
        PROVE  IF new[i - 1].do = "commands" THEN new[i].do \in {"commands", "leaf"}
                                             ELSE new[i].do \in {"node", "not"}
    <3>1. CASE i = 2
      <4>1. new[i - 1] = f /\ new[i] = st[1] /\ st # <<>>
        BY <1>1, <1>2, <3>1
      <4> QED
        BY <1>4, <4>1 DEF Upon
    <3>2. CASE i # 2
      <4>1. i - 1 \in 2 .. Len(st) /\ i - 1 \in 2 .. Len(new) /\ new[i] = st[i - 1]
        BY <1>1, <1>2, <3>2
      <4>2. new[i - 1] = st[(i - 1) - 1]
        BY <1>2, <4>1
      <4> QED
        BY <1>4, <4>1, <4>2 DEF Stacked
    <3> QED
      BY <3>1, <3>2
  <2>3. new[Len(new)].do # "commands"
    <3>1. CASE st = <<>>
      BY <1>1, <1>4, <3>1 DEF Upon
    <3>2. CASE st # <<>>
      <4>1. Len(new) \in 2 .. Len(new) /\ Len(new) - 1 = Len(st) /\ Len(st) > 0
        BY <1>1, <3>2
      <4>2. new[Len(new)] = st[Len(st)]
        BY <1>2, <4>1
      <4> QED
        BY <1>4, <4>1, <4>2 DEF Stacked
    <3> QED
      BY <3>1, <3>2
  <2> QED
    BY <2>1, <2>2, <2>3
<1>5. ASSUME domain = "manual", NEW i \in 1 .. Len(new)
      PROVE  new[i].do \in {"start", "commands"}
  <2>1. i = 1 \/ i \in 2 .. Len(new)
    BY <1>1
  <2>2. CASE i = 1
    BY <1>1, <1>5, <2>2 DEF Upon
  <2>3. CASE i \in 2 .. Len(new)
    BY <1>2, <1>5, <2>3 DEF Stacked
  <2> QED
    BY <2>1, <2>2, <2>3
<1>6. ASSUME NEW i \in 2 .. Len(new), new[i].do = "commands" PROVE new[i].what # <<>>
  <2>1. CASE i = 2
    <3>1. new[i] = st[1] /\ st # <<>>
      BY <1>1, <1>2, <2>1
    <3> QED
      BY <1>6, <3>1 DEF Upon
  <2>2. CASE i # 2
    <3>1. i - 1 \in 2 .. Len(st) /\ new[i] = st[i - 1]
      BY <1>1, <1>2, <2>2
    <3> QED
      BY <1>6, <3>1 DEF Stacked
  <2> QED
    BY <2>1, <2>2
<1> QED
  BY <1>1, <1>3, <1>4, <1>5, <1>6, EmptySeq DEF Stacked, new

LEMMA TopIsUpon ==
  ASSUME Stacked(todo), todo # <<>>
  PROVE  Upon(todo[1], Tail(todo)) /\ Stacked(Tail(todo))
<1> DEFINE st == Tail(todo)
<1>1. Stacked(st)
  BY StackPops
<1>2. /\ st \in Seq(Framed) /\ Len(todo) \in Nat /\ Len(todo) > 0 /\ Len(st) = Len(todo) - 1
      /\ todo[1] \in Framed /\ \A i \in 1 .. Len(todo) - 1 : st[i] = todo[i + 1]
  BY Popped DEF Stacked
<1> HIDE DEF st
<1>3. 1 \in 1 .. Len(todo)
  BY <1>2
<1>4. CASE st = <<>>
  <2>1. Len(todo) = 1
    BY <1>2, <1>4
  <2>2. todo[1].do # "commands" \/ domain = "manual"
    BY <1>2, <2>1 DEF Stacked
  <2>3. What(todo[1])
    BY <1>3 DEF Stacked
  <2>4. domain # "manual" => todo[1].do # "start"
    BY <1>3 DEF Stacked
  <2>5. domain = "manual" => todo[1].do \in {"start", "commands"}
    BY <1>3 DEF Stacked
  <2> QED
    BY <1>1, <1>2, <1>4, <2>2, <2>3, <2>4, <2>5 DEF Upon, st
<1>5. CASE st # <<>>
  <2>1. st[1] = todo[2] /\ 2 \in 2 .. Len(todo) /\ 2 - 1 = 1
    BY <1>2, <1>5
  <2> QED
    BY <1>2, <1>3, <1>5, <2>1 DEF Stacked, Upon
<1> QED
  BY <1>1, <1>4, <1>5 DEF st

(* Two frames in the place of the top.                                     *)
LEMMA TwoOnTop ==
  ASSUME NEW st, Stacked(st), NEW f \in Framed, NEW g \in Framed
  PROVE  <<f, g>> \o st = <<f>> \o (<<g>> \o st)
<1>1. /\ st \in Seq(Framed)
      /\ <<f>> \in Seq(Framed) /\ <<g>> \in Seq(Framed) /\ <<f, g>> \in Seq(Framed)
  BY DEF Stacked
<1>2. <<f>> \o <<g>> \in Seq(Framed) /\ Len(<<f>> \o <<g>>) = 2 /\ Len(<<f, g>>) = 2
  BY <1>1
<1>3. \A i \in 1 .. 2 : (<<f>> \o <<g>>)[i] = <<f, g>>[i]
  BY <1>1
<1>4. <<f, g>> = <<f>> \o <<g>>
  BY <1>1, <1>2, <1>3, SeqEqual
<1> QED
  BY <1>1, <1>4, ConcatAssociative

LEMMA StackPushes2 ==
  ASSUME NEW st, Stacked(st), NEW f, NEW g, Upon(g, st), f \in Framed, What(f), g.do # "commands",
         domain = "manual" => f.do \in {"start", "commands"},
         domain # "manual" => /\ f.do # "start"
                              /\ IF f.do = "commands" THEN g.do = "leaf"
                                                      ELSE g.do \in {"node", "not"}
  PROVE  /\ Stacked(<<f, g>> \o st) /\ <<f, g>> \o st # <<>>
         /\ <<f, g>> \o st = <<f>> \o (<<g>> \o st)
<1>1. Stacked(<<g>> \o st)
  BY StackPushes
<1>2. g \in Framed /\ st \in Seq(Framed)
  BY DEF Upon, Stacked
<1>4. <<f, g>> \o st = <<f>> \o (<<g>> \o st)
  BY <1>2, TwoOnTop
<1>5. (<<g>> \o st)[1] = g /\ <<g>> \o st # <<>>
  BY <1>2, Pushed1
<1>6. Upon(f, <<g>> \o st)
  BY <1>5 DEF Upon
<1> QED
  BY <1>1, <1>4, <1>6, StackPushes

(* The steps of the interpreter leave its stack a stack.                   *)
LEMMA Stays == domain' = domain /\ pipeline' = pipeline /\ Stacked(todo') => Stacked(todo)'
BY DEF Stacked, What, Framed, Whats, Tree, TreeNode

StackKept ==
  domain' = domain /\ pipeline' = pipeline /\ Stacked(todo') /\ value' \in Given /\ Busy'

(* Between calls the call stays none.                                      *)
LEMMA NoCallYet ==
  ASSUME NEW do, StackInv, Job!Does(do) \/ Job!Returned(do), call' = call
  PROVE  call'.at = "none"
BY DEF Job!Does, Job!On, Job!Returned, StackInv, Busy

LEMMA ReturnStacked ==
  ASSUME Stacked(todo), todo # <<>>, NEW v \in Given, v # None, Job!Return(v), call'.at = "none"
  PROVE  Stacked(todo') /\ value' \in Given /\ Busy'
<1>1. todo' = Tail(todo) /\ value' = v
  BY DEF Job!Return
<1>2. todo' # <<>> => todo'[1] = todo[2] /\ 2 \in 2 .. Len(todo)
  <2>1. /\ Len(todo) \in Nat /\ Len(todo) > 0 /\ Len(todo') = Len(todo) - 1 /\ todo' \in Seq(Framed)
        /\ \A i \in 1 .. Len(todo) - 1 : todo'[i] = todo[i + 1]
    BY <1>1, Popped DEF Stacked
  <2>2. todo' # <<>> => Len(todo') > 0
    BY <2>1
  <2> QED
    BY <2>1, <2>2
<1>3. Busy'
  BY <1>1, <1>2 DEF Busy, Stacked
<1> QED
  BY <1>1, <1>3, StackPops

LEMMA Formed ==
  ASSUME StackInv, todo # <<>>, todo[1].do = "pipeline"
  PROVE  /\ domain # "manual" /\ Job!IsFormula(pipeline)
         /\ todo[1].what \in Tree
         /\ \/ Job!IsLeaf(todo[1].what)
            \/ todo[1].what \in [type : {"not"}, part : Tree]
            \/ todo[1].what \in TreeNode
<1>1. Upon(todo[1], Tail(todo))
  BY TopIsUpon DEF StackInv
<1>2. domain # "manual" /\ todo[1].what \in Tree
  BY <1>1 DEF Upon, What
<1> QED
  BY <1>2 DEF StackInv, Job!IsFormula, Tree, TreeNode

LEMMA FrameIs ==
  ASSUME NEW do \in {"pipeline", "node", "not", "leaf", "commands", "start"}, NEW what \in Whats,
         MaxDepth \in Nat
  PROVE  /\ Job!Frame(do, what) \in Framed
         /\ Job!Frame(do, what).do = do /\ Job!Frame(do, what).what = what
BY DEF Job!Frame, Framed

LEMMA CommandsAre ==
  ASSUME Job!WorkflowAssumption, NEW w \in DOMAIN Workflows, NEW d \in 0 .. MaxDepth
  PROVE  /\ Job!Commands(w, d) \in Framed /\ What(Job!Commands(w, d))
         /\ Job!Commands(w, d).do = "commands"
<1>1. Workflows[w] \in Seq(Job!Commanded)
  BY DEF Job!WorkflowAssumption
<1> QED
  BY <1>1 DEF Job!Commands, Framed, What, Whats

LEMMA NoCallIs == Job!NoCall.at = "none"
BY DEF Job!NoCall

LEMMA CondStacked ==
  ASSUME Job!WorkflowAssumption, StackInv, Job!InterpretCondition
  PROVE  StackKept
<1>1. PICK b \in BOOLEAN : Job!Return(Job!Truth(b))
  BY DEF Job!InterpretCondition
<1>2. Job!Truth(b) \in Given /\ Job!Truth(b) # None
  BY DEF Job!Truth, Given, Job!WorkflowAssumption
<1>3. todo # <<>> /\ call'.at = "none" /\ domain' = domain /\ pipeline' = pipeline
  BY NoCallIs DEF Job!InterpretCondition, Job!On, Job!Elsewhere
<1> QED
  BY <1>1, <1>2, <1>3, ReturnStacked DEF StackInv, StackKept

LEMMA LeafStacked ==
  ASSUME Job!WorkflowAssumption, StackInv, Job!InterpretLeaf
  PROVE  StackKept
<1> DEFINE top == todo[1]
<1>1. todo # <<>> /\ top.do = "pipeline" /\ top.what.type = "workflow" /\ Stacked(todo)
  BY DEF Job!InterpretLeaf, Job!Does, Job!On, Job!Top, StackInv
<1>2. domain' = domain /\ pipeline' = pipeline /\ call'.at = "none"
  BY NoCallYet DEF Job!InterpretLeaf, Job!Pure, Job!Elsewhere
<1>3. CASE top.what.name \in DOMAIN Workflows
  <2>1. /\ todo' = <<Job!Commands(top.what.name, 0), [top EXCEPT !.do = "leaf"]>> \o Tail(todo)
        /\ value' = None
    BY <1>3 DEF Job!InterpretLeaf, Job!Push, Job!Top
  <2>2. Upon(top, Tail(todo)) /\ Stacked(Tail(todo)) /\ domain # "manual" /\ top.what \in Tree
    BY <1>1, TopIsUpon, Formed
  <2> DEFINE g == [top EXCEPT !.do = "leaf"]
  <2>3. top \in Framed
    BY <2>2 DEF Upon
  <2>4. g = [do |-> "leaf", what |-> top.what, depth |-> top.depth]
    BY <2>3 DEF Framed
  <2>5. g \in Framed /\ What(g) /\ g.do = "leaf"
    BY <1>1, <2>2, <2>3, <2>4 DEF Framed, What, Job!IsLeaf
  <2>6. Upon(g, Tail(todo))
    BY <1>1, <2>2, <2>5 DEF Upon
  <2>7. 0 \in 0 .. MaxDepth
    BY DEF Job!WorkflowAssumption
  <2> DEFINE f == Job!Commands(top.what.name, 0)
  <2>8. f \in Framed /\ What(f) /\ f.do = "commands"
    BY <1>3, <2>7, CommandsAre
  <2>9. todo' = <<f, g>> \o Tail(todo)
    BY <2>1
  <2> HIDE DEF f, g
  <2>10. Stacked(<<f, g>> \o Tail(todo)) /\ <<f, g>> \o Tail(todo) # <<>>
    BY <2>2, <2>5, <2>6, <2>8, StackPushes2
  <2> QED
    BY <1>2, <2>1, <2>9, <2>10 DEF Given, StackKept, Busy
<1>4. CASE top.what.name \notin DOMAIN Workflows
  <2>1. Job!Return("left")
    BY <1>4 DEF Job!InterpretLeaf, Job!Top
  <2>2. "left" \in Given /\ "left" # None
    BY DEF Given, Job!WorkflowAssumption
  <2> QED
    BY <1>1, <1>2, <2>1, <2>2, ReturnStacked DEF StackKept
<1> QED
  BY <1>3, <1>4

LEMMA LeafEndStacked ==
  ASSUME Job!WorkflowAssumption, StackInv, Job!LeafEnds
  PROVE  StackKept
<1>1. todo # <<>> /\ Job!Return(Job!Truth(value = "true"))
  BY DEF Job!LeafEnds, Job!Returned
<1>2. Job!Truth(value = "true") \in Given /\ Job!Truth(value = "true") # None
  BY DEF Job!Truth, Given, Job!WorkflowAssumption
<1> QED
  BY <1>1, <1>2, NoCallYet, ReturnStacked DEF StackKept, StackInv, Job!LeafEnds, Job!Pure, Job!Elsewhere

(* What is left of a connective once its first part is under way.          *)
LEMMA RestOfNode ==
  ASSUME NEW w \in TreeNode, w.parts # <<>>
  PROVE  /\ [w EXCEPT !.parts = Tail(w.parts)] = [type |-> w.type, parts |-> Tail(w.parts)]
         /\ [w EXCEPT !.parts = Tail(w.parts)] \in TreeNode
         /\ w.parts \in Seq(Tree) /\ w.parts[1] \in Tree /\ Len(w.parts) \in Nat /\ Len(w.parts) > 0
         /\ Tail(w.parts) \in Seq(Tree) /\ Len(Tail(w.parts)) = Len(w.parts) - 1
         /\ \A i \in 1 .. Len(w.parts) - 1 : Tail(w.parts)[i] = w.parts[i + 1]
<1>1. w.parts \in Seq(Tree) /\ w.type \in {"and", "or"} /\ w = [type |-> w.type, parts |-> w.parts]
  BY DEF TreeNode
<1>2. [w EXCEPT !.parts = Tail(w.parts)] = [type |-> w.type, parts |-> Tail(w.parts)]
  BY <1>1
<1>3. /\ Tail(w.parts) \in Seq(Tree) /\ Len(w.parts) \in Nat /\ Len(w.parts) > 0
      /\ Len(Tail(w.parts)) = Len(w.parts) - 1 /\ w.parts[1] \in Tree
      /\ \A i \in 1 .. Len(w.parts) - 1 : Tail(w.parts)[i] = w.parts[i + 1]
  BY <1>1, Popped
<1> QED
  BY <1>1, <1>2, <1>3 DEF TreeNode

LEMMA NodeTop ==
  ASSUME StackInv, Job!InterpretNode
  PROVE  /\ todo # <<>> /\ domain # "manual" /\ todo[1].what \in TreeNode
         /\ todo[1].do \in {"pipeline", "node"}
         /\ Job!GoesOn(todo[1].what, todo[1].what.parts)
         /\ Stacked(todo) /\ Stacked(Tail(todo)) /\ Upon(todo[1], Tail(todo))
         /\ domain' = domain /\ pipeline' = pipeline /\ leaves' = leaves /\ call'.at = "none"
<1>1. todo # <<>> /\ todo[1].do \in {"pipeline", "node"}
  BY DEF Job!InterpretNode, Job!Does, Job!On, Job!Returned, Job!Top
<1>2. Upon(todo[1], Tail(todo)) /\ Stacked(Tail(todo))
  BY <1>1, TopIsUpon DEF StackInv
<1>3. domain # "manual"
  BY <1>1, <1>2 DEF Upon
<1>4. todo[1].what \in TreeNode
  <2>1. CASE todo[1].do = "pipeline"
    <3>1. todo[1].what.type \in {"and", "or"}
      BY <2>1 DEF Job!InterpretNode, Job!Does, Job!On, Job!Returned, Job!Top
    <3> QED
      BY <1>1, <2>1, <3>1, Formed DEF Job!IsLeaf
  <2>2. CASE todo[1].do = "node"
    BY <1>2, <2>2 DEF Upon, What
  <2> QED
    BY <1>1, <2>1, <2>2
<1> QED
  BY <1>1, <1>2, <1>3, <1>4, NoCallYet DEF Job!InterpretNode, Job!Top, Job!Pure, Job!Elsewhere, StackInv

LEMMA NodeStacked ==
  ASSUME Job!WorkflowAssumption, StackInv, Job!InterpretNode
  PROVE  StackKept
<1> DEFINE w == todo[1].what
<1>1. /\ todo # <<>> /\ domain # "manual" /\ w \in TreeNode /\ Job!GoesOn(w, w.parts)
      /\ todo[1].do \in {"pipeline", "node"}
      /\ Stacked(todo) /\ Stacked(Tail(todo)) /\ Upon(todo[1], Tail(todo))
      /\ domain' = domain /\ pipeline' = pipeline /\ call'.at = "none"
  BY NodeTop
<1>2. MaxDepth \in Nat
  BY DEF Job!WorkflowAssumption
<1>3. CASE value \notin {None, Job!Neutral(w)} \/ w.parts = <<>>
  <2> DEFINE v == IF value = None THEN Job!Neutral(w) ELSE value
  <2>1. Job!Return(v)
    BY <1>1, <1>3 DEF Job!GoesOn
  <2>2. v \in Given /\ v # None
    BY DEF Given, Job!Neutral, Job!Truth, Job!WorkflowAssumption, StackInv
  <2> HIDE DEF v
  <2> QED
    BY <1>1, <2>1, <2>2, ReturnStacked DEF StackKept
<1>4. CASE ~ (value \notin {None, Job!Neutral(w)} \/ w.parts = <<>>)
  <2> DEFINE rest == [w EXCEPT !.parts = Tail(w.parts)]
             f == Job!Frame("pipeline", w.parts[1])
             g == Job!Frame("node", rest)
  <2>1. todo' = <<f, g>> \o Tail(todo) /\ value' = None
    BY <1>1, <1>4 DEF Job!GoesOn, Job!Push
  <2>2. w.parts[1] \in Tree /\ rest \in TreeNode
    BY <1>1, <1>4, RestOfNode
  <2>3. w.parts[1] \in Whats /\ rest \in Whats
    BY <2>2 DEF Whats
  <2> HIDE DEF rest
  <2>4. /\ f \in Framed /\ f.do = "pipeline" /\ f.what = w.parts[1]
        /\ g \in Framed /\ g.do = "node" /\ g.what = rest
    BY <1>2, <2>3, FrameIs
  <2> HIDE DEF f, g
  <2>5. What(f) /\ What(g)
    BY <2>2, <2>4 DEF What
  <2>6. Upon(g, Tail(todo))
    BY <1>1, <2>4, <2>5 DEF Upon
  <2>7. Stacked(<<f, g>> \o Tail(todo)) /\ <<f, g>> \o Tail(todo) # <<>>
    BY <1>1, <2>4, <2>5, <2>6, StackPushes2
  <2> QED
    BY <1>1, <2>1, <2>7 DEF Given, StackKept, Busy
<1> QED
  BY <1>3, <1>4

LEMMA NotTop ==
  ASSUME StackInv, Job!InterpretNot
  PROVE  /\ todo # <<>> /\ domain # "manual" /\ todo[1].do \in {"pipeline", "not"}
         /\ todo[1].do = "pipeline" => /\ todo[1].what \in [type : {"not"}, part : Tree]
                                       /\ todo[1].what \in Tree /\ value = None
                                       /\ todo' = <<Job!Frame("pipeline", todo[1].what.part),
                                                    Job!Frame("not", None)>> \o Tail(todo)
                                       /\ value' = None
         /\ todo[1].do = "not" =>
              value # None /\ Job!Return(IF value = "left" THEN "left" ELSE Job!Truth(value = "false"))
         /\ Stacked(todo) /\ Stacked(Tail(todo)) /\ Upon(todo[1], Tail(todo))
         /\ domain' = domain /\ pipeline' = pipeline /\ leaves' = leaves /\ call'.at = "none"
<1>1. todo # <<>> /\ todo[1].do \in {"pipeline", "not"}
  BY DEF Job!InterpretNot, Job!Does, Job!On, Job!Returned, Job!Top
<1>2. Upon(todo[1], Tail(todo)) /\ Stacked(Tail(todo))
  BY <1>1, TopIsUpon DEF StackInv
<1>3. domain # "manual"
  BY <1>1, <1>2 DEF Upon
<1>4. ASSUME todo[1].do = "pipeline"
      PROVE  /\ todo[1].what \in [type : {"not"}, part : Tree]
             /\ todo[1].what \in Tree /\ value = None
             /\ todo' = <<Job!Frame("pipeline", todo[1].what.part), Job!Frame("not",
                  None)>> \o Tail(todo)
             /\ value' = None
  <2>1. /\ todo[1].what.type = "not" /\ value = None
        /\ Job!Push(<<Job!Frame("pipeline", todo[1].what.part), Job!Frame("not", None)>>)
    BY <1>4 DEF Job!InterpretNot, Job!Does, Job!On, Job!Returned, Job!Top
  <2>2. todo[1].what \in Tree /\ todo[1].what \in [type : {"not"}, part : Tree]
    BY <1>1, <1>4, <2>1, Formed DEF Job!IsLeaf, TreeNode
  <2> QED
    BY <2>1, <2>2 DEF Job!Push
<1>5. ASSUME todo[1].do = "not"
      PROVE  value # None /\ Job!Return(IF value = "left" THEN "left" ELSE Job!Truth(value = "false"))
  BY <1>5 DEF Job!InterpretNot, Job!Does, Job!On, Job!Returned, Job!Top
<1> QED
  BY <1>1, <1>2, <1>3, <1>4, <1>5, NoCallYet DEF Job!InterpretNot, Job!Pure, Job!Elsewhere, StackInv

LEMMA NotStacked ==
  ASSUME Job!WorkflowAssumption, StackInv, Job!InterpretNot
  PROVE  StackKept
<1>1. CASE todo[1].do = "not"
  <2> DEFINE v == IF value = "left" THEN "left" ELSE Job!Truth(value = "false")
  <2>1. v \in Given /\ v # None
    BY DEF Given, Job!Truth, Job!WorkflowAssumption
  <2>2. Job!Return(v)
    BY <1>1, NotTop
  <2> HIDE DEF v
  <2> QED
    BY <2>1, <2>2, NotTop, ReturnStacked DEF StackKept
<1>2. CASE todo[1].do = "pipeline"
  <2> DEFINE part == todo[1].what.part
             f == Job!Frame("pipeline", part)
             g == Job!Frame("not", None)
  <2>1. todo' = <<f, g>> \o Tail(todo) /\ value' = None /\ part \in Tree
    BY <1>2, NotTop
  <2>2. /\ f \in Framed /\ f.do = "pipeline" /\ f.what = part
        /\ g \in Framed /\ g.do = "not" /\ g.what = None
    BY <2>1, FrameIs DEF Whats, Job!WorkflowAssumption
  <2> HIDE DEF f, g
  <2>3. What(f) /\ What(g)
    BY <2>1, <2>2 DEF What
  <2>4. Upon(g, Tail(todo))
    BY <1>2, <2>2, <2>3, NotTop DEF Upon
  <2> QED
    BY <2>1, <2>2, <2>3, <2>4, NotTop, StackPushes2 DEF Given, StackKept, Busy
<1> QED
  BY <1>1, <1>2, NotTop

(* The steps of workflows.                                                 *)
LEMMA CommandsTop ==
  ASSUME StackInv, todo # <<>>, todo[1].do = "commands"
  PROVE  /\ Stacked(todo) /\ Stacked(Tail(todo)) /\ Upon(todo[1], Tail(todo))
         /\ todo[1].what \in Seq(Job!Commanded) /\ todo[1].depth \in 0 .. MaxDepth
         /\ todo[1] = [do |-> "commands", what |-> todo[1].what, depth |-> todo[1].depth]
<1>1. Upon(todo[1], Tail(todo)) /\ Stacked(Tail(todo))
  BY TopIsUpon DEF StackInv
<1> QED
  BY <1>1 DEF Upon, What, Framed, StackInv

LEMMA CommandsEndStacked ==
  ASSUME Job!WorkflowAssumption, StackInv, Job!CommandsEnd
  PROVE  StackKept
<1>1. /\ todo # <<>> /\ todo[1].do = "commands" /\ call'.at = "none"
      /\ domain' = domain /\ pipeline' = pipeline
  BY NoCallYet DEF Job!CommandsEnd, Job!Does, Job!On, Job!Returned, Job!Top, Job!Pure, Job!Elsewhere
<1>2. ASSUME NEW v \in {"true", "left"}, Job!Return(v) PROVE StackKept
  BY <1>1, <1>2, ReturnStacked DEF StackKept, StackInv, Given, Job!WorkflowAssumption
<1>3. CASE value # None /\ Job!Push(<<[Job!Top EXCEPT !.what = Tail(@)]>>)
  <2> DEFINE f == [todo[1] EXCEPT !.what = Tail(@)]
  <2>1. todo' = <<f>> \o Tail(todo) /\ value' = None
    BY <1>3 DEF Job!Push, Job!Top
  <2>2. todo[1].what # <<>>
    BY <1>1, <1>3 DEF StackInv, Busy
  <2>3. Tail(todo[1].what) \in Seq(Job!Commanded)
    BY <1>1, <2>2, CommandsTop, Popped
  <2>4. f = [do |-> "commands", what |-> Tail(todo[1].what), depth |-> todo[1].depth]
    <3> DEFINE w == todo[1].what
               t == Tail(w)
    <3>1. f = [todo[1] EXCEPT !.what = t]
      OBVIOUS
    <3>2. todo[1] = [do |-> "commands", what |-> w, depth |-> todo[1].depth]
      BY <1>1, CommandsTop
    <3> HIDE DEF f, t
    <3>3. f = [do |-> "commands", what |-> t, depth |-> todo[1].depth]
      BY <3>1, <3>2
    <3> QED
      BY <3>3 DEF t
  <2>5. f \in Framed /\ What(f) /\ f.do = "commands"
    BY <1>1, <2>3, <2>4, CommandsTop DEF Framed, What, Whats
  <2>6. Upon(f, Tail(todo))
    BY <1>1, <2>5, CommandsTop DEF Upon
  <2> HIDE DEF f
  <2> QED
    BY <1>1, <2>1, <2>6, CommandsTop, StackPushes DEF StackKept, Busy, Given
<1> QED
  BY <1>2, <1>3 DEF Job!CommandsEnd, Job!Returned

(* Another workflow on top, or the value of the command.                   *)
LEMMA NestedStacked ==
  ASSUME Job!WorkflowAssumption, StackInv, NEW name,
           Job!RunNested(name) \/ Job!Gives("left") \/ Job!Gives("true"),
         todo # <<>>, todo[1].do = "commands", todo[1].what # <<>>, call'.at = "none"
  PROVE  Stacked(todo') /\ value' \in Given /\ Busy'
<1>1. CASE \E v \in {"left", "true"} : Job!Gives(v)
  BY <1>1 DEF Job!Gives, StackInv, Given, Busy
<1>2. CASE /\ todo' = <<Job!Commands(name, todo[1].depth + 1)>> \o todo /\ value' = None
           /\ todo[1].depth + 1 <= MaxDepth /\ name \in DOMAIN Workflows
  <2> DEFINE f == Job!Commands(name, todo[1].depth + 1)
  <2>1. todo[1].depth + 1 \in 0 .. MaxDepth
    BY <1>2, CommandsTop DEF Job!WorkflowAssumption
  <2>2. f \in Framed /\ What(f) /\ f.do = "commands"
    BY <1>2, <2>1, CommandsAre
  <2> HIDE DEF f
  <2>3. Upon(f, todo)
    BY <2>2 DEF Upon
  <2> QED
    BY <1>2, <2>3, StackPushes DEF Busy, Given, StackInv, f
<1>3. ASSUME Job!RunNested(name), ~ Job!Gives("left")
      PROVE  /\ todo' = <<Job!Commands(name, todo[1].depth + 1)>> \o todo /\ value' = None
             /\ todo[1].depth + 1 <= MaxDepth /\ name \in DOMAIN Workflows
  <2>1. ~ (todo[1].depth + 1 > MaxDepth) /\ name \in DOMAIN Workflows
    BY <1>3 DEF Job!RunNested, Job!Top
  <2>2. todo[1].depth \in Nat /\ MaxDepth \in Nat
    BY CommandsTop DEF Job!WorkflowAssumption
  <2> QED
    BY <1>3, <2>1, <2>2 DEF Job!RunNested, Job!Top
<1> QED
  BY <1>1, <1>2, <1>3

LEMMA RunStacked ==
  ASSUME Job!WorkflowAssumption, StackInv, Job!InterpretRun
  PROVE  StackKept
<1>1. /\ todo # <<>> /\ todo[1].do = "commands" /\ todo[1].what # <<>> /\ call'.at = "none"
      /\ domain' = domain /\ pipeline' = pipeline /\ Job!RunNested(Job!Next1.name)
  BY NoCallYet DEF Job!InterpretRun, Job!AtCommand, Job!Does, Job!On, Job!Top, Job!Pure, Job!Elsewhere
<1> QED
  BY <1>1, NestedStacked DEF StackKept

LEMMA WhenStacked ==
  ASSUME Job!WorkflowAssumption, StackInv, Job!InterpretWhen
  PROVE  StackKept
<1>1. /\ todo # <<>> /\ todo[1].do = "commands" /\ todo[1].what # <<>> /\ call'.at = "none"
      /\ domain' = domain /\ pipeline' = pipeline
  BY NoCallIs DEF Job!InterpretWhen, Job!On, Job!Top, Job!Elsewhere
<1>2. \E name : Job!RunNested(name) \/ Job!Gives("left") \/ Job!Gives("true")
  BY DEF Job!InterpretWhen
<1> QED
  BY <1>1, <1>2, NestedStacked DEF StackKept

(* What waits or asks leaves the stack as it is, and gives a value when the*)
(* call is over.                                                           *)
LEMMA CalledStacked ==
  ASSUME Job!WorkflowAssumption, StackInv, todo # <<>>, todo[1].do = "commands", todo[1].what # <<>>,
         \/ value = None /\ Job!NoValue
         \/ call'.at = "none" /\ \E v \in {"true", "left"} : Job!Gives(v)
  PROVE  Stacked(todo') /\ value' \in Given /\ Busy'
BY DEF StackInv, Given, Busy, Job!NoValue, Job!Gives

LEMMA Called ==
  ASSUME StackInv, call.at # "none", Job!Condition # "probe" \/ todo[1].do = "commands"
  PROVE  value = None /\ todo # <<>> /\ todo[1].do = "commands" /\ todo[1].what # <<>>
BY DEF StackInv, Busy

(* A call that is over either answers the probe on top or gives the command*)
(* on top its value.                                                       *)
LEMMA EndsStacked ==
  ASSUME Job!WorkflowAssumption, StackInv, CallShape, NEW event, Job!CallEnds(event),
         call.at \in {"suspect", "rebooted", "telling"}, domain' = domain, pipeline' = pipeline
  PROVE  StackKept
<1>1. CASE Job!Condition = "probe"
  <2>1. UNCHANGED <<todo, value>> /\ call'.at = "answered"
    BY <1>1 DEF Job!CallEnds, Job!NoValue, Job!ProbeAnswers, CallShape
  <2>2. Job!Condition' = Job!Condition
    BY <2>1 DEF Job!Condition, Job!On, Job!Top, Job!Next1
  <2> QED
    BY <1>1, <2>1, <2>2 DEF StackKept, StackInv, Busy
<1>2. CASE Job!Condition # "probe"
  <2>1. value = None /\ todo # <<>> /\ todo[1].do = "commands" /\ todo[1].what # <<>>
    BY <1>2, Called
  <2>2. call' = Job!NoCall /\ \E v \in {"true", "left"} : Job!Gives(v)
    BY <1>2 DEF Job!CallEnds
  <2> QED
    BY <2>1, <2>2, NoCallIs, CalledStacked DEF StackKept
<1> QED
  BY <1>1, <1>2

(* The stack stays as it is while a call goes on.                          *)
LEMMA GoesOnStacked ==
  ASSUME StackInv, UNCHANGED <<domain, pipeline, todo, value>>, call'.at # "none", value = None,
         todo # <<>>,
         \/ todo[1].do = "commands" /\ todo[1].what # <<>>
         \/ /\ todo[1].do = "pipeline" /\ Job!Condition = "probe"
            /\ call'.at \in {"probing", "answered", "suspect", "telling"}
  PROVE  StackKept
<1>1. Job!Condition' = Job!Condition
  BY DEF Job!Condition, Job!On, Job!Top, Job!Next1
<1> QED
  BY <1>1 DEF StackKept, StackInv, Busy

LEMMA ProbeStacked ==
  ASSUME Job!WorkflowAssumption, StackInv, CallShape, Job!ProbeStarts \/ Job!ProbeEnds
  PROVE  StackKept
<1>1. UNCHANGED <<domain, pipeline, todo, value>>
  BY DEF Job!ProbeStarts, Job!ProbeEnds, Job!Elsewhere
<1>2. call'.at \in {"probing", "answered", "suspect"}
  BY DEF Job!ProbeStarts, Job!ProbeEnds, Job!ProbeAnswers, CallShape
<1>3. CASE Job!ProbeStarts
  <2>1. Job!Condition = "probe"
    BY <1>3 DEF Job!ProbeStarts
  <2>2. /\ todo # <<>> /\ value = None
        /\ todo[1].do = "pipeline" \/ (todo[1].do = "commands" /\ todo[1].what # <<>>)
    BY <2>1 DEF Job!Condition, Job!On, Job!Top, Job!WorkflowAssumption
  <2> QED
    BY <1>1, <1>2, <2>1, <2>2, GoesOnStacked
<1>4. CASE Job!ProbeEnds
  <2>1. call.at = "probing"
    BY <1>4 DEF Job!ProbeEnds
  <2>2. /\ todo # <<>> /\ value = None
        /\ \/ todo[1].do = "pipeline" /\ Job!Condition = "probe"
           \/ todo[1].do = "commands" /\ todo[1].what # <<>>
    BY <2>1 DEF StackInv, Busy
  <2> QED
    BY <1>1, <1>2, <2>2, GoesOnStacked
<1> QED
  BY <1>3, <1>4

LEMMA SleepStacked ==
  ASSUME Job!WorkflowAssumption, StackInv, Job!Sleep
  PROVE  StackKept
<1>1. /\ todo # <<>> /\ todo[1].do = "commands" /\ todo[1].what # <<>> /\ call'.at = "none"
      /\ domain' = domain /\ pipeline' = pipeline /\ Job!Gives("true")
  BY NoCallYet DEF Job!Sleep, Job!AtCommand, Job!Does, Job!On, Job!Top, Job!Pure, Job!Elsewhere
<1> QED
  BY <1>1, CalledStacked DEF StackKept

LEMMA AwaitStacked ==
  ASSUME Job!WorkflowAssumption, StackInv, Job!Await
  PROVE  StackKept
<1>1. /\ todo # <<>> /\ todo[1].do = "commands" /\ todo[1].what # <<>> /\ value = None
      /\ domain' = domain /\ pipeline' = pipeline
  BY DEF Job!Await, Job!On, Job!Top, Job!Elsewhere
<1>2. \/ Job!NoValue
      \/ call' = Job!NoCall /\ \E v \in {"true", "left"} : Job!Gives(v)
  BY DEF Job!Await
<1> QED
  BY <1>1, <1>2, NoCallIs, CalledStacked DEF StackKept

LEMMA DeviceStacked ==
  ASSUME Job!WorkflowAssumption, StackInv,
         Job!RequireAccepting \/ Job!WaitForDevice \/ Job!ResolveEndpoint \/ Job!CommandEnds
  PROVE  StackKept
<1>1. domain' = domain /\ pipeline' = pipeline
  BY DEF Job!RequireAccepting, Job!WaitForDevice, Job!ResolveEndpoint, Job!CommandEnds, Job!Elsewhere
<1>2. todo # <<>> /\ todo[1].do = "commands" /\ todo[1].what # <<>> /\ value = None
  <2>1. CASE Job!RequireAccepting
    BY <2>1 DEF Job!RequireAccepting, Job!IsDevice, Job!Does, Job!On, Job!Top
  <2>2. CASE ~ Job!RequireAccepting
    <3>1. call.at \in {"waiting", "gated", "running"}
      BY <2>2 DEF Job!WaitForDevice, Job!ResolveEndpoint, Job!CommandEnds
    <3> QED
      BY <3>1 DEF StackInv, Busy
  <2> QED
    BY <2>1, <2>2
<1>3. \/ Job!NoValue
      \/ call'.at = "none" /\ \E v \in {"true", "left"} : Job!Gives(v)
  <2>1. CASE Job!RequireAccepting
    BY <2>1 DEF Job!RequireAccepting, Job!IsDevice, Job!Does, Job!On
  <2>2. CASE Job!WaitForDevice
    BY <2>2, NoCallIs DEF Job!WaitForDevice
  <2>3. CASE Job!ResolveEndpoint
    BY <2>3, NoCallIs DEF Job!ResolveEndpoint
  <2>4. CASE Job!CommandEnds
    BY <2>4, NoCallIs DEF Job!CommandEnds
  <2> QED
    BY <2>1, <2>2, <2>3, <2>4
<1> QED
  BY <1>1, <1>2, <1>3, CalledStacked DEF StackKept

LEMMA TellStacked ==
  ASSUME Job!WorkflowAssumption, StackInv, CallShape, Job!NotifyBridge \/ Job!BridgeHears
  PROVE  StackKept
<1>1. UNCHANGED <<domain, pipeline>> /\ call.at \in {"suspect", "rebooted", "telling"}
  BY DEF Job!NotifyBridge, Job!BridgeHears, Job!Elsewhere
<1>2. CASE \E event : Job!CallEnds(event)
  BY <1>1, <1>2, EndsStacked
<1>3. CASE Job!NoValue /\ call' = [call EXCEPT !.at = "telling"]
  <2>1. UNCHANGED <<todo, value>> /\ call'.at = "telling"
    BY <1>3 DEF Job!NoValue, CallShape
  <2>2. /\ todo # <<>> /\ value = None
        /\ \/ todo[1].do = "pipeline" /\ Job!Condition = "probe"
           \/ todo[1].do = "commands" /\ todo[1].what # <<>>
    BY <1>1 DEF StackInv, Busy
  <2> QED
    BY <1>1, <2>1, <2>2, GoesOnStacked
<1> QED
  BY <1>2, <1>3 DEF Job!NotifyBridge, Job!BridgeHears

LEMMA ManualStacked ==
  ASSUME Job!WorkflowAssumption, StackInv, Job!ManualRun
  PROVE  StackKept
<1>1. /\ todo # <<>> /\ todo[1].do = "start" /\ call'.at = "none"
      /\ domain' = domain /\ pipeline' = pipeline
  BY NoCallYet DEF Job!ManualRun, Job!Does, Job!On, Job!Top
<1>2. CASE Job!Return("left")
  BY <1>1, <1>2, ReturnStacked DEF StackKept, StackInv, Given, Job!WorkflowAssumption
<1>3. CASE Job!Push(<<Job!Commands(Manual, 0)>>) /\ Manual \in DOMAIN Workflows
  <2>1. Upon(todo[1], Tail(todo)) /\ Stacked(Tail(todo))
    BY <1>1, TopIsUpon DEF StackInv
  <2>2. domain = "manual"
    BY <1>1, <2>1 DEF Upon
  <2>3. 0 \in 0 .. MaxDepth
    BY DEF Job!WorkflowAssumption
  <2> DEFINE f == Job!Commands(Manual, 0)
  <2>4. f \in Framed /\ What(f) /\ f.do = "commands"
    BY <1>3, <2>3, CommandsAre
  <2> HIDE DEF f
  <2>5. Upon(f, Tail(todo))
    BY <2>1, <2>2, <2>4 DEF Upon
  <2>6. todo' = <<f>> \o Tail(todo) /\ value' = None
    BY <1>3 DEF Job!Push, f
  <2> QED
    BY <1>1, <2>1, <2>5, <2>6, StackPushes DEF StackKept, Busy, Given
<1> QED
  BY <1>2, <1>3 DEF Job!ManualRun

LEMMA HappensStacked ==
  ASSUME StackInv, CallShape, Job!RegistryEdited \/ Job!BridgeMoves \/ Job!FactChanges
  PROVE  StackKept
<1>1. /\ domain' = domain /\ pipeline' = pipeline /\ todo' = todo /\ value' = value
  BY DEF Job!RegistryEdited, Job!BridgeMoves, Job!FactChanges, Job!Happens
<1>2. call'.at = call.at
  BY DEF Job!RegistryEdited, Job!BridgeMoves, Job!FactChanges, CallShape
<1>3. Job!Condition' = Job!Condition
  BY <1>1 DEF Job!Condition, Job!On, Job!Top, Job!Next1
<1> QED
  BY <1>1, <1>2, <1>3 DEF StackKept, StackInv, Busy

(* The calls of commands and probes.  What changes only the call.          *)
Nearby == {"running", "probing", "suspect", "rebooted"}

LEMMA OnlyCalls ==
  ASSUME CallInv, UNCHANGED <<domain, entity, registry, accepting, told>>, CallShape',
         call'.at \notin Nearby \/ Reaching', call.at # "telling", call'.at # "telling"
  PROVE  CallInv'
<1>1. Reaching'
  BY DEF Reaching, Nearby
<1>2. BridgeShape'
  BY DEF CallInv, BridgeShape, ToldShape
<1>3. Job!BridgeHearsOfTheCulprit' /\ Job!WaitSeesTheReboot'
  BY DEF CallInv, Job!BridgeHearsOfTheCulprit, Job!WaitSeesTheReboot
<1> QED
  BY <1>1, <1>2, <1>3 DEF CallInv

LEMMA NoCallShape ==
  ASSUME Job!WorkflowAssumption, call' = Job!NoCall
  PROVE  CallShape' /\ call'.at = "none" /\ call'.at \notin Nearby
BY DEF Job!NoCall, CallShape, Job!WorkflowAssumption, Nearby

LEMMA CondAsked ==
  ASSUME NEW cond, NEW v \in Job!CondValues(cond)
  PROVE  call.at \in {"none", "await", "answered"}
BY DEF Job!CondValues

LEMMA AnsweredShape ==
  ASSUME CallShape, NEW v, Job!ProbeAnswers(v)
  PROVE  CallShape' /\ call'.at = "answered" /\ call'.at \notin Nearby
<1>1. call' = [at |-> "answered", camera |-> call.camera, to |-> call.to, moved |-> call.moved,
               polls |-> call.polls, answer |-> v]
  BY DEF CallShape, Job!ProbeAnswers
<1> QED
  BY <1>1 DEF CallShape, Nearby

LEMMA OverShape ==
  ASSUME Job!WorkflowAssumption, CallShape, NEW event, Job!CallEnds(event)
  PROVE  CallShape' /\ call'.at \in {"none", "answered"} /\ call'.at \notin Nearby
BY AnsweredShape, NoCallShape DEF Job!CallEnds

(* A call that goes on keeps where it went.                                *)
LEMMA GoesFurther ==
  ASSUME CallShape, NEW at, call' = [call EXCEPT !.at = at],
         at \in {"running", "suspect", "rebooted", "telling"}
  PROVE  CallShape' /\ call'.at = at /\ UNCHANGED <<call.to, call.moved>>
<1>1. call' = [at |-> at, camera |-> call.camera, to |-> call.to, moved |-> call.moved,
               polls |-> call.polls, answer |-> call.answer]
  BY DEF CallShape
<1> QED
  BY <1>1 DEF CallShape

LEMMA LeavesFor ==
  ASSUME Job!WorkflowAssumption, CallInv, UNCHANGED <<domain, entity, registry>>,
         NEW at \in {"running", "probing"}, Job!ResolveTarget # None,
         call' = [call EXCEPT !.at = at, !.to = Job!ResolveTarget]
  PROVE  CallShape' /\ Reaching' /\ call'.at = at
<1>1. call' = [at |-> at, camera |-> call.camera, to |-> Job!ResolveTarget, moved |-> call.moved,
               polls |-> call.polls, answer |-> call.answer]
  BY DEF CallInv, CallShape
<1>2. Job!ResolveTarget' = Job!ResolveTarget
  BY DEF Job!ResolveTarget, Job!TargetIn
<1> QED
  BY <1>1, <1>2 DEF CallInv, CallShape, Reaching

LEMMA ConditionsKeepCalls ==
  ASSUME Job!WorkflowAssumption, StackInv, CallInv,
         Job!InterpretCondition \/ Job!InterpretWhen \/ Job!Await
  PROVE  CallInv'
<1>1. UNCHANGED <<domain, entity, registry, accepting, told>>
  BY DEF Job!InterpretCondition, Job!InterpretWhen, Job!Await, Job!Elsewhere, Job!environment
<1>2. call.at # "telling"
  BY CondAsked DEF Job!InterpretCondition, Job!InterpretWhen, Job!Await
<1>3. CASE call' = Job!NoCall
  BY <1>1, <1>2, <1>3, NoCallShape, OnlyCalls
<1>4. CASE call.polls # 0 /\ call' = [Job!NoCall EXCEPT !.at = "await", !.polls = call.polls - 1]
  <2>1. call' = [at |-> "await", camera |-> None, to |-> None, moved |-> FALSE,
                 polls |-> call.polls - 1, answer |-> None]
    BY <1>4 DEF Job!NoCall
  <2>2. call.polls - 1 \in 0 .. Patience
    BY <1>4 DEF CallInv, CallShape, Job!WorkflowAssumption
  <2>3. CallShape' /\ call'.at = "await" /\ call'.at \notin Nearby
    BY <2>1, <2>2 DEF CallShape, Nearby
  <2> QED
    BY <1>1, <1>2, <2>3, OnlyCalls
<1> QED
  BY <1>3, <1>4 DEF Job!InterpretCondition, Job!InterpretWhen, Job!Await

LEMMA ProbesKeepCalls ==
  ASSUME Job!WorkflowAssumption, StackInv, CallInv, Job!ProbeStarts \/ Job!ProbeEnds
  PROVE  CallInv'
<1>1. UNCHANGED <<domain, entity, registry, accepting, told>> /\ CallShape
  BY DEF Job!ProbeStarts, Job!ProbeEnds, Job!Elsewhere, Job!environment, CallInv
<1>2. call.at # "telling"
  BY DEF Job!ProbeStarts, Job!ProbeEnds
<1>3. CASE \E v : Job!ProbeAnswers(v)
  <2>1. PICK v : Job!ProbeAnswers(v)
    BY <1>3
  <2>2. CallShape' /\ call'.at = "answered" /\ call'.at \notin Nearby
    BY <1>1, <2>1, AnsweredShape
  <2> QED
    BY <1>1, <1>2, <2>2, OnlyCalls
<1>4. CASE /\ Job!ResolveTarget # None
           /\ call' = [call EXCEPT !.at = "probing", !.to = Job!ResolveTarget]
  BY <1>1, <1>2, <1>4, LeavesFor, OnlyCalls
<1>5. CASE call.at = "probing" /\ call' = [call EXCEPT !.at = "suspect"]
  <2>1. CallShape' /\ call'.at = "suspect" /\ UNCHANGED <<call.to, call.moved>>
    BY <1>1, <1>5, GoesFurther
  <2>2. Job!ResolveTarget' = Job!ResolveTarget
    BY <1>1 DEF Job!ResolveTarget, Job!TargetIn
  <2>3. Reaching'
    BY <1>5, <2>1, <2>2 DEF CallInv, Reaching
  <2> QED
    BY <1>1, <1>2, <2>1, <2>3, OnlyCalls
<1> QED
  BY <1>3, <1>4, <1>5 DEF Job!ProbeStarts, Job!ProbeEnds

LEMMA DevicesKeepCalls ==
  ASSUME Job!WorkflowAssumption, StackInv, CallInv,
         Job!RequireAccepting \/ Job!WaitForDevice \/ Job!ResolveEndpoint \/ Job!CommandEnds
  PROVE  CallInv'
<1>1. UNCHANGED <<domain, entity, registry, accepting, told>> /\ CallShape
  BY DEF Job!RequireAccepting, Job!WaitForDevice, Job!ResolveEndpoint, Job!CommandEnds,
         Job!Elsewhere, Job!environment, CallInv
<1>2. call.at \in {"none", "waiting", "gated", "running"}
  BY DEF Job!RequireAccepting, Job!WaitForDevice, Job!ResolveEndpoint, Job!CommandEnds,
         Job!IsDevice, Job!Does, Job!On
<1>3. CASE call' = Job!NoCall
  BY <1>1, <1>2, <1>3, NoCallShape, OnlyCalls
<1>4. CASE Job!RequireAccepting
  <2>1. CASE UNCHANGED call
    <3>1. call'.at = "none"
      BY <1>4, <2>1 DEF Job!RequireAccepting, Job!IsDevice, Job!Does, Job!On
    <3> QED
      BY <1>1, <1>2, <2>1, <3>1, OnlyCalls DEF CallShape, Nearby
  <2>2. ASSUME NEW c, NEW at \in {"waiting", "gated"}, call' = [Job!NoCall EXCEPT !.camera = c, !.at = at]
        PROVE  CallInv'
    <3>1. call' = [at |-> at, camera |-> c, to |-> None, moved |-> FALSE,
                   polls |-> Patience, answer |-> None]
      BY <2>2 DEF Job!NoCall
    <3>2. CallShape' /\ call'.at \notin Nearby /\ call'.at # "telling"
      BY <3>1 DEF CallShape, Nearby, Job!WorkflowAssumption
    <3> QED
      BY <1>1, <1>2, <3>2, OnlyCalls
  <2> QED
    BY <1>4, <2>1, <2>2 DEF Job!RequireAccepting
<1>5. CASE /\ Job!ResolveTarget # None
           /\ call' = [call EXCEPT !.at = "running", !.to = Job!ResolveTarget]
  BY <1>1, <1>2, <1>5, LeavesFor, OnlyCalls
<1>6. ASSUME NEW at \in {"suspect", "rebooted"}, call.at = "running", call' = [call EXCEPT !.at = at]
      PROVE  CallInv'
  <2>1. CallShape' /\ call'.at = at /\ UNCHANGED <<call.to, call.moved>>
    BY <1>1, <1>6, GoesFurther
  <2>2. Job!ResolveTarget' = Job!ResolveTarget
    BY <1>1 DEF Job!ResolveTarget, Job!TargetIn
  <2>3. Reaching'
    BY <1>6, <2>1, <2>2 DEF CallInv, Reaching
  <2> QED
    BY <1>1, <1>2, <2>1, <2>3, OnlyCalls
<1> QED
  BY <1>3, <1>4, <1>5, <1>6 DEF Job!WaitForDevice, Job!ResolveEndpoint, Job!CommandEnds

(* The camera at the host the call went to.                                *)
LEMMA TheCulprit ==
  ASSUME Job!WorkflowAssumption, CallInv, call.at \in {"suspect", "rebooted"}, ~ call.moved
  PROVE  LET there == {d \in Phone : registry.host[d] = call.to} IN
           IF Job!ResolveAndroidBridgeId = None THEN there = {} ELSE Job!ResolveAndroidBridgeId \in there
<1>1. call.to # None /\ Job!ResolveTarget = call.to /\ registry.camera \in Phone \union {None}
  BY DEF CallInv, Reaching, BridgeShape
<1>2. None \notin Phone
  BY DEF Job!WorkflowAssumption
<1>3. CASE domain = "suitest-camera"
  <2>1. registry.camera # None /\ registry.host[registry.camera] = call.to
    BY <1>1, <1>3 DEF Job!ResolveTarget, Job!TargetIn
  <2> QED
    BY <1>1, <1>3, <2>1 DEF Job!ResolveAndroidBridgeId
<1>4. CASE domain # "suitest-camera"
  <2>1. entity = call.to /\ Job!ResolveAndroidBridgeId = Job!CameraAt(call.to)
    BY <1>1, <1>4 DEF Job!ResolveTarget, Job!TargetIn, Job!ResolveAndroidBridgeId
  <2> DEFINE there == {d \in Phone : registry.host[d] = call.to}
  <2>2. Job!CameraAt(call.to) = IF there = {} THEN None ELSE CHOOSE c \in there : TRUE
    BY DEF Job!CameraAt
  <2> HIDE DEF there
  <2>3. there # {} => (CHOOSE c \in there : TRUE) \in there
    OBVIOUS
  <2>4. there \subseteq Phone
    BY DEF there
  <2>5. IF Job!ResolveAndroidBridgeId = None THEN there = {} ELSE Job!ResolveAndroidBridgeId \in there
    BY <1>2, <2>1, <2>2, <2>3, <2>4
  <2> QED
    BY <2>5 DEF there
<1> QED
  BY <1>3, <1>4

LEMMA NamesACamera ==
  ASSUME CallInv
  PROVE  Job!ResolveAndroidBridgeId \in Phone \union {None}
<1>1. registry.camera \in Phone \union {None}
  BY DEF CallInv, BridgeShape
<1> DEFINE there == {d \in Phone : registry.host[d] = entity}
<1>2. there # {} => (CHOOSE c \in there : TRUE) \in there
  OBVIOUS
<1>3. Job!CameraAt(entity) \in Phone \union {None}
  BY <1>2 DEF Job!CameraAt
<1> QED
  BY <1>1, <1>3 DEF Job!ResolveAndroidBridgeId

LEMMA NotifyKeepsCalls ==
  ASSUME Job!WorkflowAssumption, StackInv, CallInv, Job!NotifyBridge
  PROVE  CallInv'
<1>1. UNCHANGED <<domain, entity, registry, accepting>> /\ CallShape /\ call.at \in {"suspect", "rebooted"}
  BY DEF Job!NotifyBridge, Job!Elsewhere, Job!environment, CallInv
<1>2. CASE Job!CallEnds(call.at) /\ UNCHANGED told
  BY <1>1, <1>2, OverShape, OnlyCalls
<1>3. CASE /\ told' = Job!Hears(Job!ResolveAndroidBridgeId)
           /\ IF Job!ResolveAndroidBridgeId = None THEN Job!CallEnds(call.at)
              ELSE Job!NoValue /\ call' = [call EXCEPT !.at = "telling"]
  <2> DEFINE c == Job!ResolveAndroidBridgeId
  <2>1. c \in Phone \union {None}
    BY NamesACamera
  <2>2. told' = [event |-> call.at, camera |-> c, moved |-> call.moved, connected |-> FALSE,
                 there |-> {d \in Phone : registry.host[d] = call.to}]
    BY <1>3 DEF Job!Hears
  <2>3. ~ call.moved => IF c = None THEN {d \in Phone : registry.host[d] = call.to} = {}
                                    ELSE c \in {d \in Phone : registry.host[d] = call.to}
    BY <1>1, TheCulprit
  <2> HIDE DEF c
  <2>4. Job!BridgeHearsOfTheCulprit'
    BY <2>2, <2>3 DEF Job!BridgeHearsOfTheCulprit
  <2>5. CASE c = None
    <3>1. CallShape' /\ call'.at \in {"none", "answered"} /\ call'.at \notin Nearby
      BY <1>1, <1>3, <2>5, OverShape DEF c
    <3>2. BridgeShape' /\ Job!WaitSeesTheReboot' /\ Reaching'
      BY <1>1, <2>1, <2>2, <2>5, <3>1
         DEF CallInv, BridgeShape, ToldShape, Job!WaitSeesTheReboot, Reaching
    <3> QED
      BY <2>4, <3>1, <3>2 DEF CallInv
  <2>6. CASE c # None
    <3>1. CallShape' /\ call'.at = "telling"
      BY <1>1, <1>3, <2>6, GoesFurther DEF c
    <3>2. /\ ToldShape' /\ told'.camera \in Phone
          /\ ~ told'.moved => told'.camera \in told'.there
      BY <2>1, <2>2, <2>3, <2>6 DEF ToldShape
    <3>3. BridgeShape' /\ Job!WaitSeesTheReboot' /\ Reaching'
      BY <1>1, <3>1, <3>2 DEF CallInv, BridgeShape, Job!WaitSeesTheReboot, Reaching
    <3> QED
      BY <2>4, <3>1, <3>3 DEF CallInv
  <2> QED
    BY <2>5, <2>6
<1> QED
  BY <1>2, <1>3 DEF Job!NotifyBridge

LEMMA HearingKeepsCalls ==
  ASSUME Job!WorkflowAssumption, StackInv, CallInv, Job!BridgeHears
  PROVE  CallInv'
<1>1. /\ UNCHANGED <<domain, entity, registry>> /\ CallShape /\ call.at = "telling"
      /\ accepting' = [accepting EXCEPT ![told.camera] = FALSE]
      /\ told' = [told EXCEPT !.connected = FALSE] /\ Job!CallEnds(told.event)
  BY DEF Job!BridgeHears, CallInv
<1>2. /\ told.camera \in Phone /\ accepting \in [Phone -> BOOLEAN]
      /\ ~ told.moved => told.camera \in told.there
  BY <1>1 DEF CallInv, BridgeShape
<1>3. told = [event |-> told.event, camera |-> told.camera, moved |-> told.moved,
              connected |-> told.connected, there |-> told.there]
  BY <1>1 DEF CallInv, BridgeShape, ToldShape
<1>4. told' = [event |-> told.event, camera |-> told.camera, moved |-> told.moved,
               connected |-> FALSE, there |-> told.there]
  BY <1>1, <1>3
<1>5. CallShape' /\ call'.at \in {"none", "answered"} /\ call'.at \notin Nearby
  BY <1>1, OverShape
<1>6. accepting' \in [Phone -> BOOLEAN] /\ accepting'[told.camera] = FALSE
  BY <1>1, <1>2
<1>7. BridgeShape'
  <2>1. ToldShape'
    BY <1>2, <1>4 DEF ToldShape
  <2> QED
    BY <1>1, <1>5, <1>6, <2>1 DEF CallInv, BridgeShape
<1>8. Job!BridgeHearsOfTheCulprit'
  <2>1. told.camera # None
    BY <1>2 DEF Job!WorkflowAssumption
  <2> QED
    BY <1>2, <1>4, <2>1 DEF Job!BridgeHearsOfTheCulprit
<1>9. Job!WaitSeesTheReboot' /\ Reaching'
  BY <1>4, <1>5, <1>6 DEF Job!WaitSeesTheReboot, Reaching
<1> QED
  BY <1>5, <1>7, <1>8, <1>9 DEF CallInv

LEMMA EditsKeepCalls ==
  ASSUME Job!WorkflowAssumption, CallInv, Job!RegistryEdited
  PROVE  CallInv'
<1>1. /\ UNCHANGED <<domain, entity, accepting, told>> /\ CallShape
      /\ call' = [call EXCEPT !.moved =
                    call.to # None /\ (call.moved \/ Job!TargetIn(registry') # Job!ResolveTarget)]
  BY DEF Job!RegistryEdited, Job!Happens, CallInv
<1> DEFINE moved == call.to # None /\ (call.moved \/ Job!TargetIn(registry') # Job!ResolveTarget)
<1>2. call' = [at |-> call.at, camera |-> call.camera, to |-> call.to, moved |-> moved,
               polls |-> call.polls, answer |-> call.answer]
  BY <1>1 DEF CallShape
<1>3. CallShape'
  BY <1>1, <1>2 DEF CallShape
<1>4. Job!ResolveTarget' = Job!TargetIn(registry')
  BY <1>1 DEF Job!ResolveTarget, Job!TargetIn
<1>5. Reaching'
  BY <1>2, <1>4 DEF CallInv, Reaching
<1>6. BridgeShape'
  <2> DEFINE Cameras == Phone \union {None}
             Hosts == Endpoint \union {None}
  <2>1. /\ registry = [camera |-> registry.camera, host |-> registry.host]
        /\ registry.camera \in Cameras /\ registry.host \in [Phone -> Hosts]
    BY DEF CallInv, BridgeShape
  <2>2. /\ registry' = [camera |-> registry'.camera, host |-> registry'.host]
        /\ registry'.camera \in Cameras /\ registry'.host \in [Phone -> Hosts]
    <3>1. CASE \E c \in Cameras : registry' = [registry EXCEPT !.camera = c]
      BY <2>1, <3>1
    <3>2. ASSUME NEW c \in Phone, NEW h \in Hosts, registry' = [registry EXCEPT !.host[c] = h]
          PROVE  /\ registry' = [camera |-> registry'.camera, host |-> registry'.host]
                 /\ registry'.camera \in Cameras /\ registry'.host \in [Phone -> Hosts]
      <4>1. registry' = [registry EXCEPT !.host = [registry.host EXCEPT ![c] = h]]
        BY <2>1, <3>2
      <4>2. [registry.host EXCEPT ![c] = h] \in [Phone -> Hosts]
        BY <2>1
      <4> QED
        BY <2>1, <4>1, <4>2
    <3> QED
      BY <3>1, <3>2 DEF Job!RegistryEdited
  <2> QED
    BY <1>1, <1>2, <2>2 DEF CallInv, BridgeShape, ToldShape
<1>7. Job!BridgeHearsOfTheCulprit' /\ Job!WaitSeesTheReboot'
  BY <1>1, <1>2 DEF CallInv, Job!BridgeHearsOfTheCulprit, Job!WaitSeesTheReboot
<1> QED
  BY <1>3, <1>5, <1>6, <1>7 DEF CallInv

LEMMA MovesKeepCalls ==
  ASSUME Job!WorkflowAssumption, CallInv, Job!BridgeMoves
  PROVE  CallInv'
<1>1. UNCHANGED <<domain, entity, registry, call>> /\ CallShape
  BY DEF Job!BridgeMoves, Job!Happens, CallInv
<1>2. PICK c \in Phone :
        /\ accepting' = [accepting EXCEPT ![c] = ~ @]
        /\ told' = IF told # None /\ told.camera = c /\ ~ accepting[c]
                   THEN [told EXCEPT !.connected = TRUE] ELSE told
  BY DEF Job!BridgeMoves
<1>3. accepting \in [Phone -> BOOLEAN]
  BY DEF CallInv, BridgeShape
<1>4. accepting' \in [Phone -> BOOLEAN]
  BY <1>2, <1>3
<1>5. ASSUME told # None
      PROVE  told' = [event |-> told.event, camera |-> told.camera, moved |-> told.moved,
                      connected |-> IF told.camera = c /\ ~ accepting[c] THEN TRUE ELSE told.connected,
                      there |-> told.there]
  <2>1. told = [event |-> told.event, camera |-> told.camera, moved |-> told.moved,
                connected |-> told.connected, there |-> told.there]
    BY <1>5 DEF CallInv, BridgeShape, ToldShape
  <2> QED
    BY <1>2, <1>5, <2>1
<1>6. told = None => told' = None
  BY <1>2
<1>7. Reaching' /\ CallShape'
  BY <1>1 DEF CallInv, Reaching, CallShape, Job!ResolveTarget, Job!TargetIn
<1>8. BridgeShape'
  <2>1. ToldShape => /\ ToldShape' /\ told'.camera = told.camera
                    /\ told'.moved = told.moved /\ told'.there = told.there
    <3>1. CASE told = None
      BY <1>6, <3>1 DEF ToldShape
    <3>2. CASE told # None
      BY <1>5, <3>2 DEF ToldShape
    <3> QED
      BY <3>1, <3>2
  <2> QED
    BY <1>1, <1>4, <1>6, <2>1 DEF CallInv, BridgeShape
<1>9. Job!BridgeHearsOfTheCulprit'
  <2> SUFFICES ASSUME told' # None, ~ told'.moved
               PROVE  IF told'.camera = None THEN told'.there = {} ELSE told'.camera \in told'.there
    BY DEF Job!BridgeHearsOfTheCulprit
  <2>1. told # None
    BY <1>6
  <2>2. told'.camera = told.camera /\ told'.moved = told.moved /\ told'.there = told.there
    BY <1>5, <2>1
  <2> QED
    BY <2>1, <2>2 DEF CallInv, Job!BridgeHearsOfTheCulprit
<1>10. Job!WaitSeesTheReboot'
  <2> SUFFICES ASSUME told' # None, told'.camera # None, call'.at # "telling", accepting'[told'.camera]
               PROVE  told'.connected
    BY DEF Job!WaitSeesTheReboot
  <2>0. told # None
    BY <1>6
  <2>1. told # None /\ told'.camera = told.camera /\ told.camera \in Phone
    BY <1>5, <2>0 DEF CallInv, BridgeShape, ToldShape
  <2>2. CASE told.camera = c
    <3>1. ~ accepting[c]
      BY <1>2, <1>3, <2>1, <2>2
    <3> QED
      BY <1>5, <2>1, <2>2, <3>1
  <2>3. CASE told.camera # c
    <3>1. accepting[told.camera]
      BY <1>2, <1>3, <2>1, <2>3
    <3> QED
      BY <1>1, <1>5, <2>1, <2>3, <3>1 DEF CallInv, Job!WaitSeesTheReboot
  <2> QED
    BY <2>2, <2>3
<1> QED
  BY <1>7, <1>8, <1>9, <1>10 DEF CallInv

LEMMA CallKept ==
  ASSUME Job!WorkflowAssumption, StackInv, CallInv, Job!WorkflowNext
  PROVE  CallInv'
<1>1. ASSUME UNCHANGED <<registry, accepting, told, call>>,
             UNCHANGED <<domain, entity>> \/ call.at = "none"
      PROVE  CallInv'
  BY <1>1 DEF CallInv, CallShape, Reaching, BridgeShape, ToldShape, Job!BridgeHearsOfTheCulprit,
              Job!WaitSeesTheReboot, Job!ResolveTarget, Job!TargetIn
<1>2. CASE \/ Job!InterpretLeaf \/ Job!LeafEnds \/ Job!InterpretNode \/ Job!InterpretNot
           \/ Job!CommandsEnd \/ Job!InterpretRun \/ Job!Sleep
  <2>1. Job!Pure
    BY <1>2 DEF Job!InterpretLeaf, Job!LeafEnds, Job!InterpretNode, Job!InterpretNot,
                Job!CommandsEnd, Job!InterpretRun, Job!Sleep
  <2> QED
    BY <1>1, <2>1 DEF Job!Pure, Job!Elsewhere, Job!environment
<1>3. CASE Job!ManualRun
  BY <1>1, <1>3 DEF Job!ManualRun, Job!Does, Job!On, Job!environment
<1>4. CASE Job!FactChanges
  BY <1>1, <1>4 DEF Job!FactChanges, Job!Happens
<1> QED
  BY <1>2, <1>3, <1>4, ConditionsKeepCalls, ProbesKeepCalls, DevicesKeepCalls, NotifyKeepsCalls,
     HearingKeepsCalls, EditsKeepCalls, MovesKeepCalls DEF Job!WorkflowNext

LEMMA StackStep ==
  ASSUME Job!WorkflowAssumption, StackInv, CallInv, Job!WorkflowNext
  PROVE  StackKept
BY CondStacked, LeafStacked, LeafEndStacked, NodeStacked, NotStacked, CommandsEndStacked, RunStacked,
   WhenStacked, SleepStacked, AwaitStacked, DeviceStacked, ProbeStacked, TellStacked, ManualStacked,
   HappensStacked
   DEF Job!WorkflowNext, CallInv

WorkflowInv == StackInv /\ CallInv

LEMMA WorkflowInvKept ==
  ASSUME Job!WorkflowAssumption, WorkflowInv, Job!WorkflowNext
  PROVE  WorkflowInv'
<1>1. StackKept
  BY StackStep DEF WorkflowInv
<1>2. StackInv'
  BY <1>1, Stays DEF StackKept, StackInv, WorkflowInv, Given
<1>3. CallInv'
  BY CallKept DEF WorkflowInv
<1> QED
  BY <1>2, <1>3 DEF WorkflowInv

LEMMA WorkflowInvInit ==
  ASSUME Job!WorkflowAssumption, Job!WorkflowInit
  PROVE  WorkflowInv
<1>1. MaxDepth \in Nat /\ Patience \in Nat
  BY DEF Job!WorkflowAssumption
<1> DEFINE do == IF domain = "manual" THEN "start" ELSE "pipeline"
           f == Job!Frame(do, pipeline)
<1>2. todo = <<f>>
  BY DEF Job!WorkflowInit
<1>3. domain # "manual" => Job!IsFormula(pipeline) /\ pipeline \in Tree
  BY DEF Job!WorkflowInit, Job!WorkflowAssumption, Job!IsFormula, Tree
<1>4. f \in Framed /\ f.do = do /\ f.what = pipeline
  BY <1>1, FrameIs DEF Whats
<1> HIDE DEF f
<1>5. What(f)
  BY <1>3, <1>4 DEF What
<1>6. todo \in Seq(Framed) /\ Len(todo) = 1 /\ todo[1] = f
  BY <1>2, <1>4
<1>7. Stacked(todo)
  <2>1. 1 .. Len(todo) = {1} /\ 2 .. Len(todo) = {}
    BY <1>6
  <2> QED
    BY <1>4, <1>5, <1>6, <2>1 DEF Stacked
<1>8. call = Job!NoCall /\ value = None /\ told = None
  BY DEF Job!WorkflowInit
<1>9. CallInv
  <2>1. /\ registry = [camera |-> registry.camera, host |-> registry.host]
        /\ registry.camera \in Phone \union {None}
        /\ registry.host \in [Phone -> Endpoint \union {None}]
    BY DEF Job!WorkflowInit, Job!WorkflowAssumption
  <2>2. accepting \in [Phone -> BOOLEAN]
    BY DEF Job!WorkflowInit
  <2> QED
    BY <1>1, <1>8, <2>1, <2>2
       DEF CallInv, CallShape, Reaching, BridgeShape, ToldShape, Job!BridgeHearsOfTheCulprit,
           Job!WaitSeesTheReboot, Job!NoCall
<1>10. StackInv
  BY <1>3, <1>4, <1>6, <1>7, <1>8 DEF StackInv, Given, Busy, Job!NoCall
<1> QED
  BY <1>9, <1>10 DEF WorkflowInv

(* The invariant holds of every pipeline and every workflow.               *)
LEMMA WorkflowInvHolds ==
  ASSUME Job!WorkflowAssumption
  PROVE  Job!WorkflowSpec => []WorkflowInv
<1>1. Job!WorkflowInit => WorkflowInv
  BY WorkflowInvInit
<1>2. WorkflowInv /\ [Job!WorkflowNext]_Job!workflowVars => WorkflowInv'
  <2> SUFFICES ASSUME WorkflowInv, [Job!WorkflowNext]_Job!workflowVars PROVE WorkflowInv'
    OBVIOUS
  <2>1. CASE UNCHANGED Job!workflowVars
    <3>1. UNCHANGED <<domain, entity, pipeline, todo, value, call, registry, accepting, told>>
      BY <2>1 DEF Job!workflowVars, Job!environment
    <3>2. Job!Condition' = Job!Condition
      BY <3>1 DEF Job!Condition, Job!On, Job!Top, Job!Next1
    <3>3. StackInv'
      BY <3>1, <3>2, Stays DEF WorkflowInv, StackInv, Busy, Given
    <3>4. CallInv'
      BY <3>1 DEF WorkflowInv, CallInv, CallShape, Reaching, BridgeShape, ToldShape, Job!BridgeHearsOfTheCulprit,
                  Job!WaitSeesTheReboot, Job!ResolveTarget, Job!TargetIn
    <3> QED
      BY <3>3, <3>4 DEF WorkflowInv
  <2> QED
    BY <2>1, WorkflowInvKept
<1> QED
  BY <1>1, <1>2, PTL DEF Job!WorkflowSpec

(* Every variable of the interpreter keeps its shape, and no workflow runs *)
(* deeper than the limit, whatever the workflows call.                     *)
THEOREM WorkflowTypeCorrect ==
  ASSUME Job!WorkflowAssumption
  PROVE  Job!WorkflowSpec => []Job!WorkflowTypeOK
<1>1. WorkflowInv => Job!WorkflowTypeOK
  <2> SUFFICES ASSUME WorkflowInv PROVE Job!WorkflowTypeOK
    OBVIOUS
  <2>1. todo \in Seq(Framed) /\ MaxDepth \in Nat
    BY DEF WorkflowInv, StackInv, Stacked, Job!WorkflowAssumption
  <2>2. ASSUME NEW i \in DOMAIN todo PROVE todo[i].depth <= MaxDepth
    <3>1. todo[i] \in Framed
      BY <2>1, <2>2
    <3> QED
      BY <2>1, <3>1 DEF Framed
  <2> QED
    BY <2>2 DEF WorkflowInv, StackInv, Given, CallInv, CallShape, Job!WorkflowTypeOK
<1> QED
  BY <1>1, WorkflowInvHolds, PTL

(* The bridge hears of the camera at the host that a command or a probe    *)
(* went to (`notifyBridge` reads the registry again), whatever else is     *)
(* edited meanwhile, unless that of the entity itself is.                  *)
THEOREM BridgeAlwaysHears ==
  ASSUME Job!WorkflowAssumption
  PROVE  Job!WorkflowSpec => []Job!BridgeHearsOfTheCulprit
<1>1. WorkflowInv => Job!BridgeHearsOfTheCulprit
  BY DEF WorkflowInv, CallInv
<1> QED
  BY <1>1, WorkflowInvHolds, PTL

(* A camera the bridge heard of accepts commands only once the bridge has  *)
(* connected it since (`RebootDispatched` and `TransportSuspect` are       *)
(* awaited), so that no `waitForDevice` ends on the connection from before.*)
THEOREM WaitAlwaysSees ==
  ASSUME Job!WorkflowAssumption
  PROVE  Job!WorkflowSpec => []Job!WaitSeesTheReboot
<1>1. WorkflowInv => Job!WaitSeesTheReboot
  BY DEF WorkflowInv, CallInv
<1> QED
  BY <1>1, WorkflowInvHolds, PTL

-----------------------------------------------------------------------------
(* What the stack says of the formula.  The values of the nodes are the set*)
(* of those that are true.                                                 *)
Conn(T, w) ==
  IF w.type = "and" THEN \A i \in 1 .. Len(w.parts) : w.parts[i] \in T
                    ELSE \E i \in 1 .. Len(w.parts) : w.parts[i] \in T

(* A connective is its first part with what is left.                       *)
After(T, w, b) == IF w.type = "and" THEN b /\ Conn(T, w) ELSE b \/ Conn(T, w)

Valuation(T) ==
  /\ T \subseteq Tree
  /\ \A node \in Tree :
       /\ node \in TreeNode => (node \in T <=> Conn(T, node))
       /\ node \in [type : {"not"}, part : Tree] => (node \in T <=> node.part \notin T)

Agrees(T) ==
  \A k \in 1 .. Len(leaves) : \A node \in Tree :
    Job!IsLeaf(node) /\ node.id = leaves[k].leaf => (node \in T <=> leaves[k].value = TRUE)

(* What every frame owes the one below it, and the last one the pipeline:  *)
(* `ow` are the frames that owe a truth.                                   *)
Owes(T, f, b, c) ==
  /\ f.do = "node" => (c <=> After(T, f.what, b))
  /\ f.do = "not"  => (c <=> ~ b)
  /\ f.do \in {"commands", "leaf"} => (c <=> b)

Names(T, f, c) == f.do \in {"pipeline", "leaf"} => (c <=> f.what \in T)

Links(T, st, ow) ==
  /\ ow \subseteq 1 .. Len(st)
  /\ Len(st) > 0 => (Len(st) \in ow <=> pipeline \in T)
  /\ \A i \in 1 .. Len(st) : Names(T, st[i], i \in ow)
  /\ \A i \in 2 .. Len(st) : Owes(T, st[i], i - 1 \in ow, i \in ow)

TopTells(T, st, v, ow) ==
  v \in {"true", "false"} =>
    /\ st = <<>> => (v = "true" <=> pipeline \in T)
    /\ st # <<>> /\ st[1].do \in {"node", "not"} => Owes(T, st[1], v = "true", 1 \in ow)

Tells(T, st, v) == \E ow : Links(T, st, ow) /\ TopTells(T, st, v, ow)

FormulaInv ==
  domain # "manual" =>
    \A T \in SUBSET Tree : Valuation(T) /\ Agrees(T) => Tells(T, todo, value)

LEMMA ConnRest ==
  ASSUME NEW T, NEW w \in TreeNode, w.parts # <<>>
  PROVE  Conn(T, w) <=> After(T, [w EXCEPT !.parts = Tail(w.parts)], w.parts[1] \in T)
<1> DEFINE rest == [w EXCEPT !.parts = Tail(w.parts)]
           t == Tail(w.parts)
<1>1. /\ rest = [type |-> w.type, parts |-> t]
      /\ Len(w.parts) \in Nat /\ Len(w.parts) > 0 /\ Len(t) = Len(w.parts) - 1
      /\ \A i \in 1 .. Len(w.parts) - 1 : t[i] = w.parts[i + 1]
  BY RestOfNode
<1>2. rest.type = w.type /\ rest.parts = t
  BY <1>1
<1> HIDE DEF rest, t
<1>3. \A i \in 1 .. Len(w.parts) : i = 1 \/ (i - 1 \in 1 .. Len(t) /\ t[i - 1] = w.parts[i])
  <2> SUFFICES ASSUME NEW i \in 1 .. Len(w.parts), i # 1
               PROVE  i - 1 \in 1 .. Len(t) /\ t[i - 1] = w.parts[i]
    OBVIOUS
  <2>1. i - 1 \in 1 .. Len(w.parts) - 1 /\ (i - 1) + 1 = i
    BY <1>1
  <2> QED
    BY <1>1, <2>1
<1>4. \A i \in 1 .. Len(t) : i + 1 \in 1 .. Len(w.parts) /\ t[i] = w.parts[i + 1]
  BY <1>1
<1>5. 1 \in 1 .. Len(w.parts)
  BY <1>1
<1>6. CASE w.type = "and"
  BY <1>2, <1>3, <1>4, <1>5, <1>6 DEF Conn, After, rest
<1>7. CASE w.type # "and"
  BY <1>2, <1>3, <1>4, <1>5, <1>7 DEF Conn, After, rest
<1> QED
  BY <1>6, <1>7

LEMMA PopTells ==
  ASSUME NEW T, NEW ow, Stacked(todo), todo # <<>>, Links(T, todo, ow), domain # "manual", NEW v,
         v \in {"true", "false"} /\ todo[1].do # "commands" => (1 \in ow <=> v = "true")
  PROVE  Tells(T, Tail(todo), v)
<1> DEFINE st == Tail(todo)
           lower == {i \in 1 .. Len(todo) - 1 : i + 1 \in ow}
<1>1. /\ Len(todo) \in Nat /\ Len(todo) > 0 /\ Len(st) = Len(todo) - 1 /\ st \in Seq(Framed)
      /\ \A i \in 1 .. Len(todo) - 1 : st[i] = todo[i + 1]
  BY Popped DEF Stacked
<1> HIDE DEF st
<1>2. \A i \in 1 .. Len(st) : i + 1 \in 2 .. Len(todo) /\ st[i] = todo[i + 1]
        /\ (i \in lower <=> i + 1 \in ow)
  BY <1>1
<1>3. ASSUME NEW i \in 2 .. Len(st) PROVE Owes(T, st[i], i - 1 \in lower, i \in lower)
  <2>1. i \in 1 .. Len(st) /\ i - 1 \in 1 .. Len(st) /\ (i - 1) + 1 = i /\ (i + 1) - 1 = i
    BY <1>1
  <2>2. (i \in lower <=> i + 1 \in ow) /\ (i - 1 \in lower <=> i \in ow) /\ i + 1 \in 2 .. Len(todo)
    BY <1>2, <2>1
  <2>3. Owes(T, todo[i + 1], i \in ow, i + 1 \in ow)
    BY <2>1, <2>2 DEF Links
  <2> HIDE DEF lower
  <2> QED
    BY <1>2, <2>1, <2>2, <2>3 DEF Owes, After
<1>4. ASSUME NEW i \in 1 .. Len(st) PROVE Names(T, st[i], i \in lower)
  <2>1. i + 1 \in 1 .. Len(todo) /\ st[i] = todo[i + 1] /\ (i \in lower <=> i + 1 \in ow)
    BY <1>1, <1>2
  <2>2. Names(T, todo[i + 1], i + 1 \in ow)
    BY <2>1 DEF Links
  <2> HIDE DEF lower
  <2> QED
    BY <2>1, <2>2 DEF Names
<1>5. Len(st) > 0 => (Len(st) \in lower <=> pipeline \in T)
  <2>1. Len(st) > 0 => (Len(st) \in lower <=> Len(todo) \in ow)
    BY <1>1
  <2> QED
    BY <1>1, <2>1 DEF Links
<1>6. lower \subseteq 1 .. Len(st)
  BY <1>1
<1>7. Links(T, st, lower)
  BY <1>3, <1>4, <1>5, <1>6 DEF Links
<1>8. TopTells(T, st, v, lower)
  <2> SUFFICES ASSUME v \in {"true", "false"}
               PROVE  /\ st = <<>> => (v = "true" <=> pipeline \in T)
                      /\ st # <<>> /\ st[1].do \in {"node", "not"}
                           => Owes(T, st[1], v = "true", 1 \in lower)
    BY DEF TopTells
  <2>1. ASSUME st = <<>> PROVE v = "true" <=> pipeline \in T
    <3>1. Len(todo) = 1
      BY <1>1, <2>1
    <3>2. todo[1].do # "commands"
      BY <3>1 DEF Stacked
    <3> QED
      BY <3>1, <3>2 DEF Links
  <2>2. ASSUME st # <<>>, st[1].do \in {"node", "not"} PROVE Owes(T, st[1], v = "true", 1 \in lower)
    <3>1. 1 \in 1 .. Len(st) /\ 2 - 1 = 1 /\ 1 + 1 = 2
      BY <1>1, <2>2
    <3>2. 2 \in 2 .. Len(todo) /\ st[1] = todo[2] /\ (1 \in lower <=> 2 \in ow)
      BY <1>2, <3>1
    <3>3. todo[1].do # "commands"
      BY <2>2, <3>1, <3>2 DEF Stacked
    <3>4. Owes(T, todo[2], 1 \in ow, 2 \in ow)
      BY <3>1, <3>2 DEF Links
    <3> HIDE DEF lower
    <3> QED
      BY <2>2, <3>2, <3>3, <3>4 DEF Owes, After
  <2> QED
    BY <2>1, <2>2
<1> QED
  BY <1>7, <1>8 DEF Tells, st

(* A frame in the place of the top owes what the top did.                  *)
LEMMA SwapLinks ==
  ASSUME NEW T, NEW ow, NEW st, st \in Seq(Framed), st # <<>>, Links(T, st, ow), NEW g \in Framed,
         Names(T, g, 1 \in ow)
  PROVE  Links(T, <<g>> \o Tail(st), ow)
<1> DEFINE new == <<g>> \o Tail(st)
<1>1. /\ Len(st) \in Nat /\ Len(st) > 0 /\ Tail(st) \in Seq(Framed) /\ Len(Tail(st)) = Len(st) - 1
      /\ \A i \in 1 .. Len(st) - 1 : Tail(st)[i] = st[i + 1]
  BY Popped
<1>2. /\ Len(new) = Len(st) /\ new[1] = g /\ \A i \in 1 .. Len(Tail(st)) : new[i + 1] = Tail(st)[i]
  BY <1>1, Pushed1
<1> HIDE DEF new
<1>3. \A i \in 2 .. Len(st) : new[i] = st[i]
  <2> SUFFICES ASSUME NEW i \in 2 .. Len(st) PROVE new[i] = st[i]
    OBVIOUS
  <2>1. i - 1 \in 1 .. Len(st) - 1 /\ (i - 1) + 1 = i
    BY <1>1
  <2> QED
    BY <1>1, <1>2, <2>1
<1>4. \A i \in 1 .. Len(st) : i = 1 \/ i \in 2 .. Len(st)
  BY <1>1
<1> QED
  BY <1>2, <1>3, <1>4 DEF Links, new

(* A frame more on top.                                                    *)
LEMMA PushLinks ==
  ASSUME NEW T, NEW ow, NEW st, st \in Seq(Framed), st # <<>>, Links(T, st, ow), NEW f \in Framed,
         NEW x \in BOOLEAN, Names(T, f, x), Owes(T, st[1], x, 1 \in ow)
  PROVE  \E higher : Links(T, <<f>> \o st, higher)
<1> DEFINE new == <<f>> \o st
           higher == {i \in 1 .. Len(st) + 1 : IF i = 1 THEN x ELSE i - 1 \in ow}
<1>1. /\ Len(st) \in Nat /\ Len(st) > 0 /\ Len(new) = Len(st) + 1
      /\ new[1] = f /\ \A i \in 1 .. Len(st) : new[i + 1] = st[i]
  BY Pushed1, Popped
<1> HIDE DEF new
<1>2. 1 \in higher <=> x
  BY <1>1
<1>3. \A i \in 1 .. Len(st) : i + 1 \in higher <=> i \in ow
  BY <1>1
<1>4. \A i \in 2 .. Len(new) : i - 1 \in 1 .. Len(st) /\ (i - 1) + 1 = i
  BY <1>1
<1>5. higher \subseteq 1 .. Len(new) /\ Len(new) > 0
  BY <1>1
<1>6. Len(new) \in higher <=> pipeline \in T
  BY <1>1, <1>3 DEF Links
<1> HIDE DEF higher
<1>7. ASSUME NEW i \in 1 .. Len(new) PROVE Names(T, new[i], i \in higher)
  <2>1. CASE i = 1
    BY <1>1, <1>2, <2>1 DEF Names
  <2>2. CASE i # 1
    <3>1. i - 1 \in 1 .. Len(st) /\ (i - 1) + 1 = i
      BY <1>1, <2>2
    <3>2. new[i] = st[i - 1] /\ (i \in higher <=> i - 1 \in ow)
      BY <1>1, <1>3, <3>1
    <3> QED
      BY <3>1, <3>2 DEF Links, Names
  <2> QED
    BY <2>1, <2>2
<1>8. ASSUME NEW i \in 2 .. Len(new) PROVE Owes(T, new[i], i - 1 \in higher, i \in higher)
  <2>1. i - 1 \in 1 .. Len(st) /\ (i - 1) + 1 = i
    BY <1>4
  <2>2. new[i] = st[i - 1] /\ (i \in higher <=> i - 1 \in ow)
    BY <1>1, <1>3, <2>1
  <2>3. CASE i = 2
    BY <1>2, <2>2, <2>3 DEF Owes, After
  <2>4. CASE i # 2
    <3>1. i - 1 \in 2 .. Len(st) /\ (i - 1) - 1 \in 1 .. Len(st) /\ ((i - 1) - 1) + 1 = i - 1
      BY <1>1, <2>4
    <3>2. i - 1 \in higher <=> (i - 1) - 1 \in ow
      BY <1>3, <3>1
    <3>3. Owes(T, st[i - 1], (i - 1) - 1 \in ow, i - 1 \in ow)
      BY <3>1 DEF Links
    <3> QED
      BY <2>2, <3>2, <3>3 DEF Owes, After
  <2> QED
    BY <2>3, <2>4
<1>9. Links(T, new, higher)
  BY <1>5, <1>6, <1>7, <1>8 DEF Links
<1> QED
  BY <1>9 DEF new

LEMMA SwapTells ==
  ASSUME NEW T, NEW ow, Stacked(todo), todo # <<>>, Links(T, todo, ow), NEW g \in Framed,
         Names(T, g, 1 \in ow), NEW v, v \notin {"true", "false"}
  PROVE  Tells(T, <<g>> \o Tail(todo), v)
BY SwapLinks DEF Stacked, Tells, TopTells

LEMMA SwapPushTells ==
  ASSUME NEW T, NEW ow, Stacked(todo), todo # <<>>, Links(T, todo, ow),
         NEW f \in Framed, NEW g \in Framed, Names(T, g, 1 \in ow),
         NEW x \in BOOLEAN, Names(T, f, x), Owes(T, g, x, 1 \in ow),
         <<f, g>> \o Tail(todo) = <<f>> \o (<<g>> \o Tail(todo)), NEW v, v \notin {"true", "false"}
  PROVE  Tells(T, <<f, g>> \o Tail(todo), v)
<1> DEFINE st == <<g>> \o Tail(todo)
<1>1. todo \in Seq(Framed) /\ Tail(todo) \in Seq(Framed)
  BY Popped DEF Stacked
<1>2. st \in Seq(Framed) /\ st[1] = g /\ st # <<>>
  BY <1>1, Pushed1
<1>3. Links(T, st, ow)
  BY <1>1, SwapLinks
<1> HIDE DEF st
<1>4. PICK higher : Links(T, <<f>> \o st, higher)
  BY <1>2, <1>3, PushLinks
<1> QED
  BY <1>4 DEF Tells, TopTells, st

(* What the invariant says of one valuation.                               *)
Owed(T, ow) ==
  /\ domain # "manual" /\ Valuation(T) /\ Links(T, todo, ow) /\ TopTells(T, todo, value, ow)

LEMMA TopOwes ==
  ASSUME StackInv, NEW T, NEW ow, Owed(T, ow), todo # <<>>
  PROVE  Names(T, todo[1], 1 \in ow)
<1>1. 1 \in 1 .. Len(todo)
  BY DEF StackInv, Stacked
<1> QED
  BY <1>1 DEF Owed, Links

LEMMA CondTells ==
  ASSUME Job!WorkflowAssumption, StackInv, NEW T, NEW ow, Owed(T, ow), todo # <<>>,
         todo[1].do \in {"pipeline", "leaf"}, NEW b \in BOOLEAN, b <=> todo[1].what \in T,
         Job!Return(Job!Truth(b))
  PROVE  Tells(T, todo', value')
<1>1. Names(T, todo[1], 1 \in ow)
  BY TopOwes
<1>2. todo' = Tail(todo) /\ value' = Job!Truth(b)
  BY DEF Job!Return
<1>3. 1 \in ow <=> value' = "true"
  BY <1>1, <1>2 DEF Names, Job!Truth
<1> QED
  BY <1>2, <1>3, PopTells DEF Owed, StackInv

LEMMA LeafTells ==
  ASSUME Job!WorkflowAssumption, StackInv, NEW T, NEW ow, Owed(T, ow), Job!InterpretLeaf
  PROVE  Tells(T, todo', value')
<1> DEFINE top == todo[1]
<1>1. todo # <<>> /\ top.do = "pipeline" /\ top.what.type = "workflow"
  BY DEF Job!InterpretLeaf, Job!Does, Job!On, Job!Top
<1>2. /\ Upon(top, Tail(todo)) /\ Stacked(Tail(todo)) /\ Stacked(todo)
      /\ Names(T, top, 1 \in ow) /\ top.what \in Tree
  BY <1>1, TopIsUpon, TopOwes, Formed DEF StackInv
<1>3. CASE top.what.name \in DOMAIN Workflows
  <2> DEFINE f == Job!Commands(top.what.name, 0)
             g == [top EXCEPT !.do = "leaf"]
  <2>1. todo' = <<f, g>> \o Tail(todo) /\ value' = None
    BY <1>3 DEF Job!InterpretLeaf, Job!Push, Job!Top
  <2>2. g = [do |-> "leaf", what |-> top.what, depth |-> top.depth] /\ g \in Framed /\ What(g)
    <3>1. top \in Framed
      BY <1>2 DEF Upon
    <3>2. g = [do |-> "leaf", what |-> top.what, depth |-> top.depth]
      BY <3>1 DEF Framed
    <3> QED
      BY <1>1, <1>2, <3>1, <3>2 DEF Framed, What, Job!IsLeaf
  <2>3. g.do = "leaf" /\ g.what = top.what
    BY <2>2
  <2>4. 0 \in 0 .. MaxDepth
    BY DEF Job!WorkflowAssumption
  <2>5. f \in Framed /\ What(f) /\ f.do = "commands"
    BY <1>3, <2>4, CommandsAre
  <2> HIDE DEF f, g
  <2>6. Upon(g, Tail(todo))
    BY <1>1, <1>2, <2>2, <2>3 DEF Upon
  <2>7. <<f, g>> \o Tail(todo) = <<f>> \o (<<g>> \o Tail(todo))
    BY <1>2, <2>2, <2>3, <2>5, <2>6, TwoOnTop
  <2>8. Names(T, g, 1 \in ow)
    BY <1>1, <1>2, <2>3 DEF Names
  <2> DEFINE x == 1 \in ow
  <2>9. x \in BOOLEAN /\ Names(T, f, x) /\ Owes(T, g, x, 1 \in ow)
    BY <2>3, <2>5 DEF Names, Owes
  <2>10. None \notin {"true", "false"}
    BY DEF Job!WorkflowAssumption
  <2> QED
    BY <1>1, <1>2, <2>1, <2>2, <2>5, <2>7, <2>8, <2>9, <2>10, SwapPushTells DEF Owed
<1>4. CASE top.what.name \notin DOMAIN Workflows
  <2>1. todo' = Tail(todo) /\ value' = "left"
    BY <1>4 DEF Job!InterpretLeaf, Job!Return, Job!Top
  <2> QED
    BY <1>1, <1>2, <2>1, PopTells DEF Owed
<1> QED
  BY <1>3, <1>4

LEMMA NodeTells ==
  ASSUME Job!WorkflowAssumption, StackInv, NEW T, NEW ow, Owed(T, ow), Job!InterpretNode
  PROVE  Tells(T, todo', value')
<1> DEFINE w == todo[1].what
<1>1. /\ todo # <<>> /\ w \in TreeNode /\ Job!GoesOn(w, w.parts) /\ todo[1].do \in {"pipeline", "node"}
      /\ Stacked(todo) /\ Stacked(Tail(todo)) /\ Upon(todo[1], Tail(todo))
      /\ Names(T, todo[1], 1 \in ow)
  BY NodeTop, TopOwes
<1>2. /\ todo[1].do = "pipeline" => value = None
      /\ todo[1].do = "node" => value # None
  BY DEF Job!InterpretNode, Job!Does, Job!On, Job!Returned, Job!Top
<1>3. todo[1].do = "pipeline" => (1 \in ow <=> Conn(T, w))
  BY <1>1 DEF Names, Owed, Valuation, Upon, What
<1>4. todo[1].do = "node" /\ value \in {"true", "false"} => (1 \in ow <=> After(T, w, value = "true"))
  BY <1>1 DEF Owed, TopTells, Owes
<1>5. /\ Job!Neutral(w) \in {"true", "false"} /\ (Job!Neutral(w) = "true" <=> w.type = "and")
      /\ None \notin {"true", "false"}
  BY DEF Job!Neutral, Job!Truth, Job!WorkflowAssumption
<1>6. CASE value \notin {None, Job!Neutral(w)} \/ w.parts = <<>>
  <2> DEFINE v == IF value = None THEN Job!Neutral(w) ELSE value
  <2>1. todo' = Tail(todo) /\ value' = v
    BY <1>1, <1>6 DEF Job!GoesOn, Job!Return
  <2>2. w.parts = <<>> => (Conn(T, w) <=> w.type = "and")
    BY DEF Conn
  <2>3. v \in {"true", "false"} => (1 \in ow <=> v = "true")
    <3>1. CASE todo[1].do = "pipeline"
      BY <1>2, <1>3, <1>5, <1>6, <2>2, <3>1
    <3>2. CASE todo[1].do = "node"
      BY <1>2, <1>4, <1>5, <1>6, <2>2, <3>2 DEF After
    <3> QED
      BY <1>1, <3>1, <3>2
  <2> HIDE DEF v
  <2> QED
    BY <1>1, <2>1, <2>3, PopTells DEF Owed
<1>7. CASE ~ (value \notin {None, Job!Neutral(w)} \/ w.parts = <<>>)
  <2> DEFINE rest == [w EXCEPT !.parts = Tail(w.parts)]
             f == Job!Frame("pipeline", w.parts[1])
             g == Job!Frame("node", rest)
             x == w.parts[1] \in T
  <2>1. todo' = <<f, g>> \o Tail(todo) /\ value' = None
    BY <1>1, <1>7 DEF Job!GoesOn, Job!Push
  <2>2. w.parts[1] \in Tree /\ rest \in TreeNode /\ rest.type = w.type
    <3>1. w \in TreeNode /\ w.parts # <<>>
      BY <1>1, <1>7
    <3>2. w.parts[1] \in Tree /\ rest \in TreeNode /\ rest = [type |-> w.type, parts |-> Tail(w.parts)]
      BY <3>1, RestOfNode
    <3> HIDE DEF rest
    <3> QED
      BY <3>2
  <2>3. Conn(T, w) <=> After(T, rest, x)
    BY <1>1, <1>7, ConnRest
  <2> HIDE DEF rest
  <2>4. /\ f \in Framed /\ f.do = "pipeline" /\ f.what = w.parts[1]
        /\ g \in Framed /\ g.do = "node" /\ g.what = rest
    BY <2>2, FrameIs DEF Whats, Job!WorkflowAssumption
  <2>5. 1 \in ow <=> Conn(T, w)
    <3>1. CASE todo[1].do = "pipeline"
      BY <1>3, <3>1
    <3>2. CASE todo[1].do = "node"
      BY <1>2, <1>4, <1>5, <1>7, <3>2 DEF After
    <3> QED
      BY <1>1, <3>1, <3>2
  <2> HIDE DEF f, g
  <2>6. What(f) /\ What(g)
    BY <2>2, <2>4 DEF What
  <2>7. Upon(g, Tail(todo))
    BY <1>1, <2>4, <2>6 DEF Upon
  <2>8. <<f, g>> \o Tail(todo) = <<f>> \o (<<g>> \o Tail(todo))
    BY <1>1, <2>4, <2>6, <2>7, TwoOnTop
  <2>9. x \in BOOLEAN /\ Names(T, f, x) /\ Names(T, g, 1 \in ow)
    BY <2>4 DEF Names
  <2>10. Owes(T, g, x, 1 \in ow)
    BY <2>3, <2>4, <2>5 DEF Owes
  <2> HIDE DEF x
  <2> QED
    BY <1>1, <1>5, <2>1, <2>4, <2>8, <2>9, <2>10, SwapPushTells DEF Owed
<1> QED
  BY <1>6, <1>7

LEMMA NotTells ==
  ASSUME Job!WorkflowAssumption, StackInv, NEW T, NEW ow, Owed(T, ow), Job!InterpretNot
  PROVE  Tells(T, todo', value')
<1>1. todo # <<>> /\ Stacked(todo) /\ Stacked(Tail(todo)) /\ Upon(todo[1], Tail(todo))
      /\ Names(T, todo[1], 1 \in ow) /\ None \notin {"true", "false"}
  BY NotTop, TopOwes DEF Job!WorkflowAssumption
<1>2. CASE todo[1].do = "not"
  <2> DEFINE v == IF value = "left" THEN "left" ELSE Job!Truth(value = "false")
  <2>1. todo' = Tail(todo) /\ value' = v /\ value # None
    BY <1>2, NotTop DEF Job!Return
  <2>2. value \in {"true", "false"} => (1 \in ow <=> value # "true")
    BY <1>1, <1>2 DEF Owed, TopTells, Owes
  <2>3. v \in {"true", "false"} => (1 \in ow <=> v = "true")
    BY <2>1, <2>2 DEF StackInv, Given, Job!Truth
  <2> HIDE DEF v
  <2> QED
    BY <1>1, <2>1, <2>3, PopTells DEF Owed
<1>3. CASE todo[1].do = "pipeline"
  <2> DEFINE part == todo[1].what.part
             f == Job!Frame("pipeline", part)
             g == Job!Frame("not", None)
             x == part \in T
  <2>1. todo' = <<f, g>> \o Tail(todo) /\ value' = None /\ part \in Tree
    BY <1>3, NotTop
  <2>2. 1 \in ow <=> ~ x
    BY <1>1, <1>3, NotTop DEF Names, Owed, Valuation
  <2>3. /\ f \in Framed /\ f.do = "pipeline" /\ f.what = part
        /\ g \in Framed /\ g.do = "not" /\ g.what = None
    BY <2>1, FrameIs DEF Whats, Job!WorkflowAssumption
  <2> HIDE DEF f, g
  <2>4. What(f) /\ What(g)
    BY <2>1, <2>3 DEF What
  <2>5. Upon(g, Tail(todo))
    BY <1>1, <1>3, <2>3, <2>4 DEF Upon
  <2>6. <<f, g>> \o Tail(todo) = <<f>> \o (<<g>> \o Tail(todo))
    BY <1>1, <2>3, <2>4, <2>5, TwoOnTop
  <2>7. x \in BOOLEAN /\ Names(T, f, x) /\ Names(T, g, 1 \in ow) /\ Owes(T, g, x, 1 \in ow)
    BY <2>2, <2>3 DEF Names, Owes
  <2> HIDE DEF x
  <2> QED
    BY <1>1, <2>1, <2>3, <2>6, <2>7, SwapPushTells DEF Owed
<1> QED
  BY <1>2, <1>3, NotTop

LEMMA CommandsEndTells ==
  ASSUME Job!WorkflowAssumption, StackInv, NEW T, NEW ow, Owed(T, ow), Job!CommandsEnd
  PROVE  Tells(T, todo', value')
<1>1. todo # <<>> /\ todo[1].do = "commands" /\ None \notin {"true", "false"}
  BY DEF Job!CommandsEnd, Job!Does, Job!On, Job!Returned, Job!Top, Job!WorkflowAssumption
<1>2. ASSUME NEW v, Job!Return(v) PROVE Tells(T, todo', value')
  BY <1>1, <1>2, PopTells DEF Job!Return, Owed, StackInv
<1>3. CASE value # None /\ Job!Push(<<[Job!Top EXCEPT !.what = Tail(@)]>>)
  <2> DEFINE t == Tail(todo[1].what)
             f == [todo[1] EXCEPT !.what = t]
  <2>1. todo' = <<f>> \o Tail(todo) /\ value' = None
    BY <1>3 DEF Job!Push, Job!Top
  <2>2. t \in Seq(Job!Commanded)
    BY <1>1, <1>3, CommandsTop, Popped DEF StackInv, Busy
  <2>3. todo[1] = [do |-> "commands", what |-> todo[1].what, depth |-> todo[1].depth]
    BY <1>1, CommandsTop
  <2> HIDE DEF t
  <2>4. f = [do |-> "commands", what |-> t, depth |-> todo[1].depth]
    BY <2>3
  <2>5. f \in Framed /\ f.do = "commands"
    BY <1>1, <2>2, <2>4, CommandsTop DEF Framed, Whats
  <2> HIDE DEF f
  <2>6. Names(T, f, 1 \in ow)
    BY <2>5 DEF Names
  <2> QED
    BY <1>1, <2>1, <2>5, <2>6, SwapTells DEF Owed, StackInv
<1> QED
  BY <1>2, <1>3 DEF Job!CommandsEnd, Job!Returned

LEMMA StandsTells ==
  ASSUME NEW T, NEW ow, Owed(T, ow), todo' = todo,
         value' = value \/ (todo # <<>> /\ todo[1].do = "commands")
  PROVE  Tells(T, todo', value')
BY DEF Owed, Tells, TopTells

LEMMA NestedTells ==
  ASSUME Job!WorkflowAssumption, StackInv, NEW T, NEW ow, Owed(T, ow),
         NEW name, Job!RunNested(name) \/ Job!Gives("left") \/ Job!Gives("true"),
         todo # <<>>, todo[1].do = "commands"
  PROVE  Tells(T, todo', value')
<1>1. CASE \E v : Job!Gives(v)
  BY <1>1, StandsTells DEF Job!Gives
<1>2. CASE Job!RunNested(name) /\ ~ \E v : Job!Gives(v)
  <2> DEFINE f == Job!Commands(name, todo[1].depth + 1)
             x == 1 \in ow
  <2>1. /\ todo' = <<f>> \o todo /\ value' = None
        /\ ~ (todo[1].depth + 1 > MaxDepth) /\ name \in DOMAIN Workflows
    BY <1>2 DEF Job!RunNested, Job!Top
  <2>2. todo[1].depth + 1 \in 0 .. MaxDepth
    BY <2>1, CommandsTop DEF Job!WorkflowAssumption
  <2>3. f \in Framed /\ f.do = "commands"
    BY <2>1, <2>2, CommandsAre
  <2> HIDE DEF f
  <2>4. x \in BOOLEAN /\ Names(T, f, x) /\ Owes(T, todo[1], x, 1 \in ow)
    BY <2>3 DEF Names, Owes
  <2> HIDE DEF x
  <2>5. todo \in Seq(Framed) /\ Links(T, todo, ow)
    BY DEF StackInv, Stacked, Owed
  <2>6. \E higher : Links(T, <<f>> \o todo, higher)
    BY <2>3, <2>4, <2>5, PushLinks
  <2> QED
    BY <2>1, <2>6 DEF Tells, TopTells, Job!WorkflowAssumption
<1> QED
  BY <1>1, <1>2

-----------------------------------------------------------------------------
(* The leaves: those noted are apart, and apart from those still to come.  *)
Noted == [leaf : Job!LeafIds(pipeline), value : BOOLEAN]
Gone == {leaves[k].leaf : k \in 1 .. Len(leaves)}

Pend(f) ==
  IF f.do = "pipeline" THEN Job!LeafIds(f.what)
  ELSE IF f.do = "leaf" THEN {f.what.id}
  ELSE IF f.do = "node" THEN UNION {Job!LeafIds(f.what.parts[i]) : i \in 1 .. Len(f.what.parts)}
  ELSE {}

Apart(parts) ==
  \A i, j \in 1 .. Len(parts) :
    i # j => Job!LeafIds(parts[i]) \intersect Job!LeafIds(parts[j]) = {}

Fresh(st, gone) ==
  /\ \A i, j \in 1 .. Len(st) : i # j => Pend(st[i]) \intersect Pend(st[j]) = {}
  /\ \A i \in 1 .. Len(st) : Pend(st[i]) \intersect gone = {}
  /\ \A i \in 1 .. Len(st) : st[i].do = "node" => Apart(st[i].what.parts)

LeavesInv ==
  domain # "manual" =>
    /\ leaves \in Seq(Noted)
    /\ \A k, l \in 1 .. Len(leaves) : leaves[k].leaf = leaves[l].leaf => k = l
    /\ Fresh(todo, Gone)

LEMMA PopFresh ==
  ASSUME NEW gone, NEW st \in Seq(Framed), st # <<>>, Fresh(st, gone)
  PROVE  Fresh(Tail(st), gone \union Pend(st[1]))
<1> DEFINE t == Tail(st)
<1>1. /\ Len(st) \in Nat /\ Len(st) > 0 /\ Len(t) = Len(st) - 1
      /\ \A i \in 1 .. Len(st) - 1 : t[i] = st[i + 1]
  BY Popped
<1> HIDE DEF t
<1>2. \A i \in 1 .. Len(t) : i + 1 \in 1 .. Len(st) /\ t[i] = st[i + 1] /\ i + 1 # 1
        /\ 1 \in 1 .. Len(st)
  BY <1>1
<1>3. \A i, j \in 1 .. Len(t) : i # j => i + 1 # j + 1
  BY <1>1
<1>4. \A i, j \in 1 .. Len(t) : i # j => Pend(t[i]) \intersect Pend(t[j]) = {}
  BY <1>2, <1>3 DEF Fresh
<1>5. \A i \in 1 .. Len(t) : Pend(t[i]) \intersect (gone \union Pend(st[1])) = {}
  BY <1>2 DEF Fresh
<1>6. \A i \in 1 .. Len(t) : t[i].do = "node" => Apart(t[i].what.parts)
  BY <1>2 DEF Fresh
<1> QED
  BY <1>4, <1>5, <1>6 DEF Fresh, t

(* The top taken off with nothing noted: it was skipped, or has gone wrong.*)
LEMMA PopsFresh ==
  ASSUME NEW gone, NEW st \in Seq(Framed), st # <<>>, Fresh(st, gone)
  PROVE  Fresh(Tail(st), gone)
<1>1. Fresh(Tail(st), gone \union Pend(st[1]))
  BY PopFresh
<1> QED
  BY <1>1 DEF Fresh

LEMMA PushFresh ==
  ASSUME NEW gone, NEW st \in Seq(Framed), Fresh(st, gone), NEW f \in Framed,
         \A i \in 1 .. Len(st) : Pend(f) \intersect Pend(st[i]) = {},
         Pend(f) \intersect gone = {}, f.do = "node" => Apart(f.what.parts)
  PROVE  Fresh(<<f>> \o st, gone)
<1> DEFINE t == <<f>> \o st
<1>1. /\ Len(st) \in Nat /\ Len(t) = Len(st) + 1 /\ t[1] = f
      /\ \A i \in 1 .. Len(st) : t[i + 1] = st[i]
  BY Pushed1
<1> HIDE DEF t
<1>2. \A i \in 1 .. Len(t) : i = 1 \/ (i - 1 \in 1 .. Len(st) /\ t[i] = st[i - 1])
  <2> SUFFICES ASSUME NEW i \in 1 .. Len(t), i # 1 PROVE i - 1 \in 1 .. Len(st) /\ t[i] = st[i - 1]
    OBVIOUS
  <2>1. i - 1 \in 1 .. Len(st) /\ (i - 1) + 1 = i
    BY <1>1
  <2> QED
    BY <1>1, <2>1
<1>3. \A i, j \in 1 .. Len(t) : i # j => i - 1 # j - 1
  BY <1>1
<1>4. ASSUME NEW i \in 1 .. Len(t), NEW j \in 1 .. Len(t), i # j
      PROVE  Pend(t[i]) \intersect Pend(t[j]) = {}
  <2>1. CASE i = 1
    BY <1>1, <1>2, <1>4, <2>1
  <2>2. CASE j = 1
    BY <1>1, <1>2, <1>4, <2>2
  <2>3. CASE i # 1 /\ j # 1
    BY <1>2, <1>3, <1>4, <2>3 DEF Fresh
  <2> QED
    BY <2>1, <2>2, <2>3
<1>5. \A i \in 1 .. Len(t) : Pend(t[i]) \intersect gone = {}
  BY <1>1, <1>2 DEF Fresh
<1>6. \A i \in 1 .. Len(t) : t[i].do = "node" => Apart(t[i].what.parts)
  BY <1>1, <1>2 DEF Fresh
<1> QED
  BY <1>4, <1>5, <1>6 DEF Fresh, t

(* One frame, or two, that want no more than the top did.                  *)
LEMMA SwapFresh ==
  ASSUME NEW gone, Stacked(todo), todo # <<>>, Fresh(todo, gone), NEW g \in Framed,
         Pend(g) \subseteq Pend(todo[1]), g.do = "node" => Apart(g.what.parts)
  PROVE  Fresh(<<g>> \o Tail(todo), gone)
<1>1. todo \in Seq(Framed) /\ Tail(todo) \in Seq(Framed) /\ 1 \in 1 .. Len(todo)
  BY Popped DEF Stacked
<1>2. Fresh(Tail(todo), gone \union Pend(todo[1]))
  BY <1>1, PopFresh
<1>3. Fresh(Tail(todo), gone)
  BY <1>2 DEF Fresh
<1>4. \A i \in 1 .. Len(Tail(todo)) : Pend(g) \intersect Pend(Tail(todo)[i]) = {}
  BY <1>2 DEF Fresh
<1>5. Pend(g) \intersect gone = {}
  BY <1>1 DEF Fresh
<1> QED
  BY <1>1, <1>3, <1>4, <1>5, PushFresh

LEMMA SwapPushFresh ==
  ASSUME NEW gone, Stacked(todo), todo # <<>>, Fresh(todo, gone), NEW g \in Framed, NEW f \in Framed,
         Pend(g) \subseteq Pend(todo[1]), g.do = "node" => Apart(g.what.parts),
         Pend(f) \subseteq Pend(todo[1]), f.do = "node" => Apart(f.what.parts),
         Pend(f) \intersect Pend(g) = {}
  PROVE  Fresh(<<f>> \o (<<g>> \o Tail(todo)), gone)
<1> DEFINE st == <<g>> \o Tail(todo)
<1>1. todo \in Seq(Framed) /\ Tail(todo) \in Seq(Framed) /\ 1 \in 1 .. Len(todo)
  BY Popped DEF Stacked
<1>2. Fresh(st, gone)
  BY SwapFresh
<1>3. /\ st \in Seq(Framed) /\ Len(Tail(todo)) \in Nat /\ Len(st) = Len(Tail(todo)) + 1 /\ st[1] = g
      /\ \A i \in 1 .. Len(Tail(todo)) : st[i + 1] = Tail(todo)[i]
  BY <1>1, Pushed1
<1>4. Fresh(Tail(todo), gone \union Pend(todo[1]))
  BY <1>1, PopFresh
<1> HIDE DEF st
<1>5. ASSUME NEW i \in 1 .. Len(st) PROVE Pend(f) \intersect Pend(st[i]) = {}
  <2>1. CASE i = 1
    BY <1>3, <2>1
  <2>2. CASE i # 1
    <3>1. i - 1 \in 1 .. Len(Tail(todo)) /\ (i - 1) + 1 = i
      BY <1>3, <2>2
    <3>2. st[i] = Tail(todo)[i - 1]
      BY <1>3, <3>1
    <3> QED
      BY <1>4, <3>1, <3>2 DEF Fresh
  <2> QED
    BY <2>1, <2>2
<1>6. Pend(f) \intersect gone = {}
  BY <1>1 DEF Fresh
<1> QED
  BY <1>2, <1>3, <1>5, <1>6, PushFresh DEF st

(* What a formula says of its leaves.                                      *)
LEMMA LeavesOfTree ==
  ASSUME StackInv, domain # "manual", NEW node \in Tree
  PROVE  /\ Job!IsLeaf(node) => Job!LeafIds(node) = {node.id} /\ node.id \in Job!LeafIds(pipeline)
         /\ node \in TreeNode =>
              /\ Apart(node.parts)
              /\ \A i \in 1 .. Len(node.parts) :
                   Job!LeafIds(node.parts[i]) \subseteq Job!LeafIds(node)
         /\ node \in [type : {"not"}, part : Tree] => Job!LeafIds(node.part) \subseteq Job!LeafIds(node)
<1>1. \/ Job!IsLeaf(node) /\ Job!LeafIds(node) = {node.id}
      \/ /\ node \in [type : {"not"}, part : Tree]
         /\ Job!LeafIds(node.part) \subseteq Job!LeafIds(node)
      \/ /\ node \in [type : {"and", "or"}, parts : Seq(Tree)]
         /\ \A i \in DOMAIN node.parts :
              /\ Job!LeafIds(node.parts[i]) \subseteq Job!LeafIds(node)
              /\ \A j \in DOMAIN node.parts :
                   i # j => Job!LeafIds(node.parts[i]) \intersect Job!LeafIds(node.parts[j]) = {}
  BY DEF StackInv, Job!IsFormula, Tree
<1>2. ASSUME Job!IsLeaf(node)
      PROVE  Job!LeafIds(node) = {node.id} /\ node.id \in Job!LeafIds(pipeline)
  <2>1. Job!LeafIds(node) = {node.id}
    BY <1>1, <1>2 DEF Job!IsLeaf
  <2>2. node.id \in Job!LeafIds(pipeline)
    BY <1>2 DEF Job!LeafIds, Tree
  <2> QED
    BY <2>1, <2>2
<1>3. ASSUME node \in TreeNode
      PROVE  /\ Apart(node.parts)
             /\ \A i \in 1 .. Len(node.parts) : Job!LeafIds(node.parts[i]) \subseteq Job!LeafIds(node)
  <2>1. node.type \in {"and", "or"} /\ DOMAIN node.parts = 1 .. Len(node.parts)
    BY <1>3 DEF TreeNode
  <2>2. \A i \in DOMAIN node.parts :
          /\ Job!LeafIds(node.parts[i]) \subseteq Job!LeafIds(node)
          /\ \A j \in DOMAIN node.parts :
               i # j => Job!LeafIds(node.parts[i]) \intersect Job!LeafIds(node.parts[j]) = {}
    BY <1>1, <2>1 DEF Job!IsLeaf
  <2> QED
    BY <2>1, <2>2 DEF Apart
<1>4. ASSUME node \in [type : {"not"}, part : Tree]
      PROVE  Job!LeafIds(node.part) \subseteq Job!LeafIds(node)
  <2>1. node.type = "not"
    BY <1>4
  <2> QED
    BY <1>1, <2>1 DEF Job!IsLeaf
<1> QED
  BY <1>2, <1>3, <1>4

LEMMA RestApart ==
  ASSUME NEW w \in TreeNode, w.parts # <<>>, Apart(w.parts)
  PROVE  /\ Apart(Tail(w.parts))
         /\ \A i \in 1 .. Len(Tail(w.parts)) :
              /\ Job!LeafIds(Tail(w.parts)[i]) \intersect Job!LeafIds(w.parts[1]) = {}
              /\ i + 1 \in 1 .. Len(w.parts) /\ Tail(w.parts)[i] = w.parts[i + 1]
<1> DEFINE t == Tail(w.parts)
<1>1. /\ Len(w.parts) \in Nat /\ Len(w.parts) > 0 /\ Len(t) = Len(w.parts) - 1
      /\ \A i \in 1 .. Len(w.parts) - 1 : t[i] = w.parts[i + 1]
  BY RestOfNode
<1> HIDE DEF t
<1>2. \A i \in 1 .. Len(t) : i + 1 \in 1 .. Len(w.parts) /\ t[i] = w.parts[i + 1]
        /\ i + 1 # 1 /\ 1 \in 1 .. Len(w.parts)
  BY <1>1
<1>3. \A i, j \in 1 .. Len(t) : i # j => i + 1 # j + 1
  BY <1>1
<1>4. Apart(t)
  BY <1>2, <1>3 DEF Apart
<1>5. \A i \in 1 .. Len(t) : Job!LeafIds(t[i]) \intersect Job!LeafIds(w.parts[1]) = {}
  BY <1>2 DEF Apart
<1> QED
  BY <1>2, <1>4, <1>5 DEF t

(* A leaf that is noted: what agrees with the notes agrees with it.        *)
LEMMA NotedAgrees ==
  ASSUME LeavesInv, domain # "manual", NEW b \in BOOLEAN, Job!Leaf(b), pipeline' = pipeline,
         todo[1].what \in Tree, Job!IsLeaf(todo[1].what), NEW T, Agrees(T)'
  PROVE  Agrees(T) /\ (b <=> todo[1].what \in T)
<1> DEFINE note == [leaf |-> todo[1].what.id, value |-> b]
<1>1. leaves' = Append(leaves, note) /\ leaves \in Seq(Noted)
  BY DEF Job!Leaf, Job!Top, LeavesInv
<1>2. note.leaf = todo[1].what.id /\ note.value = b
  OBVIOUS
<1> HIDE DEF note
<1>3. /\ Len(leaves) \in Nat /\ Len(leaves') = Len(leaves) + 1 /\ leaves'[Len(leaves) + 1] = note
      /\ \A k \in 1 .. Len(leaves) : leaves'[k] = leaves[k]
  BY <1>1
<1>4. Len(leaves) + 1 \in 1 .. Len(leaves') /\ \A k \in 1 .. Len(leaves) : k \in 1 .. Len(leaves')
  BY <1>3
<1>5. \A k \in 1 .. Len(leaves') : \A node \in Tree :
        Job!IsLeaf(node) /\ node.id = leaves'[k].leaf => (node \in T <=> leaves'[k].value = TRUE)
  BY DEF Agrees, Tree
<1>6. Agrees(T)
  BY <1>3, <1>4, <1>5 DEF Agrees
<1>7. todo[1].what \in T <=> note.value = TRUE
  BY <1>2, <1>3, <1>4, <1>5
<1> QED
  BY <1>2, <1>6, <1>7

(* Every step tells what the formula says.                                 *)
LEMMA FormulaKept ==
  ASSUME Job!WorkflowAssumption, WorkflowInv, FormulaInv, LeavesInv, domain # "manual",
         Job!WorkflowNext, pipeline' = pipeline, NEW T, Valuation(T), Agrees(T)'
  PROVE  Tells(T, todo', value')
<1>1. StackInv /\ T \in SUBSET Tree
  BY DEF WorkflowInv, Valuation
<1>2. ASSUME Agrees(T) PROVE \E ow : Owed(T, ow)
  BY <1>1, <1>2 DEF FormulaInv, Tells, Owed
<1>3. ASSUME leaves' = leaves PROVE \E ow : Owed(T, ow)
  <2>1. Agrees(T)
    BY <1>3 DEF Agrees, Tree
  <2> QED
    BY <1>2, <2>1
<1>4. CASE Job!InterpretCondition
  <2>1. /\ todo # <<>> /\ todo[1].do = "pipeline" /\ todo[1].what.type = "condition"
        /\ \E b \in BOOLEAN : Job!Return(Job!Truth(b)) /\ Job!Leaf(b)
    BY <1>4 DEF Job!InterpretCondition, Job!Does, Job!On, Job!Top
  <2>2. PICK b \in BOOLEAN : Job!Return(Job!Truth(b)) /\ Job!Leaf(b)
    BY <2>1
  <2>3. todo[1].what \in Tree /\ Job!IsLeaf(todo[1].what)
    BY <1>1, <2>1, Formed DEF Job!IsLeaf
  <2>4. Agrees(T) /\ (b <=> todo[1].what \in T)
    BY <2>2, <2>3, NotedAgrees
  <2> QED
    BY <1>1, <1>2, <2>1, <2>2, <2>4, CondTells
<1>5. CASE Job!LeafEnds
  <2> DEFINE b == value = "true"
  <2>1. /\ todo # <<>> /\ todo[1].do = "leaf" /\ Job!Return(Job!Truth(b)) /\ Job!Leaf(b)
    BY <1>5 DEF Job!LeafEnds, Job!Returned, Job!Top
  <2>2. b \in BOOLEAN
    OBVIOUS
  <2>3. todo[1].what \in Tree /\ Job!IsLeaf(todo[1].what)
    BY <1>1, <2>1, TopIsUpon DEF StackInv, Upon, What
  <2> HIDE DEF b
  <2>4. Agrees(T) /\ (b <=> todo[1].what \in T)
    BY <2>1, <2>2, <2>3, NotedAgrees
  <2> QED
    BY <1>1, <1>2, <2>1, <2>2, <2>4, CondTells
<1>6. CASE Job!InterpretLeaf \/ Job!InterpretNode \/ Job!InterpretNot \/ Job!CommandsEnd
  <2>1. leaves' = leaves
    BY <1>6 DEF Job!InterpretLeaf, Job!InterpretNode, Job!InterpretNot, Job!CommandsEnd
  <2> QED
    BY <1>1, <1>3, <1>6, <2>1, LeafTells, NodeTells, NotTells, CommandsEndTells
<1>7. CASE Job!InterpretRun \/ Job!InterpretWhen
  <2>1. leaves' = leaves /\ todo # <<>> /\ todo[1].do = "commands"
    BY <1>7 DEF Job!InterpretRun, Job!InterpretWhen, Job!AtCommand, Job!Does, Job!On, Job!Top
  <2>2. \E name : Job!RunNested(name) \/ Job!Gives("left") \/ Job!Gives("true")
    BY <1>7 DEF Job!InterpretRun, Job!InterpretWhen
  <2> QED
    BY <1>1, <1>3, <2>1, <2>2, NestedTells
<1>8. CASE Job!Sleep \/ Job!Await
  <2>1. leaves' = leaves /\ todo' = todo /\ todo # <<>> /\ todo[1].do = "commands"
    BY <1>8 DEF Job!Sleep, Job!Await, Job!AtCommand, Job!Does, Job!On, Job!Top, Job!Gives, Job!NoValue
  <2> QED
    BY <1>3, <2>1, StandsTells
<1>9. CASE \/ Job!RequireAccepting \/ Job!WaitForDevice \/ Job!ResolveEndpoint
           \/ Job!CommandEnds \/ Job!NotifyBridge \/ Job!BridgeHears
  <2>1. leaves' = leaves /\ todo' = todo
    BY <1>9 DEF Job!RequireAccepting, Job!WaitForDevice, Job!ResolveEndpoint, Job!CommandEnds,
                Job!NotifyBridge, Job!BridgeHears, Job!CallEnds, Job!Gives, Job!NoValue
  <2>2. \/ value' = value
        \/ todo # <<>> /\ todo[1].do = "commands"
    <3>1. CASE Job!RequireAccepting
      BY <3>1 DEF Job!RequireAccepting, Job!IsDevice, Job!Does, Job!On, Job!Top
    <3>2. CASE Job!WaitForDevice \/ Job!ResolveEndpoint \/ Job!CommandEnds
      <4>1. call.at \in {"waiting", "gated", "running"}
        BY <3>2 DEF Job!WaitForDevice, Job!ResolveEndpoint, Job!CommandEnds
      <4> QED
        BY <1>1, <4>1 DEF StackInv, Busy
    <3>3. CASE Job!NotifyBridge \/ Job!BridgeHears
      <4>1. Job!Condition = "probe" => value' = value
        BY <3>3 DEF Job!NotifyBridge, Job!BridgeHears, Job!CallEnds, Job!NoValue
      <4>2. call.at # "none"
        BY <3>3 DEF Job!NotifyBridge, Job!BridgeHears
      <4> QED
        BY <1>1, <4>1, <4>2 DEF StackInv, Busy
    <3> QED
      BY <1>9, <3>1, <3>2, <3>3
  <2> QED
    BY <1>3, <2>1, <2>2, StandsTells
<1>10. ~ Job!ManualRun
  <2> SUFFICES ASSUME Job!ManualRun PROVE FALSE
    OBVIOUS
  <2>1. todo # <<>> /\ todo[1].do = "start"
    BY DEF Job!ManualRun, Job!Does, Job!On, Job!Top
  <2> QED
    BY <1>1, <2>1, TopIsUpon DEF StackInv, Upon
<1>11. CASE \/ Job!ProbeStarts \/ Job!ProbeEnds
            \/ Job!RegistryEdited \/ Job!BridgeMoves \/ Job!FactChanges
  <2>1. leaves' = leaves /\ todo' = todo /\ value' = value
    BY <1>11 DEF Job!ProbeStarts, Job!ProbeEnds, Job!RegistryEdited, Job!BridgeMoves,
                 Job!FactChanges, Job!Happens
  <2> QED
    BY <1>3, <2>1, StandsTells
<1> QED
  BY <1>4, <1>5, <1>6, <1>7, <1>8, <1>9, <1>10, <1>11 DEF Job!WorkflowNext

(* A leaf that is noted was still to come, and no longer is.               *)
LEMMA NotedFresh ==
  ASSUME StackInv, LeavesInv, domain # "manual", NEW b \in BOOLEAN, Job!Leaf(b), todo # <<>>,
         UNCHANGED <<domain, pipeline>>, todo' = Tail(todo), Pend(todo[1]) = {todo[1].what.id},
         todo[1].what.id \in Job!LeafIds(pipeline)
  PROVE  LeavesInv'
<1> DEFINE note == [leaf |-> todo[1].what.id, value |-> b]
<1>1. leaves' = Append(leaves, note) /\ leaves \in Seq(Noted) /\ todo \in Seq(Framed)
  BY DEF Job!Leaf, Job!Top, LeavesInv, StackInv, Stacked
<1>2. note \in Noted /\ note.leaf = todo[1].what.id
  BY DEF Noted
<1> HIDE DEF note
<1>3. /\ Len(leaves) \in Nat /\ Len(leaves') = Len(leaves) + 1 /\ leaves'[Len(leaves) + 1] = note
      /\ \A k \in 1 .. Len(leaves) : leaves'[k] = leaves[k]
  BY <1>1
<1>4. leaves' \in Seq(Noted)'
  BY <1>1, <1>2 DEF Noted
<1>5. \A k \in 1 .. Len(leaves') : k \in 1 .. Len(leaves) \/ k = Len(leaves) + 1
  BY <1>3
<1>6. Gone' = Gone \union Pend(todo[1])
  <2>1. ASSUME NEW x \in Gone' PROVE x \in Gone \union Pend(todo[1])
    BY <1>2, <1>3, <1>5 DEF Gone
  <2>2. ASSUME NEW x \in Gone \union Pend(todo[1]) PROVE x \in Gone'
    <3>1. Len(leaves) + 1 \in 1 .. Len(leaves') /\ \A k \in 1 .. Len(leaves) : k \in 1 .. Len(leaves')
      BY <1>3
    <3> QED
      BY <1>2, <1>3, <3>1 DEF Gone
  <2> QED
    BY <2>1, <2>2
<1>7. todo[1].what.id \notin Gone
  <2>1. 1 \in 1 .. Len(todo)
    BY <1>1
  <2> QED
    BY <2>1 DEF LeavesInv, Fresh
<1>8. \A k, l \in 1 .. Len(leaves') : leaves'[k].leaf = leaves'[l].leaf => k = l
  BY <1>2, <1>3, <1>5, <1>7 DEF LeavesInv, Gone
<1>9. Fresh(Tail(todo), Gone \union Pend(todo[1]))
  BY <1>1, PopFresh DEF LeavesInv
<1> QED
  BY <1>4, <1>6, <1>8, <1>9 DEF LeavesInv

LEMMA StillFresh ==
  ASSUME LeavesInv, domain # "manual", UNCHANGED <<domain, pipeline, leaves>>, Fresh(todo', Gone)
  PROVE  LeavesInv'
<1>1. Noted' = Noted /\ Gone' = Gone
  BY DEF Noted, Gone
<1> QED
  BY <1>1 DEF LeavesInv

LEMMA RunsFresh ==
  ASSUME Job!WorkflowAssumption, StackInv, LeavesInv, domain # "manual", todo # <<>>,
           todo[1].do = "commands",
         NEW name, Job!RunNested(name) \/ Job!Gives("left") \/ Job!Gives("true")
  PROVE  Fresh(todo', Gone)
<1>1. CASE todo' = todo
  BY <1>1 DEF LeavesInv
<1>2. CASE todo' # todo
  <2> DEFINE f == Job!Commands(name, todo[1].depth + 1)
  <2>1. /\ todo' = <<f>> \o todo
        /\ ~ (todo[1].depth + 1 > MaxDepth) /\ name \in DOMAIN Workflows
    BY <1>2 DEF Job!RunNested, Job!Top, Job!Gives
  <2>2. todo[1].depth + 1 \in 0 .. MaxDepth
    BY <2>1, CommandsTop DEF Job!WorkflowAssumption
  <2>3. f \in Framed /\ f.do = "commands"
    BY <2>1, <2>2, CommandsAre
  <2> HIDE DEF f
  <2>4. Pend(f) = {} /\ todo \in Seq(Framed)
    BY <2>3 DEF Pend, StackInv, Stacked
  <2>5. Fresh(todo, Gone)
    BY DEF LeavesInv
  <2> QED
    BY <2>1, <2>3, <2>4, <2>5, PushFresh
<1> QED
  BY <1>1, <1>2

LEMMA NodeFresh ==
  ASSUME Job!WorkflowAssumption, StackInv, LeavesInv, Job!InterpretNode
  PROVE  Fresh(todo', Gone)
<1> DEFINE w == todo[1].what
<1>1. /\ todo # <<>> /\ w \in TreeNode /\ Job!GoesOn(w, w.parts) /\ todo[1].do \in {"pipeline", "node"}
      /\ Stacked(todo) /\ Stacked(Tail(todo)) /\ Upon(todo[1], Tail(todo)) /\ domain # "manual"
  BY NodeTop
<1>2. todo \in Seq(Framed) /\ Fresh(todo, Gone) /\ 1 \in 1 .. Len(todo)
  BY <1>1 DEF LeavesInv, Stacked
<1>3. CASE todo' = Tail(todo)
  BY <1>1, <1>2, <1>3, PopsFresh
<1>4. CASE todo' # Tail(todo)
  <2> DEFINE rest == [w EXCEPT !.parts = Tail(w.parts)]
             f == Job!Frame("pipeline", w.parts[1])
             g == Job!Frame("node", rest)
  <2>1. todo' = <<f, g>> \o Tail(todo) /\ w.parts # <<>>
    BY <1>1, <1>4 DEF Job!GoesOn, Job!Push, Job!Return
  <2>2. w.parts[1] \in Tree /\ rest \in TreeNode /\ rest.parts = Tail(w.parts) /\ 1 \in 1 .. Len(w.parts)
    <3>1. /\ rest = [type |-> w.type, parts |-> Tail(w.parts)] /\ rest \in TreeNode
          /\ w.parts[1] \in Tree /\ Len(w.parts) \in Nat /\ Len(w.parts) > 0
      BY <1>1, <2>1, RestOfNode
    <3> HIDE DEF rest
    <3> QED
      BY <3>1
  <2> HIDE DEF rest
  <2>3. /\ f \in Framed /\ f.do = "pipeline" /\ f.what = w.parts[1]
        /\ g \in Framed /\ g.do = "node" /\ g.what = rest
    BY <2>2, FrameIs DEF Whats, Job!WorkflowAssumption
  <2> HIDE DEF f, g
  <2>4. What(f) /\ What(g)
    BY <2>2, <2>3 DEF What
  <2>5. Upon(g, Tail(todo))
    BY <1>1, <2>3, <2>4 DEF Upon
  <2>6. <<f, g>> \o Tail(todo) = <<f>> \o (<<g>> \o Tail(todo))
    BY <1>1, <2>3, <2>4, <2>5, TwoOnTop
  <2>7. Apart(w.parts) /\ \A i \in 1 .. Len(w.parts) : Job!LeafIds(w.parts[i]) \subseteq Pend(todo[1])
    <3>1. CASE todo[1].do = "pipeline"
      BY <1>1, <3>1, LeavesOfTree DEF Upon, What, Pend
    <3>2. CASE todo[1].do = "node"
      BY <1>1, <1>2, <3>2 DEF Fresh, Pend
    <3> QED
      BY <1>1, <3>1, <3>2
  <2>8. /\ Apart(Tail(w.parts))
        /\ \A i \in 1 .. Len(Tail(w.parts)) :
             /\ Job!LeafIds(Tail(w.parts)[i]) \intersect Job!LeafIds(w.parts[1]) = {}
             /\ i + 1 \in 1 .. Len(w.parts) /\ Tail(w.parts)[i] = w.parts[i + 1]
    BY <1>1, <2>1, <2>7, RestApart
  <2>9. Pend(f) = Job!LeafIds(w.parts[1])
    BY <2>3 DEF Pend
  <2>10. Pend(g) = UNION {Job!LeafIds(Tail(w.parts)[i]) : i \in 1 .. Len(Tail(w.parts))}
    BY <2>2, <2>3 DEF Pend
  <2>11. /\ Pend(f) \subseteq Pend(todo[1]) /\ Pend(g) \subseteq Pend(todo[1])
         /\ Pend(f) \intersect Pend(g) = {}
    BY <2>2, <2>7, <2>8, <2>9, <2>10
  <2>12. (f.do = "node" => Apart(f.what.parts)) /\ (g.do = "node" => Apart(g.what.parts))
    BY <2>2, <2>3, <2>8
  <2> QED
    BY <1>1, <1>2, <2>1, <2>3, <2>6, <2>11, <2>12, SwapPushFresh
<1> QED
  BY <1>3, <1>4

LEMMA NotFresh ==
  ASSUME Job!WorkflowAssumption, StackInv, LeavesInv, Job!InterpretNot
  PROVE  Fresh(todo', Gone)
<1>1. /\ todo # <<>> /\ domain # "manual" /\ Stacked(todo) /\ Stacked(Tail(todo))
      /\ todo \in Seq(Framed) /\ Fresh(todo, Gone)
  BY NotTop DEF LeavesInv, Stacked
<1>2. CASE todo' = Tail(todo)
  BY <1>1, <1>2, PopsFresh
<1>3. CASE todo' # Tail(todo)
  <2> DEFINE part == todo[1].what.part
             f == Job!Frame("pipeline", part)
             g == Job!Frame("not", None)
  <2>1. /\ todo' = <<f, g>> \o Tail(todo) /\ todo[1].do = "pipeline"
        /\ todo[1].what \in [type : {"not"}, part : Tree] /\ todo[1].what \in Tree
    BY <1>3, NotTop DEF Job!Return
  <2>2. part \in Tree
    BY <2>1
  <2>3. Job!LeafIds(part) \subseteq Job!LeafIds(todo[1].what)
    BY <1>1, <2>1, LeavesOfTree
  <2>4. /\ f \in Framed /\ f.do = "pipeline" /\ f.what = part
        /\ g \in Framed /\ g.do = "not" /\ g.what = None
    BY <2>2, FrameIs DEF Whats, Job!WorkflowAssumption
  <2> HIDE DEF f, g
  <2>5. What(f) /\ What(g)
    BY <2>2, <2>4 DEF What
  <2>6. Upon(g, Tail(todo))
    BY <1>1, <2>1, <2>4, <2>5, NotTop DEF Upon
  <2>7. <<f, g>> \o Tail(todo) = <<f>> \o (<<g>> \o Tail(todo))
    BY <1>1, <2>4, <2>5, <2>6, TwoOnTop
  <2>8. Pend(f) \subseteq Pend(todo[1]) /\ Pend(g) = {}
    BY <2>1, <2>3, <2>4 DEF Pend
  <2> QED
    BY <1>1, <2>1, <2>4, <2>7, <2>8, SwapPushFresh
<1> QED
  BY <1>2, <1>3

LEMMA LeafFresh ==
  ASSUME Job!WorkflowAssumption, StackInv, LeavesInv, Job!InterpretLeaf
  PROVE  Fresh(todo', Gone)
<1> DEFINE top == todo[1]
<1>1. todo # <<>> /\ top.do = "pipeline" /\ top.what.type = "workflow" /\ Stacked(todo)
  BY DEF Job!InterpretLeaf, Job!Does, Job!On, Job!Top, StackInv
<1>2. /\ Upon(top, Tail(todo)) /\ Stacked(Tail(todo)) /\ domain # "manual" /\ top.what \in Tree
      /\ todo \in Seq(Framed) /\ Fresh(todo, Gone)
  BY <1>1, TopIsUpon, Formed DEF LeavesInv, Stacked
<1>3. CASE todo' = Tail(todo)
  BY <1>1, <1>2, <1>3, PopsFresh
<1>4. CASE todo' # Tail(todo)
  <2> DEFINE f == Job!Commands(top.what.name, 0)
             g == [top EXCEPT !.do = "leaf"]
  <2>1. todo' = <<f, g>> \o Tail(todo) /\ top.what.name \in DOMAIN Workflows
    BY <1>4 DEF Job!InterpretLeaf, Job!Push, Job!Return, Job!Top
  <2>2. g = [do |-> "leaf", what |-> top.what, depth |-> top.depth] /\ g \in Framed /\ What(g)
    <3>1. top \in Framed
      BY <1>2 DEF Upon
    <3>2. g = [do |-> "leaf", what |-> top.what, depth |-> top.depth]
      BY <3>1 DEF Framed
    <3> QED
      BY <1>1, <1>2, <3>1, <3>2 DEF Framed, What, Job!IsLeaf
  <2>3. g.do = "leaf" /\ g.what = top.what
    BY <2>2
  <2>4. 0 \in 0 .. MaxDepth
    BY DEF Job!WorkflowAssumption
  <2>5. f \in Framed /\ What(f) /\ f.do = "commands"
    BY <2>1, <2>4, CommandsAre
  <2> HIDE DEF f, g
  <2>6. Upon(g, Tail(todo))
    BY <1>1, <1>2, <2>2, <2>3 DEF Upon
  <2>7. <<f, g>> \o Tail(todo) = <<f>> \o (<<g>> \o Tail(todo))
    BY <1>2, <2>2, <2>3, <2>5, <2>6, TwoOnTop
  <2>8. Job!IsLeaf(top.what)
    BY <1>1 DEF Job!IsLeaf
  <2>9. Job!LeafIds(top.what) = {top.what.id}
    BY <1>2, <2>8, LeavesOfTree
  <2>10. Pend(f) = {} /\ Pend(g) = Pend(top)
    BY <1>1, <2>3, <2>5, <2>9 DEF Pend
  <2> QED
    BY <1>1, <1>2, <2>1, <2>2, <2>3, <2>5, <2>7, <2>10, SwapPushFresh
<1> QED
  BY <1>3, <1>4

LEMMA CommandsEndFresh ==
  ASSUME Job!WorkflowAssumption, StackInv, LeavesInv, domain # "manual", Job!CommandsEnd
  PROVE  Fresh(todo', Gone)
<1>1. todo # <<>> /\ todo[1].do = "commands" /\ Stacked(todo) /\ todo \in Seq(Framed)
        /\ Fresh(todo, Gone)
  BY DEF Job!CommandsEnd, Job!Does, Job!On, Job!Returned, Job!Top, LeavesInv, StackInv, Stacked
<1>2. CASE todo' = Tail(todo)
  BY <1>1, <1>2, PopsFresh
<1>3. CASE todo' # Tail(todo)
  <2> DEFINE t == Tail(todo[1].what)
             f == [todo[1] EXCEPT !.what = t]
  <2>1. todo' = <<f>> \o Tail(todo) /\ value # None
    BY <1>3 DEF Job!CommandsEnd, Job!Push, Job!Return, Job!Returned, Job!Top
  <2>2. t \in Seq(Job!Commanded)
    BY <1>1, <2>1, CommandsTop, Popped DEF StackInv, Busy
  <2>3. todo[1] = [do |-> "commands", what |-> todo[1].what, depth |-> todo[1].depth]
    BY <1>1, CommandsTop
  <2> HIDE DEF t
  <2>4. f = [do |-> "commands", what |-> t, depth |-> todo[1].depth]
    BY <2>3
  <2>5. f \in Framed /\ f.do = "commands"
    BY <1>1, <2>2, <2>4, CommandsTop DEF Framed, Whats
  <2> HIDE DEF f
  <2>6. Pend(f) = {}
    BY <2>5 DEF Pend
  <2> QED
    BY <1>1, <2>1, <2>5, <2>6, SwapFresh
<1> QED
  BY <1>2, <1>3

(* No step runs a leaf again.                                              *)
LEMMA LeavesKept ==
  ASSUME Job!WorkflowAssumption, WorkflowInv, LeavesInv, Job!WorkflowNext
  PROVE  LeavesInv'
<1>1. StackInv /\ UNCHANGED <<domain, pipeline>>
  BY StackStep DEF WorkflowInv, StackKept
<1>2. CASE domain = "manual"
  BY <1>1, <1>2 DEF LeavesInv
<1> SUFFICES ASSUME domain # "manual" PROVE LeavesInv'
  BY <1>2
<1>3. ASSUME leaves' = leaves, todo' = todo PROVE LeavesInv'
  BY <1>1, <1>3, StillFresh DEF LeavesInv
<1>4. CASE Job!InterpretCondition
  <2>1. /\ todo # <<>> /\ todo[1].do = "pipeline" /\ todo[1].what.type = "condition"
        /\ todo' = Tail(todo) /\ \E b \in BOOLEAN : Job!Leaf(b)
    BY <1>4 DEF Job!InterpretCondition, Job!Does, Job!On, Job!Top, Job!Return
  <2>2. todo[1].what \in Tree /\ Job!IsLeaf(todo[1].what)
    BY <1>1, <2>1, Formed DEF Job!IsLeaf
  <2>3. Pend(todo[1]) = {todo[1].what.id} /\ todo[1].what.id \in Job!LeafIds(pipeline)
    BY <1>1, <2>1, <2>2, LeavesOfTree DEF Pend
  <2> QED
    BY <1>1, <2>1, <2>3, NotedFresh
<1>5. CASE Job!LeafEnds
  <2>1. /\ todo # <<>> /\ todo[1].do = "leaf" /\ todo' = Tail(todo) /\ Job!Leaf(value = "true")
    BY <1>5 DEF Job!LeafEnds, Job!Returned, Job!Top, Job!Return
  <2>2. todo[1].what \in Tree /\ Job!IsLeaf(todo[1].what)
    BY <1>1, <2>1, TopIsUpon DEF StackInv, Upon, What
  <2>3. Pend(todo[1]) = {todo[1].what.id} /\ todo[1].what.id \in Job!LeafIds(pipeline)
    BY <1>1, <2>1, <2>2, LeavesOfTree DEF Pend
  <2>4. (value = "true") \in BOOLEAN
    OBVIOUS
  <2> QED
    BY <1>1, <2>1, <2>3, <2>4, NotedFresh
<1>6. CASE Job!InterpretLeaf \/ Job!InterpretNode \/ Job!InterpretNot \/ Job!CommandsEnd
  <2>1. leaves' = leaves
    BY <1>6 DEF Job!InterpretLeaf, Job!InterpretNode, Job!InterpretNot, Job!CommandsEnd
  <2> QED
    BY <1>1, <1>6, <2>1, StillFresh, LeafFresh, NodeFresh, NotFresh, CommandsEndFresh
<1>7. CASE Job!InterpretRun \/ Job!InterpretWhen
  <2>1. leaves' = leaves /\ todo # <<>> /\ todo[1].do = "commands"
    BY <1>7 DEF Job!InterpretRun, Job!InterpretWhen, Job!AtCommand, Job!Does, Job!On, Job!Top
  <2>2. \E name : Job!RunNested(name) \/ Job!Gives("left") \/ Job!Gives("true")
    BY <1>7 DEF Job!InterpretRun, Job!InterpretWhen
  <2> QED
    BY <1>1, <2>1, <2>2, RunsFresh, StillFresh
<1>8. CASE \/ Job!Sleep \/ Job!Await \/ Job!RequireAccepting \/ Job!WaitForDevice
           \/ Job!ResolveEndpoint \/ Job!CommandEnds \/ Job!NotifyBridge \/ Job!BridgeHears
           \/ Job!ProbeStarts \/ Job!ProbeEnds
  <2>1. leaves' = leaves /\ todo' = todo
    BY <1>8 DEF Job!Sleep, Job!Await, Job!RequireAccepting, Job!WaitForDevice, Job!ResolveEndpoint,
                Job!CommandEnds, Job!NotifyBridge, Job!BridgeHears, Job!CallEnds, Job!ProbeStarts,
                Job!ProbeEnds, Job!Gives, Job!NoValue
  <2> QED
    BY <1>3, <2>1
<1>9. ~ Job!ManualRun
  <2> SUFFICES ASSUME Job!ManualRun PROVE FALSE
    OBVIOUS
  <2>1. todo # <<>> /\ todo[1].do = "start"
    BY DEF Job!ManualRun, Job!Does, Job!On, Job!Top
  <2> QED
    BY <1>1, <2>1, TopIsUpon DEF StackInv, Upon
<1>10. CASE Job!RegistryEdited \/ Job!BridgeMoves \/ Job!FactChanges
  BY <1>3, <1>10 DEF Job!RegistryEdited, Job!BridgeMoves, Job!FactChanges, Job!Happens
<1> QED
  BY <1>4, <1>5, <1>6, <1>7, <1>8, <1>9, <1>10 DEF Job!WorkflowNext

PipelineInv == WorkflowInv /\ FormulaInv /\ LeavesInv

LEMMA PipelineInvInit ==
  ASSUME Job!WorkflowAssumption, Job!WorkflowInit
  PROVE  PipelineInv
<1>1. WorkflowInv
  BY WorkflowInvInit
<1> SUFFICES ASSUME domain # "manual" PROVE FormulaInv /\ LeavesInv
  BY <1>1 DEF PipelineInv, FormulaInv, LeavesInv
<1> DEFINE f == Job!Frame("pipeline", pipeline)
<1>2. todo = <<f>> /\ leaves = <<>> /\ value = None
  BY DEF Job!WorkflowInit
<1>3. f \in Framed /\ f.do = "pipeline" /\ f.what = pipeline /\ None \notin {"true", "false"}
  BY FrameIs DEF Whats, Job!WorkflowAssumption
<1> HIDE DEF f
<1>4. Len(todo) = 1 /\ todo[1] = f /\ 1 .. Len(todo) = {1} /\ 2 .. Len(todo) = {} /\ todo # <<>>
  BY <1>2, <1>3
<1>5. ASSUME NEW T PROVE Tells(T, todo, value)
  <2> DEFINE ow == {i \in {1} : pipeline \in T}
  <2>1. Links(T, todo, ow)
    BY <1>3, <1>4 DEF Links, Names
  <2>2. TopTells(T, todo, value, ow)
    BY <1>2, <1>3 DEF TopTells
  <2> QED
    BY <2>1, <2>2 DEF Tells
<1>6. leaves \in Seq(Noted) /\ 1 .. Len(leaves) = {} /\ Gone = {}
  BY <1>2 DEF Gone
<1>7. Fresh(todo, Gone)
  BY <1>3, <1>4, <1>6 DEF Fresh
<1> QED
  BY <1>5, <1>6, <1>7 DEF FormulaInv, LeavesInv

LEMMA PipelineInvKept ==
  ASSUME Job!WorkflowAssumption, PipelineInv, [Job!WorkflowNext]_Job!workflowVars
  PROVE  PipelineInv'
<1>1. CASE UNCHANGED Job!workflowVars
  <2>1. UNCHANGED <<domain, entity, pipeline, todo, value, call, registry, accepting, told, leaves>>
    BY <1>1 DEF Job!workflowVars, Job!environment
  <2>2. StackInv'
    <3>1. Job!Condition' = Job!Condition
      BY <2>1 DEF Job!Condition, Job!On, Job!Top, Job!Next1
    <3> QED
      BY <2>1, <3>1, Stays DEF PipelineInv, WorkflowInv, StackInv, Busy, Given
  <2>3. CallInv'
    BY <2>1 DEF PipelineInv, WorkflowInv, CallInv, CallShape, Reaching, BridgeShape, ToldShape,
                Job!BridgeHearsOfTheCulprit, Job!WaitSeesTheReboot, Job!ResolveTarget, Job!TargetIn
  <2>4. LeavesInv'
    <3>1. CASE domain # "manual"
      BY <2>1, <3>1, StillFresh DEF PipelineInv, LeavesInv
    <3> QED
      BY <2>1, <3>1 DEF LeavesInv
  <2>5. FormulaInv'
    BY <2>1 DEF PipelineInv, FormulaInv, Valuation, Agrees, Tells, Links, TopTells, Tree, TreeNode
  <2> QED
    BY <2>2, <2>3, <2>4, <2>5 DEF PipelineInv, WorkflowInv
<1>2. CASE Job!WorkflowNext
  <2>1. UNCHANGED <<domain, pipeline>>
    BY <1>2, StackStep DEF PipelineInv, WorkflowInv, StackKept
  <2>2. FormulaInv'
    <3> SUFFICES ASSUME domain # "manual", NEW T \in SUBSET Tree, Valuation(T), Agrees(T)'
                 PROVE  Tells(T, todo', value')
      BY <2>1 DEF FormulaInv, Valuation, Tree, TreeNode, Tells, Links, TopTells
    <3> QED
      BY <1>2, <2>1, FormulaKept DEF PipelineInv
  <2> QED
    BY <1>2, <2>2, WorkflowInvKept, LeavesKept DEF PipelineInv
<1> QED
  BY <1>1, <1>2

(* What comes out of a pipeline is the value of its formula, whatever the  *)
(* leaves that were skipped would have given, and no leaf runs twice       *)
(* (`interpretPipeline`).                                                  *)
THEOREM PipelinesMeanTheirFormula ==
  ASSUME Job!WorkflowAssumption
  PROVE  Job!WorkflowSpec => []Job!PipelineMeansItsFormula
<1>1. PipelineInv => Job!PipelineMeansItsFormula
  <2> SUFFICES ASSUME PipelineInv, todo = <<>>, value # "left", domain # "manual"
               PROVE  /\ \A i, j \in DOMAIN leaves : leaves[i].leaf = leaves[j].leaf => i = j
                      /\ \A of \in [Tree -> BOOLEAN] :
                           /\ Job!FormulaHolds(of)
                           /\ \A i \in DOMAIN leaves : \A node \in DOMAIN of :
                                Job!IsLeaf(node) /\ node.id = leaves[i].leaf
                                  => of[node] = leaves[i].value
                           => Job!Truth(of[pipeline]) = value
    BY DEF Job!PipelineMeansItsFormula, Tree
  <2>1. leaves \in Seq(Noted) /\ DOMAIN leaves = 1 .. Len(leaves)
    BY DEF PipelineInv, LeavesInv
  <2>2. value \in {"true", "false"} /\ pipeline \in Tree
    BY DEF PipelineInv, WorkflowInv, StackInv, Busy, Given, Job!IsFormula, Tree
  <2>3. ASSUME NEW of \in [Tree -> BOOLEAN], Job!FormulaHolds(of),
               \A i \in DOMAIN leaves : \A node \in DOMAIN of :
                 Job!IsLeaf(node) /\ node.id = leaves[i].leaf => of[node] = leaves[i].value
        PROVE  Job!Truth(of[pipeline]) = value
    <3> DEFINE T == {node \in Tree : of[node]}
    <3>1. DOMAIN of = Tree /\ T \in SUBSET Tree /\ \A node \in Tree : node \in T <=> of[node]
      OBVIOUS
    <3> HIDE DEF T
    <3>2. ASSUME NEW node \in Tree, node \in TreeNode PROVE node \in T <=> Conn(T, node)
      <4>1. /\ node.type \in {"and", "or"} /\ DOMAIN node.parts = 1 .. Len(node.parts)
            /\ \A i \in 1 .. Len(node.parts) : node.parts[i] \in Tree
        BY <3>2 DEF TreeNode
      <4>2. Job!Parts(node) = {node.parts[i] : i \in 1 .. Len(node.parts)}
        BY <4>1 DEF Job!Parts
      <4>3. CASE node.type = "and"
        <5>1. of[node] <=> \A part \in Job!Parts(node) : of[part]
          BY <2>3, <3>1, <4>3 DEF Job!FormulaHolds
        <5>2. node \in T <=> \A i \in 1 .. Len(node.parts) : of[node.parts[i]]
          BY <3>1, <4>2, <5>1
        <5> QED
          BY <3>1, <4>1, <4>3, <5>2 DEF Conn
      <4>4. CASE node.type = "or"
        <5>1. of[node] <=> \E part \in Job!Parts(node) : of[part]
          BY <2>3, <3>1, <4>4 DEF Job!FormulaHolds
        <5>2. node \in T <=> \E i \in 1 .. Len(node.parts) : of[node.parts[i]]
          BY <3>1, <4>2, <5>1
        <5> QED
          BY <3>1, <4>1, <4>4, <5>2 DEF Conn
      <4> QED
        BY <4>1, <4>3, <4>4
    <3>3. ASSUME NEW node \in Tree, node \in [type : {"not"}, part : Tree]
          PROVE  node \in T <=> node.part \notin T
      BY <2>3, <3>1, <3>3 DEF Job!FormulaHolds
    <3>4. Valuation(T)
      BY <3>1, <3>2, <3>3 DEF Valuation
    <3>5. Agrees(T)
      BY <2>1, <2>3, <3>1 DEF Agrees, Noted
    <3>6. PICK ow : Links(T, todo, ow) /\ TopTells(T, todo, value, ow)
      BY <3>1, <3>4, <3>5 DEF PipelineInv, FormulaInv, Tells
    <3>7. value = "true" <=> pipeline \in T
      BY <2>2, <3>6 DEF TopTells
    <3> QED
      BY <2>2, <3>1, <3>7 DEF Job!Truth
  <2> QED
    BY <2>1, <2>3 DEF PipelineInv, LeavesInv
<1>2. Job!WorkflowInit => PipelineInv
  BY PipelineInvInit
<1>3. PipelineInv /\ [Job!WorkflowNext]_Job!workflowVars => PipelineInv'
  BY PipelineInvKept
<1> QED
  BY <1>1, <1>2, <1>3, PTL DEF Job!WorkflowSpec

-----------------------------------------------------------------------------
(* The scenes.  The one a behaviour picked stays, and what it does is what *)
(* its module does.                                                        *)
LEMMA SceneStays == [SceneNext]_operationsVars => UNCHANGED scene
  BY DEF SceneNext, operationsVars

LEMMA WorkflowScene ==
  /\ OperationsSpec => [](scene = "workflow") \/ [] ~ (scene = "workflow")
  /\ OperationsSpec /\ scene = "workflow" => Job!WorkflowSpec
<1> DEFINE P == scene = "workflow"
<1>1. SceneInit /\ P => Job!WorkflowInit
  BY DEF SceneInit
<1>2. P /\ [SceneNext]_operationsVars => P' /\ [Job!WorkflowNext]_Job!workflowVars
  BY DEF SceneNext, operationsVars, jobVars, Job!workflowVars, Job!environment
<1>3. ~ P /\ [SceneNext]_operationsVars => ~ P'
  BY SceneStays
<1> QED
  BY <1>1, <1>2, <1>3, PTL DEF OperationsSpec, Job!WorkflowSpec

LEMMA ConnectionScene ==
  /\ OperationsSpec => [](scene = "connection") \/ [] ~ (scene = "connection")
  /\ OperationsSpec /\ scene = "connection" => Link!ConnectionSpec
<1> DEFINE P == scene = "connection"
<1>1. SceneInit /\ P => Link!ConnectionInit
  BY DEF SceneInit
<1>2. P /\ [SceneNext]_operationsVars => P' /\ [Link!ConnectionNext]_Link!connectionVars
  BY DEF SceneNext, operationsVars, linkVars, Link!connectionVars
<1>3. ~ P /\ [SceneNext]_operationsVars => ~ P'
  BY SceneStays
<1> QED
  BY <1>1, <1>2, <1>3, PTL DEF OperationsSpec, Link!ConnectionSpec

(* CommandsTellTheTruth, whatever the commands answer and the environment  *)
(* does between two of them (`interpretPipeline`, `notifyBridge`, the      *)
(* interpreter of the connection machine).                                 *)
THEOREM CommandsAlwaysTellTheTruth == OperationsSpec => []CommandsTellTheTruth
<1>1. OperationsSpec => [](scene = "workflow" => Job!PipelineMeansItsFormula)
  BY WorkflowScene, PipelinesMeanTheirFormula, OperationsAssumption, PTL
<1>2. OperationsSpec => [](scene = "workflow" => Job!BridgeHearsOfTheCulprit)
  BY WorkflowScene, BridgeAlwaysHears, OperationsAssumption, PTL
<1>3. OperationsSpec => [](scene = "workflow" => Job!WaitSeesTheReboot)
  BY WorkflowScene, WaitAlwaysSees, OperationsAssumption, PTL
<1>4. OperationsSpec => [](scene = "connection" => Link!AttemptTellsTheTruth)
  BY ConnectionScene, AttemptsTellTheTruth, OperationsAssumption, PTL
<1>5. /\ scene = "workflow" => Job!PipelineMeansItsFormula
      /\ scene = "workflow" => Job!BridgeHearsOfTheCulprit
      /\ scene = "workflow" => Job!WaitSeesTheReboot
      /\ scene = "connection" => Link!AttemptTellsTheTruth
      => CommandsTellTheTruth
  BY DEF CommandsTellTheTruth
<1> QED
  BY <1>1, <1>2, <1>3, <1>4, <1>5, PTL

=============================================================================
