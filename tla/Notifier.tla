------------------------------ MODULE Notifier ------------------------------
(***************************************************************************)
(* What the recovery engine tells the outside of a tripwire: every change  *)
(* of state goes to the recovery stream and the activity stream in the     *)
(* same turn, and those that matter to an operator start a dispatch nobody *)
(* waits for.  A dispatch reads the registry to describe the entity, posts *)
(* to Slack for every rule at once, and publishes one notification per     *)
(* rule when the last post has been answered.  Dispatches overlap.         *)
(***************************************************************************)
EXTENDS Naturals, Sequences, FiniteSets

CONSTANTS
  Wire,           \* the tripwires of one entity
  Rule,           \* the notification rules of a tripwire
  MaxMoves        \* bound: the transitions of the tripwires

(* A configuration lists finitely many rules.                              *)
ASSUME NotifierAssumption == IsFiniteSet(Rule) /\ MaxMoves \in Nat

VARIABLES
  slackActive,    \* the configuration has Slack active
  policy,         \* the lifecycles each rule is for
  state,          \* the state of each tripwire
  statusRow,      \* the recovery stream: the latest state per tripwire
  activityRow,    \* the activity stream: the latest status of the entity
  dispatches,     \* the dispatches begun, in order
  notices,        \* the notify stream, in order
  logged,         \* the errors logged by dispatches, one per failed post
  moves           \* the transitions so far

notifierVars ==
  <<slackActive, policy, state, statusRow, activityRow, dispatches, notices, logged, moves>>

Lifecycle == {"immediate", "exhausted"}
WireState == {"healthy", "pending", "recovering", "exhausted", "fatalError"}

(* The steps of a tripwire (module Tripwire), as this module hears of them.*)
Follows ==
  [healthy |-> {"pending"}, pending |-> {"healthy", "recovering"},
   recovering |-> {"healthy", "exhausted", "fatalError"},
   exhausted |-> {"healthy"}, fatalError |-> {"healthy"}]

(* The lifecycles a state starts a dispatch for: none or one.              *)
LifecycleOf(s) ==
  CASE s = "recovering" -> {"immediate"}
    [] s \in {"exhausted", "fatalError"} -> {"exhausted"}
    [] OTHER -> {}

NotifierInit ==
  /\ slackActive \in BOOLEAN
  /\ policy \in [Rule -> SUBSET Lifecycle]
  /\ state = [w \in Wire |-> "healthy"]
  /\ statusRow = [w \in Wire |-> "none"] /\ activityRow = "none"
  /\ dispatches = <<>> /\ notices = <<>> /\ logged = 0 /\ moves = 0

-----------------------------------------------------------------------------
NewDispatch(w, l) ==
  [wire |-> w, lifecycle |-> l, step |-> "describing", described |-> FALSE, posts |-> [r \in {} |-> "none"]]

(* onStatus: both streams at once, and a dispatch if the state is one that *)
(* an operator is told of.                                                 *)
Moves(w, s) ==
  /\ moves < MaxMoves /\ s \in Follows[state[w]]
  /\ moves' = moves + 1
  /\ state' = [state EXCEPT ![w] = s]
  /\ statusRow' = [statusRow EXCEPT ![w] = s]
  /\ activityRow' = s
  /\ dispatches' = IF LifecycleOf(s) = {} THEN dispatches
                   ELSE Append(dispatches, NewDispatch(w, CHOOSE l \in LifecycleOf(s) : TRUE))
  /\ UNCHANGED <<slackActive, policy, notices, logged>>

(* Defect: every rule is posted, whatever its policy.                      *)
Defect_AllRules(lifecycle) == Rule

Matching(lifecycle) == {r \in Rule : lifecycle \in policy[r]}

(* The registry has been read, or could not be: then the message has the   *)
(* id of the entity in place of its label.  The posts of all rules leave.  *)
Described(i, readable) ==
  /\ dispatches[i].step = "describing"
  /\ dispatches' = [dispatches EXCEPT ![i].step = "posting", ![i].described = readable,
       ![i].posts = [r \in Matching(dispatches[i].lifecycle) |-> IF slackActive THEN "waiting" ELSE "skipped"]]
  /\ UNCHANGED <<slackActive, policy, state, statusRow, activityRow, notices, logged, moves>>

(* Slack answers, with success or not: a failure is logged and swallowed.  *)
PostAnswered(i, r, ok) ==
  /\ dispatches[i].step = "posting" /\ r \in DOMAIN dispatches[i].posts
  /\ dispatches[i].posts[r] = "waiting"
  /\ dispatches' = [dispatches EXCEPT ![i].posts[r] = IF ok THEN "sent" ELSE "failed"]
  /\ logged' = IF ok THEN logged ELSE logged + 1
  /\ UNCHANGED <<slackActive, policy, state, statusRow, activityRow, notices, moves>>

Notice(i, r) ==
  [dispatch |-> i, wire |-> dispatches[i].wire, lifecycle |-> dispatches[i].lifecycle,
   rule |-> r, labelled |-> dispatches[i].described, slack |-> dispatches[i].posts[r]]

OrdersOf(rules) == {s \in [1 .. Cardinality(rules) -> rules] : \A a, b \in DOMAIN s : s[a] = s[b] => a = b}

(* The last post is answered: one notification per rule, in one turn.      *)
Publishes(i) ==
  /\ dispatches[i].step = "posting"
  /\ \A r \in DOMAIN dispatches[i].posts : dispatches[i].posts[r] # "waiting"
  /\ dispatches' = [dispatches EXCEPT ![i].step = "done"]
  /\ LET order == CHOOSE s \in OrdersOf(DOMAIN dispatches[i].posts) : TRUE
     IN notices' = notices \o [n \in DOMAIN order |-> Notice(i, order[n])]
  /\ UNCHANGED <<slackActive, policy, state, statusRow, activityRow, logged, moves>>

NotifierNext ==
  \/ \E w \in Wire, s \in WireState : Moves(w, s)
  \/ \E i \in DOMAIN dispatches :
       \/ \E readable \in BOOLEAN : Described(i, readable)
       \/ \E r \in Rule, ok \in BOOLEAN : PostAnswered(i, r, ok)
       \/ Publishes(i)

NotifierSpec == NotifierInit /\ [][NotifierNext]_notifierVars

-----------------------------------------------------------------------------
NotifierTypeOK ==
  /\ state \in [Wire -> WireState] /\ statusRow \in [Wire -> WireState \union {"none"}]
  /\ activityRow \in WireState \union {"none"}
  /\ \A i \in DOMAIN dispatches :
       dispatches[i].lifecycle \in Lifecycle /\ dispatches[i].step \in {"describing", "posting", "done"}
  /\ moves \in 0 .. MaxMoves

NoticesOf(i) == {n \in DOMAIN notices : notices[n].dispatch = i}

(* However dispatches overlap and whatever Slack answers, a dispatch that  *)
(* is over has published each rule that is for its lifecycle exactly once, *)
(* an unanswered one nothing; a failed post is told apart from a sent one  *)
(* and is in the log; and no notification is about a lifecycle its rule is *)
(* not for.                                                                *)
EveryTripIsTold ==
  /\ \A i \in DOMAIN dispatches :
       LET told == {notices[n].rule : n \in NoticesOf(i)} IN
       /\ Cardinality(NoticesOf(i)) = Cardinality(told)
       /\ told = IF dispatches[i].step = "done"
                   THEN {r \in Rule : dispatches[i].lifecycle \in policy[r]} ELSE {}
  /\ \A n \in DOMAIN notices : (notices[n].slack = "skipped") = ~ slackActive
  /\ Cardinality({n \in DOMAIN notices : notices[n].slack = "failed"}) <= logged
  /\ \A w \in Wire : statusRow[w] \in {state[w], "none"}

=============================================================================
