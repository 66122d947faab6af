------------------------------- MODULE Tripwire -------------------------------
(***************************************************************************)
(* The runner of one RecoveryPolicy: it mirrors the fact feed, evaluates   *)
(* the predicate of every tripwire of every entity of the policy's domain, *)
(* and launches a recovery pipeline when a predicate has been false for at *)
(* least its grace.  Pipelines run for minutes, next to the observations   *)
(* that go on meanwhile; their outcome comes back as one more event of the *)
(* tripwire's state machine.                                               *)
(*                                                                         *)
(* One step of this module is one turn of the Node event loop: a feed      *)
(* entry, a tick, an operator's reset, the end of a pipeline, a timer.     *)
(***************************************************************************)
EXTENDS Integers

CONSTANTS
  Entity,      \* the entities of the policy's domain
  Tripwire,    \* the tripwires of the policy
  Fact,        \* the names of the facts the predicates read
  Value,       \* the values a fact takes
  Absent,      \* what a lookup returns for a fact nobody has emitted
  Predicate,   \* Predicate[t]: the valuations of Fact that satisfy t
  Grace,       \* Grace[t]: how long t must stay false before it fires
  Retries,     \* Retries[t]: how many times t's pipeline is run again
  MaxClock,    \* bound: the last instant of a behaviour
  MaxRearms    \* bound: the resets the operators ask for

Valuation == [Fact -> Value \union {Absent}]

(* `grace` is a duration string and `retry` a policy that ends.  A grace   *)
(* of zero is legal in the config but lets two attempts start in the same  *)
(* millisecond, and attempts are told apart by the instant they start.     *)
ASSUME ConstantsAssumption ==
  /\ Absent \notin Value
  /\ Predicate \in [Tripwire -> SUBSET Valuation]
  /\ Grace \in [Tripwire -> Nat \ {0}]
  /\ Retries \in [Tripwire -> Nat]
  /\ MaxClock \in Nat
  /\ MaxRearms \in Nat

VARIABLES
  clock,       \* Date.now()
  running,     \* subscribed to the feed and ticking
  feed,        \* the fact stream's current values: what the trackers last said
  facts,       \* factsByEntity: the runner's own copy of them
  state,       \* the live state of every tripwire instance
  attempts,    \* the recovery attempts in flight
  launched,    \* how many attempts each instance has launched (history)
  falseSince,  \* since when the feed has not satisfied a predicate (history)
  rearms       \* how many resets the operators have asked for

vars == <<clock, running, feed, facts, state, attempts, launched, falseSince, rearms>>

Instance == Entity \X Tripwire
EntityOf(i) == i[1]
TripwireOf(i) == i[2]

-----------------------------------------------------------------------------
(* The tripwire's state machine.                                           *)

Untimed == {"healthy", "exhausted", "fatalError"}
Timed == {"pending", "recovering"}
TripwireState == [tag : Untimed, since : {0}] \union [tag : Timed, since : Nat]

Healthy == [tag |-> "healthy", since |-> 0]
Pending(now) == [tag |-> "pending", since |-> now]
Recovering(now) == [tag |-> "recovering", since |-> now]

(* Definitions named Defect_... are wrong on purpose: each is the operator  *)
(* that follows with one plausible mistake, and some property must reject  *)
(* it.  Here: the grace counted from the start of the service.             *)
Defect_ExpiredSinceStart(s, now, grace) == s.tag = "pending" /\ now >= grace

(* The grace of a pending tripwire has run out.                            *)
Expired(s, now, grace) == s.tag = "pending" /\ now - s.since >= grace

(* Defects: a healthy observation interrupts a recovery; a grace goes on   *)
(* through a healthy spell; giving up starts a new grace at once.          *)
Defect_ObserveInterrupts(s, healthy, now, grace) ==
  CASE healthy                               -> Healthy
    [] s.tag = "healthy" /\ ~ healthy        -> Pending(now)
    [] Expired(s, now, grace) /\ ~ healthy   -> Recovering(now)
    [] OTHER                                 -> s

Defect_ObserveKeepsPending(s, healthy, now, grace) ==
  CASE s.tag \in Timed /\ (healthy \/ ~ Expired(s, now, grace)) -> s
    [] Expired(s, now, grace) /\ ~ healthy                       -> Recovering(now)
    [] s.tag \in Untimed /\ healthy                              -> Healthy
    [] s.tag = "healthy" /\ ~ healthy                            -> Pending(now)
    [] OTHER                                                     -> s

Defect_ObserveTriesAgain(s, healthy, now, grace) ==
  CASE s.tag = "recovering"                  -> s
    [] s.tag # "recovering" /\ healthy       -> Healthy
    [] s.tag \in Untimed /\ ~ healthy        -> Pending(now)
    [] Expired(s, now, grace) /\ ~ healthy   -> Recovering(now)
    [] OTHER                                 -> s

(* reduce on an `observe` event.                                           *)
Observe(s, healthy, now, grace) ==
  CASE s.tag = "recovering"                  -> s
    [] s.tag # "recovering" /\ healthy       -> Healthy
    [] s.tag = "healthy" /\ ~ healthy        -> Pending(now)
    [] Expired(s, now, grace) /\ ~ healthy   -> Recovering(now)
    [] OTHER                                 -> s

(* The event makes the machine emit a runRecovery command.                 *)
Fires(s, healthy, now, grace) == ~ healthy /\ Expired(s, now, grace)

(* Defects: the outcome of any attempt counts; the instant is not cleared. *)
Defect_ApplyAnyOutcome(s, attempt, outcome) ==
  IF s.tag = "recovering"
    THEN [tag |-> IF outcome = "succeeded" THEN "healthy" ELSE outcome, since |-> 0]
    ELSE s

Defect_ApplyOutcomeKeepsInstant(s, attempt, outcome) ==
  IF s.tag = "recovering" /\ s.since = attempt
    THEN [s EXCEPT !.tag = IF outcome = "succeeded" THEN "healthy" ELSE outcome]
    ELSE s

(* reduce on a `recoveryOutcome` event: it counts only for the attempt in  *)
(* progress.                                                               *)
ApplyOutcome(s, attempt, outcome) ==
  IF s.tag = "recovering" /\ s.since = attempt
    THEN [tag |-> IF outcome = "succeeded" THEN "healthy" ELSE outcome, since |-> 0]
    ELSE s

-----------------------------------------------------------------------------
(* Attempts.  An attempt is running its pipeline, waiting for the retry    *)
(* delay to pass, or done and about to dispatch its outcome.               *)

Outcome == {"succeeded", "exhausted", "fatalError"}
Attempt == [inst : Instance, nr : Nat, id : Nat, iteration : Nat,
            stage : {"pipeline", "delay"} \union Outcome]

NewAttempt(i) ==
  [inst |-> i, nr |-> launched[i] + 1, id |-> clock, iteration |-> 0,
   stage |-> "pipeline"]

(* The predicate of an instance under a valuation of every entity.         *)
Holds(i, f) == f[EntityOf(i)] \in Predicate[TripwireOf(i)]

(* Observing the given entities against the facts f makes instance i fire. *)
FiresAmong(i, es, f) ==
  /\ EntityOf(i) \in es
  /\ Fires(state[i], Holds(i, f), clock, Grace[TripwireOf(i)])

(* Every tripwire of the given entities is observed against the facts f,   *)
(* and the ones whose grace has run out launch an attempt.                 *)
ObserveEntities(es, f) ==
  /\ state' = [i \in Instance |->
                 IF EntityOf(i) \in es
                   THEN Observe(state[i], Holds(i, f), clock, Grace[TripwireOf(i)])
                   ELSE state[i]]
  /\ attempts' = attempts \union
                   {NewAttempt(i) : i \in {j \in Instance : FiresAmong(j, es, f)}}
  /\ launched' = [i \in Instance |->
                    IF FiresAmong(i, es, f) THEN launched[i] + 1 ELSE launched[i]]

(* The entities of which the runner has heard at least one fact.           *)
Known == {e \in Entity : \E n \in Fact : facts[e][n] # Absent}

-----------------------------------------------------------------------------
(* The history variable falseSince follows the feed.                       *)
TrackOutage ==
  falseSince' = [i \in Instance |->
    IF Holds(i, feed) /\ ~ Holds(i, feed') THEN clock ELSE falseSince[i]]

-----------------------------------------------------------------------------
(* The runner starts from the feed's snapshot, and observes nothing yet.   *)
Init ==
  /\ clock = 0
  /\ running = TRUE
  /\ feed \in [Entity -> Valuation]
  /\ facts = feed
  /\ state = [i \in Instance |-> Healthy]
  /\ attempts = {}
  /\ launched = [i \in Instance |-> 0]
  /\ falseSince = [i \in Instance |-> 0]
  /\ rearms = 0

(* A tracker emits a fact.  The stream drops an unchanged value; a running *)
(* runner copies the new one and observes the entity in the same callback. *)
Emit(e, n, v) ==
  /\ feed[e][n] # v
  /\ feed' = [feed EXCEPT ![e][n] = v]
  /\ TrackOutage
  /\ \/ /\ running
        /\ facts' = [facts EXCEPT ![e][n] = v]
        /\ ObserveEntities({e}, facts')
     \/ /\ ~ running
        /\ UNCHANGED <<facts, state, attempts, launched>>
  /\ UNCHANGED <<clock, running, rearms>>

(* Defect: the tick trusts the feed to notify every change.                *)
Defect_TickObservesNothing ==
  /\ running
  /\ UNCHANGED vars

(* The tick observes every known entity again: the feed is silent while a  *)
(* predicate stays false, so nothing else notices that a grace is over.    *)
Tick ==
  /\ running
  /\ ObserveEntities(Known, facts)
  /\ UNCHANGED <<clock, running, feed, facts, falseSince, rearms>>

(* A pipeline comes to its end.  A configuration error is fatal; otherwise *)
(* the live predicate decides, and a false one costs a retry.              *)
PipelineEnds(a) ==
  /\ a.stage = "pipeline"
  /\ \E stage \in
       {"fatalError"} \union
       (CASE Holds(a.inst, facts) -> {"succeeded"}
          [] ~ Holds(a.inst, facts) /\ a.iteration < Retries[TripwireOf(a.inst)] -> {"delay"}
          [] OTHER -> {"exhausted"}) :
       attempts' = (attempts \ {a}) \union
         {[a EXCEPT !.stage = stage,
                    !.iteration = IF stage = "delay" THEN @ + 1 ELSE @]}
  /\ UNCHANGED <<clock, running, feed, facts, state, launched, falseSince, rearms>>

(* The retry delay passes and the pipeline runs again, whatever happened   *)
(* to the predicate, the tripwire or the runner in the meantime.           *)
DelayEnds(a) ==
  /\ a.stage = "delay"
  /\ attempts' = (attempts \ {a}) \union {[a EXCEPT !.stage = "pipeline"]}
  /\ UNCHANGED <<clock, running, feed, facts, state, launched, falseSince, rearms>>

(* Defect: a configuration error is swallowed instead of dispatched.       *)
Defect_FatalOutcomeLost(a) ==
  /\ a.stage \in Outcome
  /\ attempts' = attempts \ {a}
  /\ state' = IF a.stage = "fatalError" THEN state
              ELSE [state EXCEPT ![a.inst] = ApplyOutcome(@, a.id, a.stage)]
  /\ UNCHANGED <<clock, running, feed, facts, launched, falseSince, rearms>>

(* The outcome is dispatched to the live state.                            *)
OutcomeArrives(a) ==
  /\ a.stage \in Outcome
  /\ attempts' = attempts \ {a}
  /\ state' = [state EXCEPT ![a.inst] = ApplyOutcome(@, a.id, a.stage)]
  /\ UNCHANGED <<clock, running, feed, facts, launched, falseSince, rearms>>

(* An operator resets a tripwire.  No state is refused and no attempt is   *)
(* cancelled.                                                              *)
Rearm(i) ==
  /\ running
  /\ rearms < MaxRearms
  /\ rearms' = rearms + 1
  /\ state' = [state EXCEPT ![i] = Healthy]
  /\ UNCHANGED <<clock, running, feed, facts, attempts, launched, falseSince>>

(* The lifecycle is deactivated: no more entries, no more ticks.  Attempts *)
(* in flight are not told.                                                 *)
Stop ==
  /\ running
  /\ running' = FALSE
  /\ UNCHANGED <<clock, feed, facts, state, attempts, launched, falseSince, rearms>>

Advance ==
  /\ clock < MaxClock
  /\ clock' = clock + 1
  /\ UNCHANGED <<running, feed, facts, state, attempts, launched, falseSince, rearms>>

AttemptStep(a) == PipelineEnds(a) \/ DelayEnds(a) \/ OutcomeArrives(a)

Next ==
  \/ \E e \in Entity, n \in Fact, v \in Value : Emit(e, n, v)
  \/ Tick
  \/ \E a \in attempts : PipelineEnds(a)
  \/ \E a \in attempts : DelayEnds(a)
  \/ \E a \in attempts : OutcomeArrives(a)
  \/ \E i \in Instance : Rearm(i)
  \/ Stop
  \/ Advance

Spec == Init /\ [][Next]_vars

(* What the event loop owes: the tick loop never stops while the runner is *)
(* running, commands have timeouts so a pipeline ends, a retry delay       *)
(* passes, a settled promise is dispatched.  Nothing makes a tracker emit, *)
(* an operator reset or the schedule stop the runner.                      *)
Fairness ==
  /\ WF_vars(Tick)
  /\ WF_vars(Advance)
  /\ \A i \in Instance, n \in 1 .. MaxClock :
       WF_vars(\E a \in attempts : a.inst = i /\ a.nr = n /\ AttemptStep(a))

FairSpec == Spec /\ Fairness

-----------------------------------------------------------------------------
(* Correctness.                                                            *)

(* The type invariant: every variable keeps the shape its code gives it.   *)
TypeOK ==
  /\ clock \in Nat
  /\ running \in BOOLEAN
  /\ feed \in [Entity -> Valuation]
  /\ facts \in [Entity -> Valuation]
  /\ state \in [Instance -> TripwireState]
  /\ attempts \in SUBSET Attempt
  /\ launched \in [Instance -> Nat]
  /\ falseSince \in [Instance -> Nat]
  /\ rearms \in Nat

(* The attempt an episode of i belongs to.                                 *)
IsCurrent(a, i) == a.inst = i /\ a.nr = launched[i]

(* A tripwire in `recovering` has its own attempt in flight, the last one  *)
(* launched: the state can never outlive the effect it stands for          *)
(* ("recovering means an attempt is in flight").                           *)
RecoveringHasItsAttempt ==
  \A i \in Instance : state[i].tag = "recovering" =>
    \E a \in attempts : IsCurrent(a, i) /\ a.id = state[i].since

(* The grace period is spent entirely outside the predicate: while the     *)
(* runner runs, a pending tripwire's predicate is false in the feed and    *)
(* has been since before the grace started to count.                       *)
PendingIsUnhealthy ==
  running => \A i \in Instance : state[i].tag = "pending" =>
    /\ ~ Holds(i, feed)
    /\ falseSince[i] <= state[i].since

(* Without an operator's reset no tripwire ever has two pipelines in       *)
(* flight, however its predicate flaps while one of them runs ("two real   *)
(* reboots on the same device").                                           *)
NoParallelAttempts ==
  rearms = 0 => \A a, b \in attempts : a.inst = b.inst => a = b

(* A pipeline is launched only for an outage the feed has reported         *)
(* uninterruptedly for the whole grace, by a runner that is running.       *)
LaunchRespectsGrace ==
  [][\A i \in Instance : launched'[i] # launched[i] =>
       /\ running
       /\ ~ Holds(i, feed')
       /\ clock - falseSince'[i] >= Grace[TripwireOf(i)]]_vars

(* An episode is closed by an operator or by its own attempt: the late     *)
(* outcome of an attempt a reset orphaned never touches a later episode.   *)
EpisodeClosedByItsAttempt ==
  [][\A i \in Instance : state[i].tag = "recovering" /\ state'[i] # state[i] =>
       \/ rearms' # rearms
       \/ \E a \in attempts \ attempts' : IsCurrent(a, i)]_vars

(* Giving up is not final until the device is: an exhausted or failed      *)
(* tripwire fires again only after its predicate has been true or an       *)
(* operator has reset it, and after a whole new grace.                     *)
NoRelaunchWithoutHealing ==
  [][\A i \in Instance : state[i].tag \in {"exhausted", "fatalError"} /\ state'[i] # state[i] =>
       /\ state'[i] = Healthy
       /\ Holds(i, feed') \/ rearms' # rearms]_vars

(* What the comments of the code claim for resets and for the schedule,    *)
(* and the code does not do.                                               *)

(* No tripwire ever has two pipelines in flight, whatever an operator does *)
(* ("two real reboots on the same device"; "rearm exhausted/fatalError     *)
(* tripwire").                                                             *)
OnePipelinePerTripwire ==
  \A a, b \in attempts : a.inst = b.inst => a = b

(* Nothing is recovered once the schedule has deactivated the service      *)
(* ("avoid powering on or recovering devices outside business hours").     *)
NoPipelineStartsAfterStop ==
  [][~ running => \A a \in attempts' : a.stage = "pipeline" => a \in attempts]_vars

(* Every episode ends.                                                     *)
EpisodeEnds ==
  \A i \in Instance, n \in 1 .. MaxClock :
    (state[i].tag = "recovering" /\ launched[i] = n)
      ~> ~ (state[i].tag = "recovering" /\ launched[i] = n)

(* A grace that can run out within the modelled time is acted on: a        *)
(* running tripwire does not stay pending for ever although a predicate    *)
(* that stays false makes the feed silent.                                 *)
GraceExpiryIsNoticed ==
  \A i \in Instance, s \in 0 .. MaxClock :
    (running /\ state[i] = Pending(s) /\ s + Grace[TripwireOf(i)] <= MaxClock)
      ~> (~ running \/ state[i] # Pending(s))

(* The promise Episode states, with the phases read off the machine's tags *)
(* and the open attempts off their numbers.                                *)
EpisodePhase ==
  [i \in Instance |->
     CASE state[i].tag \in {"healthy", "pending"} -> "watching"
       [] state[i].tag = "recovering" -> "acting"
       [] OTHER -> "givenUp"]
OpenAttempts == [i \in Instance |-> {a.nr : a \in {b \in attempts : b.inst = i}}]

E == INSTANCE Episode WITH phase <- EpisodePhase, open <- OpenAttempts, last <- launched

(* The runner implements Episode, its liveness included.                   *)
ImplementsEpisode == E!Spec

=============================================================================
