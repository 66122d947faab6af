---------------------------- MODULE TripwireProofs ----------------------------
(***************************************************************************)
(* What TLC checks of Tripwire on one camera, proved for any number of     *)
(* entities, tripwires, facts, any graces and any retry policy.            *)
(***************************************************************************)
EXTENDS Tripwire, TLAPS

(* The parts of the inductive invariant.                                   *)

(* A running runner's copy of the facts is the feed.                       *)
Mirror == running => facts = feed

(* No recorded instant is in the future.                                   *)
PastInstants ==
  /\ \A i \in Instance : state[i].since <= clock /\ falseSince[i] <= clock
  /\ \A a \in attempts : a.id <= clock

(* Attempts are numbered in the order of their launch, and their           *)
(* identities, the instants they start at, are in the same order.          *)
AttemptsInOrder ==
  /\ \A a \in attempts : a.nr <= launched[a.inst]
  /\ \A a, b \in attempts : a.inst = b.inst /\ a.nr = b.nr => a = b
  /\ \A a, b \in attempts : a.inst = b.inst /\ a.nr < b.nr => a.id < b.id

(* A grace starts to count after every attempt in flight was launched, so  *)
(* the next attempt has a later identity than all of them.                 *)
GraceAfterAttempts ==
  \A a \in attempts : state[a.inst].tag = "pending" => a.id <= state[a.inst].since

(* Until an operator intervenes, an attempt in flight is the one its       *)
(* tripwire's episode belongs to.                                          *)
UndisturbedEpisodes ==
  rearms = 0 => \A a \in attempts :
                  state[a.inst].tag = "recovering" /\ a.nr = launched[a.inst]

IInv ==
  /\ TypeOK
  /\ Mirror
  /\ PastInstants
  /\ PendingIsUnhealthy
  /\ AttemptsInOrder
  /\ GraceAfterAttempts
  /\ RecoveringHasItsAttempt
  /\ UndisturbedEpisodes

-----------------------------------------------------------------------------
(* The state machine on its own.                                           *)

(* An observation maps a machine state to a machine state.                 *)
LEMMA ObserveType ==
  ASSUME NEW s \in TripwireState, NEW healthy \in BOOLEAN,
         NEW now \in Nat, NEW grace \in Nat
  PROVE  Observe(s, healthy, now, grace) \in TripwireState
  BY DEF Observe, TripwireState, Untimed, Timed, Healthy, Pending, Recovering, Expired

(* What an observation can lead to: nothing new, health, the start of a    *)
(* grace, or, exactly when it fires, a recovery.                           *)
LEMMA ObserveCases ==
  ASSUME NEW s \in TripwireState, NEW healthy \in BOOLEAN,
         NEW now \in Nat, NEW grace \in Nat,
         NEW r, r = Observe(s, healthy, now, grace)
  PROVE  \/ /\ Fires(s, healthy, now, grace)
            /\ s.tag = "pending" /\ r = Recovering(now)
         \/ /\ ~ Fires(s, healthy, now, grace)
            /\ \/ r = s /\ (healthy => s.tag \in {"healthy", "recovering"})
               \/ r = Healthy /\ healthy /\ s.tag # "recovering"
               \/ r = Pending(now) /\ ~ healthy /\ s = Healthy
  BY DEF Observe, Fires, TripwireState, Untimed, Timed, Healthy, Pending, Recovering, Expired

(* An outcome maps a machine state to a machine state.                     *)
LEMMA ApplyOutcomeType ==
  ASSUME NEW s \in TripwireState, NEW id \in Nat, NEW outcome \in Outcome
  PROVE  ApplyOutcome(s, id, outcome) \in TripwireState
  BY DEF ApplyOutcome, TripwireState, Untimed, Timed, Outcome

(* An instance's entity, tripwire and grace have the types they are given. *)
LEMMA InstanceType ==
  ASSUME NEW i \in Instance
  PROVE  /\ EntityOf(i) \in Entity
         /\ TripwireOf(i) \in Tripwire
         /\ Grace[TripwireOf(i)] \in Nat \ {0}
         /\ Retries[TripwireOf(i)] \in Nat
  BY ConstantsAssumption DEF Instance, EntityOf, TripwireOf

(* A predicate either holds or does not.                                   *)
LEMMA HoldsBoolean ==
  ASSUME NEW i, NEW f
  PROVE  Holds(i, f) \in BOOLEAN
  BY DEF Holds

-----------------------------------------------------------------------------
(* Type correctness.                                                       *)

(* A round of observations keeps the types of what it changes.             *)
LEMMA ObserveEntitiesType ==
  ASSUME TypeOK, NEW es, NEW f, ObserveEntities(es, f)
  PROVE  /\ state' \in [Instance -> TripwireState]
         /\ attempts' \in SUBSET Attempt
         /\ launched' \in [Instance -> Nat]
<1>1. state' \in [Instance -> TripwireState]
  <2>1. ASSUME NEW i \in Instance
        PROVE  Observe(state[i], Holds(i, f), clock, Grace[TripwireOf(i)]) \in TripwireState
    BY InstanceType, HoldsBoolean, ObserveType DEF TypeOK
  <2>2. QED BY <2>1 DEF ObserveEntities, TypeOK
<1>2. attempts' \in SUBSET Attempt
  <2>1. ASSUME NEW i \in Instance PROVE NewAttempt(i) \in Attempt
    BY DEF NewAttempt, Attempt, TypeOK
  <2>2. QED BY <2>1 DEF ObserveEntities, TypeOK
<1>3. launched' \in [Instance -> Nat]
  BY DEF ObserveEntities, TypeOK
<1>4. QED BY <1>1, <1>2, <1>3

(* Initially every variable has its type.                                  *)
LEMMA InitType == Init => TypeOK
  BY ConstantsAssumption
     DEF Init, TypeOK, Valuation, TripwireState, Untimed, Timed, Healthy, Attempt

(* Every step keeps every variable's type.                                 *)
LEMMA NextType == TypeOK /\ [Next]_vars => TypeOK'
<1> SUFFICES ASSUME TypeOK, [Next]_vars PROVE TypeOK'
  OBVIOUS
<1>1. ASSUME NEW e \in Entity, NEW n \in Fact, NEW v \in Value, Emit(e, n, v)
      PROVE  TypeOK'
  <2>1. feed' \in [Entity -> Valuation] /\ facts' \in [Entity -> Valuation]
    <3>1. [feed[e] EXCEPT ![n] = v] \in Valuation /\ [facts[e] EXCEPT ![n] = v] \in Valuation
      BY DEF TypeOK, Valuation
    <3>2. /\ feed' = [feed EXCEPT ![e] = [feed[e] EXCEPT ![n] = v]]
          /\ facts' = [facts EXCEPT ![e] = [facts[e] EXCEPT ![n] = v]] \/ facts' = facts
      BY <1>1 DEF Emit, TypeOK
    <3>3. QED BY <3>1, <3>2 DEF TypeOK
  <2>2. falseSince' \in [Instance -> Nat]
    BY <1>1 DEF Emit, TrackOutage, TypeOK
  <2>3. /\ state' \in [Instance -> TripwireState]
        /\ attempts' \in SUBSET Attempt
        /\ launched' \in [Instance -> Nat]
    <3>1. CASE ObserveEntities({e}, facts')
      BY <3>1, ObserveEntitiesType
    <3>2. CASE UNCHANGED <<facts, state, attempts, launched>>
      BY <3>2 DEF TypeOK
    <3>3. QED BY <1>1, <3>1, <3>2 DEF Emit
  <2>4. QED BY <1>1, <2>1, <2>2, <2>3 DEF Emit, TypeOK
<1>2. CASE Tick
  BY <1>2, ObserveEntitiesType DEF Tick, TypeOK
<1>3. ASSUME NEW a \in attempts, PipelineEnds(a)
      PROVE  TypeOK'
  <2>1. PICK stage \in {"fatalError", "succeeded", "delay", "exhausted"} :
          attempts' = (attempts \ {a}) \union
            {[a EXCEPT !.stage = stage,
                       !.iteration = IF stage = "delay" THEN @ + 1 ELSE @]}
    BY <1>3 DEF PipelineEnds
  <2>2. DEFINE b == [a EXCEPT !.stage = stage,
                              !.iteration = IF stage = "delay" THEN @ + 1 ELSE @]
  <2>3. b \in Attempt
    <3>1. a \in Attempt
      BY DEF TypeOK
    <3>2. (IF stage = "delay" THEN a.iteration + 1 ELSE a.iteration) \in Nat
      BY <3>1 DEF Attempt
    <3>3. QED BY <3>1, <3>2 DEF Attempt, Outcome
  <2>4. attempts' \in SUBSET Attempt
    BY <2>1, <2>3 DEF TypeOK
  <2>5. QED BY <1>3, <2>4 DEF PipelineEnds, TypeOK
<1>4. ASSUME NEW a \in attempts, DelayEnds(a)
      PROVE  TypeOK'
  <2>1. [a EXCEPT !.stage = "pipeline"] \in Attempt
    BY DEF TypeOK, Attempt, Outcome
  <2>2. QED BY <1>4, <2>1 DEF DelayEnds, TypeOK
<1>5. ASSUME NEW a \in attempts, OutcomeArrives(a)
      PROVE  TypeOK'
  <2>1. a \in Attempt /\ a.inst \in Instance /\ a.id \in Nat /\ a.stage \in Outcome
    BY <1>5 DEF OutcomeArrives, TypeOK, Attempt
  <2>2. ApplyOutcome(state[a.inst], a.id, a.stage) \in TripwireState
    BY <2>1, ApplyOutcomeType DEF TypeOK
  <2>3. state' \in [Instance -> TripwireState]
    BY <1>5, <2>1, <2>2 DEF OutcomeArrives, TypeOK
  <2>4. QED BY <1>5, <2>3 DEF OutcomeArrives, TypeOK
<1>6. ASSUME NEW i \in Instance, Rearm(i)
      PROVE  TypeOK'
  BY <1>6 DEF Rearm, TypeOK, Healthy, TripwireState, Untimed
<1>7. CASE Stop
  BY <1>7 DEF Stop, TypeOK
<1>8. CASE Advance
  BY <1>8 DEF Advance, TypeOK
<1>9. CASE UNCHANGED vars
  BY <1>9 DEF vars, TypeOK
<1>10. QED
  BY <1>1, <1>2, <1>3, <1>4, <1>5, <1>6, <1>7, <1>8, <1>9 DEF Next

(* The runner's variables always have the types the code gives them.       *)
THEOREM TypeCorrect == Spec => []TypeOK
  BY InitType, NextType, PTL DEF Spec

-----------------------------------------------------------------------------
(* The inductive invariant.                                                *)

(* Its parts about attempts survive a round of observations, and a tripwire *)
(* that comes out of it pending either was so already, or starts its grace  *)
(* now; if it was observed, its predicate is false.                         *)
LEMMA ObserveEntitiesInv ==
  ASSUME IInv, NEW es, NEW f, ObserveEntities(es, f), UNCHANGED <<clock, rearms>>
  PROVE  /\ \A i \in Instance : state'[i].since <= clock
         /\ \A a \in attempts' : a.id <= clock
         /\ AttemptsInOrder'
         /\ GraceAfterAttempts'
         /\ RecoveringHasItsAttempt'
         /\ UndisturbedEpisodes'
         /\ \A i \in Instance : state'[i].tag = "pending" =>
              /\ EntityOf(i) \in es => ~ Holds(i, f)
              /\ state'[i] = state[i] \/ (state'[i].since = clock /\ ~ Holds(i, f))
<1> USE DEF IInv
<1> DEFINE fires(i) == FiresAmong(i, es, f)
<1>1. ASSUME NEW i \in Instance
      PROVE  \/ /\ fires(i) /\ state[i].tag = "pending"
                /\ clock - state[i].since >= Grace[TripwireOf(i)]
                /\ state'[i] = Recovering(clock)
                /\ launched'[i] = launched[i] + 1
             \/ /\ ~ fires(i) /\ launched'[i] = launched[i]
                /\ \/ state'[i] = state[i] /\ (EntityOf(i) \in es /\ state[i].tag = "pending" => ~ Holds(i, f))
                   \/ state'[i] = Healthy /\ state[i].tag # "recovering"
                   \/ state'[i] = Pending(clock) /\ ~ Holds(i, f) /\ state[i] = Healthy
  <2>1. CASE EntityOf(i) \in es
    <3>1. state'[i] = Observe(state[i], Holds(i, f), clock, Grace[TripwireOf(i)])
      BY <2>1 DEF ObserveEntities
    <3>2. fires(i) <=> Fires(state[i], Holds(i, f), clock, Grace[TripwireOf(i)])
      BY <2>1 DEF FiresAmong
    <3>3. launched'[i] = IF fires(i) THEN launched[i] + 1 ELSE launched[i]
      BY DEF ObserveEntities
    <3>4. /\ state[i] \in TripwireState /\ Holds(i, f) \in BOOLEAN
          /\ clock \in Nat /\ Grace[TripwireOf(i)] \in Nat
      BY InstanceType, HoldsBoolean DEF TypeOK
    <3>5. Fires(state[i], Holds(i, f), clock, Grace[TripwireOf(i)]) =>
            clock - state[i].since >= Grace[TripwireOf(i)]
      BY DEF Fires, Expired
    <3>6. QED BY <3>1, <3>2, <3>3, <3>4, <3>5, ObserveCases
  <2>2. CASE EntityOf(i) \notin es
    BY <2>2 DEF ObserveEntities, FiresAmong
  <2>3. QED BY <2>1, <2>2
<1>2. \A a \in attempts' :
        \/ a \in attempts /\ a.nr <= launched[a.inst] /\ a.id <= clock
        \/ /\ a.inst \in Instance /\ fires(a.inst)
           /\ a = NewAttempt(a.inst) /\ a.nr = launched[a.inst] + 1 /\ a.id = clock
  <2> SUFFICES ASSUME NEW a \in attempts'
               PROVE  \/ a \in attempts /\ a.nr <= launched[a.inst] /\ a.id <= clock
                      \/ /\ a.inst \in Instance /\ fires(a.inst)
                         /\ a = NewAttempt(a.inst)
                         /\ a.nr = launched[a.inst] + 1 /\ a.id = clock
    OBVIOUS
  <2>1. CASE a \in attempts
    BY <2>1 DEF PastInstants, AttemptsInOrder
  <2>2. CASE \E i \in Instance : fires(i) /\ a = NewAttempt(i)
    BY <2>2 DEF NewAttempt
  <2>3. QED BY <2>1, <2>2 DEF ObserveEntities
<1>3. /\ \A a \in attempts' : /\ a.inst \in Instance /\ a.nr \in Nat /\ a.id \in Nat
                              /\ launched[a.inst] \in Nat /\ state[a.inst] \in TripwireState
      /\ clock \in Nat
      /\ attempts \subseteq attempts'
  <2>1. attempts' \in SUBSET Attempt
    BY ObserveEntitiesType
  <2>2. attempts \subseteq attempts'
    BY DEF ObserveEntities
  <2>3. QED BY <2>1, <2>2 DEF TypeOK, Attempt
<1>4. \A i \in Instance : /\ state[i].since \in Nat /\ state[i].since <= clock
                          /\ Grace[TripwireOf(i)] \in Nat \ {0}
                          /\ state[i] \in TripwireState
  BY InstanceType DEF TypeOK, PastInstants, TripwireState
<1>5. \A i \in Instance : state'[i].since <= clock
  BY <1>1, <1>3, <1>4 DEF Recovering, Pending, Healthy
<1>6. \A a \in attempts' : a.id <= clock
  BY <1>2, <1>3
<1>7. ASSUME NEW a \in attempts, fires(a.inst)
      PROVE  a.id < clock
  <2>1. state[a.inst].tag = "pending" /\ clock - state[a.inst].since >= Grace[TripwireOf(a.inst)]
    BY <1>1, <1>3, <1>7
  <2>2. a.id <= state[a.inst].since
    BY <2>1 DEF GraceAfterAttempts
  <2>3. QED BY <1>3, <1>4, <2>1, <2>2
<1>8. AttemptsInOrder'
  <2>1. ASSUME NEW a \in attempts' PROVE a.nr <= launched'[a.inst]
    BY <1>1, <1>2, <1>3
  <2>2. ASSUME NEW a \in attempts', NEW b \in attempts', a.inst = b.inst, a.nr = b.nr
        PROVE  a = b
    BY <1>2, <1>3, <2>2 DEF AttemptsInOrder
  <2>3. ASSUME NEW a \in attempts', NEW b \in attempts', a.inst = b.inst, a.nr < b.nr
        PROVE  a.id < b.id
    BY <1>2, <1>3, <1>7, <2>3 DEF AttemptsInOrder
  <2>4. QED BY <2>1, <2>2, <2>3 DEF AttemptsInOrder
<1>9. GraceAfterAttempts'
  <2> SUFFICES ASSUME NEW a \in attempts', state'[a.inst].tag = "pending"
               PROVE  a.id <= state'[a.inst].since
    BY DEF GraceAfterAttempts
  <2>1. ~ fires(a.inst)
    BY <1>1, <1>3 DEF Recovering
  <2>2. a \in attempts
    BY <1>2, <2>1
  <2>3. CASE state'[a.inst] = state[a.inst]
    BY <2>2, <2>3 DEF GraceAfterAttempts
  <2>4. CASE state'[a.inst] = Pending(clock)
    BY <1>6, <2>4 DEF Pending
  <2>5. QED BY <1>1, <1>3, <2>1, <2>3, <2>4 DEF Healthy
<1>10. RecoveringHasItsAttempt'
  <2> SUFFICES ASSUME NEW i \in Instance, state'[i].tag = "recovering"
               PROVE  \E a \in attempts' : a.inst = i /\ a.nr = launched'[i] /\ a.id = state'[i].since
    BY DEF RecoveringHasItsAttempt, IsCurrent
  <2>1. CASE fires(i)
    <3>1. NewAttempt(i) \in attempts'
      BY <2>1 DEF ObserveEntities
    <3>2. NewAttempt(i).inst = i /\ NewAttempt(i).nr = launched'[i] /\ NewAttempt(i).id = state'[i].since
      BY <1>1, <2>1 DEF NewAttempt, Recovering
    <3>3. QED BY <3>1, <3>2
  <2>2. CASE ~ fires(i)
    <3>1. state'[i] = state[i] /\ launched'[i] = launched[i]
      BY <1>1, <2>2 DEF Healthy, Pending
    <3>2. QED BY <1>3, <3>1 DEF RecoveringHasItsAttempt, IsCurrent
  <2>3. QED BY <2>1, <2>2
<1>11. UndisturbedEpisodes'
  <2> SUFFICES ASSUME rearms = 0, NEW a \in attempts'
               PROVE  state'[a.inst].tag = "recovering" /\ a.nr = launched'[a.inst]
    BY DEF UndisturbedEpisodes
  <2>1. CASE a \in attempts
    <3>1. state[a.inst].tag = "recovering" /\ a.nr = launched[a.inst] /\ a.inst \in Instance
      BY <1>3, <2>1 DEF UndisturbedEpisodes
    <3>2. QED BY <1>1, <3>1 DEF Healthy
  <2>2. CASE fires(a.inst) /\ a = NewAttempt(a.inst) /\ a.inst \in Instance
    BY <1>1, <2>2 DEF NewAttempt, Recovering
  <2>3. QED BY <1>2, <2>1, <2>2
<1>12. ASSUME NEW i \in Instance, state'[i].tag = "pending"
       PROVE  /\ EntityOf(i) \in es => ~ Holds(i, f)
              /\ state'[i] = state[i] \/ (state'[i].since = clock /\ ~ Holds(i, f))
  BY <1>1, <1>12 DEF Recovering, Healthy, Pending
<1>13. QED BY <1>5, <1>6, <1>8, <1>9, <1>10, <1>11, <1>12

(* What a running runner mirrors, and what it knows of pending tripwires,  *)
(* survive a round of observations against the feed's new values, provided *)
(* the facts that changed are of the observed entities.                    *)
LEMMA ObserveEntitiesPending ==
  ASSUME IInv, NEW es, ObserveEntities(es, facts'), UNCHANGED <<clock, rearms, running>>,
         running, facts' = feed',
         \A i \in Instance : EntityOf(i) \notin es => (Holds(i, feed') <=> Holds(i, feed)),
         TrackOutage \/ (feed' = feed /\ falseSince' = falseSince)
  PROVE  PendingIsUnhealthy' /\ \A i \in Instance : falseSince'[i] <= clock
<1> USE DEF IInv
<1>1. ASSUME NEW i \in Instance
      PROVE  \/ falseSince'[i] = falseSince[i] /\ ~ (Holds(i, feed) /\ ~ Holds(i, feed'))
             \/ falseSince'[i] = clock /\ Holds(i, feed) /\ ~ Holds(i, feed')
  BY DEF TrackOutage
<1>2. \A i \in Instance : falseSince'[i] <= clock
  BY <1>1 DEF PastInstants, TypeOK
<1>3. ASSUME NEW i \in Instance, state'[i].tag = "pending"
      PROVE  ~ Holds(i, feed') /\ falseSince'[i] <= state'[i].since
  <2>1. /\ EntityOf(i) \in es => ~ Holds(i, feed')
        /\ state'[i] = state[i] \/ (state'[i].since = clock /\ ~ Holds(i, feed'))
    BY <1>3, ObserveEntitiesInv
  <2>2. CASE state'[i].since = clock /\ ~ Holds(i, feed')
    BY <1>2, <2>2
  <2>3. CASE state'[i] = state[i]
    <3>1. ~ Holds(i, feed) /\ falseSince[i] <= state[i].since
      BY <1>3, <2>3 DEF PendingIsUnhealthy
    <3>2. QED BY <1>1, <2>1, <2>3, <3>1
  <2>4. QED BY <2>1, <2>2, <2>3
<1>4. QED BY <1>2, <1>3 DEF PendingIsUnhealthy

(* An attempt that changes stage keeps its place in the order.             *)
LEMMA StageChangeInv ==
  ASSUME IInv, NEW a \in attempts, NEW b, attempts' = (attempts \ {a}) \union {b},
         b.inst = a.inst, b.nr = a.nr, b.id = a.id, TypeOK',
         UNCHANGED <<clock, running, feed, facts, state, launched, falseSince, rearms>>
  PROVE  IInv'
<1> USE DEF IInv
<1>1. Mirror' /\ PendingIsUnhealthy'
  BY DEF Mirror, PendingIsUnhealthy, Holds, EntityOf, TripwireOf
<1>2. PastInstants' /\ GraceAfterAttempts' /\ UndisturbedEpisodes'
  BY DEF PastInstants, GraceAfterAttempts, UndisturbedEpisodes
<1>3. AttemptsInOrder'
  BY DEF AttemptsInOrder
<1>4. RecoveringHasItsAttempt'
  <2> SUFFICES ASSUME NEW i \in Instance, state[i].tag = "recovering"
               PROVE  \E c \in attempts' : c.inst = i /\ c.nr = launched[i] /\ c.id = state[i].since
    BY DEF RecoveringHasItsAttempt, IsCurrent
  <2>1. PICK c \in attempts : c.inst = i /\ c.nr = launched[i] /\ c.id = state[i].since
    BY DEF RecoveringHasItsAttempt, IsCurrent
  <2>2. CASE c = a
    BY <2>1, <2>2
  <2>3. CASE c # a
    BY <2>1, <2>3
  <2>4. QED BY <2>2, <2>3
<1>5. QED BY <1>1, <1>2, <1>3, <1>4

(* Nothing has happened yet: no attempt, every tripwire healthy.           *)
LEMMA InitInv == Init => IInv
<1> SUFFICES ASSUME Init PROVE IInv
  OBVIOUS
<1>1. TypeOK
  BY InitType
<1>2. QED
  BY <1>1 DEF Init, IInv, Mirror, PastInstants, PendingIsUnhealthy, AttemptsInOrder,
     GraceAfterAttempts, RecoveringHasItsAttempt, UndisturbedEpisodes, Healthy

(* Every step preserves the inductive invariant.                           *)
LEMMA NextInv == IInv /\ [Next]_vars => IInv'
<1> SUFFICES ASSUME IInv, [Next]_vars PROVE IInv'
  OBVIOUS
<1> USE DEF IInv
<1>0. TypeOK'
  BY NextType
<1>1. ASSUME NEW e \in Entity, NEW n \in Fact, NEW v \in Value, Emit(e, n, v)
      PROVE  IInv'
  <2>1. \A i \in Instance : EntityOf(i) # e => (Holds(i, feed') <=> Holds(i, feed))
    BY <1>1 DEF Emit, Holds, TypeOK, Instance, EntityOf
  <2>2. UNCHANGED <<clock, running, rearms>> /\ TrackOutage
    BY <1>1 DEF Emit
  <2>3. CASE running
    <3>1. ObserveEntities({e}, facts')
      BY <1>1, <2>3 DEF Emit
    <3>2. facts' = feed'
      BY <1>1, <2>3 DEF Emit, Mirror
    <3>3. PendingIsUnhealthy' /\ \A i \in Instance : falseSince'[i] <= clock
      BY <2>1, <2>2, <2>3, <3>1, <3>2, ObserveEntitiesPending
    <3>4. /\ \A i \in Instance : state'[i].since <= clock
          /\ \A a \in attempts' : a.id <= clock
          /\ AttemptsInOrder' /\ GraceAfterAttempts'
          /\ RecoveringHasItsAttempt' /\ UndisturbedEpisodes'
      BY <2>2, <3>1, ObserveEntitiesInv
    <3>5. PastInstants' /\ Mirror'
      BY <2>2, <3>2, <3>3, <3>4 DEF PastInstants, Mirror
    <3>6. QED BY <1>0, <3>3, <3>4, <3>5
  <2>4. CASE ~ running
    <3>1. UNCHANGED <<facts, state, attempts, launched>> /\ ~ running'
      BY <1>1, <2>4 DEF Emit
    <3>2. Mirror' /\ PendingIsUnhealthy'
      BY <3>1 DEF Mirror, PendingIsUnhealthy
    <3>3. PastInstants'
      BY <2>2, <3>1 DEF PastInstants, TrackOutage, TypeOK
    <3>4. AttemptsInOrder' /\ GraceAfterAttempts' /\ RecoveringHasItsAttempt' /\ UndisturbedEpisodes'
      BY <2>2, <3>1 DEF AttemptsInOrder, GraceAfterAttempts, RecoveringHasItsAttempt,
         UndisturbedEpisodes, IsCurrent
    <3>5. QED BY <1>0, <3>2, <3>3, <3>4
  <2>5. QED BY <2>3, <2>4
<1>2. CASE Tick
  <2>1. /\ UNCHANGED <<clock, running, feed, facts, falseSince, rearms>>
        /\ running /\ ObserveEntities(Known, facts)
    BY <1>2 DEF Tick
  <2>2. facts' = feed' /\ ObserveEntities(Known, facts')
    BY <2>1 DEF Mirror
  <2>3. \A i \in Instance : EntityOf(i) \notin Known => (Holds(i, feed') <=> Holds(i, feed))
    BY <2>1
  <2>4. PendingIsUnhealthy' /\ \A i \in Instance : falseSince'[i] <= clock
    BY <2>1, <2>2, <2>3, ObserveEntitiesPending
  <2>5. /\ \A i \in Instance : state'[i].since <= clock
        /\ \A a \in attempts' : a.id <= clock
        /\ AttemptsInOrder' /\ GraceAfterAttempts'
        /\ RecoveringHasItsAttempt' /\ UndisturbedEpisodes'
    BY <2>1, ObserveEntitiesInv
  <2>6. PastInstants' /\ Mirror'
    BY <2>1, <2>2, <2>4, <2>5 DEF PastInstants, Mirror
  <2>7. QED BY <1>0, <2>4, <2>5, <2>6
<1>3. ASSUME NEW a \in attempts, PipelineEnds(a)
      PROVE  IInv'
  <2>1. PICK stage :
          attempts' = (attempts \ {a}) \union
            {[a EXCEPT !.stage = stage,
                       !.iteration = IF stage = "delay" THEN @ + 1 ELSE @]}
    BY <1>3 DEF PipelineEnds
  <2> DEFINE b == [a EXCEPT !.stage = stage,
                            !.iteration = IF stage = "delay" THEN @ + 1 ELSE @]
  <2>2. b.inst = a.inst /\ b.nr = a.nr /\ b.id = a.id
    BY DEF TypeOK, Attempt
  <2>3. UNCHANGED <<clock, running, feed, facts, state, launched, falseSince, rearms>>
    BY <1>3 DEF PipelineEnds
  <2> HIDE DEF b
  <2>4. attempts' = (attempts \ {a}) \union {b}
    BY <2>1 DEF b
  <2>5. QED BY <1>0, <2>2, <2>3, <2>4, StageChangeInv
<1>4. ASSUME NEW a \in attempts, DelayEnds(a)
      PROVE  IInv'
  <2> DEFINE b == [a EXCEPT !.stage = "pipeline"]
  <2>1. b.inst = a.inst /\ b.nr = a.nr /\ b.id = a.id
    BY DEF TypeOK, Attempt
  <2>2. UNCHANGED <<clock, running, feed, facts, state, launched, falseSince, rearms>>
    BY <1>4 DEF DelayEnds
  <2>3. attempts' = (attempts \ {a}) \union {b}
    BY <1>4 DEF DelayEnds
  <2> HIDE DEF b
  <2>4. QED BY <1>0, <2>1, <2>2, <2>3, StageChangeInv
<1>5. ASSUME NEW a \in attempts, OutcomeArrives(a)
      PROVE  IInv'
  <2>1. /\ UNCHANGED <<clock, running, feed, facts, launched, falseSince, rearms>>
        /\ attempts' = attempts \ {a}
        /\ state' = [state EXCEPT ![a.inst] = ApplyOutcome(@, a.id, a.stage)]
    BY <1>5 DEF OutcomeArrives
  <2>2. a.inst \in Instance /\ a.stage \in Outcome
    BY <1>5 DEF OutcomeArrives, TypeOK, Attempt
  <2>3. \A i \in Instance :
          \/ state'[i] = state[i] /\ (i = a.inst => ~ (state[i].tag = "recovering" /\ state[i].since = a.id))
          \/ /\ i = a.inst /\ state[i].tag = "recovering"
             /\ state'[i].since = 0 /\ state'[i].tag \in Untimed
    BY <2>1, <2>2 DEF ApplyOutcome, TypeOK, Untimed, Outcome
  <2>4. Mirror' /\ PastInstants'
    BY <2>1, <2>3 DEF Mirror, PastInstants, TypeOK
  <2>5. PendingIsUnhealthy'
    BY <2>1, <2>3 DEF PendingIsUnhealthy, Holds, EntityOf, TripwireOf, Untimed
  <2>6. AttemptsInOrder'
    BY <2>1 DEF AttemptsInOrder
  <2>7. GraceAfterAttempts'
    <3>1. \A c \in attempts : c.inst \in Instance
      BY DEF TypeOK, Attempt
    <3>2. QED BY <2>1, <2>3, <3>1 DEF GraceAfterAttempts, Untimed
  <2>8. RecoveringHasItsAttempt'
    <3> SUFFICES ASSUME NEW i \in Instance, state'[i].tag = "recovering"
                 PROVE  \E c \in attempts' : c.inst = i /\ c.nr = launched[i] /\ c.id = state'[i].since
      BY <2>1 DEF RecoveringHasItsAttempt, IsCurrent
    <3>1. /\ state'[i] = state[i]
          /\ i = a.inst => state[i].since # a.id
      BY <2>3 DEF Untimed
    <3>2. PICK c \in attempts : c.inst = i /\ c.nr = launched[i] /\ c.id = state[i].since
      BY <3>1 DEF RecoveringHasItsAttempt, IsCurrent
    <3>3. c # a
      BY <3>1, <3>2
    <3>4. QED BY <2>1, <3>1, <3>2, <3>3
  <2>9. UndisturbedEpisodes'
    <3> SUFFICES ASSUME rearms = 0, NEW c \in attempts, c # a
                 PROVE  state'[c.inst].tag = "recovering" /\ c.nr = launched[c.inst]
      BY <2>1 DEF UndisturbedEpisodes
    <3>1. c.nr = launched[c.inst] /\ a.nr = launched[a.inst] /\ state[c.inst].tag = "recovering"
      BY DEF UndisturbedEpisodes
    <3>2. c.inst # a.inst
      BY <3>1 DEF AttemptsInOrder
    <3>3. QED BY <2>1, <3>1, <3>2
  <2>10. QED BY <1>0, <2>4, <2>5, <2>6, <2>7, <2>8, <2>9
<1>6. ASSUME NEW i \in Instance, Rearm(i)
      PROVE  IInv'
  <2>1. /\ UNCHANGED <<clock, running, feed, facts, attempts, launched, falseSince>>
        /\ rearms' = rearms + 1
        /\ state' = [state EXCEPT ![i] = Healthy]
    BY <1>6 DEF Rearm
  <2>2. \A j \in Instance : state'[j] = state[j] \/ state'[j] = Healthy
    BY <2>1 DEF TypeOK
  <2>3. Mirror' /\ PastInstants' /\ AttemptsInOrder'
    BY <2>1, <2>2 DEF Mirror, PastInstants, AttemptsInOrder, Healthy, TypeOK
  <2>4. PendingIsUnhealthy'
    BY <2>1, <2>2 DEF PendingIsUnhealthy, Healthy
  <2>5. GraceAfterAttempts' /\ UndisturbedEpisodes'
    <3>1. \A c \in attempts : c.inst \in Instance
      BY DEF TypeOK, Attempt
    <3>2. QED BY <2>1, <2>2, <3>1 DEF GraceAfterAttempts, UndisturbedEpisodes, Healthy, TypeOK
  <2>6. RecoveringHasItsAttempt'
    BY <2>1, <2>2 DEF RecoveringHasItsAttempt, IsCurrent, Healthy
  <2>7. QED BY <1>0, <2>3, <2>4, <2>5, <2>6
<1>7. CASE Stop
  BY <1>0, <1>7 DEF Stop, Mirror, PastInstants, PendingIsUnhealthy, AttemptsInOrder,
     GraceAfterAttempts, RecoveringHasItsAttempt, UndisturbedEpisodes, IsCurrent
<1>8. CASE Advance
  <2>1. PastInstants'
    BY <1>8 DEF Advance, PastInstants, TypeOK, TripwireState, Attempt
  <2>2. QED
    BY <1>0, <1>8, <2>1 DEF Advance, Mirror, PendingIsUnhealthy, AttemptsInOrder,
       GraceAfterAttempts, RecoveringHasItsAttempt, UndisturbedEpisodes, IsCurrent
<1>9. CASE UNCHANGED vars
  BY <1>0, <1>9 DEF vars, Mirror, PastInstants, PendingIsUnhealthy, AttemptsInOrder,
     GraceAfterAttempts, RecoveringHasItsAttempt, UndisturbedEpisodes, IsCurrent
<1>10. QED
  BY <1>1, <1>2, <1>3, <1>4, <1>5, <1>6, <1>7, <1>8, <1>9 DEF Next

(* The inductive invariant holds of every behaviour.                       *)
THEOREM Invariance == Spec => []IInv
  BY InitInv, NextInv, PTL DEF Spec

-----------------------------------------------------------------------------
(* What follows from it.                                                   *)

(* A tripwire in `recovering` always has its own attempt in flight.        *)
THEOREM RecoveringIsOwned == Spec => []RecoveringHasItsAttempt
  BY Invariance, PTL DEF IInv

(* A grace is spent entirely outside the predicate.                        *)
THEOREM GraceCountsOutage == Spec => []PendingIsUnhealthy
  BY Invariance, PTL DEF IInv

(* Until an operator resets something, no tripwire has two pipelines in    *)
(* flight.                                                                 *)
THEOREM OneAttemptAtATime == Spec => []NoParallelAttempts
<1>1. IInv => NoParallelAttempts
  BY DEF IInv, NoParallelAttempts, UndisturbedEpisodes, AttemptsInOrder
<1>2. QED BY Invariance, <1>1, PTL

(* A pipeline is launched only by a running runner, for an outage the feed *)
(* has reported for the whole grace.                                       *)
THEOREM LaunchesRespectGrace == Spec => LaunchRespectsGrace
<1> DEFINE A == \A i \in Instance : launched'[i] # launched[i] =>
                  /\ running
                  /\ ~ Holds(i, feed')
                  /\ clock - falseSince'[i] >= Grace[TripwireOf(i)]
<1>1. IInv /\ Next => A
  <2> SUFFICES ASSUME IInv, Next, NEW i \in Instance, launched'[i] # launched[i]
               PROVE  /\ running
                      /\ ~ Holds(i, feed')
                      /\ clock - falseSince'[i] >= Grace[TripwireOf(i)]
    OBVIOUS
  <2> USE DEF IInv
  <2>1. \/ \E e \in Entity, n \in Fact, v \in Value : Emit(e, n, v) /\ running
        \/ Tick
    <3>1. ~ (\E a \in attempts : PipelineEnds(a) \/ DelayEnds(a) \/ OutcomeArrives(a))
      BY DEF PipelineEnds, DelayEnds, OutcomeArrives
    <3>2. ~ ((\E j \in Instance : Rearm(j)) \/ Stop \/ Advance)
      BY DEF Rearm, Stop, Advance
    <3>3. \A e \in Entity, n \in Fact, v \in Value : Emit(e, n, v) => running
      BY DEF Emit
    <3>4. QED BY <3>1, <3>2, <3>3 DEF Next
  <2>2. PICK es : ObserveEntities(es, facts')
    BY <2>1 DEF Emit, Tick
  <2>3. /\ facts' = feed'
        /\ TrackOutage \/ (feed' = feed /\ falseSince' = falseSince)
        /\ running
    BY <2>1 DEF Emit, Tick, Mirror
  <2>4. FiresAmong(i, es, facts')
    BY <2>2 DEF ObserveEntities
  <2>5. /\ state[i].tag = "pending" /\ ~ Holds(i, feed')
        /\ clock - state[i].since >= Grace[TripwireOf(i)]
    BY <2>3, <2>4 DEF FiresAmong, Fires, Expired
  <2>6. ~ Holds(i, feed) /\ falseSince[i] <= state[i].since
    BY <2>3, <2>5 DEF PendingIsUnhealthy
  <2>7. falseSince'[i] = falseSince[i]
    BY <2>3, <2>6 DEF TrackOutage
  <2>8. /\ falseSince[i] \in Nat /\ state[i].since \in Nat /\ clock \in Nat
        /\ Grace[TripwireOf(i)] \in Nat
    BY InstanceType DEF TypeOK, TripwireState
  <2>9. QED BY <2>3, <2>5, <2>6, <2>7, <2>8
<1>2. IInv /\ [Next]_vars => [A]_vars
  BY <1>1
<1>3. QED BY Invariance, <1>2, PTL DEF Spec, LaunchRespectsGrace

(* Only an operator or the episode's own attempt closes an episode.        *)
THEOREM EpisodesCloseThemselves == Spec => EpisodeClosedByItsAttempt
<1> DEFINE A == \A i \in Instance :
                  state[i].tag = "recovering" /\ state'[i] # state[i] =>
                    \/ rearms' # rearms
                    \/ \E a \in attempts \ attempts' : IsCurrent(a, i)
<1>1. IInv /\ Next => A
  <2> SUFFICES ASSUME IInv, Next, NEW i \in Instance,
                      state[i].tag = "recovering", state'[i] # state[i], rearms' = rearms
               PROVE  \E a \in attempts \ attempts' : IsCurrent(a, i)
    OBVIOUS
  <2> USE DEF IInv
  <2>1. ASSUME NEW es, NEW f, ObserveEntities(es, f)
        PROVE  FALSE
    <3>1. Observe(state[i], Holds(i, f), clock, Grace[TripwireOf(i)]) = state[i]
      BY DEF Observe, Expired
    <3>2. QED BY <2>1, <3>1 DEF ObserveEntities
  <2>2. ~ (\E j \in Instance : Rearm(j))
    BY DEF Rearm, TypeOK
  <2>3. PICK a \in attempts : OutcomeArrives(a)
    BY <2>1, <2>2 DEF Next, Emit, Tick, PipelineEnds, DelayEnds, Stop, Advance
  <2>4. a.inst = i /\ state[i].since = a.id
    BY <2>3 DEF OutcomeArrives, ApplyOutcome, TypeOK, Attempt
  <2>5. PICK c \in attempts : c.inst = i /\ c.nr = launched[i] /\ c.id = state[i].since
    BY DEF RecoveringHasItsAttempt, IsCurrent
  <2>6. a.nr = c.nr
    <3>1. a.nr \in Nat /\ c.nr \in Nat /\ a.id \in Nat /\ a.nr <= launched[i]
      BY <2>4 DEF TypeOK, Attempt, AttemptsInOrder
    <3>2. ~ (a.nr < c.nr)
      BY <2>4, <2>5, <3>1 DEF AttemptsInOrder
    <3>3. QED BY <2>5, <3>1, <3>2
  <2>7. QED BY <2>3, <2>4, <2>5, <2>6 DEF OutcomeArrives, IsCurrent
<1>2. IInv /\ [Next]_vars => [A]_vars
  BY <1>1
<1>3. QED BY Invariance, <1>2, PTL DEF Spec, EpisodeClosedByItsAttempt

(* A tripwire that has given up waits for its predicate or an operator.    *)
THEOREM GivingUpIsFinal == Spec => NoRelaunchWithoutHealing
<1> DEFINE A == \A i \in Instance :
                  state[i].tag \in {"exhausted", "fatalError"} /\ state'[i] # state[i] =>
                    /\ state'[i] = Healthy
                    /\ Holds(i, feed') \/ rearms' # rearms
<1>1. IInv /\ Next => A
  <2> SUFFICES ASSUME IInv, Next, NEW i \in Instance,
                      state[i].tag \in {"exhausted", "fatalError"}, state'[i] # state[i]
               PROVE  state'[i] = Healthy /\ (Holds(i, feed') \/ rearms' # rearms)
    OBVIOUS
  <2> USE DEF IInv
  <2>1. ASSUME NEW es, ObserveEntities(es, facts'), facts' = feed'
        PROVE  state'[i] = Healthy /\ Holds(i, feed')
    BY <2>1, InstanceType, HoldsBoolean
       DEF ObserveEntities, Observe, Expired, TypeOK
  <2>2. ASSUME NEW a \in attempts, OutcomeArrives(a) PROVE FALSE
    BY <2>2 DEF OutcomeArrives, ApplyOutcome, TypeOK, Attempt
  <2>3. ASSUME NEW j \in Instance, Rearm(j)
        PROVE  state'[i] = Healthy /\ rearms' # rearms
    BY <2>3 DEF Rearm, TypeOK
  <2>4. QED
    BY <2>1, <2>2, <2>3
       DEF Next, Emit, Tick, Mirror, PipelineEnds, DelayEnds, Stop, Advance
<1>2. IInv /\ [Next]_vars => [A]_vars
  BY <1>1
<1>3. QED BY Invariance, <1>2, PTL DEF Spec, NoRelaunchWithoutHealing

-----------------------------------------------------------------------------
(* Refinement.                                                             *)

(* A round of observations is a sweep of the abstract specification.       *)
LEMMA ObservationsAreSweeps ==
  ASSUME IInv, NEW es, NEW f, ObserveEntities(es, f)
  PROVE  E!Next
<1> USE DEF IInv
<1> DEFINE fired == {i \in Instance : FiresAmong(i, es, f)}
           healed == {i \in Instance \ fired : EpisodePhase[i] = "givenUp" /\ state'[i] = Healthy}
<1>1. ASSUME NEW i \in Instance
      PROVE  \/ i \in fired /\ state[i].tag = "pending" /\ state'[i].tag = "recovering"
             \/ i \notin fired /\ (state'[i] = state[i] \/ state'[i] = Healthy)
                /\ (state'[i] # state[i] => state[i].tag # "recovering")
             \/ i \notin fired /\ state[i] = Healthy /\ state'[i].tag = "pending"
  <2>1. CASE EntityOf(i) \in es
    <3>1. /\ state'[i] = Observe(state[i], Holds(i, f), clock, Grace[TripwireOf(i)])
          /\ i \in fired <=> Fires(state[i], Holds(i, f), clock, Grace[TripwireOf(i)])
      BY <2>1 DEF ObserveEntities, FiresAmong
    <3>2. /\ state[i] \in TripwireState /\ Holds(i, f) \in BOOLEAN
          /\ clock \in Nat /\ Grace[TripwireOf(i)] \in Nat
      BY InstanceType, HoldsBoolean DEF TypeOK
    <3> HIDE DEF fired
    <3>3. QED BY <3>1, <3>2, ObserveCases DEF Recovering, Pending
  <2>2. CASE EntityOf(i) \notin es
    BY <2>2 DEF ObserveEntities, FiresAmong
  <2>3. QED BY <2>1, <2>2
<1>2. \A i \in Instance :
        OpenAttempts'[i] = IF i \in fired THEN OpenAttempts[i] \union {launched[i] + 1}
                           ELSE OpenAttempts[i]
  <2> SUFFICES ASSUME NEW i \in Instance
               PROVE  {a.nr : a \in {b \in attempts' : b.inst = i}} =
                        IF i \in fired
                          THEN {a.nr : a \in {b \in attempts : b.inst = i}} \union {launched[i] + 1}
                          ELSE {a.nr : a \in {b \in attempts : b.inst = i}}
    BY DEF OpenAttempts
  <2>1. attempts' = attempts \union {NewAttempt(j) : j \in fired}
    BY DEF ObserveEntities
  <2>2. \A j : NewAttempt(j).inst = j /\ NewAttempt(j).nr = launched[j] + 1
    BY DEF NewAttempt
  <2> HIDE DEF fired
  <2>3. {b \in attempts' : b.inst = i} =
          {b \in attempts : b.inst = i} \union (IF i \in fired THEN {NewAttempt(i)} ELSE {})
    BY <2>1, <2>2
  <2>4. QED BY <2>2, <2>3
<1>3. E!Sweep(fired, healed)
  <2>1. \A i \in fired : EpisodePhase[i] = "watching"
    BY <1>1 DEF EpisodePhase
  <2>2. \A i \in healed : EpisodePhase[i] = "givenUp"
    OBVIOUS
  <2>3. EpisodePhase' = [i \in Instance |->
                           CASE i \in fired -> "acting"
                             [] i \in healed -> "watching"
                             [] OTHER -> EpisodePhase[i]]
    <3> SUFFICES ASSUME NEW i \in Instance
                 PROVE  EpisodePhase'[i] = CASE i \in fired -> "acting"
                                             [] i \in healed -> "watching"
                                             [] OTHER -> EpisodePhase[i]
      BY DEF EpisodePhase
    <3>1. CASE i \in fired
      BY <1>1, <3>1 DEF EpisodePhase
    <3>2. CASE i \notin fired
      BY <1>1, <3>2 DEF EpisodePhase, Healthy
    <3>3. QED BY <3>1, <3>2
  <2>4. launched' = [i \in Instance |-> IF i \in fired THEN launched[i] + 1 ELSE launched[i]]
    BY DEF ObserveEntities
  <2>5. OpenAttempts' = [i \in Instance |->
                           IF i \in fired THEN OpenAttempts[i] \union {launched[i] + 1}
                           ELSE OpenAttempts[i]]
    BY <1>2 DEF OpenAttempts
  <2> HIDE DEF fired, healed
  <2>6. QED BY <2>1, <2>2, <2>3, <2>4, <2>5 DEF E!Sweep
<1>4. fired \in SUBSET Instance /\ healed \in SUBSET Instance
  OBVIOUS
<1> HIDE DEF fired, healed
<1>5. QED BY <1>3, <1>4 DEF E!Next

(* Replacing an attempt by one with the same number opens and closes none. *)
LEMMA StageChangeStutters ==
  ASSUME IInv, NEW a \in attempts, NEW b, attempts' = (attempts \ {a}) \union {b},
         b.inst = a.inst, b.nr = a.nr
  PROVE  OpenAttempts' = OpenAttempts
<1>1. \A i \in Instance :
        {c.nr : c \in {d \in attempts' : d.inst = i}} = {c.nr : c \in {d \in attempts : d.inst = i}}
  OBVIOUS
<1>2. QED BY <1>1 DEF OpenAttempts

(* An outcome closes the episode it belongs to, or is an orphan's.         *)
LEMMA OutcomesCloseOrAreOrphans ==
  ASSUME IInv, NEW a \in attempts, OutcomeArrives(a)
  PROVE  E!Next
<1> USE DEF IInv
<1> DEFINE i == a.inst
<1>1. /\ i \in Instance /\ a.stage \in Outcome /\ launched' = launched
      /\ attempts' = attempts \ {a}
      /\ state' = [state EXCEPT ![i] = ApplyOutcome(@, a.id, a.stage)]
  BY DEF OutcomeArrives, TypeOK, Attempt
<1>2. OpenAttempts' = [OpenAttempts EXCEPT ![i] = @ \ {a.nr}]
  <2>1. ASSUME NEW j \in Instance
        PROVE  {c.nr : c \in {d \in attempts' : d.inst = j}} =
                 IF j = i THEN {c.nr : c \in {d \in attempts : d.inst = j}} \ {a.nr}
                 ELSE {c.nr : c \in {d \in attempts : d.inst = j}}
    BY <1>1 DEF AttemptsInOrder
  <2>2. QED BY <1>1, <2>1 DEF OpenAttempts
<1>3. a.nr \in OpenAttempts[i]
  BY <1>1 DEF OpenAttempts
<1>4. CASE state[i].tag = "recovering" /\ state[i].since = a.id
  <2>1. a.nr = launched[i]
    <3>1. PICK c \in attempts : c.inst = i /\ c.nr = launched[i] /\ c.id = a.id
      BY <1>1, <1>4 DEF RecoveringHasItsAttempt, IsCurrent
    <3>2. a.nr \in Nat /\ c.nr \in Nat /\ a.id \in Nat /\ a.nr <= launched[i]
      BY DEF TypeOK, Attempt, AttemptsInOrder
    <3>3. ~ (a.nr < c.nr)
      BY <3>1, <3>2 DEF AttemptsInOrder
    <3>4. QED BY <3>1, <3>2, <3>3
  <2>2. \E p \in {"watching", "givenUp"} : EpisodePhase' = [EpisodePhase EXCEPT ![i] = p]
    <3> DEFINE p == IF a.stage = "succeeded" THEN "watching" ELSE "givenUp"
    <3>1. EpisodePhase' = [EpisodePhase EXCEPT ![i] = p]
      BY <1>1, <1>4 DEF EpisodePhase, ApplyOutcome, TypeOK, Outcome
    <3>2. QED BY <3>1
  <2>3. EpisodePhase[i] = "acting"
    BY <1>1, <1>4 DEF EpisodePhase
  <2>4. E!Close(i)
    BY <1>1, <1>2, <1>3, <2>1, <2>2, <2>3 DEF E!Close
  <2>5. QED BY <1>1, <2>4 DEF E!Next
<1>5. CASE ~ (state[i].tag = "recovering" /\ state[i].since = a.id)
  <2>1. state' = state
    BY <1>1, <1>5 DEF ApplyOutcome, TypeOK
  <2>2. EpisodePhase' = EpisodePhase
    BY <2>1 DEF EpisodePhase
  <2>3. ~ (EpisodePhase[i] = "acting" /\ a.nr = launched[i])
    <3> SUFFICES ASSUME state[i].tag = "recovering", a.nr = launched[i] PROVE FALSE
      BY <1>1 DEF EpisodePhase
    <3>1. PICK c \in attempts : c.inst = i /\ c.nr = launched[i] /\ c.id = state[i].since
      BY <1>1 DEF RecoveringHasItsAttempt, IsCurrent
    <3>2. c = a
      BY <3>1 DEF AttemptsInOrder
    <3>3. QED BY <1>5, <3>1, <3>2
  <2>4. E!Orphan(i)
    BY <1>1, <1>2, <1>3, <2>2, <2>3 DEF E!Orphan
  <2>5. QED BY <1>1, <2>4 DEF E!Next
<1>6. QED BY <1>4, <1>5

(* The runner implements what Episode allows.  (That episodes end is left  *)
(* to the model checker: it rests on fairness.)                            *)
THEOREM TripwireImplementsEpisode == Spec => E!Safety
<1>1. Init => E!Init
  <2> SUFFICES ASSUME Init PROVE E!Init
    OBVIOUS
  <2>1. EpisodePhase = [i \in Instance |-> "watching"]
    BY DEF Init, EpisodePhase, Healthy
  <2>2. OpenAttempts = [i \in Instance |-> {}]
    BY DEF Init, OpenAttempts
  <2>3. QED BY <2>1, <2>2 DEF E!Init, Init
<1>2. IInv /\ [Next]_vars => [E!Next]_(E!vars)
  <2> SUFFICES ASSUME IInv, [Next]_vars PROVE E!Next \/ UNCHANGED E!vars
    OBVIOUS
  <2> USE DEF IInv
  <2>0. ASSUME UNCHANGED <<state, attempts, launched>> PROVE UNCHANGED E!vars
    BY <2>0 DEF E!vars, EpisodePhase, OpenAttempts
  <2>1. ASSUME NEW e \in Entity, NEW n \in Fact, NEW v \in Value, Emit(e, n, v)
        PROVE  E!Next \/ UNCHANGED E!vars
    <3>1. ObserveEntities({e}, facts') \/ UNCHANGED <<state, attempts, launched>>
      BY <2>1 DEF Emit
    <3>2. QED BY <2>0, <3>1, ObservationsAreSweeps
  <2>2. CASE Tick
    BY <2>2, ObservationsAreSweeps DEF Tick
  <2>3. ASSUME NEW a \in attempts, PipelineEnds(a)
        PROVE  UNCHANGED E!vars
    <3>1. PICK stage :
            attempts' = (attempts \ {a}) \union
              {[a EXCEPT !.stage = stage,
                         !.iteration = IF stage = "delay" THEN @ + 1 ELSE @]}
      BY <2>3 DEF PipelineEnds
    <3> DEFINE b == [a EXCEPT !.stage = stage,
                              !.iteration = IF stage = "delay" THEN @ + 1 ELSE @]
    <3>2. b.inst = a.inst /\ b.nr = a.nr
      BY DEF TypeOK, Attempt
    <3>3. attempts' = (attempts \ {a}) \union {b}
      BY <3>1
    <3>4. UNCHANGED <<state, launched>>
      BY <2>3 DEF PipelineEnds
    <3> HIDE DEF b
    <3>5. OpenAttempts' = OpenAttempts
      BY <3>2, <3>3, StageChangeStutters
    <3>6. QED BY <3>4, <3>5 DEF E!vars, EpisodePhase
  <2>4. ASSUME NEW a \in attempts, DelayEnds(a)
        PROVE  UNCHANGED E!vars
    <3> DEFINE b == [a EXCEPT !.stage = "pipeline"]
    <3>1. b.inst = a.inst /\ b.nr = a.nr
      BY DEF TypeOK, Attempt
    <3>2. attempts' = (attempts \ {a}) \union {b} /\ UNCHANGED <<state, launched>>
      BY <2>4 DEF DelayEnds
    <3> HIDE DEF b
    <3>3. OpenAttempts' = OpenAttempts
      BY <3>1, <3>2, StageChangeStutters
    <3>4. QED BY <3>2, <3>3 DEF E!vars, EpisodePhase
  <2>5. ASSUME NEW a \in attempts, OutcomeArrives(a)
        PROVE  E!Next
    BY <2>5, OutcomesCloseOrAreOrphans
  <2>6. ASSUME NEW i \in Instance, Rearm(i)
        PROVE  E!Next
    <3>1. UNCHANGED <<attempts, launched>> /\ state' = [state EXCEPT ![i] = Healthy]
      BY <2>6 DEF Rearm
    <3>2. EpisodePhase' = [EpisodePhase EXCEPT ![i] = "watching"]
      BY <3>1 DEF EpisodePhase, Healthy, TypeOK
    <3>3. OpenAttempts' = OpenAttempts
      BY <3>1 DEF OpenAttempts
    <3>4. E!Rearm(i)
      BY <3>1, <3>2, <3>3 DEF E!Rearm
    <3>5. QED BY <3>4 DEF E!Next
  <2>7. CASE Stop \/ Advance \/ UNCHANGED vars
    BY <2>0, <2>7 DEF Stop, Advance, vars
  <2>8. QED BY <2>1, <2>2, <2>3, <2>4, <2>5, <2>6, <2>7 DEF Next
<1>3. QED BY Invariance, <1>1, <1>2, PTL DEF Spec, E!Safety

=============================================================================
