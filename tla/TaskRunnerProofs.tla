--------------------------- MODULE TaskRunnerProofs ---------------------------
(***************************************************************************)
(* What TLC checks of TaskRunner on three handles, proved for any number   *)
(* of handles and any limit of the retry policy.                           *)
(***************************************************************************)
EXTENDS TaskRunner, TLAPS

(* Where a handle's loop is, what its state says and how many ticks it has *)
(* started go together.                                                    *)
HandleInv(h) ==
  /\ control[h] = "ready" =>
       ~ aborted[h] /\ ticks[h] = 0 /\ retries[h] = 0 /\ loop[h] = Idle
  /\ control[h] = "ticking" =>
       /\ ticks[h] = retries[h] + 1
       /\ ~ aborted[h] => loop[h].tag = "Ticking"
  /\ control[h] = "sleeping" =>
       ~ aborted[h] /\ ticks[h] = retries[h] /\ loop[h].tag \in {"Waiting", "Failing"}
  /\ control[h] = "over" /\ ~ aborted[h] =>
       loop[h].tag = "Exhausted" /\ ticks[h] = retries[h] + 1 /\ ~ Continues(retries[h])
  /\ IF aborted[h] THEN loop[h].tag = "Stopped" ELSE loop[h].iteration = retries[h]
  /\ limit # Infinite => retries[h] <= limit
  /\ ticks[h] <= retries[h] + 1

(* An entry that says anything but "stopped" is the state of a handle      *)
(* nobody has stopped.                                                     *)
BoardInv ==
  board.status \notin {"none", "stopped"} =>
    \E h \in Handle : Live(h)

IInv ==
  /\ TypeOK
  /\ \A h \in Handle : HandleInv(h)
  /\ BoardInv

-----------------------------------------------------------------------------
(* The projection of a state is an entry of the feed, and it says          *)
(* "stopped" exactly of a stopped loop.                                    *)
LEMMA ProjectType ==
  ASSUME NEW s \in LoopState
  PROVE  /\ Project(s) \in [status : Status, iteration : Nat]
         /\ s.tag = "Stopped" => Project(s).status = "stopped"
  BY DEF LoopState, Tag, Project, StatusOf, Status

(* The events map states of the machine to states of the machine.          *)
LEMMA EventTypes ==
  ASSUME NEW s \in LoopState, NEW failed \in BOOLEAN, NEW continues \in BOOLEAN
  PROVE  /\ TickStarted(s) \in LoopState
         /\ TickEnded(s, failed, continues) \in LoopState
         /\ StopRequested(s) \in LoopState
  BY DEF LoopState, Tag, TickStarted, TickEnded, StopRequested

(* Whether a policy goes on is a Boolean.                                  *)
LEMMA ContinuesBoolean == \A n : Continues(n) \in BOOLEAN
  BY DEF Continues

(* The invariant holds before any handle is started.                       *)
LEMMA InitInv == Init => IInv
<1> SUFFICES ASSUME Init PROVE IInv
  OBVIOUS
<1>1. TypeOK
  BY LimitsAssumption DEF Init, TypeOK, LoopState, Tag, Idle, Nothing
<1>2. ASSUME NEW h \in Handle PROVE HandleInv(h)
  BY LimitsAssumption DEF Init, HandleInv, Idle
<1>3. BoardInv
  BY DEF Init, BoardInv, Nothing
<1>4. QED BY <1>1, <1>2, <1>3 DEF IInv

(* A tick that begins, of a handle that is ready or has slept.             *)
LEMMA BeginTickInv ==
  ASSUME IInv, NEW h \in Handle, BeginTick(h), control[h] \in {"ready", "sleeping"}
  PROVE  IInv'
<1>1. ~ aborted[h] /\ HandleInv(h)
  BY DEF IInv, HandleInv
<1>2. loop[h] \in LoopState
  BY DEF IInv, TypeOK
<1>3. TypeOK'
  BY <1>2, EventTypes, ProjectType DEF BeginTick, ApplyEvent, IInv, TypeOK
<1>4. ASSUME NEW g \in Handle PROVE HandleInv(g)'
  <2>1. CASE g = h
    BY <2>1, <1>1, <1>2 DEF BeginTick, ApplyEvent, TickStarted, HandleInv, IInv, TypeOK,
                           LoopState, Idle
  <2>2. CASE g # h
    BY <2>2 DEF BeginTick, ApplyEvent, HandleInv, IInv, TypeOK, Continues
  <2>3. QED BY <2>1, <2>2
<1>5. BoardInv'
  BY <1>1 DEF BeginTick, BoardInv, Live, IInv, TypeOK
<1>6. QED BY <1>3, <1>4, <1>5 DEF IInv

(* A tick that ends.                                                       *)
LEMMA TickEndsInv ==
  ASSUME IInv, NEW h \in Handle, TickEnds(h)
  PROVE  IInv'
<1>1. PICK failed \in BOOLEAN :
        ApplyEvent(h, TickEnded(loop[h], failed, Continues(retries[h])))
  BY DEF TickEnds
<1> DEFINE next == TickEnded(loop[h], failed, Continues(retries[h]))
<1>2. loop[h] \in LoopState /\ next \in LoopState
  BY EventTypes, ContinuesBoolean DEF IInv, TypeOK
<1>3. HandleInv(h) /\ control[h] = "ticking"
  BY DEF IInv, TickEnds
<1>4. TypeOK'
  <2>1. Project(next) \in [status : Status, iteration : Nat]
    BY <1>2, ProjectType
  <2>2. loop' \in [Handle -> LoopState]
        /\ board' \in [status : Status \union {"none"}, iteration : Nat]
    BY <1>1, <1>2, <2>1 DEF ApplyEvent, IInv, TypeOK
  <2>3. control' \in [Handle -> {"ready", "ticking", "sleeping", "over"}]
    BY DEF TickEnds, IInv, TypeOK
  <2>4. retries' \in [Handle -> Nat]
    BY DEF TickEnds, IInv, TypeOK
  <2>5. QED BY <2>2, <2>3, <2>4 DEF TickEnds, IInv, TypeOK
<1>5. ASSUME NEW g \in Handle PROVE HandleInv(g)'
  <2>1. CASE g # h
    BY <2>1, <1>1 DEF TickEnds, ApplyEvent, HandleInv, IInv, TypeOK, Continues
  <2>2. CASE g = h
    <3>1. loop'[h] = next /\ aborted' = aborted /\ ticks' = ticks /\ limit' = limit
      BY <1>1 DEF TickEnds, ApplyEvent, IInv, TypeOK
    <3>2. CASE Continues(retries[h])
      <4>1. retries'[h] = retries[h] + 1
            /\ control'[h] = IF aborted[h] THEN "over" ELSE "sleeping"
        BY <3>2 DEF TickEnds, IInv, TypeOK
      <4>2. limit # Infinite => retries[h] < limit
        BY <3>2 DEF Continues
      <4>3. /\ aborted[h] => next = loop[h]
            /\ ~ aborted[h] => next.tag \in {"Waiting", "Failing"}
                               /\ next.iteration = loop[h].iteration + 1
        BY <1>3, <3>2, <1>2 DEF HandleInv, TickEnded, LoopState
      <4>4. QED BY <2>2, <1>3, <3>1, <4>1, <4>2, <4>3, <1>2 DEF HandleInv, IInv, TypeOK, LoopState
    <3>3. CASE ~ Continues(retries[h])
      <4>1. retries'[h] = retries[h] /\ control'[h] = "over"
        BY <3>3 DEF TickEnds, IInv, TypeOK
      <4>2. /\ aborted[h] => next = loop[h]
            /\ ~ aborted[h] => next.tag = "Exhausted" /\ next.iteration = loop[h].iteration
        BY <1>3, <3>3, <1>2 DEF HandleInv, TickEnded, LoopState
      <4>3. ~ Continues(retries[h])'
        BY <4>1, <3>1, <3>3 DEF Continues
      <4>4. QED BY <2>2, <1>3, <3>1, <4>1, <4>2, <4>3, <1>2 DEF HandleInv, IInv, TypeOK, LoopState
    <3>4. QED BY <3>2, <3>3
  <2>3. QED BY <2>1, <2>2
<1>6. BoardInv'
  <2>1. CASE aborted[h]
    <3>1. next = loop[h] /\ loop[h].tag = "Stopped"
      BY <2>1, <1>3 DEF HandleInv, TickEnded
    <3>2. board'.status = "stopped"
      BY <3>1, <1>1, <1>2, ProjectType DEF ApplyEvent
    <3>3. QED BY <3>2 DEF BoardInv
  <2>2. CASE ~ aborted[h]
    BY <2>2 DEF TickEnds, BoardInv, Live, IInv, TypeOK
  <2>3. QED BY <2>1, <2>2
<1>7. QED BY <1>4, <1>5, <1>6 DEF IInv

(* A loop that is stopped.                                                 *)
LEMMA StopInv ==
  ASSUME IInv, NEW h \in Handle, Stop(h)
  PROVE  IInv'
<1>1. loop[h] \in LoopState /\ StopRequested(loop[h]) \in LoopState
  BY EventTypes DEF IInv, TypeOK
<1>2. HandleInv(h)
  BY DEF IInv
<1>3. TypeOK'
  BY <1>1, ProjectType DEF Stop, ApplyEvent, IInv, TypeOK
<1>4. ASSUME NEW g \in Handle PROVE HandleInv(g)'
  <2>1. CASE g = h
    BY <2>1, <1>1, <1>2 DEF Stop, Live, ApplyEvent, StopRequested, HandleInv, IInv, TypeOK, LoopState
  <2>2. CASE g # h
    BY <2>2 DEF Stop, ApplyEvent, HandleInv, IInv, TypeOK, Continues
  <2>3. QED BY <2>1, <2>2
<1>5. BoardInv'
  <2>1. StopRequested(loop[h]).tag = "Stopped"
    BY <1>1 DEF StopRequested, LoopState
  <2>2. board'.status = "stopped"
    BY <2>1, <1>1, ProjectType DEF Stop, ApplyEvent
  <2>3. QED BY <2>2 DEF BoardInv
<1>6. QED BY <1>3, <1>4, <1>5 DEF IInv

(* Every step of the loops keeps the invariant.                            *)
LEMMA NextInv == IInv /\ [Next]_vars => IInv'
<1> SUFFICES ASSUME IInv, [Next]_vars PROVE IInv'
  OBVIOUS
<1>1. ASSUME NEW h \in Handle, Start(h) PROVE IInv'
  BY <1>1, BeginTickInv DEF Start
<1>2. ASSUME NEW h \in Handle, TickEnds(h) PROVE IInv'
  BY <1>2, TickEndsInv
<1>3. ASSUME NEW h \in Handle, Wakes(h) PROVE IInv'
  BY <1>3, BeginTickInv DEF Wakes
<1>4. ASSUME NEW h \in Handle, Stop(h) PROVE IInv'
  BY <1>4, StopInv
<1>5. CASE UNCHANGED vars
  BY <1>5 DEF vars, IInv, TypeOK, HandleInv, BoardInv, Continues, Live
<1>6. QED BY <1>1, <1>2, <1>3, <1>4, <1>5 DEF Next

-----------------------------------------------------------------------------
(* The inductive invariant holds of every state of every behaviour.        *)
THEOREM LoopInvariance == Spec => []IInv
  BY InitInv, NextInv, PTL DEF Spec

(* Every variable keeps its type.                                          *)
THEOREM LoopTypeCorrect == Spec => []TypeOK
<1>1. IInv => TypeOK
  BY DEF IInv
<1>2. QED BY <1>1, LoopInvariance, PTL

(* The observable state and the loop it watches never disagree.            *)
THEOREM LoopStateIsTruthful == Spec => []StateIsTruthful
<1>1. IInv => StateIsTruthful
  <2> SUFFICES ASSUME IInv, NEW h \in Handle
               PROVE  IF aborted[h]
                        THEN loop[h].tag = "Stopped"
                        ELSE /\ loop[h].iteration = retries[h]
                             /\ loop[h].tag \in CASE control[h] = "ready"    -> {"Idle"}
                                                  [] control[h] = "ticking"  -> {"Ticking"}
                                                  [] control[h] = "sleeping" -> {"Waiting", "Failing"}
                                                  [] control[h] = "over"     -> {"Exhausted"}
    BY DEF StateIsTruthful
  <2>1. HandleInv(h) /\ control[h] \in {"ready", "ticking", "sleeping", "over"}
    BY DEF IInv, TypeOK
  <2>2. QED BY <2>1 DEF HandleInv, Idle
<1>2. QED BY <1>1, LoopInvariance, PTL

(* A limit of n retries is n + 1 ticks, no more, and no fewer unless the   *)
(* loop is stopped.                                                        *)
THEOREM LoopTicksWithinPolicy == Spec => []TicksWithinPolicy
<1>1. IInv => TicksWithinPolicy
  <2> SUFFICES ASSUME IInv, NEW h \in Handle
               PROVE  /\ limit # Infinite => ticks[h] <= limit + 1
                      /\ control[h] = "over" /\ ~ aborted[h] =>
                           limit # Infinite /\ ticks[h] = limit + 1
    BY DEF TicksWithinPolicy
  <2>1. /\ retries[h] \in Nat /\ ticks[h] \in Nat
        /\ limit # Infinite => limit \in Nat /\ retries[h] <= limit
        /\ ticks[h] <= retries[h] + 1
    BY DEF IInv, TypeOK, HandleInv
  <2>2. control[h] = "over" /\ ~ aborted[h] =>
          limit # Infinite /\ ~ (retries[h] < limit) /\ ticks[h] = retries[h] + 1
    BY DEF IInv, HandleInv, Continues
  <2>3. QED BY <2>1, <2>2
<1>2. QED BY <1>1, LoopInvariance, PTL

(* Once every handle is stopped the feed says so, and goes on saying so.   *)
THEOREM LoopBoardShowsNoDeadLoop == Spec => []BoardShowsNoDeadLoop
<1>1. IInv => BoardShowsNoDeadLoop
  BY DEF IInv, BoardInv, BoardShowsNoDeadLoop
<1>2. QED BY <1>1, LoopInvariance, PTL

(* Stopping a loop is final: it starts no tick and its state stays.        *)
THEOREM LoopStoppedForGood == Spec => StoppedForGood
<1>1. IInv /\ [Next]_vars =>
        [\A h \in Handle : aborted[h] => ticks'[h] = ticks[h] /\ loop'[h] = loop[h]]_vars
  <2> SUFFICES ASSUME IInv, Next, NEW g \in Handle, aborted[g]
               PROVE  ticks'[g] = ticks[g] /\ loop'[g] = loop[g]
    OBVIOUS
  <2>1. HandleInv(g) /\ loop[g].tag = "Stopped" /\ control[g] \in {"ticking", "over"}
    BY DEF IInv, TypeOK, HandleInv
  <2>2. ASSUME NEW h \in Handle, BeginTick(h), control[h] \in {"ready", "sleeping"}
        PROVE  ticks'[g] = ticks[g] /\ loop'[g] = loop[g]
    BY <2>1, <2>2 DEF BeginTick, ApplyEvent, IInv, TypeOK
  <2>3. ASSUME NEW h \in Handle, TickEnds(h)
        PROVE  ticks'[g] = ticks[g] /\ loop'[g] = loop[g]
    <3>1. TickEnded(loop[g], TRUE, Continues(retries[g])) = loop[g]
          /\ TickEnded(loop[g], FALSE, Continues(retries[g])) = loop[g]
      BY <2>1 DEF TickEnded
    <3>2. QED BY <2>3, <3>1 DEF TickEnds, ApplyEvent, IInv, TypeOK
  <2>4. ASSUME NEW h \in Handle, Stop(h)
        PROVE  ticks'[g] = ticks[g] /\ loop'[g] = loop[g]
    BY <2>4 DEF Stop, Live, ApplyEvent, IInv, TypeOK
  <2>5. QED BY <2>2, <2>3, <2>4 DEF Next, Start, Wakes
<1>2. QED BY <1>1, LoopInvariance, PTL DEF Spec, StoppedForGood

=============================================================================
