------------------------------ MODULE TaskRunner ------------------------------
(***************************************************************************)
(* The engine of every background loop: it runs onTick, asks the retry     *)
(* policy for the delay, sleeps, and starts again until the policy ends or *)
(* somebody stops it.  An observable state machine follows the loop        *)
(* without ever driving it, and each of its transitions is published to    *)
(* the loop feed under the descriptor's id.                                *)
(*                                                                         *)
(* A descriptor outlives its loops: each activation of the service creates *)
(* a new handle for it, and a tick the old handle had in flight when it    *)
(* was stopped still ends, next to the new handle's ticks.  The module is  *)
(* about one descriptor and the handles created for it, one after another. *)
(***************************************************************************)
EXTENDS Integers

CONSTANTS
  Handle,     \* the handles created for the descriptor
  Infinite,   \* the limit of a policy that never ends
  Limits,     \* the limits of the policies considered
  MaxTicks    \* bound: the ticks a handle starts

(* Every policy the codec builds ends when the iteration reaches a limit   *)
(* (limitRetries, concat) or never (constantDelay, exponentialBackoff).    *)
ASSUME LimitsAssumption ==
  /\ Infinite \notin Nat
  /\ Limits \subseteq Nat \union {Infinite}
  /\ MaxTicks \in Nat

VARIABLES
  limit,      \* the policy of the descriptor
  control,    \* where the loop of each handle is
  retries,    \* retryStatus.iteration: the delays the policy has granted
  aborted,    \* the handle's AbortController
  loop,       \* the observable state of each handle
  board,      \* the loop feed's entry for the descriptor
  ticks       \* the ticks each handle has started (history)

vars == <<limit, control, retries, aborted, loop, board, ticks>>

-----------------------------------------------------------------------------
(* The observable state machine.                                           *)

Tag == {"Idle", "Ticking", "Waiting", "Failing", "Exhausted", "Stopped"}
LoopState == [tag : Tag, iteration : Nat]

(* Definitions named Defect_... are wrong on purpose: each is the operator  *)
(* that follows with one plausible mistake, and some property must reject  *)
(* it.  Here: no iteration yet is iteration -1.                            *)
Defect_IdleBeforeZero == [tag |-> "Idle", iteration |-> -1]

Idle == [tag |-> "Idle", iteration |-> 0]

StatusOf(s) ==
  CASE s.tag \in {"Ticking", "Waiting"} -> "running"
    [] s.tag = "Failing"                -> "error"
    [] s.tag = "Idle"                   -> "idle"
    [] s.tag = "Exhausted"              -> "exhausted"
    [] s.tag = "Stopped"                -> "stopped"

Status == {"running", "error", "idle", "exhausted", "stopped"}

(* What the feed shows of a state.                                         *)
Project(s) == [status |-> StatusOf(s), iteration |-> s.iteration]
Nothing == [status |-> "none", iteration |-> 0]

TickStarted(s) == [s EXCEPT !.tag = "Ticking"]

(* Defects: an outcome that arrives after the stop is not ignored; a tick  *)
(* that failed does not count.                                             *)
Defect_LateOutcomeCounts(s, failed, continues) ==
  IF continues
    THEN [tag |-> IF failed THEN "Failing" ELSE "Waiting", iteration |-> s.iteration + 1]
    ELSE [s EXCEPT !.tag = "Exhausted"]

Defect_FailureDoesNotCount(s, failed, continues) ==
  CASE s.tag # "Ticking" -> s
    [] s.tag = "Ticking" /\ continues ->
         [tag |-> IF failed THEN "Failing" ELSE "Waiting",
          iteration |-> IF failed THEN s.iteration ELSE s.iteration + 1]
    [] OTHER -> [s EXCEPT !.tag = "Exhausted"]

(* TickSucceeded and TickFailed: they count only while ticking.            *)
TickEnded(s, failed, continues) ==
  CASE s.tag # "Ticking" -> s
    [] s.tag = "Ticking" /\ continues ->
         [tag |-> IF failed THEN "Failing" ELSE "Waiting", iteration |-> s.iteration + 1]
    [] OTHER -> [s EXCEPT !.tag = "Exhausted"]

StopRequested(s) == [s EXCEPT !.tag = "Stopped"]

-----------------------------------------------------------------------------
(* Defect: the feed takes `stopped` for the last word on a descriptor.     *)
Defect_StoppedEntryIsFinal(h, next) ==
  /\ loop' = [loop EXCEPT ![h] = next]
  /\ board' = IF board.status = "stopped" THEN board ELSE Project(next)

(* applyEvent: the transition, published whether or not it changed a thing. *)
ApplyEvent(h, next) ==
  /\ loop' = [loop EXCEPT ![h] = next]
  /\ board' = Project(next)

(* Defect: the policy is asked one time too many.                          *)
Defect_ContinuesOnceMore(n) == limit = Infinite \/ n <= limit

(* The policy grants another delay after n delays.                         *)
Continues(n) == limit = Infinite \/ n < limit

(* A handle that was started and nobody has stopped.                       *)
Live(h) == control[h] # "ready" /\ ~ aborted[h]

-----------------------------------------------------------------------------
Init ==
  /\ limit \in Limits
  /\ control = [h \in Handle |-> "ready"]
  /\ retries = [h \in Handle |-> 0]
  /\ aborted = [h \in Handle |-> FALSE]
  /\ loop = [h \in Handle |-> Idle]
  /\ board = Nothing
  /\ ticks = [h \in Handle |-> 0]

(* The top of the loop: a tick begins.                                     *)
BeginTick(h) ==
  /\ control' = [control EXCEPT ![h] = "ticking"]
  /\ ticks' = [ticks EXCEPT ![h] = @ + 1]
  /\ ApplyEvent(h, TickStarted(loop[h]))
  /\ UNCHANGED <<limit, retries, aborted>>

(* A lifecycle starts its loops after the previous one has stopped its     *)
(* own.                                                                    *)
Start(h) ==
  /\ control[h] = "ready"
  /\ \A g \in Handle : ~ Live(g)
  /\ ticks[h] < MaxTicks
  /\ BeginTick(h)

(* Defect: a tick that throws ends the loop with no event.                 *)
Defect_ThrowKillsLoop(h) ==
  /\ control[h] = "ticking"
  /\ \/ /\ control' = [control EXCEPT ![h] = "over"]
        /\ UNCHANGED <<retries, loop, board>>
     \/ /\ ApplyEvent(h, TickEnded(loop[h], FALSE, Continues(retries[h])))
        /\ control' = [control EXCEPT ![h] = IF Continues(retries[h]) THEN "sleeping" ELSE "over"]
        /\ retries' = [retries EXCEPT ![h] = IF Continues(@) THEN @ + 1 ELSE @]
  /\ UNCHANGED <<limit, aborted, ticks>>

(* onTick settles: a value, a Left or a throw, which counts as a Left.     *)
(* The policy decides whether the loop goes on; a sleep that finds the     *)
(* controller aborted resolves at once, and the loop is over.              *)
TickEnds(h) ==
  /\ control[h] = "ticking"
  /\ \E failed \in BOOLEAN :
       ApplyEvent(h, TickEnded(loop[h], failed, Continues(retries[h])))
  /\ control' = [control EXCEPT ![h] =
                   IF Continues(retries[h]) /\ ~ aborted[h] THEN "sleeping" ELSE "over"]
  /\ retries' = [retries EXCEPT ![h] = IF Continues(@) THEN @ + 1 ELSE @]
  /\ UNCHANGED <<limit, aborted, ticks>>

(* The delay has passed and nobody has stopped the loop meanwhile.         *)
Wakes(h) ==
  /\ control[h] = "sleeping"
  /\ ticks[h] < MaxTicks
  /\ BeginTick(h)

(* Defect: the sleep is not abortable, the loop ticks once more.           *)
Defect_StopDoesNotWake(h) ==
  /\ Live(h)
  /\ ApplyEvent(h, StopRequested(loop[h]))
  /\ aborted' = [aborted EXCEPT ![h] = TRUE]
  /\ UNCHANGED <<limit, control, retries, ticks>>

(* stop: the event, then the abort, which ends a sleep at once.  A tick in *)
(* flight is not interrupted.                                              *)
Stop(h) ==
  /\ Live(h)
  /\ ApplyEvent(h, StopRequested(loop[h]))
  /\ aborted' = [aborted EXCEPT ![h] = TRUE]
  /\ control' = [control EXCEPT ![h] = IF @ = "sleeping" THEN "over" ELSE @]
  /\ UNCHANGED <<limit, retries, ticks>>

Next ==
  \/ \E h \in Handle : Start(h)
  \/ \E h \in Handle : TickEnds(h)
  \/ \E h \in Handle : Wakes(h)
  \/ \E h \in Handle : Stop(h)

Spec == Init /\ [][Next]_vars

(* A tick settles (the commands it runs have timeouts, and so do the HTTP  *)
(* requests) and a timer fires.  Nothing makes a lifecycle start or stop.  *)
Fairness == \A h \in Handle : WF_vars(TickEnds(h)) /\ WF_vars(Wakes(h))

FairSpec == Spec /\ Fairness

-----------------------------------------------------------------------------
(* Correctness.                                                            *)

(* The type invariant: every variable keeps the shape its code gives it.   *)
TypeOK ==
  /\ limit \in Nat \union {Infinite}
  /\ control \in [Handle -> {"ready", "ticking", "sleeping", "over"}]
  /\ retries \in [Handle -> Nat]
  /\ aborted \in [Handle -> BOOLEAN]
  /\ loop \in [Handle -> LoopState]
  /\ board \in [status : Status \union {"none"}, iteration : Nat]
  /\ ticks \in [Handle -> Nat]

(* The state machine only watches the loop ("it never drives the control   *)
(* flow"), so nothing forces the two to agree: until it is stopped, a      *)
(* loop's state says exactly where the loop is and which iteration its     *)
(* policy has reached.                                                     *)
StateIsTruthful ==
  \A h \in Handle :
    IF aborted[h]
      THEN loop[h].tag = "Stopped"
      ELSE /\ loop[h].iteration = retries[h]
           /\ loop[h].tag \in CASE control[h] = "ready"    -> {"Idle"}
                                [] control[h] = "ticking"  -> {"Ticking"}
                                [] control[h] = "sleeping" -> {"Waiting", "Failing"}
                                [] control[h] = "over"     -> {"Exhausted"}

(* A policy limited to n retries runs n + 1 ticks and no more, failed ones *)
(* included, and a loop that ends by itself has run them all ("iterations  *)
(* 0, 1, 2 all tick").                                                     *)
TicksWithinPolicy ==
  \A h \in Handle :
    /\ limit # Infinite => ticks[h] <= limit + 1
    /\ control[h] = "over" /\ ~ aborted[h] => limit # Infinite /\ ticks[h] = limit + 1

(* The dashboard never shows as alive a loop nobody runs: once every       *)
(* handle has been stopped the feed says "stopped", whatever a tick left   *)
(* in flight reports later.                                                *)
BoardShowsNoDeadLoop ==
  (\A h \in Handle : ~ Live(h)) => board.status \in {"none", "stopped"}

(* A stopped loop starts no tick and never leaves `Stopped`: an outcome    *)
(* that races with the stop does not revive it.                            *)
StoppedForGood ==
  [][\A h \in Handle : aborted[h] => ticks'[h] = ticks[h] /\ loop'[h] = loop[h]]_vars

(* No outcome of a tick, a throw included, ends a loop whose policy goes   *)
(* on: it ticks again unless somebody stops it.                            *)
KeepsTicking ==
  \A h \in Handle, n \in 1 .. MaxTicks - 1 :
    (limit = Infinite /\ ticks[h] = n) ~> (ticks[h] > n \/ aborted[h])

(* The late outcome of a stopped handle is published over the state of     *)
(* the handle that replaced it; the new loop takes its entry back.         *)
BoardCatchesUp ==
  \A h \in Handle :
    (Live(h) /\ control[h] # "over" /\ ticks[h] < MaxTicks)
      ~> (~ Live(h) \/ control[h] = "over" \/ board = Project(loop[h]))

=============================================================================
