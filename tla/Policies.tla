------------------------------ MODULE Policies ------------------------------
(***************************************************************************)
(* Retry policies: what a list of steps of the configuration decodes to,   *)
(* how long each retry waits, and what the three retrying loops do with    *)
(* it.  A policy is a function from the iteration to a delay in            *)
(* milliseconds, or to None when no retry is left; here its domain is      *)
(* 0..Horizon.                                                             *)
(***************************************************************************)
EXTENDS Integers, Sequences, FiniteSetsExt

CONSTANTS
  None,         \* no retry left
  Left,         \* the answer of a decoder that refuses
  Horizon,      \* bound: iterations looked at
  MaxTimer      \* longest delay a timer takes (2^31 - 1 ms in Node)

Iteration == 0..Horizon

(* None and Left are neither delays nor policies.                          *)
PolicyAssumption ==
  /\ Horizon \in Nat /\ MaxTimer \in Nat /\ None # Left /\ None \notin Nat
  /\ {None, Left} \intersect [Iteration -> Nat \union {None}] = {}

Larger(a, b) == IF a < b THEN b ELSE a
Smaller(a, b) == IF a < b THEN a ELSE b

(* Primitives and combinators. *)
ConstantDelay(delay) == [i \in Iteration |-> delay]
LimitRetries(count) == [i \in Iteration |-> IF i >= count THEN None ELSE 0]
PowerOfTwo[i \in Iteration] == IF i = 0 THEN 1 ELSE 2 * PowerOfTwo[i - 1]
ExponentialBackoff(delay) == [i \in Iteration |-> delay * PowerOfTwo[i]]

CapDelay(max, policy) ==
  [i \in Iteration |-> IF policy[i] = None THEN None ELSE Smaller(max, policy[i])]

Defect_ConcatWaitsLess(second, first) ==
  [i \in Iteration |-> IF None \in {first[i], second[i]} THEN None ELSE Smaller(first[i], second[i])]

Concat(second, first) ==
  [i \in Iteration |-> IF None \in {first[i], second[i]} THEN None ELSE Larger(first[i], second[i])]

-----------------------------------------------------------------------------
(* A step is <<name>> or <<name, argument>>, as the configuration has it and *)
(* as the form builds it; durations are in milliseconds.                     *)

PolicyStepSchema == {"constantDelay", "limitRetries", "exponentialBackoff", "capDelay"}
Primitives == PolicyStepSchema \ {"capDelay"}
Modifiers == {"capDelay"}

Primitive(step) ==
  CASE step[1] = "constantDelay" -> ConstantDelay(step[2])
    [] step[1] = "limitRetries" -> LimitRetries(step[2])
    [] step[1] = "exponentialBackoff" -> ExponentialBackoff(step[2])

\* A modifier changes what the steps before it give, a primitive is added to it.
DecodeStep(acc, step) ==
  CASE acc = Left -> Left
    [] acc # Left /\ step[1] \in Modifiers ->
         IF acc = None \/ Len(step) = 1 THEN Left ELSE CapDelay(step[2], acc)
    [] acc # Left /\ step[1] \in Primitives ->
         IF acc = None THEN Primitive(step) ELSE Concat(Primitive(step), acc)
    [] OTHER -> Left

DecodePolicy(json) ==
  LET after[n \in 0..Len(json)] == IF n = 0 THEN None ELSE DecodeStep(after[n - 1], json[n])
  IN IF json = <<>> THEN Left ELSE after[Len(json)]

\* The form: a new step, or one whose kind is changed, has zero for argument.
StepFor(name) == <<name, 0>>
FormSteps(args) == {<<name, a>> : name \in PolicyStepSchema, a \in {0} \union args}

-----------------------------------------------------------------------------
(* The retrying loops.  An attempt gives "yes" (the answer that is wanted),  *)
(* "no" (another one) or "left" (an error); each loop has its own idea of    *)
(* what is tried again.                                                      *)

Retries(loop, outcome) == IF loop = "retrying" THEN outcome = "left" ELSE outcome = "no"

Defect_ExhaustsLate(loop, policy, outcomes) ==
  LET last == Min({i \in Iteration : \/ ~Retries(loop, outcomes[i])
                                     \/ (i > 0 /\ policy[i - 1] = None) \/ i = Horizon})
  IN [attempts |-> last + 1, answer |-> outcomes[last]]

\* The attempts a loop makes and the answer it ends with: it ends with the
\* first one that is not tried again or leaves the policy exhausted.  (The
\* horizon stands for going on.)
Run(loop, policy, outcomes) ==
  LET last == Min({i \in Iteration : \/ ~Retries(loop, outcomes[i])
                                     \/ policy[i] = None \/ i = Horizon})
  IN [attempts |-> last + 1, answer |-> outcomes[last]]

\* What a timer does with a delay: one it cannot hold fires after 1 ms.
Slept(delay) == IF delay > MaxTimer THEN 1 ELSE delay

-----------------------------------------------------------------------------
(* Properties, of a list of steps and of the outcomes of the attempts. *)

Named(json, names) == {i \in DOMAIN json : json[i][1] \in names}
Counts(json) == {json[i][2] : i \in Named(json, {"limitRetries"})}

\* What the delay of one primitive still is after the caps that follow it.
OwnDelay(step, i) ==
  IF step[1] = "limitRetries" THEN 0
  ELSE step[2] * (IF step[1] = "exponentialBackoff" THEN PowerOfTwo[i] ELSE 1)
Caps(json, k) == {json[j][2] : j \in {j \in Named(json, Modifiers) : j > k}}
Capped(json, k, i) == Min({OwnDelay(json[k], i)} \union Caps(json, k))

\* A policy stops at its smallest limit, and waits as long as its slowest
\* primitive, each under the caps written after it; what does not decode is
\* exactly the empty list, a cap with nothing before it, a cap without an
\* argument and an unknown name.  A step's place matters to caps alone.
Undecodable(json) ==
  \/ json = <<>> \/ (json # <<>> /\ json[1][1] \in Modifiers)
  \/ \E i \in DOMAIN json : \/ json[i][1] \notin PolicyStepSchema
                            \/ json[i][1] \in Modifiers /\ Len(json[i]) = 1
PolicyMeansItsSteps(json) ==
  IF Undecodable(json) THEN DecodePolicy(json) = Left
  ELSE \A i \in Iteration :
         DecodePolicy(json)[i] =
           IF \E n \in Counts(json) : i >= n THEN None
           ELSE Max({Capped(json, k, i) : k \in Named(json, Primitives)})

\* A loop whose attempts all fail makes one attempt more than its smallest
\* limit; an attempt the loop does not try again ends it at once, whatever the
\* policy says; it never goes on after a success.
LoopsRespectThePolicy(json, outcomes) ==
  LET policy == DecodePolicy(json) IN
  policy # Left => \A loop \in {"retrying", "retryingWhile", "retryingUntil"} :
    LET ran == Run(loop, policy, outcomes) IN
    /\ \A n \in Counts(json) : ran.attempts <= n + 1
    /\ \A i \in 0..(ran.attempts - 2) : Retries(loop, outcomes[i])
    /\ ran.answer # "yes" => \/ ~Retries(loop, ran.answer) \/ ran.attempts = Horizon + 1
                             \/ ran.attempts - 1 \in Counts(json)

\* A delay is what a timer then sleeps, if a cap that a timer can hold follows
\* the last backoff.  (Without one, a backoff outgrows the timer, and the loop
\* that was to slow down spins instead.)
CappedPoliciesSlowDown(json) ==
  LET policy == DecodePolicy(json) IN
  ( /\ policy # Left
    /\ \A k \in Named(json, Primitives) :
         \/ json[k][1] # "exponentialBackoff" /\ json[k][2] <= MaxTimer
         \/ \E j \in Named(json, Modifiers) : j > k /\ json[j][2] <= MaxTimer ) =>
  \A i \in Iteration : policy[i] # None => Slept(policy[i]) = policy[i]
=============================================================================
