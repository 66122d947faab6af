------------------------------- MODULE Episode -------------------------------
(***************************************************************************)
(* What a recovery tripwire promises to the rest of the service, with no   *)
(* clock, no facts and no retry policy: an outage is an episode, the       *)
(* episode owns exactly one recovery attempt, and only that attempt (or an *)
(* operator) ends it.                                                      *)
(*                                                                         *)
(* Attempts of one tripwire are numbered in the order they are launched.   *)
(***************************************************************************)
EXTENDS Naturals

CONSTANT Instance   \* the tripwires being watched, one per policy and entity

VARIABLES
  phase,   \* what the tripwire is doing about its predicate
  open,    \* the attempts whose pipeline has not reported yet
  last     \* the number of attempts launched so far

vars == <<phase, open, last>>

Phase == {"watching", "acting", "givenUp"}

Init ==
  /\ phase = [i \in Instance |-> "watching"]
  /\ open = [i \in Instance |-> {}]
  /\ last = [i \in Instance |-> 0]

(* One round of observations: some watching tripwires start an episode,    *)
(* some that had given up see their predicate true again.                  *)
Sweep(fired, healed) ==
  /\ \A i \in fired : phase[i] = "watching"
  /\ \A i \in healed : phase[i] = "givenUp"
  /\ phase' = [i \in Instance |->
                 CASE i \in fired -> "acting"
                   [] i \in healed -> "watching"
                   [] OTHER -> phase[i]]
  /\ last' = [i \in Instance |-> IF i \in fired THEN last[i] + 1 ELSE last[i]]
  /\ open' = [i \in Instance |->
                IF i \in fired THEN open[i] \union {last[i] + 1} ELSE open[i]]

(* The episode's own attempt reports, and its report ends the episode.     *)
Close(i) ==
  /\ phase[i] = "acting"
  /\ last[i] \in open[i]
  /\ open' = [open EXCEPT ![i] = @ \ {last[i]}]
  /\ \E p \in {"watching", "givenUp"} : phase' = [phase EXCEPT ![i] = p]
  /\ UNCHANGED last

(* An attempt whose episode an operator has already ended reports: nobody  *)
(* listens.                                                                *)
Orphan(i) ==
  /\ \E n \in open[i] :
       /\ ~ (phase[i] = "acting" /\ n = last[i])
       /\ open' = [open EXCEPT ![i] = @ \ {n}]
  /\ UNCHANGED <<phase, last>>

(* An operator ends the episode by hand; its attempt goes on.              *)
Rearm(i) ==
  /\ phase' = [phase EXCEPT ![i] = "watching"]
  /\ UNCHANGED <<open, last>>

Next ==
  \/ \E fired, healed \in SUBSET Instance : Sweep(fired, healed)
  \/ \E i \in Instance : Close(i) \/ Orphan(i) \/ Rearm(i)

Safety == Init /\ [][Next]_vars

(* An episode does not go on for ever.                                     *)
Spec == Safety /\ \A i \in Instance : WF_vars(Close(i))

=============================================================================
