----------------------------- MODULE AndroidBridge -----------------------------
(***************************************************************************)
(* The orchestrator of the camera connections: one state machine for each  *)
(* controlled camera and one promise chain (a queue) that serializes the   *)
(* events dispatched to it.  Two inputs drive the machines, the periodic   *)
(* reconcile and the subscription to the list of ADB devices; recovery and *)
(* manual workflows add an event when a command times out or a reboot is   *)
(* dispatched.                                                             *)
(*                                                                         *)
(* A machine's effects (an `adb connect` with its retries, an `adb         *)
(* disconnect`) take seconds or minutes, and the state the rest of the     *)
(* service reads changes only when they end.                               *)
(***************************************************************************)
EXTENDS Integers, Sequences, SequencesExt

CONSTANTS
  Camera,        \* the cameras of the lab
  Host,          \* the addresses a camera may have; no two cameras share one
  MaxEdits,      \* bound: the edits of the registry
  MaxCommands,   \* bound: the timeouts and reboots reported to the bridge
  MaxFaults      \* bound: the power cuts, the moves and the transports ADB drops

ASSUME BoundsAssumption ==
  MaxEdits \in Nat /\ MaxCommands \in Nat /\ MaxFaults \in Nat

VARIABLES
  registry,   \* what the registry file says of each camera, and its address
  reach,      \* the cameras that are powered and on the network
  at,         \* the address each camera has there
  link,       \* the endpoints the ADB server has a working transport to
  poll,       \* the `adb devices` call of the tracker
  listed,     \* the ADB device stream's latest list
  states,     \* the orchestrator's map: the state of each tracked camera
  dials,      \* and the host in that state
  chains,     \* the promise chains of each camera, the current one last
  recon,      \* the reconcile tick
  rebooted,   \* cameras rebooted since their last connection began (history)
  detached,   \* a camera was dropped with events still to deliver (history)
  spent       \* how much of each bound is used up

vars == <<registry, reach, at, link, poll, listed, states, dials, chains, recon,
          rebooted, detached, spent>>

-----------------------------------------------------------------------------
(* `Connecting` and `Disconnecting` are states of the machine, but while   *)
(* the effect they stand for runs they exist only inside the dispatch: the *)
(* map holds the state before or the state after.                          *)
State == {"none", "Disconnected", "Idle"}
Event == {"ReconnectRequested", "ConnectionLost", "RebootDispatched", "TransportSuspect"}
Effect == {"Connect", "Disconnect"}
Job == [event : Event, by : {"reconcile", "others"}, doing : {"queued"} \union Effect,
        host : Host \union {"none"}]

(* The host is that of the state the dispatch has started from.            *)
NewJob(event, by) == [event |-> event, by |-> by, doing |-> "queued", host |-> "none"]

(* An entry of the registry: a camera with an ADB address, controlled or   *)
(* only known; or one that is not there or has no address.                 *)
Kind == {"controlled", "known", "absent"}
Entry == [kind : Kind, host : Host]
Controlled(reg) == {c \in Camera : reg[c].kind = "controlled"}
Known(reg) == {c \in Camera : reg[c].kind = "known"}

(* Whether the camera answers at an address.                               *)
AnswersAt(c, host) == c \in reach /\ at[c] = host

(* acceptsCommands: the gate of every command but the reboot.              *)
Accepts(c) == states[c] = "Idle"

(* The effect an event asks for in a state, or the state it leads to.      *)
EffectOf(s, event) ==
  CASE s = "Disconnected" /\ event = "ReconnectRequested" -> "Connect"
    [] s = "Idle" /\ event = "TransportSuspect"           -> "Disconnect"
    [] OTHER                                              -> "queued"

StateAfter(s, event) ==
  IF s = "Idle" /\ event \in {"ConnectionLost", "RebootDispatched"} THEN "Disconnected" ELSE s

-----------------------------------------------------------------------------
(* Promise chains.                                                         *)

Enqueue(cs, job) == [cs EXCEPT ![Len(cs)] = Append(@, job)]

(* A chain with nothing left to run is gone, unless it is the current one. *)
Finish(cs, k, n) ==
  LET rest == RemoveAt(cs[k], n)
  IN  IF rest = <<>> /\ k < Len(cs) THEN RemoveAt(cs, k) ELSE [cs EXCEPT ![k] = rest]

(* queues.delete: the next event starts a new chain, next to the old one.  *)
Detach(cs) == IF Last(cs) = <<>> THEN cs ELSE Append(cs, <<>>)

(* Definitions named Defect_... are wrong on purpose: each is the operator  *)
(* that follows with one plausible mistake, and some property must reject  *)
(* it.  Here: every dispatch starts at once.                               *)
Defect_NoQueue(n) == n > 0

(* A job starts when every job before it in its chain has ended.           *)
Turn(n) == n = 1

(* The jobs of a camera that have not ended.                               *)
Pending(c) == UNION {ToSet(chains[c][k]) : k \in DOMAIN chains[c]}

(* The reconcile waits for the reconnection it has just requested.         *)
Awaiting == \E c \in Camera : \E job \in Pending(c) : job.by = "reconcile"

Spend(what) == spent' = [spent EXCEPT ![what] = @ + 1]

-----------------------------------------------------------------------------
Init ==
  /\ registry \in [Camera -> Entry]
  /\ reach \in SUBSET Camera
  /\ at \in [Camera -> Host]
  /\ link = {}
  /\ poll = [busy |-> FALSE, seen |-> {}]
  /\ listed = {}
  /\ states = [c \in Camera |-> "none"]
  /\ dials = [c \in Camera |-> "none"]
  /\ chains = [c \in Camera |-> << <<>> >>]
  /\ recon = [phase |-> "rest", todo |-> {},
              reg |-> [c \in Camera |-> [kind |-> "absent", host |-> registry[c].host]]]
  /\ rebooted = {}
  /\ detached = FALSE
  /\ spent = [edits |-> 0, commands |-> 0, faults |-> 0]

(* Defect: the dispatch stores the state the effect starts from.           *)
Defect_BeginStoresPhase(c, k, n) ==
  LET job == chains[c][k][n]
      effect == EffectOf(states[c], job.event)
  IN  /\ Turn(n)
      /\ job.doing = "queued"
      /\ IF effect \in Effect
           THEN /\ chains' = [chains EXCEPT ![c][k][n] = [@ EXCEPT !.doing = effect, !.host = dials[c]]]
                /\ states' = [states EXCEPT ![c] = effect]
           ELSE /\ chains' = [chains EXCEPT ![c] = Finish(@, k, n)]
                /\ states' = [states EXCEPT ![c] = StateAfter(@, job.event)]
      /\ rebooted' = CASE effect = "Connect" -> rebooted \ {c}
                       [] job.event = "RebootDispatched" -> rebooted \union {c}
                       [] OTHER -> rebooted
  /\ UNCHANGED <<registry, reach, at, link, poll, listed, dials, recon, detached, spent>>

(* A job's turn: it reads the state and reduces it by its event.  An event *)
(* that asks for no effect is done in the same turn; a camera that is not  *)
(* tracked has no machine to deliver it to.                                *)
Begin(c, k, n) ==
  LET job == chains[c][k][n]
      effect == EffectOf(states[c], job.event)
  IN  /\ Turn(n)
      /\ job.doing = "queued"
      /\ IF effect \in Effect
           THEN /\ chains' = [chains EXCEPT ![c][k][n] = [@ EXCEPT !.doing = effect, !.host = dials[c]]]
                /\ UNCHANGED states
           ELSE /\ chains' = [chains EXCEPT ![c] = Finish(@, k, n)]
                /\ states' = [states EXCEPT ![c] = StateAfter(@, job.event)]
      /\ rebooted' = CASE effect = "Connect" -> rebooted \ {c}
                       [] job.event = "RebootDispatched" -> rebooted \union {c}
                       [] OTHER -> rebooted
  /\ UNCHANGED <<registry, reach, at, link, poll, listed, dials, recon, detached, spent>>

(* The connection is established, as it can be only to a camera that       *)
(* answers, or its retries end; a failed handshake may leave a transport   *)
(* behind, the temporary one.  (One that costs a transport is a LinkDrops  *)
(* on the way.)  Either way the dispatch writes the state it arrived at,   *)
(* with the host it started from, whatever the map says by then.           *)
ConnectEnds(c, k, n, established) ==
  LET host == chains[c][k][n].host
      to == {e \in {<<c, host>>} : AnswersAt(c, host)}
  IN  /\ chains[c][k][n].doing = "Connect"
      /\ established => AnswersAt(c, host)
      /\ link' \in IF established THEN {link \union to} ELSE {link, link \union to}
      /\ states' = [states EXCEPT ![c] = IF established THEN "Idle" ELSE "Disconnected"]
      /\ dials' = [dials EXCEPT ![c] = host]
      /\ chains' = [chains EXCEPT ![c] = Finish(@, k, n)]
      /\ UNCHANGED <<registry, reach, at, poll, listed, recon, rebooted, detached, spent>>

(* `adb disconnect` is over, successful or not.                            *)
DisconnectEnds(c, k, n) ==
  LET host == chains[c][k][n].host
  IN  /\ chains[c][k][n].doing = "Disconnect"
      /\ link' \in {link, link \ {<<c, host>>}}
      /\ states' = [states EXCEPT ![c] = "Disconnected"]
      /\ dials' = [dials EXCEPT ![c] = host]
      /\ chains' = [chains EXCEPT ![c] = Finish(@, k, n)]
      /\ UNCHANGED <<registry, reach, at, poll, listed, recon, rebooted, detached, spent>>

-----------------------------------------------------------------------------
(* Defect: only the cameras that are new are connected.                    *)
Defect_ReconcileConnectsNewOnly ==
  LET controlled == Controlled(registry)
      next == [c \in Camera |->
                 CASE c \notin controlled -> "none"
                   [] c \in controlled /\ states[c] = "none" -> "Disconnected"
                   [] OTHER -> states[c]]
      dropped == {c \in Camera : states[c] # "none" /\ c \notin controlled}
  IN  /\ recon.phase = "rest"
      /\ states' = next
      /\ dials' = [c \in Camera |->
                     CASE c \notin controlled -> "none"
                       [] c \in controlled /\ states[c] = "none" -> registry[c].host
                       [] OTHER -> dials[c]]
      /\ chains' = [c \in Camera |-> IF c \in dropped THEN Detach(chains[c]) ELSE chains[c]]
      /\ detached' = (detached \/ \E c \in dropped : Last(chains[c]) # <<>>)
      /\ rebooted' = rebooted \ dropped
      /\ recon' = [phase |-> "retry", reg |-> registry,
                   todo |-> {c \in controlled : states[c] = "none"}]
      /\ UNCHANGED <<registry, reach, at, link, poll, listed, spent>>

(* A reconcile tick: read the registry, create the machines of the newly   *)
(* controlled cameras, drop the others with their queues, and note which   *)
(* ones to reconnect.  A machine that is there already keeps its host,     *)
(* whatever address the registry has for the camera by now.                *)
ReconcileStart ==
  LET controlled == Controlled(registry)
      next == [c \in Camera |->
                 CASE c \notin controlled -> "none"
                   [] c \in controlled /\ states[c] = "none" -> "Disconnected"
                   [] OTHER -> states[c]]
      dropped == {c \in Camera : states[c] # "none" /\ c \notin controlled}
  IN  /\ recon.phase = "rest"
      /\ states' = next
      /\ dials' = [c \in Camera |->
                     CASE c \notin controlled -> "none"
                       [] c \in controlled /\ states[c] = "none" -> registry[c].host
                       [] OTHER -> dials[c]]
      /\ chains' = [c \in Camera |-> IF c \in dropped THEN Detach(chains[c]) ELSE chains[c]]
      /\ detached' = (detached \/ \E c \in dropped : Last(chains[c]) # <<>>)
      /\ rebooted' = rebooted \ dropped
      /\ recon' = [phase |-> "retry", reg |-> registry,
                   todo |-> {c \in controlled : next[c] = "Disconnected"}]
      /\ UNCHANGED <<registry, reach, at, link, poll, listed, spent>>

(* Defect: the reconnections are not awaited.                              *)
Defect_ReconnectAllAtOnce(c) ==
  /\ recon.phase = "retry"
  /\ c \in recon.todo
  /\ chains' = [chains EXCEPT ![c] = Enqueue(@, NewJob("ReconnectRequested", "others"))]
  /\ recon' = [recon EXCEPT !.todo = @ \ {c}]
  /\ UNCHANGED <<registry, reach, at, link, poll, listed, states, dials, rebooted,
                 detached, spent>>

(* The cameras to reconnect are retried one at a time.                     *)
Reconnect(c) ==
  /\ recon.phase = "retry"
  /\ ~ Awaiting
  /\ c \in recon.todo
  /\ chains' = [chains EXCEPT ![c] = Enqueue(@, NewJob("ReconnectRequested", "reconcile"))]
  /\ recon' = [recon EXCEPT !.todo = @ \ {c}]
  /\ UNCHANGED <<registry, reach, at, link, poll, listed, states, dials, rebooted,
                 detached, spent>>

(* The strays are the listed devices at an address the registry knows and  *)
(* does not control: today's list against the registry read when the tick  *)
(* began.                                                                  *)
FindStrays ==
  /\ recon.phase = "retry"
  /\ ~ Awaiting
  /\ recon.todo = {}
  /\ recon' = [recon EXCEPT !.phase = "stray",
                            !.todo = listed \intersect
                                       {<<c, recon.reg[c].host>> : c \in Known(recon.reg)}]
  /\ UNCHANGED <<registry, reach, at, link, poll, listed, states, dials, chains,
                 rebooted, detached, spent>>

(* They are disconnected one after the other, best effort.                 *)
DisconnectStray(e) ==
  /\ recon.phase = "stray"
  /\ e \in recon.todo
  /\ link' \in {link, link \ {e}}
  /\ recon' = [recon EXCEPT !.todo = @ \ {e}]
  /\ UNCHANGED <<registry, reach, at, poll, listed, states, dials, chains, rebooted,
                 detached, spent>>

ReconcileEnds ==
  /\ recon.phase = "stray"
  /\ recon.todo = {}
  /\ recon' = [recon EXCEPT !.phase = "rest"]
  /\ UNCHANGED <<registry, reach, at, link, poll, listed, states, dials, chains,
                 rebooted, detached, spent>>

-----------------------------------------------------------------------------
(* The tracker's poll: the list is read here and published later.          *)
PollReads ==
  /\ ~ poll.busy
  /\ poll' = [busy |-> TRUE, seen |-> link]
  /\ UNCHANGED <<registry, reach, at, link, listed, states, dials, chains, recon,
                 rebooted, detached, spent>>

PollFails ==
  /\ poll.busy
  /\ poll' = [busy |-> FALSE, seen |-> {}]
  /\ UNCHANGED <<registry, reach, at, link, listed, states, dials, chains, recon,
                 rebooted, detached, spent>>

(* Defect: nobody is subscribed to the stream.                             *)
Defect_PollWithoutLiveness ==
  /\ poll.busy
  /\ poll' = [busy |-> FALSE, seen |-> {}]
  /\ listed' = poll.seen
  /\ UNCHANGED <<registry, reach, at, link, states, dials, chains, recon, rebooted,
                 detached, spent>>

(* The list is published, and every Idle camera that is not on it is sent  *)
(* a ConnectionLost in the same turn.  The bound is on the events a poll   *)
(* may leave in a queue that something slow is blocking.                   *)
PollPublishes ==
  LET lost == {c \in Camera : states[c] = "Idle" /\ <<c, dials[c]>> \notin poll.seen}
  IN  /\ poll.busy
      /\ \A c \in lost : Len(Last(chains[c])) < 3
      /\ poll' = [busy |-> FALSE, seen |-> {}]
      /\ listed' = poll.seen
      /\ chains' = [c \in Camera |->
                      IF c \in lost
                        THEN Enqueue(chains[c], NewJob("ConnectionLost", "others"))
                        ELSE chains[c]]
      /\ UNCHANGED <<registry, reach, at, link, states, dials, recon, rebooted, detached, spent>>

-----------------------------------------------------------------------------
(* The environment.                                                        *)

(* A command or a probe that timed out, or a reboot that was dispatched,   *)
(* is reported for a camera the registry resolves.  A command that passed  *)
(* the gate may time out long after the camera was lost and found again,   *)
(* and neither probes nor the reboot are gated.                            *)
Report(c, event) ==
  /\ event \in {"TransportSuspect", "RebootDispatched"}
  /\ spent.commands < MaxCommands
  /\ registry[c].kind # "absent"
  /\ chains' = [chains EXCEPT ![c] = Enqueue(@, NewJob(event, "others"))]
  /\ Spend("commands")
  /\ UNCHANGED <<registry, reach, at, link, poll, listed, states, dials, recon,
                 rebooted, detached>>

(* An operator edits the registry: a camera is added, removed, controlled  *)
(* or no longer so.                                                        *)
EditRegistry(c, kind) ==
  /\ spent.edits < MaxEdits
  /\ registry[c].kind # kind
  /\ registry' = [registry EXCEPT ![c] = [@ EXCEPT !.kind = kind]]
  /\ Spend("edits")
  /\ UNCHANGED <<reach, at, link, poll, listed, states, dials, chains, recon,
                 rebooted, detached>>

(* Or its ADB address is corrected.                                        *)
EditAddress(c, host) ==
  /\ spent.edits < MaxEdits
  /\ registry[c].kind # "absent" /\ registry[c].host # host
  /\ registry' = [registry EXCEPT ![c] = [@ EXCEPT !.host = host]]
  /\ Spend("edits")
  /\ UNCHANGED <<reach, at, link, poll, listed, states, dials, chains, recon,
                 rebooted, detached>>

(* The camera changes network.                                             *)
Moves(c, host) ==
  /\ spent.faults < MaxFaults
  /\ at[c] # host
  /\ at' = [at EXCEPT ![c] = host]
  /\ Spend("faults")
  /\ UNCHANGED <<registry, reach, link, poll, listed, states, dials, chains, recon,
                 rebooted, detached>>

PowerOff(c) ==
  /\ spent.faults < MaxFaults
  /\ c \in reach
  /\ reach' = reach \ {c}
  /\ Spend("faults")
  /\ UNCHANGED <<registry, at, link, poll, listed, states, dials, chains, recon,
                 rebooted, detached>>

PowerOn(c) ==
  /\ c \notin reach
  /\ reach' = reach \union {c}
  /\ UNCHANGED <<registry, at, link, poll, listed, states, dials, chains, recon,
                 rebooted, detached, spent>>

(* The transport to an address where nobody answers goes down in the end;  *)
(* one to a camera that does may break as well.                            *)
LinkDrops(c, host) ==
  /\ <<c, host>> \in link
  /\ link' = link \ {<<c, host>>}
  /\ IF AnswersAt(c, host)
       THEN spent.faults < MaxFaults /\ Spend("faults")
       ELSE UNCHANGED spent
  /\ UNCHANGED <<registry, reach, at, poll, listed, states, dials, chains, recon,
                 rebooted, detached>>

-----------------------------------------------------------------------------
(* Some job of the camera, of whichever chain, takes a step.               *)
JobBegins(c) == \E k \in DOMAIN chains[c] : \E n \in DOMAIN chains[c][k] : Begin(c, k, n)
Connects(c, established) ==
  \E k \in DOMAIN chains[c] : \E n \in DOMAIN chains[c][k] : ConnectEnds(c, k, n, established)
Disconnects(c) ==
  \E k \in DOMAIN chains[c] : \E n \in DOMAIN chains[c][k] : DisconnectEnds(c, k, n)

Next ==
  \/ \E c \in Camera : JobBegins(c)
  \/ \E c \in Camera, established \in BOOLEAN : Connects(c, established)
  \/ \E c \in Camera : Disconnects(c)
  \/ ReconcileStart
  \/ \E c \in Camera : Reconnect(c)
  \/ FindStrays
  \/ \E e \in Camera \X Host : DisconnectStray(e)
  \/ ReconcileEnds
  \/ PollReads
  \/ PollFails
  \/ PollPublishes
  \/ \E c \in Camera, event \in Event : Report(c, event)
  \/ \E c \in Camera, kind \in Kind : EditRegistry(c, kind)
  \/ \E c \in Camera, host \in Host : EditAddress(c, host)
  \/ \E c \in Camera, host \in Host : Moves(c, host)
  \/ \E c \in Camera : PowerOff(c)
  \/ \E c \in Camera : PowerOn(c)
  \/ \E c \in Camera, host \in Host : LinkDrops(c, host)

Spec == Init /\ [][Next]_vars

(* Queues drain and `adb` commands end, since every command a dispatch     *)
(* runs is killed after 15 s and every retry policy of a connection is     *)
(* limited; the reconcile and the tracker tick again and again, on         *)
(* unlimited policies; the transport to a silent device goes down.  Of     *)
(* the environment it is assumed that neither `adb devices` nor the        *)
(* connections to a camera that answers fail for ever (the two SF).        *)
Fairness ==
  /\ \A c \in Camera :
       /\ WF_vars(JobBegins(c))
       /\ WF_vars(Connects(c, TRUE) \/ Connects(c, FALSE))
       /\ SF_vars(Connects(c, TRUE))
       /\ WF_vars(Disconnects(c))
       /\ WF_vars(Reconnect(c))
       /\ \A host \in Host :
            /\ WF_vars(DisconnectStray(<<c, host>>))
            /\ WF_vars(~ AnswersAt(c, host) /\ LinkDrops(c, host))
  /\ WF_vars(ReconcileStart)
  /\ WF_vars(FindStrays)
  /\ WF_vars(ReconcileEnds)
  /\ WF_vars(PollReads)
  /\ SF_vars(PollPublishes)

FairSpec == Spec /\ Fairness

-----------------------------------------------------------------------------
(* Correctness.                                                            *)

Doing(c, effect) == \E job \in Pending(c) : job.doing = effect

(* The type invariant.  It is not only shape: the map never holds          *)
(* `Connecting` or `Disconnecting`.                                        *)
TypeOK ==
  /\ registry \in [Camera -> Entry]
  /\ reach \subseteq Camera
  /\ at \in [Camera -> Host]
  /\ link \subseteq Camera \X Host /\ listed \subseteq Camera \X Host
  /\ poll \in [busy : BOOLEAN, seen : SUBSET (Camera \X Host)]
  /\ states \in [Camera -> State]
  /\ dials \in [Camera -> Host \union {"none"}]
  /\ \A c \in Camera : Len(chains[c]) > 0 /\ Pending(c) \subseteq Job
  /\ recon.phase \in {"rest", "retry", "stray"}
  /\ recon.todo \subseteq IF recon.phase = "stray" THEN Camera \X Host ELSE Camera
  /\ rebooted \subseteq Camera
  /\ detached \in BOOLEAN
  /\ spent \in [edits : 0 .. MaxEdits, commands : 0 .. MaxCommands, faults : 0 .. MaxFaults]

(* Cameras are connected one at a time ("no ADB connections in parallel"), *)
(* whoever else dispatches to them meanwhile.                              *)
OneConnectionAtATime ==
  \A c, d \in Camera : Doing(c, "Connect") /\ Doing(d, "Connect") => c = d

(* Concurrent dispatches to a camera do not overwrite one another: the     *)
(* state a dispatch started from is still the camera's when it writes, as  *)
(* long as no camera was dropped with a dispatch in flight.                *)
DispatchesAreSerial ==
  ~ detached => \A c \in Camera :
    /\ Doing(c, "Connect") => states[c] = "Disconnected"
    /\ Doing(c, "Disconnect") => states[c] = "Idle"

(* Once the bridge has processed a reboot, the camera is not taken for     *)
(* connected before a connection that began after it: a wait for the       *)
(* device that starts then never ends on the old connection.               *)
RebootInvalidates ==
  ~ detached => \A c \in rebooted : states[c] # "Idle"

(* Only the cameras the last reconcile found controlled accept commands,   *)
(* although a dispatch in flight writes its state back after the camera    *)
(* was dropped.                                                            *)
AcceptingIsControlled ==
  \A c \in Camera : Accepts(c) => recon.reg[c].kind = "controlled"

(* The address the bridge has for a camera: that of its machine, or the    *)
(* registry's when the next reconcile is to create one.                    *)
Dialled(c) == IF states[c] = "none" THEN registry[c].host ELSE dials[c]

(* A controlled camera that answers at the address the bridge has for it   *)
(* ends up connected, and stays so.  The code promises no more: a camera   *)
(* that moved and whose address was corrected in the registry is dialled   *)
(* at the old one until its machine is dropped, or the lifecycle ends.     *)
ReachableConnects ==
  \A c \in Camera :
    <>[](registry[c].kind = "controlled" /\ AnswersAt(c, Dialled(c))) => <>[](Accepts(c))

(* A camera that does not answer there, as it is switched off or has       *)
(* moved, ends up refusing commands.                                       *)
UnreachableRefuses ==
  \A c \in Camera : <>[](~ AnswersAt(c, Dialled(c))) => <>[](~ Accepts(c))

(* What the comments claim and the code does not do: `Disconnecting` "does *)
(* not accept commands", and the gate "never gives false positives".       *)
DisconnectingRefuses ==
  \A c \in Camera : Doing(c, "Disconnect") => ~ Accepts(c)

=============================================================================
