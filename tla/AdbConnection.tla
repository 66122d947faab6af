---------------------------- MODULE AdbConnection ----------------------------
(***************************************************************************)
(* One attempt to connect a phone: the mDNS lookup that turns its address  *)
(* into the port it listens on now, and the machine that goes from that    *)
(* temporary port to the fixed one.  An event is reduced to a state and at *)
(* most one intent, the intent runs a command of adb, and the answer is the*)
(* next event, until an intent has no event to give.  No failure leaves the*)
(* machine: it is an event, and the phone is Unknown again.                *)
(*                                                                         *)
(* The adb server and the phone are external: a command may connect, be    *)
(* refused with an error, or be refused and exit with 0, which the service *)
(* takes for a success; the phone changes its port at any time.            *)
(***************************************************************************)
EXTENDS Naturals, FiniteSetsExt

CONSTANTS
  None,
  Address,        \* the address the attempt is for
  TlsPort,        \* the ports wireless debugging may listen on
  AdbPort,        \* the fixed port of the configuration
  Answers,        \* what the lookup may find: sequences of records
  MaxRetries,     \* the limit of ADB_CONNECT_RETRY_POLICY
  MaxMoves        \* bound: changes of the phone during the attempt

VARIABLES
  backend,        \* the mDNS command of the platform
  resolution,     \* the state of the lookup
  connection,     \* the state of the machine
  intent,         \* the intent that runs, None when the attempt is over
  tries,          \* of the intent ConnectPersistent: the commands that failed
  open,           \* external: the ports the phone listens on
  transports,     \* external: the ports the adb server is connected to
  blamed,         \* history: what the server or the phone did that the service cannot see
  movesLeft       \* how much of the bound is left

connectionVars ==
  <<backend, resolution, connection, intent, tries, open, transports, blamed, movesLeft>>

-----------------------------------------------------------------------------
(* The lookup.  A record has a name, a port, and the address its name      *)
(* resolves to, None when it does not; a line whose fields do not parse is *)
(* dropped.  What is found is the positions of the records that are kept.  *)
EndpointOf(r) == [ip |-> r.ip, port |-> r.port]

Deduplicated(list, kept) ==
  {i \in kept : \A j \in kept : j < i => EndpointOf(list[j]) # EndpointOf(list[i])}

(* avahi-browse: resolved lines only, in their order, each endpoint once.  *)
(* Any number passes for a port.                                           *)
AvahiParse(list) == Deduplicated(list, {i \in DOMAIN list : list[i].ip # None /\ list[i].sane})

(* dns-sd: services with a proper port first, then the address of each     *)
(* name.                                                                   *)
ParseServices(list) == {i \in DOMAIN list : list[i].sane /\ list[i].port \in 1 .. 65535}
ToEndpoints(list, services) == Deduplicated(list, {i \in services : list[i].ip # None})

Discovered(list) == IF backend = "avahi" THEN AvahiParse(list) ELSE ToEndpoints(list, ParseServices(list))

(* The first endpoint with the address, which may not be the latest.       *)
FirstAt(list, found) ==
  LET at == {i \in found : list[i].ip = Address}
  IN IF at = {} THEN None ELSE EndpointOf(list[Min(at)])

Searching == [tag |-> "Searching"]
Resolved(target) == [tag |-> "Resolved", target |-> target]
NotFound == [tag |-> "NotFound"]

ReduceLookup(state, event) ==
  IF state.tag # "Searching" THEN state
  ELSE CASE event.tag = "ResolutionRequested" -> Searching
         [] event.tag = "PortResolved" -> Resolved(event.target)
         [] event.tag = "PortNotFound" -> NotFound

-----------------------------------------------------------------------------
(* The machine.                                                            *)
Unknown == [tag |-> "Unknown", port |-> None]
Temporary(port) == [tag |-> "Temporary", port |-> port]
Persistent(port) == [tag |-> "Persistent", port |-> port]

Intent(do, port) == [do |-> do, port |-> port]
Event(tag, port) == [tag |-> tag, port |-> port]

(* A state and an intent for every state and event; the pairs that are not *)
(* listed change nothing.                                                  *)
To(state, i) == [state |-> state, intent |-> i]

(* Defect: it is the fixed port that is disconnected, not the other.       *)
Defect_DisconnectsTheNew(state, event) ==
  LET pair == <<state.tag, event.tag>> IN
  CASE pair = <<"Unknown", "TargetDiscovered">> ->
         To(Temporary(event.port), Intent("ConnectTemporary", event.port))
    [] pair = <<"Temporary", "TemporaryHandshakeOk">> ->
         To(Temporary(event.port), Intent("ConfigurePersistentPort", event.port))
    [] pair = <<"Temporary", "TcpipConfigured">> -> To(state, Intent("ConnectPersistent", event.port))
    [] pair = <<"Temporary", "PersistentHandshakeOk">> ->
         To(Persistent(event.port), Intent("DisconnectTemporary", event.port))
    [] pair \in {<<"Temporary", "TemporaryHandshakeFailed">>, <<"Temporary", "PersistentHandshakeFailed">>} ->
         To(Unknown, None)
    [] OTHER -> To(state, None)

Reduce(state, event) ==
  LET pair == <<state.tag, event.tag>> IN
  CASE pair = <<"Unknown", "TargetDiscovered">> ->
         To(Temporary(event.port), Intent("ConnectTemporary", event.port))
    [] pair = <<"Temporary", "TemporaryHandshakeOk">> ->
         To(Temporary(event.port), Intent("ConfigurePersistentPort", event.port))
    [] pair = <<"Temporary", "TcpipConfigured">> -> To(state, Intent("ConnectPersistent", event.port))
    [] pair = <<"Temporary", "PersistentHandshakeOk">> ->
         To(Persistent(event.port), Intent("DisconnectTemporary", state.port))
    [] pair \in {<<"Temporary", "TemporaryHandshakeFailed">>, <<"Temporary", "PersistentHandshakeFailed">>,
                 <<"Temporary", "ConnectionLost">>, <<"Persistent", "ConnectionLost">>} -> To(Unknown, None)
    [] pair = <<"Persistent", "PortChanged">> ->
         To(Temporary(event.port), Intent("ConnectTemporary", event.port))
    [] OTHER -> To(state, None)

Dispatch(event) ==
  LET to == Reduce(connection, event) IN connection' = to.state /\ intent' = to.intent

-----------------------------------------------------------------------------
(* An attempt for an address starts with the lookup.                       *)
ConnectionInit ==
  /\ backend \in {"avahi", "dns-sd"}
  /\ resolution = ReduceLookup(Searching, Event("ResolutionRequested", None))
  /\ connection = Unknown /\ intent = Intent("LookupPort", None)
  /\ tries = 0
  /\ open \in {{p} : p \in TlsPort} \union {{}}
  /\ transports \in SUBSET {AdbPort}
  /\ blamed = {} /\ movesLeft = MaxMoves

Outside == UNCHANGED <<backend, open, movesLeft>>

(* Nothing found, or no answer: no connection is attempted.                *)
LookupPort ==
  /\ intent # None /\ intent.do = "LookupPort"
  /\ \E answer \in Answers \union {None} :
       LET target == IF answer = None THEN None ELSE FirstAt(answer, Discovered(answer)) IN
         IF target = None
           THEN /\ resolution' = ReduceLookup(resolution, [tag |-> "PortNotFound"])
                /\ intent' = None /\ UNCHANGED connection
           ELSE /\ resolution' = ReduceLookup(resolution, [tag |-> "PortResolved", target |-> target])
                /\ Dispatch(Event("TargetDiscovered", target.port))
  /\ UNCHANGED <<tries, transports, blamed>> /\ Outside

(* `adb connect`: connected; an error, after which it may be connected all *)
(* the same; or refused with exit code 0.                                  *)
AdbConnect(port, ok) ==
  \/ ok /\ port \in open /\ transports' = transports \union {port} /\ UNCHANGED blamed
  \/ ok /\ port \notin open /\ blamed' = blamed \union {"refused with success"} /\ UNCHANGED transports
  \/ ~ ok /\ transports' \in {transports, transports \union ({port} \intersect open)} /\ UNCHANGED blamed

ConnectTemporary ==
  /\ intent # None /\ intent.do = "ConnectTemporary"
  /\ \E ok \in BOOLEAN :
       /\ AdbConnect(intent.port, ok)
       /\ Dispatch(Event(IF ok THEN "TemporaryHandshakeOk" ELSE "TemporaryHandshakeFailed", intent.port))
  /\ UNCHANGED <<resolution, tries>> /\ Outside

(* `adb tcpip`, over the temporary transport: the phone listens on the     *)
(* fixed port too.                                                         *)
ConfigurePersistentPort ==
  /\ intent # None /\ intent.do = "ConfigurePersistentPort"
  /\ \/ /\ intent.port \in transports
        /\ open' = open \union {AdbPort}
        /\ Dispatch(Event("TcpipConfigured", AdbPort))
     \/ Dispatch(Event("PersistentHandshakeFailed", None)) /\ UNCHANGED open
  /\ UNCHANGED <<backend, resolution, tries, transports, blamed, movesLeft>>

(* Again and again, as the policy has it.                                  *)
ConnectPersistent ==
  /\ intent # None /\ intent.do = "ConnectPersistent"
  /\ \E ok \in BOOLEAN :
       /\ AdbConnect(intent.port, ok)
       /\ IF ok THEN Dispatch(Event("PersistentHandshakeOk", intent.port)) /\ UNCHANGED tries
          ELSE IF tries < MaxRetries THEN tries' = tries + 1 /\ UNCHANGED <<connection, intent>>
          ELSE Dispatch(Event("PersistentHandshakeFailed", None)) /\ UNCHANGED tries
  /\ UNCHANGED resolution /\ Outside

(* At best: a failure is logged, and the phone stays Persistent.           *)
DisconnectTemporary ==
  /\ intent # None /\ intent.do = "DisconnectTemporary"
  /\ intent' = None
  /\ \/ transports' = transports \ {intent.port} /\ UNCHANGED blamed
     \/ blamed' = blamed \union {"not disconnected"} /\ UNCHANGED transports
  /\ UNCHANGED <<resolution, connection, tries>> /\ Outside

(* The phone reboots, or wireless debugging takes another port; a transport*)
(* to a port nobody listens on is dropped.                                 *)
PhoneMoves ==
  /\ movesLeft > 0 /\ movesLeft' = movesLeft - 1
  /\ \E ports \in SUBSET (TlsPort \union {AdbPort}) :
       /\ ports # open /\ open' = ports
       /\ transports' = transports \intersect ports
       /\ blamed' = blamed \union (IF transports' # transports THEN {"dropped"} ELSE {})
  /\ UNCHANGED <<backend, resolution, connection, intent, tries>>

ConnectionNext ==
  \/ LookupPort \/ ConnectTemporary \/ ConfigurePersistentPort \/ ConnectPersistent
  \/ DisconnectTemporary \/ PhoneMoves

ConnectionSpec == ConnectionInit /\ [][ConnectionNext]_connectionVars

(* What an instance takes for granted.  A phone advertises the ports of    *)
(* wireless debugging, never the fixed one.                                *)
Port == TlsPort \union {AdbPort} \union UNION {{a[i].port : i \in DOMAIN a} : a \in Answers}
Doing == {"LookupPort", "ConnectTemporary", "ConfigurePersistentPort", "ConnectPersistent",
          "DisconnectTemporary"}
ConnectionAssumption ==
  /\ MaxRetries \in Nat /\ Port \subseteq Nat /\ AdbPort \notin TlsPort
  /\ \A a \in Answers : DOMAIN a \subseteq Nat /\ \A i \in DOMAIN a : a[i].port # AdbPort
  /\ \A do \in Doing, port \in Port \union {None} : Intent(do, port) # None

-----------------------------------------------------------------------------
ConnectionTypeOK ==
  /\ resolution.tag \in {"Searching", "Resolved", "NotFound"}
  /\ connection.tag \in {"Unknown", "Temporary", "Persistent"}
  /\ connection.port \in Nat \union {None}
  /\ tries \in 0 .. MaxRetries
  /\ transports \subseteq TlsPort \union {AdbPort}

(* What an attempt that is over says is true: a phone is Persistent on the *)
(* fixed port, which is the only one it is connected to, unless a command  *)
(* failed with success, the disconnection failed or the phone moved since; *)
(* never Temporary; and one that was not found was left alone.             *)
AttemptTellsTheTruth ==
  /\ intent = None =>
       /\ connection.tag # "Temporary"
       /\ connection.tag = "Persistent" /\ blamed = {} => connection.port = AdbPort /\ transports = {AdbPort}
       /\ resolution.tag # "Resolved" => connection.tag = "Unknown" /\ transports \subseteq {AdbPort}
  /\ resolution.tag = "Resolved" => resolution.target.ip = Address

=============================================================================
