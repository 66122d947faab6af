----------------------------- MODULE Operations -----------------------------
(* What operators do and what the service does for them: edits of the      *)
(* registry next to Suitest's imports (Registry) and from its page         *)
(* (LabPage), of the settings (Settings), a pipeline or a workflow run by  *)
(* hand (Workflow) with the `adb connect` it asks for (AdbConnection), what*)
(* is told of a trip (Notifier), and the forms of the settings (Forms).    *)
(* None of them shares state with another, so a behaviour picks one, its   *)
(* scene, and the others stand still.                                      *)
EXTENDS Notifier, Registry, Forms

CONSTANTS
  Phone, Endpoint, Registries, Workflows, Pipelines, Manual,
  MaxDepth, MaxHeight, Patience, MaxChanges,
  Address, TlsPort, AdbPort, Answers, MaxRetries, MaxTurns,
  Operator, Listed, Infra, Optional, Value, Bad, FirstFile, MaxEdits, MaxRestarts, MaxFailures,
  Page, FirstDbs, SuitestLists, MaxSubmits, MaxUpsets

VARIABLES
  scene,
  domain, entity, lookup, pipeline, todo, value, call, registry, accepting,
  fact, leaves, told, changes,
  backend, resolution, connection, intent, tries, open, transports, blamed, movesLeft,
  configFile, memory, pages, overlapped, budget,
  db, version, browsers, flights, careful, leftBehind, left

jobVars ==
  <<domain, entity, lookup, pipeline, todo, value, call, registry, accepting, fact, leaves,
    told, changes>>
linkVars ==
  <<backend, resolution, connection, intent, tries, open, transports, blamed, movesLeft>>
confVars == <<configFile, memory, pages, overlapped, budget>>
screenVars == <<db, version, browsers, flights, careful, leftBehind, left>>
operationsVars ==
  <<scene, notifierVars, registryVars, jobVars, linkVars, confVars, screenVars, formVars>>

Scene == {"registry", "notifier", "workflow", "connection", "settings", "page", "forms"}

Job == INSTANCE Workflow WITH Camera <- Phone, Host <- Endpoint
Link == INSTANCE AdbConnection WITH MaxMoves <- MaxTurns
Conf == INSTANCE Settings WITH file <- configFile, MaxMoves <- MaxEdits
Screen == INSTANCE LabPage WITH pages <- browsers

(* What the theorems ask of the constants; the modules say what each means.*)
ASSUME OperationsAssumption ==
  /\ RegistryAssumption /\ AssignmentAssumption
  /\ Job!WorkflowAssumption /\ Link!ConnectionAssumption
  /\ Conf!SettingsAssumption /\ Screen!LabPageAssumption /\ FormsAssumption

-----------------------------------------------------------------------------
(* The scenes that were not picked.                                        *)
RegistryIdle ==
  /\ file = None /\ ops = None /\ assignment = None /\ expected = None
  /\ calm = TRUE /\ excused = FALSE /\ allowance = None

JobIdle ==
  /\ domain = "manual" /\ entity = None /\ lookup = FALSE /\ pipeline = None /\ todo = <<>>
  /\ value = None /\ call = None /\ registry = None /\ accepting = None /\ fact = None
  /\ leaves = <<>> /\ told = None /\ changes = 0

LinkIdle ==
  /\ backend = None /\ resolution = None /\ connection = None /\ intent = None
  /\ tries = 0 /\ open = {} /\ transports = {} /\ blamed = {} /\ movesLeft = 0

ConfIdle ==
  /\ configFile = None /\ memory = None /\ pages = None
  /\ overlapped = FALSE /\ budget = None

ScreenIdle ==
  /\ db = None /\ version = 0 /\ browsers = None
  /\ flights = {} /\ careful = TRUE /\ leftBehind = {} /\ left = None

NotifierIdle ==
  /\ slackActive = FALSE /\ policy = [r \in Rule |-> {}]
  /\ state = [w \in Wire |-> "healthy"] /\ statusRow = [w \in Wire |-> "none"]
  /\ activityRow = "none" /\ dispatches = <<>> /\ notices = <<>> /\ logged = 0 /\ moves = 0

FormsIdle == form = "closed" /\ draft = None

SceneInit ==
  /\ scene \in Scene
  /\ IF scene = "registry"   THEN RegistryInit    ELSE RegistryIdle
  /\ IF scene = "notifier"   THEN NotifierInit        ELSE NotifierIdle
  /\ IF scene = "workflow"   THEN Job!WorkflowInit    ELSE JobIdle
  /\ IF scene = "connection" THEN Link!ConnectionInit ELSE LinkIdle
  /\ IF scene = "settings"   THEN Conf!SettingsInit   ELSE ConfIdle
  /\ IF scene = "page"       THEN Screen!LabPageInit  ELSE ScreenIdle
  /\ IF scene = "forms"      THEN FormsInit           ELSE FormsIdle

SceneNext ==
  /\ UNCHANGED scene
  /\ \/ scene = "registry"   /\ RegistryNext
     \/ scene = "notifier"   /\ NotifierNext
     \/ scene = "workflow"   /\ Job!WorkflowNext
     \/ scene = "connection" /\ Link!ConnectionNext
     \/ scene = "settings"   /\ Conf!SettingsNext
     \/ scene = "page"       /\ Screen!LabPageNext
     \/ scene = "forms"      /\ FormsNext
  /\ scene # "registry"   => UNCHANGED registryVars
  /\ scene # "notifier"   => UNCHANGED notifierVars
  /\ scene # "workflow"   => UNCHANGED jobVars
  /\ scene # "connection" => UNCHANGED linkVars
  /\ scene # "settings"   => UNCHANGED confVars
  /\ scene # "page"       => UNCHANGED screenVars
  /\ scene # "forms"      => UNCHANGED formVars

OperationsSpec == SceneInit /\ [][SceneNext]_operationsVars

-----------------------------------------------------------------------------
(* Every variable of the scene keeps its shape.                            *)
TypesOK ==
  /\ scene = "registry"   => RegistryTypeOK
  /\ scene = "notifier"   => NotifierTypeOK
  /\ scene = "workflow"   => Job!WorkflowTypeOK
  /\ scene = "connection" => Link!ConnectionTypeOK
  /\ scene = "settings"   => Conf!SettingsTypeOK
  /\ scene = "page"       => Screen!LabPageTypeOK

(* An acknowledged edit is not undone by another, of the registry or of the*)
(* settings, except by the overlaps the README names; an import keeps what *)
(* operators entered, and an assignment leaves no host without a camera.   *)
(* A page has one row for every device, shows the edits it was told of and *)
(* links a capture device to one camera.                                   *)
EditsLast ==
  /\ scene = "registry" =>
       AcknowledgedEditsLast /\ ImportsKeepLocalFields /\ NoHostWithoutCamera
  /\ scene = "settings" => Conf!SavedSettingsAreOnFile
  /\ scene = "page" =>
       Screen!EveryDeviceHasOneRow /\ Screen!LinksAreExclusive /\ Screen!AcceptedEditsAreShown

(* A pipeline has the value of the formula it is; the bridge hears of the  *)
(* camera that timed out or was rebooted, and has connected it since when  *)
(* it says that it accepts commands again; and a connection attempt ends in*)
(* the state the phone is in.                                              *)
CommandsTellTheTruth ==
  /\ scene = "workflow" =>
       Job!PipelineMeansItsFormula /\ Job!BridgeHearsOfTheCulprit /\ Job!WaitSeesTheReboot
  /\ scene = "connection" => Link!AttemptTellsTheTruth

=============================================================================
