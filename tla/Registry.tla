------------------------------ MODULE Registry ------------------------------
(***************************************************************************)
(* The registry's file and everything that reads and writes it: the edits  *)
(* of the operators, the import at every activation, the readers that      *)
(* resolve a target or describe an entity.  An edit reads the whole file,  *)
(* changes the value and writes the whole file, and nothing keeps two of   *)
(* them apart.  A write truncates the file first: whoever reads it before  *)
(* it is complete, or after two writes got in each other's way, cannot     *)
(* parse it.  The readers of the service take that for a corrupt file and  *)
(* write the seed of the configuration over it.                            *)
(*                                                                         *)
(* On top of it, the one edit of the web application that takes several    *)
(* calls: adding an ADB host and assigning it to a camera.                 *)
(***************************************************************************)
EXTENDS LabRegistry, Naturals, FiniteSets

CONSTANTS
  Unreadable,     \* a file that cannot be parsed
  Slot,           \* bound: the operations that overlap
  Edits,          \* the edits the operators make
  Lists,          \* the lists Suitest may answer with
  Seed,           \* the devices of the configuration
  Camera, Host,   \* of the assignment: a camera, and the id and entry of a new host
  MaxOperations,  \* bound: operations on the file
  MaxCrashes,     \* bound: crashes of the service
  MaxCallsLost    \* bound: calls of the assignment that get no answer

VARIABLES
  file,           \* the value in the file, or Unreadable
  ops,            \* the operation in each slot
  assignment,     \* where the assignment of a host to a camera stands
  expected,       \* history: what the acknowledged changes amount to, one after the other
  calm,           \* history: no two operations have met, and no write was cut short
  excused,        \* history: a camera was removed, a call lost, or the host's removal refused
  allowance       \* how much of each bound is used up

registryVars == <<file, ops, assignment, expected, calm, excused, allowance>>

Idle == [do |-> "nothing", step |-> "idle"]
NoEdit == Edit("none", "none", None, None)

RegistryInit ==
  /\ file = Seeded(Seed)
  /\ ops = [s \in Slot |-> Idle]
  /\ assignment = [step |-> "closed", slot |-> None]
  /\ expected = Seeded(Seed) /\ calm = TRUE /\ excused = FALSE
  /\ allowance = [ops |-> MaxOperations, crashes |-> MaxCrashes, lost |-> MaxCallsLost]

Uses(what) == allowance[what] > 0 /\ allowance' = [allowance EXCEPT ![what] = @ - 1]

(* An operation that has read the file and has not written it back yet.    *)
Holds(s) == ops[s].step \in {"write", "writing"}
Meets(s) == \E other \in Slot \ {s} : Holds(other)

-----------------------------------------------------------------------------
(* Operations begin.  An edit and an import end with what they write; a    *)
(* look is a reader of the service.                                        *)
Begins(s, op) ==
  /\ ops[s].step = "idle" /\ Uses("ops")
  /\ ops' = [ops EXCEPT ![s] = op]

NewEdit(e) == [do |-> "edit", step |-> "read", edit |-> e, copy |-> None, clashed |-> FALSE]
NewSync == [do |-> "sync", step |-> "init", edit |-> NoEdit, copy |-> None, clashed |-> FALSE]
NewLook == [do |-> "look", step |-> "init", edit |-> NoEdit, copy |-> None, clashed |-> FALSE]

EditBegins(s, e) ==
  /\ Begins(s, NewEdit(e))
  /\ excused' = (excused \/ (e.table = "cameras" /\ e.do = "remove"))
  /\ UNCHANGED <<file, assignment, expected, calm>>

ReaderBegins(s) ==
  /\ Begins(s, NewSync) \/ Begins(s, NewLook)
  /\ UNCHANGED <<file, assignment, expected, calm, excused>>

(* Db.init: a file that cannot be read is replaced by the seed.            *)
Looks(s) ==
  /\ ops[s].step = "init"
  /\ IF file # Unreadable
       THEN /\ ops' = [ops EXCEPT ![s].step = IF ops[s].do = "sync" THEN "fetch" ELSE "done"]
            /\ UNCHANGED calm
       ELSE /\ ops' = [ops EXCEPT ![s].step = "write", ![s].copy = Seeded(Seed)]
            /\ calm' = FALSE
  /\ UNCHANGED <<file, assignment, expected, excused, allowance>>

(* Suitest answers, or does not: then the import is skipped.               *)
Fetched(s) ==
  /\ ops[s].step = "fetch"
  /\ \/ ops' = [ops EXCEPT ![s].step = "done"]
     \/ \E lists \in Lists : ops' = [ops EXCEPT ![s].step = "read", ![s].edit = lists]
  /\ UNCHANGED <<file, assignment, expected, calm, excused, allowance>>

ChangedBy(op, db) ==
  IF op.do = "sync" THEN SyncedFrom(db, op.edit) ELSE [db EXCEPT !.lab = Applied(@, op.edit)]

(* Defect: an import starts from what it read before it asked Suitest, not *)
(* from what is in the file now.                                           *)
Defect_ReadOnce(s) ==
  /\ ops[s].step = "read"
  /\ IF file # Unreadable
       THEN /\ ops' = [ops EXCEPT ![s].step = "write",
                         ![s].copy = ChangedBy(ops[s], IF ops[s].do = "sync" THEN Seeded(Seed) ELSE file)]
            /\ calm' = (calm /\ ~ Meets(s))
       ELSE /\ ops' = [ops EXCEPT ![s].step = "failed"]
            /\ UNCHANGED calm
  /\ UNCHANGED <<file, assignment, expected, excused, allowance>>

(* modify: the file is read, again in the case of an import, and changed   *)
(* in memory.  One that cannot be read fails the operation.                *)
Reads(s) ==
  /\ ops[s].step = "read"
  /\ IF file # Unreadable
       THEN /\ ops' = [ops EXCEPT ![s].step = "write", ![s].copy = ChangedBy(ops[s], file)]
            /\ calm' = (calm /\ ~ Meets(s))
       ELSE /\ ops' = [ops EXCEPT ![s].step = "failed"]
            /\ UNCHANGED calm
  /\ UNCHANGED <<file, assignment, expected, excused, allowance>>

(* The file is truncated.  Writes that overlap spoil each other.           *)
WriteBegins(s) ==
  /\ ops[s].step = "write"
  /\ LET others == {other \in Slot : ops[other].step = "writing"} IN
       ops' = [o \in Slot |->
                 IF o = s THEN [ops[s] EXCEPT !.step = "writing", !.clashed = others # {}]
                 ELSE IF o \in others THEN [ops[o] EXCEPT !.clashed = TRUE] ELSE ops[o]]
  /\ file' = Unreadable
  /\ UNCHANGED <<assignment, expected, calm, excused, allowance>>

(* The write is complete.  What is left of two that overlapped is one of   *)
(* them or a file nobody can read.                                         *)
WriteEnds(s) ==
  /\ ops[s].step = "writing"
  /\ file' \in {ops[s].copy} \union (IF ops[s].clashed THEN {Unreadable} ELSE {})
  /\ LET seeding == ops[s].edit = NoEdit IN
       /\ ops' = [ops EXCEPT ![s].step = IF seeding /\ ops[s].do = "sync" THEN "fetch" ELSE "done"]
       /\ expected' = IF calm THEN ChangedBy(ops[s], expected) ELSE expected
  /\ UNCHANGED <<assignment, calm, excused, allowance>>

(* The answer has been sent.                                               *)
Returns(s) ==
  /\ ops[s].step \in {"done", "failed"} /\ assignment.slot # s
  /\ ops' = [ops EXCEPT ![s] = Idle]
  /\ UNCHANGED <<file, assignment, expected, calm, excused, allowance>>

(* The process dies and starts again, with the file as the write left it.  *)
Crashes ==
  /\ Uses("crashes")
  /\ file' \in {file} \union {ops[s].copy : s \in {s \in Slot : ops[s].step = "writing"}}
  /\ calm' = (calm /\ \A s \in Slot : ops[s].step # "writing")
  /\ ops' = [s \in Slot |-> Idle]
  /\ excused' = (excused \/ assignment.slot # None)
  /\ assignment' = IF assignment.slot = None THEN assignment ELSE [step |-> "closed", slot |-> None]
  /\ UNCHANGED expected

-----------------------------------------------------------------------------
(* The assignment of a new host to a camera, from the dialog of the web    *)
(* application: the host is added, then named by the camera; if that is    *)
(* refused the host is removed again.                                      *)
AddHost == Edit("adb", "add", Host.id, Host.entry)
NameHost == Edit("cameras", "update", Camera, [adbId |-> Host.id])
DropHost == Edit("adb", "remove", Host.id, None)

Calls(s, step, e) ==
  /\ Begins(s, NewEdit(e))
  /\ assignment' = [step |-> step, slot |-> s]
  /\ UNCHANGED <<file, expected, calm, excused>>

Answered(s) == assignment.slot = s /\ ops[s].step \in {"done", "failed"}

AssignmentBegins(s) == assignment.step = "closed" /\ Host.id \notin DOMAIN expected.lab.adb /\ Calls(s, "adding", AddHost)

Closes(s) ==
  /\ ops' = [ops EXCEPT ![s] = Idle]
  /\ assignment' = [step |-> "closed", slot |-> None]
  /\ excused' = (excused \/ (assignment.step = "dropping" /\ ops[s].step = "failed"))
  /\ UNCHANGED <<file, expected, calm, allowance>>

(* The next call takes the slot of the one that has been answered.         *)
GoesOn(s, step, e) ==
  /\ ops' = [ops EXCEPT ![s] = NewEdit(e)]
  /\ assignment' = [assignment EXCEPT !.step = step]
  /\ UNCHANGED <<file, expected, calm, excused, allowance>>

(* Defect: a host whose camera could not be updated stays.                 *)
Defect_NoCompensation(s) ==
  /\ Answered(s)
  /\ IF assignment.step = "adding" /\ ops[s].step = "done" THEN GoesOn(s, "naming", NameHost) ELSE Closes(s)

AssignmentGoesOn(s) ==
  /\ Answered(s)
  /\ IF assignment.step = "adding" /\ ops[s].step = "done" THEN GoesOn(s, "naming", NameHost)
     ELSE IF assignment.step = "naming" /\ ops[s].step = "failed" THEN GoesOn(s, "dropping", DropHost)
     ELSE Closes(s)

(* A call that gets no answer rejects: nothing of the assignment follows.  *)
CallLost ==
  /\ assignment.slot # None /\ Uses("lost")
  /\ assignment' = [step |-> "closed", slot |-> None]
  /\ excused' = TRUE
  /\ UNCHANGED <<file, ops, expected, calm>>

RegistryNext ==
  \/ \E s \in Slot :
       \/ \E e \in Edits : EditBegins(s, e)
       \/ ReaderBegins(s) \/ Looks(s) \/ Fetched(s) \/ Reads(s) \/ WriteBegins(s) \/ WriteEnds(s) \/ Returns(s)
       \/ AssignmentBegins(s) \/ AssignmentGoesOn(s)
  \/ Crashes \/ CallLost

RegistrySpec == RegistryInit /\ [][RegistryNext]_registryVars

(* What an instance takes for granted: edits the routes of the registry    *)
(* know.                                                                   *)
Tables == DOMAIN Empty
IsEdit(e) == e.table \in Tables /\ e.do \in {"add", "remove", "update"}
RegistryAssumption == None \notin Slot /\ \A e \in Edits : IsEdit(e)

(* And for the assignment: the host is new, the camera is there, and no    *)
(* other operator edits that host or the host of that camera meanwhile.    *)
AssignmentAssumption ==
  /\ Host.id \notin DOMAIN Seed.adb /\ Camera \in DOMAIN Seed.cameras
  /\ \A e \in Edits :
       /\ e.table = "adb" => e.id # Host.id
       /\ e.table = "cameras" /\ e.id = Camera =>
            e.do # "add" /\ (e.do = "update" => "adbId" \notin DOMAIN e.fields)

-----------------------------------------------------------------------------
RegistryTypeOK ==
  /\ file # Unreadable => DOMAIN file = {"suitest", "lab"} /\ DOMAIN file.lab = DOMAIN Empty
  /\ \A s \in Slot : ops[s].step \in {"idle", "init", "fetch", "read", "write", "writing", "done", "failed"}
  /\ assignment.step \in {"closed", "adding", "naming", "dropping"} /\ assignment.slot \in Slot \union {None}

Quiet == \A s \in Slot : ~ Holds(s)

(* As long as no two operations met between their read and their write, no *)
(* reader came across a write and no write was cut short, the file is what *)
(* the acknowledged edits and imports amount to, in order: edits that were *)
(* refused left nothing, an import that overlaps an edit while it asks     *)
(* Suitest does not undo it, and what readers do leaves no trace.          *)
AcknowledgedEditsLast == calm /\ Quiet => file = expected

(* An import never takes away from an operator: what the lab said of a     *)
(* device before, its label, whether it is controlled, its host and its    *)
(* address, it says after, and nothing is removed.                         *)
ImportsKeepLocalFields ==
  \A s \in Slot :
    ops[s].do = "sync" /\ ops[s].step = "writing" /\ ops[s].edit # NoEdit /\ calm =>
      \A table \in DOMAIN Empty : \A id \in DOMAIN expected.lab[table] :
        /\ id \in DOMAIN ops[s].copy.lab[table]
        /\ ops[s].copy.lab[table][id] = expected.lab[table][id]

(* A host added for a camera is a host of that camera once the assignment  *)
(* is over, or is gone again; but for a camera removed meanwhile, a call   *)
(* that was lost and a removal of the host that was refused as well.       *)
NoHostWithoutCamera ==
  calm /\ Quiet /\ ~ excused /\ assignment.step = "closed" /\ Host.id \in DOMAIN file.lab.adb =>
    \E c \in DOMAIN file.lab.cameras : file.lab.cameras[c].adbId = Host.id

=============================================================================
