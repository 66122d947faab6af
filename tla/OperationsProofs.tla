-------------------------- MODULE OperationsProofs --------------------------
(***************************************************************************)
(* Proofs about what operators edit: the registry's file (Registry), the   *)
(* settings (Settings) and the registry's page (LabPage), each on its own  *)
(* for every instance of it, and then about the scenes of Operations, the  *)
(* forms (FormsProofs) among them.                                         *)
(***************************************************************************)
EXTENDS CommandsProofs, FormsProofs

-----------------------------------------------------------------------------
(* The registry: shapes.                                                   *)
LabShape(l) ==
  l = [candyboxes |-> l.candyboxes, cameras |-> l.cameras, tvs |-> l.tvs, adb |-> l.adb]
DbShape(d) == d = [suitest |-> d.suitest, lab |-> d.lab] /\ LabShape(d.lab)

OpFields(o) ==
  o = [do |-> o.do, step |-> o.step, edit |-> o.edit, copy |-> o.copy, clashed |-> o.clashed]

(* An operation in a slot: an edit is one the routes know, and only what   *)
(* changes the file gets to read it.                                       *)
Operation(o) ==
  /\ OpFields(o) /\ o.clashed \in BOOLEAN
  /\ o.do \in {"edit", "sync", "look"}
  /\ o.step \in {"init", "fetch", "read", "write", "writing", "done", "failed"}
  /\ o.do = "edit" => IsEdit(o.edit) /\ o.step \notin {"init", "fetch"}
  /\ o.do = "look" => o.step \notin {"fetch", "read"}
  /\ o.step \in {"write", "writing"} => DbShape(o.copy)

RegistryShapes ==
  /\ file = Unreadable \/ DbShape(file)
  /\ ops = [s \in Slot |-> ops[s]] /\ \A s \in Slot : ops[s] = Idle \/ Operation(ops[s])
  /\ assignment = [step |-> assignment.step, slot |-> assignment.slot]
  /\ assignment.slot \in Slot \union {None}
  /\ assignment.step \in {"closed", "adding", "naming", "dropping"}
  /\ assignment.step = "closed" <=> assignment.slot = None
  /\ DbShape(expected) /\ calm \in BOOLEAN /\ excused \in BOOLEAN

(* While nothing has met: one operation at a time holds what it read, it   *)
(* holds the file with its own change made, and the file is what has been  *)
(* acknowledged unless it is being written.                                *)
OneHolds ==
  calm =>
    /\ \A s, other \in Slot : Holds(s) /\ Holds(other) => s = other
    /\ \A s \in Slot : Holds(s) =>
         /\ ops[s].do # "look" /\ (ops[s].step = "writing" => ~ ops[s].clashed)
         /\ ops[s].copy = ChangedBy(ops[s], expected)
    /\ (\A s \in Slot : ops[s].step # "writing") => file = expected

RegistryInv == RegistryShapes /\ OneHolds

-----------------------------------------------------------------------------
(* What a route does to its table leaves the other tables alone, and the   *)
(* lab keeps its shape.                                                    *)
LEMMA AppliedShape ==
  ASSUME NEW l, LabShape(l), NEW e, IsEdit(e)
  PROVE  /\ LabShape(Applied(l, e))
         /\ \A table \in Tables : table # e.table => Applied(l, e)[table] = l[table]
<1>1. Tables = {"candyboxes", "cameras", "tvs", "adb"}
  BY DEF Tables, Empty
<1>2. e.table \in Tables /\ e.do \in {"add", "remove", "update"}
  BY DEF IsEdit
<1> DEFINE Changed(new) == /\ LabShape(new)
                           /\ \A table \in Tables : table # e.table => new[table] = l[table]
<1>3. CASE e.table = "candyboxes"
  <2>1. Applied(l, e) = EditCandyboxes(l, e)
    BY <1>3 DEF Applied
  <2>2. ASSUME NEW t PROVE Changed([l EXCEPT !.candyboxes = t])
    BY <1>1, <1>3 DEF LabShape
  <2>3. \E t : EditCandyboxes(l, e) = [l EXCEPT !.candyboxes = t]
    BY <1>2 DEF EditCandyboxes
  <2> QED
    BY <2>1, <2>2, <2>3
<1>4. CASE e.table = "cameras"
  <2>1. Applied(l, e) = EditCameras(l, e)
    BY <1>4 DEF Applied
  <2>2. ASSUME NEW t PROVE Changed([l EXCEPT !.cameras = t])
    BY <1>1, <1>4 DEF LabShape
  <2>3. \E t : EditCameras(l, e) = [l EXCEPT !.cameras = t]
    BY <1>2 DEF EditCameras
  <2> QED
    BY <2>1, <2>2, <2>3
<1>5. CASE e.table = "tvs"
  <2>1. Applied(l, e) = EditTvs(l, e)
    BY <1>5 DEF Applied
  <2>2. ASSUME NEW t PROVE Changed([l EXCEPT !.tvs = t])
    BY <1>1, <1>5 DEF LabShape
  <2>3. \E t : EditTvs(l, e) = [l EXCEPT !.tvs = t]
    BY <1>2 DEF EditTvs
  <2> QED
    BY <2>1, <2>2, <2>3
<1>6. CASE e.table = "adb"
  <2>1. Applied(l, e) = EditAdb(l, e)
    BY <1>6 DEF Applied
  <2>2. ASSUME NEW t PROVE Changed([l EXCEPT !.adb = t])
    BY <1>1, <1>6 DEF LabShape
  <2>3. \E t : EditAdb(l, e) = [l EXCEPT !.adb = t]
    BY <1>2 DEF EditAdb
  <2> QED
    BY <2>1, <2>2, <2>3
<1> QED
  BY <1>1, <1>2, <1>3, <1>4, <1>5, <1>6

(* What is given wins, and the rest stays.                                 *)
LEMMA OverKeeps ==
  ASSUME NEW given, NEW there
  PROVE  /\ \A x \in DOMAIN given : x \in DOMAIN Over(given, there) /\ Over(given, there)[x] = given[x]
         /\ \A x \in DOMAIN there :
              x \in DOMAIN Over(given, there)
                /\ (x \notin DOMAIN given => Over(given, there)[x] = there[x])
BY DEF Over

(* An import keeps the shape, the hosts, and every entry of every table as *)
(* it was.                                                                 *)
Keeps(old, new) == \A x \in DOMAIN old : x \in DOMAIN new /\ new[x] = old[x]

LEMMA SyncedShape ==
  ASSUME NEW d, DbShape(d), NEW lists
  PROVE  /\ DbShape(SyncedFrom(d, lists))
         /\ SyncedFrom(d, lists).lab.adb = d.lab.adb
         /\ \A table \in Tables : Keeps(d.lab[table], SyncedFrom(d, lists).lab[table])
<1> DEFINE one == WithCandyboxes(d.lab, lists.controlUnits)
           two == WithTvs(one, lists.devices)
           three == WithCameras(two, lists.captures)
<1>1. ASSUME NEW given, NEW there PROVE Keeps(given, Over(given, there))
  BY OverKeeps DEF Keeps
<1>2. ASSUME NEW l, LabShape(l), NEW t
      PROVE  /\ LabShape([l EXCEPT !.candyboxes = t]) /\ LabShape([l EXCEPT !.tvs = t])
             /\ LabShape([l EXCEPT !.cameras = t])
             /\ [l EXCEPT !.candyboxes = t] = [candyboxes |-> t, cameras |-> l.cameras,
                  tvs |-> l.tvs, adb |-> l.adb]
             /\ [l EXCEPT !.tvs = t] = [candyboxes |-> l.candyboxes, cameras |-> l.cameras,
                  tvs |-> t, adb |-> l.adb]
             /\ [l EXCEPT !.cameras = t] = [candyboxes |-> l.candyboxes, cameras |-> t,
                  tvs |-> l.tvs, adb |-> l.adb]
  BY <1>2 DEF LabShape
<1>3. LabShape(d.lab)
  BY DEF DbShape
<1>4. /\ LabShape(one) /\ one.adb = d.lab.adb /\ one.cameras = d.lab.cameras /\ one.tvs = d.lab.tvs
      /\ Keeps(d.lab.candyboxes, one.candyboxes)
  <2>1. PICK t : one = [d.lab EXCEPT !.candyboxes = Over(d.lab.candyboxes, t)]
    BY DEF WithCandyboxes
  <2> HIDE DEF one
  <2> DEFINE new == Over(d.lab.candyboxes, t)
  <2>2. Keeps(d.lab.candyboxes, new) /\ one = [d.lab EXCEPT !.candyboxes = new]
    BY <1>1, <2>1
  <2> HIDE DEF new
  <2>3. LabShape(one) /\ one = [candyboxes |-> new, cameras |-> d.lab.cameras,
          tvs |-> d.lab.tvs, adb |-> d.lab.adb]
    BY <1>2, <1>3, <2>2
  <2> QED
    BY <2>2, <2>3
<1>5. /\ LabShape(two) /\ two.adb = one.adb /\ two.cameras = one.cameras
           /\ two.candyboxes = one.candyboxes
      /\ Keeps(one.tvs, two.tvs)
  <2>1. PICK t : two = [one EXCEPT !.tvs = Over(one.tvs, t)]
    BY DEF WithTvs
  <2> HIDE DEF one, two
  <2> DEFINE new == Over(one.tvs, t)
  <2>2. Keeps(one.tvs, new) /\ two = [one EXCEPT !.tvs = new]
    BY <1>1, <2>1
  <2> HIDE DEF new
  <2>3. LabShape(two) /\ two = [candyboxes |-> one.candyboxes, cameras |-> one.cameras,
          tvs |-> new, adb |-> one.adb]
    BY <1>2, <1>4, <2>2
  <2> QED
    BY <2>2, <2>3
<1>6. /\ LabShape(three) /\ three.adb = two.adb /\ three.tvs = two.tvs
           /\ three.candyboxes = two.candyboxes
      /\ Keeps(two.cameras, three.cameras)
  <2>1. PICK t : three = [two EXCEPT !.cameras = Over(two.cameras, t)]
    BY DEF WithCameras
  <2> HIDE DEF two, three
  <2> DEFINE new == Over(two.cameras, t)
  <2>2. Keeps(two.cameras, new) /\ three = [two EXCEPT !.cameras = new]
    BY <1>1, <2>1
  <2> HIDE DEF new
  <2>3. LabShape(three) /\ three = [candyboxes |-> two.candyboxes, cameras |-> new,
          tvs |-> two.tvs, adb |-> two.adb]
    BY <1>2, <1>5, <2>2
  <2> QED
    BY <2>2, <2>3
<1>7. SyncedFrom(d, lists) = [suitest |-> lists, lab |-> three]
  BY DEF SyncedFrom, ReplaceFromSuitest
<1>8. ASSUME NEW table \in Tables PROVE Keeps(d.lab[table], three[table])
  <2> HIDE DEF one, two, three
  <2>1. table \in {"candyboxes", "cameras", "tvs", "adb"}
    BY DEF Tables, Empty
  <2>2. Keeps(d.lab.candyboxes, three.candyboxes) /\ Keeps(d.lab.tvs, three.tvs)
          /\ Keeps(d.lab.cameras, three.cameras)
    BY <1>4, <1>5, <1>6
  <2>3. Keeps(d.lab.adb, three.adb)
    BY <1>4, <1>5, <1>6 DEF Keeps
  <2> QED
    BY <2>1, <2>2, <2>3
<1> HIDE DEF three
<1> QED
  BY <1>4, <1>5, <1>6, <1>7, <1>8 DEF DbShape

(* So whatever an operation makes of the file has the shape of a file.     *)
LEMMA ChangedShape ==
  ASSUME NEW d, DbShape(d), NEW o, o.do = "sync" \/ IsEdit(o.edit)
  PROVE  DbShape(ChangedBy(o, d))
<1>1. CASE o.do = "sync"
  BY <1>1, SyncedShape DEF ChangedBy
<1>2. CASE o.do # "sync"
  <2>1. LabShape(d.lab)
    BY DEF DbShape
  <2>2. LabShape(Applied(d.lab, o.edit))
    BY <1>2, <2>1, AppliedShape
  <2>3. ASSUME NEW l, LabShape(l) PROVE DbShape([d EXCEPT !.lab = l])
    BY <2>3 DEF DbShape
  <2> QED
    BY <1>2, <2>2, <2>3 DEF ChangedBy
<1> QED
  BY <1>1, <1>2

-----------------------------------------------------------------------------
(* The steps of an operation, field by field.                              *)
Goes(o, st) == [o EXCEPT !.step = st]
Takes(o, st, new) == [o EXCEPT !.step = st, !.copy = new]
Gets(o, st, lists) == [o EXCEPT !.step = st, !.edit = lists]
Meeting(o, st, any) == [o EXCEPT !.step = st, !.clashed = any]
Spoilt(o, any) == [o EXCEPT !.clashed = any]

LEMMA OperationSteps ==
  ASSUME NEW o, OpFields(o), NEW st, NEW x
  PROVE  /\ Goes(o, st) =
              [do |-> o.do, step |-> st, edit |-> o.edit, copy |-> o.copy, clashed |-> o.clashed]
         /\ Takes(o, st, x) =
              [do |-> o.do, step |-> st, edit |-> o.edit, copy |-> x, clashed |-> o.clashed]
         /\ Gets(o, st, x) =
              [do |-> o.do, step |-> st, edit |-> x, copy |-> o.copy, clashed |-> o.clashed]
         /\ Meeting(o, st, x) =
              [do |-> o.do, step |-> st, edit |-> o.edit, copy |-> o.copy, clashed |-> x]
         /\ Spoilt(o, x) =
              [do |-> o.do, step |-> o.step, edit |-> o.edit, copy |-> o.copy, clashed |-> x]
<1>1. PICK a, b, c, d, e : o = [do |-> a, step |-> b, edit |-> c, copy |-> d, clashed |-> e]
  BY DEF OpFields
<1>2. o.do = a /\ o.step = b /\ o.edit = c /\ o.copy = d /\ o.clashed = e
  BY <1>1
<1>3. [o EXCEPT !.step = st] = [do |-> a, step |-> st, edit |-> c, copy |-> d, clashed |-> e]
  BY <1>1
<1>4. [o EXCEPT !.step = st, !.copy = x] = [do |-> a, step |-> st, edit |-> c, copy |-> x, clashed |-> e]
  <2> DEFINE p == [o EXCEPT !.step = st]
  <2>1. [o EXCEPT !.step = st, !.copy = x] = [p EXCEPT !.copy = x]
    OBVIOUS
  <2>2. p = [do |-> a, step |-> st, edit |-> c, copy |-> d, clashed |-> e]
    BY <1>3
  <2> HIDE DEF p
  <2>3. [p EXCEPT !.copy = x] = [do |-> a, step |-> st, edit |-> c, copy |-> x, clashed |-> e]
    BY <2>2
  <2> QED
    BY <2>1, <2>3
<1>5. [o EXCEPT !.step = st, !.edit = x] = [do |-> a, step |-> st, edit |-> x, copy |-> d, clashed |-> e]
  <2> DEFINE p == [o EXCEPT !.step = st]
  <2>1. [o EXCEPT !.step = st, !.edit = x] = [p EXCEPT !.edit = x]
    OBVIOUS
  <2>2. p = [do |-> a, step |-> st, edit |-> c, copy |-> d, clashed |-> e]
    BY <1>3
  <2> HIDE DEF p
  <2>3. [p EXCEPT !.edit = x] = [do |-> a, step |-> st, edit |-> x, copy |-> d, clashed |-> e]
    BY <2>2
  <2> QED
    BY <2>1, <2>3
<1>6. [o EXCEPT !.step = st, !.clashed = x] = [do |-> a, step |-> st, edit |-> c, copy |-> d,
        clashed |-> x]
  <2> DEFINE p == [o EXCEPT !.step = st]
  <2>1. [o EXCEPT !.step = st, !.clashed = x] = [p EXCEPT !.clashed = x]
    OBVIOUS
  <2>2. p = [do |-> a, step |-> st, edit |-> c, copy |-> d, clashed |-> e]
    BY <1>3
  <2> HIDE DEF p
  <2>3. [p EXCEPT !.clashed = x] = [do |-> a, step |-> st, edit |-> c, copy |-> d, clashed |-> x]
    BY <2>2
  <2> QED
    BY <2>1, <2>3
<1>7. [o EXCEPT !.clashed = x] = [do |-> a, step |-> b, edit |-> c, copy |-> d, clashed |-> x]
  BY <1>1
<1> QED
  BY <1>2, <1>3, <1>4, <1>5, <1>6, <1>7 DEF Goes, Takes, Gets, Meeting, Spoilt

(* A change of one slot.                                                   *)
LEMMA OneSlot ==
  ASSUME NEW f, f = [s \in Slot |-> f[s]], NEW s \in Slot, NEW x, NEW g, g = [f EXCEPT ![s] = x]
  PROVE  g = [o \in Slot |-> g[o]] /\ g[s] = x /\ \A o \in Slot \ {s} : g[o] = f[o]
OBVIOUS

(* What is said of the assignment, and of the two flags.                   *)
AssignmentShape ==
  /\ assignment = [step |-> assignment.step, slot |-> assignment.slot]
  /\ assignment.slot \in Slot \union {None}
  /\ assignment.step \in {"closed", "adding", "naming", "dropping"}
  /\ assignment.step = "closed" <=> assignment.slot = None
  /\ calm \in BOOLEAN /\ excused \in BOOLEAN

(* A step of an operation that holds nothing, before or after.             *)
LEMMA NothingHeld ==
  ASSUME RegistryInv, NEW s \in Slot, ~ Holds(s),
         NEW x, x = Idle \/ Operation(x), x.step \notin {"write", "writing"},
         ops' = [ops EXCEPT ![s] = x], UNCHANGED <<file, expected, calm>>, AssignmentShape'
  PROVE  RegistryInv'
<1>1. /\ ops' = [o \in Slot |-> ops'[o]] /\ ops'[s] = x
      /\ \A o \in Slot \ {s} : ops'[o] = ops[o]
  BY OneSlot DEF RegistryInv, RegistryShapes
<1>2. RegistryShapes'
  BY <1>1 DEF RegistryInv, RegistryShapes, AssignmentShape
<1>3. ASSUME NEW o \in Slot
      PROVE  /\ Holds(o)' <=> Holds(o)
             /\ ops'[o].step = "writing" <=> ops[o].step = "writing"
             /\ Holds(o) => ops'[o] = ops[o]
  BY <1>1 DEF Holds
<1>4. OneHolds'
  <2>1. SUFFICES ASSUME calm
                 PROVE  /\ \A t, other \in Slot : Holds(t)' /\ Holds(other)' => t = other
                        /\ \A t \in Slot : Holds(t)' =>
                             /\ ops'[t].do # "look" /\ (ops'[t].step = "writing" => ~ ops'[t].clashed)
                             /\ ops'[t].copy = ChangedBy(ops'[t], expected)
                        /\ (\A t \in Slot : ops'[t].step # "writing") => file = expected
    BY DEF OneHolds
  <2> QED
    BY <1>3, <2>1 DEF RegistryInv, OneHolds
<1> QED
  BY <1>2, <1>4 DEF RegistryInv

(* What an operation makes of a file is its own: it depends on nothing but *)
(* what it does and its edit.                                              *)
LEMMA SameChange ==
  ASSUME NEW o, NEW p, o.do = p.do, o.edit = p.edit, NEW d
  PROVE  ChangedBy(o, d) = ChangedBy(p, d)
BY DEF ChangedBy

LEMMA SeedShape == DbShape(Seeded(Seed)) /\ Seeded(Seed).lab.adb = Seed.adb
                   /\ Seeded(Seed).lab.cameras = Controlled(Seed.cameras)
BY DEF Seeded, DbShape, LabShape

LEMMA InvLooks ==
  ASSUME RegistryInv, NEW s \in Slot, Looks(s)
  PROVE  RegistryInv'
<1>1. Operation(ops[s]) /\ ops[s].step = "init" /\ ~ Holds(s)
  BY DEF RegistryInv, RegistryShapes, Looks, Holds, Idle
<1>2. AssignmentShape
  BY DEF RegistryInv, RegistryShapes, AssignmentShape
<1>3. CASE file # Unreadable
  <2> DEFINE st == IF ops[s].do = "sync" THEN "fetch" ELSE "done"
             x == Goes(ops[s], st)
  <2>1. /\ ops' = [ops EXCEPT ![s] = x]
        /\ UNCHANGED <<file, expected, calm>> /\ AssignmentShape'
    BY <1>2, <1>3 DEF Looks, AssignmentShape, Goes
  <2>2. x = [do |-> ops[s].do, step |-> st, edit |-> ops[s].edit, copy |-> ops[s].copy,
             clashed |-> ops[s].clashed]
    BY <1>1, OperationSteps DEF Operation
  <2>3. Operation(x) /\ x.step \notin {"write", "writing"}
    <3> HIDE DEF x
    <3> QED BY <1>1, <2>2 DEF Operation, OpFields
  <2> HIDE DEF x
  <2> QED
    BY <1>1, <2>1, <2>3, NothingHeld
<1>4. CASE file = Unreadable
  <2> DEFINE x == Takes(ops[s], "write", Seeded(Seed))
  <2>1. /\ ops' = [ops EXCEPT ![s] = x] /\ calm' = FALSE
        /\ UNCHANGED <<file, assignment, expected, excused>>
    BY <1>4 DEF Looks, Takes
  <2>2. x = [do |-> ops[s].do, step |-> "write", edit |-> ops[s].edit, copy |-> Seeded(Seed),
             clashed |-> ops[s].clashed]
    BY <1>1, OperationSteps DEF Operation
  <2>3. Operation(x)
    <3> HIDE DEF x
    <3> QED BY <1>1, <2>2, SeedShape DEF Operation, OpFields
  <2> HIDE DEF x
  <2>4. /\ ops' = [o \in Slot |-> ops'[o]] /\ ops'[s] = x
        /\ \A o \in Slot \ {s} : ops'[o] = ops[o]
    BY <2>1, OneSlot DEF RegistryInv, RegistryShapes
  <2> QED
    BY <2>1, <2>3, <2>4 DEF RegistryInv, RegistryShapes, OneHolds
<1> QED
  BY <1>3, <1>4

LEMMA InvFetched ==
  ASSUME RegistryInv, NEW s \in Slot, Fetched(s)
  PROVE  RegistryInv'
<1>1. Operation(ops[s]) /\ ops[s].step = "fetch" /\ ~ Holds(s) /\ ops[s].do = "sync"
  <2>1. ops[s].step = "fetch"
    BY DEF Fetched
  <2>2. Operation(ops[s])
    BY <2>1 DEF RegistryInv, RegistryShapes, Idle
  <2> QED
    BY <2>1, <2>2 DEF Operation, Holds
<1>2. UNCHANGED <<file, expected, calm>> /\ AssignmentShape'
  BY DEF RegistryInv, RegistryShapes, AssignmentShape, Fetched
<1>3. CASE ops' = [ops EXCEPT ![s].step = "done"]
  <2> DEFINE x == Goes(ops[s], "done")
  <2>1. ops' = [ops EXCEPT ![s] = x]
    BY <1>3 DEF Goes
  <2>2. x = [do |-> ops[s].do, step |-> "done", edit |-> ops[s].edit, copy |-> ops[s].copy,
             clashed |-> ops[s].clashed]
    BY <1>1, OperationSteps DEF Operation
  <2> HIDE DEF x
  <2>3. Operation(x) /\ x.step \notin {"write", "writing"}
    BY <1>1, <2>2 DEF Operation, OpFields
  <2> QED
    BY <1>1, <1>2, <2>1, <2>3, NothingHeld
<1>4. ASSUME NEW lists \in Lists, ops' = [ops EXCEPT ![s].step = "read", ![s].edit = lists]
      PROVE  RegistryInv'
  <2> DEFINE x == Gets(ops[s], "read", lists)
  <2>1. ops' = [ops EXCEPT ![s] = x]
    BY <1>4 DEF RegistryInv, RegistryShapes, Gets
  <2>2. x = [do |-> ops[s].do, step |-> "read", edit |-> lists, copy |-> ops[s].copy,
             clashed |-> ops[s].clashed]
    BY <1>1, OperationSteps DEF Operation
  <2> HIDE DEF x
  <2>3. Operation(x) /\ x.step \notin {"write", "writing"}
    BY <1>1, <2>2 DEF Operation, OpFields
  <2> QED
    BY <1>1, <1>2, <2>1, <2>3, NothingHeld
<1> QED
  BY <1>3, <1>4 DEF Fetched

LEMMA InvReads ==
  ASSUME RegistryInv, NEW s \in Slot, Reads(s)
  PROVE  RegistryInv'
<1>1. /\ Operation(ops[s]) /\ ops[s].step = "read" /\ ~ Holds(s)
      /\ ops[s].do = "sync" \/ IsEdit(ops[s].edit)
  BY DEF RegistryInv, RegistryShapes, Reads, Holds, Idle, Operation
<1>2. AssignmentShape
  BY DEF RegistryInv, RegistryShapes, AssignmentShape
<1>3. CASE file = Unreadable
  <2> DEFINE x == Goes(ops[s], "failed")
  <2>1. /\ ops' = [ops EXCEPT ![s] = x]
        /\ UNCHANGED <<file, expected, calm>> /\ AssignmentShape'
    BY <1>2, <1>3 DEF Reads, AssignmentShape, Goes
  <2>2. x = [do |-> ops[s].do, step |-> "failed", edit |-> ops[s].edit, copy |-> ops[s].copy,
             clashed |-> ops[s].clashed]
    BY <1>1, OperationSteps DEF Operation
  <2> HIDE DEF x
  <2>3. Operation(x) /\ x.step \notin {"write", "writing"}
    BY <1>1, <2>2 DEF Operation, OpFields
  <2> QED
    BY <1>1, <2>1, <2>3, NothingHeld
<1>4. CASE file # Unreadable
  <2> DEFINE new == ChangedBy(ops[s], file)
             x == Takes(ops[s], "write", new)
  <2>1. /\ ops' = [ops EXCEPT ![s] = x] /\ calm' = (calm /\ ~ Meets(s))
        /\ UNCHANGED <<file, assignment, expected, excused>>
    BY <1>4 DEF Reads, Takes
  <2>2. x = [do |-> ops[s].do, step |-> "write", edit |-> ops[s].edit, copy |-> new,
             clashed |-> ops[s].clashed]
    BY <1>1, OperationSteps DEF Operation
  <2>3. DbShape(new)
    BY <1>1, <1>4, ChangedShape DEF RegistryInv, RegistryShapes
  <2>4. x.do = ops[s].do /\ x.edit = ops[s].edit /\ x.copy = new /\ x.step = "write"
    <3> HIDE DEF x, new
    <3> QED BY <2>2
  <2>5. Operation(x)
    <3> HIDE DEF x, new
    <3> QED BY <1>1, <2>2, <2>3 DEF Operation, OpFields
  <2>6. ASSUME file = expected PROVE x.copy = ChangedBy(x, expected)
    <3> HIDE DEF x, new
    <3>1. ChangedBy(x, expected) = ChangedBy(ops[s], expected)
      BY <2>4, SameChange
    <3>2. x.copy = ChangedBy(ops[s], expected)
      BY <2>4, <2>6 DEF new
    <3> QED
      BY <3>1, <3>2
  <2> HIDE DEF x, new
  <2>7. /\ ops' = [o \in Slot |-> ops'[o]] /\ ops'[s] = x
        /\ \A o \in Slot \ {s} : ops'[o] = ops[o]
    BY <2>1, OneSlot DEF RegistryInv, RegistryShapes
  <2>8. RegistryShapes'
    BY <1>2, <2>1, <2>5, <2>7 DEF RegistryInv, RegistryShapes
  <2>9. OneHolds'
    <3>1. SUFFICES ASSUME calm, ~ Meets(s)
                   PROVE  OneHolds'
      BY <2>1 DEF OneHolds
    <3>2. \A o \in Slot : Holds(o)' => o = s
      BY <2>7, <3>1 DEF Meets, Holds
    <3>3. file = expected
      BY <1>1, <3>1 DEF RegistryInv, OneHolds, Meets, Holds
    <3> QED
      <4>1. x.do # "look" /\ x.copy = ChangedBy(x, expected)
        BY <1>1, <2>4, <2>6, <3>3 DEF Operation
      <4> QED
        BY <2>1, <2>4, <2>7, <3>2, <3>3, <4>1 DEF OneHolds
  <2> QED
    BY <2>8, <2>9 DEF RegistryInv
<1> QED
  BY <1>3, <1>4

LEMMA InvWriteBegins ==
  ASSUME RegistryInv, NEW s \in Slot, WriteBegins(s)
  PROVE  RegistryInv'
<1> DEFINE others == {other \in Slot : ops[other].step = "writing"}
           x == Meeting(ops[s], "writing", others # {})
<1>1. Operation(ops[s]) /\ ops[s].step = "write" /\ Holds(s)
  <2>1. ops[s].step = "write"
    BY DEF WriteBegins
  <2> QED
    BY <2>1 DEF RegistryInv, RegistryShapes, Holds, Idle
<1>2. /\ ops' = [o \in Slot |->
             IF o = s THEN x ELSE IF o \in others THEN Spoilt(ops[o], TRUE) ELSE ops[o]]
      /\ file' = Unreadable /\ UNCHANGED <<assignment, expected, calm, excused>>
  BY DEF WriteBegins, Meeting, Spoilt
<1>3. /\ x.do = ops[s].do /\ x.edit = ops[s].edit /\ x.copy = ops[s].copy /\ x.step = "writing"
      /\ x.clashed = (others # {}) /\ Operation(x)
  <2>1. x = [do |-> ops[s].do, step |-> "writing", edit |-> ops[s].edit, copy |-> ops[s].copy,
             clashed |-> others # {}]
    BY <1>1, OperationSteps DEF Operation
  <2> HIDE DEF x
  <2> QED
    BY <1>1, <2>1 DEF Operation, OpFields
<1>4. ASSUME NEW o \in others
      PROVE  Operation(Spoilt(ops[o], TRUE)) /\ Holds(o)
  <2>1. Operation(ops[o]) /\ ops[o].step = "writing"
    BY DEF RegistryInv, RegistryShapes, Idle
  <2> DEFINE y == Spoilt(ops[o], TRUE)
  <2>2. y = [do |-> ops[o].do, step |-> ops[o].step, edit |-> ops[o].edit, copy |-> ops[o].copy,
             clashed |-> TRUE]
    BY <2>1, OperationSteps DEF Operation
  <2> HIDE DEF y
  <2>3. Operation(y)
    BY <2>1, <2>2 DEF Operation, OpFields
  <2> QED
    BY <2>1, <2>3 DEF y, Holds
<1>5. RegistryShapes'
  <2> HIDE DEF x
  <2>1. ops' = [o \in Slot |-> ops'[o]]
    BY <1>2
  <2>2. \A o \in Slot : ops'[o] = Idle \/ Operation(ops'[o])
    BY <1>2, <1>3, <1>4 DEF RegistryInv, RegistryShapes
  <2> QED
    BY <1>2, <2>1, <2>2 DEF RegistryInv, RegistryShapes
<1>6. OneHolds'
  <2>1. SUFFICES ASSUME calm PROVE OneHolds'
    BY <1>2 DEF OneHolds
  <2>2. \A o \in Slot : Holds(o) => o = s
    BY <1>1, <2>1 DEF RegistryInv, OneHolds
  <2>3. others = {}
    BY <1>1, <1>4, <2>2
  <2>4. ops[s].do # "look" /\ ops[s].copy = ChangedBy(ops[s], expected)
    BY <1>1, <2>1 DEF RegistryInv, OneHolds
  <2>5. ChangedBy(x, expected) = ChangedBy(ops[s], expected)
    <3> HIDE DEF x
    <3> QED BY <1>3, SameChange
  <2> HIDE DEF x
  <2>6. ops'[s] = x /\ \A o \in Slot \ {s} : ops'[o] = ops[o]
    BY <1>2, <2>3
  <2>7. \A o \in Slot : Holds(o)' => o = s
    BY <2>2, <2>6 DEF Holds
  <2>8. ~ (\A o \in Slot : ops'[o].step # "writing")
    BY <1>3, <2>6
  <2> QED
    BY <1>2, <1>3, <2>3, <2>4, <2>5, <2>6, <2>7, <2>8 DEF OneHolds
<1> QED
  BY <1>5, <1>6 DEF RegistryInv

LEMMA InvWriteEnds ==
  ASSUME RegistryInv, NEW s \in Slot, WriteEnds(s)
  PROVE  RegistryInv'
<1> DEFINE st == IF ops[s].edit = NoEdit /\ ops[s].do = "sync" THEN "fetch" ELSE "done"
           x == Goes(ops[s], st)
<1>1. Operation(ops[s]) /\ ops[s].step = "writing" /\ Holds(s)
  BY DEF RegistryInv, RegistryShapes, WriteEnds, Holds, Idle
<1>2. /\ ops' = [ops EXCEPT ![s] = x]
      /\ file' \in {ops[s].copy} \union (IF ops[s].clashed THEN {Unreadable} ELSE {})
      /\ expected' = IF calm THEN ChangedBy(ops[s], expected) ELSE expected
      /\ UNCHANGED <<assignment, calm, excused>>
  BY DEF WriteEnds, Goes
<1>3. x = [do |-> ops[s].do, step |-> st, edit |-> ops[s].edit, copy |-> ops[s].copy,
           clashed |-> ops[s].clashed]
  BY <1>1, OperationSteps DEF Operation
<1>4. Operation(x) /\ x.step \notin {"write", "writing"}
  <2> HIDE DEF x
  <2> QED BY <1>1, <1>3 DEF Operation, OpFields
<1> HIDE DEF x
<1>5. /\ ops' = [o \in Slot |-> ops'[o]] /\ ops'[s] = x
      /\ \A o \in Slot \ {s} : ops'[o] = ops[o]
  BY <1>2, OneSlot DEF RegistryInv, RegistryShapes
<1>6. calm => ops[s].do = "sync" \/ IsEdit(ops[s].edit)
  BY <1>1 DEF RegistryInv, OneHolds, Operation
<1>7. calm => DbShape(ChangedBy(ops[s], expected))
  BY <1>6, ChangedShape DEF RegistryInv, RegistryShapes
<1>8. DbShape(expected') /\ (file' = Unreadable \/ DbShape(file'))
  BY <1>1, <1>2, <1>7 DEF RegistryInv, RegistryShapes, Operation
<1>9. RegistryShapes'
  <2>1. \A o \in Slot : ops'[o] = Idle \/ Operation(ops'[o])
    BY <1>4, <1>5 DEF RegistryInv, RegistryShapes
  <2> QED
    BY <1>2, <1>5, <1>8, <2>1 DEF RegistryInv, RegistryShapes
<1>10. OneHolds'
  <2>1. SUFFICES ASSUME calm PROVE OneHolds'
    BY <1>2 DEF OneHolds
  <2>2. \A o \in Slot : ~ Holds(o)'
    BY <1>1, <1>4, <1>5, <2>1 DEF RegistryInv, OneHolds, Holds
  <2>3. file' = expected'
    BY <1>1, <1>2, <2>1 DEF RegistryInv, OneHolds
  <2> QED
    BY <2>2, <2>3 DEF OneHolds
<1> QED
  BY <1>9, <1>10 DEF RegistryInv

LEMMA InvCrashes ==
  ASSUME RegistryInv, Crashes
  PROVE  RegistryInv'
<1>1. /\ file' \in {file} \union {ops[s].copy : s \in {s \in Slot : ops[s].step = "writing"}}
      /\ calm' = (calm /\ \A s \in Slot : ops[s].step # "writing")
      /\ ops' = [s \in Slot |-> Idle] /\ expected' = expected
      /\ excused' = (excused \/ assignment.slot # None)
      /\ assignment' = IF assignment.slot = None THEN assignment ELSE [step |-> "closed", slot |-> None]
  BY DEF Crashes
<1>2. file' = Unreadable \/ DbShape(file')
  <2>1. ASSUME NEW s \in Slot, ops[s].step = "writing" PROVE DbShape(ops[s].copy)
    BY <2>1 DEF RegistryInv, RegistryShapes, Idle, Operation
  <2> QED
    BY <1>1, <2>1 DEF RegistryInv, RegistryShapes
<1>3. RegistryShapes'
  BY <1>1, <1>2 DEF RegistryInv, RegistryShapes
<1>4. calm' => file' = expected'
  BY <1>1 DEF RegistryInv, OneHolds
<1>5. \A s \in Slot : ~ Holds(s)'
  BY <1>1 DEF Holds, Idle
<1> QED
  BY <1>3, <1>4, <1>5 DEF RegistryInv, OneHolds

(* The operations that begin, and those that are over.                     *)
LEMMA NewOperations ==
  /\ \A e : IsEdit(e) => Operation(NewEdit(e)) /\ NewEdit(e).step = "read"
  /\ Operation(NewSync) /\ NewSync.step = "init" /\ Operation(NewLook) /\ NewLook.step = "init"
  /\ IsEdit(AddHost) /\ IsEdit(NameHost) /\ IsEdit(DropHost)
<1>1. Tables = {"candyboxes", "cameras", "tvs", "adb"}
  BY DEF Tables, Empty
<1>2. IsEdit(AddHost) /\ IsEdit(NameHost) /\ IsEdit(DropHost)
  BY <1>1 DEF IsEdit, AddHost, NameHost, DropHost, Edit
<1>3. ASSUME NEW e, IsEdit(e) PROVE Operation(NewEdit(e)) /\ NewEdit(e).step = "read"
  BY <1>3 DEF Operation, OpFields, NewEdit
<1>4. Operation(NewSync) /\ NewSync.step = "init" /\ Operation(NewLook) /\ NewLook.step = "init"
  BY DEF Operation, OpFields, NewSync, NewLook
<1> QED
  BY <1>2, <1>3, <1>4

LEMMA InvBegins ==
  ASSUME RegistryInv, NEW s \in Slot, NEW x, Operation(x), x.step \in {"read", "init"}, Begins(s, x),
         UNCHANGED <<file, expected, calm>>, AssignmentShape'
  PROVE  RegistryInv'
<1>1. ~ Holds(s) /\ ops' = [ops EXCEPT ![s] = x]
  BY DEF Begins, Holds
<1> QED
  BY <1>1, NothingHeld

LEMMA InvReturns ==
  ASSUME RegistryInv, NEW s \in Slot, Returns(s)
  PROVE  RegistryInv'
<1>1. ~ Holds(s) /\ ops' = [ops EXCEPT ![s] = Idle] /\ UNCHANGED <<file, expected, calm>>
  BY DEF Returns, Holds
<1>2. AssignmentShape'
  BY DEF Returns, RegistryInv, RegistryShapes, AssignmentShape
<1>3. Idle.step \notin {"write", "writing"}
  BY DEF Idle
<1> QED
  BY <1>1, <1>2, <1>3, NothingHeld

LEMMA InvAssignment ==
  ASSUME RegistryAssumption, RegistryInv, NEW s \in Slot, AssignmentBegins(s) \/ AssignmentGoesOn(s)
  PROVE  RegistryInv'
<1>1. s # None
  BY DEF RegistryAssumption
<1>2. CASE AssignmentBegins(s)
  <2>1. Operation(NewEdit(AddHost)) /\ NewEdit(AddHost).step \in {"read", "init"}
    BY NewOperations
  <2>2. /\ Begins(s, NewEdit(AddHost)) /\ UNCHANGED <<file, expected, calm, excused>>
        /\ assignment' = [step |-> "adding", slot |-> s]
    BY <1>2 DEF AssignmentBegins, Calls
  <2>3. AssignmentShape'
    BY <1>1, <2>2 DEF RegistryInv, RegistryShapes, AssignmentShape
  <2> QED
    BY <2>1, <2>2, <2>3, InvBegins
<1>3. CASE AssignmentGoesOn(s)
  <2>1. ~ Holds(s) /\ assignment.slot = s
    BY <1>3 DEF AssignmentGoesOn, Answered, Holds
  <2>2. ASSUME Closes(s) PROVE RegistryInv'
    <3>1. AssignmentShape'
      BY <2>2 DEF Closes, RegistryInv, RegistryShapes, AssignmentShape
    <3>2. Idle.step \notin {"write", "writing"}
      BY DEF Idle
    <3> QED
      BY <2>1, <2>2, <3>1, <3>2, NothingHeld DEF Closes
  <2>3. ASSUME NEW st \in {"naming", "dropping"}, NEW e, IsEdit(e), GoesOn(s, st, e) PROVE RegistryInv'
    <3>1. AssignmentShape'
      BY <1>1, <2>1, <2>3 DEF GoesOn, RegistryInv, RegistryShapes, AssignmentShape
    <3>2. Operation(NewEdit(e)) /\ NewEdit(e).step \notin {"write", "writing"}
      BY <2>3, NewOperations
    <3> QED
      BY <2>1, <2>3, <3>1, <3>2, NothingHeld DEF GoesOn
  <2> QED
    BY <1>3, <2>2, <2>3, NewOperations DEF AssignmentGoesOn
<1> QED
  BY <1>2, <1>3

(* The invariant holds at the start and at every step.                     *)
LEMMA RegistryInvHolds == ASSUME RegistryAssumption PROVE RegistrySpec => []RegistryInv
<1>1. RegistryInit => RegistryInv
  <2> SUFFICES ASSUME RegistryInit PROVE RegistryInv
    OBVIOUS
  <2>1. /\ file = Seeded(Seed) /\ expected = Seeded(Seed) /\ ops = [s \in Slot |-> Idle]
        /\ calm = TRUE /\ excused = FALSE /\ assignment = [step |-> "closed", slot |-> None]
    BY DEF RegistryInit
  <2>2. DbShape(file) /\ DbShape(expected)
    BY <2>1, SeedShape
  <2>3. ops = [s \in Slot |-> ops[s]] /\ \A s \in Slot : ops[s] = Idle /\ ~ Holds(s)
    BY <2>1 DEF Holds, Idle
  <2>4. RegistryShapes
    BY <2>1, <2>2, <2>3 DEF RegistryShapes
  <2>5. OneHolds
    BY <2>1, <2>3 DEF OneHolds
  <2> QED
    BY <2>4, <2>5 DEF RegistryInv
<1>2. RegistryInv /\ [RegistryNext]_registryVars => RegistryInv'
  <2> SUFFICES ASSUME RegistryInv, [RegistryNext]_registryVars PROVE RegistryInv'
    OBVIOUS
  <2>1. ASSUME NEW s \in Slot, NEW e \in Edits, EditBegins(s, e) PROVE RegistryInv'
    <3>1. /\ Begins(s, NewEdit(e)) /\ UNCHANGED <<file, expected, calm, assignment>>
          /\ excused' = (excused \/ (e.table = "cameras" /\ e.do = "remove"))
      BY <2>1 DEF EditBegins
    <3>2. AssignmentShape'
      BY <3>1 DEF RegistryInv, RegistryShapes, AssignmentShape
    <3>3. Operation(NewEdit(e)) /\ NewEdit(e).step \in {"read", "init"}
      BY NewOperations DEF RegistryAssumption
    <3> QED
      BY <3>1, <3>2, <3>3, InvBegins
  <2>2. ASSUME NEW s \in Slot, ReaderBegins(s) PROVE RegistryInv'
    <3>1. AssignmentShape'
      BY <2>2 DEF ReaderBegins, RegistryInv, RegistryShapes, AssignmentShape
    <3>2. /\ Begins(s, NewSync) \/ Begins(s, NewLook)
          /\ UNCHANGED <<file, expected, calm>>
      BY <2>2 DEF ReaderBegins
    <3> QED
      BY <3>1, <3>2, NewOperations, InvBegins
  <2>3. CASE Crashes
    BY <2>3, InvCrashes
  <2>4. CASE CallLost
    BY <2>4 DEF CallLost, RegistryInv, RegistryShapes, OneHolds, Holds
  <2>5. CASE UNCHANGED registryVars
    BY <2>5 DEF registryVars, RegistryInv, RegistryShapes, OneHolds, Holds
  <2> QED
    BY <2>1, <2>2, <2>3, <2>4, <2>5, InvLooks, InvFetched, InvReads, InvWriteBegins, InvWriteEnds,
       InvReturns, InvAssignment DEF RegistryNext
<1> QED
  BY <1>1, <1>2, PTL DEF RegistrySpec

(* The registry keeps its shape: RegistryTypeOK, in every instance whose   *)
(* edits are edits.                                                        *)
THEOREM RegistryTypeCorrect ==
  ASSUME RegistryAssumption
  PROVE  RegistrySpec => []RegistryTypeOK
<1>1. RegistryInv => RegistryTypeOK
  <2> SUFFICES ASSUME RegistryInv PROVE RegistryTypeOK
    OBVIOUS
  <2>1. ASSUME DbShape(file) PROVE DOMAIN file = {"suitest", "lab"} /\ DOMAIN file.lab = DOMAIN Empty
    BY <2>1 DEF DbShape, LabShape, Empty
  <2>2. \A s \in Slot : ops[s].step \in {"idle", "init", "fetch", "read", "write", "writing",
          "done", "failed"}
    BY DEF RegistryInv, RegistryShapes, Idle, Operation
  <2> QED
    BY <2>1, <2>2 DEF RegistryInv, RegistryShapes, RegistryTypeOK
<1> QED
  BY <1>1, RegistryInvHolds, PTL

(* AcknowledgedEditsLast, however many operations there are: as long as no *)
(* two of them met between read and write and no write was cut short, a    *)
(* file nobody holds is what the acknowledged edits and imports amount to, *)
(* one after the other (`modify` in the JSON storage of the registry).     *)
THEOREM EditsAlwaysLast ==
  ASSUME RegistryAssumption
  PROVE  RegistrySpec => []AcknowledgedEditsLast
<1>1. RegistryInv => AcknowledgedEditsLast
  BY DEF RegistryInv, OneHolds, AcknowledgedEditsLast, Quiet, Holds
<1> QED
  BY <1>1, RegistryInvHolds, PTL

(* ImportsKeepLocalFields: whatever Suitest's lists say, an import about to*)
(* be written has every entry of every table as the operators left it.     *)
THEOREM ImportsAlwaysKeep ==
  ASSUME RegistryAssumption
  PROVE  RegistrySpec => []ImportsKeepLocalFields
<1>1. RegistryInv => ImportsKeepLocalFields
  <2> SUFFICES ASSUME RegistryInv, NEW s \in Slot, ops[s].do = "sync", ops[s].step = "writing", calm,
                      NEW table \in Tables, NEW id \in DOMAIN expected.lab[table]
               PROVE  /\ id \in DOMAIN ops[s].copy.lab[table]
                      /\ ops[s].copy.lab[table][id] = expected.lab[table][id]
    BY DEF ImportsKeepLocalFields, Tables
  <2>1. ops[s].copy = SyncedFrom(expected, ops[s].edit)
    BY DEF RegistryInv, OneHolds, Holds, ChangedBy
  <2>2. Keeps(expected.lab[table], SyncedFrom(expected, ops[s].edit).lab[table])
    BY SyncedShape DEF RegistryInv, RegistryShapes
  <2> QED
    BY <2>1, <2>2 DEF Keeps
<1> QED
  BY <1>1, RegistryInvHolds, PTL

-----------------------------------------------------------------------------
(* The assignment of a host to a camera, as long as nothing excuses it.    *)
(* The call under way is in its slot, no other edit in flight is of it and *)
(* the camera is there; where each call stands tells what the acknowledged *)
(* changes say of the host.                                                *)
CallOf(step) == [adding |-> AddHost, naming |-> NameHost, dropping |-> DropHost][step]

Harmless(e) == e \in Edits /\ ~ (e.table = "cameras" /\ e.do = "remove")

CallsInSlots ==
  \A s \in Slot :
    IF assignment.slot = s
      THEN ops[s].do = "edit" /\ ops[s].edit = CallOf(assignment.step)
      ELSE ops[s].do = "edit" => Harmless(ops[s].edit)

Hosted(d) == Host.id \in DOMAIN d.lab.adb
HasCamera(d) == Camera \in DOMAIN d.lab.cameras
Named(d) == "adbId" \in DOMAIN d.lab.cameras[Camera] /\ d.lab.cameras[Camera].adbId = Host.id
CallDone == ops[assignment.slot].step = "done"

HostStands ==
  /\ assignment.step = "closed" => ~ Hosted(expected) \/ Named(expected)
  /\ assignment.step = "adding" /\ ~ CallDone => ~ Hosted(expected)
  /\ assignment.step = "naming" /\ CallDone => Named(expected)
  /\ assignment.step = "dropping" /\ CallDone => ~ Hosted(expected)

AssignmentInv ==
  ~ excused => HasCamera(expected) /\ CallsInSlots /\ (calm => HostStands)

(* What each operation does to the host and to the camera in a file.       *)
SameHost(old, new) == (Hosted(new) => Hosted(old)) /\ HasCamera(new) /\ (Named(old) => Named(new))

LEMMA SyncKeepsHost ==
  ASSUME NEW d, DbShape(d), HasCamera(d), NEW o, o.do = "sync"
  PROVE  SameHost(d, ChangedBy(o, d))
<1>1. ChangedBy(o, d) = SyncedFrom(d, o.edit)
  BY DEF ChangedBy
<1>2. "cameras" \in Tables
  BY DEF Tables, Empty
<1> QED
  BY <1>1, <1>2, SyncedShape DEF SameHost, Hosted, HasCamera, Named, Keeps

LEMMA EditedLab ==
  ASSUME NEW d, DbShape(d), NEW o, o.do = "edit", IsEdit(o.edit)
  PROVE  /\ ChangedBy(o, d).lab = Applied(d.lab, o.edit)
         /\ o.edit.table # "cameras" => ChangedBy(o, d).lab.cameras = d.lab.cameras
         /\ o.edit.table # "adb" => ChangedBy(o, d).lab.adb = d.lab.adb
<1>1. LabShape(d.lab) /\ Tables = {"candyboxes", "cameras", "tvs", "adb"}
  BY DEF DbShape, Tables, Empty
<1>2. ChangedBy(o, d).lab = Applied(d.lab, o.edit)
  BY DEF ChangedBy, DbShape
<1> QED
  BY <1>1, <1>2, AppliedShape

LEMMA EditKeepsHost ==
  ASSUME RegistryAssumption, AssignmentAssumption,
         NEW d, DbShape(d), HasCamera(d), NEW o, o.do = "edit", Harmless(o.edit)
  PROVE  SameHost(d, ChangedBy(o, d))
<1> DEFINE e == o.edit
           new == ChangedBy(o, d).lab
<1>1. /\ IsEdit(e) /\ LabShape(d.lab)
      /\ e.table = "adb" => e.id # Host.id
      /\ e.table = "cameras" => e.do \in {"add", "update"}
      /\ e.table = "cameras" /\ e.id = Camera => e.do = "update" /\ "adbId" \notin DOMAIN e.fields
  BY DEF RegistryAssumption, AssignmentAssumption, Harmless, DbShape, IsEdit
<1>2. /\ new = Applied(d.lab, e)
      /\ e.table # "cameras" => new.cameras = d.lab.cameras
      /\ e.table # "adb" => new.adb = d.lab.adb
  BY <1>1, EditedLab
<1> HIDE DEF new
<1>3. CASE e.table = "adb"
  <2>1. new = EditAdb(d.lab, e)
    BY <1>2, <1>3 DEF Applied
  <2>2. e.do \in {"add", "remove", "update"}
    BY <1>1 DEF IsEdit
  <2>3. PICK t : new = [d.lab EXCEPT !.adb = t] /\ DOMAIN t \subseteq DOMAIN d.lab.adb \union {e.id}
    <3> DEFINE hosts == d.lab.adb
    <3>1. /\ DOMAIN Put(hosts, e.id, e.fields) = DOMAIN hosts \union {e.id}
          /\ DOMAIN Without(hosts, e.id) = DOMAIN hosts \ {e.id}
          /\ DOMAIN Updated(hosts, e.id, e.fields) = DOMAIN hosts
      BY DEF Put, Without, Updated
    <3>2. \/ new = [d.lab EXCEPT !.adb = Put(hosts, e.id, e.fields)]
          \/ new = [d.lab EXCEPT !.adb = Without(hosts, e.id)]
          \/ new = [d.lab EXCEPT !.adb = Updated(hosts, e.id, e.fields)]
      BY <2>1, <2>2 DEF EditAdb
    <3> QED
      BY <3>1, <3>2
  <2>4. new.adb = t
    BY <1>1, <2>3 DEF LabShape
  <2> QED
    BY <1>1, <1>2, <1>3, <2>3, <2>4 DEF SameHost, Hosted, HasCamera, Named, new
<1>4. CASE e.table = "cameras"
  <2>1. new = EditCameras(d.lab, e)
    BY <1>2, <1>4 DEF Applied
  <2> DEFINE table == d.lab.cameras
  <2>2. ASSUME NEW t, new = [d.lab EXCEPT !.cameras = t] PROVE new.cameras = t
    BY <1>1, <2>2 DEF LabShape
  <2>3. CASE e.do = "add"
    <3>1. new.cameras = Put(table, e.id, e.fields)
      BY <2>1, <2>2, <2>3 DEF EditCameras
    <3>2. Camera \in DOMAIN new.cameras /\ new.cameras[Camera] = table[Camera]
      BY <1>1, <1>4, <2>3, <3>1 DEF Put, HasCamera
    <3> QED
      BY <1>2, <1>4, <3>2 DEF SameHost, Hosted, HasCamera, Named, new
  <2>4. CASE e.do = "update"
    <3>1. new.cameras = Updated(table, e.id, e.fields)
      BY <2>1, <2>2, <2>4 DEF EditCameras
    <3>2. CASE e.id \notin DOMAIN table
      BY <1>2, <1>4, <3>1, <3>2 DEF Updated, SameHost, Hosted, HasCamera, Named, new
    <3>3. CASE e.id \in DOMAIN table
      <4> DEFINE entry == Over(e.fields, table[e.id])
      <4>1. new.cameras = [table EXCEPT ![e.id] = entry]
        BY <3>1, <3>3 DEF Updated
      <4>2. Camera \in DOMAIN new.cameras
        BY <4>1 DEF HasCamera
      <4>3. CASE e.id # Camera
        <5>1. new.cameras[Camera] = table[Camera]
          BY <4>1, <4>3 DEF HasCamera
        <5> QED
          BY <1>2, <1>4, <4>2, <5>1 DEF SameHost, Hosted, HasCamera, Named, new
      <4>4. CASE e.id = Camera
        <5>1. new.cameras[Camera] = entry /\ "adbId" \notin DOMAIN e.fields
          BY <1>1, <1>4, <4>1, <4>4 DEF HasCamera
        <5>2. "adbId" \in DOMAIN table[Camera] => "adbId" \in DOMAIN entry
                /\ entry["adbId"] = table[Camera]["adbId"]
          BY <4>4, <5>1, OverKeeps
        <5> HIDE DEF entry
        <5> QED
          BY <1>2, <1>4, <4>2, <5>1, <5>2 DEF SameHost, Hosted, HasCamera, Named, new
      <4> QED
        BY <4>3, <4>4
    <3> QED
      BY <3>2, <3>3
  <2> QED
    BY <1>1, <1>4, <2>3, <2>4
<1>5. CASE e.table \notin {"adb", "cameras"}
  BY <1>2, <1>5 DEF SameHost, Hosted, HasCamera, Named, new
<1> QED
  BY <1>3, <1>4, <1>5

(* What the three calls do.                                                *)
LEMMA CallsChange ==
  ASSUME NEW d, DbShape(d), HasCamera(d), NEW o, o.do = "edit"
  PROVE  /\ o.edit = AddHost => HasCamera(ChangedBy(o, d))
         /\ o.edit = NameHost => HasCamera(ChangedBy(o, d)) /\ Named(ChangedBy(o, d))
         /\ o.edit = DropHost => HasCamera(ChangedBy(o, d)) /\ ~ Hosted(ChangedBy(o, d))
<1>1. LabShape(d.lab)
  BY DEF DbShape
<1>2. ASSUME o.edit = AddHost PROVE HasCamera(ChangedBy(o, d))
  <2>1. o.edit.table = "adb"
    BY <1>2 DEF AddHost, Edit
  <2> QED
    BY <1>2, <2>1, EditedLab, NewOperations DEF HasCamera
<1>3. ASSUME o.edit = NameHost PROVE HasCamera(ChangedBy(o, d)) /\ Named(ChangedBy(o, d))
  <2> DEFINE fields == [adbId |-> Host.id]
             entry == Over(fields, d.lab.cameras[Camera])
  <2>1. /\ o.edit.table = "cameras" /\ o.edit.do = "update" /\ o.edit.id = Camera
        /\ o.edit.fields = fields
    BY <1>3 DEF NameHost, Edit
  <2>2. ChangedBy(o, d).lab = Applied(d.lab, o.edit)
    BY <1>3, EditedLab, NewOperations
  <2>3. Applied(d.lab, o.edit) = EditCameras(d.lab, o.edit)
    BY <2>1 DEF Applied
  <2>4. EditCameras(d.lab, o.edit) = [d.lab EXCEPT !.cameras = Updated(@, Camera, fields)]
    BY <2>1 DEF EditCameras
  <2>5. ChangedBy(o, d).lab.cameras = Updated(d.lab.cameras, Camera, fields)
    BY <1>1, <2>2, <2>3, <2>4 DEF LabShape
  <2>6. Updated(d.lab.cameras, Camera, fields) = [d.lab.cameras EXCEPT ![Camera] = entry]
    BY DEF Updated, HasCamera
  <2>7. "adbId" \in DOMAIN entry /\ entry["adbId"] = Host.id
    <3>1. "adbId" \in DOMAIN fields /\ fields["adbId"] = Host.id
      OBVIOUS
    <3> HIDE DEF fields
    <3> QED BY <3>1, OverKeeps
  <2> HIDE DEF entry
  <2>8. /\ Camera \in DOMAIN ChangedBy(o, d).lab.cameras
        /\ ChangedBy(o, d).lab.cameras[Camera] = entry
    BY <2>5, <2>6 DEF HasCamera
  <2> QED
    BY <2>7, <2>8 DEF HasCamera, Named
<1>4. ASSUME o.edit = DropHost PROVE HasCamera(ChangedBy(o, d)) /\ ~ Hosted(ChangedBy(o, d))
  <2>1. o.edit.table = "adb" /\ o.edit.do = "remove" /\ o.edit.id = Host.id
    BY <1>4 DEF DropHost, Edit
  <2>2. /\ ChangedBy(o, d).lab = Applied(d.lab, o.edit)
        /\ ChangedBy(o, d).lab.cameras = d.lab.cameras
    BY <1>4, <2>1, EditedLab, NewOperations
  <2>3. Applied(d.lab, o.edit) = EditAdb(d.lab, o.edit)
    BY <2>1 DEF Applied
  <2>4. EditAdb(d.lab, o.edit) = [d.lab EXCEPT !.adb = Without(@, Host.id)]
    BY <2>1 DEF EditAdb
  <2>5. ChangedBy(o, d).lab.adb = Without(d.lab.adb, Host.id)
    BY <1>1, <2>2, <2>3, <2>4 DEF LabShape
  <2> QED
    BY <2>2, <2>5 DEF HasCamera, Hosted, Without
<1> QED
  BY <1>2, <1>3, <1>4

(* A step that leaves what is acknowledged as it is, and the calls where   *)
(* they stand.                                                             *)
StandsStill(t) ==
  /\ ops'[t].do = ops[t].do
  /\ ops[t].do = "edit" => ops'[t].edit = ops[t].edit /\ (ops'[t].step = "done" <=> ops[t].step = "done")

LEMMA HostStandsStill ==
  ASSUME RegistryInv, AssignmentInv, \A t \in Slot : StandsStill(t),
         UNCHANGED <<assignment, expected, excused>>, calm' => calm
  PROVE  AssignmentInv'
<1> SUFFICES ASSUME ~ excused
             PROVE  HasCamera(expected) /\ CallsInSlots' /\ (calm' => HostStands')
  BY DEF AssignmentInv, HasCamera
<1>1. HasCamera(expected) /\ CallsInSlots /\ (calm => HostStands)
  BY DEF AssignmentInv
<1>2. CallsInSlots'
  BY <1>1 DEF CallsInSlots, StandsStill, CallOf, AddHost, NameHost, DropHost, Harmless
<1>3. ASSUME assignment.step # "closed" PROVE CallDone' <=> CallDone
  <2>1. assignment.slot \in Slot /\ ops[assignment.slot].do = "edit"
    BY <1>1, <1>3 DEF RegistryInv, RegistryShapes, CallsInSlots
  <2> QED
    BY <2>1 DEF CallDone, StandsStill
<1> QED
  BY <1>1, <1>2, <1>3 DEF HostStands, Hosted, Named

(* A slot that is empty, before or after.                                  *)
LEMMA HostOfOthers ==
  ASSUME RegistryInv, AssignmentInv, NEW s \in Slot, assignment.slot # s,
         NEW x, x.do = "edit" => Harmless(x.edit) \/ excused', ops' = [ops EXCEPT ![s] = x],
         UNCHANGED <<assignment, expected, calm>>, excused => excused'
  PROVE  AssignmentInv'
<1> SUFFICES ASSUME ~ excused'
             PROVE  HasCamera(expected) /\ CallsInSlots' /\ (calm => HostStands')
  BY DEF AssignmentInv, HasCamera
<1>1. HasCamera(expected) /\ CallsInSlots /\ (calm => HostStands)
  BY DEF AssignmentInv
<1>2. ops'[s] = x /\ \A o \in Slot \ {s} : ops'[o] = ops[o]
  BY OneSlot DEF RegistryInv, RegistryShapes
<1>3. CallsInSlots'
  BY <1>1, <1>2 DEF CallsInSlots, CallOf, AddHost, NameHost, DropHost, Harmless
<1>4. ASSUME assignment.step # "closed" PROVE CallDone' <=> CallDone
  <2>1. assignment.slot \in Slot \ {s}
    BY <1>4 DEF RegistryInv, RegistryShapes
  <2> QED
    BY <1>2, <2>1 DEF CallDone
<1> QED
  BY <1>1, <1>3, <1>4 DEF HostStands, Hosted, Named

LEMMA HostWriteEnds ==
  ASSUME RegistryAssumption, AssignmentAssumption, RegistryInv, AssignmentInv,
         NEW s \in Slot, WriteEnds(s)
  PROVE  AssignmentInv'
<1> DEFINE st == IF ops[s].edit = NoEdit /\ ops[s].do = "sync" THEN "fetch" ELSE "done"
           x == Goes(ops[s], st)
           new == ChangedBy(ops[s], expected)
<1> SUFFICES ASSUME ~ excused
             PROVE  HasCamera(expected') /\ CallsInSlots' /\ (calm => HostStands')
  BY DEF AssignmentInv, HasCamera, WriteEnds
<1>1. HasCamera(expected) /\ CallsInSlots /\ (calm => HostStands)
  BY DEF AssignmentInv
<1>2. Operation(ops[s]) /\ ops[s].step = "writing" /\ Holds(s) /\ DbShape(expected)
  BY DEF RegistryInv, RegistryShapes, WriteEnds, Holds, Idle
<1>3. /\ ops' = [ops EXCEPT ![s] = x] /\ expected' = IF calm THEN new ELSE expected
      /\ UNCHANGED <<assignment, calm, excused>>
  BY DEF WriteEnds, Goes
<1>4. x = [do |-> ops[s].do, step |-> st, edit |-> ops[s].edit, copy |-> ops[s].copy,
           clashed |-> ops[s].clashed]
  BY <1>2, OperationSteps DEF Operation
<1>5. x.do = ops[s].do /\ x.edit = ops[s].edit /\ (ops[s].do = "edit" => x.step = "done")
  <2> HIDE DEF x
  <2> QED BY <1>4
<1>6. ops'[s] = x /\ \A o \in Slot \ {s} : ops'[o] = ops[o]
  <2> HIDE DEF x
  <2> QED BY <1>3, OneSlot DEF RegistryInv, RegistryShapes
<1> HIDE DEF x, new
<1>7. CallsInSlots'
  BY <1>1, <1>3, <1>5, <1>6 DEF CallsInSlots, CallOf, AddHost, NameHost, DropHost, Harmless
<1>8. ASSUME assignment.slot \in Slot \ {s} PROVE CallDone' <=> CallDone
  BY <1>3, <1>6, <1>8 DEF CallDone
<1>9. CASE ~ calm
  BY <1>1, <1>3, <1>7, <1>9
<1>10. CASE calm
  <2>1. ops[s].do \in {"edit", "sync"}
    BY <1>2, <1>10 DEF RegistryInv, OneHolds, Operation
  <2>2. CASE assignment.slot # s
    <3>1. SameHost(expected, new)
      <4>1. CASE ops[s].do = "sync"
        BY <1>1, <1>2, <4>1, SyncKeepsHost DEF new
      <4>2. CASE ops[s].do = "edit"
        <5>1. Harmless(ops[s].edit)
          BY <1>1, <2>2, <4>2 DEF CallsInSlots
        <5> QED
          BY <1>1, <1>2, <4>2, <5>1, EditKeepsHost DEF new
      <4> QED
        BY <2>1, <4>1, <4>2
    <3>2. assignment.step # "closed" => assignment.slot \in Slot \ {s}
      BY <2>2 DEF RegistryInv, RegistryShapes
    <3> QED
      BY <1>1, <1>3, <1>7, <1>8, <1>10, <3>1, <3>2 DEF HostStands, SameHost, Hosted, Named, HasCamera
  <2>3. CASE assignment.slot = s
    <3>1. ops[s].do = "edit" /\ ops[s].edit = CallOf(assignment.step)
      BY <1>1, <2>3 DEF CallsInSlots
    <3>2. assignment.step \in {"adding", "naming", "dropping"}
      BY <2>3 DEF RegistryInv, RegistryShapes, RegistryAssumption
    <3>3. CallDone'
      BY <1>3, <1>5, <1>6, <2>3, <3>1 DEF CallDone
    <3>4. /\ assignment.step = "adding" => ops[s].edit = AddHost
          /\ assignment.step = "naming" => ops[s].edit = NameHost
          /\ assignment.step = "dropping" => ops[s].edit = DropHost
      BY <3>1 DEF CallOf
    <3>5. /\ HasCamera(new)
          /\ assignment.step = "naming" => Named(new)
          /\ assignment.step = "dropping" => ~ Hosted(new)
      BY <1>1, <1>2, <3>1, <3>2, <3>4, CallsChange DEF new
    <3> QED
      BY <1>3, <1>7, <1>10, <3>2, <3>3, <3>5 DEF HostStands, Hosted, Named, HasCamera
  <2> QED
    BY <2>2, <2>3
<1> QED
  BY <1>9, <1>10

(* The other steps of an operation change no edit and end no call.         *)
LEMMA HostSteps ==
  ASSUME RegistryInv, AssignmentInv, NEW s \in Slot,
         Looks(s) \/ Fetched(s) \/ Reads(s) \/ WriteBegins(s)
  PROVE  AssignmentInv'
<1>1. /\ ops[s].step \in {"init", "fetch", "read", "write"}
      /\ UNCHANGED <<assignment, expected, excused>>
  BY DEF Looks, Fetched, Reads, WriteBegins
<1>2. calm' => calm
  <2>1. UNCHANGED calm \/ calm' = FALSE \/ calm' = (calm /\ ~ Meets(s))
    BY DEF Looks, Fetched, Reads, WriteBegins
  <2> QED
    BY <2>1
<1>3. Operation(ops[s])
  BY <1>1 DEF RegistryInv, RegistryShapes, Idle
<1>4. CASE Looks(s)
  <2>1. PICK x : /\ ops' = [ops EXCEPT ![s] = x]
                 /\ x = Goes(ops[s], IF ops[s].do = "sync" THEN "fetch" ELSE "done")
                      \/ x = Takes(ops[s], "write", Seeded(Seed))
    BY <1>4 DEF Looks, Goes, Takes
  <2>2. x.do = ops[s].do /\ ops[s].do # "edit"
    BY <1>3, <1>4, <2>1, OperationSteps DEF Operation, Looks
  <2>3. \A t \in Slot : StandsStill(t)
    BY <2>1, <2>2, OneSlot DEF StandsStill, RegistryInv, RegistryShapes
  <2> QED
    BY <1>1, <1>2, <2>3, HostStandsStill
<1>5. CASE Fetched(s)
  <2>1. PICK x : /\ ops' = [ops EXCEPT ![s] = x]
                 /\ \/ x = Goes(ops[s], "done")
                    \/ \E lists \in Lists : x = Gets(ops[s], "read", lists)
    BY <1>5 DEF Fetched, Goes, Gets, RegistryInv, RegistryShapes
  <2>2. x.do = ops[s].do /\ ops[s].do # "edit"
    BY <1>3, <1>5, <2>1, OperationSteps DEF Operation, Fetched
  <2>3. \A t \in Slot : StandsStill(t)
    BY <2>1, <2>2, OneSlot DEF StandsStill, RegistryInv, RegistryShapes
  <2> QED
    BY <1>1, <1>2, <2>3, HostStandsStill
<1>6. CASE Reads(s)
  <2>1. PICK x : /\ ops' = [ops EXCEPT ![s] = x]
                 /\ \/ x = Goes(ops[s], "failed")
                    \/ x = Takes(ops[s], "write", ChangedBy(ops[s], file))
    BY <1>6 DEF Reads, Goes, Takes
  <2>2. x.do = ops[s].do /\ x.edit = ops[s].edit /\ x.step # "done" /\ ops[s].step # "done"
    BY <1>3, <1>6, <2>1, OperationSteps DEF Operation, Reads
  <2>3. \A t \in Slot : StandsStill(t)
    BY <2>1, <2>2, OneSlot DEF StandsStill, RegistryInv, RegistryShapes
  <2> QED
    BY <1>1, <1>2, <2>3, HostStandsStill
<1>7. CASE WriteBegins(s)
  <2> DEFINE others == {other \in Slot : ops[other].step = "writing"}
             x == Meeting(ops[s], "writing", others # {})
  <2>1. ops' = [o \in Slot |->
             IF o = s THEN x ELSE IF o \in others THEN Spoilt(ops[o], TRUE) ELSE ops[o]]
    BY <1>7 DEF WriteBegins, Meeting, Spoilt
  <2>2. x.do = ops[s].do /\ x.edit = ops[s].edit /\ x.step # "done" /\ ops[s].step # "done"
    <3>1. x = [do |-> ops[s].do, step |-> "writing", edit |-> ops[s].edit, copy |-> ops[s].copy,
               clashed |-> others # {}]
      BY <1>3, OperationSteps DEF Operation
    <3> HIDE DEF x
    <3> QED BY <1>7, <3>1 DEF WriteBegins
  <2>3. ASSUME NEW o \in others
        PROVE  /\ Spoilt(ops[o], TRUE).do = ops[o].do /\ Spoilt(ops[o], TRUE).edit = ops[o].edit
               /\ Spoilt(ops[o], TRUE).step = ops[o].step
    <3>1. Operation(ops[o])
      BY DEF RegistryInv, RegistryShapes, Idle
    <3> DEFINE y == Spoilt(ops[o], TRUE)
    <3>2. y = [do |-> ops[o].do, step |-> ops[o].step, edit |-> ops[o].edit, copy |-> ops[o].copy,
               clashed |-> TRUE]
      BY <3>1, OperationSteps DEF Operation
    <3> HIDE DEF y
    <3>3. y.do = ops[o].do /\ y.edit = ops[o].edit /\ y.step = ops[o].step
      BY <3>2
    <3> QED
      BY <3>3 DEF y
  <2> HIDE DEF x
  <2>4. \A t \in Slot : StandsStill(t)
    BY <2>1, <2>2, <2>3 DEF StandsStill
  <2> QED
    BY <1>1, <1>2, <2>4, HostStandsStill
<1> QED
  BY <1>4, <1>5, <1>6, <1>7

(* The assignment itself.                                                  *)
LEMMA HostAssignment ==
  ASSUME RegistryAssumption, RegistryInv, AssignmentInv, NEW s \in Slot,
         AssignmentBegins(s) \/ AssignmentGoesOn(s)
  PROVE  AssignmentInv'
<1> SUFFICES ASSUME ~ excused'
             PROVE  HasCamera(expected)' /\ CallsInSlots' /\ (calm' => HostStands')
  BY DEF AssignmentInv
<1>1. s # None /\ UNCHANGED <<expected, calm>> /\ ~ excused
  BY DEF RegistryAssumption, RegistryInv, RegistryShapes, AssignmentBegins, AssignmentGoesOn,
     Calls, Closes, GoesOn
<1>2. HasCamera(expected) /\ CallsInSlots /\ (calm => HostStands)
  BY <1>1 DEF AssignmentInv
<1>3. ASSUME NEW e, NEW st \in {"adding", "naming", "dropping"}, ops' = [ops EXCEPT ![s] = NewEdit(e)],
             e = CallOf(st), assignment'.step = st, assignment'.slot = s,
             assignment.slot \in {None, s}, st = "adding" /\ calm => ~ Hosted(expected)
      PROVE  CallsInSlots' /\ (calm' => HostStands')
  <2>1. ops' = [o \in Slot |-> ops'[o]] /\ ops'[s] = NewEdit(e) /\ \A o \in Slot \ {s} : ops'[o] = ops[o]
    BY <1>3, OneSlot DEF RegistryInv, RegistryShapes
  <2>2. NewEdit(e).do = "edit" /\ NewEdit(e).edit = e /\ NewEdit(e).step = "read"
    BY DEF NewEdit
  <2>3. CallsInSlots'
    <3>1. ops'[s].do = "edit" /\ ops'[s].edit = CallOf(assignment'.step)
      BY <1>3, <2>1, <2>2
    <3>2. ASSUME NEW o \in Slot \ {s}, ops'[o].do = "edit" PROVE Harmless(ops'[o].edit)
      <4>1. assignment.slot # o
        BY <1>3, <3>2 DEF RegistryAssumption
      <4> QED
        BY <1>2, <2>1, <3>2, <4>1 DEF CallsInSlots
    <3> QED
      BY <1>3, <3>1, <3>2 DEF CallsInSlots, CallOf, AddHost, NameHost, DropHost, Harmless
  <2>4. ~ CallDone'
    BY <1>3, <2>1, <2>2 DEF CallDone
  <2> QED
    BY <1>1, <1>3, <2>3, <2>4 DEF HostStands, Hosted
<1>4. CASE AssignmentBegins(s)
  <2>1. /\ ops' = [ops EXCEPT ![s] = NewEdit(AddHost)] /\ assignment' = [step |-> "adding", slot |-> s]
        /\ assignment.step = "closed" /\ Host.id \notin DOMAIN expected.lab.adb
    BY <1>4 DEF AssignmentBegins, Calls, Begins
  <2>2. assignment.slot = None /\ AddHost = CallOf("adding")
    BY <2>1 DEF RegistryInv, RegistryShapes, CallOf
  <2> QED
    BY <1>1, <1>2, <1>3, <2>1, <2>2 DEF Hosted, HasCamera
<1>5. CASE AssignmentGoesOn(s)
  <2>1. /\ assignment.slot = s /\ assignment.step \in {"adding", "naming", "dropping"}
        /\ assignment = [step |-> assignment.step, slot |-> s]
    BY <1>1, <1>5 DEF AssignmentGoesOn, Answered, RegistryInv, RegistryShapes
  <2>2. ASSUME NEW e, NEW st \in {"naming", "dropping"}, GoesOn(s, st, e), e = CallOf(st)
        PROVE  CallsInSlots' /\ (calm' => HostStands')
    <3>1. ops' = [ops EXCEPT ![s] = NewEdit(e)] /\ assignment' = [assignment EXCEPT !.step = st]
      BY <2>2 DEF GoesOn
    <3>2. assignment'.step = st /\ assignment'.slot = s
      BY <2>1, <3>1
    <3> QED
      BY <1>3, <2>1, <2>2, <3>1, <3>2
  <2>3. ASSUME Closes(s), calm => ~ Hosted(expected) \/ Named(expected)
        PROVE  CallsInSlots' /\ (calm' => HostStands')
    <3>1. ops' = [ops EXCEPT ![s] = Idle] /\ assignment' = [step |-> "closed", slot |-> None]
      BY <2>3 DEF Closes
    <3>2. ops'[s] = Idle /\ \A o \in Slot \ {s} : ops'[o] = ops[o]
      BY <3>1, OneSlot DEF RegistryInv, RegistryShapes
    <3>3. CallsInSlots'
      BY <1>2, <2>1, <3>1, <3>2 DEF CallsInSlots, Idle, Harmless, RegistryAssumption
    <3> QED
      BY <1>1, <2>3, <3>1, <3>3 DEF HostStands, Hosted, Named
  <2>4. CASE assignment.step = "adding" /\ ops[s].step = "done"
    <3>1. GoesOn(s, "naming", NameHost) /\ NameHost = CallOf("naming")
      BY <1>5, <2>4 DEF AssignmentGoesOn, CallOf
    <3> QED
      BY <1>1, <1>2, <2>2, <3>1 DEF HasCamera
  <2>5. CASE assignment.step = "naming" /\ ops[s].step = "failed"
    <3>1. GoesOn(s, "dropping", DropHost) /\ DropHost = CallOf("dropping")
      BY <1>5, <2>5 DEF AssignmentGoesOn, CallOf
    <3> QED
      BY <1>1, <1>2, <2>2, <3>1 DEF HasCamera
  <2>6. CASE ~ (assignment.step = "adding" /\ ops[s].step = "done")
             /\ ~ (assignment.step = "naming" /\ ops[s].step = "failed")
    <3>1. Closes(s) /\ ops[s].step \in {"done", "failed"}
      BY <1>5, <2>6 DEF AssignmentGoesOn, Answered
    <3>2. ~ (assignment.step = "dropping" /\ ops[s].step = "failed")
      BY <1>1, <3>1 DEF Closes
    <3>3. calm => ~ Hosted(expected) \/ Named(expected)
      BY <1>2, <2>1, <2>6, <3>1, <3>2 DEF HostStands, CallDone
    <3> QED
      BY <1>1, <1>2, <2>3, <3>1, <3>3 DEF HasCamera
  <2> QED
    BY <2>4, <2>5, <2>6
<1> QED
  BY <1>4, <1>5

LEMMA AssignmentInvHolds ==
  ASSUME RegistryAssumption, AssignmentAssumption
  PROVE  RegistrySpec => []AssignmentInv
<1>1. RegistryInit => AssignmentInv
  <2> SUFFICES ASSUME RegistryInit PROVE AssignmentInv
    OBVIOUS
  <2>1. /\ expected = Seeded(Seed) /\ ops = [s \in Slot |-> Idle]
        /\ assignment = [step |-> "closed", slot |-> None]
    BY DEF RegistryInit
  <2>2. HasCamera(expected) /\ ~ Hosted(expected)
    BY <2>1, SeedShape DEF HasCamera, Hosted, Controlled, AssignmentAssumption
  <2>3. CallsInSlots
    BY <2>1 DEF CallsInSlots, Idle, RegistryAssumption
  <2>4. HostStands
    BY <2>1, <2>2 DEF HostStands
  <2> QED
    BY <2>2, <2>3, <2>4 DEF AssignmentInv
<1>2. RegistryInv /\ AssignmentInv /\ [RegistryNext]_registryVars => AssignmentInv'
  <2> SUFFICES ASSUME RegistryInv, AssignmentInv, [RegistryNext]_registryVars PROVE AssignmentInv'
    OBVIOUS
  <2>1. ASSUME NEW s \in Slot, ops[s].step \in {"idle", "done", "failed"}, assignment.slot = s
        PROVE  excused \/ ops[s].step # "idle"
    BY <2>1 DEF AssignmentInv, CallsInSlots, RegistryInv, RegistryShapes, Idle, Operation
  <2>2. ASSUME excused, excused' PROVE AssignmentInv'
    BY <2>2 DEF AssignmentInv
  <2>3. ASSUME NEW s \in Slot, NEW e \in Edits, EditBegins(s, e) PROVE AssignmentInv'
    <3> DEFINE x == NewEdit(e)
    <3>1. /\ ops' = [ops EXCEPT ![s] = x] /\ UNCHANGED <<file, expected, calm, assignment>>
          /\ excused' = (excused \/ (e.table = "cameras" /\ e.do = "remove")) /\ ops[s].step = "idle"
      BY <2>3 DEF EditBegins, Begins
    <3>2. x.edit = e
      BY DEF NewEdit
    <3>3. Harmless(x.edit) \/ excused'
      BY <3>1, <3>2 DEF Harmless
    <3>4. excused => excused'
      BY <3>1
    <3> HIDE DEF x
    <3> QED
      BY <2>1, <2>2, <3>1, <3>3, <3>4, HostOfOthers
  <2>4. ASSUME NEW s \in Slot, ReaderBegins(s) PROVE AssignmentInv'
    <3>1. PICK x \in {NewSync, NewLook} : ops' = [ops EXCEPT ![s] = x]
      BY <2>4 DEF ReaderBegins, Begins
    <3>2. UNCHANGED <<file, expected, calm, assignment, excused>> /\ ops[s].step = "idle"
      BY <2>4 DEF ReaderBegins, Begins
    <3>3. x.do # "edit"
      BY <3>1 DEF NewSync, NewLook
    <3> QED
      BY <2>1, <2>2, <3>1, <3>2, <3>3, HostOfOthers
  <2>5. ASSUME NEW s \in Slot, Returns(s) PROVE AssignmentInv'
    <3>1. /\ ops' = [ops EXCEPT ![s] = Idle] /\ assignment.slot # s
          /\ UNCHANGED <<file, expected, calm, assignment, excused>>
      BY <2>5 DEF Returns
    <3>2. Idle.do # "edit"
      BY DEF Idle
    <3> QED
      BY <3>1, <3>2, HostOfOthers
  <2>6. CASE Crashes
    <3>1. /\ ops' = [s \in Slot |-> Idle] /\ expected' = expected
          /\ excused' = (excused \/ assignment.slot # None)
          /\ assignment' = IF assignment.slot = None THEN assignment
                           ELSE [step |-> "closed", slot |-> None]
          /\ calm' => calm
      BY <2>6 DEF Crashes, RegistryInv, RegistryShapes
    <3> SUFFICES ASSUME ~ excused' PROVE AssignmentInv'
      BY DEF AssignmentInv
    <3>2. assignment.slot = None /\ assignment' = assignment /\ ~ excused /\ assignment.step = "closed"
      BY <3>1 DEF RegistryInv, RegistryShapes
    <3>3. CallsInSlots'
      BY <3>1, <3>2 DEF CallsInSlots, Idle, RegistryAssumption
    <3>4. HasCamera(expected) /\ (calm => HostStands)
      BY <3>2 DEF AssignmentInv
    <3>5. calm' => HostStands'
      BY <3>1, <3>2, <3>4 DEF HostStands, Hosted, Named
    <3> QED
      BY <3>1, <3>3, <3>4, <3>5 DEF AssignmentInv, HasCamera
  <2>7. CASE CallLost
    BY <2>7 DEF CallLost, AssignmentInv
  <2>8. CASE UNCHANGED registryVars
    BY <2>8 DEF registryVars, AssignmentInv, CallsInSlots, HostStands, CallDone, HasCamera,
       Hosted, Named,
        CallOf, AddHost, NameHost, DropHost, Harmless
  <2> QED
    BY <2>3, <2>4, <2>5, <2>6, <2>7, <2>8, HostSteps, HostWriteEnds, HostAssignment DEF RegistryNext
<1> QED
  BY <1>1, <1>2, RegistryInvHolds, PTL DEF RegistrySpec

(* NoHostWithoutCamera: an assignment that is over, without a call lost, a *)
(* camera removed or a removal refused, leaves the new host named by its   *)
(* camera or gone (`assignAdbHost` of the registry page).                  *)
THEOREM HostsAlwaysHaveCameras ==
  ASSUME RegistryAssumption, AssignmentAssumption
  PROVE  RegistrySpec => []NoHostWithoutCamera
<1>1. RegistryInv /\ AssignmentInv => NoHostWithoutCamera
  <2> SUFFICES ASSUME RegistryInv, AssignmentInv, calm, Quiet, ~ excused, assignment.step = "closed",
                      Host.id \in DOMAIN file.lab.adb
               PROVE  \E c \in DOMAIN file.lab.cameras : file.lab.cameras[c].adbId = Host.id
    BY DEF NoHostWithoutCamera
  <2>1. file = expected
    BY DEF RegistryInv, OneHolds, Quiet, Holds
  <2>2. HasCamera(expected) /\ Named(expected)
    BY <2>1 DEF AssignmentInv, HostStands, Hosted
  <2> QED
    BY <2>1, <2>2 DEF HasCamera, Named
<1> QED
  BY <1>1, RegistryInvHolds, AssignmentInvHolds, PTL

-----------------------------------------------------------------------------
(* The settings.  A configuration, the draft of a card and what a card has.*)
ConfigShape(g) ==
  /\ g = [s \in Conf!Section |-> g[s]]
  /\ \A s \in Infra : g[s] \in Conf!Settable(s)
  /\ \A s \in Listed : g[s] \in Seq(Conf!EntryShape)

(* A configuration a file stands for: the file may have more fields.       *)
WrittenIn(g, text) == \A s \in Infra : g[s] # text[s] => s \in Optional /\ g[s] = Absent

DraftShape(c, d) ==
  /\ d = [s \in Conf!Sections(c) |-> d[s]]
  /\ c = "infra" => \A s \in Infra : d[s] \in Conf!Settable(s) \union {Bad}
  /\ c # "infra" => d[c] \in Seq(Conf!EntryShape)

CardStep == {"idle", "sent", "read", "written", "answer", "refused", "rejected"}
CardShape(c, k) ==
  /\ k = [editing |-> k.editing, saving |-> k.saving, failed |-> k.failed, draft |-> k.draft,
          at |-> k.at, patch |-> k.patch, found |-> k.found, text |-> k.text]
  /\ k.at \in CardStep /\ (c # "infra" => k.at \notin {"read", "written"})
  /\ k.editing => DraftShape(c, k.draft)
  /\ k.at \in {"sent", "read", "written"} => DraftShape(c, k.patch)
  /\ k.at \in {"read", "written", "answer"} => ConfigShape(k.found)
  /\ k.at = "read" => ConfigShape(k.text) /\ WrittenIn(k.found, k.text)

PageShape(g) ==
  /\ g = [config |-> g.config, card |-> g.card] /\ ConfigShape(g.config)
  /\ g.card = [c \in Conf!Card |-> g.card[c]]
  /\ \A c \in Conf!Card : CardShape(c, g.card[c])

SettingsShapes ==
  /\ ConfigShape(configFile) /\ ConfigShape(memory)
  /\ pages = [o \in Operator |-> pages[o]]
  /\ \A o \in Operator : PageShape(pages[o])

(* While saves of the file have not overlapped there is one at a time.  The*)
(* file stands for the copy in memory but between the write and the update *)
(* of the copy, when it stands for what the card has.                      *)
InfraAt(o) == pages[o].card["infra"].at
OneSave ==
  ~ overlapped =>
    /\ \A o, p \in Operator :
         (InfraAt(o) \in {"sent", "read", "written"} /\ InfraAt(p) \in {"sent", "read", "written"})
           => o = p
    /\ \A o \in Operator : InfraAt(o) = "written" =>
         WrittenIn(pages[o].card["infra"].found, configFile)
    /\ (\A o \in Operator : InfraAt(o) # "written") => WrittenIn(memory, configFile)

SettingsInv == SettingsShapes /\ OneSave

(* What a change of a card leaves alone, and what it makes of the card.    *)
Changed(k, change) == [f \in DOMAIN k |-> IF f \in DOMAIN change THEN change[f] ELSE k[f]]

LEMMA CardBecomesIs ==
  ASSUME SettingsShapes, NEW o \in Operator, NEW c \in Conf!Card, NEW change,
         Conf!CardBecomes(o, c, change),
         CardShape(c, Changed(pages[o].card[c], change)),
         ConfigShape(configFile'), ConfigShape(memory')
  PROVE  /\ SettingsShapes'
         /\ pages'[o].card[c] = Changed(pages[o].card[c], change)
         /\ \A p \in Operator, d \in Conf!Card : p # o \/ d # c => pages'[p].card[d] = pages[p].card[d]
<1> DEFINE k == Changed(pages[o].card[c], change)
<1>1. /\ pages = [p \in Operator |-> pages[p]] /\ PageShape(pages[o])
      /\ pages[o] = [config |-> pages[o].config, card |-> pages[o].card]
      /\ pages[o].card = [d \in Conf!Card |-> pages[o].card[d]]
  BY DEF SettingsShapes, PageShape
<1>2. pages' = [pages EXCEPT ![o].card[c] = k]
  BY DEF Conf!CardBecomes, Changed
<1> HIDE DEF k
<1>3. pages'[o] = [pages[o] EXCEPT !.card = [pages[o].card EXCEPT ![c] = k]]
  BY <1>1, <1>2
<1>4. \A p \in Operator \ {o} : pages'[p] = pages[p]
  BY <1>1, <1>2
<1> DEFINE cards == [pages[o].card EXCEPT ![c] = k]
<1>5. /\ cards[c] = k /\ cards = [d \in Conf!Card |-> cards[d]]
      /\ \A d \in Conf!Card \ {c} : cards[d] = pages[o].card[d]
  BY <1>1
<1> HIDE DEF cards
<1>6. /\ pages'[o] = [config |-> pages[o].config, card |-> cards]
      /\ pages'[o].config = pages[o].config /\ pages'[o].card = cards
  BY <1>1, <1>3 DEF cards
<1>7. PageShape(pages'[o])
  BY <1>1, <1>5, <1>6 DEF PageShape, k
<1>8. pages' = [p \in Operator |-> pages'[p]]
  BY <1>1, <1>2
<1> QED
  BY <1>4, <1>5, <1>6, <1>7, <1>8 DEF SettingsShapes, k


CardFields == {"editing", "saving", "failed", "draft", "at", "patch", "found", "text"}

LEMMA ChangedIs ==
  ASSUME NEW c, NEW k, CardShape(c, k), NEW change, DOMAIN change \subseteq CardFields, NEW n,
           n = Changed(k, change)
  PROVE  /\ n = [editing |-> n.editing, saving |-> n.saving, failed |-> n.failed, draft |-> n.draft,
                 at |-> n.at, patch |-> n.patch, found |-> n.found, text |-> n.text]
         /\ n.editing = IF "editing" \in DOMAIN change THEN change.editing ELSE k.editing
         /\ n.draft = IF "draft" \in DOMAIN change THEN change.draft ELSE k.draft
         /\ n.at = IF "at" \in DOMAIN change THEN change.at ELSE k.at
         /\ n.patch = IF "patch" \in DOMAIN change THEN change.patch ELSE k.patch
         /\ n.found = IF "found" \in DOMAIN change THEN change.found ELSE k.found
         /\ n.text = IF "text" \in DOMAIN change THEN change.text ELSE k.text
<1>1. DOMAIN k = CardFields
  BY DEF CardShape, CardFields
<1>2. n = [f \in CardFields |-> IF f \in DOMAIN change THEN change[f] ELSE k[f]]
  BY <1>1 DEF Changed
<1> QED
  BY <1>2 DEF CardFields

(* Steps that touch neither the file nor the infrastructure in memory, and *)
(* begin or end no save of the file.                                       *)
Saves == {"sent", "read", "written"}
LEMMA OneSaveStays ==
  ASSUME OneSave, ~ overlapped' => ~ overlapped,
         \A s \in Infra : memory'[s] = memory[s] /\ configFile'[s] = configFile[s],
         \A p \in Operator :
           /\ InfraAt(p)' \in Saves => InfraAt(p) \in Saves
           /\ InfraAt(p)' = "written" <=> InfraAt(p) = "written"
           /\ InfraAt(p) = "written" => pages'[p].card["infra"].found = pages[p].card["infra"].found
  PROVE  OneSave'
  BY DEF OneSave, Saves, InfraAt, WrittenIn

LEMMA CardIs ==
  ASSUME SettingsShapes, NEW o \in Operator, NEW c \in Conf!Card
  PROVE  CardShape(c, pages[o].card[c]) /\ ConfigShape(pages[o].config)
  BY DEF SettingsShapes, PageShape

LEMMA CardKinds ==
  ASSUME Conf!SettingsAssumption
  PROVE  /\ "infra" \in Conf!Card /\ Conf!Sections("infra") = Infra
         /\ \A c \in Listed : c # "infra" /\ c \in Conf!Card /\ c \notin Infra /\ Conf!Sections(c) = {c}
         /\ \A c \in Conf!Card : c # "infra" => c \in Listed
         /\ Conf!Section = Listed \union Infra /\ Bad \notin Value
  BY DEF Conf!SettingsAssumption, Conf!Card, Conf!Sections, Conf!Section

(* A change of one card, of what it takes a save of the file for.          *)
LEMMA CardStays ==
  ASSUME SettingsInv, NEW o \in Operator, NEW c \in Conf!Card, NEW change,
           DOMAIN change \subseteq CardFields,
         Conf!CardBecomes(o, c, change), UNCHANGED <<configFile, overlapped>>,
         ConfigShape(memory'), \A s \in Infra : memory'[s] = memory[s],
         \A n : n = Changed(pages[o].card[c], change) =>
           /\ CardShape(c, n)
           /\ c = "infra" =>
                /\ n.at \in Saves => InfraAt(o) \in Saves
                /\ n.at = "written" <=> InfraAt(o) = "written"
                /\ InfraAt(o) = "written" => n.found = pages[o].card["infra"].found
  PROVE  SettingsInv'
<1> DEFINE n == Changed(pages[o].card[c], change)
<1>1. CardShape(c, n)
  OBVIOUS
<1>2. ConfigShape(configFile')
  BY DEF SettingsInv, SettingsShapes
<1>3. /\ SettingsShapes' /\ pages'[o].card[c] = n
      /\ \A p \in Operator, d \in Conf!Card : p # o \/ d # c => pages'[p].card[d] = pages[p].card[d]
  BY <1>1, <1>2, CardBecomesIs DEF SettingsInv
<1>4. "infra" \in Conf!Card
  BY DEF Conf!Card
<1> HIDE DEF n
<1>5. \A p \in Operator :
        /\ InfraAt(p)' \in Saves => InfraAt(p) \in Saves
        /\ InfraAt(p)' = "written" <=> InfraAt(p) = "written"
        /\ InfraAt(p) = "written" => pages'[p].card["infra"].found = pages[p].card["infra"].found
  <2>1. CASE c = "infra"
    BY <1>3, <1>4, <2>1 DEF InfraAt, n
  <2>2. CASE c # "infra"
    BY <1>3, <1>4, <2>2 DEF InfraAt
  <2> QED
    BY <2>1, <2>2
<1>6. OneSave'
  BY <1>5, OneSaveStays DEF SettingsInv
<1> QED
  BY <1>3, <1>6 DEF SettingsInv


LEMMA DraftOfPage ==
  ASSUME Conf!SettingsAssumption, NEW c \in Conf!Card, NEW g, ConfigShape(g)
  PROVE  DraftShape(c, Conf!Part(g, c))
<1> DEFINE d == Conf!Part(g, c)
<1>1. d = [s \in Conf!Sections(c) |-> g[s]]
  BY DEF Conf!Part
<1> HIDE DEF d
<1>2. /\ \A s \in Infra : g[s] \in Conf!Settable(s)
      /\ \A s \in Listed : g[s] \in Seq(Conf!EntryShape)
  BY DEF ConfigShape
<1>3. d = [s \in Conf!Sections(c) |-> d[s]]
  BY <1>1
<1>4. CASE c = "infra"
  BY <1>1, <1>2, <1>3, <1>4, CardKinds DEF DraftShape, d
<1>5. CASE c # "infra"
  <2>1. c \in Listed /\ c \in Conf!Sections(c)
    BY <1>5, CardKinds
  <2>2. d[c] = g[c]
    BY <1>1, <2>1
  <2> QED
    BY <1>2, <1>3, <1>5, <2>1, <2>2 DEF DraftShape, d
<1> QED
  BY <1>4, <1>5

LEMMA AppliedConfig ==
  ASSUME Conf!SettingsAssumption, NEW c \in Conf!Card, NEW g, ConfigShape(g), NEW d, DraftShape(c, d)
  PROVE  /\ c # "infra" => /\ ConfigShape(Conf!Applied(d, g))
                           /\ \A s \in Infra : Conf!Applied(d, g)[s] = g[s]
         /\ c = "infra" /\ ~ Conf!IsRefused(d) => ConfigShape(Conf!Applied(d, g))
<1> DEFINE a == Conf!Applied(d, g)
<1>1. a = [s \in Conf!Section |-> IF s \in DOMAIN d THEN d[s] ELSE g[s]]
  BY DEF Conf!Applied
<1>2. DOMAIN d = Conf!Sections(c)
  BY DEF DraftShape
<1> HIDE DEF a
<1>3. CASE c # "infra"
  <2>1. c \in Listed /\ DOMAIN d = {c} /\ d[c] \in Seq(Conf!EntryShape)
    BY <1>2, <1>3, CardKinds DEF DraftShape
  <2>2. \A s \in Infra : a[s] = g[s]
    BY <1>1, <2>1, CardKinds
  <2>3. \A s \in Listed : a[s] \in Seq(Conf!EntryShape)
    BY <1>1, <2>1, CardKinds DEF ConfigShape
  <2>4. a = [s \in Conf!Section |-> a[s]]
    BY <1>1
  <2> QED
    BY <1>3, <2>2, <2>3, <2>4 DEF ConfigShape, a
<1>4. CASE c = "infra" /\ ~ Conf!IsRefused(d)
  <2>1. DOMAIN d = Infra /\ \A s \in Infra : d[s] \in Conf!Settable(s)
    BY <1>2, <1>4, CardKinds DEF DraftShape, Conf!IsRefused
  <2>2. \A s \in Infra : a[s] \in Conf!Settable(s)
    BY <1>1, <2>1, CardKinds
  <2>3. \A s \in Listed : a[s] \in Seq(Conf!EntryShape)
    BY <1>1, <2>1, CardKinds DEF ConfigShape
  <2>4. a = [s \in Conf!Section |-> a[s]]
    BY <1>1
  <2> QED
    BY <1>4, <2>2, <2>3, <2>4 DEF ConfigShape, a
<1> QED
  BY <1>3, <1>4 DEF a

(* The file that is written stands for the configuration it was made for.  *)
LEMMA EditedStands ==
  ASSUME Conf!SettingsAssumption, NEW g, ConfigShape(g), NEW next, ConfigShape(next)
  PROVE  ConfigShape(Conf!Edited(g, next)) /\ WrittenIn(next, Conf!Edited(g, next))
<1> DEFINE text == Conf!Edited(g, next)
<1>1. text = [s \in Conf!Section |-> IF next[s] = Absent THEN g[s] ELSE next[s]]
  BY DEF Conf!Edited
<1> HIDE DEF text
<1>2. /\ \A s \in Infra : text[s] = IF next[s] = Absent THEN g[s] ELSE next[s]
      /\ \A s \in Listed : text[s] = IF next[s] = Absent THEN g[s] ELSE next[s]
      /\ text = [s \in Conf!Section |-> text[s]]
  BY <1>1, CardKinds
<1>3. ConfigShape(text)
  BY <1>2 DEF ConfigShape
<1>4. \A s \in Infra : next[s] = Absent => s \in Optional
  BY DEF ConfigShape, Conf!Settable, Conf!SettingsAssumption
<1>5. WrittenIn(next, text)
  BY <1>2, <1>4 DEF WrittenIn
<1> QED
  BY <1>3, <1>5 DEF text

(* What the lists of a card become.                                        *)
LEMMA ListsEdited ==
  ASSUME NEW list \in Seq(Conf!EntryShape)
  PROVE  \A next \in Conf!EditsOf(list) : next \in Seq(Conf!EntryShape)
<1>1. Len(list) \in Nat /\ DOMAIN list = 1 .. Len(list)
  OBVIOUS
<1>2. \A i \in DOMAIN list : list[i] \in Conf!EntryShape
  OBVIOUS
<1>3. [label |-> Len(list) + 1, body |-> 0] \in Conf!EntryShape
  BY <1>1 DEF Conf!EntryShape
<1>4. Conf!Created(list) \in Seq(Conf!EntryShape)
  BY <1>3 DEF Conf!Created
<1>5. ASSUME NEW next \in Conf!EntryShape PROVE Conf!Updated(list, next) \in Seq(Conf!EntryShape)
  <2> DEFINE u == Conf!Updated(list, next)
  <2>1. u = [i \in 1 .. Len(list) |-> IF list[i].label = next.label THEN next ELSE list[i]]
    BY <1>1 DEF Conf!Updated
  <2>2. \A i \in 1 .. Len(list) :
          (IF list[i].label = next.label THEN next ELSE list[i]) \in Conf!EntryShape
    BY <1>1, <1>2
  <2>3. u \in [1 .. Len(list) -> Conf!EntryShape]
    BY <2>1, <2>2
  <2> HIDE DEF u
  <2>4. u \in Seq(Conf!EntryShape)
    BY <1>1, <2>3, SeqDef
  <2> QED
    BY <2>4 DEF u
<1>6. \A e \in Conf!EntryShape : [e EXCEPT !.body = 1] \in Conf!EntryShape
  BY DEF Conf!EntryShape
<1>7. \A e \in Conf!EntryShape, l \in 1 .. 2 : [e EXCEPT !.label = l] \in Conf!EntryShape
  BY DEF Conf!EntryShape
<1>8. ASSUME NEW i \in DOMAIN list
      PROVE  Conf!Updated(list, [list[i] EXCEPT !.body = 1]) \in Seq(Conf!EntryShape)
  BY <1>2, <1>5, <1>6
<1>9. ASSUME NEW i \in DOMAIN list, NEW l \in 1 .. 2
      PROVE  Conf!Updated(list, [list[i] EXCEPT !.label = l]) \in Seq(Conf!EntryShape)
  BY <1>2, <1>5, <1>7
<1> DEFINE A == {Conf!Updated(list, [list[i] EXCEPT !.body = 1]) : i \in DOMAIN list}
           B(l) == {Conf!Updated(list, [list[i] EXCEPT !.label = l]) : i \in DOMAIN list}
<1>10. Conf!EditsOf(list) = {Conf!Created(list)} \union A \union UNION {B(l) : l \in 1 .. 2}
  BY Zenon DEF Conf!EditsOf
<1>11. A \subseteq Seq(Conf!EntryShape)
  BY <1>8
<1>12. \A l \in 1 .. 2 : B(l) \subseteq Seq(Conf!EntryShape)
  BY <1>9
<1> HIDE DEF A, B
<1> QED
  BY <1>4, <1>10, <1>11, <1>12

LEMMA ConfOpens ==
  ASSUME Conf!SettingsAssumption, SettingsInv, NEW o \in Operator, Conf!Opens(o)
  PROVE  SettingsInv'
<1> DEFINE g == Conf!PageOf(memory)
<1>1. /\ pages' = [pages EXCEPT ![o] = g] /\ UNCHANGED <<configFile, memory, overlapped>>
      /\ pages = [p \in Operator |-> pages[p]]
  BY DEF Conf!Opens, SettingsInv, SettingsShapes
<1>2. /\ PageShape(g) /\ g.card["infra"].at = "idle"
  <2>1. \A c \in Conf!Card : CardShape(c, Conf!Closed)
    BY DEF CardShape, Conf!Closed, CardStep
  <2>2. ConfigShape(memory) /\ g = [config |-> memory, card |-> [c \in Conf!Card |-> Conf!Closed]]
    BY DEF SettingsInv, SettingsShapes, Conf!PageOf
  <2>3. g.config = memory /\ g.card = [c \in Conf!Card |-> Conf!Closed]
    BY <2>2
  <2>4. g = [config |-> g.config, card |-> g.card]
    BY <2>2
  <2>5. Conf!Closed.at = "idle"
    BY DEF Conf!Closed
  <2> HIDE DEF g
  <2>6. \A c \in Conf!Card : g.card[c] = Conf!Closed
    BY <2>3
  <2> QED
    BY <2>1, <2>2, <2>3, <2>4, <2>5, <2>6, CardKinds DEF PageShape
<1> HIDE DEF g
<1>3. InfraAt(o) = "idle"
  BY CardKinds DEF Conf!Opens, InfraAt
<1>4. pages'[o] = g /\ \A p \in Operator \ {o} : pages'[p] = pages[p]
  BY <1>1
<1>5. SettingsShapes'
  BY <1>1, <1>2, <1>4 DEF SettingsInv, SettingsShapes
<1>6. \A p \in Operator :
        /\ InfraAt(p)' \in Saves => InfraAt(p) \in Saves
        /\ InfraAt(p)' = "written" <=> InfraAt(p) = "written"
        /\ InfraAt(p) = "written" => pages'[p].card["infra"].found = pages[p].card["infra"].found
  BY <1>2, <1>3, <1>4 DEF InfraAt, Saves
<1> QED
  BY <1>1, <1>5, <1>6, OneSaveStays DEF SettingsInv


(* Starting an edit, giving it up and typing.                              *)
LEMMA ConfStartEdit ==
  ASSUME Conf!SettingsAssumption, SettingsInv, NEW o \in Operator, NEW c \in Conf!Card,
           Conf!StartEdit(o, c)
  PROVE  SettingsInv'
<1> DEFINE k == pages[o].card[c]
           d == Conf!Part(pages[o].config, c)
           change == [editing |-> TRUE, draft |-> d]
<1>1. Conf!CardBecomes(o, c, change) /\ UNCHANGED <<configFile, memory, overlapped>>
  BY DEF Conf!StartEdit, Conf!OnPage
<1>2. CardShape(c, k) /\ DraftShape(c, d) /\ ConfigShape(memory)
  BY CardIs, DraftOfPage DEF SettingsInv, SettingsShapes
<1> HIDE DEF k, d
<1>3. DOMAIN change \subseteq CardFields
  BY DEF CardFields
<1>4. ASSUME NEW n, n = Changed(k, change)
      PROVE  CardShape(c, n) /\ n.at = k.at /\ n.found = k.found
  BY <1>2, <1>3, <1>4, ChangedIs DEF CardShape
<1> HIDE DEF change
<1> QED
  BY <1>1, <1>2, <1>3, <1>4, CardStays DEF k, InfraAt

LEMMA ConfCancel ==
  ASSUME Conf!SettingsAssumption, SettingsInv, NEW o \in Operator, NEW c \in Conf!Card, Conf!Cancel(o, c)
  PROVE  SettingsInv'
<1> DEFINE k == pages[o].card[c]
           change == [editing |-> FALSE]
<1>1. Conf!CardBecomes(o, c, change) /\ UNCHANGED <<configFile, memory, overlapped>>
  BY DEF Conf!Cancel, Conf!OnPage
<1>2. CardShape(c, k) /\ ConfigShape(memory)
  BY CardIs DEF SettingsInv, SettingsShapes
<1> HIDE DEF k
<1>3. DOMAIN change \subseteq CardFields
  BY DEF CardFields
<1>4. ASSUME NEW n, n = Changed(k, change)
      PROVE  CardShape(c, n) /\ n.at = k.at /\ n.found = k.found
  BY <1>2, <1>3, <1>4, ChangedIs DEF CardShape
<1> HIDE DEF change
<1> QED
  BY <1>1, <1>2, <1>3, <1>4, CardStays DEF k, InfraAt

(* A draft that is replaced by another.                                    *)
LEMMA DraftReplaced ==
  ASSUME SettingsInv, NEW o \in Operator, NEW c \in Conf!Card, NEW d, DraftShape(c, d),
         Conf!CardBecomes(o, c, [draft |-> d]), UNCHANGED <<configFile, memory, overlapped>>
  PROVE  SettingsInv'
<1> DEFINE k == pages[o].card[c]
           change == [draft |-> d]
<1>2. CardShape(c, k) /\ ConfigShape(memory)
  BY CardIs DEF SettingsInv, SettingsShapes
<1> HIDE DEF k
<1>3. DOMAIN change \subseteq CardFields
  BY DEF CardFields
<1>4. ASSUME NEW n, n = Changed(k, change)
      PROVE  CardShape(c, n) /\ n.at = k.at /\ n.found = k.found
  BY <1>2, <1>3, <1>4, ChangedIs DEF CardShape
<1>5. Conf!CardBecomes(o, c, change)
  OBVIOUS
<1> HIDE DEF change
<1> QED
  BY <1>2, <1>3, <1>4, <1>5, CardStays DEF k, InfraAt

LEMMA ConfEditList ==
  ASSUME Conf!SettingsAssumption, SettingsInv, NEW o \in Operator, NEW c \in Listed, Conf!EditList(o, c)
  PROVE  SettingsInv'
<1> DEFINE list == pages[o].card[c].draft[c]
<1>1. c \in Conf!Card /\ c # "infra" /\ Conf!Sections(c) = {c}
  BY CardKinds
<1>2. CardShape(c, pages[o].card[c])
  BY <1>1, CardIs DEF SettingsInv
<1>3. list \in Seq(Conf!EntryShape)
  BY <1>1, <1>2 DEF Conf!EditList, CardShape, DraftShape
<1>4. PICK next \in Conf!EditsOf(list) : Conf!CardBecomes(o, c, [draft |-> [s \in {c} |-> next]])
  BY DEF Conf!EditList
<1>5. UNCHANGED <<configFile, memory, overlapped>>
  BY DEF Conf!EditList, Conf!OnPage
<1> HIDE DEF list
<1>6. next \in Seq(Conf!EntryShape)
  BY <1>3, <1>4, ListsEdited
<1> DEFINE d == [s \in {c} |-> next]
<1>7. DraftShape(c, d)
  BY <1>1, <1>6 DEF DraftShape
<1>8. Conf!CardBecomes(o, c, [draft |-> d])
  BY <1>4
<1> HIDE DEF d
<1> QED
  BY <1>1, <1>5, <1>7, <1>8, DraftReplaced

LEMMA ConfEditField ==
  ASSUME Conf!SettingsAssumption, SettingsInv, NEW o \in Operator, Conf!EditField(o)
  PROVE  SettingsInv'
<1> DEFINE old == pages[o].card["infra"].draft
<1>1. "infra" \in Conf!Card /\ Conf!Sections("infra") = Infra
  BY CardKinds
<1>2. DraftShape("infra", old)
  BY <1>1, CardIs DEF SettingsInv, Conf!EditField, CardShape
<1>3. PICK s \in Infra : \E v \in IF s \in Optional THEN Value ELSE Value \union {Bad} :
        Conf!CardBecomes(o, "infra", [draft |-> [old EXCEPT ![s] = v]])
  BY DEF Conf!EditField
<1>4. UNCHANGED <<configFile, memory, overlapped>>
  BY DEF Conf!EditField, Conf!OnPage
<1> HIDE DEF old
<1>5. PICK v \in Conf!Settable(s) \union {Bad} : Conf!CardBecomes(o, "infra",
        [draft |-> [old EXCEPT ![s] = v]])
  BY <1>3 DEF Conf!Settable
<1> DEFINE d == [old EXCEPT ![s] = v]
<1>6. DraftShape("infra", d)
  BY <1>1, <1>2 DEF DraftShape
<1>7. Conf!CardBecomes(o, "infra", [draft |-> d])
  BY <1>5
<1> HIDE DEF d
<1> QED
  BY <1>1, <1>4, <1>6, <1>7, DraftReplaced


(* A save begins.                                                          *)
LEMMA ConfSave ==
  ASSUME Conf!SettingsAssumption, SettingsInv, NEW o \in Operator, NEW c \in Conf!Card, Conf!Save(o, c)
  PROVE  SettingsInv'
<1> DEFINE k == pages[o].card[c]
           change == [saving |-> TRUE, failed |-> FALSE, at |-> "sent", patch |-> k.draft]
<1>1. /\ k.editing /\ Conf!CardBecomes(o, c, change) /\ UNCHANGED <<configFile, memory>>
      /\ overlapped' = (overlapped \/ (c = "infra"
           /\ \E p \in Operator : <<p, "infra">> \in Conf!Saving))
  BY Zenon DEF Conf!Save
<1>2. CardShape(c, k) /\ ConfigShape(memory) /\ ConfigShape(configFile)
  BY CardIs DEF SettingsInv, SettingsShapes
<1> HIDE DEF k
<1>3. DOMAIN change \subseteq CardFields
  BY DEF CardFields
<1> DEFINE n == Changed(k, change)
<1>4. CardShape(c, n) /\ n.at = "sent"
  <2> HIDE DEF n
  <2>1. /\ n = [editing |-> n.editing, saving |-> n.saving, failed |-> n.failed, draft |-> n.draft,
                at |-> n.at, patch |-> n.patch, found |-> n.found, text |-> n.text]
        /\ n.editing = k.editing /\ n.draft = k.draft /\ n.at = "sent" /\ n.patch = k.draft
    BY <1>2, <1>3, ChangedIs DEF n
  <2> QED
    BY <1>1, <1>2, <2>1 DEF CardShape, CardStep
<1> HIDE DEF n, change
<1>5. /\ SettingsShapes' /\ pages'[o].card[c] = n
      /\ \A p \in Operator, d \in Conf!Card : p # o \/ d # c => pages'[p].card[d] = pages[p].card[d]
  BY <1>1, <1>2, <1>4, CardBecomesIs DEF SettingsInv, k, n
<1>6. "infra" \in Conf!Card
  BY CardKinds
<1>7. OneSave'
  <2>1. CASE c # "infra"
    BY <1>1, <1>5, <1>6, <2>1, OneSaveStays DEF SettingsInv, InfraAt
  <2>2. CASE c = "infra" /\ ~ overlapped'
    <3>1. ~ overlapped /\ \A p \in Operator : <<p, "infra">> \notin Conf!Saving
      BY <1>1, <2>2
    <3>2. \A p \in Operator : InfraAt(p) \notin Saves
      BY <1>6, <3>1 DEF Conf!Saving, InfraAt, Saves
    <3>3. \A p \in Operator : InfraAt(p)' # "written"
      BY <1>4, <1>5, <1>6, <2>2, <3>2 DEF InfraAt, Saves
    <3>4. \A p \in Operator : InfraAt(p)' \in Saves => p = o
      BY <1>5, <1>6, <2>2, <3>2 DEF InfraAt
    <3>5. \A p \in Operator : InfraAt(p) # "written"
      BY <3>2 DEF Saves
    <3> QED
      BY <1>1, <3>1, <3>3, <3>4, <3>5 DEF SettingsInv, OneSave, Saves
  <2>3. CASE overlapped'
    BY <2>3 DEF OneSave
  <2> QED
    BY <2>1, <2>2, <2>3
<1> QED
  BY <1>5, <1>7 DEF SettingsInv

(* A card of the copy in memory: the infrastructure stays.                 *)
LEMMA ConfUpdateInMemory ==
  ASSUME Conf!SettingsAssumption, SettingsInv, NEW o \in Operator, NEW c \in Listed,
           Conf!UpdateInMemory(o, c)
  PROVE  SettingsInv'
<1> DEFINE k == pages[o].card[c]
           change == [at |-> "answer", found |-> memory']
<1>1. /\ k.at = "sent" /\ memory' = Conf!Applied(k.patch, memory) /\ Conf!CardBecomes(o, c, change)
      /\ UNCHANGED <<configFile, overlapped>>
  BY Zenon DEF Conf!UpdateInMemory
<1>2. c \in Conf!Card /\ c # "infra"
  BY CardKinds
<1>3. CardShape(c, k) /\ ConfigShape(memory)
  BY <1>2, CardIs DEF SettingsInv, SettingsShapes
<1>4. DraftShape(c, k.patch)
  BY <1>1, <1>3 DEF CardShape
<1>5. ConfigShape(memory') /\ \A s \in Infra : memory'[s] = memory[s]
  BY <1>1, <1>2, <1>3, <1>4, AppliedConfig
<1> HIDE DEF k
<1>6. DOMAIN change \subseteq CardFields
  BY DEF CardFields
<1>7. ASSUME NEW n, n = Changed(k, change) PROVE CardShape(c, n)
  <2>1. /\ n = [editing |-> n.editing, saving |-> n.saving, failed |-> n.failed, draft |-> n.draft,
                at |-> n.at, patch |-> n.patch, found |-> n.found, text |-> n.text]
        /\ n.editing = k.editing /\ n.draft = k.draft /\ n.at = "answer" /\ n.found = memory'
    BY <1>3, <1>6, <1>7, ChangedIs
  <2> QED
    BY <1>3, <1>5, <2>1 DEF CardShape, CardStep
<1> HIDE DEF change
<1> QED
  BY <1>1, <1>2, <1>5, <1>6, <1>7, CardStays DEF k

(* A change of the step of a card that neither begins a save, nor ends one *)
(* that has written the file, nor follows a write.                         *)
LEMMA StepChanges ==
  ASSUME SettingsInv, NEW o \in Operator, NEW c \in Conf!Card, NEW change,
           DOMAIN change \subseteq CardFields,
         Conf!CardBecomes(o, c, change), UNCHANGED <<configFile, memory, overlapped>>,
         "at" \in DOMAIN change, change.at \in CardStep \ {"sent", "read", "written"},
         change.at = "answer" => pages[o].card[c].at = "answer",
         DOMAIN change \intersect {"editing", "draft", "patch", "found"} = {},
         c = "infra" => InfraAt(o) # "written"
  PROVE  SettingsInv'
<1> DEFINE k == pages[o].card[c]
<1>1. CardShape(c, k) /\ ConfigShape(memory)
  BY CardIs DEF SettingsInv, SettingsShapes
<1> HIDE DEF k
<1>2. ASSUME NEW n, n = Changed(k, change) PROVE CardShape(c, n) /\ n.at = change.at
  <2>1. /\ n = [editing |-> n.editing, saving |-> n.saving, failed |-> n.failed, draft |-> n.draft,
                at |-> n.at, patch |-> n.patch, found |-> n.found, text |-> n.text]
        /\ n.editing = k.editing /\ n.draft = k.draft /\ n.at = change.at /\ n.found = k.found
    BY <1>1, <1>2, ChangedIs
  <2> QED
    BY <1>1, <2>1 DEF CardShape, k
<1> QED
  BY <1>1, <1>2, CardStays DEF k, InfraAt, Saves


(* The steps of a save of the file.                                        *)
LEMMA ConfRefuses ==
  ASSUME Conf!SettingsAssumption, SettingsInv, NEW o \in Operator,
         Conf!Refuses(o) \/ Conf!ModifyFails(o) \/ Conf!SaveSticks(o)
  PROVE  SettingsInv'
<1>1. PICK at \in {"rejected", "refused", "idle"} : Conf!CardBecomes(o, "infra", [at |-> at])
  BY DEF Conf!Refuses, Conf!ModifyFails, Conf!SaveSticks
<1>2. UNCHANGED <<configFile, memory, overlapped>> /\ InfraAt(o) # "written"
  BY DEF Conf!Refuses, Conf!ModifyFails, Conf!SaveSticks, InfraAt
<1> QED
  BY <1>1, <1>2, CardKinds, StepChanges DEF CardFields, CardStep

LEMMA ConfAnswerLost ==
  ASSUME Conf!SettingsAssumption, SettingsInv, NEW o \in Operator, NEW c \in Conf!Card,
           Conf!AnswerLost(o, c)
  PROVE  SettingsInv'
<1>1. Conf!CardBecomes(o, c, [at |-> "rejected"]) /\ UNCHANGED <<configFile, memory, overlapped>>
  BY DEF Conf!AnswerLost
<1>2. c = "infra" => InfraAt(o) # "written"
  BY DEF Conf!AnswerLost, InfraAt
<1> QED
  BY <1>1, <1>2, StepChanges DEF CardFields, CardStep

LEMMA ConfSaveFails ==
  ASSUME Conf!SettingsAssumption, SettingsInv, NEW o \in Operator, NEW c \in Conf!Card,
           Conf!SaveFails(o, c)
  PROVE  SettingsInv'
<1>1. /\ Conf!CardBecomes(o, c, [at |-> "idle", saving |-> FALSE, failed |-> TRUE])
      /\ UNCHANGED <<configFile, memory, overlapped>>
  BY DEF Conf!SaveFails
<1>2. c = "infra" => InfraAt(o) # "written"
  BY DEF Conf!SaveFails, InfraAt
<1> QED
  BY <1>1, <1>2, StepChanges DEF CardFields, CardStep

LEMMA ConfModifyReads ==
  ASSUME Conf!SettingsAssumption, SettingsInv, NEW o \in Operator, Conf!ModifyReads(o)
  PROVE  SettingsInv'
<1> DEFINE k == pages[o].card["infra"]
           next == Conf!Applied(k.patch, configFile)
           change == [at |-> "read", found |-> next, text |-> Conf!Edited(configFile, next)]
<1>1. /\ k.at = "sent" /\ ~ Conf!IsRefused(k.patch) /\ Conf!CardBecomes(o, "infra", change)
      /\ UNCHANGED <<configFile, memory, overlapped>>
  BY Zenon DEF Conf!ModifyReads
<1>2. "infra" \in Conf!Card
  BY CardKinds
<1>3. CardShape("infra", k) /\ ConfigShape(memory) /\ ConfigShape(configFile)
  BY <1>2, CardIs DEF SettingsInv, SettingsShapes
<1>4. DraftShape("infra", k.patch)
  BY <1>1, <1>3 DEF CardShape
<1>5. ConfigShape(next)
  BY <1>1, <1>2, <1>3, <1>4, AppliedConfig
<1>6. ConfigShape(change.text) /\ WrittenIn(change.found, change.text)
  BY <1>3, <1>5, EditedStands
<1> HIDE DEF k, next
<1>7. DOMAIN change \subseteq CardFields
  BY DEF CardFields
<1>8. ASSUME NEW n, n = Changed(k, change) PROVE CardShape("infra", n) /\ n.at = "read"
  <2>1. /\ n = [editing |-> n.editing, saving |-> n.saving, failed |-> n.failed, draft |-> n.draft,
                at |-> n.at, patch |-> n.patch, found |-> n.found, text |-> n.text]
        /\ n.editing = k.editing /\ n.draft = k.draft /\ n.at = "read" /\ n.found = change.found
        /\ n.patch = k.patch /\ n.text = change.text
    BY <1>3, <1>7, <1>8, ChangedIs
  <2> QED
    BY <1>3, <1>4, <1>5, <1>6, <2>1 DEF CardShape, CardStep
<1> HIDE DEF change
<1> QED
  BY <1>1, <1>2, <1>3, <1>7, <1>8, CardStays DEF k, InfraAt, Saves

(* The file is written, and what was written becomes the copy in memory.   *)
LEMMA FileMoves ==
  ASSUME Conf!SettingsAssumption, SettingsInv, NEW o \in Operator,
         NEW at \in {"written", "answer"}, Conf!CardBecomes(o, "infra", [at |-> at]),
         InfraAt(o) \in {"read", "written"}, ConfigShape(configFile'), ConfigShape(memory')
  PROVE  /\ SettingsShapes' /\ InfraAt(o)' = at
         /\ pages'[o].card["infra"].found = pages[o].card["infra"].found
         /\ \A p \in Operator \ {o} : pages'[p].card["infra"] = pages[p].card["infra"]
<1> DEFINE k == pages[o].card["infra"]
           change == [at |-> at]
           n == Changed(k, change)
<1>1. "infra" \in Conf!Card
  BY CardKinds
<1>2. CardShape("infra", k) /\ k.at \in {"read", "written"}
  BY <1>1, CardIs DEF SettingsInv, InfraAt
<1> HIDE DEF k
<1>3. DOMAIN change \subseteq CardFields
  BY DEF CardFields
<1>4. CardShape("infra", n) /\ n.at = at /\ n.found = k.found
  <2> HIDE DEF n
  <2>1. /\ n = [editing |-> n.editing, saving |-> n.saving, failed |-> n.failed, draft |-> n.draft,
                at |-> n.at, patch |-> n.patch, found |-> n.found, text |-> n.text]
        /\ n.editing = k.editing /\ n.draft = k.draft /\ n.at = at /\ n.found = k.found
        /\ n.patch = k.patch
    BY <1>2, <1>3, ChangedIs DEF n
  <2> QED
    BY <1>2, <2>1 DEF CardShape, CardStep
<1>5. Conf!CardBecomes(o, "infra", change)
  OBVIOUS
<1> HIDE DEF change, n
<1>6. /\ SettingsShapes' /\ pages'[o].card["infra"] = n
      /\ \A p \in Operator, d \in Conf!Card : p # o \/ d # "infra"
           => pages'[p].card[d] = pages[p].card[d]
  BY <1>1, <1>4, <1>5, CardBecomesIs DEF SettingsInv, k, n
<1> QED
  BY <1>1, <1>4, <1>6 DEF InfraAt, k

LEMMA ConfModifyWrites ==
  ASSUME Conf!SettingsAssumption, SettingsInv, NEW o \in Operator, Conf!ModifyWrites(o)
  PROVE  SettingsInv'
<1> DEFINE k == pages[o].card["infra"]
<1>1. /\ InfraAt(o) = "read" /\ configFile' = k.text /\ Conf!CardBecomes(o, "infra", [at |-> "written"])
      /\ UNCHANGED <<memory, overlapped>>
  BY Zenon DEF Conf!ModifyWrites, InfraAt
<1>2. ConfigShape(k.text) /\ ConfigShape(memory) /\ WrittenIn(k.found, k.text)
  BY <1>1, CardKinds, CardIs DEF SettingsInv, SettingsShapes, CardShape, InfraAt
<1>3. /\ SettingsShapes' /\ InfraAt(o)' = "written"
      /\ pages'[o].card["infra"].found = k.found
      /\ \A p \in Operator \ {o} : pages'[p].card["infra"] = pages[p].card["infra"]
  BY <1>1, <1>2, FileMoves
<1> HIDE DEF k
<1>4. OneSave'
  <2> SUFFICES ASSUME ~ overlapped PROVE OneSave'
    BY <1>1 DEF OneSave
  <2>1. \A p \in Operator \ {o} : InfraAt(p) \notin Saves /\ InfraAt(p)' = InfraAt(p)
    BY <1>1, <1>3 DEF SettingsInv, OneSave, Saves, InfraAt
  <2> QED
    BY <1>1, <1>2, <1>3, <2>1 DEF OneSave, Saves, InfraAt
<1> QED
  BY <1>3, <1>4 DEF SettingsInv

LEMMA ConfSetConfig ==
  ASSUME Conf!SettingsAssumption, SettingsInv, NEW o \in Operator, Conf!SetConfig(o)
  PROVE  SettingsInv'
<1> DEFINE k == pages[o].card["infra"]
<1>1. /\ InfraAt(o) = "written" /\ memory' = k.found /\ Conf!CardBecomes(o, "infra", [at |-> "answer"])
      /\ UNCHANGED <<configFile, overlapped>>
  BY Zenon DEF Conf!SetConfig, InfraAt
<1>2. ConfigShape(k.found) /\ ConfigShape(configFile)
  BY <1>1, CardKinds, CardIs DEF SettingsInv, SettingsShapes, CardShape, InfraAt
<1>3. /\ SettingsShapes' /\ InfraAt(o)' = "answer"
      /\ \A p \in Operator \ {o} : pages'[p].card["infra"] = pages[p].card["infra"]
  BY <1>1, <1>2, FileMoves
<1>4. OneSave'
  <2> SUFFICES ASSUME ~ overlapped PROVE OneSave'
    BY <1>1 DEF OneSave
  <2>1. \A p \in Operator \ {o} : InfraAt(p) \notin Saves /\ InfraAt(p)' = InfraAt(p)
    BY <1>1, <1>3 DEF SettingsInv, OneSave, Saves, InfraAt
  <2>2. WrittenIn(memory', configFile')
    BY <1>1 DEF SettingsInv, OneSave
  <2>3. \A p \in Operator : InfraAt(p)' \notin Saves
    BY <1>3, <2>1 DEF Saves
  <2> QED
    BY <2>2, <2>3 DEF OneSave, Saves
<1> QED
  BY <1>3, <1>4 DEF SettingsInv


(* The answer of a save is what the whole page shows.                      *)
LEMMA ConfSaveDone ==
  ASSUME Conf!SettingsAssumption, SettingsInv, NEW o \in Operator, NEW c \in Conf!Card,
           Conf!SaveDone(o, c)
  PROVE  SettingsInv'
<1> DEFINE k == pages[o].card[c]
           closed == [Conf!Closed EXCEPT !.draft = k.draft]
           cards == [pages[o].card EXCEPT ![c] = closed]
<1>1. /\ k.at = "answer" /\ UNCHANGED <<configFile, memory, overlapped>>
      /\ pages' = [pages EXCEPT ![o].config = k.found, ![o].card[c] = closed]
  BY Zenon DEF Conf!SaveDone
<1>2. /\ pages = [p \in Operator |-> pages[p]]
      /\ pages[o] = [config |-> pages[o].config, card |-> pages[o].card]
      /\ pages[o].card = [d \in Conf!Card |-> pages[o].card[d]]
      /\ \A d \in Conf!Card : CardShape(d, pages[o].card[d])
  BY DEF SettingsInv, SettingsShapes, PageShape
<1>3. ConfigShape(k.found)
  BY <1>1, <1>2 DEF CardShape
<1>4. CardShape(c, closed) /\ closed.at = "idle"
  <2> DEFINE x == k.draft
  <2> HIDE DEF x
  <2> DEFINE n == [Conf!Closed EXCEPT !.draft = x]
  <2>1. n = [editing |-> FALSE, saving |-> FALSE, failed |-> FALSE, draft |-> x,
             at |-> "idle", patch |-> <<>>, found |-> <<>>, text |-> <<>>]
    <3> DEFINE z == Conf!Closed
    <3>1. z = [editing |-> FALSE, saving |-> FALSE, failed |-> FALSE, draft |-> <<>>,
               at |-> "idle", patch |-> <<>>, found |-> <<>>, text |-> <<>>]
      BY DEF Conf!Closed
    <3>2. n = [z EXCEPT !.draft = x]
      OBVIOUS
    <3> HIDE DEF z, n
    <3> QED
      BY <3>1, <3>2
  <2> HIDE DEF n
  <2>2. CardShape(c, n) /\ n.at = "idle"
    BY <2>1 DEF CardShape, CardStep
  <2> QED
    BY <2>2 DEF x, n
<1> HIDE DEF k, closed
<1>5. pages'[o] = [config |-> k.found, card |-> cards]
  BY <1>1, <1>2
<1>6. \A p \in Operator \ {o} : pages'[p] = pages[p]
  BY <1>1, <1>2
<1>7. pages' = [p \in Operator |-> pages'[p]]
  BY <1>1, <1>2
<1>8. /\ cards = [d \in Conf!Card |-> cards[d]] /\ cards[c] = closed
      /\ \A d \in Conf!Card \ {c} : cards[d] = pages[o].card[d]
  BY <1>2
<1> HIDE DEF cards
<1>9. /\ pages'[o] = [config |-> pages'[o].config, card |-> pages'[o].card]
      /\ pages'[o].config = k.found /\ pages'[o].card = cards
  BY <1>5
<1>10. PageShape(pages'[o])
  BY <1>2, <1>3, <1>4, <1>8, <1>9 DEF PageShape
<1>11. SettingsShapes'
  BY <1>1, <1>6, <1>7, <1>10 DEF SettingsInv, SettingsShapes
<1>12. \A p \in Operator :
         /\ InfraAt(p)' \in Saves => InfraAt(p) \in Saves
         /\ InfraAt(p)' = "written" <=> InfraAt(p) = "written"
         /\ InfraAt(p) = "written" => pages'[p].card["infra"].found = pages[p].card["infra"].found
  <2>1. "infra" \in Conf!Card
    BY CardKinds
  <2>2. CASE c = "infra"
    <3>1. ~ InfraAt(o) \in Saves /\ ~ InfraAt(o)' \in Saves
      BY <1>1, <1>4, <1>8, <1>9, <2>2 DEF InfraAt, Saves, k
    <3>2. \A p \in Operator \ {o} : pages'[p] = pages[p]
      BY <1>6
    <3> QED
      BY <3>1, <3>2 DEF InfraAt, Saves
  <2>3. CASE c # "infra"
    BY <1>6, <1>8, <1>9, <2>1, <2>3 DEF InfraAt
  <2> QED
    BY <2>2, <2>3
<1> QED
  BY <1>1, <1>11, <1>12, OneSaveStays DEF SettingsInv

(* The service starts again: it reads the file, and saves in flight throw. *)
LEMMA ConfRestart ==
  ASSUME Conf!SettingsAssumption, SettingsInv, Conf!Restart
  PROVE  SettingsInv'
<1> DEFINE cards(o) == [c \in Conf!Card |->
             IF <<o, c>> \in Conf!Saving THEN [pages[o].card[c] EXCEPT !.at
               = "rejected"] ELSE pages[o].card[c]]
<1>1. /\ memory' = configFile /\ UNCHANGED <<configFile, overlapped>>
      /\ pages' = [o \in Operator |-> [pages[o] EXCEPT !.card = cards(o)]]
  BY DEF Conf!Restart
<1>2. ASSUME NEW o \in Operator
      PROVE  PageShape(pages'[o]) /\ \A c \in Conf!Card : pages'[o].card[c].at \notin Saves
  <2>1. /\ pages[o] = [config |-> pages[o].config, card |-> pages[o].card]
             /\ ConfigShape(pages[o].config)
        /\ \A c \in Conf!Card : CardShape(c, pages[o].card[c])
    BY DEF SettingsInv, SettingsShapes, PageShape
  <2>2. pages'[o] = [pages[o] EXCEPT !.card = cards(o)]
    BY <1>1
  <2>3. ASSUME NEW c \in Conf!Card
        PROVE  CardShape(c, cards(o)[c]) /\ cards(o)[c].at \notin Saves
    <3> DEFINE k == pages[o].card[c]
    <3>1. CardShape(c, k)
      BY <2>1
    <3>2. CASE <<o, c>> \in Conf!Saving
      <4>1. cards(o)[c] = [k EXCEPT !.at = "rejected"]
        BY <3>2
      <4> HIDE DEF cards, k
      <4>2. CardShape(c, [k EXCEPT !.at = "rejected"])
        BY <3>1 DEF CardShape, CardStep
      <4>3. [k EXCEPT !.at = "rejected"].at = "rejected"
        BY <3>1 DEF CardShape
      <4> QED
        BY <4>1, <4>2, <4>3 DEF Saves
    <3>3. CASE <<o, c>> \notin Conf!Saving
      <4>1. cards(o)[c] = k
        BY <3>3
      <4>2. k.at \notin Saves
        BY <3>3 DEF Conf!Saving, Saves
      <4> QED
        BY <3>1, <4>1, <4>2
    <3> QED
      BY <3>2, <3>3
  <2>4. cards(o) = [c \in Conf!Card |-> cards(o)[c]]
    OBVIOUS
  <2> HIDE DEF cards
  <2>5. /\ pages'[o].config = pages[o].config /\ pages'[o].card = cards(o)
        /\ pages'[o] = [config |-> pages'[o].config, card |-> pages'[o].card]
    BY <2>1, <2>2
  <2> QED
    BY <2>1, <2>3, <2>4, <2>5 DEF PageShape
<1>3. pages' = [o \in Operator |-> pages'[o]]
  BY <1>1
<1>4. SettingsShapes'
  BY <1>1, <1>2, <1>3 DEF SettingsInv, SettingsShapes
<1>5. \A o \in Operator : InfraAt(o)' \notin Saves
  BY <1>2, CardKinds DEF InfraAt
<1>6. WrittenIn(memory', configFile')
  BY <1>1 DEF WrittenIn
<1>7. OneSave'
  BY <1>5, <1>6 DEF OneSave, Saves
<1> QED
  BY <1>4, <1>7 DEF SettingsInv

LEMMA SettingsInvHolds == ASSUME Conf!SettingsAssumption PROVE Conf!SettingsSpec => []SettingsInv
<1>1. Conf!SettingsInit => SettingsInv
  <2> SUFFICES ASSUME Conf!SettingsInit PROVE SettingsInv
    OBVIOUS
  <2>1. /\ configFile = FirstFile /\ memory = FirstFile
        /\ pages = [o \in Operator |-> Conf!PageOf(FirstFile)]
    BY DEF Conf!SettingsInit
  <2>2. ConfigShape(FirstFile)
    BY DEF Conf!SettingsAssumption, ConfigShape
  <2> DEFINE g == Conf!PageOf(FirstFile)
  <2>3. g = [config |-> FirstFile, card |-> [c \in Conf!Card |-> Conf!Closed]]
    BY DEF Conf!PageOf
  <2>4. \A c \in Conf!Card : CardShape(c, Conf!Closed)
    BY DEF CardShape, Conf!Closed, CardStep
  <2>5. Conf!Closed.at = "idle"
    BY DEF Conf!Closed
  <2> HIDE DEF g
  <2>6. PageShape(g) /\ \A c \in Conf!Card : g.card[c] = Conf!Closed
    BY <2>2, <2>3, <2>4 DEF PageShape
  <2>7. \A o \in Operator : pages[o] = g
    BY <2>1 DEF g
  <2> QED
    BY <2>1, <2>2, <2>5, <2>6, <2>7, CardKinds
      DEF SettingsInv, SettingsShapes, OneSave, InfraAt, WrittenIn
<1>2. SettingsInv /\ [Conf!SettingsNext]_Conf!settingsVars => SettingsInv'
  <2> SUFFICES ASSUME SettingsInv, [Conf!SettingsNext]_Conf!settingsVars PROVE SettingsInv'
    OBVIOUS
  <2>1. CASE UNCHANGED Conf!settingsVars
    BY <2>1 DEF Conf!settingsVars, SettingsInv, SettingsShapes, OneSave, InfraAt, WrittenIn
  <2>2. ASSUME NEW o \in Operator, NEW c \in Conf!Card,
               \/ Conf!StartEdit(o, c) \/ Conf!Cancel(o, c) \/ Conf!Save(o, c)
               \/ Conf!SaveDone(o, c) \/ Conf!AnswerLost(o, c) \/ Conf!SaveFails(o, c)
        PROVE  SettingsInv'
    BY <2>2, ConfStartEdit, ConfCancel, ConfSave, ConfSaveDone, ConfAnswerLost, ConfSaveFails
  <2>3. ASSUME NEW o \in Operator,
               \/ Conf!Opens(o) \/ Conf!EditField(o) \/ Conf!Refuses(o) \/ Conf!ModifyReads(o)
               \/ Conf!ModifyWrites(o) \/ Conf!SetConfig(o) \/ Conf!ModifyFails(o) \/ Conf!SaveSticks(o)
        PROVE  SettingsInv'
    BY <2>3, ConfOpens, ConfEditField, ConfRefuses, ConfModifyReads, ConfModifyWrites, ConfSetConfig
  <2>4. ASSUME NEW o \in Operator, NEW c \in Listed, Conf!EditList(o, c) \/ Conf!UpdateInMemory(o, c)
        PROVE  SettingsInv'
    BY <2>4, ConfEditList, ConfUpdateInMemory
  <2> QED
    BY <2>1, <2>2, <2>3, <2>4, ConfRestart DEF Conf!SettingsNext
<1> QED
  BY <1>1, <1>2, PTL DEF Conf!SettingsSpec

(* What the file, the service and the pages hold always decodes, whatever  *)
(* the form lets through (the codecs of `configRouter`, the cards).        *)
THEOREM SettingsTypeCorrect ==
  ASSUME Conf!SettingsAssumption
  PROVE  Conf!SettingsSpec => []Conf!SettingsTypeOK
<1>1. ASSUME NEW g, ConfigShape(g) PROVE Conf!ConfigOK(g)
  <2>1. DOMAIN g = Conf!Section
    BY <1>1 DEF ConfigShape
  <2>2. \A s \in Listed : \A i \in DOMAIN g[s] : g[s][i].body \in {0, 1}
    <3> SUFFICES ASSUME NEW s \in Listed, NEW i \in DOMAIN g[s] PROVE g[s][i].body \in {0, 1}
      OBVIOUS
    <3>1. g[s] \in Seq(Conf!EntryShape)
      BY <1>1 DEF ConfigShape
    <3>2. g[s][i] \in Conf!EntryShape
      BY <3>1
    <3> QED
      BY <3>2 DEF Conf!EntryShape
  <2> QED
    BY <1>1, <2>1, <2>2 DEF ConfigShape, Conf!ConfigOK
<1>2. SettingsInv => Conf!SettingsTypeOK
  BY <1>1 DEF SettingsInv, SettingsShapes, PageShape, Conf!SettingsTypeOK
<1> QED
  BY <1>2, SettingsInvHolds, PTL

(* SavedSettingsAreOnFile: unless two saves of the file overlapped, every  *)
(* field the service works with is the one on file once no save is on;     *)
(* only an optional field it has not got may be (`setConfig`,              *)
(* `Config.modify` with `diffLeaves`, the setters of the copy in memory).  *)
THEOREM SavedSettingsAlwaysOnFile ==
  ASSUME Conf!SettingsAssumption
  PROVE  Conf!SettingsSpec => []Conf!SavedSettingsAreOnFile
<1>1. SettingsInv => Conf!SavedSettingsAreOnFile
  <2> SUFFICES ASSUME SettingsInv, ~ overlapped, \A o \in Operator : <<o, "infra">> \notin Conf!Saving
               PROVE  WrittenIn(memory, configFile)
    BY DEF Conf!SavedSettingsAreOnFile, WrittenIn
  <2>1. \A o \in Operator : InfraAt(o) # "written"
    BY CardKinds DEF Conf!Saving, InfraAt
  <2> QED
    BY <2>1 DEF SettingsInv, OneSave
<1> QED
  BY <1>1, SettingsInvHolds, PTL

-----------------------------------------------------------------------------
(* The page.  What a registry is to be for its tree to be one.             *)
WholeDb(d) ==
  /\ DbShape(d) /\ Screen!ListsAreWhole(d.suitest)
  /\ IsFiniteSet(DOMAIN d.lab.candyboxes) /\ IsFiniteSet(DOMAIN d.lab.tvs)
  /\ IsFiniteSet(DOMAIN d.lab.cameras)
  /\ None \notin DOMAIN d.lab.candyboxes \union DOMAIN d.lab.tvs \union DOMAIN d.lab.adb
  /\ \A c \in DOMAIN d.lab.cameras :
       {"controlled", "capture", "adbId"} \subseteq DOMAIN d.lab.cameras[c]

LEMMA FirstOf ==
  ASSUME NEW S, S \subseteq Nat, S # {}
  PROVE  (CHOOSE i \in S : \A j \in S : i <= j) \in S
<1>1. PICK x \in S : \A y \in S : ~ (<<y, x>> \in OpToRel(<, Nat))
  BY NatLessThanWellFounded, WFMin
<1>2. \A y \in S : ~ (y < x)
  BY <1>1, Zenon DEF OpToRel
<1>3. \A y \in S : x <= y
  BY <1>2
<1> QED
  BY <1>3

LEMMA UnitIs ==
  ASSUME NEW d, WholeDb(d), NEW tv
  PROVE  Screen!UnitOf(d, tv) \in Screen!Units(d) \union {None} /\ None \notin Screen!Units(d)
<1> DEFINE units == IF tv \in DOMAIN d.suitest.devices THEN d.suitest.devices[tv].units ELSE <<>>
           shown == {i \in DOMAIN units : units[i] \in Screen!Units(d)}
           first == CHOOSE i \in shown : \A j \in shown : i <= j
<1>1. Screen!UnitOf(d, tv) = IF shown = {} THEN None ELSE units[first]
  BY DEF Screen!UnitOf
<1>2. DOMAIN units \subseteq Nat
  <2>1. CASE tv \in DOMAIN d.suitest.devices
    <3> DEFINE own == d.suitest.devices[tv].units
    <3>1. own \in Seq({own[i] : i \in DOMAIN own})
      BY <2>1 DEF WholeDb, Screen!ListsAreWhole
    <3> DEFINE R == {own[i] : i \in DOMAIN own}
    <3> HIDE DEF R
    <3>2. own \in Seq(R)
      BY <3>1 DEF R
    <3> HIDE DEF own
    <3>3. DOMAIN own \subseteq Nat
      BY <3>2
    <3> QED
      BY <2>1, <3>3 DEF own
  <2>2. CASE tv \notin DOMAIN d.suitest.devices
    BY <2>2
  <2> QED
    BY <2>1, <2>2
<1> HIDE DEF units
<1>3. shown # {} => first \in shown
  BY <1>2, FirstOf
<1> HIDE DEF first
<1>4. None \notin Screen!Units(d)
  BY DEF WholeDb, Screen!Units
<1> QED
  BY <1>1, <1>3, <1>4

LEMMA TvRowsAre ==
  ASSUME NEW d, WholeDb(d)
  PROVE  Screen!TvRows(d) = {<<Screen!UnitOf(d, tv), tv>> : tv \in Screen!Tvs(d)}
<1> DEFINE h == Screen!BuildHierarchy(d)
           U == Screen!Units(d)
           T == Screen!Tvs(d)
           Of(tv) == Screen!UnitOf(d, tv)
<1>1. /\ h.cuGroups = [u \in U |-> {tv \in T : Of(tv) = u}]
      /\ h.unallocatedTvs = {tv \in T : Of(tv) = None}
  BY DEF Screen!BuildHierarchy
<1>2. Screen!TvRows(d) = {row \in (DOMAIN h.cuGroups) \X T : row[2] \in h.cuGroups[row[1]]}
                           \union {<<None, tv>> : tv \in h.unallocatedTvs}
  BY DEF Screen!TvRows
<1>3. \A tv : Of(tv) \in U \union {None}
  BY UnitIs
<1> HIDE DEF h, U, T, Of
<1>4. Screen!TvRows(d) = {row \in U \X T : Of(row[2]) = row[1]}
                           \union {<<None, tv>> : tv \in {x \in T : Of(x) = None}}
  BY <1>1, <1>2
<1>5. ASSUME NEW tv \in T PROVE <<Of(tv), tv>> \in Screen!TvRows(d)
  BY <1>3, <1>4
<1>6. ASSUME NEW row \in Screen!TvRows(d) PROVE row[2] \in T /\ row = <<Of(row[2]), row[2]>>
  BY <1>4
<1>7. Screen!TvRows(d) = {<<Of(tv), tv>> : tv \in T}
  BY <1>5, <1>6
<1> QED
  BY <1>7 DEF Of, T

LEMMA CameraRowsAre ==
  ASSUME NEW d, WholeDb(d)
  PROVE  Screen!CameraRows(d) =
           {<<IF Screen!TvOf(d, c) = None THEN None ELSE <<Screen!UnitOf(d, Screen!TvOf(d, c)),
             Screen!TvOf(d, c)>>, c>> :
              c \in DOMAIN Screen!Cameras(d)}
<1> DEFINE h == Screen!BuildHierarchy(d)
           T == Screen!Tvs(d)
           C == DOMAIN Screen!Cameras(d)
           Of(c) == Screen!TvOf(d, c)
           Un(tv) == Screen!UnitOf(d, tv)
           Row(c) == IF Of(c) = None THEN None ELSE <<Un(Of(c)), Of(c)>>
<1>1. /\ h.camerasOf = [tv \in T |-> {c \in C : Of(c) = tv}]
      /\ h.orphanCameras = {c \in C : Of(c) = None}
  BY DEF Screen!BuildHierarchy
<1>2. Screen!CameraRows(d) = {row \in Screen!TvRows(d) \X C : row[2] \in h.camerasOf[row[1][2]]}
                               \union {<<None, c>> : c \in h.orphanCameras}
  BY DEF Screen!CameraRows
<1>3. Screen!TvRows(d) = {<<Un(tv), tv>> : tv \in T}
  BY TvRowsAre
<1>4. \A c : Of(c) \in T \union {None}
  BY DEF Screen!TvOf
<1>5. None \notin T
  BY DEF WholeDb, Screen!Tvs
<1> HIDE DEF h, T, C, Of, Un
<1>6. ASSUME NEW c \in C PROVE <<Row(c), c>> \in Screen!CameraRows(d)
  <2>1. CASE Of(c) = None
    BY <1>1, <1>2, <2>1
  <2>2. CASE Of(c) # None
    <3>1. Of(c) \in T
      BY <1>4, <2>2
    <3>2. Row(c) = <<Un(Of(c)), Of(c)>> /\ Row(c) \in Screen!TvRows(d)
      BY <1>3, <2>2, <3>1
    <3>3. Row(c)[2] = Of(c) /\ c \in h.camerasOf[Of(c)]
      BY <1>1, <3>1, <3>2
    <3> HIDE DEF Row
    <3> QED
      BY <1>2, <3>2, <3>3
  <2> QED
    BY <2>1, <2>2
<1>7. ASSUME NEW r \in Screen!CameraRows(d) PROVE r[2] \in C /\ r = <<Row(r[2]), r[2]>>
  <2>1. CASE r \in {<<None, c>> : c \in h.orphanCameras}
    BY <1>1, <2>1
  <2>2. CASE r \in Screen!TvRows(d) \X C /\ r[2] \in h.camerasOf[r[1][2]]
    <3>1. PICK tv \in T : r[1] = <<Un(tv), tv>>
      BY <1>3, <2>2
    <3>2. r = <<r[1], r[2]>> /\ r[2] \in C /\ r[1][2] = tv
      BY <2>2, <3>1
    <3>3. Of(r[2]) = tv /\ tv # None
      BY <1>1, <1>5, <2>2, <3>2
    <3> QED
      BY <3>1, <3>2, <3>3
  <2> QED
    BY <1>2, <2>1, <2>2
<1>8. Screen!CameraRows(d) = {<<Row(c), c>> : c \in C}
  <2> HIDE DEF Row
  <2> QED
    BY <1>6, <1>7
<1> QED
  BY <1>8 DEF Of, Un, C

(* Rows that are told apart by what they are of are as many as those.      *)
LEMMA RowsAreCounted ==
  ASSUME NEW D, IsFiniteSet(D), NEW R, \E above : R = {<<above[x], x>> : x \in D}
  PROVE  /\ Cardinality(R) = Cardinality(D)
         /\ \A x \in D : Cardinality({row \in R : row[2] = x}) = 1
<1>0. PICK above : R = {<<above[x], x>> : x \in D}
  OBVIOUS
<1> DEFINE f == [x \in D |-> <<above[x], x>>]
<1>1. f \in Bijection(D, R)
  BY <1>0 DEF Bijection, Injection, Surjection, IsInjective
<1>2. Cardinality(R) = Cardinality(D)
  <2> HIDE DEF f
  <2> QED
    BY <1>1, FS_Bijection DEF ExistsBijection
<1>3. ASSUME NEW x \in D PROVE Cardinality({row \in R : row[2] = x}) = 1
  <2>1. {row \in R : row[2] = x} = {<<above[x], x>>}
    BY <1>0
  <2> QED
    BY <2>1, FS_Singleton
<1> QED
  BY <1>2, <1>3

(* The page has its own copies of what it takes from the libraries.        *)
LEMMA SameCounting ==
  /\ \A S : Screen!Cardinality(S) = Cardinality(S)
  /\ \A S : Screen!IsFiniteSet(S) = IsFiniteSet(S)
<1>1. \A S : Screen!Cardinality(S) = Cardinality(S)
  BY Zenon DEF Cardinality, Screen!Cardinality
<1>2. \A S : Screen!IsFiniteSet(S) = IsFiniteSet(S)
  BY Zenon DEF IsFiniteSet, Screen!IsFiniteSet
<1> QED
  BY <1>1, <1>2

LEMMA WholeHasOneRowEach ==
  ASSUME NEW d, WholeDb(d)
  PROVE  Screen!OneRowEach(d)
<1> DEFINE T == Screen!Tvs(d)
           C == DOMAIN Screen!Cameras(d)
           U == Screen!Units(d)
           Row(c) == IF Screen!TvOf(d, c) = None THEN None
                     ELSE <<Screen!UnitOf(d, Screen!TvOf(d, c)), Screen!TvOf(d, c)>>
           overTv == [tv \in T |-> Screen!UnitOf(d, tv)]
           overCamera == [c \in C |-> Row(c)]
           tvRows == Screen!TvRows(d)
           cameraRows == Screen!CameraRows(d)
           Each(D, R) == \A x \in D : Cardinality({row \in R : row[2] = x}) = 1
<1>1. IsFiniteSet(T) /\ IsFiniteSet(C)
  BY DEF WholeDb, Screen!Tvs, Screen!Cameras
<1>2. tvRows = {<<overTv[tv], tv>> : tv \in T}
  BY TvRowsAre
<1>3. cameraRows = {<<overCamera[c], c>> : c \in C}
  <2>1. Screen!CameraRows(d) = {<<Row(c), c>> : c \in C}
    BY CameraRowsAre
  <2> HIDE DEF Row
  <2> QED
    BY <2>1
<1>6. Screen!BuildHierarchy(d).cuGroups = [u \in U |-> {tv \in T : Screen!UnitOf(d, tv) = u}]
  BY DEF Screen!BuildHierarchy
<1>7. Screen!Counts(d).total = Cardinality(U) + Cardinality(T) + Cardinality(C)
  BY SameCounting DEF Screen!Counts
<1>8. /\ Each(T, tvRows) /\ Each(C, cameraRows)
      /\ Screen!Counts(d).total =
           Cardinality(DOMAIN Screen!BuildHierarchy(d).cuGroups) + Cardinality(tvRows) + Cardinality(cameraRows)
      => Screen!OneRowEach(d)
  BY SameCounting, Zenon DEF Screen!OneRowEach
<1>12. \A D, R : IsFiniteSet(D) /\ (\E above : R = {<<above[x], x>> : x \in D}) =>
                Each(D, R) /\ Cardinality(R) = Cardinality(D)
  BY RowsAreCounted
<1> HIDE DEF overTv, overCamera, tvRows, cameraRows, T, C, U, Row, Each
<1>10. \E above : tvRows = {<<above[x], x>> : x \in T}
  BY <1>2, Zenon
<1>11. \E above : cameraRows = {<<above[x], x>> : x \in C}
  BY <1>3, Zenon
<1>4. Each(T, tvRows) /\ Cardinality(tvRows) = Cardinality(T)
  BY <1>1, <1>10, <1>12
<1>5. Each(C, cameraRows) /\ Cardinality(cameraRows) = Cardinality(C)
  BY <1>1, <1>11, <1>12
<1>9. DOMAIN Screen!BuildHierarchy(d).cuGroups = U
  BY <1>6
<1> QED
  BY <1>4, <1>5, <1>7, <1>8, <1>9

-----------------------------------------------------------------------------
(* What a page has: the registry as of some version, and an edit it was    *)
(* told of only in a load it has asked for.                                *)
PageHonest(q) ==
  /\ q = [shown |-> q.shown, of |-> q.of, dialog |-> q.dialog, load |-> q.load, acked |-> q.acked]
  /\ WholeDb(q.shown) /\ q.of \in Nat /\ q.acked \in Nat /\ q.of <= version /\ q.acked <= version
  /\ q.of = version => q.shown = db
  /\ q.load.step \in {"none", "asked", "read"}
  /\ q.load.step = "none" => q.acked <= q.of
  /\ q.load.step = "read" =>
       /\ WholeDb(q.load.db) /\ q.load.of \in Nat
       /\ q.acked <= q.load.of /\ q.load.of <= version
       /\ q.load.of = version => q.load.db = db

PagesHonest == browsers = [p \in Page |-> browsers[p]] /\ \A p \in Page : PageHonest(browsers[p])

(* The edits an operator makes, by their kind.                             *)
Relinks(f) == \E v : f.edit = Screen!Link(f.camera, v)
Switches(f) == \E b : f.edit = Screen!Edit("cameras", "update", f.camera, [controlled |-> b])
Drops(f) == f.edit = Screen!Edit("cameras", "remove", f.camera, None)
AddsHost(f) == f.edit = Screen!Edit("adb", "add", f.n, [target |-> "ip"])
GivesHost(f) == f.edit = Screen!Edit("cameras", "update", f.camera, [adbId |-> f.n])
DropsHost(f) == f.edit = Screen!Edit("adb", "remove", f.n, None)

FlightForm(f) ==
  /\ f = [n |-> f.n, page |-> f.page, kind |-> f.kind, edit |-> f.edit,
          camera |-> f.camera, step |-> f.step]
  /\ f.page \in Page /\ f.n \in 1 .. MaxSubmits /\ left.submits < f.n
  /\ f.step \in {"sent", "accepted", "refused"}
  /\ \/ f.kind \in {"linkSuitest", "linkTvCamera"} /\ Relinks(f)
     \/ f.kind = "toggle" /\ Switches(f)
     \/ f.kind = "remove" /\ Drops(f)
     \/ f.kind = "createAdb" /\ (AddsHost(f) \/ GivesHost(f) \/ DropsHost(f))

(* Identifiers of hosts: those there were, and those that were given out.  *)
HostIds(d) == DOMAIN d.lab.adb \union {d.lab.cameras[c].adbId : c \in DOMAIN d.lab.cameras}

BoundsKept ==
  /\ left = [submits |-> left.submits, upsets |-> left.upsets]
  /\ left.submits \in 0 .. MaxSubmits /\ left.upsets \in Nat

IdsKnown ==
  /\ HostIds(db) \subseteq Screen!Hosts \union {None} /\ leftBehind \subseteq Screen!Hosts
  /\ \A n \in 1 .. left.submits : n \notin HostIds(db)

(* While everyone looks before they leap: one edit is under way at most,   *)
(* what it links nobody has, a host that is not given yet is nobody's and  *)
(* its camera waits, and every other host has one camera.                  *)
OneCamera(d, h) ==
  \E c \in DOMAIN d.lab.cameras : \A e \in DOMAIN d.lab.cameras : d.lab.cameras[e].adbId = h <=> e = c
Nobody(d, h) == \A c \in DOMAIN d.lab.cameras : d.lab.cameras[c].adbId # h
Unclaimed(d, v) == \A c \in DOMAIN d.lab.cameras : d.lab.cameras[c].capture = v => v = None
Waits(d, c) == c \in DOMAIN d.lab.cameras /\ d.lab.cameras[c].adbId = None

HostPending(f) ==
  /\ f.kind = "createAdb"
  /\ \/ AddsHost(f) /\ f.step = "accepted"
     \/ GivesHost(f) /\ f.step \in {"sent", "refused"}
     \/ DropsHost(f) /\ f.step = "sent"

HostGoes(f) ==
  AddsHost(f) \/ (GivesHost(f) /\ f.step = "sent") => Nobody(db, f.n) /\ Waits(db, f.camera)

CareTaken ==
  careful =>
    /\ Screen!Exclusive(db)
    /\ \A f, g \in flights : f = g
    /\ \A f \in flights :
         /\ f.kind \in {"linkSuitest", "linkTvCamera"} /\ f.step = "sent" =>
             Unclaimed(db, f.edit.fields.capture)
         /\ f.kind = "createAdb" => HostGoes(f)
    /\ \A h \in DOMAIN db.lab.adb \ leftBehind :
         OneCamera(db, h) \/ \E f \in flights : HostPending(f) /\ f.n = h

PageInv ==
  /\ WholeDb(db) /\ version \in Nat /\ careful \in BOOLEAN
  /\ BoundsKept /\ PagesHonest /\ (\A f \in flights : FlightForm(f)) /\ IdsKnown /\ CareTaken

-----------------------------------------------------------------------------
(* What the edits of a page do to a registry that is whole.                *)
LEMMA SameEdits ==
  /\ \A l, e : Screen!Applied(l, e) = Applied(l, e)
  /\ \A d, lists : Screen!SyncedFrom(d, lists) = SyncedFrom(d, lists)
  /\ \A table, do, id, fields : Screen!Edit(table, do, id, fields) = Edit(table, do, id, fields)
  /\ Screen!Empty = Empty
<1>1. \A l, e : Screen!Applied(l, e) = Applied(l, e)
  <2>1. /\ \A given, there : Screen!Over(given, there) = Over(given, there)
        /\ \A table, id, entry : Screen!Put(table, id, entry) = Put(table, id, entry)
        /\ \A table, id : Screen!Without(table, id) = Without(table, id)
    BY Zenon DEF Over, Put, Without, Screen!Over, Screen!Put, Screen!Without
  <2>2. \A table, id, fields : Screen!Updated(table, id, fields) = Updated(table, id, fields)
    BY <2>1, Zenon DEF Updated, Screen!Updated
  <2>3. \A l, e : Screen!EditCandyboxes(l, e) = EditCandyboxes(l, e)
    BY <2>1, <2>2, Zenon DEF EditCandyboxes, Screen!EditCandyboxes
  <2>4. \A l, e : Screen!EditCameras(l, e) = EditCameras(l, e)
    BY <2>1, <2>2, Zenon DEF EditCameras, Screen!EditCameras
  <2>5. \A l, e : Screen!EditTvs(l, e) = EditTvs(l, e)
    BY <2>1, <2>2, Zenon DEF EditTvs, Screen!EditTvs
  <2>6. \A l, e : Screen!EditAdb(l, e) = EditAdb(l, e)
    BY <2>1, <2>2, Zenon DEF EditAdb, Screen!EditAdb
  <2> QED
    BY <2>3, <2>4, <2>5, <2>6, Zenon DEF Applied, Screen!Applied
<1>2. \A d, lists : Screen!SyncedFrom(d, lists) = SyncedFrom(d, lists)
  <2>1. \A given, there : Screen!Over(given, there) = Over(given, there)
    BY Zenon DEF Over, Screen!Over
  <2>2. \A l, units : Screen!WithCandyboxes(l, units) = WithCandyboxes(l, units)
    BY <2>1, Zenon DEF WithCandyboxes, Screen!WithCandyboxes
  <2>3. \A l, devices : Screen!WithTvs(l, devices) = WithTvs(l, devices)
    BY <2>1, Zenon DEF WithTvs, Screen!WithTvs
  <2>4. \A l, captures : Screen!WithCameras(l, captures) = WithCameras(l, captures)
    BY <2>1, Zenon DEF WithCameras, Screen!WithCameras
  <2> QED
    BY <2>2, <2>3, <2>4, Zenon
       DEF SyncedFrom, ReplaceFromSuitest, Screen!SyncedFrom, Screen!ReplaceFromSuitest
<1>3. \A table, do, id, fields : Screen!Edit(table, do, id, fields) = Edit(table, do, id, fields)
  BY Zenon DEF Edit, Screen!Edit
<1>4. Screen!Empty = Empty
  BY Zenon DEF Empty, EmptyTable, Screen!Empty, Screen!EmptyTable
<1> QED
  BY <1>1, <1>2, <1>3, <1>4

LEMMA LabIs ==
  ASSUME NEW d, DbShape(d), NEW t
  PROVE  /\ [d EXCEPT !.lab = [d.lab EXCEPT !.cameras = t]] =
              [suitest |-> d.suitest,
               lab |-> [candyboxes |-> d.lab.candyboxes, cameras |-> t, tvs |-> d.lab.tvs,
                 adb |-> d.lab.adb]]
         /\ [d EXCEPT !.lab = [d.lab EXCEPT !.adb = t]] =
              [suitest |-> d.suitest,
               lab |-> [candyboxes |-> d.lab.candyboxes, cameras |-> d.lab.cameras,
                 tvs |-> d.lab.tvs, adb |-> t]]
<1> DEFINE l == d.lab
<1>1. /\ [l EXCEPT !.cameras = t] = [candyboxes |-> l.candyboxes, cameras |-> t, tvs |-> l.tvs,
           adb |-> l.adb]
      /\ [l EXCEPT !.adb = t] = [candyboxes |-> l.candyboxes, cameras |-> l.cameras,
           tvs |-> l.tvs, adb |-> t]
  BY DEF DbShape, LabShape
<1> HIDE DEF l
<1>2. \A m : [d EXCEPT !.lab = m] = [suitest |-> d.suitest, lab |-> m]
  BY DEF DbShape
<1> QED
  BY <1>1, <1>2 DEF l

LEMMA Rebuilt ==
  ASSUME NEW d, DbShape(d), NEW t, NEW n
  PROVE  /\ n = [d EXCEPT !.lab = [d.lab EXCEPT !.cameras = t]] =>
              /\ n.suitest = d.suitest /\ n.lab.cameras = t /\ n.lab.adb = d.lab.adb
              /\ n.lab.tvs = d.lab.tvs /\ n.lab.candyboxes = d.lab.candyboxes /\ DbShape(n)
         /\ n = [d EXCEPT !.lab = [d.lab EXCEPT !.adb = t]] =>
              /\ n.suitest = d.suitest /\ n.lab.cameras = d.lab.cameras /\ n.lab.adb = t
              /\ n.lab.tvs = d.lab.tvs /\ n.lab.candyboxes = d.lab.candyboxes /\ DbShape(n)
<1>1. ASSUME NEW s, NEW a, NEW b, NEW c, NEW e,
             n = [suitest |-> s, lab |-> [candyboxes |-> a, cameras |-> b, tvs |-> c, adb |-> e]]
      PROVE  /\ n.suitest = s /\ n.lab.candyboxes = a /\ n.lab.cameras = b /\ n.lab.tvs = c
             /\ n.lab.adb = e /\ DbShape(n)
  <2> DEFINE l == [candyboxes |-> a, cameras |-> b, tvs |-> c, adb |-> e]
  <2>1. LabShape(l) /\ l.candyboxes = a /\ l.cameras = b /\ l.tvs = c /\ l.adb = e
    BY DEF LabShape
  <2>2. n = [suitest |-> s, lab |-> l]
    BY <1>1
  <2> HIDE DEF l
  <2> QED
    BY <2>1, <2>2 DEF DbShape
<1>2. ASSUME n = [d EXCEPT !.lab = [d.lab EXCEPT !.cameras = t]]
      PROVE  /\ n.suitest = d.suitest /\ n.lab.cameras = t /\ n.lab.adb = d.lab.adb
             /\ n.lab.tvs = d.lab.tvs /\ n.lab.candyboxes = d.lab.candyboxes /\ DbShape(n)
  <2>1. n = [suitest |-> d.suitest,
             lab |-> [candyboxes |-> d.lab.candyboxes, cameras |-> t, tvs |-> d.lab.tvs,
               adb |-> d.lab.adb]]
    BY <1>2, LabIs
  <2> QED
    BY <1>1, <2>1
<1>3. ASSUME n = [d EXCEPT !.lab = [d.lab EXCEPT !.adb = t]]
      PROVE  /\ n.suitest = d.suitest /\ n.lab.cameras = d.lab.cameras /\ n.lab.adb = t
             /\ n.lab.tvs = d.lab.tvs /\ n.lab.candyboxes = d.lab.candyboxes /\ DbShape(n)
  <2>1. n = [suitest |-> d.suitest,
             lab |-> [candyboxes |-> d.lab.candyboxes, cameras |-> d.lab.cameras,
               tvs |-> d.lab.tvs, adb |-> t]]
    BY <1>3, LabIs
  <2> QED
    BY <1>1, <2>1
<1> QED
  BY <1>2, <1>3

(* A camera that gets a field, and nothing else.                           *)
CameraGot(d, n, c, k, v) ==
  /\ WholeDb(n) /\ n.lab.adb = d.lab.adb
  /\ DOMAIN n.lab.cameras = DOMAIN d.lab.cameras
  /\ \A x \in DOMAIN d.lab.cameras : \A field \in {"controlled", "capture", "adbId"} :
       n.lab.cameras[x][field] = IF x = c /\ field = k THEN v ELSE d.lab.cameras[x][field]

LEMMA CameraUpdated ==
  ASSUME NEW d, WholeDb(d), NEW c, NEW k \in {"controlled", "capture", "adbId"},
         NEW fields, DOMAIN fields = {k}, NEW n,
         n = [d EXCEPT !.lab = Screen!Applied(@, Screen!Edit("cameras", "update", c, fields))]
  PROVE  CameraGot(d, n, c, k, fields[k])
<1> DEFINE e == Edit("cameras", "update", c, fields)
           table == d.lab.cameras
           T == Updated(table, c, fields)
<1>1. e.table = "cameras" /\ e.do = "update" /\ e.id = c /\ e.fields = fields
  BY DEF Edit
<1>2. n = [d EXCEPT !.lab = Applied(d.lab, e)]
  BY SameEdits
<1> HIDE DEF e
<1>3. Applied(d.lab, e) = [d.lab EXCEPT !.cameras = T]
  BY <1>1 DEF Applied, EditCameras
<1> HIDE DEF T
<1>4. DbShape(d)
  BY DEF WholeDb
<1>5. n = [d EXCEPT !.lab = [d.lab EXCEPT !.cameras = T]]
  BY <1>2, <1>3
<1>6. DOMAIN T = DOMAIN table
  BY DEF T, Updated
<1>7. \A x \in DOMAIN table : T[x] = IF x = c THEN Over(fields, table[x]) ELSE table[x]
  BY DEF T, Updated
<1>8. ASSUME NEW x \in DOMAIN table, NEW field \in {"controlled", "capture", "adbId"}
      PROVE  /\ field \in DOMAIN T[x]
             /\ T[x][field] = IF x = c /\ field = k THEN fields[k] ELSE table[x][field]
  <2>1. field \in DOMAIN table[x]
    BY DEF WholeDb
  <2> HIDE DEF table
  <2> QED
    BY <1>7, <2>1, OverKeeps
<1> HIDE DEF table
<1>9. /\ n.suitest = d.suitest /\ n.lab.cameras = T /\ n.lab.adb = d.lab.adb /\ n.lab.tvs = d.lab.tvs
      /\ n.lab.candyboxes = d.lab.candyboxes /\ DbShape(n)
  BY <1>4, <1>5, Rebuilt
<1>10. WholeDb(n)
  BY <1>6, <1>8, <1>9 DEF WholeDb, table
<1> QED
  BY <1>6, <1>8, <1>9, <1>10 DEF table, CameraGot

(* A camera that goes.                                                     *)
CameraLost(d, n, c) ==
  /\ WholeDb(n) /\ n.lab.adb = d.lab.adb
  /\ DOMAIN n.lab.cameras = DOMAIN d.lab.cameras \ {c}
  /\ \A x \in DOMAIN n.lab.cameras : n.lab.cameras[x] = d.lab.cameras[x]

LEMMA CameraRemoved ==
  ASSUME NEW d, WholeDb(d), NEW c, NEW n,
         n = [d EXCEPT !.lab = Screen!Applied(@, Screen!Edit("cameras", "remove", c, None))]
  PROVE  CameraLost(d, n, c)
<1> DEFINE e == Edit("cameras", "remove", c, None)
           T == Without(d.lab.cameras, c)
<1>1. e.table = "cameras" /\ e.do = "remove" /\ e.id = c
  BY DEF Edit
<1>2. n = [d EXCEPT !.lab = Applied(d.lab, e)]
  BY SameEdits
<1> HIDE DEF e
<1>3. Applied(d.lab, e) = [d.lab EXCEPT !.cameras = T]
  BY <1>1 DEF Applied, EditCameras
<1> HIDE DEF T
<1>4. DbShape(d)
  BY DEF WholeDb
<1>5. n = [d EXCEPT !.lab = [d.lab EXCEPT !.cameras = T]]
  BY <1>2, <1>3
<1>6. /\ DOMAIN T = DOMAIN d.lab.cameras \ {c}
      /\ \A x \in DOMAIN T : T[x] = d.lab.cameras[x]
  BY DEF T, Without
<1>7. IsFiniteSet(DOMAIN T)
  BY <1>6, FS_Subset DEF WholeDb
<1>9. /\ n.suitest = d.suitest /\ n.lab.cameras = T /\ n.lab.adb = d.lab.adb /\ n.lab.tvs = d.lab.tvs
      /\ n.lab.candyboxes = d.lab.candyboxes /\ DbShape(n)
  BY <1>4, <1>5, Rebuilt
<1>10. WholeDb(n)
  BY <1>6, <1>7, <1>9 DEF WholeDb
<1> QED
  BY <1>6, <1>9, <1>10 DEF CameraLost

(* A host that comes or goes.                                              *)
HostsAre(d, n, hosts) ==
  WholeDb(n) /\ n.lab.cameras = d.lab.cameras /\ DOMAIN n.lab.adb = hosts

LEMMA HostEdited ==
  ASSUME NEW d, WholeDb(d), NEW h, h # None, NEW do \in {"add", "remove"}, NEW fields, NEW n,
         n = [d EXCEPT !.lab = Screen!Applied(@, Screen!Edit("adb", do, h, fields))]
  PROVE  HostsAre(d, n, IF do = "add" THEN DOMAIN d.lab.adb \union {h} ELSE DOMAIN d.lab.adb \ {h})
<1> DEFINE e == Edit("adb", do, h, fields)
           T == IF do = "add" THEN Put(d.lab.adb, h, fields) ELSE Without(d.lab.adb, h)
<1>1. e.table = "adb" /\ e.do = do /\ e.id = h /\ e.fields = fields
  BY DEF Edit
<1>2. n = [d EXCEPT !.lab = Applied(d.lab, e)]
  BY SameEdits
<1> HIDE DEF e
<1>3. Applied(d.lab, e) = [d.lab EXCEPT !.adb = T]
  BY <1>1 DEF Applied, EditAdb
<1> HIDE DEF T
<1>4. DbShape(d)
  BY DEF WholeDb
<1>5. n = [d EXCEPT !.lab = [d.lab EXCEPT !.adb = T]]
  BY <1>2, <1>3
<1>6. DOMAIN T = IF do = "add" THEN DOMAIN d.lab.adb \union {h} ELSE DOMAIN d.lab.adb \ {h}
  BY DEF T, Put, Without
<1>9. /\ n.suitest = d.suitest /\ n.lab.cameras = d.lab.cameras /\ n.lab.adb = T /\ n.lab.tvs = d.lab.tvs
      /\ n.lab.candyboxes = d.lab.candyboxes /\ DbShape(n)
  BY <1>4, <1>5, Rebuilt
<1>10. WholeDb(n)
  BY <1>6, <1>9 DEF WholeDb
<1> QED
  BY <1>6, <1>9, <1>10 DEF HostsAre

(* An import: what there was stays, and what is new has its own capture    *)
(* device and no host.                                                     *)
LEMMA Imported ==
  ASSUME NEW d, WholeDb(d), NEW lists, Screen!ListsAreWhole(lists), NEW n,
           n = Screen!SyncedFrom(d, lists)
  PROVE  /\ WholeDb(n) /\ n.lab.adb = d.lab.adb
         /\ DOMAIN n.lab.cameras = DOMAIN d.lab.cameras \union DOMAIN lists.captures
         /\ \A x \in DOMAIN d.lab.cameras : n.lab.cameras[x] = d.lab.cameras[x]
         /\ \A x \in DOMAIN lists.captures \ DOMAIN d.lab.cameras :
              n.lab.cameras[x].capture = x /\ n.lab.cameras[x].adbId = None
<1> DEFINE A == [id \in DOMAIN lists.controlUnits |->
                   [label |-> lists.controlUnits[id].name, controlled |-> FALSE]]
           B == [id \in DOMAIN lists.devices |->
                   [label |-> IF lists.devices[id].customName # None
                                THEN lists.devices[id].customName ELSE lists.devices[id].model,
                    controlled |-> FALSE, ip |-> lists.devices[id].ip]]
           label(id) == IF lists.captures[id].customName # None
                          THEN lists.captures[id].customName ELSE lists.captures[id].name
           C == [id \in DOMAIN lists.captures |->
                   [label |-> label(id), controlled |-> FALSE, capture |-> id, adbId |-> None]]
           l == d.lab
           one == WithCandyboxes(l, lists.controlUnits)
           two == WithTvs(one, lists.devices)
           three == WithCameras(two, lists.captures)
<1>1. DOMAIN A = DOMAIN lists.controlUnits /\ DOMAIN B = DOMAIN lists.devices
  OBVIOUS
<1>2. /\ DOMAIN C = DOMAIN lists.captures
      /\ \A x \in DOMAIN lists.captures :
           C[x].capture = x /\ C[x].adbId = None
             /\ {"controlled", "capture", "adbId"} \subseteq DOMAIN C[x]
  <2> HIDE DEF label
  <2> QED
    OBVIOUS
<1>3. /\ one = [l EXCEPT !.candyboxes = Over(l.candyboxes, A)]
      /\ two = [one EXCEPT !.tvs = Over(one.tvs, B)]
      /\ three = [two EXCEPT !.cameras = Over(two.cameras, C)]
  BY Zenon DEF WithCandyboxes, WithTvs, WithCameras
<1>4. n = [suitest |-> lists, lab |-> three]
  BY SameEdits DEF SyncedFrom, ReplaceFromSuitest
<1> HIDE DEF A, B, C, l, one, two, three
<1>5. LabShape(l)
  BY DEF WholeDb, DbShape, l
<1> DEFINE a == Over(l.candyboxes, A)
           b == Over(l.tvs, B)
           c == Over(l.cameras, C)
<1>6. one = [candyboxes |-> a, cameras |-> l.cameras, tvs |-> l.tvs, adb |-> l.adb]
  <2> HIDE DEF a
  <2>1. one = [l EXCEPT !.candyboxes = a]
    BY <1>3 DEF a
  <2> QED
    BY <1>5, <2>1 DEF LabShape
<1>7. two = [candyboxes |-> a, cameras |-> l.cameras, tvs |-> b, adb |-> l.adb]
  <2>1. one.tvs = l.tvs
    BY <1>6
  <2>2. two = [one EXCEPT !.tvs = b]
    BY <1>3, <2>1
  <2> HIDE DEF a, b
  <2> QED
    BY <1>6, <2>2
<1>8. three = [candyboxes |-> a, cameras |-> c, tvs |-> b, adb |-> l.adb]
  <2>1. two.cameras = l.cameras
    BY <1>7
  <2>2. three = [two EXCEPT !.cameras = c]
    BY <1>3, <2>1
  <2> HIDE DEF a, b, c
  <2> QED
    BY <1>7, <2>2
<1> HIDE DEF a, b, c
<1>9. /\ n.suitest = lists /\ n.lab.candyboxes = a /\ n.lab.cameras = c /\ n.lab.tvs = b
      /\ n.lab.adb = l.adb /\ DbShape(n)
  <2>1. n = [suitest |-> n.suitest, lab |-> n.lab] /\ n.lab = three /\ n.suitest = lists
    BY <1>4
  <2> QED
    BY <1>8, <2>1 DEF DbShape, LabShape
<1>10. /\ DOMAIN a = DOMAIN l.candyboxes \union DOMAIN A
       /\ DOMAIN b = DOMAIN l.tvs \union DOMAIN B
       /\ DOMAIN c = DOMAIN l.cameras \union DOMAIN C
       /\ \A x \in DOMAIN l.cameras : c[x] = l.cameras[x]
       /\ \A x \in DOMAIN C \ DOMAIN l.cameras : c[x] = C[x]
  BY DEF a, b, c, Over
<1>11. /\ IsFiniteSet(DOMAIN lists.controlUnits) /\ IsFiniteSet(DOMAIN lists.devices)
       /\ IsFiniteSet(DOMAIN lists.captures)
       /\ None \notin DOMAIN lists.controlUnits /\ None \notin DOMAIN lists.devices
  BY SameCounting DEF Screen!ListsAreWhole
<1>12. /\ IsFiniteSet(DOMAIN l.candyboxes) /\ IsFiniteSet(DOMAIN l.tvs) /\ IsFiniteSet(DOMAIN l.cameras)
       /\ None \notin DOMAIN l.candyboxes /\ None \notin DOMAIN l.tvs /\ None \notin DOMAIN l.adb
       /\ \A x \in DOMAIN l.cameras : {"controlled", "capture", "adbId"} \subseteq DOMAIN l.cameras[x]
  BY DEF WholeDb, l
<1>13. IsFiniteSet(DOMAIN a) /\ IsFiniteSet(DOMAIN b) /\ IsFiniteSet(DOMAIN c)
  <2>1. \A S, T : IsFiniteSet(S) /\ IsFiniteSet(T) => IsFiniteSet(S \union T)
    BY FS_Union
  <2> QED
    BY <1>1, <1>2, <1>10, <1>11, <1>12, <2>1
<1>14. \A x \in DOMAIN c : {"controlled", "capture", "adbId"} \subseteq DOMAIN c[x]
  BY <1>2, <1>10, <1>12
<1>15. WholeDb(n)
  BY <1>1, <1>9, <1>10, <1>11, <1>12, <1>13, <1>14 DEF WholeDb
<1> QED
  BY <1>2, <1>9, <1>10, <1>15 DEF l

-----------------------------------------------------------------------------
(* The steps of a page that change nothing else.                           *)
LEMMA PageOnly ==
  ASSUME PageInv, UNCHANGED <<db, version, flights, careful, leftBehind, left>>, PagesHonest'
  PROVE  PageInv'
<1>1. (\A f \in flights : FlightForm(f))'
  BY DEF PageInv, FlightForm
<1>2. CareTaken'
  BY DEF PageInv, CareTaken, HostGoes
<1> QED
  BY <1>1, <1>2 DEF PageInv, BoundsKept, IdsKnown

(* One page that changes.                                                  *)
LEMMA OnePage ==
  ASSUME PagesHonest, UNCHANGED <<db, version>>, NEW p \in Page, NEW q, PageHonest(q),
         browsers' = [browsers EXCEPT ![p] = q]
  PROVE  PagesHonest'
<1>1. \A r \in Page : browsers'[r] = IF r = p THEN q ELSE browsers[r]
  BY DEF PagesHonest
<1>2. browsers' = [r \in Page |-> browsers'[r]]
  BY DEF PagesHonest
<1>3. \A r : PageHonest(r) => PageHonest(r)'
  BY DEF PageHonest
<1> QED
  BY <1>1, <1>2, <1>3 DEF PagesHonest

LEMMA ScreenOpens ==
  ASSUME PageInv, NEW p \in Page, Screen!Opens(p) \/ Screen!Cancels(p)
  PROVE  PageInv'
<1> DEFINE q == browsers[p]
<1>1. PagesHonest /\ PageHonest(q)
  BY DEF PageInv, PagesHonest
<1>2. /\ \E dialog : browsers' = [browsers EXCEPT ![p].dialog = dialog]
      /\ UNCHANGED <<db, version, flights, careful, leftBehind, left>>
  BY Zenon DEF Screen!Opens, Screen!Cancels
<1>3. PICK dialog : browsers' = [browsers EXCEPT ![p].dialog = dialog]
  BY <1>2
<1> DEFINE new == [q EXCEPT !.dialog = dialog]
<1>4. browsers' = [browsers EXCEPT ![p] = new]
  BY <1>1, <1>3 DEF PagesHonest
<1> HIDE DEF q
<1>5. new = [shown |-> q.shown, of |-> q.of, dialog |-> dialog, load |-> q.load, acked |-> q.acked]
  BY <1>1 DEF PageHonest
<1> HIDE DEF new
<1>6. PageHonest(new)
  BY <1>1, <1>5 DEF PageHonest
<1>7. PagesHonest'
  BY <1>1, <1>2, <1>4, <1>6, OnePage
<1> QED
  BY <1>2, <1>7, PageOnly

LEMMA ScreenLoadReads ==
  ASSUME PageInv, NEW p \in Page, Screen!LoadReads(p)
  PROVE  PageInv'
<1> DEFINE q == browsers[p]
           load == [step |-> "read", db |-> db, of |-> version]
           new == [q EXCEPT !.load = load]
<1>1. PagesHonest /\ PageHonest(q) /\ WholeDb(db) /\ version \in Nat
  BY DEF PageInv, PagesHonest
<1>2. /\ browsers' = [browsers EXCEPT ![p] = new]
      /\ UNCHANGED <<db, version, flights, careful, leftBehind, left>>
  BY <1>1 DEF Screen!LoadReads, PagesHonest
<1> HIDE DEF q
<1>3. load.step = "read" /\ load.db = db /\ load.of = version
  OBVIOUS
<1> HIDE DEF load
<1>4. new = [shown |-> q.shown, of |-> q.of, dialog |-> q.dialog, load |-> load, acked |-> q.acked]
  BY <1>1 DEF PageHonest
<1> HIDE DEF new
<1>5. PageHonest(new)
  BY <1>1, <1>3, <1>4 DEF PageHonest
<1>6. PagesHonest'
  BY <1>1, <1>2, <1>5, OnePage
<1> QED
  BY <1>2, <1>6, PageOnly

LEMMA ScreenLoadShows ==
  ASSUME PageInv, NEW p \in Page, Screen!LoadShows(p)
  PROVE  PageInv'
<1> DEFINE q == browsers[p]
           new == [shown |-> q.load.db, of |-> q.load.of, dialog |-> q.dialog,
                   load |-> Screen!NoLoad, acked |-> q.acked]
<1>1. PagesHonest /\ PageHonest(q) /\ q.load.step = "read"
  BY DEF PageInv, PagesHonest, Screen!LoadShows
<1>2. /\ browsers' = [browsers EXCEPT ![p].shown = browsers[p].load.db, ![p].of = browsers[p].load.of,
                                     ![p].load = Screen!NoLoad]
      /\ UNCHANGED <<db, version, flights, careful, leftBehind, left>>
  BY DEF Screen!LoadShows
<1>3. browsers' = [browsers EXCEPT ![p] =
        [[[q EXCEPT !.shown = q.load.db] EXCEPT !.of = q.load.of] EXCEPT !.load = Screen!NoLoad]]
  BY <1>1, <1>2 DEF PagesHonest
<1> HIDE DEF q
<1>4. [[[q EXCEPT !.shown = q.load.db] EXCEPT !.of = q.load.of] EXCEPT !.load = Screen!NoLoad] = new
  <2> DEFINE one == [q EXCEPT !.shown = q.load.db]
             two == [one EXCEPT !.of = q.load.of]
             three == [two EXCEPT !.load = Screen!NoLoad]
  <2>1. one = [shown |-> q.load.db, of |-> q.of, dialog |-> q.dialog, load |-> q.load, acked |-> q.acked]
    BY <1>1 DEF PageHonest
  <2> HIDE DEF one
  <2>2. two = [shown |-> q.load.db, of |-> q.load.of, dialog |-> q.dialog, load |-> q.load,
          acked |-> q.acked]
    BY <2>1
  <2> HIDE DEF two
  <2>3. three = new
    BY <2>2
  <2> QED
    BY <2>3 DEF one, two
<1>5. Screen!NoLoad.step = "none"
  BY DEF Screen!NoLoad
<1>6. PageHonest(new)
  BY <1>1, <1>5 DEF PageHonest
<1> HIDE DEF new
<1>7. PagesHonest'
  BY <1>1, <1>2, <1>3, <1>4, <1>6, OnePage
<1> QED
  BY <1>2, <1>7, PageOnly

-----------------------------------------------------------------------------
(* Edits that are sent.                                                    *)
LEMMA BoundsTaken ==
  ASSUME Screen!LabPageAssumption, BoundsKept, NEW what \in {"submits", "upsets"}, Screen!Takes(what)
  PROVE  /\ BoundsKept'
         /\ what = "submits" => left.submits \in 1 .. MaxSubmits /\ left'.submits = left.submits - 1
         /\ what = "upsets" => left'.submits = left.submits
<1>1. MaxSubmits \in Nat /\ MaxUpsets \in Nat
  BY DEF Screen!LabPageAssumption
<1>2. CASE what = "submits"
  <2>1. left.submits > 0 /\ left' = [left EXCEPT !.submits = left.submits - 1]
    BY <1>2 DEF Screen!Takes
  <2>2. left' = [submits |-> left.submits - 1, upsets |-> left.upsets]
    BY <2>1 DEF BoundsKept
  <2> QED
    BY <1>1, <1>2, <2>1, <2>2 DEF BoundsKept
<1>3. CASE what = "upsets"
  <2>1. left.upsets > 0 /\ left' = [left EXCEPT !.upsets = left.upsets - 1]
    BY <1>3 DEF Screen!Takes
  <2>2. left' = [submits |-> left.submits, upsets |-> left.upsets - 1]
    BY <2>1 DEF BoundsKept
  <2> QED
    BY <1>1, <1>3, <2>1, <2>2 DEF BoundsKept
<1> QED
  BY <1>2, <1>3

LEMMA KindsStay ==
  ASSUME NEW f
  PROVE  /\ Relinks(f)' <=> Relinks(f)
         /\ Switches(f)' <=> Switches(f)
         /\ Drops(f)' <=> Drops(f)
         /\ AddsHost(f)' <=> AddsHost(f)
         /\ GivesHost(f)' <=> GivesHost(f)
         /\ DropsHost(f)' <=> DropsHost(f)
BY Zenon DEF Relinks, Switches, Drops, AddsHost, GivesHost, DropsHost

LEMMA FormStays ==
  ASSUME BoundsKept, BoundsKept', left'.submits <= left.submits, NEW f, FlightForm(f)
  PROVE  FlightForm(f)'
<1>1. f.n \in 1 .. MaxSubmits /\ left.submits < f.n => left'.submits < f.n
  BY DEF BoundsKept
<1> QED
  BY <1>1, KindsStay DEF FlightForm

(* Kinds of edits are told apart by what they do to which table.           *)
LEMMA EditIs ==
  \A table, do, id, fields :
    /\ Screen!Edit(table, do, id, fields).table = table /\ Screen!Edit(table, do, id, fields).do = do
    /\ Screen!Edit(table, do, id, fields).id = id /\ Screen!Edit(table, do, id, fields).fields = fields
BY DEF Screen!Edit

LEMMA EditsApart ==
  ASSUME NEW f
  PROVE  /\ AddsHost(f) => f.edit.table = "adb" /\ f.edit.do = "add" /\ f.edit.id = f.n
         /\ GivesHost(f) => f.edit.table = "cameras" /\ f.edit.do = "update" /\ f.edit.fields.adbId = f.n
         /\ DropsHost(f) => f.edit.table = "adb" /\ f.edit.do = "remove" /\ f.edit.id = f.n
         /\ Drops(f) => f.edit.table = "cameras" /\ f.edit.do = "remove" /\ f.edit.id = f.camera
         /\ Relinks(f) => f.edit.table = "cameras" /\ f.edit.do = "update"
         /\ Switches(f) => f.edit.table = "cameras" /\ f.edit.do = "update"
<1>1. AddsHost(f) => f.edit.table = "adb" /\ f.edit.do = "add" /\ f.edit.id = f.n
  BY EditIs DEF AddsHost
<1>2. GivesHost(f) => f.edit.table = "cameras" /\ f.edit.do = "update" /\ f.edit.fields.adbId = f.n
  BY EditIs DEF GivesHost
<1>3. DropsHost(f) => f.edit.table = "adb" /\ f.edit.do = "remove" /\ f.edit.id = f.n
  BY EditIs DEF DropsHost
<1>4. Drops(f) => f.edit.table = "cameras" /\ f.edit.do = "remove" /\ f.edit.id = f.camera
  BY EditIs DEF Drops
<1>5. Relinks(f) => f.edit.table = "cameras" /\ f.edit.do = "update"
  BY EditIs DEF Relinks, Screen!Link
<1>6. Switches(f) => f.edit.table = "cameras" /\ f.edit.do = "update"
  BY EditIs DEF Switches
<1> QED
  BY <1>1, <1>2, <1>3, <1>4, <1>5, <1>6

LEMMA Sent ==
  ASSUME Screen!LabPageAssumption, PageInv, NEW p \in Page, NEW kind, NEW edit, NEW camera,
         Screen!Sends(p, kind, edit, camera), NEW f,
         f = [n |-> left.submits, page |-> p, kind |-> kind, edit |-> edit, camera |-> camera,
           step |-> "sent"],
         \/ kind \in {"linkSuitest", "linkTvCamera"} /\ Relinks(f)
         \/ kind = "toggle" /\ Switches(f)
         \/ kind = "remove" /\ Drops(f)
         \/ kind = "createAdb" /\ AddsHost(f),
         Screen!LooksBeforeItLeaps(p) =>
           /\ kind \in {"linkSuitest", "linkTvCamera"} => Unclaimed(db, edit.fields.capture)
           /\ kind = "createAdb" => Waits(db, camera)
  PROVE  PageInv'
<1>1. /\ Screen!Takes("submits") /\ flights' = flights \union {f}
      /\ careful' = (careful /\ Screen!LooksBeforeItLeaps(p))
      /\ UNCHANGED <<db, version, browsers, leftBehind>>
  BY DEF Screen!Sends
<1>2. /\ WholeDb(db) /\ version \in Nat /\ careful \in BOOLEAN /\ BoundsKept /\ PagesHonest
      /\ (\A g \in flights : FlightForm(g)) /\ IdsKnown /\ CareTaken
  BY DEF PageInv
<1>3. BoundsKept' /\ left.submits \in 1 .. MaxSubmits /\ left'.submits = left.submits - 1
  BY <1>1, <1>2, BoundsTaken
<1>4. /\ f.n = left.submits /\ f.page = p /\ f.kind = kind /\ f.edit = edit /\ f.camera = camera
      /\ f.step = "sent"
      /\ f = [n |-> f.n, page |-> f.page, kind |-> f.kind, edit |-> f.edit,
              camera |-> f.camera, step |-> f.step]
  OBVIOUS
<1>5. FlightForm(f)'
  <2>1. f.n \in 1 .. MaxSubmits /\ left'.submits < f.n
    BY <1>3, <1>4
  <2> QED
    BY <1>4, <2>1, KindsStay DEF FlightForm
<1>6. (\A g \in flights : FlightForm(g))'
  <2>1. left'.submits <= left.submits
    BY <1>3
  <2> QED
    BY <1>1, <1>2, <1>3, <1>5, <2>1, FormStays
<1>7. PagesHonest'
  BY <1>1, <1>2 DEF PagesHonest, PageHonest
<1>8. IdsKnown'
  BY <1>1, <1>2, <1>3 DEF IdsKnown
<1>9. CareTaken'
  <2> SUFFICES ASSUME careful'
               PROVE  CareTaken'
    BY DEF CareTaken
  <2>1. careful /\ Screen!LooksBeforeItLeaps(p) /\ flights = {} /\ flights' = {f}
    BY <1>1, <1>2 DEF Screen!LooksBeforeItLeaps
  <2>2. /\ Screen!Exclusive(db)
        /\ \A h \in DOMAIN db.lab.adb \ leftBehind : OneCamera(db, h)
    BY <1>2, <2>1 DEF CareTaken
  <2>3. f.kind \in {"linkSuitest", "linkTvCamera"} => Unclaimed(db, f.edit.fields.capture)
    BY <1>4, <2>1
  <2>4. f.kind = "createAdb" => HostGoes(f)
    <3> SUFFICES ASSUME f.kind = "createAdb"
                 PROVE  HostGoes(f)
      OBVIOUS
    <3>1. AddsHost(f) /\ Waits(db, f.camera) /\ ~ GivesHost(f) /\ ~ DropsHost(f)
      BY <1>4, <2>1, EditsApart
    <3>2. f.n \notin HostIds(db)
      BY <1>2, <1>3, <1>4 DEF IdsKnown
    <3>3. Nobody(db, f.n) /\ f.n \notin DOMAIN db.lab.adb
      BY <3>2 DEF HostIds, Nobody
    <3> QED
      BY <3>1, <3>3 DEF HostGoes
  <2>5. HostGoes(f) => HostGoes(f)'
    BY <1>1 DEF HostGoes, AddsHost, GivesHost, DropsHost
  <2> QED
    BY <1>1, <2>1, <2>2, <2>3, <2>4, <2>5 DEF CareTaken
<1> QED
  BY <1>1, <1>2, <1>3, <1>6, <1>7, <1>8, <1>9 DEF PageInv

(* What a page offers when it shows the registry.                          *)
LEMMA ShownIsDb ==
  ASSUME PageInv, NEW p \in Page, Screen!LooksBeforeItLeaps(p)
  PROVE  /\ browsers[p].shown = db
         /\ \A v \in Screen!CameraSuitestCandidates(browsers[p].shown, None) : Unclaimed(db, v)
         /\ browsers[p].dialog.kind = "createAdb" => Waits(db, browsers[p].dialog.target)
<1>1. browsers[p].shown = db
  BY DEF PageInv, PagesHonest, PageHonest, Screen!LooksBeforeItLeaps
<1>2. ASSUME NEW v \in Screen!CameraSuitestCandidates(db, None) PROVE Unclaimed(db, v)
  BY <1>2 DEF Screen!CameraSuitestCandidates, Screen!Cameras, Unclaimed
<1>3. ASSUME browsers[p].dialog.kind = "createAdb" PROVE Waits(db, browsers[p].dialog.target)
  <2>1. browsers[p].dialog # Screen!NoDialog
    BY <1>3 DEF Screen!NoDialog
  <2>2. Screen!Offers(db, browsers[p].dialog)
    BY <1>1, <2>1 DEF Screen!LooksBeforeItLeaps
  <2> QED
    BY <1>3, <2>2 DEF Screen!Offers, Screen!Cameras, Waits
<1> QED
  BY <1>1, <1>2, <1>3

LEMMA LinkSent ==
  ASSUME Screen!LabPageAssumption, PageInv, NEW p \in Page, NEW kind \in {"linkSuitest", "linkTvCamera"},
         NEW c, NEW v \in Screen!CameraSuitestCandidates(browsers[p].shown, None),
         Screen!Sends(p, kind, Screen!Link(c, v), c)
  PROVE  PageInv'
<1> DEFINE edit == Screen!Link(c, v)
           f == [n |-> left.submits, page |-> p, kind |-> kind, edit |-> edit, camera |-> c,
             step |-> "sent"]
<1>1. Relinks(f)
  <2>1. f.edit = edit /\ f.camera = c
    BY Zenon
  <2> HIDE DEF f
  <2> QED
    BY <2>1 DEF Relinks
<1>2. edit.fields.capture = v
  BY EditIs DEF Screen!Link
<1>3. Screen!LooksBeforeItLeaps(p) => Unclaimed(db, edit.fields.capture)
  BY <1>2, ShownIsDb
<1> HIDE DEF edit
<1>4. f = [n |-> left.submits, page |-> p, kind |-> kind, edit |-> edit, camera |-> c, step |-> "sent"]
  BY Zenon
<1> HIDE DEF f
<1>5. Screen!Sends(p, kind, edit, c)
  BY Zenon DEF edit
<1>6. kind # "createAdb"
  OBVIOUS
<1> QED
  BY <1>1, <1>3, <1>4, <1>5, <1>6, Sent

LEMMA ScreenSubmitsLink ==
  ASSUME Screen!LabPageAssumption, PageInv, NEW p \in Page,
           Screen!SubmitsLink(p) \/ Screen!SubmitsTvLink(p)
  PROVE  PageInv'
<1>1. CASE Screen!SubmitsLink(p)
  <2>1. PICK v \in Screen!CameraSuitestCandidates(browsers[p].shown, None) :
          Screen!Sends(p, "linkSuitest", Screen!Link(browsers[p].dialog.target, v),
            browsers[p].dialog.target)
    BY <1>1 DEF Screen!SubmitsLink
  <2> QED
    BY <2>1, LinkSent
<1>2. CASE Screen!SubmitsTvLink(p)
  <2>0. PICK c : \E v \in Screen!CapturesForTv(browsers[p].shown, browsers[p].dialog.target) :
          Screen!Sends(p, "linkTvCamera", Screen!Link(c, v), c)
    BY <1>2, Zenon DEF Screen!SubmitsTvLink
  <2>1. PICK v \in Screen!CapturesForTv(browsers[p].shown, browsers[p].dialog.target) :
          Screen!Sends(p, "linkTvCamera", Screen!Link(c, v), c)
    BY <2>0
  <2>2. v \in Screen!CameraSuitestCandidates(browsers[p].shown, None)
    BY DEF Screen!CapturesForTv
  <2> QED
    BY <2>1, <2>2, LinkSent
<1> QED
  BY <1>1, <1>2

LEMMA ScreenSubmitsHost ==
  ASSUME Screen!LabPageAssumption, PageInv, NEW p \in Page, Screen!SubmitsHost(p)
  PROVE  PageInv'
<1> DEFINE edit == Screen!Edit("adb", "add", left.submits, [target |-> "ip"])
           c == browsers[p].dialog.target
           f == [n |-> left.submits, page |-> p, kind |-> "createAdb", edit |-> edit, camera |-> c,
                 step |-> "sent"]
<1>1. AddsHost(f)
  <2>1. f.edit = edit /\ f.n = left.submits
    BY Zenon
  <2> HIDE DEF f
  <2> QED
    BY <2>1 DEF AddsHost
<1>2. browsers[p].dialog.kind = "createAdb" /\ Screen!Sends(p, "createAdb", edit, c)
  BY Zenon DEF Screen!SubmitsHost
<1>3. Screen!LooksBeforeItLeaps(p) => Waits(db, c)
  BY <1>2, ShownIsDb
<1> HIDE DEF edit, c
<1>4. f = [n |-> left.submits, page |-> p, kind |-> "createAdb", edit |-> edit, camera |-> c,
        step |-> "sent"]
  BY Zenon
<1> HIDE DEF f
<1> QED
  BY <1>1, <1>2, <1>3, <1>4, Sent

LEMMA ScreenToggles ==
  ASSUME Screen!LabPageAssumption, PageInv, NEW p \in Page, Screen!Toggles(p)
  PROVE  PageInv'
<1>1. PICK c : Screen!Sends(p, "toggle",
        Screen!Edit("cameras", "update", c,
                    [controlled |-> ~ Screen!Cameras(browsers[p].shown)[c].controlled]), c)
  BY Zenon DEF Screen!Toggles
<1> DEFINE b == ~ Screen!Cameras(browsers[p].shown)[c].controlled
<1> HIDE DEF b
<1> DEFINE edit == Screen!Edit("cameras", "update", c, [controlled |-> b])
           f == [n |-> left.submits, page |-> p, kind |-> "toggle", edit |-> edit,
             camera |-> c, step |-> "sent"]
<1>2. Screen!Sends(p, "toggle", edit, c)
  BY <1>1, Zenon DEF b
<1>3. Switches(f)
  <2>1. f.edit = edit /\ f.camera = c
    BY Zenon
  <2> HIDE DEF f
  <2> QED
    BY <2>1, Zenon DEF Switches
<1> HIDE DEF edit
<1>4. f = [n |-> left.submits, page |-> p, kind |-> "toggle", edit |-> edit, camera |-> c,
        step |-> "sent"]
  BY Zenon
<1> HIDE DEF f
<1> QED
  BY <1>2, <1>3, <1>4, Sent

LEMMA ScreenRemoves ==
  ASSUME Screen!LabPageAssumption, PageInv, NEW p \in Page, Screen!Removes(p)
  PROVE  PageInv'
<1>1. PICK c : Screen!Sends(p, "remove", Screen!Edit("cameras", "remove", c, None), c)
  BY Zenon DEF Screen!Removes
<1> DEFINE edit == Screen!Edit("cameras", "remove", c, None)
           f == [n |-> left.submits, page |-> p, kind |-> "remove", edit |-> edit,
             camera |-> c, step |-> "sent"]
<1>2. Screen!Sends(p, "remove", edit, c)
  BY <1>1
<1>3. Drops(f)
  <2>1. f.edit = edit /\ f.camera = c
    BY Zenon
  <2> HIDE DEF f
  <2> QED
    BY <2>1, Zenon DEF Drops
<1> HIDE DEF edit
<1>4. f = [n |-> left.submits, page |-> p, kind |-> "remove", edit |-> edit, camera |-> c,
        step |-> "sent"]
  BY Zenon
<1> HIDE DEF f
<1> QED
  BY <1>2, <1>3, <1>4, Sent

-----------------------------------------------------------------------------
(* Edits under way: one that takes a step is the edit it was.              *)
LEMMA Stepped ==
  ASSUME NEW f, FlightForm(f), NEW s \in {"sent", "accepted", "refused"}, NEW g,
           g = [f EXCEPT !.step = s]
  PROVE  /\ FlightForm(g) /\ g.n = f.n /\ g.page = f.page /\ g.kind = f.kind /\ g.edit = f.edit
         /\ g.camera = f.camera /\ g.step = s
         /\ AddsHost(g) <=> AddsHost(f)
         /\ GivesHost(g) <=> GivesHost(f)
         /\ DropsHost(g) <=> DropsHost(f)
<1>1. g = [n |-> f.n, page |-> f.page, kind |-> f.kind, edit |-> f.edit, camera |-> f.camera, step |-> s]
  BY DEF FlightForm
<1>2. /\ g.n = f.n /\ g.page = f.page /\ g.kind = f.kind /\ g.edit = f.edit
      /\ g.camera = f.camera /\ g.step = s
  BY <1>1
<1>3. /\ AddsHost(g) <=> AddsHost(f)
      /\ GivesHost(g) <=> GivesHost(f)
      /\ DropsHost(g) <=> DropsHost(f)
      /\ Relinks(g) <=> Relinks(f)
      /\ Switches(g) <=> Switches(f)
      /\ Drops(g) <=> Drops(f)
  BY <1>2 DEF AddsHost, GivesHost, DropsHost, Relinks, Switches, Drops
<1>4. g = [n |-> g.n, page |-> g.page, kind |-> g.kind, edit |-> g.edit, camera |-> g.camera,
        step |-> g.step]
  BY <1>1, <1>2
<1>5. FlightForm(g)
  BY <1>2, <1>3, <1>4 DEF FlightForm
<1> QED
  BY <1>2, <1>3, <1>5

LEMMA Swapped ==
  ASSUME BoundsKept, BoundsKept', left'.submits <= left.submits, \A e \in flights : FlightForm(e),
         NEW f, NEW g, flights' \subseteq (flights \ {f}) \union {g}, FlightForm(g)
  PROVE  (\A e \in flights : FlightForm(e))'
BY FormStays

(* While care is taken there is one edit, and one after it.                *)
LEMMA CarefulOne ==
  ASSUME PageInv, careful, NEW f \in flights
  PROVE  /\ flights = {f} /\ Screen!Exclusive(db)
         /\ (f.kind \in {"linkSuitest", "linkTvCamera"} /\ f.step = "sent") =>
             Unclaimed(db, f.edit.fields.capture)
         /\ f.kind = "createAdb" => HostGoes(f)
         /\ \A h \in DOMAIN db.lab.adb \ leftBehind : OneCamera(db, h) \/ (HostPending(f) /\ f.n = h)
BY DEF PageInv, CareTaken

LEMMA CareOfOne ==
  ASSUME NEW g, flights' = {g},
         careful' =>
           /\ Screen!Exclusive(db)'
           /\ g.kind \in {"linkSuitest", "linkTvCamera"} => g.step # "sent"
           /\ g.kind = "createAdb" => HostGoes(g)'
           /\ \A h \in (DOMAIN db.lab.adb \ leftBehind)' :
                OneCamera(db, h)' \/ (HostPending(g)' /\ g.n = h)
  PROVE  CareTaken'
BY DEF CareTaken

(* Cameras that keep their hosts.                                          *)
LEMMA SameHosts ==
  ASSUME NEW d, NEW n, DOMAIN n.lab.cameras = DOMAIN d.lab.cameras,
         \A c \in DOMAIN d.lab.cameras : n.lab.cameras[c].adbId = d.lab.cameras[c].adbId
  PROVE  /\ \A h : OneCamera(d, h) => OneCamera(n, h)
         /\ \A h : Nobody(d, h) => Nobody(n, h)
         /\ \A c : Waits(d, c) => Waits(n, c)
         /\ n.lab.adb = d.lab.adb => HostIds(n) = HostIds(d)
<1>1. \A h : OneCamera(d, h) => OneCamera(n, h)
  BY DEF OneCamera
<1>2. \A h : Nobody(d, h) => Nobody(n, h)
  BY DEF Nobody
<1>3. \A c : Waits(d, c) => Waits(n, c)
  BY DEF Waits
<1>4. ASSUME n.lab.adb = d.lab.adb PROVE HostIds(n) = HostIds(d)
  BY <1>4 DEF HostIds
<1> QED
  BY <1>1, <1>2, <1>3, <1>4

(* What every accepted edit does.                                          *)
LEMMA AppliesAnEdit ==
  ASSUME PageInv, NEW f \in flights, Screen!Applies(f)
  PROVE  /\ FlightForm(f) /\ f.step = "sent" /\ WholeDb(db)
         /\ db' = [db EXCEPT !.lab = Screen!Applied(@, f.edit)] /\ version' = version + 1
         /\ flights' = (flights \ {f}) \union {[f EXCEPT !.step = "accepted"]}
         /\ leftBehind' = IF f.edit.table = "cameras" /\ f.edit.do = "remove"
                            THEN leftBehind \union Screen!HostOf(f.edit.id) ELSE leftBehind
         /\ UNCHANGED <<browsers, careful, left>>
BY DEF PageInv, Screen!Applies

LEMMA LinkApplies ==
  ASSUME PageInv, NEW f \in flights, Screen!Applies(f), f.kind \in {"linkSuitest", "linkTvCamera"}
  PROVE  WholeDb(db)' /\ HostIds(db)' \subseteq HostIds(db) \union {f.n} /\ CareTaken'
<1> DEFINE g == [f EXCEPT !.step = "accepted"]
<1>1. /\ FlightForm(f) /\ f.step = "sent" /\ WholeDb(db) /\ flights' = (flights \ {f}) \union {g}
      /\ db' = [db EXCEPT !.lab = Screen!Applied(@, f.edit)] /\ careful' = careful
  BY AppliesAnEdit
<1>2. PICK v : f.edit = Screen!Link(f.camera, v)
  BY <1>1 DEF FlightForm, Relinks
<1> DEFINE c == f.camera
           fields == [capture |-> v]
<1>3. /\ f.edit = Screen!Edit("cameras", "update", c, fields) /\ f.edit.table = "cameras"
      /\ f.edit.do = "update" /\ f.edit.fields.capture = v
  BY <1>2, EditIs DEF Screen!Link
<1>4. DOMAIN fields = {"capture"} /\ fields["capture"] = v
  OBVIOUS
<1>5. leftBehind' = leftBehind
  BY <1>3, AppliesAnEdit
<1> HIDE DEF g, fields, c
<1>6. CameraGot(db, db', c, "capture", v)
  BY <1>1, <1>3, <1>4, CameraUpdated
<1>7. \A x \in DOMAIN db.lab.cameras :
        /\ db'.lab.cameras[x].adbId = db.lab.cameras[x].adbId
        /\ db'.lab.cameras[x].capture = IF x = c THEN v ELSE db.lab.cameras[x].capture
  BY <1>6 DEF CameraGot
<1>8. HostIds(db)' = HostIds(db) /\ \A h : OneCamera(db, h) => OneCamera(db, h)'
  BY <1>6, <1>7, SameHosts DEF CameraGot
<1>9. CareTaken'
  <2>1. g.kind = f.kind /\ g.step = "accepted"
    BY <1>1, Stepped DEF g
  <2>2. CASE ~ careful
    BY <1>1, <2>2 DEF CareTaken
  <2>3. CASE careful
    <3>1. /\ flights' = {g} /\ Screen!Exclusive(db) /\ Unclaimed(db, v)
          /\ \A h \in DOMAIN db.lab.adb \ leftBehind : OneCamera(db, h)
      BY <1>1, <1>3, <2>3, CarefulOne DEF HostPending
    <3>2. Screen!Exclusive(db)'
      BY <1>6, <1>7, <3>1 DEF CameraGot, Screen!Exclusive, Screen!Cameras, Unclaimed
    <3> QED
      BY <1>5, <1>6, <1>8, <2>1, <3>1, <3>2, CareOfOne DEF CameraGot
  <2> QED
    BY <2>2, <2>3
<1> QED
  BY <1>6, <1>8, <1>9 DEF CameraGot

LEMMA SwitchApplies ==
  ASSUME PageInv, NEW f \in flights, Screen!Applies(f), f.kind = "toggle"
  PROVE  WholeDb(db)' /\ HostIds(db)' \subseteq HostIds(db) \union {f.n} /\ CareTaken'
<1> DEFINE g == [f EXCEPT !.step = "accepted"]
<1>1. /\ FlightForm(f) /\ f.step = "sent" /\ WholeDb(db) /\ flights' = (flights \ {f}) \union {g}
      /\ db' = [db EXCEPT !.lab = Screen!Applied(@, f.edit)] /\ careful' = careful
  BY AppliesAnEdit
<1>2. PICK b : f.edit = Screen!Edit("cameras", "update", f.camera, [controlled |-> b])
  BY <1>1 DEF FlightForm, Switches
<1> DEFINE c == f.camera
           fields == [controlled |-> b]
<1>3. /\ f.edit = Screen!Edit("cameras", "update", c, fields) /\ f.edit.table = "cameras"
      /\ f.edit.do = "update"
  BY <1>2, EditIs
<1>4. DOMAIN fields = {"controlled"} /\ fields["controlled"] = b
  OBVIOUS
<1>5. leftBehind' = leftBehind
  BY <1>3, AppliesAnEdit
<1> HIDE DEF g, fields, c
<1>6. CameraGot(db, db', c, "controlled", b)
  BY <1>1, <1>3, <1>4, CameraUpdated
<1>7. \A x \in DOMAIN db.lab.cameras :
        /\ db'.lab.cameras[x].adbId = db.lab.cameras[x].adbId
        /\ db'.lab.cameras[x].capture = db.lab.cameras[x].capture
  BY <1>6 DEF CameraGot
<1>8. HostIds(db)' = HostIds(db) /\ \A h : OneCamera(db, h) => OneCamera(db, h)'
  BY <1>6, <1>7, SameHosts DEF CameraGot
<1>9. CareTaken'
  <2>1. g.kind = f.kind /\ g.step = "accepted"
    BY <1>1, Stepped DEF g
  <2>2. CASE ~ careful
    BY <1>1, <2>2 DEF CareTaken
  <2>3. CASE careful
    <3>1. /\ flights' = {g} /\ Screen!Exclusive(db)
          /\ \A h \in DOMAIN db.lab.adb \ leftBehind : OneCamera(db, h)
      BY <1>1, <2>3, CarefulOne DEF HostPending
    <3>2. Screen!Exclusive(db)'
      BY <1>6, <1>7, <3>1 DEF CameraGot, Screen!Exclusive, Screen!Cameras
    <3> QED
      BY <1>5, <1>6, <1>8, <2>1, <3>1, <3>2, CareOfOne DEF CameraGot
  <2> QED
    BY <2>2, <2>3
<1> QED
  BY <1>6, <1>8, <1>9 DEF CameraGot

(* The host of a camera that goes is left behind, and no other is.         *)
LEMMA DropApplies ==
  ASSUME PageInv, NEW f \in flights, Screen!Applies(f), f.kind = "remove"
  PROVE  WholeDb(db)' /\ HostIds(db)' \subseteq HostIds(db) \union {f.n} /\ CareTaken'
<1> DEFINE g == [f EXCEPT !.step = "accepted"]
<1>1. /\ FlightForm(f) /\ f.step = "sent" /\ WholeDb(db) /\ flights' = (flights \ {f}) \union {g}
      /\ db' = [db EXCEPT !.lab = Screen!Applied(@, f.edit)] /\ careful' = careful
  BY AppliesAnEdit
<1> DEFINE c == f.camera
<1>2. /\ f.edit = Screen!Edit("cameras", "remove", c, None) /\ f.edit.table = "cameras"
      /\ f.edit.do = "remove" /\ f.edit.id = c
  BY <1>1, EditsApart DEF FlightForm, Drops
<1>3. leftBehind' = leftBehind \union Screen!HostOf(c)
  BY <1>2, AppliesAnEdit
<1> HIDE DEF g, c
<1>4. /\ WholeDb(db') /\ db'.lab.adb = db.lab.adb
      /\ DOMAIN db'.lab.cameras = DOMAIN db.lab.cameras \ {c}
      /\ \A x \in DOMAIN db'.lab.cameras : db'.lab.cameras[x] = db.lab.cameras[x]
  <2>1. CameraLost(db, db', c)
    BY <1>1, <1>2, CameraRemoved
  <2> QED
    BY <2>1 DEF CameraLost
<1>5. HostIds(db)' \subseteq HostIds(db)
  BY <1>4 DEF HostIds
<1>6. CareTaken'
  <2>1. g.kind = f.kind /\ g.step = "accepted"
    BY <1>1, Stepped DEF g
  <2>2. CASE ~ careful
    BY <1>1, <2>2 DEF CareTaken
  <2>3. CASE careful
    <3>1. /\ flights' = {g} /\ Screen!Exclusive(db)
          /\ \A h \in DOMAIN db.lab.adb \ leftBehind : OneCamera(db, h)
      BY <1>1, <2>3, CarefulOne DEF HostPending
    <3>2. Screen!Exclusive(db)'
      BY <1>4, <3>1 DEF Screen!Exclusive, Screen!Cameras
    <3>3. ASSUME NEW h \in (DOMAIN db.lab.adb \ leftBehind)' PROVE OneCamera(db, h)'
      <4>1. h \in DOMAIN db.lab.adb \ leftBehind /\ h # None
        BY <1>1, <1>3, <1>4 DEF WholeDb
      <4>2. PICK x \in DOMAIN db.lab.cameras :
              \A e \in DOMAIN db.lab.cameras : db.lab.cameras[e].adbId = h <=> e = x
        BY <3>1, <4>1 DEF OneCamera
      <4>3. x # c
        BY <1>3, <4>1, <4>2 DEF Screen!HostOf, Screen!Cameras
      <4> QED
        BY <1>4, <4>2, <4>3 DEF OneCamera
    <3> QED
      BY <2>1, <3>1, <3>2, <3>3, CareOfOne
  <2> QED
    BY <2>2, <2>3
<1> QED
  BY <1>4, <1>5, <1>6

(* A host that is added waits for its camera.                              *)
LEMMA HostAddApplies ==
  ASSUME Screen!LabPageAssumption, PageInv, NEW f \in flights, Screen!Applies(f),
           f.kind = "createAdb", AddsHost(f)
  PROVE  WholeDb(db)' /\ HostIds(db)' \subseteq HostIds(db) \union {f.n} /\ CareTaken'
<1> DEFINE g == [f EXCEPT !.step = "accepted"]
<1>1. /\ FlightForm(f) /\ f.step = "sent" /\ WholeDb(db) /\ flights' = (flights \ {f}) \union {g}
      /\ db' = [db EXCEPT !.lab = Screen!Applied(@, f.edit)] /\ careful' = careful
  BY AppliesAnEdit
<1>2. /\ f.edit = Screen!Edit("adb", "add", f.n, [target |-> "ip"]) /\ f.edit.table = "adb"
      /\ f.n # None /\ ~ GivesHost(f) /\ ~ DropsHost(f)
  BY <1>1, EditsApart DEF AddsHost, FlightForm, Screen!LabPageAssumption
<1>3. leftBehind' = leftBehind
  BY <1>2, AppliesAnEdit
<1> DEFINE fields == [target |-> "ip"]
<1> HIDE DEF g, fields
<1>4. WholeDb(db') /\ db'.lab.cameras = db.lab.cameras
        /\ DOMAIN db'.lab.adb = DOMAIN db.lab.adb \union {f.n}
  <2>1. db' = [db EXCEPT !.lab = Screen!Applied(@, Screen!Edit("adb", "add", f.n, fields))]
    BY <1>1, <1>2 DEF fields
  <2>2. HostsAre(db, db', DOMAIN db.lab.adb \union {f.n})
    BY <1>1, <1>2, <2>1, HostEdited
  <2> QED
    BY <2>2 DEF HostsAre
<1>5. HostIds(db)' \subseteq HostIds(db) \union {f.n}
  BY <1>4 DEF HostIds
<1>6. CareTaken'
  <2>1. /\ g.kind = f.kind /\ g.step = "accepted" /\ g.n = f.n /\ g.camera = f.camera
        /\ AddsHost(g) /\ ~ GivesHost(g) /\ ~ DropsHost(g)
    BY <1>1, <1>2, Stepped DEF g
  <2>2. CASE ~ careful
    BY <1>1, <2>2 DEF CareTaken
  <2>3. CASE careful
    <3>1. /\ flights' = {g} /\ Screen!Exclusive(db) /\ HostGoes(f)
          /\ \A h \in DOMAIN db.lab.adb \ leftBehind : OneCamera(db, h)
      BY <1>1, <1>2, <2>3, CarefulOne DEF HostPending
    <3>2. Screen!Exclusive(db)'
      BY <1>4, <3>1 DEF Screen!Exclusive, Screen!Cameras
    <3>3. HostPending(g)' /\ (AddsHost(g) /\ ~ GivesHost(g) /\ ~ DropsHost(g))'
      BY <2>1, KindsStay DEF HostPending
    <3>4. HostGoes(g)'
      <4>1. Nobody(db, g.n)' /\ Waits(db, g.camera)'
        BY <1>2, <1>4, <2>1, <3>1 DEF HostGoes, Nobody, Waits
      <4> QED
        BY <2>1, <3>3, <4>1 DEF HostGoes
    <3>5. \A h : OneCamera(db, h) => OneCamera(db, h)'
      BY <1>4 DEF OneCamera
    <3> QED
      BY <1>3, <1>4, <2>1, <3>1, <3>2, <3>3, <3>4, <3>5, CareOfOne
  <2> QED
    BY <2>2, <2>3
<1> QED
  BY <1>4, <1>5, <1>6

(* A camera that waits gets the host.                                      *)
LEMMA HostGiveApplies ==
  ASSUME Screen!LabPageAssumption, PageInv, NEW f \in flights, Screen!Applies(f),
           f.kind = "createAdb", GivesHost(f)
  PROVE  WholeDb(db)' /\ HostIds(db)' \subseteq HostIds(db) \union {f.n} /\ CareTaken'
<1> DEFINE g == [f EXCEPT !.step = "accepted"]
<1>1. /\ FlightForm(f) /\ f.step = "sent" /\ WholeDb(db) /\ flights' = (flights \ {f}) \union {g}
      /\ db' = [db EXCEPT !.lab = Screen!Applied(@, f.edit)] /\ careful' = careful
  BY AppliesAnEdit
<1> DEFINE c == f.camera
           fields == [adbId |-> f.n]
<1>2. /\ f.edit = Screen!Edit("cameras", "update", c, fields) /\ f.edit.table = "cameras"
      /\ f.edit.do = "update" /\ ~ AddsHost(f) /\ ~ DropsHost(f)
  BY EditsApart DEF GivesHost
<1>3. leftBehind' = leftBehind
  BY <1>2, AppliesAnEdit
<1>4. DOMAIN fields = {"adbId"} /\ fields["adbId"] = f.n
  OBVIOUS
<1> HIDE DEF g, fields, c
<1>5. CameraGot(db, db', c, "adbId", f.n)
  BY <1>1, <1>2, <1>4, CameraUpdated
<1>6. \A x \in DOMAIN db.lab.cameras :
        /\ db'.lab.cameras[x].adbId = IF x = c THEN f.n ELSE db.lab.cameras[x].adbId
        /\ db'.lab.cameras[x].capture = db.lab.cameras[x].capture
  BY <1>5 DEF CameraGot
<1>7. WholeDb(db') /\ db'.lab.adb = db.lab.adb /\ DOMAIN db'.lab.cameras = DOMAIN db.lab.cameras
  BY <1>5 DEF CameraGot
<1>8. HostIds(db)' \subseteq HostIds(db) \union {f.n}
  BY <1>6, <1>7 DEF HostIds
<1>9. CareTaken'
  <2>1. /\ g.kind = f.kind /\ g.step = "accepted" /\ g.n = f.n /\ g.camera = f.camera
        /\ ~ AddsHost(g) /\ GivesHost(g) /\ ~ DropsHost(g)
    BY <1>1, <1>2, Stepped DEF g
  <2>2. CASE ~ careful
    BY <1>1, <2>2 DEF CareTaken
  <2>3. CASE careful
    <3> HIDE DEF g
    <3>1. /\ flights' = {g} /\ Screen!Exclusive(db) /\ HostGoes(f)
          /\ \A h \in DOMAIN db.lab.adb \ leftBehind : OneCamera(db, h) \/ h = f.n
      <4>1. /\ flights = {f} /\ Screen!Exclusive(db) /\ (f.kind = "createAdb" => HostGoes(f))
            /\ \A h \in DOMAIN db.lab.adb \ leftBehind :
                 OneCamera(db, h) \/ (HostPending(f) /\ f.n = h)
        BY <1>1, <2>3, CarefulOne
      <4> QED
        BY <1>1, <4>1
    <3>2. Screen!Exclusive(db)'
      BY <1>6, <1>7, <3>1 DEF Screen!Exclusive, Screen!Cameras
    <3>3. Nobody(db, f.n) /\ Waits(db, c)
      BY <1>1, <1>2, <3>1 DEF HostGoes, c
    <3>4. OneCamera(db, f.n)'
      BY <1>6, <1>7, <3>3 DEF OneCamera, Nobody, Waits
    <3>5. HostGoes(g)'
      BY <2>1, <3>4, KindsStay DEF HostGoes
    <3>6. ASSUME NEW h \in (DOMAIN db.lab.adb \ leftBehind)' PROVE OneCamera(db, h)'
      <4>1. CASE h = f.n
        BY <3>4, <4>1
      <4>2. CASE h # f.n
        <5>1. h # None /\ OneCamera(db, h)
          BY <1>1, <1>3, <1>7, <3>1, <4>2 DEF WholeDb
        <5>2. PICK e \in DOMAIN db.lab.cameras :
                \A x \in DOMAIN db.lab.cameras : db.lab.cameras[x].adbId = h <=> x = e
          BY <5>1 DEF OneCamera
        <5>3. e # c
          BY <3>3, <5>1, <5>2 DEF Waits
        <5> QED
          BY <1>6, <1>7, <4>2, <5>2, <5>3 DEF OneCamera
      <4> QED
        BY <4>1, <4>2
    <3> QED
      BY <2>1, <3>1, <3>2, <3>5, <3>6, CareOfOne
  <2> QED
    BY <2>2, <2>3
<1> QED
  BY <1>7, <1>8, <1>9

(* A host that could not be given is taken back.                           *)
LEMMA HostDropApplies ==
  ASSUME Screen!LabPageAssumption, PageInv, NEW f \in flights, Screen!Applies(f),
           f.kind = "createAdb", DropsHost(f)
  PROVE  WholeDb(db)' /\ HostIds(db)' \subseteq HostIds(db) \union {f.n} /\ CareTaken'
<1> DEFINE g == [f EXCEPT !.step = "accepted"]
<1>1. /\ FlightForm(f) /\ f.step = "sent" /\ WholeDb(db) /\ flights' = (flights \ {f}) \union {g}
      /\ db' = [db EXCEPT !.lab = Screen!Applied(@, f.edit)] /\ careful' = careful
  BY AppliesAnEdit
<1>2. /\ f.edit = Screen!Edit("adb", "remove", f.n, None) /\ f.edit.table = "adb"
      /\ f.n # None /\ ~ GivesHost(f) /\ ~ AddsHost(f)
  BY <1>1, EditsApart DEF DropsHost, FlightForm, Screen!LabPageAssumption
<1>3. leftBehind' = leftBehind
  BY <1>2, AppliesAnEdit
<1> HIDE DEF g
<1>4. WholeDb(db') /\ db'.lab.cameras = db.lab.cameras /\ DOMAIN db'.lab.adb = DOMAIN db.lab.adb \ {f.n}
  <2>1. db' = [db EXCEPT !.lab = Screen!Applied(@, Screen!Edit("adb", "remove", f.n, None))]
    BY <1>1, <1>2
  <2>2. HostsAre(db, db', DOMAIN db.lab.adb \ {f.n})
    BY <1>1, <1>2, <2>1, HostEdited
  <2> QED
    BY <2>2 DEF HostsAre
<1>5. HostIds(db)' \subseteq HostIds(db) \union {f.n}
  BY <1>4 DEF HostIds
<1>6. CareTaken'
  <2>1. /\ g.kind = f.kind /\ g.step = "accepted" /\ g.n = f.n
        /\ ~ AddsHost(g) /\ ~ GivesHost(g) /\ DropsHost(g)
    BY <1>1, <1>2, Stepped DEF g
  <2>2. CASE ~ careful
    BY <1>1, <2>2 DEF CareTaken
  <2>3. CASE careful
    <3>1. /\ flights' = {g} /\ Screen!Exclusive(db)
          /\ \A h \in DOMAIN db.lab.adb \ leftBehind : OneCamera(db, h) \/ h = f.n
      BY <1>1, <1>2, <2>3, CarefulOne DEF HostPending
    <3>2. Screen!Exclusive(db)'
      BY <1>4, <3>1 DEF Screen!Exclusive, Screen!Cameras
    <3>3. HostGoes(g)'
      BY <1>4, <2>1, KindsStay DEF HostGoes
    <3>4. \A h : OneCamera(db, h) => OneCamera(db, h)'
      BY <1>4 DEF OneCamera
    <3> QED
      BY <1>3, <1>4, <2>1, <3>1, <3>2, <3>3, <3>4, CareOfOne
  <2> QED
    BY <2>2, <2>3
<1> QED
  BY <1>4, <1>5, <1>6

(* The file moves on, and a page that showed it does not any more.         *)
LEMMA PagesFallBehind ==
  ASSUME PagesHonest, version \in Nat, version' = version + 1, browsers' = browsers
  PROVE  PagesHonest'
BY DEF PagesHonest, PageHonest

LEMMA ScreenApplies ==
  ASSUME Screen!LabPageAssumption, PageInv, NEW f \in flights, Screen!Applies(f)
  PROVE  PageInv'
<1> DEFINE g == [f EXCEPT !.step = "accepted"]
<1>1. /\ FlightForm(f) /\ version' = version + 1 /\ flights' = (flights \ {f}) \union {g}
      /\ leftBehind' = IF f.edit.table = "cameras" /\ f.edit.do = "remove"
                         THEN leftBehind \union Screen!HostOf(f.edit.id) ELSE leftBehind
      /\ UNCHANGED <<browsers, careful, left>>
  BY AppliesAnEdit
<1>2. /\ version \in Nat /\ careful \in BOOLEAN /\ BoundsKept /\ PagesHonest
      /\ (\A e \in flights : FlightForm(e)) /\ IdsKnown
  BY DEF PageInv
<1>3. WholeDb(db)' /\ HostIds(db)' \subseteq HostIds(db) \union {f.n} /\ CareTaken'
  BY <1>1, LinkApplies, SwitchApplies, DropApplies, HostAddApplies, HostGiveApplies, HostDropApplies
     DEF FlightForm
<1>4. FlightForm(g)
  BY <1>1, Stepped
<1> HIDE DEF g
<1>5. BoundsKept' /\ left'.submits <= left.submits
  BY <1>1, <1>2 DEF BoundsKept
<1>6. (\A e \in flights : FlightForm(e))'
  BY <1>1, <1>2, <1>4, <1>5, Swapped
<1>7. IdsKnown'
  <2>1. f.n \in 1 .. MaxSubmits /\ left.submits < f.n
    BY <1>1 DEF FlightForm
  <2>2. f.n \in Screen!Hosts
    BY <2>1 DEF Screen!Hosts
  <2>3. leftBehind' \subseteq Screen!Hosts
    <3>1. Screen!HostOf(f.edit.id) \subseteq HostIds(db) \ {None}
      BY DEF Screen!HostOf, Screen!Cameras, HostIds
    <3> QED
      BY <1>1, <1>2, <3>1 DEF IdsKnown
  <2>4. \A n \in 1 .. left.submits : n # f.n
    BY <1>2, <2>1 DEF BoundsKept
  <2> QED
    BY <1>1, <1>2, <1>3, <2>2, <2>3, <2>4 DEF IdsKnown
<1>8. PagesHonest' /\ version' \in Nat
  BY <1>1, <1>2, PagesFallBehind
<1> QED
  BY <1>1, <1>2, <1>3, <1>5, <1>6, <1>7, <1>8 DEF PageInv

(* A refusal; a host that could not be taken back is left behind.          *)
LEMMA ScreenRefuses ==
  ASSUME Screen!LabPageAssumption, PageInv, NEW f \in flights, Screen!Refuses(f)
  PROVE  PageInv'
<1> DEFINE g == [f EXCEPT !.step = "refused"]
<1>1. /\ f.step = "sent" /\ Screen!Takes("upsets") /\ flights' = (flights \ {f}) \union {g}
      /\ leftBehind' = IF f.edit.table = "adb" /\ f.edit.do = "remove"
                         THEN leftBehind \union {f.edit.id} ELSE leftBehind
      /\ UNCHANGED <<db, version, browsers, careful>>
  BY DEF Screen!Refuses
<1>2. /\ WholeDb(db) /\ version \in Nat /\ careful \in BOOLEAN /\ BoundsKept /\ PagesHonest
      /\ (\A e \in flights : FlightForm(e)) /\ IdsKnown /\ CareTaken /\ FlightForm(f)
  BY DEF PageInv
<1>3. /\ FlightForm(g) /\ g.n = f.n /\ g.kind = f.kind /\ g.camera = f.camera /\ g.step = "refused"
      /\ AddsHost(g) <=> AddsHost(f)
      /\ GivesHost(g) <=> GivesHost(f)
      /\ DropsHost(g) <=> DropsHost(f)
  BY <1>2, Stepped
<1> HIDE DEF g
<1>4. BoundsKept' /\ left'.submits = left.submits
  BY <1>1, <1>2, BoundsTaken
<1>5. (\A e \in flights : FlightForm(e))'
  <2>1. left'.submits <= left.submits
    BY <1>2, <1>4 DEF BoundsKept
  <2> QED
    BY <1>1, <1>2, <1>3, <1>4, <2>1, Swapped
<1>6. PagesHonest'
  BY <1>1, <1>2 DEF PagesHonest, PageHonest
<1>7. f.kind # "createAdb" \/ ~ DropsHost(f) => leftBehind' = leftBehind
  BY <1>1, <1>2, EditsApart DEF FlightForm
<1>8. DropsHost(f) => leftBehind' = leftBehind \union {f.n}
  BY <1>1, EditsApart
<1>9. IdsKnown'
  <2>1. f.n \in Screen!Hosts
    BY <1>2 DEF FlightForm, Screen!Hosts
  <2>2. leftBehind' \subseteq Screen!Hosts
    BY <1>2, <1>7, <1>8, <2>1 DEF IdsKnown
  <2> QED
    BY <1>1, <1>2, <1>4, <2>2 DEF IdsKnown
<1>10. CareTaken'
  <2>1. CASE ~ careful
    BY <1>1, <2>1 DEF CareTaken
  <2>2. CASE careful
    <3>1. /\ flights' = {g} /\ Screen!Exclusive(db) /\ (f.kind = "createAdb" => HostGoes(f))
          /\ \A h \in DOMAIN db.lab.adb \ leftBehind : OneCamera(db, h) \/ (HostPending(f) /\ f.n = h)
      BY <1>1, <2>2, CarefulOne
    <3>2. g.kind = "createAdb" => HostGoes(g)'
      BY <1>1, <1>3, <3>1, KindsStay DEF HostGoes
    <3>3. ASSUME NEW h \in (DOMAIN db.lab.adb \ leftBehind)'
          PROVE  OneCamera(db, h)' \/ (HostPending(g)' /\ g.n = h)
      <4>1. h \in DOMAIN db.lab.adb \ leftBehind
        BY <1>1, <3>3
      <4>2. CASE OneCamera(db, h)
        BY <1>1, <4>2
      <4>3. CASE HostPending(f) /\ f.n = h
        <5>1. GivesHost(f)
          BY <1>1, <1>8, <3>3, <4>3 DEF HostPending
        <5>2. HostPending(g)'
          BY <1>3, <4>3, <5>1, KindsStay DEF HostPending
        <5> QED
          BY <1>3, <4>3, <5>2
      <4> QED
        BY <3>1, <4>1, <4>2, <4>3
    <3>4. Screen!Exclusive(db)'
      BY <1>1, <3>1
    <3> QED
      BY <1>3, <3>1, <3>2, <3>3, <3>4, CareOfOne
  <2> QED
    BY <2>1, <2>2
<1> QED
  BY <1>1, <1>2, <1>4, <1>5, <1>6, <1>9, <1>10 DEF PageInv

(* The next call of an assignment.                                         *)
LEMMA GoingOn ==
  ASSUME PageInv, NEW f \in flights, f.kind = "createAdb", HostPending(f), NEW edit,
           Screen!GoesOn(f, edit),
         \/ /\ edit = Screen!Edit("cameras", "update", f.camera, [adbId |-> f.n])
            /\ HostGoes(f) => Nobody(db, f.n) /\ Waits(db, f.camera)
         \/ edit = Screen!Edit("adb", "remove", f.n, None)
  PROVE  PageInv'
<1> DEFINE g == [f EXCEPT !.edit = edit, !.step = "sent"]
<1>1. flights' = (flights \ {f}) \union {g}
        /\ UNCHANGED <<db, version, browsers, careful, leftBehind, left>>
  BY DEF Screen!GoesOn
<1>2. /\ WholeDb(db) /\ version \in Nat /\ careful \in BOOLEAN /\ BoundsKept /\ PagesHonest
      /\ (\A e \in flights : FlightForm(e)) /\ IdsKnown /\ CareTaken /\ FlightForm(f)
  BY DEF PageInv
<1>3. g = [n |-> f.n, page |-> f.page, kind |-> f.kind, edit |-> edit, camera |-> f.camera,
        step |-> "sent"]
  <2> DEFINE one == [f EXCEPT !.edit = edit]
  <2>1. one = [n |-> f.n, page |-> f.page, kind |-> f.kind, edit |-> edit, camera |-> f.camera,
          step |-> f.step]
    BY <1>2 DEF FlightForm
  <2>2. g = [one EXCEPT !.step = "sent"]
    OBVIOUS
  <2> HIDE DEF one, g
  <2> QED
    BY <2>1, <2>2
<1> HIDE DEF g
<1>4. /\ g.n = f.n /\ g.page = f.page /\ g.kind = f.kind /\ g.edit = edit /\ g.camera = f.camera
      /\ g.step = "sent"
      /\ g = [n |-> g.n, page |-> g.page, kind |-> g.kind, edit |-> g.edit,
           camera |-> g.camera, step |-> g.step]
  BY <1>3
<1>5. GivesHost(g) \/ DropsHost(g)
  BY <1>4 DEF GivesHost, DropsHost
<1>6. FlightForm(g)
  BY <1>2, <1>4, <1>5 DEF FlightForm
<1>7. (\A e \in flights : FlightForm(e))'
  <2>1. BoundsKept' /\ left'.submits <= left.submits
    BY <1>1, <1>2 DEF BoundsKept
  <2> QED
    BY <1>1, <1>2, <1>6, <2>1, Swapped
<1>8. PagesHonest'
  BY <1>1, <1>2 DEF PagesHonest, PageHonest
<1>9. CareTaken'
  <2>1. CASE ~ careful
    BY <1>1, <2>1 DEF CareTaken
  <2>2. CASE careful
    <3>1. /\ flights' = {g} /\ Screen!Exclusive(db) /\ HostGoes(f)
          /\ \A h \in DOMAIN db.lab.adb \ leftBehind : OneCamera(db, h) \/ f.n = h
      BY <1>1, <2>2, CarefulOne
    <3>2. HostPending(g)'
      BY <1>4, <1>5, KindsStay DEF HostPending
    <3>3. HostGoes(g)'
      <4>1. GivesHost(g) => Nobody(db, f.n) /\ Waits(db, f.camera)
        BY <1>4, <3>1, EditsApart, EditIs
      <4> QED
        BY <1>1, <1>4, <1>5, <4>1, EditsApart, KindsStay DEF HostGoes
    <3>4. Screen!Exclusive(db)' /\ \A h : OneCamera(db, h) => OneCamera(db, h)'
      BY <1>1, <3>1
    <3> QED
      BY <1>1, <1>4, <3>1, <3>2, <3>3, <3>4, CareOfOne
  <2> QED
    BY <2>1, <2>2
<1> QED
  BY <1>1, <1>2, <1>7, <1>8, <1>9 DEF PageInv, BoundsKept, IdsKnown

LEMMA ScreenGoesOn ==
  ASSUME PageInv, NEW f \in flights, Screen!Assigns(f) \/ Screen!TakesBack(f)
  PROVE  PageInv'
<1>1. FlightForm(f)
  BY DEF PageInv
<1>2. CASE Screen!Assigns(f)
  <2>1. /\ f.kind = "createAdb" /\ f.step = "accepted" /\ f.edit.do = "add"
        /\ Screen!GoesOn(f, Screen!Edit("cameras", "update", f.camera, [adbId |-> f.edit.id]))
    BY <1>2 DEF Screen!Assigns
  <2>2. AddsHost(f) /\ f.edit.id = f.n
    BY <1>1, <2>1, EditsApart DEF FlightForm
  <2>3. HostPending(f) /\ (HostGoes(f) => Nobody(db, f.n) /\ Waits(db, f.camera))
    BY <2>1, <2>2 DEF HostPending, HostGoes
  <2>4. Screen!GoesOn(f, Screen!Edit("cameras", "update", f.camera, [adbId |-> f.n]))
    BY <2>1, <2>2
  <2> QED
    BY <2>1, <2>3, <2>4, GoingOn
<1>3. CASE Screen!TakesBack(f)
  <2>1. /\ f.kind = "createAdb" /\ f.step = "refused" /\ f.edit.do = "update"
        /\ Screen!GoesOn(f, Screen!Edit("adb", "remove", f.edit.fields.adbId, None))
    BY <1>3 DEF Screen!TakesBack
  <2>2. GivesHost(f) /\ f.edit.fields.adbId = f.n
    BY <1>1, <2>1, EditsApart DEF FlightForm
  <2>3. HostPending(f)
    BY <2>1, <2>2 DEF HostPending
  <2>4. Screen!GoesOn(f, Screen!Edit("adb", "remove", f.n, None))
    BY <2>1, <2>2
  <2> QED
    BY <2>1, <2>3, <2>4, GoingOn
<1> QED
  BY <1>2, <1>3

(* An edit that is over.                                                   *)
LEMMA EditEnds ==
  ASSUME PageInv, NEW f \in flights, ~ HostPending(f), flights' = flights \ {f},
         UNCHANGED <<db, version, careful, leftBehind, left>>, PagesHonest'
  PROVE  PageInv'
<1>1. /\ WholeDb(db) /\ version \in Nat /\ careful \in BOOLEAN /\ BoundsKept
      /\ (\A e \in flights : FlightForm(e)) /\ IdsKnown /\ CareTaken
  BY DEF PageInv
<1>2. (\A e \in flights : FlightForm(e))'
  <2>1. BoundsKept' /\ left'.submits <= left.submits
    BY <1>1 DEF BoundsKept
  <2> QED
    BY <1>1, <2>1, FormStays
<1>3. CareTaken'
  <2>1. CASE ~ careful
    BY <2>1 DEF CareTaken
  <2>2. CASE careful
    <3>1. /\ flights' = {} /\ Screen!Exclusive(db)
          /\ \A h \in DOMAIN db.lab.adb \ leftBehind : OneCamera(db, h)
      BY <2>2, CarefulOne
    <3> QED
      BY <3>1 DEF CareTaken
  <2> QED
    BY <2>1, <2>2
<1> QED
  BY <1>1, <1>2, <1>3 DEF PageInv, BoundsKept, IdsKnown

LEMMA ScreenSucceeds ==
  ASSUME PageInv, NEW f \in flights, Screen!Succeeds(f)
  PROVE  PageInv'
<1> DEFINE p == f.page
           q == browsers[p]
           dialog == IF q.dialog.kind = f.kind THEN Screen!NoDialog ELSE q.dialog
           load == [Screen!NoLoad EXCEPT !.step = "asked"]
           one == [q EXCEPT !.dialog = dialog]
           two == [one EXCEPT !.acked = version]
           new == [two EXCEPT !.load = load]
<1>1. /\ f.step = "accepted" /\ (f.kind = "createAdb" => f.edit.do = "update")
      /\ flights' = flights \ {f} /\ UNCHANGED <<db, version, careful, leftBehind, left>>
      /\ browsers' = [browsers EXCEPT
           ![p].dialog = IF @.kind = f.kind THEN Screen!NoDialog ELSE @, ![p].acked = version,
             ![p].load = load]
  BY DEF Screen!Succeeds
<1>2. FlightForm(f) /\ p \in Page /\ PagesHonest /\ PageHonest(q) /\ version \in Nat
  BY DEF PageInv, PagesHonest, FlightForm
<1>3. browsers' = [browsers EXCEPT ![p] = new]
  BY <1>1, <1>2 DEF PagesHonest
<1>4. load.step = "asked"
  BY DEF Screen!NoLoad
<1> HIDE DEF load, dialog, q
<1>5. one = [shown |-> q.shown, of |-> q.of, dialog |-> dialog, load |-> q.load, acked |-> q.acked]
  BY <1>2 DEF PageHonest
<1> HIDE DEF one
<1>6. two = [shown |-> q.shown, of |-> q.of, dialog |-> dialog, load |-> q.load, acked |-> version]
  BY <1>5
<1> HIDE DEF two
<1>7. new = [shown |-> q.shown, of |-> q.of, dialog |-> dialog, load |-> load, acked |-> version]
  BY <1>6
<1> HIDE DEF new, p
<1>8. PageHonest(new)
  BY <1>2, <1>4, <1>7 DEF PageHonest
<1>9. PagesHonest'
  BY <1>1, <1>2, <1>3, <1>8, OnePage
<1>10. ~ HostPending(f)
  BY <1>1, EditsApart DEF HostPending
<1> QED
  BY <1>1, <1>9, <1>10, EditEnds

LEMMA ScreenFails ==
  ASSUME PageInv, NEW f \in flights, Screen!Fails(f)
  PROVE  PageInv'
<1>1. /\ \/ f.step = "refused" /\ ~ (f.kind = "createAdb" /\ f.edit.do = "update")
         \/ f.kind = "createAdb" /\ f.step = "accepted" /\ f.edit.do = "remove"
      /\ flights' = flights \ {f} /\ UNCHANGED <<db, version, browsers, careful, leftBehind, left>>
  BY DEF Screen!Fails
<1>2. ~ HostPending(f)
  BY <1>1, EditsApart DEF HostPending
<1>3. PagesHonest'
  BY <1>1 DEF PageInv, PagesHonest, PageHonest
<1> QED
  BY <1>1, <1>2, <1>3, EditEnds

(* An import.                                                              *)
LEMMA ScreenImports ==
  ASSUME Screen!LabPageAssumption, PageInv, Screen!Imports
  PROVE  PageInv'
<1>1. PICK lists \in SuitestLists :
        /\ db' = Screen!SyncedFrom(db, lists)
        /\ careful' = (careful /\ flights = {} /\
             \A v \in DOMAIN lists.captures \ DOMAIN Screen!Cameras(db) : ~ Screen!Claimed(db, v))
  BY DEF Screen!Imports
<1>2. Screen!Takes("upsets") /\ version' = version + 1 /\ UNCHANGED <<browsers, flights, leftBehind>>
  BY DEF Screen!Imports
<1>3. /\ WholeDb(db) /\ version \in Nat /\ careful \in BOOLEAN /\ BoundsKept /\ PagesHonest
      /\ (\A e \in flights : FlightForm(e)) /\ IdsKnown /\ CareTaken
  BY DEF PageInv
<1>4. Screen!ListsAreWhole(lists) /\ None \notin 1 .. MaxSubmits /\ MaxSubmits \in Nat
  BY DEF Screen!LabPageAssumption
<1> DEFINE new == DOMAIN lists.captures \ DOMAIN db.lab.cameras
<1>5. /\ WholeDb(db') /\ db'.lab.adb = db.lab.adb
      /\ DOMAIN db'.lab.cameras = DOMAIN db.lab.cameras \union new
      /\ \A x \in DOMAIN db.lab.cameras : db'.lab.cameras[x] = db.lab.cameras[x]
      /\ \A x \in new : db'.lab.cameras[x].capture = x /\ db'.lab.cameras[x].adbId = None
  <2>1. DOMAIN db.lab.cameras \union new = DOMAIN db.lab.cameras \union DOMAIN lists.captures
    OBVIOUS
  <2> QED
    BY <1>1, <1>3, <1>4, <2>1, Imported
<1>6. BoundsKept' /\ left'.submits = left.submits
  BY <1>2, <1>3, BoundsTaken
<1>7. (\A e \in flights : FlightForm(e))'
  <2>1. left'.submits <= left.submits
    BY <1>3, <1>6 DEF BoundsKept
  <2> QED
    BY <1>2, <1>3, <1>6, <2>1, FormStays
<1>8. PagesHonest' /\ version' \in Nat
  BY <1>2, <1>3, PagesFallBehind
<1> HIDE DEF new
<1>9. IdsKnown'
  <2>1. HostIds(db)' \subseteq HostIds(db) \union {None}
    BY <1>5 DEF HostIds
  <2>2. \A n \in 1 .. left.submits : n # None
    BY <1>3, <1>4 DEF BoundsKept
  <2> QED
    BY <1>2, <1>3, <1>6, <2>1, <2>2 DEF IdsKnown
<1>10. CareTaken'
  <2> SUFFICES ASSUME careful'
               PROVE  CareTaken'
    BY DEF CareTaken
  <2>1. /\ careful /\ flights = {} /\ flights' = {}
        /\ \A v \in new : \A c \in DOMAIN db.lab.cameras : db.lab.cameras[c].capture # v
    BY <1>1, <1>2 DEF Screen!Claimed, Screen!Cameras, new
  <2>2. /\ Screen!Exclusive(db)
        /\ \A h \in DOMAIN db.lab.adb \ leftBehind : OneCamera(db, h)
    BY <1>3, <2>1 DEF CareTaken
  <2>3. Screen!Exclusive(db)'
    BY <1>5, <2>1, <2>2 DEF Screen!Exclusive, Screen!Cameras
  <2>4. ASSUME NEW h \in (DOMAIN db.lab.adb \ leftBehind)' PROVE OneCamera(db, h)'
    <3>1. h # None /\ OneCamera(db, h)
      BY <1>2, <1>3, <1>5, <2>2, <2>4 DEF WholeDb
    <3> QED
      BY <1>5, <3>1 DEF OneCamera
  <2> QED
    BY <2>1, <2>3, <2>4 DEF CareTaken
<1> QED
  BY <1>1, <1>2, <1>3, <1>5, <1>6, <1>7, <1>8, <1>9, <1>10 DEF PageInv

-----------------------------------------------------------------------------
(* The registries to begin with.                                           *)
LEMMA FirstIsWhole ==
  ASSUME NEW d, Screen!DbIsWhole(d)
  PROVE  WholeDb(d)
<1> DEFINE l == d.lab
           T == {"candyboxes", "cameras", "tvs", "adb"}
<1>1. DOMAIN Screen!Empty = T
  BY SameEdits DEF Empty
<1>2. /\ Screen!ListsAreWhole(d.suitest) /\ d = [suitest |-> d.suitest, lab |-> l]
      /\ l = [table \in T |-> l[table]]
      /\ \A table \in T : IsFiniteSet(DOMAIN l[table])
      /\ None \notin DOMAIN l.candyboxes \union DOMAIN l.tvs \union DOMAIN l.adb
      /\ \A c \in DOMAIN l.cameras : {"controlled", "capture", "adbId"} \subseteq DOMAIN l.cameras[c]
  BY <1>1, SameCounting DEF Screen!DbIsWhole, Screen!IsTable, Screen!Cameras
<1> HIDE DEF l
<1>3. LabShape(l)
  BY <1>2 DEF LabShape
<1>4. /\ IsFiniteSet(DOMAIN l.candyboxes) /\ IsFiniteSet(DOMAIN l.tvs) /\ IsFiniteSet(DOMAIN l.cameras)
  BY <1>2
<1> QED
  BY <1>2, <1>3, <1>4 DEF WholeDb, DbShape, l

LEMMA OneOf ==
  ASSUME NEW d, WholeDb(d), NEW h
  PROVE  Screen!Cardinality(Screen!CamerasWith(d, h)) = 1 <=> OneCamera(d, h)
<1> DEFINE S == Screen!CamerasWith(d, h)
<1>1. S = {c \in DOMAIN d.lab.cameras : d.lab.cameras[c].adbId = h}
  BY DEF Screen!CamerasWith, Screen!Cameras
<1>2. IsFiniteSet(S)
  BY <1>1, FS_Subset DEF WholeDb
<1> HIDE DEF S
<1>3. (\E c : S = {c}) <=> OneCamera(d, h)
  <2>1. ASSUME NEW c, S = {c} PROVE OneCamera(d, h)
    <3>1. c \in DOMAIN d.lab.cameras
            /\ \A e \in DOMAIN d.lab.cameras : d.lab.cameras[e].adbId = h <=> e = c
      BY <1>1, <2>1
    <3> QED
      BY <3>1 DEF OneCamera
  <2>2. ASSUME OneCamera(d, h) PROVE \E c : S = {c}
    <3>1. PICK c \in DOMAIN d.lab.cameras :
            \A e \in DOMAIN d.lab.cameras : d.lab.cameras[e].adbId = h <=> e = c
      BY <2>2 DEF OneCamera
    <3>2. S = {c}
      BY <1>1, <3>1
    <3> QED
      BY <3>2
  <2> QED
    BY <2>1, <2>2
<1>4. Cardinality(S) = 1 <=> \E c : S = {c}
  BY <1>2, FS_Singleton
<1> QED
  BY <1>3, <1>4, SameCounting DEF S

LEMMA PageInvInit ==
  ASSUME Screen!LabPageAssumption, Screen!LabPageInit
  PROVE  PageInv
<1>1. /\ db \in FirstDbs /\ version = 0 /\ flights = {} /\ careful = TRUE /\ leftBehind = {}
      /\ left = [submits |-> MaxSubmits, upsets |-> MaxUpsets]
      /\ browsers = [p \in Page |-> [shown |-> db, of |-> 0, dialog |-> Screen!NoDialog,
                                     load |-> Screen!NoLoad, acked |-> 0]]
  BY DEF Screen!LabPageInit
<1>2. /\ MaxSubmits \in Nat /\ MaxUpsets \in Nat
      /\ Screen!DbIsWhole(db) /\ Screen!Exclusive(db)
      /\ \A h \in DOMAIN db.lab.adb : Screen!Cardinality(Screen!CamerasWith(db, h)) = 1
      /\ Screen!FirstHosts(db) \intersect 1 .. MaxSubmits = {}
      /\ None \notin 1 .. MaxSubmits
  BY <1>1 DEF Screen!LabPageAssumption
<1>3. WholeDb(db)
  BY <1>2, FirstIsWhole
<1>4. BoundsKept
  BY <1>1, <1>2 DEF BoundsKept
<1>5. PagesHonest
  <2>1. Screen!NoLoad.step = "none"
    BY DEF Screen!NoLoad
  <2> DEFINE new == [shown |-> db, of |-> 0, dialog |-> Screen!NoDialog,
               load |-> Screen!NoLoad, acked |-> 0]
  <2>2. PageHonest(new)
    BY <1>1, <1>3, <2>1 DEF PageHonest
  <2> HIDE DEF new
  <2>3. browsers = [p \in Page |-> new]
    BY <1>1 DEF new
  <2> QED
    BY <2>2, <2>3 DEF PagesHonest
<1>6. HostIds(db) \subseteq Screen!FirstHosts(db) \union {None}
  BY DEF HostIds, Screen!FirstHosts, Screen!Cameras
<1>7. IdsKnown
  <2>1. Screen!FirstHosts(db) \subseteq Screen!Hosts
    BY <1>1 DEF Screen!Hosts
  <2> QED
    BY <1>1, <1>2, <1>6, <2>1 DEF IdsKnown
<1>8. CareTaken
  BY <1>1, <1>2, <1>3, OneOf DEF CareTaken
<1> QED
  BY <1>1, <1>3, <1>4, <1>5, <1>7, <1>8 DEF PageInv

LEMMA PageInvHolds == ASSUME Screen!LabPageAssumption PROVE Screen!LabPageSpec => []PageInv
<1>1. Screen!LabPageInit => PageInv
  BY PageInvInit
<1>2. PageInv /\ [Screen!LabPageNext]_Screen!pageVars => PageInv'
  <2> SUFFICES ASSUME PageInv, [Screen!LabPageNext]_Screen!pageVars
               PROVE  PageInv'
    OBVIOUS
  <2>1. CASE UNCHANGED Screen!pageVars
    <3>1. UNCHANGED <<db, version, flights, careful, leftBehind, left, browsers>>
      BY <2>1 DEF Screen!pageVars
    <3>2. PagesHonest'
      BY <3>1 DEF PageInv, PagesHonest, PageHonest
    <3> QED
      BY <3>1, <3>2, PageOnly
  <2>2. CASE \E p \in Page :
               \/ Screen!Opens(p) \/ Screen!Cancels(p) \/ Screen!LoadReads(p) \/ Screen!LoadShows(p)
               \/ Screen!SubmitsLink(p) \/ Screen!SubmitsTvLink(p) \/ Screen!SubmitsHost(p)
               \/ Screen!Toggles(p) \/ Screen!Removes(p)
    BY <2>2, ScreenOpens, ScreenLoadReads, ScreenLoadShows, ScreenSubmitsLink, ScreenSubmitsHost,
       ScreenToggles, ScreenRemoves
  <2>3. CASE \E f \in flights :
               \/ Screen!Applies(f) \/ Screen!Refuses(f) \/ Screen!Assigns(f) \/ Screen!TakesBack(f)
               \/ Screen!Succeeds(f) \/ Screen!Fails(f)
    BY <2>3, ScreenApplies, ScreenRefuses, ScreenGoesOn, ScreenSucceeds, ScreenFails
  <2>4. CASE Screen!Imports
    BY <2>4, ScreenImports
  <2> QED
    BY <2>1, <2>2, <2>3, <2>4 DEF Screen!LabPageNext
<1> QED
  BY <1>1, <1>2, PTL DEF Screen!LabPageSpec

(* Every page, load and edit under way keeps its shape, and the hosts left *)
(* behind are hosts there were or that were given out.                     *)
THEOREM PageTypeCorrect ==
  ASSUME Screen!LabPageAssumption PROVE Screen!LabPageSpec => []Screen!LabPageTypeOK
<1>1. PageInv => Screen!LabPageTypeOK
  <2> SUFFICES ASSUME PageInv
               PROVE  Screen!LabPageTypeOK
    OBVIOUS
  <2>1. ASSUME NEW p \in Page
        PROVE  /\ browsers[p].of \in 0 .. version /\ browsers[p].acked \in 0 .. version
               /\ browsers[p].load.step \in {"none", "asked", "read"}
    BY DEF PageInv, PagesHonest, PageHonest
  <2> QED
    BY <2>1 DEF PageInv, FlightForm, IdsKnown, Screen!LabPageTypeOK
<1> QED
  BY <1>1, PageInvHolds, PTL

(* Whatever Suitest and the lab say of one another, every control unit of  *)
(* the lab that is not a PC, every TV and every camera has exactly one row *)
(* on a page, and the header counts the rows: buildHierarchy.              *)
THEOREM DevicesAlwaysHaveOneRow ==
  ASSUME Screen!LabPageAssumption PROVE Screen!LabPageSpec => []Screen!EveryDeviceHasOneRow
<1>1. PageInv => Screen!EveryDeviceHasOneRow
  <2> SUFFICES ASSUME PageInv, NEW p \in Page
               PROVE  Screen!OneRowEach(browsers[p].shown)
    BY DEF Screen!EveryDeviceHasOneRow
  <2>1. WholeDb(browsers[p].shown)
    BY DEF PageInv, PagesHonest, PageHonest
  <2> QED
    BY <2>1, WholeHasOneRowEach
<1> QED
  BY <1>1, PageInvHolds, PTL

(* As long as every edit was made on a page that showed the registry, with *)
(* nothing else under way, and no import got in between, two cameras never *)
(* have the same capture device and a host that was assigned belongs to one*)
(* camera, however its assignment went.                                    *)
THEOREM LinksAlwaysExclusive ==
  ASSUME Screen!LabPageAssumption PROVE Screen!LabPageSpec => []Screen!LinksAreExclusive
<1>1. PageInv => Screen!LinksAreExclusive
  <2> SUFFICES ASSUME PageInv, careful
               PROVE  /\ Screen!Exclusive(db)
                      /\ flights = {} =>
                           \A h \in DOMAIN db.lab.adb \ leftBehind :
                             Screen!Cardinality(Screen!CamerasWith(db, h)) = 1
    BY Zenon DEF Screen!LinksAreExclusive
  <2>1. /\ Screen!Exclusive(db) /\ WholeDb(db)
        /\ flights = {} => \A h \in DOMAIN db.lab.adb \ leftBehind : OneCamera(db, h)
    BY DEF PageInv, CareTaken
  <2> QED
    BY <2>1, OneOf
<1> QED
  BY <1>1, PageInvHolds, PTL

(* A page that has no load to wait for shows every edit it was told of.    *)
THEOREM AcceptedEditsAlwaysShown ==
  ASSUME Screen!LabPageAssumption PROVE Screen!LabPageSpec => []Screen!AcceptedEditsAreShown
<1>1. PageInv => Screen!AcceptedEditsAreShown
  <2>1. Screen!NoLoad.step = "none"
    BY DEF Screen!NoLoad
  <2> QED
    BY <2>1 DEF PageInv, PagesHonest, PageHonest, Screen!AcceptedEditsAreShown
<1> QED
  BY <1>1, PageInvHolds, PTL

-----------------------------------------------------------------------------
(* The scenes of what operators edit, and of what they are told.           *)
LEMMA RegistryScene ==
  /\ OperationsSpec => [](scene = "registry") \/ [] ~ (scene = "registry")
  /\ OperationsSpec /\ scene = "registry" => RegistrySpec
<1> DEFINE P == scene = "registry"
<1>1. SceneInit /\ P => RegistryInit
  BY DEF SceneInit
<1>2. P /\ [SceneNext]_operationsVars => P' /\ [RegistryNext]_registryVars
  BY DEF SceneNext, operationsVars, registryVars
<1>3. ~ P /\ [SceneNext]_operationsVars => ~ P'
  BY SceneStays
<1> QED
  BY <1>1, <1>2, <1>3, PTL DEF OperationsSpec, RegistrySpec

LEMMA NotifierScene ==
  /\ OperationsSpec => [](scene = "notifier") \/ [] ~ (scene = "notifier")
  /\ OperationsSpec /\ scene = "notifier" => NotifierSpec
<1> DEFINE P == scene = "notifier"
<1>1. SceneInit /\ P => NotifierInit
  BY DEF SceneInit
<1>2. P /\ [SceneNext]_operationsVars => P' /\ [NotifierNext]_notifierVars
  BY DEF SceneNext, operationsVars, notifierVars
<1>3. ~ P /\ [SceneNext]_operationsVars => ~ P'
  BY SceneStays
<1> QED
  BY <1>1, <1>2, <1>3, PTL DEF OperationsSpec, NotifierSpec

LEMMA SettingsScene ==
  /\ OperationsSpec => [](scene = "settings") \/ [] ~ (scene = "settings")
  /\ OperationsSpec /\ scene = "settings" => Conf!SettingsSpec
<1> DEFINE P == scene = "settings"
<1>1. SceneInit /\ P => Conf!SettingsInit
  BY DEF SceneInit
<1>2. P /\ [SceneNext]_operationsVars => P' /\ [Conf!SettingsNext]_Conf!settingsVars
  BY DEF SceneNext, operationsVars, confVars, Conf!settingsVars
<1>3. ~ P /\ [SceneNext]_operationsVars => ~ P'
  BY SceneStays
<1> QED
  BY <1>1, <1>2, <1>3, PTL DEF OperationsSpec, Conf!SettingsSpec

LEMMA PageScene ==
  /\ OperationsSpec => [](scene = "page") \/ [] ~ (scene = "page")
  /\ OperationsSpec /\ scene = "page" => Screen!LabPageSpec
<1> DEFINE P == scene = "page"
<1>1. SceneInit /\ P => Screen!LabPageInit
  BY DEF SceneInit
<1>2. P /\ [SceneNext]_operationsVars => P' /\ [Screen!LabPageNext]_Screen!pageVars
  BY DEF SceneNext, operationsVars, screenVars, Screen!pageVars
<1>3. ~ P /\ [SceneNext]_operationsVars => ~ P'
  BY SceneStays
<1> QED
  BY <1>1, <1>2, <1>3, PTL DEF OperationsSpec, Screen!LabPageSpec

LEMMA FormsScene ==
  /\ OperationsSpec => [](scene = "forms") \/ []FormsIdle
  /\ OperationsSpec /\ scene = "forms" => FormsSpec
<1> DEFINE P == scene = "forms"
<1>1. SceneInit => (P => FormsInit) /\ (~ P => FormsIdle)
  BY DEF SceneInit
<1>2. P /\ [SceneNext]_operationsVars => P' /\ [FormsNext]_formVars
  BY DEF SceneNext, operationsVars, formVars
<1>3. ~ P /\ FormsIdle /\ [SceneNext]_operationsVars => ~ P' /\ FormsIdle'
  <2>1. ASSUME ~ P, FormsIdle, [SceneNext]_operationsVars PROVE UNCHANGED formVars
    BY <2>1 DEF SceneNext, operationsVars
  <2>2. ASSUME ~ P, [SceneNext]_operationsVars PROVE ~ P'
    BY <2>2, SceneStays
  <2> QED
    BY <2>1, <2>2 DEF formVars, FormsIdle
<1> QED
  BY <1>1, <1>2, <1>3, PTL DEF OperationsSpec, FormsSpec

(* EveryTripIsTold in every scene: where nothing is told of, nothing is    *)
(* begun either (`onStatus` and the dispatches it starts).                 *)
THEOREM TripsAlwaysTold == OperationsSpec => []EveryTripIsTold
<1>1. SceneInit => NotifierInit
  BY DEF SceneInit, NotifierIdle, NotifierInit
<1>2. [SceneNext]_operationsVars => [NotifierNext]_notifierVars
  BY DEF SceneNext, operationsVars
<1> QED
  BY <1>1, <1>2, EveryTripToldAlways, PTL DEF OperationsSpec, NotifierSpec

(* FormsSayWhatTheyMean in every scene: the form of an operator who edits  *)
(* one shows what its codec accepts and reads back, whichever form and for *)
(* as long as it is edited, and in the other scenes no form is open.       *)
THEOREM OperationsFormsSayWhatTheyMean == OperationsSpec => []FormsSayWhatTheyMean
<1>1. FormsAssumption
  BY OperationsAssumption
<1>2. FormsIdle => FormsInv
  BY FormsApart DEF FormsIdle, FormsInv, TreeIsShown, CommandIsShown, RuleIsShown, PolicyIsShown,
     ScheduleIsShown, ActivationIsShown, WizardIsShown
<1>3. FormsInv => FormsSayWhatTheyMean
  BY <1>1, ShownMeansWhatItSays
<1> QED
  BY <1>1, <1>2, <1>3, FormsScene, FormsAlwaysSayWhatTheyMean, PTL

(* TypesOK, for every instance that meets what the modules ask of their    *)
(* constants: the types of whatever scene a behaviour picked.              *)
THEOREM OperationsTypeCorrect == OperationsSpec => []TypesOK
<1>1. OperationsSpec => [](scene = "registry" => RegistryTypeOK)
  BY RegistryScene, RegistryTypeCorrect, OperationsAssumption, PTL
<1>2. OperationsSpec => [](scene = "notifier" => NotifierTypeOK)
  BY NotifierScene, NotifierTypeCorrect, PTL
<1>3. OperationsSpec => [](scene = "workflow" => Job!WorkflowTypeOK)
  BY WorkflowScene, WorkflowTypeCorrect, OperationsAssumption, PTL
<1>4. OperationsSpec => [](scene = "connection" => Link!ConnectionTypeOK)
  BY ConnectionScene, ConnectionTypeCorrect, OperationsAssumption, PTL
<1>5. OperationsSpec => [](scene = "settings" => Conf!SettingsTypeOK)
  BY SettingsScene, SettingsTypeCorrect, OperationsAssumption, PTL
<1>6. OperationsSpec => [](scene = "page" => Screen!LabPageTypeOK)
  BY PageScene, PageTypeCorrect, OperationsAssumption, PTL
<1>7. /\ scene = "registry"   => RegistryTypeOK
      /\ scene = "notifier"   => NotifierTypeOK
      /\ scene = "workflow"   => Job!WorkflowTypeOK
      /\ scene = "connection" => Link!ConnectionTypeOK
      /\ scene = "settings"   => Conf!SettingsTypeOK
      /\ scene = "page"       => Screen!LabPageTypeOK
      => TypesOK
  BY DEF TypesOK
<1> QED
  BY <1>1, <1>2, <1>3, <1>4, <1>5, <1>6, <1>7, PTL

(* EditsLast: of the file of the registry, of the settings and of the page,*)
(* however many operators edit them and whatever fails in between (the     *)
(* `modify` of the two files, `assignAdbHost`, the mutations of the page). *)
THEOREM EditsAlwaysLastEverywhere == OperationsSpec => []EditsLast
<1>1. OperationsSpec =>
        [](scene = "registry" => AcknowledgedEditsLast /\ ImportsKeepLocalFields /\ NoHostWithoutCamera)
  BY RegistryScene, EditsAlwaysLast, ImportsAlwaysKeep, HostsAlwaysHaveCameras, OperationsAssumption, PTL
<1>2. OperationsSpec => [](scene = "settings" => Conf!SavedSettingsAreOnFile)
  BY SettingsScene, SavedSettingsAlwaysOnFile, OperationsAssumption, PTL
<1>3. OperationsSpec =>
        [](scene = "page" =>
             Screen!EveryDeviceHasOneRow /\ Screen!LinksAreExclusive /\ Screen!AcceptedEditsAreShown)
  BY PageScene, DevicesAlwaysHaveOneRow, LinksAlwaysExclusive, AcceptedEditsAlwaysShown,
     OperationsAssumption, PTL
<1>4. /\ scene = "registry" => AcknowledgedEditsLast /\ ImportsKeepLocalFields /\ NoHostWithoutCamera
      /\ scene = "settings" => Conf!SavedSettingsAreOnFile
      /\ scene = "page" =>
           Screen!EveryDeviceHasOneRow /\ Screen!LinksAreExclusive /\ Screen!AcceptedEditsAreShown
      => EditsLast
  BY DEF EditsLast
<1> QED
  BY <1>1, <1>2, <1>3, <1>4, PTL

=============================================================================
