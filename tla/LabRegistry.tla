---------------------------- MODULE LabRegistry ----------------------------
(***************************************************************************)
(* The values of the registry's file and the pure functions that change    *)
(* them.  The "lab" half is the operators': candyboxes, cameras, TVs and   *)
(* ADB hosts, each table a function of ids.  The "suitest" half mirrors    *)
(* the lists of the Suitest service.  Labels and addresses are members of  *)
(* small sets; an absent optional field is None.                           *)
(***************************************************************************)
CONSTANT None

(* Helpers on tables and entries, which are functions alike: what is given *)
(* wins over what is there, and only an entry that exists is updated.      *)
Over(given, there) ==
  [x \in DOMAIN given \union DOMAIN there |-> IF x \in DOMAIN given THEN given[x] ELSE there[x]]
Put(table, id, entry) == [x \in DOMAIN table \union {id} |-> IF x = id THEN entry ELSE table[x]]
Without(table, id) == [x \in DOMAIN table \ {id} |-> table[x]]
Updated(table, id, fields) ==
  IF id \in DOMAIN table THEN [table EXCEPT ![id] = Over(fields, @)] ELSE table
EmptyTable == [x \in {} |-> None]

Empty == [candyboxes |-> EmptyTable, cameras |-> EmptyTable, tvs |-> EmptyTable, adb |-> EmptyTable]
EmptySuitest == [devices |-> EmptyTable, controlUnits |-> EmptyTable, captures |-> EmptyTable]

-----------------------------------------------------------------------------
(* An edit: the table, what is done to it, the id and the fields.          *)
Edit(table, do, id, fields) == [table |-> table, do |-> do, id |-> id, fields |-> fields]

EditCandyboxes(lab, e) ==
  CASE e.do = "add"    -> [lab EXCEPT !.candyboxes = Put(@, e.id, e.fields)]
    [] e.do = "remove" -> [lab EXCEPT !.candyboxes = Without(@, e.id)]
    [] e.do = "update" -> [lab EXCEPT !.candyboxes = Updated(@, e.id, e.fields)]

EditCameras(lab, e) ==
  CASE e.do = "add"    -> [lab EXCEPT !.cameras = Put(@, e.id, e.fields)]
    [] e.do = "remove" -> [lab EXCEPT !.cameras = Without(@, e.id)]
    [] e.do = "update" -> [lab EXCEPT !.cameras = Updated(@, e.id, e.fields)]

EditTvs(lab, e) ==
  CASE e.do = "add"    -> [lab EXCEPT !.tvs = Put(@, e.id, e.fields)]
    [] e.do = "remove" -> [lab EXCEPT !.tvs = Without(@, e.id)]
    [] e.do = "update" -> [lab EXCEPT !.tvs = Updated(@, e.id, e.fields)]

EditAdb(lab, e) ==
  CASE e.do = "add"    -> [lab EXCEPT !.adb = Put(@, e.id, e.fields)]
    [] e.do = "remove" -> [lab EXCEPT !.adb = Without(@, e.id)]
    [] e.do = "update" -> [lab EXCEPT !.adb = Updated(@, e.id, e.fields)]

(* What the routes of the registry do to the lab.                          *)
Applied(lab, e) ==
  CASE e.table = "candyboxes" -> EditCandyboxes(lab, e)
    [] e.table = "cameras"    -> EditCameras(lab, e)
    [] e.table = "tvs"        -> EditTvs(lab, e)
    [] e.table = "adb"        -> EditAdb(lab, e)

-----------------------------------------------------------------------------
(* The import of Suitest's lists.  What the lab knows already is kept as it*)
(* is; what is new is not controlled.  Nothing is ever removed.            *)

WithCandyboxes(lab, units) ==
  [lab EXCEPT !.candyboxes =
     Over(@, [id \in DOMAIN units |-> [label |-> units[id].name, controlled |-> FALSE]])]

WithTvs(lab, devices) ==
  [lab EXCEPT !.tvs =
     Over(@, [id \in DOMAIN devices |->
                [label |-> IF devices[id].customName # None THEN devices[id].customName ELSE devices[id].model,
                 controlled |-> FALSE, ip |-> devices[id].ip]])]

(* Defect: the entries of Suitest win over those of the lab.               *)
Defect_ImportWins(lab, captures) ==
  [lab EXCEPT !.cameras =
     Over([id \in DOMAIN captures |->
             [label |-> captures[id].name, controlled |-> FALSE, capture |-> id, adbId |-> None]], @)]

WithCameras(lab, captures) ==
  [lab EXCEPT !.cameras =
     Over(@, [id \in DOMAIN captures |->
                [label |-> IF captures[id].customName # None THEN captures[id].customName ELSE captures[id].name,
                 controlled |-> FALSE, capture |-> id, adbId |-> None]])]

(* The mirror is replaced as a whole.                                      *)
ReplaceFromSuitest(lists) == lists

SyncedFrom(db, lists) ==
  [suitest |-> ReplaceFromSuitest(lists),
   lab |-> WithCameras(WithTvs(WithCandyboxes(db.lab, lists.controlUnits), lists.devices), lists.captures)]

(* The database written when there is none that can be read: the devices of*)
(* the configuration, all of them controlled.                              *)
Controlled(items) == [id \in DOMAIN items |-> Over([controlled |-> TRUE], items[id])]

Seeded(seed) ==
  [suitest |-> EmptySuitest,
   lab |-> [candyboxes |-> Controlled(seed.candyboxes), cameras |-> Controlled(seed.cameras),
            tvs |-> Controlled(seed.tvs), adb |-> seed.adb]]

=============================================================================
