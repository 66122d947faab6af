------------------------------ MODULE LabPage ------------------------------
(***************************************************************************)
(* The registry page of the web application: the tree of control units,    *)
(* TVs and cameras it joins from the two halves of the registry, and the   *)
(* edits operators make from what a page shows.  A page has the registry   *)
(* as it was loaded last; an edit goes to the service with what the page   *)
(* had, nothing keeps a button from being pressed again meanwhile, and the *)
(* page is loaded anew when the edit has been accepted.  The file beneath  *)
(* has a model of its own (Registry); here an edit reaches it in one step. *)
(* The order of the rows is left out, and so are the banner of an edit     *)
(* that failed and the dialogs for a name and for the address of a host.   *)
(***************************************************************************)
EXTENDS LabRegistry, Naturals, Sequences, FiniteSets

CONSTANTS
  Page,          \* the open pages
  FirstDbs,      \* registries to begin with
  SuitestLists,  \* what Suitest may answer to an import
  MaxSubmits,    \* bound: edits submitted
  MaxUpsets      \* bound: imports and refusals of the service

VARIABLES
  db,            \* the registry of the service
  version,       \* history: how many times it was changed
  pages,         \* what each page has
  flights,       \* the edits under way
  careful,       \* history: every edit came from a page that showed the registry
  leftBehind,    \* history: hosts whose camera was removed, or that could not be removed
  left           \* how much of each bound is left

pageVars == <<db, version, pages, flights, careful, leftBehind, left>>

-----------------------------------------------------------------------------
(* The tree.                                                               *)

Cameras(d) == d.lab.cameras
Tvs(d) == DOMAIN d.lab.tvs

(* enrich: the control units that are PCs running Suitest Drive are left   *)
(* out.                                                                    *)
Units(d) ==
  {u \in DOMAIN d.lab.candyboxes :
     ~ (u \in DOMAIN d.suitest.controlUnits /\ d.suitest.controlUnits[u].type = "drive")}

(* The TV a camera films: the one its capture device is assigned to, if    *)
(* the lab has it.                                                         *)
TvOf(d, c) ==
  LET capture == Cameras(d)[c].capture IN
    IF capture \in DOMAIN d.suitest.captures /\ d.suitest.captures[capture].assigned \in Tvs(d)
      THEN d.suitest.captures[capture].assigned ELSE None

(* Defect: the first of the TV's control units, shown or not.              *)
Defect_UnitOf(d, tv) ==
  IF tv \in DOMAIN d.suitest.devices /\ d.suitest.devices[tv].units # <<>>
    THEN Head(d.suitest.devices[tv].units) ELSE None

(* The control unit of a TV: the first of its own that the page shows.     *)
UnitOf(d, tv) ==
  LET units == IF tv \in DOMAIN d.suitest.devices THEN d.suitest.devices[tv].units ELSE <<>>
      shown == {i \in DOMAIN units : units[i] \in Units(d)}
  IN  IF shown = {} THEN None ELSE units[CHOOSE i \in shown : \A j \in shown : i <= j]

(* The tree: each control unit with its TVs, the TVs of none, the cameras  *)
(* of each TV and the cameras of none.                                     *)
BuildHierarchy(d) ==
  [cuGroups       |-> [u \in Units(d) |-> {tv \in Tvs(d) : UnitOf(d, tv) = u}],
   unallocatedTvs |-> {tv \in Tvs(d) : UnitOf(d, tv) = None},
   camerasOf      |-> [tv \in Tvs(d) |-> {c \in DOMAIN Cameras(d) : TvOf(d, c) = tv}],
   orphanCameras  |-> {c \in DOMAIN Cameras(d) : TvOf(d, c) = None}]

(* The numbers in the header.                                              *)
ControlledOf(table, ids) == {id \in ids : table[id].controlled}
Counts(d) ==
  [total |-> Cardinality(Units(d)) + Cardinality(Tvs(d)) + Cardinality(DOMAIN Cameras(d)),
   controlled |-> Cardinality(ControlledOf(d.lab.candyboxes, Units(d)))
                    + Cardinality(ControlledOf(Cameras(d), DOMAIN Cameras(d)))
                    + Cardinality(ControlledOf(d.lab.tvs, Tvs(d)))]

-----------------------------------------------------------------------------
(* What may be linked.                                                     *)

(* Defect: what other cameras have is offered as well.                     *)
Defect_Candidates(d, current) == DOMAIN d.suitest.captures

(* The capture devices no other camera has.                                *)
CameraSuitestCandidates(d, current) ==
  {v \in DOMAIN d.suitest.captures :
     \A c \in DOMAIN Cameras(d) : Cameras(d)[c].capture = v => v = current}

(* The one Suitest assigned to a TV, if no camera has it.                  *)
CapturesForTv(d, tv) ==
  {v \in CameraSuitestCandidates(d, None) : d.suitest.captures[v].assigned = tv}

-----------------------------------------------------------------------------
(* Pages.                                                                  *)

NoDialog == [kind |-> "closed", target |-> None]
NoLoad == [step |-> "none", db |-> None, of |-> 0]

LabPageInit ==
  /\ db \in FirstDbs /\ version = 0
  /\ pages = [p \in Page |-> [shown |-> db, of |-> 0, dialog |-> NoDialog,
                              load |-> NoLoad, acked |-> 0]]
  /\ flights = {} /\ careful = TRUE /\ leftBehind = {}
  /\ left = [submits |-> MaxSubmits, upsets |-> MaxUpsets]

Takes(what) == left[what] > 0 /\ left' = [left EXCEPT ![what] = @ - 1]

(* What the rows of a page offer: an ADB host to a camera without one, a   *)
(* link to one without a capture device, a camera to a TV without one.     *)
Offers(d, dialog) ==
  \/ /\ dialog.kind = "createAdb" /\ dialog.target \in DOMAIN Cameras(d)
     /\ Cameras(d)[dialog.target].adbId = None
  \/ /\ dialog.kind = "linkSuitest" /\ dialog.target \in DOMAIN Cameras(d)
     /\ Cameras(d)[dialog.target].capture = None
  \/ /\ dialog.kind = "linkTvCamera" /\ dialog.target \in Tvs(d)
     /\ BuildHierarchy(d).camerasOf[dialog.target] = {}

Targets(d) == DOMAIN Cameras(d) \union Tvs(d)
Dialogs(d) == [kind : {"createAdb", "linkSuitest", "linkTvCamera"}, target : Targets(d)]

(* A dialog keeps the target it was opened for, whatever the page loads.   *)
(* Bound: none is opened once no edit is left.                             *)
Opens(p) ==
  /\ pages[p].dialog = NoDialog /\ left.submits > 0
  /\ \E dialog \in {o \in Dialogs(pages[p].shown) : Offers(pages[p].shown, o)} :
       pages' = [pages EXCEPT ![p].dialog = dialog]
  /\ UNCHANGED <<db, version, flights, careful, leftBehind, left>>

Cancels(p) ==
  /\ pages[p].dialog # NoDialog
  /\ pages' = [pages EXCEPT ![p].dialog = NoDialog]
  /\ UNCHANGED <<db, version, flights, careful, leftBehind, left>>

(* The page shows the registry, its dialog is still one it offers, and     *)
(* nobody's edit is under way.                                             *)
LooksBeforeItLeaps(p) ==
  /\ pages[p].of = version /\ flights = {}
  /\ pages[p].dialog = NoDialog \/ Offers(pages[p].shown, pages[p].dialog)

(* An edit is sent with what the page has.  Its dialog stays open.         *)
Sends(p, kind, edit, camera) ==
  /\ Takes("submits")
  /\ flights' = flights \union
       {[n |-> left.submits, page |-> p, kind |-> kind, edit |-> edit,
         camera |-> camera, step |-> "sent"]}
  /\ careful' = (careful /\ LooksBeforeItLeaps(p))
  /\ UNCHANGED <<db, version, pages, leftBehind>>

Link(c, capture) == Edit("cameras", "update", c, [capture |-> capture])

SubmitsLink(p) ==
  /\ pages[p].dialog.kind = "linkSuitest"
  /\ \E v \in CameraSuitestCandidates(pages[p].shown, None) :
       Sends(p, "linkSuitest", Link(pages[p].dialog.target, v), pages[p].dialog.target)

SubmitsTvLink(p) ==
  /\ pages[p].dialog.kind = "linkTvCamera"
  /\ \E c \in BuildHierarchy(pages[p].shown).orphanCameras :
       \E v \in CapturesForTv(pages[p].shown, pages[p].dialog.target) :
         Sends(p, "linkTvCamera", Link(c, v), c)

(* A host is added under an identifier nobody has, before it is assigned.  *)
SubmitsHost(p) ==
  /\ pages[p].dialog.kind = "createAdb"
  /\ Sends(p, "createAdb",
           Edit("adb", "add", left.submits, [target |-> "ip"]), pages[p].dialog.target)

(* The switch and the bin of a row, behind which no dialog is open.        *)
Toggles(p) ==
  /\ pages[p].dialog = NoDialog
  /\ \E c \in DOMAIN Cameras(pages[p].shown) :
       LET controlled == Cameras(pages[p].shown)[c].controlled IN
         Sends(p, "toggle", Edit("cameras", "update", c, [controlled |-> ~ controlled]), c)

Removes(p) ==
  /\ pages[p].dialog = NoDialog
  /\ \E c \in DOMAIN Cameras(pages[p].shown) :
       Sends(p, "remove", Edit("cameras", "remove", c, None), c)

-----------------------------------------------------------------------------
(* The service makes the edit; an update of what is gone changes nothing   *)
(* and is accepted.                                                        *)
HostOf(c) == IF c \in DOMAIN Cameras(db) THEN {Cameras(db)[c].adbId} \ {None} ELSE {}

Applies(f) ==
  /\ f.step = "sent"
  /\ db' = [db EXCEPT !.lab = Applied(@, f.edit)] /\ version' = version + 1
  /\ flights' = (flights \ {f}) \union {[f EXCEPT !.step = "accepted"]}
  /\ leftBehind' = IF f.edit.table = "cameras" /\ f.edit.do = "remove"
                     THEN leftBehind \union HostOf(f.edit.id) ELSE leftBehind
  /\ UNCHANGED <<pages, careful, left>>

Refuses(f) ==
  /\ f.step = "sent" /\ Takes("upsets")
  /\ flights' = (flights \ {f}) \union {[f EXCEPT !.step = "refused"]}
  /\ leftBehind' = IF f.edit.table = "adb" /\ f.edit.do = "remove"
                     THEN leftBehind \union {f.edit.id} ELSE leftBehind
  /\ UNCHANGED <<db, version, pages, careful>>

(* The answers of an assignment lead to its next call.                     *)
GoesOn(f, edit) ==
  /\ flights' = (flights \ {f}) \union {[f EXCEPT !.edit = edit, !.step = "sent"]}
  /\ UNCHANGED <<db, version, pages, careful, leftBehind, left>>

Assigns(f) ==
  /\ f.kind = "createAdb" /\ f.step = "accepted" /\ f.edit.do = "add"
  /\ GoesOn(f, Edit("cameras", "update", f.camera, [adbId |-> f.edit.id]))

TakesBack(f) ==
  /\ f.kind = "createAdb" /\ f.step = "refused" /\ f.edit.do = "update"
  /\ GoesOn(f, Edit("adb", "remove", f.edit.fields.adbId, None))

(* Defect: the page is not loaded anew.                                    *)
Defect_Succeeds(f) ==
  /\ f.step = "accepted" /\ (f.kind = "createAdb" => f.edit.do = "update")
  /\ flights' = flights \ {f}
  /\ pages' = [pages EXCEPT
       ![f.page].dialog = IF @.kind = f.kind THEN NoDialog ELSE @,
       ![f.page].acked = version]
  /\ UNCHANGED <<db, version, careful, leftBehind, left>>

(* An edit that was accepted closes the dialog of its kind, which may be   *)
(* another than its own by now, and loads the page.                        *)
Succeeds(f) ==
  /\ f.step = "accepted" /\ (f.kind = "createAdb" => f.edit.do = "update")
  /\ flights' = flights \ {f}
  /\ pages' = [pages EXCEPT
       ![f.page].dialog = IF @.kind = f.kind THEN NoDialog ELSE @,
       ![f.page].acked = version,
       ![f.page].load = [NoLoad EXCEPT !.step = "asked"]]
  /\ UNCHANGED <<db, version, careful, leftBehind, left>>

(* One that was refused, or a host that was taken back, leaves its dialog  *)
(* open.                                                                   *)
Fails(f) ==
  /\ \/ f.step = "refused" /\ ~ (f.kind = "createAdb" /\ f.edit.do = "update")
     \/ f.kind = "createAdb" /\ f.step = "accepted" /\ f.edit.do = "remove"
  /\ flights' = flights \ {f}
  /\ UNCHANGED <<db, version, pages, careful, leftBehind, left>>

(* Loading a page takes time; a load that is asked for again starts over.  *)
LoadReads(p) ==
  /\ pages[p].load.step = "asked"
  /\ pages' = [pages EXCEPT ![p].load = [step |-> "read", db |-> db, of |-> version]]
  /\ UNCHANGED <<db, version, flights, careful, leftBehind, left>>

LoadShows(p) ==
  /\ pages[p].load.step = "read"
  /\ pages' = [pages EXCEPT
       ![p].shown = pages[p].load.db, ![p].of = pages[p].load.of, ![p].load = NoLoad]
  /\ UNCHANGED <<db, version, flights, careful, leftBehind, left>>

(* An import.  A camera it brings back may claim a capture device that     *)
(* another has by now, or is about to get.                                 *)
Claimed(d, v) == \E c \in DOMAIN Cameras(d) : Cameras(d)[c].capture = v

Imports ==
  /\ Takes("upsets")
  /\ \E lists \in SuitestLists :
       /\ db' = SyncedFrom(db, lists)
       /\ careful' = (careful /\ flights = {} /\
                      \A v \in DOMAIN lists.captures \ DOMAIN Cameras(db) : ~ Claimed(db, v))
  /\ version' = version + 1
  /\ UNCHANGED <<pages, flights, leftBehind>>

LabPageNext ==
  \/ \E p \in Page :
       \/ Opens(p) \/ Cancels(p) \/ LoadReads(p) \/ LoadShows(p)
       \/ SubmitsLink(p) \/ SubmitsTvLink(p) \/ SubmitsHost(p) \/ Toggles(p) \/ Removes(p)
  \/ \E f \in flights :
       \/ Applies(f) \/ Refuses(f) \/ Assigns(f) \/ TakesBack(f)
       \/ Succeeds(f) \/ Fails(f)
  \/ Imports

LabPageSpec == LabPageInit /\ [][LabPageNext]_pageVars

-----------------------------------------------------------------------------
(* The registries to begin with are whole: finite tables in which no id is *)
(* that of nothing, links that are exclusive, hosts with one camera each,  *)
(* and identifiers an edit of a page does not give to a host of its own.   *)
IsTable(table) == table = [id \in DOMAIN table |-> table[id]] /\ IsFiniteSet(DOMAIN table)
FirstHosts(d) ==
  DOMAIN d.lab.adb \union ({Cameras(d)[c].adbId : c \in DOMAIN Cameras(d)} \ {None})
CamerasWith(d, h) == {c \in DOMAIN Cameras(d) : Cameras(d)[c].adbId = h}
Exclusive(d) ==
  \A c, e \in DOMAIN Cameras(d) :
    Cameras(d)[c].capture = Cameras(d)[e].capture /\ Cameras(d)[c].capture # None => c = e

ListsAreWhole(lists) ==
  /\ IsFiniteSet(DOMAIN lists.controlUnits) /\ None \notin DOMAIN lists.controlUnits
  /\ IsFiniteSet(DOMAIN lists.devices) /\ None \notin DOMAIN lists.devices
  /\ IsFiniteSet(DOMAIN lists.captures)
  /\ \A tv \in DOMAIN lists.devices :
       LET units == lists.devices[tv].units IN units \in Seq({units[i] : i \in DOMAIN units})

DbIsWhole(d) ==
  /\ ListsAreWhole(d.suitest)
  /\ d = [suitest |-> d.suitest, lab |-> d.lab] /\ DOMAIN d.lab = DOMAIN Empty
  /\ d.lab = [table \in DOMAIN Empty |-> d.lab[table]]
  /\ \A table \in DOMAIN Empty : IsTable(d.lab[table])
  /\ None \notin DOMAIN d.lab.candyboxes \union DOMAIN d.lab.tvs \union DOMAIN d.lab.adb
  /\ \A c \in DOMAIN Cameras(d) :
       /\ Cameras(d)[c] = [field \in DOMAIN Cameras(d)[c] |-> Cameras(d)[c][field]]
       /\ {"controlled", "capture", "adbId"} \subseteq DOMAIN Cameras(d)[c]

LabPageAssumption ==
  /\ MaxSubmits \in Nat /\ MaxUpsets \in Nat /\ None \notin 1 .. MaxSubmits
  /\ \A lists \in SuitestLists : ListsAreWhole(lists)
  /\ \A d \in FirstDbs :
       /\ DbIsWhole(d) /\ Exclusive(d)
       /\ \A h \in DOMAIN d.lab.adb : Cardinality(CamerasWith(d, h)) = 1
       /\ FirstHosts(d) \intersect 1 .. MaxSubmits = {}

Hosts == 1 .. MaxSubmits \union UNION {FirstHosts(d) : d \in FirstDbs}

LabPageTypeOK ==
  /\ \A p \in Page :
       /\ pages[p].of \in 0 .. version /\ pages[p].acked \in 0 .. version
       /\ pages[p].load.step \in {"none", "asked", "read"}
  /\ \A f \in flights : f.page \in Page /\ f.step \in {"sent", "accepted", "refused"}
  /\ leftBehind \subseteq Hosts /\ careful \in BOOLEAN

(* The rows of the TVs and of the cameras, each with the row it is under.  *)
TvRows(d) ==
  LET h == BuildHierarchy(d) IN
    {row \in (DOMAIN h.cuGroups) \X Tvs(d) : row[2] \in h.cuGroups[row[1]]}
      \union {<<None, tv>> : tv \in h.unallocatedTvs}
CameraRows(d) ==
  LET h == BuildHierarchy(d) IN
    {row \in TvRows(d) \X (DOMAIN Cameras(d)) : row[2] \in h.camerasOf[row[1][2]]}
      \union {<<None, c>> : c \in h.orphanCameras}

(* Whatever Suitest and the lab say of one another, every control unit of  *)
(* the lab that is not a PC, every TV and every camera has exactly one row *)
(* on a page, and the header counts the rows.                              *)
OneRowEach(d) ==
  /\ \A tv \in Tvs(d) : Cardinality({row \in TvRows(d) : row[2] = tv}) = 1
  /\ \A c \in DOMAIN Cameras(d) : Cardinality({row \in CameraRows(d) : row[2] = c}) = 1
  /\ Counts(d).total =
       Cardinality(DOMAIN BuildHierarchy(d).cuGroups) + Cardinality(TvRows(d)) + Cardinality(CameraRows(d))

EveryDeviceHasOneRow == \A p \in Page : OneRowEach(pages[p].shown)

(* As long as every edit was made on a page that showed the registry, with *)
(* nothing else under way, and no import went past an edit or brought a    *)
(* camera back whose capture device another has by then: no two cameras    *)
(* have the same capture device, and once nothing is under way every host  *)
(* belongs to exactly one camera, except for those of cameras that were    *)
(* removed and one whose removal was refused after its assignment.         *)
LinksAreExclusive ==
  careful =>
    /\ Exclusive(db)
    /\ flights = {} =>
         \A h \in DOMAIN db.lab.adb \ leftBehind : Cardinality(CamerasWith(db, h)) = 1

(* Once a page has no load to wait for, it shows the edits it was told     *)
(* were accepted.                                                          *)
AcceptedEditsAreShown ==
  \A p \in Page : pages[p].load = NoLoad => pages[p].of >= pages[p].acked

=============================================================================
