------------------------------ MODULE Settings ------------------------------
(***************************************************************************)
(* The configuration: the file on disk, the copy the service keeps in      *)
(* memory and serves, and the Settings pages that edit both.  Three cards  *)
(* (schedule, workflows, recovery) replace a section of the copy in memory *)
(* and nothing else; the infrastructure card patches the file and then     *)
(* takes the whole file as the new copy.                                   *)
(*                                                                         *)
(* A section's value is opaque, except the lists a card edits entry by     *)
(* entry: sequences of records with the name the card finds an entry by.   *)
(* The infrastructure is a set of fields, the leaves the file is edited by:*)
(* some are optional, and a file or a draft may lack them.                 *)
(***************************************************************************)
EXTENDS Sequences, Naturals

CONSTANTS
  Operator,     \* open Settings pages
  Listed,       \* sections kept in memory that are lists of named entries
  Infra,        \* fields of the infrastructure card
  Optional,     \* those a configuration may lack (`log.path`, `log.network`)
  Absent,       \* what it has then
  Value,        \* what a field can be set to
  Bad,          \* what the form lets an operator enter and the codec refuses
  FirstFile,    \* the file the service starts from
  MaxMoves,     \* bound: what the operators do
  MaxRestarts,  \* bound: restarts of the service
  MaxFailures   \* bound: calls the network or the disk makes fail

VARIABLES
  file,         \* the configuration on disk, as its codec reads it
  memory,       \* `currentConfig` of the running service
  pages,        \* per operator, what the page shows and its cards
  overlapped,   \* two saves of the file have been in flight at once
  budget        \* what the bounds leave

settingsVars == <<file, memory, pages, overlapped, budget>>

(* An entry of a list: its name, which may be the length of the list it was*)
(* added to, and the rest.                                                 *)
EntryShape == [label : Nat, body : {0, 1}]

Card == Listed \union {"infra"}
Section == Listed \union Infra
Sections(card) == IF card = "infra" THEN Infra ELSE {card}
Part(config, card) == [s \in Sections(card) |-> config[s]]

\* What the codec takes for a field.
Settable(s) == IF s \in Optional THEN Value \union {Absent} ELSE Value

(* The file decodes to begin with, the cards have their own sections, and  *)
(* the codec refuses what it should.                                       *)
SettingsAssumption ==
  /\ Listed \intersect Infra = {} /\ "infra" \notin Section /\ Bad \notin Value
  /\ Absent \notin Value \union {Bad}
  /\ FirstFile = [s \in Section |-> FirstFile[s]]
  /\ \A s \in Infra : FirstFile[s] \in Settable(s)
  /\ \A s \in Listed : FirstFile[s] \in Seq(EntryShape)

Closed == [editing |-> FALSE, saving |-> FALSE, failed |-> FALSE, draft |-> <<>>,
           at |-> "idle", patch |-> <<>>, found |-> <<>>, text |-> <<>>]
PageOf(config) == [config |-> config, card |-> [c \in Card |-> Closed]]

SettingsInit ==
  /\ file = FirstFile /\ memory = FirstFile
  /\ pages = [o \in Operator |-> PageOf(FirstFile)]
  /\ overlapped = FALSE
  /\ budget = [moves |-> MaxMoves, restarts |-> MaxRestarts, failures |-> MaxFailures]

Spends(kind) == budget[kind] > 0 /\ budget' = [budget EXCEPT ![kind] = @ - 1]
CardBecomes(o, c, change) ==
  pages' = [pages EXCEPT ![o].card[c] = [f \in DOMAIN @ |->
              IF f \in DOMAIN change THEN change[f] ELSE @[f]]]

-----------------------------------------------------------------------------
(* The page. *)

\* Loading the page asks for the copy in memory and opens every card anew.  (A
\* page left with a save on is one whose answer is lost.)
Opens(o) ==
  /\ \A c \in Card : pages[o].card[c].at = "idle"
  /\ Spends("moves")
  /\ pages' = [pages EXCEPT ![o] = PageOf(memory)]
  /\ UNCHANGED <<file, memory, overlapped>>

OnPage == Spends("moves") /\ UNCHANGED <<file, memory, overlapped>>

StartEdit(o, c) ==
  /\ ~pages[o].card[c].editing
  /\ CardBecomes(o, c, [editing |-> TRUE, draft |-> Part(pages[o].config, c)])
  /\ OnPage

Cancel(o, c) ==
  /\ pages[o].card[c].editing /\ ~pages[o].card[c].saving
  /\ CardBecomes(o, c, [editing |-> FALSE])
  /\ OnPage

\* A new entry is named after the length of the list.
Created(list) == Append(list, [label |-> Len(list) + 1, body |-> 0])
\* An edited entry replaces every entry that has its name.  The name can be
\* edited too: a new one is not taken, or overwrites the entry that has it.
Updated(list, next) ==
  [i \in DOMAIN list |-> IF list[i].label = next.label THEN next ELSE list[i]]

\* What one control of a list makes of it.
EditsOf(list) ==
  {Created(list)} \union
  {Updated(list, [list[i] EXCEPT !.body = 1]) : i \in DOMAIN list} \union
  UNION {{Updated(list, [list[i] EXCEPT !.label = l]) : i \in DOMAIN list} : l \in 1..2}

EditList(o, c) ==
  /\ pages[o].card[c].editing
  /\ \E next \in EditsOf(pages[o].card[c].draft[c]) :
       /\ Len(next) <= 2 /\ next # pages[o].card[c].draft[c]
       /\ CardBecomes(o, c, [draft |-> [s \in {c} |-> next]])
  /\ OnPage

\* Every control sets its field: none takes an optional one away.  The optional
\* ones are a text and a switch, which cannot be wrong.
EditField(o) ==
  /\ pages[o].card["infra"].editing
  /\ \E s \in Infra : \E v \in IF s \in Optional THEN Value ELSE Value \union {Bad} :
       /\ v # pages[o].card["infra"].draft[s]
       /\ CardBecomes(o, "infra", [draft |-> [pages[o].card["infra"].draft EXCEPT ![s] = v]])
  /\ OnPage

Saving == {oc \in Operator \X Card : pages[oc[1]].card[oc[2]].at \in {"sent", "read", "written"}}

\* The buttons are disabled while a save is on, the fields are not.
Save(o, c) ==
  LET card == pages[o].card[c] IN
  /\ card.editing /\ ~card.saving
  /\ CardBecomes(o, c, [saving |-> TRUE, failed |-> FALSE, at |-> "sent", patch |-> card.draft])
  /\ overlapped' = (overlapped \/ (c = "infra" /\ \E p \in Operator : <<p, "infra">> \in Saving))
  /\ Spends("moves")
  /\ UNCHANGED <<file, memory>>

-----------------------------------------------------------------------------
(* The service. *)

Applied(patch, config) == [s \in Section |-> IF s \in DOMAIN patch THEN patch[s] ELSE config[s]]

\* updateActivationSchedule, updateWorkflows, updateRecovery
UpdateInMemory(o, c) ==
  LET card == pages[o].card[c] IN
  /\ c # "infra" /\ card.at = "sent"
  /\ memory' = Applied(card.patch, memory)
  /\ CardBecomes(o, c, [at |-> "answer", found |-> memory'])
  /\ UNCHANGED <<file, overlapped, budget>>

\* Defect: a patch with something right in it is taken.
Defect_TakesAnything(patch) == \A s \in DOMAIN patch : patch[s] = Bad

IsRefused(patch) == \E s \in DOMAIN patch : patch[s] = Bad

\* An input its codec refuses makes the call throw.
Refuses(o) ==
  LET card == pages[o].card["infra"] IN
  /\ card.at = "sent" /\ IsRefused(card.patch)
  /\ CardBecomes(o, "infra", [at |-> "rejected"])
  /\ UNCHANGED <<file, memory, overlapped, budget>>

\* diffLeaves walks the fields of the new configuration: one that it lacks is not
\* edited, and stays in the text as it was.
Edited(text, next) == [s \in Section |-> IF next[s] = Absent THEN text[s] ELSE next[s]]

Defect_RemembersFirst(o) ==
  LET card == pages[o].card["infra"]
      next == Applied(card.patch, file) IN
  /\ card.at = "sent" /\ ~IsRefused(card.patch)
  /\ memory' = next
  /\ CardBecomes(o, "infra", [at |-> "read", found |-> next, text |-> Edited(file, next)])
  /\ UNCHANGED <<file, overlapped, budget>>

\* setConfig, first half: Config.modify reads the file, applies the patch and
\* edits what it read, leaf by leaf.
ModifyReads(o) ==
  LET card == pages[o].card["infra"]
      next == Applied(card.patch, file) IN
  /\ card.at = "sent" /\ ~IsRefused(card.patch)
  /\ CardBecomes(o, "infra", [at |-> "read", found |-> next, text |-> Edited(file, next)])
  /\ UNCHANGED <<file, memory, overlapped, budget>>

\* The edited text is the file, whatever became of the file since it was read.
ModifyWrites(o) ==
  LET card == pages[o].card["infra"] IN
  /\ card.at = "read"
  /\ file' = card.text
  /\ CardBecomes(o, "infra", [at |-> "written"])
  /\ UNCHANGED <<memory, overlapped, budget>>

\* setConfig, second half: the new configuration becomes the copy in memory, as
\* it was computed and not as it is on file.
SetConfig(o) ==
  LET card == pages[o].card["infra"] IN
  /\ card.at = "written"
  /\ memory' = card.found
  /\ CardBecomes(o, "infra", [at |-> "answer"])
  /\ UNCHANGED <<file, overlapped, budget>>

\* The disk fails, or the configuration came from a URL: an error is the answer.
ModifyFails(o) ==
  /\ pages[o].card["infra"].at \in {"sent", "read"} /\ ~IsRefused(pages[o].card["infra"].patch)
  /\ CardBecomes(o, "infra", [at |-> "refused"])
  /\ Spends("failures")
  /\ UNCHANGED <<file, memory, overlapped>>

Restart ==
  /\ Spends("restarts")
  /\ memory' = file
  /\ pages' = [o \in Operator |-> [pages[o] EXCEPT !.card = [c \in Card |->
       IF <<o, c>> \in Saving THEN [@[c] EXCEPT !.at = "rejected"] ELSE @[c]]]]
  /\ UNCHANGED <<file, overlapped>>

-----------------------------------------------------------------------------
(* The answer. *)

\* onSaved replaces what the whole page shows by what the call answered.
SaveDone(o, c) ==
  LET card == pages[o].card[c] IN
  /\ card.at = "answer"
  /\ pages' = [pages EXCEPT
       ![o].config = card.found,
       ![o].card[c] = [Closed EXCEPT !.draft = card.draft]]
  /\ UNCHANGED <<file, memory, overlapped, budget>>

AnswerLost(o, c) ==
  /\ pages[o].card[c].at \in {"answer", "sent"}
  /\ CardBecomes(o, c, [at |-> "rejected"])
  /\ Spends("failures")
  /\ UNCHANGED <<file, memory, overlapped>>

\* The infrastructure card reads the error an answer carries; the other three
\* have a `catch` and a `finally`.
SaveFails(o, c) ==
  LET at == IF c = "infra" THEN "refused" ELSE "rejected" IN
  /\ pages[o].card[c].at = at
  /\ CardBecomes(o, c, [at |-> "idle", saving |-> FALSE, failed |-> TRUE])
  /\ UNCHANGED <<file, memory, overlapped, budget>>

\* Without a `catch`, a call that throws leaves the infrastructure card saving:
\* its buttons stay disabled until the page is loaded again.
SaveSticks(o) ==
  /\ pages[o].card["infra"].at = "rejected"
  /\ CardBecomes(o, "infra", [at |-> "idle"])
  /\ UNCHANGED <<file, memory, overlapped, budget>>

SettingsNext ==
  \/ Restart
  \/ \E o \in Operator :
       \/ Opens(o) \/ EditField(o) \/ Refuses(o) \/ ModifyReads(o) \/ ModifyWrites(o)
       \/ SetConfig(o) \/ ModifyFails(o) \/ SaveSticks(o)
       \/ \E c \in Card :
            \/ StartEdit(o, c) \/ Cancel(o, c) \/ Save(o, c)
            \/ SaveDone(o, c) \/ AnswerLost(o, c) \/ SaveFails(o, c)
       \/ \E c \in Listed : EditList(o, c) \/ UpdateInMemory(o, c)

SettingsSpec == SettingsInit /\ [][SettingsNext]_settingsVars

-----------------------------------------------------------------------------
(* Properties. *)

ConfigOK(config) ==
  /\ DOMAIN config = Section
  /\ \A s \in Infra : config[s] \in Settable(s)
  /\ \A s \in Listed : \A i \in DOMAIN config[s] : config[s][i].body \in {0, 1}

\* What the file, the service and the pages hold always decodes: what the form
\* lets through and the codec refuses never gets past the call.
SettingsTypeOK ==
  /\ ConfigOK(file) /\ ConfigOK(memory)
  /\ \A o \in Operator : ConfigOK(pages[o].config)

\* While saves of the file do not overlap, every field the service works with is
\* the one on disk as soon as no save is on, whatever else was edited in memory,
\* failed or was lost meanwhile.  An optional field the service has not got may
\* still be on file, and comes back at the next restart: the save of a page that
\* was loaded before the field was set drops it in memory and not on file.
SavedSettingsAreOnFile ==
  (~overlapped /\ \A o \in Operator : <<o, "infra">> \notin Saving) =>
    \A s \in Infra : memory[s] # file[s] => s \in Optional /\ memory[s] = Absent
=============================================================================
