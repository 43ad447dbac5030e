--------------------------- MODULE ProjectCatalogue ---------------------------
(***************************************************************************)
(* The names of projects: how the API keeps them distinct, how ProjectsView *)
(* edits them, and how the start forms use them to say which project to    *)
(* start.                                                                  *)
(*                                                                         *)
(* The server checks a name and writes it in two steps, between which      *)
(* other requests run.  One web client is modelled with its editor and its *)
(* start form; other clients send the same requests at any time.  What is  *)
(* shown of refusals, and the order in which lists arrive, is WebClient's. *)
(***************************************************************************)
EXTENDS Naturals, FiniteSets

CONSTANTS
  Ids,          \* project ids
  Words,        \* names, but for their case
  Capitals,     \* the words that also occur in capitals
  Unset,        \* what React state holds as null
  MaxSteps,     \* bound: steps of users
  MaxRequests   \* bound: requests in flight

ASSUME UnsetAssumption == Unset \notin Ids
ASSUME BoundsAssumption == MaxSteps \in Nat /\ MaxRequests \in Nat

Names == Words \X {"lower"} \cup Capitals \X {"upper"}
Lower(name) == name[1]
Blank == <<"blank">>    \* typed text that is nothing but white space
Texts == Names \cup {Blank}

VARIABLES
  rows,      \* server: name and state of each project
  requests,  \* requests the server has not answered
  list,      \* the projects as this client last fetched them
  view,      \* "projects" or "timer"
  editor,    \* editingId and editName
  picked,    \* the start form: the name selected, and for the properties whose it was
  given,     \* for the properties: the names typed for each project
  asked,     \* for the properties: the states asked for each project
  steps
client == <<list, view, editor, picked>>
history == <<given, asked>>
vars == <<rows, requests, client, history, steps>>

Project == [name : Names, active : BOOLEAN]
Distinct(t) == \A i, j \in DOMAIN t : Lower(t[i].name) = Lower(t[j].name) => i = j
Tables == UNION {[S -> Project] : S \in SUBSET Ids}

Create(n) == [kind |-> "create", name |-> n, stage |-> "sent"]
Rename(i, n) == [kind |-> "rename", id |-> i, name |-> n, stage |-> "sent"]
Switch(i, b) == [kind |-> "switch", id |-> i, active |-> b]
StartTimer(i) == [kind |-> "start", id |-> i]
Request == [kind : {"create"}, name : Names, stage : {"sent", "checked"}]
           \cup [kind : {"rename"}, id : Ids, name : Names, stage : {"sent", "checked"}]
           \cup [kind : {"switch"}, id : Ids, active : BOOLEAN]
           \cup [kind : {"start"}, id : Ids]

NoEditor == [id |-> Unset, text |-> Blank]

Init ==
  /\ rows \in Tables /\ Distinct(rows) /\ list = rows
  /\ requests = {} /\ view = "projects" /\ editor = NoEditor /\ picked = Unset
  /\ given = [i \in Ids |-> IF i \in DOMAIN rows THEN {rows[i].name} ELSE {}]
  /\ asked = [i \in Ids |-> {}]
  /\ steps = 0

-----------------------------------------------------------------------------
(* The server. *)

\* A project other than i has the name, whatever its case.
Taken(i, n) == \E j \in DOMAIN rows \ {i} : Lower(rows[j].name) = Lower(n)
\* projects_name_unique_ci, an index on lower(name).
\* Mutant: on the name as it is spelt.
IndexAdmitsSpelling(i, n) == \A j \in DOMAIN rows \ {i} : rows[j].name # n
IndexAdmits(i, n) == ~Taken(i, n)

Answered(r) == requests' = requests \ {r} /\ UNCHANGED <<client, steps>>

\* The name is looked up before the transaction that writes it.  A refusal
\* changes nothing.
CheckName(r) ==
  /\ r.kind \in {"create", "rename"} /\ r.stage = "sent"
  /\ IF Taken(IF r.kind = "rename" THEN r.id ELSE Unset, r.name)
     THEN requests' = requests \ {r}
     ELSE requests' = (requests \ {r}) \cup {[r EXCEPT !.stage = "checked"]}
  /\ UNCHANGED <<rows, client, history, steps>>

Insert(r) ==
  /\ r.kind = "create" /\ r.stage = "checked" /\ Answered(r)
  /\ IF IndexAdmits(Unset, r.name)
     THEN \E i \in Ids \ DOMAIN rows :
            /\ rows' = [j \in DOMAIN rows \cup {i} |-> IF j = i THEN [name |-> r.name, active |-> TRUE] ELSE rows[j]]
            /\ given' = [given EXCEPT ![i] = @ \cup {r.name}]
     ELSE UNCHANGED <<rows, given>>
  /\ UNCHANGED asked

\* An update writes the columns the request names, no other.
WriteName(r) ==
  /\ r.kind = "rename" /\ r.stage = "checked" /\ Answered(r)
  /\ IF IndexAdmits(r.id, r.name) THEN rows' = [rows EXCEPT ![r.id].name = r.name] ELSE UNCHANGED rows
  /\ UNCHANGED history
WriteActive(r) ==
  /\ r.kind = "switch" /\ Answered(r)
  /\ rows' = [rows EXCEPT ![r.id].active = r.active]
  /\ UNCHANGED history

\* What a start does is WorkSessions'.
HandleStart(r) == r.kind = "start" /\ Answered(r) /\ UNCHANGED <<rows, history>>

Handle(r) == CheckName(r) \/ Insert(r) \/ WriteName(r) \/ WriteActive(r) \/ HandleStart(r)

-----------------------------------------------------------------------------
(* Users. *)

Step == steps < MaxSteps /\ steps' = steps + 1 /\ UNCHANGED rows
Send(r) == /\ Cardinality(requests) < MaxRequests
           /\ requests' = requests \cup {r}
Typed(i, t) == given' = [given EXCEPT ![i] = @ \cup ({t} \cap Names)] /\ UNCHANGED asked
Asks(i, b) == asked' = [asked EXCEPT ![i] = @ \cup {b}] /\ UNCHANGED given

\* The tray and other tabs.
OthersCreate(n) == Step /\ Send(Create(n)) /\ UNCHANGED <<client, history>>
OthersRename(i, n) == Step /\ i \in DOMAIN rows /\ Send(Rename(i, n)) /\ Typed(i, n) /\ UNCHANGED client
OthersSwitch(i, b) == Step /\ i \in DOMAIN rows /\ Send(Switch(i, b)) /\ Asks(i, b) /\ UNCHANGED client

\* A poll or a refresh brings the list up to date, editing or not.
FetchList == list # rows /\ list' = rows /\ UNCHANGED <<rows, requests, view, editor, picked, history, steps>>

\* Leaving a view takes the focus from its inputs first, and drops its state.
SwitchView(v) ==
  /\ Step /\ v # view /\ editor.id = Unset
  /\ view' = v /\ editor' = NoEditor /\ picked' = Unset
  /\ UNCHANGED <<requests, list, history>>

(* ProjectsView. *)

InProjects == Step /\ view = "projects" /\ UNCHANGED <<list, view, picked>>

\* Only one name is edited at a time: a click elsewhere saves it first.
\* Mutant: the text of the last editor stays.
StartEditKeepingText(i) ==
  /\ InProjects /\ i \in DOMAIN list /\ editor.id = Unset
  /\ editor' = [editor EXCEPT !.id = i] /\ UNCHANGED <<requests, history>>
StartEdit(i) ==
  /\ InProjects /\ i \in DOMAIN list /\ editor.id = Unset
  /\ editor' = [id |-> i, text |-> list[i].name]
  /\ UNCHANGED <<requests, history>>
EditName(t) ==
  /\ InProjects /\ editor.id # Unset /\ t # editor.text
  /\ editor' = [editor EXCEPT !.text = t] /\ Typed(editor.id, t)
  /\ UNCHANGED requests

\* Mutant: what is blank is sent as well.
SaveEditBlank ==
  /\ InProjects /\ editor.id # Unset
  /\ editor' = [editor EXCEPT !.id = Unset]
  /\ Send(Rename(editor.id, editor.text)) /\ UNCHANGED history
\* Enter or a click elsewhere.  The text is compared with the list as it is now,
\* which may have changed since the editor was opened.
SaveEdit ==
  /\ InProjects /\ editor.id # Unset
  /\ editor' = [editor EXCEPT !.id = Unset]
  /\ IF editor.text # Blank /\ editor.id \in DOMAIN list /\ editor.text # list[editor.id].name
     THEN Send(Rename(editor.id, editor.text)) ELSE UNCHANGED requests
  /\ UNCHANGED history
CancelEdit ==
  /\ InProjects /\ editor.id # Unset
  /\ editor' = [editor EXCEPT !.id = Unset] /\ UNCHANGED <<requests, history>>

\* The button asks for a state, not for a change of it.
ToggleActive(i) ==
  /\ InProjects /\ i \in DOMAIN list /\ editor.id = Unset
  /\ Send(Switch(i, ~list[i].active)) /\ Asks(i, ~list[i].active) /\ UNCHANGED editor
AddProject(n) == InProjects /\ editor.id = Unset /\ Send(Create(n)) /\ UNCHANGED <<editor, history>>

(* The start forms: NoTimerState, and AddProjectOverlay over it. *)

InTimer == Step /\ view = "timer" /\ UNCHANGED <<list, view, editor, history>>

\* The form remembers the name.
Pick(i) ==
  /\ InTimer /\ i \in DOMAIN list /\ list[i].active
  /\ picked' = [name |-> list[i].name, id |-> i] /\ UNCHANGED requests
\* The overlay is closed, or a timer started elsewhere takes the place of the form.
DropForm == InTimer /\ picked # Unset /\ picked' = Unset /\ UNCHANGED requests

\* Mutant: the name is looked up whatever its case.
FoundIgnoringCase == {i \in DOMAIN list : list[i].active /\ Lower(list[i].name) = Lower(picked.name)}
\* An active project of that name in the list as it is now, or only a message.
\* The form forgets the name without awaiting the answer.
Found == {i \in DOMAIN list : list[i].active /\ list[i].name = picked.name}
PressStart ==
  /\ InTimer /\ picked # Unset /\ picked' = Unset
  /\ IF Found = {} THEN UNCHANGED requests ELSE \E i \in Found : Send(StartTimer(i))

-----------------------------------------------------------------------------
Next ==
  \/ \E r \in requests : Handle(r)
  \/ \E n \in Names : OthersCreate(n) \/ AddProject(n)
  \/ \E i \in Ids : \/ \E n \in Names : OthersRename(i, n)
                    \/ \E b \in BOOLEAN : OthersSwitch(i, b)
                    \/ StartEdit(i) \/ ToggleActive(i) \/ Pick(i)
  \/ \E t \in Texts : EditName(t)
  \/ SaveEdit \/ CancelEdit \/ DropForm \/ PressStart \/ FetchList
  \/ \E v \in {"projects", "timer"} : SwitchView(v)
Spec == Init /\ [][Next]_vars

-----------------------------------------------------------------------------
TypeOK ==
  /\ rows \in Tables /\ list \in Tables /\ DOMAIN list \subseteq DOMAIN rows
  /\ requests \subseteq Request
  /\ \A r \in requests : r.kind # "create" => r.id \in DOMAIN rows
  /\ view \in {"projects", "timer"}
  /\ editor \in [id : Ids \cup {Unset}, text : Texts]
  /\ picked \in [name : Names, id : Ids] \cup {Unset}
  /\ given \in [Ids -> SUBSET Names] /\ asked \in [Ids -> SUBSET BOOLEAN]
  /\ steps \in Nat

\* No two projects have the same name in any case, although two requests may
\* both find a name unused before either has written it.
NamesStayDistinct == Distinct(rows)

\* The project picked has come to be called something else, and somebody has given
\* its name to project i.
NamePassedTo(i) == /\ list[picked.id].name \in given[picked.id] \ {picked.name}
                   /\ picked.name \in given[i]

StartsPickOrHeir == \A r \in requests' \ requests :
                      r.kind = "start" => r.id = picked.id \/ NamePassedTo(r.id)

\* The form says by name which project to start, and the list is replaced under it.
\* Another project than the one picked is started in its place only if the picked
\* one was renamed and its name was given to the other: no project archived, added
\* or called almost the same is taken for it.
PickFollowsItsName == [][StartsPickOrHeir]_vars

RowsAsAsked == \A i \in DOMAIN rows : /\ rows'[i].name \in given[i]
                                      /\ rows'[i].active # rows[i].active => rows'[i].active \in asked[i]

\* Rows change only as somebody wanted: a project gets no name that was never
\* typed for it, and is archived or restored only by a press that said so, however
\* the editor, refreshes of the list and the requests of others interleave.
ChangesAreAskedFor == [][RowsAsAsked]_vars

=============================================================================
