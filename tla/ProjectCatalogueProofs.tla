------------------------ MODULE ProjectCatalogueProofs ------------------------
(* Proofs about ProjectCatalogue, for any projects, names and numbers of     *)
(* requests and steps.                                                       *)
EXTENDS ProjectCatalogue, TLAPS

\* A table is a function from some ids to projects.
LEMMA TableFacts ==
  ASSUME NEW t PROVE t \in Tables <=> /\ t = [i \in DOMAIN t |-> t[i]] /\ DOMAIN t \subseteq Ids
                                      /\ \A i \in DOMAIN t : t[i] \in Project
<1>1. ASSUME t \in Tables PROVE /\ t = [i \in DOMAIN t |-> t[i]] /\ DOMAIN t \subseteq Ids
                                /\ \A i \in DOMAIN t : t[i] \in Project
  <2>1. PICK S \in SUBSET Ids : t \in [S -> Project] BY <1>1 DEF Tables
  <2> QED BY <2>1
<1>2. ASSUME t = [i \in DOMAIN t |-> t[i]], DOMAIN t \subseteq Ids, \A i \in DOMAIN t : t[i] \in Project
      PROVE t \in Tables
  <2>1. t \in [DOMAIN t -> Project] BY <1>2
  <2> QED BY <1>2, <2>1 DEF Tables
<1> QED BY <1>1, <1>2

\* A row added.
LEMMA AddedRow ==
  ASSUME rows \in Tables, NEW i \in Ids \ DOMAIN rows, NEW n \in Names,
         rows' = [j \in DOMAIN rows \cup {i} |-> IF j = i THEN [name |-> n, active |-> TRUE] ELSE rows[j]]
  PROVE  /\ rows' \in Tables /\ DOMAIN rows' = DOMAIN rows \cup {i}
         /\ rows'[i] = [name |-> n, active |-> TRUE]
         /\ \A j \in DOMAIN rows : rows'[j] = rows[j]
<1>1. /\ rows = [j \in DOMAIN rows |-> rows[j]] /\ DOMAIN rows \subseteq Ids
      /\ \A j \in DOMAIN rows : rows[j] \in Project
  BY TableFacts
<1>2. [name |-> n, active |-> TRUE] \in Project BY DEF Project
<1>3. \A j \in DOMAIN rows' : rows'[j] \in Project BY <1>1, <1>2
<1>4. rows' = [j \in DOMAIN rows' |-> rows'[j]] /\ DOMAIN rows' \subseteq Ids BY <1>1
<1>5. rows' \in Tables BY <1>3, <1>4, TableFacts
<1> QED BY <1>1, <1>5

\* One column of a row changed.
LEMMA ChangedRow ==
  ASSUME rows \in Tables, NEW i \in DOMAIN rows,
         \/ \E n \in Names : rows' = [rows EXCEPT ![i].name = n]
         \/ \E b \in BOOLEAN : rows' = [rows EXCEPT ![i].active = b]
  PROVE  /\ rows' \in Tables /\ DOMAIN rows' = DOMAIN rows
         /\ \A j \in DOMAIN rows : j # i => rows'[j] = rows[j]
<1>1. /\ rows = [j \in DOMAIN rows |-> rows[j]] /\ DOMAIN rows \subseteq Ids
      /\ \A j \in DOMAIN rows : rows[j] \in Project
  BY TableFacts
<1>2. DOMAIN rows' = DOMAIN rows /\ \A j \in DOMAIN rows : j # i => rows'[j] = rows[j]
  BY <1>1
<1>3. rows'[i] \in Project
  <2>1. CASE \E n \in Names : rows' = [rows EXCEPT ![i].name = n]
    <3>1. PICK n \in Names : rows' = [rows EXCEPT ![i].name = n] BY <2>1
    <3>2. rows'[i] = [rows[i] EXCEPT !.name = n] BY <1>1, <3>1
    <3> QED BY <1>1, <3>2 DEF Project
  <2>2. CASE \E b \in BOOLEAN : rows' = [rows EXCEPT ![i].active = b]
    <3>1. PICK b \in BOOLEAN : rows' = [rows EXCEPT ![i].active = b] BY <2>2
    <3>2. rows'[i] = [rows[i] EXCEPT !.active = b] BY <1>1, <3>1
    <3> QED BY <1>1, <3>2 DEF Project
  <2> QED BY <2>1, <2>2
<1>4. rows' = [j \in DOMAIN rows' |-> rows'[j]] BY <1>1
<1>5. \A j \in DOMAIN rows' : rows'[j] \in Project BY <1>1, <1>2, <1>3
<1> QED BY <1>1, <1>2, <1>4, <1>5, TableFacts

-----------------------------------------------------------------------------
(* Types. *)

USE UnsetAssumption, BoundsAssumption

\* The requests users send.
LEMMA RequestTypes ==
  /\ \A n \in Names : Create(n) \in Request /\ Create(n).kind = "create"
  /\ \A i \in Ids, n \in Names : /\ Rename(i, n) \in Request /\ Rename(i, n).kind = "rename"
                                 /\ Rename(i, n).id = i /\ Rename(i, n).name = n
  /\ \A i \in Ids, b \in BOOLEAN : /\ Switch(i, b) \in Request /\ Switch(i, b).kind = "switch"
                                   /\ Switch(i, b).id = i /\ Switch(i, b).active = b
  /\ \A i \in Ids : StartTimer(i) \in Request /\ StartTimer(i).kind = "start" /\ StartTimer(i).id = i
BY DEF Create, Rename, Switch, StartTimer, Request

\* What the fields of a request are.
LEMMA RequestFields ==
  ASSUME NEW r \in Request
  PROVE  /\ r.kind \in {"create", "rename", "switch", "start"}
         /\ r.kind \in {"create", "rename"} => r.name \in Names /\ [r EXCEPT !.stage = "checked"] \in Request
         /\ r.kind # "create" => r.id \in Ids
         /\ r.kind = "switch" => r.active \in BOOLEAN
<1>1. CASE r \in [kind : {"create"}, name : Names, stage : {"sent", "checked"}] BY <1>1 DEF Request
<1>2. CASE r \in [kind : {"rename"}, id : Ids, name : Names, stage : {"sent", "checked"}] BY <1>2 DEF Request
<1>3. CASE r \in [kind : {"switch"}, id : Ids, active : BOOLEAN] BY <1>3 DEF Request
<1>4. CASE r \in [kind : {"start"}, id : Ids] BY <1>4 DEF Request
<1> QED BY <1>1, <1>2, <1>3, <1>4 DEF Request

\* A request whose name has been checked is otherwise the same.
LEMMA CheckedRequest ==
  ASSUME NEW r \in Request, r.kind \in {"create", "rename"}, NEW c, c = [r EXCEPT !.stage = "checked"]
  PROVE  c \in Request /\ c.kind = r.kind /\ c.name = r.name /\ (r.kind = "rename" => c.id = r.id)
<1>1. CASE r \in [kind : {"create"}, name : Names, stage : {"sent", "checked"}] BY <1>1 DEF Request
<1>2. CASE r \in [kind : {"rename"}, id : Ids, name : Names, stage : {"sent", "checked"}] BY <1>2 DEF Request
<1>3. CASE r \in [kind : {"switch"}, id : Ids, active : BOOLEAN] BY <1>3
<1>4. CASE r \in [kind : {"start"}, id : Ids] BY <1>4
<1> QED BY <1>1, <1>2, <1>3, <1>4 DEF Request

\* The names of a table.
LEMMA TableNames ==
  ASSUME NEW t \in Tables, NEW i \in DOMAIN t
  PROVE  i \in Ids /\ t[i].name \in Names /\ t[i].active \in BOOLEAN
BY TableFacts DEF Project

LEMMA TypeInit == Init => TypeOK
<1> SUFFICES ASSUME Init PROVE TypeOK OBVIOUS
<1>1. \A i \in DOMAIN rows : rows[i].name \in Names BY TableNames DEF Init
<1>2. given \in [Ids -> SUBSET Names] BY <1>1 DEF Init
<1> QED BY <1>2 DEF Init, TypeOK, NoEditor, Texts

\* A step that sends at most one request, of an existing project, keeps the types
\* of rows, list and requests.
LEMMA SendTypes ==
  ASSUME TypeOK, UNCHANGED <<rows, list>>, NEW r \in Request, r.kind # "create" => r.id \in DOMAIN rows,
         Send(r) \/ UNCHANGED requests
  PROVE  /\ rows' \in Tables /\ list' \in Tables /\ DOMAIN list' \subseteq DOMAIN rows'
         /\ requests' \subseteq Request
         /\ \A q \in requests' : q.kind # "create" => q.id \in DOMAIN rows'
BY DEF TypeOK, Send

LEMMA TypeStep == TypeOK /\ [Next]_vars => TypeOK'
<1> SUFFICES ASSUME TypeOK, [Next]_vars PROVE TypeOK' OBVIOUS
<1>1. ASSUME NEW r \in requests, CheckName(r) PROVE TypeOK'
  <2> DEFINE c == [r EXCEPT !.stage = "checked"]
  <2>1. r \in Request /\ r.kind \in {"create", "rename"} BY <1>1 DEF TypeOK, CheckName
  <2>2. c \in Request /\ c.kind = r.kind /\ (r.kind = "rename" => c.id = r.id) BY <2>1, CheckedRequest
  <2>3. requests' \subseteq requests \cup {c} BY <1>1 DEF CheckName
  <2> HIDE DEF c
  <2>4. requests' \subseteq Request /\ \A q \in requests' : q.kind # "create" => q.id \in DOMAIN rows
    BY <2>1, <2>2, <2>3 DEF TypeOK
  <2> QED BY <1>1, <2>4 DEF CheckName, TypeOK, client, history
<1>2. ASSUME NEW r \in requests, Insert(r) PROVE TypeOK'
  <2>1. r \in Request /\ r.name \in Names BY <1>2, RequestFields DEF Insert, TypeOK
  <2>2. CASE IndexAdmits(Unset, r.name)
    <3>1. PICK i \in Ids \ DOMAIN rows :
            /\ rows' = [j \in DOMAIN rows \cup {i} |-> IF j = i THEN [name |-> r.name, active |-> TRUE] ELSE rows[j]]
            /\ given' = [given EXCEPT ![i] = @ \cup {r.name}]
      BY <1>2, <2>2 DEF Insert
    <3>2. rows \in Tables BY DEF TypeOK
    <3>3. rows' \in Tables /\ DOMAIN rows' = DOMAIN rows \cup {i} BY <2>1, <3>1, <3>2, AddedRow
    <3>4. given' \in [Ids -> SUBSET Names] BY <2>1, <3>1 DEF TypeOK
    <3> QED BY <1>2, <3>3, <3>4 DEF Insert, Answered, TypeOK, client
  <2>3. CASE ~IndexAdmits(Unset, r.name) BY <1>2, <2>3 DEF Insert, Answered, TypeOK, client
  <2> QED BY <2>2, <2>3
<1>3. ASSUME NEW r \in requests, WriteName(r) PROVE TypeOK'
  <2>1. r \in Request /\ r.name \in Names /\ r.id \in DOMAIN rows BY <1>3, RequestFields DEF WriteName, TypeOK
  <2>2. rows' \in Tables /\ DOMAIN rows' = DOMAIN rows BY <1>3, <2>1, ChangedRow DEF WriteName, TypeOK
  <2> QED BY <1>3, <2>2 DEF WriteName, Answered, TypeOK, client, history
<1>4. ASSUME NEW r \in requests, WriteActive(r) PROVE TypeOK'
  <2>1. r \in Request /\ r.active \in BOOLEAN /\ r.id \in DOMAIN rows BY <1>4, RequestFields DEF WriteActive, TypeOK
  <2>2. rows' \in Tables /\ DOMAIN rows' = DOMAIN rows BY <1>4, <2>1, ChangedRow DEF WriteActive, TypeOK
  <2> QED BY <1>4, <2>2 DEF WriteActive, Answered, TypeOK, client, history
<1>5. ASSUME NEW r \in requests, HandleStart(r) PROVE TypeOK'
  BY <1>5 DEF HandleStart, Answered, TypeOK, client, history
<1>6. ASSUME NEW n \in Names, OthersCreate(n) \/ AddProject(n) PROVE TypeOK'
  <2>1. Create(n) \in Request /\ Create(n).kind = "create" BY RequestTypes
  <2>2. /\ rows' \in Tables /\ list' \in Tables /\ DOMAIN list' \subseteq DOMAIN rows'
        /\ requests' \subseteq Request
        /\ \A q \in requests' : q.kind # "create" => q.id \in DOMAIN rows'
    BY <1>6, <2>1, SendTypes DEF OthersCreate, AddProject, InProjects, Step, client
  <2> QED BY <1>6, <2>2 DEF OthersCreate, AddProject, InProjects, Step, TypeOK, client, history
<1>7. ASSUME NEW i \in Ids, NEW n \in Names, OthersRename(i, n) PROVE TypeOK'
  <2>1. Rename(i, n) \in Request /\ Rename(i, n).id = i BY RequestTypes
  <2>2. /\ rows' \in Tables /\ list' \in Tables /\ DOMAIN list' \subseteq DOMAIN rows'
        /\ requests' \subseteq Request
        /\ \A q \in requests' : q.kind # "create" => q.id \in DOMAIN rows'
    BY <1>7, <2>1, SendTypes DEF OthersRename, Step, client
  <2>3. given' \in [Ids -> SUBSET Names] BY <1>7 DEF OthersRename, Typed, TypeOK
  <2> QED BY <1>7, <2>2, <2>3 DEF OthersRename, Step, Typed, TypeOK, client
<1>8. ASSUME NEW i \in Ids, NEW b \in BOOLEAN, OthersSwitch(i, b) PROVE TypeOK'
  <2>1. Switch(i, b) \in Request /\ Switch(i, b).id = i BY RequestTypes
  <2>2. /\ rows' \in Tables /\ list' \in Tables /\ DOMAIN list' \subseteq DOMAIN rows'
        /\ requests' \subseteq Request
        /\ \A q \in requests' : q.kind # "create" => q.id \in DOMAIN rows'
    BY <1>8, <2>1, SendTypes DEF OthersSwitch, Step, client
  <2> QED BY <1>8, <2>2 DEF OthersSwitch, Step, Asks, TypeOK, client
<1>9. ASSUME NEW i \in Ids, StartEdit(i) PROVE TypeOK'
  <2>1. list[i].name \in Names BY <1>9, TableNames DEF StartEdit, TypeOK
  <2> QED BY <1>9, <2>1 DEF StartEdit, InProjects, Step, TypeOK, history, Texts
<1>10. ASSUME NEW i \in Ids, ToggleActive(i) PROVE TypeOK'
  <2>1. list[i].active \in BOOLEAN /\ i \in DOMAIN rows BY <1>10, TableNames DEF ToggleActive, TypeOK
  <2> DEFINE b == ~list[i].active
  <2>2. b \in BOOLEAN BY <2>1
  <2>3. Switch(i, b) \in Request /\ Switch(i, b).id = i BY <2>2, RequestTypes
  <2>4. /\ rows' \in Tables /\ list' \in Tables /\ DOMAIN list' \subseteq DOMAIN rows'
        /\ requests' \subseteq Request
        /\ \A q \in requests' : q.kind # "create" => q.id \in DOMAIN rows'
    BY <1>10, <2>1, <2>3, SendTypes DEF ToggleActive, InProjects, Step
  <2>5. asked' \in [Ids -> SUBSET BOOLEAN] BY <1>10, <2>2 DEF ToggleActive, Asks, TypeOK
  <2> QED BY <1>10, <2>4, <2>5 DEF ToggleActive, InProjects, Step, Asks, TypeOK
<1>11. ASSUME NEW i \in Ids, Pick(i) PROVE TypeOK'
  <2>1. list[i].name \in Names BY <1>11, TableNames DEF Pick, TypeOK
  <2> QED BY <1>11, <2>1 DEF Pick, InTimer, Step, TypeOK, history
<1>12. ASSUME NEW t \in Texts, EditName(t) PROVE TypeOK'
  <2>1. editor' \in [id : Ids \cup {Unset}, text : Texts] /\ editor.id \in Ids BY <1>12 DEF EditName, TypeOK
  <2>2. given' \in [Ids -> SUBSET Names] BY <1>12, <2>1 DEF EditName, Typed, TypeOK, Texts
  <2> QED BY <1>12, <2>1, <2>2 DEF EditName, InProjects, Step, Typed, TypeOK
<1>13. ASSUME SaveEdit PROVE TypeOK'
  <2>1. editor.id \in Ids /\ editor' \in [id : Ids \cup {Unset}, text : Texts] BY <1>13 DEF SaveEdit, TypeOK
  <2>2. CASE editor.text # Blank /\ editor.id \in DOMAIN list /\ editor.text # list[editor.id].name
    <3>1. editor.text \in Names /\ editor.id \in DOMAIN rows BY <2>2 DEF TypeOK, Texts
    <3> DEFINE r == Rename(editor.id, editor.text)
    <3>2. r \in Request /\ r.id = editor.id BY <2>1, <3>1, RequestTypes
    <3>3. Send(r) /\ UNCHANGED <<rows, list>> BY <1>13, <2>2 DEF SaveEdit, InProjects, Step
    <3> HIDE DEF r
    <3>4. /\ rows' \in Tables /\ list' \in Tables /\ DOMAIN list' \subseteq DOMAIN rows'
          /\ requests' \subseteq Request
          /\ \A q \in requests' : q.kind # "create" => q.id \in DOMAIN rows'
      BY <3>1, <3>2, <3>3, SendTypes
    <3> QED BY <1>13, <2>1, <3>4 DEF SaveEdit, InProjects, Step, TypeOK, history
  <2>3. CASE ~(editor.text # Blank /\ editor.id \in DOMAIN list /\ editor.text # list[editor.id].name)
    BY <1>13, <2>1, <2>3 DEF SaveEdit, InProjects, Step, TypeOK, history
  <2> QED BY <2>2, <2>3
<1>14. ASSUME CancelEdit PROVE TypeOK'
  BY <1>14 DEF CancelEdit, InProjects, Step, TypeOK, history
<1>15. ASSUME DropForm PROVE TypeOK'
  BY <1>15 DEF DropForm, InTimer, Step, TypeOK, history
<1>16. ASSUME PressStart PROVE TypeOK'
  <2>1. CASE Found = {} BY <1>16, <2>1 DEF PressStart, InTimer, Step, TypeOK, history
  <2>2. CASE Found # {}
    <3>1. PICK i \in Found : Send(StartTimer(i)) BY <1>16, <2>2 DEF PressStart
    <3>2. i \in DOMAIN rows /\ i \in Ids BY TableNames DEF Found, TypeOK
    <3>3. StartTimer(i) \in Request /\ StartTimer(i).id = i BY <3>2, RequestTypes
    <3>4. /\ rows' \in Tables /\ list' \in Tables /\ DOMAIN list' \subseteq DOMAIN rows'
          /\ requests' \subseteq Request
          /\ \A q \in requests' : q.kind # "create" => q.id \in DOMAIN rows'
      BY <1>16, <3>1, <3>2, <3>3, SendTypes DEF PressStart, InTimer, Step
    <3> QED BY <1>16, <3>4 DEF PressStart, InTimer, Step, TypeOK, history
  <2> QED BY <2>1, <2>2
<1>17. ASSUME FetchList PROVE TypeOK'
  BY <1>17 DEF FetchList, TypeOK, history
<1>18. ASSUME NEW v \in {"projects", "timer"}, SwitchView(v) PROVE TypeOK'
  BY <1>18 DEF SwitchView, NoEditor, Step, TypeOK, history, Texts
<1>19. CASE UNCHANGED vars
  BY <1>19 DEF vars, client, history, TypeOK
<1> QED
  BY <1>1, <1>2, <1>3, <1>4, <1>5, <1>6, <1>7, <1>8, <1>9, <1>10, <1>11, <1>12, <1>13, <1>14, <1>15, <1>16, <1>17, <1>18, <1>19
  DEF Next, Handle

\* Type correctness.
THEOREM TypeTheorem == Spec => []TypeOK
BY TypeInit, TypeStep, PTL DEF Spec

-----------------------------------------------------------------------------
(* Names.  The client's list is a copy of a table whose names were distinct. *)

Named == NamesStayDistinct /\ Distinct(list)

\* Only three steps of the server write rows, and a list is fetched as it is.
LEMMA Writers ==
  ASSUME [Next]_vars
  PROVE  /\ UNCHANGED rows \/ \E r \in requests : Insert(r) \/ WriteName(r) \/ WriteActive(r)
         /\ UNCHANGED list \/ (list' = rows /\ UNCHANGED rows)
BY DEF Next, Handle, vars, client, CheckName, Insert, WriteName, WriteActive, HandleStart, Answered,
       OthersCreate, OthersRename, OthersSwitch, Step, FetchList, SwitchView, StartEdit, EditName, SaveEdit,
       CancelEdit, ToggleActive, AddProject, Pick, DropForm, PressStart, InProjects, InTimer

\* What each of the three leaves in a row.
LEMMA InsertEffect ==
  ASSUME TypeOK, NEW r \in requests, Insert(r)
  PROVE  \/ UNCHANGED <<rows, given>>
         \/ \E i \in Ids \ DOMAIN rows :
              /\ IndexAdmits(Unset, r.name)
              /\ DOMAIN rows' = DOMAIN rows \cup {i} /\ rows'[i].name = r.name
              /\ \A j \in DOMAIN rows : rows'[j] = rows[j]
              /\ r.name \in given'[i]
<1>1. r \in Request /\ r.name \in Names BY RequestFields DEF Insert, TypeOK
<1>2. CASE IndexAdmits(Unset, r.name)
  <2>1. PICK i \in Ids \ DOMAIN rows :
          /\ rows' = [j \in DOMAIN rows \cup {i} |-> IF j = i THEN [name |-> r.name, active |-> TRUE] ELSE rows[j]]
          /\ given' = [given EXCEPT ![i] = @ \cup {r.name}]
    BY <1>2 DEF Insert
  <2>2. r.name \in given'[i] BY <2>1 DEF TypeOK
  <2>3. DOMAIN rows' = DOMAIN rows \cup {i} /\ rows'[i].name = r.name BY <2>1
  <2>4. \A j \in DOMAIN rows : rows'[j] = rows[j] BY <2>1
  <2> QED BY <1>2, <2>2, <2>3, <2>4
<1>3. CASE ~IndexAdmits(Unset, r.name) BY <1>3 DEF Insert
<1> QED BY <1>2, <1>3

LEMMA WriteNameEffect ==
  ASSUME TypeOK, NEW r \in requests, WriteName(r)
  PROVE  /\ r.id \in DOMAIN rows /\ r.kind = "rename"
         /\ \/ UNCHANGED rows
            \/ /\ IndexAdmits(r.id, r.name) /\ DOMAIN rows' = DOMAIN rows
               /\ rows'[r.id].name = r.name /\ rows'[r.id].active = rows[r.id].active
               /\ \A j \in DOMAIN rows : j # r.id => rows'[j] = rows[j]
<1>1. r \in Request /\ r.id \in DOMAIN rows BY DEF WriteName, TypeOK
<1>2. rows[r.id] \in Project BY <1>1, TableFacts DEF TypeOK
<1>3. CASE IndexAdmits(r.id, r.name)
  <2>1. rows' = [rows EXCEPT ![r.id].name = r.name] BY <1>3 DEF WriteName
  <2>2. rows'[r.id] = [rows[r.id] EXCEPT !.name = r.name] BY <1>1, <2>1
  <2> QED BY <1>1, <1>2, <1>3, <2>1, <2>2 DEF Project, WriteName
<1> QED BY <1>1, <1>3 DEF WriteName

LEMMA WriteActiveEffect ==
  ASSUME TypeOK, NEW r \in requests, WriteActive(r)
  PROVE  /\ r.id \in DOMAIN rows /\ r.kind = "switch" /\ DOMAIN rows' = DOMAIN rows
         /\ rows'[r.id].name = rows[r.id].name /\ rows'[r.id].active = r.active
         /\ \A j \in DOMAIN rows : j # r.id => rows'[j] = rows[j]
<1>1. r \in Request /\ r.id \in DOMAIN rows BY DEF WriteActive, TypeOK
<1>2. rows[r.id] \in Project BY <1>1, TableFacts DEF TypeOK
<1>3. rows' = [rows EXCEPT ![r.id].active = r.active] BY DEF WriteActive
<1>4. rows'[r.id] = [rows[r.id] EXCEPT !.active = r.active] BY <1>1, <1>3
<1> QED BY <1>1, <1>2, <1>3, <1>4 DEF Project, WriteActive

LEMMA NamedStep == TypeOK /\ Named /\ [Next]_vars => Named'
<1> SUFFICES ASSUME TypeOK, Named, [Next]_vars PROVE Named' OBVIOUS
<1>1. Distinct(rows)'
  <2>1. CASE UNCHANGED rows BY <2>1 DEF Named, NamesStayDistinct, Distinct
  <2>2. ASSUME NEW r \in requests, Insert(r) PROVE Distinct(rows)'
    <3>1. CASE UNCHANGED rows BY <3>1 DEF Named, NamesStayDistinct, Distinct
    <3>2. ASSUME NEW i \in Ids \ DOMAIN rows, IndexAdmits(Unset, r.name),
                 DOMAIN rows' = DOMAIN rows \cup {i}, rows'[i].name = r.name,
                 \A j \in DOMAIN rows : rows'[j] = rows[j]
          PROVE  Distinct(rows)'
      <4>1. \A j \in DOMAIN rows : Lower(rows[j].name) # Lower(r.name)
        <5>1. DOMAIN rows \subseteq Ids BY TableFacts DEF TypeOK
        <5> QED BY <3>2, <5>1 DEF IndexAdmits, Taken
      <4> QED BY <3>2, <4>1 DEF Named, NamesStayDistinct, Distinct
    <3> QED BY <2>2, <3>1, <3>2, InsertEffect
  <2>3. ASSUME NEW r \in requests, WriteName(r) PROVE Distinct(rows)'
    <3>1. CASE UNCHANGED rows BY <3>1 DEF Named, NamesStayDistinct, Distinct
    <3>2. CASE IndexAdmits(r.id, r.name) /\ DOMAIN rows' = DOMAIN rows /\ rows'[r.id].name = r.name
               /\ \A j \in DOMAIN rows : j # r.id => rows'[j] = rows[j]
      BY <3>2 DEF IndexAdmits, Taken, Named, NamesStayDistinct, Distinct
    <3> QED BY <2>3, <3>1, <3>2, WriteNameEffect
  <2>4. ASSUME NEW r \in requests, WriteActive(r) PROVE Distinct(rows)'
    BY <2>4, WriteActiveEffect DEF Named, NamesStayDistinct, Distinct
  <2> QED BY <2>1, <2>2, <2>3, <2>4, Writers
<1>2. Distinct(list)'
  <2>1. CASE UNCHANGED list BY <2>1 DEF Named, Distinct
  <2>2. CASE list' = rows BY <2>2 DEF Named, NamesStayDistinct, Distinct
  <2> QED BY <2>1, <2>2, Writers
<1> QED BY <1>1, <1>2 DEF Named, NamesStayDistinct

LEMMA NamedInit == Init => Named
BY DEF Init, Named, NamesStayDistinct

\* No two projects ever have the same name in any case: the check may be passed by
\* several requests at once, the index by one of them.
THEOREM NamesTheorem == Spec => []NamesStayDistinct
<1>1. Named => NamesStayDistinct BY DEF Named
<1> QED BY <1>1, TypeInit, TypeStep, NamedInit, NamedStep, PTL DEF Spec

-----------------------------------------------------------------------------
(* What is written was asked for.  The invariant follows a name from the      *)
(* editor to the request, the row and the lists fetched of it.                *)

Wanted(r) == /\ r.kind = "rename" => r.name \in given[r.id]
             /\ r.kind = "switch" => r.active \in asked[r.id]
Traced ==
  /\ \A i \in DOMAIN rows : rows[i].name \in given[i]
  /\ \A i \in DOMAIN list : list[i].name \in given[i]
  /\ \A r \in requests : Wanted(r)
  /\ editor.id # Unset /\ editor.text # Blank => editor.text \in given[editor.id]

\* What was wanted once remains so.
LEMMA HistoryGrows ==
  ASSUME TypeOK, [Next]_vars
  PROVE  \A i \in Ids : given[i] \subseteq given'[i] /\ asked[i] \subseteq asked'[i]
<1>1. CASE UNCHANGED history BY <1>1 DEF history
<1>2. ASSUME NEW i \in Ids, NEW t \in Texts, Typed(i, t)
      PROVE  \A j \in Ids : given[j] \subseteq given'[j] /\ asked[j] \subseteq asked'[j]
  BY <1>2 DEF Typed, TypeOK
<1>3. ASSUME NEW i \in Ids, NEW b \in BOOLEAN, Asks(i, b)
      PROVE  \A j \in Ids : given[j] \subseteq given'[j] /\ asked[j] \subseteq asked'[j]
  BY <1>3 DEF Asks, TypeOK
<1>4. ASSUME NEW r \in requests, Insert(r)
      PROVE  \A j \in Ids : given[j] \subseteq given'[j] /\ asked[j] \subseteq asked'[j]
  BY <1>4 DEF Insert, TypeOK
<1>5. \/ UNCHANGED history \/ \E r \in requests : Insert(r)
      \/ \E i \in Ids, t \in Texts : Typed(i, t)
      \/ \E i \in Ids, b \in BOOLEAN : Asks(i, b)
  <2>1. ASSUME NEW t \in Texts, EditName(t) PROVE Typed(editor.id, t) /\ editor.id \in Ids
    BY <2>1 DEF EditName, TypeOK
  <2>2. ASSUME NEW i \in Ids, NEW n \in Names, OthersRename(i, n) PROVE Typed(i, n) /\ n \in Texts
    BY <2>2 DEF OthersRename, Texts
  <2>3. ASSUME NEW i \in Ids, NEW b \in BOOLEAN, OthersSwitch(i, b) PROVE Asks(i, b)
    BY <2>3 DEF OthersSwitch
  <2>4. ASSUME NEW i \in Ids, ToggleActive(i) PROVE Asks(i, ~list[i].active) /\ (~list[i].active) \in BOOLEAN
    BY <2>4 DEF ToggleActive
  <2>5. ASSUME \/ \E r \in requests : CheckName(r) \/ WriteName(r) \/ WriteActive(r) \/ HandleStart(r)
               \/ \E n \in Names : OthersCreate(n) \/ AddProject(n)
               \/ \E i \in Ids : StartEdit(i) \/ Pick(i)
               \/ SaveEdit \/ CancelEdit \/ DropForm \/ PressStart \/ FetchList \/ UNCHANGED vars
               \/ \E v \in {"projects", "timer"} : SwitchView(v)
        PROVE  UNCHANGED history
    BY <2>5 DEF CheckName, WriteName, WriteActive, HandleStart, OthersCreate, AddProject, StartEdit, Pick,
                SaveEdit, CancelEdit, DropForm, PressStart, FetchList, SwitchView, InProjects, InTimer, vars
  <2> QED BY <2>1, <2>2, <2>3, <2>4, <2>5 DEF Next, Handle
<1> QED BY <1>1, <1>2, <1>3, <1>4, <1>5

LEMMA TracedInit == Init => Traced
<1> SUFFICES ASSUME Init PROVE Traced OBVIOUS
<1>1. \A i \in DOMAIN rows : i \in Ids BY TableNames DEF Init
<1> QED BY <1>1 DEF Init, Traced, NoEditor

\* The three writes, and no other step, change a row, to what a request wanted.
LEMMA RowsTraced ==
  ASSUME TypeOK, Traced, [Next]_vars
  PROVE  /\ \A i \in DOMAIN rows' : rows'[i].name \in given'[i]
         /\ \A i \in DOMAIN rows : /\ rows'[i].name \in given[i]
                                   /\ rows'[i].active # rows[i].active => rows'[i].active \in asked[i]
<1>1. \A i \in DOMAIN rows : i \in Ids /\ given[i] \subseteq given'[i]
  BY HistoryGrows, TableNames DEF TypeOK
<1>2. CASE UNCHANGED rows BY <1>1, <1>2 DEF Traced
<1>3. ASSUME NEW r \in requests, Insert(r), ~UNCHANGED rows
      PROVE  /\ \A i \in DOMAIN rows' : rows'[i].name \in given'[i]
             /\ \A i \in DOMAIN rows : rows'[i] = rows[i]
  BY <1>1, <1>3, InsertEffect DEF Traced
<1>4. ASSUME NEW r \in requests, WriteName(r) \/ WriteActive(r)
      PROVE  /\ DOMAIN rows' = DOMAIN rows
             /\ \A i \in DOMAIN rows : /\ rows'[i].name \in given[i]
                                       /\ rows'[i].active # rows[i].active => rows'[i].active \in asked[i]
  BY <1>4, WriteNameEffect, WriteActiveEffect DEF Traced, Wanted
<1>5. CASE \E r \in requests : Insert(r) /\ ~UNCHANGED rows
  <2>1. PICK r \in requests : Insert(r) /\ ~UNCHANGED rows BY <1>5
  <2>2. /\ \A i \in DOMAIN rows' : rows'[i].name \in given'[i]
        /\ \A i \in DOMAIN rows : rows'[i] = rows[i]
    BY <1>3, <2>1
  <2> QED BY <2>2 DEF Traced
<1>6. CASE \E r \in requests : WriteName(r) \/ WriteActive(r)
  <2>1. /\ DOMAIN rows' = DOMAIN rows
        /\ \A i \in DOMAIN rows : /\ rows'[i].name \in given[i]
                                  /\ rows'[i].active # rows[i].active => rows'[i].active \in asked[i]
    BY <1>4, <1>6
  <2>2. ASSUME NEW i \in DOMAIN rows' PROVE rows'[i].name \in given'[i]
    <3>1. i \in DOMAIN rows /\ rows'[i].name \in given[i] BY <2>1
    <3> QED BY <1>1, <3>1
  <2> QED BY <2>1, <2>2
<1> QED BY <1>2, <1>5, <1>6, Writers

\* A new request asks for what its user has just wanted.
LEMMA RequestsTraced ==
  ASSUME TypeOK, Traced, [Next]_vars, NEW q \in requests'
  PROVE  Wanted(q)'
<1>1. ASSUME NEW r \in Request, r \in requests, q.kind = r.kind,
             q.kind = "rename" => q.id = r.id /\ q.name = r.name,
             q.kind = "switch" => q.id = r.id /\ q.active = r.active
      PROVE  Wanted(q)'
  BY <1>1, HistoryGrows, RequestFields DEF Traced, Wanted
<1>2. CASE q \in requests BY <1>1, <1>2 DEF TypeOK
<1>3. ASSUME q \notin requests PROVE Wanted(q)'
  <2>1. ASSUME NEW r \in requests, CheckName(r) PROVE Wanted(q)'
    <3>1. q = [r EXCEPT !.stage = "checked"] /\ r \in Request /\ r.kind \in {"create", "rename"}
      BY <1>3, <2>1 DEF CheckName, TypeOK
    <3>2. q.kind = r.kind /\ q.name = r.name /\ (r.kind = "rename" => q.id = r.id) BY <3>1, CheckedRequest
    <3> QED BY <1>1, <3>1, <3>2
  <2>2. ASSUME NEW r \in requests, Insert(r) \/ WriteName(r) \/ WriteActive(r) \/ HandleStart(r) PROVE FALSE
    BY <1>3, <2>2 DEF Insert, WriteName, WriteActive, HandleStart, Answered
  <2>3. ASSUME NEW n \in Names, OthersCreate(n) \/ AddProject(n) PROVE Wanted(q)'
    <3>1. q = Create(n) BY <1>3, <2>3 DEF OthersCreate, AddProject, Send
    <3> QED BY <3>1, RequestTypes DEF Wanted
  <2>4. ASSUME NEW i \in Ids, NEW n \in Names, OthersRename(i, n) PROVE Wanted(q)'
    <3>1. q = Rename(i, n) /\ n \in given'[i] BY <1>3, <2>4 DEF OthersRename, Send, Typed, TypeOK
    <3> QED BY <3>1, RequestTypes DEF Wanted
  <2>5. ASSUME NEW i \in Ids, NEW b \in BOOLEAN, OthersSwitch(i, b) PROVE Wanted(q)'
    <3>1. q = Switch(i, b) /\ b \in asked'[i] BY <1>3, <2>5 DEF OthersSwitch, Send, Asks, TypeOK
    <3> QED BY <3>1, RequestTypes DEF Wanted
  <2>6. ASSUME NEW i \in Ids, ToggleActive(i) PROVE Wanted(q)'
    <3> DEFINE b == ~list[i].active
    <3>1. /\ Send(Switch(i, b)) /\ Asks(i, b)
          /\ b \in BOOLEAN
      BY <2>6 DEF ToggleActive
    <3> HIDE DEF b
    <3>2. q = Switch(i, b) BY <1>3, <3>1 DEF Send
    <3>3. b \in asked'[i] BY <3>1 DEF Asks, TypeOK
    <3> QED BY <3>1, <3>2, <3>3, RequestTypes DEF Wanted
  <2>7. ASSUME SaveEdit PROVE Wanted(q)'
    <3>1. q = Rename(editor.id, editor.text) /\ editor.text \in given[editor.id] /\ given' = given
      BY <1>3, <2>7 DEF SaveEdit, Send, Traced, history
    <3>2. editor.id \in Ids /\ editor.text \in Names BY <1>3, <2>7 DEF SaveEdit, TypeOK, Texts
    <3> QED BY <3>1, <3>2, RequestTypes DEF Wanted
  <2>8. ASSUME PressStart PROVE Wanted(q)'
    <3>1. PICK i \in Found : q = StartTimer(i) BY <1>3, <2>8 DEF PressStart, Send
    <3>2. i \in Ids BY <3>1, TableNames DEF Found, TypeOK
    <3> QED BY <3>1, <3>2, RequestTypes DEF Wanted
  <2>9. ASSUME \/ \E t \in Texts : EditName(t)
               \/ \E i \in Ids : StartEdit(i) \/ Pick(i)
               \/ CancelEdit \/ DropForm \/ FetchList \/ UNCHANGED vars
               \/ \E v \in {"projects", "timer"} : SwitchView(v)
        PROVE  FALSE
    BY <1>3, <2>9 DEF EditName, StartEdit, Pick, CancelEdit, DropForm, FetchList, SwitchView, vars
  <2> QED BY <2>1, <2>2, <2>3, <2>4, <2>5, <2>6, <2>7, <2>8, <2>9 DEF Next, Handle
<1> QED BY <1>2, <1>3

LEMMA TracedStep == TypeOK /\ Traced /\ [Next]_vars => Traced'
<1> SUFFICES ASSUME TypeOK, Traced, [Next]_vars PROVE Traced' OBVIOUS
<1>1. \A i \in Ids : given[i] \subseteq given'[i] BY HistoryGrows
<1>2. \A i \in DOMAIN list' : list'[i].name \in given'[i]
  <2>1. (\A i \in DOMAIN rows : i \in Ids) /\ (\A i \in DOMAIN list : i \in Ids) BY TableNames DEF TypeOK
  <2> QED BY <1>1, <2>1, Writers DEF Traced
<1>3. editor'.id # Unset /\ editor'.text # Blank => editor'.text \in given'[editor'.id]
  <2>1. CASE UNCHANGED editor BY <1>1, <2>1 DEF Traced, TypeOK
  <2>2. ASSUME NEW t \in Texts, EditName(t) PROVE editor'.text # Blank => editor'.text \in given'[editor'.id]
    <3>1. editor' = [editor EXCEPT !.text = t] /\ Typed(editor.id, t) /\ editor.id \in Ids
      BY <2>2 DEF EditName, TypeOK
    <3>2. editor'.id = editor.id /\ editor'.text = t BY <3>1 DEF TypeOK
    <3> QED BY <3>1, <3>2 DEF Typed, TypeOK, Texts
  <2>3. ASSUME NEW i \in Ids, StartEdit(i) PROVE editor'.text \in given'[editor'.id]
    <3>1. i \in DOMAIN list /\ editor'.id = i /\ editor'.text = list[i].name BY <2>3 DEF StartEdit
    <3> QED BY <1>1, <3>1 DEF Traced
  <2>4. ASSUME SaveEdit \/ CancelEdit \/ \E v \in {"projects", "timer"} : SwitchView(v) PROVE editor'.id = Unset
    BY <2>4 DEF SaveEdit, CancelEdit, SwitchView, NoEditor, TypeOK
  <2>5. \/ UNCHANGED editor
        \/ \E t \in Texts : EditName(t)
        \/ \E i \in Ids : StartEdit(i)
        \/ SaveEdit \/ CancelEdit
        \/ \E v \in {"projects", "timer"} : SwitchView(v)
    <3>1. ASSUME NEW r \in requests, Handle(r) PROVE UNCHANGED editor
      BY <3>1 DEF Handle, client, CheckName, Insert, WriteName, WriteActive, HandleStart, Answered
    <3>2. ASSUME NEW n \in Names, OthersCreate(n) \/ AddProject(n) PROVE UNCHANGED editor
      BY <3>2 DEF client, OthersCreate, AddProject
    <3>3. ASSUME NEW i \in Ids, \/ \E n \in Names : OthersRename(i, n)
                                \/ \E b \in BOOLEAN : OthersSwitch(i, b)
                                \/ ToggleActive(i) \/ Pick(i)
          PROVE  UNCHANGED editor
      BY <3>3 DEF client, OthersRename, OthersSwitch, ToggleActive, Pick, InTimer
    <3>4. ASSUME DropForm \/ PressStart \/ FetchList \/ UNCHANGED vars PROVE UNCHANGED editor
      BY <3>4 DEF DropForm, PressStart, FetchList, InTimer, vars, client
    <3> QED BY <3>1, <3>2, <3>3, <3>4 DEF Next
  <2> QED BY <2>1, <2>2, <2>3, <2>4, <2>5
<1> QED BY <1>2, <1>3, RowsTraced, RequestsTraced DEF Traced

\* A project gets no name that was never typed for it and is archived or restored
\* only if that was pressed: refreshes of the list under an open editor and requests
\* of others in between never make a rename or a switch of something else.
THEOREM ChangesTheorem == Spec => ChangesAreAskedFor
<1>1. TypeOK /\ Traced /\ [Next]_vars
      => [RowsAsAsked]_vars
  <2> SUFFICES ASSUME TypeOK, Traced, [Next]_vars PROVE RowsAsAsked OBVIOUS
  <2> QED BY RowsTraced DEF RowsAsAsked
<1> QED BY <1>1, TypeInit, TypeStep, TracedInit, TracedStep, PTL DEF Spec, ChangesAreAskedFor

-----------------------------------------------------------------------------
(* Starting by name. *)

PickIsListed == picked # Unset => picked.id \in DOMAIN list

\* Lists only grow.
LEMMA ListsGrow ==
  ASSUME TypeOK, [Next]_vars PROVE DOMAIN list \subseteq DOMAIN list'
BY Writers DEF TypeOK

\* Only picking fills the form.
LEMMA PickStep == TypeOK /\ PickIsListed /\ [Next]_vars => PickIsListed'
<1> SUFFICES ASSUME TypeOK, PickIsListed, [Next]_vars, picked' # Unset PROVE picked'.id \in DOMAIN list'
  BY DEF PickIsListed
<1>1. ASSUME NEW i \in Ids, Pick(i) PROVE picked'.id \in DOMAIN list
  BY <1>1 DEF Pick
<1>2. ASSUME NEW r \in requests, Handle(r) PROVE UNCHANGED picked
  BY <1>2 DEF Handle, client, CheckName, Insert, WriteName, WriteActive, HandleStart, Answered
<1>3. ASSUME NEW n \in Names, OthersCreate(n) \/ AddProject(n) PROVE UNCHANGED picked
  BY <1>3 DEF client, OthersCreate, AddProject, InProjects
<1>4. ASSUME NEW i \in Ids, \/ \E n \in Names : OthersRename(i, n)
                            \/ \E b \in BOOLEAN : OthersSwitch(i, b)
                            \/ StartEdit(i) \/ ToggleActive(i)
      PROVE  UNCHANGED picked
  BY <1>4 DEF client, OthersRename, OthersSwitch, StartEdit, ToggleActive, InProjects
<1>5. ASSUME \/ \E t \in Texts : EditName(t)
             \/ SaveEdit \/ CancelEdit \/ FetchList \/ UNCHANGED vars
      PROVE  UNCHANGED picked
  BY <1>5 DEF EditName, SaveEdit, CancelEdit, FetchList, InProjects, vars, client
<1>6. ASSUME DropForm \/ PressStart \/ \E v \in {"projects", "timer"} : SwitchView(v) PROVE picked' = Unset
  BY <1>6 DEF DropForm, PressStart, SwitchView
<1>7. UNCHANGED picked \/ \E i \in Ids : Pick(i)
  BY <1>2, <1>3, <1>4, <1>5, <1>6 DEF Next
<1> QED BY <1>1, <1>7, ListsGrow DEF PickIsListed

\* Whom a press of Start may start: names in a list are distinct, so if another has
\* the name, the project picked has lost it.
LEMMA FoundIsPickOrHeir ==
  ASSUME TypeOK, Named, Traced, PickIsListed, picked # Unset, NEW i \in Found
  PROVE  i = picked.id \/ NamePassedTo(i)
<1>1. i \in DOMAIN list /\ list[i].name = picked.name /\ picked.id \in DOMAIN list
  BY DEF Found, PickIsListed
<1>2. CASE i # picked.id
  <2>1. list[picked.id].name # picked.name BY <1>1, <1>2 DEF Named, Distinct
  <2>2. list[picked.id].name \in given[picked.id] /\ list[i].name \in given[i] BY <1>1 DEF Traced
  <2> QED BY <1>1, <2>1, <2>2 DEF NamePassedTo
<1> QED BY <1>2

\* The start form starts the project picked, or one to which its name has passed;
\* starts come from nowhere else.
THEOREM PickTheorem == Spec => PickFollowsItsName
<1>1. ASSUME TypeOK, Named, Traced, PickIsListed, [Next]_vars, NEW q \in requests' \ requests, q.kind = "start"
      PROVE  q.id = picked.id \/ NamePassedTo(q.id)
  <2>1. ASSUME PressStart PROVE q.id = picked.id \/ NamePassedTo(q.id)
    <3>1. PICK i \in Found : Send(StartTimer(i)) BY <1>1, <2>1 DEF PressStart
    <3>2. q = StartTimer(i) BY <1>1, <3>1 DEF Send
    <3>3. q.id = i BY <3>2 DEF StartTimer
    <3>4. picked # Unset BY <2>1 DEF PressStart
    <3> QED BY <1>1, <3>3, <3>4, FoundIsPickOrHeir
  <2>2. ASSUME NEW r \in requests, CheckName(r) PROVE FALSE
    <3>1. r \in Request /\ r.kind \in {"create", "rename"} BY <1>1, <2>2 DEF CheckName, TypeOK
    <3> DEFINE c == [r EXCEPT !.stage = "checked"]
    <3>2. c.kind = r.kind BY <3>1, CheckedRequest
    <3>3. q = c BY <1>1, <2>2 DEF CheckName
    <3> QED BY <1>1, <3>1, <3>2, <3>3
  <2>3. ASSUME NEW r \in requests, Insert(r) \/ WriteName(r) \/ WriteActive(r) \/ HandleStart(r) PROVE FALSE
    BY <1>1, <2>3 DEF Insert, WriteName, WriteActive, HandleStart, Answered
  <2>4. ASSUME NEW n \in Names, OthersCreate(n) \/ AddProject(n) PROVE FALSE
    BY <1>1, <2>4 DEF OthersCreate, AddProject, Send, Create
  <2>5. ASSUME NEW i \in Ids, NEW n \in Names, OthersRename(i, n) PROVE FALSE
    BY <1>1, <2>5 DEF OthersRename, Send, Rename
  <2>6. ASSUME NEW i \in Ids, NEW b \in BOOLEAN, OthersSwitch(i, b) PROVE FALSE
    BY <1>1, <2>6 DEF OthersSwitch, Send, Switch
  <2>7. ASSUME NEW i \in Ids, StartEdit(i) \/ ToggleActive(i) \/ Pick(i) PROVE FALSE
    BY <1>1, <2>7 DEF StartEdit, ToggleActive, Pick, Send, Switch
  <2>8. ASSUME SaveEdit PROVE FALSE
    BY <1>1, <2>8 DEF SaveEdit, Send, Rename
  <2>9. ASSUME \/ \E t \in Texts : EditName(t)
               \/ CancelEdit \/ DropForm \/ FetchList \/ UNCHANGED vars
               \/ \E v \in {"projects", "timer"} : SwitchView(v)
        PROVE  FALSE
    BY <1>1, <2>9 DEF EditName, CancelEdit, DropForm, FetchList, SwitchView, vars
  <2> QED BY <1>1, <2>1, <2>2, <2>3, <2>4, <2>5, <2>6, <2>7, <2>8, <2>9 DEF Next, Handle
<1>2. TypeOK /\ Named /\ Traced /\ PickIsListed /\ [Next]_vars
      => [StartsPickOrHeir]_vars
  BY <1>1 DEF StartsPickOrHeir
<1>3. Init => PickIsListed BY DEF Init, PickIsListed
<1> QED BY <1>2, <1>3, PickStep, TypeInit, TypeStep, NamedInit, NamedStep, TracedInit, TracedStep, PTL
        DEF Spec, PickFollowsItsName

=============================================================================
