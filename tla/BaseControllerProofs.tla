------------------------ MODULE BaseControllerProofs ------------------------
(* Theorems about the handlers of BaseController, for any table, any number *)
(* of clients and any requests: what has been destroyed stays gone, what was *)
(* saved is kept, and a request that nobody interferes with does all that   *)
(* was asked or nothing.                                                    *)
EXTENDS BaseController, TLAPS

Places == {"idle", "repository", "answered"} \cup Statement

\* A client that has not begun has made no request, and its request says how
\* far it can come.
WorkOf(p) ==
  /\ pc[p] = "idle" => req[p] = NoRequest /\ answer[p] = NoAnswer
  /\ pc[p] # "idle" => req[p].kind \in Kinds
  /\ req[p].kind \in {"show", "update", "destroy"} => req[p].id \in Id
  /\ req[p].kind \in {"create", "update"} /\ "id" \in DOMAIN req[p].data =>
       req[p].data.id \in Id
  /\ answer[p].status = 204 => req[p].kind = "destroy" /\ pc[p] = "answered"
  /\ pc[p] \in {"countFirst", "rows", "count"} => req[p].kind = "index"
  /\ pc[p] = "find" => req[p].kind \in {"show", "update", "destroy"}
  /\ pc[p] = "reload" => req[p].kind \in {"create", "update"}
  /\ pc[p] = "write" => req[p].kind \in {"create", "update", "destroy"}
  /\ loaded[p] # None => pc[p] \in {"write", "answered"}
  /\ loaded[p] # None => req[p].kind \in {"create", "update"}

Shapes ==
  /\ pc \in [Client -> Places]
  /\ DOMAIN req = Client /\ DOMAIN before = Client /\ DOMAIN answer = Client
  /\ DOMAIN record = Client /\ DOMAIN loaded = Client /\ DOMAIN fault = Client
  /\ others \in [Client -> Nat]
  /\ DOMAIN table = Id

WorkInv == Shapes /\ \A p \in Client : WorkOf(p)

LEMMA WorkInit == Init => WorkInv
BY TablesAreTables
   DEF Init, WorkInv, Shapes, WorkOf, TablesAreTables, NoRequest, NoAnswer, Places

\* What client p does leaves the work of the others alone, and they notice it
\* if it changes the table.
Acts(p) == (\E r \in Requests : Begin(p, r)) \/ FollowNextPage(p) \/ Step(p)

Untouched(q) ==
  /\ pc'[q] = pc[q] /\ req'[q] = req[q] /\ answer'[q] = answer[q]
  /\ before'[q] = before[q] /\ record'[q] = record[q] /\ loaded'[q] = loaded[q]
  /\ fault'[q] = fault[q]
  /\ others'[q] = 0 => others[q] = 0 /\ table' = table

LEMMA OthersUntouched ==
  ASSUME WorkInv, NEW p \in Client, Acts(p), NEW q \in Client \ {p}
  PROVE  Untouched(q)
<1> USE DEF WorkInv, Shapes, Untouched, dataVars, workVars, noteVars, Goto, Answer
<1>1. CASE \E r \in Requests : Begin(p, r)
  BY <1>1 DEF Begin, PassMiddlewares
<1>2. CASE FollowNextPage(p)
  BY <1>2 DEF FollowNextPage
<1>3. CASE GetRepository(p) \/ Fail(p)
  <2>1. CASE Fail(p)
    BY <2>1 DEF Fail
  <2>2. ASSUME GetRepository(p)
        PROVE  Untouched(q)
    <3>1. pc'[q] = pc[q] /\ answer'[q] = answer[q]
      BY <2>2 DEF GetRepository
    <3> QED
      BY <2>2, <3>1 DEF GetRepository
  <2> QED
    BY <1>3, <2>1, <2>2
<1>4. CASE GetCount(p) \/ GetMany(p) \/ CountRows(p)
  <2>1. CASE GetCount(p)
    BY <2>1 DEF GetCount
  <2>2. CASE GetMany(p)
    BY <2>2 DEF GetMany, List
  <2>3. CASE CountRows(p)
    BY <2>3 DEF CountRows, List
  <2> QED
    BY <1>4, <2>1, <2>2, <2>3
<1>5. CASE FindOne(p) \/ Reload(p)
  <2>1. CASE Reload(p)
    BY <2>1 DEF Reload
  <2>2. ASSUME FindOne(p)
        PROVE  Untouched(q)
    <3> DEFINE i == req[p].id
    <3>1. req[p].kind \in {"show", "update", "destroy"}
      BY <2>2 DEF FindOne, WorkOf
    <3>2. CASE table[i] = None
      BY <2>2, <3>2 DEF FindOne
    <3>3. CASE table[i] # None /\ req[p].kind = "show"
      BY <2>2, <3>3 DEF FindOne
    <3>4. CASE table[i] # None /\ req[p].kind = "update"
      BY <2>2, <3>4 DEF FindOne
    <3>5. CASE table[i] # None /\ req[p].kind = "destroy"
      BY <2>2, <3>5 DEF FindOne
    <3> QED
      BY <3>1, <3>2, <3>3, <3>4, <3>5
  <2> QED
    BY <1>5, <2>1, <2>2
<1>7. CASE FindWithRelations(p)
  BY <1>7 DEF FindWithRelations
<1>6. CASE Write(p)
  <2>1. ASSUME NEW new, NEW a, WriteTable(p, new, a)
        PROVE  /\ answer'[q] = answer[q] /\ pc'[q] = pc[q] /\ fault'[q] = fault[q]
               /\ others'[q] = 0 => others[q] = 0 /\ table' = table
    BY <2>1 DEF WriteTable
  <2>2. CASE InsertRow(p)
    BY <1>6, <2>1, <2>2 DEF Write, InsertRow
  <2>3. CASE UpdateRow(p)
    BY <1>6, <2>1, <2>3 DEF Write, UpdateRow
  <2>4. CASE RemoveRow(p)
    BY <1>6, <2>1, <2>4 DEF Write, RemoveRow
  <2> QED
    BY <1>6, <2>2, <2>3, <2>4 DEF Write
<1> QED
  BY <1>1, <1>2, <1>3, <1>4, <1>5, <1>6, <1>7 DEF Acts, Step

\* What a write leaves of its own request: it is answered, and with the
\* status of its kind or a refusal.
LEMMA WriteAnswers ==
  ASSUME Shapes, NEW p \in Client, Write(p)
  PROVE  /\ pc'[p] = "answered" /\ others'[p] = others[p]
         /\ answer'[p].status = 204 => req[p].kind = "destroy"
<1>1. pc \in [Client -> Places] /\ DOMAIN answer = Client /\ others \in [Client -> Nat]
  BY DEF Shapes
<1>2. ASSUME NEW new, NEW a, WriteTable(p, new, a)
      PROVE  /\ pc'[p] = "answered" /\ others'[p] = others[p]
             /\ answer'[p] \in {a, [status |-> 422]}
  BY <1>1, <1>2 DEF WriteTable, Answer, Goto
<1>3. CASE InsertRow(p)
  <2>1. PICK new : \/ WriteTable(p, new, Saved(p, nextId))
                   \/ WriteTable(p, new, Saved(p, record[p].id))
                   \/ Answer(p, [status |-> 422]) /\ UNCHANGED others
    BY <1>3 DEF InsertRow
  <2>2. CASE Answer(p, [status |-> 422]) /\ UNCHANGED others
    BY <1>1, <2>2 DEF Answer, Goto
  <2>3. ASSUME NEW i, WriteTable(p, new, Saved(p, i))
        PROVE  /\ pc'[p] = "answered" /\ others'[p] = others[p]
               /\ answer'[p].status # 204
    BY <1>2, <2>3 DEF Saved
  <2> QED
    BY <2>1, <2>2, <2>3
<1>4. CASE UpdateRow(p)
  <2>1. PICK new : WriteTable(p, new, Saved(p, record[p].id))
    BY <1>4 DEF UpdateRow
  <2> QED
    BY <1>2, <2>1 DEF Saved
<1>5. CASE RemoveRow(p)
  BY <1>2, <1>5 DEF RemoveRow
<1> QED
  BY <1>3, <1>4, <1>5 DEF Write

LEMMA WorkStep ==
  ASSUME WorkInv, NEW p \in Client, Acts(p)
  PROVE  WorkOf(p)'
<1>1. Shapes /\ WorkOf(p)
  BY DEF WorkInv
<1> USE DEF Goto, Answer, workVars, noteVars
<1>2. ASSUME NEW r \in Requests, Begin(p, r)
      PROVE  WorkOf(p)'
  <2>1. req'[p] = r /\ loaded'[p] = loaded[p] /\ pc[p] = "idle"
    BY <1>1, <1>2 DEF Begin, Shapes
  <2>2. pc'[p] \in {"answered", "repository"}
    BY <1>1, <1>2 DEF Begin, PassMiddlewares, Shapes
  <2>3. answer'[p] = answer[p] \/ answer'[p].status \in {400, 422}
    BY <1>1, <1>2 DEF Begin, PassMiddlewares, Shapes
  <2>4. /\ r.kind \in Kinds
        /\ r.kind \in {"show", "update", "destroy"} => r.id \in Id
        /\ r.kind \in {"create", "update"} /\ "id" \in DOMAIN r.data =>
             r.data.id \in Id
    BY RequestsAreRequests DEF RequestsAreRequests, IsData
  <2> QED
    BY <1>1, <2>1, <2>2, <2>3, <2>4 DEF WorkOf, NoAnswer
<1>3. CASE FollowNextPage(p)
  <2>1. /\ req[p].kind = "index" /\ pc'[p] = "repository"
        /\ answer'[p] = answer[p] /\ loaded'[p] = loaded[p]
        /\ answer[p].status = 200
    BY <1>1, <1>3 DEF FollowNextPage, Shapes
  <2>2. req'[p].kind = "index"
    BY <1>1, <1>3, <2>1 DEF FollowNextPage, Shapes
  <2> QED
    BY <1>1, <2>1, <2>2 DEF WorkOf, Kinds
<1>4. CASE Fail(p)
  <2>1. pc'[p] = "answered" /\ pc[p] # "idle" /\ answer'[p].status = 422
    BY <1>1, <1>4 DEF Fail, Shapes, Statement
  <2>2. UNCHANGED <<req, loaded>>
    BY <1>4 DEF Fail
  <2> QED
    BY <1>1, <2>1, <2>2 DEF WorkOf
<1>5. CASE GetRepository(p)
  <2>1. pc[p] = "repository" /\ UNCHANGED <<req, loaded>>
    BY <1>5 DEF GetRepository
  <2>2. req[p].kind \in Kinds
    BY <1>1, <2>1 DEF WorkOf
  <2>3. \/ pc'[p] = "answered" /\ answer'[p].status = 422
        \/ /\ answer' = answer
           /\ pc'[p] \in CASE req[p].kind = "index"  -> {"countFirst", "rows"}
                           [] req[p].kind = "create" -> {"reload", "write"}
                           [] OTHER                  -> {"find"}
    <3>1. CASE req[p].kind = "index"
      BY <1>1, <1>5, <3>1 DEF GetRepository, Shapes
    <3>2. CASE req[p].kind = "create"
      BY <1>1, <1>5, <3>2 DEF GetRepository, Shapes
    <3>3. CASE req[p].kind \notin {"index", "create"}
      BY <1>1, <1>5, <3>3 DEF GetRepository, Shapes
    <3> QED
      BY <3>1, <3>2, <3>3
  <2>4. CASE req[p].kind = "index"
    BY <1>1, <2>1, <2>3, <2>4 DEF WorkOf, Kinds
  <2>5. CASE req[p].kind = "create"
    BY <1>1, <2>1, <2>3, <2>5 DEF WorkOf, Kinds
  <2>6. CASE req[p].kind \in {"show", "update", "destroy"}
    BY <1>1, <2>1, <2>3, <2>6 DEF WorkOf, Kinds
  <2> QED
    BY <2>2, <2>4, <2>5, <2>6 DEF Kinds
<1>6. CASE GetCount(p) \/ GetMany(p) \/ CountRows(p)
  <2>1. UNCHANGED <<req, loaded>> /\ pc[p] \in {"countFirst", "rows", "count"}
    BY <1>6 DEF GetCount, GetMany, CountRows
  <2>2. \/ pc'[p] \in {"rows", "count"} /\ answer' = answer
        \/ pc'[p] = "answered" /\ answer'[p].status = 200
    <3>1. CASE GetCount(p)
      BY <1>1, <3>1 DEF GetCount, Shapes
    <3>2. CASE GetMany(p)
      BY <1>1, <3>2 DEF GetMany, List, Shapes
    <3>3. CASE CountRows(p)
      BY <1>1, <3>3 DEF CountRows, List, Shapes
    <3> QED
      BY <1>6, <3>1, <3>2, <3>3
  <2> QED
    BY <1>1, <2>1, <2>2 DEF WorkOf
<1>7. CASE FindOne(p)
  <2> DEFINE i == req[p].id
  <2>1. pc[p] = "find" /\ UNCHANGED <<req, loaded>>
    BY <1>7 DEF FindOne
  <2>2. req[p].kind \in {"show", "update", "destroy"}
    BY <1>1, <2>1 DEF WorkOf
  <2>3. \/ pc'[p] = "answered" /\ answer'[p].status \in {200, 404}
        \/ req[p].kind = "update" /\ pc'[p] = "reload" /\ answer' = answer
        \/ req[p].kind = "destroy" /\ pc'[p] = "write" /\ answer' = answer
    <3>1. CASE table[i] = None
      BY <1>1, <1>7, <3>1 DEF FindOne, Shapes
    <3>2. CASE table[i] # None /\ req[p].kind = "show"
      BY <1>1, <1>7, <3>2 DEF FindOne, Shapes
    <3>3. CASE table[i] # None /\ req[p].kind = "update"
      BY <1>1, <1>7, <3>3 DEF FindOne, Shapes
    <3>4. CASE table[i] # None /\ req[p].kind = "destroy"
      BY <1>1, <1>7, <3>4, ZenonT(40) DEF FindOne, Shapes
    <3> QED
      BY <2>2, <3>1, <3>2, <3>3, <3>4
  <2> QED
    BY <1>1, <2>1, <2>2, <2>3 DEF WorkOf
<1>8. CASE Reload(p)
  <2>1. /\ pc[p] = "reload" /\ pc'[p] = "write"
        /\ UNCHANGED <<req, answer>>
    BY <1>1, <1>8 DEF Reload, Shapes
  <2> QED
    BY <1>1, <2>1 DEF WorkOf
<1>9. CASE Write(p)
  <2>1. pc[p] = "write" /\ UNCHANGED <<req, loaded>> /\ pc'[p] = "answered"
    BY <1>1, <1>9, WriteAnswers DEF Write, workVars
  <2>2. answer'[p].status = 204 => req[p].kind = "destroy"
    BY <1>1, <1>9, WriteAnswers
  <2> QED
    BY <1>1, <2>1, <2>2 DEF WorkOf
<1>10. CASE FindWithRelations(p)
  <2>1. /\ pc[p] = "find" /\ pc'[p] = "answered" /\ answer'[p].status = 422
        /\ UNCHANGED <<req, loaded>>
    BY <1>1, <1>10 DEF FindWithRelations, Shapes
  <2> QED
    BY <1>1, <2>1 DEF WorkOf
<1> QED
  BY <1>2, <1>3, <1>4, <1>5, <1>6, <1>7, <1>8, <1>9, <1>10 DEF Acts, Step

\* The shapes of the variables survive every action.
LEMMA ShapesStep ==
  ASSUME WorkInv, NEW p \in Client, Acts(p)
  PROVE  Shapes'
<1>1. Shapes
  BY DEF WorkInv
<1> USE <1>1 DEF Shapes, Places, Statement, Goto, Answer, dataVars, workVars,
                 noteVars
<1>2. CASE \E r \in Requests : Begin(p, r)
  <2>1. PICK r \in Requests : Begin(p, r)
    BY <1>2
  <2>2. pc' \in [Client -> Places] /\ DOMAIN answer' = Client
    BY <2>1 DEF Begin, PassMiddlewares
  <2>3. others' \in [Client -> Nat]
    BY <2>1 DEF Begin
  <2>4. /\ DOMAIN req' = Client /\ DOMAIN before' = Client
        /\ DOMAIN record' = Client /\ DOMAIN loaded' = Client
        /\ DOMAIN table' = Id /\ DOMAIN fault' = Client
    BY <2>1 DEF Begin
  <2> QED
    BY <2>2, <2>3, <2>4
<1>3. CASE FollowNextPage(p)
  BY <1>3 DEF FollowNextPage
<1>9. CASE Fail(p)
  BY <1>9 DEF Fail
<1>10. CASE FindWithRelations(p)
  BY <1>10 DEF FindWithRelations
<1>4. CASE GetRepository(p)
  <2>1. /\ pc' \in [Client -> Places]
        /\ DOMAIN answer' = Client
    BY <1>4 DEF GetRepository
  <2> QED
    BY <1>4, <2>1 DEF GetRepository
<1>5. CASE GetCount(p) \/ GetMany(p) \/ CountRows(p)
  <2>1. CASE GetCount(p)
    BY <2>1 DEF GetCount
  <2>2. CASE GetMany(p)
    BY <2>2 DEF GetMany, List
  <2>3. CASE CountRows(p)
    BY <2>3 DEF CountRows, List
  <2> QED
    BY <1>5, <2>1, <2>2, <2>3
<1>6. CASE FindOne(p)
  <2> DEFINE i == req[p].id
  <2>1. req[p].kind \in {"show", "update", "destroy"}
    BY <1>6 DEF FindOne, WorkInv, WorkOf
  <2>2. /\ pc' \in [Client -> Places]
        /\ DOMAIN answer' = Client /\ DOMAIN record' = Client
    <3>1. CASE table[i] = None
      BY <1>6, <3>1 DEF FindOne
    <3>2. CASE table[i] # None /\ req[p].kind = "show"
      BY <1>6, <3>2 DEF FindOne
    <3>3. CASE table[i] # None /\ req[p].kind = "update"
      BY <1>6, <3>3 DEF FindOne
    <3>4. CASE table[i] # None /\ req[p].kind = "destroy"
      BY <1>6, <3>4 DEF FindOne
    <3> QED
      BY <2>1, <3>1, <3>2, <3>3, <3>4
  <2> QED
    BY <1>6, <2>2 DEF FindOne
<1>7. CASE Reload(p)
  BY <1>7 DEF Reload
<1>8. CASE Write(p)
  <2>1. CASE InsertRow(p)
    <3>1. DOMAIN answer' = Client /\ pc' \in [Client -> Places]
      BY <1>8, <2>1 DEF InsertRow, WriteTable
    <3>2. others' \in [Client -> Nat]
      BY <1>8, <2>1 DEF InsertRow, WriteTable
    <3>3. DOMAIN table' = Id
      BY <1>8, <2>1 DEF InsertRow, WriteTable
    <3>4. DOMAIN fault' = Client
      BY <1>8, <2>1 DEF InsertRow, WriteTable
    <3> QED
      BY <1>8, <3>1, <3>2, <3>3, <3>4 DEF Write
  <2>2. CASE UpdateRow(p)
    <3>1. DOMAIN answer' = Client /\ pc' \in [Client -> Places]
      BY <1>8, <2>2 DEF UpdateRow, WriteTable
    <3>2. others' \in [Client -> Nat]
      BY <1>8, <2>2 DEF UpdateRow, WriteTable
    <3>3. DOMAIN table' = Id
      BY <1>8, <2>2 DEF UpdateRow, WriteTable
    <3>4. DOMAIN fault' = Client
      BY <1>8, <2>2 DEF UpdateRow, WriteTable
    <3> QED
      BY <1>8, <3>1, <3>2, <3>3, <3>4 DEF Write
  <2>3. CASE RemoveRow(p)
    <3>1. DOMAIN answer' = Client /\ pc' \in [Client -> Places]
      BY <1>8, <2>3 DEF RemoveRow, WriteTable
    <3>2. others' \in [Client -> Nat]
      BY <1>8, <2>3 DEF RemoveRow, WriteTable
    <3>3. DOMAIN table' = Id
      BY <1>8, <2>3 DEF RemoveRow, WriteTable
    <3>4. DOMAIN fault' = Client
      BY <1>8, <2>3 DEF RemoveRow, WriteTable
    <3> QED
      BY <1>8, <3>1, <3>2, <3>3, <3>4 DEF Write
  <2> QED
    BY <1>8, <2>1, <2>2, <2>3 DEF Write
<1> QED
  BY <1>2, <1>3, <1>4, <1>5, <1>6, <1>7, <1>8, <1>9, <1>10 DEF Acts, Step

LEMMA WorkInductive == WorkInv /\ [Next]_vars => WorkInv'
<1>1. ASSUME WorkInv, NEW p \in Client, Acts(p)
      PROVE  WorkInv'
  <2>1. ASSUME NEW q \in Client
        PROVE  WorkOf(q)'
    <3>1. CASE q = p
      BY <1>1, <3>1, WorkStep
    <3>2. CASE q # p
      <4>1. Untouched(q) /\ WorkOf(q)
        BY <1>1, <3>2, OthersUntouched DEF WorkInv
      <4> QED
        BY <4>1 DEF Untouched, WorkOf
    <3> QED
      BY <3>1, <3>2
  <2> QED
    BY <1>1, <2>1, ShapesStep DEF WorkInv
<1>2. ASSUME WorkInv, UNCHANGED vars
      PROVE  WorkInv'
  BY <1>2 DEF WorkInv, Shapes, WorkOf, vars, dataVars, workVars, noteVars
<1> QED
  BY <1>1, <1>2 DEF Next, Acts

LEMMA WorkAlways == Spec => []WorkInv
BY WorkInit, WorkInductive, PTL DEF Spec

-----------------------------------------------------------------------------
(* What has been destroyed stays gone                                       *)

\* Some request may bring row i into being.
MayAppear(i) == \E r \in Client : MayInsert(r, i)

\* What an update saves is a row that there was, or one its data name.
SavesWhatWas ==
  \A p \in Client :
    pc[p] \in {"reload", "write"} /\ req[p].kind = "update" =>
      /\ "id" \in DOMAIN record[p]
      /\ record[p].id \in Id
      /\ \A i \in Id : record[p].id = i => MayAppear(i)

\* A row that was not there when a request began, and is there, has appeared.
NewHasAppeared ==
  \A p \in Client, i \in Id :
    pc[p] # "idle" /\ before[p][i] = None /\ table[i] # None => MayAppear(i)

GoneInv == SavesWhatWas /\ NewHasAppeared /\ DeletedStaysGone

\* A request that may insert a row goes on to be one.
LEMMA MayAppearStays ==
  ASSUME WorkInv, NEW p \in Client, Acts(p), NEW i, MayAppear(i)
  PROVE  MayAppear(i)'
<1>1. PICK r \in Client : MayInsert(r, i)
  BY DEF MayAppear
<1>2. CASE r # p
  BY <1>1, <1>2, OthersUntouched DEF MayInsert, MayAppear, Untouched
<1>3. CASE r = p
  <2>1. req[p].kind \in {"create", "update"}
    BY <1>1, <1>3 DEF MayInsert
  <2>2. ~ \E x \in Requests : Begin(p, x)
    BY <2>1 DEF WorkInv, WorkOf, Begin, NoRequest
  <2>3. ~FollowNextPage(p)
    BY <2>1 DEF FollowNextPage
  <2>4. req' = req /\ before' = before
    BY <2>2, <2>3 DEF Acts, Step, GetRepository, GetCount, GetMany, CountRows,
                      FindOne, FindWithRelations, Reload, Write, Fail, noteVars
  <2> QED
    BY <1>1, <1>3, <2>4 DEF MayInsert, MayAppear
<1> QED
  BY <1>2, <1>3

\* Only an INSERT brings a row into being.
LEMMA OnlyInsertsInsert ==
  ASSUME WorkInv, SavesWhatWas, NEW p \in Client, Acts(p),
         NEW i \in Id, table[i] = None, table'[i] # None
  PROVE  MayAppear(i)
<1>1. Write(p)
  <2>1. table' # table
    OBVIOUS
  <2> QED
    BY <2>1 DEF Acts, Step, Begin, FollowNextPage, GetRepository, GetCount,
                GetMany, CountRows, FindOne, FindWithRelations, Reload, Fail,
                dataVars
<1>2. DOMAIN table = Id /\ WorkOf(p)
  BY DEF WorkInv, Shapes
<1>3. CASE InsertRow(p)
  <2>1. CASE req[p].kind = "create"
    BY <2>1 DEF MayAppear, MayInsert
  <2>2. CASE req[p].kind = "update"
    <3>1. /\ "id" \in DOMAIN record[p]
          /\ \A j \in Id : record[p].id = j => MayAppear(j)
      BY <1>1, <2>2 DEF SavesWhatWas, Write
    <3>2. i = record[p].id
      BY <1>2, <1>3, <3>1 DEF InsertRow, WriteTable
    <3> QED
      BY <3>1, <3>2
  <2> QED
    BY <1>3, <2>1, <2>2 DEF InsertRow
<1>4. CASE UpdateRow(p)
  BY <1>2, <1>4 DEF UpdateRow, WriteTable
<1>5. CASE RemoveRow(p)
  BY <1>2, <1>5 DEF RemoveRow, WriteTable
<1> QED
  BY <1>1, <1>3, <1>4, <1>5 DEF Write

LEMMA SavesStep ==
  ASSUME WorkInv, SavesWhatWas, NewHasAppeared, NEW p \in Client, Acts(p)
  PROVE  SavesWhatWas'
<1> SUFFICES ASSUME NEW q \in Client, pc'[q] \in {"reload", "write"},
                    req'[q].kind = "update"
             PROVE  /\ "id" \in DOMAIN record'[q]
                    /\ record'[q].id \in Id
                    /\ \A i \in Id : record'[q].id = i => MayAppear(i)'
  BY DEF SavesWhatWas
<1>1. CASE /\ record'[q] = record[q] /\ req'[q] = req[q]
           /\ pc[q] \in {"reload", "write"}
  BY <1>1, MayAppearStays DEF SavesWhatWas
<1>2. CASE q # p
  BY <1>1, <1>2, OthersUntouched DEF Untouched
<1>3. CASE q = p
  <2> USE <1>3
  <2>1. WorkOf(p) /\ Shapes
    BY DEF WorkInv
  <2>2. CASE FindOne(p)
    <3> DEFINE i == req[p].id
    <3>1. /\ req[p].kind = "update" /\ i \in Id /\ req' = req /\ pc[p] = "find"
          /\ "id" \in DOMAIN req[p].data => req[p].data.id \in Id
      BY <2>1, <2>2 DEF FindOne, WorkOf
    <3>2. table[i] # None
      BY <2>1, <2>2, <3>1 DEF FindOne, Answer, Goto, Shapes
    <3>3. record'[p] = Assign(Entity(i), req[p].data)
      BY <2>1, <2>2, <3>1, <3>2 DEF FindOne, Shapes
    <3>4. /\ "id" \in DOMAIN record'[p]
          /\ record'[p].id =
               IF "id" \in DOMAIN req[p].data THEN req[p].data.id ELSE i
      BY <3>3 DEF Assign, Entity
    <3>5. ASSUME NEW j \in Id, record'[p].id = j
          PROVE  MayAppear(j)
      <4>1. CASE "id" \in DOMAIN req[p].data
        BY <3>1, <4>1 DEF MayAppear, MayInsert
      <4>2. CASE "id" \notin DOMAIN req[p].data /\ before[p][i] # None
        BY <3>1, <3>4, <3>5, <4>2 DEF MayAppear, MayInsert
      <4>3. CASE "id" \notin DOMAIN req[p].data /\ before[p][i] = None
        BY <3>1, <3>2, <3>4, <3>5, <4>3 DEF NewHasAppeared
      <4> QED
        BY <4>1, <4>2, <4>3
    <3> QED
      BY <3>1, <3>4, <3>5, MayAppearStays
  <2>3. CASE Reload(p)
    BY <1>1, <2>1, <2>3 DEF Reload, Goto, Shapes
  <2>4. ~ GetRepository(p)
    BY <2>1 DEF GetRepository, WorkOf, Shapes, Goto, Answer, Kinds
  <2>5. CASE Write(p)
    BY <2>1, <2>5, WriteAnswers
  <2>6. CASE Fail(p) \/ GetCount(p) \/ GetMany(p) \/ CountRows(p)
    BY <2>1, <2>6 DEF Fail, GetCount, GetMany, CountRows, List, Answer, Goto,
                      Shapes
  <2>8. CASE FindWithRelations(p)
    BY <2>1, <2>8 DEF FindWithRelations, Answer, Goto, Shapes
  <2>7. CASE FollowNextPage(p) \/ \E r \in Requests : Begin(p, r)
    BY <2>1, <2>7 DEF FollowNextPage, Begin, PassMiddlewares, Answer, Goto,
                      Shapes
  <2> QED
    BY <2>2, <2>3, <2>4, <2>5, <2>6, <2>7, <2>8 DEF Acts, Step
<1> QED
  BY <1>2, <1>3

LEMMA AppearedStep ==
  ASSUME WorkInv, SavesWhatWas, NewHasAppeared, NEW p \in Client, Acts(p)
  PROVE  NewHasAppeared'
<1> SUFFICES ASSUME NEW q \in Client, NEW i \in Id, pc'[q] # "idle",
                    before'[q][i] = None, table'[i] # None
             PROVE  MayAppear(i)'
  BY DEF NewHasAppeared
<1>1. CASE pc[q] # "idle" /\ before'[q] = before[q]
  <2>1. CASE table[i] # None
    BY <1>1, <2>1, MayAppearStays DEF NewHasAppeared
  <2>2. CASE table[i] = None
    BY <2>2, OnlyInsertsInsert, MayAppearStays
  <2> QED
    BY <2>1, <2>2
<1>2. CASE q # p
  BY <1>1, <1>2, OthersUntouched DEF Untouched
<1>3. CASE q = p /\ ~ \E r \in Requests : Begin(p, r)
  <2>1. before' = before
    BY <1>3 DEF Acts, Step, FollowNextPage, GetRepository, GetCount, GetMany,
                CountRows, FindOne, FindWithRelations, Reload, Write, Fail, noteVars
  <2>2. pc[p] # "idle"
    BY <1>3 DEF Acts, Step, FollowNextPage, GetRepository, GetCount, GetMany,
                CountRows, FindOne, FindWithRelations, Reload, Write, Fail,
                Statement
  <2> QED
    BY <1>1, <1>3, <2>1, <2>2
<1>4. CASE q = p /\ \E r \in Requests : Begin(p, r)
  BY <1>4 DEF Begin, dataVars, WorkInv, Shapes
<1> QED
  BY <1>2, <1>3, <1>4

LEMMA DeletedStep ==
  ASSUME WorkInv, WorkInv', SavesWhatWas, DeletedStaysGone,
         NEW p \in Client, Acts(p)
  PROVE  DeletedStaysGone'
<1> SUFFICES ASSUME NEW q \in Client, answer'[q].status = 204,
                    table'[req'[q].id] # None
             PROVE  (\E r \in Client \ {q} : MayInsert(r, req[q].id))'
  BY DEF DeletedStaysGone
<1>1. req'[q].kind = "destroy" /\ req'[q].id \in Id /\ pc'[q] = "answered"
  BY DEF WorkInv, WorkOf
<1>2. PICK i \in Id : req'[q].id = i
  BY <1>1
<1>3. ASSUME MayAppear(i)
      PROVE  (\E r \in Client \ {q} : MayInsert(r, req[q].id))'
  <2>1. PICK r \in Client : MayInsert(r, i)'
    BY <1>3, MayAppearStays DEF MayAppear
  <2>2. r # q
    BY <1>1, <2>1 DEF MayInsert
  <2> QED
    BY <1>2, <2>1, <2>2 DEF MayInsert
<1>4. CASE req'[q] = req[q] /\ answer'[q] = answer[q]
  <2>1. CASE table[i] # None
    BY <1>2, <1>3, <1>4, <2>1 DEF DeletedStaysGone, MayAppear
  <2>2. CASE table[i] = None
    BY <1>2, <1>3, <2>2, OnlyInsertsInsert
  <2> QED
    BY <2>1, <2>2
<1>5. CASE q # p
  BY <1>4, <1>5, OthersUntouched DEF Untouched
<1>6. CASE q = p
  <2> USE <1>6
  <2>1. Shapes /\ WorkOf(p)
    BY DEF WorkInv
  <2>2. CASE Write(p)
    <3>1. req' = req /\ RemoveRow(p)
      BY <1>1, <2>2 DEF Write, InsertRow, UpdateRow
    <3>2. table'[i] = None
      BY <1>2, <2>1, <3>1 DEF RemoveRow, WriteTable, Answer, Goto, Shapes
    <3> QED
      BY <1>2, <3>2
  <2>3. CASE Fail(p)
    BY <2>1, <2>3 DEF Fail, Answer, Goto, Shapes
  <2>4. CASE \E r \in Requests : Begin(p, r)
    <3>1. answer'[p].status = 204 => answer'[p] = answer[p]
      BY <2>1, <2>4 DEF Begin, PassMiddlewares, Answer, Goto, Shapes
    <3>2. pc[p] = "idle"
      BY <2>4 DEF Begin
    <3> QED
      BY <2>1, <3>1, <3>2 DEF WorkOf, NoAnswer
  <2>5. CASE FollowNextPage(p)
    BY <2>1, <2>5 DEF FollowNextPage
  <2>6. CASE GetCount(p) \/ GetMany(p) \/ CountRows(p)
    BY <1>1, <2>1, <2>6 DEF GetCount, GetMany, CountRows, WorkOf
  <2>7. CASE GetRepository(p)
    <3>1. req' = req /\ pc[p] = "repository"
      BY <2>7 DEF GetRepository
    <3>2. req[p].kind = "destroy"
      BY <1>1, <3>1
    <3> QED
      BY <1>1, <2>1, <2>7, <3>2 DEF GetRepository, Goto, Shapes
  <2>8. CASE FindOne(p)
    <3>1. req' = req
      BY <2>8 DEF FindOne
    <3>2. req[p].kind = "destroy"
      BY <1>1, <3>1
    <3>3. answer'[p].status # 204
      <4>1. CASE table[req[p].id] = None
        BY <2>1, <2>8, <4>1 DEF FindOne, Answer, Shapes
      <4>2. CASE table[req[p].id] # None
        BY <1>1, <2>1, <2>8, <3>2, <4>2 DEF FindOne, Goto, Shapes
      <4> QED
        BY <4>1, <4>2
    <3> QED
      BY <3>3
  <2>9. CASE Reload(p)
    BY <1>1, <2>1, <2>9 DEF Reload, Goto, Shapes
  <2>10. CASE FindWithRelations(p)
    BY <2>1, <2>10 DEF FindWithRelations, Answer, Goto, Shapes
  <2> QED
    BY <2>2, <2>3, <2>4, <2>5, <2>6, <2>7, <2>8, <2>9, <2>10 DEF Acts, Step
<1> QED
  BY <1>5, <1>6

LEMMA GoneInit == Init => GoneInv
BY DEF Init, GoneInv, SavesWhatWas, NewHasAppeared, DeletedStaysGone, NoAnswer

LEMMA GoneInductive == WorkInv /\ WorkInv' /\ GoneInv /\ [Next]_vars => GoneInv'
<1>1. ASSUME WorkInv, WorkInv', GoneInv, NEW p \in Client, Acts(p)
      PROVE  GoneInv'
  BY <1>1, SavesStep, AppearedStep, DeletedStep DEF GoneInv
<1>2. ASSUME GoneInv, UNCHANGED vars
      PROVE  GoneInv'
  BY <1>2 DEF GoneInv, SavesWhatWas, NewHasAppeared, DeletedStaysGone, MayAppear,
              MayInsert, vars, dataVars, workVars, noteVars
<1> QED
  BY <1>1, <1>2 DEF Next, Acts

\* For any table, clients and requests: what was destroyed comes back only
\* through a create, an update that names an id, or one begun before.
THEOREM DeletedAlwaysGone == Spec => []DeletedStaysGone
<1>1. Spec => []GoneInv
  BY WorkAlways, GoneInit, GoneInductive, PTL DEF Spec
<1>2. GoneInv => DeletedStaysGone
  BY DEF GoneInv
<1> QED
  BY <1>1, <1>2, PTL

-----------------------------------------------------------------------------
(* A request alone is atomic                                                *)

\* What p is about to write comes from its data and from the table before.
WritesFromBefore(p) ==
  LET r   == req[p]
      old == before[p][r.id]
  IN  /\ r.kind = "create" => record[p] = r.data
      /\ r.kind = "update" =>
           /\ old # None
           /\ record[p] = Assign([id |-> r.id, name |-> old.name, at |-> old.at], r.data)
      /\ r.kind = "destroy" => old # None
      /\ pc[p] = "reload" \/ loaded[p] # None => "id" \in DOMAIN record[p]
      /\ loaded[p] # None => loaded[p] = table[record[p].id]

AloneOf(p) ==
  pc[p] # "idle" /\ Quiet(p) =>
    /\ pc[p] # "answered" => table = before[p]
    /\ pc[p] = "answered" => AllOrNothing(p)
    /\ pc[p] \in {"reload", "write"} => WritesFromBefore(p)

AloneInv == \A p \in Client : AloneOf(p)

\* A statement that only reads, or that fails.
LEMMA AloneRead ==
  ASSUME WorkInv, NEW p \in Client, AloneOf(p),
         \/ \E r \in Requests : Begin(p, r)
         \/ FollowNextPage(p) \/ GetRepository(p) \/ Fail(p) \/ FindWithRelations(p)
         \/ GetCount(p) \/ GetMany(p) \/ CountRows(p)
  PROVE  AloneOf(p)'
<1>1. Shapes /\ WorkOf(p)
  BY DEF WorkInv
<1> USE DEF Goto, Answer
<1>2. CASE \E r \in Requests : Begin(p, r)
  <2>1. PICK r \in Requests : Begin(p, r)
    BY <1>2
  <2>2. table' = before'[p] /\ req'[p] = r
    BY <1>1, <2>1 DEF Begin, Shapes, dataVars
  <2>3. \/ pc'[p] = "repository"
        \/ pc'[p] = "answered" /\ answer'[p].status \in {400, 422}
    BY <1>1, <2>1 DEF Begin, PassMiddlewares, Shapes
  <2> QED
    BY <2>2, <2>3 DEF AloneOf, AllOrNothing, Done
<1>3. CASE FollowNextPage(p)
  <2>1. /\ req[p].kind = "index" /\ pc[p] = "answered" /\ answer[p].status = 200
        /\ UNCHANGED <<table, before, others>> /\ pc'[p] = "repository"
    BY <1>1, <1>3 DEF FollowNextPage, Shapes, dataVars, noteVars
  <2>2. Quiet(p) => table = before[p]
    BY <2>1 DEF AloneOf, AllOrNothing, Done
  <2> QED
    BY <2>1, <2>2 DEF AloneOf, Quiet
<1>4. CASE Fail(p) \/ FindWithRelations(p)
  <2>1. /\ pc[p] \notin {"idle", "answered"} /\ UNCHANGED <<table, before, others>>
        /\ pc'[p] = "answered" /\ answer'[p].status = 422
    <3>1. CASE Fail(p)
      BY <1>1, <3>1 DEF Fail, Statement, Shapes, dataVars
    <3>2. CASE FindWithRelations(p)
      BY <1>1, <3>2 DEF FindWithRelations, Shapes, dataVars, noteVars
    <3> QED
      BY <1>4, <3>1, <3>2
  <2> QED
    BY <2>1 DEF AloneOf, Quiet, AllOrNothing, Done
<1>5. CASE GetRepository(p)
  <2>1. /\ pc[p] = "repository" /\ UNCHANGED <<table, before, others, req, loaded>>
    BY <1>5 DEF GetRepository, dataVars, noteVars
  <2>2. loaded[p] = None /\ req[p].kind \in Kinds
    BY <1>1, <2>1 DEF WorkOf
  <2>3. CASE req[p].kind = "index"
    <3>1. \/ pc'[p] = "answered" /\ answer'[p].status = 422
          \/ pc'[p] \in {"countFirst", "rows"}
      BY <1>1, <1>5, <2>3 DEF GetRepository, Shapes
    <3> QED
      BY <2>1, <2>3, <3>1 DEF AloneOf, Quiet, AllOrNothing, Done
  <2>4. CASE req[p].kind = "create"
    <3>1. record'[p] = req[p].data /\ pc'[p] \in {"reload", "write"}
      BY <1>1, <1>5, <2>4 DEF GetRepository, Shapes
    <3>2. pc'[p] = "reload" => "id" \in DOMAIN req[p].data
      BY <1>1, <1>5, <2>4 DEF GetRepository, Shapes
    <3> QED
      BY <2>1, <2>2, <2>4, <3>1, <3>2 DEF AloneOf, Quiet, WritesFromBefore
  <2>5. CASE req[p].kind \in {"show", "update", "destroy"}
    <3>1. pc'[p] = "find"
      BY <1>1, <1>5, <2>5 DEF GetRepository, Shapes
    <3> QED
      BY <2>1, <3>1 DEF AloneOf, Quiet
  <2> QED
    BY <2>2, <2>3, <2>4, <2>5 DEF Kinds
<1>6. CASE GetCount(p) \/ GetMany(p) \/ CountRows(p)
  <2>1. /\ pc[p] \in {"countFirst", "rows", "count"}
        /\ UNCHANGED <<table, before, others, req>>
    BY <1>6 DEF GetCount, GetMany, CountRows, dataVars, noteVars
  <2>2. \/ pc'[p] \in {"rows", "count"}
        \/ pc'[p] = "answered" /\ answer'[p].status = 200
    <3>1. CASE GetCount(p)
      BY <1>1, <3>1 DEF GetCount, Shapes
    <3>2. CASE GetMany(p)
      BY <1>1, <3>2 DEF GetMany, List, Shapes
    <3>3. CASE CountRows(p)
      BY <1>1, <3>3 DEF CountRows, List, Shapes
    <3> QED
      BY <1>6, <3>1, <3>2, <3>3
  <2>3. req[p].kind = "index"
    BY <1>1, <2>1 DEF WorkOf
  <2> QED
    BY <2>1, <2>2, <2>3 DEF AloneOf, Quiet, AllOrNothing, Done
<1> QED
  BY <1>2, <1>3, <1>4, <1>5, <1>6

\* The lookups.
LEMMA AloneFind ==
  ASSUME WorkInv, NEW p \in Client, AloneOf(p), FindOne(p) \/ Reload(p)
  PROVE  AloneOf(p)'
<1>1. Shapes /\ WorkOf(p)
  BY DEF WorkInv
<1> USE DEF Goto, Answer
<1>2. CASE FindOne(p)
  <2> DEFINE i == req[p].id
  <2>1. /\ pc[p] = "find" /\ UNCHANGED <<table, before, others, req, loaded>>
        /\ loaded[p] = None
        /\ req[p].kind \in {"show", "update", "destroy"}
    BY <1>1, <1>2 DEF FindOne, dataVars, noteVars, WorkOf
  <2>2. CASE table[i] = None
    <3>1. pc'[p] = "answered" /\ answer'[p].status = 404
      BY <1>1, <1>2, <2>2 DEF FindOne, Shapes
    <3> QED
      BY <2>1, <2>2, <3>1 DEF AloneOf, Quiet, AllOrNothing, Done
  <2>3. CASE table[i] # None /\ req[p].kind = "show"
    <3>1. pc'[p] = "answered" /\ answer'[p].status = 200
      BY <1>1, <1>2, <2>3 DEF FindOne, Shapes
    <3> QED
      BY <2>1, <2>3, <3>1 DEF AloneOf, Quiet, AllOrNothing, Done
  <2>4. CASE table[i] # None /\ req[p].kind = "update"
    <3>1. pc'[p] = "reload" /\ record'[p] = Assign(Entity(i), req[p].data)
      BY <1>1, <1>2, <2>4 DEF FindOne, Shapes
    <3> QED
      BY <2>1, <2>4, <3>1 DEF AloneOf, Quiet, WritesFromBefore, Entity, Assign
  <2>5. CASE table[i] # None /\ req[p].kind = "destroy"
    <3>1. pc'[p] = "write"
      BY <1>1, <1>2, <2>5 DEF FindOne, Shapes
    <3> QED
      BY <2>1, <2>5, <3>1 DEF AloneOf, Quiet, WritesFromBefore
  <2> QED
    BY <2>1, <2>2, <2>3, <2>4, <2>5
<1>3. CASE Reload(p)
  <2>1. /\ pc[p] = "reload" /\ pc'[p] = "write"
        /\ loaded'[p] = table[record[p].id]
        /\ UNCHANGED <<table, before, others, req, record>>
    BY <1>1, <1>3 DEF Reload, Shapes, dataVars, noteVars
  <2> QED
    BY <2>1 DEF AloneOf, Quiet, WritesFromBefore
<1> QED
  BY <1>2, <1>3

\* The write, which succeeds, meets a constraint or is answered with a failure
\* although it succeeds.
LEMMA AloneWrite ==
  ASSUME WorkInv, NEW p \in Client, AloneOf(p), Write(p)
  PROVE  AloneOf(p)'
<1>1. Shapes /\ WorkOf(p)
  BY DEF WorkInv
<1>2. /\ pc[p] = "write" /\ UNCHANGED <<before, req, record, loaded>>
      /\ req[p].kind \in {"create", "update", "destroy"}
  BY <1>1 DEF Write, workVars, WorkOf
<1>3. pc'[p] = "answered" /\ others'[p] = others[p]
  BY <1>1, WriteAnswers
<1> SUFFICES ASSUME Quiet(p)
             PROVE  AllOrNothing(p)'
  BY <1>3 DEF AloneOf, Quiet
<1>4. table = before[p] /\ WritesFromBefore(p)
  BY <1>2 DEF AloneOf
<1>5. CASE answer'[p].status = 422 /\ table' = table
  BY <1>2, <1>4, <1>5 DEF AllOrNothing, Done
<1>6. ASSUME NEW i \in Id, Written(p, i)',
             \/ answer'[p].status = 422 /\ (fault'[p] \/ req[p].include)
             \/ /\ answer'[p].status \in {200, 201, 204}
                /\ answer'[p].status # 204 => answer'[p].data.id = i
      PROVE  AllOrNothing(p)'
  BY <1>2, <1>6 DEF AllOrNothing, Done
<1>7. ASSUME NEW i \in Id, req[p].kind \in {"create", "update"}
      PROVE  \/ Saved(p, i).status = 422 /\ req[p].include
             \/ Saved(p, i).status \in {200, 201} /\ Saved(p, i).data.id = i
  BY DEF Saved
<1>8. ASSUME NEW new, NEW a, WriteTable(p, new, a)
      PROVE  \/ answer'[p].status = 422 /\ table' = table
             \/ table' = new /\ answer'[p] = a
             \/ table' = new /\ answer'[p].status = 422 /\ fault'[p]
  BY <1>1, <1>8 DEF WriteTable, Answer, Shapes
<1>9. ASSUME NEW i \in Id, req[p].kind \in {"create", "update"},
             IF "id" \in DOMAIN record[p] THEN i = record[p].id ELSE table[i] = None,
             WriteTable(p, [table EXCEPT ![i] =
               [name |-> record[p].name, at |-> record[p].at]], Saved(p, i))
      PROVE  AllOrNothing(p)'
  <2> DEFINE new == [table EXCEPT ![i] = [name |-> record[p].name, at |-> record[p].at]]
  <2>1. ASSUME table' = new
        PROVE  Written(p, i)'
    <3>1. CASE req[p].kind = "create"
      BY <1>2, <1>4, <1>9, <2>1, <3>1 DEF WritesFromBefore, Written
    <3>2. CASE req[p].kind = "update"
      <4> DEFINE old == before[p][req[p].id]
                 New(col) == IF col \in DOMAIN req[p].data
                               THEN req[p].data[col] ELSE old[col]
      <4>1. /\ old # None
            /\ record[p] = Assign([id |-> req[p].id, name |-> old.name, at |-> old.at],
                                  req[p].data)
        BY <1>4, <3>2 DEF WritesFromBefore
      <4>2. /\ i = UpdatedId(req[p])
            /\ record[p].name = New("name")
            /\ record[p].at = New("at")
        BY <1>9, <4>1 DEF Assign, UpdatedId
      <4> QED
        BY <1>2, <1>4, <2>1, <3>2, <4>1, <4>2 DEF Written
    <3> QED
      BY <1>9, <3>1, <3>2
  <2>2. \/ answer'[p].status = 422 /\ table' = table
        \/ table' = new /\ answer'[p] = Saved(p, i)
        \/ table' = new /\ answer'[p].status = 422 /\ fault'[p]
    BY <1>8, <1>9
  <2> HIDE DEF new
  <2>3. CASE table' = new /\ answer'[p] = Saved(p, i)
    BY <1>6, <1>7, <1>9, <2>1, <2>3
  <2>4. CASE table' = new /\ answer'[p].status = 422 /\ fault'[p]
    BY <1>6, <2>1, <2>4
  <2> QED
    BY <1>5, <2>2, <2>3, <2>4
<1>10. CASE InsertRow(p)
  <2>1. PICK i : i = IF "id" \in DOMAIN record[p] THEN record[p].id ELSE nextId
    OBVIOUS
  <2>2. i \in Id /\ req[p].kind \in {"create", "update"}
    BY <1>10, <2>1 DEF InsertRow
  <2>3. \/ Answer(p, [status |-> 422]) /\ table' = table
        \/ /\ table[i] = None
           /\ WriteTable(p, [table EXCEPT ![i] =
                [name |-> record[p].name, at |-> record[p].at]], Saved(p, i))
    BY <1>10, <2>1 DEF InsertRow
  <2>4. CASE Answer(p, [status |-> 422]) /\ table' = table
    BY <1>1, <1>5, <2>4 DEF Answer, Shapes
  <2> QED
    BY <1>9, <2>1, <2>2, <2>3, <2>4
<1>11. CASE UpdateRow(p)
  <2>1. loaded[p] # None /\ req[p].kind \in {"create", "update"}
    BY <1>11 DEF UpdateRow
  <2>2. "id" \in DOMAIN record[p] /\ loaded[p] = table[record[p].id]
    BY <1>4, <2>1 DEF WritesFromBefore
  <2>3. record[p].id \in Id
    <3>1. CASE req[p].kind = "create"
      BY <1>1, <1>4, <2>2, <3>1 DEF WorkOf, WritesFromBefore
    <3>2. CASE req[p].kind = "update"
      BY <1>1, <1>4, <2>2, <3>2 DEF WorkOf, WritesFromBefore, Assign
    <3> QED
      BY <2>1, <3>1, <3>2
  <2>4. WriteTable(p, [table EXCEPT ![record[p].id] =
          [name |-> record[p].name, at |-> record[p].at]], Saved(p, record[p].id))
    BY <1>11, <2>1, <2>2 DEF UpdateRow
  <2> QED
    BY <1>9, <2>1, <2>2, <2>3, <2>4
<1>12. CASE RemoveRow(p)
  <2> DEFINE new == [table EXCEPT ![req[p].id] = None]
  <2>1. req[p].kind = "destroy" /\ req[p].id \in Id
    BY <1>1, <1>12 DEF RemoveRow, WorkOf
  <2>2. ASSUME table' = new
        PROVE  Written(p, req[p].id)'
    BY <1>2, <1>4, <2>1, <2>2 DEF WritesFromBefore, Written
  <2>3. \/ answer'[p].status = 422 /\ table' = table
        \/ table' = new /\ answer'[p].status = 204
        \/ table' = new /\ answer'[p].status = 422 /\ fault'[p]
    BY <1>8, <1>12 DEF RemoveRow
  <2> HIDE DEF new
  <2> QED
    BY <1>2, <1>5, <1>6, <2>1, <2>2, <2>3
<1> QED
  BY <1>10, <1>11, <1>12 DEF Write

LEMMA AloneInductive == WorkInv /\ AloneInv /\ [Next]_vars => AloneInv'
<1>1. ASSUME WorkInv, AloneInv, NEW p \in Client, Acts(p), NEW q \in Client
      PROVE  AloneOf(q)'
  <2>1. CASE q = p
    BY <1>1, <2>1, AloneRead, AloneFind, AloneWrite DEF AloneInv, Acts, Step
  <2>2. CASE q # p
    <3>1. Untouched(q) /\ AloneOf(q)
      BY <1>1, <2>2, OthersUntouched DEF AloneInv
    <3> QED
      BY <3>1 DEF Untouched, AloneOf, Quiet, AllOrNothing, Done,
               Written, UpdatedId, WritesFromBefore
  <2> QED
    BY <2>1, <2>2
<1>2. ASSUME AloneInv, UNCHANGED vars
      PROVE  AloneInv'
  BY <1>2 DEF AloneInv, AloneOf, Quiet, AllOrNothing, Done,
               Written, UpdatedId, WritesFromBefore, vars,
              dataVars, workVars, noteVars
<1> QED
  BY <1>1, <1>2 DEF Next, Acts, AloneInv

\* For any table, clients and requests: when nobody else does anything, a
\* request has done all that was asked or nothing, and its answer says which,
\* unless the database or the relations fail it.
THEOREM AloneAlwaysAtomic == Spec => []AloneIsAtomic
<1>1. Init => AloneInv
  BY DEF Init, AloneInv, AloneOf
<1>2. AloneInv => AloneIsAtomic
  BY DEF AloneInv, AloneOf, AloneIsAtomic
<1> QED
  BY <1>1, <1>2, WorkAlways, AloneInductive, PTL DEF Spec
-----------------------------------------------------------------------------
(* What was saved is kept                                                   *)

Cols == {"name", "at"}

\* Whoever has seen val in column col of row i cannot count on it any more.
Gone(i, col, val) == Destroyed(i) \/ \E q \in Client : Overwrites(q, i, col, val)

Present(i) == table[i] # None \/ Destroyed(i)

Kept(i, col, val) == (table[i] # None /\ table[i][col] = val) \/ Gone(i, col, val)

\* The columns cols of vals, which somebody has seen in row i.
Intact(i, cols, vals) == Present(i) /\ \A col \in cols : Kept(i, col, vals[col])

TableOfRows == table \in [Id -> Row \cup {None}]

RequestOf(p) ==
  req[p].kind \in {"create", "update"} =>
    /\ IsData(req[p].data)
    /\ req[p].kind = "create" => {"name", "at"} \subseteq DOMAIN req[p].data

\* What was in the table when p's client began.
SeenOf(p) ==
  pc[p] # "idle" =>
    \A i \in Id : \A row : row = before[p][i] /\ row # None => Intact(i, Cols, row)

\* What p is about to save has the columns that its data name,
EntityOf(p) ==
  pc[p] \in {"reload", "write"} /\ req[p].kind \in {"create", "update"} =>
    /\ record[p].name \in Name /\ record[p].at \in At
    /\ req[p].kind = "create" => record[p] = req[p].data
    /\ req[p].kind = "update" =>
         /\ "id" \in DOMAIN record[p] /\ record[p].id = UpdatedId(req[p])
         /\ \A col \in Cols \cap DOMAIN req[p].data : record[p][col] = req[p].data[col]
    /\ pc[p] = "reload" \/ loaded[p] # None => "id" \in DOMAIN record[p]
    /\ "id" \in DOMAIN record[p] => record[p].id \in Id

\* and, if it is an update, the others as they were unless they are gone.
FoundOf(p) ==
  pc[p] \in {"reload", "write"} /\ req[p].kind = "update" =>
    \A i \in Id : \A row : i = req[p].id /\ row = before[p][i] /\ row # None =>
      \A col \in Cols \ DOMAIN req[p].data :
        record[p][col] = row[col] \/ Gone(i, col, row[col])

\* What save has loaded.
LoadedOf(p) ==
  pc[p] = "write" =>
    \A i \in Id : \A row : i = record[p].id /\ row = loaded[p] /\ row # None =>
      Intact(i, Cols, row)

\* What it has saved.
SavedOf(p) ==
  pc[p] = "answered" /\ req[p].kind \in {"create", "update"} /\ Done(p) =>
    /\ answer[p].data.id \in Id
    /\ \A i \in Id : \A data : i = answer[p].data.id /\ data = req[p].data =>
         Intact(i, Cols \cap DOMAIN data, data)

KeptOf(p) ==
  RequestOf(p) /\ SeenOf(p) /\ EntityOf(p) /\ FoundOf(p) /\ LoadedOf(p) /\ SavedOf(p)

KeptInv == TableOfRows /\ \A p \in Client : KeptOf(p)

LEMMA RequestStays ==
  ASSUME WorkInv, NEW p \in Client, Acts(p), NEW q \in Client,
         req[q].kind \in {"create", "update", "destroy"}
  PROVE  req'[q] = req[q] /\ before'[q] = before[q]
<1>1. CASE q # p
  BY <1>1, OthersUntouched DEF Untouched
<1>2. CASE q = p
  <2>1. ~ \E x \in Requests : Begin(p, x)
    BY <1>2 DEF WorkInv, WorkOf, Begin, NoRequest
  <2>2. ~FollowNextPage(p)
    BY <1>2 DEF FollowNextPage
  <2>3. req' = req /\ before' = before
    BY <2>1, <2>2 DEF Acts, Step, GetRepository, GetCount, GetMany, CountRows,
                      FindOne, FindWithRelations, Reload, Write, Fail, noteVars
  <2> QED
    BY <1>2, <2>3
<1> QED
  BY <1>1, <1>2

LEMMA DestroyedStays ==
  ASSUME WorkInv, NEW p \in Client, Acts(p), NEW i, Destroyed(i)
  PROVE  Destroyed(i)'
<1>1. PICK q \in Client : req[q].kind = "destroy" /\ req[q].id = i
  BY DEF Destroyed
<1>2. req'[q] = req[q]
  BY <1>1, RequestStays
<1> QED
  BY <1>1, <1>2 DEF Destroyed

LEMMA GoneStays ==
  ASSUME WorkInv, NEW p \in Client, Acts(p), NEW i, NEW col, NEW val,
         Gone(i, col, val)
  PROVE  Gone(i, col, val)'
<1>1. CASE Destroyed(i)
  BY <1>1, DestroyedStays DEF Gone
<1>2. ASSUME NEW q \in Client, Overwrites(q, i, col, val)
      PROVE  Gone(i, col, val)'
  <2>1. req[q].kind \in {"create", "update"}
    BY <1>2 DEF Overwrites
  <2>2. req'[q] = req[q] /\ before'[q] = before[q]
    BY <2>1, RequestStays
  <2>3. Overwrites(q, i, col, val)'
    BY <1>2, <2>2 DEF Overwrites, UpdatedId
  <2> QED
    BY <2>3 DEF Gone
<1> QED
  BY <1>1, <1>2 DEF Gone

\* Nothing but a write touches the table.
LEMMA OnlyWritesWrite ==
  ASSUME NEW p \in Client, Acts(p), ~Write(p)
  PROVE  table' = table
BY DEF Acts, Step, Begin, FollowNextPage, GetRepository, GetCount, GetMany, CountRows,
       FindOne, FindWithRelations, Reload, Fail, dataVars

LEMMA WriteOutcome ==
  ASSUME Shapes, NEW p \in Client, NEW new, NEW a, WriteTable(p, new, a)
  PROVE  \/ answer'[p].status = 422 /\ table' = table
         \/ table' = new /\ answer'[p] = a
         \/ table' = new /\ answer'[p].status = 422
BY DEF WriteTable, Answer, Shapes

\* What an UPDATE leaves in column col of row i.
AfterUpdate(p, i, col) ==
  IF record[p][col] # loaded[p][col] THEN record[p][col] ELSE table[i][col]

LEMMA ChangedRow ==
  ASSUME WorkInv, TableOfRows, NEW p \in Client, KeptOf(p), Write(p), UpdateRow(p),
         table[record[p].id] # None
  PROVE  LET i == record[p].id
         IN  /\ i \in Id
             /\ AfterUpdate(p, i, "name") \in Name /\ AfterUpdate(p, i, "at") \in At
             /\ WriteTable(p, [table EXCEPT ![i] =
                  [name |-> AfterUpdate(p, i, "name"), at |-> AfterUpdate(p, i, "at")]],
                  Saved(p, i))
<1>1. /\ pc[p] = "write" /\ loaded[p] # None
      /\ req[p].kind \in {"create", "update"}
  BY DEF Write, UpdateRow
<1>2. record[p].id \in Id /\ record[p].name \in Name /\ record[p].at \in At
  BY <1>1 DEF KeptOf, EntityOf
<1>3. table[record[p].id] \in Row
  BY <1>2 DEF TableOfRows
<1>4. table[record[p].id].name \in Name /\ table[record[p].id].at \in At
  BY <1>3 DEF Row
<1>5. /\ AfterUpdate(p, record[p].id, "name") \in Name
      /\ AfterUpdate(p, record[p].id, "at") \in At
  BY <1>2, <1>4 DEF AfterUpdate
<1> QED
  BY <1>2, <1>5 DEF UpdateRow, AfterUpdate

\* A row of the right columns is no None.
LEMMA RowsAreRows ==
  ASSUME NEW n \in Name, NEW a \in At
  PROVE  [name |-> n, at |-> a] \in Row /\ [name |-> n, at |-> a] # None
<1>1. [name |-> n, at |-> a] \in Row
  BY DEF Row
<1> QED
  BY <1>1, NoneIsNoRow DEF NoneIsNoRow

LEMMA TableStays ==
  ASSUME WorkInv, TableOfRows, NEW p \in Client, KeptOf(p), Acts(p)
  PROVE  TableOfRows'
<1>1. CASE table' = table
  BY <1>1 DEF TableOfRows
<1>2. Shapes
  BY DEF WorkInv
<1>3. ASSUME NEW i \in Id, NEW row \in Row \cup {None}, NEW a,
             WriteTable(p, [table EXCEPT ![i] = row], a)
      PROVE  TableOfRows'
  <2>1. table' = table \/ table' = [table EXCEPT ![i] = row]
    BY <1>2, <1>3, WriteOutcome
  <2> QED
    BY <1>1, <2>1 DEF TableOfRows
<1>4. CASE Write(p) /\ InsertRow(p)
  <2>1. pc[p] = "write" /\ req[p].kind \in {"create", "update"}
    BY <1>4 DEF Write, InsertRow
  <2>2. record[p].name \in Name /\ record[p].at \in At
    BY <2>1 DEF KeptOf, EntityOf
  <2>3. [name |-> record[p].name, at |-> record[p].at] \in Row
    BY <2>2, RowsAreRows
  <2>4. PICK i \in Id :
          \/ table' = table
          \/ WriteTable(p, [table EXCEPT ![i] =
               [name |-> record[p].name, at |-> record[p].at]], Saved(p, i))
    BY <1>4 DEF InsertRow
  <2> QED
    BY <1>1, <1>3, <2>3, <2>4
<1>5. CASE Write(p) /\ UpdateRow(p)
  <2>1. CASE table[record[p].id] # None
    <3> DEFINE i == record[p].id
    <3>1. /\ i \in Id
          /\ AfterUpdate(p, i, "name") \in Name /\ AfterUpdate(p, i, "at") \in At
          /\ WriteTable(p, [table EXCEPT ![i] =
               [name |-> AfterUpdate(p, i, "name"), at |-> AfterUpdate(p, i, "at")]],
               Saved(p, i))
      BY <1>5, <2>1, ChangedRow
    <3>2. [name |-> AfterUpdate(p, i, "name"), at |-> AfterUpdate(p, i, "at")] \in Row
      BY <3>1, RowsAreRows
    <3> QED
      BY <1>3, <3>1, <3>2
  <2>2. CASE table[record[p].id] = None
    <3>1. WriteTable(p, [table EXCEPT ![record[p].id] = None], Saved(p, record[p].id))
      BY <1>5, <2>2 DEF UpdateRow
    <3>2. /\ pc[p] = "write" /\ loaded[p] # None
          /\ req[p].kind \in {"create", "update"}
      BY <1>5 DEF Write, UpdateRow
    <3>3. record[p].id \in Id
      BY <3>2 DEF KeptOf, EntityOf
    <3> QED
      BY <1>3, <3>1, <3>3
  <2> QED
    BY <2>1, <2>2
<1>6. CASE RemoveRow(p)
  <2>1. req[p].id \in Id
    BY <1>6 DEF RemoveRow, WorkInv, WorkOf
  <2> QED
    BY <1>3, <1>6, <2>1 DEF RemoveRow
<1> QED
  BY <1>1, <1>4, <1>5, <1>6, OnlyWritesWrite DEF Write

\* A column of a row changes only by a request that overwrites it.
LEMMA RowWritten ==
  ASSUME WorkInv, TableOfRows, NEW p \in Client, KeptOf(p), Acts(p),
         NEW i \in Id, table[i] # None
  PROVE  \/ Destroyed(i)
         \/ /\ table'[i] # None
            /\ \A col \in Cols :
                 table'[i][col] = table[i][col] \/ Gone(i, col, table[i][col])
<1>1. Shapes /\ WorkOf(p) /\ DOMAIN table = Id
  BY DEF WorkInv, Shapes
<1>2. CASE table'[i] = table[i]
  BY <1>2
<1>3. CASE InsertRow(p)
  <2>1. table'[i] = table[i]
    BY <1>1, <1>3 DEF InsertRow, WriteTable
  <2> QED
    BY <1>2, <2>1
<1>4. CASE RemoveRow(p)
  <2>1. CASE req[p].id = i
    BY <1>4, <2>1 DEF RemoveRow, Destroyed
  <2>2. CASE req[p].id # i
    BY <1>1, <1>2, <1>4, <2>2 DEF RemoveRow, WriteTable
  <2> QED
    BY <2>1, <2>2
<1>5. CASE Write(p) /\ UpdateRow(p)
  <2>1. /\ pc[p] = "write" /\ loaded[p] # None
        /\ req[p].kind \in {"create", "update"}
    BY <1>5 DEF Write, UpdateRow
  <2>2. CASE record[p].id # i
    BY <1>1, <1>2, <1>5, <2>2 DEF UpdateRow, WriteTable
  <2>3. CASE record[p].id = i /\ table'[i] # table[i]
    <3>1. /\ AfterUpdate(p, i, "name") \in Name /\ AfterUpdate(p, i, "at") \in At
          /\ WriteTable(p, [table EXCEPT ![i] =
               [name |-> AfterUpdate(p, i, "name"), at |-> AfterUpdate(p, i, "at")]],
               Saved(p, i))
      BY <1>5, <2>3, ChangedRow
    <3>2. table'[i] = [name |-> AfterUpdate(p, i, "name"), at |-> AfterUpdate(p, i, "at")]
      <4>1. table' = table
              \/ table' = [table EXCEPT ![i] =
                    [name |-> AfterUpdate(p, i, "name"), at |-> AfterUpdate(p, i, "at")]]
        BY <3>1 DEF WriteTable
      <4> QED
        BY <1>1, <2>3, <4>1
    <3>3. table'[i] # None
      BY <3>1, <3>2, RowsAreRows
    <3>4. ASSUME NEW col \in Cols
          PROVE  table'[i][col] = AfterUpdate(p, i, col)
      BY <3>2 DEF Cols
    <3>5. ASSUME NEW col \in Cols, NEW val, val = table[i][col],
                 AfterUpdate(p, i, col) # val
          PROVE  Gone(i, col, val)
      <4>1. record[p][col] # val
        BY <3>5 DEF AfterUpdate
      <4>2. CASE req[p].kind = "create"
        <5>1. /\ record[p] = req[p].data /\ "id" \in DOMAIN record[p]
          BY <2>1, <4>2 DEF KeptOf, EntityOf
        <5>2. Overwrites(p, i, col, val)
          BY <2>3, <4>1, <4>2, <5>1 DEF Overwrites
        <5> QED
          BY <5>2 DEF Gone
      <4>3. CASE req[p].kind = "update"
        <5>1. UpdatedId(req[p]) = i /\ req[p].id \in Id
          BY <1>1, <2>1, <2>3, <4>3 DEF KeptOf, EntityOf, WorkOf
        <5>2. CASE col \in DOMAIN req[p].data
          <6>1. record[p][col] = req[p].data[col]
            BY <2>1, <4>3, <5>2 DEF KeptOf, EntityOf
          <6>2. Overwrites(p, i, col, val)
            BY <4>1, <4>3, <5>1, <5>2, <6>1 DEF Overwrites
          <6> QED
            BY <6>2 DEF Gone
        <5>3. CASE /\ col \notin DOMAIN req[p].data
                   /\ req[p].id = i /\ before[p][i] # None /\ before[p][i][col] = val
          <6>1. record[p][col] = val \/ Gone(i, col, val)
            BY <2>1, <4>3, <5>3 DEF KeptOf, FoundOf
          <6> QED
            BY <4>1, <6>1
        <5>4. CASE /\ col \notin DOMAIN req[p].data
                   /\ \/ req[p].id # i \/ before[p][i] = None
                      \/ before[p][i] # None /\ before[p][i][col] # val
          <6>1. Overwrites(p, i, col, val)
            BY <4>3, <5>1, <5>4 DEF Overwrites
          <6> QED
            BY <6>1 DEF Gone
        <5> QED
          BY <5>2, <5>3, <5>4
      <4> QED
        BY <2>1, <4>2, <4>3
    <3> QED
      BY <3>3, <3>4, <3>5
  <2> QED
    BY <1>2, <2>2, <2>3
<1> QED
  BY <1>1, <1>2, <1>3, <1>4, <1>5, OnlyWritesWrite DEF Write

LEMMA KeptStays ==
  ASSUME WorkInv, TableOfRows, NEW p \in Client, KeptOf(p), Acts(p),
         NEW i \in Id, NEW col \in Cols, NEW val, Kept(i, col, val)
  PROVE  Kept(i, col, val)'
<1>1. CASE Gone(i, col, val)
  BY <1>1, GoneStays DEF Kept
<1>2. CASE Destroyed(i)
  BY <1>1, <1>2 DEF Gone
<1>3. CASE table[i] # None /\ table[i][col] = val /\ ~Gone(i, col, val)
  <2>1. ~Destroyed(i)
    BY <1>3 DEF Gone
  <2>2. table'[i] # None /\ table'[i][col] = val
    BY <1>3, <2>1, RowWritten
  <2> QED
    BY <2>2 DEF Kept
<1> QED
  BY <1>1, <1>3 DEF Kept

LEMMA IntactStays ==
  ASSUME WorkInv, TableOfRows, NEW p \in Client, KeptOf(p), Acts(p),
         NEW i \in Id, NEW cols \in SUBSET Cols, NEW vals, Intact(i, cols, vals)
  PROVE  Intact(i, cols, vals)'
<1>1. Present(i)'
  <2>1. CASE Destroyed(i)
    BY <2>1, DestroyedStays DEF Present
  <2>2. CASE table[i] # None /\ ~Destroyed(i)
    <3>1. table'[i] # None
      BY <2>2, RowWritten
    <3> QED
      BY <3>1 DEF Present
  <2> QED
    BY <2>1, <2>2 DEF Intact, Present
<1>2. ASSUME NEW col \in cols
      PROVE  Kept(i, col, vals[col])'
  BY KeptStays DEF Intact
<1> QED
  BY <1>1, <1>2 DEF Intact

\* What others do leaves q with what it has seen.
LEMMA KeptOther ==
  ASSUME WorkInv, KeptInv, NEW p \in Client, Acts(p), NEW q \in Client \ {p}
  PROVE  KeptOf(q)'
<1>1. Untouched(q) /\ KeptOf(p) /\ KeptOf(q) /\ TableOfRows
  BY OthersUntouched DEF KeptInv
<1>2. ASSUME NEW i \in Id, NEW cols \in SUBSET Cols, NEW vals, Intact(i, cols, vals)
      PROVE  Intact(i, cols, vals)'
  BY <1>1, <1>2, IntactStays
<1>3. RequestOf(q)'
  BY <1>1 DEF KeptOf, RequestOf, Untouched
<1>4. SeenOf(q)'
  BY <1>1, <1>2 DEF KeptOf, SeenOf, Untouched
<1>5. EntityOf(q)'
  BY <1>1 DEF KeptOf, EntityOf, Untouched, UpdatedId
<1>6. FoundOf(q)'
  <2>1. ASSUME NEW i \in Id, NEW col, NEW val, Gone(i, col, val)
        PROVE  Gone(i, col, val)'
    BY <2>1, GoneStays
  <2> QED
    BY <1>1, <2>1 DEF KeptOf, FoundOf, Untouched
<1>7. LoadedOf(q)'
  BY <1>1, <1>2 DEF KeptOf, LoadedOf, Untouched
<1>8. SavedOf(q)'
  BY <1>1, <1>2 DEF KeptOf, SavedOf, Untouched, Done
<1> QED
  BY <1>3, <1>4, <1>5, <1>6, <1>7, <1>8 DEF KeptOf

LEMMA RequestIsRequest ==
  ASSUME WorkInv, NEW p \in Client, KeptOf(p), Acts(p)
  PROVE  RequestOf(p)'
<1>1. DOMAIN req = Client
  BY DEF WorkInv, Shapes
<1>2. CASE \E r \in Requests : Begin(p, r)
  BY <1>1, <1>2, RequestsAreRequests DEF Begin, RequestOf
<1>3. CASE FollowNextPage(p)
  BY <1>1, <1>3 DEF FollowNextPage, RequestOf
<1>4. CASE req' = req
  BY <1>4 DEF KeptOf, RequestOf
<1> QED
  BY <1>2, <1>3, <1>4
     DEF Acts, Step, GetRepository, GetCount, GetMany, CountRows, FindOne,
         FindWithRelations, Reload, Write, Fail

LEMMA SeenStays ==
  ASSUME WorkInv, TableOfRows, NEW p \in Client, KeptOf(p), Acts(p)
  PROVE  SeenOf(p)'
<1>1. DOMAIN before = Client
  BY DEF WorkInv, Shapes
<1>2. CASE \E r \in Requests : Begin(p, r)
  <2>1. before'[p] = table /\ table' = table
    BY <1>1, <1>2 DEF Begin, dataVars
  <2>2. ASSUME NEW i \in Id, NEW row, row = table[i], row # None
        PROVE  Intact(i, Cols, row)'
    BY <2>1, <2>2 DEF Intact, Present, Kept
  <2> QED
    BY <2>1, <2>2 DEF SeenOf
<1>3. CASE pc[p] # "idle" /\ before' = before
  <2>1. ASSUME NEW i \in Id, NEW row, Intact(i, Cols, row)
        PROVE  Intact(i, Cols, row)'
    BY <2>1, IntactStays
  <2> QED
    BY <1>3, <2>1 DEF KeptOf, SeenOf
<1> QED
  BY <1>2, <1>3
     DEF Acts, Step, FollowNextPage, GetRepository, GetCount, GetMany, CountRows, FindOne,
         FindWithRelations, Reload, Write, Fail, Statement, noteVars

\* Whatever answers without a write, or answers a list.
LEMMA KeptUnsaved ==
  ASSUME WorkInv, NEW p \in Client, KeptOf(p),
         \/ \E r \in Requests : Begin(p, r)
         \/ FollowNextPage(p) \/ GetCount(p) \/ GetMany(p) \/ CountRows(p)
         \/ FindWithRelations(p) \/ Fail(p)
  PROVE  EntityOf(p)' /\ FoundOf(p)' /\ LoadedOf(p)' /\ SavedOf(p)'
<1>1. Shapes /\ WorkOf(p)
  BY DEF WorkInv
<1> USE DEF Goto, Answer, Shapes
<1>2. CASE \E r \in Requests : Begin(p, r)
  <2>1. \/ pc'[p] = "repository"
        \/ pc'[p] = "answered" /\ answer'[p].status \in {400, 422}
    BY <1>1, <1>2 DEF Begin, PassMiddlewares
  <2> QED
    BY <2>1 DEF EntityOf, FoundOf, LoadedOf, SavedOf, Done
<1>3. CASE FollowNextPage(p)
  <2>1. pc'[p] = "repository"
    BY <1>1, <1>3 DEF FollowNextPage
  <2> QED
    BY <2>1 DEF EntityOf, FoundOf, LoadedOf, SavedOf
<1>4. CASE GetCount(p) \/ GetMany(p) \/ CountRows(p)
  <2>1. /\ pc'[p] \in {"rows", "count", "answered"}
        /\ req' = req /\ req[p].kind = "index"
    BY <1>1, <1>4 DEF GetCount, GetMany, CountRows, List, WorkOf
  <2> QED
    BY <2>1 DEF EntityOf, FoundOf, LoadedOf, SavedOf
<1>5. CASE FindWithRelations(p) \/ Fail(p)
  <2>1. pc'[p] = "answered" /\ answer'[p].status = 422
    BY <1>1, <1>5 DEF FindWithRelations, Fail
  <2> QED
    BY <2>1 DEF EntityOf, FoundOf, LoadedOf, SavedOf, Done
<1> QED
  BY <1>2, <1>3, <1>4, <1>5

LEMMA KeptRepository ==
  ASSUME WorkInv, NEW p \in Client, KeptOf(p), GetRepository(p)
  PROVE  EntityOf(p)' /\ FoundOf(p)' /\ LoadedOf(p)' /\ SavedOf(p)'
<1>1. Shapes /\ WorkOf(p)
  BY DEF WorkInv
<1>2. /\ pc[p] = "repository" /\ req' = req /\ loaded' = loaded
      /\ loaded[p] = None /\ req[p].kind \in Kinds
  BY <1>1 DEF GetRepository, WorkOf
<1>3. CASE req[p].kind = "index"
  BY <1>2, <1>3 DEF EntityOf, FoundOf, LoadedOf, SavedOf
<1>4. CASE req[p].kind = "create"
  <2>1. /\ pc'[p] = IF "id" \in DOMAIN req[p].data THEN "reload" ELSE "write"
        /\ record'[p] = req[p].data
    BY <1>1, <1>4 DEF GetRepository, Goto, Shapes
  <2>2. IsData(req[p].data) /\ {"name", "at"} \subseteq DOMAIN req[p].data
    BY <1>4 DEF KeptOf, RequestOf
  <2>3. EntityOf(p)'
    BY <1>2, <1>4, <2>1, <2>2 DEF EntityOf, IsData
  <2> QED
    BY <1>2, <1>4, <2>1, <2>3 DEF FoundOf, LoadedOf, SavedOf
<1>5. CASE req[p].kind \in {"show", "update", "destroy"}
  <2>1. pc'[p] = "find"
    BY <1>1, <1>5 DEF GetRepository, Goto, Shapes
  <2> QED
    BY <2>1 DEF EntityOf, FoundOf, LoadedOf, SavedOf
<1> QED
  BY <1>2, <1>3, <1>4, <1>5 DEF Kinds

LEMMA KeptFind ==
  ASSUME WorkInv, TableOfRows, NEW p \in Client, KeptOf(p), FindOne(p)
  PROVE  EntityOf(p)' /\ FoundOf(p)' /\ LoadedOf(p)' /\ SavedOf(p)'
<1>1. Shapes /\ WorkOf(p)
  BY DEF WorkInv
<1> DEFINE i == req[p].id
<1>2. /\ pc[p] = "find" /\ req' = req /\ loaded' = loaded /\ before' = before
      /\ loaded[p] = None /\ req[p].kind \in {"show", "update", "destroy"} /\ i \in Id
  BY <1>1 DEF FindOne, WorkOf, noteVars
<1>3. CASE table[i] = None \/ req[p].kind = "show"
  <2>1. pc'[p] = "answered" /\ (req[p].kind = "show" \/ answer'[p].status = 404)
    <3>1. CASE table[i] = None
      BY <1>1, <3>1 DEF FindOne, Goto, Answer, Shapes
    <3>2. CASE table[i] # None /\ req[p].kind = "show"
      BY <1>1, <3>2 DEF FindOne, Goto, Answer, Shapes
    <3> QED
      BY <1>3, <3>1, <3>2
  <2> QED
    BY <1>2, <2>1 DEF EntityOf, FoundOf, LoadedOf, SavedOf, Done
<1>4. CASE table[i] # None /\ req[p].kind = "destroy"
  <2>1. pc'[p] = "write"
    BY <1>1, <1>4 DEF FindOne, Goto, Shapes
  <2> QED
    BY <1>2, <1>4, <2>1 DEF EntityOf, FoundOf, LoadedOf, SavedOf
<1>5. CASE table[i] # None /\ req[p].kind = "update"
  <2>1. pc'[p] = "reload" /\ record'[p] = Assign(Entity(i), req[p].data)
    BY <1>1, <1>5 DEF FindOne, Goto, Shapes
  <2>2. IsData(req[p].data)
    BY <1>5 DEF KeptOf, RequestOf
  <2>3. table[i].name \in Name /\ table[i].at \in At
    BY <1>2, <1>5 DEF TableOfRows, Row
  <2>4. EntityOf(p)'
    <3> DEFINE e == Assign(Entity(i), req[p].data)
    <3>1. e.name \in Name /\ e.at \in At
      BY <2>2, <2>3 DEF Assign, Entity, IsData
    <3>2. "id" \in DOMAIN e /\ e.id = UpdatedId(req[p]) /\ e.id \in Id
      BY <1>2, <2>2 DEF Assign, Entity, IsData, UpdatedId
    <3>3. \A col \in Cols \cap DOMAIN req[p].data : e[col] = req[p].data[col]
      BY DEF Assign, Entity
    <3>4. record'[p] = e
      BY <2>1
    <3> HIDE DEF e
    <3> QED
      BY <1>2, <1>5, <2>1, <3>1, <3>2, <3>3, <3>4 DEF EntityOf, UpdatedId
  <2>5. FoundOf(p)'
    <3>1. ASSUME NEW j \in Id, NEW row, j = i, row = before[p][j], row # None,
                 NEW col \in Cols \ DOMAIN req[p].data
          PROVE  record'[p][col] = row[col] \/ Gone(j, col, row[col])'
      <4>1. record'[p][col] = table[j][col]
        BY <2>1, <3>1 DEF Assign, Entity, Cols
      <4>2. Kept(j, col, row[col])
        BY <1>2, <3>1 DEF KeptOf, SeenOf, Intact
      <4>3. CASE Gone(j, col, row[col])
        BY <4>3, GoneStays DEF Acts, Step
      <4> QED
        BY <4>1, <4>2, <4>3 DEF Kept
    <3> QED
      BY <1>2, <2>1, <3>1 DEF FoundOf
  <2> QED
    BY <2>1, <2>4, <2>5 DEF LoadedOf, SavedOf
<1> QED
  BY <1>2, <1>3, <1>4, <1>5

LEMMA KeptReload ==
  ASSUME WorkInv, TableOfRows, NEW p \in Client, KeptOf(p), Reload(p)
  PROVE  EntityOf(p)' /\ FoundOf(p)' /\ LoadedOf(p)' /\ SavedOf(p)'
<1>1. Shapes /\ WorkOf(p)
  BY DEF WorkInv
<1>2. /\ pc[p] = "reload" /\ pc'[p] = "write" /\ loaded'[p] = table[record[p].id]
      /\ req' = req /\ record' = record /\ before' = before /\ table' = table
      /\ req[p].kind \in {"create", "update"}
  BY <1>1 DEF Reload, Goto, Shapes, WorkOf, dataVars, noteVars
<1>3. EntityOf(p)'
  BY <1>2 DEF KeptOf, EntityOf, UpdatedId
<1>4. FoundOf(p)'
  BY <1>2 DEF KeptOf, FoundOf, Gone, Destroyed, Overwrites, UpdatedId
<1>5. LoadedOf(p)'
  BY <1>2 DEF LoadedOf, Intact, Present, Kept
<1> QED
  BY <1>2, <1>3, <1>4, <1>5 DEF SavedOf

LEMMA KeptWrite ==
  ASSUME WorkInv, TableOfRows, NEW p \in Client, KeptOf(p), Write(p)
  PROVE  EntityOf(p)' /\ FoundOf(p)' /\ LoadedOf(p)' /\ SavedOf(p)'
<1>1. Shapes /\ WorkOf(p) /\ Acts(p) /\ DOMAIN table = Id
  BY DEF WorkInv, Shapes, Acts, Step
<1>2. pc[p] = "write" /\ pc'[p] = "answered" /\ req' = req
  BY <1>1, WriteAnswers DEF Write
<1> SUFFICES ASSUME req[p].kind \in {"create", "update"}, Done(p)'
             PROVE  SavedOf(p)'
  BY <1>2 DEF EntityOf, FoundOf, LoadedOf, SavedOf
<1> DEFINE data == req[p].data
<1>3. /\ record[p].name \in Name /\ record[p].at \in At
      /\ \A col \in Cols \cap DOMAIN data : record[p][col] = data[col]
      /\ "id" \in DOMAIN record[p] => record[p].id \in Id
      /\ loaded[p] # None => "id" \in DOMAIN record[p]
  BY <1>2 DEF KeptOf, EntityOf
<1>4. ASSUME NEW i \in Id, answer'[p].data.id = i, Present(i)',
             \A col \in Cols \cap DOMAIN data :
               \A val : val = data[col] => Kept(i, col, val)'
      PROVE  SavedOf(p)'
  BY <1>2, <1>4 DEF SavedOf, Intact
<1>5. ASSUME NEW i \in Id, NEW new, WriteTable(p, new, Saved(p, i))
      PROVE  table' = new /\ answer'[p].data.id = i
  <2>1. answer'[p].status \in {200, 201, 204}
    BY DEF Done
  <2>2. \/ answer'[p].status = 422
        \/ table' = new /\ answer'[p] = Saved(p, i)
    BY <1>1, <1>5 DEF WriteTable, Answer, Shapes
  <2>3. table' = new /\ answer'[p] = Saved(p, i)
    BY <2>1, <2>2
  <2>4. ~req[p].include
    BY <2>1, <2>3 DEF Saved
  <2> QED
    BY <2>3, <2>4 DEF Saved
<1>6. CASE InsertRow(p)
  <2>1. PICK i : i = IF "id" \in DOMAIN record[p] THEN record[p].id ELSE nextId
    OBVIOUS
  <2>2. PICK row : row = [name |-> record[p].name, at |-> record[p].at]
    OBVIOUS
  <2>3. i \in Id
    BY <1>6, <2>1 DEF InsertRow
  <2>4. \/ Answer(p, [status |-> 422])
        \/ WriteTable(p, [table EXCEPT ![i] = row], Saved(p, i))
    BY <1>6, <2>1, <2>2 DEF InsertRow
  <2>5. ~Answer(p, [status |-> 422])
    BY <1>1 DEF Answer, Shapes, Done
  <2>6. table' = [table EXCEPT ![i] = row] /\ answer'[p].data.id = i
    BY <1>5, <2>3, <2>4, <2>5
  <2>7. table'[i] = row
    BY <1>1, <2>3, <2>6
  <2>8. row # None
    BY <1>3, <2>2, RowsAreRows
  <2>9. Present(i)'
    BY <2>7, <2>8 DEF Present
  <2>10. ASSUME NEW col \in Cols \cap DOMAIN data, NEW val, val = data[col]
         PROVE  Kept(i, col, val)'
    <3>1. row[col] = val
      BY <1>3, <2>2, <2>10 DEF Cols
    <3> QED
      BY <2>7, <2>8, <3>1 DEF Kept
  <2> QED
    BY <1>4, <2>3, <2>6, <2>9, <2>10
<1>7. CASE UpdateRow(p)
  <2>1. PICK i : i = record[p].id
    OBVIOUS
  <2>2. PICK old : old = loaded[p]
    OBVIOUS
  <2>3. i \in Id /\ old # None
    BY <1>3, <1>7, <2>1, <2>2 DEF UpdateRow
  <2>4. Intact(i, Cols, old)
    BY <1>2, <2>1, <2>2, <2>3 DEF KeptOf, LoadedOf
  <2>5. answer'[p].data.id = i
    <3>1. PICK row : WriteTable(p, [table EXCEPT ![i] = row], Saved(p, i))
      BY <1>7, <2>1 DEF UpdateRow
    <3> QED
      BY <1>5, <2>3, <3>1
  <2>6. Present(i)'
    BY <1>1, <2>3, <2>4, IntactStays DEF Intact
  <2>7. ASSUME NEW col \in Cols \cap DOMAIN data, NEW val, val = data[col]
        PROVE  Kept(i, col, val)'
    <3>1. record[p][col] = val
      BY <1>3, <2>7
    <3>2. CASE table[i] = None
      <4>1. Destroyed(i)
        BY <2>4, <3>2 DEF Intact, Present
      <4> QED
        BY <1>1, <4>1, DestroyedStays DEF Kept, Gone
    <3>3. CASE table[i] # None /\ record[p][col] # old[col]
      <4>1. PICK name, at : name = AfterUpdate(p, i, "name") /\ at = AfterUpdate(p, i, "at")
        OBVIOUS
      <4>2. /\ name \in Name /\ at \in At
            /\ WriteTable(p, [table EXCEPT ![i] = [name |-> name, at |-> at]],
                          Saved(p, i))
        BY <1>7, <2>1, <3>3, <4>1, ChangedRow
      <4>3. table' = [table EXCEPT ![i] = [name |-> name, at |-> at]]
        BY <1>5, <2>3, <4>2
      <4>4. table'[i] = [name |-> name, at |-> at]
        BY <1>1, <2>3, <4>3
      <4>5. table'[i][col] = AfterUpdate(p, i, col)
        BY <4>1, <4>4 DEF Cols
      <4>6. AfterUpdate(p, i, col) = val
        BY <2>2, <3>1, <3>3 DEF AfterUpdate
      <4>7. table'[i] # None
        BY <4>2, <4>4, RowsAreRows
      <4> QED
        BY <4>5, <4>6, <4>7 DEF Kept
    <3>4. CASE record[p][col] = old[col]
      <4>1. Kept(i, col, val)
        BY <2>4, <3>1, <3>4 DEF Intact
      <4> QED
        BY <1>1, <2>3, <4>1, KeptStays
    <3> QED
      BY <3>2, <3>3, <3>4
  <2> QED
    BY <1>4, <2>3, <2>5, <2>6, <2>7
<1> QED
  BY <1>6, <1>7 DEF Write, RemoveRow

LEMMA KeptInit == Init => KeptInv
BY TablesAreTables
   DEF Init, TablesAreTables, KeptInv, TableOfRows, KeptOf, RequestOf, SeenOf, EntityOf,
       FoundOf, LoadedOf, SavedOf, NoRequest

LEMMA KeptInductive == WorkInv /\ KeptInv /\ [Next]_vars => KeptInv'
<1>1. ASSUME WorkInv, KeptInv, NEW p \in Client, Acts(p)
      PROVE  KeptInv'
  <2>1. TableOfRows /\ KeptOf(p)
    BY <1>1 DEF KeptInv
  <2>2. TableOfRows'
    BY <1>1, <2>1, TableStays
  <2>3. RequestOf(p)' /\ SeenOf(p)'
    BY <1>1, <2>1, RequestIsRequest, SeenStays
  <2>4. EntityOf(p)' /\ FoundOf(p)' /\ LoadedOf(p)' /\ SavedOf(p)'
    BY <1>1, <2>1, KeptUnsaved, KeptRepository, KeptFind, KeptReload, KeptWrite
       DEF Acts, Step
  <2>5. KeptOf(p)'
    BY <2>3, <2>4 DEF KeptOf
  <2>6. \A q \in Client \ {p} : KeptOf(q)'
    BY <1>1, KeptOther
  <2> QED
    BY <2>2, <2>5, <2>6 DEF KeptInv
<1>2. CASE UNCHANGED vars
  BY <1>2 DEF vars, dataVars, workVars, noteVars, KeptInv, TableOfRows, KeptOf,
              RequestOf, SeenOf, EntityOf, FoundOf, LoadedOf, SavedOf, Intact,
              Present, Kept, Gone, Destroyed, Overwrites, UpdatedId, Done
<1> QED
  BY <1>1, <1>2 DEF Next, Acts

\* What create or update has answered it saved is in the table until somebody
\* destroys the row, writes the same column, or saves a row read before: an
\* update is never lost to one of other columns that began after it (lines
\* 210-219).
THEOREM SavedAlwaysKept == Spec => []SavedIsKept
<1>1. KeptInv => SavedIsKept
  <2> SUFFICES ASSUME KeptInv, NEW p \in Client, pc[p] = "answered",
                      req[p].kind \in {"create", "update"}, Done(p)
               PROVE  LET i == answer[p].data.id
                      IN  \/ Destroyed(i)
                          \/ /\ table[i] # None
                             /\ \A col \in DOMAIN req[p].data \cap {"name", "at"} :
                                  \/ table[i][col] = req[p].data[col]
                                  \/ \E q \in Client :
                                       Overwrites(q, i, col, req[p].data[col])
    BY DEF SavedIsKept
  <2>1. PICK i, data : i = answer[p].data.id /\ data = req[p].data
    OBVIOUS
  <2>2. Intact(i, Cols \cap DOMAIN data, data)
    BY <2>1 DEF KeptInv, KeptOf, SavedOf
  <2> QED
    BY <2>1, <2>2 DEF Intact, Present, Kept, Gone, Cols
<1>2. Spec => []WorkInv
  BY WorkAlways
<1> QED
  BY <1>1, <1>2, KeptInit, KeptInductive, PTL DEF Spec
=============================================================================
