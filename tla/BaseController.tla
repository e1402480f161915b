--------------------------- MODULE BaseController ---------------------------
(***************************************************************************)
(* The handlers of src/src/common/base.controller.ts over one table, as    *)
(* clients and statements of several requests interleave: index, which     *)
(* POST /admin/tenants/all and POST /orders/all mount, and show, create,   *)
(* update and destroy, for which addRestRoutes has routes ready.           *)
(*                                                                         *)
(* A step is one statement and what the handler does with the answer.      *)
(* TypeORM's save reads the row again before it writes, and writes the     *)
(* columns that then differ; getManyAndCount counts only if the rows may   *)
(* not be all.  A client may follow nextPage.  No entity has relations, so *)
(* a findOne that is asked for some rejects without a statement.           *)
(***************************************************************************)
EXTENDS IndexQuery

CONSTANTS
  Client,       \* each makes one request, or pages through one listing
  Id,           \* the ids a table may hold, 1, 2, ...
  Name, At,     \* values of the columns
  Controllers,  \* the controllers to look at
  Tables,       \* what the table may hold at first
  Requests      \* the requests clients may make, with their kind

Row == [name : Name, at : At]

Kinds == {"index", "show", "create", "update", "destroy"}

\* What a client may take for a column.
Key == Column \cup {"other"}

SortKey == [key : Key, dir : {"ASC", "DESC"}]

ListRequest ==
  [kind : {"index"}, getAll : BOOLEAN, page : Int, limit : Int,
   search : {None} \cup SUBSET Name, where : SUBSET [col : Key, val : Int],
   sort : [kind : {"none", "string", "array", "object", "sortKeys"},
           keys : Seq(SortKey)],
   inQuery : BOOLEAN, inner : BOOLEAN, order : {"none", "asc", "desc", "bad"},
   include : BOOLEAN, unreadable : BOOLEAN, tenantId : BOOLEAN]

\* Values for some of the columns.
IsData(data) ==
  /\ DOMAIN data \subseteq Column
  /\ "id" \in DOMAIN data => data.id \in Id
  /\ "name" \in DOMAIN data => data.name \in Name
  /\ "at" \in DOMAIN data => data.at \in At

\* Ids are integers of 32 bits, and all columns are compared as numbers are.
ASSUME ColumnsAreNumbers ==
  Id \subseteq Nat /\ IsFiniteSet(Id) /\ Name \subseteq Int /\ At \subseteq Int
ASSUME NoneIsNoRow == None \notin Row
ASSUME ControllersInherit == Controllers \subseteq {TenantController, OrderController}
ASSUME TablesAreTables == Tables \subseteq [Id -> Row \cup {None}]

\* The path names a row that there may be; no column is left out of a new row.
ASSUME RequestsAreRequests ==
  \A r \in Requests :
    /\ r.kind \in Kinds
    /\ r.include \in BOOLEAN
    /\ r.kind = "index" => r \in ListRequest
    /\ r.kind \in {"show", "update", "destroy"} => r.id \in Id
    /\ r.kind \in {"create", "update"} => IsData(r.data)
    /\ r.kind = "create" => {"name", "at"} \subseteq DOMAIN r.data

VARIABLES
  controller,  \* whose handlers these are
  table,       \* the table
  nextId,      \* the next value of the sequence of its ids
  pc,          \* where each client's request is
  req,         \* the request; its page moves on along nextPage
  rows,        \* the ids that getMany returned
  total,       \* the count
  record,      \* the entity that findOne or create returned, None before
  loaded,      \* what save found in the table for its id
  answer,      \* the response
  received,    \* the pages that the client's listing has had so far
  before,      \* the table when the client began
  others,      \* writes of others since
  fault        \* whether the database failed what it could have executed

dataVars == <<controller, table, nextId>>
workVars == <<rows, total, record, loaded>>
noteVars == <<received, before, others, fault>>
vars == <<dataVars, pc, req, workVars, answer, noteVars>>

NoAnswer == [status |-> 0]
Statement == {"countFirst", "rows", "count", "find", "reload", "write"}

TypeOK ==
  /\ table \in [Id -> Row \cup {None}]
  /\ pc \in [Client -> {"idle", "repository", "answered"} \cup Statement]
  /\ \A p \in Client :
       /\ total[p] \in Nat /\ others[p] \in Nat
       /\ answer[p].status \in {0, 200, 201, 204, 400, 404, 422}
       /\ rows[p] # << >> => Len(rows[p]) <= Limit(req[p])
       /\ record[p] = None \/ DOMAIN record[p] \subseteq Column

-----------------------------------------------------------------------------
Goto(p, place) == pc' = [pc EXCEPT ![p] = place]

Answer(p, a) == Goto(p, "answered") /\ answer' = [answer EXCEPT ![p] = a]

\* The response of index.
List(p, ids, count) ==
  LET q == req[p]
  IN  /\ Answer(p, [status |-> 200, ids |-> ids, totalRecords |-> count,
                    nextPage |-> IsNextPage(q, count),
                    prevPage |-> Page(q) - 1 > 0])
      /\ received' = [received EXCEPT ![p] = Append(@, [page |-> Page(q), ids |-> ids])]

\* validator.middleware('list') and TenantMiddleware.identify.
Validated(r) == controller.validated /\ r.kind = "index" => ListSchema(r)

Identified(r) == controller.validated \/ r.tenantId

\* A route's middlewares let r pass to its handler or answer themselves.
PassMiddlewares(p, r) ==
  CASE ~Validated(r)  -> Answer(p, [status |-> 422])
    [] ~Identified(r) -> Answer(p, [status |-> 400])
    [] OTHER          -> Goto(p, "repository") /\ UNCHANGED answer

Begin(p, r) ==
  /\ pc[p] = "idle"
  /\ req' = [req EXCEPT ![p] = r]
  /\ before' = [before EXCEPT ![p] = table]
  /\ others' = [others EXCEPT ![p] = 0]
  /\ PassMiddlewares(p, r)
  /\ UNCHANGED <<dataVars, workVars, received, fault>>

\* The client asks for the page after the one it got.
FollowNextPage(p) ==
  /\ pc[p] = "answered"
  /\ req[p].kind = "index" /\ answer[p].status = 200
  /\ answer[p].nextPage
  /\ req' = [req EXCEPT ![p].page = Page(req[p]) + 1, ![p].getAll = FALSE]
  /\ Goto(p, "repository")
  /\ rows' = [rows EXCEPT ![p] = << >>]
  /\ UNCHANGED <<dataVars, total, record, loaded, answer, noteVars>>

\* The repository is there, and the handler runs up to its first statement.
GetRepository(p) ==
  /\ pc[p] = "repository"
  /\ LET r == req[p]
     IN  CASE r.kind = "index" /\ BadOrder(r) -> Answer(p, [status |-> 422])
           [] r.kind = "index" /\ ~BadOrder(r) ->
                /\ Goto(p, IF HasSearch(r, controller) THEN "countFirst" ELSE "rows")
                /\ UNCHANGED answer
           [] r.kind = "create" ->
                /\ Goto(p, IF "id" \in DOMAIN r.data THEN "reload" ELSE "write")
                /\ UNCHANGED answer
           [] OTHER -> Goto(p, "find") /\ UNCHANGED answer
  /\ record' = [record EXCEPT ![p] = IF req[p].kind = "create" THEN req[p].data ELSE None]
  /\ UNCHANGED <<dataVars, req, rows, total, loaded, noteVars>>

\* Any statement may fail, getConnection too, and one that is not executable
\* does: handleError.
Fail(p) ==
  /\ pc[p] \in Statement \/ (pc[p] = "repository" /\ ~controller.validated)
  /\ fault' = [fault EXCEPT ![p] =
                 req[p].kind = "index" => Executable(req[p], controller)]
  /\ Answer(p, [status |-> 422])
  /\ UNCHANGED <<dataVars, req, workVars, received, before, others>>

-----------------------------------------------------------------------------
(* index                                                                    *)

Matches(p) == Matching(table, req[p], controller)

\* A search counts before it reads.
GetCount(p) ==
  /\ pc[p] = "countFirst"
  /\ Countable(req[p], controller)
  /\ total' = [total EXCEPT ![p] = Cardinality(Matches(p))]
  /\ Goto(p, "rows")
  /\ UNCHANGED <<dataVars, req, rows, record, loaded, answer, noteVars>>

\* Mutant of LazyCount: the rows of the pages before are not added.
LazyCountHere(q, ids) == Len(ids)

LazyCount(q, ids) == Skip(q) + Len(ids)

\* The rows.  After a search they are all that is left to read; otherwise a
\* full page leaves the count to a statement, and so may an empty page past
\* the first, depending on TypeORM's version.
GetMany(p) ==
  /\ pc[p] = "rows"
  /\ Executable(req[p], controller)
  /\ \E s \in Sorted(table, OrderOf(req[p], controller), Matches(p)) :
       LET q   == req[p]
           ids == Cut(q, s)
       IN  /\ rows' = [rows EXCEPT ![p] = ids]
           /\ \/ /\ HasSearch(q, controller)
                 /\ List(p, ids, total[p])
                 /\ UNCHANGED total
              \/ /\ ~HasSearch(q, controller)
                 /\ Len(ids) < Limit(q)
                 /\ total' = [total EXCEPT ![p] = LazyCount(q, ids)]
                 /\ List(p, ids, LazyCount(q, ids))
              \/ /\ ~HasSearch(q, controller)
                 /\ Len(ids) = Limit(q) \/ (ids = << >> /\ Skip(q) > 0)
                 /\ Goto(p, "count")
                 /\ UNCHANGED <<total, answer, received>>
  /\ UNCHANGED <<dataVars, req, record, loaded, before, others, fault>>

CountRows(p) ==
  /\ pc[p] = "count"
  /\ total' = [total EXCEPT ![p] = Cardinality(Matches(p))]
  /\ List(p, rows[p], Cardinality(Matches(p)))
  /\ UNCHANGED <<dataVars, req, rows, record, loaded, before, others, fault>>

-----------------------------------------------------------------------------
(* show, create, update, destroy                                            *)

Entity(i) == [id |-> i, name |-> table[i].name, at |-> table[i].at]

\* Mutant of Assign: the data are the target of Object.assign.
AssignToData(entity, data) == entity @@ data

\* Object.assign(record, data)
Assign(entity, data) ==
  [col \in DOMAIN entity \cup DOMAIN data |->
     IF col \in DOMAIN data THEN data[col] ELSE entity[col]]

\* Mutant of FindOne: update goes on without a record.
FindOneOrNew(p) ==
  /\ pc[p] = "find"
  /\ LET i     == req[p].id
         found == IF table[i] # None THEN Entity(i) ELSE [id |-> i, name |-> 1, at |-> 1]
     IN  \/ /\ req[p].kind = "update"
            /\ record' = [record EXCEPT ![p] = Assign(found, req[p].data)]
            /\ Goto(p, "reload")
         \/ /\ req[p].kind = "destroy" /\ table[i] # None
            /\ record' = [record EXCEPT ![p] = found]
            /\ Goto(p, "write")
  /\ UNCHANGED <<dataVars, req, rows, total, loaded, answer, noteVars>>

\* Only show looks the row up with the relations of the body: findOne rejects.
FindWithRelations(p) ==
  /\ pc[p] = "find"
  /\ req[p].kind = "show" /\ req[p].include
  /\ Answer(p, [status |-> 422])
  /\ UNCHANGED <<dataVars, req, workVars, noteVars>>

\* show has what it needs, update and destroy go on, and without a row
\* NotFoundError is thrown.
FindOne(p) ==
  /\ pc[p] = "find"
  /\ req[p].kind = "show" => ~req[p].include
  /\ LET i == req[p].id
     IN  CASE table[i] = None -> Answer(p, [status |-> 404]) /\ UNCHANGED record
           [] table[i] # None /\ req[p].kind = "show" ->
                /\ Answer(p, [status |-> 200, data |-> Entity(i)])
                /\ UNCHANGED record
           [] table[i] # None /\ req[p].kind = "update" ->
                /\ record' = [record EXCEPT ![p] = Assign(Entity(i), req[p].data)]
                /\ Goto(p, "reload")
                /\ UNCHANGED answer
           [] table[i] # None /\ req[p].kind = "destroy" ->
                /\ record' = [record EXCEPT ![p] = Entity(i)]
                /\ Goto(p, "write")
                /\ UNCHANGED answer
  /\ UNCHANGED <<dataVars, req, rows, total, loaded, noteVars>>

\* save looks its entity's row up before it decides between INSERT and UPDATE.
Reload(p) ==
  /\ pc[p] = "reload"
  /\ loaded' = [loaded EXCEPT ![p] = table[record[p].id]]
  /\ Goto(p, "write")
  /\ UNCHANGED <<dataVars, req, rows, total, record, answer, noteVars>>

\* Mutant of WriteTable: that a constraint is violated goes unnoticed.
WriteTableUnnoticed(p, new, a) ==
  /\ IF \E i, j \in Id : i # j /\ new[i] # None /\ new[j] # None
                             /\ new[i].name = new[j].name
       THEN UNCHANGED <<table, others>>
       ELSE /\ table' = new
            /\ others' = [q \in Client |->
                            IF q # p /\ new # table THEN others[q] + 1 ELSE others[q]]
  /\ Answer(p, a)
  /\ UNCHANGED fault

\* The table becomes new, or the unique column forbids it.  The answer of the
\* COMMIT may be lost: to the handler, that is a failure like any other.
WriteTable(p, new, a) ==
  IF \E i, j \in Id : i # j /\ new[i] # None /\ new[j] # None
                            /\ new[i].name = new[j].name
    THEN Answer(p, [status |-> 422]) /\ UNCHANGED <<table, others, fault>>
    ELSE /\ table' = new
         /\ others' = [q \in Client |->
                         IF q # p /\ new # table THEN others[q] + 1 ELSE others[q]]
         /\ \/ Answer(p, a) /\ UNCHANGED fault
            \/ Answer(p, [status |-> 422]) /\ fault' = [fault EXCEPT ![p] = TRUE]

\* The response once the row is saved: to answer with relations the row is read
\* again, which rejects, though the row stays.
Saved(p, i) ==
  IF req[p].include
    THEN [status |-> 422]
    ELSE [status |-> IF req[p].kind = "create" THEN 201 ELSE 200,
          data   |-> [id |-> i, name |-> record[p].name, at |-> record[p].at]]

\* An INSERT gives out the next id unless the entity has one, and fails where
\* the id is taken.  The ids end with Id.
InsertRow(p) ==
  /\ req[p].kind \in {"create", "update"}
  /\ loaded[p] = None
  /\ LET given == "id" \in DOMAIN record[p]
         i     == IF given THEN record[p].id ELSE nextId
     IN  /\ i \in Id
         /\ nextId' = IF given THEN nextId ELSE nextId + 1
         /\ IF table[i] # None
              THEN Answer(p, [status |-> 422]) /\ UNCHANGED <<table, others, fault>>
              ELSE WriteTable(p, [table EXCEPT ![i] =
                     [name |-> record[p].name, at |-> record[p].at]], Saved(p, i))

\* An UPDATE sets the columns in which the entity differs from the row that
\* save found, and none if the row is gone.
UpdateRow(p) ==
  /\ req[p].kind \in {"create", "update"}
  /\ loaded[p] # None
  /\ LET i == record[p].id
         Changed(col) ==
           IF record[p][col] # loaded[p][col] THEN record[p][col] ELSE table[i][col]
         row == IF table[i] = None THEN None
                  ELSE [name |-> Changed("name"), at |-> Changed("at")]
     IN  WriteTable(p, [table EXCEPT ![i] = row], Saved(p, i))
  /\ UNCHANGED nextId

\* A DELETE of a row that is gone is none.
RemoveRow(p) ==
  /\ req[p].kind = "destroy"
  /\ WriteTable(p, [table EXCEPT ![req[p].id] = None], [status |-> 204])
  /\ UNCHANGED nextId

Write(p) ==
  /\ pc[p] = "write"
  /\ InsertRow(p) \/ UpdateRow(p) \/ RemoveRow(p)
  /\ UNCHANGED <<controller, req, workVars, received, before>>

-----------------------------------------------------------------------------
NoRequest == [kind |-> "none"]

Init ==
  /\ controller \in Controllers
  /\ table \in Tables
  /\ nextId = 1 + Cardinality({i \in Id : table[i] # None})
  /\ pc = [p \in Client |-> "idle"]
  /\ req = [p \in Client |-> NoRequest]
  /\ rows = [p \in Client |-> << >>]
  /\ total = [p \in Client |-> 0]
  /\ record = [p \in Client |-> None]
  /\ loaded = [p \in Client |-> None]
  /\ answer = [p \in Client |-> NoAnswer]
  /\ received = [p \in Client |-> << >>]
  /\ before = [p \in Client |-> table]
  /\ others = [p \in Client |-> 0]
  /\ fault = [p \in Client |-> FALSE]

Step(p) ==
  \/ GetRepository(p) \/ GetCount(p) \/ GetMany(p) \/ CountRows(p)
  \/ FindWithRelations(p) \/ FindOne(p) \/ Reload(p) \/ Write(p) \/ Fail(p)

Next ==
  \E p \in Client : (\E r \in Requests : Begin(p, r)) \/ FollowNextPage(p) \/ Step(p)

Spec == Init /\ [][Next]_vars

-----------------------------------------------------------------------------
(* Properties                                                               *)

Listed(p) == pc[p] = "answered" /\ req[p].kind = "index" /\ answer[p].status = 200

Quiet(p) == others[p] = 0

Wanted(p) == Matching(before[p], req[p], controller)

\* What the client asked for decides, and where it does not, the default.
ComesBefore(p, i, j) ==
  LET Asked(m, n) == Precedes(before[p], GetOrderBy(req[p]), m, n)
  IN  \/ Asked(i, j)
      \/ ~Asked(j, i) /\ Precedes(before[p], controller.defaultOrder, i, j)

\* The rows of a page are those that the order the client asked for, with the
\* default behind it, puts at the places of this page among all the rows that
\* match, on each of the three ways to query them; page 0 and getAll are the
\* whole list (lines 50-99 and 334-386).
PageByRank ==
  \A p \in Client : Listed(p) /\ Quiet(p) =>
    LET ids == answer[p].ids
        Earlier(i)  == {j \in Wanted(p) : ComesBefore(p, j, i)}
        NotLater(i) == {j \in Wanted(p) : ~ComesBefore(p, i, j)}
    IN  /\ IsInjective(ids)
        /\ \A n \in DOMAIN ids :
             /\ ids[n] \in Wanted(p)
             /\ Cardinality(Earlier(ids[n])) < Skip(req[p]) + n
             /\ Skip(req[p]) + n <= Cardinality(NotLater(ids[n]))
        /\ Len(ids) < Limit(req[p]) =>
             Cardinality(Wanted(p)) <= Skip(req[p]) + Len(ids)

\* totalRecords is off by no more than the writes that others made meanwhile,
\* although a search counts before it reads, the other ways afterwards or not
\* at all; only a page past the end may claim the rows of the pages before
\* it.  Without writes there is a next page exactly when rows are left (lines
\* 83-113); of page 0 and getAll this cannot be said (line 112).
TotalsAgree ==
  \A p \in Client : Listed(p) =>
    LET n == Cardinality(Wanted(p))
        q == req[p]
    IN  /\ \/ answer[p].totalRecords - n \in (-others[p]) .. others[p]
           \/ answer[p].ids = << >> /\ answer[p].totalRecords = Skip(q)
        /\ Quiet(p) /\ Page(q) > 0 => (answer[p].nextPage <=> Page(q) * Limit(q) < n)

\* Following nextPage to the end, a client gets every row that matches exactly
\* once, if the order decides between them and nobody writes.
PagesCoverDecided ==
  \A p \in Client :
    /\ Listed(p) /\ Quiet(p) /\ ~answer[p].nextPage
    /\ received[p][1].page = 1
    /\ \A i, j \in Wanted(p) : i # j => ComesBefore(p, i, j) \/ ComesBefore(p, j, i)
    => LET all == FlattenSeq([n \in DOMAIN received[p] |-> received[p][n].ids])
       IN  Len(all) = Cardinality(Wanted(p)) /\ Range(all) = Wanted(p)

\* What listSchema lets through the handler answers, unless the database
\* fails: refused are only a sort by what is no column, a wrong order in the
\* query string, a page so far out that OFFSET is no bigint (line 53), a search
\* for text that PostgreSQL cannot hold, and a search together with orderBy or
\* order, whose conditions then name columns that do not exist (lines 68-71).
SchemaRequestsAnswered ==
  \A p \in Client :
    /\ controller.validated /\ pc[p] = "answered" /\ req[p].kind = "index"
    /\ answer[p].status = 422 /\ ~fault[p] /\ ListSchema(req[p])
    => \/ BadOrder(req[p])
       \/ Skip(req[p]) > MaxBigint
       \/ req[p].search # None
            /\ (req[p].unreadable \/ req[p].inner \/ req[p].sort.kind # "none")

\* An id among the data overrides the one in the path: Object.assign.
UpdatedId(r) == IF "id" \in DOMAIN r.data THEN r.data.id ELSE r.id

\* The table is the one before with all that p asked for, in row i.
Written(p, i) ==
  LET r == req[p]
      old == before[p][r.id]
      New(col) == IF col \in DOMAIN r.data THEN r.data[col] ELSE old[col]
      Put(row) == [before[p] EXCEPT ![i] = row]
  IN  \/ /\ r.kind = "create"
         /\ IF "id" \in DOMAIN r.data THEN i = r.data.id ELSE before[p][i] = None
         /\ table = Put([name |-> r.data.name, at |-> r.data.at])
      \/ /\ r.kind = "update" /\ i = UpdatedId(r) /\ old # None
         /\ table = Put([name |-> New("name"), at |-> New("at")])
      \/ /\ r.kind = "destroy" /\ i = r.id /\ old # None
         /\ table = Put(None)

\* create, update or destroy has answered that it is done.
Done(p) ==
  req[p].kind \notin {"index", "show"} /\ answer[p].status \in {200, 201, 204}

AllOrNothing(p) ==
  IF Done(p)
    THEN \E i \in Id : Written(p, i) /\ (answer[p].status # 204 => answer[p].data.id = i)
    ELSE \/ table = before[p] /\ (answer[p].status = 404 => before[p][req[p].id] = None)
         \/ /\ answer[p].status = 422 /\ (fault[p] \/ req[p].include)
            /\ \E i \in Id : Written(p, i)

\* A request during which nobody else writes is all or nothing, at whatever
\* statement it fails: done, it has left exactly the table that its answer
\* tells of, and refused, the table as it was.  Only a failure of the database,
\* whose COMMIT may have gone through, and relations, for which the row is read
\* again when it is saved (lines 179-185 and 223-229), can make it answer 422
\* although everything is written.
AloneIsAtomic ==
  \A p \in Client : pc[p] = "answered" /\ Quiet(p) => AllOrNothing(p)

\* Somebody has asked to destroy row i.
Destroyed(i) == \E q \in Client : req[q].kind = "destroy" /\ req[q].id = i

\* The request of client q sets column col of row i to what may not be val: its
\* data name another value, or, with the id of another row, that row's; or it
\* saves what it read in the row, which was not val when it began.
Overwrites(q, i, col, val) ==
  LET r == req[q]
  IN  \/ r.kind = "create" /\ "id" \in DOMAIN r.data /\ r.data.id = i /\ r.data[col] # val
      \/ /\ r.kind = "update" /\ UpdatedId(r) = i
         /\ IF col \in DOMAIN r.data
              THEN r.data[col] # val
              ELSE \/ r.id # i
                   \/ before[q][i] = None
                   \/ before[q][i] # None /\ before[q][i][col] # val

\* What create or update has answered it saved is in the table until somebody
\* destroys the row, writes the same column, or saves a row read before: save
\* sets the columns that differ from what it loads itself, not the whole row, so
\* an update is never lost to one of other columns that began after it (lines
\* 210-219).
SavedIsKept ==
  \A p \in Client :
    pc[p] = "answered" /\ req[p].kind \in {"create", "update"} /\ Done(p) =>
      LET i == answer[p].data.id
      IN  \/ Destroyed(i)
          \/ /\ table[i] # None
             /\ \A col \in DOMAIN req[p].data \cap {"name", "at"} :
                  \/ table[i][col] = req[p].data[col]
                  \/ \E q \in Client : Overwrites(q, i, col, req[p].data[col])

\* The request of client q may bring row i into being.
MayInsert(q, i) ==
  \/ req[q].kind = "create"
  \/ req[q].kind = "update" /\ ("id" \in DOMAIN req[q].data \/ before[q][i] # None)

\* A row that was destroyed is there again only through a create, through an
\* update whose data name an id, or through one that began while the row still
\* existed: save then inserts it anew (lines 205-219 and 246-257).
DeletedStaysGone ==
  \A p \in Client :
    answer[p].status = 204 /\ table[req[p].id] # None =>
      \E q \in Client \ {p} : MayInsert(q, req[p].id)
=============================================================================
