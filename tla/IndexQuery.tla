----------------------------- MODULE IndexQuery -----------------------------
(***************************************************************************)
(* What BaseController.index makes of a request before it sends a          *)
(* statement: the page, the order and the conditions, src/src/common/      *)
(* base.controller.ts, and the two controllers that inherit it.            *)
(*                                                                         *)
(* A table maps the ids that are rows to their columns.  "name" stands for *)
(* the unique columns, "at" for those that several rows can agree on, and  *)
(* "other" for what is no column, or none that a controller sorts by.      *)
(* A request has                                                           *)
(*   getAll, page, limit   1 and 10 also for what parseInt makes nothing of*)
(*   search                the names it matches, or None                   *)
(*   where                 the other filterConditions: columns and values  *)
(*   sort                  sortKeys or orderBy: its kind, keys, directions *)
(*   inQuery               whether sort comes from the query string, which *)
(*                         counts where the body has no filterConditions   *)
(*   inner                 whether filterConditions has an order           *)
(*   order                 body.order ?? query.order                       *)
(*   include               whether relations are asked for: there are none *)
(*   unreadable            whether it searches or filters by a value that  *)
(*                         the database cannot read: text with a NUL, a    *)
(*                         word that is none of an enum's                  *)
(*   tenantId              whether x-tenant-id is a positive integer       *)
(***************************************************************************)
EXTENDS Integers, SequencesExt

CONSTANTS
  None,      \* no row, no search
  MaxBigint  \* the largest value of OFFSET and LIMIT

ASSUME BigintHoldsAllRows == MaxBigint \in Nat /\ 999999 <= MaxBigint

Column == {"id", "name", "at"}

TenantController ==
  [validated |-> TRUE, searchable |-> TRUE,
   defaultOrder |-> <<[key |-> "name", dir |-> "ASC"]>>]

OrderController ==
  [validated |-> FALSE, searchable |-> FALSE,
   defaultOrder |-> <<[key |-> "at", dir |-> "DESC"]>>]

\* listSchema, which knows what the client of a page needs and nothing else; a
\* search may be any text, and a page any number that is whole and positive.
ListSchema(q) ==
  /\ ~q.getAll /\ ~q.include
  /\ q.page > 0 /\ q.limit \in 1 .. 100
  /\ \A f \in q.where : f.col = "at"
  /\ q.unreadable => q.search # None
  /\ q.inQuery \/ q.sort.kind \in {"none", "string"}

-----------------------------------------------------------------------------
(* Pages                                                                    *)

Page(q) == IF q.getAll THEN 0 ELSE q.page

Limit(q) == IF Page(q) = 0 THEN 999999 ELSE IF q.limit = 0 THEN 10 ELSE q.limit

Skip(q) == IF Page(q) = 0 THEN 0 ELSE (Page(q) - 1) * Limit(q)

TotalPages(q, total) == (total + Limit(q) - 1) \div Limit(q)

\* Mutant of IsNextPage: the last page is never announced.
IsNextPageBut(q, total) == Page(q) + 1 < TotalPages(q, total)

IsNextPage(q, total) == Page(q) + 1 <= TotalPages(q, total)

\* Mutant of Cut: OFFSET and LIMIT with one row too many.
CutOneMore(q, s) ==
  SubSeq(s, Skip(q) + 1,
         IF Skip(q) + Limit(q) + 1 < Len(s) THEN Skip(q) + Limit(q) + 1 ELSE Len(s))

\* OFFSET and LIMIT.
Cut(q, s) ==
  SubSeq(s, Skip(q) + 1,
         IF Skip(q) + Limit(q) < Len(s) THEN Skip(q) + Limit(q) ELSE Len(s))

-----------------------------------------------------------------------------
(* Order                                                                    *)

\* A single key counts only along with an order, and an array takes its
\* direction from it; sortKeys ascend and an object has directions of its own.
GetOrderBy(q) ==
  LET All(dir) == [i \in DOMAIN q.sort.keys |-> [q.sort.keys[i] EXCEPT !.dir = dir]]
      Asked    == IF q.order = "desc" THEN "DESC" ELSE "ASC"
  IN  CASE q.sort.kind = "sortKeys" -> All("ASC")
        [] q.sort.kind = "object"   -> q.sort.keys
        [] q.sort.kind = "array"    -> All(Asked)
        [] q.sort.kind = "string" /\ q.order # "none" -> All(Asked)
        [] OTHER -> << >>

\* getOrder and validateOrderByKeys throw.
BadOrder(q) ==
  \/ q.order = "bad"
  \/ \E i \in DOMAIN GetOrderBy(q) : GetOrderBy(q)[i].key \notin Column

\* Mutant of ApplyDefaultOrder: the default comes first.
DefaultOrderFirst(user, default) == default \o user

\* The default keys follow as tie-breakers, unless the user names them.
ApplyDefaultOrder(user, default) ==
  user \o FlattenSeq([n \in DOMAIN default |->
            IF \E i \in DOMAIN user : user[i].key = default[n].key
              THEN << >> ELSE <<default[n]>>])

OrderOf(q, c) == ApplyDefaultOrder(GetOrderBy(q), c.defaultOrder)

Value(table, i, col) == IF col = "id" THEN i ELSE table[i][col]

\* Row i comes before row j in ORDER BY order.
Precedes(table, order, i, j) ==
  \E n \in DOMAIN order :
    LET V(k, m) == Value(table, k, order[m].key)
    IN  /\ \A m \in 1 .. (n - 1) : V(i, m) = V(j, m)
        /\ IF order[n].dir = "DESC" THEN V(j, n) < V(i, n) ELSE V(i, n) < V(j, n)

\* Every order in which the database may return the rows S.
Sorted(table, order, S) ==
  {s \in SetToSeqs(S) :
     \A m, n \in DOMAIN s : m < n => ~Precedes(table, order, s[n], s[m])}

-----------------------------------------------------------------------------
(* Conditions                                                               *)

\* A controller without searchable fields passes over search.
HasSearch(q, c) == q.search # None /\ c.searchable

Matching(table, q, c) ==
  {i \in DOMAIN table :
     /\ table[i] # None
     /\ \A f \in q.where : Value(table, i, f.col) = f.val
     /\ HasSearch(q, c) => table[i].name \in q.search}

\* Mutant of UnknownFilter: search itself is not left out of the filters.
UnknownFilterOrSearch(q, c) ==
  \/ \E f \in q.where : f.col \notin Column
  \/ ~q.inQuery /\ q.sort.kind = "sortKeys"
  \/ HasSearch(q, c)

\* getWhereConditions drops search, orderBy and order from the filters but not
\* sortKeys, and a search drops nothing but itself: what is left becomes a
\* condition on a column that does not exist.
UnknownFilter(q, c) ==
  \/ \E f \in q.where : f.col \notin Column
  \/ ~q.inQuery /\ q.sort.kind = "sortKeys"
  \/ /\ HasSearch(q, c)
     /\ q.inner \/ (~q.inQuery /\ q.sort.kind # "none")

\* The rows that match can be counted: neither the database nor TypeORM before
\* it refuses the relations and the conditions.
Countable(q, c) ==
  /\ ~UnknownFilter(q, c)
  /\ ~q.include
  /\ q.unreadable => ~HasSearch(q, c) /\ q.where = {}

\* A page of them can be read: nor does it refuse OFFSET and LIMIT.
Executable(q, c) ==
  /\ Countable(q, c)
  /\ Skip(q) \in 0 .. MaxBigint
  /\ Limit(q) \in 0 .. MaxBigint
=============================================================================
