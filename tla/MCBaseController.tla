-------------------------- MODULE MCBaseController --------------------------
(* A small instance of BaseController for TLC.                              *)
EXTENDS BaseController

BothControllers == {TenantController, OrderController}

Ids   == 1 .. 4
Names == 1 .. 4
Ats   == 1 .. 3

\* Three rows, two of which agree on "at"; three that do not; one.
SmallTables ==
  LET Of(s) == [i \in Ids |-> IF i \in DOMAIN s
                                THEN [name |-> s[i][1], at |-> s[i][2]] ELSE None]
  IN  {Of(<< <<2, 1>>, <<3, 1>>, <<1, 2>> >>),
       Of(<< <<2, 2>>, <<1, 3>>, <<3, 1>> >>),
       Of(<< <<2, 1>> >>)}

Sort(kind, keys) ==
  [kind |-> kind, keys |-> [i \in DOMAIN keys |-> [key |-> keys[i], dir |-> "DESC"]]]

Plain == [kind |-> "index", getAll |-> FALSE, page |-> 1, limit |-> 10,
          search |-> None, where |-> {}, sort |-> Sort("none", << >>),
          inQuery |-> FALSE, inner |-> FALSE, order |-> "none",
          include |-> FALSE, unreadable |-> FALSE, tenantId |-> TRUE]

Ones == [Plain EXCEPT !.limit = 1]
Twos == [Plain EXCEPT !.limit = 2]

Pages ==
  {Plain, Ones, Twos, [Plain EXCEPT !.getAll = TRUE], [Ones EXCEPT !.page = 0],
   [Twos EXCEPT !.page = 2], [Ones EXCEPT !.page = 4], [Twos EXCEPT !.page = 4],
   [Plain EXCEPT !.page = -1], [Plain EXCEPT !.limit = -1],
   [Plain EXCEPT !.limit = 0], [Plain EXCEPT !.include = TRUE],
   [Twos EXCEPT !.page = 600000], [Plain EXCEPT !.limit = 1000001],
   [Plain EXCEPT !.tenantId = FALSE]}

Filters ==
  {[Ones EXCEPT !.search = {2, 3}], [Plain EXCEPT !.search = {1}],
   [Ones EXCEPT !.where = {[col |-> "at", val |-> 1]}],
   [Plain EXCEPT !.where = {[col |-> "other", val |-> 1]}],
   [Ones EXCEPT !.search = {1, 2}, !.sort = Sort("string", <<"at">>)],
   [Ones EXCEPT !.search = {1, 2}, !.inner = TRUE],
   [Ones EXCEPT !.search = {1, 2}, !.page = 2000000],
   [Plain EXCEPT !.search = {}, !.unreadable = TRUE]}

Sorts ==
  {[Ones EXCEPT !.sort = Sort("string", <<"at">>), !.order = "desc"],
   [Ones EXCEPT !.sort = Sort("string", <<"at">>), !.order = "asc", !.inQuery = TRUE],
   [Ones EXCEPT !.sort = Sort("string", <<"id">>), !.inner = TRUE],
   [Twos EXCEPT !.sort = Sort("array", <<"at", "id">>), !.order = "desc"],
   [Ones EXCEPT !.sort = Sort("object", <<"at", "name">>)],
   [Ones EXCEPT !.sort = Sort("sortKeys", <<"id">>)],
   [Ones EXCEPT !.sort = Sort("sortKeys", <<"at", "name">>), !.inQuery = TRUE],
   [Ones EXCEPT !.sort = Sort("string", <<"other">>), !.order = "asc"],
   [Ones EXCEPT !.order = "bad"]}

One(kind, id, include) ==
  [kind |-> kind, id |-> id, include |-> include, tenantId |-> TRUE]

Create(data, include) ==
  [kind |-> "create", data |-> data, include |-> include, tenantId |-> TRUE]

Update(id, data, include) ==
  [kind |-> "update", id |-> id, data |-> data, include |-> include, tenantId |-> TRUE]

Writes ==
  {One("show", 1, FALSE), One("show", 4, FALSE), One("show", 1, TRUE),
   One("destroy", 1, FALSE), One("destroy", 2, TRUE),
   Create([name |-> 4, at |-> 1], FALSE), Create([name |-> 4, at |-> 3], TRUE),
   Create([id |-> 1, name |-> 4, at |-> 2], FALSE),
   Update(1, [at |-> 3], FALSE), Update(1, [name |-> 3], FALSE),
   Update(1, [name |-> 4], TRUE), Update(2, [name |-> 4, at |-> 1], FALSE),
   Update(3, [id |-> 1, name |-> 4], FALSE)}

AllRequests == Pages \cup Filters \cup Sorts \cup Writes

Interchangeable == Permutations(Client)
=============================================================================
