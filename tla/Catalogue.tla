----------------------------- MODULE Catalogue -----------------------------
(* A price on its way from the administrator's form to a customer's screen:  *)
(* AdminProductsPage writes through a task of the Product Service, which     *)
(* drops its own cache; the table's stream tells the browsers to fetch       *)
(* again; ProductsPage asks whichever task the balancer picks, which answers *)
(* from its cache of at most thirty seconds or from the table.               *)
EXTENDS Naturals, FiniteSets

CONSTANTS
  Products,   \* product ids
  Tasks,      \* tasks of the Product Service, a cache each
  Calls,      \* bound: the HTTP requests that may be under way at once
  MaxWrites,  \* bound: the writes to a product
  Copies,     \* bound: how often one refresh is delivered
  None

VARIABLES
  table,    \* products table: per product, is it there, and how often it was written
  prior,    \* the rows before the last write: what a lagging replica may still answer
  cache,    \* per task: ProductCache
  news,     \* per product: price refreshes on their way to the customer's browser
  calls,    \* the requests under way, of every browser
  shown,    \* ProductsPage: the rows it shows
  desk,     \* AdminProductsPage: its list, is a save under way, is an error shown
  owed,     \* history: the write that the last refresh of a product announced
  wrote,    \* history: the last write of a product that a task answered for
  excused   \* history: products whose refresh was lost, failed, served old or overtaken

store == <<table, prior>>
screens == <<shown, desk>>
history == <<owed, wrote, excused>>
vars == <<store, cache, news, calls, screens, history>>

ASSUME CatalogueAssumption ==
  /\ Products # {} /\ Tasks # {} /\ IsFiniteSet(Calls) /\ MaxWrites \in Nat /\ Copies \in Nat
  /\ "list" \notin Products /\ None \notin Products

Row == [rev : Nat, there : BOOLEAN]

\* "Nothing" is not a list of products.
ASSUME NoneAssumption == None \notin [Products -> Row]

\* The cache's keys: "item:<id>" and "list:*:<limit>".
Keys == Products \cup {"list"}
Covered(key) == IF key = "list" THEN Products ELSE {key}

\* "late" is history: the rows were read from a lagging replica, from an entry older
\* than what was announced, or while something newer overtook them.
Idle == [op |-> "none", at |-> "idle", key |-> "list", task |-> None, rows |-> None, late |-> FALSE]
Call(op, key, at) == [Idle EXCEPT !.op = op, !.key = key, !.at = at]
Free == {i \in Calls : calls[i].op = "none"}
Reads == {"load", "refetch", "reload"}
OfPage(c) == c.op \in {"load", "refetch"}

\* The slots of the two pages' first requests.
Opening == CHOOSE s \in [1..2 -> Calls] : s[1] # s[2]

Init ==
  /\ table \in [Products -> {[rev |-> 0, there |-> b] : b \in BOOLEAN}]
  /\ prior = table
  /\ cache = [t \in Tasks |-> [k \in Keys |-> None]]
  /\ news = [p \in Products |-> 0]
  /\ calls = [[i \in Calls |-> Idle] EXCEPT ![Opening[1]] = Call("load", "list", "send"),
                                          ![Opening[2]] = Call("reload", "list", "send")]
  /\ shown = None
  /\ desk = [list |-> None, busy |-> FALSE, error |-> FALSE]
  /\ owed = [p \in Products |-> 0]
  /\ wrote = [t \in Tasks |-> [p \in Products |-> 0]]
  /\ excused = {}

Begin(op, key) ==
  /\ Free # {}
  /\ calls' = [calls EXCEPT ![CHOOSE i \in Free : TRUE] = Call(op, key, "send")]

----------------------------------------------------------------------------
(* The Product Service.                                                    *)

\* A list leaves out what is not there; a product that is not there is a 404.
Found(key, rows) == key # "list" => rows[key].there

\* What is served is older than what was announced.
Behind(rows) == \E p \in DOMAIN rows : rows[p].rev < owed[p]

Hit(i, t) ==
  /\ calls[i].op \in Reads /\ calls[i].at = "send"
  /\ LET e == cache[t][calls[i].key] IN
     /\ e # None
     /\ calls' = [calls EXCEPT ![i].at = "reply", ![i].rows = e.rows,
                               ![i].late = Behind(e.rows)]
  /\ UNCHANGED <<store, cache, news, screens, history>>

\* What get_item, or the scan, can answer without ConsistentRead.
Answers(key) ==
  LET Mixed(old) == [p \in Covered(key) |-> IF p \in old THEN prior[p] ELSE table[p]] IN
  {[rows |-> Mixed(old), late |-> old # {}] : old \in SUBSET {p \in Covered(key) : prior[p] # table[p]}}

Miss(i, t) ==
  /\ calls[i].op \in Reads /\ calls[i].at = "send"
  /\ cache[t][calls[i].key] = None
  /\ \E a \in Answers(calls[i].key) :
       calls' = [calls EXCEPT ![i].at = "read", ![i].task = t, ![i].rows = a.rows, ![i].late = a.late]
  /\ UNCHANGED <<store, cache, news, screens, history>>

\* products.set, and the answer.  A 404 is not cached: it only fails.
Fill(i) ==
  /\ calls[i].at = "read"
  /\ LET c == calls[i] IN
     /\ Found(c.key, c.rows)
     /\ cache' = [cache EXCEPT ![c.task][c.key] = [rows |-> c.rows, late |-> c.late]]
     /\ calls' = [calls EXCEPT ![i].at = "reply", ![i].task = None]
  /\ UNCHANGED <<store, news, screens, history>>

\* An entry's TTL is over, or the cache is full.
Expire(t, k) ==
  /\ cache[t][k] # None /\ cache' = [cache EXCEPT ![t][k] = None]
  /\ UNCHANGED <<store, news, calls, screens, history>>

\* The condition of the write: create, update or delete.
Allowed(op, p) == table[p].there = (op # "create")

\* A change of the price sets priceEventPending, which the stream's pipe lets through,
\* once or twice; creation and deletion are not announced.
Announce(op, p) ==
  IF op = "update"
  THEN /\ \E n \in 1..Copies : news' = [news EXCEPT ![p] = @ + n]
       /\ owed' = [owed EXCEPT ![p] = table[p].rev + 1]
  ELSE UNCHANGED <<news, owed>>

Writes == {"create", "update", "delete"}

\* Any task; under another condition it only fails, with a 404 or a 409.
Write(i, t) ==
  /\ calls[i].op \in Writes /\ calls[i].at = "send"
  /\ LET p == calls[i].key  op == calls[i].op IN
     /\ Allowed(op, p) /\ table[p].rev < MaxWrites
     /\ table' = [table EXCEPT ![p] = [rev |-> @.rev + 1, there |-> op # "delete"]]
     /\ prior' = [prior EXCEPT ![p] = table[p]]
     /\ Announce(op, p)
     /\ calls' = [calls EXCEPT ![i].at = "written", ![i].task = t, ![i].rows = table']
  /\ UNCHANGED <<cache, screens, wrote, excused>>

Later(a, b) == IF a < b THEN b ELSE a
Overtaken(c) == [c EXCEPT !.late = @ \/ \E p \in DOMAIN c.rows : c.rows[p] # table[p]]

\* Seeded mistake: the lists are left in the cache.
InvalidateItem(i) ==
  /\ calls[i].at = "written"
  /\ LET c == calls[i] IN
     /\ cache' = [cache EXCEPT ![c.task][c.key] = None]
     /\ wrote' = [wrote EXCEPT ![c.task][c.key] = Later(@, c.rows[c.key].rev)]
     /\ calls' = [j \in Calls |-> IF j = i THEN Call(c.op, "list", "reply")
                                  ELSE IF calls[j].at = "read" /\ calls[j].task = c.task
                                  THEN Overtaken(calls[j]) ELSE calls[j]]
  /\ UNCHANGED <<store, news, screens, owed, excused>>

\* _invalidate: this task's item and every list.  It overtakes the task's readers that
\* have read the table and not yet filled the cache.
Invalidate(i) ==
  /\ calls[i].at = "written"
  /\ LET c == calls[i] IN
     /\ cache' = [cache EXCEPT ![c.task] = [k \in Keys |-> None]]
     /\ wrote' = [wrote EXCEPT ![c.task][c.key] = Later(@, c.rows[c.key].rev)]
     /\ calls' = [j \in Calls |-> IF j = i THEN Call(c.op, "list", "reply")
                                  ELSE IF calls[j].at = "read" /\ calls[j].task = c.task
                                  THEN Overtaken(calls[j]) ELSE calls[j]]
  /\ UNCHANGED <<store, news, screens, owed, excused>>

\* Another customer's request fills a cache, and nothing overtakes it; the slow ones
\* are the two pages' own.
OtherReads(t, k) ==
  /\ cache[t][k] = None
  /\ \E a \in Answers(k) : Found(k, a.rows) /\ cache' = [cache EXCEPT ![t][k] = a]
  /\ UNCHANGED <<store, news, calls, screens, history>>

\* A request can fail on its way, in its task and on its way back.  A write that is
\* done may end so before the cache is dropped: its marker could not be cleared.
CanFail(i) == calls[i].at # "idle"

----------------------------------------------------------------------------
(* ProductsPage, and the refreshes that reach its stream.                  *)

\* A refresh arrives: fetch again what it names.
Refreshed(p) ==
  /\ news[p] > 0 /\ Begin("refetch", p)
  /\ news' = [news EXCEPT ![p] = @ - 1]
  /\ UNCHANGED <<store, cache, screens, history>>

\* A refresh finds no connection, or its retries are used up.
Lost(p) ==
  /\ news[p] > 0 /\ news' = [news EXCEPT ![p] = @ - 1]
  /\ excused' = excused \cup {p}
  /\ UNCHANGED <<store, cache, calls, screens, owed, wrote>>

\* Seeded mistake: what is fetched again is only added, never replaced.
MergeNew(old, rows) ==
  IF old = None THEN [p \in Products |-> IF p \in DOMAIN rows THEN rows[p] ELSE [rev |-> 0, there |-> FALSE]]
  ELSE [p \in Products |-> IF p \in DOMAIN rows /\ ~old[p].there THEN rows[p] ELSE old[p]]

\* What was fetched again replaces what is shown, or is added; before the list is
\* there it is all that is shown.
Merge(old, rows) ==
  [p \in Products |-> IF p \in DOMAIN rows THEN rows[p]
                      ELSE IF old = None THEN [rev |-> 0, there |-> FALSE] ELSE old[p]]

\* A page's call ends; the page's others that have read already are overtaken.
Lands(i, bad) ==
  /\ calls' = [j \in Calls |-> IF j = i THEN Idle
                               ELSE IF OfPage(calls[j]) /\ calls[j].at \in {"read", "reply"}
                               THEN Overtaken(calls[j]) ELSE calls[j]]
  /\ excused' = IF bad THEN excused \cup Covered(calls[i].key) ELSE excused
  /\ UNCHANGED <<store, cache, news, desk, owed, wrote>>

PageLoaded(i) ==
  /\ calls[i].op = "load" /\ calls[i].at = "reply"
  /\ shown' = calls[i].rows
  /\ Lands(i, calls[i].late)

PageRefetched(i) ==
  /\ calls[i].op = "refetch" /\ calls[i].at = "reply"
  /\ shown' = Merge(shown, calls[i].rows)
  /\ Lands(i, calls[i].late)

PageFails(i) ==
  /\ OfPage(calls[i]) /\ CanFail(i)
  /\ UNCHANGED shown
  /\ Lands(i, TRUE)

----------------------------------------------------------------------------
(* AdminProductsPage.                                                      *)

\* Until the list is there, the screen is a spinner, whatever went wrong.
Rows == IF desk.list = None THEN {} ELSE {p \in Products : desk.list[p].there}

\* PUT of a product in the list, or POST of a new one.  The form's own text is left
\* out, and so is the customer's error screen.
Submit(op, p) ==
  /\ desk.list # None /\ ~desk.busy
  /\ op = "update" => p \in Rows
  /\ Begin(op, p)
  /\ desk' = [desk EXCEPT !.busy = TRUE, !.error = FALSE]
  /\ UNCHANGED <<store, cache, news, shown, history>>

Remove(p) ==
  /\ p \in Rows /\ Begin("delete", p)
  /\ UNCHANGED <<store, cache, news, screens, history>>

\* The list is fetched again after what was done.
Reload(i) == calls' = [calls EXCEPT ![i] = Call("reload", "list", "send")]

\* Seeded mistake: the button stays off.
SavedBusy(i) ==
  /\ calls[i].op \in {"create", "update"} /\ calls[i].at = "reply"
  /\ Reload(i) /\ UNCHANGED desk
  /\ UNCHANGED <<store, cache, news, shown, history>>

Saved(i) ==
  /\ calls[i].op \in {"create", "update"} /\ calls[i].at = "reply"
  /\ Reload(i) /\ desk' = [desk EXCEPT !.busy = FALSE]
  /\ UNCHANGED <<store, cache, news, shown, history>>

Removed(i) ==
  /\ calls[i].op = "delete" /\ calls[i].at = "reply" /\ Reload(i)
  /\ UNCHANGED <<store, cache, news, screens, history>>

DeskLoaded(i) ==
  /\ calls[i].op = "reload" /\ calls[i].at = "reply"
  /\ desk' = [desk EXCEPT !.list = calls[i].rows]
  /\ calls' = [calls EXCEPT ![i] = Idle]
  /\ UNCHANGED <<store, cache, news, shown, history>>

DeskFails(i) ==
  /\ calls[i].op \in Writes \cup {"reload"} /\ CanFail(i)
  /\ desk' = [desk EXCEPT !.busy = @ /\ calls[i].op \notin {"create", "update"}, !.error = TRUE]
  /\ calls' = [calls EXCEPT ![i] = Idle]
  /\ UNCHANGED <<store, cache, news, shown, history>>

----------------------------------------------------------------------------
People ==
  \/ \E p \in Products : Remove(p) \/ \E op \in {"create", "update"} : Submit(op, p)

\* A request goes on; "task" is the one it is sent to.
Step(i) ==
  \/ \E t \in Tasks : Hit(i, t) \/ Miss(i, t) \/ Write(i, t)
  \/ Fill(i) \/ Invalidate(i)
  \/ PageLoaded(i) \/ PageRefetched(i) \/ PageFails(i)
  \/ Saved(i) \/ Removed(i) \/ DeskLoaded(i) \/ DeskFails(i)

Next ==
  \/ People
  \/ \E i \in Calls : Step(i)
  \/ \E p \in Products : Refreshed(p) \/ Lost(p)
  \/ \E t \in Tasks, k \in Keys : Expire(t, k) \/ OtherReads(t, k)

Spec == Init /\ [][Next]_vars

----------------------------------------------------------------------------
Snapshot == {None} \cup [Products -> Row]
TypeOK ==
  /\ table \in [Products -> Row] /\ prior \in [Products -> Row]
  /\ DOMAIN cache = Tasks
  /\ \A t \in Tasks : \A k \in Keys :
       cache[t][k] = None \/ cache[t][k] \in [rows : [Covered(k) -> Row], late : BOOLEAN]
  /\ news \in [Products -> Nat]
  /\ \A i \in Calls :
       /\ calls[i].op \in Reads \cup Writes \cup {"none"}
       /\ calls[i].at \in {"idle", "send", "read", "written", "reply"}
       /\ calls[i].at = "read" => calls[i].rows \in [Covered(calls[i].key) -> Row]
  /\ shown \in Snapshot /\ desk.list \in Snapshot
  /\ desk.busy \in BOOLEAN /\ desk.error \in BOOLEAN

\* The submit button is off exactly while one save is under way, so that one form is
\* never sent twice at a time.
BusyIsSaving ==
  Cardinality({i \in Calls : calls[i].op \in {"create", "update"}}) = IF desk.busy THEN 1 ELSE 0

\* No cache, screen or reader is ahead of the table.
NeverAhead ==
  \A p \in Products :
    /\ prior[p].rev <= table[p].rev /\ owed[p] <= table[p].rev
    /\ \A t \in Tasks : \A k \in Keys :
         cache[t][k] # None /\ p \in Covered(k) => cache[t][k].rows[p].rev <= table[p].rev
    /\ shown # None => shown[p].rev <= table[p].rev

CatalogueInv == TypeOK /\ BusyIsSaving /\ NeverAhead

\* "Writes invalidate the local task's entry immediately" (cache.py): what a task serves
\* from its cache is not older than the last write it answered, unless it was read
\* while that write was under way or from a lagging replica.
OwnWritesServed ==
  \A t \in Tasks : \A k \in Keys :
    cache[t][k] # None /\ ~cache[t][k].late =>
      \A p \in Covered(k) : cache[t][k].rows[p].rev >= wrote[t][p]

\* When every refresh has arrived and every request is answered, the customer sees the
\* last price that was announced, unless a refresh was lost, failed, was answered from
\* a task that had not heard of the price, or was overtaken.
AnnouncedIsShown ==
  shown # None /\ (\A i \in Calls : ~OfPage(calls[i])) =>
    \A p \in Products : news[p] = 0 => shown[p].rev >= owed[p] \/ p \in excused

\* "so the admin who made the change always sees it" (cache.py): with nothing under way
\* and no error, the list that was fetched after the change has the change.
AdminSeesWrite ==
  desk.list # None /\ ~desk.error /\ (\A i \in Calls : calls[i].op = "none") =>
    \A p \in Products : desk.list[p].rev = table[p].rev
=============================================================================
