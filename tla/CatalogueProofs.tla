-------------------------- MODULE CatalogueProofs --------------------------
(* For any number of products, tasks, requests and writes: no cache and no   *)
(* screen is ahead of the table, a task serves nothing older than a write it *)
(* answered but what a slow reader or a replica brought, and what was        *)
(* announced is shown once everything has arrived.                           *)
EXTENDS Catalogue, FiniteSetTheorems, TLAPS

\* What a read may bring.
Rowsets == UNION {[S -> Row] : S \in SUBSET Products}
Entry == {None} \cup [rows : Rowsets, late : BOOLEAN]
Requests == [op : Reads \cup Writes \cup {"none"}, at : {"idle", "send", "read", "written", "reply"},
             key : Keys, task : Tasks \cup {None}, rows : Rowsets \cup {None}, late : BOOLEAN]

\* How a request's operation, progress, key and rows belong together.
Sound(c) ==
  /\ c.op \in {"load", "reload"} => c.key = "list"
  /\ c.op = "refetch" => c.key \in Products
  /\ c.op = "none" => c.at = "idle"
  /\ c.op \in Writes /\ c.at \in {"send", "written"} => c.key \in Products
  /\ c.at = "read" => c.op \in Reads /\ c.task \in Tasks
  /\ c.at = "read" \/ (c.at = "reply" /\ c.op \in Reads) => c.rows \in [Covered(c.key) -> Row]
  /\ c.at = "written" => c.op \in Writes /\ c.task \in Tasks /\ c.rows \in [Products -> Row]

CallsInv == calls \in [Calls -> Requests] /\ \A i \in Calls : Sound(calls[i])

CacheInv ==
  /\ cache \in [Tasks -> [Keys -> Entry]]
  /\ \A t \in Tasks : \A k \in Keys : cache[t][k] # None => cache[t][k].rows \in [Covered(k) -> Row]

ScreensInv ==
  /\ shown \in Snapshot /\ desk \in [list : Snapshot, busy : BOOLEAN, error : BOOLEAN]

TableInv ==
  /\ table \in [Products -> Row] /\ prior \in [Products -> Row]
  /\ news \in [Products -> Nat] /\ owed \in [Products -> Nat]
  /\ wrote \in [Tasks -> [Products -> Nat]] /\ excused \subseteq Products

ShapeInv == CallsInv /\ CacheInv /\ ScreensInv /\ TableInv

----------------------------------------------------------------------------
(* Shapes.                                                                 *)

\* The keys, and the products behind them.
LEMMA KeysFacts == /\ "list" \in Keys /\ Products \subseteq Keys /\ "list" \notin Products
                   /\ Covered("list") = Products
                   /\ \A k \in Keys : Covered(k) \subseteq Products
                   /\ \A p \in Products : Covered(p) = {p}
BY CatalogueAssumption DEF Keys, Covered

\* Rows of some products are rows that a read may bring.
LEMMA RowsetsFacts ==
  ASSUME NEW S \in SUBSET Products, NEW f \in [S -> Row]
  PROVE  f \in Rowsets
BY DEF Rowsets

\* A new request is sound when its key suits it.
LEMMA NewCall ==
  ASSUME NEW op \in Reads \cup Writes \cup {"none"}, NEW key \in Keys,
         NEW at \in {"idle", "send", "reply"}
  PROVE  /\ Call(op, key, at) \in Requests /\ Idle \in Requests
         /\ Sound(Idle)
         /\ Call(op, key, at).op = op /\ Call(op, key, at).key = key /\ Call(op, key, at).at = at
         /\ Call(op, key, at).task = None /\ Call(op, key, at).rows = None /\ ~Call(op, key, at).late
<1>1. Idle \in Requests
  BY KeysFacts DEF Idle, Requests
<1>2. QED
  BY <1>1 DEF Call, Idle, Requests, Sound, Reads, Writes

\* A free request is one of them.
LEMMA FreeCall == Free # {} => (CHOOSE i \in Free : TRUE) \in Calls /\ calls[CHOOSE i \in Free : TRUE].op = "none"
BY DEF Free

\* What a read brings suits its key.
LEMMA AnswersShape ==
  ASSUME TableInv, NEW key \in Keys, NEW a \in Answers(key)
  PROVE  /\ a.rows \in [Covered(key) -> Row] /\ a.late \in BOOLEAN /\ a = [rows |-> a.rows, late |-> a.late]
         /\ ~a.late => \A p \in Covered(key) : a.rows[p] = table[p]
         /\ \A p \in Covered(key) : a.rows[p] \in {table[p], prior[p]}
<1>1. PICK old \in SUBSET Products :
        a = [rows |-> [p \in Covered(key) |-> IF p \in old THEN prior[p] ELSE table[p]],
             late |-> old # {}]
  BY KeysFacts DEF Answers
<1>2. Covered(key) \subseteq Products
  BY KeysFacts
<1>3. QED
  BY <1>1, <1>2 DEF TableInv

\* Nothing but its being late changes when a request is overtaken.
LEMMA OvertakenShape ==
  ASSUME NEW c \in Requests, Sound(c)
  PROVE  /\ Overtaken(c) \in Requests /\ Sound(Overtaken(c))
         /\ Overtaken(c).op = c.op /\ Overtaken(c).at = c.at /\ Overtaken(c).key = c.key
         /\ Overtaken(c).task = c.task /\ Overtaken(c).rows = c.rows
         /\ c.late => Overtaken(c).late
<1>1. Overtaken(c) \in Requests
  BY DEF Overtaken, Requests
<1>2. /\ Overtaken(c).op = c.op /\ Overtaken(c).at = c.at /\ Overtaken(c).key = c.key
      /\ Overtaken(c).task = c.task /\ Overtaken(c).rows = c.rows
      /\ c.late => Overtaken(c).late
  BY DEF Overtaken, Requests
<1>3. QED
  BY <1>1, <1>2 DEF Sound

\* One request changes.
LEMMA OneCall ==
  ASSUME CallsInv, NEW i \in Calls, NEW c \in Requests, Sound(c), calls' = [calls EXCEPT ![i] = c]
  PROVE  CallsInv' /\ calls'[i] = c /\ \A j \in Calls \ {i} : calls'[j] = calls[j]
<1>1. calls' \in [Calls -> Requests] /\ calls'[i] = c /\ \A j \in Calls \ {i} : calls'[j] = calls[j]
  BY DEF CallsInv
<1>2. ASSUME NEW j \in Calls PROVE Sound(calls'[j])
  BY <1>1 DEF CallsInv
<1>3. QED
  BY <1>1, <1>2 DEF CallsInv

\* A new request takes a free slot.
LEMMA BeginCalls ==
  ASSUME CallsInv, NEW op \in Reads \cup Writes, NEW key \in Keys, Begin(op, key),
         op \in {"load", "reload"} => key = "list", op \notin {"load", "reload"} => key \in Products
  PROVE  CallsInv' /\ \E i \in Calls :
           /\ calls[i].op = "none" /\ calls'[i] = Call(op, key, "send")
           /\ \A j \in Calls \ {i} : calls'[j] = calls[j]
<1> DEFINE i == CHOOSE j \in Free : TRUE
<1>1. i \in Calls /\ calls[i].op = "none" /\ calls' = [calls EXCEPT ![i] = Call(op, key, "send")]
  BY FreeCall DEF Begin
<1>2. Call(op, key, "send") \in Requests /\ Sound(Call(op, key, "send"))
  BY NewCall DEF Sound, Reads, Writes
<1> HIDE DEF i
<1>3. QED
  BY <1>1, <1>2, OneCall

\* Requests that a write or a landing overtakes keep their shape.
LEMMA ManyCalls ==
  ASSUME CallsInv, NEW i \in Calls, NEW c \in Requests, Sound(c), NEW S \in SUBSET Calls,
         calls' = [j \in Calls |-> IF j = i THEN c
                                   ELSE IF j \in S THEN Overtaken(calls[j]) ELSE calls[j]]
  PROVE  /\ CallsInv' /\ calls'[i] = c
         /\ \A j \in Calls \ {i} : calls'[j] = IF j \in S THEN Overtaken(calls[j]) ELSE calls[j]
<1>1. ASSUME NEW j \in Calls PROVE Overtaken(calls[j]) \in Requests /\ Sound(Overtaken(calls[j]))
  BY OvertakenShape DEF CallsInv
<1>2. \A j \in Calls : calls'[j] = IF j = i THEN c
                                    ELSE IF j \in S THEN Overtaken(calls[j]) ELSE calls[j]
  OBVIOUS
<1>3. \A j \in Calls : calls'[j] \in Requests /\ Sound(calls'[j])
  BY <1>1, <1>2 DEF CallsInv
<1>4. calls' \in [Calls -> Requests]
  BY <1>3
<1>5. QED
  BY <1>2, <1>3, <1>4 DEF CallsInv

\* Invalidate in these terms.
LEMMA InvalidateCalls ==
  ASSUME ShapeInv, NEW i \in Calls, Invalidate(i)
  PROVE  /\ CallsInv'
         /\ calls'[i] = Call(calls[i].op, "list", "reply")
         /\ \A j \in Calls \ {i} :
              calls'[j] = IF calls[j].at = "read" /\ calls[j].task = calls[i].task
                          THEN Overtaken(calls[j]) ELSE calls[j]
<1> DEFINE S == {j \in Calls : calls[j].at = "read" /\ calls[j].task = calls[i].task}
           c == Call(calls[i].op, "list", "reply")
<1>1. calls[i] \in Requests /\ Sound(calls[i]) /\ calls[i].op \in Writes
  BY DEF Invalidate, ShapeInv, CallsInv, Sound
<1>2. c \in Requests /\ c.op \in Writes /\ c.at = "reply"
  BY <1>1, NewCall, KeysFacts
<1>3. Sound(c)
  BY <1>2 DEF Sound, Writes, Reads
<1>4. calls' = [j \in Calls |-> IF j = i THEN c
                                ELSE IF j \in S THEN Overtaken(calls[j]) ELSE calls[j]]
  BY DEF Invalidate
<1> HIDE DEF c
<1>5. QED
  BY <1>2, <1>3, <1>4, ManyCalls DEF ShapeInv, c

\* Lands in these terms.
LEMMA LandsCalls ==
  ASSUME ShapeInv, NEW i \in Calls, NEW bad \in BOOLEAN, Lands(i, bad)
  PROVE  /\ CallsInv'
         /\ calls'[i] = Idle
         /\ \A j \in Calls \ {i} :
              calls'[j] = IF OfPage(calls[j]) /\ calls[j].at \in {"read", "reply"}
                          THEN Overtaken(calls[j]) ELSE calls[j]
<1> DEFINE S == {j \in Calls : OfPage(calls[j]) /\ calls[j].at \in {"read", "reply"}}
<1>1. Idle \in Requests /\ Sound(Idle)
  BY NewCall, KeysFacts DEF Sound, Reads, Writes
<1>2. calls' = [j \in Calls |-> IF j = i THEN Idle
                                ELSE IF j \in S THEN Overtaken(calls[j]) ELSE calls[j]]
  BY DEF Lands
<1>3. QED
  BY <1>1, <1>2, ManyCalls DEF ShapeInv

\* What is read and shown suits the table of all products.
LEMMA WholeRows == ASSUME NEW f \in [Products -> Row] PROVE f \in Rowsets /\ f # None /\ f \in Snapshot
BY RowsetsFacts, NoneAssumption DEF Snapshot

\* At first two requests are under way and nothing is known.
LEMMA InitShape == Init => ShapeInv
<1> SUFFICES ASSUME Init PROVE ShapeInv
  OBVIOUS
<1>1. CallsInv
  <2>1. Idle \in Requests /\ Sound(Idle)
    BY NewCall, KeysFacts DEF Sound, Reads, Writes
  <2> DEFINE a == Call("load", "list", "send")
             b == Call("reload", "list", "send")
  <2>2. a \in Requests /\ a.op = "load" /\ a.key = "list" /\ a.at = "send"
    BY NewCall, KeysFacts DEF Reads
  <2>3. b \in Requests /\ b.op = "reload" /\ b.key = "list" /\ b.at = "send"
    BY NewCall, KeysFacts DEF Reads
  <2>4. Sound(a) /\ Sound(b)
    BY <2>2, <2>3 DEF Sound, Reads, Writes
  <2>5. calls = [[i \in Calls |-> Idle] EXCEPT ![Opening[1]] = a, ![Opening[2]] = b]
    BY DEF Init
  <2> HIDE DEF a, b
  <2>6. \A i \in Calls : calls[i] \in {Idle, a, b}
    BY <2>5
  <2>7. calls \in [Calls -> Requests]
    BY <2>1, <2>2, <2>3, <2>5
  <2>8. QED
    BY <2>1, <2>4, <2>6, <2>7 DEF CallsInv
<1>2. CacheInv
  BY DEF Init, CacheInv, Entry
<1>3. ScreensInv
  BY DEF Init, ScreensInv, Snapshot
<1>4. TableInv
  BY DEF Init, TableInv, Row
<1>5. QED
  BY <1>1, <1>2, <1>3, <1>4 DEF ShapeInv

\* What a task puts into its cache suits the key.
LEMMA CachePut ==
  ASSUME CacheInv, NEW t \in Tasks, NEW k \in Keys, NEW rows \in [Covered(k) -> Row], NEW late \in BOOLEAN,
         cache' = [cache EXCEPT ![t][k] = [rows |-> rows, late |-> late]]
  PROVE  /\ CacheInv' /\ cache'[t][k] = [rows |-> rows, late |-> late]
         /\ \A s \in Tasks : \A j \in Keys : s # t \/ j # k => cache'[s][j] = cache[s][j]
<1> DEFINE e == [rows |-> rows, late |-> late]
<1>1. e \in Entry /\ e.rows = rows
  BY RowsetsFacts, KeysFacts DEF Entry
<1> HIDE DEF e
<1>2. cache' = [cache EXCEPT ![t][k] = e]
  BY DEF e
<1>3. cache' \in [Tasks -> [Keys -> Entry]] /\ cache'[t][k] = e
      /\ \A s \in Tasks : \A j \in Keys : s # t \/ j # k => cache'[s][j] = cache[s][j]
  BY <1>1, <1>2 DEF CacheInv
<1>4. QED
  BY <1>1, <1>3 DEF CacheInv, e

\* Every step keeps the shapes.
LEMMA ShapeStep == ShapeInv /\ [Next]_vars => ShapeInv'
<1> SUFFICES ASSUME ShapeInv, [Next]_vars PROVE ShapeInv'
  OBVIOUS
<1>i. ASSUME NEW i \in Calls PROVE calls[i] \in Requests /\ Sound(calls[i])
  BY DEF ShapeInv, CallsInv
<1>1. ASSUME NEW i \in Calls, NEW t \in Tasks, Hit(i, t) PROVE ShapeInv'
  <2> DEFINE e == cache[t][calls[i].key]
             c == [calls[i] EXCEPT !.at = "reply", !.rows = e.rows, !.late = Behind(e.rows)]
  <2>1. e # None /\ calls' = [calls EXCEPT ![i] = c] /\ calls[i].op \in Reads /\ calls[i].key \in Keys
    BY <1>1, <1>i DEF Hit, Requests, ShapeInv, CallsInv
  <2>2. e.rows \in [Covered(calls[i].key) -> Row] /\ e.rows \in Rowsets
    BY <2>1, RowsetsFacts, KeysFacts DEF ShapeInv, CacheInv
  <2>3. Behind(e.rows) \in BOOLEAN
    BY DEF Behind
  <2>4. c \in Requests
    BY <1>i, <2>2, <2>3 DEF Requests
  <2>5. Sound(c)
    BY <1>i, <2>1, <2>2 DEF Sound, Reads, Writes, Requests
  <2> HIDE DEF c
  <2>6. CallsInv'
    BY <2>1, <2>4, <2>5, OneCall DEF ShapeInv
  <2>7. QED
    BY <1>1, <2>6 DEF Hit, store, screens, history, ShapeInv, CacheInv, ScreensInv, TableInv
<1>2. ASSUME NEW i \in Calls, NEW t \in Tasks, Miss(i, t) PROVE ShapeInv'
  <2>1. PICK a \in Answers(calls[i].key) :
          calls' = [calls EXCEPT ![i].at = "read", ![i].task = t, ![i].rows = a.rows, ![i].late = a.late]
    BY <1>2 DEF Miss
  <2> DEFINE c == [calls[i] EXCEPT !.at = "read", !.task = t, !.rows = a.rows, !.late = a.late]
  <2>2. calls' = [calls EXCEPT ![i] = c] /\ calls[i].op \in Reads /\ calls[i].key \in Keys
    BY <1>2, <1>i, <2>1 DEF Miss, Requests, ShapeInv, CallsInv
  <2>3. a.rows \in [Covered(calls[i].key) -> Row] /\ a.rows \in Rowsets /\ a.late \in BOOLEAN
    BY <2>2, AnswersShape, RowsetsFacts, KeysFacts DEF ShapeInv
  <2>4. c \in Requests
    BY <1>i, <2>3 DEF Requests
  <2>5. Sound(c)
    BY <1>i, <2>2, <2>3 DEF Sound, Reads, Writes, Requests
  <2> HIDE DEF c
  <2>6. CallsInv'
    BY <2>2, <2>4, <2>5, OneCall DEF ShapeInv
  <2>7. QED
    BY <1>2, <2>6 DEF Miss, store, screens, history, ShapeInv, CacheInv, ScreensInv, TableInv
<1>3. ASSUME NEW i \in Calls, Fill(i) PROVE ShapeInv'
  <2> DEFINE c == [calls[i] EXCEPT !.at = "reply", !.task = None]
  <2>1. /\ calls' = [calls EXCEPT ![i] = c] /\ calls[i].op \in Reads /\ calls[i].key \in Keys
        /\ calls[i].task \in Tasks /\ calls[i].late \in BOOLEAN
        /\ calls[i].rows \in [Covered(calls[i].key) -> Row]
    BY <1>3, <1>i DEF Fill, Requests, ShapeInv, CallsInv, Sound
  <2>2. c \in Requests /\ Sound(c)
    BY <1>3, <1>i, <2>1 DEF Sound, Reads, Writes, Requests
  <2> HIDE DEF c
  <2>3. CallsInv'
    BY <2>1, <2>2, OneCall DEF ShapeInv
  <2>4. cache' = [cache EXCEPT ![calls[i].task][calls[i].key] = [rows |-> calls[i].rows, late |-> calls[i].late]]
    BY <1>3 DEF Fill
  <2>5. CacheInv'
    BY <2>1, <2>4, CachePut DEF ShapeInv
  <2>6. QED
    BY <1>3, <2>3, <2>5 DEF Fill, store, screens, history, ShapeInv, ScreensInv, TableInv
<1>4. ASSUME NEW i \in Calls, NEW t \in Tasks, Write(i, t) PROVE ShapeInv'
  <2> DEFINE p == calls[i].key
             op == calls[i].op
             c == [calls[i] EXCEPT !.at = "written", !.task = t, !.rows = table']
  <2>1. p \in Products /\ op \in Writes
    BY <1>4, <1>i DEF Write, Sound
  <2>2. table' \in [Products -> Row] /\ prior' \in [Products -> Row]
    BY <1>4, <2>1 DEF Write, ShapeInv, TableInv, Row
  <2>3. news' \in [Products -> Nat] /\ owed' \in [Products -> Nat]
    <3>0. table[p].rev + 1 \in Nat
      BY <2>1 DEF ShapeInv, TableInv, Row
    <3>1. CASE op = "update"
      <4>1. PICK n \in 1..Copies : news' = [news EXCEPT ![p] = @ + n]
        BY <1>4, <3>1 DEF Write, Announce
      <4>2. n \in Nat
        BY <4>1, CatalogueAssumption
      <4>3. owed' = [owed EXCEPT ![p] = table[p].rev + 1]
        BY <1>4, <3>1 DEF Write, Announce
      <4>4. QED
        BY <2>1, <3>0, <4>1, <4>2, <4>3 DEF ShapeInv, TableInv
    <3>2. CASE op # "update"
      BY <1>4, <3>2 DEF Write, Announce, ShapeInv, TableInv
    <3>3. QED
      BY <3>1, <3>2
  <2>4. calls' = [calls EXCEPT ![i] = c]
    BY <1>4 DEF Write, ShapeInv, CallsInv
  <2>5. c \in Requests
    BY <1>i, <2>2, WholeRows DEF Requests
  <2>6. Sound(c)
    BY <1>i, <2>1, <2>2 DEF Sound, Requests, Reads, Writes
  <2> HIDE DEF c
  <2>7. CallsInv'
    BY <2>4, <2>5, <2>6, OneCall DEF ShapeInv
  <2>8. QED
    BY <1>4, <2>2, <2>3, <2>7 DEF Write, screens, ShapeInv, CacheInv, ScreensInv, TableInv
<1>5. ASSUME NEW i \in Calls, Invalidate(i) PROVE ShapeInv'
  <2>1. CallsInv'
    BY <1>5, InvalidateCalls
  <2>2. calls[i].task \in Tasks /\ calls[i].key \in Products /\ calls[i].rows \in [Products -> Row]
    BY <1>5, <1>i DEF Invalidate, Sound
  <2>3. CacheInv'
    BY <1>5, <2>2 DEF Invalidate, ShapeInv, CacheInv, Entry
  <2>4. calls[i].rows[calls[i].key].rev \in Nat
    BY <2>2 DEF Row
  <2>5. wrote[calls[i].task][calls[i].key] \in Nat
    BY <2>2 DEF ShapeInv, TableInv
  <2>6. Later(wrote[calls[i].task][calls[i].key], calls[i].rows[calls[i].key].rev) \in Nat
    BY <2>4, <2>5 DEF Later
  <2>7. wrote' \in [Tasks -> [Products -> Nat]]
    BY <1>5, <2>2, <2>6 DEF Invalidate, ShapeInv, TableInv
  <2>8. QED
    BY <1>5, <2>1, <2>3, <2>7 DEF Invalidate, store, screens, ShapeInv, ScreensInv, TableInv
<1>6. ASSUME NEW i \in Calls, NEW bad \in BOOLEAN, Lands(i, bad), shown' \in Snapshot PROVE ShapeInv'
  <2>1. CallsInv'
    BY <1>6, LandsCalls
  <2>2. excused' \subseteq Products
    BY <1>6, <1>i, KeysFacts DEF Lands, ShapeInv, TableInv, Requests
  <2>3. QED
    BY <1>6, <2>1, <2>2 DEF Lands, store, ShapeInv, CacheInv, ScreensInv, TableInv
<1>7. ASSUME NEW i \in Calls, PageLoaded(i) PROVE ShapeInv'
  <2>1. calls[i].rows \in [Products -> Row] /\ calls[i].late \in BOOLEAN
    BY <1>7, <1>i, KeysFacts DEF PageLoaded, Sound, Reads, Requests
  <2>2. QED
    BY <1>6, <1>7, <2>1, WholeRows DEF PageLoaded
<1>8. ASSUME NEW i \in Calls, PageRefetched(i) PROVE ShapeInv'
  <2>1. calls[i].rows \in [Covered(calls[i].key) -> Row] /\ calls[i].late \in BOOLEAN
    BY <1>8, <1>i, KeysFacts DEF PageRefetched, Sound, Reads, Requests
  <2>2. shown # None => shown \in [Products -> Row]
    BY DEF ShapeInv, ScreensInv, Snapshot
  <2>3. [rev |-> 0, there |-> FALSE] \in Row
    BY DEF Row
  <2>4. shown' \in [Products -> Row]
    BY <1>8, <2>1, <2>2, <2>3 DEF PageRefetched, Merge
  <2>5. QED
    BY <1>6, <1>8, <2>1, <2>4, WholeRows DEF PageRefetched
<1>9. ASSUME NEW i \in Calls, PageFails(i) PROVE ShapeInv'
  BY <1>6, <1>9 DEF PageFails, ShapeInv, ScreensInv
<1>10. ASSUME NEW i \in Calls, Reload(i), desk' \in [list : Snapshot, busy : BOOLEAN, error : BOOLEAN],
              UNCHANGED <<store, cache, news, shown, history>>
       PROVE  ShapeInv'
  <2> DEFINE c == Call("reload", "list", "send")
  <2>1. c \in Requests /\ c.op = "reload" /\ c.key = "list" /\ c.at = "send"
    BY NewCall, KeysFacts DEF Reads
  <2>2. Sound(c)
    BY <2>1 DEF Sound, Reads, Writes
  <2>3. calls' = [calls EXCEPT ![i] = c]
    BY <1>10 DEF Reload
  <2> HIDE DEF c
  <2>4. CallsInv'
    BY <2>1, <2>2, <2>3, OneCall DEF ShapeInv
  <2>5. QED
    BY <1>10, <2>4 DEF store, history, ShapeInv, CacheInv, ScreensInv, TableInv
<1>11. ASSUME NEW i \in Calls, Saved(i) PROVE ShapeInv'
  BY <1>10, <1>11 DEF Saved, ShapeInv, ScreensInv
<1>12. ASSUME NEW i \in Calls, Removed(i) PROVE ShapeInv'
  BY <1>10, <1>12 DEF Removed, screens, ShapeInv, ScreensInv
<1>13. ASSUME NEW i \in Calls, calls' = [calls EXCEPT ![i] = Idle],
              desk' \in [list : Snapshot, busy : BOOLEAN, error : BOOLEAN],
              UNCHANGED <<store, cache, news, shown, history>>
       PROVE  ShapeInv'
  <2>1. Idle \in Requests /\ Sound(Idle)
    BY NewCall, KeysFacts DEF Sound, Reads, Writes
  <2>2. CallsInv'
    BY <1>13, <2>1, OneCall DEF ShapeInv
  <2>3. QED
    BY <1>13, <2>2 DEF store, history, ShapeInv, CacheInv, ScreensInv, TableInv
<1>14. ASSUME NEW i \in Calls, DeskLoaded(i) PROVE ShapeInv'
  <2>1. calls[i].rows \in Snapshot
    BY <1>14, <1>i, KeysFacts DEF DeskLoaded, Sound, Reads, Snapshot
  <2>2. desk' \in [list : Snapshot, busy : BOOLEAN, error : BOOLEAN]
    BY <1>14, <2>1 DEF DeskLoaded, ShapeInv, ScreensInv
  <2>3. QED
    BY <1>13, <1>14, <2>2 DEF DeskLoaded
<1>15. ASSUME NEW i \in Calls, DeskFails(i) PROVE ShapeInv'
  <2>1. desk' \in [list : Snapshot, busy : BOOLEAN, error : BOOLEAN]
    BY <1>15 DEF DeskFails, ShapeInv, ScreensInv
  <2>2. QED
    BY <1>13, <1>15, <2>1 DEF DeskFails
<1>16. ASSUME NEW op \in Reads \cup Writes, NEW p \in Products, op \notin {"load", "reload"}, Begin(op, p)
       PROVE  CallsInv'
  BY <1>16, BeginCalls, KeysFacts DEF ShapeInv
<1>17. ASSUME NEW p \in Products, NEW op \in {"create", "update"}, Submit(op, p) PROVE ShapeInv'
  <2>1. CallsInv'
    BY <1>16, <1>17 DEF Submit, Writes
  <2>2. QED
    BY <1>17, <2>1 DEF Submit, store, history, ShapeInv, CacheInv, ScreensInv, TableInv
<1>18. ASSUME NEW p \in Products, Remove(p) PROVE ShapeInv'
  <2>1. CallsInv'
    BY <1>16, <1>18 DEF Remove, Writes
  <2>2. QED
    BY <1>18, <2>1 DEF Remove, store, screens, history, ShapeInv, CacheInv, ScreensInv, TableInv
<1>19. ASSUME NEW p \in Products, Refreshed(p) PROVE ShapeInv'
  <2>1. CallsInv'
    BY <1>16, <1>19 DEF Refreshed, Reads
  <2>2. QED
    BY <1>19, <2>1 DEF Refreshed, store, screens, history, ShapeInv, CacheInv, ScreensInv, TableInv
<1>20. ASSUME NEW p \in Products, Lost(p) PROVE ShapeInv'
  BY <1>20 DEF Lost, store, screens, ShapeInv, CallsInv, CacheInv, ScreensInv, TableInv
<1>21. ASSUME NEW t \in Tasks, NEW k \in Keys, Expire(t, k) PROVE ShapeInv'
  <2>1. CacheInv'
    BY <1>21 DEF Expire, ShapeInv, CacheInv, Entry
  <2>2. QED
    BY <1>21, <2>1 DEF Expire, store, screens, history, ShapeInv, CallsInv, ScreensInv, TableInv
<1>22. ASSUME NEW t \in Tasks, NEW k \in Keys, OtherReads(t, k) PROVE ShapeInv'
  <2>1. PICK a \in Answers(k) : cache' = [cache EXCEPT ![t][k] = a]
    BY <1>22 DEF OtherReads
  <2>2. a.rows \in [Covered(k) -> Row] /\ a.late \in BOOLEAN /\ a = [rows |-> a.rows, late |-> a.late]
    BY <2>1, AnswersShape DEF ShapeInv
  <2>3. CacheInv'
    BY <2>1, <2>2, CachePut DEF ShapeInv
  <2>4. QED
    BY <1>22, <2>3 DEF OtherReads, store, screens, history, ShapeInv, CallsInv, ScreensInv, TableInv
<1>23. CASE UNCHANGED vars
  BY <1>23 DEF vars, store, screens, history, ShapeInv, CallsInv, CacheInv, ScreensInv, TableInv
<1>24. QED
  BY <1>1, <1>2, <1>3, <1>4, <1>5, <1>7, <1>8, <1>9, <1>11, <1>12, <1>14, <1>15, <1>17, <1>18, <1>19,
     <1>20, <1>21, <1>22, <1>23
     DEF Next, People, Step

----------------------------------------------------------------------------
(* Nothing is ahead of the table, and a task's own writes are served.      *)

\* Does a request carry rows of the table?
Held(c) == c.at \in {"read", "written"} \/ (c.at = "reply" /\ c.op \in Reads)

\* Its rows are not ahead of the table "tb", and those that wait to be cached have the
\* writes "wr" of their task unless they are late.
Fits(c, tb, wr) ==
  /\ Held(c) => \A p \in DOMAIN c.rows : c.rows[p].rev <= tb[p].rev
  /\ c.at = "read" /\ ~c.late => \A p \in DOMAIN c.rows : c.rows[p].rev >= wr[c.task][p]

\* The same of an entry of a cache.
FitsEntry(e, k, tb, own) ==
  e # None => \A p \in Covered(k) : e.rows[p].rev <= tb[p].rev /\ (~e.late => e.rows[p].rev >= own[p])

AheadInv ==
  /\ \A p \in Products : prior[p].rev <= table[p].rev /\ owed[p] <= table[p].rev
  /\ \A t \in Tasks : \A p \in Products : wrote[t][p] <= table[p].rev
  /\ shown # None => \A p \in Products : shown[p].rev <= table[p].rev
  /\ \A i \in Calls : Fits(calls[i], table, wrote)
  /\ \A t \in Tasks : \A k \in Keys : FitsEntry(cache[t][k], k, table, wrote[t])

\* Rows that a request carries are rows of products.
LEMMA HeldRows ==
  ASSUME NEW c \in Requests, Sound(c), Held(c)
  PROVE  /\ DOMAIN c.rows \subseteq Products /\ c.rows \in [DOMAIN c.rows -> Row]
         /\ c.at # "written" => DOMAIN c.rows = Covered(c.key)
BY KeysFacts DEF Held, Sound, Requests

\* A request without rows fits.
LEMMA NoRows == ASSUME NEW c, c.at \in {"idle", "send"} \/ (c.at = "reply" /\ c.op \notin Reads), NEW tb, NEW wr
                PROVE  Fits(c, tb, wr)
BY DEF Fits, Held

\* A later table does no harm.
LEMMA FitsLater ==
  ASSUME NEW c \in Requests, Sound(c), NEW tb \in [Products -> Row], NEW nt \in [Products -> Row], NEW wr,
         \A p \in Products : tb[p].rev <= nt[p].rev, Fits(c, tb, wr)
  PROVE  Fits(c, nt, wr)
<1>1. ASSUME Held(c), NEW p \in DOMAIN c.rows PROVE c.rows[p].rev <= nt[p].rev
  <2>1. p \in Products /\ c.rows[p].rev \in Nat
    BY <1>1, HeldRows DEF Row
  <2>2. c.rows[p].rev <= tb[p].rev /\ tb[p].rev \in Nat /\ nt[p].rev \in Nat
    BY <1>1, <2>1 DEF Fits, Row
  <2>3. QED
    BY <2>1, <2>2
<1>2. QED
  BY <1>1 DEF Fits

\* Nor does being overtaken.
LEMMA OvertakenFits ==
  ASSUME NEW c \in Requests, Sound(c), NEW tb, NEW wr, Fits(c, tb, wr)
  PROVE  Fits(Overtaken(c), tb, wr)
BY OvertakenShape DEF Fits, Held

\* Where nothing was written, a changed request, cache or screen has to fit.
LEMMA SameTable ==
  ASSUME AheadInv, UNCHANGED <<table, prior, owed, wrote>>,
         \A i \in Calls : Fits(calls'[i], table, wrote),
         \A t \in Tasks : \A k \in Keys : cache'[t][k] = cache[t][k] \/ FitsEntry(cache'[t][k], k, table, wrote[t]),
         shown' = shown \/ \A p \in Products : shown'[p].rev <= table[p].rev
  PROVE  AheadInv'
BY DEF AheadInv

\* What a read brings fits.
LEMMA AnswersFit ==
  ASSUME ShapeInv, AheadInv, NEW key \in Keys, NEW a \in Answers(key), NEW t \in Tasks
  PROVE  /\ FitsEntry(a, key, table, wrote[t])
         /\ \A p \in Covered(key) : a.rows[p].rev <= table[p].rev /\ (~a.late => a.rows[p].rev >= wrote[t][p])
<1>1. ASSUME NEW p \in Covered(key) PROVE a.rows[p].rev <= table[p].rev
  <2>1. p \in Products
    BY KeysFacts
  <2>2. a.rows[p] \in {table[p], prior[p]}
    BY AnswersShape DEF ShapeInv
  <2>3. table[p].rev \in Nat /\ prior[p].rev <= table[p].rev
    BY <2>1 DEF ShapeInv, TableInv, Row, AheadInv
  <2>4. QED
    BY <2>2, <2>3
<1>2. ASSUME NEW p \in Covered(key), ~a.late PROVE a.rows[p].rev >= wrote[t][p]
  <2>1. p \in Products
    BY KeysFacts
  <2>2. a.rows[p] = table[p]
    BY <1>2, AnswersShape DEF ShapeInv
  <2>3. table[p].rev \in Nat /\ wrote[t][p] \in Nat /\ wrote[t][p] <= table[p].rev
    BY <2>1 DEF ShapeInv, TableInv, Row, AheadInv
  <2>4. QED
    BY <2>2, <2>3
<1>3. QED
  BY <1>1, <1>2 DEF FitsEntry

\* At first nothing is known.
LEMMA InitAhead == Init => AheadInv
<1> SUFFICES ASSUME Init PROVE AheadInv
  OBVIOUS
<1>1. \A i \in Calls : calls[i].at \in {"idle", "send"}
  BY DEF Init, Idle, Call
<1>2. \A i \in Calls : Fits(calls[i], table, wrote)
  BY <1>1, NoRows
<1>3. \A p \in Products : table[p].rev = 0 /\ prior[p].rev = 0
  BY DEF Init
<1>4. \A t \in Tasks : \A k \in Keys : FitsEntry(cache[t][k], k, table, wrote[t])
  BY DEF Init, FitsEntry
<1>5. /\ \A p \in Products : owed[p] = 0
      /\ \A t \in Tasks : \A p \in Products : wrote[t][p] = 0
      /\ shown = None
  BY DEF Init
<1>6. QED
  BY <1>2, <1>3, <1>4, <1>5 DEF AheadInv

\* Every step keeps it so.
LEMMA AheadStep == ShapeInv /\ ShapeInv' /\ AheadInv /\ [Next]_vars => AheadInv'
<1> SUFFICES ASSUME ShapeInv, ShapeInv', AheadInv, [Next]_vars PROVE AheadInv'
  OBVIOUS
<1>i. ASSUME NEW i \in Calls
      PROVE  /\ calls[i] \in Requests /\ Sound(calls[i]) /\ Fits(calls[i], table, wrote)
             /\ calls'[i] \in Requests /\ Sound(calls'[i])
  BY DEF ShapeInv, CallsInv, AheadInv
<1>1. ASSUME NEW i \in Calls, NEW t \in Tasks, Hit(i, t) PROVE AheadInv'
  <2> DEFINE e == cache[t][calls[i].key]
  <2>1. /\ e # None /\ calls[i].op \in Reads /\ calls[i].key \in Keys
        /\ calls' = [calls EXCEPT ![i].at = "reply", ![i].rows = e.rows, ![i].late = Behind(e.rows)]
    BY <1>1, <1>i DEF Hit, Requests
  <2>2. DOMAIN e.rows = Covered(calls[i].key)
    BY <2>1 DEF ShapeInv, CacheInv
  <2>3. \A p \in Covered(calls[i].key) : e.rows[p].rev <= table[p].rev
    BY <2>1 DEF AheadInv, FitsEntry
  <2>4. calls'[i].at = "reply" /\ calls'[i].rows = e.rows /\ \A j \in Calls \ {i} : calls'[j] = calls[j]
    BY <1>i, <2>1 DEF ShapeInv, CallsInv, Requests
  <2>5. Fits(calls'[i], table, wrote)
    BY <2>2, <2>3, <2>4 DEF Fits
  <2>6. \A j \in Calls : Fits(calls'[j], table, wrote)
    BY <1>i, <2>4, <2>5
  <2>7. QED
    BY <1>1, <2>6, SameTable DEF Hit, store, screens, history
<1>2. ASSUME NEW i \in Calls, NEW t \in Tasks, Miss(i, t) PROVE AheadInv'
  <2>1. PICK a \in Answers(calls[i].key) :
          calls' = [calls EXCEPT ![i].at = "read", ![i].task = t, ![i].rows = a.rows, ![i].late = a.late]
    BY <1>2 DEF Miss
  <2>2. calls[i].key \in Keys
    BY <1>i DEF Requests
  <2>3. /\ DOMAIN a.rows = Covered(calls[i].key)
        /\ \A p \in Covered(calls[i].key) :
             a.rows[p].rev <= table[p].rev /\ (~a.late => a.rows[p].rev >= wrote[t][p])
    <3>1. a.rows \in [Covered(calls[i].key) -> Row]
      BY <2>2, AnswersShape DEF ShapeInv
    <3>2. \A p \in Covered(calls[i].key) :
             a.rows[p].rev <= table[p].rev /\ (~a.late => a.rows[p].rev >= wrote[t][p])
      BY <2>2, AnswersFit
    <3>3. QED
      BY <3>1, <3>2
  <2>4. calls'[i].at = "read" /\ calls'[i].rows = a.rows /\ calls'[i].late = a.late /\ calls'[i].task = t
        /\ \A j \in Calls \ {i} : calls'[j] = calls[j]
    BY <1>i, <2>1 DEF ShapeInv, CallsInv, Requests
  <2>5. Fits(calls'[i], table, wrote)
    BY <2>3, <2>4 DEF Fits
  <2>6. \A j \in Calls : Fits(calls'[j], table, wrote)
    BY <1>i, <2>4, <2>5
  <2>7. QED
    BY <1>2, <2>6, SameTable DEF Miss, store, screens, history
<1>3. ASSUME NEW i \in Calls, Fill(i) PROVE AheadInv'
  <2> DEFINE c == calls[i]
             e == [rows |-> c.rows, late |-> c.late]
  <2>1. /\ c \in Requests /\ c.at = "read" /\ c.op \in Reads /\ c.key \in Keys /\ c.task \in Tasks
        /\ c.rows \in [Covered(c.key) -> Row] /\ Fits(c, table, wrote)
        /\ c.late \in BOOLEAN
    BY <1>3, <1>i DEF Fill, Sound, Requests
  <2>2. cache' = [cache EXCEPT ![c.task][c.key] = [rows |-> c.rows, late |-> c.late]]
    BY <1>3 DEF Fill
  <2>3. cache'[c.task][c.key] = e /\ \A s \in Tasks : \A j \in Keys : s # c.task \/ j # c.key => cache'[s][j] = cache[s][j]
    <3>1. cache \in [Tasks -> [Keys -> Entry]] /\ c.task \in Tasks /\ c.key \in Keys
      BY <2>1 DEF ShapeInv, CacheInv
    <3> HIDE DEF c
    <3>2. cache' = [cache EXCEPT ![c.task][c.key] = e]
      BY <2>2
    <3> HIDE DEF e
    <3>3. QED
      BY <3>1, <3>2
  <2>4. FitsEntry(e, c.key, table, wrote[c.task])
    BY <2>1 DEF Fits, Held, FitsEntry
  <2>5. calls'[i].at = "reply" /\ calls'[i].rows = c.rows /\ \A j \in Calls \ {i} : calls'[j] = calls[j]
    BY <1>3, <1>i DEF Fill, ShapeInv, CallsInv, Requests
  <2>6. Fits(calls'[i], table, wrote)
    BY <2>1, <2>5 DEF Fits, Held
  <2> HIDE DEF c, e
  <2>7. \A j \in Calls : Fits(calls'[j], table, wrote)
    BY <1>i, <2>5, <2>6
  <2>8. ASSUME NEW t \in Tasks, NEW k \in Keys
        PROVE  cache'[t][k] = cache[t][k] \/ FitsEntry(cache'[t][k], k, table, wrote[t])
    <3>1. CASE t = c.task /\ k = c.key
      BY <2>3, <2>4, <3>1
    <3>2. CASE t # c.task \/ k # c.key
      BY <2>3, <3>2
    <3>3. QED
      BY <3>1, <3>2
  <2>9. QED
    BY <1>3, <2>7, <2>8, SameTable DEF Fill, store, screens, history
<1>4. ASSUME NEW i \in Calls, NEW t \in Tasks, Write(i, t) PROVE AheadInv'
  <2> DEFINE p == calls[i].key
  <2>1. p \in Products
    BY <1>4, <1>i DEF Write, Sound
  <2>2. /\ table \in [Products -> Row] /\ table' \in [Products -> Row]
        /\ prior \in [Products -> Row] /\ prior' \in [Products -> Row]
        /\ owed \in [Products -> Nat] /\ owed' \in [Products -> Nat]
    BY DEF ShapeInv, TableInv
  <2>3. table'[p].rev = table[p].rev + 1 /\ \A q \in Products \ {p} : table'[q] = table[q]
    BY <1>4, <2>1, <2>2 DEF Write
  <2>4. \A q \in Products : table[q].rev \in Nat /\ table'[q].rev \in Nat /\ table[q].rev <= table'[q].rev
    BY <2>1, <2>2, <2>3 DEF Row
  <2>5. ASSUME NEW q \in Products PROVE prior'[q].rev <= table'[q].rev
    <3>1. prior'[q] = IF q = p THEN table[p] ELSE prior[q]
      BY <1>4, <2>1, <2>2 DEF Write
    <3>2. QED
      BY <2>3, <2>4, <3>1 DEF AheadInv
  <2>6. ASSUME NEW q \in Products PROVE owed'[q] <= table'[q].rev
    <3>1. owed'[q] = owed[q] \/ (q = p /\ owed'[q] = table[p].rev + 1)
      BY <1>4, <2>1, <2>2 DEF Write, Announce
    <3>2. owed[q] <= table[q].rev /\ owed[q] \in Nat
      BY <2>2 DEF AheadInv
    <3>3. QED
      BY <2>3, <2>4, <3>1, <3>2
  <2>7. ASSUME NEW s \in Tasks, NEW q \in Products PROVE wrote'[s][q] <= table'[q].rev
    <3>1. wrote[s][q] \in Nat /\ wrote[s][q] <= table[q].rev /\ wrote' = wrote
      BY <1>4 DEF ShapeInv, TableInv, AheadInv, Write
    <3>2. QED
      BY <2>4, <3>1
  <2>8. ASSUME shown' # None, NEW q \in Products PROVE shown'[q].rev <= table'[q].rev
    <3>1. shown' = shown /\ shown \in [Products -> Row]
      BY <1>4, <2>8 DEF Write, screens, ShapeInv, ScreensInv, Snapshot
    <3>2. shown[q].rev \in Nat /\ shown[q].rev <= table[q].rev
      BY <2>8, <3>1 DEF Row, AheadInv
    <3>3. QED
      BY <2>4, <3>1, <3>2
  <2>9. ASSUME NEW j \in Calls PROVE Fits(calls'[j], table', wrote')
    <3>1. CASE j = i
      <4>1. calls'[i].at = "written" /\ calls'[i].rows = table'
        BY <1>4, <1>i DEF Write, ShapeInv, CallsInv, Requests
      <4>2. QED
        BY <2>2, <2>4, <3>1, <4>1 DEF Fits
    <3>2. CASE j # i
      <4>1. calls'[j] = calls[j] /\ wrote' = wrote
        BY <1>4, <3>2 DEF Write, ShapeInv, CallsInv
      <4>2. Fits(calls[j], table', wrote)
        BY <1>i, <2>2, <2>4, FitsLater
      <4>3. QED
        BY <4>1, <4>2
    <3>3. QED
      BY <3>1, <3>2
  <2>10. ASSUME NEW s \in Tasks, NEW k \in Keys PROVE FitsEntry(cache'[s][k], k, table', wrote'[s])
    <3>1. cache' = cache /\ wrote' = wrote /\ FitsEntry(cache[s][k], k, table, wrote[s])
      BY <1>4 DEF Write, AheadInv
    <3>2. ASSUME cache[s][k] # None, NEW q \in Covered(k) PROVE cache[s][k].rows[q].rev <= table'[q].rev
      <4>1. q \in Products /\ cache[s][k].rows[q].rev \in Nat
        BY <3>2, KeysFacts DEF ShapeInv, CacheInv, Row
      <4>2. cache[s][k].rows[q].rev <= table[q].rev
        BY <3>1, <3>2 DEF FitsEntry
      <4>3. QED
        BY <2>4, <4>1, <4>2
    <3>3. QED
      BY <3>1, <3>2 DEF FitsEntry
  <2>11. QED
    BY <2>5, <2>6, <2>7, <2>8, <2>9, <2>10 DEF AheadInv
<1>5. ASSUME NEW i \in Calls, Invalidate(i) PROVE AheadInv'
  <2> DEFINE c == calls[i]
  <2>1. /\ c.at = "written" /\ c.task \in Tasks /\ c.key \in Products /\ c.rows \in [Products -> Row]
        /\ c.op \in Writes /\ Fits(c, table, wrote)
    BY <1>5, <1>i DEF Invalidate, Sound
  <2>2. c.rows[c.key].rev \in Nat /\ c.rows[c.key].rev <= table[c.key].rev
    BY <2>1 DEF Fits, Held, Row
  <2>3. wrote \in [Tasks -> [Products -> Nat]] /\ \A p \in Products : table[p].rev \in Nat
    BY DEF ShapeInv, TableInv, Row
  <2>4. UNCHANGED <<table, prior, shown, owed>>
    BY <1>5 DEF Invalidate, store, screens
  <2>5. wrote' = [wrote EXCEPT ![c.task][c.key] = Later(@, c.rows[c.key].rev)]
    BY <1>5 DEF Invalidate
  <2>6. \A s \in Tasks \ {c.task} : wrote'[s] = wrote[s]
    BY <2>1, <2>3, <2>5
  <2>7. ASSUME NEW s \in Tasks, NEW p \in Products PROVE wrote'[s][p] <= table[p].rev /\ wrote'[s][p] \in Nat
    <3>1. wrote'[s][p] = wrote[s][p] \/ (p = c.key /\ wrote'[s][p] = c.rows[c.key].rev)
      BY <2>1, <2>3, <2>5 DEF Later
    <3>2. wrote[s][p] <= table[p].rev /\ wrote[s][p] \in Nat
      BY <2>3 DEF AheadInv
    <3>3. QED
      BY <2>2, <3>1, <3>2
  <2>8. /\ calls'[i] = Call(c.op, "list", "reply")
        /\ \A j \in Calls \ {i} :
             calls'[j] = IF calls[j].at = "read" /\ calls[j].task = c.task
                         THEN Overtaken(calls[j]) ELSE calls[j]
    BY <1>5, InvalidateCalls
  <2>9. ASSUME NEW j \in Calls PROVE Fits(calls'[j], table, wrote')
    <3>1. CASE j = i
      <4>1. calls'[i].at = "reply" /\ calls'[i].op \notin Reads
        BY <2>1, <2>8, NewCall, KeysFacts DEF Reads, Writes
      <4>2. QED
        BY <3>1, <4>1, NoRows
    <3>2. CASE j # i /\ calls[j].at = "read" /\ calls[j].task = c.task
      <4>1. calls'[j] = Overtaken(calls[j])
        BY <2>8, <3>2
      <4>2. /\ calls'[j].at = "read" /\ calls'[j].rows = calls[j].rows /\ calls'[j].task = c.task
            /\ Fits(calls'[j], table, wrote)
        BY <1>i, <3>2, <4>1, OvertakenShape, OvertakenFits
      <4>3. DOMAIN calls[j].rows \subseteq Products
        BY <1>i, <3>2, HeldRows DEF Held
      <4>4. ~calls'[j].late => \A p \in DOMAIN calls[j].rows : calls[j].rows[p] = table[p]
        BY <1>i, <4>1 DEF Overtaken, Requests
      <4>5. ~calls'[j].late => \A p \in DOMAIN calls[j].rows : calls[j].rows[p].rev >= wrote'[c.task][p]
        BY <2>1, <2>3, <2>7, <4>3, <4>4
      <4>6. QED
        BY <4>2, <4>5 DEF Fits
    <3>3. CASE j # i /\ ~(calls[j].at = "read" /\ calls[j].task = c.task)
      <4>1. calls'[j] = calls[j]
        BY <2>8, <3>3
      <4>2. calls[j].at = "read" => wrote'[calls[j].task] = wrote[calls[j].task]
        BY <1>i, <2>6, <3>3 DEF Sound
      <4>3. QED
        BY <1>i, <4>1, <4>2 DEF Fits
    <3>4. QED
      BY <3>1, <3>2, <3>3
  <2>10. ASSUME NEW s \in Tasks, NEW k \in Keys PROVE FitsEntry(cache'[s][k], k, table, wrote'[s])
    <3>1. cache'[s][k] = IF s = c.task THEN None ELSE cache[s][k]
      BY <1>5, <2>1 DEF Invalidate, ShapeInv, CacheInv
    <3>2. QED
      BY <2>6, <3>1 DEF FitsEntry, AheadInv
  <2> HIDE DEF c
  <2>11. QED
    BY <2>4, <2>7, <2>9, <2>10 DEF AheadInv
<1>6. ASSUME NEW i \in Calls, NEW bad \in BOOLEAN, Lands(i, bad),
             shown' = shown \/ \A p \in Products : shown'[p].rev <= table[p].rev
      PROVE  AheadInv'
  <2>1. ASSUME NEW j \in Calls PROVE Fits(calls'[j], table, wrote)
    <3>1. Fits(Idle, table, wrote)
      BY NoRows DEF Idle
    <3>2. calls'[j] \in {Idle, Overtaken(calls[j]), calls[j]}
      BY <1>6, LandsCalls
    <3>3. QED
      BY <1>i, <3>1, <3>2, OvertakenFits
  <2>2. QED
    BY <1>6, <2>1, SameTable DEF Lands, store
<1>7. ASSUME NEW i \in Calls, PageLoaded(i) PROVE AheadInv'
  <2>1. DOMAIN calls[i].rows = Products /\ Held(calls[i]) /\ calls[i].late \in BOOLEAN
    BY <1>7, <1>i, KeysFacts, HeldRows DEF PageLoaded, Sound, Held, Reads, Requests
  <2>2. \A p \in Products : shown'[p].rev <= table[p].rev
    BY <1>7, <1>i, <2>1 DEF PageLoaded, Fits
  <2>3. QED
    BY <1>6, <1>7, <2>1, <2>2 DEF PageLoaded
<1>8. ASSUME NEW i \in Calls, PageRefetched(i) PROVE AheadInv'
  <2>1. Held(calls[i]) /\ calls[i].late \in BOOLEAN
    BY <1>8, <1>i DEF PageRefetched, Held, Reads, Requests
  <2>2. ASSUME NEW p \in Products PROVE shown'[p].rev <= table[p].rev
    <3>1. table[p].rev \in Nat
      BY DEF ShapeInv, TableInv, Row
    <3>2. shown'[p] = IF p \in DOMAIN calls[i].rows THEN calls[i].rows[p]
                      ELSE IF shown = None THEN [rev |-> 0, there |-> FALSE] ELSE shown[p]
      BY <1>8 DEF PageRefetched, Merge
    <3>3. QED
      BY <1>i, <2>1, <3>1, <3>2 DEF Fits, AheadInv
  <2>3. QED
    BY <1>6, <1>8, <2>1, <2>2 DEF PageRefetched
<1>9. ASSUME NEW i \in Calls, PageFails(i) PROVE AheadInv'
  BY <1>6, <1>9 DEF PageFails
<1>10. ASSUME NEW i \in Calls, NEW c \in Requests, c.at \in {"idle", "send"}, calls' = [calls EXCEPT ![i] = c],
              UNCHANGED <<store, cache, shown, history>>
       PROVE  AheadInv'
  <2>1. calls'[i] = c /\ \A j \in Calls \ {i} : calls'[j] = calls[j]
    BY <1>10 DEF ShapeInv, CallsInv
  <2>2. Fits(c, table, wrote)
    BY <1>10, NoRows
  <2>3. \A j \in Calls : Fits(calls'[j], table, wrote)
    BY <1>i, <2>1, <2>2
  <2>4. QED
    BY <1>10, <2>3, SameTable DEF store, history
<1>11. ASSUME NEW i \in Calls, Reload(i), UNCHANGED <<store, cache, shown, history>> PROVE AheadInv'
  <2> DEFINE c == Call("reload", "list", "send")
  <2>1. c \in Requests /\ c.at \in {"idle", "send"}
    BY NewCall, KeysFacts DEF Reads
  <2>2. calls' = [calls EXCEPT ![i] = c]
    BY <1>11 DEF Reload
  <2> HIDE DEF c
  <2>3. QED
    BY <1>10, <1>11, <2>1, <2>2
<1>12. ASSUME NEW i \in Calls, Saved(i) \/ Removed(i) PROVE AheadInv'
  BY <1>11, <1>12 DEF Saved, Removed, screens
<1>13. ASSUME NEW i \in Calls, DeskLoaded(i) \/ DeskFails(i) PROVE AheadInv'
  <2>1. Idle \in Requests /\ Idle.at = "idle"
    BY NewCall, KeysFacts DEF Idle
  <2>2. QED
    BY <1>10, <1>13, <2>1 DEF DeskLoaded, DeskFails
<1>14. ASSUME NEW op \in {"delete", "refetch", "create", "update"}, NEW p \in Products, Begin(op, p), UNCHANGED <<store, cache, shown, history>>
       PROVE  AheadInv'
  <2> DEFINE i == CHOOSE j \in Free : TRUE
             c == Call(op, p, "send")
  <2>1. i \in Calls
    BY <1>14, FreeCall DEF Begin
  <2>2. calls' = [calls EXCEPT ![i] = c]
    BY <1>14 DEF Begin
  <2>3. c \in Requests /\ c.at \in {"idle", "send"}
    BY NewCall, KeysFacts DEF Reads, Writes
  <2> HIDE DEF i, c
  <2>4. QED
    BY <1>10, <1>14, <2>1, <2>2, <2>3
<1>15. ASSUME NEW p \in Products, Remove(p) \/ Refreshed(p) \/ \E op \in {"create", "update"} : Submit(op, p)
       PROVE  AheadInv'
  <2>1. CASE Remove(p)
    BY <1>14, <2>1 DEF Remove, screens
  <2>2. CASE Refreshed(p)
    BY <1>14, <2>2 DEF Refreshed, screens
  <2>3. ASSUME NEW op \in {"create", "update"}, Submit(op, p) PROVE AheadInv'
    BY <1>14, <2>3 DEF Submit
  <2>4. QED
    BY <1>15, <2>1, <2>2, <2>3
<1>16. ASSUME NEW p \in Products, Lost(p) PROVE AheadInv'
  BY <1>16 DEF Lost, store, screens, AheadInv
<1>17. ASSUME NEW t \in Tasks, NEW k \in Keys, Expire(t, k) PROVE AheadInv'
  <2>1. \A s \in Tasks : \A j \in Keys : cache'[s][j] = cache[s][j] \/ cache'[s][j] = None
    BY <1>17 DEF Expire, ShapeInv, CacheInv
  <2>2. \A s \in Tasks : \A j \in Keys : cache'[s][j] = cache[s][j] \/ FitsEntry(cache'[s][j], j, table, wrote[s])
    BY <2>1 DEF FitsEntry
  <2>3. QED
    BY <1>17, <1>i, <2>2, SameTable DEF Expire, store, screens, history
<1>18. ASSUME NEW t \in Tasks, NEW k \in Keys, OtherReads(t, k) PROVE AheadInv'
  <2>1. PICK a \in Answers(k) : cache' = [cache EXCEPT ![t][k] = a]
    BY <1>18 DEF OtherReads
  <2>2. \A s \in Tasks : \A j \in Keys : cache'[s][j] = cache[s][j] \/ (s = t /\ j = k /\ cache'[s][j] = a)
    BY <2>1 DEF ShapeInv, CacheInv
  <2>3. FitsEntry(a, k, table, wrote[t])
    BY <2>1, AnswersFit
  <2>4. \A s \in Tasks : \A j \in Keys : cache'[s][j] = cache[s][j] \/ FitsEntry(cache'[s][j], j, table, wrote[s])
    BY <2>2, <2>3
  <2>5. QED
    BY <1>18, <1>i, <2>4, SameTable DEF OtherReads, store, screens, history
<1>19. CASE UNCHANGED vars
  BY <1>19 DEF vars, store, screens, history, AheadInv
<1>20. QED
  BY <1>1, <1>2, <1>3, <1>4, <1>5, <1>7, <1>8, <1>9, <1>12, <1>13, <1>15, <1>16, <1>17, <1>18, <1>19
     DEF Next, People, Step

----------------------------------------------------------------------------
(* One save at a time.                                                     *)

Saves(c) == c.op \in {"create", "update"}

SavingInv ==
  /\ \A i \in Calls : \A j \in Calls : Saves(calls[i]) /\ Saves(calls[j]) => i = j
  /\ desk.busy <=> \E i \in Calls : Saves(calls[i])

\* At first nothing is saved.
LEMMA InitSaving == Init => SavingInv
<1> SUFFICES ASSUME Init PROVE SavingInv
  OBVIOUS
<1>1. \A i \in Calls : calls[i].op \in {"none", "load", "reload"}
  BY DEF Init, Idle, Call
<1>2. \A i \in Calls : ~Saves(calls[i])
  BY <1>1 DEF Saves
<1>3. QED
  BY <1>2 DEF Init, SavingInv

\* The button goes off with the save and comes back with its end.
LEMMA SavingStep == ShapeInv /\ SavingInv /\ [Next]_vars => SavingInv'
<1> SUFFICES ASSUME ShapeInv, SavingInv, [Next]_vars PROVE SavingInv'
  OBVIOUS
<1>i. ASSUME NEW i \in Calls PROVE calls[i] \in Requests /\ Sound(calls[i])
  BY DEF ShapeInv, CallsInv
<1>c. calls \in [Calls -> Requests]
  BY DEF ShapeInv, CallsInv
<1>s. Idle.op = "none" /\ Call("reload", "list", "send").op = "reload"
  BY NewCall, KeysFacts DEF Reads, Idle
<1>a. ASSUME desk'.busy = desk.busy, \A j \in Calls : Saves(calls'[j]) <=> Saves(calls[j])
      PROVE  SavingInv'
  BY <1>a DEF SavingInv
<1>1. ASSUME NEW i \in Calls, NEW t \in Tasks, Hit(i, t) \/ Miss(i, t) \/ Write(i, t) PROVE SavingInv'
  <2>1. CASE Hit(i, t)
    <3>1. \A j \in Calls : calls'[j].op = calls[j].op
      BY <2>1, <1>c DEF Hit, Requests
    <3>2. QED
      BY <2>1, <1>a, <3>1 DEF Saves, Hit, screens
  <2>2. CASE Miss(i, t)
    <3>1. \A j \in Calls : calls'[j].op = calls[j].op
      BY <2>2, <1>c DEF Miss, Requests
    <3>2. QED
      BY <2>2, <1>a, <3>1 DEF Saves, Miss, screens
  <2>3. CASE Write(i, t)
    <3>1. \A j \in Calls : calls'[j].op = calls[j].op
      BY <2>3, <1>c DEF Write, Requests
    <3>2. QED
      BY <2>3, <1>a, <3>1 DEF Saves, Write, screens
  <2>4. QED
    BY <1>1, <2>1, <2>2, <2>3
<1>2. ASSUME NEW i \in Calls, Fill(i) PROVE SavingInv'
  <2>1. \A j \in Calls : calls'[j].op = calls[j].op
    BY <1>2, <1>c DEF Fill, Requests
  <2>2. QED
    BY <1>2, <1>a, <2>1 DEF Saves, Fill, screens
<1>3. ASSUME NEW i \in Calls, Invalidate(i) PROVE SavingInv'
  <2>1. Call(calls[i].op, "list", "reply").op = calls[i].op
    BY <1>i, NewCall, KeysFacts DEF Requests
  <2>2. \A j \in Calls : calls'[j].op = calls[j].op
    BY <1>3, <1>i, <2>1, InvalidateCalls, OvertakenShape
  <2>3. QED
    BY <1>3, <1>a, <2>2 DEF Saves, Invalidate, screens
<1>4. ASSUME NEW i \in Calls, NEW bad \in BOOLEAN, Lands(i, bad), OfPage(calls[i]) PROVE SavingInv'
  <2>1. \A j \in Calls \ {i} : calls'[j].op = calls[j].op
    BY <1>4, <1>i, LandsCalls, OvertakenShape
  <2>2. calls'[i] = Idle
    BY <1>4, LandsCalls
  <2>3. \A j \in Calls : Saves(calls'[j]) <=> Saves(calls[j])
    BY <1>4, <1>s, <2>1, <2>2 DEF Saves, OfPage
  <2>4. QED
    BY <1>4, <1>a, <2>3 DEF Lands
<1>5. ASSUME NEW i \in Calls, PageLoaded(i) \/ PageRefetched(i) \/ PageFails(i) PROVE SavingInv'
  <2>1. calls[i].late \in BOOLEAN
    BY <1>i DEF Requests
  <2>2. QED
    BY <1>4, <1>5, <2>1 DEF PageLoaded, PageRefetched, PageFails, OfPage
<1>6. ASSUME NEW i \in Calls, NEW c, ~Saves(c), calls' = [calls EXCEPT ![i] = c],
             desk'.busy = (desk.busy /\ ~Saves(calls[i]))
      PROVE  SavingInv'
  <2>1. calls'[i] = c /\ \A j \in Calls \ {i} : calls'[j] = calls[j]
    BY <1>6, <1>c
  <2>2. QED
    BY <1>6, <2>1 DEF SavingInv
<1>7. ASSUME NEW i \in Calls, Saved(i) PROVE SavingInv'
  <2>1. calls' = [calls EXCEPT ![i] = Call("reload", "list", "send")]
    BY <1>7 DEF Saved, Reload
  <2>2. desk'.busy = FALSE /\ Saves(calls[i])
    BY <1>7 DEF Saved, Saves, ShapeInv, ScreensInv
  <2>3. ~Saves(Call("reload", "list", "send"))
    BY <1>s DEF Saves
  <2>4. QED
    BY <1>6, <2>1, <2>2, <2>3
<1>8. ASSUME NEW i \in Calls, Removed(i) PROVE SavingInv'
  <2>1. calls' = [calls EXCEPT ![i] = Call("reload", "list", "send")]
    BY <1>8 DEF Removed, Reload
  <2>2. desk'.busy = desk.busy /\ ~Saves(calls[i]) /\ desk.busy \in BOOLEAN
    BY <1>8 DEF Removed, Saves, screens, ShapeInv, ScreensInv
  <2>3. ~Saves(Call("reload", "list", "send"))
    BY <1>s DEF Saves
  <2>4. desk'.busy = (desk.busy /\ ~Saves(calls[i]))
    BY <2>2
  <2>5. QED
    BY <1>6, <2>1, <2>3, <2>4
<1>9. ASSUME NEW i \in Calls, DeskLoaded(i) \/ DeskFails(i) PROVE SavingInv'
  <2>1. calls' = [calls EXCEPT ![i] = Idle]
    BY <1>9 DEF DeskLoaded, DeskFails
  <2>2. desk'.busy = (desk.busy /\ ~Saves(calls[i]))
    BY <1>9 DEF DeskLoaded, DeskFails, Saves, ShapeInv, ScreensInv
  <2>3. ~Saves(Idle)
    BY <1>s DEF Saves
  <2>4. QED
    BY <1>6, <2>1, <2>2, <2>3
<1>10. ASSUME NEW p \in Products, NEW op \in {"create", "update"}, Submit(op, p) PROVE SavingInv'
  <2>1. PICK i \in Calls : /\ calls[i].op = "none" /\ calls'[i] = Call(op, p, "send")
                           /\ \A j \in Calls \ {i} : calls'[j] = calls[j]
    BY <1>10, BeginCalls, KeysFacts DEF Submit, Writes, ShapeInv
  <2>2. calls'[i].op = op
    BY <2>1, NewCall, KeysFacts DEF Writes
  <2>3. desk'.busy /\ ~desk.busy
    BY <1>10 DEF Submit, ShapeInv, ScreensInv
  <2>4. QED
    BY <2>1, <2>2, <2>3 DEF SavingInv, Saves
<1>11. ASSUME NEW p \in Products, NEW op \in {"delete", "refetch"}, Begin(op, p), UNCHANGED desk PROVE SavingInv'
  <2>1. PICK i \in Calls : /\ calls[i].op = "none" /\ calls'[i] = Call(op, p, "send")
                           /\ \A j \in Calls \ {i} : calls'[j] = calls[j]
    BY <1>11, BeginCalls, KeysFacts DEF Reads, Writes, ShapeInv
  <2>2. calls'[i].op = op
    BY <2>1, NewCall, KeysFacts DEF Reads, Writes
  <2>3. \A j \in Calls : Saves(calls'[j]) <=> Saves(calls[j])
    BY <2>1, <2>2 DEF Saves
  <2>4. QED
    BY <1>11, <1>a, <2>3
<1>12. ASSUME NEW p \in Products, Remove(p) \/ Refreshed(p) PROVE SavingInv'
  BY <1>11, <1>12 DEF Remove, Refreshed, screens
<1>13. ASSUME UNCHANGED <<calls, desk>> PROVE SavingInv'
  BY <1>13 DEF SavingInv
<1>14. ASSUME NEW p \in Products, Lost(p) PROVE SavingInv'
  BY <1>13, <1>14 DEF Lost, screens
<1>15. ASSUME NEW t \in Tasks, NEW k \in Keys, Expire(t, k) \/ OtherReads(t, k) PROVE SavingInv'
  BY <1>13, <1>15 DEF Expire, OtherReads, screens
<1>16. CASE UNCHANGED vars
  BY <1>13, <1>16 DEF vars, screens
<1>17. QED
  BY <1>1, <1>2, <1>3, <1>5, <1>7, <1>8, <1>9, <1>10, <1>12, <1>14, <1>15, <1>16 DEF Next, People, Step

----------------------------------------------------------------------------
(* What was announced is shown.                                            *)

\* A request of the page that will bring the write "o" of p, or end as an excuse.
Good(c, p, o) ==
  /\ OfPage(c) /\ p \in Covered(c.key)
  /\ c.at = "send" \/ (c.at \in {"read", "reply"} /\ (c.late \/ c.rows[p].rev >= o))

\* One that will bring an older write, and does not know.
Bad(c, p, o) ==
  /\ OfPage(c) /\ p \in Covered(c.key)
  /\ c.at \in {"read", "reply"} /\ ~c.late /\ ~(c.rows[p].rev >= o)

Pending(p) == p \in excused \/ news[p] > 0 \/ \E i \in Calls : Good(calls[i], p, owed[p])
Displayed(p) == IF shown = None THEN owed[p] = 0 ELSE shown[p].rev >= owed[p]

Promise(p) ==
  /\ Pending(p) \/ Displayed(p)
  /\ (\E i \in Calls : Bad(calls[i], p, owed[p])) => Pending(p)

PromiseInv == \A p \in Products : Promise(p)

\* At first nothing was announced.
LEMMA InitPromise == Init => PromiseInv
<1> SUFFICES ASSUME Init PROVE PromiseInv
  OBVIOUS
<1>1. \A i \in Calls : calls[i].at \in {"idle", "send"}
  BY DEF Init, Idle, Call
<1>2. ASSUME NEW p \in Products, NEW i \in Calls PROVE ~Bad(calls[i], p, owed[p])
  BY <1>1 DEF Bad
<1>3. shown = None /\ \A p \in Products : owed[p] = 0
  BY DEF Init
<1>4. QED
  BY <1>2, <1>3 DEF PromiseInv, Promise, Displayed

\* Every step keeps the promise.
LEMMA PromiseStep == ShapeInv /\ ShapeInv' /\ AheadInv /\ PromiseInv /\ [Next]_vars => PromiseInv'
<1> SUFFICES ASSUME ShapeInv, ShapeInv', AheadInv, PromiseInv, [Next]_vars, NEW p \in Products PROVE Promise(p)'
  BY DEF PromiseInv
<1>i. ASSUME NEW i \in Calls PROVE calls[i] \in Requests /\ Sound(calls[i])
  BY DEF ShapeInv, CallsInv
<1>c. calls \in [Calls -> Requests] /\ Covered("list") = Products
  BY KeysFacts DEF ShapeInv, CallsInv
<1>n. owed[p] \in Nat /\ news[p] \in Nat /\ table[p].rev \in Nat /\ owed[p] <= table[p].rev
  BY DEF ShapeInv, TableInv, Row, AheadInv
<1>p. Promise(p)
  BY DEF PromiseInv
<1>a. ASSUME owed'[p] = owed[p], shown' = shown, news'[p] = news[p], excused \subseteq excused',
             \A i \in Calls : /\ Good(calls[i], p, owed[p]) => Good(calls'[i], p, owed[p])
                              /\ Bad(calls'[i], p, owed[p]) => Bad(calls[i], p, owed[p])
      PROVE  Promise(p)'
  <2>1. Pending(p) => Pending(p)'
    BY <1>a DEF Pending
  <2>2. Displayed(p) => Displayed(p)'
    BY <1>a DEF Displayed
  <2>3. QED
    BY <1>a, <1>p, <2>1, <2>2 DEF Promise
<1>b. ASSUME NEW i \in Calls, \A j \in Calls \ {i} : calls'[j] = calls[j],
             Good(calls[i], p, owed[p]) => Good(calls'[i], p, owed[p]), ~Bad(calls'[i], p, owed[p]) \/ Bad(calls[i], p, owed[p]),
             owed'[p] = owed[p], shown' = shown, news'[p] = news[p], excused \subseteq excused'
      PROVE  Promise(p)'
  BY <1>a, <1>b
<1>f. ASSUME Pending(p)' PROVE Promise(p)'
  BY <1>f DEF Promise
<1>1. ASSUME NEW i \in Calls, NEW t \in Tasks, Hit(i, t) PROVE Promise(p)'
  <2> DEFINE e == cache[t][calls[i].key]
  <2>1. /\ e # None /\ calls[i].op \in Reads /\ calls[i].at = "send" /\ calls[i].key \in Keys
        /\ calls' = [calls EXCEPT ![i].at = "reply", ![i].rows = e.rows, ![i].late = Behind(e.rows)]
    BY <1>1, <1>i DEF Hit, Requests
  <2>2. e.rows \in [Covered(calls[i].key) -> Row]
    BY <2>1 DEF ShapeInv, CacheInv
  <2>3. /\ calls'[i].at = "reply" /\ calls'[i].rows = e.rows /\ calls'[i].late = Behind(e.rows)
        /\ calls'[i].op = calls[i].op /\ calls'[i].key = calls[i].key
        /\ \A j \in Calls \ {i} : calls'[j] = calls[j]
    BY <1>c, <2>1 DEF Requests
  <2>4. ASSUME p \in Covered(calls[i].key) PROVE calls'[i].late \/ calls'[i].rows[p].rev >= owed[p]
    <3>1. e.rows[p].rev \in Nat /\ p \in DOMAIN e.rows
      BY <2>2, <2>4 DEF Row
    <3>2. e.rows[p].rev < owed[p] => Behind(e.rows)
      BY <3>1 DEF Behind
    <3>3. e.rows[p].rev < owed[p] \/ e.rows[p].rev >= owed[p]
      BY <1>n, <3>1
    <3>4. QED
      BY <2>3, <3>2, <3>3
  <2>5. (Good(calls[i], p, owed[p]) => Good(calls'[i], p, owed[p])) /\ ~Bad(calls'[i], p, owed[p])
    BY <2>1, <2>3, <2>4 DEF Good, Bad, OfPage
  <2>6. QED
    BY <1>1, <1>b, <2>3, <2>5 DEF Hit, screens, history
<1>2. ASSUME NEW i \in Calls, NEW t \in Tasks, Miss(i, t) PROVE Promise(p)'
  <2>1. PICK a \in Answers(calls[i].key) :
          calls' = [calls EXCEPT ![i].at = "read", ![i].task = t, ![i].rows = a.rows, ![i].late = a.late]
    BY <1>2 DEF Miss
  <2>2. calls[i].op \in Reads /\ calls[i].at = "send" /\ calls[i].key \in Keys
    BY <1>2, <1>i DEF Miss, Requests
  <2>3. ~a.late => \A q \in Covered(calls[i].key) : a.rows[q] = table[q]
    BY <2>2, AnswersShape DEF ShapeInv
  <2>4. /\ calls'[i].at = "read" /\ calls'[i].rows = a.rows /\ calls'[i].late = a.late
        /\ calls'[i].op = calls[i].op /\ calls'[i].key = calls[i].key
        /\ \A j \in Calls \ {i} : calls'[j] = calls[j]
    BY <1>c, <2>1 DEF Requests
  <2>5. ASSUME p \in Covered(calls[i].key) PROVE calls'[i].late \/ calls'[i].rows[p].rev >= owed[p]
    BY <1>n, <2>3, <2>4, <2>5
  <2>6. (Good(calls[i], p, owed[p]) => Good(calls'[i], p, owed[p])) /\ ~Bad(calls'[i], p, owed[p])
    BY <2>2, <2>4, <2>5 DEF Good, Bad, OfPage
  <2>7. QED
    BY <1>2, <1>b, <2>4, <2>6 DEF Miss, screens, history
<1>3. ASSUME NEW i \in Calls, Fill(i) PROVE Promise(p)'
  <2>1. /\ calls[i].at = "read" /\ calls'[i].at = "reply" /\ calls'[i].rows = calls[i].rows /\ calls'[i].late = calls[i].late
        /\ calls'[i].op = calls[i].op /\ calls'[i].key = calls[i].key
        /\ \A j \in Calls \ {i} : calls'[j] = calls[j]
    BY <1>3, <1>c DEF Fill, Requests
  <2>2. (Good(calls[i], p, owed[p]) => Good(calls'[i], p, owed[p])) /\ (Bad(calls'[i], p, owed[p]) => Bad(calls[i], p, owed[p]))
    BY <2>1 DEF Good, Bad, OfPage
  <2>3. QED
    BY <1>3, <1>b, <2>1, <2>2 DEF Fill, screens, history
<1>4. ASSUME NEW i \in Calls, NEW t \in Tasks, Write(i, t) PROVE Promise(p)'
  <2>1. calls[i].op \in Writes /\ calls[i].key \in Products /\ owed \in [Products -> Nat] /\ news \in [Products -> Nat]
    BY <1>4, <1>i DEF Write, Sound, ShapeInv, TableInv
  <2>2. CASE calls[i].op = "update" /\ calls[i].key = p
    <3>1. PICK n \in 1..Copies : news' = [news EXCEPT ![p] = @ + n]
      BY <1>4, <2>2 DEF Write, Announce
    <3>2. n \in Nat /\ n > 0
      BY <3>1, CatalogueAssumption
    <3>3. news'[p] > 0
      BY <1>n, <2>1, <3>1, <3>2
    <3>4. QED
      BY <1>f, <3>3 DEF Pending
  <2>3. CASE ~(calls[i].op = "update" /\ calls[i].key = p)
    <3>1. owed'[p] = owed[p] /\ news'[p] = news[p]
      BY <1>4, <2>1, <2>3 DEF Write, Announce
    <3>2. calls'[i].op = calls[i].op /\ \A j \in Calls \ {i} : calls'[j] = calls[j]
      BY <1>4, <1>c DEF Write, Requests
    <3>3. ~OfPage(calls[i]) /\ ~OfPage(calls'[i])
      BY <2>1, <3>2 DEF OfPage, Writes
    <3>4. QED
      BY <1>4, <1>b, <3>1, <3>2, <3>3 DEF Write, screens, Good, Bad
  <2>4. QED
    BY <2>2, <2>3
<1>o. ASSUME NEW j \in Calls
      PROVE  /\ Good(calls[j], p, owed[p]) => Good(Overtaken(calls[j]), p, owed[p])
             /\ Bad(Overtaken(calls[j]), p, owed[p]) => Bad(calls[j], p, owed[p])
  BY <1>i, OvertakenShape DEF Good, Bad, OfPage
<1>5. ASSUME NEW i \in Calls, Invalidate(i) PROVE Promise(p)'
  <2>1. calls[i].op \in Writes /\ calls'[i].op = calls[i].op
    BY <1>5, <1>i, InvalidateCalls, NewCall, KeysFacts DEF Invalidate, Sound
  <2>2. ~OfPage(calls[i]) /\ ~OfPage(calls'[i])
    BY <2>1 DEF OfPage, Writes
  <2>3. \A j \in Calls \ {i} : calls'[j] \in {Overtaken(calls[j]), calls[j]}
    BY <1>5, InvalidateCalls
  <2>4. ASSUME NEW j \in Calls
        PROVE  /\ Good(calls[j], p, owed[p]) => Good(calls'[j], p, owed[p])
               /\ Bad(calls'[j], p, owed[p]) => Bad(calls[j], p, owed[p])
    <3>1. CASE j = i
      BY <2>2, <3>1 DEF Good, Bad
    <3>2. CASE j # i
      BY <1>o, <2>3, <3>2
    <3>3. QED
      BY <3>1, <3>2
  <2>5. QED
    BY <1>5, <1>a, <2>4 DEF Invalidate, screens
<1>6. ASSUME NEW i \in Calls, NEW bad \in BOOLEAN, Lands(i, bad), OfPage(calls[i]),
             bad \/ (/\ calls[i].at = "reply" /\ ~calls[i].late
                     /\ p \in Covered(calls[i].key) => shown' # None /\ shown'[p] = calls[i].rows[p]
                     /\ p \notin Covered(calls[i].key) =>
                          shown' = shown \/ (shown' # None /\ IF shown = None THEN shown'[p].rev = 0 ELSE shown'[p] = shown[p])),
             bad => p \in Covered(calls[i].key) \/ shown' = shown
                      \/ (shown' # None /\ IF shown = None THEN shown'[p].rev = 0 ELSE shown'[p] = shown[p])
      PROVE  Promise(p)'
  <2>1. /\ calls'[i] = Idle
        /\ \A j \in Calls \ {i} :
              calls'[j] = IF OfPage(calls[j]) /\ calls[j].at \in {"read", "reply"}
                          THEN Overtaken(calls[j]) ELSE calls[j]
    BY <1>6, LandsCalls
  <2>2. UNCHANGED <<owed, news>> /\ excused' = (IF bad THEN excused \cup Covered(calls[i].key) ELSE excused)
    BY <1>6 DEF Lands
  <2>3. ASSUME NEW j \in Calls PROVE ~Bad(calls'[j], p, owed[p])
    <3>1. CASE j = i
      BY <2>1, <3>1 DEF Bad, Idle
    <3>2. CASE j # i /\ OfPage(calls[j]) /\ calls[j].at \in {"read", "reply"} /\ p \in Covered(calls[j].key)
      <4>1. calls'[j] = Overtaken(calls[j])
        BY <2>1, <3>2
      <4>2. calls'[j].rows = calls[j].rows /\ DOMAIN calls[j].rows = Covered(calls[j].key)
            /\ calls[j].rows[p].rev \in Nat
        BY <1>i, <3>2, <4>1, OvertakenShape DEF Sound, OfPage, Reads, Row
      <4>3. ~calls'[j].late => calls[j].rows[p] = table[p]
        BY <1>i, <3>2, <4>1, <4>2 DEF Overtaken, Requests
      <4>4. ~calls'[j].late => calls'[j].rows[p].rev >= owed[p]
        BY <1>n, <4>2, <4>3
      <4>5. QED
        BY <4>4 DEF Bad
    <3>3. CASE j # i /\ ~(OfPage(calls[j]) /\ calls[j].at \in {"read", "reply"} /\ p \in Covered(calls[j].key))
      BY <1>i, <2>1, <3>3, OvertakenShape DEF Bad, OfPage
    <3>4. QED
      BY <3>1, <3>2, <3>3
  <2>4. ASSUME NEW j \in Calls \ {i}, Good(calls[j], p, owed[p]) PROVE Pending(p)'
    <3>1. Good(calls'[j], p, owed[p])
      BY <1>o, <2>1, <2>4
    <3>2. QED
      BY <2>2, <3>1 DEF Pending
  <2>5. ASSUME p \in excused \/ news[p] > 0 PROVE Pending(p)'
    BY <2>2, <2>5 DEF Pending
  <2>6. CASE p \in Covered(calls[i].key)
    <3>1. CASE bad
      BY <1>f, <2>2, <2>6, <3>1 DEF Pending
    <3>2. CASE ~bad /\ calls[i].rows[p].rev >= owed[p]
      BY <1>6, <2>2, <2>3, <2>6, <3>2 DEF Promise, Displayed
    <3>3. CASE ~bad /\ ~(calls[i].rows[p].rev >= owed[p])
      <4>1. Bad(calls[i], p, owed[p]) /\ ~Good(calls[i], p, owed[p])
        BY <1>6, <2>6, <3>3 DEF Bad, Good
      <4>2. Pending(p)
        BY <1>p, <4>1 DEF Promise
      <4>3. QED
        BY <1>f, <2>4, <2>5, <4>1, <4>2 DEF Pending
    <3>4. QED
      BY <3>1, <3>2, <3>3
  <2>7. CASE p \notin Covered(calls[i].key)
    <3>1. ~Good(calls[i], p, owed[p])
      BY <2>7 DEF Good
    <3>2. CASE Pending(p)
      BY <1>f, <2>4, <2>5, <3>1, <3>2 DEF Pending
    <3>3. CASE Displayed(p)
      <4>1. shown' = shown \/ (shown' # None /\ IF shown = None THEN shown'[p].rev = 0 ELSE shown'[p] = shown[p])
        BY <1>6, <2>7
      <4>2. CASE shown' = shown
        BY <2>2, <2>3, <3>3, <4>2 DEF Promise, Displayed
      <4>3. CASE shown = None /\ shown'[p].rev = 0
        BY <1>n, <2>2, <2>3, <3>3, <4>3 DEF Promise, Displayed
      <4>4. CASE shown # None /\ shown' # None /\ shown'[p] = shown[p]
        BY <2>2, <2>3, <3>3, <4>4 DEF Promise, Displayed
      <4>5. QED
        BY <4>1, <4>2, <4>3, <4>4
    <3>4. QED
      BY <1>p, <3>2, <3>3 DEF Promise
  <2>8. QED
    BY <2>6, <2>7
<1>7. ASSUME NEW i \in Calls, PageLoaded(i) PROVE Promise(p)'
  <2>1. calls[i].late \in BOOLEAN /\ OfPage(calls[i]) /\ calls[i].key = "list" /\ calls[i].rows \in [Products -> Row]
    BY <1>7, <1>i, KeysFacts DEF PageLoaded, Sound, Reads, Requests, OfPage
  <2>2. shown' # None /\ shown' = calls[i].rows /\ p \in Covered(calls[i].key)
    BY <1>7, <1>c, <2>1, WholeRows DEF PageLoaded
  <2>3. QED
    BY <1>6, <1>7, <2>1, <2>2 DEF PageLoaded
<1>8. ASSUME NEW i \in Calls, PageRefetched(i) PROVE Promise(p)'
  <2>1. calls[i].late \in BOOLEAN /\ OfPage(calls[i]) /\ DOMAIN calls[i].rows = Covered(calls[i].key)
    BY <1>8, <1>i DEF PageRefetched, Sound, Reads, Requests, OfPage
  <2>2. shown' \in Snapshot /\ shown' = Merge(shown, calls[i].rows)
    BY <1>8 DEF PageRefetched, ShapeInv, ScreensInv
  <2>3. shown'[p] = IF p \in Covered(calls[i].key) THEN calls[i].rows[p]
                    ELSE IF shown = None THEN [rev |-> 0, there |-> FALSE] ELSE shown[p]
    BY <2>1, <2>2 DEF Merge
  <2>4. shown' # None
    <3>1. shown # None => shown \in [Products -> Row]
      BY DEF ShapeInv, ScreensInv, Snapshot
    <3>2. calls[i].rows \in [Covered(calls[i].key) -> Row] /\ [rev |-> 0, there |-> FALSE] \in Row
      BY <1>8, <1>i DEF PageRefetched, Sound, Reads, Row
    <3>3. shown' \in [Products -> Row]
      BY <2>2, <3>1, <3>2 DEF Merge
    <3>4. QED
      BY <3>3, WholeRows
  <2>5. QED
    BY <1>6, <1>8, <2>1, <2>3, <2>4 DEF PageRefetched
<1>9. ASSUME NEW i \in Calls, PageFails(i) PROVE Promise(p)'
  BY <1>6, <1>9 DEF PageFails
<1>10. ASSUME NEW i \in Calls, NEW c \in Requests, ~OfPage(c), ~OfPage(calls[i]), calls' = [calls EXCEPT ![i] = c],
              UNCHANGED <<news, shown, history>>
       PROVE  Promise(p)'
  <2>1. calls'[i] = c /\ \A j \in Calls \ {i} : calls'[j] = calls[j]
    BY <1>10, <1>c
  <2>2. ~Good(calls[i], p, owed[p]) /\ ~Bad(calls'[i], p, owed[p])
    BY <1>10, <2>1 DEF Good, Bad
  <2>3. QED
    BY <1>10, <1>b, <2>1, <2>2 DEF history
<1>11. ASSUME NEW i \in Calls, Saved(i) \/ Removed(i) PROVE Promise(p)'
  <2> DEFINE c == Call("reload", "list", "send")
  <2>1. c \in Requests /\ ~OfPage(c) /\ ~OfPage(calls[i])
    BY <1>11, NewCall, KeysFacts DEF Reads, OfPage, Saved, Removed
  <2>2. calls' = [calls EXCEPT ![i] = c]
    BY <1>11 DEF Saved, Removed, Reload
  <2> HIDE DEF c
  <2>3. QED
    BY <1>10, <1>11, <2>1, <2>2 DEF Saved, Removed, screens
<1>12. ASSUME NEW i \in Calls, DeskLoaded(i) \/ DeskFails(i) PROVE Promise(p)'
  <2>1. Idle \in Requests /\ ~OfPage(Idle) /\ ~OfPage(calls[i])
    BY <1>12, NewCall, KeysFacts DEF Idle, OfPage, DeskLoaded, DeskFails, Writes
  <2>2. QED
    BY <1>10, <1>12, <2>1 DEF DeskLoaded, DeskFails
<1>13. ASSUME NEW q \in Products, NEW op \in Writes, Begin(op, q), UNCHANGED <<news, shown, history>>
       PROVE  Promise(p)'
  <2>1. PICK i \in Calls : /\ calls[i].op = "none" /\ calls'[i] = Call(op, q, "send")
                           /\ \A j \in Calls \ {i} : calls'[j] = calls[j]
    BY <1>13, BeginCalls, KeysFacts DEF Writes, ShapeInv
  <2>2. calls'[i].op = op
    BY <2>1, NewCall, KeysFacts
  <2>3. ~Good(calls[i], p, owed[p]) /\ ~Bad(calls'[i], p, owed[p])
    BY <2>1, <2>2 DEF Good, Bad, OfPage, Writes
  <2>4. QED
    BY <1>13, <1>b, <2>1, <2>3 DEF history
<1>14. ASSUME NEW q \in Products, Remove(q) \/ \E op \in {"create", "update"} : Submit(op, q) PROVE Promise(p)'
  <2>1. CASE Remove(q)
    BY <1>13, <2>1 DEF Remove, screens, Writes
  <2>2. ASSUME NEW op \in {"create", "update"}, Submit(op, q) PROVE Promise(p)'
    BY <1>13, <2>2 DEF Submit, Writes
  <2>3. QED
    BY <1>14, <2>1, <2>2
<1>15. ASSUME NEW q \in Products, Refreshed(q) PROVE Promise(p)'
  <2>1. PICK i \in Calls : /\ calls[i].op = "none" /\ calls'[i] = Call("refetch", q, "send")
                           /\ \A j \in Calls \ {i} : calls'[j] = calls[j]
    BY <1>15, BeginCalls, KeysFacts DEF Refreshed, Reads, ShapeInv
  <2>2. calls'[i].op = "refetch" /\ calls'[i].at = "send" /\ calls'[i].key = q
    BY <2>1, NewCall, KeysFacts DEF Reads
  <2>3. UNCHANGED <<owed, shown, excused>>
    BY <1>15 DEF Refreshed, screens, history
  <2>4. CASE p = q
    <3>1. Good(calls'[i], p, owed'[p])
      BY <2>2, <2>4, KeysFacts DEF Good, OfPage
    <3>2. QED
      BY <1>f, <3>1 DEF Pending
  <2>5. CASE p # q
    <3>1. ~Good(calls[i], p, owed[p]) /\ ~Bad(calls'[i], p, owed[p])
      BY <2>1, <2>2 DEF Good, Bad, OfPage
    <3>2. news'[p] = news[p]
      BY <1>15, <2>5 DEF Refreshed, ShapeInv, TableInv
    <3>3. QED
      BY <1>b, <2>1, <2>3, <3>1, <3>2
  <2>6. QED
    BY <2>4, <2>5
<1>16. ASSUME NEW q \in Products, Lost(q) PROVE Promise(p)'
  <2>1. CASE p = q
    BY <1>16, <1>f, <2>1 DEF Lost, Pending
  <2>2. CASE p # q
    <3>1. news'[p] = news[p]
      BY <1>16, <2>2 DEF Lost, ShapeInv, TableInv
    <3>2. QED
      BY <1>16, <1>a, <3>1 DEF Lost, screens
  <2>3. QED
    BY <2>1, <2>2
<1>17. ASSUME NEW t \in Tasks, NEW k \in Keys, Expire(t, k) \/ OtherReads(t, k) PROVE Promise(p)'
  BY <1>17, <1>a DEF Expire, OtherReads, screens, history
<1>18. CASE UNCHANGED vars
  BY <1>18, <1>a DEF vars, screens, history
<1>19. QED
  BY <1>1, <1>2, <1>3, <1>4, <1>5, <1>7, <1>8, <1>9, <1>11, <1>12, <1>14, <1>15, <1>16, <1>17, <1>18
     DEF Next, People, Step

----------------------------------------------------------------------------
(* The theorems.                                                           *)

Inv == ShapeInv /\ AheadInv /\ SavingInv /\ PromiseInv

\* The invariant behind the properties of the module.
LEMMA Invariant == Spec => []Inv
<1>1. Init => Inv
  BY InitShape, InitAhead, InitSaving, InitPromise DEF Inv
<1>2. Inv /\ [Next]_vars => Inv'
  BY ShapeStep, AheadStep, SavingStep, PromiseStep DEF Inv
<1>3. QED
  BY <1>1, <1>2, PTL DEF Spec

\* services.py and cache.py, cached reads and _invalidate: what a task serves from its
\* cache has every write that the task answered, unless it was known to be old.
THEOREM OwnWritesAreServed == Spec => []OwnWritesServed
<1>1. Inv => OwnWritesServed
  BY DEF Inv, AheadInv, FitsEntry, OwnWritesServed
<1>2. QED
  BY <1>1, Invariant, PTL

\* ProductsPage's refetch on an announced price: when everything has arrived, the page
\* shows what was last announced, or there is an excuse.
THEOREM AnnouncedPricesAreShown == Spec => []AnnouncedIsShown
<1>1. Inv => AnnouncedIsShown
  <2> SUFFICES ASSUME Inv, shown # None, \A i \in Calls : ~OfPage(calls[i]), NEW p \in Products, news[p] = 0
               PROVE  shown[p].rev >= owed[p] \/ p \in excused
    BY DEF AnnouncedIsShown
  <2>1. \A i \in Calls : ~Good(calls[i], p, owed[p])
    BY DEF Good
  <2>2. QED
    BY <2>1 DEF Inv, PromiseInv, Promise, Pending, Displayed
<1>2. QED
  BY <1>1, Invariant, PTL

\* The whole invariant of the run: types, one save at a time, and no cache or screen
\* ahead of the table.
THEOREM CatalogueIsSound == Spec => []CatalogueInv
<1>1. Inv => TypeOK
  <2> SUFFICES ASSUME Inv PROVE TypeOK
    OBVIOUS
  <2>1. table \in [Products -> Row] /\ prior \in [Products -> Row] /\ news \in [Products -> Nat]
    BY DEF Inv, ShapeInv, TableInv
  <2>2. /\ DOMAIN cache = Tasks
        /\ \A t \in Tasks : \A k \in Keys :
             cache[t][k] = None \/ cache[t][k] \in [rows : [Covered(k) -> Row], late : BOOLEAN]
    BY DEF Inv, ShapeInv, CacheInv, Entry
  <2>3. \A i \in Calls :
          /\ calls[i].op \in Reads \cup Writes \cup {"none"}
          /\ calls[i].at \in {"idle", "send", "read", "written", "reply"}
          /\ calls[i].at = "read" => calls[i].rows \in [Covered(calls[i].key) -> Row]
    BY DEF Inv, ShapeInv, CallsInv, Sound, Requests
  <2>4. shown \in Snapshot /\ desk.list \in Snapshot /\ desk.busy \in BOOLEAN /\ desk.error \in BOOLEAN
    BY DEF Inv, ShapeInv, ScreensInv
  <2>5. QED
    BY <2>1, <2>2, <2>3, <2>4 DEF TypeOK
<1>2. Inv => BusyIsSaving
  <2> SUFFICES ASSUME Inv PROVE BusyIsSaving
    OBVIOUS
  <2> DEFINE S == {i \in Calls : calls[i].op \in {"create", "update"}}
  <2>1. CASE desk.busy
    <3>1. PICK i \in Calls : S = {i}
      BY <2>1 DEF Inv, SavingInv, Saves
    <3>2. Cardinality(S) = 1
      BY <3>1, FS_Singleton
    <3>3. QED
      BY <2>1, <3>2 DEF BusyIsSaving
  <2>2. CASE ~desk.busy
    <3>1. S = {}
      BY <2>2 DEF Inv, SavingInv, Saves
    <3>2. Cardinality(S) = 0
      BY <3>1, FS_EmptySet
    <3>3. QED
      BY <2>2, <3>2 DEF BusyIsSaving
  <2>3. QED
    BY <2>1, <2>2
<1>3. Inv => NeverAhead
  BY DEF Inv, AheadInv, FitsEntry, NeverAhead
<1>4. Inv => CatalogueInv
  BY <1>1, <1>2, <1>3 DEF CatalogueInv
<1>5. QED
  BY <1>4, Invariant, PTL
=============================================================================
