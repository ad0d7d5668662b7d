----------------------------- MODULE OrderPages -----------------------------
(* One visit of a page that shows orders: OrderDetailPage ("detail"),       *)
(* MyOrdersPage ("list") or AdminFulfilmentPage ("desk").  The page loads   *)
(* its orders, applies what the live connection pushes, and sends writes of *)
(* its own; the orders table moves under it.  Answers and pushes arrive in  *)
(* any order, pushes also twice or never.                                   *)
EXTENDS OrderStream, FiniteSets

CONSTANTS
  Orders, None,
  Start,        \* the rows each order may have when the page is opened
  Subject,      \* the order of the detail page
  Mine,         \* orders of the desk's administrator: the only ones pushed to it
  MaxCalls,     \* bound: requests in a visit, for each page
  MaxChanges    \* bound: changes of the orders by anybody else, for each page

VARIABLES
  table,                    \* the orders table: status and fulfilment
  pushes,                   \* pushes on their way, by order and value
  changes,
  view,                     \* the page's orders (None: not loaded)
  loading, error, busy, downloading, conflict,
  calls,                    \* the page's requests, in the order they were made
  trusted                   \* history: orders nothing was lost or late for

pageVars == <<view, loading, error, busy, downloading, conflict>>
serverVars == <<table, changes>>
vars == <<streamVars, faults, pageVars, serverVars, pushes, calls, trusted>>

NEXT_STATUS == [NOT_STARTED |-> "PACKING", PACKING |-> "DISPATCHED",
                DISPATCHED |-> "OUT_FOR_DELIVERY", OUT_FOR_DELIVERY |-> "DELIVERED"]
FulfilmentStatus == {"NOT_STARTED", "PACKING", "DISPATCHED", "OUT_FOR_DELIVERY", "DELIVERED"}
OrderStatus == {"PENDING", "CONFIRMED", "REJECTED", "CANCEL_PENDING", "CANCELLED"}
Row == [status : OrderStatus, fulfilment : FulfilmentStatus]

StatusRank == [PENDING |-> 0, CONFIRMED |-> 1, REJECTED |-> 1, CANCEL_PENDING |-> 2, CANCELLED |-> 3]
Rank == [NOT_STARTED |-> 0, PACKING |-> 1, DISPATCHED |-> 2, OUT_FOR_DELIVERY |-> 3, DELIVERED |-> 4]

\* What the hook lets through: a new value of one field of one order.
Fields == {"status", "fulfilment"}
Push(o, f, v) == [order |-> o, field |-> f, value |-> v]
Pushes == {Push(o, "status", v) : o \in Orders, v \in OrderStatus}
          \cup {Push(o, "fulfilment", v) : o \in Orders, v \in FulfilmentStatus}

Writes == {"cancel", "progress"}
Fresh == [op |-> "none", order |-> None, to |-> None, at |-> "unused",
          answer |-> None, rows |-> None, trust |-> {}]
Calls == UNION {1..MaxCalls[k] : k \in Kinds}

\* Delivery waits for the confirmation and goes no further than packing once an order
\* is being cancelled.
Legal(r) ==
  /\ r.status \in {"PENDING", "REJECTED"} => r.fulfilment = "NOT_STARTED"
  /\ r.status \in {"CANCEL_PENDING", "CANCELLED"} => r.fulfilment \in {"NOT_STARTED", "PACKING"}

ASSUME PagesAssumption ==
  /\ Start \in [Orders -> SUBSET Row]
  /\ MaxCalls \in [Kinds -> Nat \ {0}] /\ MaxChanges \in [Kinds -> Nat]
  /\ Subject \in Orders /\ Mine \subseteq Orders /\ None \notin Orders \cup Row
  /\ \A o \in Orders : \A r \in Start[o] : Legal(r)

CallType ==
  [op : {"none", "load", "summary"} \cup Writes, order : Orders \cup {None},
   to : FulfilmentStatus \cup {None}, at : {"unused", "sent", "answered", "done"},
   answer : {None, "ok", "conflict", "failed"},
   rows : [Orders -> Row] \cup {None}, trust : SUBSET Orders]

TypeOK ==
  /\ StreamTypeOK
  /\ table \in [Orders -> Row]
  /\ pushes \subseteq Pushes
  /\ changes \in 0..MaxChanges[kind]
  /\ view \in [Orders -> Row \cup {None}]
  /\ loading \in BOOLEAN /\ error \in BOOLEAN
  /\ busy \in Orders \cup {None} /\ downloading \in Orders \cup {None}
  /\ conflict \in Orders \cup {None}
  /\ DOMAIN calls = Calls /\ \A i \in Calls : calls[i] \in CallType
  /\ trusted \subseteq Orders

\* The orders a page asks for.
Listed == IF kind = "detail" THEN {Subject} ELSE Orders

\* The page mounts: it connects and sends its first request.
Init ==
  /\ StreamInit
  /\ table \in [Orders -> Row] /\ \A o \in Orders : table[o] \in Start[o]
  /\ pushes = {} /\ changes = 0
  /\ view = [o \in Orders |-> None]
  /\ loading = TRUE /\ error = FALSE
  /\ busy = None /\ downloading = None /\ conflict = None
  /\ calls = [i \in Calls |-> IF i = 1 THEN [Fresh EXCEPT !.op = "load", !.at = "sent"]
                              ELSE IF i <= MaxCalls[kind] THEN Fresh ELSE [Fresh EXCEPT !.at = "done"]]
  /\ trusted = {}

----------------------------------------------------------------------------
(* The orders table and what its changes set in motion.                    *)

\* Whose connections ws-push looks up for an order.
Reaches(o) == kind # "desk" \/ o \in Mine

\* Seeded mistake: the outbox row of a fulfilment change is not pushed.
PushesOfStatusOnly(o, r) == {Push(o, "status", r.status)}

\* A change of the row goes through the pipe when its status is one of four,
\* whatever changed; a change of fulfilment goes through the outbox as well.
PushesOf(o, r) ==
  {Push(o, "status", r.status)}
  \cup (IF r.fulfilment # table[o].fulfilment THEN {Push(o, "fulfilment", r.fulfilment)} ELSE {})

\* One commit.  An order whose owner is not the page's user is not pushed to it.
Commit(o, r) ==
  /\ table' = [table EXCEPT ![o] = r]
  /\ pushes' = IF Reaches(o) THEN pushes \cup PushesOf(o, r) ELSE pushes

\* History: the page, and the answers on their way to it, lose track of an order.
Forget(o) == /\ trusted' = trusted \ {o}
             /\ calls' = [i \in Calls |-> [calls[i] EXCEPT !.trust = @ \ {o}]]

\* set_fulfilment's and request_cancellation's conditions
CanAdvance(r) == r.status = "CONFIRMED" /\ r.fulfilment \in DOMAIN NEXT_STATUS
Cancellable(r) == r.status = "CONFIRMED" /\ r.fulfilment \in {"NOT_STARTED", "PACKING"}

Successors(r) ==
  {[r EXCEPT !.status = s] : s \in
     {t \in OrderStatus : \/ r.status = "PENDING" /\ t \in {"CONFIRMED", "REJECTED"}
                          \/ Cancellable(r) /\ t = "CANCEL_PENDING"
                          \/ r.status = "CANCEL_PENDING" /\ t = "CANCELLED"}}
  \cup (IF CanAdvance(r) THEN {[r EXCEPT !.fulfilment = NEXT_STATUS[r.fulfilment]]} ELSE {})

\* The saga, the owner or another operator changes the order.
Change(o) ==
  /\ changes < MaxChanges[kind] /\ changes' = changes + 1
  /\ \E r \in Successors(table[o]) : Commit(o, r)
  /\ IF Reaches(o) THEN UNCHANGED <<trusted, calls>> ELSE Forget(o)
  /\ UNCHANGED <<streamVars, faults, pageVars>>

\* The row before its last change is what a lagging read still sees.
SeenByRead(r) ==
  {r} \cup (IF r.fulfilment = "PACKING" THEN {[r EXCEPT !.fulfilment = "NOT_STARTED"]} ELSE {})

Answer(c, a, rows, trust) ==
  [c EXCEPT !.at = "answered", !.answer = a, !.rows = rows, !.trust = trust]

\* The order service's answer to a call that changes nothing.
Reply(i, a, rows, trust) ==
  /\ calls' = [calls EXCEPT ![i] = Answer(@, a, rows, trust)]
  /\ UNCHANGED <<table, pushes, trusted>>

\* The answer to a write that commits row r and shows row seen.
ReplyCommitted(i, r, seen) ==
  LET o == calls[i].order
      tracked == IF Reaches(o) THEN {} ELSE trusted \cap {o} IN
  /\ Commit(o, r)
  /\ trusted' = trusted \ tracked
  /\ calls' = [j \in Calls |->
       IF j = i THEN Answer(calls[j], "ok", [table EXCEPT ![o] = seen], tracked)
       ELSE [calls[j] EXCEPT !.trust = IF Reaches(o) THEN @ ELSE @ \ {o}]]

\* The write is accepted by the transaction's condition.
Accepted(c) ==
  IF c.op = "cancel" THEN Cancellable(table[c.order])
  ELSE CanAdvance(table[c.order]) /\ NEXT_STATUS[table[c.order].fulfilment] = c.to

\* The order service takes request i: reads answer from the table, writes commit
\* under their condition or answer 409, and the gateway answers 401 to an expired
\* token.  request_cancellation answers with the row it read before.
Serve(i) ==
  LET c == calls[i] IN
  /\ c.at = "sent"
  /\ \/ token = "expired" /\ Reply(i, "failed", None, {})
     \/ token = "valid" /\ c.op = "load" /\ Reply(i, "ok", table, Orders)
     \/ token = "valid" /\ c.op = "summary" /\ Reply(i, "ok", None, {})
     \/ token = "valid" /\ c.op \in Writes /\ ~Accepted(c) /\ Reply(i, "conflict", None, {})
     \/ /\ token = "valid" /\ c.op = "progress" /\ Accepted(c)
        /\ LET r == [table[c.order] EXCEPT !.fulfilment = c.to] IN ReplyCommitted(i, r, r)
     \/ /\ token = "valid" /\ c.op = "cancel" /\ Accepted(c)
        /\ \E seen \in SeenByRead(table[c.order]) :
             ReplyCommitted(i, [table[c.order] EXCEPT !.status = "CANCEL_PENDING"],
                            [seen EXCEPT !.status = "CANCEL_PENDING"])
  /\ UNCHANGED <<streamVars, faults, changes, pageVars>>

\* The request, or its answer after the commit, is lost: fetch rejects.
Lose(i) ==
  /\ calls[i].at \in {"sent", "answered"} /\ Fault
  /\ calls' = [calls EXCEPT ![i] = Answer(@, "failed", None, {})]
  /\ UNCHANGED <<streamVars, pageVars, serverVars, pushes, trusted>>

----------------------------------------------------------------------------
(* Pushes.                                                                  *)

NothingLoaded == \A o \in Orders : view[o] = None

Older(r, q) == StatusRank[r.status] < StatusRank[q.status] \/ Rank[r.fulfilment] < Rank[q.fulfilment]

Updated(r, m) == IF m.field = "status" THEN [r EXCEPT !.status = m.value]
                                       ELSE [r EXCEPT !.fulfilment = m.value]

UpdateRow(m) ==
  LET o == m.order IN
  /\ view' = [view EXCEPT ![o] = Updated(@, m)]
  /\ trusted' = IF Older(Updated(view[o], m), view[o]) THEN trusted \ {o} ELSE trusted

\* applyUpdate of each page: a push for an order that it shows changes the row, any
\* other is dropped, also one that arrives before the orders do.
DetailUpdate(m) ==
  IF m.order = Subject /\ view[Subject] # None THEN UpdateRow(m) ELSE UNCHANGED <<view, trusted>>

ListUpdate(m) ==
  IF NothingLoaded THEN UNCHANGED <<view, trusted>> ELSE UpdateRow(m)

DeskUpdate(m) ==
  IF NothingLoaded THEN UNCHANGED <<view, trusted>> ELSE UpdateRow(m)

ApplyUpdate(m) ==
  \/ kind = "detail" /\ DetailUpdate(m)
  \/ kind = "list" /\ ListUpdate(m)
  \/ kind = "desk" /\ DeskUpdate(m)

\* A message event; ws-push, the pipe and the bus deliver at least once, so it may
\* come again.
Deliver(m) ==
  /\ mounted /\ socket = "open" /\ m \in pushes
  /\ pushes' \in {pushes, pushes \ {m}}
  /\ ApplyUpdate(m)
  /\ calls' = [i \in Calls |-> [calls[i] EXCEPT !.trust = @ \ {m.order}]]
  /\ UNCHANGED <<streamVars, faults, loading, error, busy, downloading, conflict, serverVars>>

\* Nobody is connected, or the registry, the lookup or the retries fail it.
Miss(m) ==
  /\ m \in pushes /\ pushes' = pushes \ {m}
  /\ IF socket = "open" THEN Fault ELSE UNCHANGED faults
  /\ Forget(m.order)
  /\ UNCHANGED <<streamVars, pageVars, serverVars>>

----------------------------------------------------------------------------
(* The page's own requests.                                                 *)

InFlight(i) == calls[i].at \in {"sent", "answered"}
Owed == {i \in Calls : InFlight(i) /\ calls[i].op = "progress"}
Unused == {i \in Calls : calls[i].at = "unused"}

\* Requests are numbered in the order they are made.
NextUnused(i) == i \in Unused /\ \A j \in Unused : i <= j

\* A click sends the next request; the bound leaves room for the reload that a
\* refused progress request may call for.
Send(op, o, to) ==
  /\ Cardinality(Unused) > Cardinality(Owed) + (IF op = "progress" THEN 1 ELSE 0)
  /\ \E i \in Calls : NextUnused(i) /\ calls' = [calls EXCEPT ![i] =
                 [Fresh EXCEPT !.op = op, !.order = o, !.to = to, !.at = "sent"]]

\* What each page shows instead of its orders: a spinner, or the error alone.
DetailScreen == IF loading THEN "loading"
                ELSE IF error /\ NothingLoaded THEN "error"
                ELSE IF NothingLoaded THEN "not found" ELSE "orders"
ListScreen == IF error THEN "error" ELSE IF NothingLoaded THEN "loading" ELSE "orders"
DeskScreen == IF loading THEN "loading"
              ELSE IF error /\ NothingLoaded THEN "error" ELSE "orders"

Screen == CASE kind = "detail" -> DetailScreen
            [] kind = "list"   -> ListScreen
            [] kind = "desk"   -> DeskScreen

Shown(o) == mounted /\ Screen = "orders" /\ o \in Listed /\ view[o] # None

\* Seeded mistake: the button stays until the order is delivered.
CanCancelLate(o) == view[o].status = "CONFIRMED" /\ view[o].fulfilment # "DELIVERED"

\* canCancel of the detail page, and the condition of a row's button in the list
CanCancel(o) ==
  view[o].status = "CONFIRMED" /\ view[o].fulfilment \in {"NOT_STARTED", "PACKING"}
RowCancellable(o) ==
  view[o].status = "CONFIRMED" /\ view[o].fulfilment \in {"NOT_STARTED", "PACKING"}

\* canProgress, from the row of the queue or from its drawer
CanProgress(o) == view[o].status = "CONFIRMED" /\ view[o].fulfilment \in DOMAIN NEXT_STATUS

\* The tabs and counters of the desk.
matchesFilter(r, filter) ==
  \/ filter = "needs_action" /\ r.status = "CONFIRMED" /\ r.fulfilment = "NOT_STARTED"
  \/ filter = "in_progress" /\ r.status = "CONFIRMED"
     /\ r.fulfilment \in {"PACKING", "DISPATCHED", "OUT_FOR_DELIVERY"}
  \/ filter = "delivered" /\ r.fulfilment = "DELIVERED"
  \/ filter = "cancelled" /\ r.status \in {"CANCELLED", "REJECTED"}

Filters == {"needs_action", "in_progress", "delivered", "cancelled"}
Tab(filter) == {o \in Listed : view[o] # None /\ matchesFilter(view[o], filter)}

Click(op, o, to) ==
  /\ Send(op, o, to) /\ error' = FALSE
  /\ UNCHANGED <<streamVars, faults, view, loading, serverVars, pushes, trusted>>

\* The detail page's button is disabled while its one request is in flight.
CancelSubject ==
  /\ kind = "detail" /\ Shown(Subject) /\ CanCancel(Subject) /\ busy = None
  /\ Click("cancel", Subject, None) /\ busy' = Subject
  /\ UNCHANGED <<downloading, conflict>>

\* Seeded mistake: the button is not disabled while its order is in `busy`.
RequestCancellationTwice(o) ==
  /\ kind = "list" /\ Shown(o) /\ RowCancellable(o)
  /\ Click("cancel", o, None) /\ busy' = o
  /\ UNCHANGED <<downloading, conflict>>

\* requestCancellation of the list; only the button of the order in `busy` is
\* disabled.
RequestCancellation(o) ==
  /\ kind = "list" /\ Shown(o) /\ RowCancellable(o) /\ busy # o
  /\ Click("cancel", o, None) /\ busy' = o
  /\ UNCHANGED <<downloading, conflict>>

\* progressOrder, from a row or from the drawer
ProgressOrder(o) ==
  /\ kind = "desk" /\ Shown(o) /\ CanProgress(o) /\ busy # o
  /\ Click("progress", o, NEXT_STATUS[view[o].fulfilment]) /\ busy' = o /\ conflict' = None
  /\ UNCHANGED downloading

\* downloadSummary of the detail page, and of the desk's drawer
DownloadSubject ==
  /\ kind = "detail" /\ Shown(Subject) /\ downloading = None
  /\ Click("summary", Subject, None) /\ downloading' = Subject
  /\ UNCHANGED <<busy, conflict>>

DownloadSelected(o) ==
  /\ kind = "desk" /\ Shown(o) /\ downloading # o
  /\ Click("summary", o, None) /\ downloading' = o
  /\ UNCHANGED <<busy, conflict>>

\* Refresh, and Retry on the error screen: reload without waiting for another one.
Refresh ==
  /\ kind = "desk" /\ mounted /\ ~loading
  /\ Send("load", None, None)
  /\ UNCHANGED <<streamVars, faults, pageVars, serverVars, pushes, trusted>>

Dismiss ==
  /\ kind = "desk" /\ mounted /\ Screen = "orders" /\ conflict # None /\ conflict' = None
  /\ UNCHANGED <<streamVars, faults, view, loading, error, busy, downloading,
                 serverVars, pushes, calls, trusted>>

----------------------------------------------------------------------------
(* Answers.                                                                 *)

\* Only the order and the kind of a finished request are kept.
Done(i) == [Fresh EXCEPT !.op = calls[i].op, !.order = calls[i].order, !.at = "done"]
Finish(i) == calls' = [calls EXCEPT ![i] = Done(i)]

\* The page takes over the answered rows of S; trust is what the answer knew.
Show(S, rows, trust) ==
  /\ view' = [o \in Orders |-> IF o \in S THEN rows[o] ELSE view[o]]
  /\ trusted' = (trusted \cup trust)
                \ {o \in S : view[o] # None /\ Older(rows[o], view[o])}

\* The first request of the detail page and of the list is answered; an old error
\* stays.
DetailLoaded(i) ==
  /\ loading' = FALSE
  /\ IF calls[i].answer = "ok"
     THEN Show({Subject}, calls[i].rows, calls[i].trust \cap {Subject}) /\ UNCHANGED error
     ELSE error' = TRUE /\ UNCHANGED <<view, trusted>>

ListLoaded(i) ==
  /\ IF calls[i].answer = "ok"
     THEN Show(Orders, calls[i].rows, calls[i].trust) /\ UNCHANGED error
     ELSE error' = TRUE /\ UNCHANGED <<view, trusted>>
  /\ UNCHANGED loading

\* reload of the desk, whichever was asked for last
DeskLoaded(i) ==
  /\ loading' = FALSE
  /\ IF calls[i].answer = "ok"
     THEN Show(Orders, calls[i].rows, calls[i].trust) /\ error' = FALSE
     ELSE error' = TRUE /\ UNCHANGED <<view, trusted>>

LoadAnswered(i) ==
  /\ calls[i].op = "load"
  /\ \/ kind = "detail" /\ DetailLoaded(i)
     \/ kind = "list" /\ ListLoaded(i)
     \/ kind = "desk" /\ DeskLoaded(i)
  /\ Finish(i)
  /\ UNCHANGED <<busy, downloading, conflict>>

\* finally: whatever order the slot names by now
Free(i) == busy' = None

\* Seeded mistake: the answer to a progress request is shown as asked, not as told.
SuccessOptimistic(i) ==
  /\ calls[i].answer = "ok"
  /\ Show({calls[i].order}, [calls[i].rows EXCEPT ![calls[i].order].fulfilment = "DELIVERED"],
          calls[i].trust)
  /\ Finish(i) /\ UNCHANGED <<error, conflict>>

\* The row that a write answered with replaces the order's, whatever arrived since.
Success(i) ==
  /\ calls[i].answer = "ok"
  /\ Show({calls[i].order}, calls[i].rows, calls[i].trust)
  /\ Finish(i) /\ UNCHANGED <<error, conflict>>

\* The desk takes a 409 for another session's change and reloads.
Conflict(i) ==
  /\ kind = "desk" /\ calls[i].answer = "conflict"
  /\ conflict' = calls[i].order
  /\ \E j \in Calls : NextUnused(j) /\ calls' = [calls EXCEPT ![i] = Done(i),
                 ![j] = [Fresh EXCEPT !.op = "load", !.at = "sent"]]
  /\ UNCHANGED <<view, error, trusted>>

Failure(i) ==
  /\ calls[i].answer = "failed" \/ (kind # "desk" /\ calls[i].answer = "conflict")
  /\ error' = TRUE /\ Finish(i) /\ UNCHANGED <<view, conflict, trusted>>

WriteAnswered(i) ==
  /\ calls[i].op \in Writes
  /\ Success(i) \/ Conflict(i) \/ Failure(i)
  /\ Free(i)
  /\ UNCHANGED <<loading, downloading>>

SummaryAnswered(i) ==
  /\ calls[i].op = "summary" /\ downloading' = None
  /\ error' = (calls[i].answer # "ok" \/ error)
  /\ Finish(i)
  /\ UNCHANGED <<view, loading, busy, conflict, trusted>>

\* The page takes the answer of request i.
Settle(i) ==
  /\ mounted /\ calls[i].at = "answered"
  /\ LoadAnswered(i) \/ WriteAnswered(i) \/ SummaryAnswered(i)
  /\ UNCHANGED <<streamVars, faults, serverVars, pushes>>

----------------------------------------------------------------------------
Quietly(A) == A /\ UNCHANGED <<pageVars, serverVars, pushes, calls, trusted>>
Stream == Quietly(Open \/ Refused \/ Closed \/ Dropped \/ Reconnect \/ Expire)

\* The page is left: its state is gone, and nobody waits for what is under way.
Leave ==
  /\ Unmount
  /\ view' = [o \in Orders |-> None]
  /\ loading' = FALSE /\ error' = FALSE
  /\ busy' = None /\ downloading' = None /\ conflict' = None
  /\ calls' = [i \in Calls |-> [Fresh EXCEPT !.at = "done"]]
  /\ pushes' = {} /\ trusted' = {}
  /\ UNCHANGED serverVars

User == Refresh \/ Dismiss \/ CancelSubject \/ DownloadSubject \/ \E o \in Orders :
          RequestCancellation(o) \/ ProgressOrder(o) \/ DownloadSelected(o)

Next ==
  \/ Stream \/ Leave \/ User
  \/ \E o \in Orders : Change(o)
  \/ \E i \in Calls : Serve(i) \/ Lose(i) \/ Settle(i)
  \/ \E m \in pushes : Deliver(m) \/ Miss(m)

\* Requests are answered (fetch has no timeout of its own, the gateway has one),
\* handshakes end and timers fire.  Nothing makes a user or the saga act.
Fairness ==
  /\ WF_vars(\E i \in Calls : Serve(i)) /\ WF_vars(\E i \in Calls : Settle(i))
  /\ WF_vars(Quietly(Open \/ Refused \/ Closed \/ Reconnect))

Spec == Init /\ [][Next]_vars /\ Fairness

----------------------------------------------------------------------------
\* The statuses an order in a status has been in.
Past == [PENDING |-> {"PENDING"}, CONFIRMED |-> {"PENDING", "CONFIRMED"},
         REJECTED |-> {"PENDING", "REJECTED"},
         CANCEL_PENDING |-> {"PENDING", "CONFIRMED", "CANCEL_PENDING"},
         CANCELLED |-> {"PENDING", "CONFIRMED", "CANCEL_PENDING", "CANCELLED"}]
Reached(r, q) == r.status \in Past[q.status] /\ Rank[r.fulfilment] <= Rank[q.fulfilment]

\* No page ever shows a status or a delivery stage that its order has not been in:
\* nothing is shown before it is committed, and nothing of another order.
NeverAhead == \A o \in Orders : view[o] # None => Reached(view[o], table[o])

\* What a page shows is what the table holds, once nothing about the order is on its
\* way, unless a push of it was lost, dropped before the orders arrived, or overtaken
\* by a later push or answer: the ways in which a page goes stale for good.
QuietIsCurrent ==
  \A o \in trusted \cap Listed :
    (\A m \in pushes : m.order # o) => view[o] = table[o]

\* A disabled button always has a request behind it that will free it.
BusyIsInFlight ==
  /\ busy # None => \E i \in Calls : InFlight(i) /\ calls[i].op \in Writes /\ calls[i].order = busy
  /\ downloading # None =>
       \E i \in Calls : InFlight(i) /\ calls[i].op = "summary" /\ calls[i].order = downloading

WriteOf(i, o) == calls[i].op \in Writes /\ calls[i].order = o

\* One slot guards the buttons of all rows: a page sends a second write for an order
\* while the first is in flight only if it wrote to another order before.
TwiceOnlyAfterAnother ==
  \A o \in Orders : \A i, j \in Calls :
    i < j /\ InFlight(i) /\ InFlight(j) /\ WriteOf(i, o) /\ WriteOf(j, o) =>
      \E k \in 1..(j - 1) : calls[k].op \in Writes /\ calls[k].order # o

\* A page that shows an order as it is offers a button exactly when the order
\* service would accept the request behind it.
OfferedIsAccepted ==
  \A o \in Orders : Shown(o) /\ view[o] = table[o] =>
    CASE kind = "desk"   -> CanProgress(o) <=> CanAdvance(table[o])
      [] kind = "list"   -> RowCancellable(o) <=> Cancellable(table[o])
      [] kind = "detail" -> CanCancel(o) <=> Cancellable(table[o])

\* The desk's tabs hide no work: an order with a button is under "needs action" or
\* "in progress", and no mix of pushed fields puts an order under two tabs.
WorkIsListed ==
  kind = "desk" => \A o \in Orders : Shown(o) =>
    /\ CanProgress(o) <=> o \in Tab("needs_action") \cup Tab("in_progress")
    /\ \A f, g \in Filters : o \in Tab(f) \cap Tab(g) => f = g

\* What every visit keeps: types; one connection or one timer (OrderStream); "live" is
\* said of an open connection only; a disabled button has its request behind it; what
\* is offered is what the order service accepts; the desk's tabs hide no work.
PagesInv == /\ TypeOK /\ OneConnection /\ LiveIsOpen
            /\ BusyIsInFlight /\ OfferedIsAccepted /\ WorkIsListed

\* Buttons become usable again.
ButtonsReturn == (busy # None) ~> (busy = None)

\* What a visit gets back: its connection (the hook's timer) and its buttons (the
\* `finally` of the pages' requests).
Recovers == Reconnects /\ ButtonsReturn
=============================================================================
