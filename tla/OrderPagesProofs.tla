-------------------------- MODULE OrderPagesProofs --------------------------
(* For any orders and any length of a visit: one live connection, no row     *)
(* ahead of the table, stale rows only for the known reasons, disabled       *)
(* buttons with their request behind them, and no work hidden by a tab.      *)
EXTENDS OrderPages, TLAPS

----------------------------------------------------------------------------
(* The connection.                                                         *)

StreamInv == StreamTypeOK /\ OneConnection /\ LiveIsOpen

\* A step of the connection keeps its invariant.
LEMMA StreamSteps ==
  ASSUME StreamInv, Open \/ Refused \/ Closed \/ Dropped \/ Reconnect \/ Expire \/ Unmount
  PROVE  StreamInv'
<1>0. MaxFaults[kind] \in Nat
  BY StreamAssumption DEF StreamInv, StreamTypeOK
<1>1. ASSUME Fault, UNCHANGED kind PROVE faults' \in 0..MaxFaults[kind']
  BY <1>0, <1>1 DEF Fault, StreamInv, StreamTypeOK
<1>2. CASE Open
  BY <1>2 DEF Open, StreamInv, StreamTypeOK, OneConnection, LiveIsOpen
<1>3. CASE Refused
  BY <1>3 DEF Refused, CloseHandler, StreamInv, StreamTypeOK, OneConnection, LiveIsOpen
<1>4. CASE Closed
  BY <1>4 DEF Closed, CloseHandler, StreamInv, StreamTypeOK, OneConnection, LiveIsOpen
<1>5. CASE Dropped
  BY <1>1, <1>5 DEF Dropped, CloseHandler, StreamInv, StreamTypeOK, OneConnection, LiveIsOpen
<1>6. CASE Reconnect
  BY <1>6 DEF Reconnect, StreamInv, StreamTypeOK, OneConnection, LiveIsOpen
<1>7. CASE Expire
  BY <1>1, <1>7 DEF Expire, StreamInv, StreamTypeOK, OneConnection, LiveIsOpen
<1>8. CASE Unmount
  BY <1>8 DEF Unmount, StreamInv, StreamTypeOK, OneConnection, LiveIsOpen
<1>9. QED
  BY <1>2, <1>3, <1>4, <1>5, <1>6, <1>7, <1>8

\* So does a step that leaves the connection alone, but for a fault of something else.
LEMMA StreamKept ==
  ASSUME StreamInv, UNCHANGED streamVars, Fault \/ UNCHANGED faults
  PROVE  StreamInv'
<1>0. MaxFaults[kind] \in Nat
  BY StreamAssumption DEF StreamInv, StreamTypeOK
<1>1. faults' \in 0..MaxFaults[kind]
  BY <1>0 DEF Fault, StreamInv, StreamTypeOK
<1>2. QED
  BY <1>1 DEF streamVars, StreamInv, StreamTypeOK, OneConnection, LiveIsOpen

\* Every step of a page is one or the other.
LEMMA StreamStep == StreamInv /\ [Next]_vars => StreamInv'
<1> SUFFICES ASSUME StreamInv, [Next]_vars PROVE StreamInv'
  OBVIOUS
<1>1. CASE Stream
  BY <1>1, StreamSteps DEF Stream, Quietly
<1>2. CASE Leave
  BY <1>2, StreamSteps DEF Leave
<1>3. CASE User
  BY <1>3, StreamKept DEF User, Refresh, Dismiss, CancelSubject, RequestCancellation, ProgressOrder,
       DownloadSubject, DownloadSelected, Click
<1>4. ASSUME NEW o \in Orders, Change(o) PROVE StreamInv'
  BY <1>4, StreamKept DEF Change
<1>5. ASSUME NEW i \in Calls, Serve(i) \/ Lose(i) \/ Settle(i) PROVE StreamInv'
  BY <1>5, StreamKept DEF Serve, Lose, Settle
<1>6. ASSUME NEW m \in pushes, Deliver(m) \/ Miss(m) PROVE StreamInv'
  BY <1>6, StreamKept DEF Deliver, Miss
<1>7. CASE UNCHANGED vars
  BY <1>7, StreamKept DEF vars
<1>8. QED
  BY <1>1, <1>2, <1>3, <1>4, <1>5, <1>6, <1>7 DEF Next

----------------------------------------------------------------------------
(* Rows and their history.                                                 *)

\* An order has been where it is, and stays behind where it goes.
LEMMA ReachedOrder ==
  ASSUME NEW a \in Row, NEW b \in Row, NEW c \in Row
  PROVE  Reached(a, a) /\ (Reached(a, b) /\ Reached(b, c) => Reached(a, c))
<1>1. a.status \in OrderStatus /\ b.status \in OrderStatus /\ c.status \in OrderStatus
      /\ a.fulfilment \in FulfilmentStatus /\ b.fulfilment \in FulfilmentStatus /\ c.fulfilment \in FulfilmentStatus
  BY DEF Row
<1>2. a.status \in Past[a.status] /\ Rank[a.fulfilment] <= Rank[a.fulfilment]
  BY <1>1 DEF Past, Rank, OrderStatus, FulfilmentStatus
<1>3. a.status \in Past[b.status] /\ b.status \in Past[c.status] => a.status \in Past[c.status]
  BY <1>1 DEF Past, OrderStatus
<1>4. /\ Rank[a.fulfilment] \in Nat /\ Rank[b.fulfilment] \in Nat /\ Rank[c.fulfilment] \in Nat
  BY <1>1 DEF Rank, FulfilmentStatus
<1>5. QED
  BY <1>2, <1>3, <1>4 DEF Reached

\* What an order may become: a later, legal row.
LEMMA SuccessorsLater ==
  ASSUME NEW q \in Row, Legal(q), NEW r \in Successors(q)
  PROVE  r \in Row /\ Legal(r) /\ Reached(q, r)
<1>1. q.status \in OrderStatus /\ q.fulfilment \in FulfilmentStatus
      /\ q = [status |-> q.status, fulfilment |-> q.fulfilment]
  BY DEF Row
<1>2. CASE \E t \in OrderStatus : /\ r = [q EXCEPT !.status = t]
                                  /\ \/ q.status = "PENDING" /\ t \in {"CONFIRMED", "REJECTED"}
                                     \/ Cancellable(q) /\ t = "CANCEL_PENDING"
                                     \/ q.status = "CANCEL_PENDING" /\ t = "CANCELLED"
  <2>1. PICK t \in OrderStatus : /\ r = [q EXCEPT !.status = t]
                                 /\ \/ q.status = "PENDING" /\ t \in {"CONFIRMED", "REJECTED"}
                                    \/ Cancellable(q) /\ t = "CANCEL_PENDING"
                                    \/ q.status = "CANCEL_PENDING" /\ t = "CANCELLED"
    BY <1>2
  <2>2. r \in Row /\ r.status = t /\ r.fulfilment = q.fulfilment
    BY <1>1, <2>1 DEF Row
  <2>3. Legal(r)
    BY <1>1, <2>1, <2>2 DEF Legal, Cancellable, OrderStatus
  <2>4. q.status \in Past[t]
    BY <1>1, <2>1 DEF Past, Cancellable, OrderStatus
  <2>5. Rank[q.fulfilment] <= Rank[r.fulfilment]
    BY <1>1, <2>2 DEF Rank, FulfilmentStatus
  <2>6. QED
    BY <2>2, <2>3, <2>4, <2>5 DEF Reached
<1>3. CASE CanAdvance(q) /\ r = [q EXCEPT !.fulfilment = NEXT_STATUS[q.fulfilment]]
  <2>1. /\ q.fulfilment \in {"NOT_STARTED", "PACKING", "DISPATCHED", "OUT_FOR_DELIVERY"} /\ q.status = "CONFIRMED"
    BY <1>3 DEF CanAdvance, NEXT_STATUS
  <2>2. NEXT_STATUS[q.fulfilment] \in FulfilmentStatus /\ Rank[q.fulfilment] <= Rank[NEXT_STATUS[q.fulfilment]]
    BY <2>1 DEF NEXT_STATUS, FulfilmentStatus, Rank
  <2>3. r \in Row /\ r.status = "CONFIRMED" /\ r.fulfilment = NEXT_STATUS[q.fulfilment]
    BY <1>1, <1>3, <2>1, <2>2 DEF Row
  <2>4. QED
    BY <2>1, <2>2, <2>3 DEF Legal, Reached, Past
<1>4. QED
  BY <1>2, <1>3 DEF Successors

\* The row that a lagging read still sees is an earlier one.
LEMMA SeenEarlier ==
  ASSUME NEW q \in Row, NEW s \in SeenByRead(q)
  PROVE  s \in Row /\ s.status = q.status /\ Reached(s, q)
<1>1. q.status \in OrderStatus /\ q.fulfilment \in FulfilmentStatus
  BY DEF Row
<1>2. CASE s = q
  BY <1>2, ReachedOrder
<1>3. CASE q.fulfilment = "PACKING" /\ s = [q EXCEPT !.fulfilment = "NOT_STARTED"]
  <2>1. s \in Row /\ s.status = q.status /\ s.fulfilment = "NOT_STARTED"
    BY <1>1, <1>3 DEF Row, FulfilmentStatus
  <2>2. q.status \in Past[q.status]
    BY <1>1 DEF Past, OrderStatus
  <2>3. QED
    BY <1>3, <2>1, <2>2 DEF Reached, Rank
<1>4. QED
  BY <1>2, <1>3 DEF SeenByRead

\* A request that the service accepts takes its order to a successor of its row.
LEMMA AcceptedSuccessor ==
  ASSUME NEW c, NEW q \in Row, c.op \in Writes, c.order \in Orders, table[c.order] = q, Accepted(c)
  PROVE  /\ c.op = "cancel" => [q EXCEPT !.status = "CANCEL_PENDING"] \in Successors(q)
         /\ c.op = "progress" => [q EXCEPT !.fulfilment = c.to] \in Successors(q)
<1>1. CASE c.op = "cancel"
  <2>1. Cancellable(q)
    BY <1>1 DEF Accepted
  <2>2. "CANCEL_PENDING" \in {t \in OrderStatus :
                               \/ q.status = "PENDING" /\ t \in {"CONFIRMED", "REJECTED"}
                               \/ Cancellable(q) /\ t = "CANCEL_PENDING"
                               \/ q.status = "CANCEL_PENDING" /\ t = "CANCELLED"}
    BY <2>1 DEF OrderStatus
  <2>3. QED
    BY <1>1, <2>2 DEF Successors
<1>2. CASE c.op = "progress"
  <2>1. CanAdvance(q) /\ NEXT_STATUS[q.fulfilment] = c.to
    BY <1>2 DEF Accepted
  <2>2. QED
    BY <1>2, <2>1 DEF Successors
<1>3. QED
  BY <1>1, <1>2 DEF Writes

----------------------------------------------------------------------------
(* Types.                                                                  *)

Answered(c) == c.at = "answered" /\ c.answer = "ok" /\ c.op \in {"load"} \cup Writes

\* A request by itself.
Sound(c) ==
  /\ Answered(c) => c.rows \in [Orders -> Row]
  /\ c.op \in Writes \cup {"summary"} => c.order \in Orders
  /\ c.op = "none" => c.at \notin {"sent", "answered"}
  /\ c.at = "unused" => c.op = "none"
  /\ c.trust # {} => Answered(c)

\* A list shows all its orders or none; what is written to is shown; an answer to a
\* write can only vouch for its own order, and does so on the desk, which cancels nothing.
LoadedInv ==
  /\ kind = "detail" \/ NothingLoaded \/ \A o \in Orders : view[o] # None
  /\ \A i \in Calls : calls[i].op \in Writes =>
       /\ InFlight(i) => view[calls[i].order] # None
       /\ calls[i].trust \subseteq {calls[i].order}
       /\ calls[i].trust # {} => kind = "desk"
       /\ calls[i].op = "cancel" => kind # "desk"

TypeInv ==
  /\ kind \in Kinds
  /\ table \in [Orders -> Row] /\ \A o \in Orders : Legal(table[o])
  /\ pushes \subseteq Pushes /\ changes \in 0..MaxChanges[kind]
  /\ view \in [Orders -> Row \cup {None}]
  /\ loading \in BOOLEAN /\ error \in BOOLEAN
  /\ busy \in Orders \cup {None} /\ downloading \in Orders \cup {None} /\ conflict \in Orders \cup {None}
  /\ calls \in [Calls -> CallType] /\ \A i \in Calls : Sound(calls[i])
  /\ trusted \subseteq Orders
  /\ LoadedInv

\* Nothing is a row or an order.
LEMMA Nothing == None \notin Orders /\ None \notin Row /\ Subject \in Orders
BY PagesAssumption

\* A request that nobody made or waits for.
LEMMA FreshCall ==
  /\ Fresh \in CallType /\ Sound(Fresh) /\ Fresh.op = "none" /\ Fresh.at = "unused" /\ Fresh.trust = {}
  /\ ~Answered(Fresh)
BY DEF Fresh, CallType, Sound, Answered, Writes

\* An answered request.
LEMMA AnswerCall ==
  ASSUME NEW c \in CallType, Sound(c), c.at \in {"sent", "answered"},
         NEW a \in {"ok", "conflict", "failed"}, NEW rows \in [Orders -> Row] \cup {None},
         NEW trust \in SUBSET Orders, NEW d, d = Answer(c, a, rows, trust),
         a = "ok" /\ c.op \in {"load"} \cup Writes => rows \in [Orders -> Row],
         trust # {} => a = "ok" /\ c.op \in {"load"} \cup Writes
  PROVE  /\ d \in CallType /\ Sound(d)
         /\ d.op = c.op /\ d.order = c.order /\ d.to = c.to /\ d.at = "answered" /\ d.answer = a
         /\ d.rows = rows /\ d.trust = trust
<1>1. /\ d \in CallType /\ d.op = c.op /\ d.order = c.order /\ d.to = c.to /\ d.at = "answered"
      /\ d.answer = a /\ d.rows = rows /\ d.trust = trust
  BY DEF CallType, Answer
<1>2. QED
  BY <1>1 DEF Sound, Answered, Writes

\* A request whose answer was taken.
LEMMA DoneCall ==
  ASSUME TypeInv, NEW i \in Calls, InFlight(i)
  PROVE  /\ Done(i) \in CallType /\ Sound(Done(i)) /\ ~Answered(Done(i))
         /\ Done(i).op = calls[i].op /\ Done(i).order = calls[i].order /\ Done(i).at = "done"
         /\ Done(i).trust = {}
<1>1. calls[i] \in CallType /\ Sound(calls[i])
  BY DEF TypeInv
<1>2. /\ Done(i) \in CallType /\ Done(i).op = calls[i].op /\ Done(i).order = calls[i].order
      /\ Done(i).at = "done" /\ Done(i).trust = {}
  BY <1>1 DEF Done, Fresh, CallType
<1>3. QED
  BY <1>1, <1>2 DEF Sound, Answered, InFlight

\* A request that is made.
Sent(op, o, to) == [Fresh EXCEPT !.op = op, !.order = o, !.to = to, !.at = "sent"]

\* A new request is well formed and brings nothing yet.
LEMMA SentCall ==
  ASSUME NEW op \in {"load", "summary"} \cup Writes, NEW o \in Orders \cup {None},
         NEW to \in FulfilmentStatus \cup {None}, op \in Writes \cup {"summary"} => o \in Orders,
         NEW d, d = Sent(op, o, to)
  PROVE  /\ d \in CallType /\ Sound(d) /\ ~Answered(d)
         /\ d.op = op /\ d.order = o /\ d.to = to /\ d.at = "sent" /\ d.trust = {}
<1>1. /\ d \in CallType /\ d.op = op /\ d.order = o /\ d.to = to /\ d.at = "sent" /\ d.trust = {}
  BY DEF Sent, Fresh, CallType
<1>2. QED
  BY <1>1 DEF Sound, Answered, Writes

\* A request whose answer knows less.
LEMMA ShrunkCall ==
  ASSUME NEW c \in CallType, Sound(c), NEW d \in CallType,
         d.op = c.op, d.order = c.order, d.at = c.at, d.answer = c.answer, d.rows = c.rows,
         d.trust \subseteq c.trust
  PROVE  Sound(d) /\ (Answered(d) <=> Answered(c))
BY DEF Sound, Answered

\* One request of a page changes.
LEMMA SetCall ==
  ASSUME TypeInv, NEW i \in Calls, NEW x \in CallType, Sound(x), calls' = [calls EXCEPT ![i] = x]
  PROVE  /\ calls' \in [Calls -> CallType] /\ \A j \in Calls : Sound(calls'[j])
         /\ calls'[i] = x /\ \A j \in Calls \ {i} : calls'[j] = calls[j]
<1>1. calls \in [Calls -> CallType] /\ \A j \in Calls : Sound(calls[j])
  BY DEF TypeInv
<1>2. calls' \in [Calls -> CallType] /\ calls'[i] = x /\ \A j \in Calls \ {i} : calls'[j] = calls[j]
  BY <1>1
<1>3. QED
  BY <1>1, <1>2

\* A request stays as it is, though its answer may know less; or it brings no rows.
Kept(i) == /\ calls'[i].op = calls[i].op /\ calls'[i].order = calls[i].order
           /\ calls'[i].at = calls[i].at /\ calls'[i].answer = calls[i].answer
           /\ calls'[i].rows = calls[i].rows /\ calls'[i].trust \subseteq calls[i].trust
Fallow(i) == ~Answered(calls'[i]) /\ calls'[i].trust = {}

\* Every request's answer knows less.
Shrunk(S) == [j \in Calls |-> [calls[j] EXCEPT !.trust = @ \ S]]

\* Requests that know less of an order are requests as they were.
LEMMA ForgetCalls ==
  ASSUME TypeInv, NEW o \in Orders, calls' = Shrunk({o})
  PROVE  /\ calls' \in [Calls -> CallType] /\ (\A j \in Calls : Sound(calls'[j]))
         /\ (\A j \in Calls : Kept(j) /\ o \notin calls'[j].trust)
<1>1. ASSUME NEW j \in Calls
      PROVE  calls'[j] \in CallType /\ Sound(calls'[j]) /\ Kept(j) /\ o \notin calls'[j].trust
  <2>1. calls[j] \in CallType /\ Sound(calls[j]) /\ calls'[j] = [calls[j] EXCEPT !.trust = @ \ {o}]
    BY DEF TypeInv, Shrunk
  <2>2. calls'[j] \in CallType
    BY <2>1 DEF CallType
  <2>3. /\ calls'[j].op = calls[j].op /\ calls'[j].order = calls[j].order
        /\ calls'[j].at = calls[j].at /\ calls'[j].answer = calls[j].answer
        /\ calls'[j].rows = calls[j].rows /\ calls'[j].trust = calls[j].trust \ {o}
    BY <2>1 DEF CallType
  <2>4. QED
    BY <2>1, <2>2, <2>3, ShrunkCall DEF Kept
<1>2. DOMAIN calls' = Calls /\ calls' = [j \in Calls |-> calls'[j]]
  BY DEF Shrunk
<1>3. QED
  BY <1>1, <1>2

\* A commit of a legal row.
LEMMA Committed ==
  ASSUME TypeInv, NEW o \in Orders, NEW r \in Row, Legal(r), Commit(o, r)
  PROVE  /\ table' \in [Orders -> Row] /\ (\A q \in Orders : Legal(table'[q]))
         /\ table'[o] = r /\ \A q \in Orders \ {o} : table'[q] = table[q]
         /\ pushes' \subseteq Pushes
<1>1. PushesOf(o, r) \subseteq Pushes
  BY DEF PushesOf, Pushes, Row
<1>2. table' \in [Orders -> Row] /\ table'[o] = r /\ \A q \in Orders \ {o} : table'[q] = table[q]
  BY DEF Commit, TypeInv
<1>3. QED
  BY <1>1, <1>2 DEF Commit, TypeInv

\* An answer is shown.
LEMMA Shows ==
  ASSUME TypeInv, NEW S \in SUBSET Orders, NEW rows \in [Orders -> Row], NEW trust \in SUBSET Orders,
         Show(S, rows, trust)
  PROVE  /\ view' \in [Orders -> Row \cup {None}] /\ trusted' \subseteq Orders
         /\ \A o \in S : view'[o] = rows[o] /\ view'[o] # None
         /\ \A o \in Orders \ S : view'[o] = view[o]
BY Nothing DEF Show, TypeInv

\* A push is shown.
LEMMA Updates ==
  ASSUME TypeInv, NEW m \in Pushes, view[m.order] # None, UpdateRow(m)
  PROVE  /\ view' \in [Orders -> Row \cup {None}] /\ trusted' \subseteq Orders
         /\ m.order \in Orders /\ view[m.order] \in Row /\ view'[m.order] = Updated(view[m.order], m)
         /\ view'[m.order] \in Row /\ \A o \in Orders \ {m.order} : view'[o] = view[o]
<1>1. /\ m.order \in Orders
      /\ \/ m.field = "status" /\ m.value \in OrderStatus
         \/ m.field = "fulfilment" /\ m.value \in FulfilmentStatus
  BY DEF Pushes, Push
<1>2. view[m.order] \in Row
  BY <1>1 DEF TypeInv
<1>3. Updated(view[m.order], m) \in Row
  BY <1>1, <1>2 DEF Updated, Row
<1>4. QED
  BY <1>1, <1>2, <1>3 DEF UpdateRow, TypeInv

\* What a delivered push does to a page: nothing, or it is shown.
LEMMA Applied ==
  ASSUME TypeInv, NEW m \in pushes, ApplyUpdate(m)
  PROVE  UNCHANGED <<view, trusted>> \/ (view[m.order] # None /\ UpdateRow(m))
<1>1. m.order \in Orders
  BY DEF TypeInv, Pushes, Push
<1>2. kind # "detail" /\ ~NothingLoaded => view[m.order] # None
  BY <1>1 DEF TypeInv, LoadedInv
<1>3. QED
  BY <1>2 DEF ApplyUpdate, DetailUpdate, ListUpdate, DeskUpdate

----------------------------------------------------------------------------
(* What the steps do to the rows, the pushes and what is known of them.     *)

\* A step that shows, brings and commits nothing.
Tame ==
  /\ UNCHANGED <<table, view>> /\ trusted' \subseteq trusted /\ pushes' \subseteq pushes
  /\ \A i \in Calls : Kept(i) \/ Fallow(i)
  /\ \A m \in pushes \ pushes' : m.order \notin trusted' /\ \A i \in Calls : m.order \notin calls'[i].trust

\* A request is made.
LEMMA Sends ==
  ASSUME TypeInv, NEW op \in {"load", "summary"} \cup Writes, NEW o \in Orders \cup {None},
         NEW to \in FulfilmentStatus \cup {None}, op \in Writes \cup {"summary"} => o \in Orders,
         op \in Writes => view[o] # None, op = "cancel" => kind # "desk",
         Send(op, o, to), UNCHANGED <<kind, view>>
  PROVE  /\ calls' \in [Calls -> CallType] /\ \A j \in Calls : Sound(calls'[j])
         /\ \E i \in Calls : NextUnused(i) /\ calls'[i] = Sent(op, o, to)
                             /\ \A j \in Calls \ {i} : calls'[j] = calls[j]
         /\ \A j \in Calls : Kept(j) \/ Fallow(j)
         /\ LoadedInv'
<1> DEFINE d == Sent(op, o, to)
<1>1. /\ d \in CallType /\ Sound(d) /\ ~Answered(d)
      /\ d.op = op /\ d.order = o /\ d.at = "sent" /\ d.trust = {}
  BY SentCall
<1>2. PICK i \in Calls : NextUnused(i) /\ calls' = [calls EXCEPT ![i] = d]
  BY DEF Send, Sent
<1> HIDE DEF d
<1>3. /\ calls' \in [Calls -> CallType] /\ \A j \in Calls : Sound(calls'[j])
      /\ calls'[i] = d /\ \A j \in Calls \ {i} : calls'[j] = calls[j]
  BY <1>1, <1>2, SetCall
<1>4. \A j \in Calls : Kept(j) \/ Fallow(j)
  BY <1>1, <1>3 DEF Kept, Fallow
<1>5. \A j \in Calls : calls'[j].op \in Writes =>
        /\ InFlight(j)' => view'[calls'[j].order] # None
        /\ calls'[j].trust \subseteq {calls'[j].order}
        /\ calls'[j].trust # {} => kind' = "desk"
        /\ calls'[j].op = "cancel" => kind' # "desk"
  BY <1>1, <1>3 DEF TypeInv, LoadedInv, InFlight
<1>6. LoadedInv'
  BY <1>5 DEF TypeInv, LoadedInv, NothingLoaded
<1>7. QED
  BY <1>2, <1>3, <1>4, <1>6 DEF d

\* A click of a button.
LEMMA UserSteps == TypeInv /\ User => TypeInv' /\ Tame
<1> SUFFICES ASSUME TypeInv, User PROVE TypeInv' /\ Tame
  OBVIOUS
<1> USE DEF Writes
<1>1. ASSUME NEW op \in {"load", "summary"} \cup Writes, NEW o \in Orders \cup {None},
             NEW to \in FulfilmentStatus \cup {None}, op \in Writes \cup {"summary"} => o \in Orders,
             op \in Writes => view[o] # None, op = "cancel" => kind # "desk", Send(op, o, to),
             UNCHANGED <<kind, view, loading, error, table, changes, pushes, trusted>>
               \/ (UNCHANGED <<kind, view, loading, table, changes, pushes, trusted>> /\ error' = FALSE),
             busy' \in Orders \cup {None}, downloading' \in Orders \cup {None}, conflict' \in Orders \cup {None}
      PROVE  TypeInv' /\ Tame
  <2>1. /\ calls' \in [Calls -> CallType] /\ (\A j \in Calls : Sound(calls'[j]))
        /\ (\A j \in Calls : Kept(j) \/ Fallow(j)) /\ LoadedInv'
    BY <1>1, Sends
  <2>2. Tame
    BY <1>1, <2>1 DEF Tame
  <2>3. TypeInv'
    BY <1>1, <2>1 DEF TypeInv
  <2>4. QED
    BY <2>2, <2>3
<1>2. busy \in Orders \cup {None} /\ downloading \in Orders \cup {None} /\ conflict \in Orders \cup {None}
  BY DEF TypeInv
<1>3. CASE Refresh
  <2>1. Send("load", None, None)
    BY <1>3 DEF Refresh
  <2>2. UNCHANGED <<kind, view, loading, error, table, changes, pushes, trusted, busy, downloading, conflict>>
    BY <1>3 DEF Refresh, streamVars, pageVars, serverVars
  <2>3. QED
    BY <1>1, <1>2, <2>1, <2>2
<1>4. CASE Dismiss
  <2>1. UNCHANGED <<kind, view, loading, error, table, changes, pushes, trusted, busy, downloading, calls>> /\ conflict' = None
    BY <1>4 DEF Dismiss, streamVars, serverVars
  <2>2. \A i \in Calls : Kept(i)
    BY <2>1 DEF Kept
  <2>3. Tame
    BY <2>1, <2>2 DEF Tame
  <2>4. TypeInv'
    BY <2>1 DEF TypeInv, LoadedInv, NothingLoaded, InFlight
  <2>5. QED
    BY <2>3, <2>4
<1>5. CASE CancelSubject
  <2>1. Send("cancel", Subject, None) /\ view[Subject] # None /\ busy' = Subject /\ kind = "detail"
    BY <1>5 DEF CancelSubject, Click, Shown
  <2>2. UNCHANGED <<kind, view, loading, table, changes, pushes, trusted, downloading, conflict>> /\ error' = FALSE
    BY <1>5 DEF CancelSubject, Click, streamVars, serverVars
  <2>3. QED
    BY <1>1, <1>2, <2>1, <2>2, Nothing
<1>6. CASE DownloadSubject
  <2>1. Send("summary", Subject, None) /\ downloading' = Subject
    BY <1>6 DEF DownloadSubject, Click
  <2>2. UNCHANGED <<kind, view, loading, table, changes, pushes, trusted, busy, conflict>> /\ error' = FALSE
    BY <1>6 DEF DownloadSubject, Click, streamVars, serverVars
  <2>3. QED
    BY <1>1, <1>2, <2>1, <2>2, Nothing
<1>7. ASSUME NEW o \in Orders, RequestCancellation(o) PROVE TypeInv' /\ Tame
  <2>1. Send("cancel", o, None) /\ view[o] # None /\ busy' = o /\ kind = "list"
    BY <1>7 DEF RequestCancellation, Click, Shown
  <2>2. UNCHANGED <<kind, view, loading, table, changes, pushes, trusted, downloading, conflict>> /\ error' = FALSE
    BY <1>7 DEF RequestCancellation, Click, streamVars, serverVars
  <2>3. QED
    BY <1>1, <1>2, <2>1, <2>2
<1>8. ASSUME NEW o \in Orders, ProgressOrder(o) PROVE TypeInv' /\ Tame
  <2>1. /\ Send("progress", o, NEXT_STATUS[view[o].fulfilment]) /\ view[o] # None /\ busy' = o /\ conflict' = None
        /\ view[o].fulfilment \in DOMAIN NEXT_STATUS
    BY <1>8 DEF ProgressOrder, Click, Shown, CanProgress
  <2>2. UNCHANGED <<kind, view, loading, table, changes, pushes, trusted, downloading>> /\ error' = FALSE
    BY <1>8 DEF ProgressOrder, Click, streamVars, serverVars
  <2>3. NEXT_STATUS[view[o].fulfilment] \in FulfilmentStatus
    BY <2>1 DEF NEXT_STATUS, FulfilmentStatus
  <2> DEFINE to == NEXT_STATUS[view[o].fulfilment]
  <2>4. to \in FulfilmentStatus /\ Send("progress", o, to)
    BY <2>1, <2>3
  <2> HIDE DEF to
  <2>5. QED
    BY <1>1, <1>2, <2>1, <2>2, <2>4
<1>9. ASSUME NEW o \in Orders, DownloadSelected(o) PROVE TypeInv' /\ Tame
  <2>1. Send("summary", o, None) /\ downloading' = o
    BY <1>9 DEF DownloadSelected, Click
  <2>2. UNCHANGED <<kind, view, loading, table, changes, pushes, trusted, busy, conflict>> /\ error' = FALSE
    BY <1>9 DEF DownloadSelected, Click, streamVars, serverVars
  <2>3. QED
    BY <1>1, <1>2, <2>1, <2>2
<1>10. QED
  BY <1>3, <1>4, <1>5, <1>6, <1>7, <1>8, <1>9 DEF User

\* Somebody commits a change of order o; an answer may bring its row.
Commits(o) ==
  /\ UNCHANGED view /\ trusted' \subseteq trusted /\ (~Reaches(o) => o \notin trusted')
  /\ \E r \in Successors(table[o]) : /\ Commit(o, r)
       /\ \A i \in Calls : \/ Kept(i) /\ (~Reaches(o) => o \notin calls'[i].trust)
                           \/ /\ calls'[i].rows \in [Orders -> Row]
                              /\ \A q \in Orders \ {o} : calls'[i].rows[q] = table[q]
                              /\ Reached(calls'[i].rows[o], r)
                              /\ calls'[i].trust \subseteq {o}
                              /\ calls'[i].trust # {} => ~Reaches(o) /\ calls'[i].rows[o] = r

\* An answer brings the table.
Loads(i) == /\ UNCHANGED <<table, pushes, view, trusted>>
            /\ calls'[i].rows = table
            /\ \A j \in Calls \ {i} : calls'[j] = calls[j]

\* A push is taken.
Pushed(m) ==
  /\ UNCHANGED table /\ pushes' \in {pushes, pushes \ {m}}
  /\ \/ UNCHANGED <<view, trusted>> /\ (m.order \in Listed => view[m.order] = None)
     \/ view[m.order] # None /\ UpdateRow(m)
  /\ \A i \in Calls : Kept(i) /\ m.order \notin calls'[i].trust

\* A change of somebody else's.
LEMMA ChangeSteps == ASSUME TypeInv, NEW o \in Orders, Change(o) PROVE TypeInv' /\ Commits(o)
<1>1. PICK r \in Successors(table[o]) : Commit(o, r)
  BY DEF Change
<1>2. UNCHANGED <<kind, view, loading, error, busy, downloading, conflict>> /\ changes < MaxChanges[kind]
      /\ changes' = changes + 1
  BY DEF Change, streamVars, pageVars
<1>3. table[o] \in Row /\ Legal(table[o]) /\ MaxChanges[kind] \in Nat
  BY PagesAssumption DEF TypeInv
<1>4. r \in Row /\ Legal(r) /\ Reached(table[o], r)
  BY <1>1, <1>3, SuccessorsLater
<1>5. /\ table' \in [Orders -> Row] /\ (\A q \in Orders : Legal(table'[q]))
      /\ table'[o] = r /\ (\A q \in Orders \ {o} : table'[q] = table[q])
      /\ pushes' \subseteq Pushes
  BY <1>1, <1>4, Committed
<1>6. /\ calls' \in [Calls -> CallType] /\ (\A i \in Calls : Sound(calls'[i]))
      /\ (\A i \in Calls : Kept(i) /\ (~Reaches(o) => o \notin calls'[i].trust))
  <2>1. CASE Reaches(o)
    BY <2>1 DEF Change, TypeInv, Kept
  <2>2. CASE ~Reaches(o)
    <3>1. calls' = Shrunk({o})
      BY <2>2 DEF Change, Forget, Shrunk
    <3>2. QED
      BY <3>1, ForgetCalls
  <2>3. QED
    BY <2>1, <2>2
<1>7. trusted' \subseteq trusted /\ (~Reaches(o) => o \notin trusted')
  BY DEF Change, Forget
<1>8. LoadedInv'
  BY <1>2, <1>6 DEF TypeInv, LoadedInv, Kept, InFlight, NothingLoaded
<1>9. TypeInv'
  BY <1>2, <1>3, <1>5, <1>6, <1>7, <1>8 DEF TypeInv
<1>10. Commits(o)
  BY <1>1, <1>2, <1>6, <1>7 DEF Commits
<1>11. QED
  BY <1>9, <1>10

\* A request or its answer is lost.
LEMMA LoseSteps == ASSUME TypeInv, NEW i \in Calls, Lose(i) PROVE TypeInv' /\ Tame
<1> DEFINE d == Answer(calls[i], "failed", None, {})
<1>1. calls[i] \in CallType /\ Sound(calls[i]) /\ InFlight(i)
  BY DEF TypeInv, Lose, InFlight
<1>2. /\ d \in CallType /\ Sound(d) /\ d.op = calls[i].op /\ d.order = calls[i].order
      /\ d.at = "answered" /\ d.answer = "failed" /\ d.trust = {}
  BY <1>1, AnswerCall DEF InFlight
<1>3. calls' = [calls EXCEPT ![i] = d]
  BY DEF Lose
<1> HIDE DEF d
<1>4. /\ calls' \in [Calls -> CallType] /\ (\A j \in Calls : Sound(calls'[j]))
      /\ calls'[i] = d /\ (\A j \in Calls \ {i} : calls'[j] = calls[j])
  BY <1>2, <1>3, SetCall
<1>5. \A j \in Calls : Kept(j) \/ Fallow(j)
  BY <1>2, <1>4 DEF Kept, Fallow, Answered
<1>6. UNCHANGED <<kind, view, loading, error, busy, downloading, conflict, table, changes, pushes, trusted>>
  BY DEF Lose, streamVars, pageVars, serverVars
<1>7. LoadedInv'
  BY <1>1, <1>2, <1>4, <1>6 DEF TypeInv, LoadedInv, InFlight, NothingLoaded
<1>8. TypeInv'
  BY <1>4, <1>6, <1>7 DEF TypeInv
<1>9. QED
  BY <1>5, <1>6, <1>8 DEF Tame

\* A push that never comes.
LEMMA MissSteps == ASSUME TypeInv, NEW m \in pushes, Miss(m) PROVE TypeInv' /\ Tame
<1>1. m.order \in Orders
  BY DEF TypeInv, Pushes, Push
<1>2. calls' = Shrunk({m.order}) /\ trusted' = trusted \ {m.order} /\ pushes' = pushes \ {m}
  BY DEF Miss, Forget, Shrunk
<1>3. /\ calls' \in [Calls -> CallType] /\ (\A i \in Calls : Sound(calls'[i]))
      /\ (\A i \in Calls : Kept(i) /\ m.order \notin calls'[i].trust)
  BY <1>1, <1>2, ForgetCalls
<1>4. UNCHANGED <<kind, view, loading, error, busy, downloading, conflict, table, changes>>
  BY DEF Miss, streamVars, pageVars, serverVars
<1>5. LoadedInv'
  BY <1>3, <1>4 DEF TypeInv, LoadedInv, Kept, InFlight, NothingLoaded
<1>6. TypeInv'
  BY <1>2, <1>3, <1>4, <1>5 DEF TypeInv
<1>7. QED
  BY <1>2, <1>3, <1>4, <1>6 DEF Tame

\* A push that comes.
LEMMA DeliverSteps == ASSUME TypeInv, NEW m \in pushes, Deliver(m) PROVE TypeInv' /\ Pushed(m)
<1>1. m \in Pushes /\ m.order \in Orders
  BY DEF TypeInv, Pushes, Push
<1>2. calls' = Shrunk({m.order}) /\ pushes' \in {pushes, pushes \ {m}} /\ ApplyUpdate(m)
  BY DEF Deliver, Shrunk
<1>3. /\ calls' \in [Calls -> CallType] /\ (\A i \in Calls : Sound(calls'[i]))
      /\ (\A i \in Calls : Kept(i) /\ m.order \notin calls'[i].trust)
  BY <1>1, <1>2, ForgetCalls
<1>4. UNCHANGED <<kind, loading, error, busy, downloading, conflict, table, changes>>
  BY DEF Deliver, streamVars, serverVars
<1>5. \/ UNCHANGED <<view, trusted>> /\ (m.order \in Listed => view[m.order] = None)
      \/ view[m.order] # None /\ UpdateRow(m)
  <2>1. UNCHANGED <<view, trusted>> \/ (view[m.order] # None /\ UpdateRow(m))
    BY <1>2, Applied
  <2>2. CASE kind = "detail"
    BY <1>2, <2>1, <2>2 DEF ApplyUpdate, DetailUpdate, Listed
  <2>3. CASE kind # "detail"
    BY <1>1, <1>2, <2>1, <2>3 DEF ApplyUpdate, ListUpdate, DeskUpdate, NothingLoaded
  <2>4. QED
    BY <2>2, <2>3
<1>6. /\ view' \in [Orders -> Row \cup {None}] /\ trusted' \subseteq Orders
      /\ \A o \in Orders : view'[o] = None <=> view[o] = None
  BY <1>1, <1>5, Updates, Nothing DEF TypeInv
<1>7. LoadedInv'
  <2>1. \A i \in Calls : calls[i].op \in Writes => calls[i].order \in Orders
    BY DEF TypeInv, Sound
  <2>2. QED
    BY <1>3, <1>4, <1>6, <2>1 DEF TypeInv, LoadedInv, Kept, InFlight, NothingLoaded
<1>8. TypeInv'
  BY <1>2, <1>3, <1>4, <1>6, <1>7 DEF TypeInv
<1>9. QED
  BY <1>2, <1>3, <1>4, <1>5, <1>8 DEF Pushed

\* A request is answered without rows, or with the table's.
LEMMA Replies ==
  ASSUME TypeInv, NEW i \in Calls, calls[i].at = "sent", NEW a \in {"ok", "conflict", "failed"},
         NEW rows \in [Orders -> Row] \cup {None}, NEW trust \in SUBSET Orders,
         a = "ok" => (calls[i].op = "load" /\ rows = table) \/ calls[i].op = "summary",
         trust # {} => a = "ok" /\ calls[i].op = "load",
         Reply(i, a, rows, trust), UNCHANGED <<streamVars, faults, changes, pageVars>>
  PROVE  TypeInv' /\ (Tame \/ Loads(i))
<1> DEFINE d == Answer(calls[i], a, rows, trust)
<1>1. calls[i] \in CallType /\ Sound(calls[i]) /\ table \in [Orders -> Row] /\ InFlight(i)
  BY DEF TypeInv, InFlight
<1>2. a = "ok" /\ calls[i].op \in {"load"} \cup Writes => rows \in [Orders -> Row]
  BY <1>1 DEF Writes
<1>3. /\ d \in CallType /\ Sound(d) /\ d.op = calls[i].op /\ d.order = calls[i].order
      /\ d.at = "answered" /\ d.answer = a /\ d.rows = rows /\ d.trust = trust
  BY <1>1, <1>2, AnswerCall
<1>4. calls' = [calls EXCEPT ![i] = d] /\ UNCHANGED <<table, pushes, trusted>>
  BY DEF Reply
<1> HIDE DEF d
<1>5. /\ calls' \in [Calls -> CallType] /\ (\A j \in Calls : Sound(calls'[j]))
      /\ calls'[i] = d /\ (\A j \in Calls \ {i} : calls'[j] = calls[j])
  BY <1>3, <1>4, SetCall
<1>6. UNCHANGED <<kind, view, loading, error, busy, downloading, conflict, changes>>
  BY DEF streamVars, pageVars
<1>7. LoadedInv'
  BY <1>1, <1>3, <1>5, <1>6 DEF TypeInv, LoadedInv, InFlight, NothingLoaded, Writes
<1>8. TypeInv'
  BY <1>4, <1>5, <1>6, <1>7 DEF TypeInv
<1>9. Tame \/ Loads(i)
  <2>1. CASE a = "ok" /\ calls[i].op = "load"
    BY <2>1, <1>3, <1>4, <1>5, <1>6 DEF Loads
  <2>2. CASE ~(a = "ok" /\ calls[i].op = "load")
    <3>1. \A j \in Calls : Kept(j) \/ Fallow(j)
      BY <2>2, <1>3, <1>5 DEF Kept, Fallow, Answered, Writes
    <3>2. QED
      BY <3>1, <1>4, <1>6 DEF Tame
  <2>3. QED
    BY <2>1, <2>2
<1>10. QED
  BY <1>8, <1>9

\* A write is accepted.
LEMMA Accepts ==
  ASSUME TypeInv, NEW i \in Calls, calls[i].at = "sent", calls[i].op \in Writes,
         NEW r \in Successors(table[calls[i].order]), NEW seen \in Row, Reached(seen, r),
         calls[i].op = "progress" => seen = r,
         ReplyCommitted(i, r, seen), UNCHANGED <<streamVars, faults, changes, pageVars>>
  PROVE  TypeInv' /\ Commits(calls[i].order)
<1> DEFINE o == calls[i].order
           tracked == IF Reaches(o) THEN {} ELSE trusted \cap {o}
           rows == [table EXCEPT ![o] = seen]
           d == Answer(calls[i], "ok", rows, tracked)
<1>1. calls[i] \in CallType /\ Sound(calls[i]) /\ table \in [Orders -> Row] /\ InFlight(i) /\ o \in Orders
      /\ calls \in [Calls -> CallType]
  BY DEF TypeInv, InFlight, Sound
<1>2. table[o] \in Row /\ Legal(table[o])
  BY <1>1 DEF TypeInv
<1>3. r \in Row /\ Legal(r) /\ Reached(table[o], r)
  BY <1>2, SuccessorsLater
<1>4. rows \in [Orders -> Row] /\ rows[o] = seen /\ \A q \in Orders \ {o} : rows[q] = table[q]
  BY <1>1
<1>5. tracked \in SUBSET Orders /\ tracked \subseteq {o} /\ (tracked # {} => ~Reaches(o))
  BY <1>1
<1>6. /\ Commit(o, r) /\ trusted' = trusted \ tracked
      /\ calls' = [j \in Calls |-> IF j = i THEN d
                                   ELSE [calls[j] EXCEPT !.trust = IF Reaches(o) THEN @ ELSE @ \ {o}]]
  BY DEF ReplyCommitted
<1> HIDE DEF rows
<1>7. /\ d \in CallType /\ Sound(d) /\ d.op = calls[i].op /\ d.order = o
      /\ d.at = "answered" /\ d.answer = "ok" /\ d.rows = rows /\ d.trust = tracked
  <2> HIDE DEF tracked
  <2>1. QED
    BY <1>1, <1>4, <1>5, AnswerCall DEF Writes
<1> HIDE DEF d
<1>8. calls'[i] = d
  BY <1>6
<1>9. ASSUME NEW j \in Calls \ {i}
      PROVE  calls'[j] \in CallType /\ Sound(calls'[j]) /\ Kept(j) /\ (~Reaches(o) => o \notin calls'[j].trust)
  <2>1. calls[j] \in CallType /\ Sound(calls[j])
        /\ calls'[j] = [calls[j] EXCEPT !.trust = IF Reaches(o) THEN @ ELSE @ \ {o}]
    BY <1>6 DEF TypeInv
  <2>2. calls'[j] \in CallType
    BY <2>1 DEF CallType
  <2>3. /\ calls'[j].op = calls[j].op /\ calls'[j].order = calls[j].order
        /\ calls'[j].at = calls[j].at /\ calls'[j].answer = calls[j].answer
        /\ calls'[j].rows = calls[j].rows /\ calls'[j].trust \subseteq calls[j].trust
        /\ (~Reaches(o) => o \notin calls'[j].trust)
    BY <2>1 DEF CallType
  <2>4. QED
    BY <2>1, <2>2, <2>3, ShrunkCall DEF Kept
<1>10. /\ calls' \in [Calls -> CallType] /\ (\A j \in Calls : Sound(calls'[j]))
  <2>1. DOMAIN calls' = Calls /\ calls' = [j \in Calls |-> calls'[j]]
    BY <1>6
  <2>2. QED
    BY <2>1, <1>7, <1>8, <1>9
<1>11. /\ table' \in [Orders -> Row] /\ (\A q \in Orders : Legal(table'[q]))
       /\ table'[o] = r /\ (\A q \in Orders \ {o} : table'[q] = table[q]) /\ pushes' \subseteq Pushes
  BY <1>1, <1>3, <1>6, Committed
<1>12. UNCHANGED <<kind, view, loading, error, busy, downloading, conflict, changes>>
  BY DEF streamVars, pageVars
<1>13. tracked # {} => kind = "desk"
  BY <1>5 DEF Reaches
<1>14. LoadedInv'
  <2>1. calls'[i].op \in Writes =>
          /\ InFlight(i)' => view'[calls'[i].order] # None
          /\ calls'[i].trust \subseteq {calls'[i].order}
          /\ calls'[i].trust # {} => kind' = "desk"
          /\ calls'[i].op = "cancel" => kind' # "desk"
    BY <1>1, <1>5, <1>7, <1>8, <1>12, <1>13 DEF TypeInv, LoadedInv, InFlight
  <2>2. \A j \in Calls \ {i} : calls'[j].op \in Writes =>
          /\ InFlight(j)' => view'[calls'[j].order] # None
          /\ calls'[j].trust \subseteq {calls'[j].order}
          /\ calls'[j].trust # {} => kind' = "desk"
          /\ calls'[j].op = "cancel" => kind' # "desk"
    BY <1>9, <1>12 DEF TypeInv, LoadedInv, InFlight, Kept
  <2>3. QED
    BY <2>1, <2>2, <1>12 DEF TypeInv, LoadedInv, NothingLoaded
<1>15. TypeInv'
  BY <1>6, <1>10, <1>11, <1>12, <1>14 DEF TypeInv
<1>16. Commits(o)
  <2>1. calls'[i].trust # {} => calls'[i].rows[o] = r
    BY <1>4, <1>7, <1>8, <1>13 DEF TypeInv, LoadedInv, Writes
  <2>2. /\ calls'[i].rows \in [Orders -> Row]
        /\ \A q \in Orders \ {o} : calls'[i].rows[q] = table[q]
        /\ Reached(calls'[i].rows[o], r)
        /\ calls'[i].trust \subseteq {o}
        /\ calls'[i].trust # {} => ~Reaches(o) /\ calls'[i].rows[o] = r
    BY <1>4, <1>5, <1>7, <1>8, <2>1
  <2>3. trusted' \subseteq trusted /\ (~Reaches(o) => o \notin trusted')
    BY <1>6
  <2>4. QED
    BY <1>6, <1>9, <1>12, <2>2, <2>3 DEF Commits
<1>17. QED
  BY <1>15, <1>16

\* The order service's side of a request.
LEMMA ServeSteps ==
  ASSUME TypeInv, NEW i \in Calls, Serve(i)
  PROVE  TypeInv' /\ (Tame \/ Loads(i) \/ (calls[i].order \in Orders /\ Commits(calls[i].order)))
<1> DEFINE c == calls[i]
           o == calls[i].order
<1>1. c \in CallType /\ Sound(c) /\ table \in [Orders -> Row] /\ c.at = "sent"
      /\ UNCHANGED <<streamVars, faults, changes, pageVars>>
  BY DEF TypeInv, Serve
<1>2. CASE token = "expired" /\ Reply(i, "failed", None, {})
  BY <1>1, <1>2, Replies
<1>3. CASE c.op = "load" /\ Reply(i, "ok", table, Orders)
  BY <1>1, <1>3, Replies
<1>4. CASE c.op = "summary" /\ Reply(i, "ok", None, {})
  BY <1>1, <1>4, Replies
<1>5. CASE Reply(i, "conflict", None, {})
  BY <1>1, <1>5, Replies
<1>6. CASE /\ c.op = "progress" /\ Accepted(c)
           /\ LET r == [table[c.order] EXCEPT !.fulfilment = c.to] IN ReplyCommitted(i, r, r)
  <2> DEFINE r == [table[o] EXCEPT !.fulfilment = c.to]
  <2>1. o \in Orders /\ table[o] \in Row /\ Legal(table[o]) /\ c.op \in Writes
    BY <1>1, <1>6 DEF TypeInv, Sound, Writes
  <2>2. r \in Successors(table[o])
    BY <1>6, <2>1, AcceptedSuccessor
  <2>3. ReplyCommitted(i, r, r)
    BY <1>6
  <2> HIDE DEF r
  <2>4. r \in Row /\ Reached(r, r)
    BY <2>1, <2>2, SuccessorsLater, ReachedOrder
  <2>5. QED
    BY <1>1, <2>1, <2>2, <2>3, <2>4, Accepts
<1>7. CASE /\ c.op = "cancel" /\ Accepted(c)
           /\ \E seen \in SeenByRead(table[c.order]) :
                ReplyCommitted(i, [table[c.order] EXCEPT !.status = "CANCEL_PENDING"],
                               [seen EXCEPT !.status = "CANCEL_PENDING"])
  <2> DEFINE r == [table[o] EXCEPT !.status = "CANCEL_PENDING"]
  <2>1. o \in Orders /\ table[o] \in Row /\ Legal(table[o]) /\ c.op \in Writes
    BY <1>1, <1>7 DEF TypeInv, Sound, Writes
  <2>2. r \in Successors(table[o])
    BY <1>7, <2>1, AcceptedSuccessor
  <2>3. PICK seen \in SeenByRead(table[o]) : ReplyCommitted(i, r, [seen EXCEPT !.status = "CANCEL_PENDING"])
    BY <1>7
  <2> DEFINE s == [seen EXCEPT !.status = "CANCEL_PENDING"]
  <2>4. seen \in Row /\ Reached(seen, table[o])
    BY <2>1, <2>3, SeenEarlier
  <2>5. s \in Row /\ s.status = "CANCEL_PENDING" /\ s.fulfilment = seen.fulfilment
    BY <2>4 DEF Row, OrderStatus
  <2>6. r.status = "CANCEL_PENDING" /\ r.fulfilment = table[o].fulfilment
    BY <2>1 DEF Row
  <2>7. Reached(s, r)
    BY <2>4, <2>5, <2>6 DEF Reached, Past
  <2>8. ReplyCommitted(i, r, s)
    BY <2>3
  <2> HIDE DEF r, s
  <2>9. QED
    BY <1>1, <1>7, <2>1, <2>2, <2>5, <2>7, <2>8, Accepts
<1>8. QED
  BY <1>2, <1>3, <1>4, <1>5, <1>6, <1>7 DEF Serve

\* An answer shows rows.
Brings(i) ==
  /\ UNCHANGED <<table, pushes>> /\ Answered(calls[i])
  /\ \A j \in Calls : Kept(j) \/ Fallow(j)
  /\ \E S \in SUBSET Orders : \E T \in SUBSET Orders :
       /\ Show(S, calls[i].rows, T) /\ T \subseteq S \cap calls[i].trust /\ T \subseteq Listed

\* An answer is taken.
LEMMA Finishes ==
  ASSUME TypeInv, NEW i \in Calls, InFlight(i), Finish(i)
  PROVE  /\ calls' \in [Calls -> CallType] /\ (\A j \in Calls : Sound(calls'[j]))
         /\ (\A j \in Calls : Kept(j) \/ Fallow(j))
         /\ calls'[i] = Done(i) /\ (\A j \in Calls \ {i} : calls'[j] = calls[j])
         /\ \A j \in Calls : InFlight(j)' => calls'[j] = calls[j]
<1> DEFINE d == Done(i)
<1>1. d \in CallType /\ Sound(d) /\ ~Answered(d) /\ d.trust = {} /\ d.at = "done"
  BY DoneCall
<1>2. calls' = [calls EXCEPT ![i] = d]
  BY DEF Finish
<1> HIDE DEF d
<1>3. /\ calls' \in [Calls -> CallType] /\ (\A j \in Calls : Sound(calls'[j]))
      /\ calls'[i] = d /\ (\A j \in Calls \ {i} : calls'[j] = calls[j])
  BY <1>1, <1>2, SetCall
<1>4. (\A j \in Calls : Kept(j) \/ Fallow(j)) /\ (\A j \in Calls : InFlight(j)' => calls'[j] = calls[j])
  BY <1>1, <1>3 DEF Kept, Fallow, InFlight
<1>5. QED
  BY <1>3, <1>4 DEF d

\* What is shown stays shown.
LEMMA StaysLoaded ==
  ASSUME TypeInv, UNCHANGED kind,
         \A o \in Orders : view[o] # None => view'[o] # None,
         (NothingLoaded' /\ NothingLoaded) \/ kind = "detail" \/ \A o \in Orders : view'[o] # None,
         \A j \in Calls : (calls'[j].trust = {} /\ ~InFlight(j)' /\ calls'[j].op = calls[j].op) \/ calls'[j] = calls[j]
  PROVE  LoadedInv'
<1>1. \A i \in Calls : calls[i].op \in Writes => calls[i].order \in Orders
  BY DEF TypeInv, Sound
<1>2. QED
  BY <1>1 DEF TypeInv, LoadedInv, InFlight

\* The answer of a load is taken.
LEMMA LoadSteps ==
  ASSUME TypeInv, NEW i \in Calls, calls[i].at = "answered", LoadAnswered(i),
         UNCHANGED <<streamVars, faults, serverVars, pushes>>
  PROVE  TypeInv' /\ (Tame \/ Brings(i))
<1>1. InFlight(i) /\ calls[i] \in CallType /\ Sound(calls[i]) /\ calls[i].op = "load"
  BY DEF InFlight, TypeInv, LoadAnswered
<1>2. /\ calls' \in [Calls -> CallType] /\ (\A j \in Calls : Sound(calls'[j]))
      /\ (\A j \in Calls : Kept(j) \/ Fallow(j))
      /\ calls'[i] = Done(i) /\ (\A j \in Calls \ {i} : calls'[j] = calls[j])
  BY <1>1, Finishes DEF LoadAnswered
<1>3. \A j \in Calls : (calls'[j].trust = {} /\ ~InFlight(j)' /\ calls'[j].op = calls[j].op) \/ calls'[j] = calls[j]
  BY <1>1, <1>2, DoneCall DEF InFlight
<1>4. UNCHANGED <<kind, table, changes, pushes, busy, downloading, conflict>>
  BY DEF LoadAnswered, streamVars, serverVars
<1>5. loading' \in BOOLEAN /\ error' \in BOOLEAN
  BY DEF LoadAnswered, DetailLoaded, ListLoaded, DeskLoaded, TypeInv
<1>6. CASE calls[i].answer = "ok"
  <2> DEFINE rows == calls[i].rows
             S == Listed
             T == calls[i].trust \cap Listed
  <2>1. Answered(calls[i]) /\ rows \in [Orders -> Row] /\ calls[i].trust \subseteq Orders
    BY <1>1, <1>6 DEF Answered, Sound, CallType
  <2>2. S \in SUBSET Orders /\ T \in SUBSET Orders /\ (kind # "detail" => S = Orders) /\ T \subseteq S
    BY <2>1, Nothing DEF Listed
  <2>3. Show(S, rows, T)
    <3>1. CASE kind = "detail"
      BY <1>6, <3>1 DEF LoadAnswered, DetailLoaded, Listed
    <3>2. CASE kind \in {"list", "desk"}
      <4>1. calls[i].trust \cap Orders = calls[i].trust
        BY <2>1
      <4>2. QED
        BY <1>6, <3>2, <4>1 DEF LoadAnswered, ListLoaded, DeskLoaded, Listed
    <3>3. QED
      BY <3>1, <3>2 DEF TypeInv, Kinds
  <2>4. Brings(i)
    BY <1>2, <1>4, <2>1, <2>2, <2>3 DEF Brings
  <2> HIDE DEF rows, S, T
  <2>5. /\ view' \in [Orders -> Row \cup {None}] /\ trusted' \subseteq Orders
        /\ (\A o \in S : view'[o] = rows[o] /\ view'[o] # None)
        /\ (\A o \in Orders \ S : view'[o] = view[o])
    BY <2>1, <2>2, <2>3, Shows
  <2>6. LoadedInv'
    BY <1>3, <1>4, <2>2, <2>5, StaysLoaded
  <2>7. TypeInv'
    BY <1>2, <1>4, <1>5, <2>5, <2>6 DEF TypeInv
  <2>8. QED
    BY <2>4, <2>7
<1>7. CASE calls[i].answer # "ok"
  <2>1. UNCHANGED <<view, trusted>>
    BY <1>7 DEF LoadAnswered, DetailLoaded, ListLoaded, DeskLoaded
  <2>2. LoadedInv'
    BY <1>3, <1>4, <2>1, StaysLoaded DEF TypeInv, LoadedInv, NothingLoaded
  <2>3. TypeInv'
    BY <1>2, <1>4, <1>5, <2>1, <2>2 DEF TypeInv
  <2>4. Tame
    BY <1>2, <1>4, <2>1 DEF Tame
  <2>5. QED
    BY <2>3, <2>4
<1>8. QED
  BY <1>6, <1>7

\* The answer of a write is taken.
LEMMA WriteSteps ==
  ASSUME TypeInv, NEW i \in Calls, calls[i].at = "answered", WriteAnswered(i),
         UNCHANGED <<streamVars, faults, serverVars, pushes>>
  PROVE  TypeInv' /\ (Tame \/ Brings(i))
<1>1. InFlight(i) /\ calls[i] \in CallType /\ Sound(calls[i]) /\ calls[i].op \in Writes
      /\ calls[i].order \in Orders
  BY DEF InFlight, TypeInv, WriteAnswered, Sound
<1>2. UNCHANGED <<kind, table, changes, pushes, loading, downloading>> /\ busy' = None
  BY DEF WriteAnswered, Free, streamVars, serverVars
<1>3. CASE Success(i)
  <2> DEFINE rows == calls[i].rows
             S == {calls[i].order}
             T == calls[i].trust
  <2>1. /\ calls' \in [Calls -> CallType] /\ (\A j \in Calls : Sound(calls'[j]))
        /\ (\A j \in Calls : Kept(j) \/ Fallow(j))
        /\ calls'[i] = Done(i) /\ (\A j \in Calls \ {i} : calls'[j] = calls[j])
    BY <1>1, <1>3, Finishes DEF Success
  <2>2. \A j \in Calls : (calls'[j].trust = {} /\ ~InFlight(j)' /\ calls'[j].op = calls[j].op) \/ calls'[j] = calls[j]
    BY <1>1, <2>1, DoneCall DEF InFlight
  <2>3. Answered(calls[i]) /\ rows \in [Orders -> Row]
    BY <1>1, <1>3 DEF Success, Answered, Sound
  <2>4. S \in SUBSET Orders /\ T \subseteq S /\ T \subseteq Listed /\ view[calls[i].order] # None
    BY <1>1 DEF TypeInv, LoadedInv, Listed
  <2>5. Show(S, rows, T) /\ UNCHANGED <<error, conflict>>
    BY <1>3 DEF Success
  <2>6. Brings(i)
    BY <1>2, <2>1, <2>3, <2>4, <2>5 DEF Brings
  <2> HIDE DEF rows, T
  <2>7. /\ view' \in [Orders -> Row \cup {None}] /\ trusted' \subseteq Orders
        /\ (\A o \in S : view'[o] = rows[o] /\ view'[o] # None)
        /\ (\A o \in Orders \ S : view'[o] = view[o])
    BY <2>3, <2>4, <2>5, Shows
  <2>8. LoadedInv'
    BY <1>1, <1>2, <2>2, <2>4, <2>7, StaysLoaded DEF TypeInv, LoadedInv, NothingLoaded
  <2>9. TypeInv'
    BY <1>2, <2>1, <2>5, <2>7, <2>8 DEF TypeInv
  <2>10. QED
    BY <2>6, <2>9
<1>4. ASSUME UNCHANGED <<view, trusted>>, error' \in BOOLEAN, conflict' \in Orders \cup {None},
             calls' \in [Calls -> CallType], \A j \in Calls : Sound(calls'[j]),
             \A j \in Calls : \/ calls'[j] = calls[j]
                              \/ /\ ~Answered(calls'[j]) /\ calls'[j].trust = {}
                                 /\ calls'[j].op \in Writes => ~InFlight(j)' /\ calls'[j].op = calls[j].op
      PROVE  TypeInv' /\ Tame
  <2>1. \A j \in Calls : Kept(j) \/ Fallow(j)
    BY <1>4 DEF Kept, Fallow
  <2>2. Tame
    BY <1>2, <1>4, <2>1 DEF Tame
  <2>3. \A j \in Calls : calls[j].op \in Writes => calls[j].order \in Orders
    BY DEF TypeInv, Sound
  <2>4. LoadedInv'
    BY <1>2, <1>4, <2>3 DEF TypeInv, LoadedInv, NothingLoaded, InFlight
  <2>5. TypeInv'
    BY <1>2, <1>4, <2>4 DEF TypeInv
  <2>6. QED
    BY <2>2, <2>5
<1>5. CASE Failure(i)
  <2>1. /\ calls' \in [Calls -> CallType] /\ (\A j \in Calls : Sound(calls'[j]))
        /\ calls'[i] = Done(i) /\ (\A j \in Calls \ {i} : calls'[j] = calls[j])
    BY <1>1, <1>5, Finishes DEF Failure
  <2>2. UNCHANGED <<view, trusted>> /\ error' \in BOOLEAN /\ conflict' \in Orders \cup {None}
    BY <1>5 DEF Failure, TypeInv
  <2>3. ~Answered(calls'[i]) /\ calls'[i].trust = {} /\ ~InFlight(i)' /\ calls'[i].op = calls[i].op
    BY <1>1, <2>1, DoneCall DEF InFlight
  <2>4. QED
    BY <1>4, <2>1, <2>2, <2>3
<1>6. CASE Conflict(i)
  <2> DEFINE d == Done(i)
             l == [Fresh EXCEPT !.op = "load", !.at = "sent"]
  <2>1. /\ d \in CallType /\ Sound(d) /\ ~Answered(d) /\ d.op = calls[i].op /\ d.at = "done" /\ d.trust = {}
    BY <1>1, DoneCall
  <2>2. l \in CallType /\ Sound(l) /\ ~Answered(l) /\ l.op = "load" /\ l.trust = {}
    BY DEF Fresh, CallType, Sound, Answered, Writes
  <2>4. PICK j \in Calls : NextUnused(j) /\ calls' = [calls EXCEPT ![i] = d, ![j] = l]
    BY <1>6 DEF Conflict
  <2>5. i # j
    BY <1>1, <2>4 DEF NextUnused, Unused, InFlight
  <2> HIDE DEF d, l
  <2>6. calls \in [Calls -> CallType] /\ \A k \in Calls : Sound(calls[k])
    BY DEF TypeInv
  <2>7. /\ calls' \in [Calls -> CallType] /\ calls'[i] = d /\ calls'[j] = l
        /\ \A k \in Calls \ {i, j} : calls'[k] = calls[k]
    BY <2>1, <2>2, <2>4, <2>5, <2>6
  <2>8. \A k \in Calls : Sound(calls'[k])
    BY <2>1, <2>2, <2>6, <2>7
  <2>9. UNCHANGED <<view, trusted>> /\ error' \in BOOLEAN /\ conflict' \in Orders \cup {None}
    BY <1>1, <1>6 DEF Conflict, TypeInv
  <2>10. ~InFlight(i)' /\ l.op \notin Writes
    BY <2>1, <2>2, <2>7 DEF InFlight, Writes
  <2>11. QED
    BY <1>4, <2>1, <2>2, <2>7, <2>8, <2>9, <2>10
<1>7. QED
  BY <1>3, <1>5, <1>6, <1>4 DEF WriteAnswered

\* The answer of a download is taken.
LEMMA SummarySteps ==
  ASSUME TypeInv, NEW i \in Calls, calls[i].at = "answered", SummaryAnswered(i),
         UNCHANGED <<streamVars, faults, serverVars, pushes>>
  PROVE  TypeInv' /\ Tame
<1>1. InFlight(i)
  BY DEF InFlight
<1>2. /\ calls' \in [Calls -> CallType] /\ (\A j \in Calls : Sound(calls'[j]))
      /\ (\A j \in Calls : Kept(j) \/ Fallow(j))
      /\ calls'[i] = Done(i) /\ (\A j \in Calls \ {i} : calls'[j] = calls[j])
  BY <1>1, Finishes DEF SummaryAnswered
<1>3. \A j \in Calls : (calls'[j].trust = {} /\ ~InFlight(j)' /\ calls'[j].op = calls[j].op) \/ calls'[j] = calls[j]
  BY <1>1, <1>2, DoneCall DEF InFlight
<1>4. UNCHANGED <<kind, table, changes, pushes, view, loading, busy, conflict, trusted>>
      /\ downloading' = None /\ error' \in BOOLEAN
  BY DEF SummaryAnswered, streamVars, serverVars, TypeInv
<1>5. LoadedInv'
  BY <1>3, <1>4, StaysLoaded DEF TypeInv, LoadedInv, NothingLoaded
<1>6. TypeInv'
  BY <1>2, <1>4, <1>5 DEF TypeInv
<1>7. QED
  BY <1>2, <1>4, <1>6 DEF Tame

\* The page is left: it knows nothing any more.
Empties ==
  /\ UNCHANGED table /\ pushes' = {} /\ trusted' = {}
  /\ \A o \in Orders : view'[o] = None
  /\ \A i \in Calls : Fallow(i)

\* A page that is left keeps its types.
LEMMA LeaveSteps == TypeInv /\ Leave => TypeInv' /\ Empties
<1> SUFFICES ASSUME TypeInv, Leave PROVE TypeInv' /\ Empties
  OBVIOUS
<1> DEFINE d == [Fresh EXCEPT !.at = "done"]
<1>1. d \in CallType /\ Sound(d) /\ ~Answered(d) /\ d.trust = {} /\ d.op = "none"
  BY DEF Fresh, CallType, Sound, Answered, Writes
<1>2. calls' = [i \in Calls |-> d]
  BY DEF Leave
<1> HIDE DEF d
<1>3. calls' \in [Calls -> CallType] /\ \A i \in Calls : Sound(calls'[i]) /\ Fallow(i) /\ calls'[i].op = "none"
  BY <1>1, <1>2 DEF Fallow
<1>4. UNCHANGED <<kind, table, changes>> /\ view' = [o \in Orders |-> None] /\ pushes' = {} /\ trusted' = {}
      /\ loading' = FALSE /\ error' = FALSE /\ busy' = None /\ downloading' = None /\ conflict' = None
  BY DEF Leave, Unmount, serverVars
<1>5. LoadedInv'
  BY <1>3, <1>4 DEF LoadedInv, NothingLoaded, Writes
<1>6. TypeInv'
  BY <1>3, <1>4, <1>5 DEF TypeInv
<1>7. QED
  BY <1>3, <1>4, <1>6 DEF Empties

\* What a step can be.
LEMMA StepKinds ==
  TypeInv /\ [Next]_vars =>
    /\ TypeInv'
    /\ \/ Tame \/ Empties
       \/ \E o \in Orders : Commits(o)
       \/ \E i \in Calls : Loads(i) \/ Brings(i)
       \/ \E m \in pushes : Pushed(m)
<1> SUFFICES ASSUME TypeInv, [Next]_vars
             PROVE  /\ TypeInv'
                    /\ \/ Tame \/ Empties
                       \/ \E o \in Orders : Commits(o)
                       \/ \E i \in Calls : Loads(i) \/ Brings(i)
                       \/ \E m \in pushes : Pushed(m)
  OBVIOUS
<1>1. ASSUME UNCHANGED <<kind, pageVars, serverVars, pushes, calls, trusted>> PROVE TypeInv' /\ Tame
  <2>1. Tame
    BY <1>1 DEF Tame, Kept, pageVars, serverVars
  <2>2. TypeInv'
    BY <1>1 DEF TypeInv, LoadedInv, NothingLoaded, InFlight, pageVars, serverVars
  <2>3. QED
    BY <2>1, <2>2
<1>2. CASE Stream
  <2>1. UNCHANGED kind
    BY <1>2 DEF Stream, Quietly, Open, Refused, Closed, Dropped, CloseHandler, Reconnect, Expire
  <2>2. QED
    BY <1>1, <1>2, <2>1 DEF Stream, Quietly
<1>3. CASE Leave
  BY <1>3, LeaveSteps
<1>4. CASE User
  BY <1>4, UserSteps
<1>5. ASSUME NEW o \in Orders, Change(o) PROVE TypeInv' /\ Commits(o)
  BY <1>5, ChangeSteps
<1>6. ASSUME NEW i \in Calls, Serve(i)
      PROVE  TypeInv' /\ (Tame \/ Loads(i) \/ \E o \in Orders : Commits(o))
  BY <1>6, ServeSteps
<1>7. ASSUME NEW i \in Calls, Lose(i) PROVE TypeInv' /\ Tame
  BY <1>7, LoseSteps
<1>8. ASSUME NEW i \in Calls, Settle(i) PROVE TypeInv' /\ (Tame \/ Brings(i))
  BY <1>8, LoadSteps, WriteSteps, SummarySteps DEF Settle
<1>9. ASSUME NEW m \in pushes, Deliver(m) PROVE TypeInv' /\ Pushed(m)
  BY <1>9, DeliverSteps
<1>10. ASSUME NEW m \in pushes, Miss(m) PROVE TypeInv' /\ Tame
  BY <1>10, MissSteps
<1>11. CASE UNCHANGED vars
  BY <1>1, <1>11 DEF vars, streamVars
<1>12. QED
  BY <1>2, <1>3, <1>4, <1>5, <1>6, <1>7, <1>8, <1>9, <1>10, <1>11 DEF Next

\* The first state.
LEMMA TypeInit == Init => TypeInv
<1> SUFFICES ASSUME Init PROVE TypeInv
  OBVIOUS
<1> DEFINE a == [Fresh EXCEPT !.op = "load", !.at = "sent"]
           b == [Fresh EXCEPT !.at = "done"]
<1>1. /\ a \in CallType /\ Sound(a) /\ a.op = "load" /\ a.trust = {}
      /\ b \in CallType /\ Sound(b) /\ b.op = "none" /\ b.trust = {}
  BY DEF Fresh, CallType, Sound, Answered, Writes
<1>2. Fresh \in CallType /\ Sound(Fresh) /\ Fresh.op = "none"
  BY FreshCall
<1>3. calls = [i \in Calls |-> IF i = 1 THEN a ELSE IF i <= MaxCalls[kind] THEN Fresh ELSE b]
  BY DEF Init
<1> HIDE DEF a, b
<1>4. calls \in [Calls -> CallType] /\ \A i \in Calls : Sound(calls[i]) /\ calls[i].op \notin Writes
  BY <1>1, <1>2, <1>3 DEF Writes
<1>5. table \in [Orders -> Row] /\ \A o \in Orders : Legal(table[o])
  BY PagesAssumption DEF Init
<1>6. MaxChanges[kind] \in Nat /\ kind \in Kinds
  BY PagesAssumption DEF Init, StreamInit
<1>7. /\ view = [o \in Orders |-> None] /\ pushes = {} /\ changes = 0 /\ trusted = {}
      /\ loading = TRUE /\ error = FALSE /\ busy = None /\ downloading = None /\ conflict = None
  BY DEF Init
<1>8. view \in [Orders -> Row \cup {None}] /\ LoadedInv
  BY <1>4, <1>7 DEF LoadedInv, NothingLoaded
<1>9. changes \in 0..MaxChanges[kind] /\ pushes \subseteq Pushes /\ trusted \subseteq Orders
  BY <1>6, <1>7
<1>10. \A i \in Calls : Sound(calls[i])
  BY <1>4
<1>11. loading \in BOOLEAN /\ error \in BOOLEAN
  BY <1>7
<1>12. busy \in Orders \cup {None} /\ downloading \in Orders \cup {None} /\ conflict \in Orders \cup {None}
  BY <1>7
<1>13. QED
  BY <1>4, <1>5, <1>6, <1>8, <1>9, <1>10, <1>11, <1>12 DEF TypeInv

----------------------------------------------------------------------------
(* Nothing is ahead of the table.                                          *)

\* The value of a push is one that the row has had.
Behind(m, q) == IF m.field = "status" THEN m.value \in Past[q.status] ELSE Rank[m.value] <= Rank[q.fulfilment]

HistInv ==
  /\ NeverAhead
  /\ \A m \in pushes : Behind(m, table[m.order])
  /\ \A i \in Calls : Answered(calls[i]) => \A o \in Orders : Reached(calls[i].rows[o], table[o])

\* What was behind a row is behind the next one.
LEMMA BehindLater ==
  ASSUME NEW m \in Pushes, NEW q \in Row, NEW r \in Row, Behind(m, q), Reached(q, r)
  PROVE  Behind(m, r)
<1>1. /\ q.status \in OrderStatus /\ r.status \in OrderStatus
      /\ q.fulfilment \in FulfilmentStatus /\ r.fulfilment \in FulfilmentStatus
  BY DEF Row
<1>2. CASE m.field = "status"
  BY <1>1, <1>2 DEF Behind, Reached, Past, OrderStatus
<1>3. CASE m.field # "status"
  <2>1. m.value \in FulfilmentStatus
    BY <1>3 DEF Pushes, Push
  <2>2. Rank[m.value] \in Nat /\ Rank[q.fulfilment] \in Nat /\ Rank[r.fulfilment] \in Nat
    BY <1>1, <2>1 DEF Rank, FulfilmentStatus
  <2>3. QED
    BY <1>3, <2>2 DEF Behind, Reached
<1>4. QED
  BY <1>2, <1>3

\* A push of what a row holds is not ahead of it.
LEMMA BehindItself ==
  ASSUME NEW o \in Orders, NEW r \in Row, NEW m \in PushesOf(o, r)
  PROVE  m.order = o /\ Behind(m, r)
<1>1. r.status \in OrderStatus /\ r.fulfilment \in FulfilmentStatus
  BY DEF Row
<1>2. r.status \in Past[r.status] /\ Rank[r.fulfilment] <= Rank[r.fulfilment]
  BY <1>1 DEF Past, Rank, OrderStatus, FulfilmentStatus
<1>3. QED
  BY <1>2 DEF PushesOf, Push, Behind

\* A row that takes a push is no more ahead than both.
LEMMA UpdatedBehind ==
  ASSUME NEW m \in Pushes, NEW r \in Row, NEW q \in Row, Reached(r, q), Behind(m, q)
  PROVE  Reached(Updated(r, m), q)
<1>1. \/ m.field = "status" /\ m.value \in OrderStatus
      \/ m.field = "fulfilment" /\ m.value \in FulfilmentStatus
  BY DEF Pushes, Push
<1>2. CASE m.field = "status"
  <2>1. Updated(r, m).status = m.value /\ Updated(r, m).fulfilment = r.fulfilment
    BY <1>2 DEF Updated, Row
  <2>2. QED
    BY <1>2, <2>1 DEF Reached, Behind
<1>3. CASE m.field = "fulfilment"
  <2>1. Updated(r, m).status = r.status /\ Updated(r, m).fulfilment = m.value
    BY <1>3 DEF Updated, Row
  <2>2. QED
    BY <1>3, <2>1 DEF Reached, Behind
<1>4. QED
  BY <1>1, <1>2, <1>3

\* A request that stays as it is brings what it brought.
LEMMA KeptAnswers ==
  ASSUME NEW i \in Calls, Kept(i)
  PROVE  (Answered(calls'[i]) <=> Answered(calls[i])) /\ calls'[i].rows = calls[i].rows
BY DEF Kept, Answered

\* A step that shows, brings and commits nothing keeps everything behind the table.
LEMMA HistTame == TypeInv /\ HistInv /\ Tame => HistInv'
<1> SUFFICES ASSUME TypeInv, HistInv, Tame PROVE HistInv'
  OBVIOUS
<1>1. \A i \in Calls : Answered(calls'[i]) => Answered(calls[i]) /\ calls'[i].rows = calls[i].rows
  BY KeptAnswers DEF Tame, Fallow
<1>2. UNCHANGED <<table, view>> /\ pushes' \subseteq pushes
  BY DEF Tame
<1>3. QED
  BY <1>1, <1>2 DEF HistInv, NeverAhead

\* A commit moves the table ahead, and its own pushes and answer no further.
LEMMA HistCommits == ASSUME TypeInv, TypeInv', HistInv, NEW o \in Orders, Commits(o) PROVE HistInv'
<1>1. PICK r \in Successors(table[o]) : /\ Commit(o, r)
       /\ \A i \in Calls : \/ Kept(i)
                           \/ /\ calls'[i].rows \in [Orders -> Row]
                              /\ \A q \in Orders \ {o} : calls'[i].rows[q] = table[q]
                              /\ Reached(calls'[i].rows[o], r)
  BY DEF Commits
<1>2. table[o] \in Row /\ Legal(table[o]) /\ view' = view
  BY DEF TypeInv, Commits
<1>3. r \in Row /\ Legal(r) /\ Reached(table[o], r)
  BY <1>1, <1>2, SuccessorsLater
<1>4. /\ table' \in [Orders -> Row] /\ table'[o] = r /\ (\A q \in Orders \ {o} : table'[q] = table[q])
      /\ pushes' \subseteq pushes \cup PushesOf(o, r)
  BY <1>1, <1>3, Committed DEF Commit
<1>5. \A q \in Orders : table[q] \in Row /\ table'[q] \in Row /\ Reached(table[q], table'[q])
  BY <1>3, <1>4, ReachedOrder DEF TypeInv
<1>6. ASSUME NEW q \in Orders, NEW s \in Row, Reached(s, table[q]) PROVE Reached(s, table'[q])
  BY <1>5, <1>6, ReachedOrder
<1>7. NeverAhead'
  <2> SUFFICES ASSUME NEW q \in Orders, view[q] # None PROVE Reached(view[q], table'[q])
    BY <1>2 DEF NeverAhead
  <2>1. view[q] \in Row /\ Reached(view[q], table[q])
    BY DEF TypeInv, HistInv, NeverAhead
  <2>2. QED
    BY <1>6, <2>1
<1>8. ASSUME NEW m \in pushes' PROVE Behind(m, table'[m.order])
  <2>1. CASE m \in pushes
    <3>1. m \in Pushes /\ m.order \in Orders /\ Behind(m, table[m.order])
      BY <2>1 DEF TypeInv, HistInv, Pushes, Push
    <3>2. QED
      BY <1>5, <3>1, BehindLater
  <2>2. CASE m \in PushesOf(o, r)
    BY <1>3, <1>4, <2>2, BehindItself
  <2>3. QED
    BY <1>4, <1>8, <2>1, <2>2
<1>9. ASSUME NEW i \in Calls, Answered(calls'[i]), NEW q \in Orders PROVE Reached(calls'[i].rows[q], table'[q])
  <2>1. CASE Kept(i)
    <3>1. Answered(calls[i]) /\ calls'[i].rows = calls[i].rows /\ Sound(calls[i])
      BY <1>9, <2>1, KeptAnswers DEF TypeInv
    <3>2. calls[i].rows[q] \in Row /\ Reached(calls[i].rows[q], table[q])
      BY <3>1 DEF Sound, HistInv
    <3>3. QED
      BY <1>6, <3>1, <3>2
  <2>2. CASE /\ calls'[i].rows \in [Orders -> Row]
             /\ \A p \in Orders \ {o} : calls'[i].rows[p] = table[p]
             /\ Reached(calls'[i].rows[o], r)
    BY <1>4, <1>5, <2>2
  <2>3. QED
    BY <1>1, <2>1, <2>2
<1>10. QED
  BY <1>7, <1>8, <1>9 DEF HistInv

\* The answer to a load is the table.
LEMMA HistLoads == ASSUME TypeInv, TypeInv', HistInv, NEW i \in Calls, Loads(i) PROVE HistInv'
<1>1. \A o \in Orders : Reached(table[o], table[o])
  BY ReachedOrder DEF TypeInv
<1>2. QED
  BY <1>1 DEF Loads, HistInv, NeverAhead

\* A push of a committed value shows a committed value.
LEMMA HistPushed == ASSUME TypeInv, TypeInv', HistInv, NEW m \in pushes, Pushed(m) PROVE HistInv'
<1>1. m \in Pushes /\ m.order \in Orders /\ Behind(m, table[m.order])
  BY DEF TypeInv, HistInv, Pushes, Push
<1>2. UNCHANGED table /\ pushes' \subseteq pushes
  BY DEF Pushed
<1>3. \A i \in Calls : Answered(calls'[i]) => Answered(calls[i]) /\ calls'[i].rows = calls[i].rows
  BY KeptAnswers DEF Pushed
<1>4. NeverAhead'
  <2>1. CASE UNCHANGED view
    BY <1>2, <2>1 DEF HistInv, NeverAhead
  <2>2. CASE view[m.order] # None /\ UpdateRow(m)
    <3>1. /\ view[m.order] \in Row /\ view'[m.order] = Updated(view[m.order], m)
          /\ \A o \in Orders \ {m.order} : view'[o] = view[o]
      BY <1>1, <2>2, Updates
    <3>2. Reached(view[m.order], table[m.order]) /\ table[m.order] \in Row
      BY <1>1, <2>2 DEF HistInv, NeverAhead, TypeInv
    <3>3. Reached(view'[m.order], table[m.order])
      BY <1>1, <3>1, <3>2, UpdatedBehind
    <3>4. QED
      BY <1>2, <3>1, <3>3 DEF HistInv, NeverAhead
  <2>3. QED
    BY <2>1, <2>2 DEF Pushed
<1>5. QED
  BY <1>2, <1>3, <1>4 DEF HistInv

\* An answer that is shown was behind the table already.
LEMMA HistBrings == ASSUME TypeInv, TypeInv', HistInv, NEW i \in Calls, Brings(i) PROVE HistInv'
<1>1. UNCHANGED <<table, pushes>>
  BY DEF Brings
<1>2. \A j \in Calls : Answered(calls'[j]) => Answered(calls[j]) /\ calls'[j].rows = calls[j].rows
  BY KeptAnswers DEF Brings, Fallow
<1>3. PICK S \in SUBSET Orders : \E T \in SUBSET Orders : Show(S, calls[i].rows, T)
  BY DEF Brings
<1>4. \A o \in Orders : IF o \in S THEN view'[o] = calls[i].rows[o] ELSE view'[o] = view[o]
  BY <1>3 DEF Show
<1>5. NeverAhead'
  BY <1>1, <1>4 DEF Brings, HistInv, NeverAhead
<1>6. QED
  BY <1>1, <1>2, <1>5 DEF HistInv

\* Every step keeps the rows that are shown, pushed or on their way behind the table.
LEMMA HistStep == TypeInv /\ HistInv /\ [Next]_vars => HistInv'
<1> SUFFICES ASSUME TypeInv, HistInv, [Next]_vars PROVE HistInv'
  OBVIOUS
<1>1. TypeInv'
  BY StepKinds
<1>2. CASE Empties
  BY <1>2 DEF Empties, Fallow, HistInv, NeverAhead
<1>3. QED
  BY <1>1, <1>2, StepKinds, HistTame, HistCommits, HistLoads, HistPushed, HistBrings

----------------------------------------------------------------------------
(* What is trusted is current, or a push is on its way that makes it so.   *)

\* Row r of order o is q, or will be with the pushes ps.
Tracks(r, o, q, ps) ==
  /\ r.status = q.status \/ Push(o, "status", q.status) \in ps
  /\ r.fulfilment = q.fulfilment \/ Push(o, "fulfilment", q.fulfilment) \in ps

TrustInv ==
  /\ trusted \subseteq Listed
  /\ \A o \in trusted : view[o] # None /\ Tracks(view[o], o, table[o], pushes)
  /\ \A i \in Calls : \A o \in calls[i].trust : Tracks(calls[i].rows[o], o, table[o], pushes)

\* A push is of the order, field and value it was made from.
LEMMA PushFields == ASSUME NEW o \in Orders, NEW f \in Fields, NEW v
                    PROVE  Push(o, f, v).order = o /\ Push(o, f, v).field = f /\ Push(o, f, v).value = v
BY DEF Push

\* A row that is no older than one that tracks the table tracks it too.
LEMMA NotOlderTracks ==
  ASSUME NEW o \in Orders, NEW a \in Row, NEW b \in Row, NEW q \in Row, NEW ps \in SUBSET Pushes,
         Reached(a, q), Reached(b, q), ~Older(a, b), Tracks(b, o, q, ps)
  PROVE  Tracks(a, o, q, ps)
<1>1. /\ a.status \in OrderStatus /\ b.status \in OrderStatus /\ q.status \in OrderStatus
      /\ a.fulfilment \in FulfilmentStatus /\ b.fulfilment \in FulfilmentStatus /\ q.fulfilment \in FulfilmentStatus
  BY DEF Row
<1>2. a.status \in Past[q.status] /\ ~(StatusRank[a.status] < StatusRank[b.status])
      /\ Rank[a.fulfilment] <= Rank[q.fulfilment] /\ ~(Rank[a.fulfilment] < Rank[b.fulfilment])
  BY DEF Reached, Older
<1>3. b.status = q.status => a.status = q.status
  BY <1>1, <1>2 DEF Past, StatusRank, OrderStatus
<1>4. b.fulfilment = q.fulfilment => a.fulfilment = q.fulfilment
  BY <1>1, <1>2 DEF Rank, FulfilmentStatus
<1>5. QED
  BY <1>3, <1>4 DEF Tracks

\* Only pushes of the same order matter.
LEMMA OtherPushes ==
  ASSUME NEW o \in Orders, NEW r, NEW q, NEW ps \in SUBSET Pushes, NEW qs \in SUBSET Pushes,
         \A m \in ps \ qs : m.order # o, Tracks(r, o, q, ps)
  PROVE  Tracks(r, o, q, qs)
BY PushFields DEF Tracks, Fields

\* A commit that is pushed is on its way.
LEMMA CommitTracks ==
  ASSUME TypeInv, NEW o \in Orders, NEW r \in Row, NEW a, Reaches(o), Commit(o, r),
         Tracks(a, o, table[o], pushes)
  PROVE  Tracks(a, o, r, pushes')
<1>1. pushes' = pushes \cup PushesOf(o, r)
  BY DEF Commit
<1>2. Push(o, "status", r.status) \in pushes'
  BY <1>1 DEF PushesOf
<1>3. r.fulfilment # table[o].fulfilment => Push(o, "fulfilment", r.fulfilment) \in pushes'
  BY <1>1 DEF PushesOf
<1>4. QED
  BY <1>1, <1>2, <1>3 DEF Tracks

\* The table's own row tracks it.
LEMMA ItselfTracks == ASSUME NEW o, NEW q, NEW ps PROVE Tracks(q, o, q, ps)
BY DEF Tracks

\* Where a push is lost its order is no longer trusted.
LEMMA TrustTame == ASSUME TypeInv, TypeInv', TrustInv, UNCHANGED kind, Tame PROVE TrustInv'
<1>1. trusted \subseteq Orders /\ pushes \in SUBSET Pushes /\ pushes' \in SUBSET Pushes /\ trusted' \subseteq trusted
      /\ UNCHANGED <<table, view>>
  BY DEF TypeInv, Tame
<1>2. ASSUME NEW o \in trusted' PROVE view'[o] # None /\ Tracks(view'[o], o, table'[o], pushes')
  <2>1. \A m \in pushes \ pushes' : m.order # o
    BY <1>2 DEF Tame
  <2>2. view[o] # None /\ Tracks(view[o], o, table[o], pushes)
    BY <1>1, <1>2 DEF TrustInv
  <2>3. QED
    BY <1>1, <1>2, <2>1, <2>2, OtherPushes
<1>3. ASSUME NEW i \in Calls, NEW o \in calls'[i].trust PROVE Tracks(calls'[i].rows[o], o, table'[o], pushes')
  <2>1. \A m \in pushes \ pushes' : m.order # o
    BY <1>3 DEF Tame
  <2>2. o \in calls[i].trust /\ calls'[i].rows = calls[i].rows
    BY <1>3 DEF Tame, Kept, Fallow
  <2>3. o \in Orders /\ Tracks(calls[i].rows[o], o, table[o], pushes)
    BY <2>2 DEF TrustInv, TypeInv, CallType
  <2>4. QED
    BY <1>1, <2>1, <2>2, <2>3, OtherPushes
<1>4. QED
  BY <1>1, <1>2, <1>3 DEF TrustInv, Listed

\* A commit is pushed, or its order is no longer trusted.
LEMMA TrustCommits ==
  ASSUME TypeInv, TypeInv', TrustInv, UNCHANGED kind, NEW o \in Orders, Commits(o) PROVE TrustInv'
<1>1. PICK r \in Successors(table[o]) : /\ Commit(o, r)
       /\ \A i \in Calls : \/ Kept(i) /\ (~Reaches(o) => o \notin calls'[i].trust)
                           \/ /\ calls'[i].trust \subseteq {o}
                              /\ calls'[i].trust # {} => ~Reaches(o) /\ calls'[i].rows[o] = r
  BY DEF Commits
<1>2. /\ table[o] \in Row /\ Legal(table[o]) /\ view' = view /\ trusted' \subseteq trusted
      /\ (~Reaches(o) => o \notin trusted') /\ trusted \subseteq Orders
  BY DEF TypeInv, Commits
<1>3. r \in Row /\ Legal(r)
  BY <1>1, <1>2, SuccessorsLater
<1>4. /\ table'[o] = r /\ (\A q \in Orders \ {o} : table'[q] = table[q]) /\ pushes \subseteq pushes'
  BY <1>1, <1>3, Committed DEF Commit
<1>5. ASSUME NEW q \in Orders, NEW a, Tracks(a, q, table[q], pushes), q # o \/ Reaches(o)
      PROVE  Tracks(a, q, table'[q], pushes')
  <2>1. CASE q = o
    BY <1>1, <1>3, <1>4, <1>5, <2>1, CommitTracks
  <2>2. CASE q # o
    BY <1>4, <1>5, <2>2 DEF Tracks
  <2>3. QED
    BY <2>1, <2>2
<1>6. ASSUME NEW q \in trusted' PROVE view'[q] # None /\ Tracks(view'[q], q, table'[q], pushes')
  <2>1. q \in Orders /\ view[q] # None /\ Tracks(view[q], q, table[q], pushes) /\ (q # o \/ Reaches(o))
    BY <1>2, <1>6 DEF TrustInv
  <2>2. QED
    BY <1>2, <1>5, <2>1
<1>7. ASSUME NEW i \in Calls, NEW q \in calls'[i].trust PROVE Tracks(calls'[i].rows[q], q, table'[q], pushes')
  <2>1. CASE Kept(i) /\ (~Reaches(o) => o \notin calls'[i].trust)
    <3>1. q \in calls[i].trust /\ calls'[i].rows = calls[i].rows /\ (q # o \/ Reaches(o))
      BY <1>7, <2>1 DEF Kept
    <3>2. q \in Orders /\ Tracks(calls[i].rows[q], q, table[q], pushes)
      BY <3>1 DEF TrustInv, TypeInv, CallType
    <3>3. QED
      BY <1>5, <3>1, <3>2
  <2>2. CASE calls'[i].trust \subseteq {o} /\ (calls'[i].trust # {} => ~Reaches(o) /\ calls'[i].rows[o] = r)
    BY <1>4, <1>7, <2>2, ItselfTracks
  <2>3. QED
    BY <1>1, <2>1, <2>2
<1>8. QED
  BY <1>2, <1>6, <1>7 DEF TrustInv, Listed

\* The answer to a load is trusted for every order.
LEMMA TrustLoads ==
  ASSUME TypeInv, TypeInv', TrustInv, UNCHANGED kind, NEW i \in Calls, Loads(i) PROVE TrustInv'
<1>1. UNCHANGED <<table, pushes, view, trusted>> /\ calls'[i].rows = table
      /\ \A j \in Calls \ {i} : calls'[j] = calls[j]
  BY DEF Loads
<1>2. \A o \in calls'[i].trust : Tracks(calls'[i].rows[o], o, table'[o], pushes')
  BY <1>1, ItselfTracks
<1>3. QED
  BY <1>1, <1>2 DEF TrustInv, Listed

\* A push that is taken makes its order current, leaves it to a later push, or ends its trust.
LEMMA TrustPushed ==
  ASSUME TypeInv, TypeInv', HistInv, HistInv', TrustInv, UNCHANGED kind, NEW m \in pushes, Pushed(m)
  PROVE  TrustInv'
<1> DEFINE p == m.order
<1>1. m \in Pushes /\ p \in Orders /\ UNCHANGED table /\ pushes \ {m} \subseteq pushes' /\ pushes' \subseteq pushes
      /\ pushes \in SUBSET Pushes /\ pushes' \in SUBSET Pushes
      /\ trusted \subseteq Orders
  BY DEF TypeInv, Pushes, Push, Pushed
<1>2. ASSUME NEW i \in Calls, NEW o \in calls'[i].trust PROVE Tracks(calls'[i].rows[o], o, table'[o], pushes')
  <2>1. o \in calls[i].trust /\ calls'[i].rows = calls[i].rows /\ o # p
    BY <1>2 DEF Pushed, Kept
  <2>2. o \in Orders /\ Tracks(calls[i].rows[o], o, table[o], pushes)
    BY <2>1 DEF TrustInv, TypeInv, CallType
  <2>3. \A n \in pushes \ pushes' : n.order # o
    BY <1>1, <2>1
  <2>4. QED
    BY <1>1, <2>1, <2>2, <2>3, OtherPushes
<1>3. ASSUME NEW o \in trusted, o # p, view'[o] = view[o]
      PROVE  view'[o] # None /\ Tracks(view'[o], o, table'[o], pushes')
  <2>1. \A n \in pushes \ pushes' : n.order # o
    BY <1>1, <1>3
  <2>2. QED
    BY <1>1, <1>3, <2>1, OtherPushes DEF TrustInv
<1>4. CASE UNCHANGED <<view, trusted>> /\ (p \in Listed => view[p] = None)
  <2>1. p \notin trusted
    BY <1>4 DEF TrustInv
  <2>2. QED
    BY <1>2, <1>3, <1>4, <2>1 DEF TrustInv, Listed
<1>5. CASE view[p] # None /\ UpdateRow(m)
  <2>1. /\ view[p] \in Row /\ view'[p] = Updated(view[p], m) /\ view'[p] \in Row
        /\ \A o \in Orders \ {p} : view'[o] = view[o]
    BY <1>1, <1>5, Updates
  <2>2. trusted' \subseteq trusted /\ (p \in trusted' => ~Older(view'[p], view[p]))
    BY <1>5, <2>1 DEF UpdateRow
  <2>3. ASSUME p \in trusted' PROVE Tracks(view'[p], p, table[p], pushes')
    <3>1. table[p] \in Row /\ Reached(view[p], table[p]) /\ Reached(view'[p], table[p])
      BY <1>1, <1>5, <2>1, Nothing DEF TypeInv, HistInv, NeverAhead
    <3>2. Tracks(view[p], p, table[p], pushes) /\ ~Older(view'[p], view[p])
      BY <2>2, <2>3 DEF TrustInv
    <3>3. Tracks(view'[p], p, table[p], pushes)
      BY <1>1, <2>1, <3>1, <3>2, NotOlderTracks
    <3>4. m.field = "status" => view'[p].status = m.value
      BY <2>1 DEF Updated, Row
    <3>5. m.field = "fulfilment" => view'[p].fulfilment = m.value
      BY <2>1 DEF Updated, Row
    <3>6. \A f \in Fields : \A v : Push(p, f, v) = m => m.field = f /\ m.value = v
      BY DEF Push
    <3>7. QED
      BY <1>1, <3>3, <3>4, <3>5, <3>6 DEF Tracks, Fields
  <2>4. \A o \in trusted' : view'[o] # None /\ Tracks(view'[o], o, table'[o], pushes')
    BY <1>1, <1>3, <2>1, <2>2, <2>3, Nothing
  <2>5. QED
    BY <1>2, <2>2, <2>4 DEF TrustInv, Listed
<1>6. QED
  BY <1>4, <1>5 DEF Pushed

\* An answer that is shown is current, tracked by pushes, or ends the trust.
LEMMA TrustBrings ==
  ASSUME TypeInv, TypeInv', HistInv, TrustInv, UNCHANGED kind, NEW i \in Calls, Brings(i) PROVE TrustInv'
<1>1. UNCHANGED <<table, pushes>> /\ Answered(calls[i]) /\ calls[i].rows \in [Orders -> Row]
      /\ pushes \in SUBSET Pushes /\ trusted \subseteq Orders
  BY DEF Brings, TypeInv, Sound
<1>2. \A j \in Calls : \A o \in calls'[j].trust : Tracks(calls'[j].rows[o], o, table'[o], pushes')
  BY <1>1 DEF Brings, Kept, Fallow, TrustInv
<1>3. PICK S \in SUBSET Orders : \E T \in SUBSET Orders :
        Show(S, calls[i].rows, T) /\ T \subseteq S \cap calls[i].trust /\ T \subseteq Listed
  BY DEF Brings
<1>4. PICK T \in SUBSET Orders :
        Show(S, calls[i].rows, T) /\ T \subseteq S \cap calls[i].trust /\ T \subseteq Listed
  BY <1>3
<1>5. /\ \A o \in S : view'[o] = calls[i].rows[o] /\ view'[o] # None
      /\ \A o \in Orders \ S : view'[o] = view[o]
  BY <1>1, <1>4, Shows
<1>6. trusted' = (trusted \cup T) \ {o \in S : view[o] # None /\ Older(calls[i].rows[o], view[o])}
  BY <1>4 DEF Show
<1>7. ASSUME NEW o \in trusted' PROVE view'[o] # None /\ Tracks(view'[o], o, table'[o], pushes')
  <2>1. CASE o \notin S
    <3>1. o \in trusted
      BY <1>4, <1>6, <1>7, <2>1
    <3>2. QED
      BY <1>1, <1>5, <2>1, <3>1 DEF TrustInv
  <2>2. CASE o \in T
    BY <1>1, <1>4, <1>5, <2>2 DEF TrustInv
  <2>3. CASE o \in S /\ o \notin T
    <3>1. o \in trusted /\ view[o] # None /\ ~Older(calls[i].rows[o], view[o]) /\ o \in Orders
      BY <1>1, <1>6, <1>7, <2>3 DEF TrustInv
    <3>2. /\ view[o] \in Row /\ Tracks(view[o], o, table[o], pushes) /\ table[o] \in Row
          /\ Reached(view[o], table[o]) /\ Reached(calls[i].rows[o], table[o])
      BY <1>1, <3>1 DEF TrustInv, TypeInv, HistInv, NeverAhead
    <3>3. Tracks(calls[i].rows[o], o, table[o], pushes)
      BY <1>1, <3>1, <3>2, NotOlderTracks
    <3>4. QED
      BY <1>1, <1>5, <2>3, <3>3
  <2>4. QED
    BY <2>1, <2>2, <2>3
<1>8. QED
  BY <1>2, <1>4, <1>6, <1>7 DEF TrustInv, Listed

\* The page never changes its kind.
LEMMA SameKind == [Next]_vars => UNCHANGED kind
BY DEF Next, vars, streamVars, Stream, Quietly, Open, Refused, Closed, Dropped, CloseHandler, Reconnect,
  Expire, Leave, Unmount, User, Refresh, Dismiss, CancelSubject, RequestCancellation, ProgressOrder,
  DownloadSubject, DownloadSelected, Click, Change, Serve, Lose, Settle, Deliver, Miss

\* Every step keeps what is trusted current, or its push on the way.
LEMMA TrustStep == TypeInv /\ HistInv /\ TrustInv /\ [Next]_vars => TrustInv'
<1> SUFFICES ASSUME TypeInv, HistInv, TrustInv, [Next]_vars PROVE TrustInv'
  OBVIOUS
<1>1. TypeInv' /\ HistInv' /\ UNCHANGED kind
  BY StepKinds, HistStep, SameKind
<1>2. CASE Empties
  BY <1>2 DEF Empties, Fallow, TrustInv
<1>3. QED
  BY <1>1, <1>2, StepKinds, TrustTame, TrustCommits, TrustLoads, TrustPushed, TrustBrings

----------------------------------------------------------------------------
(* Buttons and the requests behind them.                                   *)

\* What the buttons see of a request stays as it was.
Same(i) == /\ calls'[i].op = calls[i].op /\ calls'[i].order = calls[i].order
           /\ InFlight(i)' <=> InFlight(i)
           /\ calls'[i].at = "unused" <=> calls[i].at = "unused"

Untouched == UNCHANGED <<busy, downloading>> /\ \A i \in Calls : Same(i)

\* Request i is made, for order o.
Made(i, op, o) ==
  /\ NextUnused(i) /\ (\A j \in Calls \ {i} : Same(j))
  /\ calls'[i].op = op /\ calls'[i].order = o /\ calls'[i].at = "sent"
  /\ op \in Writes => busy # o /\ busy' = o /\ UNCHANGED downloading
  /\ op = "summary" => downloading' = o /\ UNCHANGED busy
  /\ op = "load" => UNCHANGED <<busy, downloading>>

\* Request i is over; a reload may follow it.
Over(i) ==
  /\ InFlight(i) /\ ~InFlight(i)' /\ calls'[i].op = calls[i].op /\ calls'[i].order = calls[i].order
  /\ calls'[i].at # "unused"
  /\ \A j \in Calls \ {i} : Same(j) \/ (NextUnused(j) /\ calls'[j].op = "load" /\ calls'[j].at = "sent")
  /\ busy' = IF calls[i].op \in Writes THEN None ELSE busy
  /\ downloading' = IF calls[i].op = "summary" THEN None ELSE downloading

\* Nobody waits for anything any more.
Quit == busy' = None /\ downloading' = None /\ \A i \in Calls : calls'[i].op = "none" /\ calls'[i].at = "done"

\* A request that does not change looks the same to the buttons.
LEMMA SameCall == ASSUME NEW i \in Calls, calls'[i] = calls[i] PROVE Same(i)
BY DEF Same, InFlight

\* Send makes the next request.
LEMMA MadeSends ==
  ASSUME TypeInv, NEW op \in {"load", "summary"} \cup Writes, NEW o \in Orders \cup {None},
         NEW to \in FulfilmentStatus \cup {None}, op \in Writes \cup {"summary"} => o \in Orders,
         Send(op, o, to),
         op \in Writes => busy # o /\ busy' = o /\ UNCHANGED downloading,
         op = "summary" => downloading' = o /\ UNCHANGED busy,
         op = "load" => UNCHANGED <<busy, downloading>>
  PROVE  \E i \in Calls : Made(i, op, o)
<1> DEFINE d == Sent(op, o, to)
<1>1. d \in CallType /\ Sound(d) /\ d.op = op /\ d.order = o /\ d.at = "sent"
  BY SentCall
<1>2. PICK i \in Calls : NextUnused(i) /\ calls' = [calls EXCEPT ![i] = d]
  BY DEF Send, Sent
<1> HIDE DEF d
<1>3. calls'[i] = d /\ \A j \in Calls \ {i} : calls'[j] = calls[j]
  BY <1>1, <1>2, SetCall
<1>4. Made(i, op, o)
  BY <1>1, <1>2, <1>3, SameCall DEF Made
<1>5. QED
  BY <1>4

\* Every click but Dismiss makes one request, and never for the order in the slot.
LEMMA UserMakes ==
  TypeInv /\ User => Untouched \/ \E i \in Calls :
    Made(i, "load", None) \/ \E o \in Orders : \E op \in Writes \cup {"summary"} : Made(i, op, o)
<1> SUFFICES ASSUME TypeInv, User
             PROVE  Untouched \/ \E i \in Calls :
                      Made(i, "load", None) \/ \E o \in Orders : \E op \in Writes \cup {"summary"} : Made(i, op, o)
  OBVIOUS
<1> USE DEF Writes
<1>1. CASE Refresh
  <2>1. Send("load", None, None) /\ UNCHANGED <<busy, downloading>>
    BY <1>1 DEF Refresh, pageVars
  <2>2. QED
    BY <2>1, MadeSends
<1>2. CASE Dismiss
  BY <1>2 DEF Dismiss, Untouched, Same, InFlight
<1>3. CASE CancelSubject
  <2>1. Send("cancel", Subject, None) /\ busy' = Subject /\ busy # Subject /\ UNCHANGED downloading
    BY <1>3, Nothing DEF CancelSubject, Click
  <2>2. QED
    BY <2>1, MadeSends, Nothing
<1>4. CASE DownloadSubject
  <2>1. Send("summary", Subject, None) /\ downloading' = Subject /\ UNCHANGED busy
    BY <1>4 DEF DownloadSubject, Click
  <2>2. QED
    BY <2>1, MadeSends, Nothing
<1>5. ASSUME NEW o \in Orders, RequestCancellation(o) PROVE \E i \in Calls : Made(i, "cancel", o)
  <2>1. Send("cancel", o, None) /\ busy' = o /\ busy # o /\ UNCHANGED downloading
    BY <1>5 DEF RequestCancellation, Click
  <2>2. QED
    BY <2>1, MadeSends
<1>6. ASSUME NEW o \in Orders, ProgressOrder(o) PROVE \E i \in Calls : Made(i, "progress", o)
  <2> DEFINE to == NEXT_STATUS[view[o].fulfilment]
  <2>1. Send("progress", o, to) /\ busy' = o /\ busy # o /\ UNCHANGED downloading
    BY <1>6 DEF ProgressOrder, Click
  <2>2. to \in FulfilmentStatus
    BY <1>6 DEF ProgressOrder, CanProgress, NEXT_STATUS, FulfilmentStatus
  <2> HIDE DEF to
  <2>3. QED
    BY <2>1, <2>2, MadeSends
<1>7. ASSUME NEW o \in Orders, DownloadSelected(o) PROVE \E i \in Calls : Made(i, "summary", o)
  <2>1. Send("summary", o, None) /\ downloading' = o /\ UNCHANGED busy
    BY <1>7 DEF DownloadSelected, Click
  <2>2. QED
    BY <2>1, MadeSends
<1>8. QED
  BY <1>1, <1>2, <1>3, <1>4, <1>5, <1>6, <1>7 DEF User

\* The order service's side of a request does not touch the buttons.
LEMMA ServeUntouched == ASSUME TypeInv, NEW i \in Calls, Serve(i) \/ Lose(i) PROVE Untouched
<1>1. calls \in [Calls -> CallType] /\ InFlight(i) /\ calls[i].at # "unused" /\ UNCHANGED <<busy, downloading>>
  BY DEF TypeInv, InFlight, Serve, Lose, pageVars
<1>2. ASSUME NEW a, NEW rows, NEW trust, calls' = [calls EXCEPT ![i] = Answer(@, a, rows, trust)]
      PROVE  Untouched
  <2> DEFINE d == Answer(calls[i], a, rows, trust)
  <2>1. d.op = calls[i].op /\ d.order = calls[i].order /\ d.at = "answered"
    BY <1>1 DEF Answer, CallType
  <2>2. calls' = [calls EXCEPT ![i] = d]
    BY <1>2
  <2> HIDE DEF d
  <2>3. calls'[i] = d /\ \A j \in Calls \ {i} : calls'[j] = calls[j]
    BY <1>1, <2>2
  <2>4. Same(i)
    BY <1>1, <2>1, <2>3 DEF Same, InFlight
  <2>5. QED
    BY <1>1, <2>3, <2>4, SameCall DEF Untouched
<1>3. ASSUME NEW a, NEW rows, NEW trust, Reply(i, a, rows, trust) PROVE Untouched
  BY <1>2, <1>3 DEF Reply
<1>4. ASSUME NEW r, NEW seen, ReplyCommitted(i, r, seen) PROVE Untouched
  <2> DEFINE o == calls[i].order
             tracked == IF Reaches(o) THEN {} ELSE trusted \cap {o}
             d == Answer(calls[i], "ok", [table EXCEPT ![o] = seen], tracked)
  <2>1. d.op = calls[i].op /\ d.order = calls[i].order /\ d.at = "answered"
    BY <1>1 DEF Answer, CallType
  <2>2. calls' = [j \in Calls |-> IF j = i THEN d
                                  ELSE [calls[j] EXCEPT !.trust = IF Reaches(o) THEN @ ELSE @ \ {o}]]
    BY <1>4 DEF ReplyCommitted
  <2> HIDE DEF d
  <2>3. Same(i)
    BY <1>1, <2>1, <2>2 DEF Same, InFlight
  <2>4. ASSUME NEW j \in Calls \ {i} PROVE Same(j)
    <3>1. calls[j] \in CallType /\ calls'[j] = [calls[j] EXCEPT !.trust = IF Reaches(o) THEN @ ELSE @ \ {o}]
      BY <1>1, <2>2
    <3>2. calls'[j].op = calls[j].op /\ calls'[j].order = calls[j].order /\ calls'[j].at = calls[j].at
      BY <3>1 DEF CallType
    <3>3. QED
      BY <3>2 DEF Same, InFlight
  <2>5. QED
    BY <1>1, <2>3, <2>4 DEF Untouched
<1>5. CASE Lose(i)
  BY <1>2, <1>5 DEF Lose
<1>6. CASE Serve(i)
  BY <1>3, <1>4, <1>6 DEF Serve
<1>7. QED
  BY <1>5, <1>6

\* Taking an answer ends its request and frees the slot it used.
LEMMA SettleOver == ASSUME TypeInv, NEW i \in Calls, Settle(i) PROVE Over(i)
<1>1. InFlight(i) /\ calls[i].at = "answered" /\ calls \in [Calls -> CallType]
  BY DEF Settle, InFlight, TypeInv
<1> DEFINE d == Done(i)
<1>2. d.op = calls[i].op /\ d.order = calls[i].order /\ d.at = "done"
  BY <1>1, DoneCall
<1>3. /\ busy' = IF calls[i].op \in Writes THEN None ELSE busy
      /\ downloading' = IF calls[i].op = "summary" THEN None ELSE downloading
  BY DEF Settle, LoadAnswered, WriteAnswered, SummaryAnswered, Free, Writes
<1>4. \/ calls' = [calls EXCEPT ![i] = d]
      \/ \E j \in Calls : NextUnused(j) /\ calls' = [calls EXCEPT ![i] = d, ![j] = [Fresh EXCEPT !.op = "load", !.at = "sent"]]
  BY DEF Settle, LoadAnswered, WriteAnswered, Success, Conflict, Failure, SummaryAnswered, Finish
<1> HIDE DEF d
<1>5. CASE calls' = [calls EXCEPT ![i] = d]
  <2>1. calls'[i] = d /\ \A j \in Calls \ {i} : calls'[j] = calls[j]
    BY <1>1, <1>5
  <2>2. QED
    BY <1>1, <1>2, <1>3, <2>1, SameCall DEF Over, InFlight
<1>6. ASSUME NEW j \in Calls, NextUnused(j),
             calls' = [calls EXCEPT ![i] = d, ![j] = [Fresh EXCEPT !.op = "load", !.at = "sent"]]
      PROVE  Over(i)
  <2> DEFINE l == [Fresh EXCEPT !.op = "load", !.at = "sent"]
  <2>1. l.op = "load" /\ l.at = "sent"
    BY DEF Fresh
  <2>2. calls' = [calls EXCEPT ![i] = d, ![j] = l]
    BY <1>6
  <2>3. i # j
    BY <1>1, <1>6 DEF NextUnused, Unused
  <2> HIDE DEF l
  <2>4. calls'[i] = d /\ calls'[j] = l /\ \A k \in Calls \ {i, j} : calls'[k] = calls[k]
    BY <1>1, <2>2, <2>3
  <2>5. QED
    BY <1>1, <1>2, <1>3, <1>6, <2>1, <2>4, SameCall DEF Over, InFlight
<1>7. QED
  BY <1>4, <1>5, <1>6

\* What a step can be, for the buttons.
LEMMA ButtonSteps ==
  TypeInv /\ [Next]_vars =>
    \/ Untouched \/ Quit
    \/ \E i \in Calls : \/ Over(i) \/ Made(i, "load", None)
                        \/ \E o \in Orders : \E op \in Writes \cup {"summary"} : Made(i, op, o)
<1> SUFFICES ASSUME TypeInv, [Next]_vars
    PROVE  \/ Untouched \/ Quit
           \/ \E i \in Calls : \/ Over(i) \/ Made(i, "load", None)
                               \/ \E o \in Orders : \E op \in Writes \cup {"summary"} : Made(i, op, o)
  OBVIOUS
<1>1. ASSUME UNCHANGED <<busy, downloading, calls>> PROVE Untouched
  BY <1>1 DEF Untouched, Same, InFlight
<1>2. ASSUME NEW o \in Orders, UNCHANGED <<busy, downloading>>, calls' = calls \/ calls' = Shrunk({o})
      PROVE  Untouched
  <2>1. \A j \in Calls : Kept(j)
    BY <1>2, ForgetCalls DEF Kept
  <2>2. QED
    BY <1>2, <2>1 DEF Untouched, Same, Kept, InFlight
<1>3. ASSUME NEW m \in pushes PROVE m.order \in Orders
  BY DEF TypeInv, Pushes, Push
<1>4. CASE Stream
  BY <1>1, <1>4 DEF Stream, Quietly, pageVars
<1>5. CASE Leave
  <2>1. \A i \in Calls : calls'[i].op = "none" /\ calls'[i].at = "done"
    BY <1>5 DEF Leave, Fresh
  <2>2. QED
    BY <1>5, <2>1 DEF Leave, Quit
<1>6. CASE User
  BY <1>6, UserMakes
<1>7. ASSUME NEW o \in Orders, Change(o) PROVE Untouched
  <2>1. UNCHANGED <<busy, downloading>> /\ (calls' = calls \/ calls' = Shrunk({o}))
    BY <1>7 DEF Change, Forget, Shrunk, pageVars
  <2>2. QED
    BY <1>2, <2>1
<1>8. ASSUME NEW i \in Calls, Serve(i) \/ Lose(i) PROVE Untouched
  BY <1>8, ServeUntouched
<1>9. ASSUME NEW i \in Calls, Settle(i) PROVE Over(i)
  BY <1>9, SettleOver
<1>10. ASSUME NEW m \in pushes, Deliver(m) \/ Miss(m) PROVE Untouched
  <2>1. UNCHANGED <<busy, downloading>> /\ calls' = Shrunk({m.order})
    BY <1>10 DEF Deliver, Miss, Forget, Shrunk, pageVars
  <2>2. QED
    BY <1>2, <1>3, <2>1
<1>11. CASE UNCHANGED vars
  BY <1>1, <1>11 DEF vars, pageVars
<1>12. QED
  BY <1>4, <1>5, <1>6, <1>7, <1>8, <1>9, <1>10, <1>11 DEF Next

\* Requests are made in the order of their numbers.
OrderInv == \A k, m \in Calls : calls[k].op # "none" /\ calls[m].at = "unused" => k < m

\* Whoever is not in the slot has made room for another order's write.
SlotInv ==
  \A o \in Orders : \A i \in Calls : InFlight(i) /\ WriteOf(i, o) =>
    busy = o \/ \E k \in Calls : calls[k].op \in Writes /\ calls[k].order # o

ButtonInv == BusyIsInFlight /\ OrderInv /\ SlotInv /\ TwiceOnlyAfterAnother

\* Requests are numbered from one, without gaps.
LEMMA Numbers == Calls \subseteq Nat \ {0} /\ \A j \in Calls : 1..(j - 1) \subseteq Calls
<1>1. \A k \in Kinds : MaxCalls[k] \in Nat
  BY PagesAssumption
<1>2. ASSUME NEW j \in Calls PROVE j \in Nat \ {0} /\ 1..(j - 1) \subseteq Calls
  <2>1. PICK k \in Kinds : j \in 1..MaxCalls[k]
    BY <1>2 DEF Calls
  <2>2. 1..(j - 1) \subseteq 1..MaxCalls[k]
    BY <1>1, <2>1
  <2>3. 1..MaxCalls[k] \subseteq Calls
    BY DEF Calls
  <2>4. QED
    BY <1>1, <2>1, <2>2, <2>3
<1>3. QED
  BY <1>2

\* What the invariant says of two states whose requests look the same to the buttons.
LEMMA ButtonsUntouched == TypeInv /\ ButtonInv /\ Untouched => ButtonInv'
<1> SUFFICES ASSUME TypeInv, ButtonInv, Untouched PROVE ButtonInv'
  OBVIOUS
<1>1. UNCHANGED <<busy, downloading>>
      /\ \A i \in Calls : /\ calls'[i].op = calls[i].op /\ calls'[i].order = calls[i].order
                          /\ InFlight(i)' <=> InFlight(i)
                          /\ calls'[i].at = "unused" <=> calls[i].at = "unused"
  BY DEF Untouched, Same
<1>2. BusyIsInFlight'
  BY <1>1 DEF ButtonInv, BusyIsInFlight
<1>3. OrderInv'
  BY <1>1 DEF ButtonInv, OrderInv
<1>4. SlotInv'
  BY <1>1 DEF ButtonInv, SlotInv, WriteOf
<1>5. TwiceOnlyAfterAnother'
  <2> SUFFICES ASSUME NEW o \in Orders, NEW i \in Calls, NEW j \in Calls, i < j, InFlight(i)', InFlight(j)',
                      WriteOf(i, o)', WriteOf(j, o)'
               PROVE  \E k \in 1..(j - 1) : calls'[k].op \in Writes /\ calls'[k].order # o
    BY DEF TwiceOnlyAfterAnother
  <2>1. InFlight(i) /\ InFlight(j) /\ WriteOf(i, o) /\ WriteOf(j, o)
    BY <1>1 DEF WriteOf
  <2>2. PICK k \in 1..(j - 1) : calls[k].op \in Writes /\ calls[k].order # o
    BY <2>1 DEF ButtonInv, TwiceOnlyAfterAnother
  <2>3. k \in Calls
    BY <2>2, Numbers
  <2>4. QED
    BY <1>1, <2>2, <2>3
<1>6. QED
  BY <1>2, <1>3, <1>4, <1>5 DEF ButtonInv

\* A page that is left waits for nothing.
LEMMA ButtonsQuit == Quit => ButtonInv'
<1> SUFFICES ASSUME Quit PROVE ButtonInv'
  OBVIOUS
<1>1. busy' = None /\ downloading' = None /\ \A i \in Calls : calls'[i].op = "none" /\ ~InFlight(i)' /\ calls'[i].at # "unused"
  BY DEF Quit, InFlight
<1>2. QED
  BY <1>1 DEF ButtonInv, BusyIsInFlight, OrderInv, SlotInv, TwiceOnlyAfterAnother

\* A new request keeps the buttons and their requests together.
LEMMA ButtonsMade ==
  ASSUME TypeInv, ButtonInv, NEW i \in Calls, NEW o \in Orders \cup {None},
         NEW op \in {"load", "summary"} \cup Writes, op # "load" => o \in Orders, Made(i, op, o)
  PROVE  ButtonInv'
<1>1. /\ \A j \in Calls \ {i} : /\ calls'[j].op = calls[j].op /\ calls'[j].order = calls[j].order
                                /\ InFlight(j)' <=> InFlight(j)
                                /\ calls'[j].at = "unused" <=> calls[j].at = "unused"
      /\ calls'[i].op = op /\ calls'[i].order = o /\ InFlight(i)' /\ calls'[i].at # "unused"
  BY DEF Made, Same, InFlight
<1>2. calls[i].at = "unused" /\ calls[i].op = "none" /\ ~InFlight(i)
      /\ \A j \in Calls : calls[j].at = "unused" => i <= j
  BY DEF Made, NextUnused, Unused, InFlight, TypeInv, Sound
<1>3. Calls \subseteq Nat \ {0}
  BY Numbers
<1>4. BusyIsInFlight'
  <2>1. \A j \in Calls : InFlight(j) => j # i /\ InFlight(j)' /\ calls'[j].op = calls[j].op /\ calls'[j].order = calls[j].order
    BY <1>1, <1>2
  <2>2. CASE op \in Writes
    BY <1>1, <2>1, <2>2 DEF Made, ButtonInv, BusyIsInFlight
  <2>3. CASE op = "summary"
    BY <1>1, <2>1, <2>3 DEF Made, ButtonInv, BusyIsInFlight
  <2>4. CASE op = "load"
    BY <1>1, <2>1, <2>4 DEF Made, ButtonInv, BusyIsInFlight
  <2>5. QED
    BY <2>2, <2>3, <2>4
<1>5. OrderInv'
  <2> SUFFICES ASSUME NEW k \in Calls, NEW m \in Calls, calls'[k].op # "none", calls'[m].at = "unused"
               PROVE  k < m
    BY DEF OrderInv
  <2>1. m # i /\ calls[m].at = "unused"
    BY <1>1
  <2>2. CASE k = i
    BY <1>2, <1>3, <2>1, <2>2
  <2>3. CASE k # i
    BY <1>1, <2>1, <2>3 DEF ButtonInv, OrderInv
  <2>4. QED
    BY <2>2, <2>3
<1>6. SlotInv'
  <2> SUFFICES ASSUME NEW p \in Orders, NEW j \in Calls, InFlight(j)', WriteOf(j, p)'
               PROVE  busy' = p \/ \E k \in Calls : calls'[k].op \in Writes /\ calls'[k].order # p
    BY DEF SlotInv
  <2>1. CASE op \in Writes
    BY <1>1, <2>1 DEF Made
  <2>2. CASE op \notin Writes
    <3>1. j # i /\ InFlight(j) /\ WriteOf(j, p) /\ UNCHANGED busy
      BY <1>1, <2>2 DEF WriteOf, Made
    <3>2. busy = p \/ \E k \in Calls : calls[k].op \in Writes /\ calls[k].order # p
      BY <3>1 DEF ButtonInv, SlotInv
    <3>3. ASSUME NEW k \in Calls, calls[k].op \in Writes, calls[k].order # p
          PROVE  calls'[k].op \in Writes /\ calls'[k].order # p
      BY <1>1, <1>2, <3>3 DEF Writes
    <3>4. QED
      BY <3>1, <3>2, <3>3
  <2>3. QED
    BY <2>1, <2>2
<1>7. TwiceOnlyAfterAnother'
  <2> SUFFICES ASSUME NEW p \in Orders, NEW h \in Calls, NEW j \in Calls, h < j, InFlight(h)', InFlight(j)',
                      WriteOf(h, p)', WriteOf(j, p)'
               PROVE  \E k \in 1..(j - 1) : calls'[k].op \in Writes /\ calls'[k].order # p
    BY DEF TwiceOnlyAfterAnother
  <2>1. h # i
    <3>1. CASE j = i
      BY <1>3, <3>1
    <3>2. CASE j # i
      <4>1. calls[j].op # "none"
        BY <1>1, <3>2 DEF WriteOf, Writes
      <4>2. j < i
        BY <1>2, <4>1 DEF ButtonInv, OrderInv
      <4>3. QED
        BY <1>3, <4>2
    <3>3. QED
      BY <3>1, <3>2
  <2>2. InFlight(h) /\ WriteOf(h, p)
    BY <1>1, <2>1 DEF WriteOf
  <2>3. ASSUME NEW k \in Calls, calls[k].op \in Writes PROVE k < i /\ k # i /\ calls'[k].op = calls[k].op /\ calls'[k].order = calls[k].order
    <3>1. calls[k].op # "none"
      BY <2>3 DEF Writes
    <3>2. k < i /\ k # i
      BY <1>2, <3>1 DEF ButtonInv, OrderInv
    <3>3. QED
      BY <1>1, <3>2
  <2>4. CASE j = i
    <3>1. op \in Writes /\ p = o /\ busy # p
      BY <1>1, <2>4 DEF WriteOf, Made
    <3>2. PICK k \in Calls : calls[k].op \in Writes /\ calls[k].order # p
      BY <2>2, <3>1 DEF ButtonInv, SlotInv
    <3>3. k < i /\ calls'[k].op \in Writes /\ calls'[k].order # p
      BY <2>3, <3>2
    <3>4. k \in 1..(j - 1)
      BY <1>3, <2>4, <3>3
    <3>5. QED
      BY <3>3, <3>4
  <2>5. CASE j # i
    <3>1. InFlight(j) /\ WriteOf(j, p)
      BY <1>1, <2>5 DEF WriteOf
    <3>2. PICK k \in 1..(j - 1) : calls[k].op \in Writes /\ calls[k].order # p
      BY <2>2, <3>1 DEF ButtonInv, TwiceOnlyAfterAnother
    <3>3. k \in Calls
      BY <3>2, Numbers
    <3>4. QED
      BY <2>3, <3>2, <3>3
  <2>6. QED
    BY <2>4, <2>5
<1>8. QED
  BY <1>4, <1>5, <1>6, <1>7 DEF ButtonInv

\* The end of a request keeps the buttons and their requests together.
LEMMA ButtonsOver == ASSUME TypeInv, ButtonInv, NEW i \in Calls, Over(i) PROVE ButtonInv'
<1>1. /\ InFlight(i) /\ ~InFlight(i)' /\ calls'[i].op = calls[i].op /\ calls'[i].order = calls[i].order
      /\ calls'[i].at # "unused"
      /\ busy' = IF calls[i].op \in Writes THEN None ELSE busy
      /\ downloading' = IF calls[i].op = "summary" THEN None ELSE downloading
  BY DEF Over
<1>2. ASSUME NEW j \in Calls \ {i}
      PROVE  Same(j) \/ (NextUnused(j) /\ calls'[j].op = "load" /\ calls'[j].at = "sent")
  BY DEF Over
<1>3. ASSUME NEW j \in Calls, calls[j].op # "none" PROVE calls'[j].op = calls[j].op /\ calls'[j].order = calls[j].order
  <2>1. ~NextUnused(j)
    BY <1>3 DEF NextUnused, Unused, TypeInv, Sound
  <2>2. QED
    BY <1>1, <1>2, <2>1 DEF Same
<1>4. ASSUME NEW j \in Calls, InFlight(j)', calls'[j].op # "load"
      PROVE  j # i /\ InFlight(j) /\ calls[j].op = calls'[j].op /\ calls[j].order = calls'[j].order
  BY <1>1, <1>2, <1>4 DEF Same
<1>5. ASSUME NEW j \in Calls, InFlight(j), j # i PROVE InFlight(j)' /\ calls'[j].op = calls[j].op /\ calls'[j].order = calls[j].order
  <2>1. ~NextUnused(j)
    BY <1>5 DEF NextUnused, Unused, InFlight
  <2>2. QED
    BY <1>2, <1>5, <2>1 DEF Same
<1>6. BusyIsInFlight'
  <2>1. busy' # None =>
          \E j \in Calls : InFlight(j)' /\ calls'[j].op \in Writes /\ calls'[j].order = busy'
    <3>1. CASE calls[i].op \in Writes
      BY <1>1, <3>1
    <3>2. CASE calls[i].op \notin Writes
      BY <1>1, <1>5, <3>2 DEF ButtonInv, BusyIsInFlight
    <3>3. QED
      BY <3>1, <3>2
  <2>2. downloading' # None =>
          \E j \in Calls : InFlight(j)' /\ calls'[j].op = "summary" /\ calls'[j].order = downloading'
    <3>1. CASE calls[i].op = "summary"
      BY <1>1, <3>1
    <3>2. CASE calls[i].op # "summary"
      BY <1>1, <1>5, <3>2 DEF ButtonInv, BusyIsInFlight
    <3>3. QED
      BY <3>1, <3>2
  <2>3. QED
    BY <2>1, <2>2 DEF BusyIsInFlight
<1>7. OrderInv'
  <2> SUFFICES ASSUME NEW k \in Calls, NEW m \in Calls, calls'[k].op # "none", calls'[m].at = "unused"
               PROVE  k < m
    BY DEF OrderInv
  <2>1. m # i /\ Same(m) /\ calls[m].at = "unused"
    BY <1>1, <1>2 DEF Same
  <2>2. CASE k = i
    <3>1. calls[i].op # "none"
      BY <1>1, <2>2
    <3>2. QED
      BY <2>1, <2>2, <3>1 DEF ButtonInv, OrderInv
  <2>3. CASE k # i /\ Same(k)
    BY <2>1, <2>3 DEF ButtonInv, OrderInv, Same
  <2>4. CASE k # i /\ NextUnused(k) /\ calls'[k].at = "sent"
    <3>1. k <= m /\ k # m
      BY <2>1, <2>4 DEF NextUnused, Unused
    <3>2. QED
      BY <3>1, Numbers
  <2>5. QED
    BY <1>2, <2>2, <2>3, <2>4
<1>8. SlotInv'
  <2> SUFFICES ASSUME NEW p \in Orders, NEW j \in Calls, InFlight(j)', WriteOf(j, p)'
               PROVE  busy' = p \/ \E k \in Calls : calls'[k].op \in Writes /\ calls'[k].order # p
    BY DEF SlotInv
  <2>1. j # i /\ InFlight(j) /\ WriteOf(j, p)
    BY <1>4 DEF WriteOf, Writes
  <2>2. ASSUME NEW k \in Calls, calls[k].op \in Writes, calls[k].order # p
        PROVE  calls'[k].op \in Writes /\ calls'[k].order # p
    BY <1>3, <2>2 DEF Writes
  <2>3. CASE calls[i].op \notin Writes
    BY <1>1, <2>1, <2>2, <2>3 DEF ButtonInv, SlotInv
  <2>4. CASE calls[i].op \in Writes /\ calls[i].order # p
    BY <2>2, <2>4
  <2>5. CASE calls[i].op \in Writes /\ calls[i].order = p
    <3>1. WriteOf(i, p) /\ InFlight(i)
      BY <1>1, <2>5 DEF WriteOf
    <3>2. i < j \/ j < i
      BY <2>1, Numbers
    <3>3. \/ \E k \in 1..(j - 1) : calls[k].op \in Writes /\ calls[k].order # p
          \/ \E k \in 1..(i - 1) : calls[k].op \in Writes /\ calls[k].order # p
      BY <2>1, <3>1, <3>2 DEF ButtonInv, TwiceOnlyAfterAnother
    <3>4. 1..(j - 1) \subseteq Calls /\ 1..(i - 1) \subseteq Calls
      BY Numbers
    <3>5. QED
      BY <2>2, <3>3, <3>4
  <2>6. QED
    BY <2>3, <2>4, <2>5
<1>9. TwiceOnlyAfterAnother'
  <2> SUFFICES ASSUME NEW p \in Orders, NEW h \in Calls, NEW j \in Calls, h < j, InFlight(h)', InFlight(j)',
                      WriteOf(h, p)', WriteOf(j, p)'
               PROVE  \E k \in 1..(j - 1) : calls'[k].op \in Writes /\ calls'[k].order # p
    BY DEF TwiceOnlyAfterAnother
  <2>1. InFlight(h) /\ InFlight(j) /\ WriteOf(h, p) /\ WriteOf(j, p)
    BY <1>4 DEF WriteOf, Writes
  <2>2. PICK k \in 1..(j - 1) : calls[k].op \in Writes /\ calls[k].order # p
    BY <2>1 DEF ButtonInv, TwiceOnlyAfterAnother
  <2>3. k \in Calls
    BY <2>2, Numbers
  <2>4. QED
    BY <1>3, <2>2, <2>3 DEF Writes
<1>10. QED
  BY <1>6, <1>7, <1>8, <1>9 DEF ButtonInv

\* Every step keeps the buttons and their requests together.
LEMMA ButtonStep == TypeInv /\ ButtonInv /\ [Next]_vars => ButtonInv'
<1> SUFFICES ASSUME TypeInv, ButtonInv, [Next]_vars PROVE ButtonInv'
  OBVIOUS
<1>1. CASE Untouched
  BY <1>1, ButtonsUntouched
<1>2. CASE Quit
  BY <1>2, ButtonsQuit
<1>3. ASSUME NEW i \in Calls, Over(i) PROVE ButtonInv'
  BY <1>3, ButtonsOver
<1>4. ASSUME NEW i \in Calls, Made(i, "load", None) PROVE ButtonInv'
  BY <1>4, ButtonsMade
<1>5. ASSUME NEW i \in Calls, NEW o \in Orders, NEW op \in Writes \cup {"summary"}, Made(i, op, o) PROVE ButtonInv'
  BY <1>5, ButtonsMade DEF Writes
<1>6. QED
  BY <1>1, <1>2, <1>3, <1>4, <1>5, ButtonSteps

\* The first state.
LEMMA ButtonInit == Init => ButtonInv
<1> SUFFICES ASSUME Init PROVE ButtonInv
  OBVIOUS
<1>1. \A i \in Calls : /\ i # 1 => calls[i].op = "none" /\ calls[i].at # "sent" /\ calls[i].at # "answered"
                       /\ calls[i].op \notin Writes
                       /\ i = 1 => calls[i].at # "unused"
  BY DEF Init, Fresh, Writes
<1>2. busy = None /\ downloading = None
  BY DEF Init
<1>3. OrderInv
  BY <1>1, Numbers DEF OrderInv
<1>4. SlotInv /\ TwiceOnlyAfterAnother /\ BusyIsInFlight
  BY <1>1, <1>2 DEF SlotInv, TwiceOnlyAfterAnother, WriteOf, BusyIsInFlight
<1>5. QED
  BY <1>3, <1>4 DEF ButtonInv

----------------------------------------------------------------------------
(* The theorems.                                                           *)

Inv == StreamInv /\ TypeInv /\ HistInv /\ TrustInv /\ ButtonInv

\* The inductive invariant: connection, types, history, trust and buttons.
LEMMA Invariant == Spec => []Inv
<1>1. Init => Inv
  <2> SUFFICES ASSUME Init PROVE Inv
    OBVIOUS
  <2>1. TypeInv /\ ButtonInv
    BY TypeInit, ButtonInit
  <2>2. StreamInv
    <3>1. MaxFaults[kind] \in Nat
      BY StreamAssumption DEF Init, StreamInit
    <3>2. 0 \in 0..MaxFaults[kind]
      BY <3>1
    <3>3. QED
      BY <3>2 DEF Init, StreamInit, StreamInv, StreamTypeOK, OneConnection, LiveIsOpen
  <2>3. /\ \A o \in Orders : view[o] = None
        /\ pushes = {} /\ trusted = {}
        /\ \A i \in Calls : ~Answered(calls[i]) /\ calls[i].trust = {}
    BY DEF Init, Answered, Fresh
  <2>4. HistInv /\ TrustInv
    BY <2>3 DEF HistInv, NeverAhead, TrustInv
  <2>5. QED
    BY <2>1, <2>2, <2>4 DEF Inv
<1>2. Inv /\ [Next]_vars => Inv'
  BY StreamStep, StepKinds, HistStep, TrustStep, ButtonStep DEF Inv
<1>3. QED
  BY <1>1, <1>2, PTL DEF Spec

\* useOrderStatusStream and the pages' applyUpdate, loads and writes: no page shows a
\* status or a delivery stage that its order has not been in.
THEOREM ShownWasCommitted == Spec => []NeverAhead
<1>1. Inv => NeverAhead
  BY DEF Inv, HistInv
<1>2. QED
  BY <1>1, Invariant, PTL

\* The three pages' applyUpdate and replacement of rows by answers: unless a push was lost,
\* dropped or overtaken, what is shown is the table's row once nothing is on its way.
THEOREM QuietPagesAreCurrent == Spec => []QuietIsCurrent
<1>1. Inv => QuietIsCurrent
  <2> SUFFICES ASSUME Inv, NEW o \in trusted \cap Listed, \A m \in pushes : m.order # o
               PROVE  view[o] = table[o]
    BY DEF QuietIsCurrent
  <2>1. o \in Orders /\ view[o] # None /\ Tracks(view[o], o, table[o], pushes)
    BY DEF Inv, TypeInv, TrustInv
  <2>2. view[o] \in Row /\ table[o] \in Row
    BY <2>1 DEF Inv, TypeInv
  <2>3. view[o].status = table[o].status /\ view[o].fulfilment = table[o].fulfilment
    BY <2>1, PushFields DEF Tracks, Fields
  <2>4. QED
    BY <2>2, <2>3 DEF Row
<1>2. QED
  BY <1>1, Invariant, PTL

\* requestCancellation, progressOrder and their one slot: two writes of one order are
\* under way only when another order was written to before.
THEOREM SlotAllowsTwiceOnlyAfterAnother == Spec => []TwiceOnlyAfterAnother
<1>1. Inv => TwiceOnlyAfterAnother
  BY DEF Inv, ButtonInv
<1>2. QED
  BY <1>1, Invariant, PTL

\* A stage that is shown as delivered belongs to a confirmed order.
LEMMA DeliveredIsConfirmed ==
  ASSUME NEW q \in Row, Legal(q), NEW r \in Row, Reached(r, q), r.fulfilment = "DELIVERED"
  PROVE  r.status \in {"PENDING", "CONFIRMED"}
<1>1. q.status \in OrderStatus /\ q.fulfilment \in FulfilmentStatus /\ r.status \in OrderStatus
  BY DEF Row
<1>2. q.fulfilment = "DELIVERED"
  BY <1>1 DEF Reached, Rank, FulfilmentStatus
<1>3. q.status = "CONFIRMED"
  BY <1>1, <1>2 DEF Legal, OrderStatus
<1>4. QED
  BY <1>3 DEF Reached, Past

\* The hook and the three pages keep PagesInv: one connection or one timer, "live" for
\* open connections only, disabled buttons with a request behind them, offers that the
\* order service accepts, and no work hidden by a tab of the desk.
THEOREM PagesAreSound == Spec => []PagesInv
<1>1. Inv => TypeOK /\ OneConnection /\ LiveIsOpen /\ BusyIsInFlight
  BY DEF Inv, StreamInv, TypeInv, TypeOK, ButtonInv
<1>2. Inv => OfferedIsAccepted
  <2> SUFFICES ASSUME Inv, NEW o \in Orders, view[o] = table[o]
               PROVE  CASE kind = "desk"   -> CanProgress(o) <=> CanAdvance(table[o])
                        [] kind = "list"   -> RowCancellable(o) <=> Cancellable(table[o])
                        [] kind = "detail" -> CanCancel(o) <=> Cancellable(table[o])
    BY DEF OfferedIsAccepted
  <2>1. /\ CanProgress(o) <=> CanAdvance(table[o])
        /\ RowCancellable(o) <=> Cancellable(table[o])
        /\ CanCancel(o) <=> Cancellable(table[o])
    BY DEF CanProgress, CanAdvance, RowCancellable, CanCancel, Cancellable
  <2>2. kind \in {"desk", "list", "detail"}
    BY DEF Inv, TypeInv, Kinds
  <2>3. QED
    BY <2>1, <2>2
<1>3. Inv => WorkIsListed
  <2> SUFFICES ASSUME Inv, kind = "desk", NEW o \in Orders, Shown(o)
               PROVE  /\ CanProgress(o) <=> o \in Tab("needs_action") \cup Tab("in_progress")
                      /\ \A f, g \in Filters : o \in Tab(f) \cap Tab(g) => f = g
    BY DEF WorkIsListed
  <2>1. view[o] \in Row /\ view[o] # None /\ o \in Listed
    BY DEF Inv, TypeInv, Shown
  <2>2. view[o].fulfilment \in FulfilmentStatus /\ view[o].status \in OrderStatus
    BY <2>1 DEF Row
  <2>3. view[o].fulfilment = "DELIVERED" => view[o].status \in {"PENDING", "CONFIRMED"}
    BY <2>1, DeliveredIsConfirmed DEF Inv, TypeInv, HistInv, NeverAhead
  <2>4. \A f \in Filters : o \in Tab(f) <=> matchesFilter(view[o], f)
    BY <2>1 DEF Tab
  <2>5. CanProgress(o) <=> o \in Tab("needs_action") \cup Tab("in_progress")
    BY <2>2, <2>4 DEF Filters, matchesFilter, CanProgress, NEXT_STATUS, FulfilmentStatus
  <2>6. \A f, g \in Filters : o \in Tab(f) \cap Tab(g) => f = g
    BY <2>3, <2>4 DEF Filters, matchesFilter
  <2>7. QED
    BY <2>5, <2>6
<1>4. QED
  BY <1>1, <1>2, <1>3, Invariant, PTL DEF PagesInv
=============================================================================
