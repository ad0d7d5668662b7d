-------------------------- MODULE PromotionsProofs --------------------------
(* For any number of promotions, administrators and tasks, any windows and    *)
(* any number of faults: until an update replaces a row it has not read, the  *)
(* state of a promotion is never ahead of the clock, and only moves forward.  *)
EXTENDS Promotions, TLAPS

Requests == [pc : {"write", "clear", "done"}, id : Promos, row : Rows, base : Nat]
Sweeps == [pc : {"wait", "sweep", "clear"}, items : SUBSET Candidates,
           clearing : Candidates \cup {None}]

\* The row an administrator asks for is a row, and its state is right.
LEMMA NewRow ==
  ASSUME NEW w \in Windows, NEW enabled \in BOOLEAN, NEW version \in Nat, now \in Nat
  PROVE  /\ Row(w, enabled, Lifecycle(w, enabled, now), version, TRUE) \in Rows
         /\ StateDue(Row(w, enabled, Lifecycle(w, enabled, now), version, TRUE), now)
         /\ Row(w, enabled, Lifecycle(w, enabled, now), version, TRUE).version = version
BY PromotionsAssumption DEF Row, Rows, Lifecycle, States, StateDue

\* What rows and windows consist of.
LEMMA RowFields ==
  ASSUME NEW row \in Rows
  PROVE  /\ row.window \in Windows /\ row.enabled \in BOOLEAN /\ row.state \in States
         /\ row.version \in Nat /\ row.pending \in BOOLEAN
         /\ row.window.starts \in Nat /\ row.window.ends \in Nat
         /\ row # None
BY PromotionsAssumption, NoneAssumption DEF Rows

\* A move that is due leads to a state, and the state is due in the moved row.
LEMMA MovedRow ==
  ASSUME NEW row \in Rows, NEW version \in Nat, now \in Nat, StateDue(row, now), row.enabled,
         Target(row, now) # None
  PROVE  StateDue(Row(row.window, TRUE, Target(row, now), version, TRUE), now)
BY RowFields, PromotionsAssumption DEF Target, StateDue, Row, States

\* Clearing the marker changes nothing else.
LEMMA Cleared ==
  ASSUME TypeOK, NEW p \in Promos, Exists(p), Clear(p)
  PROVE  /\ promo' \in [Promos -> Rows \cup {None}]
         /\ \A q \in Promos : /\ Exists(q)' <=> Exists(q)
                              /\ Exists(q) => /\ promo'[q].window = promo[q].window
                                              /\ promo'[q].enabled = promo[q].enabled
                                              /\ promo'[q].state = promo[q].state
                                              /\ promo'[q].version = promo[q].version
<1>1. promo[p] \in Rows
  BY DEF TypeOK, Exists
<1>2. [promo[p] EXCEPT !.pending = FALSE] \in Rows
  BY <1>1 DEF Rows
<1>3. promo' = [promo EXCEPT ![p] = [promo[p] EXCEPT !.pending = FALSE]]
  BY DEF Clear
<1>4. promo' \in [Promos -> Rows \cup {None}]
  BY <1>2, <1>3 DEF TypeOK
<1>5. promo'[p] = [promo[p] EXCEPT !.pending = FALSE]
  BY <1>3 DEF TypeOK
<1>6. \A q \in Promos : q # p => promo'[q] = promo[q]
  BY <1>3 DEF TypeOK
<1>7. promo'[p] # None
  BY <1>2, <1>5, NoneAssumption
<1>8. /\ promo'[p].window = promo[p].window /\ promo'[p].enabled = promo[p].enabled
      /\ promo'[p].state = promo[p].state /\ promo'[p].version = promo[p].version
  BY <1>1, <1>5 DEF Rows
<1>9. QED
  BY <1>4, <1>6, <1>7, <1>8 DEF Exists

\* Announcing a row changes that promotion only.
LEMMA Announced ==
  ASSUME TypeOK, NEW p \in Promos, NEW row \in Rows, Announce(p, row)
  PROVE  /\ promo' \in [Promos -> Rows \cup {None}]
         /\ seen' \in [Promos -> BOOLEAN]
         /\ promo'[p] = row /\ Exists(p)'
         /\ \A q \in Promos : q # p => promo'[q] = promo[q]
BY RowFields DEF TypeOK, Announce, Active, Exists

----------------------------------------------------------------------------
(* Types.                                                                  *)

\* Nothing exists yet.
LEMMA InitPromotions == Init => PromotionsInv
<1> SUFFICES ASSUME Init PROVE PromotionsInv
  OBVIOUS
<1>1. TypeOK
  <2>1. Idle \in Sweeps
    BY DEF Idle, Sweeps
  <2>2. SweepType
    BY <2>1 DEF Init, SweepType, Sweeps
  <2>3. RequestType
    BY DEF Init, RequestType
  <2>4. now \in 0..MaxTime /\ faults \in 0..MaxFaults
    BY PromotionsAssumption DEF Init
  <2>5. promo \in [Promos -> Rows \cup {None}] /\ seen \in [Promos -> BOOLEAN]
    BY DEF Init
  <2>6. QED
    BY <2>2, <2>3, <2>4, <2>5 DEF Init, TypeOK
<1>2. QED
  BY <1>1 DEF Init, PromotionsInv, NamedExist, CandidateInv, RequestInv, Exists, NoWork, Idle

\* A request at work is not NoWork.
LEMMA AtWork ==
  ASSUME TypeOK, NEW a \in Admins, request[a].pc # "new"
  PROVE  request[a] \in Requests
BY DEF TypeOK, RequestType, NoWork, Requests

\* An administrator's step keeps the types.
LEMMA TypeAdmin ==
  ASSUME TypeOK, NEW a \in Admins, AdminStep(a) \/ RequestFails(a)
  PROVE  TypeOK'
<1>0. now \in Nat
  BY PromotionsAssumption DEF TypeOK
<1> DEFINE Keeps == UNCHANGED <<now, sweep>>
<1>1. ASSUME NEW p \in Promos, NEW w \in Windows, NEW enabled \in BOOLEAN,
             Create(a, p, w, enabled)
      PROVE  TypeOK'
  <2> DEFINE row == Row(w, enabled, Lifecycle(w, enabled, now), 0, TRUE)
  <2>1. row \in Rows
    BY <1>0, NewRow
  <2>2. PICK label \in {"clear", "done"} :
          request' = [request EXCEPT ![a] = [pc |-> label, id |-> p, row |-> row, base |-> 0]]
    BY <1>1 DEF Create
  <2>3. [pc |-> label, id |-> p, row |-> row, base |-> 0] \in Requests
    BY <2>1 DEF Requests
  <2>4. RequestType'
    BY <2>2, <2>3 DEF TypeOK, RequestType, Requests
  <2>5. promo' \in [Promos -> Rows \cup {None}] /\ seen' \in [Promos -> BOOLEAN]
    <3>1. CASE Announce(p, row)
      BY <2>1, <3>1, Announced
    <3>2. CASE UNCHANGED <<promo, seen>>
      BY <3>2 DEF TypeOK
    <3>3. QED
      BY <1>1, <3>1, <3>2 DEF Create
  <2>6. QED
    BY <1>1, <2>4, <2>5 DEF Create, TypeOK, SweepType
<1>2. ASSUME NEW p \in Promos, NEW w \in Windows, NEW enabled \in BOOLEAN,
             ReadForUpdate(a, p, w, enabled)
      PROVE  TypeOK'
  <2>1. promo[p] \in Rows
    BY <1>2 DEF ReadForUpdate, Exists, TypeOK
  <2>2. promo[p].version \in Nat /\ promo[p].version + 1 \in Nat
    BY <2>1, RowFields
  <2> DEFINE row == Row(w, enabled, Lifecycle(w, enabled, now), promo[p].version + 1, TRUE)
  <2>3. row \in Rows
    BY <1>0, <2>2, NewRow
  <2>4. [pc |-> "write", id |-> p, base |-> promo[p].version, row |-> row] \in Requests
    BY <2>2, <2>3 DEF Requests
  <2>5. request' = [request EXCEPT ![a] =
                      [pc |-> "write", id |-> p, base |-> promo[p].version, row |-> row]]
    BY <1>2 DEF ReadForUpdate
  <2>6. RequestType'
    BY <2>4, <2>5 DEF TypeOK, RequestType, Requests
  <2>7. QED
    BY <1>2, <2>6 DEF ReadForUpdate, TypeOK, SweepType
<1>3. ASSUME request[a].pc # "new", NEW label \in {"clear", "done"},
             request' = [request EXCEPT ![a].pc = label]
      PROVE  RequestType'
  <2>1. request[a] \in Requests
    BY <1>3, AtWork
  <2>2. [request[a] EXCEPT !.pc = label] \in Requests
    BY <2>1 DEF Requests
  <2>3. request' = [request EXCEPT ![a] = [request[a] EXCEPT !.pc = label]]
    BY <1>3
  <2>4. QED
    BY <2>2, <2>3 DEF TypeOK, RequestType, Requests
<1>4. CASE Write(a)
  <2>1. request[a] \in Requests
    BY <1>4, AtWork DEF Write
  <2>2. request[a].id \in Promos /\ request[a].row \in Rows
    BY <2>1 DEF Requests
  <2>3. promo' \in [Promos -> Rows \cup {None}] /\ seen' \in [Promos -> BOOLEAN]
    BY <1>4, <2>2, Announced DEF Write
  <2>4. RequestType'
    BY <1>3, <1>4 DEF Write
  <2>5. QED
    BY <1>4, <2>3, <2>4 DEF Write, TypeOK, SweepType
<1>5. CASE FinishRequest(a)
  <2>1. request[a] \in Requests
    BY <1>5, AtWork DEF FinishRequest
  <2>2. promo' \in [Promos -> Rows \cup {None}]
    <3>1. CASE UNCHANGED promo
      BY <3>1 DEF TypeOK
    <3>2. CASE Exists(request[a].id) /\ Clear(request[a].id)
      BY <2>1, <3>2, Cleared DEF Requests
    <3>3. QED
      BY <1>5, <3>1, <3>2 DEF FinishRequest, ClearMatches
  <2>3. RequestType'
    BY <1>3, <1>5 DEF FinishRequest
  <2>4. QED
    BY <1>5, <2>2, <2>3 DEF FinishRequest, TypeOK, SweepType
<1>6. CASE RequestFails(a)
  <2>1. RequestType'
    BY <1>3, <1>6 DEF RequestFails
  <2>2. QED
    BY <1>6, <2>1, PromotionsAssumption DEF RequestFails, Fault, TypeOK, SweepType
<1>7. QED
  BY <1>1, <1>2, <1>4, <1>5, <1>6 DEF AdminStep

\* A reconciler's step keeps the types.
LEMMA TypeSweep ==
  ASSUME TypeOK, NamedExist, NEW t \in Tasks, SweepStep(t) \/ SweepFails(t)
  PROVE  TypeOK'
<1>0. sweep[t] \in Sweeps
  BY DEF TypeOK, SweepType, Sweeps
<1>1. ASSUME NEW s \in Sweeps, sweep' = [sweep EXCEPT ![t] = s] PROVE SweepType'
  BY <1>1 DEF TypeOK, SweepType, Sweeps
<1>2. Idle \in Sweeps
  BY DEF Idle, Sweeps
<1>3. CASE StartSweep(t)
  <2> DEFINE due == {p \in Promos : /\ Exists(p) /\ promo[p].enabled
                                    /\ promo[p].window.starts <= now
                                    /\ Target(promo[p], now) # None}
             cand(p) == [id |-> p, state |-> promo[p].state, version |-> promo[p].version,
                         target |-> Target(promo[p], now)]
             s == [pc |-> "sweep", clearing |-> None, items |-> {cand(p) : p \in due}]
  <2>1. ASSUME NEW p \in due PROVE cand(p) \in Candidates
    <3>1. promo[p] \in Rows
      BY <2>1 DEF TypeOK, Exists
    <3>2. Target(promo[p], now) \in States
      BY <2>1 DEF Target, States
    <3>3. QED
      BY <3>1, <3>2, RowFields DEF Candidates
  <2>2. s \in Sweeps
    BY <2>1 DEF Sweeps
  <2>3. sweep' = [sweep EXCEPT ![t] = s]
    BY <1>3 DEF StartSweep
  <2>4. SweepType'
    BY <1>1, <2>2, <2>3
  <2>5. QED
    BY <1>3, <2>4 DEF StartSweep, TypeOK, RequestType
<1>4. ASSUME NEW c \in sweep[t].items, Transition(t, c) PROVE TypeOK'
  <2>1. c \in Candidates
    BY <1>0 DEF Sweeps
  <2>2. CASE StillAsRead(c)
    <3> DEFINE row == Row(promo[c.id].window, TRUE, c.target, c.version + 1, TRUE)
               s == [pc |-> "clear", items |-> sweep[t].items \ {c}, clearing |-> c]
    <3>1. promo[c.id] \in Rows /\ c.id \in Promos
      BY <2>1 DEF TypeOK, NamedExist, Exists, Candidates
    <3>2. row \in Rows
      BY <2>1, <3>1, RowFields DEF Row, Rows, Candidates
    <3>3. s \in Sweeps
      BY <1>0, <2>1 DEF Sweeps
    <3>4. Announce(c.id, row) /\ sweep' = [sweep EXCEPT ![t] = s]
      BY <1>4, <2>2 DEF Transition
    <3>5. promo' \in [Promos -> Rows \cup {None}] /\ seen' \in [Promos -> BOOLEAN]
      BY <3>1, <3>2, <3>4, Announced
    <3>6. SweepType'
      BY <1>1, <3>3, <3>4
    <3>7. QED
      BY <1>4, <3>5, <3>6 DEF Transition, TypeOK, RequestType
  <2>3. CASE ~ StillAsRead(c)
    <3> DEFINE s == [sweep[t] EXCEPT !.items = @ \ {c}]
    <3>1. s \in Sweeps
      BY <1>0 DEF Sweeps
    <3>2. sweep' = [sweep EXCEPT ![t] = s]
      BY <1>4, <2>3 DEF Transition
    <3>3. SweepType'
      BY <1>1, <3>1, <3>2
    <3>4. QED
      BY <1>4, <2>3, <3>3 DEF Transition, TypeOK, RequestType
  <2>4. QED
    BY <2>2, <2>3
<1>5. CASE ClearTransition(t)
  <2>1. CASE UNCHANGED promo /\ sweep' = [sweep EXCEPT ![t] = Idle]
    <3>1. SweepType'
      BY <1>1, <1>2, <2>1
    <3>2. QED
      BY <1>5, <2>1, <3>1 DEF ClearTransition, TypeOK, RequestType
  <2>2. CASE /\ ClearMatches(sweep[t].clearing.id, sweep[t].clearing.target,
                             sweep[t].clearing.version + 1)
             /\ Clear(sweep[t].clearing.id)
             /\ sweep' = [sweep EXCEPT ![t].pc = "sweep", ![t].clearing = None]
    <3> DEFINE s == [sweep[t] EXCEPT !.pc = "sweep", !.clearing = None]
    <3>1. s \in Sweeps
      BY <1>0 DEF Sweeps
    <3>2. sweep' = [sweep EXCEPT ![t] = s]
      BY <2>2
    <3>3. SweepType'
      BY <1>1, <3>1, <3>2
    <3>4. promo' \in [Promos -> Rows \cup {None}]
      <4>1. CASE sweep[t].clearing.id \in Promos
        BY <2>2, <4>1, Cleared DEF ClearMatches
      <4>2. CASE sweep[t].clearing.id \notin Promos
        BY <2>2, <4>2 DEF Clear, TypeOK
      <4>3. QED
        BY <4>1, <4>2
    <3>5. QED
      BY <1>5, <3>3, <3>4 DEF ClearTransition, TypeOK, RequestType
  <2>3. QED
    BY <1>5, <2>1, <2>2 DEF ClearTransition
<1>6. CASE EndSweep(t) \/ SweepFails(t)
  <2>1. SweepType'
    BY <1>1, <1>2, <1>6 DEF EndSweep, SweepFails
  <2>2. QED
    BY <1>6, <2>1, PromotionsAssumption DEF EndSweep, SweepFails, Fault, TypeOK, RequestType
<1>7. QED
  BY <1>3, <1>4, <1>5, <1>6 DEF SweepStep

\* Every step keeps the types.
LEMMA TypePromotions == TypeOK /\ NamedExist /\ Next => TypeOK'
<1> SUFFICES ASSUME TypeOK, NamedExist, Next PROVE TypeOK'
  OBVIOUS
<1>1. CASE Tick
  BY <1>1, PromotionsAssumption DEF Tick, TypeOK, RequestType, SweepType
<1>2. QED
  BY <1>1, TypeAdmin, TypeSweep DEF Next

----------------------------------------------------------------------------
(* What a step does to the table, to candidates and to requests.           *)

\* The promotion stays as it is, but for its marker.
Steady(p) ==
  /\ Exists(p)' <=> Exists(p)
  /\ Exists(p) => /\ promo'[p].window = promo[p].window
                  /\ promo'[p].enabled = promo[p].enabled
                  /\ promo'[p].state = promo[p].state
                  /\ promo'[p].version = promo[p].version

\* A new row was written, with its announcement.
Written(p) ==
  \/ \E a \in Admins, w \in Windows, enabled \in BOOLEAN :
       /\ Create(a, p, w, enabled) /\ ~Exists(p)
       /\ promo'[p] = Row(w, enabled, Lifecycle(w, enabled, now), 0, TRUE)
  \/ \E a \in Admins : /\ Write(a) /\ p = request[a].id
                        /\ promo'[p] = request[a].row
  \/ \E t \in Tasks : \E c \in sweep[t].items :
       /\ StillAsRead(c) /\ p = c.id /\ UNCHANGED <<now, clobbered>>
       /\ promo'[p] = Row(promo[p].window, TRUE, c.target, c.version + 1, TRUE)

\* A step writes at most one promotion, and leaves the others alone.
LEMMA TableStep ==
  ASSUME TypeOK, NamedExist, Next, NEW p \in Promos
  PROVE  Steady(p) \/ (Written(p) /\ promo'[p] \in Rows)
<1>1. ASSUME UNCHANGED promo PROVE Steady(p)
  BY <1>1 DEF Steady, Exists
<1>2. ASSUME NEW a \in Admins, NEW q \in Promos, NEW w \in Windows, NEW enabled \in BOOLEAN,
             Create(a, q, w, enabled)
      PROVE  Steady(p) \/ (Written(p) /\ promo'[p] \in Rows)
  <2> DEFINE row == Row(w, enabled, Lifecycle(w, enabled, now), 0, TRUE)
  <2>1. CASE UNCHANGED promo
    BY <1>1, <2>1
  <2>2. CASE ~Exists(q) /\ Announce(q, row)
    <3>0. now \in Nat
      BY PromotionsAssumption DEF TypeOK
    <3>1. row \in Rows
      BY <3>0, NewRow
    <3>2. promo'[q] = row /\ \A x \in Promos : x # q => promo'[x] = promo[x]
      BY <2>2, <3>1, Announced
    <3>3. CASE p = q
      BY <1>2, <2>2, <3>1, <3>2, <3>3 DEF Written
    <3>4. CASE p # q
      BY <3>2, <3>4 DEF Steady, Exists
    <3>5. QED
      BY <3>3, <3>4
  <2>3. QED
    BY <1>2, <2>1, <2>2 DEF Create
<1>3. ASSUME NEW a \in Admins, Write(a)
      PROVE  Steady(p) \/ (Written(p) /\ promo'[p] \in Rows)
  <2>1. request[a].id \in Promos /\ request[a].row \in Rows
    BY <1>3, AtWork DEF Write, Requests
  <2>2. /\ promo'[request[a].id] = request[a].row
        /\ \A x \in Promos : x # request[a].id => promo'[x] = promo[x]
    BY <1>3, <2>1, Announced DEF Write
  <2>3. CASE p = request[a].id
    BY <1>3, <2>1, <2>2, <2>3 DEF Written
  <2>4. CASE p # request[a].id
    BY <2>2, <2>4 DEF Steady, Exists
  <2>5. QED
    BY <2>3, <2>4
<1>4. ASSUME NEW q, Clear(q), Exists(q) PROVE Steady(p)
  <2>1. CASE q \in Promos
    BY <1>4, <2>1, Cleared DEF Steady
  <2>2. CASE q \notin Promos
    BY <1>1, <1>4, <2>2 DEF Clear, TypeOK
  <2>3. QED
    BY <2>1, <2>2
<1>5. ASSUME NEW a \in Admins, FinishRequest(a) PROVE Steady(p)
  BY <1>1, <1>4, <1>5 DEF FinishRequest, ClearMatches
<1>6. ASSUME NEW t \in Tasks, ClearTransition(t) PROVE Steady(p)
  BY <1>1, <1>4, <1>6 DEF ClearTransition, ClearMatches
<1>7. ASSUME NEW t \in Tasks, NEW c \in sweep[t].items, Transition(t, c)
      PROVE  Steady(p) \/ (Written(p) /\ promo'[p] \in Rows)
  <2>1. CASE ~ StillAsRead(c)
    BY <1>1, <1>7, <2>1 DEF Transition
  <2>2. CASE StillAsRead(c)
    <3> DEFINE row == Row(promo[c.id].window, TRUE, c.target, c.version + 1, TRUE)
    <3>1. c \in Candidates
      BY DEF TypeOK, SweepType
    <3>2. promo[c.id] \in Rows /\ c.id \in Promos
      BY <3>1 DEF TypeOK, NamedExist, Exists, Candidates
    <3>3. row \in Rows
      BY <3>1, <3>2, RowFields DEF Row, Rows, Candidates
    <3>4. promo'[c.id] = row /\ \A x \in Promos : x # c.id => promo'[x] = promo[x]
      BY <1>7, <2>2, <3>2, <3>3, Announced DEF Transition
    <3>5. CASE p = c.id
      BY <1>7, <2>2, <3>3, <3>4, <3>5 DEF Written, Transition
    <3>6. CASE p # c.id
      BY <3>4, <3>6 DEF Steady, Exists
    <3>7. QED
      BY <3>5, <3>6
  <2>3. QED
    BY <2>1, <2>2
<1>8. ASSUME NEW a \in Admins, AdminStep(a) \/ RequestFails(a)
      PROVE  Steady(p) \/ (Written(p) /\ promo'[p] \in Rows)
  BY <1>1, <1>2, <1>3, <1>5, <1>8 DEF AdminStep, ReadForUpdate, RequestFails
<1>9. ASSUME NEW t \in Tasks, SweepStep(t) \/ SweepFails(t)
      PROVE  Steady(p) \/ (Written(p) /\ promo'[p] \in Rows)
  BY <1>1, <1>6, <1>7, <1>9 DEF SweepStep, StartSweep, EndSweep, SweepFails
<1>10. QED
  BY <1>1, <1>8, <1>9 DEF Next, Tick

\* A promotion that exists goes on existing.
LEMMA ExistsStays ==
  ASSUME TypeOK, NamedExist, Next, NEW p \in Promos, Exists(p)
  PROVE  Exists(p)'
BY TableStep, RowFields DEF Steady, Exists

\* Candidates are added by the start of a sweep only.
LEMMA SweepsStep ==
  ASSUME TypeOK, Next, NEW t \in Tasks
  PROVE  sweep'[t].items \subseteq sweep[t].items \/ StartSweep(t)
<1>1. ASSUME NEW u \in Tasks, SweepStep(u) \/ SweepFails(u)
      PROVE  sweep'[t].items \subseteq sweep[t].items \/ StartSweep(t)
  <2>1. sweep[u] \in Sweeps
    BY DEF TypeOK, SweepType, Sweeps
  <2>2. CASE t # u
    BY <1>1, <2>2 DEF SweepStep, SweepFails, StartSweep, Transition, ClearTransition, EndSweep,
                      TypeOK, SweepType
  <2>3. CASE t = u
    <3>1. CASE sweep' = [sweep EXCEPT ![u] = Idle]
      BY <2>3, <3>1 DEF Idle, TypeOK, SweepType
    <3>2. ASSUME NEW c \in sweep[u].items, Transition(u, c)
          PROVE  sweep'[u].items \subseteq sweep[u].items
      <4>1. \/ sweep' = [sweep EXCEPT ![u] =
                 [pc |-> "clear", items |-> sweep[u].items \ {c}, clearing |-> c]]
            \/ sweep' = [sweep EXCEPT ![u] = [sweep[u] EXCEPT !.items = sweep[u].items \ {c}]]
        BY <3>2 DEF Transition
      <4>2. sweep'[u].items = sweep[u].items \ {c}
        BY <2>1, <4>1 DEF TypeOK, SweepType, Sweeps
      <4>3. QED
        BY <4>2
    <3>3. CASE sweep' = [sweep EXCEPT ![u].pc = "sweep", ![u].clearing = None]
      BY <2>1, <2>3, <3>3 DEF TypeOK, SweepType, Sweeps
    <3>4. QED
      BY <1>1, <2>3, <3>1, <3>2, <3>3 DEF SweepStep, SweepFails, ClearTransition, EndSweep
  <2>4. QED
    BY <2>2, <2>3
<1>2. ASSUME NEW a \in Admins, AdminStep(a) \/ RequestFails(a) PROVE UNCHANGED sweep
  BY <1>2 DEF AdminStep, RequestFails, Create, ReadForUpdate, Write, FinishRequest
<1>3. QED
  BY <1>1, <1>2 DEF Next, Tick

\* Only ReadForUpdate makes a request one that is about to write.
LEMMA RequestsStep ==
  ASSUME TypeOK, Next, NEW a \in Admins, request'[a].pc = "write"
  PROVE  \/ request'[a] = request[a]
         \/ \E p \in Promos, w \in Windows, enabled \in BOOLEAN : ReadForUpdate(a, p, w, enabled)
<1>1. CASE UNCHANGED request
  BY <1>1
<1>2. ASSUME NEW b \in Admins, AdminStep(b) \/ RequestFails(b), b # a
      PROVE  request'[a] = request[a]
  BY <1>2 DEF AdminStep, RequestFails, Create, ReadForUpdate, Write, FinishRequest, TypeOK,
              RequestType
<1>3. CASE \E p \in Promos, w \in Windows, enabled \in BOOLEAN : Create(a, p, w, enabled)
  <2>1. PICK p \in Promos, w \in Windows, enabled \in BOOLEAN : Create(a, p, w, enabled)
    BY <1>3
  <2> DEFINE row == Row(w, enabled, Lifecycle(w, enabled, now), 0, TRUE)
  <2>2. PICK label \in {"clear", "done"} :
          request' = [request EXCEPT ![a] = [pc |-> label, id |-> p, row |-> row, base |-> 0]]
    BY <2>1 DEF Create
  <2>3. request'[a].pc = label
    BY <2>2 DEF TypeOK, RequestType
  <2>4. request'[a].pc # "write"
    BY <2>3
  <2>5. QED
    BY <2>4
<1>4. CASE Write(a) \/ FinishRequest(a) \/ RequestFails(a)
  <2>1. request[a] \in Requests
    BY <1>4, AtWork DEF Write, FinishRequest, RequestFails
  <2>2. request'[a].pc \in {"clear", "done"}
    BY <1>4, <2>1 DEF Write, FinishRequest, RequestFails, TypeOK, RequestType, Requests
  <2>3. QED
    BY <2>2
<1>5. ASSUME NEW t \in Tasks, SweepStep(t) \/ SweepFails(t) PROVE UNCHANGED request
  BY <1>5 DEF SweepStep, SweepFails, StartSweep, Transition, ClearTransition, EndSweep
<1>6. QED
  BY <1>1, <1>2, <1>3, <1>4, <1>5 DEF Next, AdminStep, Tick

----------------------------------------------------------------------------
(* Until an update replaces a row it has not read.                         *)

\* Time does not go back, and what was replaced unread stays so.
LEMMA ClockStep ==
  ASSUME TypeOK, Next
  PROVE  /\ now \in Nat /\ now' \in Nat /\ now <= now'
         /\ ~clobbered' => ~clobbered
<1>1. now \in Nat
  BY PromotionsAssumption DEF TypeOK
<1>2. \/ UNCHANGED now
      \/ now' = now + 1
  BY DEF Next, AdminStep, SweepStep, Create, ReadForUpdate, Write, FinishRequest, RequestFails,
         StartSweep, Transition, ClearTransition, EndSweep, SweepFails, Tick
<1>3. clobbered => clobbered'
  BY DEF Next, AdminStep, SweepStep, Create, ReadForUpdate, Write, FinishRequest, RequestFails,
         StartSweep, Transition, ClearTransition, EndSweep, SweepFails, Tick
<1>4. QED
  BY <1>1, <1>2, <1>3

\* A state that was due remains due.
LEMMA DueLater ==
  ASSUME NEW row \in Rows, NEW t \in Nat, NEW u \in Nat, t <= u, StateDue(row, t)
  PROVE  StateDue(row, u)
BY RowFields DEF StateDue

\* The moves of a promotion whose window stays and that is and stays enabled.
Forward(p) ==
  promo'[p].window = promo[p].window /\ promo'[p].enabled /\ promo[p].enabled
  /\ promo'[p].state # promo[p].state =>
    \/ /\ promo[p].state = "SCHEDULED" /\ promo'[p].state \in {"ACTIVE", "EXPIRED"}
       /\ promo[p].window.starts <= now
    \/ /\ promo[p].state = "ACTIVE" /\ promo'[p].state = "EXPIRED"
       /\ promo[p].window.ends <= now

\* A row that is written is due, newer than the one before, and a move forward.
LEMMA WrittenRow ==
  ASSUME PromotionsInv, Next, ~clobbered', NEW p \in Promos, Written(p), promo'[p] \in Rows
  PROVE  /\ StateDue(promo'[p], now)
         /\ Exists(p) => promo'[p].version > promo[p].version /\ Forward(p)
<1> USE DEF PromotionsInv
<1>0. now \in Nat /\ ~clobbered
  BY ClockStep
<1>1. ASSUME Exists(p) PROVE promo[p] \in Rows /\ StateDue(promo[p], now)
  BY <1>0, <1>1 DEF TypeOK, Exists
<1>2. ASSUME NEW w \in Windows, NEW enabled \in BOOLEAN, ~Exists(p),
             promo'[p] = Row(w, enabled, Lifecycle(w, enabled, now), 0, TRUE)
      PROVE  StateDue(promo'[p], now) /\ ~Exists(p)
  <2>1. StateDue(Row(w, enabled, Lifecycle(w, enabled, now), 0, TRUE), now)
    BY <1>0, NewRow
  <2>2. QED
    BY <1>2, <2>1
<1>3. ASSUME NEW a \in Admins, Write(a), p = request[a].id, promo'[p] = request[a].row
      PROVE  /\ StateDue(promo'[p], now)
             /\ promo'[p].version > promo[p].version /\ Forward(p)
  <2>1. promo[p].version = request[a].base
    BY <1>3 DEF Write
  <2>2. Exists(p)
    BY <1>3 DEF NamedExist, Write
  <2>3. /\ StateDue(promo'[p], now)
        /\ promo'[p].version = promo[p].version + 1
        /\ promo'[p].window = promo[p].window /\ promo'[p].enabled /\ promo[p].enabled
           => NotBefore(promo'[p].state, promo[p].state)
    BY <1>0, <1>3, <2>1 DEF RequestInv, Write
  <2>4. Forward(p)
    BY <1>1, <2>2, <2>3, <1>0, RowFields, PromotionsAssumption
    DEF Forward, NotBefore, StateDue, States
  <2>5. promo[p].version \in Nat
    BY <1>1, <2>2, RowFields
  <2>6. QED
    BY <2>3, <2>4, <2>5
<1>4. ASSUME NEW t \in Tasks, NEW c \in sweep[t].items, StillAsRead(c), p = c.id,
             promo'[p] = Row(promo[p].window, TRUE, c.target, c.version + 1, TRUE)
      PROVE  /\ StateDue(promo'[p], now)
             /\ promo'[p].version > promo[p].version /\ Forward(p)
  <2>1. Exists(p)
    BY <1>4 DEF NamedExist
  <2>2. c.version = promo[p].version /\ promo[p].enabled /\ c.target = Target(promo[p], now)
    BY <1>0, <1>4 DEF CandidateInv, StillAsRead
  <2>3. c.target # None
    BY NoneAssumption, <1>4 DEF TypeOK, SweepType, Candidates
  <2>4. c.version \in Nat
    BY <1>1, <2>1, <2>2, RowFields
  <2>5. promo'[p] = Row(promo[p].window, TRUE, Target(promo[p], now), promo[p].version + 1, TRUE)
    BY <1>4, <2>2
  <2>6. StateDue(promo'[p], now)
    <3>1. StateDue(Row(promo[p].window, TRUE, Target(promo[p], now), promo[p].version + 1, TRUE),
                   now)
      <4>1. promo[p].version + 1 \in Nat
        BY <2>2, <2>4
      <4>2. Target(promo[p], now) # None
        BY <2>2, <2>3
      <4>3. promo[p] \in Rows /\ StateDue(promo[p], now)
        BY <1>1, <2>1
      <4>4. QED
        BY <1>0, <2>2, <4>1, <4>2, <4>3, MovedRow
    <3>2. QED
      BY <2>5, <3>1
  <2>7. promo'[p].version = promo[p].version + 1 /\ promo'[p].state = Target(promo[p], now)
    BY <2>5 DEF Row
  <2>8. Forward(p)
    BY <2>2, <2>3, <2>7 DEF Forward, Target
  <2>9. QED
    BY <2>2, <2>4, <2>6, <2>7, <2>8
<1>5. QED
  BY <1>2, <1>3, <1>4 DEF Written

\* Rows stay due.
LEMMA RowsKept ==
  ASSUME PromotionsInv, Next, ~clobbered', NEW p \in Promos, Exists(p)'
  PROVE  StateDue(promo'[p], now')
<1>1. TypeOK /\ NamedExist /\ ~clobbered
  BY ClockStep DEF PromotionsInv
<1>2. CASE Steady(p)
  <2>1. promo[p] \in Rows /\ StateDue(promo[p], now)
    BY <1>1, <1>2 DEF PromotionsInv, TypeOK, Exists, Steady
  <2>2. StateDue(promo[p], now')
    BY <1>1, <2>1, ClockStep, DueLater
  <2>3. QED
    BY <1>2, <2>2 DEF Steady, StateDue
<1>3. CASE Written(p) /\ promo'[p] \in Rows
  BY <1>1, <1>3, WrittenRow, ClockStep, DueLater
<1>4. QED
  BY <1>1, <1>2, <1>3, TableStep

\* A fresh sweep's candidates are of promotions that exist.
LEMMA FreshCandidate ==
  ASSUME TypeOK, NEW t \in Tasks, StartSweep(t), NEW c \in sweep'[t].items
  PROVE  \E p \in Promos : /\ Exists(p) /\ promo[p].enabled /\ Target(promo[p], now) # None
                           /\ c = [id |-> p, state |-> promo[p].state,
                                   version |-> promo[p].version, target |-> Target(promo[p], now)]
<1> DEFINE due == {p \in Promos : /\ Exists(p) /\ promo[p].enabled
                                  /\ promo[p].window.starts <= now
                                  /\ Target(promo[p], now) # None}
           cand(p) == [id |-> p, state |-> promo[p].state, version |-> promo[p].version,
                       target |-> Target(promo[p], now)]
<1>1. sweep'[t].items = {cand(p) : p \in due}
  BY DEF StartSweep, TypeOK, SweepType
<1>2. PICK p \in due : c = cand(p)
  BY <1>1
<1>3. QED
  BY <1>2

\* Candidates and rows to write remain those of promotions that exist.
LEMMA NamedKept ==
  ASSUME TypeOK, NamedExist, Next
  PROVE  NamedExist'
<1>1. ASSUME NEW t \in Tasks, NEW c \in sweep'[t].items PROVE Exists(c.id)'
  <2>1. c.id \in Promos /\ Exists(c.id)
    <3>1. CASE c \in sweep[t].items
      BY <3>1 DEF NamedExist, TypeOK, SweepType, Candidates
    <3>2. CASE StartSweep(t)
      BY <1>1, <3>2, FreshCandidate
    <3>3. QED
      BY <1>1, <3>1, <3>2, SweepsStep
  <2>2. QED
    BY <2>1, ExistsStays
<1>2. ASSUME NEW a \in Admins, request'[a].pc = "write" PROVE promo'[request'[a].id] # None
  <2>1. request'[a].id \in Promos /\ Exists(request'[a].id)
    <3>1. CASE request'[a] = request[a]
      BY <1>2, <3>1, AtWork DEF NamedExist, Requests
    <3>2. ASSUME NEW p \in Promos, NEW w \in Windows, NEW enabled \in BOOLEAN,
                 ReadForUpdate(a, p, w, enabled)
          PROVE  request'[a].id \in Promos /\ Exists(request'[a].id)
      BY <3>2 DEF ReadForUpdate, TypeOK, RequestType
    <3>3. QED
      BY <1>2, <3>1, <3>2, RequestsStep
  <2>2. ASSUME NEW p \in Promos, Exists(p) PROVE promo'[p] # None
    BY <2>2, ExistsStays DEF Exists
  <2>3. QED
    BY <2>1, <2>2
<1>3. QED
  BY <1>1, <1>2 DEF NamedExist, Exists

\* A candidate goes on matching only the row it was read from.
LEMMA CandidatesKept ==
  ASSUME PromotionsInv, Next, ~clobbered'
  PROVE  CandidateInv'
<1>0. /\ TypeOK /\ NamedExist /\ ~clobbered /\ now \in Nat /\ now' \in Nat /\ now <= now'
      /\ CandidateInv
  BY ClockStep DEF PromotionsInv
<1> SUFFICES ASSUME NEW t \in Tasks, NEW c \in sweep'[t].items
             PROVE  /\ c.version <= promo'[c.id].version
                    /\ c.version = promo'[c.id].version /\ c.state = promo'[c.id].state
                       => promo'[c.id].enabled /\ c.target = Target(promo'[c.id], now')
  BY DEF CandidateInv
<1>1. /\ c.id \in Promos /\ Exists(c.id) /\ c.target \in States
      /\ c.version <= promo[c.id].version
      /\ c.version = promo[c.id].version /\ c.state = promo[c.id].state
           => promo[c.id].enabled /\ c.target = Target(promo[c.id], now)
  <2>1. CASE c \in sweep[t].items
    BY <1>0, <2>1 DEF NamedExist, CandidateInv, TypeOK, SweepType, Candidates
  <2>2. CASE StartSweep(t)
    <3>1. PICK p \in Promos :
            /\ Exists(p) /\ promo[p].enabled /\ Target(promo[p], now) # None
            /\ c = [id |-> p, state |-> promo[p].state,
                    version |-> promo[p].version, target |-> Target(promo[p], now)]
      BY <1>0, <2>2, FreshCandidate
    <3>2. promo[p].version \in Nat
      BY <1>0, <3>1, RowFields DEF TypeOK, Exists
    <3>3. Target(promo[p], now) \in States
      BY <3>1 DEF Target, States
    <3>4. QED
      BY <3>1, <3>2, <3>3
  <2>3. QED
    BY <1>0, <2>1, <2>2, SweepsStep
<1>2. promo[c.id] \in Rows
  BY <1>0, <1>1 DEF TypeOK, Exists
<1>3. c.version \in Nat
  BY <1>0, TypePromotions DEF TypeOK, SweepType, Candidates
<1>4. CASE Steady(c.id)
  <2>1. Target(promo[c.id], now) # None => Target(promo[c.id], now') = Target(promo[c.id], now)
    BY <1>0, <1>2, RowFields DEF Target
  <2>2. Target(promo'[c.id], now') = Target(promo[c.id], now')
    BY <1>1, <1>4 DEF Steady, Target
  <2>3. c.target # None
    BY <1>1, NoneAssumption
  <2>4. QED
    BY <1>1, <1>4, <2>1, <2>2, <2>3 DEF Steady
<1>5. CASE Written(c.id) /\ promo'[c.id] \in Rows
  <2>1. promo'[c.id].version > promo[c.id].version
    BY <1>1, <1>5, WrittenRow
  <2>2. promo'[c.id].version \in Nat /\ promo[c.id].version \in Nat
    BY <1>2, <1>5, RowFields
  <2>3. QED
    BY <1>1, <1>3, <2>1, <2>2
<1>6. QED
  BY <1>0, <1>1, <1>4, <1>5, TableStep

\* What an administrator is about to write remains what was right.
LEMMA RequestsKept ==
  ASSUME PromotionsInv, Next, ~clobbered'
  PROVE  RequestInv'
<1>0. /\ TypeOK /\ NamedExist /\ ~clobbered /\ now \in Nat /\ now' \in Nat /\ now <= now'
      /\ RequestInv
  BY ClockStep DEF PromotionsInv
<1> SUFFICES ASSUME NEW a \in Admins, NEW r, r = request'[a], r.pc = "write"
             PROVE  LET old == promo'[r.id] IN
                    /\ r.base <= old.version /\ r.row.version = r.base + 1
                    /\ StateDue(r.row, now')
                    /\ r.base = old.version /\ r.row.window = old.window /\ r.row.enabled
                       /\ old.enabled => NotBefore(r.row.state, old.state)
  BY DEF RequestInv
<1> DEFINE old == promo[r.id]
<1>1. r \in Requests
  <2>1. TypeOK'
    BY <1>0, TypePromotions
  <2>2. QED
    BY <2>1 DEF TypeOK, RequestType, NoWork, Requests
<1>2. /\ Exists(r.id)
      /\ r.base <= old.version /\ r.row.version = r.base + 1
      /\ StateDue(r.row, now)
      /\ r.base = old.version /\ r.row.window = old.window /\ r.row.enabled
         /\ old.enabled => NotBefore(r.row.state, old.state)
  <2>1. CASE request'[a] = request[a]
    BY <1>0, <2>1 DEF NamedExist, RequestInv
  <2>2. ASSUME NEW p \in Promos, NEW w \in Windows, NEW enabled \in BOOLEAN,
               ReadForUpdate(a, p, w, enabled)
        PROVE  /\ Exists(r.id)
               /\ r.base <= old.version /\ r.row.version = r.base + 1
               /\ StateDue(r.row, now)
               /\ r.row.window = old.window /\ r.row.enabled /\ old.enabled
                    => NotBefore(r.row.state, old.state)
    <3> DEFINE row == Row(w, enabled, Lifecycle(w, enabled, now), promo[p].version + 1, TRUE)
    <3>1. r = [pc |-> "write", id |-> p, base |-> promo[p].version, row |-> row]
      BY <1>0, <2>2 DEF ReadForUpdate, TypeOK, RequestType
    <3>2. Exists(p) /\ promo[p] \in Rows
      BY <1>0, <2>2 DEF ReadForUpdate, TypeOK, Exists
    <3>3. promo[p].version \in Nat
      BY <3>2, RowFields
    <3>4. StateDue(row, now) /\ row.version = promo[p].version + 1
      <4>1. promo[p].version + 1 \in Nat
        BY <3>3
      <4>2. QED
        BY <1>0, <4>1, NewRow
    <3>5. StateDue(promo[p], now)
      BY <1>0, <3>2 DEF PromotionsInv
    <3>6. row.window = promo[p].window /\ row.enabled /\ promo[p].enabled
            => NotBefore(row.state, promo[p].state)
      BY <1>0, <3>2, <3>5, RowFields, PromotionsAssumption
      DEF Row, Lifecycle, NotBefore, StateDue
    <3>7. r.id = p /\ r.base = promo[p].version /\ r.row = row
      BY <3>1
    <3>8. StateDue(r.row, now) /\ Exists(r.id)
      BY <3>2, <3>4, <3>7
    <3>9. r.base <= old.version /\ r.row.version = r.base + 1
      <4>1. old.version = promo[p].version
        BY <3>7
      <4>2. r.row.version = promo[p].version + 1
        BY <3>4, <3>7
      <4>3. r.base = promo[p].version
        BY <3>7
      <4>4. r.row.version = r.base + 1
        BY Zenon, <4>2, <4>3
      <4>5. promo[p].version <= promo[p].version
        BY <3>3
      <4>6. r.base <= old.version
        BY Zenon, <4>1, <4>3, <4>5
      <4>7. QED
        BY <4>4, <4>6
    <3>10. r.row.window = old.window /\ r.row.enabled /\ old.enabled
             => NotBefore(r.row.state, old.state)
      BY <3>6, <3>7
    <3>11. QED
      BY <3>8, <3>9, <3>10
  <2>3. QED
    BY <1>0, <2>1, <2>2, RequestsStep
<1>3. r.id \in Promos /\ r.row \in Rows /\ r.base \in Nat
  BY <1>1 DEF Requests
<1>4. StateDue(r.row, now')
  BY <1>0, <1>2, <1>3, DueLater
<1>5. CASE Steady(r.id)
  BY <1>2, <1>4, <1>5 DEF Steady
<1>6. CASE Written(r.id) /\ promo'[r.id] \in Rows
  <2>1. promo'[r.id].version > old.version
    BY <1>2, <1>3, <1>6, WrittenRow
  <2>2. promo'[r.id].version \in Nat /\ old.version \in Nat
    BY <1>0, <1>2, <1>3, <1>6, RowFields DEF TypeOK, Exists
  <2>3. QED
    BY <1>2, <1>3, <1>4, <2>1, <2>2
<1>7. QED
  BY <1>0, <1>3, <1>5, <1>6, TableStep

----------------------------------------------------------------------------
(* The theorems.                                                           *)

\* Every step keeps the invariant.
LEMMA PromotionsInductive == PromotionsInv /\ [Next]_vars => PromotionsInv'
<1>1. CASE UNCHANGED vars
  BY <1>1 DEF vars, PromotionsInv, TypeOK, RequestType, SweepType, NamedExist, Exists,
              CandidateInv, RequestInv
<1>2. ASSUME PromotionsInv, Next PROVE PromotionsInv'
  <2>1. TypeOK' /\ NamedExist'
    BY <1>2, TypePromotions, NamedKept DEF PromotionsInv
  <2>2. ASSUME ~clobbered'
        PROVE  /\ \A p \in Promos : Exists(p)' => StateDue(promo'[p], now')
               /\ CandidateInv' /\ RequestInv'
    BY <1>2, <2>2, RowsKept, CandidatesKept, RequestsKept
  <2>3. QED
    BY <2>1, <2>2 DEF PromotionsInv
<1>3. QED
  BY <1>1, <1>2

\* Until an update replaces a row it has not read, no promotion's state is ahead
\* of the clock (reconcile_promotions, update_promotion), for any number of tasks,
\* administrators and faults.
THEOREM PromotionsInvariant == Spec => []PromotionsInv
<1>1. Init => PromotionsInv
  BY InitPromotions
<1>2. QED
  BY <1>1, PromotionsInductive, PTL DEF Spec

\* Until then a promotion moves only forward, only when its time has come, and its
\* revision grows with every move: only one task wins any of them.
THEOREM MovesAreDue == Spec => LifecycleForward
<1>1. PromotionsInv /\ [Next]_vars =>
        [~clobbered' =>
           \A p \in Promos : Exists(p) =>
             /\ promo'[p].version >= promo[p].version
             /\ promo'[p].state # promo[p].state => promo'[p].version > promo[p].version
             /\ promo'[p].window = promo[p].window /\ promo'[p].enabled /\ promo[p].enabled
                /\ promo'[p].state # promo[p].state =>
                  \/ /\ promo[p].state = "SCHEDULED" /\ promo'[p].state \in {"ACTIVE", "EXPIRED"}
                     /\ promo[p].window.starts <= now
                  \/ /\ promo[p].state = "ACTIVE" /\ promo'[p].state = "EXPIRED"
                     /\ promo[p].window.ends <= now]_vars
  <2> SUFFICES ASSUME PromotionsInv, Next, ~clobbered', NEW p \in Promos, Exists(p)
               PROVE  /\ promo'[p].version >= promo[p].version
                      /\ promo'[p].state # promo[p].state
                           => promo'[p].version > promo[p].version
                      /\ Forward(p)
    BY DEF Forward
  <2>1. TypeOK /\ NamedExist
    BY DEF PromotionsInv
  <2>2. promo[p].version \in Nat
    BY <2>1, RowFields DEF TypeOK, Exists
  <2>3. CASE Steady(p)
    BY <2>2, <2>3 DEF Steady, Forward
  <2>4. CASE Written(p) /\ promo'[p] \in Rows
    <3>1. promo'[p].version > promo[p].version /\ Forward(p)
      BY <2>4, WrittenRow
    <3>2. promo'[p].version \in Nat
      BY <2>4, RowFields
    <3>3. QED
      BY <2>2, <3>1, <3>2
  <2>5. QED
    BY <2>1, <2>3, <2>4, TableStep
<1>2. QED
  BY <1>1, PromotionsInvariant, PTL DEF Spec, LifecycleForward
=============================================================================
