----------------------------- MODULE Promotions -----------------------------
(* The lifecycle of promotions in the Product Service.  Prices follow the     *)
(* time window of a promotion; its lifecycleState is a projection that exists *)
(* to announce when prices change: every write of it carries the marker       *)
(* priceEventPending, which makes the table's stream tell browsers to fetch   *)
(* again.  Administrators create and change promotions, and on every task a   *)
(* reconciler moves SCHEDULED to ACTIVE and ACTIVE to EXPIRED.                *)
EXTENDS Naturals

CONSTANTS
  Promos,      \* promotion ids
  Admins,      \* administrators' requests, POST or PUT /v1/promotions, one each
  Tasks,       \* tasks of the service, each with a reconcile_loop
  Windows,     \* the windows administrators ask for
  MaxTime,     \* bound: the clock stops there
  MaxFaults,   \* bound: calls that fail and requests that die
  None

ASSUME PromotionsAssumption ==
  /\ MaxTime \in Nat /\ MaxFaults \in Nat
  /\ Windows \subseteq [starts : Nat, ends : Nat]
  /\ \A w \in Windows : w.starts < w.ends        \* _validate_scope_and_window

VARIABLES
  promo,      \* the promotions table
  now,        \* the clock
  request,    \* per administrator: place in the handler, what it is writing
  sweep,      \* per task: place in reconcile_promotions, its candidates
  seen,       \* ghost: was the promotion active when its last refresh was announced
  clobbered,  \* ghost: an update replaced a row that is not the one it had read
  faults

vars == <<promo, now, request, sweep, seen, clobbered, faults>>

States == {"SCHEDULED", "ACTIVE", "EXPIRED", "DISABLED"}

\* The promotion's window decides its price, whatever its state.
Row(w, enabled, state, version, pending) ==
  [window |-> w, enabled |-> enabled, state |-> state, version |-> version,
   pending |-> pending]

Rows == [window : Windows, enabled : BOOLEAN, state : States, version : Nat,
         pending : BOOLEAN]

ASSUME NoneAssumption == None \notin Rows /\ None \notin States

Exists(p) == promo[p] # None
Active(row, t) == row.enabled /\ row.window.starts <= t /\ t < row.window.ends
ActiveNow(p) == Exists(p) /\ Active(promo[p], now)

\* _promotion_state
Lifecycle(w, enabled, t) ==
  IF ~enabled THEN "DISABLED"
  ELSE IF w.ends <= t THEN "EXPIRED"
  ELSE IF w.starts <= t THEN "ACTIVE" ELSE "SCHEDULED"

\* The move the reconciler owes a row at time t, None when it owes none.
Target(row, t) ==
  IF row.state = "SCHEDULED" /\ row.window.starts <= t THEN "ACTIVE"
  ELSE IF row.state = "ACTIVE" /\ row.window.ends <= t THEN "EXPIRED"
  ELSE None

\* A candidate of a sweep: what the index showed, and the sweep's target.
Candidates == [id : Promos, state : States, version : Nat, target : States]

\* An administrator's write, from the row it read (base: that row's version).
NoWork == [pc |-> "new", id |-> None, row |-> None, base |-> 0]
Idle == [pc |-> "wait", items |-> {}, clearing |-> None]

RequestType ==
  request \in [Admins -> {NoWork} \cup
    [pc : {"write", "clear", "done"}, id : Promos, row : Rows, base : Nat]]

SweepType ==
  sweep \in [Tasks -> [pc : {"wait", "sweep", "clear"}, items : SUBSET Candidates,
                       clearing : Candidates \cup {None}]]

TypeOK ==
  /\ promo \in [Promos -> Rows \cup {None}]
  /\ now \in 0..MaxTime
  /\ RequestType /\ SweepType
  /\ seen \in [Promos -> BOOLEAN]
  /\ clobbered \in BOOLEAN
  /\ faults \in 0..MaxFaults

Init ==
  /\ promo = [p \in Promos |-> None]
  /\ now = 0
  /\ request = [a \in Admins |-> NoWork]
  /\ sweep = [t \in Tasks |-> Idle]
  /\ seen = [p \in Promos |-> FALSE]
  /\ clobbered = FALSE
  /\ faults = 0

Fault == faults < MaxFaults /\ faults' = faults + 1

\* Writes a row with the marker: the stream's record announces a refresh.
Announce(p, row) ==
  /\ promo' = [promo EXCEPT ![p] = row]
  /\ seen' = [seen EXCEPT ![p] = Active(row, now)]

\* _clear_price_event_pending: conditional on the writer's state and version.
ClearMatches(p, state, version) ==
  Exists(p) /\ promo[p].state = state /\ promo[p].version = version

Clear(p) == promo' = [promo EXCEPT ![p].pending = FALSE]

----------------------------------------------------------------------------
(* Administrators.                                                         *)

\* create_promotion, up to its put_item; an id that is taken is a 409.
Create(a, p, w, enabled) ==
  /\ request[a] = NoWork
  /\ LET row == Row(w, enabled, Lifecycle(w, enabled, now), 0, TRUE) IN
     \/ /\ ~Exists(p)
        /\ Announce(p, row)
        /\ request' = [request EXCEPT ![a] =
                         [pc |-> "clear", id |-> p, row |-> row, base |-> 0]]
     \/ /\ Exists(p)
        /\ request' = [request EXCEPT ![a] =
                         [pc |-> "done", id |-> p, row |-> row, base |-> 0]]
        /\ UNCHANGED <<promo, seen>>
  /\ UNCHANGED <<now, sweep, clobbered, faults>>

\* update_promotion: get_promotion, the merged row and the state it has now.
\* A change keeps the window or replaces it, and sets enabled or keeps it.
ReadForUpdate(a, p, w, enabled) ==
  /\ request[a] = NoWork /\ Exists(p)
  /\ request' = [request EXCEPT ![a] =
       [pc |-> "write", id |-> p, base |-> promo[p].version,
        row |-> Row(w, enabled, Lifecycle(w, enabled, now), promo[p].version + 1, TRUE)]]
  /\ UNCHANGED <<promo, now, sweep, seen, clobbered, faults>>

\* Seeded mistake: the update keeps the revision of the row it read.
WriteSameRevision(a) ==
  /\ request[a].pc = "write"
  /\ Announce(request[a].id, [request[a].row EXCEPT !.version = request[a].base])
  /\ clobbered' = (clobbered \/ promo[request[a].id].version # request[a].base)
  /\ request' = [request EXCEPT ![a].pc = "clear"]
  /\ UNCHANGED <<now, sweep, faults>>

\* Seeded mistake: the update does not set the marker.
WriteSilent(a) ==
  /\ request[a].pc = "write"
  /\ promo' = [promo EXCEPT ![request[a].id] = request[a].row]
  /\ clobbered' = (clobbered \/ promo[request[a].id].version # request[a].base)
  /\ request' = [request EXCEPT ![a].pc = "clear"]
  /\ UNCHANGED <<now, sweep, seen, faults>>

\* update_item, conditional only on the row's existence (none is ever deleted).
Write(a) ==
  /\ request[a].pc = "write"
  /\ Announce(request[a].id, request[a].row)
  /\ clobbered' = (clobbered \/ promo[request[a].id].version # request[a].base)
  /\ request' = [request EXCEPT ![a].pc = "clear"]
  /\ UNCHANGED <<now, sweep, faults>>

\* The marker is cleared if the row is still the one that was written; if not,
\* the request ends in an error although its write was done.
FinishRequest(a) ==
  /\ request[a].pc = "clear"
  /\ LET r == request[a] IN
     IF ClearMatches(r.id, r.row.state, r.row.version)
     THEN Clear(r.id) ELSE UNCHANGED promo
  /\ request' = [request EXCEPT ![a].pc = "done"]
  /\ UNCHANGED <<now, sweep, seen, clobbered, faults>>

\* A call of the request fails, or its task dies.
RequestFails(a) ==
  /\ request[a].pc \in {"write", "clear"} /\ Fault
  /\ request' = [request EXCEPT ![a].pc = "done"]
  /\ UNCHANGED <<promo, now, sweep, seen, clobbered>>

----------------------------------------------------------------------------
(* The reconciler of a task.                                               *)

\* The query over the index of enabled promotions that have started, and the
\* candidates among them for which a move is due.
StartSweep(t) ==
  /\ sweep[t].pc = "wait"
  /\ LET due == {p \in Promos : /\ Exists(p) /\ promo[p].enabled
                                /\ promo[p].window.starts <= now
                                /\ Target(promo[p], now) # None}
     IN sweep' = [sweep EXCEPT ![t] =
          [pc |-> "sweep", clearing |-> None,
           items |-> {[id |-> p, state |-> promo[p].state, version |-> promo[p].version,
                       target |-> Target(promo[p], now)] : p \in due}]]
  /\ UNCHANGED <<promo, now, request, seen, clobbered, faults>>

\* The condition of a transition.
StillAsRead(c) ==
  /\ promo[c.id].state = c.state /\ promo[c.id].enabled
  /\ promo[c.id].version = c.version

\* Seeded mistake: the version is not part of the condition.
TransitionUnversioned(t, c) ==
  /\ sweep[t].pc = "sweep" /\ c \in sweep[t].items
  /\ IF promo[c.id].state = c.state /\ promo[c.id].enabled
     THEN /\ Announce(c.id, Row(promo[c.id].window, TRUE, c.target, c.version + 1, TRUE))
          /\ sweep' = [sweep EXCEPT ![t] =
               [pc |-> "clear", items |-> @.items \ {c}, clearing |-> c]]
     ELSE /\ sweep' = [sweep EXCEPT ![t].items = @ \ {c}]
          /\ UNCHANGED <<promo, seen>>
  /\ UNCHANGED <<now, request, clobbered, faults>>

\* One candidate: the conditional update, or another task was faster.
Transition(t, c) ==
  /\ sweep[t].pc = "sweep" /\ c \in sweep[t].items
  /\ IF StillAsRead(c)
     THEN /\ Announce(c.id, Row(promo[c.id].window, TRUE, c.target, c.version + 1, TRUE))
          /\ sweep' = [sweep EXCEPT ![t] =
               [pc |-> "clear", items |-> @.items \ {c}, clearing |-> c]]
     ELSE /\ sweep' = [sweep EXCEPT ![t].items = @ \ {c}]
          /\ UNCHANGED <<promo, seen>>
  /\ UNCHANGED <<now, request, clobbered, faults>>

\* The marker is cleared if the row is still the one that was written; if not,
\* the exception ends the sweep with the candidates that are left.
ClearTransition(t) ==
  /\ sweep[t].pc = "clear"
  /\ LET c == sweep[t].clearing IN
     IF ClearMatches(c.id, c.target, c.version + 1)
     THEN /\ Clear(c.id)
          /\ sweep' = [sweep EXCEPT ![t].pc = "sweep", ![t].clearing = None]
     ELSE /\ sweep' = [sweep EXCEPT ![t] = Idle]
          /\ UNCHANGED promo
  /\ UNCHANGED <<now, request, seen, clobbered, faults>>

\* No candidate is left: the loop waits its interval.
EndSweep(t) ==
  /\ sweep[t].pc = "sweep" /\ sweep[t].items = {}
  /\ sweep' = [sweep EXCEPT ![t] = Idle]
  /\ UNCHANGED <<promo, now, request, seen, clobbered, faults>>

\* A call of the sweep fails and the loop logs it, or the task is replaced.
SweepFails(t) ==
  /\ sweep[t].pc # "wait" /\ Fault
  /\ sweep' = [sweep EXCEPT ![t] = Idle]
  /\ UNCHANGED <<promo, now, request, seen, clobbered>>

----------------------------------------------------------------------------
Tick ==
  /\ now < MaxTime /\ now' = now + 1
  /\ UNCHANGED <<promo, request, sweep, seen, clobbered, faults>>

AdminStep(a) ==
  \/ \E p \in Promos, w \in Windows, enabled \in BOOLEAN :
       Create(a, p, w, enabled) \/ ReadForUpdate(a, p, w, enabled)
  \/ Write(a) \/ FinishRequest(a)

SweepStep(t) ==
  \/ StartSweep(t) \/ ClearTransition(t) \/ EndSweep(t)
  \/ \E c \in sweep[t].items : Transition(t, c)

Next ==
  \/ \E a \in Admins : AdminStep(a) \/ RequestFails(a)
  \/ \E t \in Tasks : SweepStep(t) \/ SweepFails(t)
  \/ Tick

Spec == Init /\ [][Next]_vars

\* Every task keeps sweeping.  Nothing makes administrators act or time pass.
FairSpec == Spec /\ \A t \in Tasks : WF_vars(SweepStep(t))

----------------------------------------------------------------------------
\* The state of a row is not ahead of the clock, and DISABLED means disabled.
StateDue(row, t) ==
  /\ row.state = "ACTIVE" => row.window.starts <= t
  /\ row.state = "EXPIRED" => row.window.ends <= t
  /\ row.state = "DISABLED" <=> ~row.enabled

\* Candidates and rows to write are of promotions that exist.
NamedExist ==
  /\ \A t \in Tasks : \A c \in sweep[t].items : Exists(c.id)
  /\ \A a \in Admins : request[a].pc = "write" => Exists(request[a].id)

\* A row that a candidate still matches is the row the candidate was read from.
CandidateInv ==
  \A t \in Tasks : \A c \in sweep[t].items :
    /\ c.version <= promo[c.id].version
    /\ c.version = promo[c.id].version /\ c.state = promo[c.id].state
         => promo[c.id].enabled /\ c.target = Target(promo[c.id], now)

\* A state that a row of the same window may have after old.
NotBefore(state, old) ==
  /\ old = "ACTIVE" => state \in {"ACTIVE", "EXPIRED"}
  /\ old = "EXPIRED" => state = "EXPIRED"

\* What an administrator is about to write was right when it was computed.
RequestInv ==
  \A a \in Admins :
    request[a].pc = "write" =>
      LET row == request[a].row  old == promo[request[a].id] IN
      /\ request[a].base <= old.version /\ row.version = request[a].base + 1
      /\ StateDue(row, now)
      /\ request[a].base = old.version /\ row.window = old.window /\ row.enabled
         /\ old.enabled => NotBefore(row.state, old.state)

\* The inductive invariant: until an update replaces a row it has not read, no
\* row's state is ahead of the clock, however sweeps, updates and faults interleave.
PromotionsInv ==
  /\ TypeOK /\ NamedExist
  /\ ~clobbered => /\ \A p \in Promos : Exists(p) => StateDue(promo[p], now)
                   /\ CandidateInv /\ RequestInv

\* Until an update replaces a row it has not read, a promotion whose window does
\* not change only moves forward, and only when its time has come, however many
\* tasks sweep ("only one task wins any move"); its revision grows with it.
LifecycleForward ==
  [][~clobbered' =>
       \A p \in Promos : Exists(p) =>
         /\ promo'[p].version >= promo[p].version
         /\ promo'[p].state # promo[p].state => promo'[p].version > promo[p].version
         /\ promo'[p].window = promo[p].window /\ promo'[p].enabled /\ promo[p].enabled
            /\ promo'[p].state # promo[p].state =>
              \/ /\ promo[p].state = "SCHEDULED" /\ promo'[p].state \in {"ACTIVE", "EXPIRED"}
                 /\ promo[p].window.starts <= now
              \/ /\ promo[p].state = "ACTIVE" /\ promo'[p].state = "EXPIRED"
                 /\ promo[p].window.ends <= now]_vars

\* Whenever a promotion begins or ceases to apply, by the clock or by an update,
\* a refresh is announced that finds it so.
RefreshFollows ==
  \A p \in Promos :
    seen[p] # ActiveNow(p) ~> seen[p] = ActiveNow(p) \/ clobbered

\* "a monotonically increasing promotion revision" (ws-push-lambda): the
\* revision that browsers are sent never goes back.
RevisionGrows ==
  [][\A p \in Promos : Exists(p) => promo'[p].version >= promo[p].version]_vars
=============================================================================
