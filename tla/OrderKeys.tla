------------------------------ MODULE OrderKeys ------------------------------
(* POST /v1/orders with one Idempotency-Key of one user: create_order and    *)
(* the idempotency record it claims, completes and releases.  Records of     *)
(* different keys or users have different ids, so one key is enough.         *)
EXTENDS Naturals, FiniteSets

CONSTANTS
  Requests,   \* requests that carry the key: the first try, retries, misuses
  Body,       \* Body[r]: the fingerprint of the body of r
  Faults,     \* which faults a behaviour may have, see FaultKinds
  MaxFaults,  \* bound: faults in a behaviour
  Absent

VARIABLES
  record,     \* the idempotency record of the key, Absent when there is none
  orders,     \* the requests whose order is in the orders table
  pc, found,  \* per request: its place in create_order, the order to replay
  reply,      \* per request: what the client was answered, and which order
  faults,     \* how many faults there were (bounded by MaxFaults)
  struck      \* ghost: which kinds of fault there were

faultVars == <<faults, struck>>
keysVars == <<record, orders, pc, found, reply, faultVars>>

\* Pricing is unavailable; the transaction fails, or fails after it committed;
\* complete or release raises; the task dies; an eventually consistent read
\* misses a recent write; the record's TTL passes.
FaultKinds == {"pricing", "put", "lost_reply", "complete", "release", "crash",
               "stale_read", "expiry"}

\* A record claimed by a body, or completed with an order; one that complete
\* puts where there is none has no fingerprint.
InProgress(body) == [state |-> "IN_PROGRESS", payloadHash |-> body, orderId |-> Absent]
Records == [state : {"IN_PROGRESS", "COMPLETED"},
            payloadHash : {Body[r] : r \in Requests} \cup {Absent},
            orderId : Requests \cup {Absent}]

ASSUME KeysAssumption ==
  /\ Faults \subseteq FaultKinds /\ MaxFaults \in Nat
  /\ Absent \notin Requests \cup Records /\ \A r \in Requests : Body[r] # Absent

Answer(code, o) == [code |-> code, order |-> o]
Silence == Answer("none", Absent)

\* "failed" stands for the 500, the 503 and the 422 of an unavailable product.
Codes == {"none", "201", "200", "409", "422", "failed"}

KeysTypeOK ==
  /\ record \in Records \cup {Absent}
  /\ orders \subseteq Requests
  /\ pc \in [Requests -> {"idle", "inspect", "replay", "price", "put", "complete",
                          "release", "done"}]
  /\ found \in [Requests -> Requests \cup {Absent}]
  /\ reply \in [Requests -> [code : Codes, order : Requests \cup {Absent}]]
  /\ faults \in 0..MaxFaults /\ struck \subseteq FaultKinds

KeysInit ==
  /\ record = Absent /\ orders = {}
  /\ pc = [r \in Requests |-> "idle"]
  /\ found = [r \in Requests |-> Absent]
  /\ reply = [r \in Requests |-> Silence]
  /\ faults = 0 /\ struck = {}

Fault(kind) ==
  /\ kind \in Faults /\ faults < MaxFaults
  /\ faults' = faults + 1 /\ struck' = struck \cup {kind}
Goto(r, label) == pc' = [pc EXCEPT ![r] = label]
Reply(r, code, o) == Goto(r, "done") /\ reply' = [reply EXCEPT ![r] = Answer(code, o)]

----------------------------------------------------------------------------
(* claim                                                                   *)

\* Seeded mistake: the put has no condition.
ClaimAlways(r) ==
  /\ pc[r] = "idle"
  /\ record' = InProgress(Body[r]) /\ Goto(r, "price")
  /\ UNCHANGED <<orders, found, reply, faultVars>>

\* put_item under attribute_not_exists(id)
Claim(r) ==
  /\ pc[r] = "idle"
  /\ IF record = Absent THEN record' = InProgress(Body[r]) /\ Goto(r, "price")
                      ELSE Goto(r, "inspect") /\ UNCHANGED record
  /\ UNCHANGED <<orders, found, reply, faultVars>>

\* get_item finds no record: released or expired since the put, or the read is
\* stale; the request goes on without a claim.
InspectMissing(r) ==
  /\ pc[r] = "inspect"
  /\ \/ record = Absent /\ UNCHANGED faultVars
     \/ record # Absent /\ Fault("stale_read")
  /\ Goto(r, "price")
  /\ UNCHANGED <<record, orders, found, reply>>

\* Seeded mistake: the fingerprint is not compared.
InspectUnchecked(r) ==
  /\ pc[r] = "inspect" /\ record # Absent
  /\ IF record.state = "COMPLETED"
     THEN found' = [found EXCEPT ![r] = record.orderId] /\ Goto(r, "replay") /\ UNCHANGED reply
     ELSE Reply(r, "409", Absent) /\ UNCHANGED found
  /\ UNCHANGED <<record, orders, faultVars>>

\* Seeded mistake: a claim of the same body counts as the caller's own.
InspectProceeds(r) ==
  /\ pc[r] = "inspect" /\ record # Absent
  /\ \/ /\ record.payloadHash # Body[r]
        /\ Reply(r, "422", Absent) /\ UNCHANGED found
     \/ /\ record.payloadHash = Body[r] /\ record.state = "COMPLETED"
        /\ found' = [found EXCEPT ![r] = record.orderId]
        /\ Goto(r, "replay") /\ UNCHANGED reply
     \/ /\ record.payloadHash = Body[r] /\ record.state = "IN_PROGRESS"
        /\ Goto(r, "price") /\ UNCHANGED <<found, reply>>
  /\ UNCHANGED <<record, orders, faultVars>>

\* The record is there: another body, a replay, or a request in flight.
Inspect(r) ==
  /\ pc[r] = "inspect" /\ record # Absent
  /\ \/ /\ record.payloadHash # Body[r]
        /\ Reply(r, "422", Absent) /\ UNCHANGED found
     \/ /\ record.payloadHash = Body[r] /\ record.state = "COMPLETED"
        /\ found' = [found EXCEPT ![r] = record.orderId]
        /\ Goto(r, "replay") /\ UNCHANGED reply
     \/ /\ record.payloadHash = Body[r] /\ record.state = "IN_PROGRESS"
        /\ Reply(r, "409", Absent) /\ UNCHANGED found
  /\ UNCHANGED <<record, orders, faultVars>>

----------------------------------------------------------------------------
(* create_order after the claim                                            *)

\* repo.get of the order the record names; a miss falls through to pricing.
Replay(r) ==
  /\ pc[r] = "replay"
  /\ \/ found[r] \in orders /\ Reply(r, "200", found[r]) /\ UNCHANGED faultVars
     \/ /\ (found[r] \notin orders /\ UNCHANGED faultVars) \/ Fault("stale_read")
        /\ Goto(r, "price") /\ UNCHANGED reply
  /\ UNCHANGED <<record, orders, found>>

\* prices.quote
Price(r) ==
  /\ pc[r] = "price" /\ Goto(r, "put")
  /\ UNCHANGED <<record, orders, found, reply, faultVars>>

\* PricingUnavailable or ProductUnavailable
PricingFails(r) ==
  /\ pc[r] = "price" /\ Fault("pricing") /\ Goto(r, "release")
  /\ UNCHANGED <<record, orders, found, reply>>

\* put_with_command writes the order under a new id.
PutOrder(r) ==
  /\ pc[r] = "put"
  /\ orders' = orders \cup {r} /\ Goto(r, "complete")
  /\ UNCHANGED <<record, found, reply, faultVars>>

\* The transaction raises; it may have committed, its reply being lost.
PutFails(r) ==
  /\ pc[r] = "put" /\ Goto(r, "release")
  /\ \/ Fault("put") /\ UNCHANGED orders
     \/ Fault("lost_reply") /\ orders' = orders \cup {r}
  /\ UNCHANGED <<record, found, reply>>

\* complete: an update without a condition, which puts a record if there is none.
Complete(r) ==
  /\ pc[r] = "complete"
  /\ record' = [state |-> "COMPLETED", orderId |-> r,
                payloadHash |-> IF record = Absent THEN Absent ELSE record.payloadHash]
  /\ Reply(r, "201", r)
  /\ UNCHANGED <<orders, found, faultVars>>

\* release deletes the record, whoever claimed it.
Release(r) ==
  /\ pc[r] = "release"
  /\ record' = Absent /\ Reply(r, "failed", Absent)
  /\ UNCHANGED <<orders, found, faultVars>>

\* complete or release raises: the request ends in a 500,
\* the record stays as it is.
RecordFails(r) ==
  /\ pc[r] \in {"complete", "release"} /\ Fault(pc[r]) /\ Reply(r, "failed", Absent)
  /\ UNCHANGED <<record, orders, found>>

\* The task dies; the client sees no answer.
Crash(r) ==
  /\ pc[r] \notin {"idle", "done"} /\ Fault("crash") /\ Goto(r, "done")
  /\ UNCHANGED <<record, orders, found, reply>>

\* The TTL is a day: a record expires when the request that wrote it is over.
Expire ==
  /\ record # Absent /\ Fault("expiry")
  /\ \A r \in Requests : pc[r] \in {"idle", "inspect", "replay", "done"}
  /\ record' = Absent
  /\ UNCHANGED <<orders, pc, found, reply>>

CreateOrder(r) ==
  \/ Claim(r) \/ InspectMissing(r) \/ Inspect(r) \/ Replay(r)
  \/ Price(r) \/ PricingFails(r) \/ PutOrder(r) \/ PutFails(r)
  \/ Complete(r) \/ Release(r) \/ RecordFails(r) \/ Crash(r)

KeysNext == (\E r \in Requests : CreateOrder(r)) \/ Expire

KeysSpec == KeysInit /\ [][KeysNext]_keysVars

----------------------------------------------------------------------------
\* Two orders are never created for one key: concurrent duplicates race on the
\* conditional put, "exactly one wins", retries replay.
OneOrder == \A r, q \in orders : r = q

\* No request is answered with an order of another body.
BodyHonoured ==
  \A r \in Requests : reply[r].order # Absent => Body[reply[r].order] = Body[r]

\* Whoever was told of an order was told of one that exists.
ReplyIsReal == \A r \in Requests : reply[r].order # Absent => reply[r].order \in orders

\* When all requests are over, no claim is left behind for a retry to meet.
NoClaimLeft ==
  (\A r \in Requests : pc[r] \in {"idle", "done"}) =>
    record = Absent \/ record.state = "COMPLETED"

\* Requests between their claim and the end of create_order.
Working == {r \in Requests : pc[r] \in {"price", "put", "complete", "release"}}

\* No fault so far took a record away from a request that goes on.
Exclusive == struck \cap {"pricing", "put", "lost_reply", "stale_read", "expiry"} = {}

\* No fault so far ended a request that has a record to update.
Tidy == struck \cap {"complete", "release", "crash"} = {}

\* What every behaviour keeps: orders are named only once they exist.
NamedExists ==
  /\ ReplyIsReal
  /\ record # Absent /\ record.state = "COMPLETED" => record.orderId \in orders
  /\ \A r \in Requests : /\ found[r] # Absent => found[r] \in orders
                         /\ pc[r] = "replay" => found[r] # Absent
                         /\ pc[r] = "complete" => r \in orders
                         /\ r \in orders => pc[r] \in {"complete", "release", "done"}

\* While claims are exclusive, the one request at work owns the record, and all
\* that was created or answered is of the record's body.
ClaimInv ==
  /\ OneOrder /\ BodyHonoured
  /\ record = Absent => \A r \in Requests : pc[r] = "idle"
  /\ \A r \in orders : record.payloadHash = Body[r]
  /\ \A r \in Working :
       /\ record = InProgress(Body[r]) /\ pc[r] # "release" /\ orders \subseteq {r}
       /\ \A q \in Working : r = q
       /\ r \in orders => pc[r] = "complete"
  /\ \A r \in Requests : found[r] # Absent => Body[found[r]] = Body[r]

\* An unfinished claim has a request at work.
OwnedInv == record # Absent /\ record.state = "IN_PROGRESS" => Working # {}

\* The inductive invariant.
KeysInv ==
  /\ KeysTypeOK /\ NamedExists
  /\ Exclusive => ClaimInv
  /\ Tidy => OwnedInv

\* Until a fault takes a claim away, however requests and crashes interleave,
\* the key makes one order and nobody is answered with another body's order.
ExclusiveSafe == Exclusive => OneOrder /\ BodyHonoured

\* Failed pricing, failed transactions, lost replies and stale reads leave no
\* claim behind that a retry would meet.
TidySafe == Tidy => NoClaimLeft

\* Until a fault takes a claim away, the record changes only from nothing to a
\* claim and from a claim to its order: a completed record is final.
CompletedStays ==
  [][Exclusive' /\ record # Absent /\ record.state = "COMPLETED" => record' = record]_keysVars
=============================================================================
