--------------------------- MODULE Notifications ---------------------------
(* From an outbox row to the customer's mail.  Outcomes of the saga wait in *)
(* Aurora for the Inventory Service's threads, which announce them on SNS;  *)
(* delivery milestones wait in DynamoDB for the stream Lambda, which puts   *)
(* them on the event bus.  Both invoke the Notification Lambda, at least    *)
(* once, and Lambda repeats an invocation that failed.  Of SNS messages the *)
(* Lambda keeps an idempotency record (Powertools); of bus events it keeps  *)
(* none.  Rows do not meet on this way, so the module follows one.          *)
EXTENDS Naturals, FiniteSets

CONSTANTS
  Publishers,   \* consumer and relay threads, or runs of the stream Lambda
  Relays,       \* the relay threads among them
  StreamRetries, \* the event source mapping's retries of a failed run: 3
  MaxPublish,   \* bound: announcements of the row
  Copies,       \* bound: how often SNS or the bus delivers each of them
  MaxRetries,   \* Lambda's retries of a failed invocation: 2
  MaxFaults     \* bound: calls that fail, replies that are lost, crashes

Messages == 1..MaxPublish

ASSUME NotificationsAssumption ==
  /\ MaxPublish \in Nat \ {0} /\ Copies \in [Messages -> Nat \ {0}]
  /\ MaxRetries \in Nat /\ MaxFaults \in Nat /\ StreamRetries \in Nat
  /\ IsFiniteSet(Publishers) /\ Relays \subseteq Publishers

Deliveries == UNION {{m} \X (1..Copies[m]) : m \in Messages}

VARIABLES
  path,        \* "sns" or "bus"
  mute,        \* nobody is mailed: PACKING, no recipient, refused by the sandbox
  row,         \* the outbox row's state
  hand,        \* what each publisher has done with the row it read, or that it ended
  failures,    \* failed runs of the stream Lambda
  published,   \* announcements so far; each has a message id of its own
  record,      \* idempotency record of each message, and the run that wrote it
  invocation,  \* of each delivery: what it does next, its failed attempts, and the
               \* run that ended, or was in its way, when it failed last
  mails,       \* history: mails that SES accepted from a delivery
  lost,        \* history: those that the record no longer tells of
  faults

rowVars == <<row, hand, failures, published>>
lambdaVars == <<record, invocation, mails, lost>>
vars == <<path, mute, rowVars, lambdaVars, faults>>

\* A run of the Lambda: one attempt at one delivery of a message.
RunIds == Nat \X (0..MaxRetries)
NoRun == <<0, 0>>
NoRecord == [state |-> "none", by |-> NoRun]

TypeOK ==
  /\ path \in {"sns", "bus"} /\ mute \in BOOLEAN
  /\ row \in {"PENDING", "PUBLISHED"}
  /\ hand \in [Publishers -> {"idle", "holding", "announced", "ended"}]
  /\ failures \in Nat
  /\ published \in 0..MaxPublish
  /\ record \in [Messages -> [state : {"none", "INPROGRESS", "COMPLETED"}, by : RunIds]]
  /\ invocation \in [Deliveries ->
       [at : {"unsent", "start", "deliver", "complete", "release", "waiting", "done", "dropped"},
        tries : 0..MaxRetries, after : RunIds]]
  /\ mails \in [Deliveries -> Nat] /\ lost \in [Deliveries -> Nat]
  /\ faults \in 0..MaxFaults

\* The row is committed.
Init ==
  /\ path \in {"sns", "bus"} /\ mute \in BOOLEAN
  /\ row = "PENDING" /\ hand = [t \in Publishers |-> "idle"]
  /\ failures = 0 /\ published = 0
  /\ record = [m \in Messages |-> NoRecord]
  /\ invocation = [d \in Deliveries |-> [at |-> "unsent", tries |-> 0, after |-> NoRun]]
  /\ mails = [d \in Deliveries |-> 0] /\ lost = [d \in Deliveries |-> 0]
  /\ faults = 0

Fault == faults < MaxFaults /\ faults' = faults + 1

----------------------------------------------------------------------------
(* Announcing the row.                                                      *)

\* A thread selects pending rows, without a lock, next to the other threads: a relay in
\* its loop, a consumer after a command.  The stream has one record in the hands of
\* one run of its Lambda, and gives it up after too many failed ones.
Reads(t) ==
  /\ hand[t] = "idle" /\ row = "PENDING"
  /\ path = "bus" => failures <= StreamRetries /\ \A u \in Publishers : hand[u] = "idle"

Read(t) ==
  /\ Reads(t) /\ hand' = [hand EXCEPT ![t] = "holding"]
  /\ UNCHANGED <<path, mute, row, failures, published, lambdaVars, faults>>

\* A run of the stream Lambda that raises counts as a failed one.
Fails == Fault /\ failures' = IF path = "bus" THEN failures + 1 ELSE failures

\* The read raises, outside the try of publish_once.  A consumer's run_forever catches
\* it; in a relay nothing does, and the thread ends.
ReadFails(t) ==
  /\ Reads(t) /\ Fails
  /\ hand' = IF path = "sns" /\ t \in Relays THEN [hand EXCEPT ![t] = "ended"] ELSE hand
  /\ UNCHANGED <<path, mute, row, published, lambdaVars>>

Publish(t) ==
  /\ hand[t] = "holding" /\ published < MaxPublish
  /\ published' = published + 1
  /\ hand' = [hand EXCEPT ![t] = "announced"]
  /\ UNCHANGED <<path, mute, row, failures, lambdaVars, faults>>

\* Conditional on PENDING: a second mark changes nothing.
Mark(t) ==
  /\ hand[t] = "announced"
  /\ row' = "PUBLISHED" /\ hand' = [hand EXCEPT ![t] = "idle"]
  /\ UNCHANGED <<path, mute, failures, published, lambdaVars, faults>>

\* The announcement or the mark fails: the row is left as it is, for the next poll or
\* the stream's retry.  Or the task dies, which counts once for each thread that it
\* interrupts: ECS starts another, with threads of its own.
GiveUp(t) ==
  /\ hand[t] # "idle" /\ Fails
  /\ hand' = [hand EXCEPT ![t] = "idle"]
  /\ UNCHANGED <<path, mute, row, published, lambdaVars>>

----------------------------------------------------------------------------
(* One delivery of an announcement: an invocation of the Lambda, and its    *)
(* retries.                                                                 *)

Message(d) == d[1]
At(d, stage) == invocation[d].at = stage
Goes(d, stage) == invocation' = [invocation EXCEPT ![d].at = stage]
Running(d) == invocation[d].at \in {"deliver", "complete", "release"}
ThisRun(d) == <<d[2], invocation[d].tries>>
Runs(m, run) == \E d \in Deliveries : Message(d) = m /\ Running(d) /\ ThisRun(d) = run

\* Lambda tries a failed invocation again, a minute later.
Again(d, run) ==
  IF invocation[d].tries < MaxRetries
  THEN invocation' = [invocation EXCEPT ![d] =
         [at |-> "waiting", tries |-> @.tries + 1, after |-> run]]
  ELSE Goes(d, "dropped")

\* SNS or the bus invokes the Lambda; more than once if it likes.
Invoke(d) ==
  /\ At(d, "unsent") /\ Message(d) <= published
  /\ Goes(d, "start")
  /\ UNCHANGED <<path, mute, rowVars, record, mails, lost, faults>>

\* The retry comes when the record that the failed attempt left or met has expired: it
\* lives as long as its run may last, fifteen seconds.
Retry(d) ==
  /\ At(d, "waiting")
  /\ record[Message(d)].state = "INPROGRESS" => record[Message(d)].by # invocation[d].after
  /\ Goes(d, "start")
  /\ UNCHANGED <<path, mute, rowVars, record, mails, lost, faults>>

\* Seeded mistake: SNS messages are delivered without a record, as bus events are.
ClaimNothing(d) ==
  /\ At(d, "start") /\ Goes(d, "deliver")
  /\ UNCHANGED <<path, mute, rowVars, record, mails, lost, faults>>

\* The conditional put of the idempotency record.  A completed one answers for the
\* invocation; one in progress raises IdempotencyAlreadyInProgressError.
Claim(d) ==
  LET m == Message(d) IN
  /\ At(d, "start")
  /\ \/ path = "bus" /\ Goes(d, "deliver") /\ UNCHANGED record
     \/ /\ path = "sns" /\ record[m].state = "none" /\ Goes(d, "deliver")
        /\ record' = [record EXCEPT ![m] = [state |-> "INPROGRESS", by |-> ThisRun(d)]]
     \/ path = "sns" /\ record[m].state = "COMPLETED" /\ Goes(d, "done") /\ UNCHANGED record
     \/ path = "sns" /\ record[m].state = "INPROGRESS" /\ Again(d, record[m].by) /\ UNCHANGED record
  /\ UNCHANGED <<path, mute, rowVars, mails, lost, faults>>

Accepts(d) == mails' = [mails EXCEPT ![d] = @ + 1]
Loses(d) == lost' = [lost EXCEPT ![d] = mails'[d]]

\* Seeded mistake: every error of SES is answered like the sandbox's refusal.
SendSwallowed(d) ==
  /\ At(d, "deliver")
  /\ \/ ~mute /\ Accepts(d) /\ UNCHANGED faults
     \/ mute /\ UNCHANGED <<mails, faults>>
     \/ ~mute /\ Fault /\ UNCHANGED mails
  /\ Goes(d, "complete")
  /\ UNCHANGED <<path, mute, rowVars, record, lost>>

\* deliver: nothing is due, or SES takes the mail, or it fails with or without having
\* taken it.  An address that the sandbox refuses gets its mail rerouted to the
\* fallback, or none.
Send(d) ==
  /\ At(d, "deliver")
  /\ \/ mute /\ Goes(d, "complete") /\ UNCHANGED <<mails, lost, faults>>
     \/ ~mute /\ Accepts(d) /\ Goes(d, "complete") /\ UNCHANGED <<lost, faults>>
     \/ ~mute /\ Fault /\ Goes(d, "release") /\ UNCHANGED <<mails, lost>>
     \/ ~mute /\ Fault /\ Accepts(d) /\ Loses(d) /\ Goes(d, "release")
  /\ UNCHANGED <<path, mute, rowVars, record>>

\* The result is stored in the record.
Complete(d) ==
  /\ At(d, "complete") /\ Goes(d, "done")
  /\ record' = IF path = "sns" THEN [record EXCEPT ![Message(d)].state = "COMPLETED"] ELSE record
  /\ UNCHANGED <<path, mute, rowVars, mails, lost, faults>>

\* After an exception the record is deleted and the exception raised again.
Release(d) ==
  /\ At(d, "release") /\ Again(d, ThisRun(d))
  /\ record' = IF path = "sns" THEN [record EXCEPT ![Message(d)] = NoRecord] ELSE record
  /\ UNCHANGED <<path, mute, rowVars, mails, lost, faults>>

\* The invocation times out, or a call to the idempotency table fails: the record
\* stays as it is.
Crash(d) ==
  /\ Running(d) \/ At(d, "start")
  /\ Fault /\ Again(d, ThisRun(d)) /\ UNCHANGED <<mails, record>>
  /\ IF At(d, "complete") THEN Loses(d) ELSE UNCHANGED lost
  /\ UNCHANGED <<path, mute, rowVars>>

\* Seeded mistake: the Lambda's context is not registered, so that a record in
\* progress has no deadline.
NeverExpires(m) == m \in {} /\ UNCHANGED vars

\* A record in progress is void once the invocation that wrote it cannot run any more.
Expire(m) ==
  /\ record[m].state = "INPROGRESS" /\ ~Runs(m, record[m].by)
  /\ record' = [record EXCEPT ![m] = NoRecord]
  /\ UNCHANGED <<path, mute, rowVars, invocation, mails, lost, faults>>

\* A completed one is kept for an hour; deliveries may be later than that.
Forget(m) ==
  /\ record[m].state = "COMPLETED" /\ Fault
  /\ record' = [record EXCEPT ![m] = NoRecord]
  /\ lost' = [lost EXCEPT ![<<m, record[m].by[1]>>] = mails[<<m, record[m].by[1]>>]]
  /\ UNCHANGED <<path, mute, rowVars, invocation, mails>>

Announce(t) == Read(t) \/ Publish(t) \/ Mark(t)
Handle(d) == Retry(d) \/ Claim(d) \/ Send(d) \/ Complete(d) \/ Release(d)

Next ==
  \/ \E t \in Publishers : Announce(t) \/ ReadFails(t) \/ GiveUp(t)
  \/ \E d \in Deliveries : Invoke(d) \/ Handle(d) \/ Crash(d)
  \/ \E m \in Messages : Expire(m) \/ Forget(m)

\* The relays' loops, while they last, and the stream's retries; whoever holds the row
\* goes on with it.  No command need come that makes a consumer read.  Then the first
\* delivery of an announcement, Lambda's runs and retries, and a record's deadline.
Fairness ==
  /\ \A r \in Relays : WF_vars(Read(r))
  /\ WF_vars(path = "bus" /\ \E t \in Publishers : Read(t))
  /\ \A t \in Publishers : WF_vars(Publish(t) \/ Mark(t))
  /\ \A m \in Messages : WF_vars(Invoke(<<m, 1>>)) /\ WF_vars(Expire(m))
  /\ \A d \in Deliveries : WF_vars(Handle(d) /\ faults' = faults)

Spec == Init /\ [][Next]_vars /\ Fairness

----------------------------------------------------------------------------
Standing(d) == mails[d] > lost[d]

\* An announcement mails its customer once, however often it is delivered, at once or
\* again, and whatever is retried: a further mail needs one whose completion was
\* never recorded, or forgotten.  On the bus this holds of each delivery alone.
OneMail ==
  /\ \A d \in Deliveries : mails[d] <= lost[d] + 1
  /\ path = "sns" => \A d, e \in Deliveries :
       Message(d) = Message(e) /\ Standing(d) /\ Standing(e) => d = e

MailSent(m) == \E d \in Deliveries : Message(d) = m /\ mails[d] > 0

\* What the Lambda reports as done has been mailed: by this delivery or, when a
\* record answered for it, by another one.
DoneIsMailed ==
  ~mute => \A d \in Deliveries : At(d, "done") => MailSent(Message(d))

\* A row is announced once by each publisher that held it when it was first marked,
\* and once more for each failure: on the stream, by one.
AnnouncedOnce ==
  published <= (IF path = "bus" THEN 1 ELSE Cardinality(Publishers)) + faults

\* The customer gets no more mails of a row than its announcements, lost accounts and
\* the threads that announce it side by side can explain.
FewMails == OneMail /\ AnnouncedOnce

\* Types; the record in progress of a running delivery is its own; done is mailed.
NotificationsInv ==
  /\ TypeOK
  /\ path = "sns" => \A d \in Deliveries : Running(d) =>
       record[Message(d)].state = "INPROGRESS" /\ record[Message(d)].by = ThisRun(d)
  /\ DoneIsMailed

\* Nobody is left to announce the row: every relay ended at a read that failed, and no
\* consumer holds it after a command; or the stream gave it up, to its dead-letter queue.
Unannounced ==
  /\ published = 0 /\ \A t \in Publishers : hand[t] # "holding"
  /\ IF path = "sns" THEN \A r \in Relays : hand[r] = "ended" ELSE failures > StreamRetries

\* The customer is mailed in the end, however many calls fail on the way, provided they
\* leave Lambda a retry (MaxFaults <= MaxRetries): but for a row that from some point
\* on nobody announces.
Mailed ==
  (row = "PENDING" /\ ~mute) ~> ([]Unannounced \/ \E m \in Messages : MailSent(m))

\* "The outbox thread retries it independently" (consumer.py): it does not after
\* a read that failed.
RelaysRetry == (path = "sns" /\ row = "PENDING" /\ ~mute) ~> \E m \in Messages : MailSent(m)
=============================================================================
