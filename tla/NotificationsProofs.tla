------------------------ MODULE NotificationsProofs ------------------------
(* Theorems about Notifications, for any number of publishers, messages,    *)
(* deliveries, retries and faults.                                          *)
EXTENDS Notifications, FiniteSetTheorems, TLAPS

\* The record in progress of a running delivery is its own: the Lambda mails under it.
HoldInv ==
  path = "sns" => \A d \in Deliveries : Running(d) =>
    record[Message(d)].state = "INPROGRESS" /\ record[Message(d)].by = ThisRun(d)

\* Where the one standing mail of a message is accounted for: by the delivery that is
\* about to complete the record, by the record, or, on the bus, by nothing but its end.
CreditInv ==
  \A d \in Deliveries :
    /\ mails[d] <= lost[d] + 1
    /\ Standing(d) => \/ At(d, "complete")
                      \/ path = "bus" /\ At(d, "done")
                      \/ /\ path = "sns" /\ record[Message(d)].state = "COMPLETED"
                         /\ record[Message(d)].by[1] = d[2]

\* A completed record, and a delivery that completes or is done, tell of a mail.
DoneInv ==
  ~mute => /\ \A d \in Deliveries : At(d, "complete") \/ At(d, "done") => MailSent(Message(d))
           /\ \A m \in Messages : record[m].state = "COMPLETED" => MailSent(m)

Inv == TypeOK /\ HoldInv /\ CreditInv /\ DoneInv

----------------------------------------------------------------------------
\* A delivery is a message and the number of the copy.
LEMMA DeliveryIsPair ==
  ASSUME NEW d \in Deliveries
  PROVE  Message(d) \in Messages /\ d[2] \in Nat /\ d = <<Message(d), d[2]>>
<1>1. PICK m \in Messages : d \in {m} \X (1..Copies[m])
  BY DEF Deliveries
<1>2. 1..Copies[m] \subseteq Nat
  BY NotificationsAssumption
<1>. QED
  BY <1>1, <1>2 DEF Message

\* A run is identified by its message, copy and attempt.
LEMMA RunsAreIds ==
  ASSUME TypeOK, NEW d \in Deliveries
  PROVE  ThisRun(d) \in RunIds /\ ThisRun(d)[1] = d[2] /\ NoRun \in RunIds
BY DeliveryIsPair, NotificationsAssumption DEF TypeOK, ThisRun, RunIds, NoRun

\* No two deliveries of an SNS message run at once.
LEMMA OneRuns ==
  ASSUME TypeOK, HoldInv, path = "sns", NEW d \in Deliveries, NEW e \in Deliveries,
         Message(d) = Message(e), Running(d), Running(e)
  PROVE  d = e
<1>1. ThisRun(d) = ThisRun(e)
  BY DEF HoldInv
<1>. QED
  BY <1>1, DeliveryIsPair, RunsAreIds

\* What a failed attempt leaves of its delivery: not running, and not done.
LEMMA AgainStops ==
  ASSUME TypeOK, NEW d \in Deliveries, NEW run \in RunIds, Again(d, run)
  PROVE  /\ invocation' \in [Deliveries ->
              [at : {"unsent", "start", "deliver", "complete", "release", "waiting", "done", "dropped"},
               tries : 0..MaxRetries, after : RunIds]]
         /\ invocation'[d].at \in {"waiting", "dropped"}
         /\ \A e \in Deliveries : e # d => invocation'[e] = invocation[e]
<1>1. MaxRetries \in Nat /\ invocation[d].tries \in 0..MaxRetries
  BY NotificationsAssumption DEF TypeOK
<1>2. CASE invocation[d].tries < MaxRetries
  <2> DEFINE next == [at |-> "waiting", tries |-> invocation[d].tries + 1, after |-> run]
  <2>1. invocation[d].tries + 1 \in 0..MaxRetries
    BY <1>1, <1>2
  <2>2. next \in [at : {"unsent", "start", "deliver", "complete", "release", "waiting", "done", "dropped"},
                  tries : 0..MaxRetries, after : RunIds]
    BY <2>1
  <2>3. invocation' = [invocation EXCEPT ![d] = next]
    BY <1>2 DEF Again
  <2>. HIDE DEF next
  <2>4. next.at = "waiting"
    BY DEF next
  <2>. QED
    BY <2>2, <2>3, <2>4 DEF TypeOK
<1>3. CASE ~(invocation[d].tries < MaxRetries)
  <2>1. invocation' = [invocation EXCEPT ![d].at = "dropped"]
    BY <1>3 DEF Again, Goes
  <2>. QED
    BY <2>1 DEF TypeOK
<1>. QED
  BY <1>2, <1>3

\* A step of an invocation changes the stage of its delivery only.
LEMMA GoesThere ==
  ASSUME TypeOK, NEW d \in Deliveries,
         NEW stage \in {"start", "deliver", "complete", "release", "done", "dropped"}, Goes(d, stage)
  PROVE  /\ invocation' \in [Deliveries ->
              [at : {"unsent", "start", "deliver", "complete", "release", "waiting", "done", "dropped"},
               tries : 0..MaxRetries, after : RunIds]]
         /\ invocation'[d].at = stage /\ invocation'[d].tries = invocation[d].tries
         /\ \A e \in Deliveries : e # d => invocation'[e] = invocation[e]
BY DEF TypeOK, Goes

----------------------------------------------------------------------------
\* The initial state keeps the invariant.
LEMMA Initially == Init => Inv
<1> SUFFICES ASSUME Init PROVE Inv
  OBVIOUS
<1>0. NoRun \in RunIds
  BY NotificationsAssumption DEF RunIds, NoRun
<1>1. TypeOK
  BY <1>0, NotificationsAssumption DEF Init, TypeOK, NoRecord
<1>2. HoldInv
  BY DEF Init, HoldInv, Running
<1>3. CreditInv
  BY DEF Init, CreditInv, Standing
<1>4. DoneInv
  BY DEF Init, DoneInv, At, NoRecord
<1>. QED
  BY <1>1, <1>2, <1>3, <1>4 DEF Inv

\* What the publishers do is of no concern to the invocations.
LEMMA PublishersKeep ==
  ASSUME Inv, NEW t \in Publishers, Announce(t) \/ ReadFails(t) \/ GiveUp(t)
  PROVE  Inv'
<1>1. UNCHANGED <<path, mute, lambdaVars>>
  BY DEF Announce, Read, ReadFails, Publish, Mark, GiveUp
<1>2. TypeOK'
  <2>1. CASE Announce(t)
    BY <2>1, NotificationsAssumption DEF Inv, TypeOK, Announce, Read, Publish, Mark, lambdaVars
  <2>2. CASE ReadFails(t) \/ GiveUp(t)
    BY <2>2, NotificationsAssumption DEF Inv, TypeOK, ReadFails, GiveUp, Fails, Fault, lambdaVars
  <2>. QED
    BY <2>1, <2>2
<1>3. HoldInv' /\ CreditInv' /\ DoneInv'
  BY <1>1 DEF Inv, HoldInv, CreditInv, DoneInv, Running, Standing, At, ThisRun, MailSent, lambdaVars
<1>. QED
  BY <1>2, <1>3 DEF Inv

\* An invocation that starts holds no record and has sent no mail yet.
LEMMA StartsKeep ==
  ASSUME Inv, NEW d \in Deliveries, Invoke(d) \/ Retry(d)
  PROVE  Inv'
<1> USE DEF Inv
<1>1. Goes(d, "start") /\ invocation[d].at \in {"unsent", "waiting"}
  BY DEF Invoke, Retry, At
<1>2. UNCHANGED <<path, mute, rowVars, record, mails, lost, faults>>
  BY DEF Invoke, Retry
<1>3. TypeOK'
  BY <1>1, <1>2, GoesThere DEF TypeOK, rowVars
<1>4. HoldInv'
  BY <1>1, <1>2, GoesThere DEF HoldInv, Running, ThisRun
<1>5. CreditInv'
  BY <1>1, <1>2, GoesThere DEF CreditInv, Standing, At
<1>6. DoneInv'
  BY <1>1, <1>2, GoesThere DEF DoneInv, At, MailSent
<1>. QED
  BY <1>3, <1>4, <1>5, <1>6

\* A claim takes a record that nobody runs under, or ends or fails the attempt.
LEMMA ClaimKeeps ==
  ASSUME Inv, NEW d \in Deliveries, Claim(d)
  PROVE  Inv'
<1> USE DEF Inv
<1> DEFINE m == Message(d)
<1>0. m \in Messages /\ invocation[d].at = "start" /\ ThisRun(d) \in RunIds /\ record[m].by \in RunIds
      /\ UNCHANGED <<path, mute, rowVars, mails, lost, faults>>
  BY DeliveryIsPair, RunsAreIds DEF Claim, At, TypeOK
<1>1. CASE path = "bus" /\ Goes(d, "deliver") /\ UNCHANGED record
  <2>1. TypeOK' /\ HoldInv'
    BY <1>0, <1>1, GoesThere DEF TypeOK, rowVars, HoldInv
  <2>2. CreditInv' /\ DoneInv'
    BY <1>0, <1>1, GoesThere DEF CreditInv, DoneInv, Standing, At, MailSent
  <2>. QED
    BY <2>1, <2>2
<1>2. CASE path = "sns" /\ record[m].state = "none" /\ Goes(d, "deliver")
           /\ record' = [record EXCEPT ![m] = [state |-> "INPROGRESS", by |-> ThisRun(d)]]
  <2>1. TypeOK'
    BY <1>0, <1>2, GoesThere DEF TypeOK, rowVars
  <2>2. HoldInv'
    <3>1. \A e \in Deliveries : Running(e) => Message(e) # m
      BY <1>2 DEF HoldInv
    <3>2. ThisRun(d)' = ThisRun(d)
      BY <1>2, GoesThere DEF ThisRun
    <3>. QED
      BY <1>0, <1>2, <3>1, <3>2, GoesThere, DeliveryIsPair DEF HoldInv, Running, ThisRun, TypeOK
  <2>3. CreditInv'
    BY <1>0, <1>2, GoesThere, DeliveryIsPair DEF CreditInv, Standing, At, TypeOK
  <2>4. DoneInv'
    BY <1>0, <1>2, GoesThere DEF DoneInv, At, MailSent, TypeOK
  <2>. QED
    BY <2>1, <2>2, <2>3, <2>4
<1>3. CASE path = "sns" /\ record[m].state = "COMPLETED" /\ Goes(d, "done") /\ UNCHANGED record
  <2>1. TypeOK'
    BY <1>0, <1>3, GoesThere DEF TypeOK, rowVars
  <2>2. HoldInv'
    BY <1>0, <1>3, GoesThere DEF HoldInv, Running, ThisRun
  <2>3. CreditInv'
    BY <1>0, <1>3, GoesThere DEF CreditInv, Standing, At
  <2>4. DoneInv'
    BY <1>0, <1>3, GoesThere DEF DoneInv, At, MailSent
  <2>. QED
    BY <2>1, <2>2, <2>3, <2>4
<1>4. CASE path = "sns" /\ record[m].state = "INPROGRESS" /\ Again(d, record[m].by) /\ UNCHANGED record
  <2>1. TypeOK'
    BY <1>0, <1>4, AgainStops DEF TypeOK, rowVars
  <2>2. HoldInv'
    BY <1>0, <1>4, AgainStops DEF HoldInv, Running, ThisRun
  <2>3. CreditInv'
    BY <1>0, <1>4, AgainStops DEF CreditInv, Standing, At
  <2>4. DoneInv'
    BY <1>0, <1>4, AgainStops DEF DoneInv, At, MailSent
  <2>. QED
    BY <2>1, <2>2, <2>3, <2>4
<1>. QED
  BY <1>1, <1>2, <1>3, <1>4 DEF Claim

\* A running delivery of SNS: no other of its message has a standing mail.
LEMMA RunnerAlone ==
  ASSUME Inv, path = "sns", NEW d \in Deliveries, Running(d),
         NEW e \in Deliveries, Message(e) = Message(d), Standing(e)
  PROVE  e = d /\ At(d, "complete")
<1> USE DEF Inv
<1>1. record[Message(d)].state = "INPROGRESS"
  BY DEF HoldInv
<1>2. At(e, "complete")
  BY <1>1 DEF CreditInv
<1>3. Running(e)
  BY <1>2 DEF Running, At
<1>. QED
  BY <1>2, <1>3, OneRuns

\* Sending counts one mail, which the delivery is about to record, unless its reply is lost.
LEMMA SendKeeps ==
  ASSUME Inv, NEW d \in Deliveries, Send(d)
  PROVE  Inv'
<1> USE DEF Inv
<1>0. /\ invocation[d].at = "deliver" /\ Running(d) /\ ~Standing(d)
      /\ UNCHANGED <<path, mute, rowVars, record>>
  <2>1. invocation[d].at = "deliver" /\ UNCHANGED <<path, mute, rowVars, record>>
    BY DEF Send, At
  <2>2. Running(d)
    BY <2>1 DEF Running
  <2>. QED
    BY <2>1, <2>2 DEF At, CreditInv, HoldInv
<1>1. PICK stage \in {"complete", "release"} : Goes(d, stage) /\ (stage = "release" => ~mute)
  BY DEF Send
<1>2. /\ mails' \in [Deliveries -> Nat] /\ lost' \in [Deliveries -> Nat]
      /\ \A e \in Deliveries : e # d => mails'[e] = mails[e] /\ lost'[e] = lost[e]
      /\ \A e \in Deliveries : mails'[e] >= mails[e]
      /\ faults' \in 0..MaxFaults
  BY NotificationsAssumption DEF Send, Accepts, Loses, Fault, TypeOK
<1>3. /\ mails'[d] <= lost'[d] + 1
      /\ stage = "release" => mails'[d] <= lost'[d]
      /\ stage = "complete" /\ ~mute => mails'[d] > 0
  <2>1. mails[d] <= lost[d] /\ mails[d] \in Nat /\ lost[d] \in Nat
    BY <1>0 DEF Standing, TypeOK
  <2>2. invocation'[d].at = stage
    BY <1>1, GoesThere
  <2>3. CASE mute /\ Goes(d, "complete") /\ UNCHANGED <<mails, lost, faults>>
    BY <2>1, <2>3, <1>1
  <2>4. CASE ~mute /\ Accepts(d) /\ Goes(d, "complete") /\ UNCHANGED <<lost, faults>>
    BY <2>1, <2>2, <2>4, GoesThere DEF Accepts, TypeOK
  <2>5. CASE ~mute /\ Fault /\ Goes(d, "release") /\ UNCHANGED <<mails, lost>>
    BY <2>1, <2>2, <2>5, GoesThere
  <2>6. CASE ~mute /\ Fault /\ Accepts(d) /\ Loses(d) /\ Goes(d, "release")
    BY <2>1, <2>2, <2>6, GoesThere DEF Accepts, Loses, TypeOK
  <2>. QED
    BY <2>3, <2>4, <2>5, <2>6 DEF Send
<1>4. TypeOK'
  BY <1>0, <1>1, <1>2, GoesThere DEF TypeOK, rowVars
<1>5. HoldInv'
  BY <1>0, <1>1, GoesThere DEF HoldInv, Running, ThisRun
<1>6. CreditInv'
  <2> SUFFICES ASSUME NEW e \in Deliveries
               PROVE  /\ mails'[e] <= lost'[e] + 1
                      /\ Standing(e)' => \/ At(e, "complete")'
                                         \/ path' = "bus" /\ At(e, "done")'
                                         \/ /\ path' = "sns" /\ record'[Message(e)].state = "COMPLETED"
                                            /\ record'[Message(e)].by[1] = e[2]
    BY DEF CreditInv, Message
  <2>1. CASE e = d
    BY <2>1, <1>1, <1>2, <1>3, GoesThere DEF Standing, At
  <2>2. CASE e # d
    BY <2>2, <1>0, <1>1, <1>2, GoesThere DEF CreditInv, Standing, At
  <2>. QED
    BY <2>1, <2>2
<1>7. DoneInv'
  <2> SUFFICES ASSUME ~mute PROVE DoneInv'
    BY <1>0 DEF DoneInv
  <2>1. \A m : MailSent(m) => MailSent(m)'
    BY <1>2 DEF MailSent, TypeOK
  <2>2. At(d, "complete")' => MailSent(Message(d))'
    <3> SUFFICES ASSUME At(d, "complete")' PROVE MailSent(Message(d))'
      OBVIOUS
    <3>1. stage = "complete"
      BY <1>1, GoesThere DEF At
    <3>. QED
      BY <3>1, <1>3 DEF MailSent, Message
  <2>3. ~At(d, "done")'
    BY <1>1, GoesThere DEF At
  <2>4. \A e \in Deliveries : e # d /\ (At(e, "complete") \/ At(e, "done"))' => MailSent(Message(e))'
    BY <2>1, <1>1, GoesThere DEF DoneInv, At, Message
  <2>. QED
    BY <2>1, <2>2, <2>3, <2>4, <1>0 DEF DoneInv, At, Message
<1>. QED
  BY <1>4, <1>5, <1>6, <1>7

\* The record takes over the account of the mail.
LEMMA CompleteKeeps ==
  ASSUME Inv, NEW d \in Deliveries, Complete(d)
  PROVE  Inv'
<1> USE DEF Inv
<1>0. /\ invocation[d].at = "complete" /\ Running(d) /\ Goes(d, "done") /\ Message(d) \in Messages
      /\ UNCHANGED <<path, mute, rowVars, mails, lost, faults>>
  BY DeliveryIsPair DEF Complete, At, Running
<1>1. path = "sns" => record' = [record EXCEPT ![Message(d)].state = "COMPLETED"]
                      /\ record[Message(d)].state = "INPROGRESS" /\ record[Message(d)].by = ThisRun(d)
  BY <1>0 DEF Complete, HoldInv
<1>2. path # "sns" => UNCHANGED record
  BY DEF Complete
<1>3. TypeOK'
  <2>1. record' \in [Messages -> [state : {"none", "INPROGRESS", "COMPLETED"}, by : RunIds]]
    BY <1>0, <1>1, <1>2 DEF TypeOK
  <2>. QED
    BY <2>1, <1>0, GoesThere DEF TypeOK, rowVars
<1>4. HoldInv'
  <2>1. path = "sns" => \A e \in Deliveries : e # d /\ Running(e) => Message(e) # Message(d)
    BY <1>0, OneRuns
  <2>. QED
    BY <2>1, <1>0, <1>1, GoesThere, DeliveryIsPair DEF HoldInv, Running, ThisRun, TypeOK
<1>5. CreditInv'
  <2> SUFFICES ASSUME NEW e \in Deliveries, Standing(e)'
               PROVE  \/ At(e, "complete")'
                      \/ path' = "bus" /\ At(e, "done")'
                      \/ /\ path' = "sns" /\ record'[Message(e)].state = "COMPLETED"
                         /\ record'[Message(e)].by[1] = e[2]
    BY <1>0 DEF CreditInv, Message, Standing
  <2>0. Standing(e) /\ path \in {"sns", "bus"} /\ path' = path
    BY <1>0 DEF Standing, TypeOK
  <2>1. CASE e = d /\ path = "bus"
    BY <2>0, <2>1, <1>0, GoesThere DEF At
  <2>2. CASE e = d /\ path = "sns"
    BY <2>0, <2>2, <1>0, <1>1, RunsAreIds DEF TypeOK
  <2>3. CASE e # d /\ path = "sns"
    <3>1. Message(e) # Message(d)
      BY <2>0, <2>3, <1>0, RunnerAlone
    <3>. QED
      BY <3>1, <2>0, <2>3, <1>0, <1>1, GoesThere, DeliveryIsPair DEF CreditInv, At, TypeOK
  <2>4. CASE e # d /\ path = "bus"
    BY <2>0, <2>4, <1>0, <1>2, GoesThere DEF CreditInv, At
  <2>. QED
    BY <2>0, <2>1, <2>2, <2>3, <2>4
<1>6. DoneInv'
  <2> SUFFICES ASSUME ~mute PROVE DoneInv'
    BY <1>0 DEF DoneInv
  <2>1. MailSent(Message(d)) /\ \A m : MailSent(m) => MailSent(m)'
    BY <1>0 DEF DoneInv, At, MailSent
  <2>2. \A e \in Deliveries : (At(e, "complete") \/ At(e, "done"))' => MailSent(Message(e))'
    BY <2>1, <1>0, GoesThere DEF DoneInv, At, Message
  <2>3. \A m \in Messages : record'[m].state = "COMPLETED" => MailSent(m)'
    BY <2>1, <1>0, <1>1, <1>2 DEF DoneInv, TypeOK
  <2>. QED
    BY <2>2, <2>3 DEF DoneInv, At, Message
<1>. QED
  BY <1>3, <1>4, <1>5, <1>6

\* A record that goes while nobody runs under it, or with its own run, takes no account
\* of a standing mail with it.
LEMMA ReleaseKeeps ==
  ASSUME Inv, NEW d \in Deliveries, Release(d)
  PROVE  Inv'
<1> USE DEF Inv
<1>0. /\ invocation[d].at = "release" /\ Running(d) /\ Message(d) \in Messages
      /\ UNCHANGED <<path, mute, rowVars, mails, lost, faults>>
      /\ Again(d, ThisRun(d)) /\ ThisRun(d) \in RunIds
  BY DeliveryIsPair, RunsAreIds DEF Release, At, Running
<1>1. path = "sns" => record' = [record EXCEPT ![Message(d)] = NoRecord]
  BY DEF Release
<1>2. path # "sns" => UNCHANGED record
  BY DEF Release
<1>3. NoRecord \in [state : {"none", "INPROGRESS", "COMPLETED"}, by : RunIds] /\ NoRecord.state = "none"
  BY RunsAreIds DEF NoRecord
<1>4. TypeOK'
  BY <1>0, <1>1, <1>2, <1>3, AgainStops DEF TypeOK, rowVars
<1>5. HoldInv'
  <2>1. path = "sns" => \A e \in Deliveries : e # d /\ Running(e) => Message(e) # Message(d)
    BY <1>0, OneRuns
  <2>. QED
    BY <2>1, <1>0, <1>1, AgainStops, DeliveryIsPair DEF HoldInv, Running, ThisRun, TypeOK
<1>6. CreditInv'
  <2>1. ~Standing(d)
    BY <1>0 DEF CreditInv, At, HoldInv
  <2>2. path = "sns" => \A e \in Deliveries : Standing(e) => Message(e) # Message(d)
    BY <2>1, <1>0, RunnerAlone
  <2>. QED
    BY <2>1, <2>2, <1>0, <1>1, <1>2, AgainStops, DeliveryIsPair DEF CreditInv, Standing, At, TypeOK
<1>7. DoneInv'
  <2>1. \A m \in Messages : record'[m].state = "COMPLETED" => record[m].state = "COMPLETED"
    BY <1>0, <1>1, <1>2, <1>3 DEF TypeOK
  <2>2. \A e \in Deliveries : (At(e, "complete") \/ At(e, "done"))' => At(e, "complete") \/ At(e, "done")
    BY <1>0, AgainStops DEF At
  <2>. QED
    BY <2>1, <2>2, <1>0 DEF DoneInv, MailSent, At, Message
<1>. QED
  BY <1>4, <1>5, <1>6, <1>7

\* A run that dies before its record is completed loses the account of its mail.
LEMMA CrashKeeps ==
  ASSUME Inv, NEW d \in Deliveries, Crash(d)
  PROVE  Inv'
<1> USE DEF Inv
<1>0. /\ UNCHANGED <<path, mute, rowVars, mails, record>> /\ faults' \in 0..MaxFaults
      /\ Again(d, ThisRun(d)) /\ ThisRun(d) \in RunIds
      /\ invocation[d].at \in {"start", "deliver", "complete", "release"}
  BY RunsAreIds, NotificationsAssumption DEF Crash, Fault, TypeOK, Running, At
<1>1. /\ lost' \in [Deliveries -> Nat]
      /\ \A e \in Deliveries : e # d => lost'[e] = lost[e]
      /\ At(d, "complete") => lost'[d] = mails[d]
      /\ ~At(d, "complete") => lost' = lost
  BY <1>0 DEF Crash, Loses, TypeOK
<1>2. TypeOK'
  BY <1>0, <1>1, AgainStops DEF TypeOK, rowVars
<1>3. HoldInv'
  BY <1>0, AgainStops DEF HoldInv, Running, ThisRun
<1>4. CreditInv'
  BY <1>0, <1>1, AgainStops DEF CreditInv, Standing, At, TypeOK
<1>5. DoneInv'
  BY <1>0, AgainStops DEF DoneInv, At, MailSent
<1>. QED
  BY <1>2, <1>3, <1>4, <1>5

\* A record expires when no run is left that it belongs to, or takes its account with it.
LEMMA RecordsKeep ==
  ASSUME Inv, NEW m \in Messages, Expire(m) \/ Forget(m)
  PROVE  Inv'
<1> USE DEF Inv
<1>0. /\ UNCHANGED <<path, mute, rowVars, mails, invocation>> /\ faults' \in 0..MaxFaults
      /\ record' = [record EXCEPT ![m] = NoRecord] /\ NoRecord.state = "none"
      /\ record[m].state # "none"
  BY NotificationsAssumption DEF Expire, Forget, Fault, TypeOK, NoRecord
<1>1. /\ lost' \in [Deliveries -> Nat]
      /\ \A e \in Deliveries : lost'[e] \in {lost[e], mails[e]}
      /\ \A e \in Deliveries : record[m].state = "COMPLETED" /\ e = <<m, record[m].by[1]>>
                                  => lost'[e] = mails[e]
  BY <1>0 DEF Expire, Forget, TypeOK
<1>2. TypeOK'
  <2>1. NoRecord \in [state : {"none", "INPROGRESS", "COMPLETED"}, by : RunIds]
    BY NotificationsAssumption DEF NoRecord, NoRun, RunIds
  <2>. QED
    BY <2>1, <1>0, <1>1 DEF TypeOK, rowVars
<1>3. HoldInv'
  <2>1. path = "sns" => \A e \in Deliveries : Running(e) => Message(e) # m
    BY <1>0 DEF Expire, Forget, HoldInv, Runs
  <2>. QED
    BY <2>1, <1>0, DeliveryIsPair DEF HoldInv, Running, ThisRun, TypeOK
<1>4. CreditInv'
  <2> SUFFICES ASSUME NEW e \in Deliveries
               PROVE  /\ mails'[e] <= lost'[e] + 1
                      /\ Standing(e)' => \/ At(e, "complete")'
                                         \/ path' = "bus" /\ At(e, "done")'
                                         \/ /\ path' = "sns" /\ record'[Message(e)].state = "COMPLETED"
                                            /\ record'[Message(e)].by[1] = e[2]
    BY DEF CreditInv, Message
  <2>0. mails[e] \in Nat /\ lost[e] \in Nat /\ Message(e) \in Messages /\ e = <<Message(e), e[2]>>
    BY DeliveryIsPair DEF TypeOK
  <2>1. mails'[e] <= lost'[e] + 1
    BY <2>0, <1>0, <1>1 DEF CreditInv
  <2>2. Standing(e)' => Standing(e) /\ lost'[e] = lost[e]
    BY <2>0, <1>0, <1>1 DEF Standing
  <2>3. CASE Message(e) # m
    BY <2>0, <2>1, <2>2, <2>3, <1>0 DEF CreditInv, At, TypeOK
  <2>4. CASE Message(e) = m /\ Standing(e)' /\ record[m].state = "COMPLETED"
    <3>1. lost'[e] = mails[e] \/ record[m].by[1] # e[2]
      BY <2>0, <2>4, <1>1
    <3>2. record[m].by[1] # e[2]
      BY <2>0, <2>2, <2>4, <3>1, <1>0 DEF Standing
    <3>. QED
      BY <2>1, <2>2, <2>4, <3>2, <1>0 DEF CreditInv, At
  <2>5. CASE Message(e) = m /\ record[m].state # "COMPLETED"
    BY <2>1, <2>2, <2>5, <1>0 DEF CreditInv, At
  <2>. QED
    BY <2>1, <2>3, <2>4, <2>5
<1>5. DoneInv'
  BY <1>0 DEF DoneInv, At, MailSent, TypeOK
<1>. QED
  BY <1>2, <1>3, <1>4, <1>5

\* Every step keeps the invariant.
LEMMA StepsKeep == Inv /\ [Next]_vars => Inv'
<1> SUFFICES ASSUME Inv, [Next]_vars PROVE Inv'
  OBVIOUS
<1>1. CASE UNCHANGED vars
  BY <1>1 DEF vars, rowVars, lambdaVars, Inv, TypeOK, HoldInv, CreditInv, DoneInv, Running, Standing,
              At, ThisRun, MailSent
<1>2. CASE \E t \in Publishers : Announce(t) \/ ReadFails(t) \/ GiveUp(t)
  BY <1>2, PublishersKeep
<1>3. CASE \E d \in Deliveries : Invoke(d) \/ Handle(d) \/ Crash(d)
  BY <1>3, StartsKeep, ClaimKeeps, SendKeeps, CompleteKeeps, ReleaseKeeps, CrashKeeps DEF Handle
<1>4. CASE \E m \in Messages : Expire(m) \/ Forget(m)
  BY <1>4, RecordsKeep
<1>. QED
  BY <1>1, <1>2, <1>3, <1>4 DEF Next

\* The inductive invariant holds in every reachable state.
LEMMA Invariance == Spec => []Inv
BY Initially, StepsKeep, PTL DEF Spec

----------------------------------------------------------------------------
\* An announcement mails its customer once, apart from mails whose account was lost.
THEOREM MailedOnce == Spec => []OneMail
<1>1. Inv => OneMail
  <2> SUFFICES ASSUME Inv PROVE OneMail
    OBVIOUS
  <2>1. \A d \in Deliveries : mails[d] <= lost[d] + 1
    BY DEF Inv, CreditInv
  <2>2. ASSUME path = "sns", NEW d \in Deliveries, NEW e \in Deliveries,
               Message(d) = Message(e), Standing(d), Standing(e)
        PROVE  d = e
    <3>1. CASE At(d, "complete")
      <4>1. Running(d)
        BY <3>1 DEF At, Running
      <4>. QED
        BY <4>1, <2>2, RunnerAlone
    <3>2. CASE At(e, "complete")
      <4>1. Running(e)
        BY <3>2 DEF At, Running
      <4>. QED
        BY <4>1, <2>2, RunnerAlone
    <3>3. CASE ~At(d, "complete") /\ ~At(e, "complete")
      <4>1. record[Message(d)].by[1] = d[2] /\ record[Message(e)].by[1] = e[2]
        BY <2>2, <3>3 DEF Inv, CreditInv
      <4>. QED
        BY <4>1, <2>2, DeliveryIsPair
    <3>. QED
      BY <3>1, <3>2, <3>3
  <2>. QED
    BY <2>1, <2>2 DEF OneMail
<1>. QED
  BY <1>1, Invariance, PTL

\* What the Lambda reports as done has been mailed.
THEOREM DoneWasMailed == Spec => []DoneIsMailed
<1>1. Inv => DoneIsMailed
  BY DEF Inv, DoneInv, DoneIsMailed
<1>. QED
  BY <1>1, Invariance, PTL

\* Types, nobody mails for SNS but under a record of its own, and done is mailed.
THEOREM NotificationsAreSound == Spec => []NotificationsInv
<1>1. Inv /\ DoneIsMailed => NotificationsInv
  BY DEF Inv, HoldInv, NotificationsInv
<1>. QED
  BY <1>1, Invariance, DoneWasMailed, PTL

----------------------------------------------------------------------------
(* Counting announcements.                                                  *)

Announced == {t \in Publishers : hand[t] = "announced"}
Holding == {t \in Publishers : hand[t] = "holding"}

\* Until the row is marked, every announcement is some publisher's that has yet to mark
\* it, or a failure's; after that, only those who hold the row may still announce it.
CountInv ==
  /\ row = "PENDING" => published <= Cardinality(Announced) + faults
  /\ row = "PUBLISHED" => published + Cardinality(Holding) <= Cardinality(Publishers) + faults
  /\ path = "bus" => /\ \A t, u \in Publishers : hand[t] # "idle" /\ hand[u] # "idle" => t = u
                     /\ row = "PUBLISHED" => /\ published <= 1 + faults
                                             /\ \A t \in Publishers : hand[t] = "idle"

\* The publishers that announced, and those that hold the row, are finitely many, and
\* together no more than there are; on the bus, one.
LEMMA HandsAreFinite ==
  ASSUME TypeOK
  PROVE  /\ IsFiniteSet(Announced) /\ IsFiniteSet(Holding)
         /\ Cardinality(Announced) \in Nat /\ Cardinality(Holding) \in Nat
         /\ Cardinality(Publishers) \in Nat
         /\ Cardinality(Announced) + Cardinality(Holding) <= Cardinality(Publishers)
         /\ published \in Nat /\ faults \in Nat
<1>1. IsFiniteSet(Announced) /\ IsFiniteSet(Holding) /\ IsFiniteSet(Publishers)
  BY NotificationsAssumption, FS_Subset DEF Announced, Holding
<1>2. Announced \cap Holding = {} /\ Announced \cup Holding \subseteq Publishers
  BY DEF Announced, Holding
<1>3. Cardinality(Announced) \in Nat /\ Cardinality(Holding) \in Nat /\ Cardinality(Publishers) \in Nat
  BY <1>1, FS_CardinalityType
<1>4. Cardinality(Announced \cup Holding) = Cardinality(Announced) + Cardinality(Holding)
  <2>1. Cardinality({}) = 0
    BY FS_EmptySet
  <2>2. Cardinality(Announced \cup Holding)
          = Cardinality(Announced) + Cardinality(Holding) - Cardinality(Announced \cap Holding)
    BY <1>1, FS_Union
  <2>3. Cardinality(Announced \cap Holding) = 0
    BY <2>1, <1>2
  <2>. QED
    BY <2>2, <2>3, <1>3
<1>5. Cardinality(Announced \cup Holding) <= Cardinality(Publishers)
  BY <1>1, <1>2, FS_Subset
<1>. QED
  BY <1>1, <1>3, <1>4, <1>5, NotificationsAssumption DEF TypeOK

\* One publisher more or less among those that announced or hold.
LEMMA OneMore ==
  ASSUME NEW S, NEW t, IsFiniteSet(S), t \notin S
  PROVE  IsFiniteSet(S \cup {t}) /\ Cardinality(S \cup {t}) = Cardinality(S) + 1
BY FS_AddElement

\* Who holds nothing holds none, who announced alone counts for one.
LEMMA AloneIsOne ==
  ASSUME TypeOK, CountInv, path = "bus"
  PROVE  Cardinality(Announced) <= 1
<1>1. CASE Announced = {}
  BY <1>1, FS_EmptySet
<1>2. CASE Announced # {}
  <2>1. PICK t \in Publishers : hand[t] = "announced"
    BY <1>2 DEF Announced
  <2>2. Announced = {t}
    BY <2>1, <1>2 DEF Announced, CountInv
  <2>. QED
    BY <2>2, FS_Singleton
<1>. QED
  BY <1>1, <1>2

\* The count is kept by every step.
LEMMA CountKept ==
  ASSUME TypeOK, CountInv, [Next]_vars, TypeOK'
  PROVE  CountInv'
<1>0. /\ IsFiniteSet(Announced) /\ IsFiniteSet(Holding) /\ published \in Nat /\ faults \in Nat
      /\ Cardinality(Announced) \in Nat /\ Cardinality(Holding) \in Nat
      /\ Cardinality(Publishers) \in Nat
      /\ Cardinality(Announced) + Cardinality(Holding) <= Cardinality(Publishers)
  BY HandsAreFinite
<1>1. ASSUME UNCHANGED <<path, rowVars>>, faults' \in {faults, faults + 1}
      PROVE  CountInv'
  <2>1. Announced' = Announced /\ Holding' = Holding /\ faults' >= faults /\ faults' \in Nat
    BY <1>0, <1>1 DEF Announced, Holding, rowVars
  <2>2. UNCHANGED <<path, row, hand, published>>
    BY <1>1 DEF rowVars
  <2>3. Cardinality(Announced') = Cardinality(Announced) /\ Cardinality(Holding') = Cardinality(Holding)
    BY <2>1
  <2>4. /\ row' = "PENDING" => published' <= Cardinality(Announced') + faults'
        /\ row' = "PUBLISHED" => published' + Cardinality(Holding') <= Cardinality(Publishers) + faults'
    BY <1>0, <2>1, <2>2, <2>3 DEF CountInv
  <2>5. path' = "bus" => /\ \A s, u \in Publishers : hand'[s] # "idle" /\ hand'[u] # "idle" => s = u
                         /\ row' = "PUBLISHED" => /\ published' <= 1 + faults'
                                                  /\ \A s \in Publishers : hand'[s] = "idle"
    <3>1. path = "bus" => /\ \A s, u \in Publishers : hand[s] # "idle" /\ hand[u] # "idle" => s = u
                          /\ row = "PUBLISHED" => /\ published <= 1 + faults
                                                  /\ \A s \in Publishers : hand[s] = "idle"
      BY DEF CountInv
    <3>2. published' = published /\ published \in Nat /\ faults \in Nat /\ faults' \in Nat
          /\ (faults' = faults \/ faults' = faults + 1)
      BY <1>0, <1>1, <2>1, <2>2
    <3>3. published <= 1 + faults => published <= 1 + faults'
      <4>1. CASE faults' = faults
        BY <4>1
      <4>2. CASE faults' = faults + 1
        BY <4>2, <3>2
      <4>. QED
        BY <3>2, <4>1, <4>2
    <3>. QED
      BY <3>1, <3>2, <3>3, <2>2
  <2>. QED
    BY <2>4, <2>5 DEF CountInv
<1>2. ASSUME NEW t \in Publishers, Read(t) PROVE CountInv'
  <2>1. /\ row = "PENDING" /\ UNCHANGED <<path, row, published, faults>>
        /\ hand[t] = "idle" /\ hand' = [hand EXCEPT ![t] = "holding"]
        /\ path = "bus" => \A u \in Publishers : hand[u] = "idle"
    BY <1>2 DEF Read, Reads
  <2>2. Announced' = Announced
    BY <2>1 DEF Announced, TypeOK
  <2>. QED
    BY <2>1, <2>2 DEF CountInv, TypeOK
<1>3. ASSUME NEW t \in Publishers, Publish(t) PROVE CountInv'
  <2>1. /\ published' = published + 1 /\ UNCHANGED <<path, row, faults>>
        /\ hand[t] = "holding" /\ hand' = [hand EXCEPT ![t] = "announced"]
    BY <1>3 DEF Publish
  <2>2. /\ Announced' = Announced \cup {t} /\ t \notin Announced
        /\ Holding = Holding' \cup {t} /\ t \notin Holding'
    BY <2>1 DEF Announced, Holding, TypeOK
  <2>3. IsFiniteSet(Holding')
    BY <1>0, <2>2, FS_Subset
  <2>4. Cardinality(Announced') = Cardinality(Announced) + 1
    BY <1>0, <2>2, OneMore
  <2>5. Cardinality(Holding) = Cardinality(Holding') + 1 /\ Cardinality(Holding') \in Nat
    BY <2>2, <2>3, OneMore, FS_CardinalityType
  <2>6. /\ row' = "PENDING" => published' <= Cardinality(Announced') + faults'
        /\ row' = "PUBLISHED" => published' + Cardinality(Holding') <= Cardinality(Publishers) + faults'
    BY <1>0, <2>1, <2>4, <2>5 DEF CountInv
  <2>7. path' = "bus" => /\ \A s, u \in Publishers : hand'[s] # "idle" /\ hand'[u] # "idle" => s = u
                         /\ row' = "PUBLISHED" => /\ published' <= 1 + faults'
                                                  /\ \A s \in Publishers : hand'[s] = "idle"
    BY <2>1 DEF CountInv, TypeOK
  <2>. QED
    BY <2>6, <2>7 DEF CountInv
<1>4. ASSUME NEW t \in Publishers, Mark(t) PROVE CountInv'
  <2>1. /\ row' = "PUBLISHED" /\ UNCHANGED <<path, published, faults>>
        /\ hand[t] = "announced" /\ hand' = [hand EXCEPT ![t] = "idle"]
        /\ row \in {"PENDING", "PUBLISHED"}
    BY <1>4 DEF Mark, TypeOK
  <2>2. Holding' = Holding
    BY <2>1 DEF Holding, TypeOK
  <2>3. row = "PENDING" /\ path = "bus" => published <= 1 + faults
    BY <1>0, AloneIsOne DEF CountInv
  <2>4. row' = "PUBLISHED" => published' + Cardinality(Holding') <= Cardinality(Publishers) + faults'
    BY <1>0, <2>1, <2>2 DEF CountInv
  <2>5. path' = "bus" => /\ \A s, u \in Publishers : hand'[s] # "idle" /\ hand'[u] # "idle" => s = u
                         /\ row' = "PUBLISHED" => /\ published' <= 1 + faults'
                                                  /\ \A s \in Publishers : hand'[s] = "idle"
    BY <2>1, <2>3 DEF CountInv, TypeOK
  <2>. QED
    BY <2>1, <2>4, <2>5 DEF CountInv
<1>5. ASSUME NEW t \in Publishers, GiveUp(t) PROVE CountInv'
  <2>1. /\ UNCHANGED <<path, row, published>> /\ faults' = faults + 1
        /\ hand[t] # "idle" /\ hand' = [hand EXCEPT ![t] = "idle"]
    BY <1>5 DEF GiveUp, Fails, Fault
  <2>2. Announced' \subseteq Announced /\ Holding' \subseteq Holding
        /\ Announced \subseteq Announced' \cup {t}
    BY <2>1 DEF Announced, Holding, TypeOK
  <2>3. /\ IsFiniteSet(Announced') /\ IsFiniteSet(Holding')
        /\ Cardinality(Announced') \in Nat /\ Cardinality(Holding') \in Nat
        /\ Cardinality(Holding') <= Cardinality(Holding)
    BY <1>0, <2>2, FS_Subset, FS_CardinalityType
  <2>4. Cardinality(Announced) <= Cardinality(Announced') + 1
    <3>1. t \notin Announced'
      BY <2>1 DEF Announced, TypeOK
    <3>2. IsFiniteSet(Announced' \cup {t}) /\ Cardinality(Announced' \cup {t}) = Cardinality(Announced') + 1
      BY <2>3, <3>1, OneMore
    <3>. QED
      BY <2>2, <3>2, FS_Subset
  <2>5. /\ row' = "PENDING" => published' <= Cardinality(Announced') + faults'
        /\ row' = "PUBLISHED" => published' + Cardinality(Holding') <= Cardinality(Publishers) + faults'
    BY <1>0, <2>1, <2>3, <2>4 DEF CountInv
  <2>6. path' = "bus" => /\ \A s, u \in Publishers : hand'[s] # "idle" /\ hand'[u] # "idle" => s = u
                         /\ row' = "PUBLISHED" => /\ published' <= 1 + faults'
                                                  /\ \A s \in Publishers : hand'[s] = "idle"
    BY <1>0, <2>1 DEF CountInv, TypeOK
  <2>. QED
    BY <2>5, <2>6 DEF CountInv
<1>9. ASSUME NEW t \in Publishers, ReadFails(t) PROVE CountInv'
  <2>1. /\ UNCHANGED <<path, row, published>> /\ faults' = faults + 1 /\ row = "PENDING"
        /\ hand[t] = "idle" /\ hand' \in {hand, [hand EXCEPT ![t] = "ended"]}
        /\ path = "bus" => hand' = hand
    BY <1>9 DEF ReadFails, Reads, Fails, Fault
  <2>2. Announced' = Announced
    BY <2>1 DEF Announced, TypeOK
  <2>3. row' = "PENDING" => published' <= Cardinality(Announced') + faults'
    BY <1>0, <2>1, <2>2 DEF CountInv
  <2>. QED
    BY <2>1, <2>3 DEF CountInv
<1>6. ASSUME NEW d \in Deliveries, Invoke(d) \/ Handle(d) \/ Crash(d) PROVE CountInv'
  BY <1>1, <1>6 DEF Invoke, Handle, Retry, Claim, Send, Complete, Release, Crash, Fault
<1>7. ASSUME NEW m \in Messages, Expire(m) \/ Forget(m) PROVE CountInv'
  BY <1>1, <1>7 DEF Expire, Forget, Fault
<1>8. CASE UNCHANGED vars
  BY <1>1, <1>8 DEF vars
<1>. QED
  BY <1>2, <1>3, <1>4, <1>5, <1>6, <1>7, <1>8, <1>9 DEF Next, Announce

\* A row is announced once by each publisher that held it, and once more per failure.
THEOREM RowIsAnnouncedOnce == Spec => []AnnouncedOnce
<1>1. Init => CountInv
  <2> SUFFICES ASSUME Init PROVE CountInv
    OBVIOUS
  <2>1. TypeOK /\ row = "PENDING" /\ published = 0 /\ faults = 0 /\ \A t \in Publishers : hand[t] = "idle"
    BY Initially DEF Init, Inv
  <2>. QED
    BY <2>1, HandsAreFinite DEF CountInv
<1>2. Inv /\ CountInv /\ [Next]_vars => CountInv'
  BY StepsKeep, CountKept DEF Inv
<1>3. Inv /\ CountInv => AnnouncedOnce
  <2> SUFFICES ASSUME Inv, CountInv PROVE AnnouncedOnce
    OBVIOUS
  <2>1. TypeOK /\ row \in {"PENDING", "PUBLISHED"}
    BY DEF Inv, TypeOK
  <2>2. path = "bus" => Cardinality(Announced) <= 1
    BY <2>1, AloneIsOne
  <2>. QED
    BY <2>1, <2>2, HandsAreFinite DEF CountInv, AnnouncedOnce
<1>. QED
  BY <1>1, <1>2, <1>3, Invariance, PTL DEF Spec

\* The customer gets few mails: one per announcement, which are few, apart from those
\* whose account was lost.
THEOREM MailsAreFew == Spec => []FewMails
<1>1. OneMail /\ AnnouncedOnce => FewMails
  BY DEF FewMails
<1>. QED
  BY <1>1, MailedOnce, RowIsAnnouncedOnce, PTL
=============================================================================
