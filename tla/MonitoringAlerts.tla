--------------------------- MODULE MonitoringAlerts ---------------------------
(***************************************************************************)
(* The monitoring alerts: the agent's samples and when it reports them      *)
(* (agent/sysinfo.py), the handler that opens, refreshes and resolves their *)
(* lifecycles (api/agent_relay.go, store/monitoring_alert_repo.go), and the *)
(* worker that announces the opened ones on the phone's topic.              *)
(*                                                                         *)
(* The agent waits for one report at a time.  One it has given up is still  *)
(* under way, and may be handled as late as the network lets it.            *)
(***************************************************************************)
EXTENDS Integers, Sequences, FiniteSets

CONSTANTS
  Count,     (* metrics, 1..Count in the order of a report                   *)
  Requests,  (* bound: reports under way at a time                           *)
  AlertCap,  (* capacity of alertCh                                          *)
  MaxFlips,  (* bound: changes of a sample                                   *)
  MaxFaults  (* bound: reports given up or failed, restarts, failed pushes   *)

ASSUME AlertParametersOK ==
  /\ Count \in Nat \ {0} /\ AlertCap \in Nat \ {0} /\ 0 \notin Requests
  /\ MaxFlips \in Nat /\ MaxFaults \in Nat

VARIABLES
  sample,    (* what the sensor of each metric says                          *)
  reported,  (* _last_reported_states, {None} before any                     *)
  recent,    (* the last report is younger than the cooldown                 *)
  waiting,   (* the report that check_alerts waits for                       *)
  reports,   (* reports under way and their handlers                         *)
  active,    (* the active alert of each metric, 0 for none                  *)
  alerts,    (* alerts opened so far, numbered from 1                        *)
  alertCh,   (* the alerts to be announced                                   *)
  publishing,(* the alert being published, 0 for none                        *)
  topic,     (* what was published, in order                                 *)
  lost,      (* alerts pushed out of the queue, in a failed push or a crash  *)
  rises,     (* how often each metric went over                              *)
  opened,    (* how many alerts each metric had                              *)
  flips, faults

agent  == <<sample, reported, recent, waiting>>
rows   == <<active, alerts, opened>>
push   == <<alertCh, publishing, topic, lost>>
counts == <<rises, flips, faults>>
alertVars   == <<agent, reports, rows, push, counts>>

Metrics == 1..Count
Alerts  == 1..(MaxFlips + Count * MaxFaults)
None    == 0
NoReport    == [pc |-> "idle"]

\* A value below the threshold, one over it, one that is out of the range
\* validMonitoringObservation takes, and over it too.
Samples == {"under", "over", "absurd"}
Sent     == [pc : {"sent"}, over : SUBSET Metrics, valid : BOOLEAN]
Handling == [pc : {"offer", "pop", "again"}, over : SUBSET Metrics, todo : Seq(Alerts)]

AlertTypeOK ==
  /\ sample \in [Metrics -> Samples]
  /\ reported \in (SUBSET Metrics) \cup {{None}} /\ recent \in BOOLEAN
  /\ waiting \in Requests \cup {None}
  /\ reports \in [Requests -> {NoReport} \cup Sent \cup Handling]
  /\ waiting # None => reports[waiting] # NoReport
  /\ active \in [Metrics -> 0..alerts] /\ alerts \in 0..Cardinality(Alerts)
  /\ alertCh \in Seq(1..alerts) /\ Len(alertCh) <= AlertCap
  /\ publishing \in 0..alerts /\ topic \in Seq(1..alerts) /\ lost \subseteq 1..alerts
  /\ rises \in [Metrics -> Nat] /\ opened \in [Metrics -> Nat]
  /\ flips \in 0..MaxFlips /\ faults \in 0..MaxFaults

AlertInit ==
  /\ sample = [m \in Metrics |-> "under"] /\ reported = {None} /\ recent = FALSE
  /\ waiting = None /\ reports = [r \in Requests |-> NoReport]
  /\ active = [m \in Metrics |-> 0] /\ alerts = 0
  /\ alertCh = <<>> /\ publishing = 0 /\ topic = <<>> /\ lost = {}
  /\ rises = [m \in Metrics |-> 0] /\ opened = [m \in Metrics |-> 0]
  /\ flips = 0 /\ faults = 0
-----------------------------------------------------------------------------
(* The agent.                                                              *)

Over == {m \in Metrics : sample[m] # "under"}

Flip(m, s) ==
  /\ flips < MaxFlips /\ s # sample[m]
  /\ flips' = flips + 1
  /\ sample' = [sample EXCEPT ![m] = s]
  /\ rises' = [rises EXCEPT ![m] = IF sample[m] = "under" THEN @ + 1 ELSE @]
  /\ UNCHANGED <<reported, recent, waiting, reports, rows, push, faults>>

Post(r) ==
  /\ waiting = None /\ reports[r] = NoReport
  /\ waiting' = r
  /\ reports' = [reports EXCEPT ![r] =
       [pc |-> "sent", over |-> Over, valid |-> \A m \in Metrics : sample[m] # "absurd"]]
  /\ UNCHANGED <<sample, reported, recent, rows, push, counts>>

\* Mutant of CheckAlerts: only what has changed is reported.
CheckAlertsOnChange(r) == reported # Over /\ Post(r)

\* check_alerts: all samples, when one crossed its threshold or a while passed.
CheckAlerts(r) == (reported # Over \/ ~recent) /\ Post(r)

\* _alert_cooldown has passed.
Elapse ==
  /\ recent
  /\ recent' = FALSE
  /\ UNCHANGED <<sample, reported, waiting, reports, rows, push, counts>>

Fault == faults < MaxFaults /\ faults' = faults + 1 /\ UNCHANGED <<rises, flips>>

\* The timeout of http_req, or a connection that broke: the report is on its own.
GiveUp ==
  /\ waiting # None /\ Fault
  /\ waiting' = None
  /\ UNCHANGED <<sample, reported, recent, reports, rows, push>>

\* A report that was given up never arrives.
Vanish(r) ==
  /\ reports[r].pc = "sent" /\ r # waiting
  /\ reports' = [reports EXCEPT ![r] = NoReport]
  /\ UNCHANGED <<agent, rows, push, counts>>

\* The agent starts anew.
RestartAgent ==
  /\ Fault
  /\ reported' = {None} /\ recent' = FALSE /\ waiting' = None
  /\ UNCHANGED <<sample, reports, rows, push>>

\* The answer of r: OK, and the agent takes note, or an exception.
Answer(r, ok) ==
  /\ IF r = waiting
     THEN waiting' = None /\ IF ok THEN reported' = reports[r].over /\ recent' = TRUE
                                   ELSE UNCHANGED <<reported, recent>>
     ELSE UNCHANGED <<waiting, reported, recent>>
  /\ UNCHANGED sample

-----------------------------------------------------------------------------
(* The handler.                                                            *)

\* One sample out of range refuses the whole report.
Refuse(r) ==
  /\ reports[r].pc = "sent" /\ ~reports[r].valid
  /\ reports' = [reports EXCEPT ![r] = NoReport]
  /\ Answer(r, FALSE)
  /\ UNCHANGED <<rows, push, counts>>

\* The transaction is rolled back.
ObserveFails(r) ==
  /\ reports[r].pc = "sent" /\ reports[r].valid /\ Fault
  /\ reports' = [reports EXCEPT ![r] = NoReport]
  /\ Answer(r, FALSE)
  /\ UNCHANGED <<rows, push>>

\* The rows once those of over are active and the others are not; new ones for fresh.
Lifecycles(over, fresh) ==
  /\ active' = [m \in Metrics |->
       IF m \in fresh THEN alerts + Cardinality({k \in fresh : k <= m})
       ELSE IF m \in over THEN active[m] ELSE 0]
  /\ alerts' = alerts + Cardinality(fresh)
  /\ opened' = [m \in Metrics |-> IF m \in fresh THEN opened[m] + 1 ELSE opened[m]]

Announce(r, todo) ==
  IF todo = <<>>
  THEN reports' = [reports EXCEPT ![r] = NoReport] /\ Answer(r, TRUE)
  ELSE /\ reports' = [reports EXCEPT ![r] = [pc |-> "offer", over |-> @.over, todo |-> todo]]
       /\ UNCHANGED agent

\* Mutant of Observe: a report opens an alert whether or not there is one.
ObserveInsert(r) ==
  /\ reports[r].pc = "sent" /\ reports[r].valid
  /\ alerts + Cardinality(reports[r].over) <= Cardinality(Alerts)
  /\ Lifecycles(reports[r].over, reports[r].over)
  /\ Announce(r, [i \in 1..Cardinality(reports[r].over) |-> alerts + i])
  /\ UNCHANGED <<push, counts>>

\* Mutant of Observe: the refreshed alerts are returned with the opened ones.
ObserveReturnAll(r) ==
  /\ reports[r].pc = "sent" /\ reports[r].valid
  /\ LET over  == reports[r].over
         fresh == {m \in over : active[m] = 0}
         rank(m) == Cardinality({k \in over : k <= m})
     IN  /\ Lifecycles(over, fresh)
         /\ Announce(r, [i \in 1..Cardinality(over) |->
              active'[CHOOSE m \in over : rank(m) = i]])
  /\ UNCHANGED <<push, counts>>

\* Observe, one transaction; the opened alerts are to be announced.
Observe(r) ==
  /\ reports[r].pc = "sent" /\ reports[r].valid
  /\ LET fresh == {m \in reports[r].over : active[m] = 0}
     IN  /\ Lifecycles(reports[r].over, fresh)
         /\ Announce(r, [i \in 1..Cardinality(fresh) |-> alerts + i])
  /\ UNCHANGED <<push, counts>>

\* Mutant of Enqueue: a send that finds the queue full is given up.
EnqueueOrDrop(r) ==
  /\ reports[r].pc = "offer"
  /\ alertCh' = IF Len(alertCh) < AlertCap THEN Append(alertCh, Head(reports[r].todo)) ELSE alertCh
  /\ Announce(r, Tail(reports[r].todo))
  /\ UNCHANGED <<rows, publishing, topic, lost, counts>>

\* enqueueMonitoringAlert: a send that does not wait.
Enqueue(r) ==
  /\ reports[r].pc = "offer"
  /\ IF Len(alertCh) < AlertCap
     THEN alertCh' = Append(alertCh, Head(reports[r].todo)) /\ Announce(r, Tail(reports[r].todo))
     ELSE reports' = [reports EXCEPT ![r].pc = "pop"] /\ UNCHANGED <<alertCh, agent>>
  /\ UNCHANGED <<rows, publishing, topic, lost, counts>>

\* The oldest has to go, if it is still there.
Pop(r) ==
  /\ reports[r].pc = "pop"
  /\ IF alertCh = <<>> THEN UNCHANGED <<alertCh, lost>>
     ELSE alertCh' = Tail(alertCh) /\ lost' = lost \cup {Head(alertCh)}
  /\ reports' = [reports EXCEPT ![r].pc = "again"]
  /\ UNCHANGED <<agent, rows, publishing, topic, counts>>

\* The second send; somebody else may have taken the place.
EnqueueAgain(r) ==
  /\ reports[r].pc = "again"
  /\ LET id == Head(reports[r].todo) IN
     IF Len(alertCh) < AlertCap THEN alertCh' = Append(alertCh, id) /\ UNCHANGED lost
     ELSE lost' = lost \cup {id} /\ UNCHANGED alertCh
  /\ Announce(r, Tail(reports[r].todo))
  /\ UNCHANGED <<rows, publishing, topic, counts>>

-----------------------------------------------------------------------------
(* The worker and the process.                                             *)

TakeAlert ==
  /\ publishing = 0 /\ alertCh # <<>>
  /\ publishing' = Head(alertCh) /\ alertCh' = Tail(alertCh)
  /\ UNCHANGED <<agent, reports, rows, topic, lost, counts>>

Publish ==
  /\ publishing # 0
  /\ topic' = Append(topic, publishing) /\ publishing' = 0
  /\ UNCHANGED <<agent, reports, rows, alertCh, lost, counts>>

\* An error is logged and the alert is done with, whether ntfy has it or not.
PublishFails ==
  /\ publishing # 0 /\ Fault
  /\ lost' = lost \cup {publishing} /\ publishing' = 0
  /\ topic' = topic \/ topic' = Append(topic, publishing)
  /\ UNCHANGED <<agent, reports, rows, alertCh>>

\* The server starts anew, with the rows; reports in its hands are answered by a
\* broken connection.
RestartServer ==
  LET caught == {r \in Requests : reports[r] # NoReport /\ reports[r].pc # "sent"} IN
  /\ Fault
  /\ reports' = [r \in Requests |-> IF r \in caught THEN NoReport ELSE reports[r]]
  /\ waiting' = IF waiting \in caught THEN None ELSE waiting
  /\ lost' = lost \cup {alertCh[i] : i \in DOMAIN alertCh} \cup ({publishing} \ {0})
                  \cup UNION {{reports[r].todo[i] : i \in DOMAIN reports[r].todo} : r \in caught}
  /\ alertCh' = <<>> /\ publishing' = 0
  /\ UNCHANGED <<sample, reported, recent, rows, topic>>

-----------------------------------------------------------------------------
Handle(r) == Refuse(r) \/ Observe(r) \/ Enqueue(r) \/ Pop(r) \/ EnqueueAgain(r)
Worker    == TakeAlert \/ Publish

AlertNext ==
  \/ \E m \in Metrics, s \in Samples : Flip(m, s)
  \/ \E r \in Requests : CheckAlerts(r) \/ Vanish(r) \/ ObserveFails(r) \/ Handle(r)
  \/ Elapse \/ GiveUp \/ RestartAgent \/ RestartServer \/ Worker \/ PublishFails

AlertSpec == AlertInit /\ [][AlertNext]_alertVars

\* The heartbeat loop, the handlers and the worker run on, and time passes.
FairAlertSpec ==
  /\ AlertSpec
  /\ WF_alertVars(\E r \in Requests : CheckAlerts(r)) /\ WF_alertVars(Elapse) /\ WF_alertVars(Worker)
  /\ \A r \in Requests : WF_alertVars(Handle(r))

-----------------------------------------------------------------------------
\* "the sole source of push notices" (Observe): an alert is announced once at the
\* most, however often it is refreshed and whatever is retried.
AnnouncedOnce ==
  LET ids == topic \o alertCh \o (IF publishing = 0 THEN <<>> ELSE <<publishing>>)
  IN  \A i, j \in DOMAIN ids : ids[i] = ids[j] => i = j

\* "The server is the dedupe authority" (Alert): a metric has an alert for each
\* time it went over at the most, but for one more by each report that a fault left
\* to be handled out of turn.
AlertPerRise == \A m \in Metrics : opened[m] <= rises[m] + faults

\* Once the samples settle, and none is out of range, the active alerts are the
\* metrics that are over, despite reports that failed, that came late or that
\* were lost with a process (check_alerts reports again).
RowsFollow ==
  <>[](\A m \in Metrics : sample[m] # "absurd") =>
    <>[](\A m \in Metrics : active[m] # 0 <=> sample[m] = "over")

Settled(a) == a \in lost \/ \E i \in DOMAIN topic : topic[i] = a

\* The opened alerts are announced in the end, unless the queue overflows, a push
\* fails or the server restarts (enqueueMonitoringAlert, StartAlertWorker).
Announced == []<>(\A a \in 1..alerts : Settled(a))

\* "On overflow the oldest job is dropped" (StartAlertWorker): what the queue loses
\* is its head.  It is the newest that goes when another handler takes the place
\* that one has just made (enqueueMonitoringAlert).
OldestDropped ==
  [][faults' = faults =>
       \A a \in lost' \ lost : alertCh # <<>> /\ a = Head(alertCh)]_alertVars
-----------------------------------------------------------------------------
(* The inductive invariant of the proofs.                                  *)

Items(s)      == {s[i] : i \in DOMAIN s}
Distinct(s)   == \A i, j \in DOMAIN s : s[i] = s[j] => i = j
Announcing(r) == reports[r].pc \in {"offer", "pop", "again"}

\* An alert is in one place at a time: with the handler that is to queue it, in the
\* queue, with the worker, or on the topic.
InOnePlace ==
  /\ Distinct(topic) /\ Distinct(alertCh)
  /\ Items(topic) \cap Items(alertCh) = {}
  /\ publishing \notin Items(topic) \cup Items(alertCh)
  /\ \A r \in Requests : Announcing(r) =>
       /\ reports[r].todo # <<>> /\ Distinct(reports[r].todo)
       /\ Items(reports[r].todo) \subseteq
            (1..alerts) \ (Items(topic) \cup Items(alertCh) \cup {publishing})
       /\ \A q \in Requests \ {r} :
            Announcing(q) => Items(reports[r].todo) \cap Items(reports[q].todo) = {}

\* Reports the agent no longer waits for, not handled yet.
Overtaken == {r \in Requests : reports[r].pc = "sent" /\ r # waiting}

Awaited == waiting # None /\ reports[waiting].pc = "sent"

\* The alerts that m is still to have if all goes in turn: the report that is waited
\* for may open one, and the sample as it is now another.
Opens(was, is) == IF ~was /\ is THEN 1 ELSE 0
Ahead(m) ==
  LET was == active[m] # 0
      is  == sample[m] # "under"
      saw == m \in reports[waiting].over
  IN  IF Awaited THEN Opens(was, saw) + Opens(saw, is) ELSE Opens(was, is)

\* A report handled out of turn opens one alert at the most, or closes one that has
\* to be opened again; and it took a fault to get there.
Accounted ==
  /\ IsFiniteSet(Overtaken)
  /\ \A m \in Metrics : opened[m] + Cardinality(Overtaken) + Ahead(m) <= rises[m] + faults

\* What f counts for each metric, one by one.
Tally(f) == UNION {{m} \X (1..f[m]) : m \in Metrics}

\* The numbers given out are those of the alerts opened.
Numbered ==
  /\ IsFiniteSet(Tally(opened)) /\ alerts = Cardinality(Tally(opened))
  /\ IsFiniteSet(Tally(rises)) /\ Cardinality(Tally(rises)) <= flips

AlertInv == AlertTypeOK /\ InOnePlace /\ Accounted /\ Numbered
=============================================================================
