------------------------ MODULE Notifications_proofs -------------------------
(***************************************************************************)
(* What the provers establish of the two ways a notice takes to the phone.  *)
(*                                                                         *)
(* PushDispatcher, for any sets of approvals and callers, any capacity of   *)
(* the queue and any numbers of attempts, phones and tokens: by IInv.       *)
(*                                                                         *)
(* MonitoringAlerts, for any numbers of metrics, of reports under way, of   *)
(* faults and places in the queue: by AlertInv.  An alert is in one place   *)
(* at a time, and each one opened is put down to a rise of its metric or    *)
(* to a report that a fault left to be handled out of turn.                 *)
(***************************************************************************)
EXTENDS PushDispatcher, MonitoringAlerts, SequenceTheorems, FiniteSetTheorems, TLAPS

(***************************************************************************)
(* PushDispatcher                                                          *)
(***************************************************************************)

\* A caller that is not idle holds an approval; so does a worker.
LEMMA CallShape ==
  ASSUME TypeOK, NEW c \in Callers, calls[c].pc # "idle"
  PROVE  calls[c].pc \in {"marked", "full"} /\ calls[c].id \in Ids
<1>1. calls[c] \in {Idle} \cup [pc : {"marked", "full"}, id : Ids]
  BY DEF TypeOK
<1>2. calls[c] # Idle
  BY DEF Idle
<1> QED
  BY <1>1, <1>2

LEMMA WorkerShape ==
  ASSUME TypeOK, worker.pc # "idle"
  PROVE  /\ worker \in Working
         /\ worker.pc \in {"targets", "access", "send"} /\ worker.id \in Ids
         /\ worker.attempt \in 1..MaxAttempts
         /\ worker.to \subseteq Devs /\ worker.key \in 0..MaxKeys
<1>1. worker \in {Idle} \cup Working /\ worker # Idle
  BY DEF TypeOK, Idle
<1> QED
  BY <1>1 DEF Working

\* The queue is a function on an interval.
LEMMA JobsShape ==
  ASSUME TypeOK
  PROVE  /\ jobs \in Seq(Ids) /\ Len(jobs) \in Nat /\ DOMAIN jobs = 1..Len(jobs)
         /\ \A k \in 1..Len(jobs) : jobs[k] \in Ids
BY DEF TypeOK

\* The invariant holds at the start.
LEMMA InitIInv == Init => IInv
<1> SUFFICES ASSUME Init PROVE IInv
  OBVIOUS
<1>1. TypeOK
  <2>1. calls \in [Callers -> {Idle} \cup [pc : {"marked", "full"}, id : Ids]]
    BY DEF Init
  <2>2. jobs \in Seq(Ids) /\ Len(jobs) <= QueueCap
    BY PushParametersOK DEF Init
  <2> QED
    BY <2>1, <2>2, PushParametersOK DEF Init, TypeOK
<1>2. CallsOK /\ JobsOK /\ WorkOK /\ AcceptedOK
  BY DEF Init, CallsOK, JobsOK, WorkOK, AcceptedOK, Idle
<1>3. KeysOK /\ PhonesOK
  BY DEF Init, KeysOK, PhonesOK, Idle
<1> QED
  BY <1>1, <1>2, <1>3 DEF IInv

-----------------------------------------------------------------------------
(* EnqueueApproval.                                                        *)

\* A new mark is for an approval that is nowhere.
LEMMA MarkPreserves ==
  ASSUME IInv, NEW c \in Callers, NEW i \in Ids, Mark(c, i)
  PROVE  IInv'
<1>1. /\ calls[c].pc = "idle" /\ i \notin seen /\ seen' = seen \cup {i}
      /\ calls' = [calls EXCEPT ![c] = [pc |-> "marked", id |-> i]]
      /\ UNCHANGED <<jobs, worker, access, keys, devices, requests, pairs,
                     accepted, settled, late, refused>>
  BY DEF Mark, Idle, phone, ghost
<1>2. /\ calls \in [Callers -> {Idle} \cup [pc : {"marked", "full"}, id : Ids]]
      /\ calls'[c].pc = "marked" /\ calls'[c].id = i
      /\ \A d \in Callers : d # c => calls'[d] = calls[d]
      /\ calls' \in [Callers -> {Idle} \cup [pc : {"marked", "full"}, id : Ids]]
  BY <1>1 DEF IInv, TypeOK
<1>3. accepted[i] = 0
  BY <1>1 DEF IInv, AcceptedOK, TypeOK
<1>4. TypeOK'
  BY <1>1, <1>2 DEF IInv, TypeOK
<1>5. CallsOK' /\ JobsOK' /\ WorkOK' /\ AcceptedOK'
  BY <1>1, <1>2, <1>3 DEF IInv, CallsOK, JobsOK, WorkOK, AcceptedOK
<1>6. KeysOK' /\ PhonesOK'
  BY <1>1 DEF IInv, KeysOK, PhonesOK
<1> QED
  BY <1>4, <1>5, <1>6 DEF IInv

\* The approval moves from its caller into the queue, or stays with it.
LEMMA OfferPreserves ==
  ASSUME IInv, NEW c \in Callers, Offer(c)
  PROVE  IInv'
<1> DEFINE i == calls[c].id
<1>1. /\ calls[c].pc = "marked"
      /\ UNCHANGED <<seen, worker, access, keys, devices, requests, pairs,
                     accepted, settled, late, refused>>
  BY DEF Offer, phone, ghost
<1>2. /\ calls \in [Callers -> {Idle} \cup [pc : {"marked", "full"}, id : Ids]]
      /\ i \in Ids /\ i \in seen /\ accepted[i] = 0
  BY <1>1, CallShape DEF IInv, TypeOK, CallsOK
<1>3. KeysOK' /\ PhonesOK' /\ AcceptedOK'
  BY <1>1 DEF IInv, KeysOK, PhonesOK, AcceptedOK
<1>4. CASE /\ Len(jobs) < QueueCap /\ jobs' = Append(jobs, i)
           /\ calls' = [calls EXCEPT ![c] = Idle]
  <2>1. /\ calls'[c].pc = "idle" /\ \A d \in Callers : d # c => calls'[d] = calls[d]
        /\ calls' \in [Callers -> {Idle} \cup [pc : {"marked", "full"}, id : Ids]]
    BY <1>2, <1>4 DEF Idle
  <2>2. jobs' \in Seq(Ids) /\ Len(jobs') = Len(jobs) + 1 /\ Len(jobs) \in Nat
    BY <1>2, <1>4, JobsShape DEF IInv
  <2>3. /\ DOMAIN jobs' = 1..(Len(jobs) + 1) /\ jobs'[Len(jobs) + 1] = i
        /\ \A k \in 1..Len(jobs) : jobs'[k] = jobs[k]
    BY <1>2, <1>4, <2>2, JobsShape DEF IInv
  <2>4. TypeOK'
    BY <1>1, <1>4, <2>1, <2>2, PushParametersOK DEF IInv, TypeOK
  <2>5. CallsOK'
    BY <1>1, <2>1 DEF IInv, CallsOK
  <2>6. \A k \in 1..Len(jobs) : jobs[k] # i
    BY <1>1, JobsShape DEF IInv, JobsOK
  <2>7. JobsOK'
    <3> SUFFICES ASSUME NEW k \in DOMAIN jobs'
                 PROVE  /\ jobs'[k] \in seen /\ accepted[jobs'[k]] = 0
                        /\ \A l \in DOMAIN jobs' : jobs'[l] = jobs'[k] => l = k
                        /\ \A d \in Callers : calls'[d].pc # "idle" => calls'[d].id # jobs'[k]
      BY <1>1 DEF JobsOK
    <3>1. CASE k = Len(jobs) + 1
      <4>1. \A d \in Callers : calls'[d].pc # "idle" => calls'[d].id # i
        BY <1>1, <2>1 DEF IInv, CallsOK
      <4> QED
        BY <1>2, <2>2, <2>3, <2>6, <3>1, <4>1
    <3>2. CASE k \in 1..Len(jobs)
      BY <1>1, <2>1, <2>2, <2>3, <2>6, <3>2, JobsShape DEF IInv, JobsOK
    <3> QED
      BY <2>2, <2>3, <3>1, <3>2
  <2>8. WorkOK'
    <3>1. worker.pc # "idle" => worker.id # i
      BY <1>1 DEF IInv, WorkOK
    <3> QED
      BY <1>1, <2>1, <2>2, <2>3, <3>1, JobsShape DEF IInv, WorkOK
  <2> QED
    BY <1>3, <2>4, <2>5, <2>7, <2>8 DEF IInv
<1>5. CASE calls' = [calls EXCEPT ![c].pc = "full"] /\ UNCHANGED jobs
  <2>1. calls[c] \in [pc : {"marked", "full"}, id : Ids]
    BY <1>1, <1>2 DEF Idle
  <2>2. /\ calls'[c].pc = "full" /\ calls'[c].id = i
        /\ \A d \in Callers : d # c => calls'[d] = calls[d]
        /\ calls' \in [Callers -> {Idle} \cup [pc : {"marked", "full"}, id : Ids]]
    BY <1>2, <1>5, <2>1
  <2>3. TypeOK'
    BY <1>1, <1>5, <2>2 DEF IInv, TypeOK
  <2>4. CallsOK' /\ JobsOK' /\ WorkOK'
    BY <1>1, <1>5, <2>2 DEF IInv, CallsOK, JobsOK, WorkOK
  <2> QED
    BY <1>3, <2>3, <2>4 DEF IInv
<1> QED
  BY <1>4, <1>5 DEF Offer

\* A caller that found the queue full takes back its own mark.
LEMMA UnmarkPreserves ==
  ASSUME IInv, NEW c \in Callers, Unmark(c)
  PROVE  IInv'
<1>1. /\ calls[c].pc = "full" /\ seen' = seen \ {calls[c].id}
      /\ calls' = [calls EXCEPT ![c] = Idle]
      /\ UNCHANGED <<jobs, worker, access, keys, devices, requests, pairs,
                     accepted, settled, late, refused>>
  BY DEF Unmark, phone, ghost
<1>2. /\ calls'[c].pc = "idle" /\ \A d \in Callers : d # c => calls'[d] = calls[d]
      /\ calls' \in [Callers -> {Idle} \cup [pc : {"marked", "full"}, id : Ids]]
  BY <1>1 DEF IInv, TypeOK, Idle
<1>3. TypeOK'
  BY <1>1, <1>2 DEF IInv, TypeOK
<1>4. CallsOK' /\ JobsOK' /\ WorkOK'
  BY <1>1, <1>2 DEF IInv, CallsOK, JobsOK, WorkOK
<1>5. AcceptedOK'
  <2>1. accepted[calls[c].id] = 0
    BY <1>1 DEF IInv, CallsOK
  <2> QED
    BY <1>1, <2>1 DEF IInv, AcceptedOK
<1>6. KeysOK' /\ PhonesOK'
  BY <1>1 DEF IInv, KeysOK, PhonesOK
<1> QED
  BY <1>3, <1>4, <1>5, <1>6 DEF IInv

-----------------------------------------------------------------------------
(* The worker.                                                             *)

\* The first job moves from the queue to the worker.
LEMMA TakePreserves ==
  ASSUME IInv, Take
  PROVE  IInv'
<1>1. /\ worker.pc = "idle" /\ jobs # <<>> /\ jobs' = Tail(jobs)
      /\ worker' = [pc |-> "targets", id |-> Head(jobs), attempt |-> 1, to |-> {}, key |-> 0]
      /\ UNCHANGED <<calls, seen, access, keys, devices, requests, pairs,
                     accepted, settled, late, refused>>
  BY DEF Take, Idle, phone, ghost
<1>2. /\ jobs' \in Seq(Ids) /\ Len(jobs) \in Nat \ {0} /\ Len(jobs') = Len(jobs) - 1
      /\ Head(jobs) = jobs[1] /\ Head(jobs) \in Ids
  BY <1>1, JobsShape DEF IInv
<1>3. DOMAIN jobs' = 1..(Len(jobs) - 1) /\ \A k \in 1..(Len(jobs) - 1) : jobs'[k] = jobs[k + 1]
  BY <1>1, <1>2, JobsShape DEF IInv
<1>4. \A k \in 1..(Len(jobs) - 1) : k + 1 \in DOMAIN jobs /\ k + 1 # 1
  BY <1>2, JobsShape DEF IInv
<1>5. 1 \in DOMAIN jobs
  BY <1>2, JobsShape DEF IInv
<1>6. TypeOK'
  <2>1. worker' \in Working
    BY <1>1, <1>2, PushParametersOK DEF Working
  <2> QED
    BY <1>1, <1>2, <2>1, PushParametersOK DEF IInv, TypeOK
<1>7. CallsOK' /\ AcceptedOK'
  BY <1>1 DEF IInv, CallsOK, AcceptedOK
<1>8. JobsOK'
  BY <1>1, <1>2, <1>3, <1>4 DEF IInv, JobsOK
<1>9. WorkOK'
  BY <1>1, <1>2, <1>3, <1>4, <1>5 DEF IInv, JobsOK, WorkOK
<1>10. KeysOK' /\ PhonesOK'
  BY <1>1 DEF IInv, KeysOK, PhonesOK
<1> QED
  BY <1>6, <1>7, <1>8, <1>9, <1>10 DEF IInv

\* What may become of the worker's job: it goes on with it, it is done and keeps
\* the mark, or it is lost with the mark.
Outcome ==
  \/ worker'.pc # "idle" /\ worker'.id = worker.id /\ seen' = seen /\ accepted' = accepted
  \/ /\ worker' = Idle /\ seen' = seen
     /\ \/ accepted' = accepted
        \/ accepted' = [accepted EXCEPT ![worker.id] = @ + 1]
  \/ worker' = Idle /\ seen' = seen \ {worker.id} /\ accepted' = accepted

\* In each case the places stay apart.
LEMMA OutcomePreserves ==
  ASSUME IInv, worker.pc # "idle", Outcome, UNCHANGED <<calls, jobs>>
  PROVE  CallsOK' /\ JobsOK' /\ WorkOK' /\ AcceptedOK'
<1>1. /\ worker.id \in Ids /\ worker.id \in seen /\ accepted[worker.id] = 0
      /\ accepted \in [Ids -> Nat]
  BY WorkerShape DEF IInv, WorkOK, TypeOK
<1>2. /\ \A c \in Callers : calls[c].pc # "idle" => calls[c].id # worker.id /\ calls[c].id \in Ids
      /\ \A k \in DOMAIN jobs : jobs[k] # worker.id /\ jobs[k] \in Ids
  BY CallShape, JobsShape DEF IInv, WorkOK
<1>3. /\ \A i \in Ids : i # worker.id => accepted'[i] = accepted[i] /\ (i \in seen' <=> i \in seen)
      /\ accepted'[worker.id] \in {0, 1}
      /\ accepted'[worker.id] = 1 => worker.id \in seen'
      /\ worker' = Idle \/ (worker'.id = worker.id /\ seen' = seen /\ accepted' = accepted)
  BY <1>1 DEF Outcome
<1>4. CallsOK'
  BY <1>2, <1>3 DEF IInv, CallsOK
<1>5. JobsOK'
  BY <1>2, <1>3 DEF IInv, JobsOK
<1>6. WorkOK'
  BY <1>1, <1>2, <1>3 DEF IInv, WorkOK, Idle
<1>7. AcceptedOK'
  BY <1>1, <1>3 DEF IInv, AcceptedOK
<1> QED
  BY <1>4, <1>5, <1>6, <1>7

\* An attempt that fails is one of those, with nothing to send to yet.
LEMMA FailedAttempt ==
  ASSUME IInv, worker.pc # "idle", Transient \/ Lost \/ Delivered
  PROVE  /\ worker' \in {Idle} \cup Working
         /\ worker'.pc = "idle" \/ (worker'.pc = "targets" /\ worker'.to = {})
         /\ seen' \subseteq Ids /\ settled' \subseteq Ids
         /\ accepted' = accepted => Outcome
         /\ ~Transient /\ ~Lost => worker' = Idle /\ seen' = seen
<1>1. /\ worker \in Working /\ worker.attempt \in 1..MaxAttempts /\ worker.id \in Ids
      /\ seen \subseteq Ids /\ settled \subseteq Ids /\ MaxAttempts \in Nat
  BY WorkerShape, PushParametersOK DEF IInv, TypeOK
<1>2. CASE Again
  <2>1. /\ worker.attempt < MaxAttempts /\ UNCHANGED <<seen, settled>>
        /\ worker' = [worker EXCEPT !.pc = "targets", !.attempt = @ + 1, !.to = {}, !.key = 0]
    BY <1>2 DEF Again
  <2>2. worker.attempt + 1 \in 1..MaxAttempts /\ 0 \in 0..MaxKeys
    BY <1>1, <2>1, PushParametersOK
  <2>3. worker' \in Working /\ worker'.pc = "targets" /\ worker'.to = {} /\ worker'.id = worker.id
    BY <1>1, <2>1, <2>2 DEF Working
  <2> QED
    BY <1>1, <1>2, <2>1, <2>3 DEF Outcome, Transient
<1>3. CASE Lost
  BY <1>1, <1>3 DEF Lost, Idle, Outcome
<1>4. CASE Delivered
  BY <1>1, <1>4 DEF Delivered, Idle, Outcome
<1> QED
  BY <1>2, <1>3, <1>4 DEF Transient

\* The targets are the devices of this moment, which saw no late push.
LEMMA LoadTargetsPreserves ==
  ASSUME IInv, LoadTargets
  PROVE  IInv'
<1> DEFINE to == {d.id : d \in {e \in devices : e.push}}
<1>1. /\ worker.pc = "targets"
      /\ UNCHANGED <<calls, jobs, access, keys, devices, requests, pairs, accepted, late, refused>>
      /\ \/ worker' = [worker EXCEPT !.pc = "access", !.to = to] /\ UNCHANGED <<seen, settled>>
         \/ Delivered \/ Transient
  BY DEF LoadTargets, phone
<1>2. to \subseteq Devs /\ \A d \in to : d <= pairs /\ late[d] = 0
  BY DEF IInv, TypeOK, Device, PhonesOK
<1>3. /\ worker' \in {Idle} \cup Working /\ seen' \subseteq Ids /\ settled' \subseteq Ids
      /\ Outcome /\ worker'.pc # "send"
      /\ worker'.pc # "idle" => worker'.to = to \/ worker'.to = {}
  <2>1. CASE worker' = [worker EXCEPT !.pc = "access", !.to = to] /\ UNCHANGED <<seen, settled>>
    <3>1. worker' \in Working /\ worker'.pc = "access" /\ worker'.to = to /\ worker'.id = worker.id
      BY <1>1, <1>2, <2>1, WorkerShape DEF IInv, Working
    <3> QED
      BY <1>1, <2>1, <3>1 DEF Outcome, IInv, TypeOK
  <2>2. CASE Delivered \/ Transient
    BY <1>1, <2>2, FailedAttempt
  <2> QED
    BY <1>1, <2>1, <2>2
<1>4. TypeOK'
  BY <1>1, <1>3 DEF IInv, TypeOK
<1>5. CallsOK' /\ JobsOK' /\ WorkOK' /\ AcceptedOK'
  BY <1>1, <1>3, OutcomePreserves
<1>6. KeysOK'
  BY <1>1, <1>3 DEF IInv, KeysOK
<1>7. PhonesOK'
  BY <1>1, <1>2, <1>3 DEF IInv, PhonesOK
<1> QED
  BY <1>4, <1>5, <1>6, <1>7 DEF IInv

\* The access token is one that was not refused, the cached or a new one.
LEMMA GetAccessPreserves ==
  ASSUME IInv, GetAccess
  PROVE  IInv'
<1>1. /\ worker.pc = "access"
      /\ UNCHANGED <<calls, jobs, devices, requests, pairs, accepted, late, refused>>
  BY DEF GetAccess, phone
<1>2. access \in 0..keys /\ keys \in 0..MaxKeys /\ refused \subseteq 1..keys /\ MaxKeys \in Nat
  BY PushParametersOK DEF IInv, TypeOK
<1>3. ASSUME NEW k \in 1..MaxKeys, HaveKey(k)
      PROVE  /\ worker' \in Working /\ worker'.pc = "send" /\ worker'.key = k
             /\ worker'.id = worker.id /\ worker'.to = worker.to /\ UNCHANGED <<seen, settled>>
  <2>1. k \in 0..MaxKeys
    BY <1>2
  <2> QED
    BY <1>1, <1>3, <2>1, WorkerShape DEF HaveKey, IInv, Working
<1>4. /\ worker' \in {Idle} \cup Working /\ seen' \subseteq Ids /\ settled' \subseteq Ids
      /\ Outcome /\ (worker'.pc # "idle" => worker'.to = worker.to \/ worker'.to = {})
      /\ access' \in 0..keys' /\ keys' \in 0..MaxKeys /\ keys <= keys'
      /\ access' \notin refused
      /\ worker'.pc = "send" => worker'.key \in 1..keys' /\ worker'.key \notin refused
  <2>1. CASE access # 0 /\ HaveKey(access) /\ UNCHANGED <<access, keys>>
    <3>1. access \in 1..MaxKeys /\ access \in 1..keys
      BY <1>2, <2>1
    <3>2. access \notin refused
      BY DEF IInv, KeysOK
    <3> QED
      BY <1>1, <1>2, <1>3, <2>1, <3>1, <3>2 DEF Outcome, IInv, TypeOK
  <2>2. CASE /\ access = 0 /\ keys < MaxKeys /\ keys' = keys + 1 /\ access' = keys + 1
             /\ HaveKey(keys + 1)
    <3>1. keys + 1 \in 1..MaxKeys /\ keys + 1 \notin refused
      BY <1>2, <2>2
    <3>2. keys' \in 0..MaxKeys /\ access' \in 0..keys' /\ keys <= keys' /\ access' \notin refused
      BY <1>2, <2>2, <3>1
    <3>3. /\ worker' \in Working /\ worker'.pc = "send" /\ worker'.key = keys + 1
          /\ worker'.id = worker.id /\ worker'.to = worker.to /\ UNCHANGED <<seen, settled>>
      BY <1>3, <2>2, <3>1
    <3>4. worker'.key \in 1..keys'
      BY <1>2, <2>2, <3>3
    <3> QED
      BY <1>1, <3>1, <3>2, <3>3, <3>4 DEF Outcome, IInv, TypeOK
  <2>3. CASE access = 0 /\ (Transient \/ Lost) /\ UNCHANGED <<access, keys>>
    <3>1. /\ worker' \in {Idle} \cup Working /\ seen' \subseteq Ids /\ settled' \subseteq Ids
          /\ Outcome /\ worker'.pc # "send" /\ (worker'.pc # "idle" => worker'.to = {})
      BY <1>1, <2>3, FailedAttempt
    <3> QED
      BY <1>2, <2>3, <3>1 DEF IInv, KeysOK
  <2> QED
    BY <2>1, <2>2, <2>3 DEF GetAccess
<1>5. TypeOK'
  <2>1. refused' \subseteq 1..keys'
    BY <1>1, <1>2, <1>4
  <2> QED
    BY <1>1, <1>4, <2>1 DEF IInv, TypeOK
<1>6. CallsOK' /\ JobsOK' /\ WorkOK' /\ AcceptedOK'
  BY <1>1, <1>4, OutcomePreserves
<1>7. KeysOK'
  BY <1>1, <1>4 DEF KeysOK
<1>8. PhonesOK'
  BY <1>1, <1>4 DEF IInv, PhonesOK
<1> QED
  BY <1>5, <1>6, <1>7, <1>8 DEF IInv

\* A push that reaches phones no longer paired is their last: none of them has
\* seen one before, and none of them is paired again.
LEMMA ReachPreserves ==
  ASSUME IInv, worker.pc = "send", Reach \/ UNCHANGED late, UNCHANGED <<devices, pairs>>,
         worker'.pc # "idle" => worker'.to = {}
  PROVE  PhonesOK' /\ late' \in [Devs -> Nat]
<1>1. /\ late \in [Devs -> Nat] /\ devices \subseteq Device
      /\ \A d \in worker.to : d <= pairs /\ late[d] = 0
  BY DEF IInv, TypeOK, PhonesOK
<1>2. \A d \in devices : d.id \in Devs /\ d.id \in Paired
  BY <1>1 DEF Device, Paired
<1>3. /\ late' \in [Devs -> Nat]
      /\ \A d \in Devs : late'[d] = late[d] \/ (d \in worker.to \ Paired /\ late'[d] = late[d] + 1)
  BY <1>1 DEF Reach
<1>4. \A d \in Devs : late'[d] <= 1 /\ (d > pairs => late'[d] = 0)
  <2> SUFFICES ASSUME NEW d \in Devs PROVE late'[d] <= 1 /\ (d > pairs => late'[d] = 0)
    OBVIOUS
  <2>1. /\ late[d] \in Nat /\ late[d] <= 1 /\ (d > pairs => late[d] = 0)
        /\ d \in Nat /\ pairs \in Nat
    BY <1>1, PushParametersOK DEF IInv, PhonesOK, TypeOK, Devs
  <2> QED
    BY <1>1, <1>3, <2>1
<1>5. \A d \in devices : d.id <= pairs /\ late'[d.id] = 0
  BY <1>2, <1>3 DEF IInv, PhonesOK
<1> QED
  BY <1>3, <1>4, <1>5 DEF IInv, PhonesOK

\* Push Kit answers: it has accepted, failed, rejected, or refused the token.
LEMMA AnswerPreserves ==
  ASSUME IInv, Accept \/ Fail \/ Reject \/ Unauthorized
  PROVE  IInv'
<1>1. /\ worker.pc = "send" /\ UNCHANGED <<calls, jobs, keys, devices, requests, pairs>>
      /\ Reach \/ UNCHANGED late
      /\ access' \in {access, 0} /\ (refused' = refused \/ refused' = refused \cup {worker.key})
      /\ access' # 0 => refused' = refused
  BY DEF Accept, Fail, Reject, Unauthorized, phone
<1>2. /\ worker' \in {Idle} \cup Working /\ seen' \subseteq Ids /\ settled' \subseteq Ids
      /\ worker'.pc = "idle" \/ (worker'.pc = "targets" /\ worker'.to = {})
      /\ Outcome
  <2>1. CASE Accept
    <3>1. Delivered /\ accepted' = [accepted EXCEPT ![worker.id] = @ + 1]
      BY <2>1 DEF Accept
    <3>2. worker' = Idle /\ seen' = seen
      BY <3>1 DEF Delivered
    <3> QED
      BY <1>1, <3>1, <3>2, FailedAttempt DEF Outcome
  <2>2. CASE Fail \/ Reject \/ Unauthorized
    <3>1. (Transient \/ Lost) /\ accepted' = accepted
      BY <2>2 DEF Fail, Reject, Unauthorized
    <3> QED
      BY <1>1, <3>1, FailedAttempt
  <2> QED
    BY <2>1, <2>2
<1>3. PhonesOK' /\ late' \in [Devs -> Nat]
  BY <1>1, <1>2, ReachPreserves
<1>4. CallsOK' /\ JobsOK' /\ WorkOK' /\ AcceptedOK'
  BY <1>1, <1>2, OutcomePreserves
<1>5. worker.key \in 1..keys /\ refused \subseteq 1..keys /\ access \in 0..keys /\ keys \in Nat
  BY <1>1, PushParametersOK DEF IInv, KeysOK, TypeOK
<1>6. TypeOK'
  <2>1. accepted' \in [Ids -> Nat]
    <3>1. accepted \in [Ids -> Nat]
      BY DEF IInv, TypeOK
    <3>2. accepted' = accepted \/ accepted' = [accepted EXCEPT ![worker.id] = @ + 1]
      BY DEF Accept, Fail, Reject, Unauthorized
    <3> QED
      BY <3>1, <3>2
  <2>2. refused' \subseteq 1..keys' /\ access' \in 0..keys'
    <3>1. refused' \subseteq 1..keys
      BY <1>1, <1>5
    <3>2. access' \in 0..keys
      BY <1>1, <1>5
    <3>3. keys' = keys
      BY <1>1
    <3> QED
      BY <3>1, <3>2, <3>3
  <2> QED
    BY <1>1, <1>2, <1>3, <2>1, <2>2 DEF IInv, TypeOK
<1>7. KeysOK'
  <2>1. access \notin refused
    BY DEF IInv, KeysOK
  <2> QED
    BY <1>1, <1>2, <1>5, <2>1 DEF KeysOK
<1> QED
  BY <1>3, <1>4, <1>6, <1>7 DEF IInv

LEMMA ExpirePreserves ==
  ASSUME IInv, Expire
  PROVE  IInv'
<1>1. /\ access' = 0
      /\ UNCHANGED <<calls, seen, jobs, worker, keys, devices, requests, pairs,
                     accepted, settled, late, refused>>
  BY DEF Expire, queue, phone, ghost
<1>2. TypeOK'
  BY <1>1, PushParametersOK DEF IInv, TypeOK
<1>3. CallsOK' /\ JobsOK' /\ WorkOK' /\ AcceptedOK' /\ PhonesOK'
  BY <1>1 DEF IInv, CallsOK, JobsOK, WorkOK, AcceptedOK, PhonesOK
<1>4. KeysOK'
  BY <1>1 DEF IInv, KeysOK, TypeOK
<1> QED
  BY <1>2, <1>3, <1>4 DEF IInv

-----------------------------------------------------------------------------
(* The phone.                                                              *)

\* What the phone does is no matter of the queue, the worker or its tokens.
LEMMA ApartFromPhone ==
  ASSUME IInv, UNCHANGED <<calls, seen, jobs, worker, access, keys, accepted, refused>>
  PROVE  CallsOK' /\ JobsOK' /\ WorkOK' /\ AcceptedOK' /\ KeysOK'
BY DEF IInv, CallsOK, JobsOK, WorkOK, AcceptedOK, KeysOK

\* A new phone has a new number.
LEMMA PairPreserves ==
  ASSUME IInv, Pair
  PROVE  IInv'
<1>1. /\ devices = {} /\ pairs < MaxPairs /\ pairs' = pairs + 1
      /\ devices' = {[id |-> pairs + 1, push |-> FALSE]}
      /\ UNCHANGED <<calls, seen, jobs, worker, access, keys, requests,
                     accepted, settled, late, refused>>
  BY DEF Pair, queue, ghost
<1>2. pairs + 1 \in Devs /\ pairs + 1 \in 0..MaxPairs /\ pairs \in Nat
  BY <1>1, PushParametersOK DEF IInv, TypeOK, Devs
<1>3. TypeOK'
  BY <1>1, <1>2 DEF IInv, TypeOK, Device
<1>4. PhonesOK'
  <2>1. late[pairs + 1] = 0
    BY <1>2 DEF IInv, PhonesOK
  <2>2. \A d \in Devs : late[d] <= 1 /\ (d > pairs + 1 => late[d] = 0)
    BY <1>2, PushParametersOK DEF IInv, PhonesOK, Devs
  <2>3. worker.pc # "idle" => \A d \in worker.to : d <= pairs + 1 /\ late[d] = 0
    <3> SUFFICES ASSUME worker.pc # "idle", NEW d \in worker.to
                 PROVE  d <= pairs + 1 /\ late[d] = 0
      OBVIOUS
    <3>1. d \in Nat
      BY WorkerShape, PushParametersOK DEF IInv, Devs
    <3> QED
      BY <1>2, <3>1 DEF IInv, PhonesOK
  <2> QED
    BY <1>1, <1>2, <2>1, <2>2, <2>3 DEF PhonesOK
<1> QED
  BY <1>1, <1>3, <1>4, ApartFromPhone DEF IInv

\* A request names a device that was paired; what it does later adds none.
LEMMA RequestPreserves ==
  ASSUME IInv,
         \/ \E d \in devices, op \in {"unpair", "push"} : Authenticate(d, op)
         \/ \E r \in requests : Unpair(r) \/ RegisterPushToken(r)
  PROVE  IInv'
<1>1. /\ UNCHANGED <<calls, seen, jobs, worker, access, keys, pairs,
                     accepted, settled, late, refused>>
      /\ \/ devices' \subseteq devices
         \/ \E dev : devices' = {IF d.id = dev THEN [d EXCEPT !.push = TRUE] ELSE d : d \in devices}
  BY DEF Authenticate, Unpair, RegisterPushToken, SetPushToken, queue, ghost
<1>2. devices \subseteq Device
  BY DEF IInv, TypeOK
<1>3. devices' \subseteq Device /\ \A e \in devices' : \E d \in devices : e.id = d.id
  <2>1. CASE devices' \subseteq devices
    BY <1>2, <2>1
  <2>2. CASE \E dev : devices' = {IF d.id = dev THEN [d EXCEPT !.push = TRUE] ELSE d : d \in devices}
    <3>1. PICK dev : devices' = {IF d.id = dev THEN [d EXCEPT !.push = TRUE] ELSE d : d \in devices}
      BY <2>2
    <3>2. \A d \in Device : [d EXCEPT !.push = TRUE] \in Device /\ [d EXCEPT !.push = TRUE].id = d.id
      BY DEF Device
    <3> QED
      BY <1>2, <3>1, <3>2
  <2> QED
    BY <1>1, <2>1, <2>2
<1>4. \A d, e \in devices' : d = e
  <2>1. \A d, e \in devices : d = e
    BY DEF IInv, PhonesOK
  <2> QED
    BY <1>1, <2>1
<1>5. requests' \subseteq Request
  <2>1. ASSUME NEW d \in devices, NEW op \in {"unpair", "push"}, Authenticate(d, op)
        PROVE  requests' \subseteq Request
    <3>1. [dev |-> d.id, op |-> op] \in Request
      BY <1>2 DEF Device, Request
    <3> QED
      BY <2>1, <3>1 DEF Authenticate, IInv, TypeOK
  <2>2. ASSUME NEW r \in requests, Unpair(r) \/ RegisterPushToken(r)
        PROVE  requests' \subseteq Request
    BY <2>2 DEF Unpair, RegisterPushToken, IInv, TypeOK
  <2> QED
    BY <2>1, <2>2
<1>6. TypeOK'
  BY <1>1, <1>3, <1>5 DEF IInv, TypeOK
<1>7. PhonesOK'
  BY <1>1, <1>3, <1>4 DEF IInv, PhonesOK
<1> QED
  BY <1>1, <1>6, <1>7, ApartFromPhone DEF IInv

-----------------------------------------------------------------------------
\* Every step keeps the invariant: one case per action.
LEMMA NextPreserves == IInv /\ [Next]_vars => IInv'
<1> SUFFICES ASSUME IInv, [Next]_vars PROVE IInv'
  OBVIOUS
<1>1. ASSUME NEW c \in Callers, (\E i \in Ids : Mark(c, i)) \/ Offer(c) \/ Unmark(c) PROVE IInv'
  BY <1>1, MarkPreserves, OfferPreserves, UnmarkPreserves
<1>2. CASE Work
  BY <1>2, TakePreserves, LoadTargetsPreserves, GetAccessPreserves, AnswerPreserves DEF Work
<1>3. CASE Expire \/ Pair
  BY <1>3, ExpirePreserves, PairPreserves
<1>4. CASE \E d \in devices, op \in {"unpair", "push"} : Authenticate(d, op)
  BY <1>4, RequestPreserves
<1>5. CASE \E r \in requests : Unpair(r) \/ RegisterPushToken(r)
  BY <1>5, RequestPreserves
<1>6. CASE UNCHANGED vars
  <2>1. TypeOK'
    BY <1>6 DEF IInv, TypeOK, vars, queue, phone, ghost
  <2>2. PhonesOK'
    BY <1>6 DEF IInv, PhonesOK, vars, queue, phone, ghost
  <2> QED
    BY <1>6, <2>1, <2>2, ApartFromPhone DEF IInv, vars, queue, phone, ghost
<1> QED
  BY <1>1, <1>2, <1>3, <1>4, <1>5, <1>6 DEF Next

\* The inductive invariant holds in every reachable state.
THEOREM Invariance == Spec => []IInv
BY InitIInv, NextPreserves, PTL DEF Spec

\* Every variable keeps its type and the queue its capacity.
THEOREM TypeCorrect == Spec => []TypeOK
<1>1. IInv => TypeOK
  BY DEF IInv
<1> QED
  BY <1>1, Invariance, PTL

\* A set no two elements of which differ has at most one.
LEMMA AtMostOne ==
  ASSUME NEW S, \A x, y \in S : x = y
  PROVE  Cardinality(S) \in {0, 1} /\ (S # {} => Cardinality(S) = 1)
                                   /\ (S = {} => Cardinality(S) = 0)
<1>1. CASE S = {}
  BY <1>1, FS_EmptySet
<1>2. CASE S # {}
  <2>1. PICK x \in S : S = {x}
    BY <1>2
  <2> QED
    BY <1>2, <2>1, FS_Singleton
<1> QED
  BY <1>1, <1>2

\* An approval is with one caller, once in the queue or with the worker, and
\* marked there.
THEOREM OnePlace == Spec => []QueuedOnce
<1>1. ASSUME IInv PROVE QueuedOnce
  <2> SUFFICES ASSUME NEW i \in Ids
               PROVE LET places == Cardinality(Marked(i)) + Cardinality(InQueue(i))
                                     + Cardinality(InWork(i))
                     IN  places <= 1 /\ (places = 1 => i \in seen)
    BY DEF QueuedOnce
  <2>1. /\ \A c, d \in Marked(i) : c = d
        /\ Marked(i) # {} => i \in seen /\ InQueue(i) = {} /\ InWork(i) = {}
    <3>1. \A c, d \in Marked(i) : c = d
      BY <1>1 DEF IInv, CallsOK, Marked
    <3>2. ASSUME NEW c \in Marked(i) PROVE i \in seen /\ InQueue(i) = {} /\ InWork(i) = {}
      <4>1. calls[c].pc # "idle" /\ calls[c].id = i /\ c \in Callers
        BY <3>2 DEF Marked
      <4>2. i \in seen
        BY <1>1, <4>1 DEF IInv, CallsOK
      <4>3. InQueue(i) = {}
        BY <1>1, <4>1 DEF IInv, JobsOK, InQueue
      <4>4. worker.pc # "idle" => worker.id # i
        BY <1>1, <4>1 DEF IInv, WorkOK
      <4>5. worker # Idle => worker.pc # "idle"
        BY <1>1 DEF IInv, TypeOK, Working
      <4> QED
        BY <4>2, <4>3, <4>4, <4>5 DEF InWork
    <3> QED
      BY <3>1, <3>2
  <2>2. /\ \A k, l \in InQueue(i) : k = l
        /\ InQueue(i) # {} => i \in seen /\ InWork(i) = {}
    BY <1>1 DEF IInv, JobsOK, WorkOK, InQueue, InWork, Idle, TypeOK, Working
  <2>3. /\ \A k, l \in InWork(i) : k = l
        /\ InWork(i) # {} => i \in seen
    BY <1>1 DEF IInv, WorkOK, InWork, Idle, TypeOK, Working
  <2>4. /\ Cardinality(Marked(i)) \in {0, 1} /\ (Marked(i) = {} => Cardinality(Marked(i)) = 0)
        /\ Cardinality(InQueue(i)) \in {0, 1} /\ (InQueue(i) = {} => Cardinality(InQueue(i)) = 0)
        /\ Cardinality(InWork(i)) \in {0, 1} /\ (InWork(i) = {} => Cardinality(InWork(i)) = 0)
    BY <2>1, <2>2, <2>3, AtMostOne
  <2> QED
    BY <2>1, <2>2, <2>3, <2>4
<1> QED
  BY <1>1, Invariance, PTL

\* What Push Kit is known to have accepted is never sent again.
THEOREM SentOnce == Spec => []AcceptedOnce
<1>1. ASSUME IInv PROVE AcceptedOnce
  BY <1>1 DEF IInv, AcceptedOK, AcceptedOnce, TypeOK
<1> QED
  BY <1>1, Invariance, PTL

\* A refused access token is not used again.
THEOREM Forgotten == Spec => []RefusedKeyIsForgotten
<1>1. IInv => RefusedKeyIsForgotten
  BY DEF IInv, KeysOK, RefusedKeyIsForgotten
<1> QED
  BY <1>1, Invariance, PTL

\* A phone that was unpaired sees one push more at the most.
THEOREM Quiet == Spec => []LeftAlone
<1>1. IInv => LeftAlone
  BY DEF IInv, PhonesOK, LeftAlone
<1> QED
  BY <1>1, Invariance, PTL

\* There is one paired phone at the most.
THEOREM Alone == Spec => []OnePhone
<1>1. ASSUME IInv PROVE OnePhone
  <2>1. Cardinality(devices) \in {0, 1}
    BY <1>1, AtMostOne DEF IInv, PhonesOK
  <2> QED
    BY <2>1 DEF OnePhone
<1> QED
  BY <1>1, Invariance, PTL

(***************************************************************************)
(* MonitoringAlerts                                                        *)
(***************************************************************************)
-----------------------------------------------------------------------------
(* Sequences of alerts, by what is in them.                                *)

LEMMA Appended ==
  ASSUME NEW S, NEW s \in Seq(S), NEW x
  PROVE  /\ Items(Append(s, x)) = Items(s) \cup {x}
         /\ Distinct(s) /\ x \notin Items(s) => Distinct(Append(s, x))
<1>1. /\ Len(s) \in Nat /\ DOMAIN s = 1..Len(s) /\ DOMAIN Append(s, x) = 1..(Len(s) + 1)
      /\ \A i \in 1..Len(s) : Append(s, x)[i] = s[i]
      /\ Append(s, x)[Len(s) + 1] = x
  OBVIOUS
<1>2. ASSUME NEW i \in 1..(Len(s) + 1)
      PROVE  i \in 1..Len(s) \/ i = Len(s) + 1
  BY <1>1, <1>2
<1>3. Items(Append(s, x)) = Items(s) \cup {x}
  BY <1>1, <1>2 DEF Items
<1>4. Distinct(s) /\ x \notin Items(s) => Distinct(Append(s, x))
  BY <1>1, <1>2 DEF Items, Distinct
<1> QED BY <1>3, <1>4

LEMMA Headless ==
  ASSUME NEW S, NEW s \in Seq(S), s # <<>>
  PROVE  /\ Head(s) \in S /\ Tail(s) \in Seq(S) /\ Len(Tail(s)) = Len(s) - 1
         /\ Head(s) \in Items(s) /\ Items(Tail(s)) \subseteq Items(s)
         /\ Distinct(s) => Head(s) \notin Items(Tail(s)) /\ Distinct(Tail(s))
<1>1. /\ Len(s) \in Nat \ {0} /\ DOMAIN s = 1..Len(s) /\ Head(s) = s[1]
      /\ Tail(s) \in Seq(S) /\ DOMAIN Tail(s) = 1..(Len(s) - 1) /\ Len(Tail(s)) = Len(s) - 1
      /\ \A i \in 1..(Len(s) - 1) : Tail(s)[i] = s[i + 1] /\ i + 1 \in 1..Len(s) /\ i + 1 # 1
  OBVIOUS
<1>2. Head(s) \in S /\ 1 \in DOMAIN s
  BY <1>1
<1>3. Head(s) \in Items(s) /\ Items(Tail(s)) \subseteq Items(s)
  BY <1>1, <1>2 DEF Items
<1>4. Distinct(s) => Head(s) \notin Items(Tail(s))
  BY <1>1, <1>2 DEF Items, Distinct
<1>5. ASSUME Distinct(s), NEW i \in 1..(Len(s) - 1), NEW j \in 1..(Len(s) - 1),
             Tail(s)[i] = Tail(s)[j]
      PROVE  i = j
  <2>1. i + 1 = j + 1
    BY <1>1, <1>5 DEF Distinct
  <2> QED BY <2>1
<1> QED BY <1>1, <1>2, <1>3, <1>4, <1>5 DEF Distinct

LEMMA Nothing == Items(<<>>) = {} /\ Distinct(<<>>)
BY DEF Items, Distinct

LEMMA Joined ==
  ASSUME NEW S, NEW s \in Seq(S), NEW t \in Seq(S),
         Distinct(s), Distinct(t), Items(s) \cap Items(t) = {}
  PROVE  Distinct(s \o t) /\ s \o t \in Seq(S) /\ Items(s \o t) = Items(s) \cup Items(t)
<1>1. /\ Len(s) \in Nat /\ Len(t) \in Nat /\ DOMAIN s = 1..Len(s) /\ DOMAIN t = 1..Len(t)
      /\ s \o t \in Seq(S) /\ DOMAIN (s \o t) = 1..(Len(s) + Len(t))
      /\ \A i \in 1..Len(s) : (s \o t)[i] = s[i] /\ i \in 1..(Len(s) + Len(t))
      /\ \A i \in 1..Len(t) : (s \o t)[Len(s) + i] = t[i] /\ Len(s) + i \in 1..(Len(s) + Len(t))
  OBVIOUS
<1>2. ASSUME NEW i \in DOMAIN (s \o t)
      PROVE  i \in 1..Len(s) \/ \E k \in 1..Len(t) : i = Len(s) + k
  <2>1. i \in 1..(Len(s) + Len(t))
    BY <1>1
  <2>2. CASE i > Len(s)
    <3>1. i - Len(s) \in 1..Len(t) /\ i = Len(s) + (i - Len(s))
      BY <1>1, <2>1, <2>2
    <3> QED BY <3>1
  <2> QED BY <1>1, <2>1, <2>2
<1>3. Items(s \o t) = Items(s) \cup Items(t)
  <2>1. \A x \in Items(s \o t) : x \in Items(s) \cup Items(t)
    BY <1>1, <1>2 DEF Items
  <2>2. \A x \in Items(s) : x \in Items(s \o t)
    BY <1>1 DEF Items
  <2>3. \A x \in Items(t) : x \in Items(s \o t)
    BY <1>1 DEF Items
  <2> QED BY <2>1, <2>2, <2>3
<1>4. ASSUME NEW i \in DOMAIN (s \o t), NEW j \in DOMAIN (s \o t), (s \o t)[i] = (s \o t)[j]
      PROVE  i = j
  <2>1. \A a \in 1..Len(s), b \in 1..Len(t) : s[a] # t[b]
    BY <1>1 DEF Items
  <2>2. CASE i \in 1..Len(s) /\ j \in 1..Len(s)
    BY <1>1, <1>4, <2>2 DEF Distinct
  <2>3. CASE i \in 1..Len(s) /\ \E k \in 1..Len(t) : j = Len(s) + k
    BY <1>1, <1>4, <2>1, <2>3
  <2>4. CASE (\E k \in 1..Len(t) : i = Len(s) + k) /\ j \in 1..Len(s)
    BY <1>1, <1>4, <2>1, <2>4
  <2>5. CASE (\E k \in 1..Len(t) : i = Len(s) + k) /\ (\E l \in 1..Len(t) : j = Len(s) + l)
    <3>1. PICK k \in 1..Len(t) : i = Len(s) + k
      BY <2>5
    <3>2. PICK l \in 1..Len(t) : j = Len(s) + l
      BY <2>5
    <3>3. t[k] = t[l]
      BY <1>1, <1>4, <3>1, <3>2
    <3>4. k = l
      BY <1>1, <3>3 DEF Distinct
    <3> QED BY <3>1, <3>2, <3>4
  <2> QED BY <1>2, <2>2, <2>3, <2>4, <2>5
<1> QED BY <1>1, <1>3, <1>4 DEF Distinct

-----------------------------------------------------------------------------
(* Counting.                                                               *)

LEMMA MetricsFinite ==
  /\ IsFiniteSet(Metrics) /\ Cardinality(Metrics) = Count /\ Metrics \subseteq Nat
  /\ \A S \in SUBSET Metrics : IsFiniteSet(S) /\ Cardinality(S) \in Nat
<1>1. Count \in Nat /\ Count >= 1
  BY AlertParametersOK
<1>2. IsFiniteSet(Metrics) /\ Cardinality(Metrics) = Count
  BY <1>1, FS_Interval DEF Metrics
<1>3. Metrics \subseteq Nat
  BY <1>1 DEF Metrics
<1>4. ASSUME NEW S \in SUBSET Metrics
      PROVE  IsFiniteSet(S) /\ Cardinality(S) \in Nat
  BY <1>2, FS_Subset, FS_CardinalityType
<1> QED BY <1>2, <1>3, <1>4

LEMMA AlertsBound ==
  /\ MaxFlips + Count * MaxFaults \in Nat
  /\ Cardinality(Alerts) = MaxFlips + Count * MaxFaults
<1>1. MaxFlips + Count * MaxFaults \in Nat
  BY AlertParametersOK
<1> QED BY <1>1, FS_Interval DEF Alerts

LEMMA InTally ==
  ASSUME NEW f
  PROVE  /\ \A x \in Tally(f) : \E m \in Metrics : \E k \in 1..f[m] : x = <<m, k>>
         /\ \A m \in Metrics : \A k \in 1..f[m] : <<m, k>> \in Tally(f)
BY DEF Tally

\* One more for each of S.
LEMMA TallyGrows ==
  ASSUME NEW f \in [Metrics -> Nat], NEW S \in SUBSET Metrics, NEW g \in [Metrics -> Nat],
         \A m \in Metrics : g[m] = IF m \in S THEN f[m] + 1 ELSE f[m],
         IsFiniteSet(Tally(f))
  PROVE  /\ IsFiniteSet(Tally(g))
         /\ Cardinality(Tally(g)) = Cardinality(Tally(f)) + Cardinality(S)
<1> DEFINE D == {<<m, f[m] + 1>> : m \in S}
           h == [m \in S |-> <<m, f[m] + 1>>]
<1>1. IsFiniteSet(S) /\ Cardinality(S) \in Nat
  BY MetricsFinite
<1>2. h \in Bijection(S, D)
  BY DEF Bijection, Injection, Surjection, IsInjective
<1>3. IsFiniteSet(D) /\ Cardinality(D) = Cardinality(S)
  BY <1>1, <1>2, FS_Bijection DEF ExistsBijection
<1>4. Tally(f) \cap D = {}
  <2> SUFFICES ASSUME NEW x \in Tally(f), x \in D PROVE FALSE
    OBVIOUS
  <2>1. PICK m \in Metrics : \E k \in 1..f[m] : x = <<m, k>>
    BY InTally
  <2>2. PICK k \in 1..f[m] : x = <<m, k>>
    BY <2>1
  <2>3. PICK n \in S : x = <<n, f[n] + 1>>
    OBVIOUS
  <2> QED BY <2>2, <2>3
<1>5. Tally(g) = Tally(f) \cup D
  <2>1. ASSUME NEW x \in Tally(g) PROVE x \in Tally(f) \cup D
    <3>1. PICK m \in Metrics : \E k \in 1..g[m] : x = <<m, k>>
      BY InTally
    <3>2. PICK k \in 1..g[m] : x = <<m, k>>
      BY <3>1
    <3>3. CASE k \in 1..f[m]
      BY <3>2, <3>3, InTally
    <3>4. CASE k \notin 1..f[m]
      <4>1. m \in S /\ k = f[m] + 1
        BY <3>2, <3>4
      <4> QED BY <3>2, <4>1
    <3> QED BY <3>3, <3>4
  <2>2. ASSUME NEW x \in Tally(f) PROVE x \in Tally(g)
    <3>1. PICK m \in Metrics : \E k \in 1..f[m] : x = <<m, k>>
      BY InTally
    <3>2. PICK k \in 1..f[m] : x = <<m, k>>
      BY <3>1
    <3>3. k \in 1..g[m]
      BY <3>2
    <3> QED BY <3>2, <3>3, InTally
  <2>3. ASSUME NEW x \in D PROVE x \in Tally(g)
    <3>1. PICK m \in S : x = <<m, f[m] + 1>>
      BY <2>3
    <3>2. f[m] + 1 \in 1..g[m]
      BY <3>1
    <3> QED BY <3>1, <3>2, InTally
  <2> QED BY <2>1, <2>2, <2>3
<1> HIDE DEF D
<1>6. /\ IsFiniteSet(Tally(f) \cup D)
      /\ Cardinality(Tally(f) \cup D) = Cardinality(Tally(f)) + Cardinality(D) - Cardinality({})
  BY <1>3, <1>4, FS_Union
<1> QED BY <1>1, <1>3, <1>5, <1>6, FS_EmptySet, FS_CardinalityType

\* With at most k more for each metric.
LEMMA TallyBound ==
  ASSUME NEW f \in [Metrics -> Nat], NEW g \in [Metrics -> Nat], NEW k \in Nat,
         \A m \in Metrics : f[m] <= g[m] + k,
         IsFiniteSet(Tally(f)), IsFiniteSet(Tally(g))
  PROVE  Cardinality(Tally(f)) <= Cardinality(Tally(g)) + Count * k
<1> DEFINE D == Tally(f) \ Tally(g)
           R == Metrics \X (1..k)
           h == [x \in D |-> <<x[1], x[2] - g[x[1]]>>]
<1>1. ASSUME NEW x \in D
      PROVE  /\ x = <<x[1], x[2]>> /\ x[1] \in Metrics /\ x[2] \in Nat
             /\ x[2] - g[x[1]] \in 1..k
  <2>1. PICK m \in Metrics : \E j \in 1..f[m] : x = <<m, j>>
    BY InTally
  <2>2. PICK j \in 1..f[m] : x = <<m, j>>
    BY <2>1
  <2>3. ~(j \in 1..g[m])
    BY <1>1, <2>2, InTally
  <2>4. x[1] = m /\ x[2] = j /\ j \in Nat /\ f[m] \in Nat /\ g[m] \in Nat
    BY <2>2
  <2> QED BY <2>2, <2>3, <2>4
<1>2. h \in Injection(D, R)
  <2>1. h \in [D -> R]
    BY <1>1
  <2>2. ASSUME NEW x \in D, NEW y \in D, h[x] = h[y]
        PROVE  x = y
    <3> HIDE DEF D
    <3>1. x[1] = y[1] /\ x[2] - g[x[1]] = y[2] - g[x[1]]
      BY <2>2
    <3>2. x[2] = y[2]
      BY <1>1, <3>1
    <3> QED BY <1>1, <3>1, <3>2
  <2> QED BY <2>1, <2>2 DEF Injection, IsInjective
<1>3. IsFiniteSet(R) /\ Cardinality(R) = Count * k
  <2>1. IsFiniteSet(1..k) /\ Cardinality(1..k) = k
    BY FS_Interval
  <2> QED BY <2>1, MetricsFinite, FS_Product
<1> HIDE DEF h, R
<1>4. IsFiniteSet(D) /\ Cardinality(D) <= Count * k
  BY <1>2, <1>3, FS_Injection
<1>5. IsFiniteSet(Tally(g) \cup D)
      /\ Cardinality(Tally(g) \cup D) <= Cardinality(Tally(g)) + Cardinality(D)
  <2>1. Tally(g) \cap D = {}
    OBVIOUS
  <2> HIDE DEF D
  <2>2. /\ IsFiniteSet(Tally(g) \cup D)
        /\ Cardinality(Tally(g) \cup D) = Cardinality(Tally(g)) + Cardinality(D) - Cardinality({})
    BY <1>4, <2>1, FS_Union
  <2> QED BY <1>4, <2>2, FS_EmptySet, FS_CardinalityType
<1>6. Tally(f) \subseteq Tally(g) \cup D
  OBVIOUS
<1>7. Cardinality(Tally(f)) <= Cardinality(Tally(g) \cup D)
  BY <1>5, <1>6, FS_Subset
<1>8. /\ Cardinality(Tally(f)) \in Nat /\ Cardinality(Tally(g)) \in Nat
      /\ Cardinality(Tally(g) \cup D) \in Nat /\ Cardinality(D) \in Nat /\ Count * k \in Nat
  BY <1>4, <1>5, FS_CardinalityType, AlertParametersOK
<1> HIDE DEF D
<1> QED BY <1>4, <1>5, <1>7, <1>8

-----------------------------------------------------------------------------
(* Reports and the steps of their handlers.                                *)

LEMMA ReportKinds ==
  ASSUME AlertTypeOK, NEW r \in Requests
  PROVE  /\ reports[r] \in {NoReport} \cup Sent \cup Handling
         /\ reports[r] = NoReport <=> reports[r].pc = "idle"
         /\ reports[r] # NoReport => reports[r].over \in SUBSET Metrics
         /\ reports[r].pc = "sent" => reports[r] \in Sent
         /\ Announcing(r) => /\ reports[r] \in Handling
                             /\ reports[r].todo \in Seq(Alerts)
         /\ reports[r].pc \in {"idle", "sent", "offer", "pop", "again"}
<1>1. reports[r] \in {NoReport} \cup Sent \cup Handling
  BY DEF AlertTypeOK
<1>2. /\ NoReport.pc = "idle"
      /\ \A x \in Sent : x.pc = "sent" /\ x.over \in SUBSET Metrics
      /\ \A x \in Handling : x.pc \in {"offer", "pop", "again"} /\ x.over \in SUBSET Metrics
                               /\ x.todo \in Seq(Alerts)
  BY DEF NoReport, Sent, Handling
<1> QED BY <1>1, <1>2 DEF Announcing

LEMMA AlertInitInv == AlertInit => AlertInv
<1> SUFFICES ASSUME AlertInit PROVE AlertInv
  OBVIOUS
<1> USE DEF AlertInit
<1>1. AlertTypeOK
  <2>1. 0 \in 0..Cardinality(Alerts) /\ 0 \in 0..MaxFlips /\ 0 \in 0..MaxFaults /\ 0 <= AlertCap
    BY AlertParametersOK, AlertsBound
  <2>2. <<>> \in Seq(1..alerts) /\ Len(<<>>) = 0
    OBVIOUS
  <2>3. active \in [Metrics -> 0..alerts]
    OBVIOUS
  <2>4. alertCh \in Seq(1..alerts) /\ Len(alertCh) <= AlertCap /\ topic \in Seq(1..alerts)
    BY <2>1, <2>2
  <2>5. reports \in [Requests -> {NoReport} \cup Sent \cup Handling]
    OBVIOUS
  <2>6. reported \in (SUBSET Metrics) \cup {{None}} /\ waiting = None
    BY DEF None
  <2>7. sample \in [Metrics -> Samples] /\ rises \in [Metrics -> Nat] /\ opened \in [Metrics -> Nat]
    BY DEF Samples
  <2>8. /\ alerts \in 0..Cardinality(Alerts) /\ publishing \in 0..alerts
        /\ flips \in 0..MaxFlips /\ faults \in 0..MaxFaults
    BY <2>1
  <2>9. recent \in BOOLEAN /\ lost \subseteq 1..alerts
    OBVIOUS
  <2> QED BY <2>3, <2>4, <2>5, <2>6, <2>7, <2>8, <2>9 DEF AlertTypeOK
<1>2. InOnePlace
  BY Nothing DEF InOnePlace, Announcing, NoReport
<1>3. Overtaken = {} /\ ~Awaited
  BY DEF Overtaken, NoReport, Awaited
<1>4. \A m \in Metrics : Ahead(m) = 0
  BY <1>3 DEF Ahead, Opens
<1>5. Accounted
  BY <1>3, <1>4, FS_EmptySet DEF Accounted
<1>6. Tally(opened) = {} /\ Tally(rises) = {}
  BY DEF Tally
<1>7. Numbered
  <2>1. alerts = 0 /\ flips = 0
    OBVIOUS
  <2> QED BY ONLY <1>6, <2>1, FS_EmptySet DEF Numbered
<1> QED BY <1>1, <1>2, <1>5, <1>7 DEF AlertInv

-----------------------------------------------------------------------------
(* Where the alerts are.                                                   *)

\* A step that moves none of them.
LEMMA NothingMoves ==
  ASSUME InOnePlace, UNCHANGED <<alerts, push>>,
         \A r \in Requests : Announcing(r)' => Announcing(r) /\ reports'[r].todo = reports[r].todo
  PROVE  InOnePlace'
<1>1. alerts' = alerts /\ topic' = topic /\ alertCh' = alertCh /\ publishing' = publishing
  BY DEF push
<1>2. ASSUME NEW r \in Requests, Announcing(r)'
      PROVE  /\ reports'[r].todo # <<>> /\ Distinct(reports'[r].todo)
             /\ Items(reports'[r].todo) \subseteq
                  (1..alerts') \ (Items(topic') \cup Items(alertCh') \cup {publishing'})
             /\ \A q \in Requests \ {r} :
                  Announcing(q)' => Items(reports'[r].todo) \cap Items(reports'[q].todo) = {}
  BY <1>1, <1>2 DEF InOnePlace
<1> QED BY <1>1, <1>2 DEF InOnePlace

\* A handler is done with the head of its list.
Advances(r) ==
  /\ Announcing(r)
  /\ \A q \in Requests \ {r} : reports'[q] = reports[q]
  /\ Announcing(r)' => reports'[r].todo = Tail(reports[r].todo) /\ reports'[r].todo # <<>>

\* The head goes into the queue, or nowhere.
LEMMA HeadMoves ==
  ASSUME AlertTypeOK, InOnePlace, NEW r \in Requests, Advances(r),
         alertCh' \in {alertCh, Append(alertCh, Head(reports[r].todo))},
         UNCHANGED <<alerts, topic, publishing>>
  PROVE  InOnePlace'
<1> DEFINE todo == reports[r].todo
<1>1. todo \in Seq(Alerts) /\ todo # <<>> /\ Announcing(r)
  BY ReportKinds DEF InOnePlace, Advances
<1>2. /\ Head(todo) \in Items(todo) /\ Items(Tail(todo)) \subseteq Items(todo)
      /\ Head(todo) \notin Items(Tail(todo)) /\ Distinct(Tail(todo))
  BY <1>1, Headless DEF InOnePlace
<1>3. Items(todo) \subseteq
        (1..alerts) \ (Items(topic) \cup Items(alertCh) \cup {publishing})
  BY <1>1 DEF InOnePlace
<1>4. alertCh \in Seq(1..alerts)
  BY DEF AlertTypeOK
<1>5. /\ Distinct(alertCh')
      /\ Items(alertCh) \subseteq Items(alertCh')
      /\ Items(alertCh') \subseteq Items(alertCh) \cup {Head(todo)}
  BY <1>2, <1>3, <1>4, Appended DEF InOnePlace
<1>6. /\ Distinct(topic') /\ Items(topic') = Items(topic) /\ publishing' = publishing
  BY DEF InOnePlace
<1>7. Items(topic') \cap Items(alertCh') = {} /\ publishing' \notin Items(topic') \cup Items(alertCh')
  BY <1>2, <1>3, <1>5, <1>6 DEF InOnePlace
<1>8. ASSUME NEW q \in Requests, Announcing(q)'
      PROVE  /\ reports'[q].todo # <<>> /\ Distinct(reports'[q].todo)
             /\ Announcing(q) /\ Items(reports'[q].todo) \subseteq Items(reports[q].todo)
             /\ Head(todo) \notin Items(reports'[q].todo)
  <2>1. CASE q = r
    BY <1>1, <1>2, <1>8, <2>1 DEF Advances
  <2>2. CASE q # r
    <3>1. reports'[q] = reports[q] /\ Announcing(q)
      BY <1>8, <2>2 DEF Advances, Announcing
    <3>2. Items(reports[r].todo) \cap Items(reports[q].todo) = {}
      BY <1>1, <2>2, <3>1 DEF InOnePlace
    <3> QED BY <1>2, <3>1, <3>2 DEF InOnePlace
  <2> QED BY <2>1, <2>2
<1>9. ASSUME NEW q \in Requests, Announcing(q)'
      PROVE  /\ Items(reports'[q].todo) \subseteq
                  (1..alerts') \ (Items(topic') \cup Items(alertCh') \cup {publishing'})
             /\ \A p \in Requests \ {q} :
                  Announcing(p)' => Items(reports'[q].todo) \cap Items(reports'[p].todo) = {}
  <2>1. Items(reports[q].todo) \subseteq
          (1..alerts) \ (Items(topic) \cup Items(alertCh) \cup {publishing})
    BY <1>8, <1>9 DEF InOnePlace
  <2>2. \A p \in Requests \ {q} :
          Announcing(p) => Items(reports[q].todo) \cap Items(reports[p].todo) = {}
    BY <1>8, <1>9 DEF InOnePlace
  <2>3. alerts' = alerts
    OBVIOUS
  <2> HIDE DEF todo
  <2>4. Items(reports'[q].todo) \subseteq
                  (1..alerts') \ (Items(topic') \cup Items(alertCh') \cup {publishing'})
    BY <1>5, <1>6, <1>8, <1>9, <2>1, <2>3
  <2> QED BY <1>8, <1>9, <2>2, <2>4
<1> QED BY <1>5, <1>6, <1>7, <1>8, <1>9 DEF InOnePlace

\* Alerts leave the queue and the worker, for the worker, the topic or for good.
LEMMA MovesOn ==
  ASSUME InOnePlace, alerts' = alerts,
         \A r \in Requests : Announcing(r)' => Announcing(r) /\ reports'[r].todo = reports[r].todo,
         Distinct(topic'), Distinct(alertCh'), Items(topic') \cap Items(alertCh') = {},
         publishing' \notin Items(topic') \cup Items(alertCh'),
         Items(topic') \cup Items(alertCh') \cup {publishing'} \subseteq
           Items(topic) \cup Items(alertCh) \cup {publishing, 0}
  PROVE  InOnePlace'
<1>1. ASSUME NEW r \in Requests, Announcing(r)'
      PROVE  /\ reports'[r].todo # <<>> /\ Distinct(reports'[r].todo)
             /\ Items(reports'[r].todo) \subseteq
                  (1..alerts') \ (Items(topic') \cup Items(alertCh') \cup {publishing'})
             /\ \A q \in Requests \ {r} :
                  Announcing(q)' => Items(reports'[r].todo) \cap Items(reports'[q].todo) = {}
  <2>1. /\ reports[r].todo # <<>> /\ Distinct(reports[r].todo)
        /\ Items(reports[r].todo) \subseteq
             (1..alerts) \ (Items(topic) \cup Items(alertCh) \cup {publishing})
        /\ \A q \in Requests \ {r} :
             Announcing(q) => Items(reports[r].todo) \cap Items(reports[q].todo) = {}
    BY <1>1 DEF InOnePlace
  <2>2. 0 \notin Items(reports[r].todo)
    BY <2>1
  <2> QED BY <1>1, <2>1, <2>2
<1> QED BY <1>1 DEF InOnePlace

-----------------------------------------------------------------------------
(* How many alerts there may be.                                           *)

LEMMA AheadIs ==
  ASSUME NEW m \in Metrics
  PROVE  /\ Ahead(m) \in 0..2
         /\ Awaited => Ahead(m) = Opens(active[m] # 0, m \in reports[waiting].over)
                                    + Opens(m \in reports[waiting].over, sample[m] # "under")
         /\ ~Awaited => Ahead(m) = Opens(active[m] # 0, sample[m] # "under")
BY DEF Ahead, Opens

LEMMA StillAccounted ==
  ASSUME AlertTypeOK, Accounted, opened' \in [Metrics -> Nat], rises' \in [Metrics -> Nat],
         faults' \in Nat, IsFiniteSet(Overtaken)',
         \A m \in Metrics :
           opened'[m] + Cardinality(Overtaken)' + Ahead(m)' + rises[m] + faults
             <= opened[m] + Cardinality(Overtaken) + Ahead(m) + rises'[m] + faults'
  PROVE  Accounted'
<1>1. Cardinality(Overtaken) \in Nat /\ Cardinality(Overtaken)' \in Nat
  BY FS_CardinalityType DEF Accounted
<1>2. \A m \in Metrics : Ahead(m) \in 0..2 /\ Ahead(m)' \in 0..2
  BY DEF Ahead, Opens
<1>3. /\ opened \in [Metrics -> Nat] /\ rises \in [Metrics -> Nat] /\ faults \in Nat
  BY AlertParametersOK DEF AlertTypeOK
<1>4. ASSUME NEW m \in Metrics
      PROVE  opened'[m] + Cardinality(Overtaken)' + Ahead(m)' <= rises'[m] + faults'
  <2>1. /\ opened[m] \in Nat /\ rises[m] \in Nat /\ opened'[m] \in Nat /\ rises'[m] \in Nat
        /\ Ahead(m) \in Nat /\ Ahead(m)' \in Nat
    BY <1>2, <1>3
  <2>2. opened[m] + Cardinality(Overtaken) + Ahead(m) <= rises[m] + faults
    BY DEF Accounted
  <2>3. opened'[m] + Cardinality(Overtaken)' + Ahead(m)' + rises[m] + faults
          <= opened[m] + Cardinality(Overtaken) + Ahead(m) + rises'[m] + faults'
    OBVIOUS
  <2> HIDE DEF Accounted
  <2> QED BY <1>1, <1>3, <2>1, <2>2, <2>3
<1> QED BY <1>4 DEF Accounted

\* Nothing the counts depend on.
LEMMA NothingCounts ==
  ASSUME AlertTypeOK, Accounted, UNCHANGED <<active, opened, sample, rises>>,
         faults' \in Nat, faults <= faults',
         \A r \in Requests : /\ reports'[r].pc = "sent" <=> reports[r].pc = "sent"
                             /\ reports[r].pc = "sent" => reports'[r] = reports[r],
         waiting' = waiting \/ (waiting' = None /\ reports[waiting].pc # "sent")
  PROVE  Accounted'
<1>1. Overtaken' = Overtaken
  BY AlertParametersOK DEF Overtaken, None
<1>2. Awaited' = Awaited /\ (Awaited => reports'[waiting'] = reports[waiting])
  BY DEF Awaited, AlertTypeOK
<1>3. \A m \in Metrics : Ahead(m)' = Ahead(m)
  BY <1>2 DEF Ahead
<1>4. \A m \in Metrics : Ahead(m) \in Nat
  BY AheadIs
<1>5. /\ opened \in [Metrics -> Nat] /\ rises \in [Metrics -> Nat] /\ faults \in Nat
      /\ IsFiniteSet(Overtaken) /\ Cardinality(Overtaken) \in Nat
  BY AlertParametersOK, FS_CardinalityType DEF AlertTypeOK, Accounted
<1> HIDE DEF Accounted
<1>6. \A m \in Metrics :
        opened'[m] + Cardinality(Overtaken)' + Ahead(m)' + rises[m] + faults
          <= opened[m] + Cardinality(Overtaken) + Ahead(m) + rises'[m] + faults'
  BY <1>1, <1>3, <1>4, <1>5
<1> QED BY <1>1, <1>5, <1>6, StillAccounted

\* The agent no longer waits: its report is overtaken.
LEMMA SetAside ==
  ASSUME AlertTypeOK, Accounted, UNCHANGED <<active, opened, sample, rises, reports>>,
         faults' = faults + 1, waiting' = None
  PROVE  Accounted'
<1>1. Overtaken' = IF Awaited THEN Overtaken \cup {waiting} ELSE Overtaken
  BY AlertParametersOK DEF Overtaken, None, Awaited, AlertTypeOK
<1>2. waiting \notin Overtaken /\ ~Awaited'
  BY DEF Overtaken, Awaited
<1>3. /\ IsFiniteSet(Overtaken)' /\ IsFiniteSet(Overtaken) /\ Cardinality(Overtaken) \in Nat
      /\ Cardinality(Overtaken)' = IF Awaited THEN Cardinality(Overtaken) + 1
                                   ELSE Cardinality(Overtaken)
  BY <1>1, <1>2, FS_AddElement, FS_CardinalityType DEF Accounted
<1>4. \A m \in Metrics : Ahead(m)' \in 0..2 /\ Ahead(m)' <= Ahead(m) /\ Ahead(m) \in 0..2
  BY <1>2 DEF Ahead, Opens
<1>5. /\ opened \in [Metrics -> Nat] /\ rises \in [Metrics -> Nat] /\ faults \in Nat
  BY AlertParametersOK DEF AlertTypeOK
<1>6. \A m \in Metrics :
        opened'[m] + Cardinality(Overtaken)' + Ahead(m)' + rises[m] + faults
          <= opened[m] + Cardinality(Overtaken) + Ahead(m) + rises'[m] + faults'
  BY <1>3, <1>4, <1>5
<1> QED BY <1>3, <1>5, <1>6, StillAccounted

\* Report r has arrived, or never will.
Closes(r) ==
  /\ reports[r].pc = "sent" /\ reports'[r].pc # "sent"
  /\ \A q \in Requests \ {r} : reports'[q] = reports[q]
  /\ waiting' = waiting \/ (r = waiting /\ waiting' = None)

LEMMA OneLess ==
  ASSUME AlertTypeOK, Accounted, NEW r \in Requests, Closes(r)
  PROVE  /\ IsFiniteSet(Overtaken)' /\ Cardinality(Overtaken) \in Nat
         /\ Cardinality(Overtaken)' = IF r = waiting THEN Cardinality(Overtaken)
                                      ELSE Cardinality(Overtaken) - 1
         /\ r = waiting => Awaited
         /\ Awaited' <=> Awaited /\ r # waiting
         /\ Awaited' => reports'[waiting'] = reports[waiting]
<1>1. \A q \in Requests : q # None
  BY AlertParametersOK DEF None
<1>2. Overtaken' = Overtaken \ {r} /\ (r \in Overtaken <=> r # waiting)
  <2>1. \A q \in Requests : reports'[q].pc = "sent" /\ q # waiting'
                             <=> reports[q].pc = "sent" /\ q # waiting /\ q # r
    BY <1>1 DEF Closes
  <2> QED BY <2>1 DEF Overtaken, Closes
<1>3. /\ IsFiniteSet(Overtaken)' /\ Cardinality(Overtaken) \in Nat
      /\ Cardinality(Overtaken)' = IF r = waiting THEN Cardinality(Overtaken)
                                   ELSE Cardinality(Overtaken) - 1
  BY <1>2, FS_RemoveElement, FS_CardinalityType DEF Accounted
<1>4. waiting \in Requests \cup {None}
  BY DEF AlertTypeOK
<1> QED BY <1>1, <1>3, <1>4 DEF Awaited, Closes

\* It had no effect.
LEMMA InVain ==
  ASSUME AlertTypeOK, Accounted, NEW r \in Requests, Closes(r),
         UNCHANGED <<active, opened, sample, rises>>, faults' \in Nat, faults <= faults'
  PROVE  Accounted'
<1>1. \A m \in Metrics : /\ Ahead(m)' \in 0..2 /\ Ahead(m) \in 0..2
                         /\ Ahead(m)' <= Ahead(m)
  BY OneLess DEF Ahead, Opens
<1>2. /\ opened \in [Metrics -> Nat] /\ rises \in [Metrics -> Nat] /\ faults \in Nat
  BY AlertParametersOK DEF AlertTypeOK
<1>3. \A m \in Metrics :
        opened'[m] + Cardinality(Overtaken)' + Ahead(m)' + rises[m] + faults
          <= opened[m] + Cardinality(Overtaken) + Ahead(m) + rises'[m] + faults'
  BY <1>1, <1>2, OneLess
<1> QED BY <1>2, <1>3, OneLess, StillAccounted

\* It set the rows.
LEMMA TakesEffect ==
  ASSUME AlertTypeOK, Accounted, NEW r \in Requests, Closes(r),
         UNCHANGED <<sample, rises, faults>>, opened' \in [Metrics -> Nat],
         \A m \in Metrics : active'[m] # 0 <=> m \in reports[r].over,
         \A m \in Metrics :
           opened'[m] = opened[m] + Opens(active[m] # 0, m \in reports[r].over)
  PROVE  Accounted'
<1>1. /\ opened \in [Metrics -> Nat] /\ rises \in [Metrics -> Nat] /\ faults \in Nat
  BY AlertParametersOK DEF AlertTypeOK
<1>2. ASSUME NEW m \in Metrics
      PROVE  opened'[m] + Cardinality(Overtaken)' + Ahead(m)' + rises[m] + faults
               <= opened[m] + Cardinality(Overtaken) + Ahead(m) + rises'[m] + faults'
  <2> DEFINE was == active[m] # 0
             saw == m \in reports[r].over
  <2>1. opened[m] \in Nat /\ rises[m] \in Nat /\ opened'[m] = opened[m] + Opens(was, saw)
        /\ (active'[m] # 0 <=> saw)
    BY <1>1
  <2>2. CASE r = waiting
    <3>1. Awaited /\ ~Awaited' /\ Cardinality(Overtaken)' = Cardinality(Overtaken)
          /\ Cardinality(Overtaken) \in Nat
      BY <2>2, OneLess
    <3>2. Ahead(m) = Opens(was, saw) + Opens(saw, sample[m] # "under")
      BY <2>2, <3>1 DEF Ahead
    <3>3. Ahead(m)' = Opens(saw, sample[m] # "under")
      BY <2>1, <3>1 DEF Ahead, Opens
    <3> QED BY <1>1, <2>1, <3>1, <3>2, <3>3 DEF Opens
  <2>3. CASE r # waiting
    <3>1. /\ Cardinality(Overtaken)' = Cardinality(Overtaken) - 1 /\ Cardinality(Overtaken) \in Nat
          /\ Awaited' <=> Awaited
          /\ Awaited' => reports'[waiting'] = reports[waiting]
      BY <2>3, OneLess
    <3>2. /\ Ahead(m)' \in 0..2 /\ Ahead(m) \in 0..2 /\ Opens(was, saw) \in 0..1
          /\ Ahead(m)' + Opens(was, saw) <= Ahead(m) + 1
      BY <2>1, <3>1 DEF Ahead, Opens
    <3> HIDE DEF was, saw
    <3> QED BY <1>1, <2>1, <3>1, <3>2
  <2> QED BY <2>2, <2>3
<1> QED BY <1>1, <1>2, OneLess, StillAccounted

\* Hence the numbers suffice.
LEMMA NumbersSuffice ==
  ASSUME Accounted, Numbered, opened \in [Metrics -> Nat], rises \in [Metrics -> Nat],
         flips \in 0..MaxFlips, faults \in 0..MaxFaults
  PROVE  alerts \in 0..Cardinality(Alerts)
<1>1. \A m \in Metrics : opened[m] <= rises[m] + faults
  <2>1. Cardinality(Overtaken) \in Nat /\ \A m \in Metrics : Ahead(m) \in Nat
    BY FS_CardinalityType, AheadIs DEF Accounted
  <2>2. \A m \in Metrics : opened[m] + Cardinality(Overtaken) + Ahead(m) <= rises[m] + faults
    BY DEF Accounted
  <2>3. faults \in Nat /\ \A m \in Metrics : opened[m] \in Nat /\ rises[m] \in Nat
    BY AlertParametersOK
  <2> QED BY <2>1, <2>2, <2>3
<1>2. flips \in Nat /\ faults \in Nat /\ MaxFlips \in Nat /\ MaxFaults \in Nat /\ Count \in Nat
  BY AlertParametersOK
<1>3. Cardinality(Tally(opened)) <= Cardinality(Tally(rises)) + Count * faults
  BY <1>1, <1>2, TallyBound DEF Numbered
<1>4. /\ Cardinality(Tally(opened)) \in Nat /\ Cardinality(Tally(rises)) \in Nat
      /\ Cardinality(Tally(rises)) <= flips /\ alerts = Cardinality(Tally(opened))
  BY FS_CardinalityType DEF Numbered
<1>5. Count * faults <= Count * MaxFaults /\ Count * faults \in Nat /\ Count * MaxFaults \in Nat
  BY <1>2
<1>6. alerts \in Nat /\ alerts <= MaxFlips + Count * MaxFaults
  BY <1>2, <1>3, <1>4, <1>5
<1> QED BY <1>6, AlertsBound

-----------------------------------------------------------------------------
(* Step by step.                                                           *)

LEMMA AnswerFacts ==
  ASSUME AlertTypeOK, NEW r \in Requests, reports[r] # NoReport, NEW ok, Answer(r, ok)
  PROVE  /\ waiting' = IF r = waiting THEN None ELSE waiting
         /\ sample' = sample /\ recent' \in BOOLEAN
         /\ reported' \in (SUBSET Metrics) \cup {{None}}
<1>1. reports[r].over \in SUBSET Metrics
  BY ReportKinds
<1>2. reported \in (SUBSET Metrics) \cup {{None}} /\ recent \in BOOLEAN
  BY DEF AlertTypeOK
<1> QED BY <1>1, <1>2 DEF Answer

LEMMA AnnounceFacts ==
  ASSUME AlertTypeOK, NEW r \in Requests, reports[r] # NoReport, NEW todo \in Seq(Alerts),
         Announce(r, todo)
  PROVE  /\ reports' \in [Requests -> {NoReport} \cup Sent \cup Handling]
         /\ \A q \in Requests \ {r} : reports'[q] = reports[q]
         /\ todo = <<>> => reports'[r] = NoReport
         /\ todo # <<>> => Announcing(r)' /\ reports'[r].todo = todo
         /\ reports'[r].pc # "sent"
         /\ Announcing(r)' => todo # <<>>
         /\ waiting' = waiting \/ (r = waiting /\ waiting' = None)
         /\ waiting' # None => reports'[waiting'] # NoReport
         /\ waiting' \in Requests \cup {None}
         /\ sample' = sample /\ recent' \in BOOLEAN
         /\ reported' \in (SUBSET Metrics) \cup {{None}}
<1>1. /\ reports \in [Requests -> {NoReport} \cup Sent \cup Handling]
      /\ reports[r].over \in SUBSET Metrics
      /\ waiting \in Requests \cup {None}
      /\ waiting # None => reports[waiting] # NoReport
      /\ reported \in (SUBSET Metrics) \cup {{None}} /\ recent \in BOOLEAN
  BY ReportKinds DEF AlertTypeOK
<1>2. CASE todo = <<>>
  <2>1. reports' = [reports EXCEPT ![r] = NoReport] /\ Answer(r, TRUE)
    BY <1>2 DEF Announce
  <2>2. waiting' = (IF r = waiting THEN None ELSE waiting) /\ sample' = sample /\ recent' \in BOOLEAN
        /\ reported' \in (SUBSET Metrics) \cup {{None}}
    BY <2>1, AnswerFacts
  <2>3. NoReport.pc = "idle"
    BY DEF NoReport
  <2> QED BY <1>1, <1>2, <2>1, <2>2, <2>3 DEF Announcing
<1>3. CASE todo # <<>>
  <2> DEFINE new == [pc |-> "offer", over |-> reports[r].over, todo |-> todo]
  <2>1. reports' = [reports EXCEPT ![r] = new] /\ UNCHANGED agent
    BY <1>3 DEF Announce
  <2>2. new \in Handling /\ new # NoReport /\ new.pc = "offer" /\ new.todo = todo
    BY <1>1 DEF Handling, NoReport
  <2> HIDE DEF new
  <2>3. /\ reports' \in [Requests -> {NoReport} \cup Sent \cup Handling] /\ reports'[r] = new
        /\ \A q \in Requests \ {r} : reports'[q] = reports[q]
    BY <1>1, <2>1, <2>2
  <2> QED BY <1>1, <1>3, <2>1, <2>2, <2>3 DEF Announcing, agent
<1> QED BY <1>2, <1>3

LEMMA UncountedNumbers == ASSUME Numbered, UNCHANGED <<opened, alerts, rises, flips>> PROVE Numbered'
BY DEF Numbered, Tally

LEMMA FlipKept ==
  ASSUME AlertInv, NEW m \in Metrics, NEW s \in Samples, Flip(m, s)
  PROVE  AlertInv'
<1>1. /\ flips \in 0..MaxFlips /\ flips' \in 0..MaxFlips /\ flips' = flips + 1 /\ s # sample[m]
      /\ sample' = [sample EXCEPT ![m] = s]
      /\ rises' = [rises EXCEPT ![m] = IF sample[m] = "under" THEN @ + 1 ELSE @]
      /\ UNCHANGED <<reported, recent, waiting, reports, rows, push, faults>>
  BY AlertParametersOK DEF Flip, AlertInv, AlertTypeOK
<1>2. /\ sample \in [Metrics -> Samples] /\ rises \in [Metrics -> Nat]
      /\ opened \in [Metrics -> Nat] /\ faults \in Nat
  BY AlertParametersOK DEF AlertInv, AlertTypeOK
<1>3. sample' \in [Metrics -> Samples] /\ rises' \in [Metrics -> Nat]
  BY <1>1, <1>2
<1>4. AlertTypeOK'
  BY <1>1, <1>3 DEF AlertInv, AlertTypeOK, rows, push
<1>5. InOnePlace'
  BY <1>1, NothingMoves DEF AlertInv, rows, Announcing
<1>6. Overtaken' = Overtaken /\ Awaited' = Awaited
  BY <1>1 DEF Overtaken, Awaited
<1>7. Accounted'
  <2>1. IsFiniteSet(Overtaken)' /\ Cardinality(Overtaken) \in Nat
    BY <1>6, FS_CardinalityType DEF AlertInv, Accounted
  <2>2. ASSUME NEW k \in Metrics
        PROVE  opened'[k] + Cardinality(Overtaken)' + Ahead(k)' + rises[k] + faults
                 <= opened[k] + Cardinality(Overtaken) + Ahead(k) + rises'[k] + faults'
    <3>1. Ahead(k) \in Nat /\ Ahead(k)' \in Nat /\ Ahead(k)' + rises[k] <= Ahead(k) + rises'[k]
      <4>1. CASE k # m
        <5>1. sample'[k] = sample[k] /\ rises'[k] = rises[k] /\ active'[k] = active[k]
          BY <1>1, <1>2, <4>1 DEF rows
        <5>2. Ahead(k)' = Ahead(k) /\ Ahead(k) \in Nat
          BY <1>1, <1>6, <5>1, AheadIs DEF Ahead
        <5> QED BY <1>2, <5>1, <5>2
      <4>2. CASE k = m
        <5>1. active' = active /\ waiting' = waiting /\ reports' = reports /\ sample'[m] = s
          BY <1>1, <1>2 DEF rows
        <5>2. CASE sample[m] = "under"
          <6>1. rises'[m] = rises[m] + 1 /\ rises[m] \in Nat
            BY <1>1, <1>2, <5>2
          <6>2. Ahead(m) \in 0..2 /\ Ahead(m)' \in 0..2 /\ Ahead(m)' <= Ahead(m) + 1
            BY <1>6, <5>1, <5>2 DEF Ahead, Opens
          <6> QED BY <4>2, <6>1, <6>2
        <5>3. CASE sample[m] # "under"
          <6>1. rises'[m] = rises[m] /\ rises[m] \in Nat
            BY <1>1, <1>2, <5>3
          <6>2. Ahead(m) \in 0..2 /\ Ahead(m)' \in 0..2 /\ Ahead(m)' <= Ahead(m)
            BY <1>6, <5>1, <5>3 DEF Ahead, Opens
          <6> QED BY <4>2, <6>1, <6>2
        <5> QED BY <5>2, <5>3
      <4> QED BY <4>1, <4>2
    <3>2. opened' = opened /\ faults' = faults /\ opened[k] \in Nat /\ rises[k] \in Nat /\ rises'[k] \in Nat
      BY <1>1, <1>2, <1>3 DEF rows
    <3> QED BY <1>2, <1>6, <2>1, <3>1, <3>2
  <2> QED BY <1>1, <1>2, <1>3, <2>1, <2>2, StillAccounted DEF AlertInv, rows
<1>8. Numbered'
  <2>1. IsFiniteSet(Tally(rises)) /\ Cardinality(Tally(rises)) \in Nat /\ Cardinality(Tally(rises)) <= flips
    BY FS_CardinalityType DEF AlertInv, Numbered
  <2>2. CASE sample[m] = "under"
    <3>1. \A k \in Metrics : rises'[k] = IF k \in {m} THEN rises[k] + 1 ELSE rises[k]
      BY <1>1, <1>2, <2>2
    <3>2. {m} \in SUBSET Metrics /\ IsFiniteSet(Tally(rises))
      BY <2>1
    <3>3. /\ IsFiniteSet(Tally(rises'))
          /\ Cardinality(Tally(rises')) = Cardinality(Tally(rises)) + Cardinality({m})
      BY ONLY <1>2, <1>3, <3>1, <3>2, TallyGrows
    <3>4. Cardinality({m}) = 1
      BY FS_Singleton
    <3> QED BY <1>1, <2>1, <3>3, <3>4 DEF AlertInv, Numbered, rows
  <2>3. CASE sample[m] # "under"
    <3>1. rises' = rises
      BY <1>1, <1>2, <2>3
    <3> QED BY <1>1, <2>1, <3>1 DEF AlertInv, Numbered, rows
  <2> QED BY <2>2, <2>3
<1> QED BY <1>4, <1>5, <1>7, <1>8 DEF AlertInv

\* Steps that neither move alerts nor count: of the agent, or a report that is lost.
LEMMA TypedElsewhere ==
  ASSUME AlertTypeOK, UNCHANGED <<rows, push, sample, rises, flips>>,
         faults' \in 0..MaxFaults, recent' \in BOOLEAN,
         reported' \in (SUBSET Metrics) \cup {{None}},
         waiting' \in Requests \cup {None}, waiting' # None => reports'[waiting'] # NoReport,
         reports' \in [Requests -> {NoReport} \cup Sent \cup Handling]
  PROVE  AlertTypeOK'
BY DEF AlertTypeOK, rows, push

LEMMA CheckAlertsKept ==
  ASSUME AlertInv, NEW r \in Requests, CheckAlerts(r)
  PROVE  AlertInv'
<1> DEFINE new == [pc |-> "sent", over |-> Over, valid |-> \A m \in Metrics : sample[m] # "absurd"]
<1>1. /\ waiting = None /\ waiting' = r /\ reports[r] = NoReport
      /\ reports' = [reports EXCEPT ![r] = new]
      /\ UNCHANGED <<sample, reported, recent, rows, push, counts>>
  BY DEF CheckAlerts, Post
<1>2. new \in Sent /\ new # NoReport /\ new.pc = "sent" /\ new.over = Over
  BY DEF Sent, NoReport, Over
<1> HIDE DEF new
<1>3. /\ reports' \in [Requests -> {NoReport} \cup Sent \cup Handling] /\ reports'[r] = new
      /\ \A q \in Requests \ {r} : reports'[q] = reports[q]
  BY <1>1, <1>2 DEF AlertInv, AlertTypeOK
<1>4. AlertTypeOK'
  BY <1>1, <1>2, <1>3, TypedElsewhere DEF AlertInv, AlertTypeOK, counts
<1>5. InOnePlace'
  BY <1>1, <1>2, <1>3, NothingMoves DEF AlertInv, rows, Announcing
<1>6. /\ opened \in [Metrics -> Nat] /\ rises \in [Metrics -> Nat] /\ faults \in Nat
  BY AlertParametersOK DEF AlertInv, AlertTypeOK
<1>7. NoReport.pc # "sent" /\ r # None
  BY AlertParametersOK DEF NoReport, None
<1>8. Overtaken' = Overtaken /\ ~Awaited /\ Awaited'
  <2>1. \A q \in Requests : reports'[q].pc = "sent" /\ q # waiting'
                             <=> reports[q].pc = "sent" /\ q # waiting
    BY <1>1, <1>2, <1>3, <1>7, AlertParametersOK DEF None
  <2> QED BY <1>1, <1>2, <1>3, <1>7, <2>1 DEF Overtaken, Awaited
<1>9. Accounted'
  <2>1. IsFiniteSet(Overtaken)' /\ Cardinality(Overtaken) \in Nat
    BY <1>8, FS_CardinalityType DEF AlertInv, Accounted
  <2>2. ASSUME NEW m \in Metrics
        PROVE  Ahead(m)' = Ahead(m) /\ Ahead(m) \in Nat
    <3>1. reports'[waiting'].over = Over
      BY <1>1, <1>2, <1>3
    <3>2. m \in Over <=> sample[m] # "under"
      BY DEF Over
    <3>3. active' = active /\ sample' = sample
      BY <1>1 DEF rows
    <3> QED BY <1>8, <3>1, <3>2, <3>3 DEF Ahead, Opens
  <2>3. \A m \in Metrics :
          opened'[m] + Cardinality(Overtaken)' + Ahead(m)' + rises[m] + faults
            <= opened[m] + Cardinality(Overtaken) + Ahead(m) + rises'[m] + faults'
    BY <1>1, <1>6, <1>8, <2>1, <2>2 DEF rows, counts
  <2> QED BY <1>1, <1>6, <2>1, <2>3, StillAccounted DEF AlertInv, rows, counts
<1>10. Numbered'
  BY <1>1, UncountedNumbers DEF AlertInv, rows, counts
<1> QED BY <1>4, <1>5, <1>9, <1>10 DEF AlertInv

LEMMA FaultFacts ==
  ASSUME AlertTypeOK, Fault
  PROVE  faults' = faults + 1 /\ faults \in Nat /\ faults' \in 0..MaxFaults /\ UNCHANGED <<rises, flips>>
BY AlertParametersOK DEF AlertTypeOK, Fault

LEMMA AgentStopsKept ==
  ASSUME AlertInv, GiveUp \/ RestartAgent
  PROVE  AlertInv'
<1>1. /\ waiting' = None /\ UNCHANGED <<sample, reports, rows, push>>
      /\ recent' \in BOOLEAN /\ reported' \in (SUBSET Metrics) \cup {{None}}
  BY DEF GiveUp, RestartAgent, AlertInv, AlertTypeOK
<1>2. faults' = faults + 1 /\ faults \in Nat /\ faults' \in 0..MaxFaults /\ UNCHANGED <<rises, flips>>
  BY FaultFacts DEF GiveUp, RestartAgent, AlertInv
<1>3. AlertTypeOK'
  BY <1>1, <1>2, TypedElsewhere DEF AlertInv, AlertTypeOK
<1>4. InOnePlace'
  BY <1>1, NothingMoves DEF AlertInv, rows, Announcing
<1>5. Accounted'
  BY <1>1, <1>2, SetAside DEF AlertInv, rows
<1>6. Numbered'
  BY <1>1, <1>2, UncountedNumbers DEF AlertInv, rows
<1> QED BY <1>3, <1>4, <1>5, <1>6 DEF AlertInv

\* A report vanishes, is refused, or its transaction fails.
LEMMA ReportLostKept ==
  ASSUME AlertInv, NEW r \in Requests, Vanish(r) \/ Refuse(r) \/ ObserveFails(r)
  PROVE  AlertInv'
<1>1. /\ reports[r].pc = "sent" /\ reports' = [reports EXCEPT ![r] = NoReport]
      /\ UNCHANGED <<rows, push>>
  BY DEF Vanish, Refuse, ObserveFails
<1>2. /\ faults \in Nat /\ faults' \in Nat /\ faults <= faults' /\ faults' \in 0..MaxFaults
      /\ UNCHANGED <<rises, flips>>
  <2>1. faults \in Nat /\ faults \in 0..MaxFaults
    BY AlertParametersOK DEF AlertInv, AlertTypeOK
  <2>2. CASE UNCHANGED counts
    BY <2>1, <2>2 DEF counts
  <2>3. CASE Fault
    BY <2>1, <2>3, FaultFacts DEF AlertInv
  <2> QED BY <2>2, <2>3 DEF Vanish, Refuse, ObserveFails
<1>3. NoReport.pc = "idle" /\ reports[r] # NoReport
  BY <1>1 DEF NoReport
<1>4. /\ waiting' = IF r = waiting THEN None ELSE waiting
      /\ sample' = sample /\ recent' \in BOOLEAN
      /\ reported' \in (SUBSET Metrics) \cup {{None}}
  <2>1. CASE Vanish(r)
    BY <2>1 DEF Vanish, agent, AlertInv, AlertTypeOK
  <2>2. CASE Answer(r, FALSE)
    BY <1>3, <2>2, AnswerFacts DEF AlertInv
  <2> QED BY <2>1, <2>2 DEF Refuse, ObserveFails
<1>5. /\ reports \in [Requests -> {NoReport} \cup Sent \cup Handling]
      /\ waiting \in Requests \cup {None} /\ (waiting # None => reports[waiting] # NoReport)
  BY DEF AlertInv, AlertTypeOK
<1>6. /\ reports' \in [Requests -> {NoReport} \cup Sent \cup Handling] /\ reports'[r] = NoReport
      /\ \A q \in Requests \ {r} : reports'[q] = reports[q]
  BY <1>1, <1>5
<1>7. AlertTypeOK'
  BY <1>1, <1>2, <1>4, <1>5, <1>6, TypedElsewhere DEF AlertInv
<1>8. InOnePlace'
  BY <1>1, <1>3, <1>6, NothingMoves DEF AlertInv, rows, Announcing
<1>9. Closes(r)
  BY <1>1, <1>3, <1>4, <1>6 DEF Closes
<1>10. Accounted'
  BY <1>1, <1>2, <1>4, <1>9, InVain DEF AlertInv, rows
<1>11. Numbered'
  BY <1>1, <1>2, UncountedNumbers DEF AlertInv, rows
<1> QED BY <1>7, <1>8, <1>10, <1>11 DEF AlertInv

LEMMA ElapseKept == ASSUME AlertInv, Elapse PROVE AlertInv'
<1>1. /\ recent' \in BOOLEAN /\ UNCHANGED <<sample, reported, waiting, reports, rows, push, counts>>
  BY DEF Elapse
<1>2. AlertTypeOK'
  BY <1>1, TypedElsewhere DEF AlertInv, AlertTypeOK, counts
<1>3. InOnePlace'
  BY <1>1, NothingMoves DEF AlertInv, rows, Announcing
<1>4. faults \in Nat
  BY AlertParametersOK DEF AlertInv, AlertTypeOK
<1>5. Accounted'
  BY <1>1, <1>4, NothingCounts DEF AlertInv, rows, counts
<1>6. Numbered'
  BY <1>1, UncountedNumbers DEF AlertInv, rows, counts
<1> QED BY <1>2, <1>3, <1>5, <1>6 DEF AlertInv

\* Observe numbers the new alerts in the order of their metrics.
LEMMA LifecyclesFacts ==
  ASSUME AlertTypeOK, NEW over \in SUBSET Metrics, NEW fresh \in SUBSET over,
         \A m \in over : m \in fresh <=> active[m] = 0, Lifecycles(over, fresh)
  PROVE  /\ Cardinality(fresh) \in Nat /\ fresh \in SUBSET Metrics
         /\ alerts \in Nat /\ alerts' = alerts + Cardinality(fresh)
         /\ active' \in [Metrics -> 0..alerts'] /\ opened' \in [Metrics -> Nat]
         /\ \A m \in Metrics : active'[m] # 0 <=> m \in over
         /\ \A m \in Metrics : opened'[m] = opened[m] + Opens(active[m] # 0, m \in over)
         /\ \A m \in Metrics : opened'[m] = IF m \in fresh THEN opened[m] + 1 ELSE opened[m]
<1> DEFINE upto(m) == {k \in fresh : k <= m}
<1>1. fresh \in SUBSET Metrics /\ Cardinality(fresh) \in Nat /\ IsFiniteSet(fresh)
  BY MetricsFinite
<1>2. alerts \in Nat /\ active \in [Metrics -> 0..alerts] /\ opened \in [Metrics -> Nat]
  BY AlertsBound DEF AlertTypeOK
<1>3. /\ active' = [m \in Metrics |->
           IF m \in fresh THEN alerts + Cardinality(upto(m))
           ELSE IF m \in over THEN active[m] ELSE 0]
      /\ alerts' = alerts + Cardinality(fresh)
      /\ opened' = [m \in Metrics |-> IF m \in fresh THEN opened[m] + 1 ELSE opened[m]]
  BY DEF Lifecycles
<1>4. ASSUME NEW m \in fresh
      PROVE  Cardinality(upto(m)) \in 1..Cardinality(fresh)
  <2>1. upto(m) \in SUBSET fresh
    OBVIOUS
  <2>2. m \in upto(m)
    <3>1. m \in Nat
      BY <1>1, MetricsFinite
    <3> QED BY <3>1
  <2> HIDE DEF upto
  <2>3. IsFiniteSet(upto(m)) /\ Cardinality(upto(m)) <= Cardinality(fresh)
    BY <1>1, <2>1, FS_Subset
  <2>4. Cardinality(upto(m)) \in Nat /\ Cardinality(upto(m)) # 0
    BY <2>2, <2>3, FS_EmptySet, FS_CardinalityType
  <2> QED BY <1>1, <2>3, <2>4
<1> HIDE DEF upto
<1>5. ASSUME NEW m \in Metrics
      PROVE  active'[m] \in 0..alerts' /\ (active'[m] # 0 <=> m \in over)
  <2>1. CASE m \in fresh
    <3>1. active'[m] = alerts + Cardinality(upto(m)) /\ Cardinality(upto(m)) \in 1..Cardinality(fresh)
      BY <1>3, <1>4, <2>1
    <3> QED BY <1>1, <1>2, <1>3, <2>1, <3>1
  <2>2. CASE m \notin fresh
    <3>1. active'[m] = IF m \in over THEN active[m] ELSE 0
      BY <1>3, <2>2
    <3>2. m \in over => active[m] # 0
      BY <2>2
    <3>3. active[m] \in 0..alerts
      BY <1>2
    <3> QED BY <1>1, <1>2, <1>3, <3>1, <3>2, <3>3
  <2> QED BY <2>1, <2>2
<1>6. active' \in [Metrics -> 0..alerts']
  BY <1>3, <1>5
<1>7. opened' \in [Metrics -> Nat]
  BY <1>2, <1>3
<1>8. \A m \in Metrics : opened'[m] = IF m \in fresh THEN opened[m] + 1 ELSE opened[m]
  BY <1>3
<1>9. \A m \in Metrics : opened'[m] = opened[m] + Opens(active[m] # 0, m \in over)
  BY <1>2, <1>8 DEF Opens
<1> QED BY <1>1, <1>2, <1>3, <1>5, <1>6, <1>7, <1>8, <1>9

LEMMA ObserveKept ==
  ASSUME AlertInv, NEW r \in Requests, Observe(r)
  PROVE  AlertInv'
<1> DEFINE over  == reports[r].over
           fresh == {m \in over : active[m] = 0}
           n     == Cardinality(fresh)
           todo  == [i \in 1..n |-> alerts + i]
<1>1. /\ reports[r].pc = "sent" /\ Lifecycles(over, fresh) /\ Announce(r, todo)
      /\ UNCHANGED <<push, counts>>
  BY DEF Observe
<1>2. reports[r] # NoReport /\ over \in SUBSET Metrics /\ AlertTypeOK
  BY <1>1, ReportKinds DEF NoReport, AlertInv
<1> HIDE DEF over
<1>3. /\ n \in Nat /\ fresh \in SUBSET Metrics
      /\ alerts \in Nat /\ alerts' = alerts + n
      /\ active' \in [Metrics -> 0..alerts'] /\ opened' \in [Metrics -> Nat]
      /\ \A m \in Metrics : active'[m] # 0 <=> m \in over
      /\ \A m \in Metrics : opened'[m] = opened[m] + Opens(active[m] # 0, m \in over)
      /\ \A m \in Metrics : opened'[m] = IF m \in fresh THEN opened[m] + 1 ELSE opened[m]
  <2>1. fresh = {m \in over : active[m] = 0} /\ n = Cardinality(fresh)
    OBVIOUS
  <2>2. fresh \in SUBSET over /\ (\A m \in over : m \in fresh <=> active[m] = 0)
    BY <2>1
  <2> HIDE DEF fresh, n, todo
  <2>3. Lifecycles(over, fresh)
    BY <1>1
  <2>4. /\ Cardinality(fresh) \in Nat /\ fresh \in SUBSET Metrics
        /\ alerts \in Nat /\ alerts' = alerts + Cardinality(fresh)
        /\ active' \in [Metrics -> 0..alerts'] /\ opened' \in [Metrics -> Nat]
        /\ \A m \in Metrics : active'[m] # 0 <=> m \in over
        /\ \A m \in Metrics : opened'[m] = opened[m] + Opens(active[m] # 0, m \in over)
        /\ \A m \in Metrics : opened'[m] = IF m \in fresh THEN opened[m] + 1 ELSE opened[m]
    BY ONLY <1>2, <2>2, <2>3, LifecyclesFacts
  <2> QED BY <2>1, <2>4
<1>4. /\ \A q \in Requests \ {r} : reports'[q] = reports[q]
      /\ reports'[r].pc # "sent"
      /\ waiting' = waiting \/ (r = waiting /\ waiting' = None)
      /\ sample' = sample
  <2>1. reports \in [Requests -> {NoReport} \cup Sent \cup Handling]
    BY <1>2 DEF AlertTypeOK
  <2> HIDE DEF todo
  <2> QED BY <1>1, <2>1 DEF Announce, Answer, agent, NoReport
<1>5. /\ rises \in [Metrics -> Nat] /\ opened \in [Metrics -> Nat]
      /\ flips \in 0..MaxFlips /\ faults \in 0..MaxFaults
      /\ UNCHANGED <<rises, flips, faults>>
  BY <1>1, <1>2 DEF AlertTypeOK, counts
<1>6. Accounted'
  <2>1. Closes(r)
    BY <1>1, <1>4 DEF Closes
  <2> QED BY <1>2, <1>3, <1>4, <1>5, <2>1, TakesEffect DEF AlertInv, over
<1>7. Numbered'
  <2>1. /\ IsFiniteSet(Tally(opened)) /\ alerts = Cardinality(Tally(opened))
        /\ IsFiniteSet(Tally(rises)) /\ Cardinality(Tally(rises)) <= flips
    BY DEF AlertInv, Numbered
  <2> HIDE DEF fresh
  <2>2. IsFiniteSet(Tally(opened')) /\ Cardinality(Tally(opened')) = Cardinality(Tally(opened)) + n
    BY <1>3, <1>5, <2>1, TallyGrows
  <2>3. IsFiniteSet(Tally(opened)') /\ alerts' = Cardinality(Tally(opened)')
    BY <1>3, <2>1, <2>2 DEF Tally
  <2>4. rises' = rises /\ flips' = flips
    BY <1>5
  <2>5. Tally(rises)' = Tally(rises)
    BY <2>4 DEF Tally
  <2> QED BY <2>1, <2>3, <2>4, <2>5 DEF Numbered
<1>8. alerts' \in 0..Cardinality(Alerts)
  <2>1. Accounted /\ Numbered /\ opened \in [Metrics -> Nat] /\ rises \in [Metrics -> Nat]
        /\ flips \in 0..MaxFlips /\ faults \in 0..MaxFaults => alerts \in 0..Cardinality(Alerts)
    BY NumbersSuffice
  <2>2. (Accounted /\ Numbered /\ opened \in [Metrics -> Nat] /\ rises \in [Metrics -> Nat]
        /\ flips \in 0..MaxFlips /\ faults \in 0..MaxFaults => alerts \in 0..Cardinality(Alerts))'
    BY NumbersSuffice, PTL
  <2> QED BY <1>3, <1>5, <1>6, <1>7, <2>2
<1>9. todo \in Seq(Alerts) /\ Len(todo) = n
  <2>1. \A i \in 1..n : alerts + i \in Alerts
    BY <1>3, <1>8, AlertsBound DEF Alerts
  <2>2. todo \in [1..n -> Alerts] /\ DOMAIN todo = 1..n
    BY <2>1
  <2>3. n \in Nat
    BY <1>3
  <2> HIDE DEF n, todo
  <2>4. todo \in Seq(Alerts)
    BY ONLY <2>2, <2>3
  <2> QED BY ONLY <2>2, <2>3, <2>4
<1>10. /\ \A i \in DOMAIN todo : todo[i] = alerts + i /\ i \in 1..n
       /\ Distinct(todo) /\ Items(todo) \subseteq (1..alerts') \ (1..alerts)
       /\ 0 \notin Items(todo)
  <2>1. DOMAIN todo = 1..n /\ \A i \in 1..n : todo[i] = alerts + i
    OBVIOUS
  <2> HIDE DEF n, todo
  <2> QED BY <1>3, <2>1 DEF Distinct, Items
<1> HIDE DEF todo, fresh, n
<1>11. /\ reports' \in [Requests -> {NoReport} \cup Sent \cup Handling]
       /\ todo # <<>> => Announcing(r)' /\ reports'[r].todo = todo
       /\ Announcing(r)' => todo # <<>>
       /\ waiting' # None => reports'[waiting'] # NoReport
       /\ waiting' \in Requests \cup {None}
       /\ recent' \in BOOLEAN
       /\ reported' \in (SUBSET Metrics) \cup {{None}}
  BY <1>1, <1>2, <1>9, AnnounceFacts
<1>12. 1..alerts \subseteq 1..alerts'
  BY <1>3
<1>13. /\ topic \in Seq(1..alerts) /\ alertCh \in Seq(1..alerts) /\ Len(alertCh) <= AlertCap
       /\ publishing \in 0..alerts /\ lost \subseteq 1..alerts
       /\ Items(topic) \subseteq 1..alerts /\ Items(alertCh) \subseteq 1..alerts
  BY <1>2 DEF AlertTypeOK, Items
<1>14. AlertTypeOK'
  <2>1. topic' \in Seq(1..alerts') /\ alertCh' \in Seq(1..alerts') /\ Len(alertCh') <= AlertCap
        /\ publishing' \in 0..alerts' /\ lost' \subseteq 1..alerts'
    <3>1. topic \in Seq(1..alerts') /\ alertCh \in Seq(1..alerts')
      BY <1>12, <1>13, SeqMonotonic
    <3>2. topic' = topic /\ alertCh' = alertCh /\ publishing' = publishing /\ lost' = lost
      BY <1>1 DEF push
    <3> QED BY <1>3, <1>12, <1>13, <3>1, <3>2
  <2>2. sample' \in [Metrics -> Samples]
    BY <1>2, <1>4 DEF AlertTypeOK
  <2> QED BY <1>3, <1>5, <1>8, <1>11, <2>1, <2>2 DEF AlertTypeOK
<1>15. InOnePlace'
  <2>1. topic' = topic /\ alertCh' = alertCh /\ publishing' = publishing
    BY <1>1 DEF push
  <2>2. ASSUME NEW q \in Requests, q # r, Announcing(q)'
        PROVE  /\ Announcing(q) /\ reports'[q].todo = reports[q].todo
               /\ reports[q].todo # <<>> /\ Distinct(reports[q].todo)
               /\ Items(reports[q].todo) \subseteq
                    (1..alerts) \ (Items(topic) \cup Items(alertCh) \cup {publishing})
               /\ \A p \in Requests \ {q} :
                    Announcing(p) => Items(reports[q].todo) \cap Items(reports[p].todo) = {}
    <3>1. Announcing(q) /\ reports'[q] = reports[q]
      BY <1>4, <2>2 DEF Announcing
    <3> QED BY <3>1 DEF AlertInv, InOnePlace
  <2>3. ASSUME Announcing(r)'
        PROVE  /\ reports'[r].todo = todo /\ todo # <<>>
               /\ Items(todo) \cap (Items(topic) \cup Items(alertCh) \cup {publishing}) = {}
    BY <1>10, <1>11, <1>13, <2>3
  <2>4. ASSUME NEW q \in Requests, Announcing(q)'
        PROVE  /\ reports'[q].todo # <<>> /\ Distinct(reports'[q].todo)
               /\ Items(reports'[q].todo) \subseteq
                    (1..alerts') \ (Items(topic') \cup Items(alertCh') \cup {publishing'})
    <3>1. CASE q = r
      BY <1>10, <2>1, <2>3, <2>4, <3>1
    <3>2. CASE q # r
      BY <1>12, <2>1, <2>2, <2>4, <3>2
    <3> QED BY <3>1, <3>2
  <2>5. ASSUME NEW q \in Requests, Announcing(q)', NEW p \in Requests \ {q}, Announcing(p)'
        PROVE  Items(reports'[q].todo) \cap Items(reports'[p].todo) = {}
    <3>1. CASE q = r
      BY <1>10, <2>2, <2>3, <2>5, <3>1
    <3>2. CASE p = r
      BY <1>10, <2>2, <2>3, <2>5, <3>2
    <3>3. CASE q # r /\ p # r
      BY <2>2, <2>5, <3>3
    <3> QED BY <3>1, <3>2, <3>3
  <2>6. /\ Distinct(topic) /\ Distinct(alertCh) /\ Items(topic) \cap Items(alertCh) = {}
        /\ publishing \notin Items(topic) \cup Items(alertCh)
    BY DEF AlertInv, InOnePlace
  <2> QED BY <2>1, <2>4, <2>5, <2>6 DEF InOnePlace
<1> QED BY <1>6, <1>7, <1>14, <1>15 DEF AlertInv

\* The counts and numbers are not touched by the handlers' later steps.
LEMMA OnlyPlaces ==
  ASSUME AlertInv, NEW r \in Requests, reports[r] # NoReport,
         UNCHANGED <<rows, counts>>, AlertTypeOK',
         \A q \in Requests \ {r} : reports'[q] = reports[q],
         reports[r].pc # "sent", reports'[r].pc # "sent",
         waiting' = waiting \/ (r = waiting /\ waiting' = None), sample' = sample
  PROVE  Accounted' /\ Numbered'
<1>1. faults \in Nat
  BY AlertParametersOK DEF AlertInv, AlertTypeOK
<1>2. Accounted'
  BY <1>1, NothingCounts DEF AlertInv, rows, counts
<1> QED BY <1>2, UncountedNumbers DEF AlertInv, rows, counts

LEMMA AnnouncingFacts ==
  ASSUME AlertInv, NEW r \in Requests, Announcing(r)
  PROVE  /\ reports[r] # NoReport /\ reports[r].pc # "sent"
         /\ reports[r].todo \in Seq(Alerts) /\ reports[r].todo # <<>>
         /\ Tail(reports[r].todo) \in Seq(Alerts)
         /\ Head(reports[r].todo) \in 1..alerts
         /\ alertCh \in Seq(1..alerts) /\ Len(alertCh) \in Nat /\ Len(alertCh) <= AlertCap
         /\ Append(alertCh, Head(reports[r].todo)) \in Seq(1..alerts)
         /\ Len(Append(alertCh, Head(reports[r].todo))) = Len(alertCh) + 1
         /\ lost \subseteq 1..alerts /\ AlertCap \in Nat
<1>1. /\ reports[r] # NoReport /\ reports[r].pc # "sent"
      /\ reports[r].todo \in Seq(Alerts) /\ reports[r].todo # <<>>
  BY ReportKinds DEF AlertInv, InOnePlace, Announcing, NoReport
<1>2. Head(reports[r].todo) \in 1..alerts /\ Tail(reports[r].todo) \in Seq(Alerts)
  <2>1. Head(reports[r].todo) \in Items(reports[r].todo) /\ Tail(reports[r].todo) \in Seq(Alerts)
    BY <1>1, Headless
  <2> QED BY <2>1 DEF AlertInv, InOnePlace
<1>3. alertCh \in Seq(1..alerts) /\ Len(alertCh) <= AlertCap /\ lost \subseteq 1..alerts /\ AlertCap \in Nat
  BY AlertParametersOK DEF AlertInv, AlertTypeOK
<1> QED BY <1>1, <1>2, <1>3

\* The head of the list is queued or given up, and the handler goes on.
LEMMA HandlerAdvances ==
  ASSUME AlertInv, NEW r \in Requests, Announcing(r), Announce(r, Tail(reports[r].todo)),
         UNCHANGED <<rows, publishing, topic, counts>>,
         alertCh' \in {alertCh, Append(alertCh, Head(reports[r].todo))}, Len(alertCh') <= AlertCap,
         lost' \in {lost, lost \cup {Head(reports[r].todo)}}
  PROVE  AlertInv'
<1> DEFINE rest == Tail(reports[r].todo)
<1>1. /\ reports[r] # NoReport /\ reports[r].pc # "sent"
      /\ rest \in Seq(Alerts) /\ alertCh' \in Seq(1..alerts) /\ lost' \subseteq 1..alerts
  BY AnnouncingFacts
<1>2. /\ reports' \in [Requests -> {NoReport} \cup Sent \cup Handling]
      /\ \A q \in Requests \ {r} : reports'[q] = reports[q]
      /\ rest # <<>> => Announcing(r)' /\ reports'[r].todo = rest
      /\ reports'[r].pc # "sent"
      /\ Announcing(r)' => rest # <<>>
      /\ waiting' = waiting \/ (r = waiting /\ waiting' = None)
      /\ waiting' # None => reports'[waiting'] # NoReport
      /\ waiting' \in Requests \cup {None}
      /\ sample' = sample /\ recent' \in BOOLEAN
      /\ reported' \in (SUBSET Metrics) \cup {{None}}
  <2> HIDE DEF rest
  <2>1. Announce(r, rest)
    BY DEF rest
  <2> QED BY <1>1, <2>1, AnnounceFacts DEF AlertInv
<1>3. AlertTypeOK'
  BY <1>1, <1>2 DEF AlertInv, AlertTypeOK, rows, counts
<1>4. Advances(r)
  BY <1>2 DEF Advances
<1>5. InOnePlace'
  BY <1>4, HeadMoves DEF AlertInv, rows
<1>6. Accounted' /\ Numbered'
  BY <1>1, <1>2, <1>3, OnlyPlaces
<1> QED BY <1>3, <1>5, <1>6 DEF AlertInv

\* Only the handler's place in enqueueMonitoringAlert changes.
LEMMA HandlerStays ==
  ASSUME AlertInv, NEW r \in Requests, Announcing(r), NEW pc \in {"pop", "again"},
         reports' = [reports EXCEPT ![r].pc = pc],
         UNCHANGED <<agent, rows, publishing, topic, counts>>,
         \/ alertCh' = alertCh /\ lost' = lost
         \/ alertCh # <<>> /\ alertCh' = Tail(alertCh) /\ lost' = lost \cup {Head(alertCh)}
  PROVE  AlertInv'
<1>1. /\ reports[r] # NoReport /\ reports[r].pc # "sent" /\ reports[r] \in Handling
      /\ alertCh \in Seq(1..alerts) /\ Len(alertCh) \in Nat /\ Len(alertCh) <= AlertCap
      /\ lost \subseteq 1..alerts /\ AlertCap \in Nat
  BY AnnouncingFacts, ReportKinds DEF AlertInv
<1>2. /\ reports \in [Requests -> {NoReport} \cup Sent \cup Handling]
      /\ waiting \in Requests \cup {None} /\ (waiting # None => reports[waiting] # NoReport)
  BY DEF AlertInv, AlertTypeOK
<1>3. /\ reports'[r] = [reports[r] EXCEPT !.pc = pc]
      /\ \A q \in Requests \ {r} : reports'[q] = reports[q]
  BY <1>2
<1>4. /\ reports'[r] \in Handling /\ reports'[r].pc = pc /\ reports'[r].todo = reports[r].todo
      /\ reports'[r] # NoReport
  BY <1>1, <1>3 DEF Handling, NoReport
<1>5. reports' \in [Requests -> {NoReport} \cup Sent \cup Handling]
  BY <1>2, <1>4
<1>6. /\ alertCh' \in Seq(1..alerts) /\ Len(alertCh') <= AlertCap /\ lost' \subseteq 1..alerts
      /\ Distinct(alertCh') /\ Items(alertCh') \subseteq Items(alertCh)
  <2>1. Distinct(alertCh)
    BY DEF AlertInv, InOnePlace
  <2>2. CASE alertCh' = alertCh /\ lost' = lost
    BY <1>1, <2>1, <2>2
  <2>3. CASE alertCh # <<>> /\ alertCh' = Tail(alertCh) /\ lost' = lost \cup {Head(alertCh)}
    <3>1. /\ Head(alertCh) \in 1..alerts /\ Tail(alertCh) \in Seq(1..alerts)
          /\ Len(Tail(alertCh)) = Len(alertCh) - 1 /\ Items(Tail(alertCh)) \subseteq Items(alertCh)
          /\ Distinct(Tail(alertCh))
      BY <1>1, <2>1, <2>3, Headless
    <3>2. /\ alertCh' \in Seq(1..alerts)
          /\ Len(alertCh') <= AlertCap
          /\ lost' \subseteq 1..alerts
      <4>1. alertCh' \in Seq(1..alerts)
        BY <2>3, <3>1
      <4>2. Len(alertCh') = Len(alertCh) - 1
        BY <2>3, <3>1
      <4>3. lost' \subseteq 1..alerts
        BY <1>1, <2>3, <3>1
      <4> QED BY <1>1, <4>1, <4>2, <4>3
    <3>3. Distinct(alertCh') /\ Items(alertCh') \subseteq Items(alertCh)
      BY <2>3, <3>1
    <3> QED BY <3>2, <3>3
  <2> QED BY <2>2, <2>3
<1>7. AlertTypeOK'
  BY <1>2, <1>3, <1>4, <1>5, <1>6 DEF AlertInv, AlertTypeOK, agent, rows, counts
<1>8. InOnePlace'
  <2>1. \A q \in Requests : Announcing(q)' => Announcing(q) /\ reports'[q].todo = reports[q].todo
    BY <1>3, <1>4 DEF Announcing
  <2>2. /\ Distinct(topic) /\ Items(topic) \cap Items(alertCh) = {}
        /\ publishing \notin Items(topic) \cup Items(alertCh)
    BY DEF AlertInv, InOnePlace
  <2>3. topic' = topic /\ publishing' = publishing /\ alerts' = alerts
    BY DEF rows
  <2> QED BY <1>6, <2>1, <2>2, <2>3, MovesOn DEF AlertInv
<1>9. Accounted' /\ Numbered'
  BY <1>1, <1>3, <1>4, <1>7, OnlyPlaces DEF agent
<1> QED BY <1>7, <1>8, <1>9 DEF AlertInv

LEMMA EnqueueingKept ==
  ASSUME AlertInv, NEW r \in Requests, Enqueue(r) \/ Pop(r) \/ EnqueueAgain(r)
  PROVE  AlertInv'
<1>1. Announcing(r)
  BY DEF Enqueue, Pop, EnqueueAgain, Announcing
<1>2. /\ Len(alertCh) \in Nat /\ Len(alertCh) <= AlertCap /\ AlertCap \in Nat
      /\ Len(Append(alertCh, Head(reports[r].todo))) = Len(alertCh) + 1
  BY <1>1, AnnouncingFacts
<1>3. CASE Enqueue(r) /\ Len(alertCh) < AlertCap
  BY <1>1, <1>2, <1>3, HandlerAdvances DEF Enqueue
<1>4. CASE Enqueue(r) /\ ~(Len(alertCh) < AlertCap)
  BY <1>1, <1>4, HandlerStays DEF Enqueue
<1>5. CASE Pop(r)
  BY <1>1, <1>5, HandlerStays DEF Pop
<1>6. CASE EnqueueAgain(r)
  BY <1>1, <1>2, <1>6, HandlerAdvances DEF EnqueueAgain
<1> QED BY <1>3, <1>4, <1>5, <1>6

-----------------------------------------------------------------------------
(* The worker and the process.                                             *)

LEMMA WorkerKept ==
  ASSUME AlertInv, TakeAlert \/ Publish \/ PublishFails
  PROVE  AlertInv'
<1>1. /\ UNCHANGED <<agent, reports, rows, rises, flips>>
      /\ faults \in Nat /\ faults' \in 0..MaxFaults /\ faults <= faults' /\ faults' \in Nat
  <2>1. faults \in Nat /\ faults \in 0..MaxFaults
    BY AlertParametersOK DEF AlertInv, AlertTypeOK
  <2>2. CASE TakeAlert \/ Publish
    BY <2>1, <2>2 DEF TakeAlert, Publish, counts
  <2>3. CASE PublishFails
    BY <2>1, <2>3, FaultFacts DEF PublishFails, AlertInv
  <2> QED BY <2>2, <2>3
<1>2. /\ topic \in Seq(1..alerts) /\ alertCh \in Seq(1..alerts) /\ Len(alertCh) \in Nat
      /\ Len(alertCh) <= AlertCap /\ AlertCap \in Nat /\ publishing \in 0..alerts
      /\ lost \subseteq 1..alerts /\ alerts \in Nat
  BY AlertParametersOK, AlertsBound DEF AlertInv, AlertTypeOK
<1>3. /\ Distinct(topic) /\ Distinct(alertCh) /\ Items(topic) \cap Items(alertCh) = {}
      /\ publishing \notin Items(topic) \cup Items(alertCh)
  BY DEF AlertInv, InOnePlace
<1>4. 0 \notin Items(topic) /\ 0 \notin Items(alertCh)
  BY <1>2 DEF Items
<1>5. /\ topic' \in Seq(1..alerts) /\ alertCh' \in Seq(1..alerts) /\ Len(alertCh') <= AlertCap
      /\ publishing' \in 0..alerts /\ lost' \subseteq 1..alerts
      /\ Distinct(topic') /\ Distinct(alertCh') /\ Items(topic') \cap Items(alertCh') = {}
      /\ publishing' \notin Items(topic') \cup Items(alertCh')
      /\ Items(topic') \cup Items(alertCh') \cup {publishing'} \subseteq
           Items(topic) \cup Items(alertCh) \cup {publishing, 0}
  <2>1. CASE TakeAlert
    <3>1. /\ alertCh # <<>> /\ publishing' = Head(alertCh) /\ alertCh' = Tail(alertCh)
          /\ topic' = topic /\ lost' = lost
      BY <2>1 DEF TakeAlert
    <3>2. /\ Head(alertCh) \in 1..alerts /\ Tail(alertCh) \in Seq(1..alerts)
          /\ Len(Tail(alertCh)) = Len(alertCh) - 1
          /\ Head(alertCh) \in Items(alertCh) /\ Items(Tail(alertCh)) \subseteq Items(alertCh)
          /\ Head(alertCh) \notin Items(Tail(alertCh)) /\ Distinct(Tail(alertCh))
      BY <1>2, <1>3, <3>1, Headless
    <3>3. /\ publishing' \in 0..alerts /\ alertCh' \in Seq(1..alerts) /\ Len(alertCh') <= AlertCap
      BY <1>2, <3>1, <3>2
    <3>4. /\ Distinct(alertCh') /\ Items(topic') \cap Items(alertCh') = {}
          /\ publishing' \notin Items(topic') \cup Items(alertCh')
          /\ Items(topic') \cup Items(alertCh') \cup {publishing'} \subseteq
               Items(topic) \cup Items(alertCh) \cup {publishing, 0}
      BY <1>3, <3>1, <3>2
    <3> QED BY <1>2, <1>3, <3>1, <3>3, <3>4
  <2>2. CASE Publish \/ PublishFails
    <3>1. /\ publishing # 0 /\ publishing' = 0 /\ alertCh' = alertCh
          /\ topic' \in {topic, Append(topic, publishing)}
          /\ lost' \in {lost, lost \cup {publishing}}
      BY <2>2 DEF Publish, PublishFails
    <3>2. publishing \in 1..alerts
      BY <1>2, <3>1
    <3>3. /\ Append(topic, publishing) \in Seq(1..alerts)
          /\ Items(Append(topic, publishing)) = Items(topic) \cup {publishing}
          /\ Distinct(Append(topic, publishing))
      BY <1>2, <1>3, <3>2, Appended
    <3>4. /\ topic' \in Seq(1..alerts) /\ alertCh' \in Seq(1..alerts) /\ Len(alertCh') <= AlertCap
          /\ publishing' \in 0..alerts /\ lost' \subseteq 1..alerts
      <4>1. topic' \in Seq(1..alerts)
        BY <1>2, <3>1, <3>3
      <4>2. alertCh' \in Seq(1..alerts) /\ Len(alertCh') <= AlertCap
        BY <1>2, <3>1
      <4>3. publishing' \in 0..alerts /\ lost' \subseteq 1..alerts
        BY <1>2, <3>1, <3>2
      <4> QED BY <4>1, <4>2, <4>3
    <3>5. Distinct(topic') /\ Items(topic') \subseteq Items(topic) \cup {publishing}
      BY <1>3, <3>1, <3>3
    <3>6. /\ Distinct(alertCh') /\ Items(topic') \cap Items(alertCh') = {}
          /\ publishing' \notin Items(topic') \cup Items(alertCh')
          /\ Items(topic') \cup Items(alertCh') \cup {publishing'} \subseteq
               Items(topic) \cup Items(alertCh) \cup {publishing, 0}
      BY <1>3, <1>4, <3>1, <3>5
    <3> QED BY <3>4, <3>5, <3>6
  <2> QED BY <2>1, <2>2
<1>6. AlertTypeOK'
  BY <1>1, <1>5 DEF AlertInv, AlertTypeOK, agent, rows
<1>7. InOnePlace'
  BY <1>1, <1>5, MovesOn DEF AlertInv, rows, Announcing
<1>8. Accounted'
  BY <1>1, NothingCounts DEF AlertInv, rows, agent
<1>9. Numbered'
  BY <1>1, UncountedNumbers DEF AlertInv, rows
<1> QED BY <1>6, <1>7, <1>8, <1>9 DEF AlertInv

LEMMA RestartServerKept ==
  ASSUME AlertInv, RestartServer
  PROVE  AlertInv'
<1> DEFINE caught == {r \in Requests : reports[r] # NoReport /\ reports[r].pc # "sent"}
<1>1. /\ reports' = [r \in Requests |-> IF r \in caught THEN NoReport ELSE reports[r]]
      /\ waiting' = IF waiting \in caught THEN None ELSE waiting
      /\ lost' = lost \cup {alertCh[i] : i \in DOMAIN alertCh} \cup ({publishing} \ {0})
                  \cup UNION {{reports[r].todo[i] : i \in DOMAIN reports[r].todo} : r \in caught}
      /\ alertCh' = <<>> /\ publishing' = 0
      /\ UNCHANGED <<sample, reported, recent, rows, topic>>
  BY DEF RestartServer
<1>2. faults' = faults + 1 /\ faults \in Nat /\ faults' \in 0..MaxFaults /\ UNCHANGED <<rises, flips>>
  BY FaultFacts DEF RestartServer, AlertInv
<1>3. /\ reports \in [Requests -> {NoReport} \cup Sent \cup Handling]
      /\ waiting \in Requests \cup {None} /\ (waiting # None => reports[waiting] # NoReport)
      /\ alerts \in Nat /\ publishing \in 0..alerts /\ lost \subseteq 1..alerts
      /\ topic \in Seq(1..alerts) /\ alertCh \in Seq(1..alerts) /\ AlertCap \in Nat
  BY AlertParametersOK, AlertsBound DEF AlertInv, AlertTypeOK
<1>4. \A r \in Requests : r \in caught <=> Announcing(r)
  BY ReportKinds DEF AlertInv, Announcing, NoReport
<1>5. lost' \subseteq 1..alerts
  <2>1. {alertCh[i] : i \in DOMAIN alertCh} \subseteq 1..alerts
    BY <1>3
  <2>2. {publishing} \ {0} \subseteq 1..alerts
    BY <1>3
  <2>3. \A r \in caught : {reports[r].todo[i] : i \in DOMAIN reports[r].todo} \subseteq 1..alerts
    BY <1>4 DEF AlertInv, InOnePlace, Items
  <2> HIDE DEF caught
  <2>4. UNION {{reports[r].todo[i] : i \in DOMAIN reports[r].todo} : r \in caught} \subseteq 1..alerts
    BY <2>3
  <2> QED BY <1>1, <1>3, <2>1, <2>2, <2>4
<1>6. NoReport.pc = "idle"
  BY DEF NoReport
<1>7. \A r \in Requests : ~Announcing(r)'
  <2>1. \A r \in Requests : ~(reports'[r].pc \in {"offer", "pop", "again"})
    BY <1>1, <1>4, <1>6 DEF Announcing
  <2> QED BY <2>1 DEF Announcing
<1>8. /\ reports' \in [Requests -> {NoReport} \cup Sent \cup Handling]
      /\ waiting' \in Requests \cup {None} /\ (waiting' # None => reports'[waiting'] # NoReport)
  BY <1>1, <1>3
<1>9. AlertTypeOK'
  <2>1. alertCh' \in Seq(1..alerts) /\ Len(alertCh') <= AlertCap /\ publishing' \in 0..alerts
    BY <1>1, <1>3
  <2> QED BY <1>1, <1>2, <1>5, <1>8, <2>1 DEF AlertInv, AlertTypeOK, rows
<1>10. InOnePlace'
  <2>1. Distinct(topic) /\ 0 \notin Items(topic)
    BY <1>3 DEF AlertInv, InOnePlace, Items
  <2> QED BY <1>1, <1>7, <2>1, Nothing DEF InOnePlace
<1>11. Accounted'
  <2>1. \A r \in Requests : /\ reports'[r].pc = "sent" <=> reports[r].pc = "sent"
                            /\ reports[r].pc = "sent" => reports'[r] = reports[r]
    BY <1>1, <1>6
  <2>2. waiting' = waiting \/ (waiting' = None /\ reports[waiting].pc # "sent")
    BY <1>1
  <2> QED BY <1>1, <1>2, <2>1, <2>2, NothingCounts DEF AlertInv, rows
<1>12. Numbered'
  BY <1>1, <1>2, UncountedNumbers DEF AlertInv, rows
<1> QED BY <1>9, <1>10, <1>11, <1>12 DEF AlertInv

LEMMA AlertStepInv == AlertInv /\ [AlertNext]_alertVars => AlertInv'
<1> SUFFICES ASSUME AlertInv, [AlertNext]_alertVars PROVE AlertInv'
  OBVIOUS
<1>1. ASSUME NEW m \in Metrics, NEW s \in Samples, Flip(m, s) PROVE AlertInv'
  BY <1>1, FlipKept
<1>2. ASSUME NEW r \in Requests, CheckAlerts(r) PROVE AlertInv'
  BY <1>2, CheckAlertsKept
<1>3. ASSUME NEW r \in Requests, Vanish(r) \/ ObserveFails(r) \/ Refuse(r) PROVE AlertInv'
  BY <1>3, ReportLostKept
<1>4. ASSUME NEW r \in Requests, Observe(r) PROVE AlertInv'
  BY <1>4, ObserveKept
<1>5. ASSUME NEW r \in Requests, Enqueue(r) \/ Pop(r) \/ EnqueueAgain(r) PROVE AlertInv'
  BY <1>5, EnqueueingKept
<1>6. CASE Elapse
  BY <1>6, ElapseKept
<1>7. CASE GiveUp \/ RestartAgent
  BY <1>7, AgentStopsKept
<1>8. CASE RestartServer
  BY <1>8, RestartServerKept
<1>9. CASE Worker \/ PublishFails
  BY <1>9, WorkerKept DEF Worker
<1>10. CASE UNCHANGED alertVars
  <2>1. UNCHANGED <<agent, reports, rows, push, counts>>
    BY <1>10 DEF alertVars
  <2>2. faults \in Nat
    BY AlertParametersOK DEF AlertInv, AlertTypeOK
  <2>3. AlertTypeOK'
    BY <2>1, TypedElsewhere DEF AlertInv, AlertTypeOK, agent, counts
  <2>4. InOnePlace'
    BY <2>1, NothingMoves DEF AlertInv, rows, Announcing
  <2>5. Accounted'
    BY <2>1, <2>2, NothingCounts DEF AlertInv, rows, counts, agent
  <2> QED BY <2>1, <2>3, <2>4, <2>5, UncountedNumbers DEF AlertInv, rows, counts
<1> QED BY <1>1, <1>2, <1>3, <1>4, <1>5, <1>6, <1>7, <1>8, <1>9, <1>10 DEF AlertNext, Handle

-----------------------------------------------------------------------------
\* Reports are accounted for and alerts are in one place, always.
THEOREM AlertInvariance == AlertSpec => []AlertInv
<1> QED BY AlertInitInv, AlertStepInv, PTL DEF AlertSpec

\* Every reachable state is well typed; in particular the numbers given out are as
\* few as the changes of the samples and the faults allow.
THEOREM AlertsTyped == AlertSpec => []AlertTypeOK
<1>1. AlertInv => AlertTypeOK
  BY DEF AlertInv
<1> QED BY <1>1, AlertInvariance, PTL

\* An alert is announced once at the most, whatever is retried, handled late or
\* pushed out of the queue (Observe, enqueueMonitoringAlert, StartAlertWorker).
THEOREM SoleSource == AlertSpec => []AnnouncedOnce
<1>1. ASSUME AlertInv PROVE AnnouncedOnce
  <2> DEFINE last == IF publishing = 0 THEN <<>> ELSE <<publishing>>
  <2>1. /\ topic \in Seq(Nat) /\ alertCh \in Seq(Nat) /\ publishing \in Nat
    <3>1. 1..alerts \subseteq Nat /\ 0..alerts \subseteq Nat
      BY <1>1, AlertsBound DEF AlertInv, AlertTypeOK
    <3> QED BY <1>1, <3>1, SeqMonotonic DEF AlertInv, AlertTypeOK
  <2>2. /\ Distinct(topic) /\ Distinct(alertCh) /\ Items(topic) \cap Items(alertCh) = {}
        /\ publishing \notin Items(topic) \cup Items(alertCh)
    BY <1>1 DEF AlertInv, InOnePlace
  <2>3. last \in Seq(Nat) /\ Distinct(last) /\ Items(last) \subseteq {publishing}
    BY <2>1 DEF Distinct, Items
  <2> HIDE DEF last
  <2>4. /\ topic \o alertCh \in Seq(Nat) /\ Distinct(topic \o alertCh)
        /\ Items(topic \o alertCh) = Items(topic) \cup Items(alertCh)
    BY <2>1, <2>2, Joined
  <2>5. Items(topic \o alertCh) \cap Items(last) = {}
    BY <2>2, <2>3, <2>4
  <2>6. Distinct((topic \o alertCh) \o last)
    BY <2>3, <2>4, <2>5, Joined
  <2> QED BY <2>6 DEF AnnouncedOnce, Distinct, last
<1> QED BY <1>1, AlertInvariance, PTL

\* A metric has an alert for each time it went over at the most, and one more for
\* each fault, for any number of metrics and of reports under way (Observe).
THEOREM Deduplicated == AlertSpec => []AlertPerRise
<1>1. ASSUME AlertInv PROVE AlertPerRise
  <2>1. /\ Cardinality(Overtaken) \in Nat
        /\ \A m \in Metrics : /\ Ahead(m) \in Nat /\ opened[m] \in Nat /\ rises[m] \in Nat
                              /\ opened[m] + Cardinality(Overtaken) + Ahead(m) <= rises[m] + faults
    <3>1. IsFiniteSet(Overtaken) /\ opened \in [Metrics -> Nat] /\ rises \in [Metrics -> Nat]
      BY <1>1 DEF AlertInv, AlertTypeOK, Accounted
    <3>2. \A m \in Metrics : opened[m] + Cardinality(Overtaken) + Ahead(m) <= rises[m] + faults
      BY <1>1 DEF AlertInv, Accounted
    <3> QED BY <3>1, <3>2, FS_CardinalityType, AheadIs
  <2>2. faults \in Nat
    BY <1>1, AlertParametersOK DEF AlertInv, AlertTypeOK
  <2> QED BY <2>1, <2>2 DEF AlertPerRise
<1> QED BY <1>1, AlertInvariance, PTL
=============================================================================
