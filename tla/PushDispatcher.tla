---------------------------- MODULE PushDispatcher ----------------------------
(***************************************************************************)
(* The notifications of approvals through Push Kit (pushkit/publisher.go)   *)
(* and the paired phone they go to (api/device_handler.go,                  *)
(* store/device_repo.go, clientAuth of api/auth.go).                        *)
(*                                                                         *)
(* Callers of EnqueueApproval mark an approval and put it on a bounded      *)
(* channel; one worker takes it, reads the targets, gets an access token    *)
(* and sends, a few times over.  Meanwhile the phone is paired, registers   *)
(* for pushes and is unpaired, by requests that carry the device their      *)
(* token named when they came in.  The eviction of marks a day old is left  *)
(* out: no job is that old.                                                 *)
(***************************************************************************)
EXTENDS Integers, Sequences, FiniteSets

CONSTANTS
  Ids,         (* approvals                                                  *)
  Callers,     (* requests that enqueue                                      *)
  QueueCap,    (* capacity of jobs                                           *)
  MaxAttempts, (* attempts to deliver a job                                  *)
  MaxPairs,    (* bound: pairings                                            *)
  MaxKeys      (* bound: access tokens issued                                *)

ASSUME PushParametersOK ==
  /\ QueueCap \in Nat \ {0} /\ MaxAttempts \in Nat \ {0}
  /\ MaxPairs \in Nat \ {0} /\ MaxKeys \in Nat \ {0}

VARIABLES
  calls,    (* EnqueueApproval by caller: where it is and its approval       *)
  seen,     (* approvals marked                                              *)
  jobs,     (* the channel                                                   *)
  worker,   (* the goroutine run()                                           *)
  access,   (* accessToken, 0 for none                                       *)
  keys,     (* access tokens issued so far                                   *)
  devices,  (* the rows: device, whether it registered for pushes            *)
  requests, (* authenticated requests under way                              *)
  pairs,    (* pairings so far                                               *)
  accepted, (* how often Push Kit's acceptance was heard of, by approval     *)
  settled,  (* approvals sent, or that had nobody to be sent to              *)
  late,     (* pushes that reached a device after it was unpaired            *)
  refused   (* access tokens Push Kit has refused to this process            *)

queue == <<calls, seen, jobs>>
phone == <<devices, requests, pairs>>
ghost == <<accepted, settled, late, refused>>
vars  == <<queue, worker, access, keys, phone, ghost>>

Devs == 1..MaxPairs
Idle == [pc |-> "idle"]
Device  == [id : Devs, push : BOOLEAN]
Request == [dev : Devs, op : {"unpair", "push"}]
Working == [pc : {"targets", "access", "send"}, id : Ids, attempt : 1..MaxAttempts,
            to : SUBSET Devs, key : 0..MaxKeys]

TypeOK ==
  /\ calls \in [Callers -> {Idle} \cup [pc : {"marked", "full"}, id : Ids]]
  /\ seen \subseteq Ids
  /\ jobs \in Seq(Ids) /\ Len(jobs) <= QueueCap
  /\ worker \in {Idle} \cup Working
  /\ access \in 0..keys /\ keys \in 0..MaxKeys
  /\ devices \subseteq Device /\ requests \subseteq Request /\ pairs \in 0..MaxPairs
  /\ accepted \in [Ids -> Nat] /\ settled \subseteq Ids
  /\ late \in [Devs -> Nat] /\ refused \subseteq 1..keys

Init ==
  /\ calls = [c \in Callers |-> Idle] /\ seen = {} /\ jobs = <<>>
  /\ worker = Idle /\ access = 0 /\ keys = 0
  /\ devices = {} /\ requests = {} /\ pairs = 0
  /\ accepted = [i \in Ids |-> 0] /\ settled = {} /\ late = [d \in Devs |-> 0] /\ refused = {}
-----------------------------------------------------------------------------
(* EnqueueApproval.                                                        *)

\* markOnce; a call that finds the mark is answered true and does no more.
Mark(c, i) ==
  /\ calls[c] = Idle /\ i \notin seen
  /\ seen' = seen \cup {i}
  /\ calls' = [calls EXCEPT ![c] = [pc |-> "marked", id |-> i]]
  /\ UNCHANGED <<jobs, worker, access, keys, phone, ghost>>

\* The send that does not wait.
Offer(c) ==
  /\ calls[c].pc = "marked"
  /\ \/ /\ Len(jobs) < QueueCap
        /\ jobs' = Append(jobs, calls[c].id)
        /\ calls' = [calls EXCEPT ![c] = Idle]
     \/ /\ Len(jobs) = QueueCap
        /\ calls' = [calls EXCEPT ![c].pc = "full"]
        /\ UNCHANGED jobs
  /\ UNCHANGED <<seen, worker, access, keys, phone, ghost>>

Unmark(c) ==
  /\ calls[c].pc = "full"
  /\ seen' = seen \ {calls[c].id}
  /\ calls' = [calls EXCEPT ![c] = Idle]
  /\ UNCHANGED <<jobs, worker, access, keys, phone, ghost>>

-----------------------------------------------------------------------------
(* The worker.                                                             *)

Take ==
  /\ worker = Idle /\ jobs # <<>>
  /\ worker' = [pc |-> "targets", id |-> Head(jobs), attempt |-> 1, to |-> {}, key |-> 0]
  /\ jobs' = Tail(jobs)
  /\ UNCHANGED <<calls, seen, access, keys, phone, ghost>>

\* Mutant of Delivered: every job's mark is removed at its end.
DeliveredUnmarked ==
  worker' = Idle /\ seen' = seen \ {worker.id} /\ settled' = settled \cup {worker.id}

\* The mark of a job that was sent, or had nobody to be sent to, stays.
Delivered == worker' = Idle /\ settled' = settled \cup {worker.id} /\ UNCHANGED seen

\* Mutant of Lost: the mark stays.
LostMarked == worker' = Idle /\ UNCHANGED <<seen, settled>>

Lost == worker' = Idle /\ seen' = seen \ {worker.id} /\ UNCHANGED settled

\* Mutant of Again: the targets of the first attempt are used.
AgainSameTargets ==
  /\ worker.attempt < MaxAttempts
  /\ worker' = [worker EXCEPT !.pc = IF worker.to = {} THEN "targets" ELSE "access",
                              !.attempt = @ + 1, !.key = 0]
  /\ UNCHANGED <<seen, settled>>

\* The next attempt starts over.
Again ==
  /\ worker.attempt < MaxAttempts
  /\ worker' = [worker EXCEPT !.pc = "targets", !.attempt = @ + 1, !.to = {}, !.key = 0]
  /\ UNCHANGED <<seen, settled>>

Transient == Again \/ (worker.attempt = MaxAttempts /\ Lost)

LoadTargets ==
  /\ worker.pc = "targets"
  /\ LET to == {d.id : d \in {e \in devices : e.push}} IN
     \/ to # {} /\ worker' = [worker EXCEPT !.pc = "access", !.to = to] /\ UNCHANGED <<seen, settled>>
     \/ to = {} /\ Delivered
     \/ Transient
  /\ UNCHANGED <<calls, jobs, access, keys, phone, accepted, late, refused>>

HaveKey(k) ==
  worker' = [worker EXCEPT !.pc = "send", !.key = k] /\ UNCHANGED <<seen, settled>>

\* getAccessToken: the cached one, or a new one from the OAuth server.
GetAccess ==
  /\ worker.pc = "access"
  /\ \/ access # 0 /\ HaveKey(access) /\ UNCHANGED <<access, keys>>
     \/ /\ access = 0 /\ keys < MaxKeys
        /\ keys' = keys + 1 /\ access' = keys + 1 /\ HaveKey(keys + 1)
     \/ access = 0 /\ (Transient \/ Lost) /\ UNCHANGED <<access, keys>>
  /\ UNCHANGED <<calls, jobs, phone, accepted, late, refused>>

\* The cached token has less than two minutes left.
Expire ==
  /\ access # 0
  /\ access' = 0
  /\ UNCHANGED <<queue, worker, keys, phone, ghost>>

Paired == {d.id : d \in devices}

\* The push is shown on its targets.
Reach == late' = [d \in Devs |-> IF d \in worker.to \ Paired THEN late[d] + 1 ELSE late[d]]

Accept ==
  /\ worker.pc = "send"
  /\ accepted' = [accepted EXCEPT ![worker.id] = @ + 1]
  /\ Reach /\ Delivered
  /\ UNCHANGED <<calls, jobs, access, keys, phone, refused>>

\* Push Kit has it and the answer is lost, or it is an error worth a retry.
Fail ==
  /\ worker.pc = "send"
  /\ Transient
  /\ Reach \/ UNCHANGED late
  /\ UNCHANGED <<calls, jobs, access, keys, phone, accepted, refused>>

\* Any other status, or a code that is not success.
Reject ==
  /\ worker.pc = "send"
  /\ Lost
  /\ UNCHANGED <<calls, jobs, access, keys, phone, accepted, late, refused>>

\* 401: the token is forgotten; the job is lost all the same.
Unauthorized ==
  /\ worker.pc = "send"
  /\ refused' = refused \cup {worker.key} /\ access' = 0
  /\ Lost
  /\ UNCHANGED <<calls, jobs, keys, phone, accepted, late>>

-----------------------------------------------------------------------------
(* The phone.                                                              *)

\* The insert that is conditional on an empty table.
Pair ==
  /\ devices = {} /\ pairs < MaxPairs
  /\ pairs' = pairs + 1
  /\ devices' = {[id |-> pairs + 1, push |-> FALSE]}
  /\ UNCHANGED <<queue, worker, access, keys, requests, ghost>>

\* clientAuth: the request carries the device as it was read.
Authenticate(d, op) ==
  /\ d \in devices
  /\ requests' = requests \cup {[dev |-> d.id, op |-> op]}
  /\ UNCHANGED <<queue, worker, access, keys, devices, pairs, ghost>>

Unpair(r) ==
  /\ r \in requests /\ r.op = "unpair"
  /\ requests' = requests \ {r}
  /\ devices' = {d \in devices : d.id # r.dev}
  /\ UNCHANGED <<queue, worker, access, keys, pairs, ghost>>

SetPushToken(dev) ==
  devices' = {IF d.id = dev THEN [d EXCEPT !.push = TRUE] ELSE d : d \in devices}

RegisterPushToken(r) ==
  /\ r \in requests /\ r.op = "push"
  /\ requests' = requests \ {r}
  /\ SetPushToken(r.dev)
  /\ UNCHANGED <<queue, worker, access, keys, pairs, ghost>>

-----------------------------------------------------------------------------
Work == Take \/ LoadTargets \/ GetAccess \/ Accept \/ Fail \/ Reject \/ Unauthorized

Next ==
  \/ \E c \in Callers : (\E i \in Ids : Mark(c, i)) \/ Offer(c) \/ Unmark(c)
  \/ Work \/ Expire \/ Pair
  \/ \E d \in devices, op \in {"unpair", "push"} : Authenticate(d, op)
  \/ \E r \in requests : Unpair(r) \/ RegisterPushToken(r)

Spec == Init /\ [][Next]_vars

\* The goroutines run on; requests to Push Kit end by their deadlines.
FairSpec ==
  /\ Spec
  /\ WF_vars(Work) /\ \A c \in Callers : WF_vars(Offer(c) \/ Unmark(c))

-----------------------------------------------------------------------------
Marked(i)   == {c \in Callers : calls[c].pc = "marked" /\ calls[c].id = i}
InQueue(i)  == {k \in DOMAIN jobs : jobs[k] = i}
InWork(i)   == IF worker # Idle /\ worker.id = i THEN {0} ELSE {}

\* Whoever else asks for it, fails to, or finds the queue full: an approval is
\* in one place at a time, and marked there (markOnce, unmark).
QueuedOnce ==
  \A i \in Ids :
    LET places == Cardinality(Marked(i)) + Cardinality(InQueue(i)) + Cardinality(InWork(i))
    IN  places <= 1 /\ (places = 1 => i \in seen)

\* A push that is known to have been accepted is not sent again (run, markOnce).
\* One whose acceptance was not heard of may be.
AcceptedOnce == \A i \in Ids : accepted[i] <= 1

\* No request uses an access token that Push Kit has refused before
\* (invalidateAccessToken).
RefusedKeyIsForgotten == worker.pc = "send" => worker.key \notin refused

\* A phone that was unpaired sees one more push at the most, the one under way:
\* every attempt reads the targets anew (sendApproval), one is under way at a
\* time (run), and a late registration does not bring it back (SetPushToken).
LeftAlone == \A d \in Devs : late[d] <= 1

\* "two simultaneous QR scans cannot both win" (DeviceRepo.Pair), nor can a
\* request of the phone before undo it.
OnePhone == Cardinality(devices) <= 1

-----------------------------------------------------------------------------
(* The invariant that PushDispatcher_proofs shows to be inductive.         *)

\* What a caller, the queue or the worker has is marked, not known to have been
\* accepted, and in no second place.
CallsOK ==
  \A c \in Callers : calls[c].pc # "idle" =>
    /\ calls[c].id \in seen /\ accepted[calls[c].id] = 0
    /\ \A d \in Callers : calls[d].pc # "idle" /\ calls[d].id = calls[c].id => d = c

JobsOK ==
  \A k \in DOMAIN jobs :
    /\ jobs[k] \in seen /\ accepted[jobs[k]] = 0
    /\ \A l \in DOMAIN jobs : jobs[l] = jobs[k] => l = k
    /\ \A c \in Callers : calls[c].pc # "idle" => calls[c].id # jobs[k]

WorkOK ==
  worker.pc # "idle" =>
    /\ worker.id \in seen /\ accepted[worker.id] = 0
    /\ \A k \in DOMAIN jobs : jobs[k] # worker.id
    /\ \A c \in Callers : calls[c].pc # "idle" => calls[c].id # worker.id

AcceptedOK == \A i \in Ids : accepted[i] > 0 => accepted[i] = 1 /\ i \in seen

\* Neither the cached access token nor the one in use has been refused.
KeysOK ==
  /\ access \notin refused
  /\ worker.pc = "send" => worker.key \in 1..keys /\ worker.key \notin refused

\* A phone gets a number once; one that is paired, or that the worker is about to
\* send to, has not seen a push it should not have.
PhonesOK ==
  /\ \A d, e \in devices : d = e
  /\ \A d \in devices : d.id <= pairs /\ late[d.id] = 0
  /\ \A d \in Devs : late[d] <= 1 /\ (d > pairs => late[d] = 0)
  /\ worker.pc # "idle" => \A d \in worker.to : d <= pairs /\ late[d] = 0

IInv == TypeOK /\ CallsOK /\ JobsOK /\ WorkOK /\ AcceptedOK /\ KeysOK /\ PhonesOK

-----------------------------------------------------------------------------
(* Liveness.                                                               *)

\* A mark is kept only for what was sent, or had nobody to go to: what was lost
\* can be asked for again (run).
MarksResolve == \A i \in Ids : (i \in seen) ~> (i \notin seen \/ i \in settled)
=============================================================================
