---------------------------- MODULE CommandQueue ----------------------------
(***************************************************************************)
(* The command queue between the phone and the desktop agents              *)
(* (backend/internal/agent/relay.go) with the handlers that use it         *)
(* (backend/internal/api/agent_relay.go): the phone enqueues and, unless   *)
(* asynchronous, waits; agents fetch by long polling and report.           *)
(*                                                                         *)
(* A step is one section under the queue's mutex, or one receive from a    *)
(* channel with the section that follows it.                               *)
(***************************************************************************)
EXTENDS Integers, FiniteSets, Sequences

CONSTANTS
  Cmds,        (* command identifiers, each used once                        *)
  Polls,       (* GET /agent/queue requests that may be open at a time       *)
  MaxHistory,  (* maxHistory: results kept                                   *)
  MaxStored,   (* maxStoredCommands: above it, finished commands are evicted *)
  MaxCallers   (* maxCmdConcurrent: POST /agent/cmd under way                *)

ASSUME SizesOK ==
  /\ MaxHistory \in Nat \ {0} /\ MaxStored \in Nat /\ MaxCallers \in Nat

VARIABLES
  pending,   (* the queue, a sequence of commands                            *)
  commands,  (* the commands that may still be reported                      *)
  dequeued,  (* the commands marked as fetched                               *)
  reported,  (* the commands marked as reported                              *)
  history,   (* the last MaxHistory results                                  *)
  waiters,   (* polls whose channel the next enqueue writes to               *)
  inbox,     (* [Polls -> Cmds or none]: the channel of a poll               *)
  poll,      (* [Polls -> {idle, waiting}]                                   *)
  caller,    (* [Cmds -> where the phone's request for the command is]       *)
  answer,    (* [Cmds -> what a synchronous caller was told]                 *)
  notify,    (* the commands with a result in their notify channel           *)
  reports,   (* NotifyResult calls past their first section                  *)
  saved,     (* [Cmds -> Nat]: rows of the command statistics                *)
  taken,     (* [Cmds -> Nat]: how often the command was handed to an agent  *)
  aged       (* the commands created more than 30 minutes ago                *)

queue == <<pending, commands, dequeued, reported>>
polls == <<waiters, inbox, poll, taken>>
calls == <<caller, answer>>
vars  == <<queue, polls, calls, history, notify, reports, saved, aged>>

None == "none"

ASSUME NoneIsNoCmd == None \notin Cmds

Waiting == {"waiting", "notified", "expired", "withdrawing"}

TypeOK ==
  /\ pending  \in Seq(Cmds)
  /\ commands \subseteq Cmds /\ dequeued \subseteq Cmds /\ reported \subseteq Cmds
  /\ history  \in Seq([cmd : Cmds, what : {"result", "failure"}])
  /\ Len(history) <= MaxHistory
  /\ waiters  \subseteq Polls
  /\ inbox    \in [Polls -> Cmds \cup {None}]
  /\ poll     \in [Polls -> {"idle", "waiting"}]
  /\ caller   \in [Cmds -> Waiting \cup {"new", "async", "answered"}]
  /\ answer   \in [Cmds -> {"none", "result", "failure"}]
  /\ notify   \subseteq Cmds
  /\ reports  \subseteq [cmd : Cmds, pc : {"record", "notify"}]
  /\ saved    \in [Cmds -> Nat] /\ taken \in [Cmds -> Nat]
  /\ aged     \subseteq Cmds

Init ==
  /\ pending = <<>> /\ history = <<>>
  /\ commands = {} /\ dequeued = {} /\ reported = {}
  /\ waiters = {}
  /\ inbox  = [p \in Polls |-> None]
  /\ poll   = [p \in Polls |-> "idle"]
  /\ caller = [c \in Cmds |-> "new"]
  /\ answer = [c \in Cmds |-> "none"]
  /\ notify = {} /\ reports = {} /\ aged = {}
  /\ saved = [c \in Cmds |-> 0] /\ taken = [c \in Cmds |-> 0]

Queued  == {pending[i] : i \in DOMAIN pending}
Settled == {history[i].cmd : i \in DOMAIN history}
-----------------------------------------------------------------------------
(* The phone's side: EnqueueOnly and EnqueueCmd.                           *)

\* What evictCompletedCommands drops when the map outgrows its limit.
Evicted(c) ==
  IF Cardinality(commands \cup {c}) <= MaxStored THEN {}
  ELSE {id \in commands \ (Queued \cup {c}) : id \in Settled \cup aged}

\* Mutant of Enqueue: a command that a waiting poll gets is not queued as well.
EnqueueOrHandOver(c, state) ==
  /\ caller[c] = "new"
  /\ caller'   = [caller EXCEPT ![c] = state]
  /\ pending'  = IF waiters = {} THEN Append(pending, c) ELSE pending
  /\ commands' = commands \cup {c}
  /\ inbox'    = [p \in Polls |-> IF p \in waiters THEN c ELSE inbox[p]]
  /\ waiters'  = {}
  /\ UNCHANGED <<dequeued, reported, history, poll, answer, notify, reports, saved,
                 taken, aged>>

\* Mutant of Enqueue: the command goes to the head of the queue.
EnqueueAtHead(c, state) ==
  /\ caller[c] = "new"
  /\ caller'   = [caller EXCEPT ![c] = state]
  /\ pending'  = <<c>> \o pending
  /\ commands' = commands \cup {c}
  /\ inbox'    = [p \in Polls |-> IF p \in waiters THEN c ELSE inbox[p]]
  /\ waiters'  = {}
  /\ UNCHANGED <<dequeued, reported, history, poll, answer, notify, reports, saved,
                 taken, aged>>

\* Append, evict, and hand the command to every waiting poll at once.
Enqueue(c, state) ==
  /\ caller[c] = "new"
  /\ caller'   = [caller EXCEPT ![c] = state]
  /\ pending'  = Append(pending, c)
  /\ commands' = (commands \cup {c}) \ Evicted(c)
  /\ dequeued' = dequeued \ Evicted(c)
  /\ reported' = reported \ Evicted(c)
  /\ inbox'    = [p \in Polls |-> IF p \in waiters THEN c ELSE inbox[p]]
  /\ waiters'  = {}
  /\ UNCHANGED <<history, poll, answer, notify, reports, saved, taken, aged>>

EnqueueOnly(c) == Enqueue(c, "async")

\* A synchronous request holds one of the slots of cmdSem until it is answered.
EnqueueCmd(c) ==
  /\ Cardinality({d \in Cmds : caller[d] \in Waiting}) < MaxCallers
  /\ Enqueue(c, "waiting")

\* recordResult keeps the last MaxHistory results.
RecordResult(c, what) ==
  LET all == Append(history, [cmd |-> c, what |-> what]) IN
  history' = SubSeq(all, IF Len(all) > MaxHistory THEN 2 ELSE 1, Len(all))

\* The caller's select takes the result ...
ReceiveResult(c) ==
  /\ caller[c] = "waiting" /\ c \in notify
  /\ caller' = [caller EXCEPT ![c] = "notified"]
  /\ notify' = notify \ {c}
  /\ UNCHANGED <<queue, polls, answer, history, reports, saved, aged>>

\* ... and records it, too, before it answers.
AnswerResult(c) ==
  /\ caller[c] = "notified"
  /\ RecordResult(c, "result")
  /\ caller' = [caller EXCEPT ![c] = "answered"]
  /\ answer' = [answer EXCEPT ![c] = "result"]
  /\ UNCHANGED <<queue, polls, notify, reports, saved, aged>>

\* Mutant of Expire: the failure is recorded whoever has reported.
ExpireRegardless(c) ==
  /\ caller[c] = "waiting"
  /\ reported' = reported \cup {c}
  /\ caller' = [caller EXCEPT ![c] = "expired"]
  /\ UNCHANGED <<pending, commands, dequeued, polls, answer, history, notify,
                 reports, saved, aged>>

\* The timer fires or the request's context ends: handleTimeoutOrCancel first
\* claims the report for itself, if nobody else has.
Expire(c) ==
  /\ caller[c] = "waiting"
  /\ reported' = reported \cup {c}
  /\ caller' = [caller EXCEPT ![c] = IF c \in reported THEN "withdrawing" ELSE "expired"]
  /\ UNCHANGED <<pending, commands, dequeued, polls, answer, history, notify,
                 reports, saved, aged>>

RecordFailure(c) ==
  /\ caller[c] = "expired"
  /\ RecordResult(c, "failure")
  /\ caller' = [caller EXCEPT ![c] = "withdrawing"]
  /\ UNCHANGED <<queue, polls, answer, notify, reports, saved, aged>>

\* The queue without its i-th command.
Without(i) ==
  [j \in 1..(Len(pending) - 1) |-> pending[IF j < i THEN j ELSE j + 1]]

\* removeCmd, then the answer.
Withdraw(c) ==
  /\ caller[c] = "withdrawing"
  /\ \/ \E i \in DOMAIN pending : pending[i] = c /\ pending' = Without(i)
     \/ c \notin Queued /\ UNCHANGED pending
  /\ commands' = commands \ {c}
  /\ dequeued' = dequeued \ {c}
  /\ reported' = reported \ {c}
  /\ caller' = [caller EXCEPT ![c] = "answered"]
  /\ answer' = [answer EXCEPT ![c] = "failure"]
  /\ UNCHANGED <<polls, history, notify, reports, saved, aged>>

-----------------------------------------------------------------------------
(* The agent's side: Dequeue.                                              *)

\* Positions of commands nobody has fetched yet.
Fresh == {i \in DOMAIN pending : pending[i] \notin dequeued}

Deliver(c) ==
  /\ dequeued' = dequeued \cup {c}
  /\ taken' = [taken EXCEPT ![c] = @ + 1]

\* Skip what is marked; take the next command, or wait for one.
Dequeue(p) ==
  /\ poll[p] = "idle"
  /\ \/ \E i \in Fresh :
          /\ \A j \in Fresh : i <= j
          /\ pending' = SubSeq(pending, i + 1, Len(pending))
          /\ Deliver(pending[i])
          /\ UNCHANGED <<poll, waiters>>
     \/ /\ Fresh = {}
        /\ pending' = <<>>
        /\ poll' = [poll EXCEPT ![p] = "waiting"]
        /\ waiters' = waiters \cup {p}
        /\ UNCHANGED <<dequeued, taken>>
  /\ UNCHANGED <<commands, reported, inbox, calls, history, notify, reports, saved, aged>>

\* Mutant of TakeHanded: the poll does not look whether another was faster.
TakeAnyway(p) ==
  /\ poll[p] = "waiting" /\ inbox[p] # None
  /\ Deliver(inbox[p])
  /\ poll'  = [poll EXCEPT ![p] = "idle"]
  /\ inbox' = [inbox EXCEPT ![p] = None]
  /\ UNCHANGED <<pending, commands, reported, waiters, calls, history, notify,
                 reports, saved, aged>>

\* The poll reads its channel: unless another poll was faster, the command is its.
TakeHanded(p) ==
  /\ poll[p] = "waiting" /\ inbox[p] # None
  /\ IF inbox[p] \in dequeued THEN UNCHANGED <<dequeued, taken>> ELSE Deliver(inbox[p])
  /\ poll'  = [poll EXCEPT ![p] = "idle"]
  /\ inbox' = [inbox EXCEPT ![p] = None]
  /\ UNCHANGED <<pending, commands, reported, waiters, calls, history, notify,
                 reports, saved, aged>>

\* 25 seconds are over, or the agent hung up; what its channel holds is dropped.
Leave(p) ==
  /\ poll[p] = "waiting"
  /\ poll'    = [poll EXCEPT ![p] = "idle"]
  /\ inbox'   = [inbox EXCEPT ![p] = None]
  /\ waiters' = waiters \ {p}
  /\ UNCHANGED <<queue, taken, calls, history, notify, reports, saved, aged>>

-----------------------------------------------------------------------------
(* NotifyResult, called by POST /agent/report; agents may repeat a report. *)

\* Mutant of AcceptReport: a command that is still known may be reported again.
AcceptReportAgain(c) ==
  /\ taken[c] > 0
  /\ c \in commands
  /\ reported' = reported \cup {c}
  /\ reports' = reports \cup {[cmd |-> c, pc |-> "record"]}
  /\ UNCHANGED <<pending, commands, dequeued, polls, calls, history, notify, saved, aged>>

AcceptReport(c) ==
  /\ taken[c] > 0
  /\ c \in commands \ reported
  /\ reported' = reported \cup {c}
  /\ reports' = reports \cup {[cmd |-> c, pc |-> "record"]}
  /\ UNCHANGED <<pending, commands, dequeued, polls, calls, history, notify, saved, aged>>

RecordReport(r) ==
  /\ r.pc = "record"
  /\ RecordResult(r.cmd, "result")
  /\ reports' = (reports \ {r}) \cup {[r EXCEPT !.pc = "notify"]}
  /\ UNCHANGED <<queue, polls, calls, notify, saved, aged>>

\* Wake the caller, if there is one, and save the statistics.
NotifyCaller(r) ==
  /\ r.pc = "notify"
  /\ notify' = IF caller[r.cmd] = "async" THEN notify ELSE notify \cup {r.cmd}
  /\ saved' = [saved EXCEPT ![r.cmd] = @ + 1]
  /\ reports' = reports \ {r}
  /\ UNCHANGED <<queue, polls, calls, history, aged>>

\* 30 minutes; a synchronous request does not last that long.
Age(c) ==
  /\ caller[c] \in {"async", "answered"} /\ c \notin aged
  /\ aged' = aged \cup {c}
  /\ UNCHANGED <<queue, polls, calls, history, notify, reports, saved>>

CallerStep(c) ==
  ReceiveResult(c) \/ AnswerResult(c) \/ Expire(c) \/ RecordFailure(c) \/ Withdraw(c)

ReportStep(r) == RecordReport(r) \/ NotifyCaller(r)

Next ==
  \/ \E c \in Cmds : EnqueueOnly(c) \/ EnqueueCmd(c) \/ CallerStep(c)
  \/ \E p \in Polls : Dequeue(p) \/ TakeHanded(p) \/ Leave(p)
  \/ \E c \in Cmds : AcceptReport(c) \/ Age(c)
  \/ \E r \in reports : ReportStep(r)

Spec == Init /\ [][Next]_vars
-----------------------------------------------------------------------------
(* Safety.                                                                 *)

\* A command no agent has got is still in the queue, though polls time out with
\* the command in their channel and other polls overtake them (Dequeue,
\* EnqueueCmd).
NoneLost == \A c \in commands : taken[c] = 0 => c \in Queued

\* However often and however concurrently agents report a command, one report
\* counts (NotifyResult: "one cmd_id is reported once").
ReportCountsOnce == \A c \in Cmds : saved[c] <= 1

\* A timed out caller and a late report agree on what became of the command: as
\* long as the queue knows it, history does not hold a failure and a result of it
\* (handleTimeoutOrCancel).  Eviction forgets who reported: a caller that expires
\* then records a failure of a command it had a result of.
OneVerdict ==
  \A i, j \in DOMAIN history :
    history[i].cmd = history[j].cmd /\ history[i].cmd \in commands
      => history[i].what = history[j].what

\* Agents get commands in the order the phone sent them: a command is handed out
\* only when all that were queued before it are (Dequeue, with waiting polls
\* served out of band).
FirstInFirstOut ==
  [][\A c \in Cmds : taken'[c] # taken[c] =>
       \A i, j \in DOMAIN pending :
         pending[j] = c /\ i < j => taken[pending[i]] > 0]_vars

-----------------------------------------------------------------------------
(* The queue keeps the promise of CommandPromise.                          *)

\* What the phone was told of its command.
toldOf ==
  [c \in Cmds |-> IF caller[c] = "new" THEN "none"
                  ELSE IF caller[c] = "async" THEN "nobody"
                  ELSE IF caller[c] = "answered" THEN answer[c] ELSE "open"]

\* What is before a command in the queue, of those that nobody has got.
aheadOf ==
  [c \in Cmds |-> {d \in Cmds : /\ taken[c] = 0 /\ taken[d] = 0
                                /\ \E i, j \in DOMAIN pending :
                                     i < j /\ pending[i] = d /\ pending[j] = c}]

Promise == INSTANCE CommandPromise WITH
  told <- toldOf, known <- commands, ahead <- aheadOf, handed <- taken, counted <- saved

\* Whatever polls, reports, time-outs and evictions do at the same time: as long as
\* the queue knows a command it is handed out once and in its turn, one report of
\* it counts, only handed out commands are forgotten, and a result the phone is
\* told is one that counted.  A command that the queue no longer knows may still
\* arrive from a channel (Dequeue, NotifyResult, handleTimeoutOrCancel,
\* evictCompletedCommands).
QueuePromiseKept == Promise!Spec

-----------------------------------------------------------------------------
(* The inductive invariant the proofs use.                                 *)

Enqueued == {c \in Cmds : caller[c] # "new"}

\* A command is known nowhere before its request.
Known ==
  /\ commands \subseteq Enqueued /\ Queued \subseteq Enqueued
  /\ \A p \in Polls : inbox[p] \in Enqueued \cup {None}
  /\ \A r \in reports : r.cmd \in Enqueued
  /\ \A c \in Cmds : saved[c] > 0 => c \in Enqueued

\* The queue holds a command once; a poll waits only while the queue is empty, so
\* a command in its channel can only be the first of the queue.
QueueOK ==
  /\ \A i, j \in DOMAIN pending : pending[i] = pending[j] => i = j
  /\ waiters # {} => pending = <<>>
  /\ \A p \in Polls : \A j \in DOMAIN pending : pending[j] = inbox[p] => j = 1

\* What is marked as fetched was handed to an agent.
Marked == \A c \in dequeued : taken[c] > 0

\* A report that counts is the only one, and nobody can report the command again:
\* it is marked as reported, or no longer known.
Claimed ==
  /\ \A r \in reports : saved[r.cmd] = 0 /\ r.cmd \notin commands \ reported
  /\ \A q, r \in reports : q.cmd = r.cmd => q = r
  /\ \A c \in Cmds : saved[c] > 0 => saved[c] = 1 /\ c \notin commands \ reported

IInv == TypeOK /\ Known /\ QueueOK /\ Marked /\ NoneLost /\ Claimed

\* What history holds, or the caller or its channel is about to add to it, of a
\* command that is known: whoever claimed it marked it, and a failure goes with no
\* result and no report.
Entries == {history[i] : i \in DOMAIN history}
Has(c, what) == [cmd |-> c, what |-> what] \in Entries

Verdict(c) ==
  /\ (Has(c, "result") \/ Has(c, "failure") \/ c \in notify) => caller[c] # "new"
  /\ (c \in commands /\ Has(c, "result")) => c \in reported
  /\ (c \in commands /\ c \in notify) => c \in reported
  /\ (c \in commands /\ caller[c] \in {"notified", "expired"}) => c \in reported
  /\ (c \in commands /\ caller[c] = "expired") =>
        (~Has(c, "result") /\ \A r \in reports : r.cmd # c)
  /\ (c \in commands /\ Has(c, "failure")) =>
        (c \in reported /\ caller[c] = "withdrawing"
          /\ ~Has(c, "result") /\ \A r \in reports : r.cmd # c)
  /\ (c \in commands /\ c \in notify) => ~Has(c, "failure") /\ caller[c] # "expired"
  /\ (c \in commands /\ caller[c] = "notified") => ~Has(c, "failure")

Verdicts == \A c \in Cmds : Verdict(c)

\* What is queued is known; a known command that was handed out is marked, so that
\* it is not handed out again.  A result in a channel or in a caller's hand was
\* reported, and what was reported was handed out.
Traced ==
  /\ Queued \subseteq commands
  /\ \A c \in Cmds : taken[c] > 0 => c \in Enqueued /\ c \notin commands \ dequeued
  /\ \A r \in reports : taken[r.cmd] > 0
  /\ \A c \in Cmds : c \in notify \/ caller[c] = "notified" => saved[c] = 1
  /\ \A c \in Cmds : caller[c] = "answered" <=> answer[c] # "none"

-----------------------------------------------------------------------------
(* Liveness: an agent keeps polling, and a request's deadline passes.      *)

Fairness ==
  /\ \A p \in Polls : WF_vars(Dequeue(p)) /\ WF_vars(TakeHanded(p))
  /\ \A c \in Cmds : WF_vars(CallerStep(c))

FairSpec == Spec /\ Fairness

\* A command reaches an agent, unless its caller withdraws it first.
Delivered ==
  \A c \in Cmds : (c \in commands /\ taken[c] = 0) ~> (taken[c] > 0 \/ c \notin commands)

-----------------------------------------------------------------------------
(* A statement of the source that the code does not keep.                  *)

\* relay.go:66: the mark is there "so that one command is not dequeued twice".
DequeuedOnce == \A c \in Cmds : taken[c] <= 1
=============================================================================
