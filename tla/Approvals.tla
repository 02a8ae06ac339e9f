----------------------------- MODULE Approvals ------------------------------
(***************************************************************************)
(* Approval of the agent's tool calls: hooks/approval_hook.py asks,        *)
(* api/approval_handler.go judges and records, the phone decides, the hook *)
(* polls, approval/timeout_scanner.go expires what nobody decided, and the *)
(* phone may clear the history or switch the permission mode meanwhile.    *)
(*                                                                         *)
(* Every SQL statement is one step (SQLite behind a single connection).    *)
(* A handler or the scanner is at the statement its `pc' names.  The clock *)
(* of an approval is abstracted to how it relates to timeout_at: "open",   *)
(* "over", or "old" once it lies more than an hour back.                   *)
(***************************************************************************)
EXTENDS RiskPolicy, Integers, FiniteSets

CONSTANTS
  Hooks,         (* hook processes, one per tool call of the agent           *)
  ToolCalls,     (* the calls the agent makes, a subset of Calls             *)
  Modes,         (* the permission modes the phone uses                      *)
  MaxDecisions,  (* bound: decisions of phones under way                     *)
  MaxRestarts    (* bound: restarts of the server                            *)

ASSUME ParametersOK ==
  /\ ToolCalls \subseteq Calls
  /\ Modes \subseteq PermissionModes
  /\ MaxDecisions \in Nat /\ MaxRestarts \in Nat

VARIABLES
  record,     (* [Hooks -> Record]: the approval of each hook                *)
  clock,      (* [Hooks -> Clock]: now against the approval's timeout_at     *)
  hook,       (* [Hooks -> {idle, asking, polling, reading, allow, deny}]    *)
  call,       (* [Hooks -> call]: what the hook asked about                  *)
  handler,    (* [Hooks -> the handler of POST /approvals]                   *)
  mode,       (* the permission mode kept by the WebSocket hub               *)
  memory,     (* the commands of table session_memo                          *)
  decisions,  (* handlers of POST /approvals/{id}/decide before their UPDATE *)
  toRemember, (* the same after an UPDATE to "allow"                         *)
  scan,       (* the scanner: its statement, what is left, the current one   *)
  alerts,     (* [Hooks -> Nat]: timeout alerts sent                         *)
  consented,  (* hooks whose approval a phone's "allow" settled              *)
  refused,    (* hooks whose approval a phone's "deny" settled               *)
  waived,     (* [Hooks -> {no, level, mode}]: what let it through unasked   *)
  restarts    (* restarts of the server so far                               *)

vars == <<record, clock, hook, call, handler, mode, memory, decisions, toRemember,
          scan, alerts, consented, refused, waived, restarts>>

server == <<mode, memory, decisions, toRemember>>
ghosts == <<consented, refused, waived>>
watch  == <<scan, alerts, restarts>>

Record == [decision : {"absent", "pending", "allow", "deny", "timeout"},
           notified : BOOLEAN]
Clock  == {"open", "over", "old"}
Handling == [pc : {"idle", "classify", "create", "decide", "reply"},
             level : Levels, answer : Answers]

NoRecord == [decision |-> "absent", notified |-> FALSE]
NoCall   == [tool |-> "none"]
Quiet    == [pc |-> "idle", level |-> "green", answer |-> "needs_approval"]
Nobody   == "nobody"

TypeOK ==
  /\ record     \in [Hooks -> Record]
  /\ clock      \in [Hooks -> Clock]
  /\ hook       \in [Hooks -> {"idle", "asking", "polling", "reading", "allow", "deny"}]
  /\ call       \in [Hooks -> ToolCalls \cup {NoCall}]
  /\ handler    \in [Hooks -> Handling]
  /\ mode       \in PermissionModes
  /\ memory     \subseteq Commands
  /\ decisions  \subseteq [h : Hooks, decision : {"allow", "deny"}, intime : BOOLEAN]
  /\ toRemember \subseteq Hooks
  /\ scan       \in [pc : {"idle", "next", "look", "mark"}, todo : SUBSET Hooks,
                     cur : Hooks \cup {Nobody}]
  /\ alerts     \in [Hooks -> Nat]
  /\ consented \subseteq Hooks /\ refused \subseteq Hooks
  /\ waived     \in [Hooks -> {"no", "level", "mode"}]
  /\ restarts   \in 0..MaxRestarts

Init ==
  /\ record     = [h \in Hooks |-> NoRecord]
  /\ clock      = [h \in Hooks |-> "open"]
  /\ hook       = [h \in Hooks |-> "idle"]
  /\ call       = [h \in Hooks |-> NoCall]
  /\ handler    = [h \in Hooks |-> Quiet]
  /\ mode       = "default"
  /\ memory     = {}
  /\ decisions  = {}
  /\ toRemember = {}
  /\ scan       = [pc |-> "idle", todo |-> {}, cur |-> Nobody]
  /\ alerts     = [h \in Hooks |-> 0]
  /\ consented = {} /\ refused = {}
  /\ waived     = [h \in Hooks |-> "no"]
  /\ restarts   = 0
-----------------------------------------------------------------------------
(* The hook and the handler of POST /approvals.                            *)

Ask(h, c) ==
  /\ hook[h] = "idle"
  /\ hook' = [hook EXCEPT ![h] = "asking"]
  /\ call' = [call EXCEPT ![h] = c]
  /\ handler' = [handler EXCEPT ![h].pc = "classify"]
  /\ UNCHANGED <<record, clock, server, watch, ghosts>>

\* The level is judged against the memory of this moment.
Judge(h) ==
  /\ handler[h].pc = "classify"
  /\ handler' = [handler EXCEPT ![h].pc = "create",
                                ![h].level = Classify(call[h], memory)]
  /\ UNCHANGED <<record, clock, hook, call, server, watch, ghosts>>

\* What becomes of a level: only a red one is put to the permission mode.
Answer(h) ==
  IF handler[h].level # "red" THEN "auto_approve"
  ELSE EvaluatePermission(mode, "red", call[h].tool)

\* Create: the row starts as pending, whatever the answer.
CreateRecord(h) ==
  /\ handler[h].pc = "create"
  /\ record' = [record EXCEPT ![h].decision = "pending"]
  /\ handler' = [handler EXCEPT ![h].answer = Answer(h),
                   ![h].pc = IF Answer(h) = "needs_approval" THEN "reply" ELSE "decide"]
  /\ waived' = [waived EXCEPT ![h] =
                  IF Answer(h) # "auto_approve" THEN "no"
                  ELSE IF handler[h].level = "red" THEN "mode" ELSE "level"]
  /\ UNCHANGED <<clock, hook, call, server, watch, consented, refused>>

Verdict(answer) == IF answer = "auto_approve" THEN "allow" ELSE "deny"

\* The automatic Decide: a second statement, whose failure is only logged.
AutoDecide(h) ==
  /\ handler[h].pc = "decide"
  /\ \/ /\ record[h].decision = "pending" /\ clock[h] = "open"
        /\ record' = [record EXCEPT ![h].decision = Verdict(handler[h].answer)]
     \/ UNCHANGED record
  /\ handler' = [handler EXCEPT ![h].pc = "reply"]
  /\ UNCHANGED <<clock, hook, call, server, watch, ghosts>>

\* The reply carries the automatic verdict, or none and the hook starts to poll.
Reply(h) ==
  /\ handler[h].pc = "reply"
  /\ handler' = [handler EXCEPT ![h].pc = "idle"]
  /\ hook' = IF hook[h] # "asking" THEN hook
             ELSE [hook EXCEPT ![h] = IF handler[h].answer = "needs_approval"
                                        THEN "polling" ELSE Verdict(handler[h].answer)]
  /\ UNCHANGED <<record, clock, call, server, watch, ghosts>>

\* The request's context ends with the hook's connection: the next statement fails.
Abort(h) ==
  /\ handler[h].pc # "idle"
  /\ hook[h] # "asking"
  /\ handler' = [handler EXCEPT ![h].pc = "idle"]
  /\ UNCHANGED <<record, clock, hook, call, server, watch, ghosts>>

\* Mutant of GiveUp: a call is not held up by a server that does not answer.
GiveUpOpen(h) ==
  /\ hook[h] \in {"asking", "polling", "reading"}
  /\ hook' = [hook EXCEPT ![h] = "allow"]
  /\ UNCHANGED <<record, clock, call, handler, server, watch, ghosts>>

\* Deadline, too many errors, or no usable reply: the hook denies.
GiveUp(h) ==
  /\ hook[h] \in {"asking", "polling", "reading"}
  /\ hook' = [hook EXCEPT ![h] = "deny"]
  /\ UNCHANGED <<record, clock, call, handler, server, watch, ghosts>>

-----------------------------------------------------------------------------
(* Service.Status, called by the hook's poll and by the scanner: the first *)
(* statement expires the approval, the second reads it.                    *)

Expired(h) ==
  IF record[h].decision = "pending" /\ clock[h] # "open"
    THEN [record EXCEPT ![h].decision = "timeout"] ELSE record

Poll(h) ==
  /\ hook[h] = "polling"
  /\ record' = Expired(h)
  /\ hook' = [hook EXCEPT ![h] = "reading"]
  /\ UNCHANGED <<clock, call, handler, server, watch, ghosts>>

\* Mutant of Seen: only a refusal denies.
SeenUnlessRefused(decision) ==
  CASE decision = "deny"    -> "deny"
    [] decision = "pending" -> "polling"
    [] OTHER                -> "allow"

\* What the hook makes of the row it reads; a missing row is a 404.
Seen(decision) ==
  CASE decision = "allow"   -> "allow"
    [] decision = "pending" -> "polling"
    [] OTHER                -> "deny"

PollReply(h) ==
  /\ hook[h] = "reading"
  /\ hook' = [hook EXCEPT ![h] = Seen(record[h].decision)]
  /\ UNCHANGED <<record, clock, call, handler, server, watch, ghosts>>

-----------------------------------------------------------------------------
(* The phone.                                                              *)

\* Service.Decide reads the clock before its statement gets the connection.
BeginDecide(h, d) ==
  /\ record[h].decision # "absent"
  /\ Cardinality(decisions) + Cardinality(toRemember) < MaxDecisions
  /\ decisions' = decisions \cup {[h |-> h, decision |-> d, intime |-> clock[h] = "open"]}
  /\ UNCHANGED <<record, clock, hook, call, handler, mode, memory, toRemember, watch, ghosts>>

\* Mutant of Decide: the row need not be pending any more.
DecideAnyRow(d) ==
  LET takes == d.intime /\ record[d.h].decision # "absent" IN
  /\ decisions' = decisions \ {d}
  /\ record' = IF takes THEN [record EXCEPT ![d.h].decision = d.decision] ELSE record
  /\ UNCHANGED <<clock, hook, call, handler, mode, memory, toRemember, watch, ghosts>>

Decide(d) ==
  LET takes == d.intime /\ record[d.h].decision = "pending" IN
  /\ decisions' = decisions \ {d}
  /\ record' = IF takes THEN [record EXCEPT ![d.h].decision = d.decision] ELSE record
  /\ toRemember' = IF takes /\ d.decision = "allow" THEN toRemember \cup {d.h}
                   ELSE toRemember
  /\ consented' = IF takes /\ d.decision = "allow" THEN consented \cup {d.h} ELSE consented
  /\ refused' = IF takes /\ d.decision = "deny" THEN refused \cup {d.h} ELSE refused
  /\ UNCHANGED <<clock, hook, call, handler, mode, memory, watch, waived>>

\* The handler reads the row back for the command it should remember.
Remember(h) ==
  /\ toRemember' = toRemember \ {h}
  /\ memory' = IF record[h].decision = "absent" THEN memory ELSE memory \cup {call[h].cmd}
  /\ UNCHANGED <<record, clock, hook, call, handler, mode, decisions, watch, ghosts>>

\* DELETE /approvals/history.
ClearHistory ==
  /\ record' = [h \in Hooks |->
                  IF record[h].decision = "pending" THEN record[h] ELSE NoRecord]
  /\ UNCHANGED <<clock, hook, call, handler, server, watch, ghosts>>

SwitchMode(m) ==
  /\ mode' = m
  /\ UNCHANGED <<record, clock, hook, call, handler, memory, decisions, toRemember,
                 watch, ghosts>>

-----------------------------------------------------------------------------
(* The scanner.                                                            *)


\* Mutant of ListTimedOut: the mark is not looked at.
ListNotifiedAgain ==
  {h \in Hooks : record[h].decision \in {"pending", "timeout"} /\ clock[h] = "over"}

ListTimedOut ==
  {h \in Hooks : /\ record[h].decision \in {"pending", "timeout"}
                 /\ clock[h] = "over" /\ ~record[h].notified}

ScanList ==
  /\ scan.pc = "idle"
  /\ ListTimedOut # {}
  /\ scan' = [pc |-> "next", todo |-> ListTimedOut, cur |-> Nobody]
  /\ UNCHANGED <<record, clock, hook, call, handler, server, alerts, restarts, ghosts>>

ScanExpire ==
  /\ scan.pc = "next"
  /\ \E h \in scan.todo :
       /\ record' = Expired(h)
       /\ scan' = [scan EXCEPT !.pc = "look", !.todo = @ \ {h}, !.cur = h]
  /\ UNCHANGED <<clock, hook, call, handler, server, alerts, restarts, ghosts>>

\* Where the loop over the list goes on.
Further(todo) == IF todo = {} THEN "idle" ELSE "next"

\* Read the row; a deny or a timeout is announced.
ScanAlert ==
  LET h == scan.cur IN
  /\ scan.pc = "look"
  /\ IF record[h].decision \in {"deny", "timeout"}
       THEN /\ alerts' = [alerts EXCEPT ![h] = @ + 1]
            /\ scan' = [scan EXCEPT !.pc = "mark"]
       ELSE /\ scan' = [scan EXCEPT !.pc = Further(scan.todo), !.cur = Nobody]
            /\ UNCHANGED alerts
  /\ UNCHANGED <<record, clock, hook, call, handler, server, restarts, ghosts>>

ScanMark ==
  /\ scan.pc = "mark"
  /\ record' = IF record[scan.cur].decision = "absent" THEN record
               ELSE [record EXCEPT ![scan.cur].notified = TRUE]
  /\ scan' = [scan EXCEPT !.pc = Further(scan.todo), !.cur = Nobody]
  /\ UNCHANGED <<clock, hook, call, handler, server, alerts, restarts, ghosts>>

-----------------------------------------------------------------------------
\* Time passes for an approval.
Elapse(h) ==
  /\ record[h].decision # "absent"
  /\ clock[h] # "old"
  /\ clock' = [clock EXCEPT ![h] = IF @ = "open" THEN "over" ELSE "old"]
  /\ UNCHANGED <<record, hook, call, handler, server, watch, ghosts>>

\* The server stops between any two statements; the database stays, the
\* permission mode and every handler are gone.
Restart ==
  /\ restarts < MaxRestarts
  /\ restarts' = restarts + 1
  /\ handler' = [h \in Hooks |-> [handler[h] EXCEPT !.pc = "idle"]]
  /\ mode' = "default"
  /\ decisions' = {}
  /\ toRemember' = {}
  /\ scan' = [pc |-> "idle", todo |-> {}, cur |-> Nobody]
  /\ UNCHANGED <<record, clock, hook, call, memory, alerts, ghosts>>

Scanner == ScanList \/ ScanExpire \/ ScanAlert \/ ScanMark

HandlerStep(h) == Judge(h) \/ CreateRecord(h) \/ AutoDecide(h) \/ Reply(h) \/ Abort(h)
HookStep(h)    == GiveUp(h) \/ Poll(h) \/ PollReply(h)

Next ==
  \/ \E h \in Hooks : \E c \in ToolCalls : Ask(h, c)
  \/ \E h \in Hooks : HandlerStep(h) \/ HookStep(h) \/ Elapse(h)
  \/ \E h \in Hooks, d \in {"allow", "deny"} : BeginDecide(h, d)
  \/ \E d \in decisions : Decide(d)
  \/ \E h \in toRemember : Remember(h)
  \/ \E m \in Modes : SwitchMode(m)
  \/ ClearHistory
  \/ Scanner
  \/ Restart

Spec == Init /\ [][Next]_vars
-----------------------------------------------------------------------------
(* Safety.                                                                 *)

Settled == {"allow", "deny", "timeout"}

\* A dangerous call runs only if a phone allowed it, if a phone allowed the same
\* command before (and it is not blacklisted), or if the permission mode chosen
\* on the phone waived the question; no restart, timeout, history clearing or
\* lost reply lets it through (main of approval_hook.py, Create, Status).
DangerNeedsConsent ==
  \A h \in Hooks :
    hook[h] = "allow" /\ Dangerous(call[h]) =>
      \/ h \in consented
      \/ waived[h] = "mode"
      \/ /\ call[h].cmd \notin Blacklist
         /\ \E g \in consented : call[g].cmd = call[h].cmd

\* What is waived without the mode's help was allowed by a phone before: the
\* memory of the session holds nothing else (Decide, Remember, Classify).
MemoryIsEarned ==
  \A c \in memory : \E h \in consented : call[h].cmd = c

\* A call the phone was asked about ends as the phone's answer has it: an allowed
\* one was not refused, a timed out one is not allowed later (Status, Decide).
VerdictIsTheRecord ==
  \A h \in Hooks :
    hook[h] = "allow" /\ waived[h] = "no" =>
      h \in consented /\ h \notin refused /\ record[h].decision \in {"allow", "absent"}

\* One approval is settled once: neither a phone's decision that was under way,
\* nor a second phone, nor the scanner or a poll changes the outcome (Decide,
\* Status: both update pending rows only).
DecisionIsFinal ==
  [][\A h \in Hooks :
       record[h].decision \in Settled =>
         record'[h].decision \in {record[h].decision, "absent"}]_vars

\* An approval is announced as timed out at most once, and once more for every
\* restart of the server at worst (ListTimedOutPending, MarkTimeoutNotified).
AlertsBounded == \A h \in Hooks : alerts[h] <= 1 + restarts

-----------------------------------------------------------------------------
(* What the user is promised.                                              *)

Outcome(state) ==
  CASE state = "idle"  -> "none"
    [] state = "allow" -> "run"
    [] state = "deny"  -> "stop"
    [] OTHER           -> "open"

outcomeOf == [h \in Hooks |-> Outcome(hook[h])]
saidOf    == [h \in Hooks |-> IF h \in consented THEN "allow"
                             ELSE IF h \in refused THEN "deny" ELSE "nothing"]
waivedOf  == [h \in Hooks |-> waived[h] # "no"]

Promise == INSTANCE ApprovalPromise WITH
  outcome <- outcomeOf, said <- saidOf, waived <- waivedOf

\* Rows, clocks, polls, the scanner, crashes and whatever the phone clears or
\* switches in between come to this: a call runs only after one answer of a phone
\* that allows it, or if nobody had to be asked; it runs or stops once, and an
\* answer is never taken back (approval_hook.py, Create, Decide, Status).
PromiseKept == Promise!Spec

-----------------------------------------------------------------------------
(* The invariant that Approvals_proofs shows to be inductive.              *)

\* A hook that has not asked has left no trace, and one that has asked a call.
Untouched(h) ==
  /\ record[h] = NoRecord /\ alerts[h] = 0 /\ waived[h] = "no"
  /\ h \notin consented /\ h \notin refused

Begun(h) ==
  /\ hook[h] = "idle" => Untouched(h) /\ handler[h].pc = "idle"
  /\ hook[h] # "idle" => call[h] \in ToolCalls
  /\ handler[h].pc # "idle" => hook[h] \in {"asking", "deny"}
  /\ handler[h].pc \in {"classify", "create"} => Untouched(h)

\* A phone's decision settles a pending row; whatever else allows is waived.
Judged(h) ==
  /\ record[h].decision = "absent" => record[h] = NoRecord
  /\ record[h].decision = "allow" => waived[h] # "no" \/ h \in consented
  /\ h \in consented => h \notin refused /\ record[h].decision \in {"allow", "absent"}
  /\ h \in refused => record[h].decision \in {"deny", "absent"}
  /\ handler[h].pc \in {"decide", "reply"} =>
       (handler[h].answer = "auto_approve" <=> waived[h] # "no")

\* A dangerous command that is taken for harmless was allowed before.
Vouched(h) ==
  Dangerous(call[h]) =>
    call[h].cmd \notin Blacklist /\ \E g \in consented : call[g].cmd = call[h].cmd

Waivers(h) ==
  /\ handler[h].pc = "create" /\ handler[h].level # "red" => Vouched(h)
  /\ waived[h] = "level" => Vouched(h)

\* The scanner holds rows without a mark, each once.
ScanOK ==
  /\ scan.pc \in {"next", "look", "mark"} => \A h \in scan.todo : ~record[h].notified
  /\ scan.pc \in {"look", "mark"} => scan.cur \in Hooks /\ scan.cur \notin scan.todo
  /\ scan.pc = "look" => ~record[scan.cur].notified

\* A row is not announced again, but for a restart.
Announced(h) ==
  \/ record[h].notified \/ record[h].decision = "absent"
  \/ scan.pc = "mark" /\ scan.cur = h

Counted(h) == alerts[h] <= restarts \/ (alerts[h] = restarts + 1 /\ Announced(h))

IInv ==
  /\ TypeOK /\ ScanOK /\ MemoryIsEarned /\ toRemember \subseteq consented
  /\ \A h \in Hooks : Begun(h) /\ Judged(h) /\ Waivers(h) /\ Counted(h)
  /\ VerdictIsTheRecord

-----------------------------------------------------------------------------
(* Liveness: the ticker keeps the scanner going.                           *)

FairSpec == Spec /\ WF_vars(Scanner)


=============================================================================
