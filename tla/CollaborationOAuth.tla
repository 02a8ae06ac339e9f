-------------------------- MODULE CollaborationOAuth ---------------------------
(***************************************************************************)
(* The authorization of a GitHub or Gitee account                           *)
(* (api/collaboration_oauth.go): a phone starts a flow and polls its status *)
(* (CollaborationPage.ets), the provider's page calls back, in any number   *)
(* of browsers, and the callback exchanges a code for a token.              *)
(*                                                                         *)
(* A token is named by the callback that got it.  What the token lets one   *)
(* do, and the pages shown in the browsers, are left out.                   *)
(***************************************************************************)
EXTENDS Integers, FiniteSets

CONSTANTS
  Providers,
  Attempts,     (* bound: starts the phone has under way at a time           *)
  MaxFlows,     (* bound: flows started                                      *)
  MaxCallbacks  (* bound: callbacks of browsers                              *)

ASSUME OAuthParametersOK == MaxFlows \in Nat /\ MaxCallbacks \in Nat

VARIABLES
  flows,       (* the map of flows by their state                            *)
  old,         (* flows whose ten minutes have passed                        *)
  started,     (* flows started so far, numbered from 1                      *)
  callbacks,   (* the requests of browsers                                   *)
  authorizing, (* the phone's attempt is on                                  *)
  shown,       (* showAuthWeb: the provider's page is open on the phone       *)
  starting,    (* its starts: asked for a provider, answered with a flow     *)
  latest,      (* the flow authExpiresAt is of, 0 before any                 *)
  timer,       (* the flow authPollTimer is to poll, 0 for none              *)
  polls,       (* pollAuthorization under way, by flow: asked or answered    *)
  returned     (* how often Status has returned each token, and for what flow *)

server == <<flows, old, started, callbacks, returned>>
phone  == <<authorizing, shown, starting, latest, timer, polls>>
vars   == <<server, phone>>

FlowIds   == 1..MaxFlows
Callbacks == 1..MaxCallbacks
None      == [status |-> "none"]
Flow      == [provider : Providers, status : {"pending", "complete", "failed"},
              token : 0..MaxCallbacks]
Unused    == [pc |-> "unused"]
Done      == [pc |-> "done"]
Idle      == [pc |-> "idle"]
Starting  == {Idle} \cup [pc : {"asked"}, provider : Providers]
                    \cup [pc : {"answered"}, flow : 1..started]
Underway  == [pc : {"exchange", "finish"}, flow : FlowIds, provider : Providers,
              result : {"complete", "failed"}]

TypeOK ==
  /\ flows \in [FlowIds -> {None} \cup Flow]
  /\ old \subseteq 1..started /\ started \in 0..MaxFlows
  /\ callbacks \in [Callbacks -> {Unused, Done} \cup Underway]
  /\ \A f \in FlowIds : flows[f] # None =>
       f <= started /\ (flows[f].status = "complete" <=> flows[f].token # 0)
  /\ authorizing \in BOOLEAN /\ shown \in BOOLEAN
  /\ latest \in 0..started /\ timer \in 0..started
  /\ starting \in [Attempts -> Starting]
  /\ polls \in [FlowIds -> {"none", "asked", "pending", "complete", "over"}]
  /\ returned \in [Callbacks -> [FlowIds -> Nat]]

Init ==
  /\ flows = [f \in FlowIds |-> None] /\ old = {} /\ started = 0
  /\ callbacks = [k \in Callbacks |-> Unused]
  /\ authorizing = FALSE /\ shown = FALSE /\ starting = [a \in Attempts |-> Idle]
  /\ latest = 0 /\ timer = 0
  /\ polls = [f \in FlowIds |-> "none"]
  /\ returned = [k \in Callbacks |-> [f \in FlowIds |-> 0]]
-----------------------------------------------------------------------------
(* The server.                                                             *)

\* cleanupLocked: the flows that are left.
Cleaned == [f \in FlowIds |-> IF f \in old THEN None ELSE flows[f]]

Start(a) ==
  /\ starting[a].pc = "asked" /\ started < MaxFlows
  /\ started' = started + 1
  /\ flows' = [Cleaned EXCEPT ![started + 1] =
                 [provider |-> starting[a].provider, status |-> "pending", token |-> 0]]
  /\ starting' = [starting EXCEPT ![a] = [pc |-> "answered", flow |-> started + 1]]
  /\ UNCHANGED <<old, callbacks, returned, authorizing, shown, latest, timer, polls>>

\* The status of f: what the phone makes of the answer.
Answer(f, status) ==
  polls' = [polls EXCEPT ![f] = IF status \in {"pending", "complete"} THEN status ELSE "over"]

Return(k, f) == returned' = [returned EXCEPT ![k][f] = @ + 1]

\* Status: a flow that has come to its end is answered once.
Report(f) ==
  LET flow == Cleaned[f] IN
  /\ flows' = IF flow.status = "pending" THEN Cleaned ELSE [Cleaned EXCEPT ![f] = None]
  /\ IF flow.status = "complete" THEN Return(flow.token, f) ELSE UNCHANGED returned

Status(f) ==
  /\ polls[f] = "asked"
  /\ Report(f)
  /\ Answer(f, Cleaned[f].status)
  /\ UNCHANGED <<old, started, callbacks, authorizing, shown, starting, latest, timer>>

\* The status is asked for once more by a request the phone does not wait for.
StatusAgain(f) ==
  /\ f <= started
  /\ Report(f)
  /\ UNCHANGED <<old, started, callbacks, phone>>

Valid(f, p) == Cleaned[f].status = "pending" /\ Cleaned[f].provider = p

\* A browser is sent back with the state of f, and with a code or an error.
Callback(k, f, p) ==
  /\ callbacks[k] = Unused /\ f <= started
  /\ flows' = Cleaned
  /\ \E pc \in {"exchange", "finish"} :
       callbacks' = [callbacks EXCEPT ![k] =
         IF Valid(f, p) THEN [pc |-> pc, flow |-> f, provider |-> p, result |-> "failed"]
         ELSE Done]
  /\ UNCHANGED <<old, started, returned, phone>>

\* exchangeCode, without the lock.
ExchangeCode(k) ==
  /\ callbacks[k].pc = "exchange"
  /\ \E result \in {"complete", "failed"} :
       callbacks' = [callbacks EXCEPT ![k].pc = "finish", ![k].result = result]
  /\ UNCHANGED <<flows, old, started, returned, phone>>

\* Mutant of FinishFlow: a flow that is gone is put back.
FinishFlowAnew(k) ==
  /\ callbacks[k].pc = "finish"
  /\ LET c == callbacks[k] IN
     flows' = [flows EXCEPT ![c.flow] =
       [provider |-> c.provider, status |-> c.result,
        token |-> IF c.result = "complete" THEN k ELSE 0]]
  /\ callbacks' = [callbacks EXCEPT ![k] = Done]
  /\ UNCHANGED <<old, started, returned, phone>>

\* finishFlow: whatever the flow has become meanwhile, if it is still there.
FinishFlow(k) ==
  /\ callbacks[k].pc = "finish"
  /\ LET c == callbacks[k] IN
     flows' = IF flows[c.flow] = None THEN flows
              ELSE [flows EXCEPT ![c.flow].status = c.result,
                                 ![c.flow].token = IF c.result = "complete" THEN k ELSE 0]
  /\ callbacks' = [callbacks EXCEPT ![k] = Done]
  /\ UNCHANGED <<old, started, returned, phone>>

\* Ten minutes after f was started; the flows before it are as old.
Expire(f) ==
  /\ f \in (1..started) \ old
  /\ old' = old \cup 1..f
  /\ UNCHANGED <<flows, started, callbacks, returned, phone>>

-----------------------------------------------------------------------------
(* The phone.                                                              *)

\* An earlier start may still be under way: an answer to a poll ends the attempt
\* whose it is not.
BeginAuthorization(a, p) ==
  /\ ~authorizing /\ starting[a].pc = "idle"
  /\ authorizing' = TRUE
  /\ starting' = [starting EXCEPT ![a] = [pc |-> "asked", provider |-> p]]
  /\ UNCHANGED <<server, shown, latest, timer, polls>>

\* The rest of beginAuthorization, once the start was answered.
Started(a) ==
  /\ starting[a].pc = "answered"
  /\ latest' = starting[a].flow /\ timer' = starting[a].flow /\ shown' = TRUE
  /\ starting' = [starting EXCEPT ![a] = Idle]
  /\ UNCHANGED <<server, authorizing, polls>>

\* The start was not answered.
StartFails(a) ==
  /\ starting[a].pc # "idle"
  /\ authorizing' = FALSE /\ shown' = FALSE
  /\ starting' = [starting EXCEPT ![a] = Idle]
  /\ UNCHANGED <<server, latest, timer, polls>>

\* closeAuthorizationWeb by the user; a poll under way stays so.
Cancel ==
  /\ shown
  /\ shown' = FALSE /\ authorizing' = FALSE
  /\ timer' = IF authorizing THEN 0 ELSE timer
  /\ UNCHANGED <<server, starting, latest, polls>>

\* Mutant of PollAuthorization: an attempt out of time is dropped, not ended.
PollAuthorizationDrop ==
  /\ timer # 0
  /\ timer' = 0
  /\ polls' = IF authorizing /\ latest \notin old THEN [polls EXCEPT ![timer] = "asked"] ELSE polls
  /\ UNCHANGED <<server, authorizing, shown, starting, latest>>

\* pollAuthorization: the timer has fired.
PollAuthorization ==
  /\ timer # 0
  /\ timer' = 0
  /\ authorizing' = (authorizing /\ latest \notin old)
  /\ shown' = (shown /\ (authorizing => authorizing'))
  /\ polls' = IF authorizing' THEN [polls EXCEPT ![timer] = "asked"] ELSE polls
  /\ UNCHANGED <<server, starting, latest>>

\* The answer gets lost, before or after Status has seen the request.
LosePoll(f) ==
  /\ polls[f] \in {"asked", "pending", "complete"}
  /\ polls' = [polls EXCEPT ![f] = "over"]
  /\ UNCHANGED <<server, authorizing, shown, starting, latest, timer>>

\* The rest of pollAuthorization: a pending flow is polled again, in place of
\* whichever the timer was set for; anything else ends the attempt.
PollAnswered(f) ==
  /\ polls[f] \in {"pending", "complete", "over"}
  /\ polls' = [polls EXCEPT ![f] = "none"]
  /\ IF polls[f] = "pending" THEN timer' = f /\ UNCHANGED <<authorizing, shown>>
     ELSE authorizing' = FALSE /\ shown' = FALSE /\ UNCHANGED timer
  /\ UNCHANGED <<server, starting, latest>>

-----------------------------------------------------------------------------
Next ==
  \/ \E a \in Attempts :
       Start(a) \/ Started(a) \/ StartFails(a) \/ \E p \in Providers : BeginAuthorization(a, p)
  \/ Cancel \/ PollAuthorization
  \/ \E f \in FlowIds :
       Status(f) \/ StatusAgain(f) \/ Expire(f) \/ LosePoll(f) \/ PollAnswered(f)
  \/ \E k \in Callbacks :
       ExchangeCode(k) \/ FinishFlow(k) \/ \E f \in FlowIds, p \in Providers : Callback(k, f, p)

Spec == Init /\ [][Next]_vars

\* Requests are answered or fail, timers fire and time passes; nobody has to call
\* back.
FairSpec ==
  /\ Spec
  /\ \A a \in Attempts : WF_vars(Start(a) \/ StartFails(a)) /\ WF_vars(Started(a))
  /\ WF_vars(PollAuthorization)
  /\ \A f \in FlowIds : WF_vars(Status(f)) /\ WF_vars(PollAnswered(f)) /\ WF_vars(Expire(f))

-----------------------------------------------------------------------------
Returns == {kf \in Callbacks \X FlowIds : returned[kf[1]][kf[2]] > 0}

\* "A successful token is returned exactly once" (CollaborationOAuthHandler), at
\* the most, and a flow returns one at the most, in however many browsers it was
\* authorized.
ReturnedOnce ==
  /\ \A k \in Callbacks, f \in FlowIds : returned[k][f] <= 1
  /\ \A a, b \in Returns : a # b => a[1] # b[1] /\ a[2] # b[2]

\* A token that came in as its flow ran out of time is not returned (Status).
ReturnedInTime ==
  [][\A k \in Callbacks, f \in FlowIds : returned'[k][f] # returned[k][f] => f \notin old]_vars

\* The token of a flow is from the provider the flow is of (Callback).
ProviderBound ==
  [][\A f \in FlowIds, k \in Callbacks :
       flows'[f] # None /\ flows'[f].token = k /\ flows[f] # flows'[f] =>
         callbacks[k].provider = flows[f].provider]_vars

\* An attempt comes to an end, whatever polls of earlier ones are answered
\* meanwhile: it is waited for by a timer, a poll or its start (pollAuthorization).
AttemptEnds == authorizing ~> ~authorizing

\* What is asked for has been started.
InOrder ==
  /\ \A f \in FlowIds : polls[f] # "none" => f <= started
  /\ \A k \in Callbacks : callbacks[k].pc \in {"exchange", "finish"} =>
       LET f == callbacks[k].flow IN
       f <= started /\ (flows[f] # None => flows[f].provider = callbacks[k].provider)

\* A token is in one place: with its callback, in one flow, or returned for one
\* that is gone.
OnePlace ==
  /\ \A f, g \in FlowIds :
       flows[f] # None /\ flows[g] # None /\ flows[f].token = flows[g].token =>
         f = g \/ flows[f].token = 0
  /\ \A f \in FlowIds, k \in Callbacks :
       flows[f] # None /\ flows[f].token = k => callbacks[k] = Done
  /\ \A f \in FlowIds, k \in Callbacks : returned[k][f] > 0 =>
       /\ f <= started /\ flows[f] = None /\ callbacks[k] = Done
       /\ \A g \in FlowIds : flows[g] # None => flows[g].token # k

IInv == TypeOK /\ InOrder /\ OnePlace /\ ReturnedOnce

\* "A successful token is returned exactly once": it is not taken away before.
\* It is, when the flow was authorized, or called off, in a second browser.
SuccessStays ==
  [][\A f \in FlowIds :
       flows[f].status = "complete" => flows'[f] = None \/ flows'[f] = flows[f]]_vars
=============================================================================
