--------------------------- MODULE RemoteSession ---------------------------
(***************************************************************************)
(* Remote desktop sessions: backend/internal/remote/service.go on top of   *)
(* the compare-and-swap rows of repository.go, called concurrently by the  *)
(* controller phone, the primary phone, the Windows host agent and the     *)
(* signaling hub.                                                          *)
(*                                                                         *)
(* Every statement or transaction of the repository is one step: the       *)
(* backend opens SQLite with a single connection.  A handler that reads a  *)
(* session and then writes it is two steps, with the request and the row   *)
(* it read kept in `requests' in between.  The clock is abstracted to      *)
(* `lapsed': whether the time allowed for the current state is over.       *)
(***************************************************************************)
EXTENDS Integers, FiniteSets

CONSTANTS
  Sessions,     (* session identifiers (UUIDs, each used once)              *)
  MaxRev,       (* bound: signaling losses happen below this revision only  *)
  MaxRequests,  (* bound: handlers under way, polls of the phone aside       *)
  MaxPolls,     (* bound: polls of one session the phone has outstanding    *)
  MaxLag        (* bound: how many revisions behind a caller may be         *)

ASSUME BoundsAreNaturals ==
  MaxRev \in Nat /\ MaxRequests \in Nat /\ MaxPolls \in Nat /\ MaxLag \in Nat

VARIABLES
  session,    (* [Sessions -> Row]: table remote_sessions                    *)
  lapsed,     (* [Sessions -> BOOLEAN]: updated_at is older than the ttl     *)
  hostFresh,  (* the host was seen within the 30 s heartbeat window          *)
  requests,   (* the handlers between their read and their write             *)
  outbox,     (* events of handlers that have written but not yet emitted    *)
  phone,      (* [Sessions -> View]: the controller's RemoteStore            *)
  exposed     (* sessions whose waiting_primary row was sent to the host     *)

vars == <<session, lapsed, hostFresh, requests, outbox, phone, exposed>>

-----------------------------------------------------------------------------
Caps    == {"view", "input"}
CapSets == {{"view"}, {"view", "input"}}

Waiting   == {"waiting_primary", "waiting_host", "waiting_consent"}
Connected == {"connected_view", "connected_control"}
Live      == Connected \cup {"negotiating", "reconnecting"}
Terminal  == {"ended", "failed"}
States    == Waiting \cup Live \cup Terminal

\* The states applyTimeout gives a time limit to.
Timed == Waiting \cup {"negotiating", "reconnecting"}

Row == [state : States \cup {"absent"}, rev : Nat, approved : BOOLEAN,
        asked : SUBSET Caps, granted : SUBSET Caps]

NoRow == [state |-> "absent", rev |-> 0, approved |-> FALSE,
          asked |-> {}, granted |-> {}]

\* Handlers that read the row, apply the time limit, then write.
TimedOps == {"accept", "reject", "end", "connected", "reconnecting", "get"}
Ops == TimedOps \cup {"request", "reject_primary", "promote", "list"}

\* exp is the revision the caller sent, 0 for none.
Request == [op : Ops, pc : {"insert", "timeout", "commit"}, s : Sessions,
            row : Row, exp : Nat]

Event == [s : Sessions, type : {"requested", "changed"}, row : Row]
View  == [state : States \cup {"absent"}, rev : Nat]

TypeOK ==
  /\ session   \in [Sessions -> Row]
  /\ lapsed    \in [Sessions -> BOOLEAN]
  /\ hostFresh \in BOOLEAN
  /\ requests  \subseteq Request
  /\ outbox    \subseteq Event
  /\ phone     \in [Sessions -> View]
  /\ exposed   \subseteq Sessions

-----------------------------------------------------------------------------
Init ==
  /\ session   = [s \in Sessions |-> NoRow]
  /\ lapsed    = [s \in Sessions |-> FALSE]
  /\ hostFresh \in BOOLEAN
  /\ requests  = {}
  /\ outbox    = {}
  /\ phone     = [s \in Sessions |-> [state |-> "absent", rev |-> 0]]
  /\ exposed   = {}

\* What a caller may send as the revision: nothing (0), or one it has seen.
Known(s) == {0} \cup {rev \in 1..session[s].rev : rev + MaxLag >= session[s].rev}

Polls(s) == {r \in requests : r.op = "get" /\ r.s = s}

\* A handler is under way until its event is handed over.
HasRoom ==
  Cardinality({r \in requests : r.op # "get"}) + Cardinality(outbox) < MaxRequests

\* The write half of TransitionSession: every commit bumps the revision and
\* restarts the time limit; the caller then emits an event.
Write(s, row, type) ==
  /\ session' = [session EXCEPT ![s] = row]
  /\ lapsed'  = [lapsed EXCEPT ![s] = FALSE]
  /\ outbox'  = outbox \cup {[s |-> s, type |-> type, row |-> row]}

Moved(row, next, granted) ==
  [row EXCEPT !.state = next, !.rev = @ + 1, !.granted = granted]

\* The revision the compare-and-swap of request r insists on.
Expected(r) == IF r.exp = 0 THEN r.row.rev ELSE r.exp

\* The check half of TransitionSession.
CanSwap(r, allowed) ==
  /\ session[r.s].rev = Expected(r)
  /\ session[r.s].state \in allowed

\* TransitionSession(id, expected, allowed, next, granted): swap, or ErrConflict
\* and the request fails without a trace.
TransitionSession(r, allowed, next, granted) ==
  /\ requests' = requests \ {r}
  /\ IF CanSwap(r, allowed)
       THEN Write(r.s, Moved(session[r.s], next, granted), "changed")
       ELSE UNCHANGED <<session, lapsed, outbox>>
  /\ UNCHANGED <<hostFresh, phone, exposed>>

-----------------------------------------------------------------------------
(* RequestSession reads the host's last heartbeat, then inserts the row.   *)

\* Mutant of FirstRow: an online host is asked whoever the controller is.
FirstRowHostFirst(primary, asked) ==
  [state |-> IF hostFresh THEN "waiting_consent"
             ELSE IF primary THEN "waiting_host" ELSE "waiting_primary",
   rev |-> 1, approved |-> primary, asked |-> asked, granted |-> {}]

FirstRow(primary, asked) ==
  [state    |-> IF ~primary THEN "waiting_primary"
                ELSE IF hostFresh THEN "waiting_consent" ELSE "waiting_host",
   rev      |-> 1,
   approved |-> primary,
   asked    |-> asked,
   granted  |-> {}]

RequestSession(s, primary, asked) ==
  /\ HasRoom
  /\ session[s] = NoRow
  /\ \A r \in requests : r.s # s
  /\ requests' = requests \cup
       {[op |-> "request", pc |-> "insert", s |-> s,
         row |-> FirstRow(primary, asked), exp |-> 0]}
  /\ UNCHANGED <<session, lapsed, hostFresh, outbox, phone, exposed>>

InsertSession(r) ==
  /\ r.pc = "insert"
  /\ requests' = requests \ {r}
  /\ Write(r.s, r.row, "requested")
  /\ UNCHANGED <<hostFresh, phone, exposed>>

-----------------------------------------------------------------------------
(* GetSessionForController / GetSessionForHost: read the row and, when its  *)
(* time is over, fail it before the caller goes on.                        *)

\* Mutant of ReadSession: the time limit is not looked at.
ReadSessionNoLimit(op, s, exp) ==
  /\ session[s] # NoRow
  /\ exp \in Known(s)
  /\ requests' = requests \cup
       {[op |-> op, s |-> s, exp |-> exp, row |-> session[s], pc |-> "commit"]}
  /\ UNCHANGED <<session, lapsed, hostFresh, outbox, phone, exposed>>

ReadSession(op, s, exp) ==
  /\ session[s] # NoRow
  /\ exp \in Known(s)
  /\ requests' = requests \cup
       {[op |-> op, s |-> s, exp |-> exp, row |-> session[s],
         pc |-> IF lapsed[s] THEN "timeout" ELSE "commit"]}
  /\ UNCHANGED <<session, lapsed, hostFresh, outbox, phone, exposed>>

\* Accept, Reject, EndByController, EndByHost, MarkConnected, MarkReconnecting.
BeginRequest(op, s, exp) ==
  /\ op \in TimedOps \ {"get"}
  /\ op = "reconnecting" => session[s].rev < MaxRev
  /\ HasRoom
  /\ ReadSession(op, s, exp)

\* Mutant of BeginPoll: the page stops polling once the host has accepted.
BeginPollWaiting(s) ==
  /\ Cardinality(Polls(s)) < MaxPolls
  /\ phone[s].state \in Waiting \cup {"absent"}
  /\ ReadSession("get", s, 0)

\* The phone polls its session every 1.5 s until a reply is terminal.
BeginPoll(s) ==
  /\ Cardinality(Polls(s)) < MaxPolls
  /\ phone[s].state \notin Terminal
  /\ ReadSession("get", s, 0)

\* RejectByPrimary reads without looking at the time limit.
BeginRejectByPrimary(s, exp) ==
  /\ HasRoom
  /\ session[s] # NoRow
  /\ exp \in Known(s)
  /\ requests' = requests \cup
       {[op |-> "reject_primary", s |-> s, exp |-> exp, row |-> session[s],
         pc |-> "commit"]}
  /\ UNCHANGED <<session, lapsed, hostFresh, outbox, phone, exposed>>

\* applyTimeout: fail the row that was read; on a conflict go on with the row
\* as it is now.
ApplyTimeout(r) ==
  LET now    == session[r.s]
      failed == Moved(now, "failed", now.granted)
      onward == [r EXCEPT !.pc = "commit",
                          !.row = IF now.rev = r.row.rev THEN failed ELSE now]
  IN  /\ r.pc = "timeout"
      /\ IF now.rev = r.row.rev /\ now.state = r.row.state
           THEN Write(r.s, failed, "changed")
           ELSE UNCHANGED <<session, lapsed, outbox>>
      /\ requests' = (requests \ {r}) \cup (IF r.op = "list" THEN {} ELSE {onward})
      /\ UNCHANGED <<hostFresh, phone, exposed>>

Accept(r) ==
  /\ r.pc = "commit" /\ r.op = "accept"
  /\ TransitionSession(r, {"waiting_consent"}, "negotiating", r.row.asked)

Reject(r) ==
  /\ r.pc = "commit" /\ r.op = "reject"
  /\ TransitionSession(r, {"waiting_host", "waiting_consent"}, "ended",
                       session[r.s].granted)

RejectByPrimary(r) ==
  /\ r.pc = "commit" /\ r.op = "reject_primary"
  /\ TransitionSession(r, {"waiting_primary"}, "ended", session[r.s].granted)

\* A row that is already terminal is returned as it is, which the swap's
\* allowed states give as well.
End(r) ==
  /\ r.pc = "commit" /\ r.op = "end"
  /\ TransitionSession(r, Waiting \cup Live, "ended", session[r.s].granted)

MarkConnected(r) ==
  /\ r.pc = "commit" /\ r.op = "connected"
  /\ TransitionSession(r, {"negotiating", "reconnecting"},
       IF "input" \in r.row.granted THEN "connected_control" ELSE "connected_view",
       r.row.granted)

\* Mutant of MarkReconnecting: the grant is not carried over.
MarkReconnectingAnew(r) ==
  /\ r.pc = "commit" /\ r.op = "reconnecting"
  /\ TransitionSession(r, Connected, "reconnecting", {})

MarkReconnecting(r) ==
  /\ r.pc = "commit" /\ r.op = "reconnecting"
  /\ TransitionSession(r, Connected, "reconnecting", r.row.granted)

\* Mutant of ApplySession: the last arrival wins.
ApplyLastArrival(s, row) ==
  phone' = [phone EXCEPT ![s] = [state |-> row.state, rev |-> row.rev]]

\* RemoteStore.applySession: keep the newest revision only.
ApplySession(s, row) ==
  phone' = IF phone[s].rev > row.rev THEN phone
           ELSE [phone EXCEPT ![s] = [state |-> row.state, rev |-> row.rev]]

\* The reply of GET /v1/remote/sessions/{id} reaches the phone.
PollReply(r) ==
  /\ r.pc = "commit" /\ r.op = "get"
  /\ requests' = requests \ {r}
  /\ ApplySession(r.s, r.row)
  /\ UNCHANGED <<session, lapsed, hostFresh, outbox, exposed>>

-----------------------------------------------------------------------------
\* Mutant of ApproveByPrimary: the approval itself is not recorded.
ApproveUnrecorded(s, exp) ==
  LET row == session[s] IN
  /\ row.state = "waiting_primary"
  /\ exp \in {0, row.rev}
  /\ Write(s, [row EXCEPT !.state = "waiting_consent", !.rev = @ + 1], "changed")
  /\ UNCHANGED <<hostFresh, requests, phone, exposed>>

\* ApprovePrimarySession is a single transaction, with no look at the time limit.
ApproveByPrimary(s, exp) ==
  LET row == session[s] IN
  /\ row.state = "waiting_primary"
  /\ exp \in {0, row.rev}
  /\ Write(s, [row EXCEPT !.state = "waiting_consent", !.approved = TRUE,
                          !.rev = @ + 1], "changed")
  /\ UNCHANGED <<hostFresh, requests, phone, exposed>>

\* A heartbeat or a registration of the host: touch the host, list the sessions
\* waiting for it, then advance them one by one (Promote).
HeartbeatHost ==
  LET listed == {s \in Sessions : session[s].state = "waiting_host"} IN
  /\ hostFresh' = TRUE
  /\ HasRoom
  /\ requests' = requests \cup
       {[op |-> "promote", pc |-> "commit", s |-> s, row |-> session[s],
         exp |-> 0] : s \in listed}
  /\ UNCHANGED <<session, lapsed, outbox, phone, exposed>>

\* One iteration of promoteWaitingHost.
Promote(r) ==
  /\ r.pc = "commit" /\ r.op = "promote"
  /\ TransitionSession(r, {"waiting_host"}, "waiting_consent", session[r.s].granted)

\* ListPendingForHost and ListPendingForPrimary fail what they list too late.
ListPending(state) ==
  LET late == {s \in Sessions : session[s].state = state /\ lapsed[s]} IN
  /\ late # {}
  /\ HasRoom
  /\ requests' = requests \cup
       {[op |-> "list", pc |-> "timeout", s |-> s, row |-> session[s],
         exp |-> 0] : s \in late}
  /\ UNCHANGED <<session, lapsed, hostFresh, outbox, phone, exposed>>

-----------------------------------------------------------------------------
(* Events.  TransitionSession returns a second read of the row, which may  *)
(* already be a later revision, and concurrent requests hand their events  *)
(* to the hub in any order.  The hub drops what no connection takes.       *)

\* The bridge process, the only signaling client of the host, lives from the
\* acceptance of a session to its end.
HostListens == \E s \in Sessions : session[s].state \in Live

ReRead(e) ==
  /\ e.type = "changed"
  /\ session[e.s] # e.row
  /\ outbox' = (outbox \ {e}) \cup {[e EXCEPT !.row = session[e.s]]}
  /\ UNCHANGED <<session, lapsed, hostFresh, requests, phone, exposed>>

\* Notify sends the event to the controller and to the host.
Notify(e) ==
  /\ outbox' = outbox \ {e}
  /\ \/ ApplySession(e.s, e.row)
     \/ UNCHANGED phone
  /\ exposed' = IF HostListens /\ e.row.state = "waiting_primary"
                  THEN exposed \cup {e.s} ELSE exposed
  /\ UNCHANGED <<session, lapsed, hostFresh, requests>>

-----------------------------------------------------------------------------
\* Time passes.
Elapse(s) ==
  /\ session[s].state \in Timed
  /\ ~lapsed[s]
  /\ lapsed' = [lapsed EXCEPT ![s] = TRUE]
  /\ UNCHANGED <<session, hostFresh, requests, outbox, phone, exposed>>

HostSilent ==
  /\ hostFresh
  /\ hostFresh' = FALSE
  /\ UNCHANGED <<session, lapsed, requests, outbox, phone, exposed>>

\* The second half of a request.
Finish(r) ==
  \/ InsertSession(r)
  \/ ApplyTimeout(r)
  \/ Accept(r)
  \/ Reject(r)
  \/ RejectByPrimary(r)
  \/ End(r)
  \/ MarkConnected(r)
  \/ MarkReconnecting(r)
  \/ Promote(r)
  \/ PollReply(r)

Next ==
  \/ \E s \in Sessions, primary \in BOOLEAN, asked \in CapSets :
       RequestSession(s, primary, asked)
  \/ \E s \in Sessions : \E op \in TimedOps, exp \in Known(s) :
       BeginRequest(op, s, exp)
  \/ \E s \in Sessions : \E exp \in Known(s) :
       BeginRejectByPrimary(s, exp) \/ ApproveByPrimary(s, exp)
  \/ \E s \in Sessions : BeginPoll(s) \/ Elapse(s)
  \/ \E r \in requests : Finish(r)
  \/ \E state \in {"waiting_consent", "waiting_primary"} : ListPending(state)
  \/ \E e \in outbox : ReRead(e) \/ Notify(e)
  \/ HeartbeatHost
  \/ HostSilent

Spec == Init /\ [][Next]_vars
-----------------------------------------------------------------------------
(* Safety.                                                                 *)

HostSide == {"waiting_host", "waiting_consent"} \cup Live

\* A request of a secondary phone gets past waiting_primary only by the primary
\* phone's approval, whatever heartbeats, retries and timeouts do meanwhile
\* (service.go RequestSession, ApproveByPrimary, promoteWaitingHost).
ApprovalGate ==
  \A s \in Sessions : session[s].state \in HostSide => session[s].approved

\* Capabilities appear with the host's acceptance and are then exactly the ones
\* the controller asked for; the connected state says whether input is among
\* them (Accept, MarkConnected, MarkReconnecting each write the granted list,
\* the latter two from the row they read earlier).
GrantMatchesConsent ==
  \A s \in Sessions :
    LET row == session[s] IN
    /\ row.state \in Waiting => row.granted = {}
    /\ row.state \in Live    => row.granted = row.asked /\ "view" \in row.granted
    /\ row.state \in Connected =>
         (row.state = "connected_control" <=> "input" \in row.granted)

SameView(v, row) == v.state = row.state /\ v.rev = row.rev

\* A revision names one row: whatever a request, an event or the phone still
\* holds is either older than the stored row or equal to it.  This is what lets
\* the swap compare revisions instead of rows, and RemoteStore compare revisions
\* instead of arrival order.
RevisionNamesRow ==
  /\ \A r \in requests : r.pc # "insert" =>
       /\ r.row.rev <= session[r.s].rev
       /\ r.row.rev = session[r.s].rev => r.row = session[r.s]
  /\ \A e \in outbox :
       /\ e.row.rev <= session[e.s].rev
       /\ e.row.rev = session[e.s].rev => e.row = session[e.s]
  /\ \A s \in Sessions :
       /\ phone[s].rev <= session[s].rev
       /\ phone[s].rev = session[s].rev => SameView(phone[s], session[s])

\* An ended or failed session is never revived or rewritten, by no stale
\* request, late acceptance or late timeout (TransitionSession, end).
TerminalIsFinal ==
  [][\A s \in Sessions :
       session[s].state \in Terminal => session'[s] = session[s]]_vars

\* Once granted, capabilities stay as they are: neither a reconnection nor a
\* duplicate call with an old row widens or loses them (MarkConnected,
\* MarkReconnecting write back what they read).
GrantIsFrozen ==
  [][\A s \in Sessions :
       session[s].granted # {} => session'[s].granted = session[s].granted]_vars

\* "A delayed HTTP/WS response must never move the page from connected back to
\* waiting_consent" (RemoteStore.ets): the phone's page moves along the life of
\* the session, however replies and events are reordered.
PageNeverGoesBack ==
  [][\A s \in Sessions :
       /\ phone[s].state \in Live \cup Terminal => phone'[s].state \notin Waiting
       /\ phone[s].state \in Terminal => phone'[s] = phone[s]]_vars

-----------------------------------------------------------------------------
(* The session implements the lifecycle the backend promises.              *)

Stage(state) ==
  CASE state = "absent"     -> "absent"
    [] state \in Waiting   -> "waiting"
    [] state \in Live      -> "live"
    [] OTHER               -> "over"

stageOf    == [s \in Sessions |-> Stage(session[s].state)]
approvedOf == [s \in Sessions |-> session[s].approved]
askedOf    == [s \in Sessions |-> session[s].asked]
grantedOf  == [s \in Sessions |-> session[s].granted]

Lifecycle == INSTANCE RemoteLifecycle WITH
  stage <- stageOf, approved <- approvedOf, asked <- askedOf, granted <- grantedOf

LifecycleSpec == Lifecycle!Spec

-----------------------------------------------------------------------------
(* The inductive strengthening: what rows, requests, events and the page   *)
(* are in every reachable state.  RevisionNamesRow alone is not inductive: *)
(* a request whose caller named a later revision than the row it read      *)
(* could swap with an outdated row.                                        *)

RowOK(row) ==
  \/ row = NoRow
  \/ /\ row \in Row /\ row.state # "absent" /\ row.rev >= 1
     /\ row.asked \in CapSets
     /\ row.state \in HostSide => row.approved
     /\ row.state \in Waiting => row.granted = {}
     /\ row.state \in Live    => row.granted = row.asked
     /\ row.state \in Connected =>
          (row.state = "connected_control" <=> "input" \in row.granted)

\* An observation of session s: never newer than the row, and equal to it when
\* it has its revision.
Observed(row, s) ==
  /\ 1 <= row.rev /\ row.rev <= session[s].rev
  /\ row.rev = session[s].rev => row = session[s]

RequestOK(r) ==
  /\ r.pc = "insert" =>
       /\ session[r.s] = NoRow
       /\ RowOK(r.row) /\ r.row.rev = 1 /\ r.row.state \in Waiting
       /\ \A q \in requests : q.s = r.s => q = r
  /\ r.pc # "insert"  => Observed(r.row, r.s) /\ r.exp <= r.row.rev
  /\ r.pc = "timeout" => r.row.state \in Timed

IInv ==
  /\ TypeOK
  /\ \A s \in Sessions : RowOK(session[s])
  /\ \A s \in Sessions : lapsed[s] => session[s].state \in Timed
  /\ \A r \in requests : RequestOK(r)
  /\ \A e \in outbox : Observed(e.row, e.s)
  /\ \A s \in Sessions :
       /\ phone[s].rev <= session[s].rev
       /\ phone[s].rev = session[s].rev => SameView(phone[s], session[s])

\* What anybody holds of the row of session s: handlers, events, the page, and
\* the table itself.
Sight(row) == [state |-> row.state, rev |-> row.rev]
Sights(s) ==
  {Sight(r.row) : r \in {q \in requests : q.s = s /\ q.pc # "insert"}}
    \cup {Sight(e.row) : e \in {f \in outbox : f.s = s}}
    \cup {phone[s], Sight(session[s])}

\* From v the session may have come to w.
LeadsOn(v, w) ==
  /\ v.state \in Live \cup Terminal => w.state \in Live \cup Terminal
  /\ v.state \in Terminal => w = v

\* Of two that are held, at whatever places, the one of the higher revision is
\* later in the life of the session: the page may take either on its revision.
InOrder ==
  \A s \in Sessions : \A v, w \in Sights(s) : v.rev <= w.rev => LeadsOn(v, w)

-----------------------------------------------------------------------------
(* Liveness, while the phone keeps the remote page open: the page polls    *)
(* every 1.5 s, the handlers run to their end, and time passes.            *)

PollStep(s) == \E r \in Polls(s) : Finish(r)

Fairness ==
  \A s \in Sessions :
    /\ WF_vars(BeginPoll(s))
    /\ WF_vars(PollStep(s))
    /\ WF_vars(Elapse(s))

FairSpec == Spec /\ Fairness

\* No session hangs on its way: there is no timer in the backend, the phone's poll
\* alone makes the time limits bite (applyTimeout).
NoTimedStateHangs ==
  \A s \in Sessions :
    (session[s].state \in Timed) ~> (session[s].state \in Connected \cup Terminal)

\* The page ends up showing how the session ended, though every event may be
\* lost and replies may arrive out of order.
PageLearnsTheEnd ==
  \A s \in Sessions :
    (session[s].state \in Terminal) ~> SameView(phone[s], session[s])

-----------------------------------------------------------------------------
(* Two statements of the source that the code does not keep.               *)

\* model.go:10 "The Windows host never sees this state", service.go:276 "never
\* expose that request to the Windows host before it is approved".
HostNeverSeesWaitingPrimary == exposed = {}

\* service.go:274: the heartbeat window must not exceed the time limit of
\* waiting_host, else "an expired session may still be advanced to
\* waiting_consent"; so an expired one is not advanced.
ExpiredNeverPromoted ==
  [][\A s \in Sessions :
       (session[s].state = "waiting_host" /\ lapsed[s])
         => session'[s].state # "waiting_consent"]_vars
=============================================================================
