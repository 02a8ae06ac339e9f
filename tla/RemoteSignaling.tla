--------------------------- MODULE RemoteSignaling ---------------------------
(***************************************************************************)
(* The signaling hub of remote desktop sessions (backend/internal/api/     *)
(* remote_ws.go) with the single-use tickets that authorize a connection   *)
(* (remote/tickets.go, remote/repository.go, ConsumeTicket and             *)
(* RefreshTicket of remote/service.go).                                    *)
(*                                                                         *)
(* One phone and one host with any number of connections each; other       *)
(* endpoints share the counters with them only.  A connection is served by *)
(* one goroutine, from HandleWS to the end of its clean-up, and its `pc'   *)
(* names the next SQL statement or section under the hub's mutex.  The row *)
(* of a session is moved by requests as well, each with one compare-and-   *)
(* swap, which RemoteSession has in detail.                                *)
(***************************************************************************)
EXTENDS Integers, FiniteSets, Sequences

CONSTANTS
  Sessions,    (* sessions between the phone and the host                    *)
  PhoneConns,  (* connections of the phone                                   *)
  HostConns,   (* connections of the host's bridges                          *)
  Addrs,       (* addresses clients connect from                             *)
  AddrOf,      (* [Conns -> Addrs]                                           *)
  MaxConns,    (* remoteWSMaxConns                                           *)
  MaxPerAddr,  (* remoteWSMaxConnsPerIP                                      *)
  MaxRev,      (* bound: revisions of a session                              *)
  MaxTickets   (* bound: tickets ever issued                                 *)

Conns == PhoneConns \cup HostConns

ASSUME SignalingParametersOK ==
  /\ PhoneConns \cap HostConns = {}
  /\ AddrOf \in [Conns -> Addrs]
  /\ IsFiniteSet(Conns) /\ IsFiniteSet(Sessions) /\ Cardinality(Sessions) <= MaxTickets
  /\ MaxConns \in Nat /\ MaxPerAddr \in Nat /\ MaxRev \in Nat \ {0} /\ MaxTickets \in Nat

VARIABLES
  row,        (* [Sessions -> Row]: the stored state and revision            *)
  eras,       (* [Sessions -> [revision -> negotiation it belongs to]]       *)
  tickets,    (* the tickets ever issued, with their nonces' rows            *)
  issuing,    (* ticket requests that have read the session                  *)
  granted,    (* [1..MaxTickets -> Nat]: authorizations a ticket gave        *)
  connCount,  (* the hub's counter of connections                            *)
  addrCount,  (* [Addrs -> Nat]: its counters by address                     *)
  listed,     (* the connections the hub sends to                            *)
  conn        (* [Conns -> Conn]: the goroutine of a connection              *)

sessions  == <<row, eras>>
issue     == <<tickets, issuing, granted>>
slots     == <<connCount, addrCount>>
vars      == <<sessions, issue, slots, listed, conn>>

Negotiation == {"negotiating", "reconnecting"}
Revs        == 1..MaxRev
NoSession   == "none"

ASSUME NoSessionIsNone == NoSession \notin Sessions

Row    == [state : Negotiation \cup {"connected", "over"}, rev : Revs]
Roles  == {"controller", "host"}
Ticket == [s : Sessions, role : Roles, rev : Revs,
           nonce : {"fresh", "used", "gone"}, expired : BOOLEAN]

\* msg is the signal being handled or the session being given up: its session,
\* its revision, the ticket it carries and the revision read for it.
Conn == [pc : {"new", "refused", "admitted", "joining", "live", "consume", "forward",
               "send", "uncount", "unslot", "notify", "mark"},
         auth : [Sessions -> 0..MaxRev],
         msg : [s : Sessions \cup {NoSession}, rev : 0..MaxRev, t : 0..MaxTickets,
                seen : 0..MaxRev],
         last : BOOLEAN, todo : SUBSET Sessions]

NoMsg  == [s |-> NoSession, rev |-> 0, t |-> 0, seen |-> 0]
Closed == [pc |-> "new", auth |-> [s \in Sessions |-> 0], msg |-> NoMsg,
           last |-> FALSE, todo |-> {}]

TypeOK ==
  /\ row \in [Sessions -> Row]
  /\ eras \in [Sessions -> [Revs -> Nat]]
  /\ tickets \in Seq(Ticket) /\ Len(tickets) <= MaxTickets
  /\ issuing \subseteq [s : Sessions, role : Roles, rev : Revs]
  /\ granted \in [1..MaxTickets -> Nat]
  /\ connCount \in Nat /\ addrCount \in [Addrs -> Nat]
  /\ listed \subseteq Conns
  /\ conn \in [Conns -> Conn]

\* The host has just accepted: its ticket is being issued.
Init ==
  /\ row = [s \in Sessions |-> [state |-> "negotiating", rev |-> 1]]
  /\ eras = [s \in Sessions |-> [r \in Revs |-> 0]]
  /\ tickets = <<>>
  /\ issuing = {[s |-> s, role |-> "host", rev |-> 1] : s \in Sessions}
  /\ granted = [t \in 1..MaxTickets |-> 0]
  /\ connCount = 0 /\ addrCount = [a \in Addrs |-> 0]
  /\ listed = {}
  /\ conn = [c \in Conns |-> Closed]

Role(c)     == IF c \in PhoneConns THEN "controller" ELSE "host"
Endpoint(c) == {d \in Conns : Role(d) = Role(c)}
-----------------------------------------------------------------------------
(* The session's row, as other requests move it.                           *)

Move(s, state, era) ==
  /\ row[s].rev < MaxRev
  /\ row' = [row EXCEPT ![s] = [state |-> state, rev |-> @.rev + 1]]
  /\ eras' = [eras EXCEPT ![s][row[s].rev + 1] = era]

\* The bridge reports that media flows; the bound leaves room for the loss of
\* the connection.
MarkConnected(s) ==
  /\ row[s].state \in Negotiation /\ row[s].rev < MaxRev - 1
  /\ Move(s, "connected", eras[s][row[s].rev])
  /\ UNCHANGED <<issue, slots, listed, conn>>

\* Ended by either side, or its time for negotiating is over (applyTimeout).
Finish(s) ==
  /\ row[s].state # "over"
  /\ Move(s, "over", eras[s][row[s].rev])
  /\ UNCHANGED <<issue, slots, listed, conn>>

-----------------------------------------------------------------------------
(* Tickets: RefreshTicket, Issue.                                          *)

\* The phone asks for a ticket: the session is read.
RefreshTicket(s) ==
  /\ row[s].state \in Negotiation
  /\ Len(tickets) + Cardinality(issuing) < MaxTickets
  /\ issuing' = issuing \cup {[s |-> s, role |-> "controller", rev |-> row[s].rev]}
  /\ UNCHANGED <<sessions, tickets, granted, slots, listed, conn>>

\* Expired nonces are deleted, the ticket is for the revision read before.
Issue(i) ==
  /\ issuing' = issuing \ {i}
  /\ tickets' = Append([t \in DOMAIN tickets |->
                          IF tickets[t].expired THEN [tickets[t] EXCEPT !.nonce = "gone"]
                          ELSE tickets[t]],
                       [s |-> i.s, role |-> i.role, rev |-> i.rev,
                        nonce |-> "fresh", expired |-> FALSE])
  /\ UNCHANGED <<sessions, granted, slots, listed, conn>>

\* Ninety seconds pass.
Expire(t) ==
  /\ ~tickets[t].expired
  /\ tickets' = [tickets EXCEPT ![t].expired = TRUE]
  /\ UNCHANGED <<sessions, issuing, granted, slots, listed, conn>>

-----------------------------------------------------------------------------
(* A connection's way in: HandleWS.                                        *)

Stage(c, pc) == conn' = [conn EXCEPT ![c].pc = pc]

\* The connection is counted before it is known whether there is room for it.
Open(c) ==
  /\ conn[c].pc = "new"
  /\ connCount' = connCount + 1
  /\ Stage(c, IF connCount + 1 > MaxConns THEN "refused" ELSE "admitted")
  /\ UNCHANGED <<sessions, issue, addrCount, listed>>

Refuse(c) ==
  /\ conn[c].pc = "refused"
  /\ connCount' = connCount - 1
  /\ Stage(c, "new")
  /\ UNCHANGED <<sessions, issue, addrCount, listed>>

AcquireIPSlot(c) ==
  /\ conn[c].pc = "admitted"
  /\ IF addrCount[AddrOf[c]] >= MaxPerAddr
       THEN /\ Stage(c, "refused")
            /\ UNCHANGED addrCount
       ELSE /\ Stage(c, "joining")
            /\ addrCount' = [addrCount EXCEPT ![AddrOf[c]] = @ + 1]
  /\ UNCHANGED <<sessions, issue, connCount, listed>>

\* Mutant of FailJoin: the slot of the address is kept.
FailJoinKeepSlot(c) ==
  /\ conn[c].pc = "joining"
  /\ Stage(c, "refused")
  /\ UNCHANGED <<sessions, issue, slots, listed>>

\* No upgrade, no join message within five seconds, or a bad token.
FailJoin(c) ==
  /\ conn[c].pc = "joining"
  /\ Stage(c, "uncount")
  /\ UNCHANGED <<sessions, issue, slots, listed>>

\* The token is good: addClient.
Join(c) ==
  /\ conn[c].pc = "joining"
  /\ listed' = listed \cup {c}
  /\ Stage(c, "live")
  /\ UNCHANGED <<sessions, issue, slots>>

-----------------------------------------------------------------------------
(* A signal of a connection: handleSignal.                                 *)

\* client_ready: ConsumeTicket reads the session, and the ticket's scope and
\* expiry are checked; in any other case the message is refused.
ClientReady(c, t) ==
  LET k == tickets[t] IN
  /\ conn[c].pc = "live"
  /\ k.role = Role(c) /\ ~k.expired
  /\ row[k.s].rev = k.rev /\ row[k.s].state \in Negotiation
  /\ conn' = [conn EXCEPT ![c].pc = "consume",
                          ![c].msg = [NoMsg EXCEPT !.s = k.s, !.rev = k.rev, !.t = t]]
  /\ UNCHANGED <<sessions, issue, slots, listed>>

\* Mutant of ConsumeNonce: whether the nonce was consumed before is not asked.
ConsumeNonceAgain(c) ==
  LET m == conn[c].msg IN
  /\ conn[c].pc = "consume"
  /\ IF tickets[m.t].nonce # "gone"
       THEN /\ tickets' = [tickets EXCEPT ![m.t].nonce = "used"]
            /\ granted' = [granted EXCEPT ![m.t] = @ + 1]
            /\ conn' = [conn EXCEPT ![c].pc = "forward", ![c].auth[m.s] = m.rev]
       ELSE /\ conn' = [conn EXCEPT ![c].pc = "live", ![c].msg = NoMsg]
            /\ UNCHANGED <<tickets, granted>>
  /\ UNCHANGED <<sessions, issuing, slots, listed>>

\* ConsumeTicketNonce, an UPDATE of the row not consumed yet; the session may
\* have moved since it was read.
ConsumeNonce(c) ==
  LET m == conn[c].msg IN
  /\ conn[c].pc = "consume"
  /\ IF tickets[m.t].nonce = "fresh"
       THEN /\ tickets' = [tickets EXCEPT ![m.t].nonce = "used"]
            /\ granted' = [granted EXCEPT ![m.t] = @ + 1]
            /\ conn' = [conn EXCEPT ![c].pc = "forward", ![c].auth[m.s] = m.rev]
       ELSE /\ conn' = [conn EXCEPT ![c].pc = "live", ![c].msg = NoMsg]
            /\ UNCHANGED <<tickets, granted>>
  /\ UNCHANGED <<sessions, issuing, slots, listed>>

\* An offer, answer or candidate under an authorization of this connection.
Signal(c, s) ==
  /\ conn[c].pc = "live"
  /\ conn[c].auth[s] # 0
  /\ conn' = [conn EXCEPT ![c].pc = "forward",
                          ![c].msg = [NoMsg EXCEPT !.s = s, !.rev = conn[c].auth[s]]]
  /\ UNCHANGED <<sessions, issue, slots, listed>>

\* Mutant of ValidRevision: a connected session accepts every older ticket.
ValidOlder(s, rev) ==
  \/ row[s].state \in Negotiation /\ row[s].rev = rev
  \/ row[s].state = "connected" /\ row[s].rev > rev

\* The connected state is one revision newer than the ticket that led to it.
ValidRevision(s, rev) ==
  \/ row[s].state \in Negotiation /\ row[s].rev = rev
  \/ row[s].state = "connected" /\ row[s].rev = rev + 1

\* forwardSignal reads the session again; on a conflict the sender is told, and
\* stays authorized.
ForwardSignal(c) ==
  LET m == conn[c].msg IN
  /\ conn[c].pc = "forward"
  /\ conn' = IF ValidRevision(m.s, m.rev)
               THEN [conn EXCEPT ![c].pc = "send", ![c].msg.seen = row[m.s].rev]
               ELSE [conn EXCEPT ![c].pc = "live", ![c].msg = NoMsg]
  /\ UNCHANGED <<sessions, issue, slots, listed>>

\* sendRawToEndpoint puts it into the channels of the peer's connections, or
\* drops it when there is none; only the peer sees the difference.
Send(c) ==
  /\ conn[c].pc = "send"
  /\ conn' = [conn EXCEPT ![c].pc = "live", ![c].msg = NoMsg]
  /\ UNCHANGED <<sessions, issue, slots, listed>>

-----------------------------------------------------------------------------
(* A connection's way out: removeClient and notifyPeerLeft.                *)

\* The connection breaks; was it the last one of its endpoint?
Leave(c) ==
  /\ conn[c].pc = "live"
  /\ listed' = listed \ {c}
  /\ conn' = [conn EXCEPT ![c].pc = "uncount",
                          ![c].last = (listed \ {c}) \cap Endpoint(c) = {}]
  /\ UNCHANGED <<sessions, issue, slots>>

Uncount(c) ==
  /\ conn[c].pc = "uncount"
  /\ connCount' = connCount - 1
  /\ Stage(c, "unslot")
  /\ UNCHANGED <<sessions, issue, addrCount, listed>>

\* The sessions this connection was authorized for, if it was the last one.
GivenUp(c) == IF conn[c].last THEN {s \in Sessions : conn[c].auth[s] # 0} ELSE {}

ReleaseIPSlot(c) ==
  /\ conn[c].pc = "unslot"
  /\ addrCount' = [addrCount EXCEPT ![AddrOf[c]] = @ - 1]
  /\ conn' = [conn EXCEPT ![c] = IF GivenUp(c) = {} THEN Closed
                                 ELSE [@ EXCEPT !.pc = "notify", !.todo = GivenUp(c)]]
  /\ UNCHANGED <<sessions, issue, connCount, listed>>

\* The loop goes on without s, or the goroutine ends.
Told(c, s) ==
  LET left == conn[c].todo \ {s} IN
  [conn EXCEPT ![c] = IF left = {} THEN Closed
                      ELSE [conn[c] EXCEPT !.pc = "notify", !.todo = left, !.msg = NoMsg]]

\* Read a session; a connected one is to be marked, the peer of any other that
\* is not over is told at once.
NotifyPeerLeft(c, s) ==
  /\ conn[c].pc = "notify" /\ s \in conn[c].todo
  /\ conn' = IF row[s].state = "connected"
               THEN [conn EXCEPT ![c].pc = "mark",
                                 ![c].msg = [NoMsg EXCEPT !.s = s, !.seen = row[s].rev]]
               ELSE Told(c, s)
  /\ UNCHANGED <<sessions, issue, slots, listed>>

\* Mutant of MarkReconnecting: the ticket's revision is expected, not the row's.
MarkReconnectingTicketRevision(c) ==
  LET s == conn[c].msg.s IN
  /\ conn[c].pc = "mark"
  /\ IF row[s].state = "connected" /\ row[s].rev = conn[c].auth[s]
       THEN Move(s, "reconnecting", eras[s][row[s].rev] + 1)
       ELSE UNCHANGED sessions
  /\ conn' = Told(c, s)
  /\ UNCHANGED <<issue, slots, listed>>

\* MarkReconnecting swaps the row if it is the one read; then the peer is told.
MarkReconnecting(c) ==
  LET s == conn[c].msg.s IN
  /\ conn[c].pc = "mark"
  /\ IF row[s].state = "connected" /\ row[s].rev = conn[c].msg.seen
       THEN Move(s, "reconnecting", eras[s][row[s].rev] + 1)
       ELSE UNCHANGED sessions
  /\ conn' = Told(c, s)
  /\ UNCHANGED <<issue, slots, listed>>

-----------------------------------------------------------------------------
WayIn(c)   == Open(c) \/ Refuse(c) \/ AcquireIPSlot(c) \/ FailJoin(c) \/ Join(c)
Handle(c)  == ConsumeNonce(c) \/ ForwardSignal(c) \/ Send(c)
WayOut(c)  == Uncount(c) \/ ReleaseIPSlot(c) \/ MarkReconnecting(c)
                \/ \E s \in Sessions : NotifyPeerLeft(c, s)

Next ==
  \/ \E s \in Sessions : MarkConnected(s) \/ Finish(s) \/ RefreshTicket(s)
  \/ \E i \in issuing : Issue(i)
  \/ \E t \in DOMAIN tickets : Expire(t)
  \/ \E c \in Conns : WayIn(c) \/ Handle(c) \/ Leave(c) \/ WayOut(c)
  \/ \E c \in Conns, t \in DOMAIN tickets : ClientReady(c, t)
  \/ \E c \in Conns, s \in Sessions : Signal(c, s)

Spec == Init /\ [][Next]_vars

-----------------------------------------------------------------------------
(* Safety.                                                                 *)

\* A ticket authorizes one connection once, though two connections may present
\* it at the same time and the session is looked at in a step of its own
\* (ConsumeTicket, ConsumeTicketNonce).
TicketsOnce == \A t \in 1..MaxTickets : granted[t] <= 1

\* "packets from the previous connection must not cross into the new
\* negotiation": what the hub forwards belongs, by the revision its sender was
\* authorized for, to the negotiation of the session as the hub read it, whatever
\* has moved since the ticket was checked, consumed or used (handleSignal).
SignalsStayInTheirNegotiation ==
  \A c \in Conns : conn[c].pc = "send" =>
    LET m == conn[c].msg IN eras[m.s][m.rev] = eras[m.s][m.seen]

Counted == {"refused", "admitted", "joining", "live", "consume", "forward", "send", "uncount"}
Placed  == (Counted \ {"refused", "admitted"}) \cup {"unslot"}

\* Every way out of HandleWS gives back what the way in has taken: the counters
\* are those of the connections there are, and never let more in than the limits
\* (HandleWS, removeClient).
SlotsReturned ==
  /\ connCount = Cardinality({c \in Conns : conn[c].pc \in Counted})
  /\ \A a \in Addrs :
       LET here == {c \in Conns : AddrOf[c] = a /\ conn[c].pc \in Placed} IN
       /\ addrCount[a] = Cardinality(here)
       /\ Cardinality(here) <= MaxPerAddr
  /\ Cardinality({c \in Conns : conn[c].pc \in Counted \ {"refused"}}) <= MaxConns

-----------------------------------------------------------------------------
(* The invariant that RemoteSignaling_proofs shows to be inductive.        *)

\* There is room for the tickets being issued; what has authorized is used up.
TicketsOK ==
  /\ IsFiniteSet(issuing) /\ Len(tickets) + Cardinality(issuing) <= MaxTickets
  /\ \A t \in 1..MaxTickets :
       granted[t] # 0 => granted[t] = 1 /\ t <= Len(tickets) /\ tickets[t].nonce # "fresh"

\* A session is connected one revision after it was negotiating.
ErasOK ==
  \A s \in Sessions : row[s].state = "connected" =>
    row[s].rev > 1 /\ eras[s][row[s].rev - 1] = eras[s][row[s].rev]

\* A message is about a session, and names revisions it has had.
MsgOK(c) ==
  LET m == conn[c].msg IN
  /\ conn[c].pc \in {"consume", "forward", "send", "mark"} => m.s \in Sessions
  /\ conn[c].pc \in {"consume", "forward", "send"} => m.rev # 0
  /\ conn[c].pc = "consume" => m.t \in 1..Len(tickets)
  /\ conn[c].pc = "send" =>
       /\ m.seen # 0 /\ m.rev <= row[m.s].rev /\ m.seen <= row[m.s].rev
       /\ eras[m.s][m.rev] = eras[m.s][m.seen]

IInv == TypeOK /\ TicketsOK /\ ErasOK /\ (\A c \in Conns : MsgOK(c)) /\ SlotsReturned

-----------------------------------------------------------------------------
(* Liveness: the goroutine of a connection that broke ends.                *)

FairSpec == Spec /\ \A c \in Conns : WF_vars(WayOut(c))

\* A session that is connected when its phone or host goes offline does not stay
\* so, if the last connection that left was authorized for it (notifyPeerLeft).
LossIsNoticed ==
  \A c \in Conns, s \in Sessions :
    (conn[c].pc = "unslot" /\ s \in GivenUp(c) /\ row[s].state = "connected")
    ~> (row[s].state # "connected")

-----------------------------------------------------------------------------
(* A statement of the source that the code does not keep.                  *)

\* service.go:541 "MarkReconnecting moves an established media session back to
\* negotiation when the last authenticated signaling connection for either
\* endpoint disappears".
LastConnectionReconnects ==
  \A c \in Conns, s \in Sessions :
    (conn[c].pc = "unslot" /\ conn[c].last /\ row[s].state = "connected")
    ~> (row[s].state # "connected")
=============================================================================
