----------------------------- MODULE SessionHub -----------------------------
(***************************************************************************)
(* The terminal sessions of a project: the WebSocket hub that connects     *)
(* phones and relays (backend/internal/api/ws_handler.go) on top of the    *)
(* session manager (backend/internal/session/manager.go).                  *)
(*                                                                         *)
(* A step is one section under the hub's or the manager's mutex with the   *)
(* non-blocking sends that follow it.  A connection is one WebSocket: its  *)
(* read goroutine handles one message after the other, so `pc' is all the  *)
(* control it has.  A peer that reconnects does so on a new connection,    *)
(* often before the server has noticed the end of the old one.             *)
(***************************************************************************)
EXTENDS Integers, FiniteSets, SequencesExt

CONSTANTS
  Projects,     (* project names                                             *)
  PhoneConns,   (* connections of phones                                     *)
  RelayConns,   (* connections of relays                                     *)
  Relays,       (* relay processes, each with a client id of its own         *)
  RelayProject, (* [Relays -> Projects]: the project a relay serves          *)
  Msgs,         (* messages from the phone, each sent once                   *)
  PendingMax,   (* relayPendingMsgsMax: messages kept for absent relays      *)
  SlowRelays,   (* whether a relay's send channel may be full                *)
  MaxSessions,  (* bound: sessions ever created                              *)
  MaxJoins      (* bound: joins on one phone connection                      *)

ASSUME HubParametersOK ==
  /\ RelayProject \in [Relays -> Projects]
  /\ PhoneConns \cap RelayConns = {} /\ "none" \notin Projects
  /\ PendingMax \in Nat \ {0} /\ MaxSessions \in Nat /\ MaxJoins \in Nat \ {0}
  /\ SlowRelays \in BOOLEAN

VARIABLES
  live,        (* the manager's sessions                                     *)
  created,     (* the project of every session ever created, a sequence      *)
  members,     (* [Sessions -> client ids]                                   *)
  overdue,     (* sessions whose deletion delay or idle limit is over        *)
  conn,        (* [Conns -> Conn]: what the hub knows of a connection        *)
  listed,      (* [Sessions -> [Conns -> Nat]]: clientsBySession             *)
  relayClients,(* the connections relay broadcasts go to                     *)
  pending,     (* relayPendingMsgs                                           *)
  flush,       (* [RelayConns -> messages taken from `pending' on joining]   *)
  got,         (* [RelayConns -> [Msgs -> Nat]]: what went into the channel  *)
  subject,     (* [Msgs -> the project a message is for, once it is sent]    *)
  handled,     (* messages the hub is done with                              *)
  overflowed   (* messages dropped because `pending' was full                *)

manager == <<live, created, members, overdue>>
routing == <<conn, listed, relayClients>>
mail    == <<pending, flush, got, subject, handled, overflowed>>
vars    == <<manager, routing, mail>>

Conns    == PhoneConns \cup RelayConns
Sessions == 1..MaxSessions
None     == 0
Nobody   == <<"nobody", 0>>
NoMsg    == "none"

\* A relay's client id is the same on all its connections; a phone sends none
\* and is given a new one with every join.
Ids == (Relays \X {0}) \cup (PhoneConns \X (1..MaxJoins))

Conn == [pc : {"new", "idle", "join", "register", "flush", "say", "cast", "keep", "closed"},
         id : Ids \cup {Nobody}, project : Projects \cup {"none"},
         target : Sessions \cup {None}, next : Ids \cup {Nobody},
         session : Sessions \cup {None}, joins : 0..MaxJoins, msg : Msgs \cup {NoMsg}]

RoutesTyped ==
  /\ live \subseteq Sessions
  /\ created \in Seq(Projects) /\ Len(created) <= MaxSessions
  /\ members \in [Sessions -> SUBSET Ids]
  /\ conn \in [Conns -> Conn]
  /\ listed \in [Sessions -> [Conns -> Nat]]
  /\ relayClients \subseteq RelayConns

TypeOK ==
  /\ RoutesTyped
  /\ overdue \subseteq Sessions
  /\ pending \in Seq([msg : Msgs, project : Projects]) /\ Len(pending) <= PendingMax
  /\ flush \in [RelayConns -> SUBSET Msgs]
  /\ got \in [RelayConns -> [Msgs -> Nat]]
  /\ subject \in [Msgs -> Projects \cup {"none"}]
  /\ handled \subseteq Msgs /\ overflowed \subseteq Msgs

Init ==
  /\ live = {} /\ created = <<>> /\ overdue = {}
  /\ members = [s \in Sessions |-> {}]
  /\ conn = [c \in Conns |-> [pc |-> "new", id |-> Nobody, project |-> "none",
               target |-> None, next |-> Nobody, session |-> None, joins |-> 0,
               msg |-> NoMsg]]
  /\ listed = [s \in Sessions |-> [c \in Conns |-> 0]]
  /\ relayClients = {}
  /\ pending = <<>>
  /\ flush = [c \in RelayConns |-> {}]
  /\ got = [c \in RelayConns |-> [m \in Msgs |-> 0]]
  /\ subject = [m \in Msgs |-> "none"]
  /\ handled = {} /\ overflowed = {}
-----------------------------------------------------------------------------
(* The session manager.                                                    *)

\* createSessionLocked: the project's session, a new one if there is none.
CreateSession(p) ==
  IF \E s \in live : created[s] = p
    THEN UNCHANGED <<live, created>>
    ELSE /\ Len(created) < MaxSessions
         /\ created' = Append(created, p)
         /\ live' = live \cup {Len(created) + 1}

\* ... and which one that is.
SessionFor(p) ==
  IF \E s \in live : created[s] = p THEN CHOOSE s \in live : created[s] = p
  ELSE Len(created) + 1

\* A handler outside the hub asks for the project's session.
GetOrCreateSession(p) ==
  /\ CreateSession(p)
  /\ UNCHANGED <<members, overdue, routing, mail>>

\* Time passes for a session nobody is in: 30 seconds after the last one left,
\* 30 minutes if nobody came.
Elapse(s) ==
  /\ s \in live \ overdue /\ members[s] = {}
  /\ overdue' = overdue \cup {s}
  /\ UNCHANGED <<live, created, members, routing, mail>>

\* cleanup: the empty sessions whose time is over.
Cleanup ==
  LET gone == {s \in live \cap overdue : members[s] = {}} IN
  /\ gone # {}
  /\ live' = live \ gone
  /\ overdue' = overdue \ gone
  /\ UNCHANGED <<created, members, routing, mail>>

-----------------------------------------------------------------------------
(* Joining.                                                                *)

Connect(c) ==
  /\ conn[c].pc = "new"
  /\ conn' = [conn EXCEPT ![c].pc = "idle"]
  /\ UNCHANGED <<manager, listed, relayClients, mail>>

\* setupJoinSession, first call: find or create the project's session.
BeginJoin(c, p, id) ==
  /\ conn[c].pc = "idle"
  /\ CreateSession(p)
  /\ conn' = [conn EXCEPT ![c].pc = "join", ![c].target = SessionFor(p),
                          ![c].next = id, ![c].project = p]
  /\ UNCHANGED <<members, overdue, listed, relayClients, mail>>

\* A phone joins when it connects, and again when its page is opened, another
\* project is chosen or a relay has come up.
JoinPhone(c, p) ==
  /\ c \in PhoneConns
  /\ conn[c].joins < MaxJoins
  /\ BeginJoin(c, p, <<c, conn[c].joins + 1>>)

\* A relay joins once, when its connection opens.
JoinRelay(c, r) ==
  /\ c \in RelayConns
  /\ conn[c].joins = 0
  /\ BeginJoin(c, RelayProject[r], <<r, 0>>)

\* JoinSession, which does nothing if the session is gone by now.
JoinSession(c) ==
  LET s == conn[c].target IN
  /\ conn[c].pc = "join"
  /\ conn' = [conn EXCEPT ![c].pc = "register"]
  /\ IF s \in live
       THEN /\ members' = [members EXCEPT ![s] = @ \cup {conn[c].next}]
            /\ overdue' = overdue \ {s}
       ELSE UNCHANGED <<members, overdue>>
  /\ UNCHANGED <<live, created, listed, relayClients, mail>>

\* Another connection with the same client id is in the same session.
HasReplacement(c, s) ==
  \E d \in Conns \ {c} : listed[s][d] > 0 /\ conn[d].id = conn[c].id

\* Mutant of Unlisted: the connection is found by its client id.
UnlistedById(c) ==
  LET s == conn[c].session IN
  IF s = None THEN listed
  ELSE [listed EXCEPT ![s] = [d \in Conns |->
          IF @[d] > 0 /\ conn[d].id = conn[c].id THEN @[d] - 1 ELSE @[d]]]

\* removeClientFromSession takes the connection out of its session's list, once.
Unlisted(c) ==
  LET s == conn[c].session IN
  IF s # None /\ listed[s][c] > 0 THEN [listed EXCEPT ![s][c] = @ - 1] ELSE listed

\* Mutant of LeaveSession: the connection counts as its own replacement.
LeaveSessionUnlessListed(c) ==
  LET s == conn[c].session
      replaced == \E d \in Conns : listed[s][d] > 0 /\ conn[d].id = conn[c].id
  IN
  IF s = None \/ s \notin live \/ replaced THEN UNCHANGED <<members, overdue>>
  ELSE /\ members' = [members EXCEPT ![s] = @ \ {conn[c].id}]
       /\ overdue' = overdue \ {s}

\* ... and, unless it was replaced, its client out of the manager's session.
LeaveSession(c) ==
  LET s == conn[c].session IN
  IF s = None \/ s \notin live \/ HasReplacement(c, s) THEN UNCHANGED <<members, overdue>>
  ELSE /\ members' = [members EXCEPT ![s] = @ \ {conn[c].id}]
       /\ overdue' = overdue \ {s}

\* Mutant of Mine: the project is not looked at.
MineWhateverProject(p) == {pm \in Range(pending) : TRUE}

\* The messages that wait for a relay of project p.
Mine(p) == {pm \in Range(pending) : pm.project = p}

\* ... and the ones left when it has taken them, in their order.
Others(mine) ==
  LET kept   == {i \in DOMAIN pending : pending[i] \notin mine}
      nth(k) == CHOOSE i \in kept : Cardinality({j \in kept : j <= i}) = k
  IN  [k \in 1..Cardinality(kept) |-> pending[nth(k)]]

\* registerJoinClient: leave the old session first, then enter the new one; a
\* relay takes the messages that wait for its project.
Register(c) ==
  LET s     == conn[c].target
      moves == conn[c].session # s
      left  == IF moves THEN Unlisted(c) ELSE listed
      mine  == IF c \in RelayConns THEN Mine(conn[c].project) ELSE {}
  IN
  /\ conn[c].pc = "register"
  /\ IF moves THEN LeaveSession(c) ELSE UNCHANGED <<members, overdue>>
  /\ listed' = [left EXCEPT ![s][c] = @ + 1]
  /\ relayClients' = IF c \in RelayConns THEN relayClients \cup {c} ELSE relayClients
  /\ conn' = [conn EXCEPT ![c].pc = "flush", ![c].id = conn[c].next, ![c].session = s,
                          ![c].joins = @ + 1]
  /\ pending' = Others(mine)
  /\ flush' = IF c \in RelayConns THEN [flush EXCEPT ![c] = {pm.msg : pm \in mine}] ELSE flush
  /\ UNCHANGED <<live, created, got, subject, handled, overflowed>>

\* Acknowledge, send the history, then what was kept.
Flush(c) ==
  /\ conn[c].pc = "flush"
  /\ conn' = [conn EXCEPT ![c].pc = "idle"]
  /\ IF c \in RelayConns
       THEN /\ got' = [got EXCEPT ![c] = [m \in Msgs |-> @[m] + IF m \in flush[c] THEN 1 ELSE 0]]
            /\ flush' = [flush EXCEPT ![c] = {}]
       ELSE UNCHANGED <<got, flush>>
  /\ UNCHANGED <<manager, listed, relayClients, pending, subject, handled, overflowed>>

\* The read goroutine's clean-up: the connection broke.
Disconnect(c) ==
  /\ conn[c].pc = "idle"
  /\ listed' = Unlisted(c)
  /\ LeaveSession(c)
  /\ relayClients' = relayClients \ {c}
  /\ conn' = [conn EXCEPT ![c].pc = "closed"]
  /\ UNCHANGED <<live, created, mail>>

-----------------------------------------------------------------------------
(* A message from the phone: handleSessionMsg.                             *)

\* The phone sends a message for the project it joined.
Say(c, m) ==
  /\ c \in PhoneConns
  /\ conn[c].pc = "idle" /\ conn[c].session # None
  /\ subject[m] = "none"
  /\ subject' = [subject EXCEPT ![m] = conn[c].project]
  /\ conn' = [conn EXCEPT ![c].pc = "say", ![c].msg = m]
  /\ UNCHANGED <<manager, listed, relayClients, pending, flush, got, handled, overflowed>>

\* m goes into the channels of the relay connections in `to', n[c] times.
Send(m, to, n) ==
  got' = [c \in RelayConns |->
            IF c \in to THEN [got[c] EXCEPT ![m] = @ + n[c]] ELSE got[c]]

\* A full channel refuses.
Accepting(to) == IF SlowRelays THEN SUBSET to ELSE {to}

\* BroadcastToSession to everybody in the phone's session, itself excepted.
BroadcastToSession(c) ==
  LET s  == conn[c].session
      to == {d \in RelayConns : listed[s][d] > 0}
  IN
  /\ conn[c].pc = "say"
  /\ \E acc \in Accepting(to) : Send(conn[c].msg, acc, listed[s])
  /\ conn' = [conn EXCEPT ![c].pc = "cast"]
  /\ UNCHANGED <<manager, listed, relayClients, pending, flush, subject, handled, overflowed>>

\* Mutant of Elsewhere: the phone's own session is not left out.
AlsoHere(c) == {d \in relayClients : conn[d].project = conn[c].project}

\* Relays of the project outside the phone's session.
Elsewhere(c) ==
  {d \in relayClients : conn[d].project = conn[c].project
                        /\ conn[d].session # conn[c].session}

\* broadcastToAllTerminals: when no relay got it, and none in the phone's
\* session had it before, the message is kept.
BroadcastToAllTerminals(c) ==
  LET here == {d \in relayClients : conn[d].project = conn[c].project} \ Elsewhere(c) IN
  /\ conn[c].pc = "cast"
  /\ \E acc \in Accepting(Elsewhere(c)) :
       /\ Send(conn[c].msg, acc, [d \in RelayConns |-> 1])
       /\ IF acc = {} /\ here = {}
            THEN /\ conn' = [conn EXCEPT ![c].pc = "keep"]
                 /\ UNCHANGED handled
            ELSE /\ conn' = [conn EXCEPT ![c].pc = "idle", ![c].msg = NoMsg]
                 /\ handled' = handled \cup {conn[c].msg}
  /\ UNCHANGED <<manager, listed, relayClients, pending, flush, subject, overflowed>>

\* The message is added to the ones kept; the oldest makes room.
Keep(c) ==
  LET m   == conn[c].msg
      all == Append(pending, [msg |-> m, project |-> conn[c].project])
  IN
  /\ conn[c].pc = "keep"
  /\ pending' = IF Len(all) > PendingMax THEN Tail(all) ELSE all
  /\ overflowed' = IF Len(all) > PendingMax THEN overflowed \cup {Head(all).msg}
                   ELSE overflowed
  /\ conn' = [conn EXCEPT ![c].pc = "idle", ![c].msg = NoMsg]
  /\ handled' = handled \cup {m}
  /\ UNCHANGED <<manager, listed, relayClients, flush, got, subject>>

-----------------------------------------------------------------------------
JoinStep(c) == JoinSession(c) \/ Register(c) \/ Flush(c)
SayStep(c)  == BroadcastToSession(c) \/ BroadcastToAllTerminals(c) \/ Keep(c)

Next ==
  \/ \E p \in Projects : GetOrCreateSession(p)
  \/ \E s \in Sessions : Elapse(s)
  \/ Cleanup
  \/ \E c \in Conns : Connect(c) \/ JoinStep(c) \/ Disconnect(c)
  \/ \E c \in PhoneConns, p \in Projects : JoinPhone(c, p)
  \/ \E c \in RelayConns, r \in Relays : JoinRelay(c, r)
  \/ \E c \in PhoneConns, m \in Msgs : Say(c, m)
  \/ \E c \in PhoneConns : SayStep(c)

Spec == Init /\ [][Next]_vars
-----------------------------------------------------------------------------
(* Safety.                                                                 *)

Registered(c) == conn[c].session # None /\ conn[c].pc # "closed"

\* Messages find every connection that is in a session, and no relay that is
\* gone: neither a reconnection whose old connection is cleaned up later, nor a
\* change of project leaves a connection unlisted (registerJoinClient,
\* removeClientFromSession).
RoutesFollowConnections ==
  /\ \A c \in Conns : Registered(c) => listed[conn[c].session][c] > 0
  /\ \A c \in RelayConns : Registered(c) <=> c \in relayClients

\* A relay that is a member of a session has a connection there, or one that is
\* about to be: old connections do not keep a session from being deleted, in
\* whatever order a relay's connections are set up and cleaned up.
NoGhostRelay ==
  \A s \in live, r \in Relays : <<r, 0>> \in members[s] =>
    \E c \in RelayConns :
      \/ Registered(c) /\ conn[c].session = s /\ conn[c].id = <<r, 0>>
      \/ conn[c].pc = "register" /\ conn[c].target = s /\ conn[c].next = <<r, 0>>

\* A message is put into a relay's channel at most once, though it is sent to
\* the session, to all relays of the project, and from the ones kept
\* (handleSessionMsg, registerJoinClient).
OncePerConnection == \A c \in RelayConns, m \in Msgs : got[c][m] <= 1

\* "Project filtering prevents cross-project message leakage": a relay gets what
\* is for its project, from the session, from the broadcast and from the ones
\* kept, whichever projects the phone changed to meanwhile.
ProjectsApart ==
  \A c \in RelayConns, m \in Msgs : got[c][m] > 0 => conn[c].project = subject[m]

-----------------------------------------------------------------------------
(* The inductive invariant.                                                *)

PhoneIds == PhoneConns \X (1..MaxJoins)

\* Only sessions that were created live or have members.
Created ==
  /\ live \subseteq 1..Len(created)
  /\ \A s \in Sessions : s \notin 1..Len(created) => members[s] = {}

\* A connection joins a session that was created, a relay's as its first.
Joining ==
  \A c \in Conns : conn[c].pc \in {"join", "register"} =>
    /\ conn[c].target \in 1..Len(created) /\ conn[c].next \in Ids
    /\ conn[c].joins < MaxJoins /\ (c \in RelayConns => conn[c].joins = 0)
    /\ c \in PhoneConns => conn[c].next \in PhoneIds

\* A phone in a list has an id of its own; a relay is in the list of its session,
\* once, and in no other.
Listed ==
  /\ \A c \in PhoneConns :
       conn[c].session # None \/ (\E s \in Sessions : listed[s][c] > 0) => conn[c].id \in PhoneIds
  /\ \A c \in RelayConns : conn[c].joins = 0 => conn[c].session = None
  /\ \A c \in RelayConns, s \in Sessions : listed[s][c] > 0 =>
       Registered(c) /\ conn[c].session = s /\ listed[s][c] = 1

IInv == RoutesTyped /\ Created /\ Joining /\ Listed /\ RoutesFollowConnections /\ NoGhostRelay

(* The messages: where each is, and for whom.                              *)

\* A connection is in a session of its project, but for one that changes to
\* another.
SessionsOfProject ==
  \A c \in Conns :
    IF conn[c].pc \in {"join", "register"} THEN created[conn[c].target] = conn[c].project
    ELSE conn[c].session # None =>
           /\ conn[c].session \in 1..Len(created)
           /\ created[conn[c].session] = conn[c].project

Speaking(c) == conn[c].pc \in {"say", "cast", "keep"}

\* A message that is being handled is with one phone only: it is not kept yet, and
\* the relays that have it are of the phone's session.
InOneHand ==
  \A c \in PhoneConns : Speaking(c) =>
    /\ conn[c].msg \in Msgs /\ subject[conn[c].msg] = conn[c].project
    /\ conn[c].session # None
    /\ \A b \in PhoneConns \ {c} : Speaking(b) => conn[b].msg # conn[c].msg
    /\ \A i \in DOMAIN pending : pending[i].msg # conn[c].msg
    /\ \A d \in RelayConns :
         /\ conn[c].msg \notin flush[d]
         /\ conn[c].pc = "say" => got[d][conn[c].msg] = 0
         /\ conn[c].pc = "cast" /\ got[d][conn[c].msg] > 0 => conn[d].session = conn[c].session

\* The ones kept are for the project they were said for.
KeptForProject == \A i \in DOMAIN pending : pending[i].project = subject[pending[i].msg]

\* A relay has nothing before it has joined, then what it took with it.
Inbox ==
  \A d \in RelayConns :
    /\ conn[d].joins = 0 => flush[d] = {} /\ \A m \in Msgs : got[d][m] = 0
    /\ conn[d].pc # "flush" => flush[d] = {}
    /\ \A m \in flush[d] : got[d][m] = 0 /\ subject[m] = conn[d].project

\* Nobody has what was not said.
Unsaid ==
  \A m \in Msgs, d \in RelayConns : subject[m] = "none" => got[d][m] = 0 /\ m \notin flush[d]

MailInv ==
  /\ TypeOK /\ SessionsOfProject /\ InOneHand /\ KeptForProject /\ Inbox /\ Unsaid
  /\ OncePerConnection /\ ProjectsApart

-----------------------------------------------------------------------------
(* Statements of the source that the code does not keep.                   *)

\* The client id under which connection c has called JoinSession for s.
JoinedAs(c, s) ==
  CASE conn[c].pc = "register" /\ conn[c].target = s -> conn[c].next
    [] Registered(c) /\ conn[c].session = s          -> conn[c].id
    [] OTHER                                          -> Nobody

\* ws_handler.go:917 "We check for an existing replacement ... preventing the old
\* defer from incorrectly removing the new connection's session membership":
\* a connection's membership ends with a step of its own.
MembershipIsOwn ==
  [][\A c \in Conns, s \in live :
       JoinedAs(c, s) \in members[s] /\ conn'[c] = conn[c] =>
         JoinedAs(c, s) \in members'[s]]_vars

\* ws_handler.go:1168 "The relay retain map (relayPendingMsgs) ensures no message
\* loss during relay joins": a message is sent to some relay or kept, unless
\* fifty others were kept after it.
NoLossDuringJoins ==
  \A m \in handled \ overflowed :
    \/ \E c \in RelayConns : got[c][m] > 0 \/ m \in flush[c]
    \/ \E i \in DOMAIN pending : pending[i].msg = m
=============================================================================
