-------------------------- MODULE SessionHub_proofs ---------------------------
(***************************************************************************)
(* What the provers establish of SessionHub, for any projects, relays,      *)
(* connections, messages and bounds.                                        *)
(*                                                                         *)
(* Lists follow connections, and no relay is left a member of a session it  *)
(* has no connection in.  Both rest on relays joining once per connection,  *)
(* so that a relay is listed at most once and a replacement that is found   *)
(* is one that lasts (Listed).                                              *)
(*                                                                         *)
(* No message reaches a connection twice, nor the relay of another project: *)
(* that rests on a message being in one hand at a time (MailInv), the       *)
(* handler that routes it, the list of the kept ones or the flush of a      *)
(* joining relay.                                                           *)
(***************************************************************************)
EXTENDS SessionHub, SequenceTheorems, FiniteSetTheorems, WellFoundedInduction, TLAPS

\* A connection as the invariant sees it.
Same(x, y) == x.id = y.id /\ x.session = y.session /\ x.joins = y.joins

LEMMA Disjoint ==
  /\ PhoneConns \subseteq Conns /\ RelayConns \subseteq Conns
  /\ \A c \in Conns : c \in PhoneConns <=> c \notin RelayConns
BY HubParametersOK DEF Conns

LEMMA PhoneIdsDiffer ==
  ASSUME NEW i \in PhoneIds, NEW r
  PROVE  i # <<r, 0>>
BY DEF PhoneIds

\* Relay q has a connection in session s, or is about to.
Present(x, s, q) ==
  \/ Registered(x) /\ conn[x].session = s /\ conn[x].id = <<q, 0>>
  \/ conn[x].pc = "register" /\ conn[x].target = s /\ conn[x].next = <<q, 0>>

\* Members stay accounted for if every new one is, and every connection that was
\* there is still there or has another in its place.
LEMMA Ghosts ==
  ASSUME IInv,
         \A s \in live', q \in Relays : <<q, 0>> \in members'[s] =>
           \/ s \in live /\ <<q, 0>> \in members[s]
           \/ \E x \in RelayConns : Present(x, s, q)',
         \A s \in live', q \in Relays, x \in RelayConns :
           <<q, 0>> \in members'[s] /\ Present(x, s, q)
             => \E y \in RelayConns : Present(y, s, q)'
  PROVE  NoGhostRelay'
<1>1. \A s \in live, q \in Relays : <<q, 0>> \in members[s] => \E x \in RelayConns : Present(x, s, q)
  BY DEF IInv, NoGhostRelay, Present
<1>2. \A s \in live', q \in Relays : <<q, 0>> \in members'[s] =>
        \E x \in RelayConns : Present(x, s, q)'
  BY <1>1
<1> QED BY <1>2 DEF NoGhostRelay, Present

\* A step that moves no connection into, out of or between sessions.
LEMMA Untouched ==
  ASSUME IInv, conn' \in [Conns -> Conn],
         UNCHANGED <<live, created, members, listed, relayClients>>,
         \A x \in Conns : conn'[x] = conn[x]
           \/ /\ Same(conn'[x], conn[x])
              /\ conn[x].pc \notin {"join", "register", "closed"}
              /\ conn'[x].pc \notin {"join", "register", "closed"}
  PROVE  IInv'
<1> USE Disjoint
<1>1. \A x \in Conns : Registered(x)' <=> Registered(x)
  BY DEF Registered, Same
<1>2. \A x \in Conns : Same(conn'[x], conn[x])
  BY DEF Same
<1>3. \A x \in Conns : conn'[x].pc \in {"join", "register"} \/ conn[x].pc \in {"join", "register"}
        => conn'[x] = conn[x]
  OBVIOUS
<1>4. RoutesTyped' /\ Created'
  BY DEF IInv, RoutesTyped, Created
<1>5. Joining'
  BY <1>3 DEF IInv, Joining
<1>6. Listed'
  BY <1>1, <1>2 DEF IInv, Listed, Same
<1>7. RoutesFollowConnections'
  BY <1>1, <1>2 DEF IInv, RoutesFollowConnections, Same
<1>8. \A s \in live', q \in Relays, x \in RelayConns : Present(x, s, q) => Present(x, s, q)'
  BY <1>1, <1>2, <1>3 DEF Present, Same
<1>9. NoGhostRelay'
  BY <1>8, Ghosts
<1> QED BY <1>4, <1>5, <1>6, <1>7, <1>9 DEF IInv

-----------------------------------------------------------------------------
(* The session manager.                                                    *)

\* Whatever else of conn changes, the sessions there are only become more.
LEMMA CreateSessionAdds ==
  ASSUME IInv, NEW p \in Projects, CreateSession(p)
  PROVE  /\ created' \in Seq(Projects) /\ Len(created') <= MaxSessions
         /\ Len(created) <= Len(created') /\ Len(created') \in Nat
         /\ live \subseteq live' /\ live' \subseteq Sessions /\ live' \subseteq 1..Len(created')
         /\ \A s \in live' : s \in live \/ (s \in Sessions /\ members[s] = {})
         /\ SessionFor(p) \in 1..Len(created')
<1>1. /\ created \in Seq(Projects) /\ Len(created) \in Nat /\ Len(created) <= MaxSessions
      /\ live \subseteq Sessions /\ live \subseteq 1..Len(created) /\ MaxSessions \in Nat
  BY HubParametersOK DEF IInv, RoutesTyped, Created
<1>2. CASE \E s \in live : created[s] = p
  <2>1. UNCHANGED <<live, created>>
    BY <1>2 DEF CreateSession
  <2>2. SessionFor(p) = CHOOSE s \in live : created[s] = p
    BY <1>2 DEF SessionFor
  <2>3. SessionFor(p) \in live
    BY <1>2, <2>2
  <2>4. created' = created /\ live' = live
    BY <2>1
  <2>5. SessionFor(p) \in 1..Len(created)
    BY <1>1, <2>3
  <2>6. /\ created' \in Seq(Projects) /\ Len(created') <= MaxSessions
        /\ Len(created) <= Len(created') /\ Len(created') \in Nat
    BY <1>1, <2>4
  <2>7. /\ live \subseteq live' /\ live' \subseteq Sessions /\ live' \subseteq 1..Len(created')
        /\ \A s \in live' : s \in live \/ (s \in Sessions /\ members[s] = {})
    BY <1>1, <2>4, Zenon
  <2> QED BY <2>4, <2>5, <2>6, <2>7, Zenon
<1>3. CASE ~ \E s \in live : created[s] = p
  <2> DEFINE n == Len(created) + 1
  <2>1. /\ Len(created) < MaxSessions /\ created' = Append(created, p)
        /\ live' = live \cup {n} /\ SessionFor(p) = n
    BY <1>3 DEF CreateSession, SessionFor
  <2>2. created' \in Seq(Projects) /\ Len(created') = n
    BY <1>1, <2>1
  <2>3. n \in Sessions /\ n \notin 1..Len(created)
    BY <1>1, <2>1 DEF Sessions
  <2>4. \A s \in Sessions : s \notin 1..Len(created) => members[s] = {}
    BY DEF IInv, Created
  <2>8. n \in 1..n /\ \A i : i \in 1..Len(created) => i \in 1..n
    BY <1>1
  <2> HIDE DEF n
  <2>5. live' \subseteq 1..n
    BY <1>1, <2>1, <2>8
  <2>6. Len(created) <= n /\ n \in Nat /\ n <= MaxSessions
    BY <1>1, <2>1 DEF n
  <2>7. members[n] = {}
    BY <2>3, <2>4
  <2> QED BY <1>1, <2>1, <2>2, <2>3, <2>5, <2>6, <2>7, <2>8
<1> QED BY <1>2, <1>3

LEMMA GetOrCreateKeeps ==
  ASSUME IInv, NEW p \in Projects, GetOrCreateSession(p)
  PROVE  IInv'
<1>1. UNCHANGED <<members, conn, listed, relayClients>> /\ CreateSession(p)
  BY DEF GetOrCreateSession, routing
<1>2. /\ created' \in Seq(Projects) /\ Len(created') <= MaxSessions
      /\ Len(created) <= Len(created') /\ Len(created') \in Nat
      /\ live \subseteq live' /\ live' \subseteq Sessions /\ live' \subseteq 1..Len(created')
      /\ \A s \in live' : s \in live \/ (s \in Sessions /\ members[s] = {})
  BY <1>1, CreateSessionAdds
<1>3. \A i : i \in 1..Len(created) => i \in 1..Len(created')
  <2>1. Len(created) \in Nat
    BY DEF IInv, RoutesTyped
  <2> QED BY <1>2, <2>1
<1>4. RoutesTyped' /\ Created'
  BY <1>1, <1>2, <1>3 DEF IInv, RoutesTyped, Created
<1>5. Joining'
  BY <1>1, <1>3 DEF IInv, Joining
<1>6. Listed' /\ RoutesFollowConnections'
  BY <1>1 DEF IInv, Listed, RoutesFollowConnections, Registered
<1>7. \A s \in live', q \in Relays, x \in RelayConns : Present(x, s, q) => Present(x, s, q)'
  BY <1>1 DEF Present, Registered
<1>8. NoGhostRelay'
  BY <1>1, <1>2, <1>7, Ghosts
<1> QED BY <1>4, <1>5, <1>6, <1>8 DEF IInv

LEMMA CleanupKeeps ==
  ASSUME IInv, Cleanup \/ \E s \in Sessions : Elapse(s)
  PROVE  IInv'
<1>1. live' \subseteq live /\ UNCHANGED <<members, created, conn, listed, relayClients>>
  BY DEF Cleanup, Elapse, routing
<1>2. RoutesTyped' /\ Created'
  BY <1>1 DEF IInv, RoutesTyped, Created
<1>3. Joining' /\ Listed' /\ RoutesFollowConnections'
  BY <1>1 DEF IInv, Joining, Listed, RoutesFollowConnections, Registered
<1>4. NoGhostRelay'
  BY <1>1 DEF IInv, NoGhostRelay, Registered
<1> QED BY <1>2, <1>3, <1>4 DEF IInv

-----------------------------------------------------------------------------
(* Joining.                                                                *)

LEMMA BeginJoinKeeps ==
  ASSUME IInv, NEW c \in Conns, NEW p \in Projects, NEW id \in Ids, BeginJoin(c, p, id),
         conn[c].joins < MaxJoins, c \in RelayConns => conn[c].joins = 0,
         c \in PhoneConns => id \in PhoneIds
  PROVE  IInv'
<1> DEFINE t == SessionFor(p)
           r == [conn[c] EXCEPT !.pc = "join", !.target = t, !.next = id, !.project = p]
<1> USE Disjoint
<1>1. UNCHANGED <<members, listed, relayClients>> /\ CreateSession(p) /\ conn[c].pc = "idle"
  BY DEF BeginJoin
<1>2. /\ created' \in Seq(Projects) /\ Len(created') <= MaxSessions
      /\ Len(created) <= Len(created') /\ Len(created') \in Nat
      /\ live \subseteq live' /\ live' \subseteq Sessions /\ live' \subseteq 1..Len(created')
      /\ \A s \in live' : s \in live \/ (s \in Sessions /\ members[s] = {})
      /\ t \in 1..Len(created')
  BY <1>1, CreateSessionAdds
<1>3. t \in Sessions
  BY <1>2, HubParametersOK DEF Sessions
<1>4. conn \in [Conns -> Conn] /\ Len(created) \in Nat
  BY DEF IInv, RoutesTyped
<1> HIDE DEF t
<1>5. conn' = [conn EXCEPT ![c] = r]
  BY <1>4 DEF BeginJoin, t
<1>6. /\ r \in Conn /\ r.pc = "join" /\ r.target = t /\ r.next = id
      /\ Same(r, conn[c])
  <2>1. conn[c] \in Conn
    BY <1>4
  <2>2. r.pc = "join" /\ r.target = t /\ r.next = id /\ Same(r, conn[c])
    BY <2>1 DEF Conn, Same
  <2>3. r \in Conn
    BY <1>3, <2>1 DEF Conn
  <2> QED
    BY <2>2, <2>3
<1> HIDE DEF r
<1>7. /\ conn' \in [Conns -> Conn] /\ conn'[c] = r
      /\ \A x \in Conns : x # c => conn'[x] = conn[x]
  BY <1>4, <1>5, <1>6
<1>8. \A x \in Conns : Same(conn'[x], conn[x]) /\ (Registered(x)' <=> Registered(x))
  BY <1>1, <1>6, <1>7 DEF Same, Registered
<1>9. \A i : i \in 1..Len(created) => i \in 1..Len(created')
  BY <1>2, <1>4
<1>10. RoutesTyped' /\ Created'
  BY <1>1, <1>2, <1>7, <1>9 DEF IInv, RoutesTyped, Created
<1>11. Joining'
  BY <1>2, <1>6, <1>7, <1>9 DEF IInv, Joining, Same
<1>12. Listed' /\ RoutesFollowConnections'
  BY <1>1, <1>8 DEF IInv, Listed, RoutesFollowConnections, Same
<1>13. NoGhostRelay'
  <2>1. \A s \in live', q \in Relays, x \in RelayConns : Present(x, s, q) => Present(x, s, q)'
    BY <1>1, <1>7, <1>8 DEF Present, Same
  <2>2. \A s \in live', q \in Relays : <<q, 0>> \in members'[s] => s \in live
    BY <1>1, <1>2
  <2> QED BY <1>1, <2>1, <2>2, Ghosts
<1> QED BY <1>10, <1>11, <1>12, <1>13 DEF IInv

LEMMA JoinKeeps ==
  ASSUME IInv,
         \/ \E c \in PhoneConns, p \in Projects : JoinPhone(c, p)
         \/ \E c \in RelayConns, r \in Relays : JoinRelay(c, r)
  PROVE  IInv'
<1>1. ASSUME NEW c \in PhoneConns, NEW p \in Projects, JoinPhone(c, p)
      PROVE  IInv'
  <2>1. conn[c].joins \in 0..MaxJoins /\ c \in Conns /\ c \notin RelayConns /\ MaxJoins \in Nat
    BY Disjoint, HubParametersOK DEF IInv, RoutesTyped, Conn
  <2>2. <<c, conn[c].joins + 1>> \in PhoneIds
    BY <1>1, <2>1 DEF JoinPhone, PhoneIds
  <2>3. <<c, conn[c].joins + 1>> \in Ids
    BY <2>2 DEF PhoneIds, Ids
  <2> QED BY <1>1, <2>1, <2>2, <2>3, BeginJoinKeeps DEF JoinPhone
<1>2. ASSUME NEW c \in RelayConns, NEW r \in Relays, JoinRelay(c, r)
      PROVE  IInv'
  <2>1. c \in Conns /\ c \notin PhoneConns /\ RelayProject[r] \in Projects
    BY Disjoint, HubParametersOK
  <2>2. <<r, 0>> \in Ids
    BY DEF Ids
  <2>3. 0 < MaxJoins
    BY HubParametersOK
  <2> QED BY <1>2, <2>1, <2>2, <2>3, BeginJoinKeeps DEF JoinRelay
<1> QED BY <1>1, <1>2

\* JoinSession adds a member whose connection is about to be listed.
LEMMA JoinSessionKeeps ==
  ASSUME IInv, NEW c \in Conns, JoinSession(c)
  PROVE  IInv'
<1> DEFINE s == conn[c].target
           r == [conn[c] EXCEPT !.pc = "register"]
<1> USE Disjoint
<1>1. conn[c].pc = "join" /\ UNCHANGED <<live, created, listed, relayClients>>
  BY DEF JoinSession
<1>2. conn \in [Conns -> Conn] /\ members \in [Sessions -> SUBSET Ids]
      /\ conn[c].next \in Ids \cup {Nobody}
  BY DEF IInv, RoutesTyped, Conn
<1>3. conn' = [conn EXCEPT ![c] = r]
  BY <1>2 DEF JoinSession
<1>4. /\ r \in Conn /\ r.pc = "register" /\ r.target = s /\ r.next = conn[c].next
      /\ Same(r, conn[c])
  BY <1>2 DEF Conn, Same
<1>5. s \in 1..Len(created) /\ conn[c].next \in Ids
  BY <1>1 DEF IInv, Joining
<1> HIDE DEF r
<1>6. /\ conn' \in [Conns -> Conn] /\ conn'[c] = r
      /\ \A x \in Conns : x # c => conn'[x] = conn[x]
  BY <1>2, <1>3, <1>4
<1>7. \A x \in Conns : Same(conn'[x], conn[x]) /\ (Registered(x)' <=> Registered(x))
  BY <1>1, <1>4, <1>6 DEF Same, Registered
<1>8. /\ members' \in [Sessions -> SUBSET Ids]
      /\ \A x \in Sessions : members'[x] = members[x]
           \/ (x = s /\ members'[x] = members[x] \cup {conn[c].next})
  BY <1>2, <1>5 DEF JoinSession
<1>9. RoutesTyped'
  BY <1>1, <1>6, <1>8 DEF IInv, RoutesTyped
<1>10. Created'
  BY <1>1, <1>5, <1>8 DEF IInv, Created
<1>11. Joining'
  BY <1>1, <1>4, <1>6 DEF IInv, Joining, Same
<1>12. Listed' /\ RoutesFollowConnections'
  BY <1>1, <1>7 DEF IInv, Listed, RoutesFollowConnections, Same
<1>13. \A y \in live', q \in Relays : <<q, 0>> \in members'[y] =>
         (y \in live /\ <<q, 0>> \in members[y]) \/ \E x \in RelayConns : Present(x, y, q)'
  <2>1. SUFFICES ASSUME NEW y \in live, NEW q \in Relays, <<q, 0>> \in members'[y],
                        <<q, 0>> \notin members[y]
                 PROVE  \E x \in RelayConns : Present(x, y, q)'
    BY <1>1
  <2>2. y \in Sessions
    BY DEF IInv, RoutesTyped
  <2>3. y = s /\ <<q, 0>> = conn[c].next
    BY <1>8, <2>1, <2>2
  <2>4. c \in RelayConns
    BY <1>1, <2>3, PhoneIdsDiffer DEF IInv, Joining
  <2>5. Present(c, y, q)'
    BY <1>4, <1>6, <2>3 DEF Present
  <2> QED BY <2>4, <2>5
<1>14. \A y \in live', q \in Relays, x \in RelayConns : Present(x, y, q) => Present(x, y, q)'
  BY <1>1, <1>6, <1>7 DEF Present, Same
<1>15. NoGhostRelay'
  BY <1>13, <1>14, Ghosts
<1> QED BY <1>9, <1>10, <1>11, <1>12, <1>15 DEF IInv

\* A connection leaves its session's list: what is left of the others' entries.
LEMMA UnlistedKeeps ==
  ASSUME IInv, NEW c \in Conns
  PROVE  /\ Unlisted(c) \in [Sessions -> [Conns -> Nat]]
         /\ \A s \in Sessions, x \in Conns :
              x # c \/ s # conn[c].session => Unlisted(c)[s][x] = listed[s][x]
         /\ \A s \in Sessions : Unlisted(c)[s][c] <= listed[s][c]
         /\ c \in RelayConns => \A s \in Sessions : Unlisted(c)[s][c] = 0
<1> DEFINE s == conn[c].session
           f == Unlisted(c)
<1>1. listed \in [Sessions -> [Conns -> Nat]] /\ s \in Sessions \cup {None}
  BY DEF IInv, RoutesTyped, Conn
<1>2. \A x \in Sessions : listed[x][c] \in Nat
  BY <1>1
<1>3. c \in RelayConns => \A x \in Sessions : listed[x][c] > 0 => s = x /\ listed[x][c] = 1
  BY DEF IInv, Listed
<1>4. CASE s # None /\ listed[s][c] > 0
  <2>1. s \in Sessions /\ f = [listed EXCEPT ![s][c] = @ - 1] /\ listed[s][c] - 1 \in Nat
    BY <1>1, <1>2, <1>4 DEF Unlisted
  <2> HIDE DEF f, s
  <2>2. /\ f \in [Sessions -> [Conns -> Nat]] /\ f[s][c] = listed[s][c] - 1
        /\ \A y \in Sessions, x \in Conns : x # c \/ y # s => f[y][x] = listed[y][x]
    BY <1>1, <2>1
  <2>3. \A y \in Sessions : f[y][c] <= listed[y][c]
    BY <1>2, <2>1, <2>2
  <2>4. c \in RelayConns => \A y \in Sessions : f[y][c] = 0
    BY <1>2, <1>3, <2>1, <2>2
  <2> QED BY <2>2, <2>3, <2>4 DEF f, s
<1>5. CASE ~(s # None /\ listed[s][c] > 0)
  <2>1. f = listed
    BY <1>5 DEF Unlisted
  <2>2. None \notin Sessions
    BY HubParametersOK DEF None, Sessions
  <2>3. c \in RelayConns => \A y \in Sessions : listed[y][c] = 0
    BY <1>2, <1>3, <1>5, <2>2
  <2> QED BY <1>1, <1>2, <2>1, <2>3
<1> QED BY <1>4, <1>5

\* Who leaves takes only its own id out, and only if no other connection has it.
LEMMA LeavingMembers ==
  ASSUME IInv, NEW c \in Conns, LeaveSession(c) \/ UNCHANGED <<members, overdue>>
  PROVE  /\ members' \in [Sessions -> SUBSET Ids]
         /\ \A s \in Sessions : members'[s] \subseteq members[s]
<1> DEFINE s == conn[c].session
<1>1. members \in [Sessions -> SUBSET Ids] /\ live \subseteq Sessions
  BY DEF IInv, RoutesTyped
<1>2. members' = members \/ (s \in live /\ members' = [members EXCEPT ![s] = @ \ {conn[c].id}])
  BY DEF LeaveSession
<1> QED BY <1>1, <1>2

LEMMA DisconnectKeeps ==
  ASSUME IInv, NEW c \in Conns, Disconnect(c)
  PROVE  IInv'
<1> DEFINE r == [conn[c] EXCEPT !.pc = "closed"]
           s == conn[c].session
<1> USE Disjoint
<1>1. /\ conn[c].pc = "idle" /\ UNCHANGED <<live, created>> /\ LeaveSession(c)
      /\ relayClients' = relayClients \ {c} /\ listed' = Unlisted(c)
  BY DEF Disconnect
<1>2. conn \in [Conns -> Conn] /\ s \in Sessions \cup {None}
  BY DEF IInv, RoutesTyped, Conn
<1>3. conn' = [conn EXCEPT ![c] = r]
  BY <1>2 DEF Disconnect
<1>4. r \in Conn /\ r.pc = "closed" /\ Same(r, conn[c])
  BY <1>2 DEF Conn, Same
<1> HIDE DEF r
<1>5. /\ conn' \in [Conns -> Conn] /\ conn'[c] = r
      /\ \A x \in Conns : x # c => conn'[x] = conn[x]
  BY <1>2, <1>3, <1>4
<1>6. /\ listed' \in [Sessions -> [Conns -> Nat]]
      /\ \A y \in Sessions, x \in Conns : x # c => listed'[y][x] = listed[y][x]
      /\ \A y \in Sessions : listed'[y][c] <= listed[y][c]
      /\ c \in RelayConns => \A y \in Sessions : listed'[y][c] = 0
  BY <1>1, UnlistedKeeps
<1>7. members' \in [Sessions -> SUBSET Ids] /\ \A y \in Sessions : members'[y] \subseteq members[y]
  BY <1>1, LeavingMembers
<1>8. \A x \in Conns : Same(conn'[x], conn[x])
                         /\ (x # c => (Registered(x)' <=> Registered(x)))
  BY <1>4, <1>5 DEF Same, Registered
<1>9. ~Registered(c)'
  BY <1>4, <1>5 DEF Registered
<1>10. RoutesTyped'
  BY <1>1, <1>5, <1>6, <1>7 DEF IInv, RoutesTyped
<1>11. Created'
  BY <1>1, <1>7 DEF IInv, Created
<1>12. Joining'
  BY <1>1, <1>4, <1>5 DEF IInv, Joining
<1>13. Listed'
  <2>1. ASSUME NEW x \in PhoneConns,
               conn'[x].session # None \/ \E y \in Sessions : listed'[y][x] > 0
        PROVE  conn'[x].id \in PhoneIds
    <3>1. \A y \in Sessions : listed'[y][x] > 0 => listed[y][x] > 0
      <4>1. \A y \in Sessions : listed'[y][x] \in Nat /\ listed[y][x] \in Nat
        BY <1>6 DEF IInv, RoutesTyped
      <4> QED BY <1>6, <4>1
    <3> QED BY <1>8, <2>1, <3>1 DEF IInv, Listed, Same
  <2>2. \A x \in RelayConns : conn'[x].joins = 0 => conn'[x].session = None
    BY <1>8 DEF IInv, Listed, Same
  <2>3. ASSUME NEW x \in RelayConns, NEW y \in Sessions, listed'[y][x] > 0
        PROVE  Registered(x)' /\ conn'[x].session = y /\ listed'[y][x] = 1
    <3>1. x # c
      BY <1>6, <2>3
    <3> QED BY <1>6, <1>8, <2>3, <3>1 DEF IInv, Listed, Same
  <2> QED BY <2>1, <2>2, <2>3 DEF Listed
<1>14. RoutesFollowConnections'
  <2>1. \A x \in Conns : Registered(x)' => x # c /\ conn'[x].session \in Sessions
    BY <1>2, <1>5, <1>9 DEF Registered, Conn
  <2> QED BY <1>1, <1>6, <1>8, <1>9, <2>1 DEF IInv, RoutesFollowConnections, Same
<1>15. \A y \in live', q \in Relays : <<q, 0>> \in members'[y] => y \in live /\ <<q, 0>> \in members[y]
  BY <1>1, <1>7 DEF IInv, RoutesTyped
<1>16. ASSUME NEW y \in live', NEW q \in Relays, NEW x \in RelayConns,
              <<q, 0>> \in members'[y], Present(x, y, q)
       PROVE  \E z \in RelayConns : Present(z, y, q)'
  <2>1. CASE x # c
    BY <1>5, <1>8, <2>1, <1>16 DEF Present
  <2>2. CASE x = c
    <3>1. y \in live /\ y \in Sessions /\ s = y /\ conn[c].id = <<q, 0>> /\ s # None
      BY <1>1, <1>16, <2>2 DEF Present, Registered, IInv, RoutesTyped
    <3>2. HasReplacement(c, y)
      <4>1. members \in [Sessions -> SUBSET Ids]
        BY DEF IInv, RoutesTyped
      <4> QED BY <1>1, <1>16, <3>1, <4>1 DEF LeaveSession
    <3>3. PICK d \in Conns \ {c} : listed[y][d] > 0 /\ conn[d].id = conn[c].id
      BY <3>2 DEF HasReplacement
    <3>4. d \in RelayConns
      <4>1. d \in PhoneConns => conn[d].id \in PhoneIds
        BY <3>1, <3>3 DEF IInv, Listed
      <4> QED BY <3>1, <3>3, <4>1, PhoneIdsDiffer
    <3>5. Registered(d) /\ conn[d].session = y
      BY <3>1, <3>3, <3>4 DEF IInv, Listed
    <3>6. Present(d, y, q)'
      BY <1>8, <3>1, <3>3, <3>5 DEF Present, Same
    <3> QED BY <3>4, <3>6
  <2> QED BY <2>1, <2>2
<1>17. NoGhostRelay'
  BY <1>15, <1>16, Ghosts
<1> QED BY <1>10, <1>11, <1>12, <1>13, <1>14, <1>17 DEF IInv

LEMMA RegisterKeeps ==
  ASSUME IInv, NEW c \in Conns, Register(c)
  PROVE  IInv'
<1> DEFINE s == conn[c].target
           moves == conn[c].session # s
           left  == IF moves THEN Unlisted(c) ELSE listed
           r == [conn[c] EXCEPT !.pc = "flush", !.id = conn[c].next, !.session = s,
                                !.joins = conn[c].joins + 1]
<1> USE Disjoint
<1>1. /\ conn[c].pc = "register" /\ UNCHANGED <<live, created>>
      /\ LeaveSession(c) \/ UNCHANGED <<members, overdue>>
      /\ listed' = [left EXCEPT ![s][c] = @ + 1]
      /\ relayClients' = IF c \in RelayConns THEN relayClients \cup {c} ELSE relayClients
      /\ conn' = [conn EXCEPT ![c].pc = "flush", ![c].id = conn[c].next, ![c].session = s,
                              ![c].joins = @ + 1]
  BY DEF Register
<1>2. conn \in [Conns -> Conn] /\ conn[c] \in Conn /\ listed \in [Sessions -> [Conns -> Nat]]
      /\ relayClients \subseteq RelayConns /\ Len(created) \in Nat /\ Len(created) <= MaxSessions
  BY DEF IInv, RoutesTyped
<1>3. /\ s \in 1..Len(created) /\ conn[c].next \in Ids
      /\ c \in RelayConns => conn[c].joins = 0
      /\ c \in PhoneConns => conn[c].next \in PhoneIds
  BY <1>1 DEF IInv, Joining
<1>4. s \in Sessions /\ s # None
  BY <1>2, <1>3, HubParametersOK DEF Sessions, None
<1>5. conn[c].joins + 1 \in 0..MaxJoins /\ conn[c].joins + 1 # 0
  <2>1. conn[c].joins \in 0..MaxJoins /\ MaxJoins \in Nat
    BY <1>2, HubParametersOK DEF Conn
  <2>2. conn[c].joins < MaxJoins
    BY <1>1 DEF IInv, Joining
  <2> QED BY <2>1, <2>2
<1>6. conn' = [conn EXCEPT ![c] = r]
  BY <1>1, <1>2
<1>7. /\ r \in Conn /\ r.pc = "flush" /\ r.id = conn[c].next /\ r.session = s
      /\ r.joins = conn[c].joins + 1
  BY <1>2, <1>3, <1>4, <1>5 DEF Conn
<1> HIDE DEF r
<1>8. /\ conn' \in [Conns -> Conn] /\ conn'[c] = r
      /\ \A x \in Conns : x # c => conn'[x] = conn[x]
  BY <1>2, <1>6, <1>7
<1>9. /\ left \in [Sessions -> [Conns -> Nat]]
      /\ \A y \in Sessions, x \in Conns : x # c => left[y][x] = listed[y][x]
      /\ c \in RelayConns => \A y \in Sessions : left[y][c] = 0
  <2>1. CASE moves
    BY <2>1, UnlistedKeeps
  <2>2. CASE ~moves
    <3>1. c \in PhoneConns
      BY <1>3, <1>4, <2>2 DEF IInv, Listed
    <3> QED BY <1>2, <2>2, <3>1
  <2> QED BY <2>1, <2>2
<1> HIDE DEF left
<1>10. /\ listed' \in [Sessions -> [Conns -> Nat]]
       /\ listed'[s][c] = left[s][c] + 1
       /\ \A y \in Sessions, x \in Conns : x # c => listed'[y][x] = listed[y][x]
       /\ \A y \in Sessions : y # s => listed'[y][c] = left[y][c]
  <2>1. left[s][c] \in Nat
    BY <1>4, <1>9
  <2> QED BY <1>1, <1>4, <1>9, <2>1
<1>11. /\ \A x \in Conns : x # c => (Registered(x)' <=> Registered(x))
       /\ Registered(c)'
  BY <1>4, <1>7, <1>8 DEF Registered
<1>12. /\ members' \in [Sessions -> SUBSET Ids]
       /\ \A y \in Sessions : members'[y] \subseteq members[y]
  BY <1>1, LeavingMembers
<1>13. RoutesTyped'
  BY <1>1, <1>2, <1>8, <1>10, <1>12 DEF IInv, RoutesTyped
<1>14. Created'
  BY <1>1, <1>12 DEF IInv, Created
<1>15. Joining'
  BY <1>1, <1>7, <1>8 DEF IInv, Joining
<1>16. Listed'
  <2>1. ASSUME NEW x \in PhoneConns,
               conn'[x].session # None \/ \E y \in Sessions : listed'[y][x] > 0
        PROVE  conn'[x].id \in PhoneIds
    <3>1. CASE x = c
      BY <1>3, <1>7, <1>8, <2>1, <3>1
    <3>2. CASE x # c
      BY <1>8, <1>10, <2>1, <3>2 DEF IInv, Listed
    <3> QED BY <3>1, <3>2
  <2>2. \A x \in RelayConns : conn'[x].joins = 0 => conn'[x].session = None
    BY <1>5, <1>7, <1>8 DEF IInv, Listed
  <2>3. ASSUME NEW x \in RelayConns, NEW y \in Sessions, listed'[y][x] > 0
        PROVE  Registered(x)' /\ conn'[x].session = y /\ listed'[y][x] = 1
    <3>1. CASE x = c
      <4>1. left[y][c] = 0
        BY <1>9, <2>3, <3>1
      <4>2. y = s
        BY <1>10, <2>3, <3>1, <4>1
      <4> QED BY <1>7, <1>8, <1>10, <1>11, <3>1, <4>1, <4>2
    <3>2. CASE x # c
      BY <1>8, <1>10, <1>11, <2>3, <3>2 DEF IInv, Listed
    <3> QED BY <3>1, <3>2
  <2> QED BY <2>1, <2>2, <2>3 DEF Listed
<1>17. RoutesFollowConnections'
  <2>1. listed'[s][c] > 0
    <3>1. left[s][c] \in Nat
      BY <1>4, <1>9
    <3> QED BY <1>10, <3>1
  <2>2. ASSUME NEW x \in Conns, x # c, Registered(x)'
        PROVE  listed'[conn'[x].session][x] > 0
    <3>1. Registered(x) /\ conn[x].session \in Sessions
      BY <1>2, <1>11, <2>2 DEF Registered, Conn
    <3> QED BY <1>8, <1>10, <2>2, <3>1 DEF IInv, RoutesFollowConnections
  <2>3. \A x \in RelayConns : Registered(x)' <=> x \in relayClients'
    BY <1>1, <1>11 DEF IInv, RoutesFollowConnections
  <2> QED BY <1>7, <1>8, <2>1, <2>2, <2>3 DEF RoutesFollowConnections
<1>18. \A y \in live', q \in Relays : <<q, 0>> \in members'[y] => y \in live /\ <<q, 0>> \in members[y]
  BY <1>1, <1>12 DEF IInv, RoutesTyped
<1>19. ASSUME NEW y \in live', NEW q \in Relays, NEW x \in RelayConns, Present(x, y, q)
       PROVE  Present(x, y, q)'
  <2>1. CASE x # c
    BY <1>8, <1>11, <1>19, <2>1 DEF Present
  <2>2. CASE x = c
    <3>1. conn[c].session = None
      BY <1>3, <2>2 DEF IInv, Listed
    <3>2. s = y /\ conn[c].next = <<q, 0>>
      BY <1>19, <2>2, <3>1 DEF Present, Registered
    <3> QED BY <1>7, <1>8, <1>11, <2>2, <3>2 DEF Present
  <2> QED BY <2>1, <2>2
<1>20. NoGhostRelay'
  BY <1>18, <1>19, Ghosts
<1> QED BY <1>13, <1>14, <1>15, <1>16, <1>17, <1>20 DEF IInv

-----------------------------------------------------------------------------
(* Connecting, and messages.                                               *)

\* A connection's control moves among the states outside joining.
LEMMA ControlMoves ==
  ASSUME IInv, NEW c \in Conns, NEW r \in Conn, conn' = [conn EXCEPT ![c] = r],
         Same(r, conn[c]),
         conn[c].pc \notin {"join", "register", "closed"},
         r.pc \notin {"join", "register", "closed"},
         UNCHANGED <<live, created, members, listed, relayClients>>
  PROVE  IInv'
<1>1. conn \in [Conns -> Conn]
  BY DEF IInv, RoutesTyped
<1>2. /\ conn' \in [Conns -> Conn] /\ conn'[c] = r
      /\ \A x \in Conns : x # c => conn'[x] = conn[x]
  BY <1>1
<1> QED BY <1>2, Untouched

LEMMA QuietKeeps ==
  ASSUME IInv, NEW c \in Conns,
         \/ Connect(c) \/ Flush(c)
         \/ c \in PhoneConns /\ (SayStep(c) \/ \E m \in Msgs : Say(c, m))
  PROVE  IInv'
<1> USE DEF manager
<1>1. conn \in [Conns -> Conn] /\ conn[c] \in Conn
  BY DEF IInv, RoutesTyped
<1>2. UNCHANGED <<live, created, members, listed, relayClients>>
  BY DEF Connect, Flush, SayStep, Say, BroadcastToSession, BroadcastToAllTerminals, Keep
<1>3. conn[c].pc \in {"new", "flush", "idle", "say", "cast", "keep"}
  BY DEF Connect, Flush, SayStep, Say, BroadcastToSession, BroadcastToAllTerminals, Keep
<1>4. ASSUME NEW pc \in {"idle", "cast", "keep"}, conn' = [conn EXCEPT ![c].pc = pc]
      PROVE  IInv'
  <2> DEFINE r == [conn[c] EXCEPT !.pc = pc]
  <2>1. r \in Conn /\ r.pc = pc /\ Same(r, conn[c])
    BY <1>1, <1>4 DEF Conn, Same
  <2>2. conn' = [conn EXCEPT ![c] = r]
    BY <1>1, <1>4
  <2> HIDE DEF r
  <2> QED BY <1>2, <1>3, <2>1, <2>2, ControlMoves
<1>5. ASSUME NEW pc \in {"idle", "say"}, NEW m \in Msgs \cup {NoMsg},
             conn' = [conn EXCEPT ![c].pc = pc, ![c].msg = m]
      PROVE  IInv'
  <2> DEFINE r == [conn[c] EXCEPT !.pc = pc, !.msg = m]
  <2>1. r \in Conn /\ r.pc = pc /\ Same(r, conn[c])
    BY <1>1, <1>5 DEF Conn, Same
  <2>2. conn' = [conn EXCEPT ![c] = r]
    BY <1>1, <1>5
  <2> HIDE DEF r
  <2> QED BY <1>2, <1>3, <2>1, <2>2, ControlMoves
<1>6. CASE Connect(c) \/ Flush(c)
  BY <1>4, <1>6 DEF Connect, Flush
<1>7. CASE BroadcastToSession(c)
  BY <1>4, <1>7 DEF BroadcastToSession
<1>8. CASE BroadcastToAllTerminals(c)
  <2>1. \/ conn' = [conn EXCEPT ![c].pc = "keep"]
        \/ conn' = [conn EXCEPT ![c].pc = "idle", ![c].msg = NoMsg]
    BY <1>8 DEF BroadcastToAllTerminals
  <2> QED BY <1>4, <1>5, <2>1
<1>9. CASE Keep(c)
  BY <1>5, <1>9 DEF Keep
<1>10. CASE \E m \in Msgs : Say(c, m)
  BY <1>5, <1>10 DEF Say
<1> QED BY <1>6, <1>7, <1>8, <1>9, <1>10 DEF SayStep

-----------------------------------------------------------------------------
LEMMA InitIInv == Init => IInv
<1> SUFFICES ASSUME Init PROVE IInv
  OBVIOUS
<1> DEFINE r == [pc |-> "new", id |-> Nobody, project |-> "none", target |-> None,
                 next |-> Nobody, session |-> None, joins |-> 0, msg |-> NoMsg]
<1>1. r \in Conn /\ r.pc = "new" /\ r.session = None /\ r.joins = 0
  BY HubParametersOK DEF Conn
<1>2. conn = [c \in Conns |-> r]
  BY DEF Init
<1> HIDE DEF r
<1>3. conn \in [Conns -> Conn] /\ \A c \in Conns : conn[c] = r
  BY <1>1, <1>2
<1>4. /\ live = {} /\ created = <<>> /\ relayClients = {}
      /\ members = [s \in Sessions |-> {}] /\ listed = [s \in Sessions |-> [c \in Conns |-> 0]]
  BY DEF Init
<1>5. /\ members \in [Sessions -> SUBSET Ids] /\ \A s \in Sessions : members[s] = {}
      /\ listed \in [Sessions -> [Conns -> Nat]]
      /\ \A s \in Sessions, c \in Conns : ~(listed[s][c] > 0)
  BY <1>4
<1>6. created \in Seq(Projects) /\ Len(created) = 0 /\ 0 <= MaxSessions
  BY <1>4, HubParametersOK
<1>7. RoutesTyped /\ Created
  BY <1>3, <1>4, <1>5, <1>6 DEF RoutesTyped, Created
<1>8. Joining /\ Listed /\ RoutesFollowConnections /\ NoGhostRelay
  BY <1>1, <1>3, <1>4, <1>5, Disjoint
     DEF Joining, Listed, RoutesFollowConnections, NoGhostRelay, Registered
<1> QED BY <1>7, <1>8 DEF IInv

LEMMA NextIInv == IInv /\ [Next]_vars => IInv'
<1> SUFFICES ASSUME IInv, [Next]_vars PROVE IInv'
  OBVIOUS
<1>1. CASE UNCHANGED vars
  BY <1>1, Untouched DEF vars, manager, routing, IInv, RoutesTyped
<1>2. CASE \/ \E p \in Projects : GetOrCreateSession(p)
           \/ Cleanup \/ \E s \in Sessions : Elapse(s)
  BY <1>2, GetOrCreateKeeps, CleanupKeeps
<1>3. ASSUME NEW c \in Conns, Connect(c) \/ JoinStep(c) \/ Disconnect(c) PROVE IInv'
  BY <1>3, QuietKeeps, JoinSessionKeeps, RegisterKeeps, DisconnectKeeps DEF JoinStep
<1>4. CASE \/ \E c \in PhoneConns, p \in Projects : JoinPhone(c, p)
           \/ \E c \in RelayConns, r \in Relays : JoinRelay(c, r)
  BY <1>4, JoinKeeps
<1>5. CASE \/ \E c \in PhoneConns, m \in Msgs : Say(c, m)
           \/ \E c \in PhoneConns : SayStep(c)
  BY <1>5, QuietKeeps, Disjoint
<1> QED BY <1>1, <1>2, <1>3, <1>4, <1>5 DEF Next

\* The invariant holds in every reachable state.
THEOREM Invariance == Spec => []IInv
<1>1. Init => IInv
  BY InitIInv
<1>2. IInv /\ [Next]_vars => IInv'
  BY NextIInv
<1> QED BY <1>1, <1>2, PTL DEF Spec

\* Every connection in a session is in its list, and the relays that get messages
\* are the ones connected, whatever is joined, left and cleaned up meanwhile
\* (registerJoinClient, removeClientFromSession).
THEOREM Routes == Spec => []RoutesFollowConnections
<1>1. IInv => RoutesFollowConnections
  BY DEF IInv
<1> QED BY <1>1, Invariance, PTL

\* No relay stays a member of a session it has no connection in, in whatever order
\* its connections are set up and cleaned up (JoinSession, LeaveSession).
THEOREM NoGhost == Spec => []NoGhostRelay
<1>1. IInv => NoGhostRelay
  BY DEF IInv
<1> QED BY <1>1, Invariance, PTL
-----------------------------------------------------------------------------
(* The messages a relay leaves behind.  The library's induction takes an    *)
(* operator; the least element of a set of numbers does without.            *)

LEMMA LeastNat ==
  ASSUME NEW T, T \subseteq Nat, T # {}
  PROVE  \E n \in T : \A m \in T : n <= m
<1>1. PICK x \in T : \A y \in T : ~(<<y, x>> \in OpToRel(<, Nat))
  <2>1. IsWellFoundedOn(OpToRel(<, Nat), Nat)
    BY NatLessThanWellFounded
  <2> QED BY <2>1, WFMin
<1>2. \A y \in T : ~(y < x) /\ x \in Nat /\ y \in Nat
  BY <1>1 DEF OpToRel
<1>3. \A y \in T : x <= y
  BY <1>2
<1> QED BY <1>1, <1>3

LEMMA InductionOnSet ==
  ASSUME NEW S, 0 \in S, \A n \in Nat : n \in S => n + 1 \in S
  PROVE  Nat \subseteq S
<1> SUFFICES ASSUME Nat \ S # {} PROVE FALSE
  OBVIOUS
<1>1. PICK n \in Nat \ S : \A m \in Nat \ S : n <= m
  BY LeastNat
<1>2. n # 0 /\ n - 1 \in Nat
  BY <1>1
<1>3. n - 1 \in S
  BY <1>1, <1>2
<1> QED BY <1>1, <1>2, <1>3

\* Every rank is taken: the elements of a set of numbers can be counted off.
LEMMA Ranks ==
  \A n \in Nat : \A K \in SUBSET (1..n) :
    /\ IsFiniteSet(K) /\ Cardinality(K) \in 0..n
    /\ \A k \in 1..Cardinality(K) : \E i \in K : Cardinality({j \in K : j <= i}) = k
<1> DEFINE Counted(K, n) ==
             /\ IsFiniteSet(K) /\ Cardinality(K) \in 0..n
             /\ \A k \in 1..Cardinality(K) : \E i \in K : Cardinality({j \in K : j <= i}) = k
           S == {n \in Nat : \A K \in SUBSET (1..n) : Counted(K, n)}
<1>1. 0 \in S
  <2>1. \A K \in SUBSET (1..0) : K = {}
    OBVIOUS
  <2>2. Counted({}, 0)
    BY FS_EmptySet
  <2> QED BY <2>1, <2>2
<1>2. ASSUME NEW n \in Nat, n \in S
      PROVE  n + 1 \in S
  <2> SUFFICES ASSUME NEW K \in SUBSET (1..(n + 1))
               PROVE  Counted(K, n + 1)
    OBVIOUS
  <2> DEFINE L == K \ {n + 1}
  <2>1. L \in SUBSET (1..n)
    OBVIOUS
  <2>2. Counted(L, n)
    BY <1>2, <2>1
  <2>3. CASE n + 1 \notin K
    <3>1. L = K
      BY <2>3
    <3>2. Counted(K, n)
      BY <2>2, <3>1, Zenon
    <3>3. \A x : x \in 0..n => x \in 0..(n + 1)
      OBVIOUS
    <3> QED BY <3>2, <3>3, Zenon
  <2>4. CASE n + 1 \in K
    <3>1. K = L \cup {n + 1} /\ n + 1 \notin L
      BY <2>4
    <3>2. IsFiniteSet(K) /\ Cardinality(K) = Cardinality(L) + 1
      BY <2>2, <3>1, FS_AddElement
    <3>3. ASSUME NEW k \in 1..Cardinality(K)
          PROVE  \E i \in K : Cardinality({j \in K : j <= i}) = k
      <4>1. CASE k = Cardinality(K)
        <5>1. \A j \in K : j <= n + 1
          OBVIOUS
        <5>2. {j \in K : j <= n + 1} = K
          BY <5>1
        <5> QED BY <3>1, <4>1, <5>2
      <4>2. CASE k # Cardinality(K)
        <5>1. k \in 1..Cardinality(L)
          BY <2>2, <3>2, <3>3, <4>2
        <5>2. PICK i \in L : Cardinality({j \in L : j <= i}) = k
          BY <2>2, <5>1
        <5>3. {j \in K : j <= i} = {j \in L : j <= i}
          BY <2>1, <3>1
        <5> QED BY <3>1, <5>2, <5>3
      <4> QED BY <4>1, <4>2
    <3> QED BY <2>2, <3>2, <3>3
  <2> QED BY <2>3, <2>4
<1> HIDE DEF S
<1>3. Nat \subseteq S
  BY <1>1, <1>2, InductionOnSet
<1> QED BY <1>3 DEF S

\* What is left of the messages that wait is some of them, and none of mine.
LEMMA OthersLeft ==
  ASSUME NEW P, pending \in Seq(P), NEW mine
  PROVE  /\ Others(mine) \in Seq(P) /\ Len(Others(mine)) <= Len(pending)
         /\ \A k \in DOMAIN Others(mine) : \E i \in DOMAIN pending :
              Others(mine)[k] = pending[i] /\ pending[i] \notin mine
<1> DEFINE K == {i \in DOMAIN pending : pending[i] \notin mine}
           nth(k) == CHOOSE i \in K : Cardinality({j \in K : j <= i}) = k
<1>1. K \in SUBSET (1..Len(pending)) /\ Len(pending) \in Nat
  OBVIOUS
<1>2. /\ Cardinality(K) \in 0..Len(pending)
      /\ \A k \in 1..Cardinality(K) : \E i \in K : Cardinality({j \in K : j <= i}) = k
  BY <1>1, Ranks
<1>3. Others(mine) = [k \in 1..Cardinality(K) |-> pending[nth(k)]]
  BY DEF Others
<1>4. \A k \in 1..Cardinality(K) : nth(k) \in K
  BY <1>2
<1> HIDE DEF nth
<1>5. \A k \in 1..Cardinality(K) : pending[nth(k)] \in P
  <2>1. \A i \in K : pending[i] \in P
    OBVIOUS
  <2> HIDE DEF K
  <2> QED BY <1>4, <2>1
<1>6. Others(mine) \in Seq(P) /\ Len(Others(mine)) = Cardinality(K)
  BY <1>2, <1>3, <1>5
<1>7. \A k \in 1..Cardinality(K) : Others(mine)[k] = pending[nth(k)]
  BY <1>3
<1>8. DOMAIN Others(mine) = 1..Cardinality(K)
  BY <1>3
<1> QED BY <1>2, <1>4, <1>6, <1>7, <1>8

-----------------------------------------------------------------------------
(* The mail, step by step.  IInv, which is proved above, goes into it.      *)

\* A step that does not touch the mail, nor who is speaking, nor where a relay
\* that has joined is.
LEMMA MailUntouched ==
  ASSUME MailInv, RoutesTyped', overdue' \subseteq Sessions, SessionsOfProject', UNCHANGED mail,
         \A c \in PhoneConns : Speaking(c)' =>
           /\ conn'[c].pc = conn[c].pc /\ conn'[c].msg = conn[c].msg
           /\ conn'[c].project = conn[c].project /\ conn'[c].session = conn[c].session,
         \A d \in RelayConns :
           /\ conn'[d].joins = conn[d].joins
           /\ conn[d].joins # 0 => /\ conn'[d].project = conn[d].project
                                   /\ conn'[d].session = conn[d].session
           /\ conn[d].pc = "flush" => conn'[d].pc = "flush"
  PROVE  MailInv'
<1>1. TypeOK'
  BY DEF MailInv, TypeOK, mail
<1>2. \A c \in PhoneConns : Speaking(c)' => Speaking(c)
  BY DEF Speaking
<1>3. InOneHand'
  <2> SUFFICES ASSUME NEW c \in PhoneConns, Speaking(c)'
               PROVE  /\ conn'[c].msg \in Msgs /\ subject'[conn'[c].msg] = conn'[c].project
                      /\ conn'[c].session # None
                      /\ \A b \in PhoneConns \ {c} : Speaking(b)' => conn'[b].msg # conn'[c].msg
                      /\ \A i \in DOMAIN pending' : pending'[i].msg # conn'[c].msg
                      /\ \A d \in RelayConns :
                           /\ conn'[c].msg \notin flush'[d]
                           /\ conn'[c].pc = "say" => got'[d][conn'[c].msg] = 0
                           /\ conn'[c].pc = "cast" /\ got'[d][conn'[c].msg] > 0
                                => conn'[d].session = conn'[c].session
    BY DEF InOneHand
  <2>1. /\ Speaking(c) /\ conn'[c].pc = conn[c].pc /\ conn'[c].msg = conn[c].msg
        /\ conn'[c].project = conn[c].project /\ conn'[c].session = conn[c].session
    BY <1>2
  <2>2. /\ conn[c].msg \in Msgs /\ subject[conn[c].msg] = conn[c].project /\ conn[c].session # None
        /\ \A b \in PhoneConns \ {c} : Speaking(b) => conn[b].msg # conn[c].msg
        /\ \A i \in DOMAIN pending : pending[i].msg # conn[c].msg
        /\ \A d \in RelayConns :
             /\ conn[c].msg \notin flush[d]
             /\ conn[c].pc = "say" => got[d][conn[c].msg] = 0
             /\ conn[c].pc = "cast" /\ got[d][conn[c].msg] > 0 => conn[d].session = conn[c].session
    BY <2>1 DEF MailInv, InOneHand
  <2>3. \A b \in PhoneConns \ {c} : Speaking(b)' => conn'[b].msg # conn'[c].msg
    BY <1>2, <2>1, <2>2
  <2>4. \A d \in RelayConns : got[d][conn[c].msg] > 0 => conn'[d].session = conn[d].session
    <3>1. \A d \in RelayConns : conn[d].joins = 0 => got[d][conn[c].msg] = 0
      BY <2>2 DEF MailInv, Inbox
    <3> QED BY <3>1
  <2> QED BY <2>1, <2>2, <2>3, <2>4 DEF mail
<1>4. Inbox' /\ ProjectsApart'
  <2> SUFFICES ASSUME NEW d \in RelayConns
               PROVE  /\ conn'[d].joins = 0 => flush'[d] = {} /\ \A m \in Msgs : got'[d][m] = 0
                      /\ conn'[d].pc # "flush" => flush'[d] = {}
                      /\ \A m \in flush'[d] : got'[d][m] = 0 /\ subject'[m] = conn'[d].project
                      /\ \A m \in Msgs : got'[d][m] > 0 => conn'[d].project = subject'[m]
    BY DEF Inbox, ProjectsApart
  <2>1. /\ conn[d].joins = 0 => flush[d] = {} /\ \A m \in Msgs : got[d][m] = 0
        /\ conn[d].pc # "flush" => flush[d] = {}
        /\ \A m \in flush[d] : got[d][m] = 0 /\ subject[m] = conn[d].project
        /\ \A m \in Msgs : got[d][m] > 0 => conn[d].project = subject[m]
    BY DEF MailInv, Inbox, ProjectsApart
  <2>2. flush' = flush /\ got' = got /\ subject' = subject
    BY DEF mail
  <2> QED BY <2>1, <2>2
<1>5. KeptForProject' /\ Unsaid' /\ OncePerConnection'
  BY DEF MailInv, KeptForProject, Unsaid, OncePerConnection, mail
<1> QED BY <1>1, <1>3, <1>4, <1>5 DEF MailInv

\* What was created stays where it is.
LEMMA CreatedStays ==
  ASSUME IInv, NEW p \in Projects, CreateSession(p)
  PROVE  /\ \A s \in 1..Len(created) : s \in 1..Len(created') /\ created'[s] = created[s]
         /\ created'[SessionFor(p)] = p
<1>1. created \in Seq(Projects) /\ Len(created) \in Nat
  BY DEF IInv, RoutesTyped
<1>2. CASE \E s \in live : created[s] = p
  <2>1. created' = created
    BY <1>2 DEF CreateSession
  <2>2. SessionFor(p) = CHOOSE s \in live : created[s] = p
    BY <1>2 DEF SessionFor
  <2>3. created[SessionFor(p)] = p
    BY <1>2, <2>2
  <2> QED BY <2>1, <2>3
<1>3. CASE ~ \E s \in live : created[s] = p
  <2>1. created' = Append(created, p) /\ SessionFor(p) = Len(created) + 1
    BY <1>3 DEF CreateSession, SessionFor
  <2> QED BY <1>1, <2>1
<1> QED BY <1>2, <1>3

\* Sessions that are added take none from its project.
LEMMA ProjectsStay ==
  ASSUME MailInv, IInv, NEW x \in Conns, conn'[x] = conn[x],
         \A s \in 1..Len(created) : s \in 1..Len(created') /\ created'[s] = created[s]
  PROVE  IF conn'[x].pc \in {"join", "register"} THEN created'[conn'[x].target] = conn'[x].project
         ELSE conn'[x].session # None =>
                /\ conn'[x].session \in 1..Len(created')
                /\ created'[conn'[x].session] = conn'[x].project
<1>1. CASE conn[x].pc \in {"join", "register"}
  <2>1. conn[x].target \in 1..Len(created) /\ created[conn[x].target] = conn[x].project
    BY <1>1 DEF IInv, Joining, MailInv, SessionsOfProject
  <2> QED BY <1>1, <2>1
<1>2. CASE conn[x].pc \notin {"join", "register"}
  <2>1. conn[x].session # None =>
          conn[x].session \in 1..Len(created) /\ created[conn[x].session] = conn[x].project
    BY <1>2 DEF MailInv, SessionsOfProject
  <2> QED BY <1>2, <2>1
<1> QED BY <1>1, <1>2

LEMMA ManagerMail ==
  ASSUME IInv, MailInv, RoutesTyped',
         \/ \E p \in Projects : GetOrCreateSession(p)
         \/ Cleanup \/ \E s \in Sessions : Elapse(s)
         \/ UNCHANGED vars
  PROVE  MailInv'
<1>1. UNCHANGED <<conn, mail>>
  BY DEF GetOrCreateSession, Cleanup, Elapse, vars, routing
<1>2. overdue' \subseteq Sessions
  BY DEF GetOrCreateSession, Cleanup, Elapse, vars, manager, MailInv, TypeOK
<1>3. \A s \in 1..Len(created) : s \in 1..Len(created') /\ created'[s] = created[s]
  <2>1. CASE \E p \in Projects : GetOrCreateSession(p)
    BY <2>1, CreatedStays DEF GetOrCreateSession
  <2>2. CASE created' = created
    BY <2>2
  <2> QED BY <2>1, <2>2 DEF Cleanup, Elapse, vars, manager
<1>4. SessionsOfProject'
  BY <1>1, <1>3, ProjectsStay DEF SessionsOfProject
<1> QED BY <1>1, <1>2, <1>4, MailUntouched

\* One connection's step outside the mail.
LEMMA OneConnection ==
  ASSUME IInv, MailInv, RoutesTyped', overdue' \subseteq Sessions, UNCHANGED mail,
         NEW c \in Conns, NEW r, conn' = [conn EXCEPT ![c] = r],
         \A s \in 1..Len(created) : s \in 1..Len(created') /\ created'[s] = created[s],
         r.joins = conn[c].joins, r.session = conn[c].session,
         r.pc \notin {"say", "cast", "keep"}, conn[c].pc # "flush",
         c \in RelayConns /\ conn[c].joins # 0 => r.project = conn[c].project,
         IF r.pc \in {"join", "register"} THEN created'[r.target] = r.project
         ELSE r.session # None => r.session \in 1..Len(created') /\ created'[r.session] = r.project
  PROVE  MailInv'
<1>1. conn \in [Conns -> Conn] /\ PhoneConns \subseteq Conns /\ RelayConns \subseteq Conns
  BY Disjoint DEF IInv, RoutesTyped
<1>2. conn'[c] = r /\ \A x \in Conns : x # c => conn'[x] = conn[x]
  BY <1>1
<1>3. SessionsOfProject'
  BY <1>2, ProjectsStay DEF SessionsOfProject
<1>4. \A b \in PhoneConns : Speaking(b)' =>
        /\ conn'[b].pc = conn[b].pc /\ conn'[b].msg = conn[b].msg
        /\ conn'[b].project = conn[b].project /\ conn'[b].session = conn[b].session
  BY <1>1, <1>2 DEF Speaking
<1>5. \A d \in RelayConns :
        /\ conn'[d].joins = conn[d].joins
        /\ conn[d].joins # 0 => /\ conn'[d].project = conn[d].project
                                /\ conn'[d].session = conn[d].session
        /\ conn[d].pc = "flush" => conn'[d].pc = "flush"
  BY <1>1, <1>2
<1> QED BY <1>3, <1>4, <1>5, MailUntouched

LEMMA BeginJoinMail ==
  ASSUME IInv, MailInv, RoutesTyped', NEW c \in Conns, NEW p \in Projects, NEW id,
         BeginJoin(c, p, id), c \in RelayConns => conn[c].joins = 0
  PROVE  MailInv'
<1> DEFINE t == SessionFor(p)
           r == [conn[c] EXCEPT !.pc = "join", !.target = t, !.next = id, !.project = p]
<1>1. conn \in [Conns -> Conn] /\ conn[c] \in Conn
  BY DEF IInv, RoutesTyped
<1>2. /\ conn[c].pc = "idle" /\ CreateSession(p) /\ UNCHANGED <<overdue, mail>>
      /\ conn' = [conn EXCEPT ![c].pc = "join", ![c].target = t, ![c].next = id, ![c].project = p]
  BY DEF BeginJoin
<1>3. /\ \A s \in 1..Len(created) : s \in 1..Len(created') /\ created'[s] = created[s]
      /\ created'[t] = p
  BY <1>2, CreatedStays
<1> HIDE DEF t
<1>4. conn' = [conn EXCEPT ![c] = r]
  BY <1>1, <1>2
<1>5. /\ r.pc = "join" /\ r.target = t /\ r.project = p
      /\ r.joins = conn[c].joins /\ r.session = conn[c].session
  BY <1>1 DEF Conn
<1>6. overdue' \subseteq Sessions
  BY <1>2 DEF MailInv, TypeOK
<1>7. IF r.pc \in {"join", "register"} THEN created'[r.target] = r.project
      ELSE r.session # None => r.session \in 1..Len(created') /\ created'[r.session] = r.project
  BY <1>3, <1>5
<1>8. r.pc \notin {"say", "cast", "keep"} /\ conn[c].pc # "flush"
  BY <1>2, <1>5
<1> HIDE DEF r
<1> QED BY <1>2, <1>3, <1>4, <1>5, <1>6, <1>7, <1>8, OneConnection

\* The members of a session, of which the mail knows nothing.
LEMMA MembershipMail ==
  ASSUME IInv, MailInv, RoutesTyped', NEW c \in Conns, JoinSession(c) \/ Connect(c) \/ Disconnect(c)
  PROVE  MailInv'
<1>1. conn \in [Conns -> Conn] /\ conn[c] \in Conn
  BY DEF IInv, RoutesTyped
<1>2. overdue' \subseteq Sessions
  BY DEF JoinSession, Connect, Disconnect, LeaveSession, manager, MailInv, TypeOK
<1>3. UNCHANGED <<created, mail>>
  BY DEF JoinSession, Connect, Disconnect, manager
<1>4. ASSUME NEW pc \in {"register", "idle", "closed"}, conn' = [conn EXCEPT ![c].pc = pc],
             pc = "register" <=> conn[c].pc = "join", conn[c].pc \in {"join", "new", "idle"}
      PROVE  MailInv'
  <2> DEFINE r == [conn[c] EXCEPT !.pc = pc]
  <2>1. conn' = [conn EXCEPT ![c] = r]
    BY <1>1, <1>4
  <2>2. /\ r.pc = pc /\ r.target = conn[c].target /\ r.project = conn[c].project
        /\ r.joins = conn[c].joins /\ r.session = conn[c].session
    BY <1>1 DEF Conn
  <2>3. IF conn[c].pc = "join" THEN created[conn[c].target] = conn[c].project
        ELSE conn[c].session # None =>
               /\ conn[c].session \in 1..Len(created)
               /\ created[conn[c].session] = conn[c].project
    BY <1>4 DEF MailInv, SessionsOfProject
  <2>4. created' = created
    BY <1>3
  <2>5. IF r.pc \in {"join", "register"} THEN created'[r.target] = r.project
        ELSE r.session # None => r.session \in 1..Len(created') /\ created'[r.session] = r.project
    BY <1>4, <2>2, <2>3, <2>4
  <2> HIDE DEF r
  <2> QED BY <1>2, <1>3, <1>4, <2>1, <2>2, <2>4, <2>5, OneConnection
<1>5. CASE JoinSession(c)
  BY <1>4, <1>5 DEF JoinSession
<1>6. CASE Connect(c)
  BY <1>4, <1>6 DEF Connect
<1>7. CASE Disconnect(c)
  BY <1>4, <1>7 DEF Disconnect
<1> QED BY <1>5, <1>6, <1>7

\* A connection enters its session; a relay takes what waits for its project.
LEMMA RegisterMail ==
  ASSUME IInv, MailInv, RoutesTyped', NEW c \in Conns, Register(c)
  PROVE  MailInv'
<1> DEFINE mine == IF c \in RelayConns THEN Mine(conn[c].project) ELSE {}
           s == conn[c].target
           r == [conn[c] EXCEPT !.pc = "flush", !.id = conn[c].next, !.session = s,
                                !.joins = conn[c].joins + 1]
           P == [msg : Msgs, project : Projects]
<1> USE Disjoint
<1>1. conn \in [Conns -> Conn] /\ conn[c] \in Conn /\ pending \in Seq(P)
      /\ flush \in [RelayConns -> SUBSET Msgs] /\ Len(pending) <= PendingMax
  BY DEF IInv, RoutesTyped, MailInv, TypeOK
<1>1a. \A i \in DOMAIN pending : pending[i].msg \in Msgs /\ pending[i].project \in Projects
  <2>1. \A i \in DOMAIN pending : pending[i] \in P
    <3> HIDE DEF P
    <3> QED BY <1>1
  <2> QED BY <2>1
<1>2. /\ conn[c].pc = "register" /\ pending' = Others(mine)
      /\ flush' = IF c \in RelayConns THEN [flush EXCEPT ![c] = {pm.msg : pm \in mine}] ELSE flush
      /\ UNCHANGED <<created, got, subject, handled, overflowed>>
      /\ conn' = [conn EXCEPT ![c].pc = "flush", ![c].id = conn[c].next, ![c].session = s,
                              ![c].joins = @ + 1]
      /\ LeaveSession(c) \/ UNCHANGED <<members, overdue>>
  BY DEF Register
<1>3. /\ s \in 1..Len(created) /\ created[s] = conn[c].project /\ s # None
      /\ c \in RelayConns => conn[c].joins = 0
      /\ conn[c].joins + 1 # 0
  BY <1>1, <1>2, HubParametersOK DEF IInv, Joining, MailInv, SessionsOfProject, None, Conn
<1>4. conn' = [conn EXCEPT ![c] = r]
  BY <1>1, <1>2
<1>5. /\ r.pc = "flush" /\ r.session = s /\ r.project = conn[c].project
      /\ r.joins = conn[c].joins + 1
  BY <1>1 DEF Conn
<1> HIDE DEF r
<1>6. conn'[c] = r /\ \A x \in Conns : x # c => conn'[x] = conn[x]
  BY <1>1, <1>4
<1>7. /\ pending' \in Seq(P) /\ Len(pending') <= Len(pending) /\ Len(pending') \in Nat
      /\ \A k \in DOMAIN pending' : \E i \in DOMAIN pending :
           pending'[k] = pending[i] /\ pending[i] \notin mine
  <2> HIDE DEF P, mine
  <2> QED BY <1>1, <1>2, OthersLeft
<1>8. c \in RelayConns =>
        \A m \in {pm.msg : pm \in mine} :
          /\ m \in Msgs /\ subject[m] = conn[c].project
          /\ \E i \in DOMAIN pending : pending[i].msg = m
  <2> SUFFICES ASSUME c \in RelayConns, NEW pm \in mine
               PROVE  /\ pm.msg \in Msgs /\ subject[pm.msg] = conn[c].project
                      /\ \E i \in DOMAIN pending : pending[i].msg = pm.msg
    OBVIOUS
  <2>1. PICK i \in DOMAIN pending : pm = pending[i] /\ pm.project = conn[c].project
    BY DEF Mine, Range
  <2>2. pending[i].msg \in Msgs
    BY <1>1a
  <2>3. pending[i].project = subject[pending[i].msg]
    BY DEF MailInv, KeptForProject
  <2> QED BY <2>1, <2>2, <2>3
<1> HIDE DEF mine
<1>9. /\ \A d \in RelayConns : d # c => flush'[d] = flush[d]
      /\ c \in RelayConns => flush'[c] = {pm.msg : pm \in mine}
      /\ flush' \in [RelayConns -> SUBSET Msgs]
  BY <1>1, <1>2, <1>8
<1>10. TypeOK'
  <2>1. overdue' \subseteq Sessions
    BY <1>2 DEF LeaveSession, MailInv, TypeOK
  <2>2. Len(pending') <= PendingMax
    BY <1>1, <1>7, HubParametersOK
  <2> QED BY <1>2, <1>7, <1>9, <2>1, <2>2 DEF MailInv, TypeOK
<1>11. SessionsOfProject'
  BY <1>2, <1>3, <1>5, <1>6, ProjectsStay DEF SessionsOfProject
<1>12. InOneHand'
  <2> SUFFICES ASSUME NEW b \in PhoneConns, Speaking(b)'
               PROVE  /\ conn'[b].msg \in Msgs /\ subject'[conn'[b].msg] = conn'[b].project
                      /\ conn'[b].session # None
                      /\ \A e \in PhoneConns \ {b} : Speaking(e)' => conn'[e].msg # conn'[b].msg
                      /\ \A i \in DOMAIN pending' : pending'[i].msg # conn'[b].msg
                      /\ \A d \in RelayConns :
                           /\ conn'[b].msg \notin flush'[d]
                           /\ conn'[b].pc = "say" => got'[d][conn'[b].msg] = 0
                           /\ conn'[b].pc = "cast" /\ got'[d][conn'[b].msg] > 0
                                => conn'[d].session = conn'[b].session
    BY DEF InOneHand
  <2>1. /\ b # c /\ conn'[b] = conn[b] /\ Speaking(b)
        /\ \A e \in PhoneConns : Speaking(e)' => Speaking(e) /\ conn'[e] = conn[e]
    BY <1>5, <1>6 DEF Speaking
  <2>2. /\ conn[b].msg \in Msgs /\ subject[conn[b].msg] = conn[b].project /\ conn[b].session # None
        /\ \A e \in PhoneConns \ {b} : Speaking(e) => conn[e].msg # conn[b].msg
        /\ \A i \in DOMAIN pending : pending[i].msg # conn[b].msg
        /\ \A d \in RelayConns :
             /\ conn[b].msg \notin flush[d]
             /\ conn[b].pc = "say" => got[d][conn[b].msg] = 0
             /\ conn[b].pc = "cast" /\ got[d][conn[b].msg] > 0 => conn[d].session = conn[b].session
    BY <2>1 DEF MailInv, InOneHand
  <2>3. \A i \in DOMAIN pending' : pending'[i].msg # conn[b].msg
    BY <1>7, <2>2
  <2>4. \A d \in RelayConns : conn[b].msg \notin flush'[d]
    BY <1>8, <1>9, <2>2
  <2>5. c \in RelayConns => got[c][conn[b].msg] = 0
    BY <1>3, <2>2 DEF MailInv, Inbox
  <2>6. \A d \in RelayConns : conn[b].pc = "cast" /\ got[d][conn[b].msg] > 0 =>
          conn'[d].session = conn[b].session
    BY <1>6, <2>2, <2>5
  <2> QED BY <1>2, <2>1, <2>2, <2>3, <2>4, <2>6
<1>13. KeptForProject'
  BY <1>2, <1>7 DEF MailInv, KeptForProject
<1>14. Inbox'
  <2>1. ASSUME NEW d \in RelayConns, d # c
        PROVE  /\ conn'[d].joins = 0 => flush'[d] = {} /\ \A m \in Msgs : got'[d][m] = 0
               /\ conn'[d].pc # "flush" => flush'[d] = {}
               /\ \A m \in flush'[d] : got'[d][m] = 0 /\ subject'[m] = conn'[d].project
    <3>1. /\ conn[d].joins = 0 => flush[d] = {} /\ \A m \in Msgs : got[d][m] = 0
          /\ conn[d].pc # "flush" => flush[d] = {}
          /\ \A m \in flush[d] : got[d][m] = 0 /\ subject[m] = conn[d].project
      BY DEF MailInv, Inbox
    <3>2. conn'[d] = conn[d] /\ flush'[d] = flush[d] /\ got' = got /\ subject' = subject
      BY <1>2, <1>6, <1>9, <2>1
    <3> QED BY <3>1, <3>2
  <2>2. ASSUME c \in RelayConns
        PROVE  /\ conn'[c].joins # 0 /\ conn'[c].pc = "flush"
               /\ \A m \in flush'[c] : got'[c][m] = 0 /\ subject'[m] = conn'[c].project
    <3>1. \A m \in Msgs : got[c][m] = 0
      BY <1>3, <2>2 DEF MailInv, Inbox
    <3> QED BY <1>2, <1>3, <1>5, <1>6, <1>8, <1>9, <2>2, <3>1
  <2> QED BY <2>1, <2>2 DEF Inbox
<1>15. Unsaid'
  <2> SUFFICES ASSUME NEW m \in Msgs, NEW d \in RelayConns, subject[m] = "none"
               PROVE  got[d][m] = 0 /\ m \notin flush'[d]
    BY <1>2 DEF Unsaid
  <2>1. got[d][m] = 0 /\ m \notin flush[d]
    BY DEF MailInv, Unsaid
  <2>2. \A i \in DOMAIN pending : pending[i].msg # m
    <3>1. \A i \in DOMAIN pending : pending[i].project = subject[pending[i].msg]
      BY DEF MailInv, KeptForProject
    <3>2. \A i \in DOMAIN pending : pending[i].project \in Projects
      BY <1>1a
    <3> QED BY <3>1, <3>2, HubParametersOK
  <2> QED BY <1>8, <1>9, <2>1, <2>2
<1>16. OncePerConnection' /\ ProjectsApart'
  <2>1. \A d \in RelayConns : conn'[d].project = conn[d].project
    BY <1>5, <1>6
  <2>2. got' = got /\ subject' = subject
    BY <1>2
  <2> QED BY <2>1, <2>2 DEF MailInv, OncePerConnection, ProjectsApart
<1> QED BY <1>10, <1>11, <1>12, <1>13, <1>14, <1>15, <1>16 DEF MailInv

\* What a relay took with it goes into its channel.
LEMMA FlushMail ==
  ASSUME IInv, MailInv, RoutesTyped', NEW c \in Conns, Flush(c)
  PROVE  MailInv'
<1> DEFINE r == [conn[c] EXCEPT !.pc = "idle"]
<1> USE Disjoint
<1>1. /\ conn \in [Conns -> Conn] /\ conn[c] \in Conn
      /\ flush \in [RelayConns -> SUBSET Msgs] /\ got \in [RelayConns -> [Msgs -> Nat]]
  BY DEF IInv, RoutesTyped, MailInv, TypeOK
<1>2. /\ conn[c].pc = "flush" /\ conn' = [conn EXCEPT ![c] = r]
      /\ UNCHANGED <<created, overdue, pending, subject, handled, overflowed>>
  BY <1>1 DEF Flush, manager
<1>3. r.pc = "idle" /\ r.session = conn[c].session /\ r.project = conn[c].project
      /\ r.joins = conn[c].joins
  BY <1>1 DEF Conn
<1> HIDE DEF r
<1>4. conn'[c] = r /\ \A x \in Conns : x # c => conn'[x] = conn[x]
  BY <1>1, <1>2
<1>5. /\ flush' \in [RelayConns -> SUBSET Msgs] /\ got' \in [RelayConns -> [Msgs -> Nat]]
      /\ \A d \in RelayConns : d # c => flush'[d] = flush[d] /\ got'[d] = got[d]
      /\ c \in RelayConns => flush'[c] = {}
      /\ c \in RelayConns =>
           \A m \in Msgs : got'[c][m] = IF m \in flush[c] THEN got[c][m] + 1 ELSE got[c][m]
  <2>1. CASE c \notin RelayConns
    BY <1>1, <2>1 DEF Flush
  <2>2. CASE c \in RelayConns
    <3> DEFINE g == [m \in Msgs |-> got[c][m] + IF m \in flush[c] THEN 1 ELSE 0]
    <3>1. got' = [got EXCEPT ![c] = g] /\ flush' = [flush EXCEPT ![c] = {}]
      BY <2>2, <1>1 DEF Flush
    <3>2. \A m \in Msgs : got[c][m] \in Nat
      BY <1>1, <2>2
    <3>3. g \in [Msgs -> Nat]
      BY <3>2
    <3>4. \A m \in Msgs : g[m] = IF m \in flush[c] THEN got[c][m] + 1 ELSE got[c][m]
      BY <3>2
    <3> HIDE DEF g
    <3> QED BY <1>1, <2>2, <3>1, <3>3, <3>4
  <2> QED BY <2>1, <2>2
<1>6. c \in RelayConns => \A m \in flush[c] :
        m \in Msgs /\ got[c][m] = 0 /\ subject[m] = conn[c].project /\ conn[c].joins # 0
  BY <1>1 DEF MailInv, Inbox
<1>7. TypeOK'
  BY <1>2, <1>5 DEF MailInv, TypeOK
<1>8. SessionsOfProject'
  <2>1. conn[c].session # None => /\ conn[c].session \in 1..Len(created)
                                  /\ created[conn[c].session] = conn[c].project
    BY <1>2 DEF MailInv, SessionsOfProject
  <2> QED BY <1>2, <1>3, <1>4, <2>1, ProjectsStay DEF SessionsOfProject
<1>9. InOneHand'
  <2> SUFFICES ASSUME NEW b \in PhoneConns, Speaking(b)'
               PROVE  /\ conn'[b].msg \in Msgs /\ subject'[conn'[b].msg] = conn'[b].project
                      /\ conn'[b].session # None
                      /\ \A e \in PhoneConns \ {b} : Speaking(e)' => conn'[e].msg # conn'[b].msg
                      /\ \A i \in DOMAIN pending' : pending'[i].msg # conn'[b].msg
                      /\ \A d \in RelayConns :
                           /\ conn'[b].msg \notin flush'[d]
                           /\ conn'[b].pc = "say" => got'[d][conn'[b].msg] = 0
                           /\ conn'[b].pc = "cast" /\ got'[d][conn'[b].msg] > 0
                                => conn'[d].session = conn'[b].session
    BY DEF InOneHand
  <2>1. /\ b # c /\ conn'[b] = conn[b] /\ Speaking(b)
        /\ \A e \in PhoneConns : Speaking(e)' => Speaking(e) /\ conn'[e] = conn[e]
    BY <1>3, <1>4 DEF Speaking
  <2>2. /\ conn[b].msg \in Msgs /\ subject[conn[b].msg] = conn[b].project /\ conn[b].session # None
        /\ \A e \in PhoneConns \ {b} : Speaking(e) => conn[e].msg # conn[b].msg
        /\ \A i \in DOMAIN pending : pending[i].msg # conn[b].msg
        /\ \A d \in RelayConns :
             /\ conn[b].msg \notin flush[d]
             /\ conn[b].pc = "say" => got[d][conn[b].msg] = 0
             /\ conn[b].pc = "cast" /\ got[d][conn[b].msg] > 0 => conn[d].session = conn[b].session
    BY <2>1 DEF MailInv, InOneHand
  <2>3. \A d \in RelayConns : /\ conn[b].msg \notin flush'[d]
                              /\ got'[d][conn[b].msg] = got[d][conn[b].msg]
                              /\ conn'[d].session = conn[d].session
    BY <1>3, <1>4, <1>5, <2>2
  <2> QED BY <1>2, <2>1, <2>2, <2>3
<1>10. KeptForProject'
  BY <1>2 DEF MailInv, KeptForProject
<1>11. \A d \in RelayConns :
         /\ conn'[d].joins = conn[d].joins /\ conn'[d].project = conn[d].project
         /\ \A m \in Msgs : got'[d][m] = got[d][m]
                            \/ (m \in flush[d] /\ d = c /\ got'[d][m] = 1)
  BY <1>3, <1>4, <1>5, <1>6
<1>12. Inbox'
  <2> SUFFICES ASSUME NEW d \in RelayConns
               PROVE  /\ conn'[d].joins = 0 => flush'[d] = {} /\ \A m \in Msgs : got'[d][m] = 0
                      /\ conn'[d].pc # "flush" => flush'[d] = {}
                      /\ \A m \in flush'[d] : got'[d][m] = 0 /\ subject'[m] = conn'[d].project
    BY DEF Inbox
  <2>1. /\ conn[d].joins = 0 => flush[d] = {} /\ \A m \in Msgs : got[d][m] = 0
        /\ conn[d].pc # "flush" => flush[d] = {}
        /\ \A m \in flush[d] : got[d][m] = 0 /\ subject[m] = conn[d].project
    BY DEF MailInv, Inbox
  <2>2. CASE d = c
    BY <1>5, <1>11, <2>1, <2>2
  <2>3. CASE d # c
    BY <1>2, <1>4, <1>5, <2>1, <2>3
  <2> QED BY <2>2, <2>3
<1>13. Unsaid'
  <2> SUFFICES ASSUME NEW m \in Msgs, NEW d \in RelayConns, subject[m] = "none"
               PROVE  got'[d][m] = 0 /\ m \notin flush'[d]
    BY <1>2 DEF Unsaid
  <2>1. got[d][m] = 0 /\ m \notin flush[d]
    BY DEF MailInv, Unsaid
  <2> QED BY <1>5, <1>11, <2>1
<1>14. OncePerConnection'
  <2>1. \A d \in RelayConns, m \in Msgs : got[d][m] <= 1
    BY DEF MailInv, OncePerConnection
  <2> QED BY <1>11, <2>1 DEF OncePerConnection
<1>15. ProjectsApart'
  <2>1. \A d \in RelayConns, m \in Msgs : got[d][m] > 0 => conn[d].project = subject[m]
    BY DEF MailInv, ProjectsApart
  <2> QED BY <1>2, <1>6, <1>11, <2>1 DEF ProjectsApart
<1> QED BY <1>7, <1>8, <1>9, <1>10, <1>12, <1>13, <1>14, <1>15 DEF MailInv

-----------------------------------------------------------------------------
(* A message on its way.                                                   *)

\* A phone's connection in a session, outside joining, has its project.
LEMMA PhoneInProject ==
  ASSUME IInv, MailInv, NEW c \in PhoneConns,
         conn[c].session # None, conn[c].pc \notin {"join", "register"}
  PROVE  /\ conn[c] \in Conn /\ conn[c].session \in Sessions
         /\ created[conn[c].session] = conn[c].project /\ conn[c].project \in Projects
<1>1. conn \in [Conns -> Conn] /\ c \in Conns /\ created \in Seq(Projects)
  BY Disjoint DEF IInv, RoutesTyped
<1>2. conn[c] \in Conn /\ conn[c].session \in Sessions \cup {None}
  BY <1>1 DEF Conn
<1>3. conn[c].session \in 1..Len(created) /\ created[conn[c].session] = conn[c].project
  BY <1>1 DEF MailInv, SessionsOfProject
<1> QED BY <1>1, <1>2, <1>3

\* The phone's control moves on: to a message that nobody else has, or on with it.
LEMMA SpeakerMoves ==
  ASSUME IInv, MailInv, NEW c \in PhoneConns, NEW pc \in {"say", "cast", "keep", "idle"},
         NEW msg \in Msgs \cup {NoMsg},
         conn' = [conn EXCEPT ![c].pc = pc, ![c].msg = msg], created' = created,
         conn[c].pc \in {"idle", "say", "cast", "keep"}
  PROVE  /\ SessionsOfProject'
         /\ conn'[c].pc = pc /\ conn'[c].msg = msg
         /\ conn'[c].project = conn[c].project /\ conn'[c].session = conn[c].session
         /\ \A x \in Conns : x # c => conn'[x] = conn[x]
<1> DEFINE r == [conn[c] EXCEPT !.pc = pc, !.msg = msg]
<1>1. conn \in [Conns -> Conn] /\ c \in Conns /\ conn[c] \in Conn
  BY Disjoint DEF IInv, RoutesTyped
<1>2. conn' = [conn EXCEPT ![c] = r]
  BY <1>1
<1>3. /\ r.pc = pc /\ r.msg = msg /\ r.project = conn[c].project
      /\ r.session = conn[c].session
  BY <1>1 DEF Conn
<1> HIDE DEF r
<1>4. conn'[c] = r /\ \A x \in Conns : x # c => conn'[x] = conn[x]
  BY <1>1, <1>2
<1>5. conn[c].session # None => /\ conn[c].session \in 1..Len(created)
                                /\ created[conn[c].session] = conn[c].project
  BY <1>1 DEF MailInv, SessionsOfProject
<1>6. SessionsOfProject'
  <2>1. conn'[c].session # None => /\ conn'[c].session \in 1..Len(created')
                                   /\ created'[conn'[c].session] = conn'[c].project
    BY <1>3, <1>4, <1>5
  <2>2. conn'[c].pc \notin {"join", "register"}
    BY <1>3, <1>4
  <2>3. \A s \in 1..Len(created) : s \in 1..Len(created') /\ created'[s] = created[s]
    OBVIOUS
  <2> QED BY <1>4, <2>1, <2>2, <2>3, ProjectsStay DEF SessionsOfProject
<1> QED BY <1>3, <1>4, <1>6

\* The other phones' messages stay in their hands.
LEMMA OthersSpeak ==
  ASSUME IInv, MailInv, NEW c \in PhoneConns, NEW b \in PhoneConns, b # c, Speaking(b)',
         \A x \in Conns : x # c => conn'[x] = conn[x],
         \A m \in Msgs : subject[m] # "none" => subject'[m] = subject[m],
         Speaking(c)' => \/ Speaking(c) /\ conn'[c].msg = conn[c].msg
                         \/ subject[conn'[c].msg] = "none",
         \A i \in DOMAIN pending' :
           (\E j \in DOMAIN pending : pending'[i] = pending[j])
             \/ (Speaking(c) /\ pending'[i].msg = conn[c].msg),
         flush' = flush,
         \A d \in RelayConns, m \in Msgs :
           got'[d][m] = got[d][m] \/ (Speaking(c) /\ m = conn[c].msg)
  PROVE  /\ conn'[b].msg \in Msgs /\ subject'[conn'[b].msg] = conn'[b].project
         /\ conn'[b].session # None
         /\ \A e \in PhoneConns \ {b} : Speaking(e)' => conn'[e].msg # conn'[b].msg
         /\ \A i \in DOMAIN pending' : pending'[i].msg # conn'[b].msg
         /\ \A d \in RelayConns :
              /\ conn'[b].msg \notin flush'[d]
              /\ conn'[b].pc = "say" => got'[d][conn'[b].msg] = 0
              /\ conn'[b].pc = "cast" /\ got'[d][conn'[b].msg] > 0
                   => conn'[d].session = conn'[b].session
<1>1. /\ \A x \in PhoneConns : x # c => conn'[x] = conn[x]
      /\ \A x \in RelayConns : conn'[x] = conn[x]
  BY Disjoint
<1>2. /\ conn'[b] = conn[b] /\ Speaking(b)
      /\ \A e \in PhoneConns : e # c /\ Speaking(e)' => Speaking(e) /\ conn'[e] = conn[e]
  BY <1>1 DEF Speaking
<1>3. /\ conn[b].msg \in Msgs /\ subject[conn[b].msg] = conn[b].project /\ conn[b].session # None
      /\ \A e \in PhoneConns \ {b} : Speaking(e) => conn[e].msg # conn[b].msg
      /\ \A i \in DOMAIN pending : pending[i].msg # conn[b].msg
      /\ \A d \in RelayConns :
           /\ conn[b].msg \notin flush[d]
           /\ conn[b].pc = "say" => got[d][conn[b].msg] = 0
           /\ conn[b].pc = "cast" /\ got[d][conn[b].msg] > 0 => conn[d].session = conn[b].session
  BY <1>2 DEF MailInv, InOneHand
<1>4. subject[conn[b].msg] # "none"
  BY <1>2, <1>3, PhoneInProject, HubParametersOK DEF Speaking
<1>5. \A e \in PhoneConns \ {b} : Speaking(e)' => conn'[e].msg # conn'[b].msg
  BY <1>2, <1>3, <1>4
<1>6. \A i \in DOMAIN pending' : pending'[i].msg # conn[b].msg
  BY <1>3
<1>7. \A d \in RelayConns : got'[d][conn[b].msg] = got[d][conn[b].msg]
  BY <1>3
<1> QED BY <1>1, <1>2, <1>3, <1>4, <1>5, <1>6, <1>7

LEMMA SayMail ==
  ASSUME IInv, MailInv, RoutesTyped', NEW c \in PhoneConns, NEW m \in Msgs, Say(c, m)
  PROVE  MailInv'
<1>1. /\ conn[c].pc = "idle" /\ conn[c].session # None /\ subject[m] = "none"
      /\ subject' = [subject EXCEPT ![m] = conn[c].project]
      /\ conn' = [conn EXCEPT ![c].pc = "say", ![c].msg = m]
      /\ UNCHANGED <<created, overdue, pending, flush, got, handled, overflowed>>
  BY DEF Say, manager
<1>2. /\ SessionsOfProject'
      /\ conn'[c].pc = "say" /\ conn'[c].msg = m
      /\ conn'[c].project = conn[c].project /\ conn'[c].session = conn[c].session
      /\ \A x \in Conns : x # c => conn'[x] = conn[x]
  BY <1>1, SpeakerMoves
<1>3. conn[c].project \in Projects
  BY <1>1, PhoneInProject
<1>4. subject \in [Msgs -> Projects \cup {"none"}]
  BY DEF MailInv, TypeOK
<1>5. /\ subject' \in [Msgs -> Projects \cup {"none"}] /\ subject'[m] = conn[c].project
      /\ \A x \in Msgs : x # m => subject'[x] = subject[x]
  BY <1>1, <1>3, <1>4
<1>6. TypeOK'
  BY <1>1, <1>5 DEF MailInv, TypeOK
<1>7. \A i \in DOMAIN pending : /\ pending[i].msg \in Msgs /\ pending[i].msg # m
                                /\ pending[i].project = subject[pending[i].msg]
  <2> DEFINE P == [msg : Msgs, project : Projects]
  <2>1. pending \in Seq(P)
    BY DEF MailInv, TypeOK
  <2>2. \A i \in DOMAIN pending : pending[i] \in P
    <3> HIDE DEF P
    <3> QED BY <2>1
  <2>3. \A i \in DOMAIN pending : pending[i].project = subject[pending[i].msg]
    BY DEF MailInv, KeptForProject
  <2> QED BY <1>1, <2>2, <2>3, HubParametersOK
<1>8. \A d \in RelayConns : got[d][m] = 0 /\ m \notin flush[d]
  BY <1>1 DEF MailInv, Unsaid
<1>9. InOneHand'
  <2>1. ASSUME NEW b \in PhoneConns, b # c, Speaking(b)'
        PROVE  conn'[b].msg # m
    <3>1. Speaking(b) /\ conn'[b] = conn[b]
      BY <1>2, <2>1, Disjoint DEF Speaking
    <3>2. subject[conn[b].msg] = conn[b].project /\ conn[b].session # None
      BY <3>1 DEF MailInv, InOneHand
    <3>3. conn[b].project \in Projects
      BY <3>1, <3>2, PhoneInProject DEF Speaking
    <3> QED BY <1>1, <3>1, <3>2, <3>3, HubParametersOK
  <2>2. ASSUME NEW b \in PhoneConns, b # c, Speaking(b)'
        PROVE  /\ conn'[b].msg \in Msgs /\ subject'[conn'[b].msg] = conn'[b].project
               /\ conn'[b].session # None
               /\ \A e \in PhoneConns \ {b} : Speaking(e)' => conn'[e].msg # conn'[b].msg
               /\ \A i \in DOMAIN pending' : pending'[i].msg # conn'[b].msg
               /\ \A d \in RelayConns :
                    /\ conn'[b].msg \notin flush'[d]
                    /\ conn'[b].pc = "say" => got'[d][conn'[b].msg] = 0
                    /\ conn'[b].pc = "cast" /\ got'[d][conn'[b].msg] > 0
                         => conn'[d].session = conn'[b].session
    <3>1. \A x \in Msgs : subject[x] # "none" => subject'[x] = subject[x]
      BY <1>1, <1>5
    <3>2. subject[conn'[c].msg] = "none"
      BY <1>1, <1>2
    <3>3. pending' = pending /\ flush' = flush /\ got' = got
      BY <1>1
    <3> QED BY <1>2, <2>2, <3>1, <3>2, <3>3, OthersSpeak
  <2>3. /\ conn'[c].msg \in Msgs /\ subject'[conn'[c].msg] = conn'[c].project
        /\ conn'[c].session # None
        /\ \A e \in PhoneConns \ {c} : Speaking(e)' => conn'[e].msg # conn'[c].msg
        /\ \A i \in DOMAIN pending' : pending'[i].msg # conn'[c].msg
        /\ \A d \in RelayConns :
             /\ conn'[c].msg \notin flush'[d]
             /\ conn'[c].pc = "say" => got'[d][conn'[c].msg] = 0
             /\ conn'[c].pc = "cast" /\ got'[d][conn'[c].msg] > 0
                  => conn'[d].session = conn'[c].session
    <3>1. conn'[c].session # None /\ subject'[m] = conn'[c].project
      BY <1>1, <1>2, <1>5
    <3>2. \A e \in PhoneConns \ {c} : Speaking(e)' => conn'[e].msg # m
      BY <2>1
    <3>3. \A i \in DOMAIN pending' : pending'[i].msg # m
      BY <1>1, <1>7
    <3>4. \A d \in RelayConns : m \notin flush'[d] /\ got'[d][m] = 0
      BY <1>1, <1>8
    <3> QED BY <1>2, <3>1, <3>2, <3>3, <3>4
  <2> QED BY <2>2, <2>3 DEF InOneHand
<1>10. KeptForProject'
  BY <1>1, <1>5, <1>7 DEF KeptForProject
<1>11. \A d \in RelayConns : conn'[d] = conn[d]
  BY <1>2, Disjoint
<1>12. Inbox'
  <2> SUFFICES ASSUME NEW d \in RelayConns
               PROVE  /\ conn'[d].joins = 0 => flush'[d] = {} /\ \A x \in Msgs : got'[d][x] = 0
                      /\ conn'[d].pc # "flush" => flush'[d] = {}
                      /\ \A x \in flush'[d] : got'[d][x] = 0 /\ subject'[x] = conn'[d].project
    BY DEF Inbox
  <2>1. /\ conn[d].joins = 0 => flush[d] = {} /\ \A x \in Msgs : got[d][x] = 0
        /\ conn[d].pc # "flush" => flush[d] = {}
        /\ \A x \in flush[d] : got[d][x] = 0 /\ subject[x] = conn[d].project
    BY DEF MailInv, Inbox
  <2>2. \A x \in flush[d] : x \in Msgs /\ x # m
    BY <1>8 DEF MailInv, TypeOK
  <2> QED BY <1>1, <1>5, <1>11, <2>1, <2>2
<1>13. Unsaid'
  BY <1>1, <1>3, <1>5, HubParametersOK DEF MailInv, Unsaid
<1>14. OncePerConnection' /\ ProjectsApart'
  <2>1. \A d \in RelayConns, x \in Msgs : got[d][x] > 0 => x # m /\ conn[d].project = subject[x]
    BY <1>8 DEF MailInv, ProjectsApart
  <2>2. \A d \in RelayConns, x \in Msgs : got'[d][x] > 0 => conn'[d].project = subject'[x]
    <3>1. got' = got
      BY <1>1
    <3>2. \A d \in RelayConns, x \in Msgs : got[d][x] > 0 =>
            subject'[x] = subject[x] /\ conn'[d].project = conn[d].project
      BY <1>5, <1>11, <2>1
    <3> QED BY <2>1, <3>1, <3>2
  <2>3. OncePerConnection'
    BY <1>1 DEF MailInv, OncePerConnection
  <2> QED BY <2>2, <2>3 DEF ProjectsApart
<1> QED BY <1>2, <1>6, <1>9, <1>10, <1>12, <1>13, <1>14 DEF MailInv

\* A message that its phone holds goes to relays of the project that do not have it.
LEMMA SendMail ==
  ASSUME IInv, MailInv, NEW c \in PhoneConns, Speaking(c), NEW to \in SUBSET RelayConns, NEW n,
         Send(conn[c].msg, to, n),
         \A d \in to : n[d] = 1 /\ got[d][conn[c].msg] = 0 /\ conn[d].project = conn[c].project
                       /\ conn[d].joins # 0,
         UNCHANGED <<flush, subject>>, \A d \in RelayConns : conn'[d] = conn[d]
  PROVE  /\ got' \in [RelayConns -> [Msgs -> Nat]]
         /\ \A d \in RelayConns, x \in Msgs :
              got'[d][x] = IF d \in to /\ x = conn[c].msg THEN 1 ELSE got[d][x]
         /\ Inbox' /\ Unsaid' /\ OncePerConnection' /\ ProjectsApart'
<1> DEFINE m == conn[c].msg
<1>1. /\ m \in Msgs /\ subject[m] = conn[c].project /\ conn[c].session # None
      /\ \A d \in RelayConns : m \notin flush[d]
  BY DEF MailInv, InOneHand
<1>2. conn[c].project # "none"
  BY <1>1, PhoneInProject, HubParametersOK DEF Speaking
<1> HIDE DEF m
<1>3. got \in [RelayConns -> [Msgs -> Nat]] /\ flush \in [RelayConns -> SUBSET Msgs]
  BY DEF MailInv, TypeOK
<1>4. \A d \in RelayConns :
        got'[d] = IF d \in to THEN [got[d] EXCEPT ![m] = @ + n[d]] ELSE got[d]
  BY DEF Send, m
<1>5. \A d \in RelayConns :
        /\ got'[d] \in [Msgs -> Nat]
        /\ \A x \in Msgs : got'[d][x] = IF d \in to /\ x = m THEN 1 ELSE got[d][x]
  <2> SUFFICES ASSUME NEW d \in RelayConns
               PROVE  /\ got'[d] \in [Msgs -> Nat]
                      /\ \A x \in Msgs : got'[d][x] = IF d \in to /\ x = m THEN 1 ELSE got[d][x]
    OBVIOUS
  <2>1. got[d] \in [Msgs -> Nat]
    BY <1>3
  <2>2. CASE d \in to
    <3>1. n[d] = 1 /\ got[d][m] = 0
      BY <2>2 DEF m
    <3>2. got'[d] = [got[d] EXCEPT ![m] = 1]
      BY <1>4, <2>2, <3>1
    <3> QED BY <1>1, <2>1, <2>2, <3>2
  <2>3. CASE d \notin to
    BY <1>4, <2>1, <2>3
  <2> QED BY <2>2, <2>3
<1>6. got' \in [RelayConns -> [Msgs -> Nat]]
  <2>1. got' = [d \in RelayConns |->
                  IF d \in to THEN [got[d] EXCEPT ![m] = @ + n[d]] ELSE got[d]]
    BY DEF Send, m
  <2>2. got' = [d \in RelayConns |-> got'[d]]
    BY <2>1
  <2> QED BY <1>5, <2>2
<1>7. Inbox'
  <2> SUFFICES ASSUME NEW d \in RelayConns
               PROVE  /\ conn'[d].joins = 0 => flush'[d] = {} /\ \A x \in Msgs : got'[d][x] = 0
                      /\ conn'[d].pc # "flush" => flush'[d] = {}
                      /\ \A x \in flush'[d] : got'[d][x] = 0 /\ subject'[x] = conn'[d].project
    BY DEF Inbox
  <2>1. /\ conn[d].joins = 0 => flush[d] = {} /\ \A x \in Msgs : got[d][x] = 0
        /\ conn[d].pc # "flush" => flush[d] = {}
        /\ \A x \in flush[d] : got[d][x] = 0 /\ subject[x] = conn[d].project
    BY DEF MailInv, Inbox
  <2>2. \A x \in flush[d] : x \in Msgs /\ x # m
    BY <1>1, <1>3
  <2>3. conn[d].joins = 0 => d \notin to
    OBVIOUS
  <2> QED BY <1>5, <2>1, <2>2, <2>3
<1>8. Unsaid'
  <2>1. \A x \in Msgs, d \in RelayConns : subject[x] = "none" =>
          x # m /\ got[d][x] = 0 /\ x \notin flush[d]
    BY <1>1, <1>2 DEF MailInv, Unsaid
  <2> QED BY <1>5, <2>1 DEF Unsaid
<1>9. OncePerConnection'
  BY <1>5 DEF MailInv, OncePerConnection
<1>10. ProjectsApart'
  <2>1. \A d \in to : conn[d].project = subject[m]
    BY <1>1
  <2>2. \A d \in RelayConns, x \in Msgs : got[d][x] > 0 => conn[d].project = subject[x]
    BY DEF MailInv, ProjectsApart
  <2> QED BY <1>5, <2>1, <2>2 DEF ProjectsApart
<1> QED BY <1>5, <1>6, <1>7, <1>8, <1>9, <1>10 DEF m

\* The relays of the phone's session get it.
LEMMA BroadcastToSessionMail ==
  ASSUME IInv, MailInv, RoutesTyped', NEW c \in PhoneConns, BroadcastToSession(c)
  PROVE  MailInv'
<1> DEFINE m == conn[c].msg
           s == conn[c].session
           to == {d \in RelayConns : listed[s][d] > 0}
<1>1. /\ conn[c].pc = "say" /\ Speaking(c) /\ conn' = [conn EXCEPT ![c].pc = "cast"]
      /\ UNCHANGED <<created, overdue, pending, flush, subject, handled, overflowed>>
  BY DEF BroadcastToSession, manager, Speaking
<1>2. /\ m \in Msgs /\ subject[m] = conn[c].project /\ s # None
      /\ \A b \in PhoneConns \ {c} : Speaking(b) => conn[b].msg # m
      /\ \A i \in DOMAIN pending : pending[i].msg # m
      /\ \A d \in RelayConns : m \notin flush[d] /\ got[d][m] = 0
  BY <1>1 DEF MailInv, InOneHand
<1>3. PICK acc \in SUBSET to : Send(m, acc, listed[s])
  BY DEF BroadcastToSession, Accepting
<1>4. conn \in [Conns -> Conn] /\ c \in Conns /\ conn[c] \in Conn
  BY Disjoint DEF IInv, RoutesTyped
<1>5. s \in Sessions /\ created[s] = conn[c].project
  BY <1>1, <1>2, PhoneInProject
<1>6. \A d \in acc : /\ d \in RelayConns /\ listed[s][d] = 1 /\ conn[d].session = s
                     /\ conn[d].joins # 0 /\ conn[d].project = conn[c].project
  <2> SUFFICES ASSUME NEW d \in acc
               PROVE  /\ d \in RelayConns /\ listed[s][d] = 1 /\ conn[d].session = s
                      /\ conn[d].joins # 0 /\ conn[d].project = conn[c].project
    OBVIOUS
  <2>1. d \in RelayConns /\ listed[s][d] > 0
    OBVIOUS
  <2>2. listed[s][d] = 1 /\ conn[d].session = s
    BY <1>5, <2>1 DEF IInv, Listed
  <2>3. conn[d].joins # 0
    BY <1>2, <2>1, <2>2 DEF IInv, Listed
  <2>4. conn[d].pc \notin {"join", "register"}
    BY <2>1, <2>3, Disjoint DEF IInv, Joining
  <2>5. created[conn[d].session] = conn[d].project
    BY <1>2, <2>1, <2>2, <2>4, Disjoint DEF MailInv, SessionsOfProject
  <2> QED BY <1>5, <2>1, <2>2, <2>3, <2>5
<1>7. conn' = [conn EXCEPT ![c].pc = "cast", ![c].msg = m]
  BY <1>1, <1>4 DEF Conn
<1> HIDE DEF to
<1>8. /\ SessionsOfProject'
      /\ conn'[c].pc = "cast" /\ conn'[c].msg = m
      /\ conn'[c].project = conn[c].project /\ conn'[c].session = s
      /\ \A x \in Conns : x # c => conn'[x] = conn[x]
  BY <1>1, <1>2, <1>7, SpeakerMoves
<1>9. \A d \in RelayConns : conn'[d] = conn[d]
  BY <1>8, Disjoint
<1>10. /\ got' \in [RelayConns -> [Msgs -> Nat]]
       /\ \A d \in RelayConns, x \in Msgs :
            got'[d][x] = IF d \in acc /\ x = m THEN 1 ELSE got[d][x]
       /\ Inbox' /\ Unsaid' /\ OncePerConnection' /\ ProjectsApart'
  <2>1. acc \in SUBSET RelayConns
    BY <1>6
  <2>2. \A d \in acc : /\ listed[s][d] = 1 /\ got[d][m] = 0
                       /\ conn[d].project = conn[c].project /\ conn[d].joins # 0
    BY <1>2, <1>6
  <2>3. flush' = flush /\ subject' = subject
    BY <1>1
  <2>4. UNCHANGED <<flush, subject>> /\ Speaking(c) /\ Send(conn[c].msg, acc, listed[s])
    BY <1>1, <1>3
  <2>5. \A d \in acc : listed[s][d] = 1 /\ got[d][conn[c].msg] = 0
                       /\ conn[d].project = conn[c].project /\ conn[d].joins # 0
    BY <2>2
  <2> QED BY <1>9, <2>1, <2>4, <2>5, SendMail
<1>11. TypeOK' /\ KeptForProject'
  BY <1>1, <1>10 DEF MailInv, TypeOK, KeptForProject
<1>12. InOneHand'
  <2>1. ASSUME NEW b \in PhoneConns, b # c, Speaking(b)'
        PROVE  /\ conn'[b].msg \in Msgs /\ subject'[conn'[b].msg] = conn'[b].project
               /\ conn'[b].session # None
               /\ \A e \in PhoneConns \ {b} : Speaking(e)' => conn'[e].msg # conn'[b].msg
               /\ \A i \in DOMAIN pending' : pending'[i].msg # conn'[b].msg
               /\ \A d \in RelayConns :
                    /\ conn'[b].msg \notin flush'[d]
                    /\ conn'[b].pc = "say" => got'[d][conn'[b].msg] = 0
                    /\ conn'[b].pc = "cast" /\ got'[d][conn'[b].msg] > 0
                         => conn'[d].session = conn'[b].session
    <3>1. \A d \in RelayConns, x \in Msgs : got'[d][x] = got[d][x] \/ x = m
      BY <1>10
    <3>2. pending' = pending /\ flush' = flush /\ subject' = subject
      BY <1>1
    <3> QED BY <1>1, <1>8, <2>1, <3>1, <3>2, OthersSpeak
  <2>2. \A b \in PhoneConns \ {c} : Speaking(b)' => conn'[b].msg # m
    BY <1>2, <1>8, Disjoint DEF Speaking
  <2>3. \A d \in RelayConns : got'[d][m] > 0 => conn'[d].session = s
    BY <1>2, <1>6, <1>9, <1>10
  <2>4. /\ conn'[c].msg \in Msgs /\ subject'[conn'[c].msg] = conn'[c].project
        /\ conn'[c].session # None
        /\ \A e \in PhoneConns \ {c} : Speaking(e)' => conn'[e].msg # conn'[c].msg
        /\ \A i \in DOMAIN pending' : pending'[i].msg # conn'[c].msg
        /\ \A d \in RelayConns :
             /\ conn'[c].msg \notin flush'[d]
             /\ conn'[c].pc = "say" => got'[d][conn'[c].msg] = 0
             /\ conn'[c].pc = "cast" /\ got'[d][conn'[c].msg] > 0
                  => conn'[d].session = conn'[c].session
    BY <1>1, <1>2, <1>8, <2>2, <2>3
  <2> QED BY <2>1, <2>4 DEF InOneHand
<1> QED BY <1>8, <1>10, <1>11, <1>12 DEF MailInv

\* ... then the others of its project; what nobody got is to be kept.
LEMMA BroadcastToAllTerminalsMail ==
  ASSUME IInv, MailInv, RoutesTyped', NEW c \in PhoneConns, BroadcastToAllTerminals(c)
  PROVE  MailInv'
<1> DEFINE m == conn[c].msg
           to == Elsewhere(c)
           one == [d \in RelayConns |-> 1]
<1>1. /\ conn[c].pc = "cast" /\ Speaking(c)
      /\ UNCHANGED <<created, overdue, pending, flush, subject, overflowed>>
  BY DEF BroadcastToAllTerminals, manager, Speaking
<1>2. /\ m \in Msgs /\ subject[m] = conn[c].project /\ conn[c].session # None
      /\ \A b \in PhoneConns \ {c} : Speaking(b) => conn[b].msg # m
      /\ \A i \in DOMAIN pending : pending[i].msg # m
      /\ \A d \in RelayConns : m \notin flush[d]
      /\ \A d \in RelayConns : got[d][m] > 0 => conn[d].session = conn[c].session
  BY <1>1 DEF MailInv, InOneHand
<1>3. PICK acc \in SUBSET to :
        /\ Send(m, acc, one)
        /\ \/ conn' = [conn EXCEPT ![c].pc = "keep"] /\ handled' = handled
           \/ /\ conn' = [conn EXCEPT ![c].pc = "idle", ![c].msg = NoMsg]
              /\ handled' = handled \cup {m}
  BY DEF BroadcastToAllTerminals, Accepting
<1>4. conn \in [Conns -> Conn] /\ c \in Conns /\ conn[c] \in Conn
  BY Disjoint DEF IInv, RoutesTyped
<1>5. \A d \in acc : /\ d \in RelayConns /\ one[d] = 1 /\ got[d][m] = 0
                     /\ conn[d].project = conn[c].project /\ conn[d].joins # 0
  <2> SUFFICES ASSUME NEW d \in acc
               PROVE  /\ d \in RelayConns /\ one[d] = 1 /\ got[d][m] = 0
                      /\ conn[d].project = conn[c].project /\ conn[d].joins # 0
    OBVIOUS
  <2>1. d \in relayClients /\ conn[d].project = conn[c].project
        /\ conn[d].session # conn[c].session
    BY DEF Elsewhere
  <2>2. d \in RelayConns /\ Registered(d)
    BY <2>1 DEF IInv, RoutesTyped, RoutesFollowConnections
  <2>3. conn[d].joins # 0
    BY <2>2 DEF IInv, Listed, Registered
  <2>4. got[d][m] = 0
    <3>1. got[d][m] \in Nat
      BY <1>2, <2>2 DEF MailInv, TypeOK
    <3> QED BY <1>2, <2>1, <2>2, <3>1
  <2> QED BY <2>1, <2>2, <2>3, <2>4
<1>6. PICK pc \in {"keep", "idle"}, msg \in Msgs \cup {NoMsg} :
        /\ conn' = [conn EXCEPT ![c].pc = pc, ![c].msg = msg]
        /\ pc = "keep" => msg = m
  <2>1. CASE conn' = [conn EXCEPT ![c].pc = "keep"]
    <3>1. conn' = [conn EXCEPT ![c].pc = "keep", ![c].msg = m]
      BY <1>4, <2>1 DEF Conn
    <3> QED BY <1>2, <3>1
  <2>2. CASE conn' = [conn EXCEPT ![c].pc = "idle", ![c].msg = NoMsg]
    BY <2>2
  <2> QED BY <1>3, <2>1, <2>2
<1>7. /\ SessionsOfProject'
      /\ conn'[c].pc = pc /\ conn'[c].msg = msg
      /\ conn'[c].project = conn[c].project /\ conn'[c].session = conn[c].session
      /\ \A x \in Conns : x # c => conn'[x] = conn[x]
  BY <1>1, <1>6, SpeakerMoves
<1>8. \A d \in RelayConns : conn'[d] = conn[d]
  BY <1>7, Disjoint
<1>9. /\ got' \in [RelayConns -> [Msgs -> Nat]]
      /\ \A d \in RelayConns, x \in Msgs :
           got'[d][x] = IF d \in acc /\ x = m THEN 1 ELSE got[d][x]
      /\ Inbox' /\ Unsaid' /\ OncePerConnection' /\ ProjectsApart'
  <2>1. acc \in SUBSET RelayConns
    BY <1>5
  <2>2. flush' = flush /\ subject' = subject
    BY <1>1
  <2> HIDE DEF one, to
  <2>3. UNCHANGED <<flush, subject>> /\ Speaking(c) /\ Send(conn[c].msg, acc, one)
    BY <1>1, <1>3
  <2>4. \A d \in acc : one[d] = 1 /\ got[d][conn[c].msg] = 0
                       /\ conn[d].project = conn[c].project /\ conn[d].joins # 0
    BY <1>5
  <2> QED BY <1>8, <2>1, <2>3, <2>4, SendMail
<1>10. TypeOK' /\ KeptForProject'
  <2>1. handled' \subseteq Msgs
    BY <1>2, <1>3 DEF MailInv, TypeOK
  <2> QED BY <1>1, <1>9, <2>1 DEF MailInv, TypeOK, KeptForProject
<1>11. InOneHand'
  <2>1. ASSUME NEW b \in PhoneConns, b # c, Speaking(b)'
        PROVE  /\ conn'[b].msg \in Msgs /\ subject'[conn'[b].msg] = conn'[b].project
               /\ conn'[b].session # None
               /\ \A e \in PhoneConns \ {b} : Speaking(e)' => conn'[e].msg # conn'[b].msg
               /\ \A i \in DOMAIN pending' : pending'[i].msg # conn'[b].msg
               /\ \A d \in RelayConns :
                    /\ conn'[b].msg \notin flush'[d]
                    /\ conn'[b].pc = "say" => got'[d][conn'[b].msg] = 0
                    /\ conn'[b].pc = "cast" /\ got'[d][conn'[b].msg] > 0
                         => conn'[d].session = conn'[b].session
    <3>1. \A d \in RelayConns, x \in Msgs : got'[d][x] = got[d][x] \/ x = m
      BY <1>9
    <3>2. pending' = pending /\ flush' = flush /\ subject' = subject
      BY <1>1
    <3>3. Speaking(c)' => conn'[c].msg = m
      BY <1>6, <1>7 DEF Speaking
    <3> QED BY <1>1, <1>7, <2>1, <3>1, <3>2, <3>3, OthersSpeak
  <2>2. \A b \in PhoneConns \ {c} : Speaking(b)' => conn'[b].msg # m
    BY <1>2, <1>7, Disjoint DEF Speaking
  <2>3. ASSUME Speaking(c)'
        PROVE  /\ conn'[c].msg \in Msgs /\ subject'[conn'[c].msg] = conn'[c].project
               /\ conn'[c].session # None
               /\ \A e \in PhoneConns \ {c} : Speaking(e)' => conn'[e].msg # conn'[c].msg
               /\ \A i \in DOMAIN pending' : pending'[i].msg # conn'[c].msg
               /\ \A d \in RelayConns :
                    /\ conn'[c].msg \notin flush'[d]
                    /\ conn'[c].pc = "say" => got'[d][conn'[c].msg] = 0
                    /\ conn'[c].pc = "cast" /\ got'[d][conn'[c].msg] > 0
                         => conn'[d].session = conn'[c].session
    <3>1. pc = "keep" /\ msg = m
      BY <1>6, <1>7, <2>3 DEF Speaking
    <3> QED BY <1>1, <1>2, <1>7, <2>2, <3>1
  <2> QED BY <2>1, <2>3 DEF InOneHand
<1> QED BY <1>7, <1>9, <1>10, <1>11 DEF MailInv

\* The message is kept, at the expense of the oldest.
LEMMA KeepMail ==
  ASSUME IInv, MailInv, RoutesTyped', NEW c \in PhoneConns, Keep(c)
  PROVE  MailInv'
<1> DEFINE m == conn[c].msg
           new == [msg |-> m, project |-> conn[c].project]
           all == Append(pending, new)
           P == [msg : Msgs, project : Projects]
<1>1. /\ conn[c].pc = "keep" /\ Speaking(c)
      /\ pending' = IF Len(all) > PendingMax THEN Tail(all) ELSE all
      /\ overflowed' = IF Len(all) > PendingMax THEN overflowed \cup {Head(all).msg}
                       ELSE overflowed
      /\ conn' = [conn EXCEPT ![c].pc = "idle", ![c].msg = NoMsg]
      /\ handled' = handled \cup {m}
      /\ UNCHANGED <<created, overdue, flush, got, subject>>
  BY DEF Keep, manager, Speaking
<1>2. /\ m \in Msgs /\ subject[m] = conn[c].project /\ conn[c].session # None
  BY <1>1 DEF MailInv, InOneHand
<1>3. conn[c].project \in Projects
  BY <1>1, <1>2, PhoneInProject
<1>4. pending \in Seq(P) /\ Len(pending) <= PendingMax /\ PendingMax \in Nat /\ new \in P
  BY <1>2, <1>3, HubParametersOK DEF MailInv, TypeOK
<1>5. /\ SessionsOfProject'
      /\ conn'[c].pc = "idle" /\ conn'[c].msg = NoMsg
      /\ conn'[c].project = conn[c].project /\ conn'[c].session = conn[c].session
      /\ \A x \in Conns : x # c => conn'[x] = conn[x]
  BY <1>1, SpeakerMoves
<1>6. \A d \in RelayConns : conn'[d] = conn[d]
  BY <1>5, Disjoint
<1>7. /\ all \in Seq(P) /\ Len(all) = Len(pending) + 1 /\ Len(pending) \in Nat
      /\ \A i \in 1..Len(all) : all[i] = new \/ \E j \in DOMAIN pending : all[i] = pending[j]
      /\ Head(all) \in P
  <2> HIDE DEF P, new
  <2> QED BY <1>4
<1>8. /\ pending' \in Seq(P) /\ Len(pending') <= PendingMax
      /\ \A i \in DOMAIN pending' : pending'[i] = new \/ \E j \in DOMAIN pending : pending'[i] = pending[j]
  <2> HIDE DEF P, new, all
  <2>1. CASE Len(all) > PendingMax
    <3>1. pending' = Tail(all) /\ all # <<>>
      BY <1>1, <1>4, <1>7, <2>1
    <3>2. /\ Tail(all) \in Seq(P) /\ Len(Tail(all)) = Len(all) - 1
          /\ \A i \in 1..Len(Tail(all)) : i + 1 \in 1..Len(all) /\ Tail(all)[i] = all[i + 1]
      BY <1>7, <3>1
    <3> QED BY <1>4, <1>7, <3>1, <3>2
  <2>2. CASE ~(Len(all) > PendingMax)
    BY <1>1, <1>4, <1>7, <2>2
  <2> QED BY <2>1, <2>2
<1>9. overflowed' \subseteq Msgs
  <2>1. Head(all).msg \in Msgs
    BY <1>7
  <2> HIDE DEF all
  <2> QED BY <1>1, <2>1 DEF MailInv, TypeOK
<1> HIDE DEF all
<1>10. TypeOK'
  BY <1>1, <1>2, <1>8, <1>9 DEF MailInv, TypeOK
<1>11. new.msg = m /\ new.project = subject[m]
  BY <1>2
<1> HIDE DEF new
<1>12. KeptForProject'
  <2>1. \A j \in DOMAIN pending : pending[j].project = subject[pending[j].msg]
    BY DEF MailInv, KeptForProject
  <2>2. \A i \in DOMAIN pending' : pending'[i].project = subject[pending'[i].msg]
    BY <1>8, <1>11, <2>1
  <2> QED BY <1>1, <2>2 DEF KeptForProject
<1>13. InOneHand'
  <2>1. ASSUME NEW b \in PhoneConns, Speaking(b)'
        PROVE  /\ conn'[b].msg \in Msgs /\ subject'[conn'[b].msg] = conn'[b].project
               /\ conn'[b].session # None
               /\ \A e \in PhoneConns \ {b} : Speaking(e)' => conn'[e].msg # conn'[b].msg
               /\ \A i \in DOMAIN pending' : pending'[i].msg # conn'[b].msg
               /\ \A d \in RelayConns :
                    /\ conn'[b].msg \notin flush'[d]
                    /\ conn'[b].pc = "say" => got'[d][conn'[b].msg] = 0
                    /\ conn'[b].pc = "cast" /\ got'[d][conn'[b].msg] > 0
                         => conn'[d].session = conn'[b].session
    <3>1. b # c /\ ~Speaking(c)'
      BY <1>5, <2>1 DEF Speaking
    <3>2. flush' = flush /\ subject' = subject /\ got' = got
      BY <1>1
    <3>3. \A i \in DOMAIN pending' :
            (\E j \in DOMAIN pending : pending'[i] = pending[j])
              \/ (Speaking(c) /\ pending'[i].msg = conn[c].msg)
      BY <1>1, <1>8, <1>11
    <3>4. /\ \A x \in Msgs : subject[x] # "none" => subject'[x] = subject[x]
          /\ \A d \in RelayConns, x \in Msgs :
               got'[d][x] = got[d][x] \/ (Speaking(c) /\ x = conn[c].msg)
      BY <3>2
    <3> HIDE DEF m
    <3> QED BY <1>5, <2>1, <3>1, <3>2, <3>3, <3>4, OthersSpeak
  <2> QED BY <2>1 DEF InOneHand
<1>14. Inbox' /\ Unsaid'
  <2>1. \A d \in RelayConns :
          /\ conn[d].joins = 0 => flush[d] = {} /\ \A x \in Msgs : got[d][x] = 0
          /\ conn[d].pc # "flush" => flush[d] = {}
          /\ \A x \in flush[d] : got[d][x] = 0 /\ subject[x] = conn[d].project
    BY DEF MailInv, Inbox
  <2>2. flush' = flush /\ got' = got /\ subject' = subject
    BY <1>1
  <2>3. Inbox'
    BY <1>6, <2>1, <2>2 DEF Inbox
  <2>4. Unsaid'
    BY <2>2 DEF MailInv, Unsaid
  <2> QED BY <2>3, <2>4
<1>15. OncePerConnection' /\ ProjectsApart'
  BY <1>1, <1>6 DEF MailInv, OncePerConnection, ProjectsApart
<1> QED BY <1>5, <1>10, <1>12, <1>13, <1>14, <1>15 DEF MailInv

-----------------------------------------------------------------------------
LEMMA InitMail == Init => MailInv
<1> SUFFICES ASSUME Init PROVE MailInv
  OBVIOUS
<1>1. /\ overdue = {} /\ pending = <<>> /\ flush = [c \in RelayConns |-> {}]
      /\ got = [c \in RelayConns |-> [m \in Msgs |-> 0]]
      /\ subject = [m \in Msgs |-> "none"] /\ handled = {} /\ overflowed = {}
      /\ \A c \in Conns : conn[c].pc = "new" /\ conn[c].session = None
  BY DEF Init
<1>2. pending \in Seq([msg : Msgs, project : Projects]) /\ Len(pending) = 0 /\ 0 <= PendingMax
  BY <1>1, HubParametersOK
<1>3. /\ flush \in [RelayConns -> SUBSET Msgs] /\ got \in [RelayConns -> [Msgs -> Nat]]
      /\ subject \in [Msgs -> Projects \cup {"none"}]
      /\ \A d \in RelayConns : flush[d] = {} /\ \A m \in Msgs : got[d][m] = 0
  BY <1>1
<1>4. TypeOK
  BY <1>1, <1>2, <1>3, InitIInv DEF TypeOK, IInv
<1>5. SessionsOfProject
  BY <1>1 DEF SessionsOfProject
<1>6. InOneHand
  BY <1>1, Disjoint DEF InOneHand, Speaking
<1>7. KeptForProject /\ Inbox /\ Unsaid /\ OncePerConnection /\ ProjectsApart
  BY <1>1, <1>3 DEF KeptForProject, Inbox, Unsaid, OncePerConnection, ProjectsApart
<1> QED BY <1>4, <1>5, <1>6, <1>7 DEF MailInv

LEMMA NextMail == IInv /\ MailInv /\ [Next]_vars => MailInv'
<1> SUFFICES ASSUME IInv, MailInv, [Next]_vars PROVE MailInv'
  OBVIOUS
<1>1. RoutesTyped'
  BY NextIInv DEF IInv
<1>2. CASE UNCHANGED vars
  BY <1>1, <1>2, ManagerMail
<1>3. CASE \/ \E p \in Projects : GetOrCreateSession(p)
           \/ Cleanup \/ \E s \in Sessions : Elapse(s)
  BY <1>1, <1>3, ManagerMail
<1>4. ASSUME NEW c \in Conns, Connect(c) \/ JoinStep(c) \/ Disconnect(c) PROVE MailInv'
  BY <1>1, <1>4, MembershipMail, RegisterMail, FlushMail DEF JoinStep
<1>5. ASSUME NEW c \in PhoneConns, NEW p \in Projects, JoinPhone(c, p) PROVE MailInv'
  BY <1>1, <1>5, BeginJoinMail, Disjoint DEF JoinPhone
<1>6. ASSUME NEW c \in RelayConns, NEW r \in Relays, JoinRelay(c, r) PROVE MailInv'
  BY <1>1, <1>6, BeginJoinMail, Disjoint, HubParametersOK DEF JoinRelay
<1>7. ASSUME NEW c \in PhoneConns, NEW m \in Msgs, Say(c, m) PROVE MailInv'
  BY <1>1, <1>7, SayMail
<1>8. ASSUME NEW c \in PhoneConns, SayStep(c) PROVE MailInv'
  BY <1>1, <1>8, BroadcastToSessionMail, BroadcastToAllTerminalsMail, KeepMail DEF SayStep
<1> QED BY <1>2, <1>3, <1>4, <1>5, <1>6, <1>7, <1>8 DEF Next

\* ... and with it what is known of every message.
THEOREM MailInvariance == Spec => []MailInv
<1>1. Init => MailInv
  BY InitMail
<1>2. IInv /\ MailInv /\ [Next]_vars => MailInv'
  BY NextMail
<1> QED BY <1>1, <1>2, Invariance, PTL DEF Spec

\* The state of the manager, of the hub's routes and of the mail is well-formed
\* (SessionManager, Hub).
THEOREM TypeCorrect == Spec => []TypeOK
<1>1. MailInv => TypeOK
  BY DEF MailInv
<1> QED BY <1>1, MailInvariance, PTL

\* A relay's connection gets no message twice, whichever of the three ways it
\* takes, and whoever joins and leaves meanwhile (handleSessionMsg,
\* registerJoinClient).
THEOREM Once == Spec => []OncePerConnection
<1>1. MailInv => OncePerConnection
  BY DEF MailInv
<1> QED BY <1>1, MailInvariance, PTL

\* No relay gets a message of another project (broadcastToAllTerminals).
THEOREM Apart == Spec => []ProjectsApart
<1>1. MailInv => ProjectsApart
  BY DEF MailInv
<1> QED BY <1>1, MailInvariance, PTL
=============================================================================
