------------------------ MODULE RemoteSignaling_proofs ------------------------
(***************************************************************************)
(* Proofs about RemoteSignaling for any finite sets of sessions and         *)
(* connections, any addresses, limits and bounds.                           *)
(***************************************************************************)
EXTENDS RemoteSignaling, FiniteSetTheorems, SequenceTheorems, TLAPS

\* The connections that are counted, that are let in, and that hold a slot of an
\* address, as SlotsReturned has them.
CountedConns == {c \in Conns : conn[c].pc \in Counted}
LetIn        == {c \in Conns : conn[c].pc \in Counted \ {"refused"}}
Here(a)      == {c \in Conns : AddrOf[c] = a /\ conn[c].pc \in Placed}

LEMMA SlotsByName ==
  SlotsReturned <=>
    /\ connCount = Cardinality(CountedConns)
    /\ \A a \in Addrs : addrCount[a] = Cardinality(Here(a)) /\ Cardinality(Here(a)) <= MaxPerAddr
    /\ Cardinality(LetIn) <= MaxConns
BY DEF SlotsReturned, CountedConns, LetIn, Here

LEMMA FiniteSlots ==
  /\ IsFiniteSet(CountedConns) /\ IsFiniteSet(LetIn) /\ LetIn \subseteq CountedConns
  /\ Cardinality(CountedConns) \in Nat /\ Cardinality(LetIn) \in Nat
  /\ Cardinality(LetIn) <= Cardinality(CountedConns)
  /\ \A a \in Addrs : IsFiniteSet(Here(a)) /\ Cardinality(Here(a)) \in Nat
<1>1. CountedConns \subseteq Conns /\ LetIn \subseteq CountedConns
      /\ \A a \in Addrs : Here(a) \subseteq Conns
  BY DEF CountedConns, LetIn, Here
<1>2. IsFiniteSet(CountedConns) /\ IsFiniteSet(LetIn)
      /\ \A a \in Addrs : IsFiniteSet(Here(a))
  BY <1>1, FS_Subset, SignalingParametersOK
<1> QED
  BY <1>1, <1>2, FS_Subset, FS_CardinalityType

\* The stored tickets are a function on an interval.
LEMMA TicketShape ==
  ASSUME TypeOK
  PROVE  /\ Len(tickets) \in Nat /\ DOMAIN tickets = 1..Len(tickets)
         /\ \A t \in 1..Len(tickets) : tickets[t] \in Ticket
         /\ Len(tickets) <= MaxTickets /\ 1..Len(tickets) \subseteq 1..MaxTickets
         /\ MaxTickets \in Nat
<1>1. tickets \in Seq(Ticket) /\ Len(tickets) <= MaxTickets /\ MaxTickets \in Nat
  BY SignalingParametersOK DEF TypeOK
<1>2. Len(tickets) \in Nat /\ DOMAIN tickets = 1..Len(tickets) /\ tickets \in [1..Len(tickets) -> Ticket]
  BY <1>1, LenProperties
<1> QED
  BY <1>1, <1>2

\* The invariant holds at the start: one ticket is being issued for each session.
LEMMA InitIInv == Init => IInv
<1> SUFFICES ASSUME Init PROVE IInv
  OBVIOUS
<1>1. Closed \in Conn /\ Closed.pc = "new" /\ conn \in [Conns -> Conn]
      /\ \A c \in Conns : conn[c].pc = "new"
  <2>1. 0 \in 0..MaxRev /\ 0 \in 0..MaxTickets
    BY SignalingParametersOK
  <2>2. NoMsg \in [s : Sessions \cup {NoSession}, rev : 0..MaxRev, t : 0..MaxTickets, seen : 0..MaxRev]
    BY <2>1 DEF NoMsg
  <2>3. [s \in Sessions |-> 0] \in [Sessions -> 0..MaxRev]
    BY <2>1
  <2> QED
    BY <2>2, <2>3 DEF Init, Closed, Conn
<1>2. TypeOK
  <2>1. 1 \in Revs
    BY SignalingParametersOK DEF Revs
  <2>2. row \in [Sessions -> Row] /\ eras \in [Sessions -> [Revs -> Nat]]
    BY <2>1 DEF Init, Row, Negotiation
  <2>3. tickets \in Seq(Ticket) /\ Len(tickets) <= MaxTickets
    BY SignalingParametersOK DEF Init
  <2>4. issuing \subseteq [s : Sessions, role : Roles, rev : Revs]
    BY <2>1 DEF Init, Roles
  <2> QED
    BY <1>1, <2>2, <2>3, <2>4 DEF Init, TypeOK
<1>3. TicketsOK
  <2> DEFINE f == [s \in Sessions |-> [s |-> s, role |-> "host", rev |-> 1]]
  <2>1. f \in Surjection(Sessions, issuing)
    BY DEF Init, Surjection
  <2>2. IsFiniteSet(issuing) /\ Cardinality(issuing) <= Cardinality(Sessions)
    BY <2>1, FS_Surjection, SignalingParametersOK
  <2>3. Cardinality(issuing) \in Nat /\ Cardinality(Sessions) \in Nat
    BY <2>2, FS_CardinalityType, SignalingParametersOK
  <2>4. Len(tickets) = 0
    BY DEF Init
  <2>5. \A t \in 1..MaxTickets : granted[t] = 0
    BY DEF Init
  <2> QED
    BY <2>2, <2>3, <2>4, <2>5, SignalingParametersOK DEF TicketsOK
<1>4. ErasOK /\ \A c \in Conns : MsgOK(c)
  BY <1>1 DEF Init, ErasOK, MsgOK
<1>5. SlotsReturned
  <2>1. CountedConns = {} /\ LetIn = {} /\ \A a \in Addrs : Here(a) = {}
    BY <1>1 DEF CountedConns, LetIn, Here, Counted, Placed
  <2>2. Cardinality({}) = 0 /\ 0 <= MaxConns /\ 0 <= MaxPerAddr
    BY FS_EmptySet, SignalingParametersOK
  <2>3. connCount = 0 /\ \A a \in Addrs : addrCount[a] = 0
    BY DEF Init
  <2> QED
    BY <2>1, <2>2, <2>3, SlotsByName
<1> QED
  BY <1>2, <1>3, <1>4, <1>5 DEF IInv

-----------------------------------------------------------------------------
(* The session's row.                                                      *)

\* A revision is added; those there were keep the negotiation they belong to.
LEMMA MoveKeepsPast ==
  ASSUME IInv, NEW s \in Sessions,
         NEW state \in Negotiation \cup {"connected", "over"}, NEW era \in Nat,
         state = "connected" => era = eras[s][row[s].rev], Move(s, state, era)
  PROVE  /\ row' \in [Sessions -> Row] /\ eras' \in [Sessions -> [Revs -> Nat]]
         /\ \A z \in Sessions : /\ row[z].rev <= row'[z].rev
                                /\ \A r \in 1..row[z].rev : eras'[z][r] = eras[z][r]
         /\ ErasOK'
<1>1. /\ row \in [Sessions -> Row] /\ eras \in [Sessions -> [Revs -> Nat]]
      /\ \A z \in Sessions : row[z].rev \in 1..MaxRev /\ eras[z] \in [Revs -> Nat]
      /\ MaxRev \in Nat
  BY SignalingParametersOK DEF IInv, TypeOK, Row, Revs
<1>2. /\ row[s].rev < MaxRev
      /\ row' = [row EXCEPT ![s] = [state |-> state, rev |-> row[s].rev + 1]]
      /\ eras' = [eras EXCEPT ![s][row[s].rev + 1] = era]
  BY DEF Move
<1>3. row[s].rev + 1 \in Revs /\ row[s].rev \in Revs
  BY <1>1, <1>2 DEF Revs
<1>4. /\ row' \in [Sessions -> Row] /\ row'[s].state = state /\ row'[s].rev = row[s].rev + 1
      /\ \A z \in Sessions : z # s => row'[z] = row[z]
  BY <1>1, <1>2, <1>3 DEF Row
<1>5. /\ eras' \in [Sessions -> [Revs -> Nat]]
      /\ eras'[s][row[s].rev + 1] = era
      /\ \A r \in Revs : r # row[s].rev + 1 => eras'[s][r] = eras[s][r]
      /\ \A z \in Sessions : z # s => eras'[z] = eras[z]
  BY <1>1, <1>2, <1>3
<1>6. \A z \in Sessions : /\ row[z].rev <= row'[z].rev
                          /\ \A r \in 1..row[z].rev : eras'[z][r] = eras[z][r]
  <2>1. ASSUME NEW z \in Sessions PROVE row[z].rev <= row'[z].rev
    <3>1. row[z].rev \in Nat
      BY <1>1
    <3> QED
      BY <1>4, <3>1
  <2>2. ASSUME NEW z \in Sessions, NEW r \in 1..row[z].rev PROVE eras'[z][r] = eras[z][r]
    <3>1. row[z].rev \in Nat /\ row[z].rev <= MaxRev
      BY <1>1
    <3>2. r \in Revs /\ r # row[z].rev + 1
      BY <1>1, <3>1 DEF Revs
    <3> QED
      BY <1>5, <3>2
  <2> QED
    BY <2>1, <2>2
<1>7. ErasOK'
  <2> SUFFICES ASSUME NEW z \in Sessions, row'[z].state = "connected"
               PROVE  row'[z].rev > 1 /\ eras'[z][row'[z].rev - 1] = eras'[z][row'[z].rev]
    BY DEF ErasOK
  <2>1. CASE z = s
    <3>1. row'[z].rev = row[s].rev + 1 /\ row'[z].rev - 1 = row[s].rev /\ row'[z].rev > 1
      <4>1. row[s].rev \in Nat /\ row[s].rev >= 1
        BY <1>1
      <4> QED
        BY <1>4, <2>1, <4>1
    <3>2. eras'[s][row[s].rev] = eras[s][row[s].rev]
      BY <1>1, <1>3, <1>5
    <3>3. eras'[s][row[s].rev + 1] = eras[s][row[s].rev]
      BY <1>4, <1>5, <2>1
    <3> QED
      BY <2>1, <3>1, <3>2, <3>3
  <2>2. CASE z # s
    BY <1>4, <1>5, <2>2 DEF IInv, ErasOK
  <2> QED
    BY <2>1, <2>2
<1> QED
  BY <1>4, <1>5, <1>6, <1>7

\* A message that is left alone stays good while revisions and tickets are added.
LEMMA MessagesStay ==
  ASSUME IInv, NEW c \in Conns, conn'[c] = conn[c], Len(tickets) <= Len(tickets'),
         Len(tickets') \in Nat,
         \A z \in Sessions : /\ row[z].rev <= row'[z].rev /\ row'[z].rev \in Nat
                             /\ \A r \in 1..row[z].rev : eras'[z][r] = eras[z][r]
  PROVE  MsgOK(c)'
<1> DEFINE m == conn[c].msg
<1>1. /\ MsgOK(c) /\ m.rev \in Nat /\ m.seen \in Nat /\ Len(tickets) \in Nat
      /\ \A z \in Sessions : row[z].rev \in Nat
  BY TicketShape, SignalingParametersOK DEF IInv, TypeOK, Conn, Row, Revs
<1>2. conn[c].pc = "send" =>
        /\ m.s \in Sessions /\ m.rev \in 1..row[m.s].rev /\ m.seen \in 1..row[m.s].rev
        /\ eras'[m.s][m.rev] = eras[m.s][m.rev] /\ eras'[m.s][m.seen] = eras[m.s][m.seen]
        /\ m.rev <= row'[m.s].rev /\ m.seen <= row'[m.s].rev
  <2>1. SUFFICES ASSUME conn[c].pc = "send"
                 PROVE  /\ m.s \in Sessions /\ m.rev \in 1..row[m.s].rev
                        /\ m.seen \in 1..row[m.s].rev
                        /\ eras'[m.s][m.rev] = eras[m.s][m.rev]
                        /\ eras'[m.s][m.seen] = eras[m.s][m.seen]
                        /\ m.rev <= row'[m.s].rev /\ m.seen <= row'[m.s].rev
    OBVIOUS
  <2>2. /\ m.s \in Sessions /\ m.rev # 0 /\ m.seen # 0
        /\ m.rev <= row[m.s].rev /\ m.seen <= row[m.s].rev
    BY <1>1, <2>1 DEF MsgOK
  <2> HIDE DEF m
  <2>3. m.rev \in 1..row[m.s].rev /\ m.seen \in 1..row[m.s].rev
    BY <1>1, <2>2
  <2>4. /\ row[m.s].rev <= row'[m.s].rev /\ row'[m.s].rev \in Nat
        /\ eras'[m.s][m.rev] = eras[m.s][m.rev] /\ eras'[m.s][m.seen] = eras[m.s][m.seen]
    BY <2>2, <2>3
  <2>5. m.rev <= row'[m.s].rev /\ m.seen <= row'[m.s].rev
    BY <1>1, <2>2, <2>4
  <2> QED
    BY <2>2, <2>3, <2>4, <2>5
<1>3. conn[c].pc = "consume" => m.t \in 1..Len(tickets')
  BY <1>1 DEF MsgOK
<1> QED
  BY <1>1, <1>2, <1>3 DEF MsgOK

\* Media flows, or the session ends.
LEMMA SessionMovesPreserve ==
  ASSUME IInv, NEW s \in Sessions, MarkConnected(s) \/ Finish(s)
  PROVE  IInv'
<1>1. /\ UNCHANGED <<tickets, issuing, granted, connCount, addrCount, listed, conn>>
      /\ \/ Move(s, "connected", eras[s][row[s].rev])
         \/ Move(s, "over", eras[s][row[s].rev])
  BY DEF MarkConnected, Finish, issue, slots
<1>2. eras[s][row[s].rev] \in Nat
  BY DEF IInv, TypeOK, Row
<1>3. /\ row' \in [Sessions -> Row] /\ eras' \in [Sessions -> [Revs -> Nat]] /\ ErasOK'
      /\ \A z \in Sessions : /\ row[z].rev <= row'[z].rev
                             /\ \A r \in 1..row[z].rev : eras'[z][r] = eras[z][r]
  BY <1>1, <1>2, MoveKeepsPast DEF Negotiation
<1>4. TypeOK'
  BY <1>1, <1>3 DEF IInv, TypeOK
<1>5. TicketsOK' /\ SlotsReturned'
  BY <1>1 DEF IInv, TicketsOK, SlotsReturned
<1>6. \A c \in Conns : MsgOK(c)'
  <2>1. \A z \in Sessions : row'[z].rev \in Nat
    BY <1>3, SignalingParametersOK DEF Row, Revs
  <2>2. Len(tickets') = Len(tickets) /\ Len(tickets) \in Nat
    BY <1>1, TicketShape DEF IInv
  <2>3. Len(tickets) <= Len(tickets')
    BY <2>2
  <2> QED
    BY <1>1, <1>3, <2>1, <2>2, <2>3, MessagesStay
<1> QED
  BY <1>3, <1>4, <1>5, <1>6 DEF IInv

-----------------------------------------------------------------------------
(* Tickets.                                                                *)

\* While sessions and connections stay, their part of the invariant does, if
\* tickets are not taken away.
LEMMA TicketsApart ==
  ASSUME IInv, UNCHANGED <<row, eras, connCount, addrCount, listed, conn>>,
         Len(tickets) <= Len(tickets'), Len(tickets') \in Nat
  PROVE  ErasOK' /\ (\A c \in Conns : MsgOK(c)') /\ SlotsReturned'
<1>1. ErasOK' /\ SlotsReturned'
  BY DEF IInv, ErasOK, SlotsReturned
<1>2. \A z \in Sessions : /\ row[z].rev <= row'[z].rev /\ row'[z].rev \in Nat
                          /\ \A r \in 1..row[z].rev : eras'[z][r] = eras[z][r]
  <2>1. \A z \in Sessions : row[z].rev \in Nat
    BY SignalingParametersOK DEF IInv, TypeOK, Row, Revs
  <2> QED
    BY <2>1
<1>3. \A c \in Conns : MsgOK(c)'
  BY <1>2, MessagesStay
<1> QED
  BY <1>1, <1>3

LEMMA RefreshPreserves ==
  ASSUME IInv, NEW s \in Sessions, RefreshTicket(s)
  PROVE  IInv'
<1> DEFINE i == [s |-> s, role |-> "controller", rev |-> row[s].rev]
<1>1. /\ Len(tickets) + Cardinality(issuing) < MaxTickets /\ issuing' = issuing \cup {i}
      /\ UNCHANGED <<row, eras, tickets, granted, connCount, addrCount, listed, conn>>
  BY DEF RefreshTicket, sessions, slots
<1>2. /\ IsFiniteSet(issuing) /\ Cardinality(issuing) \in Nat /\ Len(tickets) \in Nat
      /\ MaxTickets \in Nat
  BY TicketShape, FS_CardinalityType DEF IInv, TicketsOK
<1>3. /\ IsFiniteSet(issuing') /\ Cardinality(issuing') <= Cardinality(issuing) + 1
      /\ Cardinality(issuing') \in Nat
  <2> HIDE DEF i
  <2>1. /\ IsFiniteSet(issuing \cup {i})
        /\ Cardinality(issuing \cup {i}) = IF i \in issuing THEN Cardinality(issuing)
                                          ELSE Cardinality(issuing) + 1
    BY <1>2, FS_AddElement
  <2> QED
    BY <1>1, <1>2, <2>1
<1>4. i \in [s : Sessions, role : Roles, rev : Revs]
  BY DEF IInv, TypeOK, Row, Roles
<1>5. TypeOK'
  BY <1>1, <1>4 DEF IInv, TypeOK
<1>6. TicketsOK'
  BY <1>1, <1>2, <1>3 DEF IInv, TicketsOK
<1>7. ErasOK' /\ (\A c \in Conns : MsgOK(c)') /\ SlotsReturned'
  BY <1>1, <1>2, TicketsApart
<1> QED
  BY <1>5, <1>6, <1>7 DEF IInv

\* A ticket gets the next number, which authorized nothing so far.
LEMMA IssuePreserves ==
  ASSUME IInv, NEW i \in issuing, Issue(i)
  PROVE  IInv'
<1> DEFINE n == Len(tickets)
           e(t) == IF tickets[t].expired THEN [tickets[t] EXCEPT !.nonce = "gone"] ELSE tickets[t]
           kept == [t \in 1..n |-> e(t)]
           new == [s |-> i.s, role |-> i.role, rev |-> i.rev, nonce |-> "fresh", expired |-> FALSE]
<1>1. /\ n \in Nat /\ DOMAIN tickets = 1..n /\ (\A t \in 1..n : tickets[t] \in Ticket)
      /\ MaxTickets \in Nat
  BY TicketShape DEF IInv
<1>2. /\ issuing' = issuing \ {i} /\ tickets' = Append(kept, new)
      /\ UNCHANGED <<row, eras, granted, connCount, addrCount, listed, conn>>
  BY <1>1 DEF Issue, sessions, slots
<1>3. new \in Ticket
  BY DEF IInv, TypeOK, Ticket
<1>4. \A t \in 1..n : e(t) \in Ticket /\ (tickets[t].nonce # "fresh" => e(t).nonce # "fresh")
  <2> SUFFICES ASSUME NEW t \in 1..n
               PROVE  e(t) \in Ticket /\ (tickets[t].nonce # "fresh" => e(t).nonce # "fresh")
    OBVIOUS
  <2>1. tickets[t] \in Ticket
    BY <1>1
  <2> QED
    BY <2>1 DEF Ticket
<1>5. kept \in Seq(Ticket) /\ Len(kept) = n
  <2>1. kept \in [1..n -> Ticket]
    BY <1>4
  <2> QED
    BY <1>1, <2>1, SeqDef
<1>6. /\ tickets' \in Seq(Ticket) /\ Len(tickets') = n + 1
      /\ \A t \in 1..n : tickets'[t] = e(t)
  <2> HIDE DEF kept, new
  <2>1. /\ tickets' \in Seq(Ticket) /\ Len(tickets') = n + 1
        /\ \A t \in 1..n : tickets'[t] = kept[t]
    BY <1>1, <1>2, <1>3, <1>5
  <2> QED
    BY <2>1 DEF kept
<1>7. /\ IsFiniteSet(issuing') /\ Cardinality(issuing') = Cardinality(issuing) - 1
      /\ Cardinality(issuing) \in Nat /\ n + Cardinality(issuing) <= MaxTickets
      /\ Cardinality(issuing') \in Nat
  BY <1>2, FS_RemoveElement, FS_CardinalityType DEF IInv, TicketsOK
<1>8. Len(tickets') + Cardinality(issuing') <= MaxTickets /\ Len(tickets') <= MaxTickets
  BY <1>1, <1>6, <1>7
<1>9. TypeOK'
  BY <1>2, <1>6, <1>8 DEF IInv, TypeOK
<1>10. TicketsOK'
  <2>1. ASSUME NEW t \in 1..MaxTickets, granted[t] # 0
        PROVE  granted'[t] = 1 /\ t <= Len(tickets') /\ tickets'[t].nonce # "fresh"
    <3>1. granted[t] = 1 /\ t <= n /\ tickets[t].nonce # "fresh" /\ t \in 1..n
      BY <1>1, <2>1 DEF IInv, TicketsOK
    <3>2. tickets'[t].nonce # "fresh"
      BY <1>4, <1>6, <3>1
    <3> QED
      BY <1>1, <1>2, <1>6, <3>1, <3>2
  <2> QED
    BY <1>2, <1>7, <1>8, <2>1 DEF TicketsOK
<1>11. ErasOK' /\ (\A c \in Conns : MsgOK(c)') /\ SlotsReturned'
  BY <1>1, <1>2, <1>6, TicketsApart
<1> QED
  BY <1>9, <1>10, <1>11 DEF IInv

\* A ticket changes: none is added, and what is used up stays so.
LEMMA TicketChanges ==
  ASSUME IInv, NEW t \in 1..Len(tickets), NEW k \in Ticket,
         tickets' = [tickets EXCEPT ![t] = k], tickets[t].nonce # "fresh" => k.nonce # "fresh"
  PROVE  /\ tickets' \in Seq(Ticket) /\ Len(tickets') = Len(tickets)
         /\ \A u \in 1..Len(tickets) : u # t => tickets'[u] = tickets[u]
         /\ tickets'[t] = k
         /\ \A u \in 1..Len(tickets) : tickets[u].nonce # "fresh" => tickets'[u].nonce # "fresh"
<1>1. tickets \in Seq(Ticket)
  BY DEF IInv, TypeOK
<1>2. /\ tickets' \in Seq(Ticket) /\ Len(tickets') = Len(tickets)
      /\ \A u \in 1..Len(tickets) : tickets'[u] = IF u = t THEN k ELSE tickets[u]
  BY <1>1, ExceptSeq
<1> QED
  BY <1>2

LEMMA ExpirePreserves ==
  ASSUME IInv, NEW t \in DOMAIN tickets, Expire(t)
  PROVE  IInv'
<1> DEFINE k == [tickets[t] EXCEPT !.expired = TRUE]
<1>1. /\ tickets' = [tickets EXCEPT ![t] = k] /\ t \in 1..Len(tickets)
      /\ UNCHANGED <<row, eras, issuing, granted, connCount, addrCount, listed, conn>>
      /\ tickets[t] \in Ticket /\ Len(tickets) \in Nat /\ Len(tickets) <= MaxTickets
      /\ MaxTickets \in Nat
  BY TicketShape DEF IInv, Expire, sessions, slots
<1>2. k \in Ticket /\ k.nonce = tickets[t].nonce
  BY <1>1 DEF Ticket
<1>3. /\ tickets' \in Seq(Ticket) /\ Len(tickets') = Len(tickets)
      /\ \A u \in 1..Len(tickets) : tickets[u].nonce # "fresh" => tickets'[u].nonce # "fresh"
  <2> HIDE DEF k
  <2> QED
    BY <1>1, <1>2, TicketChanges
<1>4. TypeOK'
  BY <1>1, <1>3 DEF IInv, TypeOK
<1>5. TicketsOK'
  BY <1>1, <1>3 DEF IInv, TicketsOK
<1>6. ErasOK' /\ (\A c \in Conns : MsgOK(c)') /\ SlotsReturned'
  BY <1>1, <1>3, TicketsApart
<1> QED
  BY <1>4, <1>5, <1>6 DEF IInv

-----------------------------------------------------------------------------
(* Connections: one of them moves.                                         *)

Others(c) == \A d \in Conns : d # c => conn'[d] = conn[d]

\* Its message is all there is to check.
LEMMA ConnMoves ==
  ASSUME IInv, NEW c \in Conns, conn' \in [Conns -> Conn], Others(c), MsgOK(c)',
         listed' \subseteq Conns, connCount' \in Nat, addrCount' \in [Addrs -> Nat],
         UNCHANGED <<row, eras, tickets, issuing, granted>>
  PROVE  TypeOK' /\ TicketsOK' /\ ErasOK' /\ \A d \in Conns : MsgOK(d)'
<1>1. TypeOK'
  BY DEF IInv, TypeOK
<1>2. TicketsOK' /\ ErasOK'
  BY DEF IInv, TicketsOK, ErasOK
<1>3. ASSUME NEW d \in Conns, d # c PROVE MsgOK(d)'
  BY <1>3 DEF IInv, MsgOK, Others
<1> QED
  BY <1>1, <1>2, <1>3

\* It is counted and placed as before.
LEMMA SlotsKept ==
  ASSUME IInv, NEW c \in Conns, Others(c), UNCHANGED <<connCount, addrCount>>,
         conn[c].pc \in Counted <=> conn'[c].pc \in Counted,
         conn[c].pc \in Placed <=> conn'[c].pc \in Placed,
         conn[c].pc = "refused" => conn'[c].pc \notin Counted \ {"refused"}
  PROVE  SlotsReturned'
<1>1. CountedConns' = CountedConns /\ \A a \in Addrs : Here(a)' = Here(a)
  BY DEF CountedConns, Here, Others
<1>2. LetIn' \subseteq LetIn
  BY DEF LetIn, Others
<1>3. Cardinality(LetIn') <= Cardinality(LetIn) /\ Cardinality(LetIn') \in Nat
  BY <1>2, FiniteSlots, FS_Subset, FS_CardinalityType
<1>4. SlotsReturned
  BY DEF IInv
<1>5. Cardinality(LetIn) <= MaxConns /\ Cardinality(LetIn) \in Nat /\ MaxConns \in Nat
  BY <1>4, SlotsByName, FiniteSlots, SignalingParametersOK
<1>6. Cardinality(LetIn') <= MaxConns
  BY <1>3, <1>5
<1>7. /\ connCount' = Cardinality(CountedConns')
      /\ \A a \in Addrs : addrCount'[a] = Cardinality(Here(a)') /\ Cardinality(Here(a)') <= MaxPerAddr
  BY <1>1, <1>4, SlotsByName
<1> QED
  BY <1>6, <1>7 DEF SlotsReturned, CountedConns, LetIn, Here

Stages == {"new", "refused", "admitted", "joining", "live", "consume", "forward",
           "send", "uncount", "unslot", "notify", "mark"}
Msgs   == [s : Sessions \cup {NoSession}, rev : 0..MaxRev, t : 0..MaxTickets, seen : 0..MaxRev]

\* What a connection is made of, and that one of them may be replaced.
LEMMA ConnShape ==
  ASSUME IInv, NEW c \in Conns
  PROVE  /\ conn \in [Conns -> Conn] /\ conn[c] \in Conn
         /\ conn[c].pc \in Stages /\ conn[c].msg \in Msgs /\ conn[c].todo \subseteq Sessions
         /\ conn[c].auth \in [Sessions -> 0..MaxRev] /\ NoMsg \in Msgs /\ Closed \in Conn
<1>1. conn \in [Conns -> Conn] /\ 0 \in 0..MaxRev /\ 0 \in 0..MaxTickets
  BY SignalingParametersOK DEF IInv, TypeOK
<1>2. NoMsg \in Msgs
  BY <1>1 DEF NoMsg, Msgs
<1>3. Closed \in Conn
  BY <1>1, <1>2 DEF Closed, Conn, Msgs
<1> QED
  BY <1>1, <1>2, <1>3 DEF Conn, Stages, Msgs

LEMMA Replaced ==
  ASSUME IInv, NEW c \in Conns, NEW r \in Conn, conn' = [conn EXCEPT ![c] = r]
  PROVE  conn' \in [Conns -> Conn] /\ Others(c) /\ conn'[c] = r
BY DEF IInv, TypeOK, Others

LEMMA Staged ==
  ASSUME IInv, NEW c \in Conns, NEW pc \in Stages, Stage(c, pc)
  PROVE  /\ conn' \in [Conns -> Conn] /\ Others(c)
         /\ conn'[c].pc = pc /\ conn'[c].msg = conn[c].msg
<1>1. [conn[c] EXCEPT !.pc = pc] \in Conn
  BY ConnShape DEF Conn, Stages
<1>2. conn' = [conn EXCEPT ![c] = [conn[c] EXCEPT !.pc = pc]]
  BY DEF Stage
<1> QED
  BY <1>1, <1>2, ConnShape DEF Others, Conn

\* The counters are natural numbers, whatever is added, or taken by one counted.
LEMMA CountersAreNat ==
  ASSUME IInv
  PROVE  connCount \in Nat /\ addrCount \in [Addrs -> Nat] /\ listed \subseteq Conns
BY DEF IInv, TypeOK

-----------------------------------------------------------------------------
(* The way in and the way out: the steps that count.                       *)

\* One more is counted; it is let in only if that is within the limit.
LEMMA OpenPreserves ==
  ASSUME IInv, NEW c \in Conns, Open(c)
  PROVE  IInv'
<1> DEFINE pc == IF connCount + 1 > MaxConns THEN "refused" ELSE "admitted"
<1>1. /\ conn[c].pc = "new" /\ connCount' = connCount + 1 /\ Stage(c, pc) /\ pc \in Stages
      /\ UNCHANGED <<row, eras, tickets, issuing, granted, addrCount, listed>>
  BY DEF Open, sessions, issue, Stages
<1>2. /\ conn' \in [Conns -> Conn] /\ Others(c) /\ conn'[c].pc = pc
  BY <1>1, Staged
<1>3. TypeOK' /\ TicketsOK' /\ ErasOK' /\ \A d \in Conns : MsgOK(d)'
  <2>1. MsgOK(c)'
    BY <1>2 DEF MsgOK
  <2> QED
    BY <1>1, <1>2, <2>1, CountersAreNat, ConnMoves
<1>4. /\ c \notin CountedConns /\ CountedConns' = CountedConns \cup {c}
      /\ LetIn' = (IF pc = "refused" THEN LetIn ELSE LetIn \cup {c})
      /\ \A a \in Addrs : Here(a)' = Here(a)
  BY <1>1, <1>2 DEF CountedConns, LetIn, Here, Counted, Placed, Others
<1>5. /\ connCount = Cardinality(CountedConns) /\ Cardinality(LetIn) <= MaxConns
      /\ \A a \in Addrs : addrCount[a] = Cardinality(Here(a)) /\ Cardinality(Here(a)) <= MaxPerAddr
  BY SlotsByName DEF IInv
<1>6. IsFiniteSet(CountedConns \cup {c}) /\ connCount' = Cardinality(CountedConns \cup {c})
  BY <1>1, <1>4, <1>5, FiniteSlots, FS_AddElement
<1>7. Cardinality(LetIn') <= MaxConns
  <2>1. CASE pc = "refused"
    BY <1>4, <1>5, <2>1
  <2>2. CASE pc # "refused"
    <3>1. LetIn \cup {c} \subseteq CountedConns \cup {c}
      BY FiniteSlots
    <3>2. IsFiniteSet(LetIn \cup {c}) /\ Cardinality(LetIn \cup {c}) <= connCount'
      BY <1>6, <3>1, FS_Subset
    <3>3. connCount' <= MaxConns /\ connCount' \in Nat /\ MaxConns \in Nat
      BY <1>1, <2>2, CountersAreNat, SignalingParametersOK
    <3>4. Cardinality(LetIn \cup {c}) \in Nat
      BY <3>2, FS_CardinalityType
    <3> QED
      BY <1>4, <2>2, <3>2, <3>3, <3>4
  <2> QED
    BY <2>1, <2>2
<1>8. SlotsReturned'
  BY <1>1, <1>4, <1>5, <1>6, <1>7 DEF SlotsReturned, CountedConns, LetIn, Here
<1> QED
  BY <1>3, <1>8 DEF IInv

\* One that was counted is so no more.
LEMMA CountedOut ==
  ASSUME IInv, NEW c \in Conns, conn[c].pc \in {"refused", "uncount"}, Others(c),
         conn'[c].pc \in {"new", "unslot"},
         conn[c].pc = "uncount" <=> conn'[c].pc = "unslot",
         connCount' = connCount - 1, UNCHANGED addrCount
  PROVE  connCount' \in Nat /\ SlotsReturned'
<1>1. /\ c \in CountedConns /\ CountedConns' = CountedConns \ {c} /\ LetIn' \subseteq LetIn
      /\ \A a \in Addrs : Here(a)' = Here(a)
  BY DEF CountedConns, LetIn, Here, Counted, Placed, Others
<1>2. /\ connCount = Cardinality(CountedConns) /\ Cardinality(LetIn) <= MaxConns
      /\ \A a \in Addrs : addrCount[a] = Cardinality(Here(a)) /\ Cardinality(Here(a)) <= MaxPerAddr
  BY SlotsByName DEF IInv
<1>3. IsFiniteSet(CountedConns \ {c}) /\ connCount' = Cardinality(CountedConns \ {c})
  BY <1>1, <1>2, FiniteSlots, FS_RemoveElement
<1>4. connCount' \in Nat
  BY <1>3, FS_CardinalityType
<1>5. Cardinality(LetIn') <= Cardinality(LetIn) /\ Cardinality(LetIn') \in Nat
  BY <1>1, FiniteSlots, FS_Subset, FS_CardinalityType
<1>6. Cardinality(LetIn') <= MaxConns
  BY <1>2, <1>5, FiniteSlots, SignalingParametersOK
<1> QED
  BY <1>1, <1>2, <1>3, <1>4, <1>6 DEF SlotsReturned, CountedConns, LetIn, Here

LEMMA CountOutPreserves ==
  ASSUME IInv, NEW c \in Conns, Refuse(c) \/ Uncount(c)
  PROVE  IInv'
<1>1. PICK pc \in {"new", "unslot"} :
        /\ conn[c].pc \in {"refused", "uncount"} /\ (conn[c].pc = "uncount" <=> pc = "unslot")
        /\ connCount' = connCount - 1 /\ Stage(c, pc)
        /\ UNCHANGED <<row, eras, tickets, issuing, granted, addrCount, listed>>
  BY DEF Refuse, Uncount, sessions, issue
<1>2. conn' \in [Conns -> Conn] /\ Others(c) /\ conn'[c].pc = pc
  <2>1. pc \in Stages
    BY DEF Stages
  <2> QED
    BY <1>1, <2>1, Staged
<1>3. connCount' \in Nat /\ SlotsReturned'
  BY <1>1, <1>2, CountedOut
<1>4. MsgOK(c)'
  BY <1>2 DEF MsgOK
<1>5. TypeOK' /\ TicketsOK' /\ ErasOK' /\ \A d \in Conns : MsgOK(d)'
  BY <1>1, <1>2, <1>3, <1>4, CountersAreNat, ConnMoves
<1> QED
  BY <1>3, <1>5 DEF IInv

\* A slot of the address is taken if there is one.
LEMMA AcquirePreserves ==
  ASSUME IInv, NEW c \in Conns, AcquireIPSlot(c)
  PROVE  IInv'
<1> DEFINE b == AddrOf[c]
<1>1. /\ conn[c].pc = "admitted" /\ UNCHANGED <<row, eras, tickets, issuing, granted, connCount, listed>>
      /\ \/ Stage(c, "refused") /\ UNCHANGED addrCount
         \/ /\ addrCount[b] < MaxPerAddr /\ Stage(c, "joining")
            /\ addrCount' = [addrCount EXCEPT ![b] = @ + 1]
  <2>1. addrCount[b] \in Nat /\ MaxPerAddr \in Nat /\ b \in Addrs
    BY SignalingParametersOK, CountersAreNat
  <2> QED
    BY <2>1 DEF AcquireIPSlot, sessions, issue
<1>2. CASE Stage(c, "refused") /\ UNCHANGED addrCount
  <2>1. conn' \in [Conns -> Conn] /\ Others(c) /\ conn'[c].pc = "refused"
    BY <1>2, Staged DEF Stages
  <2>2. MsgOK(c)'
    BY <2>1 DEF MsgOK
  <2>3. SlotsReturned'
    BY <1>1, <1>2, <2>1, SlotsKept DEF Counted, Placed
  <2> QED
    BY <1>1, <1>2, <2>1, <2>2, <2>3, CountersAreNat, ConnMoves DEF IInv
<1>3. CASE /\ addrCount[b] < MaxPerAddr /\ Stage(c, "joining")
           /\ addrCount' = [addrCount EXCEPT ![b] = @ + 1]
  <2>1. conn' \in [Conns -> Conn] /\ Others(c) /\ conn'[c].pc = "joining"
    BY <1>3, Staged DEF Stages
  <2>2. MsgOK(c)'
    BY <2>1 DEF MsgOK
  <2>3. /\ b \in Addrs /\ addrCount' \in [Addrs -> Nat] /\ addrCount'[b] = addrCount[b] + 1
        /\ \A a \in Addrs : a # b => addrCount'[a] = addrCount[a]
    BY <1>3, SignalingParametersOK, CountersAreNat
  <2>4. /\ CountedConns' = CountedConns /\ LetIn' = LetIn
        /\ c \notin Here(b) /\ Here(b)' = Here(b) \cup {c}
        /\ \A a \in Addrs : a # b => Here(a)' = Here(a)
    BY <1>1, <2>1 DEF CountedConns, LetIn, Here, Counted, Placed, Others
  <2>5. /\ connCount = Cardinality(CountedConns) /\ Cardinality(LetIn) <= MaxConns
        /\ \A a \in Addrs : addrCount[a] = Cardinality(Here(a)) /\ Cardinality(Here(a)) <= MaxPerAddr
    BY SlotsByName DEF IInv
  <2>6. Cardinality(Here(b) \cup {c}) = Cardinality(Here(b)) + 1
    BY <2>3, <2>4, FiniteSlots, FS_AddElement
  <2>7. addrCount'[b] = Cardinality(Here(b)') /\ Cardinality(Here(b)') <= MaxPerAddr
    <3>1. addrCount[b] \in Nat /\ MaxPerAddr \in Nat
      BY <2>3, SignalingParametersOK, CountersAreNat
    <3> QED
      BY <1>3, <2>3, <2>4, <2>5, <2>6, <3>1
  <2>8. SlotsReturned'
    <3>1. \A a \in Addrs : addrCount'[a] = Cardinality(Here(a)') /\ Cardinality(Here(a)') <= MaxPerAddr
      BY <2>3, <2>4, <2>5, <2>7
    <3>2. connCount' = Cardinality(CountedConns') /\ Cardinality(LetIn') <= MaxConns
      BY <1>1, <2>4, <2>5
    <3> QED
      BY <3>1, <3>2 DEF SlotsReturned, CountedConns, LetIn, Here
  <2> QED
    BY <1>1, <2>1, <2>2, <2>3, <2>8, CountersAreNat, ConnMoves DEF IInv
<1> QED
  BY <1>1, <1>2, <1>3

\* The slot of the address is given back.
LEMMA ReleasePreserves ==
  ASSUME IInv, NEW c \in Conns, ReleaseIPSlot(c)
  PROVE  IInv'
<1> DEFINE b == AddrOf[c]
           r == IF GivenUp(c) = {} THEN Closed
                ELSE [conn[c] EXCEPT !.pc = "notify", !.todo = GivenUp(c)]
<1>1. /\ conn[c].pc = "unslot" /\ UNCHANGED <<row, eras, tickets, issuing, granted, connCount, listed>>
      /\ addrCount' = [addrCount EXCEPT ![b] = @ - 1]
      /\ conn' = [conn EXCEPT ![c] = r]
  BY DEF ReleaseIPSlot, sessions, issue
<1>2. r \in Conn /\ r.pc \in {"new", "notify"}
  <2>1. GivenUp(c) \subseteq Sessions
    BY DEF GivenUp
  <2> QED
    BY <2>1, ConnShape DEF Conn, Closed
<1>3. conn' \in [Conns -> Conn] /\ Others(c) /\ conn'[c].pc \in {"new", "notify"}
  BY <1>1, <1>2, Replaced
<1>4. MsgOK(c)'
  BY <1>3 DEF MsgOK
<1>5. /\ CountedConns' = CountedConns /\ LetIn' = LetIn
      /\ c \in Here(b) /\ Here(b)' = Here(b) \ {c}
      /\ \A a \in Addrs : a # b => Here(a)' = Here(a)
  BY <1>1, <1>3 DEF CountedConns, LetIn, Here, Counted, Placed, Others
<1>6. /\ connCount = Cardinality(CountedConns) /\ Cardinality(LetIn) <= MaxConns
      /\ \A a \in Addrs : addrCount[a] = Cardinality(Here(a)) /\ Cardinality(Here(a)) <= MaxPerAddr
  BY SlotsByName DEF IInv
<1>7. /\ b \in Addrs /\ addrCount \in [Addrs -> Nat] /\ MaxPerAddr \in Nat
  BY SignalingParametersOK, CountersAreNat
<1>8. /\ IsFiniteSet(Here(b) \ {c}) /\ Cardinality(Here(b) \ {c}) = Cardinality(Here(b)) - 1
      /\ Cardinality(Here(b) \ {c}) \in Nat
  BY <1>5, <1>7, FiniteSlots, FS_RemoveElement, FS_CardinalityType
<1>9. /\ addrCount'[b] = addrCount[b] - 1 /\ \A a \in Addrs : a # b => addrCount'[a] = addrCount[a]
  BY <1>1, <1>7
<1>10. addrCount'[b] = Cardinality(Here(b)') /\ Cardinality(Here(b)') <= MaxPerAddr
       /\ addrCount'[b] \in Nat
  BY <1>5, <1>6, <1>7, <1>8, <1>9
<1>11. addrCount' \in [Addrs -> Nat]
  BY <1>1, <1>7, <1>9, <1>10
<1>12. SlotsReturned'
  <2>1. \A a \in Addrs : addrCount'[a] = Cardinality(Here(a)') /\ Cardinality(Here(a)') <= MaxPerAddr
    BY <1>5, <1>6, <1>9, <1>10
  <2>2. connCount' = Cardinality(CountedConns') /\ Cardinality(LetIn') <= MaxConns
    BY <1>1, <1>5, <1>6
  <2> QED
    BY <2>1, <2>2 DEF SlotsReturned, CountedConns, LetIn, Here
<1> QED
  BY <1>1, <1>3, <1>4, <1>11, <1>12, CountersAreNat, ConnMoves DEF IInv

-----------------------------------------------------------------------------
(* The steps in between.                                                   *)

\* A step of a connection that changes nothing else, and leaves it counted and
\* placed as it was, needs its message checked only.
LEMMA QuietMove ==
  ASSUME IInv, NEW c \in Conns, conn' \in [Conns -> Conn], Others(c), MsgOK(c)',
         listed' \subseteq Conns,
         UNCHANGED <<row, eras, tickets, issuing, granted, connCount, addrCount>>,
         conn[c].pc \in Counted <=> conn'[c].pc \in Counted,
         conn[c].pc \in Placed <=> conn'[c].pc \in Placed,
         conn[c].pc # "refused"
  PROVE  IInv'
<1>1. SlotsReturned'
  BY SlotsKept
<1>2. TypeOK' /\ TicketsOK' /\ ErasOK' /\ \A d \in Conns : MsgOK(d)'
  BY CountersAreNat, ConnMoves
<1> QED
  BY <1>1, <1>2 DEF IInv

LEMMA JoinPreserves ==
  ASSUME IInv, NEW c \in Conns, FailJoin(c) \/ Join(c)
  PROVE  IInv'
<1>1. PICK pc \in {"uncount", "live"} :
        /\ conn[c].pc = "joining" /\ Stage(c, pc) /\ (listed' = listed \/ listed' = listed \cup {c})
        /\ UNCHANGED <<row, eras, tickets, issuing, granted, connCount, addrCount>>
  BY DEF FailJoin, Join, sessions, issue, slots
<1>2. conn' \in [Conns -> Conn] /\ Others(c) /\ conn'[c].pc = pc
  <2>1. pc \in Stages
    BY DEF Stages
  <2> QED
    BY <1>1, <2>1, Staged
<1>3. MsgOK(c)'
  BY <1>2 DEF MsgOK
<1>4. listed' \subseteq Conns
  BY <1>1, CountersAreNat
<1> QED
  BY <1>1, <1>2, <1>3, <1>4, QuietMove DEF Counted, Placed

LEMMA LeavePreserves ==
  ASSUME IInv, NEW c \in Conns, Leave(c)
  PROVE  IInv'
<1> DEFINE last == (listed \ {c}) \cap Endpoint(c) = {}
           r == [conn[c] EXCEPT !.pc = "uncount", !.last = last]
<1>1. /\ conn[c].pc = "live" /\ listed' = listed \ {c}
      /\ conn' = [conn EXCEPT ![c] = r]
      /\ UNCHANGED <<row, eras, tickets, issuing, granted, connCount, addrCount>>
  BY DEF Leave, sessions, issue, slots
<1>2. r \in Conn /\ r.pc = "uncount"
  <2>1. last \in BOOLEAN
    OBVIOUS
  <2> HIDE DEF last
  <2> QED
    BY <2>1, ConnShape DEF Conn
<1>3. conn' \in [Conns -> Conn] /\ Others(c) /\ conn'[c].pc = "uncount"
  BY <1>1, <1>2, Replaced
<1>4. MsgOK(c)' /\ listed' \subseteq Conns
  BY <1>1, <1>3, CountersAreNat DEF MsgOK
<1> QED
  BY <1>1, <1>3, <1>4, QuietMove DEF Counted, Placed

\* A message comes in: with a ticket of the session, or with an authorization.
LEMMA MessagePreserves ==
  ASSUME IInv, NEW c \in Conns,
         (\E t \in DOMAIN tickets : ClientReady(c, t)) \/ (\E s \in Sessions : Signal(c, s))
  PROVE  IInv'
<1>1. CASE \E t \in DOMAIN tickets : ClientReady(c, t)
  <2>1. PICK t \in DOMAIN tickets : ClientReady(c, t)
    BY <1>1
  <2> DEFINE m == [NoMsg EXCEPT !.s = tickets[t].s, !.rev = tickets[t].rev, !.t = t]
             r == [conn[c] EXCEPT !.pc = "consume", !.msg = m]
  <2>2. /\ conn[c].pc = "live" /\ conn' = [conn EXCEPT ![c] = r]
        /\ UNCHANGED <<row, eras, tickets, issuing, granted, connCount, addrCount, listed>>
    BY <2>1 DEF ClientReady, sessions, issue, slots
  <2>3. /\ t \in 1..Len(tickets) /\ t \in 0..MaxTickets
        /\ tickets[t].s \in Sessions /\ tickets[t].rev \in Revs /\ tickets[t].rev # 0
        /\ tickets[t].rev \in 0..MaxRev
    <3>1. t \in 1..Len(tickets) /\ tickets[t] \in Ticket /\ Len(tickets) <= MaxTickets
          /\ Len(tickets) \in Nat /\ MaxTickets \in Nat /\ MaxRev \in Nat
      BY <2>1, TicketShape, SignalingParametersOK DEF IInv
    <3> QED
      BY <3>1 DEF Ticket, Revs
  <2>4. m \in Msgs /\ m.s = tickets[t].s /\ m.rev = tickets[t].rev /\ m.t = t
    <3>1. NoMsg \in Msgs
      BY ConnShape
    <3> QED
      BY <2>3, <3>1 DEF Msgs
  <2>5. r \in Conn /\ r.pc = "consume" /\ r.msg = m
    <3> HIDE DEF m
    <3>1. conn[c] \in Conn
      BY ConnShape
    <3>2. r.pc = "consume" /\ r.msg = m
      BY <3>1 DEF Conn
    <3>3. r \in Conn
      BY <2>4, <3>1 DEF Conn, Msgs
    <3> QED
      BY <3>2, <3>3
  <2>6. conn' \in [Conns -> Conn] /\ Others(c) /\ conn'[c].pc = "consume" /\ conn'[c].msg = m
    BY <2>2, <2>5, Replaced
  <2>7. MsgOK(c)'
    <3> HIDE DEF m
    <3> QED
      BY <2>2, <2>3, <2>4, <2>6 DEF MsgOK
  <2> QED
    BY <2>2, <2>6, <2>7, CountersAreNat, QuietMove DEF Counted, Placed
<1>2. CASE \E s \in Sessions : Signal(c, s)
  <2>1. PICK s \in Sessions : Signal(c, s)
    BY <1>2
  <2> DEFINE m == [NoMsg EXCEPT !.s = s, !.rev = conn[c].auth[s]]
             r == [conn[c] EXCEPT !.pc = "forward", !.msg = m]
  <2>2. /\ conn[c].pc = "live" /\ conn[c].auth[s] # 0 /\ conn' = [conn EXCEPT ![c] = r]
        /\ UNCHANGED <<row, eras, tickets, issuing, granted, connCount, addrCount, listed>>
    BY <2>1 DEF Signal, sessions, issue, slots
  <2>3. conn[c].auth[s] \in 0..MaxRev
    BY ConnShape
  <2>4. m \in Msgs /\ m.s = s /\ m.rev = conn[c].auth[s]
    <3>1. NoMsg \in Msgs
      BY ConnShape
    <3> QED
      BY <2>3, <3>1 DEF Msgs
  <2>5. r \in Conn /\ r.pc = "forward" /\ r.msg = m
    <3> HIDE DEF m
    <3>1. m \in Msgs
      BY <2>4
    <3>2. conn[c] \in Conn
      BY ConnShape
    <3> QED
      BY <3>1, <3>2 DEF Conn, Msgs
  <2>6. conn' \in [Conns -> Conn] /\ Others(c) /\ conn'[c].pc = "forward" /\ conn'[c].msg = m
    BY <2>2, <2>5, Replaced
  <2>7. MsgOK(c)'
    <3> HIDE DEF m
    <3> QED
      BY <2>2, <2>4, <2>6 DEF MsgOK
  <2> QED
    BY <2>2, <2>6, <2>7, CountersAreNat, QuietMove DEF Counted, Placed
<1> QED
  BY <1>1, <1>2

\* The session is read again; what is sent belongs to its present negotiation: its
\* revision is the session's, or the one before it was connected.
LEMMA ForwardPreserves ==
  ASSUME IInv, NEW c \in Conns, ForwardSignal(c)
  PROVE  IInv'
<1> DEFINE m == conn[c].msg
<1>1. /\ conn[c].pc = "forward"
      /\ UNCHANGED <<row, eras, tickets, issuing, granted, connCount, addrCount, listed>>
  BY DEF ForwardSignal, sessions, issue, slots
<1>2. /\ m \in Msgs /\ m.s \in Sessions /\ m.rev # 0 /\ m.rev \in Nat /\ conn[c] \in Conn
      /\ row[m.s] \in Row /\ row[m.s].rev \in 0..MaxRev /\ row[m.s].rev \in Nat
      /\ row[m.s].rev # 0
  <2>1. m.s \in Sessions /\ m.rev # 0
    BY <1>1 DEF IInv, MsgOK
  <2>2. m \in Msgs /\ m.rev \in Nat /\ conn[c] \in Conn
    BY ConnShape, SignalingParametersOK DEF Msgs
  <2>3. row[m.s] \in Row
    BY <2>1 DEF IInv, TypeOK
  <2> QED
    BY <2>1, <2>2, <2>3, SignalingParametersOK DEF Row, Revs
<1>3. CASE ValidRevision(m.s, m.rev)
  <2> DEFINE n == [m EXCEPT !.seen = row[m.s].rev]
             r == [conn[c] EXCEPT !.pc = "send", !.msg = n]
  <2>1. conn' = [conn EXCEPT ![c] = r]
    BY <1>3 DEF ForwardSignal
  <2>2. n \in Msgs /\ n.s = m.s /\ n.rev = m.rev /\ n.seen = row[m.s].rev
    BY <1>2 DEF Msgs
  <2>3. r \in Conn /\ r.pc = "send" /\ r.msg = n
    <3> HIDE DEF n
    <3> QED
      BY <1>2, <2>2 DEF Conn, Msgs
  <2>4. conn' \in [Conns -> Conn] /\ Others(c) /\ conn'[c].pc = "send" /\ conn'[c].msg = n
    BY <2>1, <2>3, Replaced
  <2>5. m.rev <= row[m.s].rev /\ eras[m.s][m.rev] = eras[m.s][row[m.s].rev]
    <3>1. CASE row[m.s].rev = m.rev
      BY <1>2, <3>1
    <3>2. CASE row[m.s].state = "connected" /\ row[m.s].rev = m.rev + 1
      <4>1. eras[m.s][row[m.s].rev - 1] = eras[m.s][row[m.s].rev]
        BY <1>2, <3>2 DEF IInv, ErasOK
      <4>2. row[m.s].rev - 1 = m.rev
        BY <1>2, <3>2
      <4> QED
        BY <1>2, <3>2, <4>1, <4>2
    <3> QED
      BY <1>3, <3>1, <3>2 DEF ValidRevision
  <2>6. MsgOK(c)'
    <3> HIDE DEF n
    <3> QED
      BY <1>1, <1>2, <2>2, <2>4, <2>5 DEF MsgOK
  <2> QED
    BY <1>1, <2>4, <2>6, CountersAreNat, QuietMove DEF Counted, Placed
<1>4. CASE ~ValidRevision(m.s, m.rev)
  <2> DEFINE r == [conn[c] EXCEPT !.pc = "live", !.msg = NoMsg]
  <2>1. conn' = [conn EXCEPT ![c] = r]
    BY <1>4 DEF ForwardSignal
  <2>2. r \in Conn /\ r.pc = "live"
    BY ConnShape DEF Conn, Msgs
  <2>3. conn' \in [Conns -> Conn] /\ Others(c) /\ conn'[c].pc = "live"
    BY <2>1, <2>2, Replaced
  <2>4. MsgOK(c)'
    BY <2>3 DEF MsgOK
  <2> QED
    BY <1>1, <2>3, <2>4, CountersAreNat, QuietMove DEF Counted, Placed
<1> QED
  BY <1>3, <1>4

LEMMA SendPreserves ==
  ASSUME IInv, NEW c \in Conns, Send(c)
  PROVE  IInv'
<1> DEFINE r == [conn[c] EXCEPT !.pc = "live", !.msg = NoMsg]
<1>1. /\ conn[c].pc = "send" /\ conn' = [conn EXCEPT ![c] = r]
      /\ UNCHANGED <<row, eras, tickets, issuing, granted, connCount, addrCount, listed>>
  BY DEF Send, sessions, issue, slots
<1>2. r \in Conn /\ r.pc = "live"
  BY ConnShape DEF Conn, Msgs
<1>3. conn' \in [Conns -> Conn] /\ Others(c) /\ conn'[c].pc = "live"
  BY <1>1, <1>2, Replaced
<1>4. MsgOK(c)'
  BY <1>3 DEF MsgOK
<1> QED
  BY <1>1, <1>3, <1>4, CountersAreNat, QuietMove DEF Counted, Placed

\* The nonce is consumed if it was not, and authorizes; otherwise the message ends.
LEMMA ConsumePreserves ==
  ASSUME IInv, NEW c \in Conns, ConsumeNonce(c)
  PROVE  IInv'
<1> DEFINE m == conn[c].msg
<1>1. /\ conn[c].pc = "consume"
      /\ UNCHANGED <<row, eras, issuing, connCount, addrCount, listed>>
  BY DEF ConsumeNonce, sessions, slots
<1>2. /\ m.s \in Sessions /\ m.rev # 0 /\ m.rev \in 0..MaxRev /\ m.t \in 1..Len(tickets)
      /\ tickets[m.t] \in Ticket /\ m.t \in 1..MaxTickets
      /\ Len(tickets) \in Nat /\ Len(tickets) <= MaxTickets /\ MaxTickets \in Nat
  <2>1. m.s \in Sessions /\ m.rev # 0 /\ m.t \in 1..Len(tickets)
    BY <1>1 DEF IInv, MsgOK
  <2>2. m.rev \in 0..MaxRev
    BY ConnShape DEF Msgs
  <2> QED
    BY <2>1, <2>2, TicketShape DEF IInv
<1>3. CASE tickets[m.t].nonce = "fresh"
  <2> DEFINE k == [tickets[m.t] EXCEPT !.nonce = "used"]
             r == [conn[c] EXCEPT !.pc = "forward", !.auth[m.s] = m.rev]
  <2>1. /\ tickets' = [tickets EXCEPT ![m.t] = k]
        /\ granted' = [granted EXCEPT ![m.t] = @ + 1]
        /\ conn' = [conn EXCEPT ![c] = r]
    BY <1>1, <1>3 DEF ConsumeNonce
  <2>2. k \in Ticket /\ k.nonce = "used"
    BY <1>2 DEF Ticket
  <2>3. /\ tickets' \in Seq(Ticket) /\ Len(tickets') = Len(tickets) /\ tickets'[m.t] = k
        /\ \A u \in 1..Len(tickets) : tickets[u].nonce # "fresh" => tickets'[u].nonce # "fresh"
    <3>1. tickets[m.t].nonce # "fresh" => k.nonce # "fresh"
      BY <1>3
    <3> HIDE DEF k
    <3> QED
      BY <1>2, <2>1, <2>2, <3>1, TicketChanges
  <2>4. /\ granted \in [1..MaxTickets -> Nat] /\ granted[m.t] = 0
        /\ granted' \in [1..MaxTickets -> Nat] /\ granted'[m.t] = 1
        /\ \A t \in 1..MaxTickets : t # m.t => granted'[t] = granted[t]
    <3>1. granted \in [1..MaxTickets -> Nat] /\ granted[m.t] = 0
      BY <1>2, <1>3 DEF IInv, TypeOK, TicketsOK
    <3> QED
      BY <1>2, <2>1, <3>1
  <2>5. r \in Conn /\ r.pc = "forward" /\ r.msg = m
    <3>1. [conn[c].auth EXCEPT ![m.s] = m.rev] \in [Sessions -> 0..MaxRev]
      BY <1>2, ConnShape
    <3>2. conn[c] \in Conn
      BY ConnShape
    <3> QED
      BY <3>1, <3>2 DEF Conn
  <2>6. conn' \in [Conns -> Conn] /\ Others(c) /\ conn'[c].pc = "forward" /\ conn'[c].msg = m
    BY <2>1, <2>5, Replaced
  <2>7. TypeOK'
    BY <1>1, <1>2, <2>3, <2>4, <2>6 DEF IInv, TypeOK
  <2>8. TicketsOK'
    <3>1. IsFiniteSet(issuing') /\ Len(tickets') + Cardinality(issuing') <= MaxTickets
      BY <1>1, <2>3 DEF IInv, TicketsOK
    <3>2. ASSUME NEW t \in 1..MaxTickets, granted'[t] # 0
          PROVE  granted'[t] = 1 /\ t <= Len(tickets') /\ tickets'[t].nonce # "fresh"
      <4>1. CASE t = m.t
        <5>1. k.nonce # "fresh"
          BY <2>2
        <5>2. granted'[t] = 1 /\ tickets'[t] = k
          BY <2>3, <2>4, <4>1
        <5>3. t <= Len(tickets')
          BY <1>2, <2>3, <4>1
        <5> QED
          BY <5>1, <5>2, <5>3
      <4>2. CASE t # m.t
        <5>1. granted[t] = 1 /\ t <= Len(tickets) /\ tickets[t].nonce # "fresh" /\ t \in 1..Len(tickets)
          BY <1>2, <2>4, <3>2, <4>2 DEF IInv, TicketsOK
        <5> QED
          BY <2>3, <2>4, <4>2, <5>1
      <4> QED
        BY <4>1, <4>2
    <3> QED
      BY <3>1, <3>2 DEF TicketsOK
  <2>9. ErasOK'
    BY <1>1 DEF IInv, ErasOK
  <2>10. \A d \in Conns : MsgOK(d)'
    <3>1. MsgOK(c)'
      BY <1>2, <2>6 DEF MsgOK
    <3>2. ASSUME NEW d \in Conns, d # c PROVE MsgOK(d)'
      BY <1>1, <2>3, <2>6, <3>2 DEF IInv, MsgOK, Others
    <3> QED
      BY <3>1, <3>2
  <2>11. SlotsReturned'
    BY <1>1, <2>6, SlotsKept DEF Counted, Placed
  <2> QED
    BY <2>7, <2>8, <2>9, <2>10, <2>11 DEF IInv
<1>4. CASE tickets[m.t].nonce # "fresh"
  <2> DEFINE r == [conn[c] EXCEPT !.pc = "live", !.msg = NoMsg]
  <2>1. conn' = [conn EXCEPT ![c] = r] /\ UNCHANGED <<tickets, granted>>
    BY <1>4 DEF ConsumeNonce
  <2>2. r \in Conn /\ r.pc = "live"
    BY ConnShape DEF Conn, Msgs
  <2>3. conn' \in [Conns -> Conn] /\ Others(c) /\ conn'[c].pc = "live"
    BY <2>1, <2>2, Replaced
  <2>4. MsgOK(c)'
    BY <2>3 DEF MsgOK
  <2> QED
    BY <1>1, <2>1, <2>3, <2>4, CountersAreNat, QuietMove DEF Counted, Placed
<1> QED
  BY <1>3, <1>4

-----------------------------------------------------------------------------
(* The peers of a connection that left.                                    *)

\* The loop goes on, or the goroutine has ended: in neither case is it counted.
LEMMA ToldShape ==
  ASSUME IInv, NEW c \in Conns, NEW s, conn' = Told(c, s)
  PROVE  /\ conn' \in [Conns -> Conn] /\ Others(c) /\ conn'[c].pc \in {"new", "notify"}
         /\ MsgOK(c)'
<1> DEFINE left == conn[c].todo \ {s}
           r == IF left = {} THEN Closed
                ELSE [conn[c] EXCEPT !.pc = "notify", !.todo = left, !.msg = NoMsg]
<1>1. conn' = [conn EXCEPT ![c] = r]
  BY DEF Told
<1>2. r \in Conn /\ r.pc \in {"new", "notify"}
  <2>1. CASE left = {}
    BY <2>1, ConnShape DEF Closed
  <2>2. CASE left # {}
    <3>1. left \subseteq Sessions
      BY ConnShape
    <3> HIDE DEF left
    <3> QED
      BY <2>2, <3>1, ConnShape DEF Conn, Msgs
  <2> QED
    BY <2>1, <2>2
<1>3. conn' \in [Conns -> Conn] /\ Others(c) /\ conn'[c].pc \in {"new", "notify"}
  BY <1>1, <1>2, Replaced
<1> QED
  BY <1>3 DEF MsgOK

LEMMA NotifyPreserves ==
  ASSUME IInv, NEW c \in Conns, NEW s \in Sessions, NotifyPeerLeft(c, s)
  PROVE  IInv'
<1>1. /\ conn[c].pc = "notify"
      /\ UNCHANGED <<row, eras, tickets, issuing, granted, connCount, addrCount, listed>>
  BY DEF NotifyPeerLeft, sessions, issue, slots
<1>2. CASE row[s].state = "connected"
  <2> DEFINE m == [NoMsg EXCEPT !.s = s, !.seen = row[s].rev]
             r == [conn[c] EXCEPT !.pc = "mark", !.msg = m]
  <2>1. conn' = [conn EXCEPT ![c] = r]
    BY <1>2 DEF NotifyPeerLeft
  <2>2. m \in Msgs /\ m.s = s
    <3>1. NoMsg \in Msgs
      BY ConnShape
    <3>2. row[s].rev \in 0..MaxRev
      BY SignalingParametersOK DEF IInv, TypeOK, Row, Revs
    <3> QED
      BY <3>1, <3>2 DEF Msgs
  <2>3. r \in Conn /\ r.pc = "mark" /\ r.msg = m
    <3> HIDE DEF m
    <3>1. m \in Msgs
      BY <2>2
    <3>2. conn[c] \in Conn
      BY ConnShape
    <3> QED
      BY <3>1, <3>2 DEF Conn, Msgs
  <2>4. conn' \in [Conns -> Conn] /\ Others(c) /\ conn'[c].pc = "mark" /\ conn'[c].msg = m
    BY <2>1, <2>3, Replaced
  <2>5. MsgOK(c)'
    <3> HIDE DEF m
    <3> QED
      BY <2>2, <2>4 DEF MsgOK
  <2> QED
    BY <1>1, <2>4, <2>5, CountersAreNat, QuietMove DEF Counted, Placed
<1>3. CASE row[s].state # "connected"
  <2>1. conn' = Told(c, s)
    BY <1>3 DEF NotifyPeerLeft
  <2>2. /\ conn' \in [Conns -> Conn] /\ Others(c) /\ conn'[c].pc \in {"new", "notify"}
        /\ MsgOK(c)'
    BY <2>1, ToldShape
  <2> QED
    BY <1>1, <2>2, CountersAreNat, QuietMove DEF Counted, Placed
<1> QED
  BY <1>2, <1>3

\* The session is to be negotiated anew, if it is still the one that was read.
LEMMA MarkPreserves ==
  ASSUME IInv, NEW c \in Conns, MarkReconnecting(c)
  PROVE  IInv'
<1> DEFINE s == conn[c].msg.s
<1>1. /\ conn[c].pc = "mark" /\ conn' = Told(c, s)
      /\ UNCHANGED <<tickets, issuing, granted, connCount, addrCount, listed>>
      /\ UNCHANGED sessions \/ Move(s, "reconnecting", eras[s][row[s].rev] + 1)
  BY DEF MarkReconnecting, issue, slots
<1>2. s \in Sessions
  BY <1>1 DEF IInv, MsgOK
<1>3. /\ conn' \in [Conns -> Conn] /\ Others(c) /\ conn'[c].pc \in {"new", "notify"}
      /\ MsgOK(c)'
  BY <1>1, ToldShape
<1>4. CASE UNCHANGED sessions
  BY <1>1, <1>3, <1>4, CountersAreNat, QuietMove DEF Counted, Placed, sessions
<1>5. CASE Move(s, "reconnecting", eras[s][row[s].rev] + 1)
  <2>1. eras[s][row[s].rev] + 1 \in Nat
    BY <1>2 DEF IInv, TypeOK, Row
  <2>2. /\ row' \in [Sessions -> Row] /\ eras' \in [Sessions -> [Revs -> Nat]] /\ ErasOK'
        /\ \A z \in Sessions : /\ row[z].rev <= row'[z].rev
                               /\ \A x \in 1..row[z].rev : eras'[z][x] = eras[z][x]
    <3> HIDE DEF s
    <3> QED
      BY <1>2, <1>5, <2>1, MoveKeepsPast DEF Negotiation
  <2>3. TypeOK'
    BY <1>1, <1>3, <2>2 DEF IInv, TypeOK
  <2>4. TicketsOK'
    BY <1>1 DEF IInv, TicketsOK
  <2>5. \A d \in Conns : MsgOK(d)'
    <3>1. \A z \in Sessions : row'[z].rev \in Nat
      BY <2>2, SignalingParametersOK DEF Row, Revs
    <3>2. Len(tickets') = Len(tickets) /\ Len(tickets) \in Nat
      BY <1>1, TicketShape DEF IInv
    <3>3. Len(tickets) <= Len(tickets')
      BY <3>2
    <3>4. ASSUME NEW d \in Conns, d # c PROVE MsgOK(d)'
      <4>1. conn'[d] = conn[d]
        BY <1>3, <3>4 DEF Others
      <4> QED
        BY <2>2, <3>1, <3>2, <3>3, <4>1, MessagesStay
    <3> QED
      BY <1>3, <3>4
  <2>6. SlotsReturned'
    BY <1>1, <1>3, SlotsKept DEF Counted, Placed
  <2> QED
    BY <2>2, <2>3, <2>4, <2>5, <2>6 DEF IInv
<1> QED
  BY <1>1, <1>4, <1>5

-----------------------------------------------------------------------------
\* Every step keeps the invariant: one case per action.
LEMMA NextPreserves == IInv /\ [Next]_vars => IInv'
<1> SUFFICES ASSUME IInv, [Next]_vars PROVE IInv'
  OBVIOUS
<1>1. ASSUME NEW s \in Sessions, MarkConnected(s) \/ Finish(s) \/ RefreshTicket(s) PROVE IInv'
  BY <1>1, SessionMovesPreserve, RefreshPreserves
<1>2. ASSUME NEW i \in issuing, Issue(i) PROVE IInv'
  BY <1>2, IssuePreserves
<1>3. ASSUME NEW t \in DOMAIN tickets, Expire(t) PROVE IInv'
  BY <1>3, ExpirePreserves
<1>4. ASSUME NEW c \in Conns, WayIn(c) PROVE IInv'
  BY <1>4, OpenPreserves, CountOutPreserves, AcquirePreserves, JoinPreserves DEF WayIn
<1>5. ASSUME NEW c \in Conns, Handle(c) PROVE IInv'
  BY <1>5, ConsumePreserves, ForwardPreserves, SendPreserves DEF Handle
<1>6. ASSUME NEW c \in Conns, Leave(c) PROVE IInv'
  BY <1>6, LeavePreserves
<1>7. ASSUME NEW c \in Conns, WayOut(c) PROVE IInv'
  BY <1>7, CountOutPreserves, ReleasePreserves, MarkPreserves, NotifyPreserves DEF WayOut
<1>8. ASSUME NEW c \in Conns,
             (\E t \in DOMAIN tickets : ClientReady(c, t)) \/ (\E s \in Sessions : Signal(c, s))
      PROVE  IInv'
  BY <1>8, MessagePreserves
<1>9. CASE UNCHANGED vars
  <2>1. UNCHANGED <<row, eras, tickets, issuing, granted, connCount, addrCount, listed, conn>>
    BY <1>9 DEF vars, sessions, issue, slots
  <2>2. Len(tickets) \in Nat /\ Len(tickets') = Len(tickets)
    BY <2>1, TicketShape DEF IInv
  <2>3. ErasOK' /\ (\A c \in Conns : MsgOK(c)') /\ SlotsReturned'
    BY <2>1, <2>2, TicketsApart
  <2>4. TypeOK' /\ TicketsOK'
    BY <2>1 DEF IInv, TypeOK, TicketsOK
  <2> QED
    BY <2>3, <2>4 DEF IInv
<1> QED
  BY <1>1, <1>2, <1>3, <1>4, <1>5, <1>6, <1>7, <1>8, <1>9 DEF Next

\* The inductive invariant holds in every reachable state.
THEOREM Invariance == Spec => []IInv
BY InitIInv, NextPreserves, PTL DEF Spec

\* Every variable keeps its type.
THEOREM TypeCorrect == Spec => []TypeOK
<1>1. IInv => TypeOK
  BY DEF IInv
<1> QED
  BY <1>1, Invariance, PTL

\* A ticket authorizes once, however many connections present it.
THEOREM SingleUse == Spec => []TicketsOnce
<1>1. ASSUME IInv PROVE TicketsOnce
  BY <1>1 DEF IInv, TypeOK, TicketsOK, TicketsOnce
<1> QED
  BY <1>1, Invariance, PTL

\* What is forwarded belongs to the negotiation the hub found the session in.
THEOREM SignalsApart == Spec => []SignalsStayInTheirNegotiation
<1>1. ASSUME IInv PROVE SignalsStayInTheirNegotiation
  BY <1>1 DEF IInv, MsgOK, SignalsStayInTheirNegotiation
<1> QED
  BY <1>1, Invariance, PTL

\* The counters are those of the connections there are, within their limits.
THEOREM SlotsCounted == Spec => []SlotsReturned
<1>1. IInv => SlotsReturned
  BY DEF IInv
<1> QED
  BY <1>1, Invariance, PTL
=============================================================================
