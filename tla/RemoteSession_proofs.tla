------------------------ MODULE RemoteSession_proofs ------------------------
(***************************************************************************)
(* Proofs about RemoteSession for any set of sessions and any bounds.      *)
(* The argument: a write always follows from the row it replaces, because  *)
(* a compare-and-swap on the revision succeeds only if the row read        *)
(* earlier is still the stored one (SwapIsCurrent).                        *)
(***************************************************************************)
EXTENDS RemoteSession, TLAPS

\* A swap that succeeds was computed from the row as it is now.
LEMMA SwapIsCurrent ==
  ASSUME IInv, NEW r \in requests, r.pc = "commit", NEW A, CanSwap(r, A)
  PROVE  r.row = session[r.s] /\ session[r.s].state \in A
<1>1. RequestOK(r) /\ r \in Request
  BY DEF IInv, TypeOK
<1>2. r.exp \in Nat /\ r.row \in Row /\ r.s \in Sessions
  BY <1>1 DEF Request
<1>3. session[r.s] \in Row
  BY <1>2 DEF IInv, TypeOK
<1>4. r.row.rev \in Nat /\ session[r.s].rev \in Nat
  BY <1>2, <1>3 DEF Row
<1>5. r.row.rev = session[r.s].rev
  BY <1>1, <1>2, <1>4 DEF RequestOK, Observed, CanSwap, Expected
<1> QED
  BY <1>1, <1>5 DEF RequestOK, Observed, CanSwap

\* Any write that replaces a row by a well-formed row of the next revision
\* preserves the invariant, for whatever the requests become in that step.
LEMMA WritePreserves ==
  ASSUME IInv, NEW s \in Sessions, NEW row \in Row, NEW type \in {"requested", "changed"},
         row # NoRow, RowOK(row), row.rev = session[s].rev + 1,
         Write(s, row, type),
         hostFresh' \in BOOLEAN, phone' = phone, exposed' = exposed,
         \A q \in requests' :
           \/ q \in requests /\ (q.pc = "insert" => q.s # s)
           \/ /\ q \in Request /\ q.s = s /\ q.pc = "commit"
              /\ q.row = row /\ q.exp <= row.rev
  PROVE  IInv'
<1> USE DEF Write
<1>1. /\ session' \in [Sessions -> Row]
      /\ session'[s] = row
      /\ \A t \in Sessions : t # s => session'[t] = session[t]
      /\ lapsed' \in [Sessions -> BOOLEAN]
      /\ lapsed'[s] = FALSE
      /\ \A t \in Sessions : t # s => lapsed'[t] = lapsed[t]
      /\ session[s] \in Row
  BY DEF IInv, TypeOK
<1>2. row.rev \in Nat /\ session[s].rev \in Nat
  BY <1>1 DEF Row
<1>3. TypeOK'
  <2>1. requests' \subseteq Request
    BY DEF IInv, TypeOK
  <2>2. outbox' \subseteq Event
    BY DEF IInv, TypeOK, Event
  <2> QED
    BY <1>1, <2>1, <2>2 DEF IInv, TypeOK
<1>4. \A t \in Sessions : RowOK(session[t])'
  <2> TAKE t \in Sessions
  <2>1. RowOK(session'[t])
    BY <1>1 DEF IInv
  <2> QED
    BY <2>1 DEF RowOK
<1>5. \A t \in Sessions : lapsed'[t] => session'[t].state \in Timed
  BY <1>1 DEF IInv
<1>6. ASSUME NEW q \in requests'
      PROVE  RequestOK(q)'
  <2>1. CASE q \in requests /\ (q.pc = "insert" => q.s # s)
    <3>1. RequestOK(q) /\ q.s \in Sessions /\ q.row.rev \in Nat
      BY <2>1 DEF IInv, TypeOK, Request, Row
    <3>2. q.pc = "insert" => \A p \in requests' : p.s = q.s => p = q
      BY <2>1, <3>1 DEF RequestOK
    <3>3. q.pc # "insert" =>
            /\ 1 <= q.row.rev /\ q.row.rev <= session'[q.s].rev
            /\ q.row.rev = session'[q.s].rev => q.row = session'[q.s]
      BY <1>1, <1>2, <3>1 DEF RequestOK, Observed
    <3>4. q.pc = "insert" => session'[q.s] = NoRow
      BY <1>1, <2>1, <3>1 DEF RequestOK
    <3> QED
      BY <3>1, <3>2, <3>3, <3>4 DEF RequestOK, Observed
  <2>2. CASE q \in Request /\ q.s = s /\ q.pc = "commit"
             /\ q.row = row /\ q.exp <= row.rev
    <3>1. row.rev >= 1
      BY <1>2
    <3> QED
      BY <1>1, <1>2, <2>2, <3>1 DEF RequestOK, Observed
  <2> QED
    BY <2>1, <2>2
<1>7. ASSUME NEW e \in outbox'
      PROVE  Observed(e.row, e.s)'
  <2>1. CASE e \in outbox
    <3>1. Observed(e.row, e.s) /\ e.s \in Sessions /\ e.row.rev \in Nat
      BY <2>1 DEF IInv, TypeOK, Event, Row
    <3> QED
      BY <1>1, <1>2, <3>1 DEF Observed
  <2>2. CASE e = [s |-> s, type |-> type, row |-> row]
    BY <1>1, <1>2, <2>2 DEF Observed
  <2> QED
    BY <2>1, <2>2
<1>8. ASSUME NEW t \in Sessions
      PROVE  /\ phone'[t].rev <= session'[t].rev
             /\ phone'[t].rev = session'[t].rev => SameView(phone'[t], session'[t])
  <2>1. phone[t].rev \in Nat /\ phone[t].rev <= session[t].rev
    BY DEF IInv, TypeOK, View
  <2> QED
    BY <1>1, <1>2, <2>1 DEF IInv
<1>9. QED
  BY <1>3, <1>4, <1>5, <1>6, <1>7, <1>8 DEF IInv, SameView

\* A step that leaves the rows alone preserves the invariant if what it adds to
\* the requests is in order.
LEMMA QuietPreserves ==
  ASSUME IInv, session' = session, UNCHANGED outbox, UNCHANGED phone,
         UNCHANGED exposed, hostFresh' \in BOOLEAN, lapsed' = lapsed,
         requests' \subseteq Request,
         \A q \in requests' \ requests : RequestOK(q)',
         \A q \in requests' \ requests : \A p \in requests :
            p.pc = "insert" => p.s # q.s
  PROVE  IInv'
<1>1. ASSUME NEW q \in requests' PROVE RequestOK(q)'
  <2>1. CASE q \in requests
    BY <2>1 DEF IInv, RequestOK, Observed
  <2>2. CASE q \notin requests
    BY <2>2
  <2> QED
    BY <2>1, <2>2
<1>2. TypeOK'
  BY DEF IInv, TypeOK
<1> QED
  BY <1>1, <1>2 DEF IInv, Observed, RowOK, SameView
\* What TransitionSession writes, field by field.
LEMMA MovedFields ==
  ASSUME NEW row \in Row, NEW next \in States, NEW granted \in SUBSET Caps
  PROVE  /\ Moved(row, next, granted) \in Row
         /\ Moved(row, next, granted).state = next
         /\ Moved(row, next, granted).rev = row.rev + 1
         /\ Moved(row, next, granted).approved = row.approved
         /\ Moved(row, next, granted).asked = row.asked
         /\ Moved(row, next, granted).granted = granted
         /\ Moved(row, next, granted) # NoRow
<1>1. row.rev \in Nat /\ row.rev + 1 \in Nat /\ row.rev + 1 # 0
  BY DEF Row
<1>2. "absent" \notin States
  BY DEF States, Waiting, Live, Connected, Terminal
<1> QED
  BY <1>1, <1>2 DEF Moved, Row, NoRow

\* A well-formed row moved to another state is well formed when the new state and
\* grant agree with what was asked and approved.
LEMMA MovedIsOK ==
  ASSUME NEW row \in Row, RowOK(row), row # NoRow,
         NEW next \in States, NEW granted \in SUBSET Caps,
         next \in HostSide => row.approved,
         next \in Waiting => granted = {},
         next \in Live => granted = row.asked,
         next \in Connected => (next = "connected_control" <=> "input" \in granted)
  PROVE  RowOK(Moved(row, next, granted))
<1> DEFINE m == Moved(row, next, granted)
<1>1. /\ m \in Row /\ m.state = next /\ m.rev = row.rev + 1 /\ m.approved = row.approved
      /\ m.asked = row.asked /\ m.granted = granted
  BY MovedFields
<1>2. row.rev \in Nat /\ row.asked \in CapSets
  BY DEF RowOK, Row
<1>3. next # "absent"
  BY DEF States, Waiting, Live, Connected, Terminal
<1> HIDE DEF m
<1>4. RowOK(m)
  BY <1>1, <1>2, <1>3 DEF RowOK
<1> QED
  BY <1>4 DEF m

\* TransitionSession preserves the invariant if the row it would write is well formed.
LEMMA TransitionPreserves ==
  ASSUME IInv, NEW r \in requests, r.pc = "commit",
         NEW A, A \subseteq Waiting \cup Live, NEW next \in States,
         NEW granted \in SUBSET Caps,
         CanSwap(r, A) => RowOK(Moved(session[r.s], next, granted)),
         TransitionSession(r, A, next, granted)
  PROVE  IInv'
<1>1. r \in Request /\ r.s \in Sessions /\ session[r.s] \in Row
  BY DEF IInv, TypeOK, Request
<1>2. CASE ~CanSwap(r, A)
  <2>1. requests' \subseteq requests
    BY DEF TransitionSession
  <2> QED
    BY <1>2, <2>1, QuietPreserves DEF TransitionSession, IInv, TypeOK
<1>3. CASE CanSwap(r, A)
  <2> DEFINE row == Moved(session[r.s], next, granted)
  <2>1. session[r.s].rev \in Nat
    BY <1>1 DEF Row
  <2>2. row \in Row /\ row.rev = session[r.s].rev + 1 /\ row # NoRow
    BY <1>1, MovedFields
  <2>3. session[r.s] # NoRow
    BY <1>3 DEF CanSwap, NoRow, Waiting, Live, Connected
  <2>4. \A q \in requests' : q \in requests /\ (q.pc = "insert" => q.s # r.s)
    BY <2>3 DEF TransitionSession, IInv, RequestOK
  <2>5. Write(r.s, row, "changed") /\ hostFresh' = hostFresh
        /\ phone' = phone /\ exposed' = exposed
    BY <1>3 DEF TransitionSession
  <2>6. hostFresh' \in BOOLEAN
    BY <2>5 DEF IInv, TypeOK
  <2>7. RowOK(row)
    BY <1>3
  <2> HIDE DEF row
  <2> QED
    BY <1>1, <2>2, <2>4, <2>5, <2>6, <2>7, WritePreserves
<1> QED
  BY <1>2, <1>3

\* The first state satisfies the strengthened invariant.
LEMMA InitIInv == Init => IInv
BY DEF Init, IInv, TypeOK, RowOK, NoRow, Row, View, States, Waiting, Live, Connected,
       Terminal, Caps, SameView

-----------------------------------------------------------------------------
(* One lemma per handler.                                                  *)

\* InsertSession, the statement that creates a session's row, preserves the invariant.
LEMMA InsertPreserves ==
  ASSUME IInv, NEW r \in requests, InsertSession(r)
  PROVE  IInv'
<1>1. RequestOK(r) /\ r \in Request /\ r.pc = "insert"
  BY DEF IInv, TypeOK, InsertSession
<1>2. /\ r.s \in Sessions /\ r.row \in Row /\ RowOK(r.row) /\ r.row.rev = 1
      /\ session[r.s] = NoRow
      /\ \A q \in requests : q.s = r.s => q = r
  BY <1>1 DEF RequestOK, Request
<1>3. r.row # NoRow /\ r.row.rev = session[r.s].rev + 1
  BY <1>2 DEF NoRow
<1>4. hostFresh' \in BOOLEAN
  BY DEF InsertSession, IInv, TypeOK
<1> QED
  BY <1>2, <1>3, <1>4, WritePreserves DEF InsertSession

\* applyTimeout, a handler's swap of an overdue row to its time-out state, preserves the invariant.
LEMMA TimeoutPreserves ==
  ASSUME IInv, NEW r \in requests, ApplyTimeout(r)
  PROVE  IInv'
<1> DEFINE now    == session[r.s]
           failed == Moved(now, "failed", now.granted)
           onward == [r EXCEPT !.pc = "commit",
                               !.row = IF now.rev = r.row.rev THEN failed ELSE now]
<1>1. RequestOK(r) /\ r \in Request /\ r.pc = "timeout"
  BY DEF IInv, TypeOK, ApplyTimeout
<1>2. r.s \in Sessions /\ r.row \in Row /\ now \in Row /\ r.exp \in Nat
  BY <1>1 DEF Request, IInv, TypeOK
<1>3. now.rev \in Nat /\ r.row.rev \in Nat /\ now.granted \in SUBSET Caps
  BY <1>2 DEF Row
<1>4. /\ 1 <= r.row.rev /\ r.row.rev <= now.rev
      /\ r.row.rev = now.rev => r.row = now
      /\ r.exp <= r.row.rev /\ r.row.state \in Timed
  BY <1>1 DEF RequestOK, Observed
<1>5. now # NoRow
  BY <1>3, <1>4 DEF NoRow
<1>6. requests' = (requests \ {r}) \cup (IF r.op = "list" THEN {} ELSE {onward})
  BY DEF ApplyTimeout
<1>7. hostFresh' \in BOOLEAN
  BY DEF ApplyTimeout, IInv, TypeOK
<1>8. RowOK(now)
  BY <1>2 DEF IInv
<1>9. failed \in Row /\ failed # NoRow /\ failed.rev = now.rev + 1 /\ RowOK(failed)
  <2>1. "failed" \in States /\ "failed" \notin HostSide \cup Waiting \cup Live \cup Connected
    BY DEF States, Terminal, HostSide, Waiting, Live, Connected
  <2>2. failed \in Row /\ failed # NoRow /\ failed.rev = now.rev + 1
    BY <1>2, <1>3, <2>1, MovedFields
  <2>3. RowOK(failed)
    BY <1>2, <1>3, <1>5, <1>8, <2>1, MovedIsOK
  <2> QED
    BY <2>2, <2>3
<1>10. CASE now.rev = r.row.rev
  <2>1. Write(r.s, failed, "changed")
    BY <1>4, <1>10 DEF ApplyTimeout
  <2>2. /\ onward \in Request /\ onward.s = r.s /\ onward.pc = "commit"
        /\ onward.row = failed /\ onward.exp <= failed.rev
    <3>1. onward = [r EXCEPT !.pc = "commit", !.row = failed]
      BY <1>10
    <3>2. onward \in Request /\ onward.s = r.s /\ onward.pc = "commit"
          /\ onward.row = failed /\ onward.exp = r.exp
      BY <1>1, <1>9, <3>1 DEF Request
    <3> QED
      BY <1>2, <1>3, <1>4, <1>9, <3>2
  <2>3. \A q \in requests' :
           \/ q \in requests /\ (q.pc = "insert" => q.s # r.s)
           \/ /\ q \in Request /\ q.s = r.s /\ q.pc = "commit"
              /\ q.row = failed /\ q.exp <= failed.rev
    <3> TAKE q \in requests'
    <3>1. CASE q \in requests
      BY <1>5, <3>1 DEF IInv, RequestOK
    <3>2. CASE q \notin requests
      BY <1>6, <2>2, <3>2
    <3> QED
      BY <3>1, <3>2
  <2>4. phone' = phone /\ exposed' = exposed
    BY DEF ApplyTimeout
  <2> HIDE DEF failed, onward
  <2> QED
    BY <1>2, <1>7, <1>9, <2>1, <2>3, <2>4, WritePreserves
<1>11. CASE now.rev # r.row.rev
  <2>1. /\ session' = session /\ lapsed' = lapsed /\ outbox' = outbox
        /\ phone' = phone /\ exposed' = exposed
    BY <1>11 DEF ApplyTimeout
  <2>2. PICK o : o = [r EXCEPT !.pc = "commit", !.row = now]
    OBVIOUS
  <2>3. o \in Request /\ o.s = r.s /\ o.pc = "commit" /\ o.row = now /\ o.exp = r.exp
    BY <1>1, <1>2, <2>2 DEF Request
  <2>4. RequestOK(o)'
    BY <1>2, <1>3, <1>4, <2>1, <2>3 DEF RequestOK, Observed
  <2>5. \A p \in requests : p.pc = "insert" => p.s # o.s
    BY <1>5, <2>3 DEF IInv, RequestOK
  <2>6. requests' \subseteq requests \cup {o}
    BY <1>6, <1>11, <2>2
  <2>7. requests' \subseteq Request
    BY <2>3, <2>6 DEF IInv, TypeOK
  <2> QED
    BY <1>7, <2>1, <2>4, <2>5, <2>6, <2>7, QuietPreserves
<1> QED
  BY <1>10, <1>11

\* Accept, the host's consent, preserves the invariant.
LEMMA AcceptPreserves ==
  ASSUME IInv, NEW r \in requests, Accept(r)
  PROVE  IInv'
<1>1. r.pc = "commit" /\ r \in Request /\ session[r.s] \in Row /\ r.row.asked \in SUBSET Caps
  BY DEF Accept, IInv, TypeOK, Request, Row
<1>2. ASSUME CanSwap(r, {"waiting_consent"})
      PROVE  RowOK(Moved(session[r.s], "negotiating", r.row.asked))
  <2>1. r.row = session[r.s] /\ session[r.s].state = "waiting_consent"
    BY <1>1, <1>2, SwapIsCurrent
  <2>2. RowOK(session[r.s]) /\ session[r.s].rev \in Nat
    BY <1>1 DEF IInv, TypeOK, Request, Row
  <2>3. "negotiating" \in States /\ session[r.s] # NoRow
    BY <2>1 DEF States, Waiting, Live, Connected, Terminal, NoRow
  <2>4. /\ "negotiating" \in HostSide => session[r.s].approved
        /\ "negotiating" \in Waiting => r.row.asked = {}
        /\ "negotiating" \in Live => r.row.asked = session[r.s].asked
        /\ "negotiating" \in Connected => ("negotiating" = "connected_control" <=> "input" \in r.row.asked)
    BY <2>1, <2>2 DEF RowOK, NoRow, HostSide, Waiting, Live, Connected
  <2> QED
    BY <1>1, <2>2, <2>3, <2>4, MovedIsOK
<1> QED
  BY <1>1, <1>2, TransitionPreserves DEF Accept, Waiting, States, Live, Connected

\* Reject, RejectByPrimary and end, the ways to close a session, preserve the invariant.
LEMMA ClosePreserves ==
  ASSUME IInv, NEW r \in requests, Reject(r) \/ RejectByPrimary(r) \/ End(r)
  PROVE  IInv'
<1>1. r.pc = "commit" /\ r \in Request /\ session[r.s] \in Row
      /\ session[r.s].granted \in SUBSET Caps
  BY DEF Reject, RejectByPrimary, End, IInv, TypeOK, Request, Row
<1>2. ASSUME NEW A, A \subseteq Waiting \cup Live, CanSwap(r, A)
      PROVE  RowOK(Moved(session[r.s], "ended", session[r.s].granted))
  <2>1. RowOK(session[r.s]) /\ session[r.s].rev \in Nat /\ session[r.s] # NoRow
    BY <1>1, <1>2 DEF IInv, TypeOK, Request, Row, CanSwap, NoRow, Waiting, Live, Connected
  <2>3. "ended" \in States /\ session[r.s] # NoRow
    BY <2>1 DEF States, Waiting, Live, Connected, Terminal, NoRow
  <2>4. /\ "ended" \in HostSide => session[r.s].approved
        /\ "ended" \in Waiting => session[r.s].granted = {}
        /\ "ended" \in Live => session[r.s].granted = session[r.s].asked
        /\ "ended" \in Connected => ("ended" = "connected_control" <=> "input" \in session[r.s].granted)
    BY <2>1 DEF RowOK, NoRow, HostSide, Waiting, Live, Connected
  <2> QED
    BY <1>1, <2>1, <2>3, <2>4, MovedIsOK
<1>3. "ended" \in States
  BY DEF States, Terminal
<1>4. CASE Reject(r)
  BY <1>1, <1>2, <1>3, <1>4, TransitionPreserves DEF Reject, Waiting
<1>5. CASE RejectByPrimary(r)
  BY <1>1, <1>2, <1>3, <1>5, TransitionPreserves DEF RejectByPrimary, Waiting
<1>6. CASE End(r)
  BY <1>1, <1>2, <1>3, <1>6, TransitionPreserves DEF End
<1> QED
  BY <1>4, <1>5, <1>6

\* MarkConnected preserves the invariant.
LEMMA ConnectedPreserves ==
  ASSUME IInv, NEW r \in requests, MarkConnected(r)
  PROVE  IInv'
<1> DEFINE A    == {"negotiating", "reconnecting"}
           next == IF "input" \in r.row.granted THEN "connected_control"
                                                ELSE "connected_view"
<1>1. r.pc = "commit" /\ r \in Request /\ session[r.s] \in Row
      /\ r.row.granted \in SUBSET Caps
  BY DEF MarkConnected, IInv, TypeOK, Request, Row
<1>2. ASSUME CanSwap(r, A)
      PROVE  RowOK(Moved(session[r.s], next, r.row.granted))
  <2>1. r.row = session[r.s] /\ session[r.s].state \in A
    BY <1>1, <1>2, SwapIsCurrent
  <2>2. RowOK(session[r.s]) /\ session[r.s].rev \in Nat
    BY <1>1 DEF IInv, TypeOK, Request, Row
  <2>3. next \in States /\ session[r.s] # NoRow
    BY <2>1 DEF States, Waiting, Live, Connected, Terminal, NoRow
  <2>4. /\ next \in HostSide => session[r.s].approved
        /\ next \in Waiting => r.row.granted = {}
        /\ next \in Live => r.row.granted = session[r.s].asked
        /\ next \in Connected => (next = "connected_control" <=> "input" \in r.row.granted)
    BY <2>1, <2>2 DEF RowOK, NoRow, HostSide, Waiting, Live, Connected
  <2> QED
    BY <1>1, <2>2, <2>3, <2>4, MovedIsOK
<1>3. A \subseteq Waiting \cup Live /\ next \in States
  BY DEF Live, States, Connected
<1>4. TransitionSession(r, A, next, r.row.granted)
  BY DEF MarkConnected
<1> HIDE DEF A, next
<1> QED
  BY <1>1, <1>2, <1>3, <1>4, TransitionPreserves

\* MarkReconnecting preserves the invariant.
LEMMA ReconnectingPreserves ==
  ASSUME IInv, NEW r \in requests, MarkReconnecting(r)
  PROVE  IInv'
<1>1. r.pc = "commit" /\ r \in Request /\ session[r.s] \in Row
      /\ r.row.granted \in SUBSET Caps
  BY DEF MarkReconnecting, IInv, TypeOK, Request, Row
<1>2. ASSUME CanSwap(r, Connected)
      PROVE  RowOK(Moved(session[r.s], "reconnecting", r.row.granted))
  <2>1. r.row = session[r.s] /\ session[r.s].state \in Connected
    BY <1>1, <1>2, SwapIsCurrent
  <2>2. RowOK(session[r.s]) /\ session[r.s].rev \in Nat
    BY <1>1 DEF IInv, TypeOK, Request, Row
  <2>3. "reconnecting" \in States /\ session[r.s] # NoRow
    BY <2>1 DEF States, Waiting, Live, Connected, Terminal, NoRow
  <2>4. /\ "reconnecting" \in HostSide => session[r.s].approved
        /\ "reconnecting" \in Waiting => r.row.granted = {}
        /\ "reconnecting" \in Live => r.row.granted = session[r.s].asked
        /\ "reconnecting" \in Connected => ("reconnecting" = "connected_control" <=> "input" \in r.row.granted)
    BY <2>1, <2>2 DEF RowOK, NoRow, HostSide, Waiting, Live, Connected
  <2> QED
    BY <1>1, <2>2, <2>3, <2>4, MovedIsOK
<1> QED
  BY <1>1, <1>2, TransitionPreserves DEF MarkReconnecting, Live, States

\* promoteWaitingHost, a heartbeat's advance of a listed session, preserves the invariant.
LEMMA PromotePreserves ==
  ASSUME IInv, NEW r \in requests, Promote(r)
  PROVE  IInv'
<1>1. r.pc = "commit" /\ r \in Request /\ session[r.s] \in Row
      /\ session[r.s].granted \in SUBSET Caps
  BY DEF Promote, IInv, TypeOK, Request, Row
<1>2. ASSUME CanSwap(r, {"waiting_host"})
      PROVE  RowOK(Moved(session[r.s], "waiting_consent", session[r.s].granted))
  <2>1. RowOK(session[r.s]) /\ session[r.s].rev \in Nat
        /\ session[r.s].state = "waiting_host"
    BY <1>1, <1>2 DEF IInv, TypeOK, Request, Row, CanSwap
  <2>3. "waiting_consent" \in States /\ session[r.s] # NoRow
    BY <2>1 DEF States, Waiting, Live, Connected, Terminal, NoRow
  <2>4. /\ "waiting_consent" \in HostSide => session[r.s].approved
        /\ "waiting_consent" \in Waiting => session[r.s].granted = {}
        /\ "waiting_consent" \in Live => session[r.s].granted = session[r.s].asked
        /\ "waiting_consent" \in Connected => ("waiting_consent" = "connected_control" <=> "input" \in session[r.s].granted)
    BY <2>1 DEF RowOK, NoRow, HostSide, Waiting, Live, Connected
  <2> QED
    BY <1>1, <2>1, <2>3, <2>4, MovedIsOK
<1> QED
  BY <1>1, <1>2, TransitionPreserves DEF Promote, Waiting, States

\* A handler that reads a stored row: the request it leaves is an observation.
LEMMA ReadIsOK ==
  ASSUME IInv, NEW s \in Sessions, session[s] # NoRow, session' = session,
         NEW q \in Request, q.s = s, q.row = session[s], q.pc # "insert",
         q.exp \in Known(s), q.pc = "timeout" => lapsed[s]
  PROVE  /\ RequestOK(q)'
         /\ \A p \in requests : p.pc = "insert" => p.s # q.s
<1>1. RowOK(session[s]) /\ session[s] \in Row /\ session[s].rev >= 1
  BY DEF IInv, TypeOK, RowOK
<1>2. session[s].rev \in Nat /\ q.exp <= session[s].rev
  BY <1>1 DEF Row, Known
<1>3. q.pc = "timeout" => session[s].state \in Timed
  BY DEF IInv
<1>4. \A p \in requests : p.pc = "insert" => p.s # q.s
  BY DEF IInv, RequestOK
<1> QED
  BY <1>1, <1>2, <1>3, <1>4 DEF RequestOK, Observed

\* The revisions an end request may expect are natural numbers.
LEMMA KnownIsNat ==
  ASSUME IInv, NEW s \in Sessions, NEW exp \in Known(s)
  PROVE  exp \in Nat
BY DEF Known

\* BeginRequest and BeginPoll.
LEMMA ReadSessionPreserves ==
  ASSUME IInv, NEW s \in Sessions, NEW op \in TimedOps, NEW exp \in Known(s),
         ReadSession(op, s, exp)
  PROVE  IInv'
<1>1. PICK q : q = [op |-> op, s |-> s, exp |-> exp, row |-> session[s],
                    pc |-> IF lapsed[s] THEN "timeout" ELSE "commit"]
  OBVIOUS
<1>2. q \in Request /\ q.s = s /\ q.row = session[s] /\ q.exp = exp
      /\ q.pc # "insert" /\ (q.pc = "timeout" => lapsed[s])
  BY <1>1, KnownIsNat DEF IInv, TypeOK, Request, Ops
<1>3. session' = session /\ session[s] # NoRow /\ requests' = requests \cup {q}
  BY <1>1 DEF ReadSession
<1>4. RequestOK(q)' /\ \A p \in requests : p.pc = "insert" => p.s # q.s
  BY <1>2, <1>3, ReadIsOK
<1>5. requests' \subseteq Request /\ hostFresh' \in BOOLEAN
  BY <1>2, <1>3 DEF IInv, TypeOK, ReadSession
<1> QED
  BY <1>3, <1>4, <1>5, QuietPreserves DEF ReadSession

\* Beginning RejectPrimarySession preserves the invariant.
LEMMA BeginRejectPreserves ==
  ASSUME IInv, NEW s \in Sessions, NEW exp \in Known(s), BeginRejectByPrimary(s, exp)
  PROVE  IInv'
<1>1. PICK q : q = [op |-> "reject_primary", s |-> s, exp |-> exp, row |-> session[s],
                    pc |-> "commit"]
  OBVIOUS
<1>2. q \in Request /\ q.s = s /\ q.row = session[s] /\ q.exp = exp /\ q.pc = "commit"
  BY <1>1, KnownIsNat DEF IInv, TypeOK, Request, Ops
<1>3. session' = session /\ session[s] # NoRow /\ requests' = requests \cup {q}
  BY <1>1 DEF BeginRejectByPrimary
<1>4. RequestOK(q)' /\ \A p \in requests : p.pc = "insert" => p.s # q.s
  BY <1>2, <1>3, ReadIsOK
<1>5. requests' \subseteq Request /\ hostFresh' \in BOOLEAN
  BY <1>2, <1>3 DEF IInv, TypeOK, BeginRejectByPrimary
<1> QED
  BY <1>3, <1>4, <1>5, QuietPreserves DEF BeginRejectByPrimary

\* RequestSession, which computes the first row, preserves the invariant.
LEMMA RequestSessionPreserves ==
  ASSUME IInv, NEW s \in Sessions, NEW primary \in BOOLEAN, NEW asked \in CapSets,
         RequestSession(s, primary, asked)
  PROVE  IInv'
<1>1. PICK q : q = [op |-> "request", pc |-> "insert", s |-> s,
                    row |-> FirstRow(primary, asked), exp |-> 0]
  OBVIOUS
<1>2. /\ FirstRow(primary, asked) \in Row
      /\ RowOK(FirstRow(primary, asked))
      /\ FirstRow(primary, asked).rev = 1
      /\ FirstRow(primary, asked).state \in Waiting
  BY DEF FirstRow, Row, RowOK, States, Waiting, Live, Connected, Terminal, HostSide,
         CapSets, Caps
<1>3. /\ q \in Request /\ q.s = s /\ q.row = FirstRow(primary, asked)
      /\ q.pc = "insert"
  BY <1>1, <1>2 DEF Request, Ops
<1>4. /\ session' = session /\ session[s] = NoRow /\ requests' = requests \cup {q}
      /\ \A p \in requests : p.s # s
  BY <1>1 DEF RequestSession
<1>5. RequestOK(q)'
  BY <1>2, <1>3, <1>4 DEF RequestOK, RowOK
<1>6. requests' \subseteq Request /\ hostFresh' \in BOOLEAN
  BY <1>3, <1>4 DEF IInv, TypeOK, RequestSession
<1> QED
  BY <1>3, <1>4, <1>5, <1>6, QuietPreserves DEF RequestSession

\* A heartbeat's list of waiting sessions preserves the invariant.
LEMMA HeartbeatPreserves ==
  ASSUME IInv, HeartbeatHost
  PROVE  IInv'
<1>1. ASSUME NEW q \in requests' \ requests
      PROVE  /\ q \in Request /\ RequestOK(q)'
             /\ \A p \in requests : p.pc = "insert" => p.s # q.s
  <2>1. PICK s \in Sessions :
          /\ session[s].state = "waiting_host"
          /\ q = [op |-> "promote", pc |-> "commit", s |-> s, row |-> session[s],
                  exp |-> 0]
    BY <1>1 DEF HeartbeatHost
  <2>2. q \in Request /\ q.s = s /\ q.row = session[s] /\ q.pc = "commit"
        /\ q.exp \in Known(s) /\ session[s] # NoRow /\ session' = session
    BY <2>1 DEF IInv, TypeOK, Request, Ops, Known, NoRow, HeartbeatHost
  <2> QED
    BY <2>2, ReadIsOK
<1>2. requests' \subseteq Request /\ hostFresh' \in BOOLEAN
  BY <1>1 DEF HeartbeatHost, IInv, TypeOK
<1> QED
  BY <1>1, <1>2, QuietPreserves DEF HeartbeatHost

\* ListPendingForHost's list of sessions preserves the invariant.
LEMMA ListPendingPreserves ==
  ASSUME IInv, NEW state \in {"waiting_consent", "waiting_primary"}, ListPending(state)
  PROVE  IInv'
<1>1. ASSUME NEW q \in requests' \ requests
      PROVE  /\ q \in Request /\ RequestOK(q)'
             /\ \A p \in requests : p.pc = "insert" => p.s # q.s
  <2>1. PICK s \in Sessions :
          /\ session[s].state = state /\ lapsed[s]
          /\ q = [op |-> "list", pc |-> "timeout", s |-> s, row |-> session[s],
                  exp |-> 0]
    BY <1>1 DEF ListPending
  <2>2. q \in Request /\ q.s = s /\ q.row = session[s] /\ q.pc = "timeout"
        /\ q.exp \in Known(s) /\ session[s] # NoRow /\ session' = session
    BY <2>1 DEF IInv, TypeOK, Request, Ops, Known, NoRow, ListPending
  <2> QED
    BY <2>1, <2>2, ReadIsOK
<1>2. requests' \subseteq Request /\ hostFresh' \in BOOLEAN
  BY <1>1 DEF ListPending, IInv, TypeOK
<1> QED
  BY <1>1, <1>2, QuietPreserves DEF ListPending

\* ApprovePrimarySession, the primary phone's approval, preserves the invariant.
LEMMA ApprovePreserves ==
  ASSUME IInv, NEW s \in Sessions, NEW exp \in Known(s), ApproveByPrimary(s, exp)
  PROVE  IInv'
<1> DEFINE row == [session[s] EXCEPT !.state = "waiting_consent", !.approved = TRUE,
                                     !.rev = @ + 1]
<1>1. session[s] \in Row /\ RowOK(session[s]) /\ session[s].state = "waiting_primary"
  BY DEF IInv, TypeOK, ApproveByPrimary
<1>2. session[s].rev \in Nat /\ session[s] # NoRow
  BY <1>1 DEF Row, NoRow
<1>3. /\ row \in Row /\ row.state = "waiting_consent" /\ row.approved = TRUE
      /\ row.rev = session[s].rev + 1
      /\ row.asked = session[s].asked /\ row.granted = session[s].granted
  <2>1. "waiting_consent" \in States
    BY DEF States, Waiting
  <2>2. session[s].rev + 1 \in Nat
    BY <1>2
  <2> QED
    BY <1>1, <2>1, <2>2 DEF Row
<1>4. session[s].asked \in CapSets /\ session[s].granted = {}
  BY <1>1, <1>2 DEF RowOK, Waiting
<1>5. Write(s, row, "changed") /\ hostFresh' \in BOOLEAN /\ phone' = phone
      /\ exposed' = exposed /\ requests' = requests
  BY DEF ApproveByPrimary, IInv, TypeOK
<1>6. \A q \in requests' : q \in requests /\ (q.pc = "insert" => q.s # s)
  BY <1>2, <1>5 DEF IInv, RequestOK
<1> HIDE DEF row
<1>7. RowOK(row) /\ row # NoRow
  BY <1>2, <1>3, <1>4 DEF RowOK, NoRow, Live, Connected
<1> QED
  BY <1>3, <1>5, <1>6, <1>7, WritePreserves

-----------------------------------------------------------------------------
(* The steps of events, the page and the clock.                            *)

\* The page stays behind the row, whatever observation reaches it.
LEMMA ApplyIsOK ==
  ASSUME IInv, NEW s \in Sessions, NEW row \in Row, Observed(row, s), ApplySession(s, row)
  PROVE  /\ phone' \in [Sessions -> View]
         /\ \A t \in Sessions :
              /\ phone'[t].rev <= session[t].rev
              /\ phone'[t].rev = session[t].rev => SameView(phone'[t], session[t])
<1>1. CASE phone[s].rev > row.rev
  BY <1>1 DEF ApplySession, IInv, TypeOK
<1>2. CASE ~(phone[s].rev > row.rev)
  <2>1. phone' = [phone EXCEPT ![s] = [state |-> row.state, rev |-> row.rev]]
    BY <1>2 DEF ApplySession
  <2>2. [state |-> row.state, rev |-> row.rev] \in View
    BY DEF Row, View
  <2>3. phone' \in [Sessions -> View]
    BY <2>1, <2>2 DEF IInv, TypeOK
  <2>4. phone'[s].rev = row.rev /\ phone'[s].state = row.state
        /\ \A t \in Sessions : t # s => phone'[t] = phone[t]
    BY <2>1 DEF IInv, TypeOK
  <2> QED
    BY <2>3, <2>4 DEF IInv, Observed, SameView
<1> QED
  BY <1>1, <1>2

\* Steps that leave the rows and their clocks alone.
LEMMA EventPreserves ==
  ASSUME IInv, session' = session, lapsed' = lapsed, hostFresh' = hostFresh,
         requests' \subseteq requests,
         outbox' \subseteq Event, \A e \in outbox' : Observed(e.row, e.s),
         phone' \in [Sessions -> View],
         \A t \in Sessions :
           /\ phone'[t].rev <= session[t].rev
           /\ phone'[t].rev = session[t].rev => SameView(phone'[t], session[t]),
         exposed' \subseteq Sessions
  PROVE  IInv'
<1>1. TypeOK'
  BY DEF IInv, TypeOK
<1>2. \A q \in requests' : RequestOK(q)'
  BY DEF IInv, RequestOK, Observed
<1> QED
  BY <1>1, <1>2 DEF IInv, Observed, RowOK, SameView

\* A poll's reply on the page, in time or lost, preserves the invariant.
LEMMA PollReplyPreserves ==
  ASSUME IInv, NEW r \in requests, PollReply(r)
  PROVE  IInv'
<1>1. r \in Request /\ r.s \in Sessions /\ r.row \in Row /\ Observed(r.row, r.s)
  BY DEF IInv, TypeOK, Request, RequestOK, PollReply
<1>2. ApplySession(r.s, r.row)
  BY DEF PollReply
<1>3. /\ session' = session /\ lapsed' = lapsed /\ hostFresh' = hostFresh
      /\ requests' \subseteq requests /\ outbox' = outbox /\ exposed' = exposed
  BY DEF PollReply
<1>4. outbox \subseteq Event /\ exposed \subseteq Sessions
      /\ \A e \in outbox : Observed(e.row, e.s)
  BY DEF IInv, TypeOK
<1> QED
  BY <1>1, <1>2, <1>3, <1>4, ApplyIsOK, EventPreserves

\* Notify, an event on its way to the hub's connections, preserves the invariant.
LEMMA NotifyPreserves ==
  ASSUME IInv, NEW e \in outbox, Notify(e)
  PROVE  IInv'
<1>1. e.s \in Sessions /\ e.row \in Row /\ Observed(e.row, e.s)
  BY DEF IInv, TypeOK, Event
<1>2. /\ session' = session /\ lapsed' = lapsed /\ hostFresh' = hostFresh
      /\ requests' = requests /\ outbox' \subseteq outbox
      /\ exposed' \subseteq exposed \cup {e.s}
  BY DEF Notify
<1>3. /\ phone' \in [Sessions -> View]
      /\ \A t \in Sessions :
           /\ phone'[t].rev <= session[t].rev
           /\ phone'[t].rev = session[t].rev => SameView(phone'[t], session[t])
  <2>1. CASE ApplySession(e.s, e.row)
    BY <1>1, <2>1, ApplyIsOK
  <2>2. CASE phone' = phone
    BY <2>2 DEF IInv, TypeOK
  <2> QED
    BY <2>1, <2>2 DEF Notify
<1>4. outbox' \subseteq Event /\ exposed' \subseteq Sessions
      /\ \A d \in outbox' : Observed(d.row, d.s)
  BY <1>1, <1>2 DEF IInv, TypeOK
<1> QED
  BY <1>2, <1>3, <1>4, EventPreserves

\* TransitionSession's second read of the row preserves the invariant.
LEMMA ReReadPreserves ==
  ASSUME IInv, NEW e \in outbox, ReRead(e)
  PROVE  IInv'
<1>1. e \in Event /\ e.s \in Sessions /\ Observed(e.row, e.s) /\ session[e.s] \in Row
      /\ e.row.rev \in Nat
  BY DEF IInv, TypeOK, Event, Row
<1>2. PICK d : d = [e EXCEPT !.row = session[e.s]]
  OBVIOUS
<1>3. d \in Event /\ d.s = e.s /\ d.row = session[e.s]
  BY <1>1, <1>2 DEF Event
<1>4. session[e.s].rev \in Nat
  BY <1>1 DEF Row
<1>5. Observed(d.row, d.s)
  BY <1>1, <1>3, <1>4 DEF Observed
<1>6. /\ session' = session /\ lapsed' = lapsed /\ hostFresh' = hostFresh
      /\ requests' = requests /\ outbox' \subseteq outbox \cup {d}
      /\ phone' = phone /\ exposed' = exposed
  BY <1>2 DEF ReRead
<1>7. outbox' \subseteq Event /\ \A c \in outbox' : Observed(c.row, c.s)
  BY <1>3, <1>5, <1>6 DEF IInv, TypeOK
<1>8. /\ phone \in [Sessions -> View] /\ exposed \subseteq Sessions
      /\ \A t \in Sessions :
           /\ phone[t].rev <= session[t].rev
           /\ phone[t].rev = session[t].rev => SameView(phone[t], session[t])
  BY DEF IInv, TypeOK
<1> QED
  BY <1>6, <1>7, <1>8, EventPreserves

\* The passing of a time limit preserves the invariant.
LEMMA ElapsePreserves ==
  ASSUME IInv, NEW s \in Sessions, Elapse(s)
  PROVE  IInv'
<1>1. lapsed' \in [Sessions -> BOOLEAN]
      /\ \A t \in Sessions : lapsed'[t] => session[t].state \in Timed
  BY DEF Elapse, IInv, TypeOK
<1>2. TypeOK'
  BY <1>1 DEF Elapse, IInv, TypeOK
<1>3. \A q \in requests' : RequestOK(q)'
  BY DEF Elapse, IInv, RequestOK, Observed
<1> QED
  BY <1>1, <1>2, <1>3 DEF Elapse, IInv, Observed, RowOK, SameView

\* Every step of Next, and stuttering, preserves the invariant.
LEMMA NextPreserves ==
  ASSUME IInv, [Next]_vars
  PROVE  IInv'
<1>1. ASSUME NEW s \in Sessions, NEW primary \in BOOLEAN, NEW asked \in CapSets,
             RequestSession(s, primary, asked)
      PROVE  IInv'
  BY <1>1, RequestSessionPreserves
<1>2. ASSUME NEW s \in Sessions, NEW op \in TimedOps, NEW exp \in Known(s),
             BeginRequest(op, s, exp)
      PROVE  IInv'
  BY <1>2, ReadSessionPreserves DEF BeginRequest
<1>3. ASSUME NEW s \in Sessions, NEW exp \in Known(s),
             BeginRejectByPrimary(s, exp) \/ ApproveByPrimary(s, exp)
      PROVE  IInv'
  BY <1>3, BeginRejectPreserves, ApprovePreserves
<1>4. ASSUME NEW s \in Sessions, BeginPoll(s)
      PROVE  IInv'
  <2>1. "get" \in TimedOps /\ 0 \in Known(s) /\ ReadSession("get", s, 0)
    BY <1>4 DEF BeginPoll, TimedOps, Known
  <2> QED
    BY <2>1, ReadSessionPreserves
<1>5. ASSUME NEW s \in Sessions, Elapse(s)
      PROVE  IInv'
  BY <1>5, ElapsePreserves
<1>6. ASSUME NEW r \in requests, Finish(r)
      PROVE  IInv'
  BY <1>6, InsertPreserves, TimeoutPreserves, AcceptPreserves, ClosePreserves,
     ConnectedPreserves, ReconnectingPreserves, PromotePreserves, PollReplyPreserves
  DEF Finish
<1>7. ASSUME NEW state \in {"waiting_consent", "waiting_primary"}, ListPending(state)
      PROVE  IInv'
  BY <1>7, ListPendingPreserves
<1>8. ASSUME NEW e \in outbox, ReRead(e) \/ Notify(e)
      PROVE  IInv'
  BY <1>8, ReReadPreserves, NotifyPreserves
<1>9. CASE HeartbeatHost
  BY <1>9, HeartbeatPreserves
<1>10. CASE HostSilent
  <2>1. hostFresh' \in BOOLEAN /\ requests' \subseteq Request
    BY <1>10 DEF HostSilent, IInv, TypeOK
  <2> QED
    BY <1>10, <2>1, QuietPreserves DEF HostSilent
<1>11. CASE UNCHANGED vars
  <2>1. hostFresh' \in BOOLEAN /\ requests' \subseteq Request
    BY <1>11 DEF vars, IInv, TypeOK
  <2> QED
    BY <1>11, <2>1, QuietPreserves DEF vars
<1> QED
  BY <1>1, <1>2, <1>3, <1>4, <1>5, <1>6, <1>7, <1>8, <1>9, <1>10, <1>11 DEF Next

-----------------------------------------------------------------------------
(* The theorems.                                                           *)

\* The strengthened invariant holds in every reachable state.
THEOREM Invariance == Spec => []IInv
<1>1. Init => IInv
  BY InitIInv
<1>2. IInv /\ [Next]_vars => IInv'
  BY NextPreserves
<1> QED
  BY <1>1, <1>2, PTL DEF Spec

\* Rows, requests, events and the page keep their types, for any number of
\* sessions and concurrent handlers.
THEOREM TypeCorrect == Spec => []TypeOK
<1>1. IInv => TypeOK
  BY DEF IInv
<1> QED
  BY <1>1, Invariance, PTL

\* No session of a secondary phone reaches the host's side without the primary
\* phone's approval.
THEOREM Approved == Spec => []ApprovalGate
<1>1. IInv => ApprovalGate
  BY DEF IInv, ApprovalGate, RowOK, NoRow, HostSide, Live, Connected
<1> QED
  BY <1>1, Invariance, PTL

\* A live session has exactly the capabilities the host consented to.
THEOREM Consented == Spec => []GrantMatchesConsent
<1>1. ASSUME IInv, NEW s \in Sessions
      PROVE  /\ session[s].state \in Waiting => session[s].granted = {}
             /\ session[s].state \in Live =>
                  session[s].granted = session[s].asked /\ "view" \in session[s].granted
             /\ session[s].state \in Connected =>
                  (session[s].state = "connected_control" <=> "input" \in session[s].granted)
  <2>1. RowOK(session[s])
    BY <1>1 DEF IInv
  <2> QED
    BY <2>1 DEF RowOK, NoRow, CapSets, Waiting, Live, Connected
<1>2. IInv => GrantMatchesConsent
  BY <1>1 DEF GrantMatchesConsent
<1> QED
  BY <1>2, Invariance, PTL

\* A revision names one row, in every request, event and page.
THEOREM RevisionsAreNames == Spec => []RevisionNamesRow
<1>1. IInv => RevisionNamesRow
  BY DEF IInv, RevisionNamesRow, RequestOK, Observed
<1> QED
  BY <1>1, Invariance, PTL

-----------------------------------------------------------------------------
(* What a step may do to a row: the lifecycle of a session, one case per    *)
(* kind of write.                                                          *)

RowStep(old, new) ==
  \/ /\ old = NoRow
     /\ new.state \in Waiting /\ new.asked \in CapSets /\ new.granted = {}
     /\ new.approved \in BOOLEAN
  \/ /\ old.state = "waiting_primary" /\ new.state = "waiting_consent"
     /\ new.approved = TRUE
     /\ new.asked = old.asked /\ new.granted = old.granted
  \/ /\ old.state = "waiting_host" /\ new.state = "waiting_consent"
     /\ new.approved = old.approved
     /\ new.asked = old.asked /\ new.granted = old.granted
  \/ /\ old.state = "waiting_consent" /\ new.state = "negotiating"
     /\ new.approved = old.approved
     /\ new.asked = old.asked /\ new.granted = old.asked
  \/ /\ old.state \in Live /\ new.state \in Live
     /\ new.approved = old.approved
     /\ new.asked = old.asked /\ new.granted = old.granted
  \/ /\ old.state \in Waiting \cup Live /\ new.state \in Terminal
     /\ new.approved = old.approved
     /\ new.asked = old.asked /\ new.granted = old.granted

\* A step writes at most one row, and writes it in one of these ways.
RowsStep ==
  \/ session' = session
  \/ \E s \in Sessions : \E row \in Row :
       session' = [session EXCEPT ![s] = row] /\ RowStep(session[s], row)

\* A transition that is a row step whenever it swaps.
LEMMA TransitionStep ==
  ASSUME IInv, NEW r \in requests, NEW A, NEW next \in States,
         NEW granted \in SUBSET Caps,
         CanSwap(r, A) => RowStep(session[r.s], Moved(session[r.s], next, granted)),
         TransitionSession(r, A, next, granted)
  PROVE  RowsStep
<1>1. r.s \in Sessions /\ session[r.s] \in Row
  BY DEF IInv, TypeOK, Request
<1>2. Moved(session[r.s], next, granted) \in Row
  BY <1>1, MovedFields
<1> QED
  BY <1>1, <1>2 DEF TransitionSession, Write, RowsStep

\* Every step of Next is a row step.
LEMMA NextRows ==
  ASSUME IInv, [Next]_vars
  PROVE  RowsStep
<1>1. ASSUME NEW r \in requests, InsertSession(r)
      PROVE  RowsStep
  <2>1. RequestOK(r) /\ r \in Request /\ r.pc = "insert"
    BY <1>1 DEF IInv, TypeOK, InsertSession
  <2>2. r.s \in Sessions /\ r.row \in Row /\ RowOK(r.row) /\ session[r.s] = NoRow
        /\ r.row.state \in Waiting
    BY <2>1 DEF RequestOK, Request
  <2>3. r.row.asked \in CapSets /\ r.row.granted = {} /\ r.row.approved \in BOOLEAN
    BY <2>2 DEF RowOK, NoRow, Waiting, Row
  <2> QED
    BY <1>1, <2>2, <2>3 DEF InsertSession, Write, RowsStep, RowStep
<1>2. ASSUME NEW r \in requests, ApplyTimeout(r)
      PROVE  RowsStep
  <2>1. RequestOK(r) /\ r.s \in Sessions /\ session[r.s] \in Row
        /\ session[r.s].granted \in SUBSET Caps /\ r.pc = "timeout"
    BY <1>2 DEF IInv, TypeOK, Request, Row, ApplyTimeout
  <2>2. CASE session' = session
    BY <2>2 DEF RowsStep
  <2>3. CASE /\ session[r.s].state = r.row.state
             /\ session' = [session EXCEPT ![r.s] =
                              Moved(session[r.s], "failed", session[r.s].granted)]
    <3>1. session[r.s].state \in Waiting \cup Live
      BY <2>1, <2>3 DEF RequestOK, Timed, Live
    <3>2. "failed" \in States /\ "failed" \in Terminal
      BY DEF States, Terminal
    <3>3. RowStep(session[r.s], Moved(session[r.s], "failed", session[r.s].granted))
      BY <2>1, <3>1, <3>2, MovedFields DEF RowStep
    <3>4. Moved(session[r.s], "failed", session[r.s].granted) \in Row
      BY <2>1, <3>2, MovedFields
    <3> QED
      BY <2>1, <2>3, <3>3, <3>4 DEF RowsStep
  <2> QED
    BY <1>2, <2>2, <2>3 DEF ApplyTimeout, Write
<1>3. ASSUME NEW r \in requests
      PROVE  /\ r.s \in Sessions /\ session[r.s] \in Row
             /\ session[r.s].granted \in SUBSET Caps
             /\ r.row.granted \in SUBSET Caps /\ r.row.asked \in SUBSET Caps
  BY DEF IInv, TypeOK, Request, Row
<1>4. ASSUME NEW r \in requests, Accept(r)
      PROVE  RowsStep
  <2>1. "negotiating" \in States
    BY DEF States, Live
  <2>2. CanSwap(r, {"waiting_consent"}) =>
          RowStep(session[r.s], Moved(session[r.s], "negotiating", r.row.asked))
    BY <1>3, <1>4, <2>1, SwapIsCurrent, MovedFields DEF RowStep, Accept
  <2> QED
    BY <1>3, <1>4, <2>1, <2>2, TransitionStep DEF Accept
<1>5. ASSUME NEW r \in requests, Reject(r) \/ RejectByPrimary(r) \/ End(r)
      PROVE  RowsStep
  <2>1. "ended" \in States /\ "ended" \in Terminal
    BY DEF States, Terminal
  <2>2. ASSUME NEW A, A \subseteq Waiting \cup Live, CanSwap(r, A)
        PROVE  RowStep(session[r.s], Moved(session[r.s], "ended", session[r.s].granted))
    BY <1>3, <2>1, <2>2, MovedFields DEF RowStep, CanSwap
  <2>3. \E A : A \subseteq Waiting \cup Live
               /\ TransitionSession(r, A, "ended", session[r.s].granted)
    <3>1. CASE Reject(r)
      BY <3>1 DEF Reject, Waiting
    <3>2. CASE RejectByPrimary(r)
      BY <3>2 DEF RejectByPrimary, Waiting
    <3>3. CASE End(r)
      BY <3>3 DEF End
    <3> QED
      BY <1>5, <3>1, <3>2, <3>3
  <2> QED
    BY <1>3, <2>1, <2>2, <2>3, TransitionStep
<1>6. ASSUME NEW r \in requests, MarkConnected(r)
      PROVE  RowsStep
  <2> DEFINE A    == {"negotiating", "reconnecting"}
             next == IF "input" \in r.row.granted THEN "connected_control"
                                                  ELSE "connected_view"
  <2>1. next \in States /\ next \in Live /\ A \subseteq Live
    BY DEF States, Live, Connected
  <2>2. r.pc = "commit" /\ TransitionSession(r, A, next, r.row.granted)
    BY <1>6 DEF MarkConnected
  <2> HIDE DEF A, next
  <2>3. CanSwap(r, A) => RowStep(session[r.s], Moved(session[r.s], next, r.row.granted))
    BY <1>3, <2>1, <2>2, SwapIsCurrent, MovedFields DEF RowStep
  <2> QED
    BY <1>3, <2>1, <2>2, <2>3, TransitionStep
<1>7. ASSUME NEW r \in requests, MarkReconnecting(r)
      PROVE  RowsStep
  <2>1. "reconnecting" \in States /\ "reconnecting" \in Live /\ Connected \subseteq Live
    BY DEF States, Live
  <2>2. CanSwap(r, Connected) =>
          RowStep(session[r.s], Moved(session[r.s], "reconnecting", r.row.granted))
    BY <1>3, <1>7, <2>1, SwapIsCurrent, MovedFields DEF RowStep, MarkReconnecting
  <2> QED
    BY <1>3, <1>7, <2>1, <2>2, TransitionStep DEF MarkReconnecting
<1>8. ASSUME NEW r \in requests, Promote(r)
      PROVE  RowsStep
  <2>1. "waiting_consent" \in States
    BY DEF States, Waiting
  <2>2. CanSwap(r, {"waiting_host"}) =>
          RowStep(session[r.s], Moved(session[r.s], "waiting_consent", session[r.s].granted))
    BY <1>3, <2>1, MovedFields DEF RowStep, CanSwap
  <2> QED
    BY <1>3, <1>8, <2>1, <2>2, TransitionStep DEF Promote
<1>9. ASSUME NEW r \in requests, Finish(r)
      PROVE  RowsStep
  <2>1. PollReply(r) => session' = session
    BY DEF PollReply
  <2> QED
    BY <1>1, <1>2, <1>4, <1>5, <1>6, <1>7, <1>8, <1>9, <2>1 DEF Finish, RowsStep
<1>10. ASSUME NEW s \in Sessions, NEW exp \in Known(s), ApproveByPrimary(s, exp)
       PROVE  RowsStep
  <2>1. PICK row : row = [session[s] EXCEPT !.state = "waiting_consent",
                            !.approved = TRUE, !.rev = @ + 1]
    OBVIOUS
  <2>2. session[s] \in Row /\ session[s].rev \in Nat /\ session[s].rev + 1 \in Nat
        /\ session[s].state = "waiting_primary" /\ "waiting_consent" \in States
    BY <1>10 DEF IInv, TypeOK, ApproveByPrimary, Row, States, Waiting
  <2>3. row \in Row
    BY <2>1, <2>2 DEF Row
  <2>4. RowStep(session[s], row)
    BY <2>1, <2>2 DEF Row, RowStep
  <2> QED
    BY <1>10, <2>1, <2>3, <2>4 DEF ApproveByPrimary, Write, RowsStep
<1>11. CASE session' = session
  BY <1>11 DEF RowsStep
<1> QED
  BY <1>9, <1>10, <1>11
  DEF Next, RequestSession, BeginRequest, BeginRejectByPrimary, BeginPoll, ReadSession,
      Elapse, ListPending, ReRead, Notify, HeartbeatHost, HostSilent, vars

\* An ended or failed session keeps its row for ever.
THEOREM Final == Spec => TerminalIsFinal
<1>1. ASSUME IInv, [Next]_vars, NEW s \in Sessions, session[s].state \in Terminal
      PROVE  session'[s] = session[s]
  <2>1. session[s].state \notin Waiting \cup Live /\ session[s] # NoRow
    BY <1>1 DEF Terminal, Waiting, Live, Connected, NoRow
  <2>2. RowsStep
    BY <1>1, NextRows
  <2>3. ASSUME NEW row \in Row, RowStep(session[s], row)
        PROVE  FALSE
    BY <1>1, <2>1, <2>3 DEF RowStep, Waiting, Live
  <2>4. session \in [Sessions -> Row]
    BY <1>1 DEF IInv, TypeOK
  <2> QED
    BY <2>2, <2>3, <2>4 DEF RowsStep
<1>2. IInv /\ [Next]_vars =>
        \A s \in Sessions : session[s].state \in Terminal => session'[s] = session[s]
  BY <1>1
<1> QED
  BY <1>2, Invariance, PTL DEF Spec, TerminalIsFinal

\* Granted capabilities never change.
THEOREM Frozen == Spec => GrantIsFrozen
<1>1. ASSUME IInv, [Next]_vars, NEW s \in Sessions, session[s].granted # {}
      PROVE  session'[s].granted = session[s].granted
  <2>1. RowOK(session[s])
    BY <1>1 DEF IInv
  <2>2. session[s].state \notin Waiting /\ session[s] # NoRow
    BY <1>1, <2>1 DEF RowOK, NoRow
  <2>3. RowsStep
    BY <1>1, NextRows
  <2> QED
    BY <1>1, <2>2, <2>3 DEF RowsStep, RowStep, Waiting, IInv, TypeOK
<1>2. IInv /\ [Next]_vars =>
        \A s \in Sessions : session[s].granted # {} =>
                              session'[s].granted = session[s].granted
  BY <1>1
<1> QED
  BY <1>2, Invariance, PTL DEF Spec, GrantIsFrozen

-----------------------------------------------------------------------------
(* The page's order.                                                       *)

\* Nothing that is held is of a later revision than the row, or of its revision
\* and different.
Bounded ==
  \A s \in Sessions : \A v \in Sights(s) :
    /\ v.rev \in Nat /\ session[s].rev \in Nat /\ v.rev <= session[s].rev
    /\ v.rev = session[s].rev => v = Sight(session[s])

LEMMA SightsBounded == IInv => Bounded
<1> SUFFICES ASSUME IInv, NEW s \in Sessions, NEW v \in Sights(s)
             PROVE  /\ v.rev \in Nat /\ session[s].rev \in Nat /\ v.rev <= session[s].rev
                    /\ v.rev = session[s].rev => v = Sight(session[s])
  BY DEF Bounded
<1>1. session[s] \in Row /\ phone[s] \in View
  BY DEF IInv, TypeOK
<1>2. session[s].rev \in Nat
  BY <1>1 DEF Row
<1>3. CASE v = phone[s]
  <2>1. v.rev \in Nat /\ v = [state |-> v.state, rev |-> v.rev]
    BY <1>1, <1>3 DEF View
  <2>2. v.rev <= session[s].rev /\ (v.rev = session[s].rev => SameView(v, session[s]))
    BY <1>3 DEF IInv
  <2> QED
    BY <1>2, <2>1, <2>2 DEF SameView, Sight
<1>4. CASE v = Sight(session[s])
  BY <1>2, <1>4 DEF Sight
<1>5. ASSUME NEW row \in Row, v = Sight(row), Observed(row, s)
      PROVE  /\ v.rev \in Nat /\ v.rev <= session[s].rev
             /\ v.rev = session[s].rev => v = Sight(session[s])
  BY <1>5 DEF Sight, Observed, Row
<1>6. CASE \E r \in requests : r.s = s /\ r.pc # "insert" /\ v = Sight(r.row)
  <2>1. PICK r \in requests : r.s = s /\ r.pc # "insert" /\ v = Sight(r.row)
    BY <1>6
  <2>2. r.row \in Row /\ Observed(r.row, s)
    BY <2>1 DEF IInv, TypeOK, Request, RequestOK
  <2> QED
    BY <1>2, <1>5, <2>1, <2>2
<1>7. CASE \E e \in outbox : e.s = s /\ v = Sight(e.row)
  <2>1. PICK e \in outbox : e.s = s /\ v = Sight(e.row)
    BY <1>7
  <2>2. e.row \in Row /\ Observed(e.row, s)
    BY <2>1 DEF IInv, TypeOK, Event
  <2> QED
    BY <1>2, <1>5, <2>1, <2>2
<1> QED
  BY <1>3, <1>4, <1>6, <1>7 DEF Sights

\* What somebody holds of session s after a step: what was held before, or the
\* row the step writes.
HeldFrom(s) ==
  /\ \A r \in requests' : r.s = s /\ r.pc # "insert" =>
       Sight(r.row) \in Sights(s) \cup {Sight(session'[s])}
  /\ \A e \in outbox' : e.s = s => Sight(e.row) \in Sights(s) \cup {Sight(session'[s])}
  /\ phone'[s] # phone[s] => phone'[s] \in Sights(s) /\ phone[s].rev <= phone'[s].rev

LEMMA Held ==
  ASSUME NEW s \in Sessions
  PROVE  /\ \A r \in requests : r.s = s /\ r.pc # "insert" => Sight(r.row) \in Sights(s)
         /\ \A e \in outbox : e.s = s => Sight(e.row) \in Sights(s)
         /\ phone[s] \in Sights(s) /\ Sight(session[s]) \in Sights(s)
BY DEF Sights

\* A transition's event carries the row that was swapped in.
LEMMA TransitionHeld ==
  ASSUME IInv, NEW r \in requests, NEW A, NEW next, NEW granted,
         TransitionSession(r, A, next, granted), NEW s \in Sessions
  PROVE  HeldFrom(s)
<1>1. requests' \subseteq requests /\ phone' = phone
  BY DEF TransitionSession
<1>2. r.s \in Sessions /\ session \in [Sessions -> Row]
  BY DEF IInv, TypeOK, Request
<1>3. \A e \in outbox' : e.s = s => Sight(e.row) \in Sights(s) \cup {Sight(session'[s])}
  <2>1. CASE outbox' = outbox
    BY <2>1, Held
  <2>2. ASSUME NEW row, Write(r.s, row, "changed")
        PROVE  \A e \in outbox' : e.s = s => Sight(e.row) \in Sights(s) \cup {Sight(session'[s])}
    BY <1>2, <2>2, Held DEF Write
  <2> QED
    BY <2>1, <2>2 DEF TransitionSession
<1> QED
  BY <1>1, <1>3, Held DEF HeldFrom

\* A reader holds the row as it is.
LEMMA ReaderHeld ==
  ASSUME UNCHANGED <<outbox, phone>>, NEW s \in Sessions,
         \A r \in requests' \ requests : r.pc = "insert" \/ r.row = session[r.s]
  PROVE  HeldFrom(s)
<1>1. ASSUME NEW r \in requests', r.s = s, r.pc # "insert"
      PROVE  Sight(r.row) \in Sights(s)
  <2>1. CASE r \in requests
    BY <1>1, <2>1, Held
  <2>2. CASE r.row = session[s]
    BY <2>2, Held
  <2> QED
    BY <1>1, <2>1, <2>2
<1> QED
  BY <1>1, Held DEF HeldFrom

LEMMA TimeoutHeld ==
  ASSUME IInv, NEW r \in requests, ApplyTimeout(r), NEW s \in Sessions
  PROVE  HeldFrom(s)
<1> DEFINE now    == session[r.s]
           failed == Moved(now, "failed", now.granted)
           onward == [r EXCEPT !.pc = "commit",
                               !.row = IF now.rev = r.row.rev THEN failed ELSE now]
<1>1. RequestOK(r) /\ r \in Request /\ r.pc = "timeout" /\ r.s \in Sessions
      /\ session \in [Sessions -> Row]
  BY DEF IInv, TypeOK, ApplyTimeout, Request
<1>2. onward.s = r.s /\ onward.row = IF now.rev = r.row.rev THEN failed ELSE now
  BY <1>1 DEF Request
<1>3. /\ requests' \subseteq requests \cup {onward} /\ phone' = phone
      /\ IF now.rev = r.row.rev /\ now.state = r.row.state
           THEN Write(r.s, failed, "changed")
           ELSE UNCHANGED <<session, lapsed, outbox>>
  BY DEF ApplyTimeout
<1>4. now.rev = r.row.rev => now.state = r.row.state
  BY <1>1 DEF RequestOK, Observed
<1> HIDE DEF now, failed, onward
<1>5. CASE now.rev = r.row.rev
  <2>1. Write(r.s, failed, "changed") /\ onward.row = failed
    BY <1>2, <1>3, <1>4, <1>5
  <2>2. session'[r.s] = failed
    BY <1>1, <2>1 DEF Write
  <2>3. \A q \in requests' : q.s = s /\ q.pc # "insert" =>
          Sight(q.row) \in Sights(s) \cup {Sight(session'[s])}
    BY <1>2, <1>3, <2>1, <2>2, Held
  <2>4. \A e \in outbox' : e.s = s => Sight(e.row) \in Sights(s) \cup {Sight(session'[s])}
    BY <2>1, <2>2, Held DEF Write
  <2> QED
    BY <1>3, <2>3, <2>4 DEF HeldFrom
<1>6. CASE now.rev # r.row.rev
  <2>1. onward.row = session[r.s] /\ UNCHANGED <<outbox, phone>>
    BY <1>2, <1>3, <1>6 DEF now
  <2> QED
    BY <1>2, <1>3, <2>1, ReaderHeld
<1> QED
  BY <1>5, <1>6

\* The page takes a row of its own session, and none that is older.
LEMMA PageHeld ==
  ASSUME IInv, NEW t \in Sessions, NEW row \in Row, Sight(row) \in Sights(t), ApplySession(t, row),
         NEW s \in Sessions
  PROVE  phone'[s] # phone[s] => phone'[s] \in Sights(s) /\ phone[s].rev <= phone'[s].rev
<1>1. phone \in [Sessions -> View] /\ phone[s].rev \in Nat /\ row.rev \in Nat
  BY DEF IInv, TypeOK, View, Row
<1>2. CASE phone' = phone
  BY <1>2
<1>3. CASE ~(phone[t].rev > row.rev) /\ phone' = [phone EXCEPT ![t] = Sight(row)]
  <2>1. CASE s = t
    <3>1. phone'[s] = Sight(row) /\ Sight(row).rev = row.rev
      BY <1>1, <1>3, <2>1 DEF Sight
    <3> QED
      BY <1>1, <1>3, <2>1, <3>1
  <2>2. CASE s # t
    BY <1>1, <1>3, <2>2
  <2> QED
    BY <2>1, <2>2
<1> QED
  BY <1>2, <1>3 DEF ApplySession, Sight

LEMMA NextHeld ==
  ASSUME IInv, [Next]_vars, NEW s \in Sessions
  PROVE  HeldFrom(s)
<1>1. ASSUME NEW r \in requests, InsertSession(r)
      PROVE  HeldFrom(s)
  <2>1. /\ requests' \subseteq requests /\ phone' = phone /\ Write(r.s, r.row, "requested")
        /\ r.s \in Sessions /\ session \in [Sessions -> Row]
    BY <1>1 DEF InsertSession, IInv, TypeOK, Request
  <2> QED
    BY <2>1, Held DEF HeldFrom, Write
<1>2. ASSUME NEW r \in requests, PollReply(r)
      PROVE  HeldFrom(s)
  <2>1. r.s \in Sessions /\ r.row \in Row /\ Sight(r.row) \in Sights(r.s)
    BY <1>2, Held DEF PollReply, IInv, TypeOK, Request
  <2>2. /\ requests' \subseteq requests /\ outbox' = outbox /\ ApplySession(r.s, r.row)
    BY <1>2 DEF PollReply
  <2> QED
    BY <2>1, <2>2, Held, PageHeld DEF HeldFrom
<1>3. ASSUME NEW r \in requests,
             Accept(r) \/ Reject(r) \/ RejectByPrimary(r) \/ End(r) \/ MarkConnected(r)
               \/ MarkReconnecting(r) \/ Promote(r)
      PROVE  HeldFrom(s)
  <2>1. \E A, next, granted : TransitionSession(r, A, next, granted)
    BY <1>3 DEF Accept, Reject, RejectByPrimary, End, MarkConnected, MarkReconnecting, Promote
  <2> QED
    BY <2>1, TransitionHeld
<1>4. ASSUME NEW r \in requests, Finish(r)
      PROVE  HeldFrom(s)
  BY <1>1, <1>2, <1>3, <1>4, TimeoutHeld DEF Finish
<1>5. ASSUME NEW t \in Sessions, NEW exp \in Known(t), ApproveByPrimary(t, exp)
      PROVE  HeldFrom(s)
  <2>1. PICK row : /\ Write(t, row, "changed") /\ UNCHANGED <<requests, phone>>
                   /\ session \in [Sessions -> Row]
    BY <1>5 DEF ApproveByPrimary, IInv, TypeOK
  <2> QED
    BY <2>1, Held DEF HeldFrom, Write
<1>6. ASSUME NEW op, NEW t \in Sessions, NEW exp, ReadSession(op, t, exp)
      PROVE  HeldFrom(s)
  BY <1>6, ReaderHeld DEF ReadSession
<1>7. ASSUME NEW t \in Sessions, NEW exp \in Known(t), BeginRejectByPrimary(t, exp)
      PROVE  HeldFrom(s)
  BY <1>7, ReaderHeld DEF BeginRejectByPrimary
<1>8. ASSUME NEW t \in Sessions, NEW primary \in BOOLEAN, NEW asked \in CapSets,
             RequestSession(t, primary, asked)
      PROVE  HeldFrom(s)
  BY <1>8, ReaderHeld DEF RequestSession
<1>9. CASE HeartbeatHost
  BY <1>9, ReaderHeld DEF HeartbeatHost
<1>10. ASSUME NEW state, ListPending(state)
       PROVE  HeldFrom(s)
  BY <1>10, ReaderHeld DEF ListPending
<1>11. ASSUME NEW e \in outbox, ReRead(e)
       PROVE  HeldFrom(s)
  <2>1. PICK f : f = [e EXCEPT !.row = session[e.s]]
    OBVIOUS
  <2>2. f.s = e.s /\ f.row = session[e.s]
    BY <2>1 DEF IInv, TypeOK, Event
  <2>3. outbox' \subseteq outbox \cup {f} /\ UNCHANGED <<requests, phone>>
    BY <1>11, <2>1 DEF ReRead
  <2> QED
    BY <2>2, <2>3, Held DEF HeldFrom
<1>12. ASSUME NEW e \in outbox, Notify(e)
       PROVE  HeldFrom(s)
  <2>1. e.s \in Sessions /\ e.row \in Row /\ Sight(e.row) \in Sights(e.s)
    BY Held DEF IInv, TypeOK, Event
  <2>2. outbox' \subseteq outbox /\ requests' = requests
        /\ (ApplySession(e.s, e.row) \/ phone' = phone)
    BY <1>12 DEF Notify
  <2> QED
    BY <2>1, <2>2, Held, PageHeld DEF HeldFrom
<1>13. CASE UNCHANGED <<requests, outbox, phone>>
  BY <1>13, ReaderHeld
<1> QED
  BY <1>4, <1>5, <1>6, <1>7, <1>8, <1>9, <1>10, <1>11, <1>12, <1>13
  DEF Next, BeginRequest, BeginPoll, Elapse, HostSilent, vars

LEMMA InitInOrder == Init => InOrder
<1> SUFFICES ASSUME Init, NEW s \in Sessions, NEW v \in Sights(s), NEW w \in Sights(s)
             PROVE  LeadsOn(v, w)
  BY DEF InOrder
<1>1. v.state = "absent"
  BY DEF Init, Sights, Sight, NoRow
<1> QED
  BY <1>1 DEF LeadsOn, Live, Connected, Terminal

\* A row that is written is later than all that is held.
LEMMA NextInOrder == IInv /\ IInv' /\ InOrder /\ [Next]_vars => InOrder'
<1> SUFFICES ASSUME IInv, IInv', InOrder, [Next]_vars, NEW s \in Sessions,
                    NEW v \in Sights(s)', NEW w \in Sights(s)', v.rev <= w.rev
             PROVE  LeadsOn(v, w)
  BY DEF InOrder, LeadsOn
<1> DEFINE old == Sight(session[s])
           new == Sight(session'[s])
<1>1. Sights(s)' \subseteq Sights(s) \cup {new}
  <2> SUFFICES ASSUME NEW x \in Sights(s)', x # new PROVE x \in Sights(s)
    OBVIOUS
  <2>1. HeldFrom(s)
    BY NextHeld
  <2>2. CASE \E r \in requests' : r.s = s /\ r.pc # "insert" /\ x = Sight(r.row)
    BY <2>1, <2>2 DEF HeldFrom
  <2>3. CASE \E e \in outbox' : e.s = s /\ x = Sight(e.row)
    BY <2>1, <2>3 DEF HeldFrom
  <2>4. CASE x = phone'[s]
    BY <2>1, <2>4, Held DEF HeldFrom
  <2> QED
    BY <2>2, <2>3, <2>4 DEF Sights, Sight
<1>2. \A x \in Sights(s) : x.rev <= old.rev
  BY SightsBounded DEF Bounded, Sight
<1>3. \A x \in Sights(s) : LeadsOn(x, old)
  BY <1>2, Held DEF InOrder
<1>4. \A x \in Sights(s)' : /\ x.rev \in Nat /\ new.rev \in Nat /\ x.rev <= new.rev
                            /\ x.rev = new.rev => x = new
  <2>1. (IInv => Bounded)'
    BY SightsBounded, PTL
  <2> QED
    BY <2>1 DEF Bounded, Sight
<1>5. session'[s] = session[s] \/ RowStep(session[s], session'[s])
  BY NextRows DEF RowsStep, IInv, TypeOK
<1>6. CASE session'[s] = session[s]
  <2>1. v \in Sights(s) /\ w \in Sights(s)
    BY <1>1, <1>6, Held
  <2> QED
    BY <2>1 DEF InOrder
<1>7. CASE RowStep(session[s], session'[s])
  <2>1. /\ old.state \in Live \cup Terminal => old.state \in Live /\ new.state \in Live \cup Terminal
    BY <1>7 DEF RowStep, Sight, NoRow, Waiting, Live, Connected, Terminal
  <2>2. old.state \notin Terminal
    BY <2>1 DEF Live, Connected, Terminal
  <2>3. CASE w = new
    <3>1. CASE v \in Sights(s)
      BY <1>3, <2>1, <2>2, <2>3, <3>1 DEF LeadsOn
    <3>2. CASE v = new
      BY <2>3, <3>2 DEF LeadsOn
    <3> QED
      BY <1>1, <3>1, <3>2
  <2>4. CASE v \in Sights(s) /\ w \in Sights(s)
    BY <2>4 DEF InOrder
  <2>5. CASE v = new
    <3>1. w = new
      BY <1>4, <2>5
    <3> QED
      BY <2>5, <3>1 DEF LeadsOn
  <2> QED
    BY <1>1, <2>3, <2>4, <2>5
<1> QED
  BY <1>5, <1>6, <1>7

THEOREM Ordered == Spec => []InOrder
<1>1. Init => InOrder
  BY InitInOrder
<1> QED
  BY <1>1, NextInOrder, Invariance, PTL DEF Spec

\* The page goes on with the session whatever is delayed, lost or overtaken:
\* applySession compares revisions alone, and they are in order.
THEOREM NeverBack == Spec => PageNeverGoesBack
<1>1. ASSUME IInv, InOrder, [Next]_vars, NEW s \in Sessions
      PROVE  /\ phone[s].state \in Live \cup Terminal => phone'[s].state \notin Waiting
             /\ phone[s].state \in Terminal => phone'[s] = phone[s]
  <2>1. CASE phone'[s] = phone[s]
    BY <2>1 DEF Waiting, Live, Connected, Terminal
  <2>2. CASE phone'[s] # phone[s]
    <3>1. phone'[s] \in Sights(s) /\ phone[s].rev <= phone'[s].rev
      BY <1>1, <2>2, NextHeld DEF HeldFrom
    <3>2. LeadsOn(phone[s], phone'[s])
      BY <1>1, <3>1, Held DEF InOrder
    <3> QED
      BY <3>2 DEF LeadsOn, Waiting, Live, Connected, Terminal
  <2> QED
    BY <2>1, <2>2
<1>2. IInv /\ InOrder /\ [Next]_vars =>
        \A s \in Sessions :
          /\ phone[s].state \in Live \cup Terminal => phone'[s].state \notin Waiting
          /\ phone[s].state \in Terminal => phone'[s] = phone[s]
  BY <1>1
<1> QED
  BY <1>2, Invariance, Ordered, PTL DEF Spec, PageNeverGoesBack

-----------------------------------------------------------------------------
(* The session implements RemoteLifecycle.                                 *)

\* How the stage follows the state.
LEMMA StageOf ==
  ASSUME NEW state
  PROVE  /\ state \in Waiting => Stage(state) = "waiting"
         /\ state \in Live => Stage(state) = "live"
         /\ state \in Terminal => Stage(state) = "over"
         /\ state = "absent" => Stage(state) = "absent"
BY DEF Stage, Waiting, Live, Connected, Terminal

\* Every step of the sessions is a step of the lifecycle, or changes nothing of it.
LEMMA StepRefines ==
  ASSUME IInv, [Next]_vars
  PROVE  [Lifecycle!Next]_Lifecycle!vars
<1>1. RowsStep
  BY NextRows
<1>2. CASE session' = session
  BY <1>2 DEF Lifecycle!vars, stageOf, approvedOf, askedOf, grantedOf
<1>3. ASSUME NEW s \in Sessions, NEW row \in Row,
             session' = [session EXCEPT ![s] = row], RowStep(session[s], row)
      PROVE  [Lifecycle!Next]_Lifecycle!vars
  <2>1. /\ stageOf' = [stageOf EXCEPT ![s] = Stage(row.state)]
        /\ approvedOf' = [approvedOf EXCEPT ![s] = row.approved]
        /\ askedOf' = [askedOf EXCEPT ![s] = row.asked]
        /\ grantedOf' = [grantedOf EXCEPT ![s] = row.granted]
    BY <1>3 DEF IInv, TypeOK, stageOf, approvedOf, askedOf, grantedOf
  <2>2. /\ stageOf[s] = Stage(session[s].state) /\ approvedOf[s] = session[s].approved
        /\ askedOf[s] = session[s].asked /\ grantedOf[s] = session[s].granted
    BY DEF stageOf, approvedOf, askedOf, grantedOf
  <2>3. /\ [stageOf EXCEPT ![s] = stageOf[s]] = stageOf
        /\ [approvedOf EXCEPT ![s] = approvedOf[s]] = approvedOf
        /\ [askedOf EXCEPT ![s] = askedOf[s]] = askedOf
        /\ [grantedOf EXCEPT ![s] = grantedOf[s]] = grantedOf
    BY DEF stageOf, approvedOf, askedOf, grantedOf
  <2>4. session[s] \in Row /\ RowOK(session[s])
    BY DEF IInv, TypeOK
  <2>5. CASE /\ session[s] = NoRow
             /\ row.state \in Waiting /\ row.asked \in CapSets /\ row.granted = {}
             /\ row.approved \in BOOLEAN
    <3>1. Stage(session[s].state) = "absent" /\ Stage(row.state) = "waiting"
          /\ session[s].granted = {}
      BY <2>5, StageOf DEF NoRow
    <3>2. Lifecycle!Ask(s)
      BY <2>1, <2>2, <2>3, <2>5, <3>1 DEF Lifecycle!Ask
    <3> QED
      BY <3>2 DEF Lifecycle!Next
  <2>6. CASE /\ session[s].state = "waiting_primary" /\ row.state = "waiting_consent"
             /\ row.approved = TRUE
             /\ row.asked = session[s].asked /\ row.granted = session[s].granted
    <3>1. Stage(session[s].state) = "waiting" /\ Stage(row.state) = "waiting"
      BY <2>6, StageOf DEF Waiting
    <3>2. CASE session[s].approved = FALSE
      <4>1. Lifecycle!Approve(s)
        BY <2>1, <2>2, <2>3, <2>6, <3>1, <3>2 DEF Lifecycle!Approve
      <4> QED
        BY <4>1 DEF Lifecycle!Next
    <3>3. CASE session[s].approved = TRUE
      BY <2>1, <2>2, <2>3, <2>6, <3>1, <3>3 DEF Lifecycle!vars
    <3> QED
      BY <2>4, <3>2, <3>3 DEF Row
  <2>7. CASE /\ Stage(row.state) = Stage(session[s].state)
             /\ row.approved = session[s].approved
             /\ row.asked = session[s].asked /\ row.granted = session[s].granted
    BY <2>1, <2>2, <2>3, <2>7 DEF Lifecycle!vars
  <2>8. CASE /\ session[s].state = "waiting_consent" /\ row.state = "negotiating"
             /\ row.approved = session[s].approved
             /\ row.asked = session[s].asked /\ row.granted = session[s].asked
    <3>1. Stage(session[s].state) = "waiting" /\ Stage(row.state) = "live"
      BY <2>8, StageOf DEF Waiting, Live
    <3>2. session[s].approved
      BY <2>4, <2>8 DEF RowOK, NoRow, HostSide
    <3>3. Lifecycle!Consent(s)
      BY <2>1, <2>2, <2>3, <2>8, <3>1, <3>2 DEF Lifecycle!Consent
    <3> QED
      BY <3>3 DEF Lifecycle!Next
  <2>9. CASE /\ session[s].state \in Waiting \cup Live /\ row.state \in Terminal
             /\ row.approved = session[s].approved
             /\ row.asked = session[s].asked /\ row.granted = session[s].granted
    <3>1. Stage(session[s].state) \in {"waiting", "live"} /\ Stage(row.state) = "over"
      BY <2>9, StageOf
    <3>2. Lifecycle!Close(s)
      BY <2>1, <2>2, <2>3, <2>9, <3>1 DEF Lifecycle!Close
    <3> QED
      BY <3>2 DEF Lifecycle!Next
  <2>10. /\ session[s].state = "waiting_host" /\ row.state = "waiting_consent" =>
               Stage(row.state) = Stage(session[s].state)
         /\ session[s].state \in Live /\ row.state \in Live =>
               Stage(row.state) = Stage(session[s].state)
    BY StageOf DEF Waiting
  <2> QED
    BY <1>3, <2>5, <2>6, <2>7, <2>8, <2>9, <2>10 DEF RowStep
<1> QED
  BY <1>1, <1>2, <1>3 DEF RowsStep

\* The detailed session, with its revisions, races and timeouts, implements the
\* lifecycle: consent only after approval, the grant as asked, nothing after the end.
THEOREM Refinement == Spec => LifecycleSpec
<1>1. Init => Lifecycle!Init
  <2>1. Init => \A s \in Sessions :
          /\ session[s].state = "absent" /\ session[s].approved = FALSE
          /\ session[s].asked = {} /\ session[s].granted = {}
    BY DEF Init, NoRow
  <2>2. Stage("absent") = "absent"
    BY StageOf
  <2> QED
    BY <2>1, <2>2 DEF Lifecycle!Init, stageOf, approvedOf, askedOf, grantedOf
<1>2. IInv /\ [Next]_vars => [Lifecycle!Next]_Lifecycle!vars
  BY StepRefines
<1> QED
  BY <1>1, <1>2, Invariance, PTL DEF Spec, LifecycleSpec, Lifecycle!Spec
=============================================================================
