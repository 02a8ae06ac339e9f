---------------------------- MODULE RemoteBridge -----------------------------
(***************************************************************************)
(* One remote session from its acceptance on: the bridge process of the    *)
(* host (remote/windows-host/bridge/main.go, input_windows.go), the phone's *)
(* page (RemoteDesktopPage.ets, RemoteSignalClient.ets) and, between them,  *)
(* the signaling hub and the session's row.                                *)
(*                                                                         *)
(* The bridge is its main goroutine, the read loop of its WebSocket, the   *)
(* watcher of the stream and the callbacks of the peer connection, which   *)
(* run in the order of the changes they tell of: the watcher, which looks  *)
(* at one state only, relies on that.                                      *)
(*                                                                         *)
(* The hub is as RemoteSignaling has it, each message handled in one step: *)
(* a client_ready consumes its ticket, a signal is checked against the     *)
(* row, and what finds no listener is dropped; a broken connection of the  *)
(* phone is found before the next one joins.  ICE candidates are left out: *)
(* they travel like the answer, and the bridge keeps those that precede it. *)
(***************************************************************************)
EXTENDS Integers, Sequences

CONSTANTS
  Keys,      (* keys and buttons the phone may press                         *)
  Modifiers, (* those releaseAllInput lets go: modifiers and mouse buttons   *)
  MaxDrops,  (* bound: connections of the phone that break                   *)
  MaxCallbacks, (* bound: callbacks under way before the peer changes again  *)
  Room,      (* capacity of the hub's channel to a connection                *)
  StateCap   (* capacity of connStateCh                                      *)

ASSUME BridgeParametersOK ==
  /\ Modifiers \subseteq Keys
  /\ MaxDrops \in Nat /\ MaxCallbacks \in Nat \ {0} /\ Room \in Nat \ {0} /\ StateCap \in Nat \ {0}

VARIABLES
  row,      (* the session's state and revision                              *)
  main,     (* where run() of the bridge is                                  *)
  reader,   (* its read loop runs: wsDone is not closed                      *)
  ready,    (* controllerReady holds a token                                 *)
  states,   (* connStateCh                                                   *)
  watcher,  (* the goroutine that may cancel the stream: off, on, done       *)
  cancelled,(* streamCtx is cancelled                                        *)
  peer,     (* the state of the peer connection                              *)
  callbacks,(* of state changes, that have not run yet                       *)
  answered, (* the remote description is set                                 *)
  held,     (* keys that are down                                            *)
  hostLine, (* the hub's view of the bridge's connection: down, up, ready    *)
  toHost,   (* the hub's channel to it                                       *)
  page,     (* the phone's page                                              *)
  tasks,    (* its calls of ensureControllerReady that await something       *)
  line,     (* the hub's view of the phone's connection: its authorization   *)
  toPhone,  (* the hub's channel to the phone                                *)
  drops     (* connections of the phone that broke so far                    *)

stream == <<states, watcher, cancelled>>
rtc    == <<peer, callbacks, answered, held>>
bridge == <<main, reader, ready, stream, rtc>>
phone  == <<page, tasks>>
hub    == <<hostLine, toHost, line, toPhone>>
bridgeVars   == <<row, bridge, phone, hub, drops>>

Negotiation == {"negotiating", "reconnecting"}
Revs        == 1..4   (* connected once, reconnecting once, over *)
Down        == {"disconnected", "failed", "closed"}
Running     == {"join", "hello", "gate", "offer", "await", "again", "mark", "pipe", "stream"}
Gone        == {"exited", "killed"}

Row  == [state : Negotiation \cup {"connected", "over"}, rev : Revs]
NoRow == [state |-> "none", rev |-> 0]

\* What the page keeps: the session it knows, the revision of the media, guards
\* of client_ready, whether it is shown, joined, about to answer, and has media.
Page == [know : Row \cup {NoRow}, open : BOOLEAN, joined : BOOLEAN,
         mediaRev : {0} \cup Revs, readyRev : {0} \cup Revs, flight : {0} \cup Revs,
         offer : BOOLEAN, answering : BOOLEAN, media : BOOLEAN]
Task == [for : Revs, pc : {"ticket", "send"}, ticket : {0} \cup Revs]
Msg  == [type : {"ready", "offer", "answer", "left", "conflict"}, rev : Revs]

BridgeTypeOK ==
  /\ row \in Row
  /\ main \in Running \cup {"post"} \cup Gone
  /\ reader \in BOOLEAN /\ ready \in BOOLEAN
  /\ states \in Seq({"connecting", "connected"} \cup Down) /\ Len(states) <= StateCap
  /\ watcher \in {"off", "on", "done"} /\ cancelled \in BOOLEAN
  /\ peer \in {"new", "connecting", "connected"} \cup Down
  /\ callbacks \in Seq({"connecting", "connected"} \cup Down)
  /\ answered \in BOOLEAN /\ held \subseteq Keys
  /\ hostLine \in {"down", "up", "ready"}
  /\ page \in Page /\ tasks \subseteq Task
  /\ line \in {0} \cup Revs
  /\ toHost \in Seq(Msg) /\ Len(toHost) <= Room
  /\ toPhone \in Seq(Msg) /\ Len(toPhone) <= Room
  /\ drops \in 0..MaxDrops

BridgeInit ==
  /\ row = [state |-> "negotiating", rev |-> 1]
  /\ main = "join" /\ reader = FALSE /\ ready = FALSE
  /\ states = <<>> /\ watcher = "off" /\ cancelled = FALSE
  /\ peer = "new" /\ callbacks = <<>> /\ answered = FALSE /\ held = {}
  /\ hostLine = "down" /\ toHost = <<>>
  /\ page = [know |-> NoRow, open |-> TRUE, joined |-> TRUE, mediaRev |-> 0,
             readyRev |-> 0, flight |-> 0, offer |-> FALSE, answering |-> FALSE,
             media |-> FALSE]
  /\ tasks = {} /\ line = 0 /\ toPhone = <<>> /\ drops = 0
-----------------------------------------------------------------------------
(* The hub and the row.                                                    *)

\* What a channel holds after a send that may find it full.
Put(chan, type, rev) ==
  IF Len(chan) < Room THEN Append(chan, [type |-> type, rev |-> rev]) ELSE chan

\* What the bridge no longer reads is not kept.
ToHost(type, rev)  ==
  IF hostLine = "down" \/ ~(reader \/ main = "hello") THEN toHost ELSE Put(toHost, type, rev)
ToPhone(type, rev) == IF page.open /\ page.joined THEN Put(toPhone, type, rev) ELSE toPhone

\* A signal of revision rev is forwarded.
Valid(rev) ==
  \/ row.state \in Negotiation /\ row.rev = rev
  \/ row.state = "connected" /\ row.rev = rev + 1

\* One CAS on; the revision of a session that is over tells nothing.
Moved(state) == [state |-> state, rev |-> IF state = "over" THEN 4 ELSE row.rev + 1]

\* The last connection of an endpoint left, authorized for revision auth: a
\* connected session is to be negotiated again.
RowWithout(auth) ==
  IF auth # 0 /\ row.state = "connected" THEN Moved("reconnecting") ELSE row

\* Who reads the session: the page by its poll; the hub, for a message of the
\* bridge and as its connection is cleaned up; the bridge's requests.
Polled  == page.open
ReadByHost == hostLine = "ready" \/ main \in {"hello", "offer", "mark", "post"}

\* The time to negotiate is over, and somebody reads the session: no timer fails it.
Lapse ==
  /\ row.state \in Negotiation
  /\ Polled \/ ReadByHost
  /\ row' = Moved("over")
  /\ UNCHANGED <<bridge, phone, hub, drops>>

\* The hub finds the bridge's connection broken, or closed by the bridge.
HostLeaves ==
  /\ hostLine # "down"
  /\ hostLine' = "down" /\ toHost' = <<>>
  /\ reader' = FALSE
  /\ row' = RowWithout(IF hostLine = "ready" THEN 1 ELSE 0)
  /\ UNCHANGED <<main, ready, stream, rtc, phone, line, toPhone, drops>>

-----------------------------------------------------------------------------
(* The bridge's main goroutine.                                            *)

\* run() returns: what it has open is closed, and main() reports the end.  What
\* the goroutines still say to one another no longer matters.
Returns ==
  /\ main' = "post"
  /\ peer' = "closed"
  /\ callbacks' = IF peer = "closed" THEN callbacks ELSE Append(callbacks, "closed")
  /\ reader' = FALSE /\ ready' = FALSE /\ answered' = FALSE
  /\ states' = <<>> /\ watcher' = "done" /\ cancelled' = TRUE
  /\ UNCHANGED held

Runs == UNCHANGED <<reader, ready, stream, rtc>>

\* The process is gone with all it had.
Emptied ==
  /\ reader' = FALSE /\ ready' = FALSE /\ answered' = FALSE
  /\ states' = <<>> /\ watcher' = "done" /\ cancelled' = TRUE
  /\ peer' = "closed" /\ callbacks' = <<>>

Join ==
  /\ main = "join"
  /\ \/ main' = "hello" /\ hostLine' = "up" /\ Runs
     \/ Returns /\ UNCHANGED hostLine
  /\ UNCHANGED <<row, phone, toHost, line, toPhone, drops>>

\* Its client_ready consumes the ticket of revision 1; then the read loop starts.
SayReady ==
  /\ main = "hello"
  /\ main' = "gate"
  /\ reader' = (hostLine # "down")
  /\ IF hostLine # "down" /\ row = [state |-> "negotiating", rev |-> 1]
       THEN hostLine' = "ready" /\ toPhone' = ToPhone("ready", 1)
       ELSE UNCHANGED <<hostLine, toPhone>>
  /\ UNCHANGED <<row, ready, stream, rtc, phone, toHost, line, drops>>

\* The thirty seconds outlast the phone's retries: they end only when the phone
\* is not there or the session is not the one the bridge waits for.
Unanswered == ~page.open \/ ~page.joined \/ row # [state |-> "negotiating", rev |-> 1]

Gate ==
  /\ main = "gate"
  /\ \/ ready /\ main' = "offer" /\ Runs
     \/ (~reader \/ Unanswered) /\ Returns
  /\ UNCHANGED <<row, phone, hub, drops>>

\* The offer reaches the phone if the hub forwards it and the phone is there.
SendOffer ==
  /\ main = "offer"
  /\ main' = "await" /\ Runs
  /\ toPhone' = IF hostLine = "ready" /\ Valid(1) THEN ToPhone("offer", 1) ELSE toPhone
  /\ UNCHANGED <<row, phone, hostLine, toHost, line, drops>>

\* SetLocalDescription has started the gathering of candidates: its callback
\* writes to the same WebSocket, and two writers at a time are a panic.
WriteClash ==
  /\ main = "offer"
  /\ main' = "killed" /\ Emptied
  /\ UNCHANGED <<row, held, phone, hub, drops>>

\* A first state and, if it is not "connected", one more; sixty seconds each.
Await ==
  /\ main \in {"await", "again"}
  /\ \/ /\ states # <<>>
        /\ \/ Head(states) = "connected" /\ main' = "mark"
           \/ Head(states) # "connected" /\ main = "await" /\ main' = "again"
        /\ states' = Tail(states)
        /\ UNCHANGED <<reader, ready, watcher, cancelled, rtc>>
     \/ Returns
  /\ UNCHANGED <<row, phone, hub, drops>>

\* The answer to the request may be lost.
MarkConnected ==
  /\ main = "mark"
  /\ \/ /\ row = [state |-> "negotiating", rev |-> 1]
        /\ row' = Moved("connected")
        /\ \/ main' = "pipe" /\ Runs
           \/ Returns
     \/ Returns /\ UNCHANGED row
  /\ UNCHANGED <<phone, hub, drops>>

OpenPipe ==
  /\ main = "pipe"
  /\ \/ /\ main' = "stream" /\ watcher' = "on"
        /\ UNCHANGED <<reader, ready, states, cancelled, rtc>>
     \/ Returns
  /\ UNCHANGED <<row, phone, hub, drops>>

\* The loop looks at its context between two frames.
StreamEnds ==
  /\ main = "stream" /\ cancelled
  /\ Returns
  /\ UNCHANGED <<row, phone, hub, drops>>

PipeBreaks ==
  /\ main = "stream"
  /\ Returns
  /\ UNCHANGED <<row, phone, hub, drops>>

\* endSession names no revision; its failure is only logged.  The callbacks have
\* run by the time its request is answered.
EndSession ==
  /\ main = "post" /\ callbacks = <<>>
  /\ main' = "exited"
  /\ \/ row' = IF row.state # "over" THEN Moved("over") ELSE row
     \/ UNCHANGED row
  /\ Emptied /\ UNCHANGED <<held, phone, hub, drops>>

\* The host's manager stops or replaces the process.
Kill ==
  /\ main \notin Gone
  /\ main' = "killed"
  /\ Emptied /\ UNCHANGED <<row, held, phone, hub, drops>>

-----------------------------------------------------------------------------
(* The bridge's other goroutines.                                          *)

\* Mutant of Watch: a peer that is only disconnected may come back.
WatchFailed ==
  /\ watcher = "on"
  /\ \/ /\ states # <<>>
        /\ cancelled' = (cancelled \/ Head(states) \in {"failed", "closed"})
     \/ ~reader /\ cancelled' = TRUE
  /\ watcher' = "done" /\ states' = <<>>
  /\ UNCHANGED <<row, main, reader, ready, rtc, phone, hub, drops>>

\* It looks at one state, or at the end of the read loop, and is done;
\* nobody looks at what comes after.
Watch ==
  /\ watcher = "on"
  /\ \/ /\ states # <<>>
        /\ cancelled' = (cancelled \/ Head(states) \in Down)
     \/ ~reader /\ cancelled' = TRUE
  /\ watcher' = "done" /\ states' = <<>>
  /\ UNCHANGED <<row, main, reader, ready, rtc, phone, hub, drops>>

\* A client_ready counts whatever session it is for; of the others only those of
\* the bridge's own revision.  A second answer is an error that ends the loop.
Read ==
  /\ reader /\ toHost # <<>>
  /\ LET m == Head(toHost) IN
     /\ ready' = (ready \/ m.type = "ready")
     /\ answered' = (answered \/ (m.type = "answer" /\ m.rev = 1))
     /\ reader' = ~(m.rev = 1 /\ (m.type = "left" \/ (m.type = "answer" /\ answered)))
  /\ toHost' = IF reader' THEN Tail(toHost) ELSE <<>>
  /\ UNCHANGED <<row, main, stream, peer, callbacks, held, phone, hostLine, line,
                 toPhone, drops>>

\* How the library moves the peer connection, as far as the bridge tells states
\* apart; it is connected only while the phone has its side.
Follows(s) ==
  \/ s = "connecting"   /\ peer = "new" /\ answered
  \/ s = "connected"    /\ peer \in {"connecting", "disconnected"} /\ page.media
  \/ s = "disconnected" /\ peer = "connected"
  \/ s = "failed"       /\ peer \in {"connecting", "disconnected"}

PeerChanges(s) ==
  /\ main \notin Gone /\ Len(callbacks) < MaxCallbacks
  /\ Follows(s)
  /\ peer' = s /\ callbacks' = Append(callbacks, s)
  /\ UNCHANGED <<row, main, reader, ready, stream, answered, held, phone, hub, drops>>

\* Mutant of LetGo: only the end of the connection counts.
LetGoAtEnd(s) == IF s = "failed" THEN held \ Modifiers ELSE held

\* releaseAllInput.
LetGo(s) == IF s \in Down THEN held \ Modifiers ELSE held

\* OnConnectionStateChange: a state that finds connStateCh full is dropped.
Callback ==
  /\ main \notin Gone /\ callbacks # <<>>
  /\ held' = LetGo(Head(callbacks))
  /\ states' = IF watcher # "done" /\ Len(states) < StateCap THEN Append(states, Head(callbacks)) ELSE states
  /\ callbacks' = Tail(callbacks)
  /\ UNCHANGED <<row, main, reader, ready, watcher, cancelled, peer, answered, phone, hub, drops>>

\* handleInputEvent; what was sent may arrive when the connection is shaky.
Input(k) ==
  /\ main \notin Gone /\ peer \in {"connected", "disconnected"}
  /\ held' = IF k \in held THEN held \ {k} ELSE held \cup {k}
  /\ UNCHANGED <<row, main, reader, ready, stream, peer, callbacks, answered, phone, hub, drops>>

-----------------------------------------------------------------------------
(* The phone's page.                                                       *)

Negotiating == page.know.state \in Negotiation

\* ensureControllerReady as far as its first await, for a page p that is so.
Ensured(p) ==
  IF p.know.rev \in {p.readyRev, p.flight}
    THEN page' = p /\ UNCHANGED tasks
    ELSE /\ page' = [p EXCEPT !.flight = p.know.rev]
         /\ tasks' = tasks \cup {[for |-> p.know.rev, pc |-> "ticket", ticket |-> 0]}

Closed(p) == [p EXCEPT !.mediaRev = 0, !.readyRev = 0, !.flight = 0, !.offer = FALSE,
                       !.answering = FALSE, !.media = FALSE]

\* A poll or an event shows the row: applySession.
Learn ==
  /\ page.open /\ page.know # row
  /\ LET p == [page EXCEPT !.know = row] IN
     IF row.state \in Negotiation THEN Ensured([p EXCEPT !.mediaRev = row.rev])
     ELSE /\ page' = IF row.state = "over" THEN Closed(p) ELSE p
          /\ UNCHANGED tasks
  /\ UNCHANGED <<row, bridge, hub, drops>>

\* The call ends; its guard is reset unless another call has it.
Finished(t, p) == [p EXCEPT !.flight = IF @ = t.for THEN 0 ELSE @]

\* The ticket is for the row as it is; the page compares it with what it knows
\* by then.
GetTicket(t) ==
  /\ t \in tasks /\ t.pc = "ticket"
  /\ row.state \in Negotiation /\ Negotiating /\ page.know.rev = row.rev
  /\ tasks' = (tasks \ {t}) \cup {[t EXCEPT !.pc = "send", !.ticket = row.rev]}
  /\ UNCHANGED <<row, bridge, page, hub, drops>>

\* Mutant of NoTicket: the guard stays, for this call and for all to come.
NoTicketKeepGuard(t) ==
  /\ t \in tasks /\ t.pc = "ticket"
  /\ tasks' = tasks \ {t}
  /\ UNCHANGED <<row, bridge, page, hub, drops>>

\* The request fails, or its ticket is not for what the page knows.
NoTicket(t) ==
  /\ t \in tasks /\ t.pc = "ticket"
  /\ tasks' = tasks \ {t} /\ page' = Finished(t, page)
  /\ UNCHANGED <<row, bridge, hub, drops>>

\* The hub gets a client_ready with a ticket of revision r.
HubReady(r) ==
  IF row.state \in Negotiation /\ row.rev = r
    THEN line' = r /\ toHost' = ToHost("ready", r) /\ UNCHANGED toPhone
    ELSE toPhone' = ToPhone("conflict", r) /\ UNCHANGED <<line, toHost>>

\* sendClientReady: handed to the network, or not; without a connection that has
\* joined it is kept for the moment of joining, when it is one of two.
SendReady(t) ==
  /\ t \in tasks /\ t.pc = "send"
  /\ tasks' = tasks \ {t}
  /\ \/ /\ page.joined
        /\ page' = [Finished(t, page) EXCEPT !.readyRev = t.ticket]
        /\ HubReady(t.ticket)
     \/ /\ ~page.joined
        /\ page' = Finished(t, page)
        /\ UNCHANGED <<line, toHost, toPhone>>
  /\ UNCHANGED <<row, bridge, hostLine, drops>>

\* The interval of startReadyRetry.
Retry ==
  /\ page.open /\ Negotiating /\ ~page.offer /\ page.flight = 0
  /\ Ensured([page EXCEPT !.readyRev = 0])
  /\ UNCHANGED <<row, bridge, hub, drops>>

\* The timer an error has started; one may be pending at any time.
RetryAfterError ==
  /\ page.open /\ Negotiating /\ page.readyRev = 0
  /\ Ensured(page)
  /\ UNCHANGED <<row, bridge, hub, drops>>

\* The phone's connection breaks; what was under way to it is lost.
Break ==
  /\ page.joined /\ drops < MaxDrops
  /\ drops' = drops + 1
  /\ page' = [page EXCEPT !.joined = FALSE, !.readyRev = 0]
  /\ line' = 0 /\ toPhone' = <<>>
  /\ row' = RowWithout(line)
  /\ toHost' = IF line # 0 /\ row.state # "over" THEN ToHost("left", row'.rev) ELSE toHost
  /\ UNCHANGED <<bridge, tasks, hostLine>>

Rejoin ==
  /\ page.open /\ ~page.joined
  /\ LET p == [page EXCEPT !.joined = TRUE] IN
     IF Negotiating THEN Ensured([p EXCEPT !.readyRev = 0]) ELSE page' = p /\ UNCHANGED tasks
  /\ UNCHANGED <<row, bridge, hub, drops>>

\* handleSignalEvent.
Receive ==
  /\ page.open /\ toPhone # <<>>
  /\ toPhone' = Tail(toPhone)
  /\ LET m == Head(toPhone) IN
     CASE m.type = "ready" ->
            IF ~page.offer /\ Negotiating /\ page.flight = 0
              THEN Ensured([page EXCEPT !.readyRev = 0]) ELSE UNCHANGED phone
       [] m.type = "conflict" ->
            IF ~Negotiating THEN UNCHANGED phone
            ELSE IF page.flight = 0 THEN Ensured([page EXCEPT !.readyRev = 0])
            ELSE page' = [page EXCEPT !.readyRev = 0] /\ UNCHANGED tasks
       [] m.type = "offer" /\ m.rev = page.mediaRev ->
            /\ page' = [page EXCEPT !.offer = TRUE, !.answering = TRUE, !.media = TRUE]
            /\ UNCHANGED tasks
       [] OTHER -> UNCHANGED phone
  /\ UNCHANGED <<row, bridge, hostLine, toHost, line, drops>>

\* The web view's answer; not authorized or not joined, it is lost.
Answer ==
  /\ page.answering
  /\ page' = [page EXCEPT !.answering = FALSE]
  /\ toHost' = IF page.joined /\ line = page.mediaRev /\ Valid(line)
                 THEN ToHost("answer", line) ELSE toHost
  /\ UNCHANGED <<row, bridge, tasks, hostLine, line, toPhone, drops>>

\* endCurrentSession: whether or not the request succeeds, the page forgets it.
Leave ==
  /\ page.open /\ page.know # NoRow
  /\ row' \in {row, IF row.state = "over" THEN row ELSE Moved("over")}
  /\ page' = [Closed(page) EXCEPT !.open = FALSE, !.know = NoRow]
  /\ tasks' = {} /\ toPhone' = <<>>
  /\ UNCHANGED <<bridge, hostLine, toHost, line, drops>>

-----------------------------------------------------------------------------
Bridge ==
  \/ Join \/ SayReady \/ Gate \/ SendOffer \/ Await \/ MarkConnected \/ OpenPipe
  \/ StreamEnds \/ EndSession

Phone == Learn \/ Retry \/ Rejoin \/ Receive \/ Answer

BridgeNext ==
  \/ Bridge \/ WriteClash \/ PipeBreaks \/ Kill
  \/ Watch \/ Read \/ Callback
  \/ \E s \in {"connecting", "connected", "disconnected", "failed"} : PeerChanges(s)
  \/ \E k \in Keys : Input(k)
  \/ Phone \/ RetryAfterError \/ Break \/ Leave
  \/ \E t \in tasks : GetTicket(t) \/ NoTicket(t) \/ SendReady(t)
  \/ Lapse \/ HostLeaves

BridgeSpec == BridgeInit /\ [][BridgeNext]_bridgeVars

-----------------------------------------------------------------------------
(* Safety.                                                                 *)

\* A bridge that ends by itself leaves no modifier and no mouse button pressed,
\* whatever arrived while the connection was breaking (OnConnectionStateChange,
\* releaseAllInput).
ModifiersLetGo == main = "exited" => held \cap Modifiers = {}

-----------------------------------------------------------------------------
(* Liveness.  Processes run on, timers fire, the hub's deadlines find what  *)
(* broke, a peer connection whose other side is gone is given up, and the   *)
(* phone's requests succeed now and then.  A page that is open polls, and   *)
(* so finds a session overdue; nobody else has to.  The time to negotiate   *)
(* is longer than a bridge waits at its gate.                              *)

PeerLost == \E s \in {"disconnected", "failed"} : PeerChanges(s)

Fairness ==
  /\ WF_bridgeVars(Bridge) /\ WF_bridgeVars(Watch) /\ WF_bridgeVars(Read) /\ WF_bridgeVars(Callback)
  /\ WF_bridgeVars(PeerLost /\ ~page.media)
  /\ WF_bridgeVars(Learn) /\ WF_bridgeVars(Retry) /\ WF_bridgeVars(Rejoin) /\ WF_bridgeVars(Receive) /\ WF_bridgeVars(Answer)
  /\ SF_bridgeVars(\E t \in tasks : GetTicket(t))
  /\ WF_bridgeVars(\E t \in tasks : GetTicket(t) \/ NoTicket(t) \/ SendReady(t))
  /\ WF_bridgeVars(Lapse /\ Polled /\ main # "gate")
  /\ WF_bridgeVars(HostLeaves /\ main \in Gone)

FairBridgeSpec == BridgeSpec /\ Fairness

\* A session and its bridge end together.  However a session ends, and whether or
\* not a page that leaves gets its end request through, no bridge streams on.  And
\* a bridge that is gone, killed or with its own request lost, leaves no session
\* behind a page that stays, as long as the hub has yet to find its connection
\* broken: a connected session is to be negotiated again then, and the page's polls
\* find that overdue.  (Without the page nobody reads the session any more, and it
\* stays as it is; so does one whose bridge was found broken before markConnected.)
EndTogether ==
  LET ended == row.state = "over" \/ ~page.open
      gone  == main \in Gone
  IN  ended \/ (gone /\ hostLine = "ready") ~> ended /\ gone

\* A phone that stays on its page and joined opens the gate: no client_ready is
\* lost for good, in whatever order the two join, learn of the session and speak.
GateOpens == []<>(main # "gate")

-----------------------------------------------------------------------------
(* A statement of the source that the code does not keep.                  *)

\* main.go:331 "Release all pressed keys/buttons when the connection drops to
\* prevent stuck inputs (e.g. user holding a key when network fails)".
AllKeysLetGo == main = "exited" => held = {}
-----------------------------------------------------------------------------
(* The inductive invariant of the proofs.                                  *)

\* The revision tells how far the session is.
OnCourse ==
  \/ row = [state |-> "negotiating", rev |-> 1]
  \/ row = [state |-> "connected", rev |-> 2]
  \/ row = [state |-> "reconnecting", rev |-> 3]
  \/ row = [state |-> "over", rev |-> 4]

\* A client_ready is sent with a ticket.
Ticketed == \A t \in tasks : t.pc = "send" => t.ticket \in Revs

\* The peer connection is closed when run() returns and no sooner, and its last
\* callback is the one that tells of it.
LettingGo ==
  /\ main \in Running => peer # "closed"
  /\ main = "post" =>
       /\ peer = "closed"
       /\ callbacks # <<>> => callbacks[Len(callbacks)] = "closed"
       /\ callbacks = <<>> => held \cap Modifiers = {}
  /\ main = "exited" => held \cap Modifiers = {}

BridgeInv == BridgeTypeOK /\ OnCourse /\ Ticketed /\ LettingGo
=============================================================================
