-------------------------- MODULE RemoteLifecycle --------------------------
(***************************************************************************)
(* What the backend promises about a remote desktop session, without       *)
(* revisions, requests in flight, timeouts or heartbeats.                  *)
(*                                                                         *)
(* stage:    where the session is. "absent" before it is requested,        *)
(*           "waiting" until the Windows host consents, "live" from the    *)
(*           host's consent on, "over" once it has ended or failed.        *)
(* approved: whether the primary phone stands behind the request.          *)
(* asked:    the capabilities the controller asked for.                    *)
(* granted:  the capabilities the host granted.                            *)
(*                                                                         *)
(* RemoteSession implements this specification.                            *)
(***************************************************************************)
CONSTANTS
  Sessions,   (* session identifiers *)
  CapSets     (* the capability lists a controller may ask for, as sets *)

VARIABLES stage, approved, asked, granted

vars == <<stage, approved, asked, granted>>

Init ==
  /\ stage    = [s \in Sessions |-> "absent"]
  /\ approved = [s \in Sessions |-> FALSE]
  /\ asked    = [s \in Sessions |-> {}]
  /\ granted  = [s \in Sessions |-> {}]

\* A controller asks; the request of the primary phone needs no approval.
Ask(s) ==
  /\ stage[s] = "absent"
  /\ stage' = [stage EXCEPT ![s] = "waiting"]
  /\ \E primary \in BOOLEAN : approved' = [approved EXCEPT ![s] = primary]
  /\ \E caps \in CapSets : asked' = [asked EXCEPT ![s] = caps]
  /\ UNCHANGED granted

Approve(s) ==
  /\ stage[s] = "waiting"
  /\ ~approved[s]
  /\ approved' = [approved EXCEPT ![s] = TRUE]
  /\ UNCHANGED <<stage, asked, granted>>

\* The host's consent is the only way to a live session, it needs the primary
\* phone's approval, and it grants exactly what was asked.
Consent(s) ==
  /\ stage[s] = "waiting"
  /\ approved[s]
  /\ stage' = [stage EXCEPT ![s] = "live"]
  /\ granted' = [granted EXCEPT ![s] = asked[s]]
  /\ UNCHANGED <<approved, asked>>

\* Rejected, timed out or ended by either side; nothing leaves "over".
Close(s) ==
  /\ stage[s] \in {"waiting", "live"}
  /\ stage' = [stage EXCEPT ![s] = "over"]
  /\ UNCHANGED <<approved, asked, granted>>

Next == \E s \in Sessions : Ask(s) \/ Approve(s) \/ Consent(s) \/ Close(s)

Spec == Init /\ [][Next]_vars
=============================================================================
