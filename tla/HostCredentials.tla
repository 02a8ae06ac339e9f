--------------------------- MODULE HostCredentials ----------------------------
(***************************************************************************)
(* The credential of a Windows host: how the server issues, checks and      *)
(* revokes it (remote/service.go, remote/repository.go, remoteHostAuth of   *)
(* api/auth.go) and how the agent gets one, keeps it on file and drops it   *)
(* (agent/remote_host_manager.py).                                          *)
(*                                                                         *)
(* The agent's loop and a thread that handles a consent share the token and *)
(* the file.  A request the agent stopped waiting for is a stray: the       *)
(* server may handle it at any later time.  Each access of the database is  *)
(* a step; remote_hosts.revoked_at is never set and is left out, and so is  *)
(* what a heartbeat does to sessions (RemoteSession).                       *)
(*                                                                         *)
(* Time passes in periods of 30 s, the interval of heartbeats, and only once *)
(* the agent's loop has done what is due: its requests end within 10 s.     *)
(***************************************************************************)
EXTENDS Integers, FiniteSets

CONSTANTS
  MaxFaults,  (* bound: revocations, expiries, restarts, errors, timeouts    *)
  MaxCalls,   (* bound: requests of the consent thread                       *)
  MaxTokens   (* bound: tokens issued                                        *)

ASSUME CredentialParametersOK == MaxFaults \in Nat /\ MaxCalls \in Nat /\ MaxTokens \in Nat

VARIABLES
  cred,     (* the row of remote_host_credentials                            *)
  host,     (* the row of remote_hosts: online, and for how many periods of  *)
            (* 30 s it has not been seen                                     *)
  mu,       (* credentialMu: the request that has it                         *)
  tokens,   (* tokens generated so far, numbered from 1                      *)
  requests, (* the request under way for each thread, a stray, another agent *)
  threads,  (* what the loop and the consent thread do                       *)
  token,    (* host_token, 0 for none                                        *)
  file,     (* the token in the identity file, 0 for none                    *)
  temp,     (* the token in its .tmp, if that exists                         *)
  due,      (* 30 s have passed since last_register_at                       *)
  failed,   (* _credential_storage_failed                                    *)
  calls, faults

server == <<cred, host, mu, tokens>>
agent  == <<threads, token, file, temp, due, failed>>
vars   == <<server, requests, agent, calls, faults>>

Threads == {"main", "consent"}
Senders == Threads \cup {"stray", "other"}
Tokens  == 0..MaxTokens
None    == [pc |-> "none"]
Absent  == -1
Stale   == 3   (* periods after which a host is not shown as online: 90 s    *)

HostRow    == [online : BOOLEAN, unseen : 0..Stale]
Credential == [token : Tokens, revoked : BOOLEAN, aged : BOOLEAN]
Guarded    == [op : {"beat", "poll", "call"}, token : Tokens, pc : {"hash", "age", "read", "write"}]
Registering == [op : {"register"}, rotate : BOOLEAN, pc : {"upsert", "lock", "set"}]
Saving     == [pc : {"write", "replace"}, token : Tokens, op : {"register", "beat", "poll", "call"}]

TypeOK ==
  /\ cred \in {None} \cup Credential
  /\ host \in HostRow
  /\ mu \in Senders \cup {"free"} /\ tokens \in Tokens
  /\ requests \in [Senders -> {None} \cup Guarded \cup Registering]
  /\ threads \in [Threads -> {None, [pc |-> "wait"]} \cup Saving]
  /\ \A t \in Threads : threads[t].pc = "wait" <=> requests[t] # None
  /\ token \in 0..tokens /\ file \in 0..tokens /\ temp \in {Absent} \cup 0..tokens
  /\ due \in BOOLEAN /\ failed \in BOOLEAN
  /\ calls \in 0..MaxCalls /\ faults \in 0..MaxFaults

Init ==
  /\ cred = None /\ host = [online |-> FALSE, unseen |-> Stale]
  /\ mu = "free" /\ tokens = 0
  /\ requests = [s \in Senders |-> None] /\ threads = [t \in Threads |-> None]
  /\ token = 0 /\ file = 0 /\ temp = Absent /\ due = TRUE /\ failed = FALSE
  /\ calls = 0 /\ faults = 0

Fault == faults < MaxFaults /\ faults' = faults + 1 /\ UNCHANGED calls
-----------------------------------------------------------------------------
(* The agent.                                                              *)

Send(t, request) ==
  /\ threads[t] = None
  /\ threads' = [threads EXCEPT ![t] = [pc |-> "wait"]]
  /\ requests' = [requests EXCEPT ![t] = request]
  /\ UNCHANGED <<server, token, file, temp, due, failed, faults>>

\* tick: every 30 s a heartbeat, or a registration for want of a token.
Register ==
  /\ ~failed /\ due /\ token = 0
  /\ Send("main", [op |-> "register", rotate |-> TRUE, pc |-> "upsert"]) /\ UNCHANGED calls

Heartbeat ==
  /\ ~failed /\ due /\ token # 0
  /\ Send("main", [op |-> "beat", token |-> token, pc |-> "hash"]) /\ UNCHANGED calls

PollPending ==
  /\ ~failed /\ ~due /\ token # 0
  /\ Send("main", [op |-> "poll", token |-> token, pc |-> "hash"]) /\ UNCHANGED calls

\* _handle_consent: accept, reject or end, in a thread of its own.
Call ==
  /\ token # 0 /\ calls < MaxCalls /\ calls' = calls + 1
  /\ Send("consent", [op |-> "call", token |-> token, pc |-> "hash"])

\* tick sets last_register_at once the heartbeat or the registration is over,
\* whatever the invalidation of the token has set it to.
DueAfter(op) == IF op \in {"register", "beat"} THEN FALSE ELSE due

\* The answer to s, if anybody still waits for it: the thread goes on with next.
Answered(s, next, due_) ==
  /\ requests' = [requests EXCEPT ![s] = None]
  /\ IF s \in Threads THEN threads' = [threads EXCEPT ![s] = next] /\ due' = due_
                      ELSE UNCHANGED <<threads, due>>

Ok(s) == Answered(s, None, DueAfter(requests[s].op)) /\ UNCHANGED <<token, file, temp, failed>>

\* Mutant of Unauthorized: the token is kept.
UnauthorizedKeep(s) == Ok(s)

\* _host_request: a 401 drops the token, in memory and then on file.
Unauthorized(s) ==
  /\ Answered(s, [pc |-> "write", token |-> 0, op |-> requests[s].op], TRUE)
  /\ token' = IF s \in Threads THEN 0 ELSE token
  /\ UNCHANGED <<file, temp, failed>>

\* _register: the new token is put on file.
Registered(s, k) ==
  /\ Answered(s, IF k = 0 THEN None ELSE [pc |-> "write", token |-> k, op |-> "register"],
              IF k = 0 THEN FALSE ELSE due)
  /\ UNCHANGED <<token, file, temp, failed>>

\* The end of a save: the token counts once it is on file; a registration whose
\* token is not leaves none.
Saved(t, ok) ==
  /\ threads' = [threads EXCEPT ![t] = None]
  /\ due' = DueAfter(threads[t].op)
  /\ failed' = (failed \/ ~ok)
  /\ token' = IF threads[t].op # "register" THEN token
              ELSE IF ok THEN threads[t].token ELSE 0

\* _save_identity: write the temporary file, whose name both threads use, ...
Write(t) ==
  /\ threads[t].pc = "write"
  /\ temp' = threads[t].token
  /\ threads' = [threads EXCEPT ![t].pc = "replace"]
  /\ UNCHANGED <<server, requests, token, file, due, failed, calls, faults>>

\* ... and rename it, which fails if the other thread has.
Replace(t) ==
  /\ threads[t].pc = "replace"
  /\ file' = IF temp = Absent THEN file ELSE temp
  /\ temp' = Absent
  /\ Saved(t, temp # Absent)
  /\ UNCHANGED <<server, requests, calls, faults>>

\* No protection of the secret, or no way to write it.
StorageError(t) ==
  /\ threads[t].pc = "write" /\ Fault
  /\ Saved(t, FALSE)
  /\ UNCHANGED <<server, requests, file, temp>>

\* Thirty seconds pass.
Period ==
  /\ threads["main"] = None
  /\ due' = TRUE
  /\ host' = [host EXCEPT !.unseen = IF @ < Stale THEN @ + 1 ELSE @]
  /\ UNCHANGED <<cred, mu, tokens, requests, threads, token, file, temp, failed>>

\* The loop has nothing to do meanwhile, or no longer does anything.
Elapse == (~due \/ failed) /\ Period /\ UNCHANGED <<calls, faults>>

\* The native host does not answer (_ensure_service): no heartbeat this time.
Miss == due /\ ~failed /\ Fault /\ Period

\* The time-out of a request, which may stay under way.
GiveUp(t) ==
  /\ threads[t].pc = "wait" /\ requests["stray"] = None /\ mu # t /\ Fault
  /\ \/ requests' = [requests EXCEPT ![t] = None, !["stray"] = requests[t]]
     \/ requests' = [requests EXCEPT ![t] = None]
  /\ threads' = [threads EXCEPT ![t] = None]
  /\ due' = DueAfter(requests[t].op)
  /\ UNCHANGED <<server, token, file, temp, failed>>

\* The agent starts anew with the token on file; its requests die.
RestartAgent ==
  /\ mu \notin Threads /\ Fault
  /\ requests' = [s \in Senders |-> IF s \in Threads THEN None ELSE requests[s]]
  /\ threads' = [t \in Threads |-> None]
  /\ token' = file /\ due' = TRUE /\ failed' = FALSE
  /\ UNCHANGED <<server, file, temp>>

-----------------------------------------------------------------------------
(* The server: registration.                                               *)

\* A registration that does not ask for a rotation.
RegisterOther ==
  /\ requests["other"] = None
  /\ requests' = [requests EXCEPT !["other"] =
                    [op |-> "register", rotate |-> FALSE, pc |-> "upsert"]]
  /\ UNCHANGED <<server, agent, calls, faults>>

Seen == host' = [online |-> TRUE, unseen |-> 0]

RegisterHost(s) ==
  /\ requests[s].pc = "upsert"
  /\ Seen
  /\ requests' = [requests EXCEPT ![s].pc = "lock"]
  /\ UNCHANGED <<cred, mu, tokens, agent, calls, faults>>

\* Mutant of CheckCredential: without the mutex.
CheckCredentialUnlocked(s) ==
  /\ requests[s].pc = "lock"
  /\ IF cred = None \/ requests[s].rotate
     THEN requests' = [requests EXCEPT ![s].pc = "set"] /\ UNCHANGED agent
     ELSE Registered(s, 0)
  /\ UNCHANGED <<server, calls, faults>>

\* RegisterHostCredential: is there one?
CheckCredential(s) ==
  /\ requests[s].pc = "lock" /\ mu = "free"
  /\ IF cred = None \/ requests[s].rotate
     THEN mu' = s /\ requests' = [requests EXCEPT ![s].pc = "set"] /\ UNCHANGED agent
     ELSE UNCHANGED mu /\ Registered(s, 0)
  /\ UNCHANGED <<cred, host, tokens, calls, faults>>

\* A new token in place of whatever there is, revoked or not.
SetHostCredential(s) ==
  /\ requests[s].pc = "set" /\ tokens < MaxTokens
  /\ tokens' = tokens + 1
  /\ cred' = [token |-> tokens + 1, revoked |-> FALSE, aged |-> FALSE]
  /\ mu' = "free"
  /\ Registered(s, tokens + 1)
  /\ UNCHANGED <<host, calls, faults>>

-----------------------------------------------------------------------------
(* The server: requests with a token.                                      *)

Reject(s) == Unauthorized(s)

Advance(s, pc) == requests' = [requests EXCEPT ![s].pc = pc] /\ UNCHANGED agent

\* Mutant of AuthenticateHost: revoked or not.
AuthenticateHostRevoked(s) ==
  /\ \/ /\ requests[s].pc = "hash"
        /\ IF cred # None /\ cred.token = requests[s].token
           THEN Advance(s, "age") ELSE Reject(s)
     \/ /\ requests[s].pc = "age"
        /\ IF cred.aged THEN Reject(s)
           ELSE IF requests[s].op = "beat" THEN Advance(s, "read") ELSE Ok(s)
  /\ UNCHANGED <<server, calls, faults>>

\* AuthenticateHost reads the hash and, later, the age of what is stored by then.
AuthenticateHost(s) ==
  /\ \/ /\ requests[s].pc = "hash"
        /\ IF cred # None /\ ~cred.revoked /\ cred.token = requests[s].token
           THEN Advance(s, "age") ELSE Reject(s)
     \/ /\ requests[s].pc = "age"
        /\ IF cred.aged THEN Reject(s)
           ELSE IF requests[s].op = "beat" THEN Advance(s, "read") ELSE Ok(s)
  /\ UNCHANGED <<server, calls, faults>>

\* HeartbeatHostWithCapabilities reads the row ...
ReadHost(s) ==
  /\ requests[s].pc = "read"
  /\ Advance(s, "write")
  /\ UNCHANGED <<server, calls, faults>>

\* ... and writes it back, online.
UpsertHost(s) ==
  /\ requests[s].pc = "write"
  /\ Seen
  /\ Ok(s)
  /\ UNCHANGED <<cred, mu, tokens, calls, faults>>

RevokeHostCredential ==
  /\ cred # None /\ ~cred.revoked /\ Fault
  /\ cred' = [cred EXCEPT !.revoked = TRUE]
  /\ host' = [host EXCEPT !.online = FALSE]
  /\ UNCHANGED <<mu, tokens, requests, agent>>

\* credentialMaxAge has passed.
Age ==
  /\ cred # None /\ ~cred.aged /\ Fault
  /\ cred' = [cred EXCEPT !.aged = TRUE]
  /\ UNCHANGED <<host, mu, tokens, requests, agent>>

\* The server starts anew: what it has in its hands is answered by an error.
RestartServer ==
  /\ Fault
  /\ mu' = "free"
  /\ requests' = [s \in Senders |-> None]
  /\ threads' = [t \in Threads |-> IF threads[t].pc = "wait" THEN None ELSE threads[t]]
  /\ due' = IF requests["main"] # None THEN DueAfter(requests["main"].op) ELSE due
  /\ UNCHANGED <<cred, host, tokens, token, file, temp, failed>>

\* What ListHosts and GetHost show.
ShownOnline == host.online /\ host.unseen < Stale

-----------------------------------------------------------------------------
Serve(s) ==
  \/ RegisterHost(s) \/ CheckCredential(s) \/ SetHostCredential(s)
  \/ AuthenticateHost(s) \/ ReadHost(s) \/ UpsertHost(s)

Tick    == Register \/ Heartbeat \/ PollPending
Save(t) == Write(t) \/ Replace(t)

Next ==
  \/ Tick \/ Call \/ Elapse \/ Miss \/ RestartAgent
  \/ \E t \in Threads : Save(t) \/ StorageError(t) \/ GiveUp(t)
  \/ \E s \in Senders : Serve(s)
  \/ RegisterOther \/ RevokeHostCredential \/ Age \/ RestartServer

Spec == Init /\ [][Next]_vars

\* The threads and the server's handlers run on, and time passes.
FairSpec ==
  /\ Spec
  /\ WF_vars(Tick) /\ WF_vars(Elapse)
  /\ \A t \in Threads : WF_vars(Save(t))
  /\ \A s \in Senders : SF_vars(CheckCredential(s)) /\ WF_vars(Serve(s))

-----------------------------------------------------------------------------
\* "Re-registering an existing host never reveals or silently replaces it"
\* (RegisterHostCredential): not even one that is being registered just now.
NeverSilentlyReplaced ==
  [][cred # None /\ cred'.token # cred.token =>
       \E s \in Senders : requests[s] # None /\ requests[s].op = "register"
                          /\ requests[s].rotate /\ requests'[s] # requests[s]]_vars

\* No token is stored, saved or read back before it was issued.
Issued ==
  /\ cred # None => cred.token \in 1..tokens
  /\ \A t \in Threads : threads[t].pc \in {"write", "replace"} => threads[t].token \in 0..tokens

\* Who is about to store a credential has the mutex; it replaces one only if it
\* asked for that.
Held ==
  \A s \in Senders :
    requests[s].pc = "set" => mu = s /\ (requests[s].rotate \/ cred = None)

IInv == TypeOK /\ Issued /\ Held

Works == cred # None /\ token = cred.token /\ ~cred.revoked /\ ~cred.aged

\* Whatever becomes of its requests and its token, the agent has one that works
\* again, unless it failed to put one on file (tick, _host_request, _register).
HostComesBack == []<>(failed \/ Works)

Revoked == cred # None /\ cred.revoked

\* A host whose credential is revoked is not shown as online for good, though a
\* heartbeat authenticated before may set it online again after the revocation
\* (UpsertHost): its later ones are refused, and 90 s after the last it fades.  That
\* is so until the agent's registration stores a new credential, and as long as no
\* other agent registers the host, which sets it online, too.
RevokedFades == Revoked ~> (~ShownOnline \/ ~Revoked \/ requests["other"] # None)
=============================================================================
