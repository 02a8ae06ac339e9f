---------------------------- MODULE Host_proofs ------------------------------
(***************************************************************************)
(* What the provers establish of the Windows host.                         *)
(*                                                                         *)
(* HostCredentials, for any number of faults, requests of the consent      *)
(* thread and tokens: its inductive invariant says that no token is known  *)
(* before it is issued (Issued) and that whoever is about to store a       *)
(* credential has the mutex and either asked for a rotation or replaces    *)
(* none (Held).                                                            *)
(*                                                                         *)
(* RemoteBridge, for any keys, capacities and number of broken connections: *)
(* its inductive invariant says how far the session is at each revision    *)
(* (OnCourse), that a client_ready is sent with a ticket (Ticketed), and    *)
(* that the bridge's connection is closed when run() returns and no sooner, *)
(* its last callback being the one that lets the modifiers go (LettingGo).  *)
(***************************************************************************)
EXTENDS HostCredentials, RemoteBridge, SequenceTheorems, TLAPS

Kinds == {None} \cup Guarded \cup Registering
Busy  == {None, [pc |-> "wait"]} \cup Saving

-----------------------------------------------------------------------------
(* What a request and a thread may be.                                     *)

LEMMA RequestKinds ==
  ASSUME NEW r \in Kinds
  PROVE  /\ r.pc \in {"upsert", "lock", "set"} <=> r \in Registering
         /\ r.pc \in {"hash", "age", "read", "write"} <=> r \in Guarded
         /\ r.pc = "none" <=> r = None
         /\ r # None => r.op \in {"register", "beat", "poll", "call"}
<1> USE DEF Kinds, None, Guarded, Registering
<1>1. CASE r = None
  BY <1>1
<1>2. CASE r \in Guarded
  BY <1>2
<1>3. CASE r \in Registering
  BY <1>3
<1> QED BY <1>1, <1>2, <1>3

LEMMA ThreadKinds ==
  ASSUME NEW x \in Busy
  PROVE  /\ x.pc \in {"write", "replace"} <=> x \in Saving
         /\ x.pc = "none" <=> x = None
         /\ x.pc = "wait" <=> x = [pc |-> "wait"]
<1> USE DEF Busy, None, Saving
<1>1. CASE x \in {None, [pc |-> "wait"]}
  BY <1>1
<1>2. CASE x \in Saving
  BY <1>2
<1> QED BY <1>1, <1>2

LEMMA NextPc ==
  ASSUME NEW r \in Kinds, NEW pc
  PROVE  /\ r \in Registering /\ pc \in {"upsert", "lock", "set"}
              => /\ [r EXCEPT !.pc = pc] \in Registering
                 /\ [r EXCEPT !.pc = pc].rotate = r.rotate
         /\ r \in Guarded /\ pc \in {"hash", "age", "read", "write"}
              => /\ [r EXCEPT !.pc = pc] \in Guarded
                 /\ [r EXCEPT !.pc = pc].token = r.token
BY DEF Registering, Guarded

-----------------------------------------------------------------------------
(* How the agent's side changes.                                           *)

\* What of the invariant is about requests and threads.
Slots ==
  /\ requests \in [Senders -> Kinds]
  /\ threads \in [Threads -> Busy]
  /\ \A t \in Threads : threads[t].pc = "wait" <=> requests[t] # None

\* An answer ends the request and leaves its thread with next.
LEMMA AnsweredSlots ==
  ASSUME Slots, NEW s \in Senders, NEW next \in Busy, next.pc # "wait", NEW due_,
         Answered(s, next, due_)
  PROVE  /\ Slots'
         /\ \A x \in Senders : requests'[x] = None \/ requests'[x] = requests[x]
         /\ requests'[s] = None
         /\ \A t \in Threads : threads'[t] \in {threads[t], next}
         /\ due' \in {due, due_}
<1> USE DEF Slots
<1>1. Threads \subseteq Senders /\ None \in Kinds
  BY DEF Threads, Senders, Kinds
<1>2. requests' = [requests EXCEPT ![s] = None]
  BY DEF Answered
<1>3. /\ requests' \in [Senders -> Kinds]
      /\ requests'[s] = None
      /\ \A x \in Senders : x # s => requests'[x] = requests[x]
  BY <1>1, <1>2
<1>4. CASE s \in Threads
  <2>1. threads' = [threads EXCEPT ![s] = next] /\ due' = due_
    BY <1>4 DEF Answered
  <2> QED BY <1>1, <1>3, <1>4, <2>1
<1>5. CASE s \notin Threads
  <2>1. threads' = threads /\ due' = due
    BY <1>5 DEF Answered
  <2>2. \A t \in Threads : requests'[t] = requests[t]
    BY <1>1, <1>3, <1>5
  <2> QED BY <1>3, <2>1, <2>2
<1> QED BY <1>4, <1>5

\* A request that moves on stays one of its kind and of its thread.
LEMMA AdvancedSlots ==
  ASSUME Slots, NEW s \in Senders, NEW r \in Kinds, r # None, requests[s] # None,
         requests' = [requests EXCEPT ![s] = r], threads' = threads
  PROVE  /\ Slots'
         /\ requests'[s] = r
         /\ \A x \in Senders : x # s => requests'[x] = requests[x]
<1> USE DEF Slots
<1>1. /\ requests' \in [Senders -> Kinds] /\ requests'[s] = r
      /\ \A x \in Senders : x # s => requests'[x] = requests[x]
  OBVIOUS
<1>2. \A t \in Threads : requests'[t] # None <=> requests[t] # None
  BY <1>1 DEF Threads, Senders
<1> QED BY <1>1, <1>2

LEMMA TypedSlots == TypeOK => Slots
BY DEF TypeOK, Slots, Kinds, Busy

-----------------------------------------------------------------------------
(* The agent's steps.                                                      *)

LEMMA InitIInv == Init => IInv
<1> SUFFICES ASSUME Init PROVE IInv
  OBVIOUS
<1> USE DEF Init
<1>0. None.pc = "none" /\ MaxCalls \in Nat /\ MaxFaults \in Nat /\ MaxTokens \in Nat
  BY CredentialParametersOK DEF None
<1>1. /\ requests \in [Senders -> {None} \cup Guarded \cup Registering]
      /\ threads \in [Threads -> {None, [pc |-> "wait"]} \cup Saving]
      /\ \A t \in Threads : threads[t].pc = "wait" <=> requests[t] # None
  <2>1. requests = [x \in Senders |-> None] /\ threads = [t \in Threads |-> None]
    OBVIOUS
  <2>2. /\ requests \in [Senders -> {None} \cup Guarded \cup Registering]
        /\ threads \in [Threads -> {None, [pc |-> "wait"]} \cup Saving]
    BY <2>1
  <2>3. \A t \in Threads : t \in Senders /\ threads[t].pc = "none" /\ requests[t] = None
    BY <1>0, <2>1 DEF Senders
  <2> QED BY <2>2, <2>3
<1>4. /\ cred = None /\ host \in HostRow
      /\ mu \in Senders \cup {"free"} /\ tokens \in Tokens
  BY <1>0 DEF Tokens, HostRow, Stale
<1>5. /\ token \in 0..tokens /\ file \in 0..tokens /\ temp \in {Absent} \cup 0..tokens
      /\ calls \in 0..MaxCalls /\ faults \in 0..MaxFaults
  BY <1>0
<1>6. due \in BOOLEAN /\ failed \in BOOLEAN
  OBVIOUS
<1> HIDE DEF Init
<1>3. TypeOK
  BY <1>1, <1>4, <1>5, <1>6 DEF TypeOK
<1> USE DEF Init
<1>2. Issued /\ Held
  BY <1>0 DEF Issued, Held
<1> QED BY <1>2, <1>3 DEF IInv

\* Sending fills the slot of an idle thread.
LEMMA SendKeeps ==
  ASSUME IInv, NEW t \in Threads, NEW r \in Kinds, r.pc \notin {"none", "set"}, Send(t, r),
         calls' \in 0..MaxCalls
  PROVE  IInv'
<1> USE DEF Send, server
<1>1. Slots
  BY TypedSlots DEF IInv
<1>2. t \in Senders /\ r # None /\ [pc |-> "wait"] \in Busy
  BY DEF Threads, Senders, Busy, None
<1>3. /\ requests' \in [Senders -> Kinds] /\ requests'[t] = r
      /\ \A x \in Senders : x # t => requests'[x] = requests[x]
  BY <1>1, <1>2 DEF Slots
<1>4. /\ threads' \in [Threads -> Busy] /\ threads'[t].pc = "wait"
      /\ \A x \in Threads : x # t => threads'[x] = threads[x]
  BY <1>1, <1>2 DEF Slots
<1>5. \A x \in Threads : threads'[x].pc = "wait" <=> requests'[x] # None
  BY <1>1, <1>2, <1>3, <1>4 DEF Slots, Threads, Senders
<1>6. TypeOK'
  BY <1>3, <1>4, <1>5 DEF IInv, TypeOK, Kinds, Busy
<1>7. Issued'
  BY <1>4 DEF IInv, Issued
<1>8. Held'
  BY <1>3 DEF IInv, Held
<1> QED BY <1>6, <1>7, <1>8 DEF IInv

LEMMA TickKeeps ==
  ASSUME IInv, Tick \/ Call
  PROVE  IInv'
<1>1. calls \in 0..MaxCalls /\ MaxCalls \in Nat /\ token \in Tokens
  BY CredentialParametersOK DEF IInv, TypeOK, Tokens
<1>2. {"main", "consent"} \subseteq Threads
  BY DEF Threads
<1>3. CASE Register
  <2> DEFINE r == [op |-> "register", rotate |-> TRUE, pc |-> "upsert"]
  <2>1. r \in Kinds /\ r.pc = "upsert"
    BY DEF Kinds, Registering
  <2>2. Send("main", r) /\ calls' = calls
    BY <1>3 DEF Register
  <2> QED BY <1>1, <1>2, <2>1, <2>2, SendKeeps
<1>4. CASE Heartbeat
  <2> DEFINE r == [op |-> "beat", token |-> token, pc |-> "hash"]
  <2>1. r \in Kinds /\ r.pc = "hash"
    BY <1>1 DEF Kinds, Guarded
  <2>2. Send("main", r) /\ calls' = calls
    BY <1>4 DEF Heartbeat
  <2> QED BY <1>1, <1>2, <2>1, <2>2, SendKeeps
<1>5. CASE PollPending
  <2> DEFINE r == [op |-> "poll", token |-> token, pc |-> "hash"]
  <2>1. r \in Kinds /\ r.pc = "hash"
    BY <1>1 DEF Kinds, Guarded
  <2>2. Send("main", r) /\ calls' = calls
    BY <1>5 DEF PollPending
  <2> QED BY <1>1, <1>2, <2>1, <2>2, SendKeeps
<1>6. CASE Call
  <2> DEFINE r == [op |-> "call", token |-> token, pc |-> "hash"]
  <2>1. r \in Kinds /\ r.pc = "hash"
    BY <1>1 DEF Kinds, Guarded
  <2>2. Send("consent", r) /\ calls' \in 0..MaxCalls
    BY <1>1, <1>6 DEF Call
  <2> QED BY <1>2, <2>1, <2>2, SendKeeps
<1> QED BY <1>3, <1>4, <1>5, <1>6 DEF Tick

\* What is left of the invariant when the slots and Held are as they should be.
LEMMA Together ==
  ASSUME Slots', Held',
         (cred \in {None} \cup Credential)', (host \in HostRow)',
         (mu \in Senders \cup {"free"})', (tokens \in Tokens)',
         (token \in 0..tokens)', (file \in 0..tokens)',
         (temp \in {Absent} \cup 0..tokens)', (due \in BOOLEAN)', (failed \in BOOLEAN)',
         (calls \in 0..MaxCalls)', (faults \in 0..MaxFaults)', Issued'
  PROVE  IInv'
BY DEF IInv, TypeOK, Slots, Kinds, Busy

LEMMA DueTyped ==
  ASSUME due \in BOOLEAN, NEW op
  PROVE  DueAfter(op) \in BOOLEAN
BY DEF DueAfter

\* Only a thread's own state changes, to one that does not wait either.
LEMMA ThreadMoves ==
  ASSUME Slots, NEW t \in Threads, threads[t].pc # "wait", NEW next \in Busy, next.pc # "wait",
         threads' = [threads EXCEPT ![t] = next], requests' = requests
  PROVE  /\ Slots'
         /\ threads'[t] = next
         /\ \A x \in Threads : x # t => threads'[x] = threads[x]
BY DEF Slots

LEMMA SaveKeeps ==
  ASSUME IInv, NEW t \in Threads, Save(t) \/ StorageError(t)
  PROVE  IInv'
<1> USE DEF server
<1>1. Slots /\ threads[t] \in Busy /\ None \in Busy /\ None.pc = "none"
  BY TypedSlots DEF IInv, Slots, Busy, None
<1>2. /\ faults \in 0..MaxFaults /\ MaxFaults \in Nat /\ MaxTokens \in Nat
      /\ tokens \in Nat /\ tokens <= MaxTokens
  BY CredentialParametersOK DEF IInv, TypeOK, Tokens
<1>3. threads[t].pc \in {"write", "replace"}
  BY DEF Save, Write, Replace, StorageError
<1>4. threads[t] \in Saving /\ threads[t].token \in 0..tokens
  BY <1>1, <1>3, ThreadKinds DEF IInv, Issued
<1>5. CASE Write(t)
  <2> DEFINE next == [threads[t] EXCEPT !.pc = "replace"]
  <2>1. next \in Busy /\ next.pc = "replace" /\ next.token = threads[t].token
    BY <1>4 DEF Saving, Busy
  <2>2. threads' = [threads EXCEPT ![t] = next]
    BY <1>1, <1>5 DEF Write, Slots
  <2> HIDE DEF next
  <2>3. requests' = requests
    BY <1>5 DEF Write
  <2>4. /\ Slots' /\ threads'[t] = next
        /\ \A x \in Threads : x # t => threads'[x] = threads[x]
    BY <1>1, <1>3, <2>1, <2>2, <2>3, ThreadMoves
  <2>5. Issued'
    BY <1>4, <1>5, <2>1, <2>4 DEF IInv, Issued, Write
  <2>6. Held'
    BY <1>5 DEF IInv, Held, Write
  <2> QED BY <1>4, <1>5, <2>4, <2>5, <2>6, Together DEF IInv, TypeOK, Write
<1>6. ASSUME NEW ok \in BOOLEAN, Saved(t, ok), UNCHANGED <<server, requests, calls>>,
             faults' \in 0..MaxFaults, file' \in 0..tokens, temp' \in {Absent} \cup 0..tokens
      PROVE  IInv'
  <2>1. threads' = [threads EXCEPT ![t] = None] /\ requests' = requests
    BY <1>6 DEF Saved
  <2>2. /\ Slots' /\ threads'[t] = None
        /\ \A x \in Threads : x # t => threads'[x] = threads[x]
    BY <1>1, <1>3, <2>1, ThreadMoves
  <2>3. due' \in BOOLEAN /\ failed' \in BOOLEAN
    BY <1>6, DueTyped DEF Saved, IInv, TypeOK
  <2>4. token' \in 0..tokens
    BY <1>2, <1>4, <1>6 DEF Saved, IInv, TypeOK
  <2>5. Issued'
    BY <1>1, <1>6, <2>2 DEF IInv, Issued
  <2>6. Held'
    BY <1>6 DEF IInv, Held
  <2> QED BY <1>6, <2>2, <2>3, <2>4, <2>5, <2>6, Together DEF IInv, TypeOK
<1>7. CASE Replace(t)
  <2>1. file' \in 0..tokens /\ temp' \in {Absent} \cup 0..tokens
    BY <1>7 DEF IInv, TypeOK, Replace
  <2> QED BY <1>2, <1>6, <1>7, <2>1 DEF Replace
<1>8. CASE StorageError(t)
  <2>1. file' \in 0..tokens /\ temp' \in {Absent} \cup 0..tokens /\ faults' \in 0..MaxFaults
    BY <1>2, <1>8 DEF IInv, TypeOK, StorageError, Fault
  <2> QED BY <1>2, <1>6, <1>8, <2>1 DEF StorageError, Fault
<1> QED BY <1>5, <1>7, <1>8 DEF Save

LEMMA GiveUpKeeps ==
  ASSUME IInv, NEW t \in Threads, GiveUp(t)
  PROVE  IInv'
<1> USE DEF server
<1>1. Slots /\ None \in Busy /\ None \in Kinds /\ None.pc = "none"
  BY TypedSlots DEF IInv, Busy, Kinds, None
<1>2. faults' \in 0..MaxFaults
  BY CredentialParametersOK DEF IInv, TypeOK, GiveUp, Fault
<1>3. /\ t \in Senders /\ "stray" \in Senders /\ "stray" \notin Threads
      /\ requests[t] \in Kinds /\ t # "stray" /\ Threads \subseteq Senders
  BY <1>1 DEF Threads, Senders, Slots
<1>4. /\ requests' \in [Senders -> Kinds]
      /\ requests'[t] = None
      /\ requests'["stray"] \in {requests["stray"], requests[t]}
      /\ \A x \in Senders \ {t, "stray"} : requests'[x] = requests[x]
  BY <1>1, <1>3 DEF GiveUp, Slots
<1>5. /\ threads' \in [Threads -> Busy] /\ threads'[t] = None
      /\ \A x \in Threads : x # t => threads'[x] = threads[x]
  BY <1>1 DEF GiveUp, Slots
<1>6. Slots'
  BY <1>1, <1>3, <1>4, <1>5 DEF Slots
<1>7. Issued'
  BY <1>1, <1>5 DEF GiveUp, IInv, Issued
<1>8. Held'
  <2>1. requests[t].pc # "set"
    BY <1>3 DEF IInv, Held, GiveUp
  <2> QED BY <1>1, <1>3, <1>4, <2>1 DEF IInv, Held, GiveUp
<1>9. due' \in BOOLEAN
  BY DueTyped DEF GiveUp, IInv, TypeOK
<1> QED BY <1>2, <1>6, <1>7, <1>8, <1>9, Together DEF GiveUp, Fault, IInv, TypeOK

LEMMA RestartAgentKeeps ==
  ASSUME IInv, RestartAgent
  PROVE  IInv'
<1> USE DEF server, RestartAgent
<1>1. Slots /\ None \in Busy /\ None \in Kinds /\ None.pc = "none" /\ Threads \subseteq Senders
  BY TypedSlots DEF IInv, Busy, Kinds, None, Threads, Senders
<1>2. faults' \in 0..MaxFaults
  BY CredentialParametersOK DEF IInv, TypeOK, Fault
<1>3. Slots'
  BY <1>1 DEF Slots
<1>4. Issued'
  BY <1>1 DEF IInv, Issued
<1>5. Held'
  BY <1>1 DEF IInv, Held
<1> QED BY <1>2, <1>3, <1>4, <1>5, Together DEF Fault, IInv, TypeOK

\* A period of 30 s counts up to the ninety after which a host fades.
LEMMA ElapseKeeps ==
  ASSUME IInv, Elapse \/ Miss
  PROVE  IInv'
<1>1. Period /\ UNCHANGED calls
  BY DEF Elapse, Miss, Fault
<1>2. host' \in HostRow
  BY <1>1 DEF Period, IInv, TypeOK, HostRow, Stale
<1>3. faults' \in 0..MaxFaults
  BY CredentialParametersOK DEF Elapse, Miss, Fault, IInv, TypeOK
<1>4. UNCHANGED <<cred, mu, tokens, requests, threads, token, file, temp, failed>> /\ due' \in BOOLEAN
  BY <1>1 DEF Period
<1> QED BY <1>1, <1>2, <1>3, <1>4 DEF IInv, TypeOK, Issued, Held

-----------------------------------------------------------------------------
(* The server's steps.                                                     *)

LEMMA RegisterOtherKeeps ==
  ASSUME IInv, RegisterOther
  PROVE  IInv'
<1> DEFINE r == [op |-> "register", rotate |-> FALSE, pc |-> "upsert"]
<1> USE DEF server, agent
<1>1. Slots /\ r \in Kinds /\ r.pc = "upsert" /\ r # None
  BY TypedSlots DEF IInv, Kinds, Registering, None
<1>2. /\ requests' = [requests EXCEPT !["other"] = r] /\ threads' = threads
      /\ "other" \in Senders /\ "other" \notin Threads /\ Threads \subseteq Senders
  BY DEF RegisterOther, Senders, Threads
<1> HIDE DEF r
<1>3. Slots'
  BY <1>1, <1>2 DEF Slots
<1>4. Held'
  BY <1>1, <1>2, <1>3 DEF RegisterOther, IInv, Held, Slots
<1>5. Issued'
  BY DEF RegisterOther, IInv, Issued
<1> QED BY <1>3, <1>4, <1>5, Together DEF RegisterOther, IInv, TypeOK

\* A handler goes on to the next statement, which is not that of storing.
LEMMA AdvanceKeeps ==
  ASSUME IInv, NEW s \in Senders, NEW pc,
         \/ requests[s] \in Registering /\ pc \in {"upsert", "lock"}
         \/ requests[s] \in Guarded /\ pc \in {"hash", "age", "read", "write"},
         Advance(s, pc), UNCHANGED <<cred, mu, tokens, calls, faults>>,
         host' \in HostRow
  PROVE  IInv'
<1> DEFINE r == [requests[s] EXCEPT !.pc = pc]
<1> USE DEF agent
<1>1. Slots /\ requests[s] \in Kinds
  BY TypedSlots DEF IInv, Slots
<1>2. r \in Registering \cup Guarded /\ r.pc = pc /\ pc # "set"
  BY <1>1, NextPc DEF Registering, Guarded
<1>3. r \in Kinds /\ r # None /\ requests[s] # None
  BY <1>1, <1>2 DEF Kinds, Registering, Guarded, None
<1>4. requests' = [requests EXCEPT ![s] = r] /\ threads' = threads
  BY DEF Advance
<1> HIDE DEF r
<1>5. /\ Slots' /\ requests'[s] = r
      /\ \A x \in Senders : x # s => requests'[x] = requests[x]
  BY <1>1, <1>3, <1>4, AdvancedSlots
<1>6. Held'
  BY <1>2, <1>5 DEF IInv, Held
<1>7. Issued'
  BY DEF Advance, IInv, Issued
<1> QED BY <1>5, <1>6, <1>7, Together DEF Advance, IInv, TypeOK

\* A request is answered and its thread idle or about to save.
LEMMA AnswerKeeps ==
  ASSUME IInv, NEW s \in Senders, NEW next \in Busy, next.pc # "wait", NEW due_ \in BOOLEAN,
         Answered(s, next, due_), requests[s].pc # "set",
         next.pc \in {"write", "replace"} => next.token \in 0..tokens,
         UNCHANGED <<cred, mu, tokens, file, temp, failed, calls, faults>>,
         token' \in 0..tokens, host' \in HostRow
  PROVE  IInv'
<1>1. Slots
  BY TypedSlots DEF IInv
<1>2. /\ Slots'
      /\ \A x \in Senders : requests'[x] = None \/ requests'[x] = requests[x]
      /\ \A t \in Threads : threads'[t] \in {threads[t], next}
      /\ due' \in {due, due_}
  BY <1>1, AnsweredSlots
<1>3. Issued'
  BY <1>2 DEF IInv, Issued
<1>4. Held'
  <2>1. None.pc # "set"
    BY DEF None
  <2> QED BY <1>2, <2>1 DEF IInv, Held
<1> QED BY <1>2, <1>3, <1>4, Together DEF IInv, TypeOK

LEMMA OkKeeps ==
  ASSUME IInv, NEW s \in Senders, Ok(s), requests[s].pc # "set",
         UNCHANGED <<cred, mu, tokens, calls, faults>>,
         host' \in HostRow
  PROVE  IInv'
<1>1. None \in Busy /\ None.pc = "none" /\ DueAfter(requests[s].op) \in BOOLEAN
  BY DueTyped DEF Busy, None, IInv, TypeOK
<1>2. token' \in 0..tokens
  BY DEF Ok, IInv, TypeOK
<1> QED BY <1>1, <1>2, AnswerKeeps DEF Ok

LEMMA RejectKeeps ==
  ASSUME IInv, NEW s \in Senders, requests[s] \in Guarded, Reject(s),
         UNCHANGED <<server, calls, faults>>
  PROVE  IInv'
<1> USE DEF server
<1> DEFINE next == [pc |-> "write", token |-> 0, op |-> requests[s].op]
<1>1. next \in Busy /\ next.pc = "write" /\ next.token = 0 /\ requests[s].pc # "set"
  BY CredentialParametersOK DEF Busy, Saving, Guarded, Tokens
<1>2. 0 \in 0..tokens /\ token' \in 0..tokens
  BY DEF Reject, Unauthorized, IInv, TypeOK, Tokens
<1>3. host' \in HostRow
  BY DEF IInv, TypeOK
<1>4. Answered(s, next, TRUE) /\ UNCHANGED <<file, temp, failed>>
  BY DEF Reject, Unauthorized
<1> HIDE DEF next
<1> QED BY <1>1, <1>2, <1>3, <1>4, AnswerKeeps

LEMMA GuardedKeep ==
  ASSUME IInv, NEW s \in Senders, AuthenticateHost(s) \/ ReadHost(s) \/ UpsertHost(s)
  PROVE  IInv'
<1> USE DEF server
<1>1. requests[s] \in Kinds
  BY DEF IInv, TypeOK, Kinds
<1>2. requests[s].pc \in {"hash", "age", "read", "write"}
  BY DEF AuthenticateHost, ReadHost, UpsertHost
<1>3. requests[s] \in Guarded /\ requests[s].pc # "set"
  BY <1>1, <1>2, RequestKinds
<1>4. host \in HostRow
  BY DEF IInv, TypeOK
<1>5. CASE AuthenticateHost(s)
  <2>1. \/ Advance(s, "age") \/ Advance(s, "read") \/ Ok(s) \/ Reject(s)
    BY <1>5 DEF AuthenticateHost
  <2> QED BY <1>3, <1>4, <1>5, <2>1, AdvanceKeeps, OkKeeps, RejectKeeps DEF AuthenticateHost
<1>6. CASE ReadHost(s)
  BY <1>3, <1>4, <1>6, AdvanceKeeps DEF ReadHost
<1>7. CASE UpsertHost(s)
  <2>1. host' \in HostRow
    BY <1>7 DEF UpsertHost, Seen, HostRow, Stale
  <2> QED BY <1>3, <1>7, <2>1, OkKeeps DEF UpsertHost
<1> QED BY <1>5, <1>6, <1>7

LEMMA RegistrationKeeps ==
  ASSUME IInv, NEW s \in Senders,
         RegisterHost(s) \/ CheckCredential(s) \/ SetHostCredential(s)
  PROVE  IInv'
<1> USE DEF server, agent
<1>1. Slots /\ requests[s] \in Kinds /\ host \in HostRow
  BY TypedSlots DEF IInv, Slots, TypeOK
<1>2. requests[s].pc \in {"upsert", "lock", "set"}
  BY DEF RegisterHost, CheckCredential, SetHostCredential
<1>3. requests[s] \in Registering
  BY <1>1, <1>2, RequestKinds
<1>4. CASE RegisterHost(s)
  <2>1. host' \in HostRow /\ Advance(s, "lock")
    BY <1>4 DEF RegisterHost, Seen, HostRow, Stale, Advance
  <2> QED BY <1>3, <1>4, <2>1, AdvanceKeeps DEF RegisterHost
<1>5. CASE CheckCredential(s) /\ (cred = None \/ requests[s].rotate)
  <2> DEFINE r == [requests[s] EXCEPT !.pc = "set"]
  <2>1. r \in Kinds /\ r # None /\ requests[s] # None /\ r.pc = "set"
        /\ r.rotate = requests[s].rotate
    BY <1>3, NextPc DEF Kinds, None, Registering
  <2>2. requests' = [requests EXCEPT ![s] = r] /\ threads' = threads
    BY <1>5 DEF CheckCredential
  <2> HIDE DEF r
  <2>3. /\ Slots' /\ requests'[s] = r
        /\ \A x \in Senders : x # s => requests'[x] = requests[x]
    BY <1>1, <2>1, <2>2, AdvancedSlots
  <2>4. mu = "free" /\ mu' = s /\ cred' = cred /\ "free" \notin Senders
    BY <1>5 DEF CheckCredential, Senders, Threads
  <2>5. Held'
    BY <1>5, <2>1, <2>3, <2>4 DEF IInv, Held
  <2>6. Issued'
    BY <1>5 DEF CheckCredential, IInv, Issued
  <2> QED BY <1>5, <2>3, <2>4, <2>5, <2>6, Together DEF CheckCredential, IInv, TypeOK
<1>6. CASE CheckCredential(s) /\ ~(cred = None \/ requests[s].rotate)
  <2>1. None \in Busy /\ None.pc = "none" /\ requests[s].pc # "set"
    BY <1>6 DEF CheckCredential, Busy, None
  <2>2. Answered(s, None, FALSE) /\ UNCHANGED <<token, file, temp, failed>>
    BY <1>6 DEF CheckCredential, Registered
  <2>3. UNCHANGED <<cred, host, mu, tokens, calls, faults>>
    BY <1>6 DEF CheckCredential
  <2>4. token' \in 0..tokens
    BY <2>2 DEF IInv, TypeOK
  <2> QED BY <1>1, <2>1, <2>2, <2>3, <2>4, AnswerKeeps
<1>7. CASE SetHostCredential(s)
  <2> DEFINE k == tokens + 1
             next == [pc |-> "write", token |-> k, op |-> "register"]
  <2>1. k \in Tokens /\ k # 0 /\ tokens' = k /\ k \in 1..k /\ tokens \in Nat
    BY <1>7, CredentialParametersOK DEF SetHostCredential, Tokens, IInv, TypeOK
  <2>2. next \in Busy /\ next.pc = "write" /\ next.token = k
    BY <2>1 DEF Busy, Saving
  <2>3. Answered(s, next, due) /\ UNCHANGED <<token, file, temp, failed>>
    BY <1>7, <2>1 DEF SetHostCredential, Registered
  <2>4. cred' = [token |-> k, revoked |-> FALSE, aged |-> FALSE] /\ cred' # None
    BY <1>7 DEF SetHostCredential, None
  <2>5. cred' \in Credential /\ cred'.token = k
    BY <2>1, <2>4 DEF Credential
  <2> HIDE DEF next
  <2>6. /\ Slots' /\ requests'[s] = None
        /\ \A x \in Senders : requests'[x] = None \/ requests'[x] = requests[x]
        /\ \A t \in Threads : threads'[t] \in {threads[t], next}
        /\ due' \in {due, due}
    BY <1>1, <2>2, <2>3, AnsweredSlots
  <2>7. \A i : i \in 0..tokens => i \in 0..k
    BY <2>1
  <2>8. Issued'
    BY <2>1, <2>2, <2>5, <2>6, <2>7 DEF IInv, Issued
  <2>9. Held'
    <3>1. None.pc # "set" /\ requests[s].pc = "set"
      BY <1>7 DEF None, SetHostCredential
    <3>2. \A x \in Senders : requests[x].pc = "set" => x = s
      BY <3>1 DEF IInv, Held
    <3> QED BY <2>6, <3>1, <3>2 DEF Held
  <2>10. mu' = "free" /\ UNCHANGED <<host, calls, faults>>
    BY <1>7 DEF SetHostCredential
  <2>11. token' \in 0..k /\ file' \in 0..k /\ temp' \in {Absent} \cup 0..k
    BY <2>3, <2>7 DEF IInv, TypeOK
  <2> HIDE DEF k
  <2> QED BY <2>1, <2>3, <2>5, <2>6, <2>8, <2>9, <2>10, <2>11, Together DEF IInv, TypeOK
<1> QED BY <1>4, <1>5, <1>6, <1>7

LEMMA ServerFaultsKeep ==
  ASSUME IInv, RevokeHostCredential \/ Age
  PROVE  IInv'
<1> USE DEF server, agent
<1>1. Slots' /\ Held'
  <2>1. Slots
    BY TypedSlots DEF IInv
  <2>2. UNCHANGED <<mu, requests, threads>>
    BY DEF RevokeHostCredential, Age
  <2>3. cred = None => cred' = None
    BY DEF RevokeHostCredential, Age
  <2> QED BY <2>1, <2>2, <2>3 DEF Slots, IInv, Held
<1>2. /\ cred' \in {None} \cup Credential
      /\ cred' # None => cred # None /\ cred'.token = cred.token
  <2>1. CASE RevokeHostCredential
    BY <2>1 DEF RevokeHostCredential, IInv, TypeOK, Credential
  <2>2. CASE Age
    BY <2>2 DEF Age, IInv, TypeOK, Credential
  <2> QED BY <2>1, <2>2
<1>3. Issued'
  BY <1>2 DEF RevokeHostCredential, Age, IInv, Issued
<1>4. host' \in HostRow
  BY DEF RevokeHostCredential, Age, IInv, TypeOK, HostRow
<1>5. faults' \in 0..MaxFaults
  BY CredentialParametersOK DEF RevokeHostCredential, Age, Fault, IInv, TypeOK
<1>6. UNCHANGED <<mu, tokens, token, file, temp, due, failed, calls>>
  BY DEF RevokeHostCredential, Age, Fault
<1> QED BY <1>1, <1>2, <1>3, <1>4, <1>5, <1>6, Together DEF IInv, TypeOK

LEMMA RestartServerKeeps ==
  ASSUME IInv, RestartServer
  PROVE  IInv'
<1> USE DEF RestartServer
<1>1. Slots /\ None \in Busy /\ None \in Kinds /\ None.pc = "none" /\ Threads \subseteq Senders
  BY TypedSlots DEF IInv, Busy, Kinds, None, Threads, Senders
<1>2. faults' \in 0..MaxFaults
  BY CredentialParametersOK DEF IInv, TypeOK, Fault
<1>3. \A t \in Threads : threads'[t] \in {None, threads[t]} /\ threads'[t].pc # "wait"
  BY <1>1
<1>4. Slots'
  BY <1>1, <1>3 DEF Slots
<1>5. Issued'
  BY <1>1, <1>3 DEF IInv, Issued
<1>6. Held'
  BY <1>1 DEF Held
<1>7. due' \in BOOLEAN
  BY DueTyped DEF IInv, TypeOK
<1> QED BY <1>2, <1>4, <1>5, <1>6, <1>7, Together DEF Fault, IInv, TypeOK

LEMMA NextIInv == IInv /\ [Next]_vars => IInv'
<1> SUFFICES ASSUME IInv, [Next]_vars PROVE IInv'
  OBVIOUS
<1>1. CASE UNCHANGED vars
  BY <1>1 DEF vars, server, agent, IInv, TypeOK, Issued, Held
<1>2. CASE Tick \/ Call
  BY <1>2, TickKeeps
<1>3. CASE Elapse \/ Miss
  BY <1>3, ElapseKeeps
<1>4. CASE RestartAgent
  BY <1>4, RestartAgentKeeps
<1>5. ASSUME NEW t \in Threads, Save(t) \/ StorageError(t) \/ GiveUp(t) PROVE IInv'
  BY <1>5, SaveKeeps, GiveUpKeeps
<1>6. ASSUME NEW s \in Senders, Serve(s) PROVE IInv'
  BY <1>6, GuardedKeep, RegistrationKeeps DEF Serve
<1>7. CASE RegisterOther
  BY <1>7, RegisterOtherKeeps
<1>8. CASE RevokeHostCredential \/ Age
  BY <1>8, ServerFaultsKeep
<1>9. CASE RestartServer
  BY <1>9, RestartServerKeeps
<1> QED BY <1>1, <1>2, <1>3, <1>4, <1>5, <1>6, <1>7, <1>8, <1>9 DEF Next

-----------------------------------------------------------------------------
\* The invariant holds in every reachable state.
THEOREM Invariance == Spec => []IInv
<1>1. Init => IInv
  BY InitIInv
<1>2. IInv /\ [Next]_vars => IInv'
  BY NextIInv
<1> QED BY <1>1, <1>2, PTL DEF Spec

\* Rows, requests, threads and files are what they should be, and nobody knows a
\* token that was not issued (RegisterHostCredential, remote_host_manager.py).
THEOREM TypeCorrect == Spec => []TypeOK
<1>1. IInv => TypeOK
  BY DEF IInv
<1> QED BY <1>1, Invariance, PTL

\* The credential changes hands only in the step that answers a registration
\* that asked for a rotation.
LEMMA ReplacedByRotation ==
  ASSUME IInv, Next, cred # None, cred'.token # cred.token
  PROVE  \E s \in Senders : requests[s] # None /\ requests[s].op = "register"
                             /\ requests[s].rotate /\ requests'[s] # requests[s]
<1> USE DEF server, agent
<1>1. CASE \E s \in Senders : SetHostCredential(s)
  <2>1. PICK s \in Senders : SetHostCredential(s)
    BY <1>1
  <2>2. Slots /\ requests[s] \in Kinds
    BY TypedSlots DEF IInv, Slots
  <2>3. requests[s] \in Registering
    BY <2>1, <2>2, RequestKinds DEF SetHostCredential
  <2>4. requests[s] # None /\ requests[s].op = "register" /\ requests[s].rotate
    BY <2>1, <2>3 DEF SetHostCredential, IInv, Held, Registering, None
  <2>5. requests' = [requests EXCEPT ![s] = None]
    BY <2>1 DEF SetHostCredential, Registered, Answered
  <2>6. requests'[s] = None
    BY <2>2, <2>5 DEF Slots
  <2> QED BY <2>4, <2>6
<1>2. CASE RevokeHostCredential \/ Age
  BY <1>2 DEF RevokeHostCredential, Age, IInv, TypeOK, Credential
<1>3. CASE \E s \in Senders : Serve(s) /\ ~SetHostCredential(s)
  BY <1>3 DEF Serve, RegisterHost, CheckCredential, AuthenticateHost, ReadHost, UpsertHost
<1>4. CASE Tick \/ Call \/ Elapse \/ Miss \/ RestartAgent
  BY <1>4 DEF Tick, Register, Heartbeat, PollPending, Call, Send, Elapse, Miss, Period, RestartAgent
<1>5. CASE \E t \in Threads : Save(t) \/ StorageError(t) \/ GiveUp(t)
  BY <1>5 DEF Save, Write, Replace, StorageError, GiveUp
<1>6. CASE RegisterOther \/ RestartServer
  BY <1>6 DEF RegisterOther, RestartServer
<1> QED BY <1>1, <1>2, <1>3, <1>4, <1>5, <1>6 DEF Next

\* A credential is never replaced but at the request of who registers for a
\* rotation, whatever requests are repeated, late or cut off by restarts
\* (RegisterHostCredential).
THEOREM NoSilentReplacement == Spec => NeverSilentlyReplaced
<1>1. IInv /\ [Next]_vars =>
        [cred # None /\ cred'.token # cred.token =>
           \E s \in Senders : requests[s] # None /\ requests[s].op = "register"
                              /\ requests[s].rotate /\ requests'[s] # requests[s]]_vars
  BY ReplacedByRotation DEF vars, server
<1> QED BY <1>1, Invariance, PTL DEF Spec, NeverSilentlyReplaced

-----------------------------------------------------------------------------
(* RemoteBridge: the parts of its type invariant.                          *)

PeerStates == {"connecting", "connected"} \cup Down

ProcessTyped ==
  /\ main \in Running \cup {"post"} \cup Gone
  /\ reader \in BOOLEAN /\ ready \in BOOLEAN
  /\ states \in Seq(PeerStates) /\ Len(states) <= StateCap
  /\ watcher \in {"off", "on", "done"} /\ cancelled \in BOOLEAN
  /\ peer \in {"new"} \cup PeerStates
  /\ callbacks \in Seq(PeerStates)
  /\ answered \in BOOLEAN /\ held \subseteq Keys

PageTyped == page \in Page /\ tasks \subseteq Task /\ Ticketed

LinesTyped ==
  /\ hostLine \in {"down", "up", "ready"} /\ line \in {0} \cup Revs
  /\ toHost \in Seq(Msg) /\ Len(toHost) <= Room
  /\ toPhone \in Seq(Msg) /\ Len(toPhone) <= Room

LEMMA Parts ==
  BridgeInv <=> /\ OnCourse /\ ProcessTyped /\ PageTyped /\ LinesTyped /\ LettingGo
                /\ drops \in 0..MaxDrops
<1>1. OnCourse => row \in Row
  BY DEF OnCourse, Row, Negotiation, Revs
<1>2. {"new", "connecting", "connected"} \cup Down = {"new"} \cup PeerStates
  BY DEF PeerStates
<1> QED BY <1>1, <1>2 DEF BridgeInv, BridgeTypeOK, ProcessTyped, PageTyped, LinesTyped, PeerStates

LEMMA PartsPrimed ==
  ASSUME OnCourse', ProcessTyped', PageTyped', LinesTyped', LettingGo',
         drops' \in 0..MaxDrops
  PROVE  BridgeInv'
<1>1. (OnCourse /\ ProcessTyped /\ PageTyped /\ LinesTyped /\ LettingGo
        /\ drops \in 0..MaxDrops => BridgeInv)'
  BY Parts, PTL
<1> QED BY <1>1

LEMMA BridgeInitInv == BridgeInit => BridgeInv
<1> SUFFICES ASSUME BridgeInit PROVE BridgeInv
  OBVIOUS
<1>1. OnCourse
  BY DEF BridgeInit, OnCourse
<1>2. ProcessTyped
  <2>1. <<>> \in Seq(PeerStates) /\ Len(<<>>) = 0
    OBVIOUS
  <2>2. /\ main = "join" /\ reader = FALSE /\ ready = FALSE
        /\ states = <<>> /\ watcher = "off" /\ cancelled = FALSE
        /\ peer = "new" /\ callbacks = <<>> /\ answered = FALSE /\ held = {}
    BY DEF BridgeInit
  <2>3. /\ states \in Seq(PeerStates) /\ callbacks \in Seq(PeerStates)
        /\ Len(states) <= StateCap
    BY <2>1, <2>2, BridgeParametersOK
  <2>4. main \in Running /\ peer \in {"new"} \cup PeerStates
    BY <2>2 DEF Running
  <2> QED BY <2>2, <2>3, <2>4 DEF ProcessTyped
<1>3. PageTyped
  BY DEF BridgeInit, PageTyped, Page, NoRow, Ticketed
<1>4. LinesTyped
  <2>1. <<>> \in Seq(Msg) /\ Len(<<>>) = 0
    OBVIOUS
  <2> QED BY <2>1, BridgeParametersOK DEF BridgeInit, LinesTyped
<1>5. LettingGo /\ drops \in 0..MaxDrops
  BY BridgeParametersOK DEF BridgeInit, LettingGo, Running
<1> QED BY <1>1, <1>2, <1>3, <1>4, <1>5, Parts

\* Steps elsewhere.
LEMMA ProcessIdle ==
  ASSUME ProcessTyped, LettingGo, UNCHANGED bridge PROVE ProcessTyped' /\ LettingGo'
BY DEF ProcessTyped, LettingGo, bridge, stream, rtc

LEMMA PageIdle == ASSUME PageTyped, UNCHANGED phone PROVE PageTyped'
BY DEF PageTyped, phone, Ticketed

LEMMA LinesIdle == ASSUME LinesTyped, UNCHANGED hub PROVE LinesTyped'
BY DEF LinesTyped, hub

LEMMA RowIdle == ASSUME OnCourse, row' = row PROVE OnCourse'
BY DEF OnCourse

-----------------------------------------------------------------------------
(* The row and the hub's channels.                                         *)

LEMMA RowMoves ==
  ASSUME OnCourse
  PROVE  /\ row \in Row /\ row.rev \in Revs
         /\ row.state \in Negotiation <=> row.state \in {"negotiating", "reconnecting"}
         /\ Moved("over") = [state |-> "over", rev |-> 4]
         /\ row = [state |-> "negotiating", rev |-> 1] =>
              Moved("connected") = [state |-> "connected", rev |-> 2]
         /\ \A auth : RowWithout(auth) \in {row, [state |-> "reconnecting", rev |-> 3]}
<1>1. row \in Row /\ row.rev \in Revs
  BY DEF OnCourse, Row, Negotiation, Revs
<1>2. Moved("over") = [state |-> "over", rev |-> 4]
  BY DEF Moved
<1>3. row = [state |-> "negotiating", rev |-> 1] =>
        Moved("connected") = [state |-> "connected", rev |-> 2]
  BY DEF Moved
<1>4. ASSUME NEW auth PROVE RowWithout(auth) \in {row, [state |-> "reconnecting", rev |-> 3]}
  BY DEF OnCourse, RowWithout, Moved
<1> QED BY <1>1, <1>2, <1>3, <1>4 DEF Negotiation

LEMMA PutFits ==
  ASSUME NEW chan \in Seq(Msg), Len(chan) <= Room, NEW rev \in Revs,
         NEW type \in {"ready", "offer", "answer", "left", "conflict"}
  PROVE  Put(chan, type, rev) \in Seq(Msg) /\ Len(Put(chan, type, rev)) <= Room
<1> DEFINE m == [type |-> type, rev |-> rev]
<1>1. m \in Msg
  BY DEF Msg
<1>2. Room \in Nat
  BY BridgeParametersOK
<1> HIDE DEF m
<1>3. Append(chan, m) \in Seq(Msg) /\ Len(Append(chan, m)) = Len(chan) + 1 /\ Len(chan) \in Nat
  BY <1>1
<1>4. Put(chan, type, rev) = IF Len(chan) < Room THEN Append(chan, m) ELSE chan
  BY DEF Put, m
<1> QED BY <1>2, <1>3, <1>4

LEMMA ToHostFits ==
  ASSUME LinesTyped, NEW rev \in Revs,
         NEW type \in {"ready", "offer", "answer", "left", "conflict"}
  PROVE  ToHost(type, rev) \in Seq(Msg) /\ Len(ToHost(type, rev)) <= Room
BY PutFits DEF ToHost, LinesTyped

LEMMA ToPhoneFits ==
  ASSUME LinesTyped, NEW rev \in Revs,
         NEW type \in {"ready", "offer", "answer", "left", "conflict"}
  PROVE  ToPhone(type, rev) \in Seq(Msg) /\ Len(ToPhone(type, rev)) <= Room
BY PutFits DEF ToPhone, LinesTyped

LEMMA OneRead ==
  ASSUME NEW S, NEW s \in Seq(S), s # <<>>
  PROVE  Head(s) \in S /\ Tail(s) \in Seq(S) /\ Len(Tail(s)) = Len(s) - 1 /\ Len(s) \in Nat \ {0}
OBVIOUS

LEMMA ShorterFits ==
  ASSUME NEW chan \in Seq(Msg), Len(chan) <= Room, chan # <<>>
  PROVE  /\ Tail(chan) \in Seq(Msg) /\ Len(Tail(chan)) <= Room
         /\ <<>> \in Seq(Msg) /\ Len(<<>>) <= Room
<1>1. Room \in Nat
  BY BridgeParametersOK
<1>2. Tail(chan) \in Seq(Msg) /\ Len(Tail(chan)) = Len(chan) - 1 /\ Len(chan) \in Nat
  BY OneRead
<1>3. Len(Tail(chan)) <= Room
  BY <1>1, <1>2
<1>4. <<>> \in Seq(Msg) /\ Len(<<>>) = 0
  OBVIOUS
<1> QED BY <1>1, <1>2, <1>3, <1>4

LEMMA LastStays ==
  ASSUME NEW S, NEW s \in Seq(S), s # <<>>
  PROVE  /\ Tail(s) # <<>> => Tail(s)[Len(Tail(s))] = s[Len(s)]
         /\ Tail(s) = <<>> => Head(s) = s[Len(s)]
<1>1. Len(s) \in Nat \ {0} /\ Len(Tail(s)) = Len(s) - 1 /\ Tail(s) \in Seq(S)
  OBVIOUS
<1>2. CASE Tail(s) # <<>>
  <2>1. Len(Tail(s)) \in Nat \ {0}
    BY <1>1, <1>2
  <2>2. Tail(s)[Len(Tail(s))] = s[Len(Tail(s)) + 1]
    BY <1>1, <2>1
  <2> QED BY <1>1, <1>2, <2>1, <2>2
<1>3. CASE Tail(s) = <<>>
  <2>1. Len(<<>>) = 0 /\ Len(Tail(s)) = Len(<<>>)
    BY <1>3
  <2>2. Len(s) = 1
    <3> DEFINE n == Len(s)
               m == Len(Tail(s))
               z == Len(<<>>)
    <3>1. n \in Nat /\ m = n - 1 /\ m = z /\ z = 0
      BY <1>1, <2>1
    <3> HIDE DEF n, m, z
    <3>2. n = 1
      BY <3>1
    <3> QED BY <3>2 DEF n
  <2>3. Head(s) = s[1]
    OBVIOUS
  <2> QED BY <1>3, <2>2, <2>3
<1> QED BY <1>2, <1>3

-----------------------------------------------------------------------------
(* The main goroutine.                                                     *)

\* run() returns: the callback of the end is under way.
LEMMA ReturnsKept ==
  ASSUME ProcessTyped, LettingGo, main \in Running, Returns
  PROVE  ProcessTyped' /\ LettingGo'
<1>1. /\ main' = "post" /\ peer' = "closed" /\ callbacks' = Append(callbacks, "closed")
      /\ reader' = FALSE /\ ready' = FALSE /\ answered' = FALSE
      /\ states' = <<>> /\ watcher' = "done" /\ cancelled' = TRUE /\ held' = held
  BY DEF Returns, LettingGo
<1>2. callbacks \in Seq(PeerStates) /\ "closed" \in PeerStates
  BY DEF ProcessTyped, PeerStates, Down
<1>3. /\ callbacks' \in Seq(PeerStates) /\ callbacks' # <<>> /\ callbacks'[Len(callbacks')] = "closed"
  BY <1>1, <1>2
<1>4. ProcessTyped'
  <2>1. <<>> \in Seq(PeerStates) /\ Len(<<>>) = 0
    OBVIOUS
  <2>2. states' \in Seq(PeerStates) /\ Len(states') <= StateCap
    BY <1>1, <2>1, BridgeParametersOK
  <2>3. held' \subseteq Keys
    BY <1>1 DEF ProcessTyped
  <2>4. /\ main' = "post" /\ peer' = "closed" /\ reader' = FALSE /\ ready' = FALSE
        /\ answered' = FALSE /\ watcher' = "done" /\ cancelled' = TRUE
    BY <1>1
  <2>5. callbacks' \in Seq(PeerStates) /\ "closed" \in PeerStates
    BY <1>2, <1>3
  <2> QED BY <2>2, <2>3, <2>4, <2>5 DEF ProcessTyped
<1>5. LettingGo'
  BY <1>1, <1>3 DEF LettingGo, Running
<1> QED BY <1>4, <1>5

\* run() goes on.
LEMMA RunsOn ==
  ASSUME ProcessTyped, LettingGo, main \in Running, main' \in Running,
         reader' \in BOOLEAN, watcher' \in {"off", "on", "done"},
         states' = states \/ (states # <<>> /\ states' = Tail(states)),
         UNCHANGED <<ready, cancelled, rtc>>
  PROVE  ProcessTyped' /\ LettingGo'
<1>1. states' \in Seq(PeerStates) /\ Len(states') <= StateCap
  <2>1. states \in Seq(PeerStates) /\ Len(states) <= StateCap /\ StateCap \in Nat
    BY BridgeParametersOK DEF ProcessTyped
  <2>2. CASE states' = states
    BY <2>1, <2>2
  <2>3. CASE states # <<>> /\ states' = Tail(states)
    <3>1. Tail(states) \in Seq(PeerStates) /\ Len(Tail(states)) = Len(states) - 1 /\ Len(states) \in Nat
      BY <2>1, <2>3, OneRead
    <3>2. Len(states') = Len(Tail(states))
      BY <2>3
    <3>3. Len(states') <= StateCap
      BY <2>1, <3>1, <3>2
    <3> QED BY <2>3, <3>1, <3>3
  <2> QED BY <2>2, <2>3
<1>2. ProcessTyped'
  BY <1>1 DEF ProcessTyped, rtc
<1>3. LettingGo'
  BY DEF LettingGo, rtc, Running
<1> QED BY <1>2, <1>3

\* The process ends, its keys down or let go.
LEMMA EmptiedKept ==
  ASSUME ProcessTyped, LettingGo, Emptied, held' = held,
         main' = "killed" \/ (main' = "exited" /\ main = "post" /\ callbacks = <<>>)
  PROVE  ProcessTyped' /\ LettingGo'
<1>1. /\ peer' = "closed" /\ callbacks' = <<>>
      /\ reader' = FALSE /\ ready' = FALSE /\ answered' = FALSE
      /\ states' = <<>> /\ watcher' = "done" /\ cancelled' = TRUE
  BY DEF Emptied
<1>2. <<>> \in Seq(PeerStates) /\ Len(<<>>) = 0 /\ "closed" \in PeerStates
  BY DEF PeerStates, Down
<1>3. ProcessTyped'
  <2>1. /\ states' \in Seq(PeerStates) /\ Len(states') <= StateCap
        /\ callbacks' \in Seq(PeerStates)
    BY <1>1, <1>2, BridgeParametersOK
  <2>2. held' \subseteq Keys
    BY DEF ProcessTyped
  <2>3. /\ main' \in Gone /\ peer' = "closed" /\ reader' = FALSE /\ ready' = FALSE
        /\ answered' = FALSE /\ watcher' = "done" /\ cancelled' = TRUE
    BY <1>1 DEF Gone
  <2> QED BY <1>2, <2>1, <2>2, <2>3 DEF ProcessTyped
<1>4. LettingGo'
  BY <1>1 DEF LettingGo, Running
<1> QED BY <1>3, <1>4

LEMMA MainKept ==
  ASSUME BridgeInv,
         Join \/ SayReady \/ Gate \/ SendOffer \/ Await \/ MarkConnected \/ OpenPipe
           \/ StreamEnds \/ PipeBreaks
  PROVE  BridgeInv'
<1>1. OnCourse /\ ProcessTyped /\ PageTyped /\ LinesTyped /\ LettingGo /\ drops \in 0..MaxDrops
  BY Parts
<1>2. main \in Running
  BY DEF Join, SayReady, Gate, SendOffer, Await, MarkConnected, OpenPipe, StreamEnds, PipeBreaks, Running
<1>3. PageTyped' /\ drops' \in 0..MaxDrops
  <2>1. UNCHANGED <<phone, drops>>
    BY DEF Join, SayReady, Gate, SendOffer, Await, MarkConnected, OpenPipe, StreamEnds, PipeBreaks
  <2> QED BY <1>1, <2>1, PageIdle
<1>4. OnCourse'
  <2>1. row' = row \/ (row = [state |-> "negotiating", rev |-> 1] /\ row' = Moved("connected"))
    BY DEF Join, SayReady, Gate, SendOffer, Await, MarkConnected, OpenPipe, StreamEnds, PipeBreaks
  <2> QED BY <1>1, <2>1, RowIdle, RowMoves DEF OnCourse
<1>5. LinesTyped'
  <2>1. CASE Join
    BY <1>1, <2>1 DEF Join, LinesTyped
  <2>2. CASE SayReady \/ SendOffer
    <3>1. /\ toPhone' \in {toPhone, ToPhone("ready", 1), ToPhone("offer", 1)}
          /\ hostLine' \in {hostLine, "ready"} /\ UNCHANGED <<line, toHost>>
      BY <2>2 DEF SayReady, SendOffer
    <3>2. 1 \in Revs
      BY DEF Revs
    <3> QED BY <1>1, <3>1, <3>2, ToPhoneFits DEF LinesTyped
  <2>3. CASE UNCHANGED hub
    BY <1>1, <2>3, LinesIdle
  <2> QED BY <2>1, <2>2, <2>3 DEF Gate, Await, MarkConnected, OpenPipe, StreamEnds, PipeBreaks
<1>6. ProcessTyped' /\ LettingGo'
  <2>1. CASE Returns
    BY <1>1, <1>2, <2>1, ReturnsKept
  <2>2. ASSUME ~Returns
        PROVE  /\ main' \in Running /\ reader' \in BOOLEAN /\ watcher' \in {"off", "on", "done"}
               /\ states' = states \/ (states # <<>> /\ states' = Tail(states))
               /\ UNCHANGED <<ready, cancelled, rtc>>
    <3>1. reader \in BOOLEAN /\ watcher \in {"off", "on", "done"}
      BY <1>1 DEF ProcessTyped
    <3>2. CASE Join
      BY <2>2, <3>1, <3>2 DEF Join, Runs, stream, Running
    <3>3. CASE SayReady
      BY <3>1, <3>3 DEF SayReady, stream, Running
    <3>4. CASE Gate \/ SendOffer \/ MarkConnected
      BY <2>2, <3>1, <3>4 DEF Gate, SendOffer, MarkConnected, Runs, stream, Running
    <3>5. CASE Await
      BY <2>2, <3>1, <3>5 DEF Await, Running
    <3>6. CASE OpenPipe
      BY <2>2, <3>1, <3>6 DEF OpenPipe, Running
    <3> QED BY <2>2, <3>2, <3>3, <3>4, <3>5, <3>6 DEF StreamEnds, PipeBreaks
  <2>3. CASE ~Returns
    BY <1>1, <1>2, <2>2, <2>3, RunsOn
  <2> QED BY <2>1, <2>3
<1> QED BY <1>3, <1>4, <1>5, <1>6, PartsPrimed

LEMMA ProcessEnds ==
  ASSUME BridgeInv, WriteClash \/ EndSession \/ Kill
  PROVE  BridgeInv'
<1>1. OnCourse /\ ProcessTyped /\ PageTyped /\ LinesTyped /\ LettingGo /\ drops \in 0..MaxDrops
  BY Parts
<1>2. /\ Emptied /\ held' = held /\ UNCHANGED <<phone, hub, drops>>
      /\ main' = "killed" \/ (main' = "exited" /\ main = "post" /\ callbacks = <<>>)
      /\ row' \in {row, Moved("over")}
  BY DEF WriteClash, EndSession, Kill
<1>3. ProcessTyped' /\ LettingGo'
  BY <1>1, <1>2, EmptiedKept
<1>4. OnCourse'
  BY <1>1, <1>2, RowIdle, RowMoves DEF OnCourse
<1> QED BY <1>1, <1>2, <1>3, <1>4, PageIdle, LinesIdle, PartsPrimed


-----------------------------------------------------------------------------
(* The bridge's other goroutines.                                          *)

LEMMA WatchKept ==
  ASSUME BridgeInv, Watch PROVE BridgeInv'
<1>1. OnCourse /\ ProcessTyped /\ PageTyped /\ LinesTyped /\ LettingGo /\ drops \in 0..MaxDrops
  BY Parts
<1>2. /\ states' = <<>> /\ watcher' = "done" /\ cancelled' \in BOOLEAN
      /\ UNCHANGED <<row, main, reader, ready, rtc, phone, hub, drops>>
  BY <1>1 DEF Watch, ProcessTyped
<1>3. ProcessTyped'
  <2>1. <<>> \in Seq(PeerStates) /\ Len(<<>>) = 0
    OBVIOUS
  <2>2. states' \in Seq(PeerStates) /\ Len(states') <= StateCap
    BY <1>2, <2>1, BridgeParametersOK
  <2> QED BY <1>1, <1>2, <2>2 DEF ProcessTyped, rtc
<1>4. LettingGo'
  BY <1>1, <1>2 DEF LettingGo, rtc
<1> QED BY <1>1, <1>2, <1>3, <1>4, PageIdle, LinesIdle, RowIdle, PartsPrimed

LEMMA ReadKept ==
  ASSUME BridgeInv, Read PROVE BridgeInv'
<1>1. OnCourse /\ ProcessTyped /\ PageTyped /\ LinesTyped /\ LettingGo /\ drops \in 0..MaxDrops
  BY Parts
<1>2. /\ ready' \in BOOLEAN /\ answered' \in BOOLEAN /\ reader' \in BOOLEAN
      /\ UNCHANGED <<row, main, stream, peer, callbacks, held, phone, hostLine, line,
                     toPhone, drops>>
      /\ toHost # <<>> /\ (toHost' = Tail(toHost) \/ toHost' = <<>>)
  BY <1>1 DEF Read, ProcessTyped
<1>3. ProcessTyped'
  BY <1>1, <1>2 DEF ProcessTyped, stream
<1>4. LettingGo'
  BY <1>1, <1>2 DEF LettingGo
<1>5. toHost' \in Seq(Msg) /\ Len(toHost') <= Room
  BY <1>1, <1>2, ShorterFits DEF LinesTyped
<1>6. LinesTyped'
  BY <1>1, <1>2, <1>5 DEF LinesTyped
<1> QED BY <1>1, <1>2, <1>3, <1>4, <1>6, PageIdle, RowIdle, PartsPrimed

\* The keys are let go with the last callback, which tells of the end.
LEMMA CallbackKept ==
  ASSUME BridgeInv, Callback PROVE BridgeInv'
<1>1. OnCourse /\ ProcessTyped /\ PageTyped /\ LinesTyped /\ LettingGo /\ drops \in 0..MaxDrops
  BY Parts
<1>2. /\ main \notin Gone /\ callbacks # <<>>
      /\ held' = LetGo(Head(callbacks))
      /\ callbacks' = Tail(callbacks)
      /\ states' = states \/ (Len(states) < StateCap /\ states' = Append(states, Head(callbacks)))
      /\ UNCHANGED <<row, main, reader, ready, watcher, cancelled, peer, answered, phone, hub, drops>>
  BY DEF Callback
<1>3. /\ callbacks \in Seq(PeerStates) /\ states \in Seq(PeerStates) /\ Len(states) <= StateCap
      /\ held \subseteq Keys
  BY <1>1 DEF ProcessTyped
<1>4. Head(callbacks) \in PeerStates /\ callbacks' \in Seq(PeerStates)
  BY <1>2, <1>3
<1>5. states' \in Seq(PeerStates) /\ Len(states') <= StateCap
  <2>1. CASE states' = states
    BY <1>3, <2>1
  <2>2. CASE Len(states) < StateCap /\ states' = Append(states, Head(callbacks))
    <3>1. states' \in Seq(PeerStates) /\ Len(states') = Len(states) + 1 /\ Len(states) \in Nat
      BY <1>3, <1>4, <2>2
    <3>2. StateCap \in Nat
      BY BridgeParametersOK
    <3> QED BY <2>2, <3>1, <3>2
  <2> QED BY <1>2, <2>1, <2>2
<1>6. ProcessTyped'
  <2>1. held' \subseteq Keys
    BY <1>2, <1>3 DEF LetGo
  <2> QED BY <1>1, <1>2, <1>4, <1>5, <2>1 DEF ProcessTyped
<1>7. LettingGo'
  <2>1. main \in Running => peer' # "closed"
    BY <1>1, <1>2 DEF LettingGo
  <2>2. ASSUME main = "post"
        PROVE  /\ peer' = "closed"
               /\ callbacks' # <<>> => callbacks'[Len(callbacks')] = "closed"
               /\ callbacks' = <<>> => held' \cap Modifiers = {}
    <3>1. peer' = "closed" /\ callbacks[Len(callbacks)] = "closed"
      BY <1>1, <1>2, <2>2 DEF LettingGo
    <3>2. callbacks' # <<>> => callbacks'[Len(callbacks')] = callbacks[Len(callbacks)]
      BY <1>2, <1>3, LastStays
    <3>3. callbacks' = <<>> => Head(callbacks) = callbacks[Len(callbacks)]
      BY <1>2, <1>3, LastStays
    <3>4. callbacks' = <<>> => held' \cap Modifiers = {}
      BY <1>2, <3>1, <3>3 DEF LetGo, Down
    <3> QED BY <3>1, <3>2, <3>4
  <2>3. main # "exited"
    BY <1>2 DEF Gone
  <2> QED BY <1>2, <2>1, <2>2, <2>3 DEF LettingGo
<1> QED BY <1>1, <1>2, <1>6, <1>7, PageIdle, LinesIdle, RowIdle, PartsPrimed

\* Only the bridge closes its connection.
LEMMA PeerKept ==
  ASSUME BridgeInv, NEW s \in {"connecting", "connected", "disconnected", "failed"}, PeerChanges(s)
  PROVE  BridgeInv'
<1>1. OnCourse /\ ProcessTyped /\ PageTyped /\ LinesTyped /\ LettingGo /\ drops \in 0..MaxDrops
  BY Parts
<1>2. /\ main \notin Gone /\ peer # "closed" /\ peer' = s /\ callbacks' = Append(callbacks, s)
      /\ UNCHANGED <<row, main, reader, ready, stream, answered, held, phone, hub, drops>>
  BY DEF PeerChanges, Follows
<1>3. s \in PeerStates /\ s # "closed"
  BY DEF PeerStates, Down
<1>4. callbacks \in Seq(PeerStates)
  BY <1>1 DEF ProcessTyped
<1>5. callbacks' \in Seq(PeerStates)
  BY <1>2, <1>3, <1>4
<1>6. ProcessTyped'
  BY <1>1, <1>2, <1>3, <1>5 DEF ProcessTyped, stream
<1>7. LettingGo'
  BY <1>1, <1>2, <1>3 DEF LettingGo, Gone
<1> QED BY <1>1, <1>2, <1>6, <1>7, PageIdle, LinesIdle, RowIdle, PartsPrimed

\* Nothing is pressed any more once the connection is closed.
LEMMA InputKept ==
  ASSUME BridgeInv, NEW k \in Keys, Input(k) PROVE BridgeInv'
<1>1. OnCourse /\ ProcessTyped /\ PageTyped /\ LinesTyped /\ LettingGo /\ drops \in 0..MaxDrops
  BY Parts
<1>2. /\ main \notin Gone /\ peer # "closed" /\ held' \in {held \cup {k}, held \ {k}}
      /\ UNCHANGED <<row, main, reader, ready, stream, peer, callbacks, answered, phone, hub, drops>>
  BY DEF Input
<1>3. held' \subseteq Keys
  BY <1>1, <1>2 DEF ProcessTyped
<1>4. ProcessTyped'
  BY <1>1, <1>2, <1>3 DEF ProcessTyped, stream
<1>5. LettingGo'
  BY <1>1, <1>2 DEF LettingGo, Gone
<1> QED BY <1>1, <1>2, <1>4, <1>5, PageIdle, LinesIdle, RowIdle, PartsPrimed

-----------------------------------------------------------------------------
(* The hub's own steps.                                                    *)

LEMMA LapseKept == ASSUME BridgeInv, Lapse PROVE BridgeInv'
<1>1. OnCourse /\ ProcessTyped /\ PageTyped /\ LinesTyped /\ LettingGo /\ drops \in 0..MaxDrops
  BY Parts
<1>2. row' = Moved("over") /\ UNCHANGED <<bridge, phone, hub, drops>>
  BY DEF Lapse
<1>3. OnCourse'
  BY <1>1, <1>2, RowMoves DEF OnCourse
<1> QED BY <1>1, <1>2, <1>3, ProcessIdle, PageIdle, LinesIdle, PartsPrimed

LEMMA HostLeavesKept == ASSUME BridgeInv, HostLeaves PROVE BridgeInv'
<1>1. OnCourse /\ ProcessTyped /\ PageTyped /\ LinesTyped /\ LettingGo /\ drops \in 0..MaxDrops
  BY Parts
<1>2. /\ hostLine' = "down" /\ toHost' = <<>> /\ reader' = FALSE
      /\ row' = RowWithout(IF hostLine = "ready" THEN 1 ELSE 0)
      /\ UNCHANGED <<main, ready, stream, rtc, phone, line, toPhone, drops>>
  BY DEF HostLeaves
<1>3. OnCourse'
  BY <1>1, <1>2, RowMoves, RowIdle DEF OnCourse
<1>4. ProcessTyped' /\ LettingGo'
  BY <1>1, <1>2 DEF ProcessTyped, LettingGo, stream, rtc
<1>5. LinesTyped'
  <2>1. toHost' \in Seq(Msg) /\ Len(toHost') = 0
    BY <1>2
  <2>2. Len(toHost') <= Room
    BY <2>1, BridgeParametersOK
  <2> QED BY <1>1, <1>2, <2>1, <2>2 DEF LinesTyped
<1> QED BY <1>1, <1>2, <1>3, <1>4, <1>5, PageIdle, PartsPrimed

-----------------------------------------------------------------------------
(* The phone's page.                                                       *)

\* The page as it is kept, field by field.
LEMMA Pages ==
  ASSUME NEW p \in Page
  PROVE  /\ p.know \in Row \cup {NoRow}
         /\ p.mediaRev \in {0} \cup Revs /\ p.readyRev \in {0} \cup Revs
         /\ p.flight \in {0} \cup Revs
         /\ \A r \in Row \cup {NoRow} : [p EXCEPT !.know = r] \in Page
         /\ \A v \in {0} \cup Revs :
              /\ [p EXCEPT !.mediaRev = v] \in Page /\ [p EXCEPT !.readyRev = v] \in Page
              /\ [p EXCEPT !.flight = v] \in Page
         /\ \A b \in BOOLEAN :
              /\ [p EXCEPT !.open = b] \in Page /\ [p EXCEPT !.joined = b] \in Page
              /\ [p EXCEPT !.offer = b] \in Page /\ [p EXCEPT !.answering = b] \in Page
              /\ [p EXCEPT !.media = b] \in Page
BY DEF Page

LEMMA ClosedPage == ASSUME NEW p \in Page PROVE Closed(p) \in Page
BY DEF Closed, Page

LEMMA FinishedPage ==
  ASSUME NEW p \in Page, NEW t \in Task PROVE Finished(t, p) \in Page
BY DEF Finished, Page

\* A call that starts has yet to get its ticket, and is for a row.
LEMMA EnsuredKept ==
  ASSUME PageTyped, NEW p \in Page, p.know \in Row, Ensured(p)
  PROVE  PageTyped'
<1> DEFINE new == [for |-> p.know.rev, pc |-> "ticket", ticket |-> 0]
<1>1. p.know.rev \in Revs
  BY DEF Row
<1>2. new \in Task
  BY <1>1 DEF Task
<1>3. page' \in Page
  <2>1. p.know.rev \in {0} \cup Revs
    BY <1>1
  <2>2. [p EXCEPT !.flight = p.know.rev] \in Page
    BY <2>1, Pages
  <2>3. page' = p \/ page' = [p EXCEPT !.flight = p.know.rev]
    BY DEF Ensured
  <2> QED BY <2>2, <2>3
<1>4. tasks' = tasks \/ tasks' = tasks \cup {new}
  BY DEF Ensured
<1> HIDE DEF new
<1>5. new.pc # "send"
  BY DEF new
<1> QED BY <1>2, <1>3, <1>4, <1>5 DEF PageTyped, Ticketed

LEMMA FewerTasks ==
  ASSUME PageTyped, page' \in Page, tasks' \subseteq tasks PROVE PageTyped'
BY DEF PageTyped, Ticketed

\* What the page negotiates is a row.
LEMMA NegotiatingRow ==
  ASSUME page \in Page, Negotiating PROVE page.know \in Row
<1>1. page.know \in Row \cup {NoRow} /\ page.know.state \in Negotiation
  BY Pages DEF Negotiating
<1>2. NoRow.state \notin Negotiation
  BY DEF NoRow, Negotiation
<1> QED BY <1>1, <1>2

\* A call about the session makes the page's guards anew.
LEMMA EnsuredAnew ==
  ASSUME PageTyped, Negotiating, Ensured([page EXCEPT !.readyRev = 0])
  PROVE  PageTyped'
<1> DEFINE p == [page EXCEPT !.readyRev = 0]
<1>1. page \in Page /\ page.know \in Row
  BY NegotiatingRow DEF PageTyped
<1>2. p \in Page
  BY <1>1, Pages
<1>3. p.know = page.know
  BY <1>1 DEF Page
<1>4. Ensured(p)
  OBVIOUS
<1> HIDE DEF p
<1> QED BY <1>1, <1>2, <1>3, <1>4, EnsuredKept

LEMMA LearnKept == ASSUME BridgeInv, Learn PROVE BridgeInv'
<1>1. OnCourse /\ ProcessTyped /\ PageTyped /\ LinesTyped /\ LettingGo /\ drops \in 0..MaxDrops
  BY Parts
<1>2. row \in Row /\ row.rev \in Revs
  BY <1>1, RowMoves
<1> DEFINE p == [page EXCEPT !.know = row]
<1>3. p \in Page
  BY <1>1, <1>2, Pages DEF PageTyped
<1>4. p.know = row
  BY <1>1 DEF PageTyped, Page
<1> DEFINE q == [p EXCEPT !.mediaRev = row.rev]
<1>5. q \in Page /\ q.know = row
  <2> HIDE DEF p
  <2>1. q \in Page
    BY <1>2, <1>3, Pages
  <2>2. q.know = row
    BY <1>3, <1>4 DEF Page
  <2> QED BY <2>1, <2>2
<1>6. PageTyped'
  <2>1. IF row.state \in Negotiation THEN Ensured(q)
        ELSE page' = (IF row.state = "over" THEN Closed(p) ELSE p) /\ UNCHANGED tasks
    BY DEF Learn
  <2> HIDE DEF p, q
  <2>2. CASE row.state \in Negotiation
    BY <1>1, <1>2, <1>5, <2>1, <2>2, EnsuredKept
  <2>3. CASE row.state \notin Negotiation
    BY <1>1, <1>3, <2>1, <2>3, ClosedPage, FewerTasks
  <2> QED BY <2>2, <2>3
<1>7. UNCHANGED <<row, bridge, hub, drops>>
  BY DEF Learn
<1> QED BY <1>1, <1>6, <1>7, ProcessIdle, LinesIdle, RowIdle, PartsPrimed

LEMMA RetriesKept == ASSUME BridgeInv, Retry \/ RetryAfterError \/ Rejoin PROVE BridgeInv'
<1>1. OnCourse /\ ProcessTyped /\ PageTyped /\ LinesTyped /\ LettingGo /\ drops \in 0..MaxDrops
  BY Parts
<1>2. page \in Page
  BY <1>1 DEF PageTyped
<1>3. PageTyped'
  <2>1. CASE Retry
    BY <1>1, <2>1, EnsuredAnew DEF Retry
  <2>2. CASE RetryAfterError
    BY <1>1, <1>2, <2>2, NegotiatingRow, EnsuredKept DEF RetryAfterError
  <2>3. CASE Rejoin
    <3> DEFINE p == [page EXCEPT !.joined = TRUE]
               q == [p EXCEPT !.readyRev = 0]
    <3>1. p \in Page /\ p.know = page.know
      <4>1. p \in Page
        BY <1>2, Pages
      <4>2. p.know = page.know
        BY <1>2 DEF Page
      <4> QED BY <4>1, <4>2
    <3>2. q \in Page /\ q.know = p.know
      <4> HIDE DEF p
      <4> QED BY <3>1, Pages DEF Page
    <3>3. IF Negotiating THEN Ensured(q) ELSE page' = p /\ UNCHANGED tasks
      BY <2>3 DEF Rejoin
    <3> HIDE DEF p, q
    <3> QED BY <1>1, <1>2, <3>1, <3>2, <3>3, NegotiatingRow, EnsuredKept, FewerTasks
  <2> QED BY <2>1, <2>2, <2>3
<1>4. UNCHANGED <<row, bridge, hub, drops>>
  BY DEF Retry, RetryAfterError, Rejoin
<1> QED BY <1>1, <1>3, <1>4, ProcessIdle, LinesIdle, RowIdle, PartsPrimed

LEMMA ReceiveKept == ASSUME BridgeInv, Receive PROVE BridgeInv'
<1>1. OnCourse /\ ProcessTyped /\ PageTyped /\ LinesTyped /\ LettingGo /\ drops \in 0..MaxDrops
  BY Parts
<1>2. page \in Page
  BY <1>1 DEF PageTyped
<1> DEFINE p == [page EXCEPT !.readyRev = 0]
           q == [page EXCEPT !.offer = TRUE, !.answering = TRUE, !.media = TRUE]
<1>3. p \in Page /\ q \in Page
  BY <1>2 DEF Page
<1>4. PageTyped'
  <2>1. \/ Negotiating /\ Ensured(p)
        \/ UNCHANGED phone
        \/ page' \in {p, q} /\ UNCHANGED tasks
    BY DEF Receive
  <2>2. CASE Negotiating /\ Ensured(p)
    BY <1>1, <2>2, EnsuredAnew
  <2> HIDE DEF p, q
  <2>3. CASE UNCHANGED phone
    BY <1>1, <2>3, PageIdle
  <2>4. CASE page' \in {p, q} /\ UNCHANGED tasks
    BY <1>1, <1>3, <2>4, FewerTasks
  <2> QED BY <2>1, <2>2, <2>3, <2>4
<1>5. /\ toPhone # <<>> /\ toPhone' = Tail(toPhone)
      /\ UNCHANGED <<row, bridge, hostLine, toHost, line, drops>>
  BY DEF Receive
<1>6. LinesTyped'
  <2>1. toPhone' \in Seq(Msg) /\ Len(toPhone') <= Room
    BY <1>1, <1>5, ShorterFits DEF LinesTyped
  <2> QED BY <1>1, <1>5, <2>1 DEF LinesTyped
<1> QED BY <1>1, <1>4, <1>5, <1>6, ProcessIdle, RowIdle, PartsPrimed

LEMMA AnswerKept == ASSUME BridgeInv, Answer PROVE BridgeInv'
<1>1. OnCourse /\ ProcessTyped /\ PageTyped /\ LinesTyped /\ LettingGo /\ drops \in 0..MaxDrops
  BY Parts
<1>2. /\ page' = [page EXCEPT !.answering = FALSE]
      /\ toHost' = toHost \/ (Valid(line) /\ toHost' = ToHost("answer", line))
      /\ UNCHANGED <<row, bridge, tasks, hostLine, line, toPhone, drops>>
  BY DEF Answer
<1>3. PageTyped'
  <2>1. page' \in Page
    BY <1>1, <1>2, Pages DEF PageTyped
  <2> QED BY <1>1, <1>2, <2>1, FewerTasks
<1>4. Valid(line) => line \in Revs
  BY <1>1 DEF Valid, LinesTyped, OnCourse, Negotiation, Revs
<1>5. toHost' \in Seq(Msg) /\ Len(toHost') <= Room
  BY <1>1, <1>2, <1>4, ToHostFits DEF LinesTyped
<1>6. LinesTyped'
  BY <1>1, <1>2, <1>5 DEF LinesTyped
<1> QED BY <1>1, <1>2, <1>3, <1>6, ProcessIdle, RowIdle, PartsPrimed

LEMMA LeaveKept == ASSUME BridgeInv, Leave PROVE BridgeInv'
<1>1. OnCourse /\ ProcessTyped /\ PageTyped /\ LinesTyped /\ LettingGo /\ drops \in 0..MaxDrops
  BY Parts
<1>2. /\ row' = row \/ row' = Moved("over")
      /\ page' = [Closed(page) EXCEPT !.open = FALSE, !.know = NoRow]
      /\ tasks' = {} /\ toPhone' = <<>>
      /\ UNCHANGED <<bridge, hostLine, toHost, line, drops>>
  BY DEF Leave
<1>3. PageTyped'
  <2>1. Closed(page) \in Page
    BY <1>1, ClosedPage DEF PageTyped
  <2>2. page' \in Page
    BY <1>2, <2>1 DEF Page
  <2> QED BY <1>1, <1>2, <2>2, FewerTasks
<1>4. LinesTyped'
  <2>1. toPhone' \in Seq(Msg) /\ Len(toPhone') = 0
    BY <1>2
  <2>2. Len(toPhone') <= Room
    BY <2>1, BridgeParametersOK
  <2> QED BY <1>1, <1>2, <2>1, <2>2 DEF LinesTyped
<1>5. OnCourse'
  BY <1>1, <1>2, RowIdle, RowMoves DEF OnCourse
<1> QED BY <1>1, <1>2, <1>3, <1>4, <1>5, ProcessIdle, PartsPrimed

LEMMA BreakKept == ASSUME BridgeInv, Break PROVE BridgeInv'
<1>1. OnCourse /\ ProcessTyped /\ PageTyped /\ LinesTyped /\ LettingGo /\ drops \in 0..MaxDrops
  BY Parts
<1>2. /\ drops < MaxDrops /\ drops' = drops + 1
      /\ page' = [page EXCEPT !.joined = FALSE, !.readyRev = 0]
      /\ line' = 0 /\ toPhone' = <<>> /\ row' = RowWithout(line)
      /\ toHost' = toHost \/ toHost' = ToHost("left", row'.rev)
      /\ UNCHANGED <<bridge, tasks, hostLine>>
  BY DEF Break
<1>3. PageTyped'
  <2>1. page' \in Page
    BY <1>1, <1>2 DEF PageTyped, Page
  <2> QED BY <1>1, <1>2, <2>1, FewerTasks
<1>4. OnCourse'
  BY <1>1, <1>2, RowIdle, RowMoves DEF OnCourse
<1>5. row'.rev \in Revs
  BY <1>4 DEF OnCourse, Revs
<1>6. LinesTyped'
  <2>1. toPhone' \in Seq(Msg) /\ Len(toPhone') = 0
    BY <1>2
  <2>2. Len(toPhone') <= Room
    BY <2>1, BridgeParametersOK
  <2>3. toHost' \in Seq(Msg) /\ Len(toHost') <= Room
    BY <1>1, <1>2, <1>5, ToHostFits DEF LinesTyped
  <2> QED BY <1>1, <1>2, <2>1, <2>2, <2>3 DEF LinesTyped
<1>7. drops' \in 0..MaxDrops
  BY <1>1, <1>2, BridgeParametersOK
<1> QED BY <1>1, <1>2, <1>3, <1>4, <1>6, <1>7, ProcessIdle, PartsPrimed

LEMMA TaskKept ==
  ASSUME BridgeInv, NEW t \in tasks, GetTicket(t) \/ NoTicket(t) \/ SendReady(t)
  PROVE  BridgeInv'
<1>1. OnCourse /\ ProcessTyped /\ PageTyped /\ LinesTyped /\ LettingGo /\ drops \in 0..MaxDrops
  BY Parts
<1>2. page \in Page /\ t \in Task /\ Finished(t, page) \in Page
  BY <1>1, FinishedPage DEF PageTyped
<1>3. row.rev \in Revs
  BY <1>1, RowMoves
<1>4. UNCHANGED <<row, bridge, hostLine, drops>>
  BY DEF GetTicket, NoTicket, SendReady, hub
<1>5. CASE GetTicket(t)
  <2> DEFINE u == [t EXCEPT !.pc = "send", !.ticket = row.rev]
  <2>1. u \in Task /\ u.ticket = row.rev
    BY <1>2, <1>3 DEF Task
  <2>2. tasks' = (tasks \ {t}) \cup {u} /\ UNCHANGED <<page, hub>>
    BY <1>5 DEF GetTicket
  <2> HIDE DEF u
  <2>3. PageTyped'
    BY <1>1, <1>3, <2>1, <2>2 DEF PageTyped, Ticketed
  <2> QED BY <1>1, <1>4, <2>2, <2>3, ProcessIdle, LinesIdle, RowIdle, PartsPrimed
<1>6. CASE NoTicket(t)
  <2>1. tasks' \subseteq tasks /\ page' = Finished(t, page) /\ UNCHANGED hub
    BY <1>6 DEF NoTicket
  <2> QED BY <1>1, <1>2, <1>4, <2>1, FewerTasks, ProcessIdle, LinesIdle, RowIdle, PartsPrimed
<1>7. CASE SendReady(t)
  <2>1. t.ticket \in Revs
    BY <1>1, <1>7 DEF SendReady, PageTyped, Ticketed
  <2>2. page' \in Page
    <3> DEFINE f == Finished(t, page)
    <3>1. page' = f \/ page' = [f EXCEPT !.readyRev = t.ticket]
      BY <1>7 DEF SendReady
    <3> HIDE DEF f
    <3>2. f \in Page
      BY <1>2 DEF f
    <3>3. t.ticket \in {0} \cup Revs
      BY <2>1
    <3>4. [f EXCEPT !.readyRev = t.ticket] \in Page
      BY <3>2, <3>3, Pages
    <3> QED BY <3>1, <3>2, <3>4
  <2>3. PageTyped'
    BY <1>1, <1>7, <2>2, FewerTasks DEF SendReady
  <2>4. \/ line' = t.ticket /\ toHost' = ToHost("ready", t.ticket) /\ UNCHANGED toPhone
        \/ toPhone' = ToPhone("conflict", t.ticket) /\ UNCHANGED <<line, toHost>>
        \/ UNCHANGED <<line, toHost, toPhone>>
    BY <1>7 DEF SendReady, HubReady
  <2>5. LinesTyped'
    BY <1>1, <1>4, <2>1, <2>4, ToHostFits, ToPhoneFits DEF LinesTyped
  <2> QED BY <1>1, <1>4, <2>3, <2>5, ProcessIdle, RowIdle, PartsPrimed
<1> QED BY <1>5, <1>6, <1>7

-----------------------------------------------------------------------------
(* The theorems.                                                           *)

LEMMA BridgeStepInv == BridgeInv /\ [BridgeNext]_bridgeVars => BridgeInv'
<1> SUFFICES ASSUME BridgeInv, [BridgeNext]_bridgeVars PROVE BridgeInv'
  OBVIOUS
<1>1. CASE Join \/ SayReady \/ Gate \/ SendOffer \/ Await \/ MarkConnected \/ OpenPipe
             \/ StreamEnds \/ PipeBreaks
  BY <1>1, MainKept
<1>2. CASE WriteClash \/ EndSession \/ Kill
  BY <1>2, ProcessEnds
<1>3. CASE Watch \/ Read \/ Callback
  BY <1>3, WatchKept, ReadKept, CallbackKept
<1>4. CASE \E s \in {"connecting", "connected", "disconnected", "failed"} : PeerChanges(s)
  BY <1>4, PeerKept
<1>5. CASE \E k \in Keys : Input(k)
  BY <1>5, InputKept
<1>6. CASE Learn \/ Retry \/ RetryAfterError \/ Rejoin \/ Receive \/ Answer
  BY <1>6, LearnKept, RetriesKept, ReceiveKept, AnswerKept
<1>7. CASE Break \/ Leave \/ Lapse \/ HostLeaves
  BY <1>7, BreakKept, LeaveKept, LapseKept, HostLeavesKept
<1>8. CASE \E t \in tasks : GetTicket(t) \/ NoTicket(t) \/ SendReady(t)
  BY <1>8, TaskKept
<1>9. CASE UNCHANGED bridgeVars
  <2>1. OnCourse /\ ProcessTyped /\ PageTyped /\ LinesTyped /\ LettingGo /\ drops \in 0..MaxDrops
    BY Parts
  <2>2. UNCHANGED <<row, bridge, phone, hub, drops>>
    BY <1>9 DEF bridgeVars
  <2> QED BY <2>1, <2>2, ProcessIdle, PageIdle, LinesIdle, RowIdle, PartsPrimed
<1> QED BY <1>1, <1>2, <1>3, <1>4, <1>5, <1>6, <1>7, <1>8, <1>9 DEF BridgeNext, Bridge, Phone

\* The inductive invariant of the bridge, the hub and the page of a session.
THEOREM BridgeInvariance == BridgeSpec => []BridgeInv
BY BridgeInitInv, BridgeStepInv, PTL DEF BridgeSpec

\* The types hold whatever the capacities, the keys and the number of breaks:
\* connStateCh and the hub's channels never hold more than they can.
THEOREM BridgeTyped == BridgeSpec => []BridgeTypeOK
<1>1. BridgeInv => BridgeTypeOK
  BY DEF BridgeInv
<1> QED BY <1>1, BridgeInvariance, PTL

\* A bridge that ends by itself leaves no modifier pressed: nothing is pressed
\* once the connection is closed, and the callback that lets go, the last one, has
\* run by then (OnConnectionStateChange, releaseAllInput, endSession).
THEOREM LetGoInTheEnd == BridgeSpec => []ModifiersLetGo
<1>1. BridgeInv => ModifiersLetGo
  BY DEF BridgeInv, LettingGo, ModifiersLetGo
<1> QED BY <1>1, BridgeInvariance, PTL
=============================================================================
