--------------------------- MODULE Approvals_proofs ---------------------------
(***************************************************************************)
(* Proofs about Approvals for any sets of hooks, commands, rules and modes  *)
(* and any bounds on decisions under way and restarts.                      *)
(***************************************************************************)
EXTENDS Approvals, TLAPS

\* A level is one of three, whatever was asked about (Engine.Classify).
LEMMA LevelOfCall ==
  ASSUME NEW c, NEW m
  PROVE  Classify(c, m) \in Levels
BY DEF Classify, Levels

\* The permission mode gives one of three answers (EvaluatePermission).
LEMMA AnswerOfMode ==
  ASSUME NEW m, NEW l, NEW t
  PROVE  EvaluatePermission(m, l, t) \in Answers
BY DEF EvaluatePermission, Answers

\* A dangerous command that Classify does not call red is not blacklisted, and is
\* in the memory.
LEMMA HarmlessIsRemembered ==
  ASSUME NEW c \in ToolCalls, NEW m, Dangerous(c), Classify(c, m) # "red"
  PROVE  c.cmd \notin Blacklist /\ c.cmd \in m
BY DEF Dangerous, Classify

\* The invariant holds at the start.
LEMMA InitIInv == Init => IInv
<1> SUFFICES ASSUME Init PROVE IInv
  OBVIOUS
<1>1. TypeOK
  BY ParametersOK DEF Init, TypeOK, Handling, Record, Clock, NoRecord, NoCall, Quiet, Levels, Answers,
                      PermissionModes, Nobody
<1>2. ScanOK /\ MemoryIsEarned /\ toRemember \subseteq consented
  BY DEF Init, ScanOK, MemoryIsEarned
<1>3. \A h \in Hooks : Begun(h) /\ Judged(h) /\ Waivers(h) /\ Counted(h)
  BY ParametersOK DEF Init, Begun, Judged, Waivers, Counted, Untouched, NoRecord, Quiet
<1>4. VerdictIsTheRecord
  BY DEF Init, VerdictIsTheRecord
<1> QED
  BY <1>1, <1>2, <1>3, <1>4 DEF IInv

\* A hook asks: nothing it has consented to changes.
LEMMA AskPreserves ==
  ASSUME IInv, NEW h \in Hooks, NEW c \in ToolCalls, Ask(h, c)
  PROVE  IInv'
<1>1. TypeOK'
  <2>1. handler \in [Hooks -> Handling]
    BY DEF IInv, TypeOK
  <2>2. handler' \in [Hooks -> Handling]
    BY <2>1 DEF Ask, Handling
  <2> QED
    BY <2>2 DEF IInv, TypeOK, Ask, server, watch, ghosts
<1>2. ScanOK'
  BY DEF IInv, ScanOK, Ask, watch
<1>3. /\ h \notin consented /\ h \notin refused /\ Untouched(h) /\ hook[h] = "idle"
      /\ \A g \in Hooks : g # h => call'[g] = call[g] /\ hook'[g] = hook[g]
                                   /\ handler'[g] = handler[g]
      /\ call'[h] = c /\ hook'[h] = "asking" /\ handler'[h].pc = "classify"
      /\ UNCHANGED <<record, waived, alerts, restarts, consented, refused, memory, toRemember, scan>>
  BY DEF IInv, TypeOK, Ask, Begun, Untouched, server, watch, ghosts
<1>4. MemoryIsEarned' /\ (toRemember \subseteq consented)'
  BY <1>3 DEF IInv, TypeOK, MemoryIsEarned
<1>5. ASSUME NEW g \in Hooks
      PROVE  Begun(g)' /\ Judged(g)' /\ Waivers(g)' /\ Counted(g)'
  <2>1. Begun(g) /\ Judged(g) /\ Waivers(g) /\ Counted(g)
    BY DEF IInv
  <2>2. CASE g = h
    BY <1>3, <2>1, <2>2 DEF Begun, Judged, Waivers, Counted, Announced, Untouched, NoRecord
  <2>3. CASE g # h
    <3>1. Begun(g)' /\ Judged(g)' /\ Counted(g)'
      BY <1>3, <2>1, <2>3 DEF Begun, Judged, Counted, Announced, Untouched
    <3>2. Vouched(g) => Vouched(g)'
      BY <1>3, <2>3 DEF Vouched, IInv, TypeOK
    <3> QED
      BY <3>1, <3>2, <1>3, <2>1, <2>3 DEF Waivers
  <2> QED
    BY <2>2, <2>3
<1>6. VerdictIsTheRecord'
  BY <1>3 DEF IInv, VerdictIsTheRecord
<1> QED
  BY <1>1, <1>2, <1>4, <1>5, <1>6 DEF IInv

\* A step that leaves calls and consents alone earns what the memory holds and
\* vouches for what it vouched for.
LEMMA ConsentsStay ==
  ASSUME IInv, UNCHANGED <<call, memory, consented>>
  PROVE  /\ MemoryIsEarned'
         /\ \A g \in Hooks : Vouched(g) <=> Vouched(g)'
<1>1. MemoryIsEarned'
  BY DEF IInv, MemoryIsEarned
<1>2. \A g \in Hooks : Vouched(g) <=> Vouched(g)'
  BY DEF Vouched
<1> QED
  BY <1>1, <1>2

\* The level is judged: what is called harmless is, or was allowed before.
LEMMA JudgePreserves ==
  ASSUME IInv, NEW h \in Hooks, Judge(h)
  PROVE  IInv'
<1>1. Classify(call[h], memory) \in Levels
  BY LevelOfCall
<1>2. /\ handler[h].pc = "classify"
      /\ handler' = [handler EXCEPT ![h].pc = "create", ![h].level = Classify(call[h], memory)]
      /\ UNCHANGED <<record, clock, hook, call, mode, memory, decisions, toRemember, scan,
                     alerts, restarts, consented, refused, waived>>
  BY DEF Judge, server, watch, ghosts
<1>3. TypeOK'
  <2>1. handler \in [Hooks -> Handling]
    BY DEF IInv, TypeOK
  <2>2. handler' \in [Hooks -> Handling]
    BY <1>1, <1>2, <2>1 DEF Handling
  <2> QED
    BY <1>2, <2>2 DEF IInv, TypeOK
<1>4. ScanOK' /\ (toRemember \subseteq consented)' /\ VerdictIsTheRecord'
  BY <1>2 DEF IInv, ScanOK, VerdictIsTheRecord
<1>5. MemoryIsEarned' /\ \A g \in Hooks : Vouched(g) <=> Vouched(g)'
  BY <1>2, ConsentsStay
<1>6. /\ handler'[h].pc = "create" /\ handler'[h].level = Classify(call[h], memory)
      /\ \A g \in Hooks : g # h => handler'[g] = handler[g]
  BY <1>2 DEF IInv, TypeOK
<1>7. call[h] \in ToolCalls
  BY <1>2 DEF IInv, Begun
<1>8. Classify(call[h], memory) # "red" => Vouched(h)
  <2> SUFFICES ASSUME Classify(call[h], memory) # "red", Dangerous(call[h])
               PROVE  call[h].cmd \notin Blacklist /\ \E g \in consented : call[g].cmd = call[h].cmd
    BY DEF Vouched
  <2>1. call[h].cmd \notin Blacklist /\ call[h].cmd \in memory
    BY <1>7, HarmlessIsRemembered
  <2> QED
    BY <2>1 DEF IInv, MemoryIsEarned
<1>9. ASSUME NEW g \in Hooks
      PROVE  Begun(g)' /\ Judged(g)' /\ Waivers(g)' /\ Counted(g)'
  <2>1. Begun(g) /\ Judged(g) /\ Waivers(g) /\ Counted(g)
    BY DEF IInv
  <2>2. Begun(g)' /\ Judged(g)' /\ Counted(g)'
    BY <1>2, <1>6, <2>1 DEF Begun, Judged, Counted, Announced, Untouched
  <2>3. Waivers(g)'
    BY <1>2, <1>5, <1>6, <1>8, <2>1 DEF Waivers
  <2> QED
    BY <2>2, <2>3
<1> QED
  BY <1>3, <1>4, <1>5, <1>9 DEF IInv

\* The row of an approval is written for the first time.
LEMMA CreatePreserves ==
  ASSUME IInv, NEW h \in Hooks, CreateRecord(h)
  PROVE  IInv'
<1> DEFINE waiver == IF Answer(h) # "auto_approve" THEN "no"
                     ELSE IF handler[h].level = "red" THEN "mode" ELSE "level"
<1>1. Answer(h) \in Answers
  BY AnswerOfMode DEF Answer, Answers
<1>2. /\ handler[h].pc = "create" /\ Untouched(h) /\ hook[h] \in {"asking", "deny"}
      /\ handler'[h].pc = IF Answer(h) = "needs_approval" THEN "reply" ELSE "decide"
      /\ handler'[h].answer = Answer(h) /\ record'[h].decision = "pending"
      /\ record'[h].notified = record[h].notified
      /\ waived'[h] = waiver
      /\ \A g \in Hooks : g # h => /\ handler'[g] = handler[g] /\ record'[g] = record[g]
                                   /\ waived'[g] = waived[g]
      /\ UNCHANGED <<clock, hook, call, mode, memory, decisions, toRemember, scan,
                     alerts, restarts, consented, refused>>
  BY DEF CreateRecord, server, watch, IInv, TypeOK, Begun, Record
<1>3. TypeOK'
  <2>1. handler \in [Hooks -> Handling] /\ record \in [Hooks -> Record]
    BY DEF IInv, TypeOK
  <2>2. handler' \in [Hooks -> Handling]
    BY <1>1, <2>1 DEF CreateRecord, Handling
  <2>3. record' \in [Hooks -> Record]
    BY <2>1 DEF CreateRecord, Record
  <2>4. waived' \in [Hooks -> {"no", "level", "mode"}]
    BY DEF CreateRecord, IInv, TypeOK
  <2> QED
    BY <1>2, <2>2, <2>3, <2>4 DEF IInv, TypeOK
<1>4. ScanOK' /\ (toRemember \subseteq consented)'
  BY <1>2 DEF IInv, TypeOK, ScanOK, Untouched, NoRecord
<1>5. MemoryIsEarned' /\ \A g \in Hooks : Vouched(g) <=> Vouched(g)'
  BY <1>2, ConsentsStay
<1>6. ASSUME NEW g \in Hooks
      PROVE  Begun(g)' /\ Judged(g)' /\ Waivers(g)' /\ Counted(g)'
  <2>1. Begun(g) /\ Judged(g) /\ Waivers(g) /\ Counted(g) /\ restarts \in Nat
    BY DEF IInv, TypeOK
  <2>2. CASE g = h
    BY <1>2, <1>5, <2>1, <2>2 DEF Begun, Judged, Waivers, Counted, Announced, Untouched
  <2>3. CASE g # h
    BY <1>2, <1>5, <2>1, <2>3 DEF Begun, Judged, Waivers, Counted, Announced, Untouched
  <2> QED
    BY <2>2, <2>3
<1>7. VerdictIsTheRecord'
  BY <1>2 DEF IInv, VerdictIsTheRecord
<1> QED
  BY <1>3, <1>4, <1>5, <1>6, <1>7 DEF IInv

\* The automatic decision, which may fail, takes a pending row only.
LEMMA AutoDecidePreserves ==
  ASSUME IInv, NEW h \in Hooks, AutoDecide(h)
  PROVE  IInv'
<1>1. /\ handler[h].pc = "decide" /\ handler'[h].pc = "reply" /\ hook[h] \in {"asking", "deny"}
      /\ handler'[h].answer = handler[h].answer /\ handler'[h].level = handler[h].level
      /\ \A g \in Hooks : g # h => handler'[g] = handler[g] /\ record'[g] = record[g]
      /\ record'[h].notified = record[h].notified
      /\ \/ record'[h] = record[h]
         \/ record[h].decision = "pending" /\ record'[h].decision = Verdict(handler[h].answer)
      /\ UNCHANGED <<clock, hook, call, mode, memory, decisions, toRemember, scan,
                     alerts, restarts, consented, refused, waived>>
  BY DEF AutoDecide, server, watch, ghosts, IInv, TypeOK, Begun, Record
<1>2. TypeOK'
  <2>1. handler \in [Hooks -> Handling] /\ record \in [Hooks -> Record]
    BY DEF IInv, TypeOK
  <2>2. handler' \in [Hooks -> Handling]
    BY <2>1 DEF AutoDecide, Handling
  <2>3. record' \in [Hooks -> Record]
    BY <2>1 DEF AutoDecide, Verdict, Record
  <2> QED
    BY <1>1, <2>2, <2>3 DEF IInv, TypeOK
<1>3. ScanOK' /\ (toRemember \subseteq consented)'
  BY <1>1 DEF IInv, TypeOK, ScanOK
<1>4. MemoryIsEarned' /\ \A g \in Hooks : Vouched(g) <=> Vouched(g)'
  BY <1>1, ConsentsStay
<1>5. ASSUME NEW g \in Hooks
      PROVE  Begun(g)' /\ Judged(g)' /\ Waivers(g)' /\ Counted(g)'
  <2>1. Begun(g) /\ Judged(g) /\ Waivers(g) /\ Counted(g)
    BY DEF IInv
  <2>2. CASE g = h
    <3>1. Begun(g)' /\ Judged(g)'
      BY <1>1, <2>1, <2>2 DEF Begun, Judged, Untouched, Verdict, NoRecord
    <3>2. Waivers(g)' /\ Counted(g)'
      BY <1>1, <1>4, <2>1, <2>2 DEF Waivers, Counted, Announced, Verdict
    <3> QED
      BY <3>1, <3>2
  <2>3. CASE g # h
    BY <1>1, <1>4, <2>1, <2>3 DEF Begun, Judged, Waivers, Counted, Announced, Untouched
  <2> QED
    BY <2>2, <2>3
<1>6. VerdictIsTheRecord'
  BY <1>1 DEF IInv, VerdictIsTheRecord
<1> QED
  BY <1>2, <1>3, <1>4, <1>5, <1>6 DEF IInv

\* The reply, an aborted handler and a hook that gives up touch no row: a hook that
\* is told to go ahead was waived.
LEMMA HookMovesPreserves ==
  ASSUME IInv, NEW h \in Hooks, Reply(h) \/ Abort(h) \/ GiveUp(h)
  PROVE  IInv'
<1>1. /\ \/ /\ handler[h].pc = "reply" /\ handler'[h].pc = "idle"
            /\ \/ hook' = hook
               \/ /\ hook[h] = "asking"
                  /\ hook'[h] \in {"polling", "deny"}
                       \cup (IF handler[h].answer = "auto_approve" THEN {"allow"} ELSE {})
         \/ handler[h].pc # "idle" /\ hook[h] # "asking" /\ handler'[h].pc = "idle" /\ hook' = hook
         \/ hook[h] \in {"asking", "polling", "reading"} /\ hook'[h] = "deny" /\ handler' = handler
      /\ handler'[h].answer = handler[h].answer /\ handler'[h].level = handler[h].level
      /\ \A g \in Hooks : g # h => handler'[g] = handler[g] /\ hook'[g] = hook[g]
      /\ UNCHANGED <<record, clock, call, mode, memory, decisions, toRemember, scan,
                     alerts, restarts, consented, refused, waived>>
  BY DEF Reply, Abort, GiveUp, Verdict, server, watch, ghosts, IInv, TypeOK, Handling
<1>2. TypeOK'
  <2>1. handler \in [Hooks -> Handling]
    BY DEF IInv, TypeOK
  <2>2. handler' \in [Hooks -> Handling]
    BY <2>1 DEF Reply, Abort, GiveUp, Handling
  <2>3. hook' \in [Hooks -> {"idle", "asking", "polling", "reading", "allow", "deny"}]
    BY DEF Reply, Abort, GiveUp, Verdict, IInv, TypeOK
  <2> QED
    BY <1>1, <2>2, <2>3 DEF IInv, TypeOK
<1>3. ScanOK' /\ (toRemember \subseteq consented)'
  BY <1>1 DEF IInv, ScanOK
<1>4. MemoryIsEarned' /\ \A g \in Hooks : Vouched(g) <=> Vouched(g)'
  BY <1>1, ConsentsStay
<1>5. ASSUME NEW g \in Hooks
      PROVE  Begun(g)' /\ Judged(g)' /\ Waivers(g)' /\ Counted(g)'
  <2>1. Begun(g) /\ Judged(g) /\ Waivers(g) /\ Counted(g)
    BY DEF IInv
  <2>2. CASE g = h
    <3>1. Begun(g)'
      BY <1>1, <2>1, <2>2 DEF Begun, Untouched
    <3>2. Judged(g)' /\ Waivers(g)' /\ Counted(g)'
      BY <1>1, <1>4, <2>1, <2>2 DEF Judged, Waivers, Counted, Announced
    <3> QED
      BY <3>1, <3>2
  <2>3. CASE g # h
    BY <1>1, <1>4, <2>1, <2>3 DEF Begun, Judged, Waivers, Counted, Announced, Untouched
  <2> QED
    BY <2>2, <2>3
<1>6. VerdictIsTheRecord'
  BY <1>1, <1>5 DEF IInv, VerdictIsTheRecord, Judged
<1> QED
  BY <1>2, <1>3, <1>4, <1>5, <1>6 DEF IInv

\* Expiring a row, for a poll or for the scanner, or not being able to.
LEMMA ExpiredRows ==
  ASSUME TypeOK, NEW h \in Hooks
  PROVE  /\ Expired(h) \in [Hooks -> Record]
         /\ \A g \in Hooks : g # h => Expired(h)[g] = record[g]
         /\ Expired(h)[h].notified = record[h].notified
         /\ \/ Expired(h)[h] = record[h]
            \/ record[h].decision = "pending" /\ Expired(h)[h].decision = "timeout"
BY DEF TypeOK, Expired, Record

\* A poll or a scan expires a row, and at most takes a polling hook on.
LEMMA ExpiryPreserves ==
  ASSUME IInv, NEW h \in Hooks, record' = Expired(h), TypeOK', ScanOK',
         scan.pc = "mark" => scan'.pc = "mark" /\ scan'.cur = scan.cur,
         \A g \in Hooks : hook'[g] = hook[g] \/ (hook[g] = "polling" /\ hook'[g] = "reading"),
         UNCHANGED <<call, handler, memory, toRemember, alerts, restarts,
                     consented, refused, waived>>
  PROVE  IInv'
<1>1. /\ \A g \in Hooks : g # h => record'[g] = record[g]
      /\ record'[h].notified = record[h].notified
      /\ \/ record'[h] = record[h]
         \/ record[h].decision = "pending" /\ record'[h].decision = "timeout"
  BY ExpiredRows DEF IInv
<1>2. MemoryIsEarned' /\ \A g \in Hooks : Vouched(g) <=> Vouched(g)'
  BY ConsentsStay
<1>3. ASSUME NEW g \in Hooks
      PROVE  Begun(g)' /\ Judged(g)' /\ Waivers(g)' /\ Counted(g)'
  <2>1. Begun(g) /\ Judged(g) /\ Waivers(g) /\ Counted(g)
    BY DEF IInv
  <2>2. Begun(g)' /\ Judged(g)'
    BY <1>1, <2>1 DEF Begun, Judged, Untouched, NoRecord
  <2>3. Waivers(g)' /\ Counted(g)'
    BY <1>1, <1>2, <2>1 DEF Waivers, Counted, Announced
  <2> QED
    BY <2>2, <2>3
<1>4. VerdictIsTheRecord'
  BY <1>1 DEF IInv, VerdictIsTheRecord
<1>5. (toRemember \subseteq consented)'
  BY DEF IInv
<1> QED
  BY <1>2, <1>3, <1>4, <1>5 DEF IInv

\* The first statement of a poll: the row may expire.
LEMMA PollPreserves ==
  ASSUME IInv, NEW h \in Hooks, Poll(h)
  PROVE  IInv'
<1>1. /\ record' = Expired(h) /\ hook[h] = "polling" /\ hook'[h] = "reading"
      /\ \A g \in Hooks : g # h => hook'[g] = hook[g]
      /\ hook' \in [Hooks -> {"idle", "asking", "polling", "reading", "allow", "deny"}]
      /\ UNCHANGED <<clock, call, handler, mode, memory, decisions, toRemember, scan,
                     alerts, restarts, consented, refused, waived>>
  BY DEF Poll, server, watch, ghosts, IInv, TypeOK
<1>2. /\ \A g \in Hooks : g # h => record'[g] = record[g]
      /\ record'[h].notified = record[h].notified
      /\ \/ record'[h] = record[h]
         \/ record[h].decision = "pending" /\ record'[h].decision = "timeout"
      /\ record' \in [Hooks -> Record]
  BY <1>1, ExpiredRows DEF IInv
<1>3. TypeOK'
  BY <1>1, <1>2 DEF IInv, TypeOK
<1>4. ScanOK'
  BY <1>1, <1>2 DEF IInv, TypeOK, ScanOK
<1> QED
  BY <1>1, <1>3, <1>4, ExpiryPreserves

\* The second: the hook goes ahead if the row says so, and then it was waived or
\* consented to.
LEMMA PollReplyPreserves ==
  ASSUME IInv, NEW h \in Hooks, PollReply(h)
  PROVE  IInv'
<1>1. /\ hook[h] = "reading" /\ hook'[h] \in {"allow", "polling", "deny"}
      /\ hook'[h] = "allow" => record[h].decision = "allow"
      /\ \A g \in Hooks : g # h => hook'[g] = hook[g]
      /\ hook' \in [Hooks -> {"idle", "asking", "polling", "reading", "allow", "deny"}]
      /\ UNCHANGED <<record, clock, call, handler, mode, memory, decisions, toRemember, scan,
                     alerts, restarts, consented, refused, waived>>
  BY DEF PollReply, Seen, server, watch, ghosts, IInv, TypeOK
<1>2. TypeOK'
  BY <1>1 DEF IInv, TypeOK
<1>3. ScanOK' /\ (toRemember \subseteq consented)'
  BY <1>1 DEF IInv, ScanOK
<1>4. MemoryIsEarned' /\ \A g \in Hooks : Vouched(g) <=> Vouched(g)'
  BY <1>1, ConsentsStay
<1>5. ASSUME NEW g \in Hooks
      PROVE  Begun(g)' /\ Judged(g)' /\ Waivers(g)' /\ Counted(g)'
  <2>1. Begun(g) /\ Judged(g) /\ Waivers(g) /\ Counted(g)
    BY DEF IInv
  <2>2. Begun(g)' /\ Judged(g)'
    BY <1>1, <2>1 DEF Begun, Judged, Untouched
  <2>3. Waivers(g)' /\ Counted(g)'
    BY <1>1, <1>4, <2>1 DEF Waivers, Counted, Announced
  <2> QED
    BY <2>2, <2>3
<1>6. VerdictIsTheRecord'
  BY <1>1 DEF IInv, VerdictIsTheRecord, Judged
<1> QED
  BY <1>2, <1>3, <1>4, <1>5, <1>6 DEF IInv

\* A phone's decision on its way changes nothing yet.
LEMMA BeginDecidePreserves ==
  ASSUME IInv, NEW h \in Hooks, NEW d \in {"allow", "deny"}, BeginDecide(h, d)
  PROVE  IInv'
<1>1. /\ UNCHANGED <<record, clock, hook, call, handler, mode, memory, toRemember, scan,
                     alerts, restarts, consented, refused, waived>>
      /\ decisions' = decisions \cup {[h |-> h, decision |-> d, intime |-> clock[h] = "open"]}
  BY DEF BeginDecide, watch, ghosts
<1>2. TypeOK'
  <2>1. (clock[h] = "open") \in BOOLEAN
    OBVIOUS
  <2>2. [h |-> h, decision |-> d, intime |-> clock[h] = "open"]
          \in [h : Hooks, decision : {"allow", "deny"}, intime : BOOLEAN]
    BY <2>1, Zenon
  <2>3. decisions' \subseteq [h : Hooks, decision : {"allow", "deny"}, intime : BOOLEAN]
    BY <1>1, <2>2 DEF IInv, TypeOK
  <2> QED
    BY <1>1, <2>3 DEF IInv, TypeOK
<1> QED
  BY <1>1, <1>2 DEF IInv, ScanOK, MemoryIsEarned, VerdictIsTheRecord, Begun, Judged, Waivers,
                    Counted, Announced, Vouched, Untouched

\* A phone's decision settles a pending row, or does nothing.
LEMMA DecidePreserves ==
  ASSUME IInv, NEW d \in decisions, Decide(d)
  PROVE  IInv'
<1> DEFINE takes == d.intime /\ record[d.h].decision = "pending"
<1>1. d.h \in Hooks /\ d.decision \in {"allow", "deny"} /\ d.intime \in BOOLEAN
  BY DEF IInv, TypeOK
<1>2. /\ UNCHANGED <<clock, hook, call, handler, mode, memory, scan, alerts, restarts, waived>>
      /\ decisions' = decisions \ {d}
  BY DEF Decide, watch
<1>3. CASE ~takes
  <2>1. UNCHANGED <<record, toRemember, consented, refused>>
    BY <1>3 DEF Decide
  <2> QED
    BY <1>2, <2>1 DEF IInv, TypeOK, ScanOK, MemoryIsEarned, VerdictIsTheRecord, Begun, Judged,
                      Waivers, Counted, Announced, Vouched, Untouched
<1>4. CASE takes
  <2>1. /\ record[d.h].decision = "pending" /\ record'[d.h].decision = d.decision
        /\ record'[d.h].notified = record[d.h].notified
        /\ \A g \in Hooks : g # d.h => record'[g] = record[g]
        /\ record' \in [Hooks -> Record]
    BY <1>1, <1>4 DEF Decide, IInv, TypeOK, Record
  <2>2. /\ consented' = IF d.decision = "allow" THEN consented \cup {d.h} ELSE consented
        /\ refused' = IF d.decision = "deny" THEN refused \cup {d.h} ELSE refused
        /\ toRemember' = IF d.decision = "allow" THEN toRemember \cup {d.h} ELSE toRemember
    BY <1>4 DEF Decide
  <2>3. TypeOK'
    BY <1>1, <1>2, <2>1, <2>2 DEF IInv, TypeOK
  <2>4. ScanOK'
    BY <1>1, <1>2, <2>1 DEF IInv, TypeOK, ScanOK
  <2>5. MemoryIsEarned' /\ (toRemember \subseteq consented)'
    BY <1>2, <2>2 DEF IInv, MemoryIsEarned
  <2>6. \A g \in Hooks : Vouched(g) => Vouched(g)'
    BY <1>2, <2>2 DEF Vouched
  <2>7. ASSUME NEW g \in Hooks
        PROVE  Begun(g)' /\ Judged(g)' /\ Waivers(g)' /\ Counted(g)'
    <3>1. Begun(g) /\ Judged(g) /\ Waivers(g) /\ Counted(g)
      BY DEF IInv
    <3>2. Waivers(g)' /\ Counted(g)'
      BY <1>1, <1>2, <2>1, <2>6, <3>1 DEF Waivers, Counted, Announced
    <3>3. CASE g = d.h
      BY <1>1, <1>2, <2>1, <2>2, <3>1, <3>2, <3>3 DEF Begun, Judged, Untouched, NoRecord
    <3>4. CASE g # d.h
      BY <1>1, <1>2, <2>1, <2>2, <3>1, <3>2, <3>4 DEF Begun, Judged, Untouched
    <3> QED
      BY <3>3, <3>4
  <2>8. VerdictIsTheRecord'
    BY <1>1, <1>2, <2>1, <2>2 DEF IInv, VerdictIsTheRecord, Begun, Untouched
  <2> QED
    BY <2>3, <2>4, <2>5, <2>7, <2>8 DEF IInv
<1> QED
  BY <1>3, <1>4

\* What is remembered was allowed by the phone.
LEMMA RememberPreserves ==
  ASSUME IInv, NEW h \in toRemember, Remember(h)
  PROVE  IInv'
<1>1. /\ UNCHANGED <<record, clock, hook, call, handler, mode, decisions, scan,
                     alerts, restarts, consented, refused, waived>>
      /\ toRemember' = toRemember \ {h}
      /\ memory' = IF record[h].decision = "absent" THEN memory ELSE memory \cup {call[h].cmd}
      /\ h \in Hooks /\ h \in consented
  BY DEF Remember, watch, ghosts, IInv, TypeOK
<1>2. record[h].decision # "absent" => call[h].cmd \in Commands
  <2>1. record[h].decision # "absent" => call[h] \in ToolCalls
    BY <1>1 DEF IInv, Begun, Untouched, NoRecord
  <2> QED
    BY <2>1, ParametersOK DEF Calls
<1>3. TypeOK'
  BY <1>1, <1>2 DEF IInv, TypeOK
<1>4. MemoryIsEarned'
  BY <1>1 DEF IInv, MemoryIsEarned
<1> QED
  BY <1>1, <1>3, <1>4 DEF IInv, ScanOK, VerdictIsTheRecord, Begun, Judged, Waivers,
                    Counted, Announced, Vouched, Untouched

\* Clearing the history leaves what is pending, and nothing comes back.
LEMMA ClearHistoryPreserves ==
  ASSUME IInv, ClearHistory
  PROVE  IInv'
<1>1. /\ UNCHANGED <<clock, hook, call, handler, mode, memory, decisions, toRemember, scan,
                     alerts, restarts, consented, refused, waived>>
      /\ \A g \in Hooks : record'[g] = IF record[g].decision = "pending" THEN record[g] ELSE NoRecord
      /\ record' \in [Hooks -> Record]
  <2>1. record' = [h \in Hooks |-> IF record[h].decision = "pending" THEN record[h] ELSE NoRecord]
    BY DEF ClearHistory
  <2>2. NoRecord \in Record
    BY DEF NoRecord, Record
  <2> QED
    BY <2>1, <2>2 DEF ClearHistory, server, watch, ghosts, IInv, TypeOK
<1>2. TypeOK'
  BY <1>1 DEF IInv, TypeOK
<1>3. ScanOK' /\ (toRemember \subseteq consented)'
  BY <1>1 DEF IInv, TypeOK, ScanOK, NoRecord
<1>4. MemoryIsEarned' /\ \A g \in Hooks : Vouched(g) <=> Vouched(g)'
  BY <1>1, ConsentsStay
<1>5. ASSUME NEW g \in Hooks
      PROVE  Begun(g)' /\ Judged(g)' /\ Waivers(g)' /\ Counted(g)'
  <2>1. Begun(g) /\ Judged(g) /\ Waivers(g) /\ Counted(g)
    BY DEF IInv
  <2>2. Begun(g)' /\ Judged(g)'
    BY <1>1, <2>1 DEF Begun, Judged, Untouched, NoRecord
  <2>3. Waivers(g)' /\ Counted(g)'
    BY <1>1, <1>4, <2>1 DEF Waivers, Counted, Announced, NoRecord
  <2> QED
    BY <2>2, <2>3
<1>6. VerdictIsTheRecord'
  BY <1>1 DEF IInv, VerdictIsTheRecord, NoRecord
<1> QED
  BY <1>2, <1>3, <1>4, <1>5, <1>6 DEF IInv

\* Switching the mode and the passing of time change no row.
LEMMA SwitchElapsePreserves ==
  ASSUME IInv, (\E m \in Modes : SwitchMode(m)) \/ (\E h \in Hooks : Elapse(h))
  PROVE  IInv'
<1>1. /\ UNCHANGED <<record, hook, call, handler, memory, decisions, toRemember, scan,
                     alerts, restarts, consented, refused, waived>>
      /\ mode' \in PermissionModes /\ clock' \in [Hooks -> Clock]
  BY ParametersOK DEF SwitchMode, Elapse, server, watch, ghosts, IInv, TypeOK, Clock
<1>2. TypeOK'
  BY <1>1 DEF IInv, TypeOK
<1> QED
  BY <1>1, <1>2 DEF IInv, ScanOK, MemoryIsEarned, VerdictIsTheRecord, Begun, Judged, Waivers,
                    Counted, Announced, Vouched, Untouched

\* A scan lists rows without a mark.
LEMMA ScanListPreserves ==
  ASSUME IInv, ScanList
  PROVE  IInv'
<1>1. /\ UNCHANGED <<record, clock, hook, call, handler, mode, memory, decisions, toRemember,
                     alerts, restarts, consented, refused, waived>>
      /\ scan.pc = "idle" /\ scan' = [pc |-> "next", todo |-> ListTimedOut, cur |-> Nobody]
  BY DEF ScanList, server, ghosts
<1>2. \A g \in ListTimedOut : g \in Hooks /\ ~record[g].notified
  BY DEF ListTimedOut
<1>3. TypeOK'
  BY <1>1, <1>2 DEF IInv, TypeOK
<1>4. ScanOK'
  BY <1>1, <1>2 DEF ScanOK
<1> QED
  BY <1>1, <1>3, <1>4 DEF IInv, MemoryIsEarned, VerdictIsTheRecord, Begun, Judged, Waivers,
                    Counted, Announced, Vouched, Untouched

\* It takes one of them and expires it.
LEMMA ScanExpirePreserves ==
  ASSUME IInv, ScanExpire
  PROVE  IInv'
<1>1. PICK h \in scan.todo :
        record' = Expired(h) /\ scan' = [scan EXCEPT !.pc = "look", !.todo = @ \ {h}, !.cur = h]
  BY DEF ScanExpire
<1>2. /\ UNCHANGED <<clock, hook, call, handler, mode, memory, decisions, toRemember,
                     alerts, restarts, consented, refused, waived>>
      /\ scan.pc = "next" /\ h \in Hooks
      /\ scan \in [pc : {"idle", "next", "look", "mark"}, todo : SUBSET Hooks,
                   cur : Hooks \cup {Nobody}]
  BY DEF ScanExpire, server, ghosts, IInv, TypeOK
<1>3. /\ scan' \in [pc : {"idle", "next", "look", "mark"}, todo : SUBSET Hooks,
                   cur : Hooks \cup {Nobody}]
      /\ scan'.pc = "look" /\ scan'.todo = scan.todo \ {h} /\ scan'.cur = h
  BY <1>1, <1>2
<1>4. /\ record' \in [Hooks -> Record]
      /\ \A g \in Hooks : g # h => record'[g] = record[g]
      /\ record'[h].notified = record[h].notified
  BY <1>1, <1>2, ExpiredRows DEF IInv
<1>5. TypeOK'
  BY <1>2, <1>3, <1>4 DEF IInv, TypeOK
<1>6. ScanOK'
  BY <1>2, <1>3, <1>4 DEF IInv, TypeOK, ScanOK
<1> QED
  BY <1>1, <1>2, <1>5, <1>6, ExpiryPreserves

\* An announcement: the row has no mark, and none was made without a restart.
LEMMA ScanAlertPreserves ==
  ASSUME IInv, ScanAlert
  PROVE  IInv'
<1>1. /\ UNCHANGED <<record, clock, hook, call, handler, mode, memory, decisions, toRemember,
                     restarts, consented, refused, waived>>
      /\ scan.pc = "look" /\ scan.cur \in Hooks /\ scan.cur \notin scan.todo
      /\ ~record[scan.cur].notified /\ restarts \in Nat
      /\ scan \in [pc : {"idle", "next", "look", "mark"}, todo : SUBSET Hooks,
                   cur : Hooks \cup {Nobody}]
  BY DEF ScanAlert, server, ghosts, IInv, ScanOK, TypeOK
<1>2. CASE record[scan.cur].decision \in {"deny", "timeout"}
  <2>1. /\ alerts' = [alerts EXCEPT ![scan.cur] = @ + 1]
        /\ scan' = [scan EXCEPT !.pc = "mark"]
    BY <1>2 DEF ScanAlert
  <2>2. scan'.pc = "mark" /\ scan'.todo = scan.todo /\ scan'.cur = scan.cur
    BY <1>1, <2>1
  <2>3. TypeOK'
    BY <1>1, <2>1 DEF IInv, TypeOK
  <2>4. ScanOK'
    BY <1>1, <2>2 DEF IInv, ScanOK
  <2>5. ASSUME NEW g \in Hooks
        PROVE  Begun(g)' /\ Judged(g)' /\ Waivers(g)' /\ Counted(g)'
    <3>1. Begun(g) /\ Judged(g) /\ Waivers(g) /\ Counted(g) /\ alerts[g] \in Nat
      BY DEF IInv, TypeOK
    <3>2. Waivers(g)' /\ Judged(g)'
      BY <1>1, <3>1 DEF Waivers, Judged, Vouched
    <3>3. CASE g = scan.cur
      <4>1. alerts[g] <= restarts /\ alerts'[g] = alerts[g] + 1
        BY <1>1, <1>2, <2>1, <3>1, <3>3 DEF Counted, Announced, IInv, TypeOK
      <4>2. Counted(g)'
        BY <1>1, <2>2, <3>1, <3>3, <4>1 DEF Counted, Announced
      <4>3. Begun(g)'
        BY <1>1, <1>2, <3>1, <3>3 DEF Begun, Untouched, NoRecord
      <4> QED
        BY <3>2, <4>2, <4>3
    <3>4. CASE g # scan.cur
      <4>1. alerts'[g] = alerts[g]
        BY <2>1, <3>4 DEF IInv, TypeOK
      <4> QED
        BY <1>1, <3>1, <3>2, <3>4, <4>1 DEF Begun, Counted, Announced, Untouched
    <3> QED
      BY <3>3, <3>4
  <2> QED
    BY <1>1, <2>3, <2>4, <2>5 DEF IInv, MemoryIsEarned, VerdictIsTheRecord
<1>3. CASE record[scan.cur].decision \notin {"deny", "timeout"}
  <2>1. /\ alerts' = alerts
        /\ scan' = [scan EXCEPT !.pc = Further(scan.todo), !.cur = Nobody]
    BY <1>3 DEF ScanAlert
  <2>2. scan'.pc \in {"idle", "next"} /\ scan'.todo = scan.todo
    BY <1>1, <2>1 DEF Further
  <2>3. TypeOK'
    BY <1>1, <2>1 DEF IInv, TypeOK, Further
  <2>4. ScanOK'
    BY <1>1, <2>2 DEF IInv, ScanOK
  <2> QED
    BY <1>1, <2>1, <2>3, <2>4 DEF IInv, MemoryIsEarned, VerdictIsTheRecord, Begun, Judged,
                      Waivers, Counted, Announced, Vouched, Untouched
<1> QED
  BY <1>2, <1>3

\* The mark: what is announced stays so.
LEMMA ScanMarkPreserves ==
  ASSUME IInv, ScanMark
  PROVE  IInv'
<1>1. /\ UNCHANGED <<clock, hook, call, handler, mode, memory, decisions, toRemember, alerts,
                     restarts, consented, refused, waived>>
      /\ scan.pc = "mark" /\ scan.cur \in Hooks /\ scan.cur \notin scan.todo
      /\ scan' = [scan EXCEPT !.pc = Further(scan.todo), !.cur = Nobody]
      /\ scan \in [pc : {"idle", "next", "look", "mark"}, todo : SUBSET Hooks,
                   cur : Hooks \cup {Nobody}]
  BY DEF ScanMark, server, ghosts, IInv, ScanOK, TypeOK
<1>2. scan'.pc \in {"idle", "next"} /\ scan'.todo = scan.todo
  BY <1>1 DEF Further
<1>3. /\ \A g \in Hooks : g # scan.cur => record'[g] = record[g]
      /\ record'[scan.cur].decision = record[scan.cur].decision
      /\ \/ record[scan.cur].decision = "absent" /\ record'[scan.cur] = record[scan.cur]
         \/ record'[scan.cur].notified /\ record[scan.cur].decision # "absent"
      /\ record' \in [Hooks -> Record]
  <2>1. record \in [Hooks -> Record]
    BY DEF IInv, TypeOK
  <2>2. CASE record[scan.cur].decision = "absent"
    <3>1. record' = record
      BY <2>2 DEF ScanMark
    <3> QED
      BY <2>1, <2>2, <3>1
  <2>3. CASE record[scan.cur].decision # "absent"
    <3>1. record' = [record EXCEPT ![scan.cur].notified = TRUE]
      BY <2>3 DEF ScanMark
    <3> DEFINE c == scan.cur
    <3>2. c \in Hooks /\ record' = [record EXCEPT ![c].notified = TRUE]
      BY <1>1, <3>1
    <3> HIDE DEF c
    <3>3. /\ \A g \in Hooks : g # c => record'[g] = record[g]
          /\ record'[c].decision = record[c].decision /\ record'[c].notified
          /\ record' \in [Hooks -> Record]
      BY <2>1, <3>2 DEF Record
    <3> QED
      BY <2>3, <3>3 DEF c
  <2> QED
    BY <2>2, <2>3
<1>4. TypeOK'
  <2>1. scan' \in [pc : {"idle", "next", "look", "mark"}, todo : SUBSET Hooks,
                   cur : Hooks \cup {Nobody}]
    BY <1>1 DEF Further
  <2> QED
    BY <1>1, <1>3, <2>1 DEF IInv, TypeOK
<1>5. ScanOK' /\ (toRemember \subseteq consented)'
  BY <1>1, <1>2, <1>3 DEF IInv, TypeOK, ScanOK
<1>6. MemoryIsEarned' /\ \A g \in Hooks : Vouched(g) <=> Vouched(g)'
  BY <1>1, ConsentsStay
<1>7. ASSUME NEW g \in Hooks
      PROVE  Begun(g)' /\ Judged(g)' /\ Waivers(g)' /\ Counted(g)'
  <2>1. Begun(g) /\ Judged(g) /\ Waivers(g) /\ Counted(g)
    BY DEF IInv
  <2>2. Begun(g)' /\ Judged(g)'
    BY <1>1, <1>3, <2>1 DEF Begun, Judged, Untouched, NoRecord
  <2>3. Waivers(g)' /\ Counted(g)'
    BY <1>1, <1>3, <1>6, <2>1 DEF Waivers, Counted, Announced
  <2> QED
    BY <2>2, <2>3
<1>8. VerdictIsTheRecord'
  BY <1>1, <1>3 DEF IInv, VerdictIsTheRecord
<1> QED
  BY <1>4, <1>5, <1>6, <1>7, <1>8 DEF IInv

\* A restart forgets handlers, decisions and the scan; one more alert is possible.
LEMMA RestartPreserves ==
  ASSUME IInv, Restart
  PROVE  IInv'
<1>1. /\ UNCHANGED <<record, clock, hook, call, memory, alerts, consented, refused, waived>>
      /\ restarts' = restarts + 1 /\ restarts < MaxRestarts /\ restarts \in Nat
      /\ mode' = "default" /\ decisions' = {} /\ toRemember' = {}
      /\ scan' = [pc |-> "idle", todo |-> {}, cur |-> Nobody]
      /\ \A g \in Hooks : /\ handler'[g].pc = "idle" /\ handler'[g].level = handler[g].level
                          /\ handler'[g].answer = handler[g].answer
      /\ handler' \in [Hooks -> Handling]
  <2>1. handler \in [Hooks -> Handling] /\ restarts \in Nat
    BY DEF IInv, TypeOK
  <2>2. /\ UNCHANGED <<record, clock, hook, call, memory, alerts, consented, refused, waived>>
        /\ restarts' = restarts + 1 /\ restarts < MaxRestarts
        /\ mode' = "default" /\ decisions' = {} /\ toRemember' = {}
        /\ scan' = [pc |-> "idle", todo |-> {}, cur |-> Nobody]
        /\ handler' = [g \in Hooks |-> [handler[g] EXCEPT !.pc = "idle"]]
    BY DEF Restart, ghosts
  <2>3. \A g \in Hooks : /\ handler'[g].pc = "idle" /\ handler'[g].level = handler[g].level
                        /\ handler'[g].answer = handler[g].answer
                        /\ handler'[g] \in Handling
    BY <2>1, <2>2 DEF Handling
  <2>4. handler' \in [Hooks -> Handling]
    BY <2>2, <2>3
  <2> QED
    BY <2>1, <2>2, <2>3, <2>4
<1>2. TypeOK'
  BY <1>1, ParametersOK DEF IInv, TypeOK, PermissionModes
<1>3. ScanOK' /\ (toRemember \subseteq consented)'
  BY <1>1 DEF ScanOK
<1>4. MemoryIsEarned' /\ \A g \in Hooks : Vouched(g) <=> Vouched(g)'
  BY <1>1, ConsentsStay
<1>5. ASSUME NEW g \in Hooks
      PROVE  Begun(g)' /\ Judged(g)' /\ Waivers(g)' /\ Counted(g)'
  <2>1. Begun(g) /\ Judged(g) /\ Waivers(g) /\ Counted(g) /\ alerts[g] \in Nat
    BY DEF IInv, TypeOK
  <2>2. Begun(g)' /\ Judged(g)'
    BY <1>1, <2>1 DEF Begun, Judged, Untouched
  <2>3. Waivers(g)' /\ Counted(g)'
    BY <1>1, <1>4, <2>1 DEF Waivers, Counted
  <2> QED
    BY <2>2, <2>3
<1>6. VerdictIsTheRecord'
  BY <1>1 DEF IInv, VerdictIsTheRecord
<1> QED
  BY <1>2, <1>3, <1>4, <1>5, <1>6 DEF IInv

\* Every step keeps the invariant: one case per action.
LEMMA NextPreserves == IInv /\ [Next]_vars => IInv'
<1> SUFFICES ASSUME IInv, [Next]_vars PROVE IInv'
  OBVIOUS
<1>1. ASSUME NEW h \in Hooks, NEW c \in ToolCalls, Ask(h, c) PROVE IInv'
  BY <1>1, AskPreserves
<1>2. ASSUME NEW h \in Hooks, HandlerStep(h) PROVE IInv'
  BY <1>2, JudgePreserves, CreatePreserves, AutoDecidePreserves, HookMovesPreserves
     DEF HandlerStep
<1>3. ASSUME NEW h \in Hooks, HookStep(h) PROVE IInv'
  BY <1>3, HookMovesPreserves, PollPreserves, PollReplyPreserves DEF HookStep
<1>4. ASSUME NEW h \in Hooks, Elapse(h) PROVE IInv'
  BY <1>4, SwitchElapsePreserves
<1>5. ASSUME NEW h \in Hooks, NEW d \in {"allow", "deny"}, BeginDecide(h, d) PROVE IInv'
  BY <1>5, BeginDecidePreserves
<1>6. ASSUME NEW d \in decisions, Decide(d) PROVE IInv'
  BY <1>6, DecidePreserves
<1>7. ASSUME NEW h \in toRemember, Remember(h) PROVE IInv'
  BY <1>7, RememberPreserves
<1>8. ASSUME NEW m \in Modes, SwitchMode(m) PROVE IInv'
  BY <1>8, SwitchElapsePreserves
<1>9. CASE ClearHistory
  BY <1>9, ClearHistoryPreserves
<1>10. CASE Scanner
  BY <1>10, ScanListPreserves, ScanExpirePreserves, ScanAlertPreserves, ScanMarkPreserves
     DEF Scanner
<1>11. CASE Restart
  BY <1>11, RestartPreserves
<1>12. CASE UNCHANGED vars
  <2>1. TypeOK' /\ ScanOK' /\ MemoryIsEarned' /\ (toRemember \subseteq consented)'
    BY <1>12 DEF vars, IInv, TypeOK, ScanOK, MemoryIsEarned
  <2>2. \A g \in Hooks : Begun(g)' /\ Judged(g)' /\ Waivers(g)' /\ Counted(g)'
    BY <1>12 DEF vars, IInv, Begun, Judged, Waivers, Counted, Announced, Untouched, Vouched
  <2>3. VerdictIsTheRecord'
    BY <1>12 DEF vars, IInv, VerdictIsTheRecord
  <2> QED
    BY <2>1, <2>2, <2>3 DEF IInv
<1> QED
  BY <1>1, <1>2, <1>3, <1>4, <1>5, <1>6, <1>7, <1>8, <1>9, <1>10, <1>11, <1>12 DEF Next

\* The inductive invariant holds in every reachable state.
THEOREM Invariance == Spec => []IInv
BY InitIInv, NextPreserves, PTL DEF Spec

\* Every variable keeps its type.
THEOREM TypeCorrect == Spec => []TypeOK
<1>1. IInv => TypeOK
  BY DEF IInv
<1> QED
  BY <1>1, Invariance, PTL

\* What the phone was asked about runs only as the phone has answered.
THEOREM Recorded == Spec => []VerdictIsTheRecord
<1>1. IInv => VerdictIsTheRecord
  BY DEF IInv
<1> QED
  BY <1>1, Invariance, PTL

\* The memory of commands holds only what a phone allowed.
THEOREM Earned == Spec => []MemoryIsEarned
<1>1. IInv => MemoryIsEarned
  BY DEF IInv
<1> QED
  BY <1>1, Invariance, PTL

\* An approval is announced once, and once more for every restart at worst.
THEOREM Bounded == Spec => []AlertsBounded
<1>1. ASSUME IInv PROVE AlertsBounded
  <2> SUFFICES ASSUME NEW h \in Hooks PROVE alerts[h] <= 1 + restarts
    BY DEF AlertsBounded
  <2>1. alerts[h] \in Nat /\ restarts \in Nat
    BY <1>1, ParametersOK DEF IInv, TypeOK
  <2>2. Counted(h)
    BY <1>1 DEF IInv
  <2> QED
    BY <2>1, <2>2 DEF Counted
<1> QED
  BY <1>1, Invariance, PTL

\* No dangerous call runs without a phone's consent to it, to the same command
\* before, or the permission mode.
THEOREM Consent == Spec => []DangerNeedsConsent
<1>1. ASSUME IInv PROVE DangerNeedsConsent
  <2> SUFFICES ASSUME NEW h \in Hooks, hook[h] = "allow", Dangerous(call[h])
               PROVE  \/ h \in consented
                      \/ waived[h] = "mode"
                      \/ /\ call[h].cmd \notin Blacklist
                         /\ \E g \in consented : call[g].cmd = call[h].cmd
    BY DEF DangerNeedsConsent
  <2>1. waived[h] \in {"no", "level", "mode"}
    BY <1>1 DEF IInv, TypeOK
  <2>2. CASE waived[h] = "no"
    BY <1>1, <2>2 DEF IInv, VerdictIsTheRecord
  <2>3. CASE waived[h] = "level"
    BY <1>1, <2>3 DEF IInv, Waivers, Vouched
  <2> QED
    BY <2>1, <2>2, <2>3
<1> QED
  BY <1>1, Invariance, PTL

\* A step leaves a settled approval as it is, or clears it: whatever writes a
\* decision writes to a pending row, and a new row is a hook's first.
LEMMA SettledStays ==
  ASSUME IInv, [Next]_vars, NEW h \in Hooks, record[h].decision \in Settled
  PROVE  record'[h].decision \in {record[h].decision, "absent"}
<1>1. record \in [Hooks -> Record] /\ record[h].decision \notin {"absent", "pending"}
  BY DEF IInv, TypeOK, Settled
<1>2. ASSUME NEW g \in Hooks, CreateRecord(g) PROVE record'[h] = record[h]
  <2>1. Untouched(g)
    BY <1>2 DEF CreateRecord, IInv, Begun
  <2>2. g # h
    BY <1>1, <2>1 DEF Untouched, NoRecord
  <2> QED
    BY <1>1, <1>2, <2>2 DEF CreateRecord
<1>3. ASSUME NEW g \in Hooks, AutoDecide(g) PROVE record'[h] = record[h]
  BY <1>1, <1>3 DEF AutoDecide
<1>4. ASSUME NEW g \in Hooks, record' = Expired(g) PROVE record'[h] = record[h]
  BY <1>1, <1>4 DEF Expired
<1>5. ASSUME NEW d \in decisions, Decide(d) PROVE record'[h] = record[h]
  <2>1. d.h \in Hooks
    BY DEF IInv, TypeOK
  <2> QED
    BY <1>1, <1>5, <2>1 DEF Decide
<1>6. ASSUME ClearHistory PROVE record'[h].decision \in {record[h].decision, "absent"}
  BY <1>1, <1>6 DEF ClearHistory, NoRecord
<1>7. ASSUME ScanMark PROVE record'[h].decision = record[h].decision
  <2>1. scan.cur \in Hooks
    BY <1>7 DEF ScanMark, IInv, ScanOK
  <2> QED
    BY <1>1, <1>7, <2>1 DEF ScanMark, Record
<1>8. ASSUME ScanExpire PROVE record'[h] = record[h]
  BY <1>4, <1>8 DEF ScanExpire, IInv, TypeOK
<1>9. ASSUME NEW g \in Hooks, Poll(g) PROVE record'[h] = record[h]
  BY <1>4, <1>9 DEF Poll
<1>10. ASSUME NEW g \in Hooks,
              (\E c \in ToolCalls : Ask(g, c)) \/ Judge(g) \/ Reply(g) \/ Abort(g) \/ GiveUp(g)
                \/ PollReply(g) \/ Elapse(g) \/ (\E d \in {"allow", "deny"} : BeginDecide(g, d))
                \/ Remember(g)
       PROVE  UNCHANGED record
  BY <1>10 DEF Ask, Judge, Reply, Abort, GiveUp, PollReply, Elapse, BeginDecide, Remember
<1>11. ASSUME (\E m \in Modes : SwitchMode(m)) \/ ScanList \/ ScanAlert \/ Restart
       PROVE  UNCHANGED record
  BY <1>11 DEF SwitchMode, ScanList, ScanAlert, Restart
<1>12. CASE UNCHANGED vars
  BY <1>12 DEF vars
<1>13. toRemember \subseteq Hooks
  BY DEF IInv, TypeOK
<1> QED
  BY <1>2, <1>3, <1>5, <1>6, <1>7, <1>8, <1>9, <1>10, <1>11, <1>12, <1>13
     DEF Next, HandlerStep, HookStep, Scanner

\* One approval is settled once, whoever else decides, expires or marks it.
THEOREM Final == Spec => DecisionIsFinal
<1> DEFINE Kept == \A h \in Hooks :
                     record[h].decision \in Settled =>
                       record'[h].decision \in {record[h].decision, "absent"}
<1>1. IInv /\ [Next]_vars => [Kept]_vars
  BY SettledStays
<1> QED
  BY <1>1, Invariance, PTL DEF Spec, DecisionIsFinal
-----------------------------------------------------------------------------
(* Approvals implements ApprovalPromise.                                   *)

\* The promise judges calls as the server does.
LEMMA SameJudgement ==
  /\ \A c : Promise!Dangerous(c) = Dangerous(c)
  /\ Promise!Blacklist = Blacklist
  /\ \A m, l, t : Promise!EvaluatePermission(m, l, t) = EvaluatePermission(m, l, t)
BY DEF Promise!Dangerous, Dangerous, Promise!Blacklist, Blacklist,
       Promise!EvaluatePermission, EvaluatePermission

LEMMA OutcomeOf ==
  /\ Outcome("idle") = "none" /\ Outcome("allow") = "run" /\ Outcome("deny") = "stop"
  /\ \A state \in {"asking", "polling", "reading"} : Outcome(state) = "open"
BY DEF Outcome

\* What changes nothing that the promise is about.
LEMMA OutOfSight ==
  ASSUME UNCHANGED <<hook, call, mode, consented, refused, waived>>
  PROVE  UNCHANGED Promise!vars
BY DEF Promise!vars, outcomeOf, saidOf, waivedOf

\* A hook goes on, for better or worse.
LEMMA HookRefines ==
  ASSUME IInv, NEW h \in Hooks, NEW state \in {"polling", "reading", "allow", "deny"},
         hook[h] \in {"asking", "polling", "reading"},
         hook' = [hook EXCEPT ![h] = state],
         state = "allow" => h \in consented \/ waived[h] # "no",
         UNCHANGED <<call, mode, consented, refused, waived>>
  PROVE  [Promise!Next]_Promise!vars
<1>1. hook \in [Hooks -> {"idle", "asking", "polling", "reading", "allow", "deny"}]
  BY DEF IInv, TypeOK
<1>2. outcomeOf' = [outcomeOf EXCEPT ![h] = Outcome(state)] /\ outcomeOf[h] = "open"
  BY <1>1, OutcomeOf DEF outcomeOf
<1>3. UNCHANGED <<saidOf, waivedOf, call, mode>>
  BY DEF saidOf, waivedOf
<1>4. CASE state \in {"polling", "reading"}
  <2>1. [outcomeOf EXCEPT ![h] = "open"] = outcomeOf
    BY <1>2 DEF outcomeOf
  <2> QED
    BY <1>2, <1>3, <1>4, <2>1, OutcomeOf DEF Promise!vars
<1>5. CASE state = "allow"
  <2>1. saidOf[h] = "allow" \/ waivedOf[h]
    BY <1>5 DEF saidOf, waivedOf
  <2>2. Promise!Run(h)
    BY <1>2, <1>3, <1>5, <2>1, OutcomeOf DEF Promise!Run
  <2> QED
    BY <2>2 DEF Promise!Next
<1>6. CASE state = "deny"
  <2>1. Promise!Stop(h)
    BY <1>2, <1>3, <1>6, OutcomeOf DEF Promise!Stop
  <2> QED
    BY <2>1 DEF Promise!Next
<1> QED
  BY <1>4, <1>5, <1>6

LEMMA AskRefines ==
  ASSUME IInv, NEW h \in Hooks, NEW c \in ToolCalls, Ask(h, c)
  PROVE  Promise!Next
<1>1. hook \in [Hooks -> {"idle", "asking", "polling", "reading", "allow", "deny"}]
      /\ hook[h] = "idle" /\ hook' = [hook EXCEPT ![h] = "asking"]
      /\ call' = [call EXCEPT ![h] = c] /\ UNCHANGED <<mode, consented, refused, waived>>
  BY DEF IInv, TypeOK, Ask, server, ghosts
<1>2. outcomeOf' = [outcomeOf EXCEPT ![h] = "open"] /\ outcomeOf[h] = "none"
  BY <1>1, OutcomeOf DEF outcomeOf
<1>3. UNCHANGED <<saidOf, waivedOf, mode>>
  BY <1>1 DEF saidOf, waivedOf
<1>4. Promise!Ask(h, c)
  BY <1>1, <1>2, <1>3 DEF Promise!Ask
<1> QED
  BY <1>4 DEF Promise!Next

\* What Create lets through need not be asked about.
LEMMA CreateRefines ==
  ASSUME IInv, NEW h \in Hooks, CreateRecord(h)
  PROVE  [Promise!Next]_Promise!vars
<1>1. /\ waived \in [Hooks -> {"no", "level", "mode"}] /\ consented \subseteq Hooks
      /\ Begun(h) /\ Waivers(h) /\ handler[h].pc = "create"
      /\ UNCHANGED <<hook, call, mode, consented, refused>>
  BY DEF IInv, TypeOK, CreateRecord, server
<1>2. /\ h \notin consented /\ h \notin refused /\ waived[h] = "no"
      /\ hook[h] \in {"asking", "deny"}
  BY <1>1 DEF Begun, Untouched
<1>3. waived' = [waived EXCEPT ![h] = IF Answer(h) # "auto_approve" THEN "no"
                                      ELSE IF handler[h].level = "red" THEN "mode" ELSE "level"]
  BY DEF CreateRecord
<1>4. CASE Answer(h) # "auto_approve"
  <2>1. waived' = waived
    BY <1>1, <1>2, <1>3, <1>4
  <2> QED
    BY <1>1, <2>1, OutOfSight
<1>5. CASE Answer(h) = "auto_approve"
  <2>1. /\ outcomeOf[h] # "none" /\ saidOf[h] = "nothing" /\ ~waivedOf[h]
    BY <1>2, OutcomeOf DEF outcomeOf, saidOf, waivedOf
  <2>2. waivedOf' = [waivedOf EXCEPT ![h] = TRUE]
    BY <1>1, <1>3, <1>5 DEF waivedOf
  <2>3. UNCHANGED <<outcomeOf, saidOf, call, mode>>
    BY <1>1 DEF outcomeOf, saidOf
  <2>4. \/ ~Promise!Dangerous(call[h])
        \/ Promise!Vouched(h)
        \/ Promise!EvaluatePermission(mode, "red", call[h].tool) = "auto_approve"
    <3>1. CASE handler[h].level = "red"
      BY <1>5, <3>1, SameJudgement DEF Answer
    <3>2. CASE handler[h].level # "red"
      <4>1. ~Dangerous(call[h]) \/ Vouched(h)
        BY <1>1, <3>2 DEF Waivers, Vouched
      <4>2. \A g \in consented : g \in Hooks /\ saidOf[g] = "allow"
        BY <1>1 DEF saidOf
      <4>3. Vouched(h) /\ Dangerous(call[h]) => Promise!Vouched(h)
        BY <4>2, SameJudgement DEF Vouched, Promise!Vouched
      <4> QED
        BY <4>1, <4>3, SameJudgement
    <3> QED
      BY <3>1, <3>2
  <2>5. Promise!Waive(h)
    BY <2>1, <2>2, <2>3, <2>4 DEF Promise!Waive
  <2> QED
    BY <2>5 DEF Promise!Next
<1> QED
  BY <1>4, <1>5

\* A phone's decision that takes effect is the first.
LEMMA DecideRefines ==
  ASSUME IInv, NEW d \in decisions, Decide(d)
  PROVE  [Promise!Next]_Promise!vars
<1>1. d.h \in Hooks /\ d.decision \in {"allow", "deny"}
      /\ UNCHANGED <<hook, call, mode, waived>>
  BY DEF IInv, TypeOK, Decide
<1>2. CASE ~(d.intime /\ record[d.h].decision = "pending")
  <2>1. UNCHANGED <<consented, refused>>
    BY <1>2 DEF Decide
  <2> QED
    BY <1>1, <2>1, OutOfSight
<1>3. CASE d.intime /\ record[d.h].decision = "pending"
  <2>1. d.h \notin consented /\ d.h \notin refused /\ hook[d.h] # "idle"
    BY <1>1, <1>3 DEF IInv, Judged, Begun, Untouched, NoRecord
  <2>2. hook[d.h] \in {"asking", "polling", "reading", "allow", "deny"}
    BY <1>1, <2>1 DEF IInv, TypeOK
  <2>3. outcomeOf[d.h] # "none" /\ saidOf[d.h] = "nothing"
    BY <1>1, <2>1, <2>2, OutcomeOf DEF outcomeOf, saidOf
  <2>4. saidOf' = [saidOf EXCEPT ![d.h] = d.decision]
    <3>1. CASE d.decision = "allow"
      <4>1. consented' = consented \cup {d.h} /\ refused' = refused
        BY <1>3, <3>1 DEF Decide
      <4> QED
        BY <2>1, <3>1, <4>1 DEF saidOf
    <3>2. CASE d.decision = "deny"
      <4>1. refused' = refused \cup {d.h} /\ consented' = consented
        BY <1>3, <3>2 DEF Decide
      <4> QED
        BY <2>1, <3>2, <4>1 DEF saidOf
    <3> QED
      BY <1>1, <3>1, <3>2
  <2>5. UNCHANGED <<outcomeOf, waivedOf, call, mode>>
    BY <1>1 DEF outcomeOf, waivedOf
  <2>6. Promise!Say(d.h, d.decision)
    BY <2>3, <2>4, <2>5 DEF Promise!Say
  <2> QED
    BY <1>1, <2>6 DEF Promise!Next
<1> QED
  BY <1>2, <1>3

LEMMA ModeRefines ==
  ASSUME NEW m \in Modes \cup {"default"}, mode' = m,
         UNCHANGED <<hook, call, consented, refused, waived>>
  PROVE  Promise!Next
<1>1. UNCHANGED <<outcomeOf, saidOf, waivedOf>>
  BY DEF outcomeOf, saidOf, waivedOf
<1>2. Promise!Switch(m)
  BY <1>1 DEF Promise!Switch
<1> QED
  BY <1>2 DEF Promise!Next

LEMMA StepRefines ==
  ASSUME IInv, [Next]_vars
  PROVE  [Promise!Next]_Promise!vars
<1>1. ASSUME NEW h \in Hooks, NEW c \in ToolCalls, Ask(h, c)
      PROVE  [Promise!Next]_Promise!vars
  BY <1>1, AskRefines
<1>2. ASSUME NEW h \in Hooks, Reply(h)
      PROVE  [Promise!Next]_Promise!vars
  <2>1. /\ handler[h].pc = "reply" /\ Judged(h)
        /\ UNCHANGED <<call, mode, consented, refused, waived>>
    BY <1>2 DEF Reply, IInv, server, ghosts
  <2>2. CASE hook' = hook
    BY <2>1, <2>2, OutOfSight
  <2>3. CASE hook[h] = "asking"
    <3> DEFINE state == IF handler[h].answer = "needs_approval" THEN "polling"
                        ELSE Verdict(handler[h].answer)
    <3>1. hook' = [hook EXCEPT ![h] = state]
      BY <1>2, <2>3 DEF Reply
    <3>2. state \in {"polling", "reading", "allow", "deny"}
      BY DEF Verdict
    <3>3. state = "allow" => waived[h] # "no"
      BY <2>1 DEF Verdict, Judged
    <3> HIDE DEF state
    <3> QED
      BY <2>1, <2>3, <3>1, <3>2, <3>3, HookRefines
  <2> QED
    BY <1>2, <2>2, <2>3 DEF Reply
<1>3. ASSUME NEW h \in Hooks, GiveUp(h) \/ Poll(h)
      PROVE  [Promise!Next]_Promise!vars
  <2>1. PICK state \in {"reading", "deny"} :
             /\ hook' = [hook EXCEPT ![h] = state]
             /\ hook[h] \in {"asking", "polling", "reading"}
             /\ UNCHANGED <<call, mode, consented, refused, waived>>
    BY <1>3 DEF GiveUp, Poll, server, ghosts
  <2> QED
    BY <2>1, HookRefines
<1>4. ASSUME NEW h \in Hooks, PollReply(h)
      PROVE  [Promise!Next]_Promise!vars
  <2> DEFINE state == Seen(record[h].decision)
  <2>1. /\ hook[h] = "reading" /\ hook' = [hook EXCEPT ![h] = state]
        /\ UNCHANGED <<call, mode, consented, refused, waived>>
    BY <1>4 DEF PollReply, server, ghosts
  <2>2. state \in {"polling", "reading", "allow", "deny"}
    BY DEF Seen
  <2>3. state = "allow" => h \in consented \/ waived[h] # "no"
    BY DEF Seen, IInv, Judged
  <2> HIDE DEF state
  <2> QED
    BY <2>1, <2>2, <2>3, HookRefines
<1>5. ASSUME NEW h \in Hooks, CreateRecord(h)
      PROVE  [Promise!Next]_Promise!vars
  BY <1>5, CreateRefines
<1>6. ASSUME NEW d \in decisions, Decide(d)
      PROVE  [Promise!Next]_Promise!vars
  BY <1>6, DecideRefines
<1>7. ASSUME (\E m \in Modes : SwitchMode(m)) \/ Restart
      PROVE  [Promise!Next]_Promise!vars
  <2>1. PICK m \in Modes \cup {"default"} :
             mode' = m /\ UNCHANGED <<hook, call, consented, refused, waived>>
    BY <1>7 DEF SwitchMode, Restart, ghosts
  <2> QED
    BY <2>1, ModeRefines
<1>8. ASSUME NEW h \in Hooks,
             Judge(h) \/ AutoDecide(h) \/ Abort(h) \/ Elapse(h) \/ Remember(h)
               \/ (\E d \in {"allow", "deny"} : BeginDecide(h, d))
      PROVE  [Promise!Next]_Promise!vars
  <2>1. UNCHANGED <<hook, call, mode, consented, refused, waived>>
    BY <1>8 DEF Judge, AutoDecide, Abort, Elapse, Remember, BeginDecide, server, ghosts
  <2> QED
    BY <2>1, OutOfSight
<1>9. ASSUME ClearHistory \/ Scanner \/ UNCHANGED vars
      PROVE  [Promise!Next]_Promise!vars
  <2>1. UNCHANGED <<hook, call, mode, consented, refused, waived>>
    BY <1>9 DEF ClearHistory, Scanner, ScanList, ScanExpire, ScanAlert, ScanMark, vars, server, ghosts
  <2> QED
    BY <2>1, OutOfSight
<1>10. toRemember \subseteq Hooks
  BY DEF IInv, TypeOK
<1> QED
  BY <1>1, <1>2, <1>3, <1>4, <1>5, <1>6, <1>7, <1>8, <1>9, <1>10 DEF Next, HandlerStep, HookStep

\* Whatever expires, crashes, is cleared or switched: a call runs only after one
\* answer of a phone that allows it, or if nobody had to be asked.
THEOREM Kept == Spec => PromiseKept
<1>1. Init => Promise!Init
  <2> SUFFICES ASSUME Init PROVE Promise!Init
    OBVIOUS
  <2>1. \A h \in Hooks : /\ hook[h] = "idle" /\ h \notin consented /\ h \notin refused
                        /\ waived[h] = "no"
    BY DEF Init
  <2>2. outcomeOf = [h \in Hooks |-> "none"]
    BY <2>1, OutcomeOf DEF outcomeOf
  <2>3. saidOf = [h \in Hooks |-> "nothing"]
    BY <2>1 DEF saidOf
  <2>4. waivedOf = [h \in Hooks |-> FALSE]
    BY <2>1 DEF waivedOf
  <2> QED
    BY <2>2, <2>3, <2>4 DEF Init, Promise!Init, NoCall
<1>2. IInv /\ [Next]_vars => [Promise!Next]_Promise!vars
  BY StepRefines
<1> QED
  BY <1>1, <1>2, Invariance, PTL DEF Spec, PromiseKept, Promise!Spec

=============================================================================
