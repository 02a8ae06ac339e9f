------------------------- MODULE CommandQueue_proofs -------------------------
(***************************************************************************)
(* Proofs about CommandQueue for any sets of commands and polls and any    *)
(* bounds on the history, the stored commands and the callers.             *)
(***************************************************************************)
EXTENDS CommandQueue, SequenceTheorems, TLAPS

\* The queue is a function on 1..Len, which is what the steps below reason with.
LEMMA QueueShape ==
  ASSUME TypeOK
  PROVE  /\ Len(pending) \in Nat /\ DOMAIN pending = 1..Len(pending)
         /\ \A i \in 1..Len(pending) : pending[i] \in Cmds
         /\ Queued = {pending[i] : i \in 1..Len(pending)}
<1>1. pending \in Seq(Cmds)
  BY DEF TypeOK
<1> QED
  BY <1>1 DEF Queued

\* The history never outgrows MaxHistory (recordResult).
LEMMA HistoryBounded ==
  ASSUME TypeOK, NEW c \in Cmds, NEW what \in {"result", "failure"}, RecordResult(c, what)
  PROVE  history' \in Seq([cmd : Cmds, what : {"result", "failure"}]) /\ Len(history') <= MaxHistory
<1> DEFINE Entry == [cmd : Cmds, what : {"result", "failure"}]
           e     == [cmd |-> c, what |-> what]
           all   == Append(history, e)
<1>1. history \in Seq(Entry) /\ Len(history) <= MaxHistory /\ e \in Entry
  BY DEF TypeOK
<1>2. MaxHistory \in Nat \ {0}
  BY SizesOK
<1>3. /\ all \in Seq(Entry) /\ Len(all) = Len(history) + 1 /\ Len(all) \in Nat
      /\ \A i \in 1..Len(all) : all[i] \in Entry
  <2> HIDE DEF Entry, e
  <2>1. all \in Seq(Entry) /\ Len(all) = Len(history) + 1
    BY <1>1, AppendProperties
  <2> QED
    BY <2>1
<1> DEFINE first == IF Len(all) > MaxHistory THEN 2 ELSE 1
<1>4. history' = SubSeq(all, first, Len(all))
  BY DEF RecordResult
<1> HIDE DEF Entry, all
<1>5. /\ SubSeq(all, first, Len(all)) \in Seq(Entry)
      /\ Len(SubSeq(all, first, Len(all))) =
           IF first <= Len(all) THEN Len(all) - first + 1 ELSE 0
  <2>1. first \in Int /\ Len(all) \in Int /\ \A i \in first..Len(all) : all[i] \in Entry
    BY <1>3
  <2> HIDE DEF first
  <2> QED
    BY <2>1, SubSeqProperties
<1>6. Len(SubSeq(all, first, Len(all))) <= MaxHistory
  BY <1>1, <1>2, <1>3, <1>5
<1> QED
  BY <1>4, <1>5, <1>6 DEF Entry

\* The invariant holds at the start.
LEMMA InitIInv == Init => IInv
<1> SUFFICES ASSUME Init PROVE IInv
  OBVIOUS
<1>1. pending = <<>> /\ Len(pending) = 0 /\ DOMAIN pending = {} /\ Len(history) = 0
  BY DEF Init
<1>2. TypeOK
  BY <1>1, SizesOK DEF Init, TypeOK, Waiting
<1> QED
  BY <1>1, <1>2 DEF Init, IInv, Known, Queued, QueueOK, Marked, NoneLost, Claimed

\* A step that only moves callers on, records results or ages commands preserves
\* the invariant.
LEMMA QuietPreserves ==
  ASSUME IInv, TypeOK', UNCHANGED <<pending, commands, dequeued, polls, saved, reports>>,
         reported \subseteq reported', Enqueued \subseteq Enqueued'
  PROVE  IInv'
<1>1. Queued' = Queued
  BY DEF Queued
<1>2. Known'
  BY <1>1 DEF IInv, Known, polls
<1>3. QueueOK' /\ Marked' /\ NoneLost'
  BY <1>1 DEF IInv, QueueOK, Marked, NoneLost, polls
<1>4. Claimed'
  BY DEF IInv, Claimed
<1> QED
  BY <1>2, <1>3, <1>4 DEF IInv

\* A request for a new command; what is evicted was forgotten as a whole.
LEMMA EnqueuePreserves ==
  ASSUME IInv, NEW c \in Cmds, NEW state \in {"async", "waiting"}, Enqueue(c, state)
  PROVE  IInv'
<1> DEFINE n == Len(pending)
<1>1. /\ n \in Nat /\ DOMAIN pending = 1..n
      /\ \A i \in 1..n : pending[i] \in Cmds
      /\ Queued = {pending[i] : i \in 1..n}
  BY QueueShape DEF IInv
<1>2. /\ pending' \in Seq(Cmds) /\ DOMAIN pending' = 1..(n + 1)
      /\ pending'[n + 1] = c
      /\ \A i \in 1..n : pending'[i] = pending[i]
  <2>1. pending \in Seq(Cmds) /\ pending' = Append(pending, c)
    BY DEF Enqueue, IInv, TypeOK
  <2> QED
    BY <2>1, AppendProperties
<1>3. Queued' = Queued \cup {c}
  BY <1>1, <1>2 DEF Queued
<1>4. c \notin Enqueued /\ Enqueued' = Enqueued \cup {c}
  BY DEF Enqueue, Enqueued, IInv, TypeOK
<1>5. /\ c \notin commands /\ c \notin Queued /\ saved[c] = 0
      /\ \A r \in reports : r.cmd # c
      /\ \A p \in Polls : inbox[p] # c
  BY <1>4, NoneIsNoCmd DEF IInv, Known, TypeOK
<1>6. TypeOK'
  BY <1>2 DEF IInv, TypeOK, Enqueue, Waiting
<1>7. Known'
  BY <1>3, <1>4 DEF IInv, Known, Enqueue
<1>8. QueueOK'
  <2>1. \A i, j \in 1..(n + 1) : pending'[i] = pending'[j] => i = j
    BY <1>1, <1>2, <1>5 DEF IInv, QueueOK
  <2>2. waiters' = {}
    BY DEF Enqueue
  <2>3. \A p \in Polls : \A j \in 1..(n + 1) : pending'[j] = inbox'[p] => j = 1
    <3> TAKE p \in Polls
    <3> TAKE j \in 1..(n + 1)
    <3>1. inbox'[p] = IF p \in waiters THEN c ELSE inbox[p]
      BY DEF Enqueue
    <3>2. CASE p \in waiters
      <4>1. n = 0
        BY <3>2 DEF IInv, QueueOK
      <4> QED
        BY <4>1
    <3>3. CASE p \notin waiters
      BY <1>1, <1>2, <1>5, <3>1, <3>3 DEF IInv, QueueOK
    <3> QED
      BY <3>2, <3>3
  <2> QED
    BY <1>2, <2>1, <2>2, <2>3 DEF QueueOK
<1>9. Marked'
  BY DEF IInv, Marked, Enqueue
<1>10. NoneLost'
  BY <1>3 DEF IInv, NoneLost, Enqueue
<1>11. Claimed'
  BY <1>5 DEF IInv, Claimed, Enqueue
<1> QED
  BY <1>6, <1>7, <1>8, <1>9, <1>10, <1>11 DEF IInv

\* Marking a report that nobody could have made preserves the invariant, for
\* whoever claims it: an agent's report, or a caller that expires.
LEMMA ExpirePreserves ==
  ASSUME IInv, NEW c \in Cmds, Expire(c)
  PROVE  IInv'
<1>1. TypeOK'
  BY DEF IInv, TypeOK, Expire, polls, Waiting
<1>2. Enqueued \subseteq Enqueued'
  BY DEF Expire, Enqueued, IInv, TypeOK
<1> QED
  BY <1>1, <1>2, QuietPreserves DEF Expire

LEMMA AcceptReportPreserves ==
  ASSUME IInv, NEW c \in Cmds, AcceptReport(c)
  PROVE  IInv'
<1>1. TypeOK'
  BY DEF IInv, TypeOK, AcceptReport, polls, calls
<1>2. Queued' = Queued /\ Enqueued' = Enqueued
  BY DEF AcceptReport, Queued, Enqueued, calls
<1>3. Known'
  BY <1>2 DEF IInv, Known, AcceptReport, polls
<1>4. QueueOK' /\ Marked' /\ NoneLost'
  BY <1>2 DEF IInv, QueueOK, Marked, NoneLost, AcceptReport, polls
<1>5. saved[c] = 0 /\ \A r \in reports : r.cmd # c
  BY DEF IInv, TypeOK, Claimed, AcceptReport
<1>6. Claimed'
  BY <1>5 DEF IInv, Claimed, AcceptReport
<1> QED
  BY <1>1, <1>3, <1>4, <1>6 DEF IInv

LEMMA RecordReportPreserves ==
  ASSUME IInv, NEW r \in reports, RecordReport(r)
  PROVE  IInv'
<1>1. r \in [cmd : Cmds, pc : {"record", "notify"}]
  BY DEF IInv, TypeOK
<1> DEFINE moved == [r EXCEPT !.pc = "notify"]
<1>2. moved \in [cmd : Cmds, pc : {"record", "notify"}] /\ moved.cmd = r.cmd
  BY <1>1
<1>3. reports' = (reports \ {r}) \cup {moved}
  BY DEF RecordReport
<1> HIDE DEF moved
<1>4. TypeOK'
  <2>1. history' \in Seq([cmd : Cmds, what : {"result", "failure"}]) /\ Len(history') <= MaxHistory
    BY <1>1, HistoryBounded DEF IInv, RecordReport
  <2> QED
    BY <1>2, <1>3, <2>1 DEF IInv, TypeOK, RecordReport, queue, polls, calls
<1>5. Queued' = Queued /\ Enqueued' = Enqueued
  BY DEF RecordReport, Queued, Enqueued, queue, calls
<1>6. Known'
  BY <1>2, <1>3, <1>5 DEF IInv, Known, RecordReport, queue, polls
<1>7. QueueOK' /\ Marked' /\ NoneLost'
  BY <1>5 DEF IInv, QueueOK, Marked, NoneLost, RecordReport, queue, polls
<1>8. Claimed'
  BY <1>2, <1>3 DEF IInv, Claimed, RecordReport, queue
<1> QED
  BY <1>4, <1>6, <1>7, <1>8 DEF IInv

LEMMA NotifyCallerPreserves ==
  ASSUME IInv, NEW r \in reports, NotifyCaller(r)
  PROVE  IInv'
<1>1. r.cmd \in Cmds /\ r.cmd \in Enqueued
  BY DEF IInv, TypeOK, Known
<1>2. TypeOK'
  BY <1>1 DEF IInv, TypeOK, NotifyCaller, queue, polls, calls
<1>3. Queued' = Queued /\ Enqueued' = Enqueued
  BY DEF NotifyCaller, Queued, Enqueued, queue, calls
<1>4. saved'[r.cmd] = 1 /\ \A c \in Cmds : c # r.cmd => saved'[c] = saved[c]
  BY <1>1 DEF IInv, TypeOK, Claimed, NotifyCaller
<1>5. Known'
  BY <1>1, <1>3, <1>4 DEF IInv, Known, NotifyCaller, queue, polls
<1>6. QueueOK' /\ Marked' /\ NoneLost'
  BY <1>3 DEF IInv, QueueOK, Marked, NoneLost, NotifyCaller, queue, polls
<1>7. Claimed'
  <2>1. \A q \in reports' : q \in reports /\ q.cmd # r.cmd /\ q.cmd \in Cmds
    BY DEF IInv, TypeOK, Claimed, NotifyCaller
  <2>2. r.cmd \notin commands \ reported
    BY DEF IInv, Claimed
  <2> QED
    BY <1>4, <2>1, <2>2 DEF IInv, Claimed, NotifyCaller, queue
<1> QED
  BY <1>2, <1>5, <1>6, <1>7 DEF IInv

\* removeCmd takes one command out and keeps the order of the others.
LEMMA WithoutIsQueue ==
  ASSUME TypeOK, NEW i \in 1..Len(pending)
  PROVE  /\ Without(i) \in Seq(Cmds) /\ Len(Without(i)) = Len(pending) - 1
         /\ \A j \in 1..(Len(pending) - 1) :
              Without(i)[j] = pending[IF j < i THEN j ELSE j + 1]
         /\ \A j \in 1..Len(pending) :
              j # i => \E k \in 1..(Len(pending) - 1) : Without(i)[k] = pending[j]
<1> DEFINE n == Len(pending)
<1>1. n \in Nat /\ n - 1 \in Nat /\ \A j \in 1..n : pending[j] \in Cmds
  BY QueueShape
<1>2. \A j \in 1..(n - 1) : Without(i)[j] = pending[IF j < i THEN j ELSE j + 1]
  BY DEF Without
<1>3. Without(i) \in [1..(n - 1) -> Cmds]
  BY <1>1 DEF Without
<1>4. Without(i) \in Seq(Cmds) /\ Len(Without(i)) = n - 1
  <2> HIDE DEF n
  <2> QED
    BY <1>1, <1>3
<1>5. ASSUME NEW j \in 1..n, j # i
      PROVE  \E k \in 1..(n - 1) : Without(i)[k] = pending[j]
  <2>1. CASE j < i
    <3>1. j \in 1..(n - 1) /\ Without(i)[j] = pending[j]
      BY <1>1, <1>2, <2>1
    <3> QED
      BY <3>1
  <2>2. CASE j > i
    <3>1. j - 1 \in 1..(n - 1) /\ ~ (j - 1 < i) /\ (j - 1) + 1 = j
      BY <1>1, <2>2
    <3>2. Without(i)[j - 1] = pending[j]
      BY <1>2, <3>1
    <3> QED
      BY <3>1, <3>2
  <2> QED
    BY <1>1, <1>5, <2>1, <2>2
<1> QED
  BY <1>2, <1>4, <1>5

\* The end of a request that failed: the command leaves queue, map and marks.
LEMMA WithdrawPreserves ==
  ASSUME IInv, NEW c \in Cmds, Withdraw(c)
  PROVE  IInv'
<1> DEFINE n == Len(pending)
<1>1. /\ n \in Nat /\ DOMAIN pending = 1..n
      /\ \A i \in 1..n : pending[i] \in Cmds
      /\ Queued = {pending[i] : i \in 1..n}
  BY QueueShape DEF IInv
<1>2. c \in Enqueued /\ Enqueued' = Enqueued
  BY DEF Withdraw, Enqueued, IInv, TypeOK
<1>3. CASE \E i \in DOMAIN pending : pending[i] = c /\ pending' = Without(i)
  <2>1. PICK i \in 1..n : pending[i] = c /\ pending' = Without(i)
    BY <1>1, <1>3
  <2> DEFINE from(j) == IF j < i THEN j ELSE j + 1
  <2>2. /\ pending' \in Seq(Cmds) /\ DOMAIN pending' = 1..(n - 1)
        /\ \A j \in 1..(n - 1) : pending'[j] = pending[from(j)]
        /\ \A j \in 1..n : j # i => \E k \in 1..(n - 1) : pending'[k] = pending[j]
    <3>1. TypeOK
      BY DEF IInv
    <3>2. Without(i) \in Seq(Cmds) /\ Len(Without(i)) = n - 1
      BY <3>1, WithoutIsQueue
    <3>3. DOMAIN Without(i) = 1..(n - 1)
      BY <3>2
    <3> QED
      BY <2>1, <3>1, <3>2, <3>3, WithoutIsQueue
  <2>3. \A j \in 1..(n - 1) : from(j) \in 1..n /\ from(j) >= j
    BY <1>1
  <2>4. \A j, k \in 1..(n - 1) : from(j) = from(k) => j = k
    BY <1>1
  <2> HIDE DEF from, n
  <2>5. TypeOK'
    BY <2>2 DEF IInv, TypeOK, Withdraw, polls
  <2>6. Queued' \subseteq Queued
    BY <1>1, <2>2, <2>3 DEF Queued
  <2>7. Known'
    BY <1>2, <2>6 DEF IInv, Known, Withdraw, polls
  <2>8. QueueOK'
    <3>1. \A j, k \in 1..(n - 1) : pending'[j] = pending'[k] => j = k
      BY <1>1, <2>2, <2>3, <2>4 DEF IInv, QueueOK
    <3>2. waiters = {}
      BY <1>1, <2>1 DEF IInv, QueueOK
    <3>3. \A p \in Polls : \A j \in 1..(n - 1) : pending'[j] = inbox[p] => j = 1
      <4> TAKE p \in Polls
      <4> TAKE j \in 1..(n - 1)
      <4>1. HAVE pending'[j] = inbox[p]
      <4>2. from(j) = 1
        BY <1>1, <2>2, <2>3, <4>1 DEF IInv, QueueOK
      <4> QED
        BY <1>1, <2>3, <4>2
    <3> QED
      BY <2>2, <3>1, <3>2, <3>3 DEF QueueOK, Withdraw, polls
  <2>9. Marked'
    BY DEF IInv, Marked, Withdraw, polls
  <2>10. NoneLost'
    <3>1. ASSUME NEW d \in Queued, d # c PROVE d \in Queued'
      <4>1. PICK j \in 1..n : pending[j] = d
        BY <1>1
      <4>2. j # i
        BY <2>1, <3>1, <4>1
      <4>3. PICK k \in 1..(n - 1) : pending'[k] = d
        BY <2>2, <4>1, <4>2
      <4> QED
        BY <2>2, <4>3 DEF Queued
    <3> QED
      BY <3>1 DEF IInv, NoneLost, Withdraw, polls
  <2>11. Claimed'
    BY DEF IInv, Claimed, Withdraw
  <2> QED
    BY <2>5, <2>7, <2>8, <2>9, <2>10, <2>11 DEF IInv
<1>4. CASE c \notin Queued /\ UNCHANGED pending
  <2>1. TypeOK'
    BY <1>4 DEF IInv, TypeOK, Withdraw, polls
  <2>2. Queued' = Queued
    BY <1>4 DEF Queued
  <2>3. Known' /\ QueueOK'
    BY <1>2, <1>4, <2>2 DEF IInv, Known, QueueOK, Withdraw, polls
  <2>4. Marked' /\ NoneLost' /\ Claimed'
    BY <2>2 DEF IInv, Marked, NoneLost, Claimed, Withdraw, polls
  <2> QED
    BY <2>1, <2>3, <2>4 DEF IInv
<1> QED
  BY <1>3, <1>4 DEF Withdraw

\* What a fetch leaves in the queue: the commands after the one it takes.
LEMMA FetchShape ==
  ASSUME TypeOK, NEW i \in 1..Len(pending), pending' = SubSeq(pending, i + 1, Len(pending))
  PROVE  /\ pending' \in Seq(Cmds) /\ DOMAIN pending' = 1..(Len(pending) - i)
         /\ \A j \in 1..(Len(pending) - i) : pending'[j] = pending[i + j]
<1> DEFINE n == Len(pending)
<1>1. n \in Nat /\ i + 1 \in Int /\ \A j \in (i + 1)..n : pending[j] \in Cmds
  BY QueueShape
<1>2. /\ pending' \in Seq(Cmds)
      /\ Len(pending') = IF i + 1 <= n THEN n - (i + 1) + 1 ELSE 0
      /\ \A j \in 1..(n - (i + 1) + 1) : pending'[j] = pending[i + 1 + j - 1]
  <2> HIDE DEF n
  <2> QED
    BY <1>1, SubSeqProperties DEF n
<1>3. Len(pending') = n - i /\ n - (i + 1) + 1 = n - i
  BY <1>1, <1>2
<1>4. \A j \in 1..(n - i) : i + 1 + j - 1 = i + j
  BY <1>1
<1>5. DOMAIN pending' = 1..(n - i)
  <2>1. DOMAIN pending' = 1..Len(pending')
    BY <1>2, LenProperties, Zenon
  <2> QED
    BY <1>3, <2>1, Zenon
<1>6. \A j \in 1..(n - i) : pending'[j] = pending[i + j]
  <2> HIDE DEF n
  <2> QED
    BY <1>2, <1>3, <1>4
<1> QED
  BY <1>2, <1>5, <1>6

\* A poll that finds a command takes the first one nobody has fetched.
LEMMA DequeuePreserves ==
  ASSUME IInv, NEW p \in Polls, Dequeue(p)
  PROVE  IInv'
<1> DEFINE n == Len(pending)
<1>1. /\ n \in Nat /\ DOMAIN pending = 1..n
      /\ \A i \in 1..n : pending[i] \in Cmds
      /\ Queued = {pending[i] : i \in 1..n}
  BY QueueShape DEF IInv
<1>2. Enqueued' = Enqueued
  BY DEF Dequeue, Enqueued, calls
<1>3. Claimed'
  BY DEF IInv, Claimed, Dequeue
<1>4. CASE \E i \in Fresh :
             /\ \A j \in Fresh : i <= j
             /\ pending' = SubSeq(pending, i + 1, Len(pending))
             /\ Deliver(pending[i])
             /\ UNCHANGED <<poll, waiters>>
  <2>1. PICK i \in Fresh :
             /\ \A j \in Fresh : i <= j
             /\ pending' = SubSeq(pending, i + 1, Len(pending))
             /\ Deliver(pending[i])
             /\ UNCHANGED <<poll, waiters>>
    BY <1>4
  <2>2. i \in 1..n /\ \A j \in 1..n : j < i => pending[j] \in dequeued
    BY <1>1, <2>1 DEF Fresh
  <2>3. /\ pending' \in Seq(Cmds) /\ DOMAIN pending' = 1..(n - i)
        /\ \A j \in 1..(n - i) : pending'[j] = pending[i + j]
    BY <2>1, <2>2, FetchShape DEF IInv
  <2>4. /\ \A j \in 1..(n - i) : i + j \in 1..n /\ i + j > 1
        /\ \A j, k \in 1..(n - i) : i + j = i + k => j = k
        /\ \A j \in 1..n : j > i => j - i \in 1..(n - i) /\ i + (j - i) = j
    BY <1>1, <2>2
  <2>5. /\ dequeued' = dequeued \cup {pending[i]}
        /\ taken' \in [Cmds -> Nat] /\ taken'[pending[i]] > 0
        /\ \A c \in Cmds : taken'[c] >= taken[c] /\ taken[c] \in Nat
    <3>1. taken \in [Cmds -> Nat] /\ pending[i] \in Cmds
      BY <1>1, <2>2 DEF IInv, TypeOK
    <3>2. dequeued' = dequeued \cup {pending[i]} /\ taken' = [taken EXCEPT ![pending[i]] = @ + 1]
      BY <2>1 DEF Deliver
    <3> QED
      BY <3>1, <3>2
  <2>6. pending[i] \in Cmds
    BY <1>1, <2>2
  <2> HIDE DEF n
  <2>7. TypeOK'
    BY <2>1, <2>3, <2>5, <2>6 DEF IInv, TypeOK, Dequeue, calls
  <2>8. Queued' \subseteq Queued
    BY <1>1, <2>3, <2>4 DEF Queued
  <2>9. Known'
    BY <1>2, <2>8 DEF IInv, Known, Dequeue
  <2>10. QueueOK'
    <3>1. \A j, k \in 1..(n - i) : pending'[j] = pending'[k] => j = k
      BY <1>1, <2>3, <2>4 DEF IInv, QueueOK
    <3>2. waiters' = {}
      BY <1>1, <2>1, <2>2 DEF IInv, QueueOK
    <3>3. \A q \in Polls : \A j \in 1..(n - i) : pending'[j] # inbox[q]
      BY <1>1, <2>3, <2>4 DEF IInv, QueueOK
    <3> QED
      BY <2>3, <3>1, <3>2, <3>3 DEF QueueOK, Dequeue
  <2>11. Marked'
    <3>1. \A c \in dequeued : c \in Cmds /\ taken[c] > 0
      BY DEF IInv, TypeOK, Marked
    <3> QED
      BY <2>5, <2>6, <3>1 DEF Marked
  <2>12. NoneLost'
    <3>1. SUFFICES ASSUME NEW c \in commands, taken'[c] = 0 PROVE c \in Queued'
      BY DEF NoneLost, Dequeue
    <3>2. c \in Cmds /\ taken[c] = 0 /\ c # pending[i]
      BY <2>5, <3>1 DEF IInv, TypeOK
    <3>3. c \in Queued /\ c \notin dequeued
      BY <3>1, <3>2 DEF IInv, NoneLost, Marked
    <3>4. PICK j \in 1..n : pending[j] = c
      BY <1>1, <3>3
    <3>5. j > i
      BY <1>1, <2>2, <3>2, <3>3, <3>4
    <3>6. j - i \in 1..(n - i) /\ pending'[j - i] = c
      BY <2>3, <2>4, <3>4, <3>5
    <3> QED
      BY <2>3, <3>6 DEF Queued
  <2> QED
    BY <1>3, <2>7, <2>9, <2>10, <2>11, <2>12 DEF IInv
<1>5. CASE /\ Fresh = {}
           /\ pending' = <<>>
           /\ poll' = [poll EXCEPT ![p] = "waiting"]
           /\ waiters' = waiters \cup {p}
           /\ UNCHANGED <<dequeued, taken>>
  <2>1. pending' \in Seq(Cmds) /\ DOMAIN pending' = {} /\ Queued' = {}
    BY <1>5 DEF Queued
  <2>2. \A i \in 1..n : pending[i] \in dequeued
    BY <1>1, <1>5 DEF Fresh
  <2>3. TypeOK'
    BY <1>5, <2>1 DEF IInv, TypeOK, Dequeue, calls
  <2>4. Known'
    BY <1>2, <2>1 DEF IInv, Known, Dequeue
  <2>5. QueueOK' /\ Marked'
    BY <1>5, <2>1 DEF IInv, QueueOK, Marked
  <2>6. NoneLost'
    BY <1>1, <1>5, <2>1, <2>2 DEF IInv, NoneLost, Marked, Dequeue
  <2> QED
    BY <1>3, <2>3, <2>4, <2>5, <2>6 DEF IInv
<1> QED
  BY <1>4, <1>5 DEF Dequeue

\* A poll that is handed a command gets it only if no other poll has.
LEMMA TakeHandedPreserves ==
  ASSUME IInv, NEW p \in Polls, TakeHanded(p)
  PROVE  IInv'
<1>1. inbox[p] \in Cmds /\ inbox' = [inbox EXCEPT ![p] = None]
  BY DEF IInv, TypeOK, TakeHanded
<1>2. Queued' = Queued /\ Enqueued' = Enqueued
  BY DEF TakeHanded, Queued, Enqueued, calls
<1>3. /\ dequeued \subseteq dequeued' /\ dequeued' \subseteq dequeued \cup {inbox[p]}
      /\ taken' \in [Cmds -> Nat]
      /\ \A c \in Cmds : taken'[c] >= taken[c] /\ taken[c] \in Nat
      /\ inbox[p] \in dequeued' => inbox[p] \in dequeued \/ taken'[inbox[p]] > 0
  <2>1. taken \in [Cmds -> Nat]
    BY DEF IInv, TypeOK
  <2>2. CASE inbox[p] \in dequeued
    BY <2>1, <2>2 DEF TakeHanded
  <2>3. CASE inbox[p] \notin dequeued
    <3>1. /\ dequeued' = dequeued \cup {inbox[p]}
          /\ taken' = [taken EXCEPT ![inbox[p]] = @ + 1]
      BY <2>3 DEF TakeHanded, Deliver
    <3> QED
      BY <1>1, <2>1, <3>1
  <2> QED
    BY <2>2, <2>3
<1>4. TypeOK'
  BY <1>1, <1>3 DEF IInv, TypeOK, TakeHanded, calls
<1>5. Known'
  BY <1>1, <1>2 DEF IInv, Known, TypeOK, TakeHanded
<1>6. QueueOK'
  <2>1. \A q \in Polls : inbox'[q] = inbox[q] \/ inbox'[q] = None
    BY <1>1 DEF IInv, TypeOK
  <2>2. \A j \in DOMAIN pending : pending[j] # None
    BY NoneIsNoCmd, QueueShape DEF IInv
  <2> QED
    BY <2>1, <2>2 DEF IInv, QueueOK, TakeHanded
<1>7. Marked'
  <2>1. \A c \in dequeued : c \in Cmds /\ taken[c] > 0
    BY DEF IInv, TypeOK, Marked
  <2> QED
    BY <1>1, <1>3, <2>1 DEF Marked
<1>8. NoneLost' /\ Claimed'
  BY <1>2, <1>3 DEF IInv, TypeOK, NoneLost, Claimed, TakeHanded
<1> QED
  BY <1>4, <1>5, <1>6, <1>7, <1>8 DEF IInv

\* A poll that gives up drops what its channel holds; the queue still has it.
LEMMA LeavePreserves ==
  ASSUME IInv, NEW p \in Polls, Leave(p)
  PROVE  IInv'
<1>1. TypeOK'
  BY DEF IInv, TypeOK, Leave, queue, calls
<1>2. Queued' = Queued /\ Enqueued' = Enqueued
  BY DEF Leave, Queued, Enqueued, queue, calls
<1>3. Known'
  BY <1>2 DEF IInv, Known, TypeOK, Leave, queue
<1>4. QueueOK'
  <2>1. \A q \in Polls : inbox'[q] = inbox[q] \/ inbox'[q] = None
    BY DEF IInv, TypeOK, Leave
  <2>2. \A j \in DOMAIN pending : pending[j] # None
    BY NoneIsNoCmd, QueueShape DEF IInv
  <2>3. pending' = pending /\ (waiters' # {} => waiters # {})
    BY DEF Leave, queue
  <2> QED
    BY <2>1, <2>2, <2>3 DEF IInv, QueueOK
<1>5. Marked' /\ NoneLost' /\ Claimed'
  BY <1>2 DEF IInv, Marked, NoneLost, Claimed, Leave, queue
<1> QED
  BY <1>1, <1>3, <1>4, <1>5 DEF IInv

\* What the callers do besides, and time, touch neither queue nor reports.
LEMMA ReceiveResultPreserves ==
  ASSUME IInv, NEW c \in Cmds, ReceiveResult(c)
  PROVE  IInv'
<1>1. TypeOK'
  BY DEF IInv, TypeOK, ReceiveResult, queue, polls, Waiting
<1>2. Enqueued \subseteq Enqueued'
  BY DEF ReceiveResult, Enqueued, IInv, TypeOK
<1> QED
  BY <1>1, <1>2, QuietPreserves DEF ReceiveResult, queue

LEMMA AnswerResultPreserves ==
  ASSUME IInv, NEW c \in Cmds, AnswerResult(c)
  PROVE  IInv'
<1>1. TypeOK'
  <2>1. history' \in Seq([cmd : Cmds, what : {"result", "failure"}]) /\ Len(history') <= MaxHistory
    BY HistoryBounded DEF IInv, AnswerResult
  <2> QED
    BY <2>1 DEF IInv, TypeOK, AnswerResult, queue, polls
<1>2. Enqueued \subseteq Enqueued'
  BY DEF AnswerResult, Enqueued, IInv, TypeOK
<1> QED
  BY <1>1, <1>2, QuietPreserves DEF AnswerResult, queue

LEMMA RecordFailurePreserves ==
  ASSUME IInv, NEW c \in Cmds, RecordFailure(c)
  PROVE  IInv'
<1>1. TypeOK'
  <2>1. history' \in Seq([cmd : Cmds, what : {"result", "failure"}]) /\ Len(history') <= MaxHistory
    BY HistoryBounded DEF IInv, RecordFailure
  <2> QED
    BY <2>1 DEF IInv, TypeOK, RecordFailure, queue, polls, Waiting
<1>2. Enqueued \subseteq Enqueued'
  BY DEF RecordFailure, Enqueued, IInv, TypeOK
<1> QED
  BY <1>1, <1>2, QuietPreserves DEF RecordFailure, queue

LEMMA AgePreserves ==
  ASSUME IInv, NEW c \in Cmds, Age(c)
  PROVE  IInv'
<1>1. TypeOK'
  BY DEF IInv, TypeOK, Age, queue, polls, calls
<1>2. Enqueued' = Enqueued
  BY DEF Age, Enqueued, calls
<1> QED
  BY <1>1, <1>2, QuietPreserves DEF Age, queue

\* Every step preserves the invariant.
LEMMA NextPreserves == IInv /\ [Next]_vars => IInv'
<1> SUFFICES ASSUME IInv, [Next]_vars PROVE IInv'
  OBVIOUS
<1>1. ASSUME NEW c \in Cmds, EnqueueOnly(c) PROVE IInv'
  BY <1>1, EnqueuePreserves DEF EnqueueOnly
<1>2. ASSUME NEW c \in Cmds, EnqueueCmd(c) PROVE IInv'
  BY <1>2, EnqueuePreserves DEF EnqueueCmd
<1>3. ASSUME NEW c \in Cmds, CallerStep(c) PROVE IInv'
  BY <1>3, ReceiveResultPreserves, AnswerResultPreserves, ExpirePreserves,
     RecordFailurePreserves, WithdrawPreserves DEF CallerStep
<1>4. ASSUME NEW p \in Polls, Dequeue(p) PROVE IInv'
  BY <1>4, DequeuePreserves
<1>5. ASSUME NEW p \in Polls, TakeHanded(p) PROVE IInv'
  BY <1>5, TakeHandedPreserves
<1>6. ASSUME NEW p \in Polls, Leave(p) PROVE IInv'
  BY <1>6, LeavePreserves
<1>7. ASSUME NEW c \in Cmds, AcceptReport(c) PROVE IInv'
  BY <1>7, AcceptReportPreserves
<1>8. ASSUME NEW c \in Cmds, Age(c) PROVE IInv'
  BY <1>8, AgePreserves
<1>9. ASSUME NEW r \in reports, ReportStep(r) PROVE IInv'
  BY <1>9, RecordReportPreserves, NotifyCallerPreserves DEF ReportStep
<1>10. CASE UNCHANGED vars
  <2>1. TypeOK'
    BY <1>10 DEF IInv, TypeOK, vars, queue, polls, calls
  <2>2. Enqueued' = Enqueued
    BY <1>10 DEF Enqueued, vars, calls
  <2> QED
    BY <1>10, <2>1, <2>2, QuietPreserves DEF vars, queue
<1> QED
  BY <1>1, <1>2, <1>3, <1>4, <1>5, <1>6, <1>7, <1>8, <1>9, <1>10 DEF Next

\* The inductive invariant holds in every reachable state.
THEOREM Invariance == Spec => []IInv
BY InitIInv, NextPreserves, PTL DEF Spec

\* Every variable keeps its type, and the history its bound.
THEOREM TypeCorrect == Spec => []TypeOK
<1>1. IInv => TypeOK
  BY DEF IInv
<1> QED
  BY <1>1, Invariance, PTL

\* No command is lost to a poll that leaves: what no agent has got is queued.
THEOREM NothingLost == Spec => []NoneLost
<1>1. IInv => NoneLost
  BY DEF IInv
<1> QED
  BY <1>1, Invariance, PTL

\* Of all reports of a command, repeated or concurrent, one is saved.
THEOREM OneReport == Spec => []ReportCountsOnce
<1>1. ASSUME IInv PROVE ReportCountsOnce
  <2> SUFFICES ASSUME NEW c \in Cmds PROVE saved[c] <= 1
    BY DEF ReportCountsOnce
  <2>1. saved[c] \in Nat
    BY <1>1 DEF IInv, TypeOK
  <2>2. saved[c] > 0 => saved[c] = 1
    BY <1>1 DEF IInv, Claimed
  <2> QED
    BY <2>1, <2>2
<1> QED
  BY <1>1, Invariance, PTL

\* Only two steps hand a command out, and both take it from the front: Dequeue
\* takes the first that is not marked, and what a waiting poll was handed can only
\* be the first of the queue.
LEMMA HandedInOrder ==
  ASSUME IInv, [Next]_vars, NEW c \in Cmds, taken'[c] # taken[c],
         NEW i \in DOMAIN pending, NEW j \in DOMAIN pending, pending[j] = c, i < j
  PROVE  taken[pending[i]] > 0
<1>1. /\ Len(pending) \in Nat /\ DOMAIN pending = 1..Len(pending)
      /\ \A k \in 1..Len(pending) : pending[k] \in Cmds
  BY QueueShape DEF IInv
<1>2. taken \in [Cmds -> Nat]
  BY DEF IInv, TypeOK
<1>3. ASSUME NEW p \in Polls, Dequeue(p) PROVE taken[pending[i]] > 0
  <2>1. PICK k \in Fresh : (\A l \in Fresh : k <= l) /\ Deliver(pending[k])
    BY <1>3 DEF Dequeue
  <2>2. k \in DOMAIN pending /\ pending[k] = c
    BY <1>1, <1>2, <2>1 DEF Fresh, Deliver
  <2>3. k = j
    BY <2>2 DEF IInv, QueueOK
  <2>4. i \notin Fresh
    BY <1>1, <2>1, <2>2, <2>3
  <2> QED
    BY <2>4 DEF Fresh, IInv, Marked
<1>4. ASSUME NEW p \in Polls, TakeHanded(p) PROVE taken[pending[i]] > 0
  <2>1. inbox[p] = c
    BY <1>2, <1>4 DEF TakeHanded, Deliver
  <2>2. j = 1
    BY <2>1 DEF IInv, QueueOK
  <2> QED
    BY <1>1, <2>2
<1>5. CASE UNCHANGED taken
  BY <1>5
<1>6. ASSUME NEW d \in Cmds,
             EnqueueOnly(d) \/ EnqueueCmd(d) \/ CallerStep(d) \/ AcceptReport(d) \/ Age(d)
      PROVE  UNCHANGED taken
  BY <1>6 DEF EnqueueOnly, EnqueueCmd, Enqueue, CallerStep, ReceiveResult, AnswerResult,
     Expire, RecordFailure, Withdraw, AcceptReport, Age, polls
<1>7. ASSUME NEW p \in Polls, Leave(p) PROVE UNCHANGED taken
  BY <1>7 DEF Leave
<1>8. ASSUME NEW r \in reports, ReportStep(r) PROVE UNCHANGED taken
  BY <1>8 DEF ReportStep, RecordReport, NotifyCaller, polls
<1>9. CASE UNCHANGED vars
  BY <1>5, <1>9 DEF vars, polls
<1> QED
  BY <1>3, <1>4, <1>5, <1>6, <1>7, <1>8, <1>9 DEF Next

\* Agents get the commands in the order the phone sent them.
THEOREM InOrder == Spec => FirstInFirstOut
<1> DEFINE Order == \A c \in Cmds : taken'[c] # taken[c] =>
                      \A i, j \in DOMAIN pending :
                        pending[j] = c /\ i < j => taken[pending[i]] > 0
<1>1. IInv /\ [Next]_vars => [Order]_vars
  BY HandedInOrder
<1> QED
  BY <1>1, Invariance, PTL DEF Spec, FirstInFirstOut

-----------------------------------------------------------------------------
(* One verdict.                                                            *)

Entry == [cmd : Cmds, what : {"result", "failure"}]

\* Recording a result adds that one to the entries, and may drop others.
LEMMA RecordAdds ==
  ASSUME TypeOK, NEW c \in Cmds, NEW what \in {"result", "failure"}, RecordResult(c, what)
  PROVE  Entries' \subseteq Entries \cup {[cmd |-> c, what |-> what]}
<1> DEFINE e     == [cmd |-> c, what |-> what]
           all   == Append(history, e)
           first == IF Len(all) > MaxHistory THEN 2 ELSE 1
<1>1. history \in Seq(Entry) /\ e \in Entry /\ Len(history) \in Nat
  BY DEF TypeOK, Entry
<1>2. /\ all \in Seq(Entry) /\ Len(all) = Len(history) + 1
      /\ \A i \in 1..Len(history) : all[i] = history[i]
      /\ all[Len(history) + 1] = e
  <2> HIDE DEF e
  <2> QED BY <1>1, AppendProperties
<1>3. history' = SubSeq(all, first, Len(all))
  BY DEF RecordResult
<1>4. first \in {1, 2}
  OBVIOUS
<1> HIDE DEF all, first, e
<1>5. /\ history' \in Seq(Entry)
      /\ Len(history') = IF first <= Len(all) THEN Len(all) - first + 1 ELSE 0
      /\ \A i \in 1..(Len(all) - first + 1) : history'[i] = all[first + i - 1]
  <2>1. first \in Int /\ Len(all) \in Int
    BY <1>1, <1>2, <1>4
  <2>2. \A i \in first..Len(all) : all[i] \in Entry
    <3> SUFFICES ASSUME NEW i \in first..Len(all) PROVE all[i] \in Entry
      OBVIOUS
    <3>1. i \in 1..Len(all)
      BY <1>4, <2>1
    <3> QED BY <3>1, <1>2, ElementOfSeq
  <2>3. /\ SubSeq(all, first, Len(all)) \in Seq(Entry)
        /\ Len(SubSeq(all, first, Len(all))) =
             IF first <= Len(all) THEN Len(all) - first + 1 ELSE 0
        /\ \A i \in 1..(Len(all) - first + 1) :
             SubSeq(all, first, Len(all))[i] = all[first + i - 1]
    BY <1>2, <2>1, <2>2, SubSeqProperties
  <2> DEFINE kept == SubSeq(all, first, Len(all))
  <2>4. /\ kept \in Seq(Entry)
        /\ Len(kept) = IF first <= Len(all) THEN Len(all) - first + 1 ELSE 0
        /\ \A i \in 1..(Len(all) - first + 1) : kept[i] = all[first + i - 1]
    BY <2>3
  <2>5. history' = kept
    BY <1>3
  <2> HIDE DEF kept
  <2> QED BY <2>4, <2>5
<1>6. ASSUME NEW i \in DOMAIN history' PROVE \E j \in 1..Len(all) : history'[i] = all[j]
  <2>1. DOMAIN history' = 1..Len(history')
    BY <1>5
  <2>2. Len(all) \in Nat /\ i \in 1..(Len(all) - first + 1)
    BY <1>1, <1>2, <1>4, <1>5, <2>1
  <2>3. first + i - 1 \in 1..Len(all) /\ history'[i] = all[first + i - 1]
    BY <1>4, <1>5, <2>2
  <2> QED BY <2>3
<1>7. ASSUME NEW j \in 1..Len(all)
      PROVE  all[j] = e \/ \E i \in DOMAIN history : all[j] = history[i]
  <2>1. DOMAIN history = 1..Len(history)
    BY <1>1
  <2>2. j \in 1..Len(history) \/ j = Len(history) + 1
    BY <1>1, <1>2
  <2> QED BY <1>2, <2>1, <2>2
<1>8. ASSUME NEW i \in DOMAIN history' PROVE history'[i] \in Entries \cup {e}
  BY <1>6, <1>7, <1>8 DEF Entries
<1>9. Entries' = {history'[i] : i \in DOMAIN history'}
  BY DEF Entries
<1>10. Entries' \subseteq Entries \cup {e}
  BY <1>8, <1>9
<1> QED BY <1>10 DEF e

\* What a step that leaves history alone does to a command it is not about.
LEMMA VerdictKept ==
  ASSUME NEW d \in Cmds, Verdict(d), history' = history,
         caller'[d] = caller[d], d \in notify' => d \in notify,
         d \in commands' => d \in commands /\ (d \in reported => d \in reported'),
         \A r \in reports' : r.cmd = d => \E q \in reports : q.cmd = d
  PROVE  Verdict(d)'
<1>1. /\ Has(d, "result")' <=> Has(d, "result")
      /\ Has(d, "failure")' <=> Has(d, "failure")
  BY DEF Has, Entries
<1>2. (\A r \in reports : r.cmd # d) => \A r \in reports' : r.cmd # d
  OBVIOUS
<1> QED BY <1>1, <1>2 DEF Verdict

LEMMA VerdictsEnqueue ==
  ASSUME IInv, Verdicts, NEW c \in Cmds, NEW state \in {"async", "waiting"}, Enqueue(c, state)
  PROVE  Verdicts'
<1>1. /\ caller[c] = "new" /\ UNCHANGED <<history, notify, reports>>
      /\ caller \in [Cmds -> Waiting \cup {"new", "async", "answered"}]
      /\ caller' = [caller EXCEPT ![c] = state]
      /\ commands' = (commands \cup {c}) \ Evicted(c)
      /\ reported' = reported \ Evicted(c)
  BY DEF Enqueue, IInv, TypeOK
<1> SUFFICES ASSUME NEW d \in Cmds PROVE Verdict(d)'
  BY DEF Verdicts
<1>2. Verdict(d)
  BY DEF Verdicts
<1>3. CASE d = c
  <2>1. ~Has(d, "result") /\ ~Has(d, "failure") /\ d \notin notify
    BY <1>1, <1>2, <1>3 DEF Verdict
  <2>2. ~Has(d, "result")' /\ ~Has(d, "failure")' /\ d \notin notify'
    BY <2>1, <1>1 DEF Has, Entries
  <2>3. caller'[d] \in {"async", "waiting"}
    BY <1>1, <1>3
  <2> QED BY <2>2, <2>3 DEF Verdict
<1>4. CASE d # c
  BY <1>1, <1>2, <1>4, VerdictKept
<1> QED BY <1>3, <1>4

\* Who expires claims the report of a command nobody has reported.
LEMMA VerdictsExpire ==
  ASSUME IInv, Verdicts, NEW c \in Cmds, Expire(c)
  PROVE  Verdicts'
<1>1. /\ caller[c] = "waiting" /\ reported' = reported \cup {c}
      /\ UNCHANGED <<history, commands, notify, reports>>
      /\ caller \in [Cmds -> Waiting \cup {"new", "async", "answered"}]
      /\ caller' = [caller EXCEPT ![c] = IF c \in reported THEN "withdrawing" ELSE "expired"]
  BY DEF Expire, IInv, TypeOK
<1> SUFFICES ASSUME NEW d \in Cmds PROVE Verdict(d)'
  BY DEF Verdicts
<1>2. Verdict(d)
  BY DEF Verdicts
<1>3. CASE d = c
  <2>1. /\ caller'[d] = IF d \in reported THEN "withdrawing" ELSE "expired"
        /\ d \in reported'
    BY <1>1, <1>3
  <2>2. /\ Has(d, "result")' <=> Has(d, "result")
        /\ Has(d, "failure")' <=> Has(d, "failure")
    BY <1>1 DEF Has, Entries
  <2>3. d \in commands => ~Has(d, "failure")
    BY <1>1, <1>2, <1>3 DEF Verdict
  <2>4. d \in commands /\ d \notin reported =>
          ~Has(d, "result") /\ d \notin notify /\ \A r \in reports : r.cmd # d
    BY <1>2 DEF Verdict, IInv, Claimed
  <2> QED BY <1>1, <2>1, <2>2, <2>3, <2>4 DEF Verdict
<1>4. CASE d # c
  BY <1>1, <1>2, <1>4, VerdictKept
<1> QED BY <1>3, <1>4

\* What recording does to a command it is not about.
LEMMA VerdictOfOthers ==
  ASSUME TypeOK, NEW c \in Cmds, NEW what \in {"result", "failure"}, RecordResult(c, what),
         NEW d \in Cmds, d # c, Verdict(d), caller'[d] = caller[d],
         UNCHANGED <<commands, reported, notify>>,
         \A r \in reports' : r.cmd = d => \E q \in reports : q.cmd = d
  PROVE  Verdict(d)'
<1>1. /\ Has(d, "result")' => Has(d, "result")
      /\ Has(d, "failure")' => Has(d, "failure")
  BY RecordAdds DEF Has
<1>2. (\A r \in reports : r.cmd # d) => \A r \in reports' : r.cmd # d
  OBVIOUS
<1> QED BY <1>1, <1>2 DEF Verdict

LEMMA VerdictsAnswer ==
  ASSUME IInv, Verdicts, NEW c \in Cmds, AnswerResult(c)
  PROVE  Verdicts'
<1>1. /\ caller[c] = "notified" /\ RecordResult(c, "result") /\ TypeOK
      /\ UNCHANGED <<commands, reported, notify, reports>>
      /\ caller \in [Cmds -> Waiting \cup {"new", "async", "answered"}]
      /\ caller' = [caller EXCEPT ![c] = "answered"]
  BY DEF AnswerResult, IInv, TypeOK, queue
<1> SUFFICES ASSUME NEW d \in Cmds PROVE Verdict(d)'
  BY DEF Verdicts
<1>2. Verdict(d)
  BY DEF Verdicts
<1>3. CASE d = c
  <2>1. Has(d, "failure")' => Has(d, "failure")
    BY <1>1, RecordAdds DEF Has
  <2>2. caller'[d] = "answered" /\ (d \in commands => ~Has(d, "failure") /\ d \in reported)
    BY <1>1, <1>2, <1>3 DEF Verdict
  <2> QED BY <1>1, <2>1, <2>2 DEF Verdict
<1>4. CASE d # c
  BY <1>1, <1>2, <1>4, VerdictOfOthers
<1> QED BY <1>3, <1>4

LEMMA VerdictsFailure ==
  ASSUME IInv, Verdicts, NEW c \in Cmds, RecordFailure(c)
  PROVE  Verdicts'
<1>1. /\ caller[c] = "expired" /\ RecordResult(c, "failure") /\ TypeOK
      /\ UNCHANGED <<commands, reported, notify, reports>>
      /\ caller \in [Cmds -> Waiting \cup {"new", "async", "answered"}]
      /\ caller' = [caller EXCEPT ![c] = "withdrawing"]
  BY DEF RecordFailure, IInv, TypeOK, queue
<1> SUFFICES ASSUME NEW d \in Cmds PROVE Verdict(d)'
  BY DEF Verdicts
<1>2. Verdict(d)
  BY DEF Verdicts
<1>3. CASE d = c
  <2>1. Has(d, "result")' => Has(d, "result")
    BY <1>1, RecordAdds DEF Has
  <2>2. /\ caller'[d] = "withdrawing"
        /\ d \in commands => /\ ~Has(d, "result") /\ d \in reported /\ d \notin notify
                             /\ \A r \in reports : r.cmd # d
    BY <1>1, <1>2, <1>3 DEF Verdict
  <2> QED BY <1>1, <2>1, <2>2 DEF Verdict
<1>4. CASE d # c
  BY <1>1, <1>2, <1>4, VerdictOfOthers
<1> QED BY <1>3, <1>4

LEMMA VerdictsReport ==
  ASSUME IInv, Verdicts, NEW r \in reports, RecordReport(r)
  PROVE  Verdicts'
<1> DEFINE c == r.cmd
<1>1. /\ RecordResult(c, "result") /\ TypeOK /\ c \in Cmds
      /\ UNCHANGED <<commands, reported, notify, caller>>
      /\ \A q \in reports' : \E t \in reports : t.cmd = q.cmd
  <2>1. reports' = (reports \ {r}) \cup {[r EXCEPT !.pc = "notify"]}
    BY DEF RecordReport
  <2>2. r \in [cmd : Cmds, pc : {"record", "notify"}]
    BY DEF IInv, TypeOK
  <2>3. [r EXCEPT !.pc = "notify"].cmd = r.cmd
    BY <2>2
  <2> QED BY <2>1, <2>2, <2>3 DEF RecordReport, queue, calls, IInv
<1> SUFFICES ASSUME NEW d \in Cmds PROVE Verdict(d)'
  BY DEF Verdicts
<1>2. Verdict(d) /\ Verdict(c)
  BY <1>1 DEF Verdicts
<1>3. CASE d = c
  <2>1. Has(d, "failure")' => Has(d, "failure")
    BY <1>1, RecordAdds DEF Has
  <2>2. d \in commands => /\ ~Has(d, "failure") /\ d \in reported
                          /\ caller[d] # "expired"
    BY <1>2, <1>3 DEF Verdict, IInv, Claimed
  <2>3. caller[d] # "new"
    BY <1>3 DEF IInv, Known, Enqueued
  <2> QED BY <1>1, <1>2, <2>1, <2>2, <2>3 DEF Verdict
<1>4. CASE d # c
  BY <1>1, <1>2, <1>4, VerdictOfOthers
<1> QED BY <1>3, <1>4

LEMMA VerdictsNotify ==
  ASSUME IInv, Verdicts, NEW r \in reports, NotifyCaller(r)
  PROVE  Verdicts'
<1> DEFINE c == r.cmd
<1>1. /\ UNCHANGED <<commands, reported, caller, history>>
      /\ notify' \subseteq notify \cup {c} /\ reports' \subseteq reports /\ c \in Cmds
  BY DEF NotifyCaller, queue, calls, IInv, TypeOK
<1> SUFFICES ASSUME NEW d \in Cmds PROVE Verdict(d)'
  BY DEF Verdicts
<1>2. Verdict(d)
  BY DEF Verdicts
<1>3. CASE d = c
  <2>1. /\ Has(d, "result")' <=> Has(d, "result")
        /\ Has(d, "failure")' <=> Has(d, "failure")
    BY <1>1 DEF Has, Entries
  <2>2. d \in commands => /\ ~Has(d, "failure") /\ d \in reported
                          /\ caller[d] # "expired"
    BY <1>2, <1>3 DEF Verdict, IInv, Claimed
  <2>3. caller[d] # "new"
    BY <1>3 DEF IInv, Known, Enqueued
  <2> QED BY <1>1, <1>2, <2>1, <2>2, <2>3 DEF Verdict
<1>4. CASE d # c
  BY <1>1, <1>2, <1>4, VerdictKept
<1> QED BY <1>3, <1>4

LEMMA VerdictsAccept ==
  ASSUME IInv, Verdicts, NEW c \in Cmds, AcceptReport(c)
  PROVE  Verdicts'
<1>1. /\ UNCHANGED <<commands, notify, caller, history>>
      /\ c \in commands \ reported /\ reported' = reported \cup {c}
      /\ reports' = reports \cup {[cmd |-> c, pc |-> "record"]}
  BY DEF AcceptReport, calls
<1> SUFFICES ASSUME NEW d \in Cmds PROVE Verdict(d)'
  BY DEF Verdicts
<1>2. Verdict(d)
  BY DEF Verdicts
<1>3. CASE d = c
  <2>1. /\ Has(d, "result")' <=> Has(d, "result")
        /\ Has(d, "failure")' <=> Has(d, "failure")
    BY <1>1 DEF Has, Entries
  <2>2. ~Has(d, "failure") /\ caller[d] # "expired"
    BY <1>1, <1>2, <1>3 DEF Verdict
  <2> QED BY <1>1, <1>2, <1>3, <2>1, <2>2 DEF Verdict
<1>4. CASE d # c
  <2>1. \A q \in reports' : q.cmd = d => \E t \in reports : t.cmd = d
    BY <1>1, <1>4
  <2> QED BY <1>1, <1>2, <1>4, <2>1, VerdictKept
<1> QED BY <1>3, <1>4

LEMMA VerdictsReceive ==
  ASSUME IInv, Verdicts, NEW c \in Cmds, ReceiveResult(c)
  PROVE  Verdicts'
<1>1. /\ caller[c] = "waiting" /\ c \in notify /\ notify' = notify \ {c}
      /\ UNCHANGED <<commands, reported, history, reports>>
      /\ caller \in [Cmds -> Waiting \cup {"new", "async", "answered"}]
      /\ caller' = [caller EXCEPT ![c] = "notified"]
  BY DEF ReceiveResult, IInv, TypeOK, queue
<1> SUFFICES ASSUME NEW d \in Cmds PROVE Verdict(d)'
  BY DEF Verdicts
<1>2. Verdict(d)
  BY DEF Verdicts
<1>3. CASE d = c
  <2>1. /\ Has(d, "result")' <=> Has(d, "result")
        /\ Has(d, "failure")' <=> Has(d, "failure")
    BY <1>1 DEF Has, Entries
  <2>2. caller'[d] = "notified" /\ (d \in commands => ~Has(d, "failure") /\ d \in reported)
    BY <1>1, <1>2, <1>3 DEF Verdict
  <2> QED BY <1>1, <1>2, <1>3, <2>1, <2>2 DEF Verdict
<1>4. CASE d # c
  BY <1>1, <1>2, <1>4, VerdictKept
<1> QED BY <1>3, <1>4

LEMMA VerdictsWithdraw ==
  ASSUME IInv, Verdicts, NEW c \in Cmds, Withdraw(c)
  PROVE  Verdicts'
<1>1. /\ UNCHANGED <<notify, history, reports>>
      /\ commands' = commands \ {c} /\ reported' = reported \ {c}
      /\ caller \in [Cmds -> Waiting \cup {"new", "async", "answered"}]
      /\ caller' = [caller EXCEPT ![c] = "answered"]
  BY DEF Withdraw, IInv, TypeOK
<1> SUFFICES ASSUME NEW d \in Cmds PROVE Verdict(d)'
  BY DEF Verdicts
<1>2. Verdict(d)
  BY DEF Verdicts
<1>3. CASE d = c
  BY <1>1, <1>3 DEF Verdict
<1>4. CASE d # c
  BY <1>1, <1>2, <1>4, VerdictKept
<1> QED BY <1>3, <1>4

\* The agents' polls and the clock touch nothing a verdict is about.
LEMMA VerdictsRest ==
  ASSUME Verdicts, UNCHANGED <<history, caller, notify, commands, reported, reports>>
  PROVE  Verdicts'
BY VerdictKept DEF Verdicts

LEMMA VerdictsStep ==
  ASSUME IInv, Verdicts, [Next]_vars
  PROVE  Verdicts'
<1>1. CASE UNCHANGED vars
  BY <1>1, VerdictsRest DEF vars, queue, calls
<1>2. ASSUME NEW c \in Cmds, EnqueueOnly(c) \/ EnqueueCmd(c) PROVE Verdicts'
  BY <1>2, VerdictsEnqueue DEF EnqueueOnly, EnqueueCmd
<1>3. ASSUME NEW c \in Cmds, CallerStep(c) PROVE Verdicts'
  BY <1>3, VerdictsReceive, VerdictsAnswer, VerdictsExpire, VerdictsFailure,
     VerdictsWithdraw DEF CallerStep
<1>4. ASSUME NEW p \in Polls, Dequeue(p) \/ TakeHanded(p) \/ Leave(p) PROVE Verdicts'
  <2>1. UNCHANGED <<history, caller, notify, commands, reported, reports>>
    BY <1>4 DEF Dequeue, TakeHanded, Leave, queue, calls
  <2> QED BY <2>1, VerdictsRest
<1>5. ASSUME NEW c \in Cmds, AcceptReport(c) PROVE Verdicts'
  BY <1>5, VerdictsAccept
<1>6. ASSUME NEW c \in Cmds, Age(c) PROVE Verdicts'
  BY <1>6, VerdictsRest DEF Age, queue, calls
<1>7. ASSUME NEW r \in reports, ReportStep(r) PROVE Verdicts'
  BY <1>7, VerdictsReport, VerdictsNotify DEF ReportStep
<1> QED BY <1>1, <1>2, <1>3, <1>4, <1>5, <1>6, <1>7 DEF Next

\* A timed out caller and a late report agree on what became of a command the queue
\* still knows, whatever is reported, evicted and withdrawn in between
\* (handleTimeoutOrCancel, NotifyResult, recordResult).
THEOREM Agreement == Spec => []OneVerdict
<1>1. Init => Verdicts
  BY DEF Init, Verdicts, Verdict, Has, Entries
<1>2. IInv /\ Verdicts /\ [Next]_vars => Verdicts'
  BY VerdictsStep
<1>3. IInv /\ Verdicts => OneVerdict
  <2> SUFFICES ASSUME IInv, Verdicts, NEW i \in DOMAIN history, NEW j \in DOMAIN history,
                      history[i].cmd = history[j].cmd, history[i].cmd \in commands
               PROVE  history[i].what = history[j].what
    BY DEF OneVerdict
  <2>1. /\ history[i] \in [cmd : Cmds, what : {"result", "failure"}]
        /\ history[j] \in [cmd : Cmds, what : {"result", "failure"}]
    <3>1. history \in Seq([cmd : Cmds, what : {"result", "failure"}])
      BY DEF IInv, TypeOK
    <3>2. DOMAIN history = 1..Len(history)
      BY <3>1
    <3> QED BY <3>1, <3>2, ElementOfSeq
  <2>2. /\ Has(history[i].cmd, history[i].what)
        /\ Has(history[i].cmd, history[j].what)
    <3>1. /\ history[i] = [cmd |-> history[i].cmd, what |-> history[i].what]
          /\ history[j] = [cmd |-> history[i].cmd, what |-> history[j].what]
      BY <2>1
    <3> QED BY <3>1 DEF Has, Entries
  <2>3. Verdict(history[i].cmd)
    BY <2>1 DEF Verdicts
  <2>4. ~(Has(history[i].cmd, "result") /\ Has(history[i].cmd, "failure"))
    BY <2>3 DEF Verdict
  <2> QED BY <2>1, <2>2, <2>4
<1> QED BY <1>1, <1>2, <1>3, Invariance, PTL DEF Spec

-----------------------------------------------------------------------------
(* CommandQueue implements CommandPromise.                                 *)

\* What is queued, marked and reported hangs together at the start ...
LEMMA InitTraced == Init => Traced
<1> SUFFICES ASSUME Init PROVE Traced
  OBVIOUS
<1>1. Queued = {}
  BY DEF Init, Queued
<1> QED
  BY <1>1 DEF Init, Traced

\* ... and goes on to where no command is taken from the queue and none handed out.
LEMMA QuietTraced ==
  ASSUME Traced, UNCHANGED <<pending, commands, dequeued, taken, saved>>,
         Enqueued \subseteq Enqueued',
         \A r \in reports' : \E q \in reports : q.cmd = r.cmd,
         \A c \in Cmds : c \in notify' \/ caller'[c] = "notified"
                           => c \in notify \/ caller[c] = "notified",
         \A c \in Cmds : caller'[c] = "answered" <=> answer'[c] # "none"
  PROVE  Traced'
<1>1. Queued' = Queued
  BY DEF Queued
<1>2. \A r \in reports' : taken'[r.cmd] > 0
  BY DEF Traced
<1>3. \A c \in Cmds : taken'[c] > 0 => c \in Enqueued' /\ c \notin commands' \ dequeued'
  BY DEF Traced
<1>4. \A c \in Cmds : c \in notify' \/ caller'[c] = "notified" => saved'[c] = 1
  BY DEF Traced
<1> QED
  BY <1>1, <1>2, <1>3, <1>4 DEF Traced

LEMMA TracedEnqueue ==
  ASSUME IInv, Traced, NEW c \in Cmds, NEW state \in {"async", "waiting"}, Enqueue(c, state)
  PROVE  Traced'
<1>1. /\ caller[c] = "new" /\ caller' = [caller EXCEPT ![c] = state]
      /\ caller \in [Cmds -> Waiting \cup {"new", "async", "answered"}]
      /\ pending' = Append(pending, c) /\ pending \in Seq(Cmds)
      /\ commands' = (commands \cup {c}) \ Evicted(c)
      /\ dequeued' = dequeued \ Evicted(c)
      /\ UNCHANGED <<answer, notify, reports, saved, taken>>
  BY DEF Enqueue, IInv, TypeOK
<1>2. Queued' = Queued \cup {c}
  <2>1. /\ DOMAIN pending = 1..Len(pending) /\ DOMAIN pending' = 1..(Len(pending) + 1)
        /\ pending'[Len(pending) + 1] = c
        /\ \A i \in 1..Len(pending) : pending'[i] = pending[i]
        /\ Len(pending) \in Nat
    BY <1>1, AppendProperties
  <2> QED
    BY <2>1 DEF Queued
<1>3. Evicted(c) \cap (Queued \cup {c}) = {}
  BY DEF Evicted
<1>4. c \notin Enqueued /\ Enqueued' = Enqueued \cup {c}
  BY <1>1 DEF Enqueued
<1>5. Queued' \subseteq commands'
  BY <1>1, <1>2, <1>3 DEF Traced
<1>6. \A d \in Cmds : taken'[d] > 0 => d \in Enqueued' /\ d \notin commands' \ dequeued'
  BY <1>1, <1>4 DEF Traced
<1>7. \A d \in Cmds : caller'[d] = "answered" <=> answer'[d] # "none"
  BY <1>1 DEF Traced
<1>8. \A d \in Cmds : d \in notify' \/ caller'[d] = "notified" => saved'[d] = 1
  BY <1>1 DEF Traced
<1> QED
  BY <1>1, <1>5, <1>6, <1>7, <1>8 DEF Traced

LEMMA TracedCaller ==
  ASSUME IInv, Traced, NEW c \in Cmds, CallerStep(c)
  PROVE  Traced'
<1>1. /\ caller \in [Cmds -> Waiting \cup {"new", "async", "answered"}]
      /\ answer \in [Cmds -> {"none", "result", "failure"}]
  BY DEF IInv, TypeOK
<1>2. CASE ReceiveResult(c)
  <2>1. /\ caller[c] = "waiting" /\ c \in notify /\ notify' = notify \ {c}
        /\ caller' = [caller EXCEPT ![c] = "notified"]
        /\ UNCHANGED <<pending, commands, dequeued, taken, saved, reports, answer>>
    BY <1>2 DEF ReceiveResult, queue, polls
  <2> QED
    BY <1>1, <2>1, QuietTraced DEF Traced, Enqueued
<1>3. CASE AnswerResult(c)
  <2>1. /\ caller[c] = "notified"
        /\ caller' = [caller EXCEPT ![c] = "answered"] /\ answer' = [answer EXCEPT ![c] = "result"]
        /\ UNCHANGED <<pending, commands, dequeued, taken, saved, reports, notify>>
    BY <1>3 DEF AnswerResult, queue, polls
  <2> QED
    BY <1>1, <2>1, QuietTraced DEF Traced, Enqueued
<1>4. CASE Expire(c) \/ RecordFailure(c)
  <2>1. PICK state \in {"expired", "withdrawing"} :
          /\ caller[c] \in {"waiting", "expired"} /\ caller' = [caller EXCEPT ![c] = state]
          /\ UNCHANGED <<pending, commands, dequeued, taken, saved, reports, notify, answer>>
    BY <1>4 DEF Expire, RecordFailure, queue, polls
  <2> QED
    BY <1>1, <2>1, QuietTraced DEF Traced, Enqueued
<1>5. CASE Withdraw(c)
  <2>1. /\ caller[c] = "withdrawing" /\ caller' = [caller EXCEPT ![c] = "answered"]
        /\ answer' = [answer EXCEPT ![c] = "failure"]
        /\ commands' = commands \ {c} /\ dequeued' = dequeued \ {c}
        /\ UNCHANGED <<taken, saved, reports, notify>>
    BY <1>5 DEF Withdraw, polls
  <2>2. Queued' \subseteq Queued \ {c}
    <3>1. CASE c \notin Queued /\ UNCHANGED pending
      BY <3>1 DEF Queued
    <3>2. CASE \E i \in DOMAIN pending : pending[i] = c /\ pending' = Without(i)
      <4>1. DOMAIN pending = 1..Len(pending) /\ Len(pending) \in Nat
        BY QueueShape DEF IInv
      <4>2. PICK i \in 1..Len(pending) : pending[i] = c /\ pending' = Without(i)
        BY <3>2, <4>1
      <4>3. ASSUME NEW j \in DOMAIN pending' PROVE pending'[j] \in Queued \ {c}
        <5>1. j \in 1..(Len(pending) - 1) /\ pending'[j] = pending[IF j < i THEN j ELSE j + 1]
          BY <4>2, <4>3 DEF Without
        <5>2. PICK k \in 1..Len(pending) : k # i /\ pending'[j] = pending[k]
          BY <4>1, <5>1
        <5> QED
          BY <4>1, <4>2, <5>2 DEF Queued, IInv, QueueOK
      <4> QED
        BY <4>3 DEF Queued
    <3> QED
      BY <1>5, <3>1, <3>2 DEF Withdraw
  <2>3. Enqueued' = Enqueued
    BY <1>1, <2>1 DEF Enqueued
  <2>4. \A d \in Cmds : caller'[d] = "answered" <=> answer'[d] # "none"
    BY <1>1, <2>1 DEF Traced
  <2>5. \A d \in Cmds : d \in notify' \/ caller'[d] = "notified" => saved'[d] = 1
    BY <1>1, <2>1 DEF Traced
  <2> QED
    BY <2>1, <2>2, <2>3, <2>4, <2>5 DEF Traced
<1> QED
  BY <1>2, <1>3, <1>4, <1>5 DEF CallerStep

\* A delivery marks the command it hands out.
LEMMA TracedPoll ==
  ASSUME IInv, Traced, NEW p \in Polls, Dequeue(p) \/ TakeHanded(p) \/ Leave(p)
  PROVE  Traced'
<1>1. UNCHANGED <<commands, caller, answer, saved, reports, notify>> /\ Enqueued' = Enqueued
  BY DEF Dequeue, TakeHanded, Leave, queue, calls, Enqueued
<1>2. /\ Len(pending) \in Nat /\ DOMAIN pending = 1..Len(pending)
      /\ \A i \in 1..Len(pending) : pending[i] \in Cmds
  BY QueueShape DEF IInv
<1>3. taken \in [Cmds -> Nat] /\ taken' \in [Cmds -> Nat]
  BY NextPreserves DEF IInv, TypeOK, Next
<1>4. Queued' \subseteq Queued
  <2>1. CASE Dequeue(p)
    <3>1. CASE pending' = <<>>
      BY <3>1 DEF Queued
    <3>2. ASSUME NEW i \in Fresh, pending' = SubSeq(pending, i + 1, Len(pending))
          PROVE  Queued' \subseteq Queued
      <4>1. i \in 1..Len(pending)
        BY <1>2 DEF Fresh
      <4>2. /\ DOMAIN pending' = 1..(Len(pending) - i)
            /\ \A j \in 1..(Len(pending) - i) : pending'[j] = pending[i + j]
        BY <3>2, <4>1, FetchShape DEF IInv
      <4>3. \A j \in 1..(Len(pending) - i) : i + j \in 1..Len(pending)
        BY <1>2, <4>1
      <4> QED
        BY <1>2, <4>2, <4>3 DEF Queued
    <3> QED
      BY <2>1, <3>1, <3>2 DEF Dequeue
  <2>2. CASE TakeHanded(p) \/ Leave(p)
    BY <2>2 DEF TakeHanded, Leave, queue, Queued
  <2> QED
    BY <2>1, <2>2
<1>5. \/ UNCHANGED <<dequeued, taken>>
      \/ \E c \in Enqueued : Deliver(c)
  <2>1. CASE Dequeue(p)
    <3>1. \A i \in Fresh : pending[i] \in Enqueued
      BY DEF Fresh, IInv, Known, Queued
    <3> QED
      BY <2>1, <3>1 DEF Dequeue
  <2>2. CASE TakeHanded(p)
    <3>1. inbox[p] \in Enqueued
      BY <2>2 DEF TakeHanded, IInv, Known
    <3> QED
      BY <2>2, <3>1 DEF TakeHanded
  <2>3. CASE Leave(p)
    BY <2>3 DEF Leave, queue
  <2> QED
    BY <2>1, <2>2, <2>3
<1>6. /\ \A c \in Cmds : taken[c] > 0 => taken'[c] > 0
      /\ \A c \in Cmds : taken'[c] > 0 => c \in Enqueued /\ c \notin commands \ dequeued'
  <2>1. CASE UNCHANGED <<dequeued, taken>>
    BY <2>1 DEF Traced
  <2>2. ASSUME NEW c \in Enqueued, Deliver(c)
        PROVE  /\ \A d \in Cmds : taken[d] > 0 => taken'[d] > 0
               /\ \A d \in Cmds : taken'[d] > 0 => d \in Enqueued /\ d \notin commands \ dequeued'
    <3>1. c \in Cmds /\ dequeued' = dequeued \cup {c} /\ taken' = [taken EXCEPT ![c] = @ + 1]
      BY <2>2 DEF Deliver, Enqueued
    <3> QED
      BY <1>3, <2>2, <3>1 DEF Traced
  <2> QED
    BY <1>5, <2>1, <2>2
<1>7. \A r \in reports : r.cmd \in Cmds
  BY DEF IInv, TypeOK
<1> QED
  BY <1>1, <1>4, <1>6, <1>7 DEF Traced

LEMMA TracedReport ==
  ASSUME IInv, Traced,
         \/ \E c \in Cmds : AcceptReport(c) \/ Age(c)
         \/ \E r \in reports : ReportStep(r)
  PROVE  Traced'
<1>1. ASSUME NEW c \in Cmds, AcceptReport(c) PROVE Traced'
  <2>1. /\ UNCHANGED <<pending, commands, dequeued, taken, saved, caller, answer, notify>>
        /\ taken[c] > 0 /\ reports' = reports \cup {[cmd |-> c, pc |-> "record"]}
    BY <1>1 DEF AcceptReport, polls, calls
  <2>2. Queued' = Queued /\ Enqueued' = Enqueued
    BY <2>1 DEF Queued, Enqueued
  <2> QED
    BY <2>1, <2>2 DEF Traced
<1>2. ASSUME NEW c \in Cmds, Age(c) PROVE Traced'
  BY <1>2, QuietTraced DEF Age, queue, polls, calls, Enqueued, Traced
<1>3. ASSUME NEW r \in reports, RecordReport(r) PROVE Traced'
  <2>1. reports' = (reports \ {r}) \cup {[r EXCEPT !.pc = "notify"]}
    BY <1>3 DEF RecordReport
  <2>2. [r EXCEPT !.pc = "notify"].cmd = r.cmd
    BY DEF IInv, TypeOK
  <2>3. UNCHANGED <<pending, commands, dequeued, taken, saved, caller, answer, notify>>
    BY <1>3 DEF RecordReport, queue, polls, calls
  <2> QED
    BY <2>1, <2>2, <2>3, QuietTraced DEF Traced, Enqueued
<1>4. ASSUME NEW r \in reports, NotifyCaller(r) PROVE Traced'
  <2>1. /\ UNCHANGED <<pending, commands, dequeued, taken, caller, answer>>
        /\ notify' \subseteq notify \cup {r.cmd} /\ reports' \subseteq reports
        /\ saved' = [saved EXCEPT ![r.cmd] = @ + 1]
    BY <1>4 DEF NotifyCaller, queue, polls, calls
  <2>2. Queued' = Queued /\ Enqueued' = Enqueued
    BY <2>1 DEF Queued, Enqueued
  <2>3. r.cmd \in Cmds /\ saved[r.cmd] = 0 /\ saved \in [Cmds -> Nat]
    BY DEF IInv, TypeOK, Claimed
  <2>4. saved'[r.cmd] = 1 /\ \A c \in Cmds : c # r.cmd => saved'[c] = saved[c]
    BY <2>1, <2>3
  <2>5. \A c \in Cmds : c \in notify' \/ caller'[c] = "notified" => saved'[c] = 1
    BY <2>1, <2>4 DEF Traced
  <2> QED
    BY <2>1, <2>2, <2>5 DEF Traced
<1> QED
  BY <1>1, <1>2, <1>3, <1>4 DEF ReportStep

LEMMA TracedStep ==
  ASSUME IInv, Traced, [Next]_vars
  PROVE  Traced'
<1>1. CASE UNCHANGED vars
  BY <1>1, QuietTraced DEF vars, queue, polls, calls, Enqueued, Traced
<1>2. ASSUME NEW c \in Cmds, EnqueueOnly(c) \/ EnqueueCmd(c) PROVE Traced'
  BY <1>2, TracedEnqueue DEF EnqueueOnly, EnqueueCmd
<1> QED
  BY <1>1, <1>2, TracedCaller, TracedPoll, TracedReport DEF Next

\* The phone's request as the promise sees it.
LEMMA ToldOf ==
  ASSUME IInv, NEW c \in Cmds
  PROVE  /\ toldOf[c] = "none" <=> caller[c] = "new" \/ (caller[c] = "answered" /\ answer[c] = "none")
         /\ toldOf[c] = "open" <=> caller[c] \in Waiting
         /\ caller[c] = "answered" => toldOf[c] = answer[c]
         /\ caller[c] = "async" => toldOf[c] = "nobody"
BY DEF toldOf, Waiting, IInv, TypeOK

\* What is before a command depends on the queue and on who was handed out.
LEMMA OutOfSight ==
  ASSUME UNCHANGED <<pending, commands, taken, saved>>,
         \A c \in Cmds : toldOf'[c] = toldOf[c]
  PROVE  UNCHANGED Promise!vars
<1>1. aheadOf' = aheadOf
  BY DEF aheadOf
<1>2. toldOf' = toldOf
  BY DEF toldOf
<1> QED
  BY <1>1, <1>2 DEF Promise!vars

\* The caller waits on, or is told something.
LEMMA ToldMoves ==
  ASSUME IInv, NEW c \in Cmds, NEW state \in Waiting \cup {"async", "answered"},
         caller' = [caller EXCEPT ![c] = state]
  PROVE  /\ \A d \in Cmds : d # c => caller'[d] = caller[d]
         /\ caller'[c] = state
BY DEF IInv, TypeOK

\* The promise counts as the queue does.
LEMMA SameCount == \A S : Promise!Cardinality(S) = Cardinality(S)
BY DEF Promise!Cardinality, Cardinality

LEMMA EnqueueRefines ==
  ASSUME IInv, Traced, NEW c \in Cmds, EnqueueOnly(c) \/ EnqueueCmd(c)
  PROVE  [Promise!Next]_Promise!vars
<1>1. PICK state \in {"async", "waiting"} :
        /\ Enqueue(c, state)
        /\ state = "waiting" => Cardinality({d \in Cmds : caller[d] \in Waiting}) < MaxCallers
  BY DEF EnqueueOnly, EnqueueCmd
<1> DEFINE how  == IF state = "async" THEN "nobody" ELSE "open"
           gone == Evicted(c)
           n    == Len(pending)
<1>2. /\ caller[c] = "new" /\ caller' = [caller EXCEPT ![c] = state]
      /\ caller \in [Cmds -> Waiting \cup {"new", "async", "answered"}]
      /\ pending' = Append(pending, c) /\ pending \in Seq(Cmds)
      /\ commands' = (commands \cup {c}) \ gone
      /\ UNCHANGED <<answer, saved, taken>>
  BY <1>1 DEF Enqueue, IInv, TypeOK
<1>3. toldOf' = [toldOf EXCEPT ![c] = how]
  BY <1>1, <1>2 DEF toldOf
<1>4. {d \in Cmds : toldOf[d] = "open"} = {d \in Cmds : caller[d] \in Waiting}
  BY ToldOf
<1>5. /\ gone \subseteq {d \in commands : taken[d] > 0}
      /\ Cardinality(commands \cup {c}) <= MaxStored => gone = {}
  <2>1. \A d \in commands : d \in Cmds /\ taken[d] \in Nat
    BY DEF IInv, TypeOK
  <2> QED
    BY <2>1 DEF Evicted, IInv, NoneLost
<1>6. c \notin commands /\ c \notin Queued /\ taken[c] = 0
  <2>1. c \notin Enqueued /\ taken[c] \in Nat
    BY <1>2 DEF Enqueued, IInv, TypeOK
  <2> QED
    BY <2>1 DEF IInv, Known, Traced
<1>7. /\ n \in Nat /\ DOMAIN pending = 1..n /\ DOMAIN pending' = 1..(n + 1)
      /\ pending'[n + 1] = c
      /\ \A i \in 1..n : pending'[i] = pending[i] /\ pending[i] # c
  <2>1. /\ n \in Nat /\ DOMAIN pending = 1..n /\ DOMAIN pending' = 1..(n + 1)
        /\ pending'[n + 1] = c /\ \A i \in 1..n : pending'[i] = pending[i]
    BY <1>2, AppendProperties
  <2> QED
    BY <1>6, <2>1 DEF Queued
<1> HIDE DEF n, gone, how
<1>8. ASSUME NEW d \in Cmds
      PROVE  d \in aheadOf'[c] <=> d \in commands /\ taken[d] = 0
  <2>1. d \in aheadOf'[c] <=>
          taken[d] = 0 /\ \E i, j \in 1..(n + 1) : i < j /\ pending'[i] = d /\ pending'[j] = c
    <3>1. d \in aheadOf'[c] <=>
            /\ taken'[c] = 0 /\ taken'[d] = 0
            /\ \E i, j \in DOMAIN pending' : i < j /\ pending'[i] = d /\ pending'[j] = c
      BY DEF aheadOf
    <3> QED
      BY <1>2, <1>6, <1>7, <3>1
  <2>2. ASSUME taken[d] = 0, NEW i \in 1..(n + 1), NEW j \in 1..(n + 1), i < j, pending'[i] = d
        PROVE  d \in commands
    <3>1. i \in 1..n /\ pending[i] = d
      BY <1>7, <2>2
    <3> QED
      BY <1>7, <3>1 DEF Traced, Queued
  <2>3. ASSUME d \in commands, taken[d] = 0
        PROVE  \E i, j \in 1..(n + 1) : i < j /\ pending'[i] = d /\ pending'[j] = c
    <3>1. PICK i \in 1..n : pending[i] = d
      BY <1>7, <2>3 DEF IInv, NoneLost, Queued
    <3>2. i \in 1..(n + 1) /\ n + 1 \in 1..(n + 1) /\ i < n + 1
      BY <1>7
    <3> QED
      BY <1>7, <3>1, <3>2
  <2> QED
    BY <2>1, <2>2, <2>3
<1>9. ASSUME NEW e \in Cmds, e # c, NEW d \in Cmds
      PROVE  d \in aheadOf'[e] <=> d \in aheadOf[e]
  <2>1. \A i, j \in 1..n : i < j /\ pending[i] = d /\ pending[j] = e =>
          \E k, l \in 1..(n + 1) : k < l /\ pending'[k] = d /\ pending'[l] = e
    BY <1>7
  <2>2. \A i, j \in 1..(n + 1) : i < j /\ pending'[i] = d /\ pending'[j] = e =>
          i \in 1..n /\ j \in 1..n /\ pending[i] = d /\ pending[j] = e
    BY <1>7, <1>9
  <2> QED
    <3>1. /\ d \in aheadOf'[e] <=>
               /\ taken'[e] = 0 /\ taken'[d] = 0
               /\ \E i, j \in DOMAIN pending' : i < j /\ pending'[i] = d /\ pending'[j] = e
          /\ d \in aheadOf[e] <=>
               /\ taken[e] = 0 /\ taken[d] = 0
               /\ \E i, j \in DOMAIN pending : i < j /\ pending[i] = d /\ pending[j] = e
      BY DEF aheadOf
    <3> QED
      BY <1>2, <1>7, <2>1, <2>2, <3>1
<1>10. aheadOf' = [aheadOf EXCEPT ![c] = {d \in commands : taken[d] = 0}]
  <2>1. aheadOf'[c] = {d \in commands : taken[d] = 0}
    <3>1. commands \subseteq Cmds /\ aheadOf'[c] \subseteq Cmds
      BY DEF IInv, TypeOK, aheadOf
    <3> QED
      BY <1>8, <3>1
  <2>2. \A e \in Cmds : e # c => aheadOf'[e] = aheadOf[e]
    <3>1. \A e \in Cmds : aheadOf'[e] \subseteq Cmds /\ aheadOf[e] \subseteq Cmds
      BY DEF aheadOf
    <3> QED
      BY <1>9, <3>1
  <2>3. DOMAIN aheadOf = Cmds /\ DOMAIN aheadOf' = Cmds
        /\ aheadOf = [e \in Cmds |-> aheadOf[e]] /\ aheadOf' = [e \in Cmds |-> aheadOf'[e]]
    BY DEF aheadOf
  <2> QED
    BY <2>1, <2>2, <2>3
<1>11. toldOf[c] = "none" /\ how \in {"nobody", "open"}
       /\ (how = "open" => Cardinality({d \in Cmds : toldOf[d] = "open"}) < MaxCallers)
  BY <1>1, <1>2, <1>4, ToldOf DEF how
<1>12. Promise!Send(c, how, gone)
  <2>1. Promise!Waiting = {d \in commands : taken[d] = 0}
    BY DEF Promise!Waiting
  <2>2. aheadOf' = [aheadOf EXCEPT ![c] = Promise!Waiting]
    BY <1>10, <2>1
  <2> QED
    BY <1>2, <1>3, <1>5, <1>11, <2>2, SameCount, Zenon DEF Promise!Send
<1>13. gone \in SUBSET Promise!Finished
  BY <1>5 DEF Promise!Finished
<1> QED
  BY <1>11, <1>12, <1>13 DEF Promise!Next

\* Handing out the first of the queue.  The queue may lose what was handed out.
LEMMA HandRefines ==
  ASSUME IInv, Traced, NEW c \in Cmds, c \notin dequeued, Deliver(c),
         c \in commands => aheadOf[c] = {},
         c \in Enqueued,
         UNCHANGED <<commands, saved, caller, answer>>,
         \A d, e \in Cmds : taken'[d] = 0 /\ taken'[e] = 0 =>
            ((\E i, j \in DOMAIN pending : i < j /\ pending[i] = d /\ pending[j] = e)
               <=> (\E i, j \in DOMAIN pending' : i < j /\ pending'[i] = d /\ pending'[j] = e))
  PROVE  [Promise!Next]_Promise!vars
<1>1. taken \in [Cmds -> Nat] /\ taken' = [taken EXCEPT ![c] = @ + 1]
  BY DEF IInv, TypeOK, Deliver
<1>2. toldOf' = toldOf
  BY DEF toldOf
<1>3. ASSUME NEW e \in Cmds PROVE aheadOf'[e] = aheadOf[e] \ {c}
  <2>1. ASSUME NEW d \in Cmds PROVE d \in aheadOf'[e] <=> d \in aheadOf[e] /\ d # c
    <3>1. /\ taken'[d] = 0 <=> taken[d] = 0 /\ d # c
          /\ taken'[e] = 0 <=> taken[e] = 0 /\ e # c
      BY <1>1
    <3>2. /\ d \in aheadOf'[e] <=>
               /\ taken'[e] = 0 /\ taken'[d] = 0
               /\ \E i, j \in DOMAIN pending' : i < j /\ pending'[i] = d /\ pending'[j] = e
          /\ d \in aheadOf[e] <=>
               /\ taken[e] = 0 /\ taken[d] = 0
               /\ \E i, j \in DOMAIN pending : i < j /\ pending[i] = d /\ pending[j] = e
      BY DEF aheadOf
    <3>3. CASE e = c
      <4>1. d \notin aheadOf[e]
        <5>1. CASE c \in commands
          BY <3>3, <5>1
        <5>2. CASE c \notin commands
          BY <3>2, <3>3, <5>2 DEF Traced, Queued
        <5> QED
          BY <5>1, <5>2
      <4> QED
        BY <3>1, <3>2, <3>3, <4>1
    <3>4. CASE e # c
      BY <3>1, <3>2, <3>4
    <3> QED
      BY <3>3, <3>4
  <2>2. aheadOf'[e] \subseteq Cmds /\ aheadOf[e] \subseteq Cmds
    BY DEF aheadOf
  <2> QED
    BY <2>1, <2>2
<1>4. aheadOf' = [e \in Cmds |-> aheadOf[e] \ {c}]
  <2>1. aheadOf' = [e \in Cmds |-> aheadOf'[e]]
    BY DEF aheadOf
  <2> QED
    BY <1>3, <2>1
<1>5. CASE c \in commands
  <2>1. taken[c] = 0
    BY <1>1, <1>5 DEF Traced
  <2>2. Promise!Hand(c)
    BY <1>1, <1>2, <1>4, <1>5, <2>1 DEF Promise!Hand, Promise!Waiting
  <2> QED
    BY <2>2 DEF Promise!Next
<1>6. CASE c \notin commands
  <2>1. toldOf[c] # "none"
    BY ToldOf DEF Enqueued, Traced
  <2>2. aheadOf' = aheadOf
    <3>1. \A e \in Cmds : c \notin aheadOf[e]
      BY <1>6 DEF aheadOf, Traced, Queued
    <3>2. aheadOf = [e \in Cmds |-> aheadOf[e]]
      BY DEF aheadOf
    <3> QED
      BY <1>4, <3>1, <3>2
  <2>3. Promise!HandLate(c)
    BY <1>1, <1>2, <1>6, <2>1, <2>2 DEF Promise!HandLate
  <2> QED
    BY <2>3 DEF Promise!Next
<1> QED
  BY <1>5, <1>6

LEMMA DequeueRefines ==
  ASSUME IInv, Traced, NEW p \in Polls, Dequeue(p)
  PROVE  [Promise!Next]_Promise!vars
<1> DEFINE n == Len(pending)
<1>1. /\ n \in Nat /\ DOMAIN pending = 1..n
      /\ \A i \in 1..n : pending[i] \in Cmds
  BY QueueShape DEF IInv
<1>2. UNCHANGED <<commands, saved, caller, answer>>
  BY DEF Dequeue, calls
<1>3. CASE /\ Fresh = {} /\ pending' = <<>>
           /\ UNCHANGED <<dequeued, taken>>
  <2>1. \A i \in 1..n : taken[pending[i]] > 0
    BY <1>1, <1>3 DEF Fresh, IInv, Marked
  <2>2. \A e \in Cmds : aheadOf[e] = {} /\ aheadOf'[e] = {}
    BY <1>1, <1>3, <2>1 DEF aheadOf
  <2>3. aheadOf' = aheadOf
    BY <2>2 DEF aheadOf
  <2>4. toldOf' = toldOf
    BY <1>2 DEF toldOf
  <2> QED
    BY <1>2, <1>3, <2>3, <2>4 DEF Promise!vars
<1>4. CASE \E i \in Fresh :
             /\ \A j \in Fresh : i <= j
             /\ pending' = SubSeq(pending, i + 1, Len(pending))
             /\ Deliver(pending[i])
  <2>1. PICK i \in Fresh :
             /\ \A j \in Fresh : i <= j
             /\ pending' = SubSeq(pending, i + 1, Len(pending))
             /\ Deliver(pending[i])
    BY <1>4
  <2> DEFINE c == pending[i]
  <2>2. /\ i \in 1..n /\ c \in Cmds /\ c \notin dequeued /\ c \in Queued /\ Deliver(c)
        /\ \A j \in 1..n : j < i => pending[j] \in dequeued
    BY <1>1, <2>1 DEF Fresh, Queued
  <2>3. /\ DOMAIN pending' = 1..(n - i)
        /\ \A j \in 1..(n - i) : pending'[j] = pending[i + j]
    BY <2>1, <2>2, FetchShape DEF IInv
  <2>4. /\ \A j \in 1..n : j < i => taken[pending[j]] > 0
        /\ taken \in [Cmds -> Nat] /\ taken' = [taken EXCEPT ![c] = @ + 1]
    BY <2>1, <2>2 DEF IInv, TypeOK, Marked, Deliver
  <2>5. \A j \in 1..n : taken'[pending[j]] = 0 => i < j
    <3> SUFFICES ASSUME NEW j \in 1..n, ~(i < j) PROVE taken'[pending[j]] # 0
      OBVIOUS
    <3>1. j < i \/ j = i
      BY <1>1, <2>2
    <3> QED
      BY <1>1, <2>2, <2>4, <3>1
  <2>6. aheadOf[c] = {}
    <3> SUFFICES ASSUME NEW d \in aheadOf[c] PROVE FALSE
      OBVIOUS
    <3>1. PICK j, k \in 1..n : j < k /\ pending[j] = d /\ pending[k] = c /\ taken[d] = 0
      BY <1>1, <2>2 DEF aheadOf
    <3>2. k = i
      BY <1>1, <2>2, <3>1 DEF IInv, QueueOK
    <3> QED
      BY <2>4, <3>1, <3>2
  <2> HIDE DEF n, c
  <2>7. ASSUME NEW d \in Cmds, NEW e \in Cmds, taken'[d] = 0, taken'[e] = 0
        PROVE  (\E j, k \in DOMAIN pending : j < k /\ pending[j] = d /\ pending[k] = e)
                 <=> (\E j, k \in DOMAIN pending' : j < k /\ pending'[j] = d /\ pending'[k] = e)
    <3>1. ASSUME NEW j \in 1..n, NEW k \in 1..n, j < k, pending[j] = d, pending[k] = e
          PROVE  \E q, r \in 1..(n - i) : q < r /\ pending'[q] = d /\ pending'[r] = e
      <4>1. i < j
        BY <2>5, <2>7, <3>1
      <4>2. j - i \in 1..(n - i) /\ k - i \in 1..(n - i) /\ j - i < k - i
            /\ i + (j - i) = j /\ i + (k - i) = k
        BY <1>1, <2>2, <3>1, <4>1
      <4>3. pending'[j - i] = d /\ pending'[k - i] = e
        BY <2>3, <3>1, <4>2
      <4> QED
        BY <4>2, <4>3
    <3>2. ASSUME NEW q \in 1..(n - i), NEW r \in 1..(n - i), q < r, pending'[q] = d, pending'[r] = e
          PROVE  \E j, k \in 1..n : j < k /\ pending[j] = d /\ pending[k] = e
      <4>1. i + q \in 1..n /\ i + r \in 1..n /\ i + q < i + r
        BY <1>1, <2>2, <3>2
      <4>2. pending[i + q] = d /\ pending[i + r] = e
        BY <2>3, <3>2
      <4> QED
        BY <4>1, <4>2
    <3> QED
      BY <1>1, <2>3, <3>1, <3>2
  <2>8. c \in Enqueued
    BY <2>2 DEF IInv, Known
  <2> QED
    BY <1>2, <2>2, <2>6, <2>7, <2>8, HandRefines
<1> QED
  BY <1>3, <1>4 DEF Dequeue

LEMMA TakeHandedRefines ==
  ASSUME IInv, Traced, NEW p \in Polls, TakeHanded(p)
  PROVE  [Promise!Next]_Promise!vars
<1> DEFINE c == inbox[p]
<1>1. /\ c \in Cmds /\ c \in Enqueued
      /\ UNCHANGED <<pending, commands, saved, caller, answer>>
  BY DEF TakeHanded, IInv, TypeOK, Known, calls
<1>2. CASE c \in dequeued
  BY <1>1, <1>2, OutOfSight DEF TakeHanded, toldOf
<1>3. CASE c \notin dequeued
  <2>1. Deliver(c)
    BY <1>3 DEF TakeHanded
  <2>2. aheadOf[c] = {}
    <3> SUFFICES ASSUME NEW d \in aheadOf[c] PROVE FALSE
      OBVIOUS
    <3>1. DOMAIN pending = 1..Len(pending) /\ Len(pending) \in Nat
      BY QueueShape DEF IInv
    <3>2. PICK i, j \in DOMAIN pending : i < j /\ pending[j] = c
      BY <1>1 DEF aheadOf
    <3>3. j = 1
      BY <3>2 DEF IInv, QueueOK
    <3> QED
      BY <3>1, <3>2, <3>3
  <2> QED
    BY <1>1, <1>3, <2>1, <2>2, HandRefines
<1> QED
  BY <1>2, <1>3

LEMMA CallerRefines ==
  ASSUME IInv, Traced, NEW c \in Cmds, CallerStep(c)
  PROVE  [Promise!Next]_Promise!vars
<1>1. /\ caller \in [Cmds -> Waiting \cup {"new", "async", "answered"}]
      /\ answer \in [Cmds -> {"none", "result", "failure"}]
  BY DEF IInv, TypeOK
<1>2. CASE ReceiveResult(c) \/ Expire(c) \/ RecordFailure(c)
  <2>1. PICK state \in Waiting :
          /\ caller[c] \in Waiting /\ caller' = [caller EXCEPT ![c] = state]
          /\ UNCHANGED <<pending, commands, taken, saved, answer>>
    BY <1>2 DEF ReceiveResult, Expire, RecordFailure, queue, polls, Waiting
  <2>2. \A d \in Cmds : toldOf'[d] = toldOf[d]
    BY <1>1, <2>1 DEF toldOf, Waiting
  <2> QED
    BY <2>1, <2>2, OutOfSight
<1>3. CASE AnswerResult(c)
  <2>1. /\ caller[c] = "notified" /\ caller' = [caller EXCEPT ![c] = "answered"]
        /\ answer' = [answer EXCEPT ![c] = "result"]
        /\ UNCHANGED <<pending, commands, taken, saved>>
    BY <1>3 DEF AnswerResult, queue, polls
  <2>2. toldOf' = [toldOf EXCEPT ![c] = "result"] /\ toldOf[c] = "open"
    BY <1>1, <2>1 DEF toldOf
  <2>3. aheadOf' = aheadOf
    BY <2>1 DEF aheadOf
  <2>4. saved[c] = 1
    BY <2>1 DEF Traced
  <2>5. Promise!TellResult(c)
    BY <2>1, <2>2, <2>3, <2>4 DEF Promise!TellResult
  <2> QED
    BY <2>5 DEF Promise!Next
<1>4. CASE Withdraw(c)
  <2> DEFINE n == Len(pending)
  <2>1. /\ caller[c] = "withdrawing" /\ caller' = [caller EXCEPT ![c] = "answered"]
        /\ answer' = [answer EXCEPT ![c] = "failure"]
        /\ commands' = commands \ {c} /\ UNCHANGED <<taken, saved>>
    BY <1>4 DEF Withdraw, polls
  <2>2. toldOf' = [toldOf EXCEPT ![c] = "failure"] /\ toldOf[c] = "open"
    BY <1>1, <2>1 DEF toldOf
  <2>3. /\ n \in Nat /\ DOMAIN pending = 1..n
        /\ \A i, j \in 1..n : pending[i] = pending[j] => i = j
    BY QueueShape DEF IInv, QueueOK
  <2> DEFINE Before(d, e)      == \E i, j \in DOMAIN pending : i < j /\ pending[i] = d /\ pending[j] = e
             BeforeAfter(d, e) == \E i, j \in DOMAIN pending' : i < j /\ pending'[i] = d /\ pending'[j] = e
  <2>4. ASSUME NEW d \in Cmds, NEW e \in Cmds
        PROVE  BeforeAfter(d, e) <=> Before(d, e) /\ d # c /\ e # c
    <3>1. CASE c \notin Queued /\ UNCHANGED pending
      BY <3>1 DEF Queued
    <3>2. CASE \E i \in DOMAIN pending : pending[i] = c /\ pending' = Without(i)
      <4>1. PICK i \in 1..n : pending[i] = c /\ pending' = Without(i)
        BY <2>3, <3>2
      <4> DEFINE from(j) == IF j < i THEN j ELSE j + 1
                 to(j)   == IF j < i THEN j ELSE j - 1
      <4>2. /\ DOMAIN pending' = 1..(n - 1)
            /\ \A j \in 1..(n - 1) : pending'[j] = pending[from(j)]
        BY <4>1 DEF Without
      <4>3. /\ \A j \in 1..(n - 1) : from(j) \in 1..n /\ from(j) # i
            /\ \A j, k \in 1..(n - 1) : j < k => from(j) < from(k)
        BY <2>3
      <4>4. /\ \A j \in 1..n : j # i => to(j) \in 1..(n - 1) /\ from(to(j)) = j
            /\ \A j, k \in 1..n : j # i /\ k # i /\ j < k => to(j) < to(k)
        BY <2>3
      <4> HIDE DEF from, to, n
      <4>5. ASSUME NEW j \in 1..(n - 1), NEW k \in 1..(n - 1), j < k, pending'[j] = d, pending'[k] = e
            PROVE  Before(d, e) /\ d # c /\ e # c
        <5>1. /\ from(j) \in 1..n /\ from(k) \in 1..n /\ from(j) < from(k)
              /\ pending[from(j)] = d /\ pending[from(k)] = e
              /\ from(j) # i /\ from(k) # i
          BY <4>2, <4>3, <4>5
        <5> QED
          BY <2>3, <4>1, <5>1
      <4>6. ASSUME NEW j \in 1..n, NEW k \in 1..n, j < k, pending[j] = d, pending[k] = e, d # c, e # c
            PROVE  BeforeAfter(d, e)
        <5>1. /\ to(j) \in 1..(n - 1) /\ to(k) \in 1..(n - 1) /\ to(j) < to(k)
              /\ pending'[to(j)] = d /\ pending'[to(k)] = e
          BY <4>1, <4>2, <4>4, <4>6
        <5> QED
          BY <4>2, <5>1
      <4> QED
        BY <2>3, <4>2, <4>5, <4>6
    <3> QED
      BY <1>4, <3>1, <3>2 DEF Withdraw
  <2>5. ASSUME NEW e \in Cmds
        PROVE  aheadOf'[e] = IF e = c THEN {} ELSE aheadOf[e] \ {c}
    <3>1. ASSUME NEW d \in Cmds
          PROVE  /\ d \in aheadOf'[e] <=> taken[e] = 0 /\ taken[d] = 0 /\ BeforeAfter(d, e)
                 /\ d \in aheadOf[e] <=> taken[e] = 0 /\ taken[d] = 0 /\ Before(d, e)
      BY <2>1 DEF aheadOf
    <3>2. aheadOf'[e] \subseteq Cmds /\ aheadOf[e] \subseteq Cmds
      BY DEF aheadOf
    <3> HIDE DEF Before, BeforeAfter
    <3> QED
      BY <2>4, <3>1, <3>2
  <2>6. aheadOf' = [e \in Cmds |-> IF e = c THEN {} ELSE aheadOf[e] \ {c}]
    <3>1. aheadOf' = [e \in Cmds |-> aheadOf'[e]]
      BY DEF aheadOf
    <3> QED
      BY <2>5, <3>1
  <2>7. Promise!TellFailure(c)
    BY <2>1, <2>2, <2>6 DEF Promise!TellFailure
  <2> QED
    BY <2>7 DEF Promise!Next
<1> QED
  BY <1>2, <1>3, <1>4 DEF CallerStep

LEMMA ReportRefines ==
  ASSUME IInv, Traced, NEW r \in reports, ReportStep(r)
  PROVE  [Promise!Next]_Promise!vars
<1>1. CASE RecordReport(r)
  BY <1>1, OutOfSight DEF RecordReport, queue, polls, calls, toldOf
<1>2. CASE NotifyCaller(r)
  <2> DEFINE c == r.cmd
  <2>1. /\ UNCHANGED <<pending, commands, taken, caller, answer>>
        /\ saved' = [saved EXCEPT ![c] = @ + 1]
    BY <1>2 DEF NotifyCaller, queue, polls, calls
  <2>2. c \in Cmds /\ saved \in [Cmds -> Nat] /\ saved[c] = 0 /\ taken[c] > 0
    BY DEF IInv, TypeOK, Claimed, Traced
  <2>3. saved' = [saved EXCEPT ![c] = 1]
    BY <2>1, <2>2
  <2>4. toldOf' = toldOf /\ aheadOf' = aheadOf
    BY <2>1 DEF toldOf, aheadOf
  <2>5. Promise!Count(c)
    BY <2>1, <2>2, <2>3, <2>4 DEF Promise!Count
  <2> QED
    BY <2>2, <2>5 DEF Promise!Next
<1> QED
  BY <1>1, <1>2 DEF ReportStep

\* Each step of the queue is one step of the promise, or none of its business.
LEMMA StepRefines ==
  ASSUME IInv, Traced, [Next]_vars
  PROVE  [Promise!Next]_Promise!vars
<1>1. CASE UNCHANGED vars
  BY <1>1, OutOfSight DEF vars, queue, polls, calls, toldOf
<1>2. ASSUME NEW c \in Cmds, EnqueueOnly(c) \/ EnqueueCmd(c) PROVE [Promise!Next]_Promise!vars
  BY <1>2, EnqueueRefines
<1>3. ASSUME NEW c \in Cmds, CallerStep(c) PROVE [Promise!Next]_Promise!vars
  BY <1>3, CallerRefines
<1>4. ASSUME NEW p \in Polls, Dequeue(p) PROVE [Promise!Next]_Promise!vars
  BY <1>4, DequeueRefines
<1>5. ASSUME NEW p \in Polls, TakeHanded(p) PROVE [Promise!Next]_Promise!vars
  BY <1>5, TakeHandedRefines
<1>6. ASSUME NEW p \in Polls, Leave(p) PROVE [Promise!Next]_Promise!vars
  BY <1>6, OutOfSight DEF Leave, queue, calls, toldOf
<1>7. ASSUME NEW c \in Cmds, AcceptReport(c) \/ Age(c) PROVE [Promise!Next]_Promise!vars
  BY <1>7, OutOfSight DEF AcceptReport, Age, queue, polls, calls, toldOf
<1>8. ASSUME NEW r \in reports, ReportStep(r) PROVE [Promise!Next]_Promise!vars
  BY <1>8, ReportRefines
<1> QED
  BY <1>1, <1>2, <1>3, <1>4, <1>5, <1>6, <1>7, <1>8 DEF Next

\* However polls, reports, time-outs, withdrawals and evictions interleave, the queue
\* hands out each command it knows once and in its turn, counts one report, forgets
\* only what was handed out, and tells the phone no result that did not count.
THEOREM Kept == Spec => QueuePromiseKept
<1>1. Init => Promise!Init
  <2> SUFFICES ASSUME Init PROVE Promise!Init
    OBVIOUS
  <2>1. toldOf = [c \in Cmds |-> "none"]
    BY DEF Init, toldOf
  <2>2. DOMAIN pending = {}
    BY DEF Init
  <2>3. aheadOf = [c \in Cmds |-> {}]
    BY <2>2 DEF aheadOf
  <2> QED
    BY <2>1, <2>3 DEF Init, Promise!Init
<1>2. IInv /\ Traced /\ [Next]_vars => Traced' /\ [Promise!Next]_Promise!vars
  BY TracedStep, StepRefines
<1> QED
  BY <1>1, <1>2, InitTraced, Invariance, PTL DEF Spec, QueuePromiseKept, Promise!Spec
=============================================================================
