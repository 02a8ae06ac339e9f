---------------------- MODULE CollaborationOAuth_proofs -----------------------
(***************************************************************************)
(* What the provers establish of CollaborationOAuth, for any providers and  *)
(* any number of flows and browsers.  That a token is returned once rests   *)
(* on its being in one place at a time (OnePlace): a callback writes its    *)
(* token into a flow and is done in the same step, and Status takes a flow  *)
(* away as it returns its token.                                            *)
(***************************************************************************)
EXTENDS CollaborationOAuth, TLAPS

States == {"none", "asked", "pending", "complete", "over"}
Requests == {Unused, Done} \cup Underway

\* What the invariant says of the server ...
Kept ==
  /\ flows \in [FlowIds -> {None} \cup Flow]
  /\ \A f \in FlowIds : flows[f] # None =>
       f <= started /\ (flows[f].status = "complete" <=> flows[f].token # 0)
  /\ callbacks \in [Callbacks -> Requests]
  /\ returned \in [Callbacks -> [FlowIds -> Nat]]
  /\ \A k \in Callbacks : callbacks[k].pc \in {"exchange", "finish"} =>
       LET f == callbacks[k].flow IN
       f <= started /\ (flows[f] # None => flows[f].provider = callbacks[k].provider)
  /\ OnePlace /\ ReturnedOnce

\* ... and of the phone.
Asked ==
  /\ old \subseteq 1..started /\ started \in 0..MaxFlows
  /\ authorizing \in BOOLEAN /\ shown \in BOOLEAN
  /\ latest \in 0..started /\ timer \in 0..started
  /\ starting \in [Attempts -> Starting]
  /\ polls \in [FlowIds -> States]
  /\ \A f \in FlowIds : polls[f] # "none" => f <= started

LEMMA Halves == IInv <=> Kept /\ Asked
BY DEF IInv, TypeOK, InOrder, Kept, Asked, Starting, States, Requests

LEMMA HalvesAfter == ASSUME Kept', Asked' PROVE IInv'
BY DEF IInv, TypeOK, InOrder, Kept, Asked, Starting, States, Requests

LEMMA FlowKinds ==
  ASSUME NEW x \in {None} \cup Flow
  PROVE  /\ x = None \/ x \in Flow
         /\ x.status = "none" <=> x = None
         /\ x.status \in {"pending", "complete", "failed"} <=> x \in Flow
         /\ x \in Flow => x.token \in 0..MaxCallbacks /\ x.provider \in Providers
BY DEF None, Flow

LEMMA CallbackKinds ==
  ASSUME NEW c \in Requests
  PROVE  /\ c.pc \in {"exchange", "finish"} <=> c \in Underway
         /\ c.pc = "done" <=> c = Done
         /\ c.pc = "unused" <=> c = Unused
         /\ c \in Underway => c.flow \in FlowIds /\ c.provider \in Providers
                              /\ c.result \in {"complete", "failed"} /\ c # Done
BY DEF Requests, Unused, Done, Underway

\* Taking flows away disturbs nothing.
LEMMA Thinning ==
  ASSUME Kept, flows' \in [FlowIds -> {None} \cup Flow],
         \A f \in FlowIds : flows'[f] = None \/ flows'[f] = flows[f],
         UNCHANGED <<callbacks, returned, started>>
  PROVE  Kept'
<1>1. /\ \A f \in FlowIds : flows'[f] # None =>
           f <= started' /\ (flows'[f].status = "complete" <=> flows'[f].token # 0)
      /\ callbacks' \in [Callbacks -> Requests]
      /\ returned' \in [Callbacks -> [FlowIds -> Nat]]
      /\ ReturnedOnce'
  BY DEF Kept, ReturnedOnce, Returns
<1>2. \A k \in Callbacks : callbacks'[k].pc \in {"exchange", "finish"} =>
        /\ callbacks'[k].flow <= started'
        /\ flows'[callbacks'[k].flow] # None =>
             flows'[callbacks'[k].flow].provider = callbacks'[k].provider
  <2>1. SUFFICES ASSUME NEW k \in Callbacks, callbacks[k].pc \in {"exchange", "finish"}
                 PROVE  /\ callbacks[k].flow <= started
                        /\ flows'[callbacks[k].flow] # None =>
                             flows'[callbacks[k].flow].provider = callbacks[k].provider
    OBVIOUS
  <2>2. callbacks[k].flow \in FlowIds
    BY <2>1, CallbackKinds DEF Kept
  <2> QED BY <2>1, <2>2 DEF Kept
<1>3. OnePlace'
  BY DEF Kept, OnePlace
<1> QED BY <1>1, <1>2, <1>3 DEF Kept

LEMMA CleanedFlows ==
  ASSUME Kept
  PROVE  /\ Cleaned \in [FlowIds -> {None} \cup Flow]
         /\ \A f \in FlowIds : Cleaned[f] = None \/ (Cleaned[f] = flows[f] /\ f \notin old)
BY DEF Kept, Cleaned

\* A token is returned for a flow that had it, which is gone afterwards.
LEMMA ReportKeeps ==
  ASSUME Kept, NEW f \in FlowIds, Report(f), UNCHANGED <<callbacks, started>>
  PROVE  Kept'
<1> DEFINE flow == Cleaned[f]
<1>1. /\ Cleaned \in [FlowIds -> {None} \cup Flow]
      /\ \A g \in FlowIds : Cleaned[g] = None \/ Cleaned[g] = flows[g]
  BY CleanedFlows
<1>2. /\ flows' \in [FlowIds -> {None} \cup Flow]
      /\ \A g \in FlowIds : flows'[g] = None \/ flows'[g] = flows[g]
      /\ flow.status # "pending" => flows'[f] = None
  BY <1>1 DEF Report
<1>3. CASE flow.status # "complete"
  <2>1. returned' = returned
    BY <1>3 DEF Report
  <2> QED BY <1>2, <2>1, Thinning
<1>4. CASE flow.status = "complete"
  <2> DEFINE k == flow.token
  <2>1. flow \in Flow /\ flow = flows[f] /\ flows[f] # None /\ flow # None
    BY <1>1, <1>4, FlowKinds
  <2>2. k # 0 /\ k \in Callbacks /\ f <= started
    BY <1>4, <2>1, FlowKinds DEF Kept, Callbacks
  <2>3. callbacks[k] = Done
    BY <2>1, <2>2 DEF Kept, OnePlace
  <2>4. returned' = [returned EXCEPT ![k][f] = @ + 1]
    BY <1>4 DEF Report, Return
  <2> HIDE DEF k, flow
  <2>5. returned \in [Callbacks -> [FlowIds -> Nat]]
    BY DEF Kept
  <2>6. /\ returned' \in [Callbacks -> [FlowIds -> Nat]]
        /\ returned'[k][f] = returned[k][f] + 1
        /\ \A x \in Callbacks, g \in FlowIds :
             x # k \/ g # f => returned'[x][g] = returned[x][g]
    BY <2>2, <2>4, <2>5
  <2>7. /\ \A x \in Callbacks : ~(returned[x][f] > 0)
        /\ \A g \in FlowIds : ~(returned[k][g] > 0)
    BY <2>1, <2>2 DEF Kept, OnePlace, k
  <2>8. ReturnedOnce'
    <3>1. \A x \in Callbacks, g \in FlowIds : returned[x][g] \in Nat
      BY <2>5
    <3>2. returned[k][f] = 0
      BY <2>2, <2>7, <3>1
    <3>3. \A x \in Callbacks, g \in FlowIds : returned'[x][g] <= 1
      BY <2>2, <2>6, <3>2 DEF Kept, ReturnedOnce
    <3>4. \A x \in Callbacks, g \in FlowIds :
            returned'[x][g] > 0 => <<x, g>> = <<k, f>> \/ (<<x, g>> \in Returns /\ x # k /\ g # f)
      BY <2>6, <2>7 DEF Returns
    <3>5. \A a, b \in Returns' : a # b => a[1] # b[1] /\ a[2] # b[2]
      <4>1. SUFFICES ASSUME NEW x \in Callbacks, NEW g \in FlowIds, returned'[x][g] > 0,
                            NEW y \in Callbacks, NEW h \in FlowIds, returned'[y][h] > 0,
                            <<x, g>> # <<y, h>>
                     PROVE  x # y /\ g # h
        BY DEF Returns
      <4>2. CASE <<x, g>> = <<k, f>> \/ <<y, h>> = <<k, f>>
        BY <3>4, <4>1, <4>2
      <4>3. CASE <<x, g>> \in Returns /\ <<y, h>> \in Returns
        BY <4>1, <4>3 DEF Kept, ReturnedOnce
      <4> QED BY <3>4, <4>1, <4>2, <4>3
    <3> QED BY <3>3, <3>5 DEF ReturnedOnce
  <2>9. flows'[f] = None
    BY <1>2, <1>4
  <2>10. OnePlace'
    <3>1. /\ \A g, h \in FlowIds :
               flows'[g] # None /\ flows'[h] # None /\ flows'[g].token = flows'[h].token =>
                 g = h \/ flows'[g].token = 0
          /\ \A g \in FlowIds, x \in Callbacks :
               flows'[g] # None /\ flows'[g].token = x => callbacks'[x] = Done
      BY <1>2 DEF Kept, OnePlace
    <3>2. \A g \in FlowIds : flows'[g] # None => flows'[g].token # k
      <4>1. SUFFICES ASSUME NEW g \in FlowIds, flows'[g] # None, flows'[g].token = k
                     PROVE  FALSE
        OBVIOUS
      <4>2. flows[g] # None /\ flows[g].token = k /\ g # f
        BY <1>2, <2>9, <4>1
      <4>3. flows[f].token = k
        BY <2>1 DEF k, flow
      <4> QED BY <2>1, <2>2, <4>2, <4>3 DEF Kept, OnePlace
    <3>3. SUFFICES ASSUME NEW g \in FlowIds, NEW x \in Callbacks, returned'[x][g] > 0
                   PROVE  /\ g <= started /\ flows'[g] = None /\ callbacks[x] = Done
                          /\ \A h \in FlowIds : flows'[h] # None => flows'[h].token # x
      BY <3>1 DEF OnePlace
    <3>4. CASE x = k /\ g = f
      BY <2>2, <2>3, <2>9, <3>2, <3>4
    <3>5. CASE ~(x = k /\ g = f)
      BY <1>2, <2>6, <3>3, <3>5 DEF Kept, OnePlace
    <3> QED BY <3>4, <3>5
  <2>11. \A x \in Callbacks : callbacks'[x].pc \in {"exchange", "finish"} =>
           /\ callbacks'[x].flow <= started'
           /\ flows'[callbacks'[x].flow] # None =>
                flows'[callbacks'[x].flow].provider = callbacks'[x].provider
    <3>1. SUFFICES ASSUME NEW x \in Callbacks, callbacks[x].pc \in {"exchange", "finish"}
                   PROVE  /\ callbacks[x].flow <= started
                          /\ flows'[callbacks[x].flow] # None =>
                               flows'[callbacks[x].flow].provider = callbacks[x].provider
      OBVIOUS
    <3>2. callbacks[x].flow \in FlowIds
      BY <3>1, CallbackKinds DEF Kept
    <3> QED BY <1>2, <3>1, <3>2 DEF Kept
  <2>12. \A g \in FlowIds : flows'[g] # None =>
           g <= started /\ (flows'[g].status = "complete" <=> flows'[g].token # 0)
    BY <1>2 DEF Kept
  <2> QED BY <1>2, <2>6, <2>8, <2>10, <2>11, <2>12 DEF Kept
<1> QED BY <1>3, <1>4

\* The callback's clause of Kept, for one callback and without a LET.
Sound(c, fl, n) ==
  c.pc \in {"exchange", "finish"} =>
    c.flow <= n /\ (fl[c.flow] # None => fl[c.flow].provider = c.provider)

LEMMA CallbacksSound ==
  ASSUME \A k \in Callbacks : Sound(callbacks'[k], flows', started')
  PROVE  (\A k \in Callbacks : callbacks[k].pc \in {"exchange", "finish"} =>
            LET f == callbacks[k].flow IN
            f <= started /\ (flows[f] # None => flows[f].provider = callbacks[k].provider))'
BY DEF Sound

LEMMA SoundBefore ==
  ASSUME Kept, NEW k \in Callbacks
  PROVE  /\ Sound(callbacks[k], flows, started)
         /\ callbacks[k] \in Requests
         /\ callbacks[k].pc \in {"exchange", "finish"} => callbacks[k].flow \in FlowIds
BY CallbackKinds DEF Kept, Sound

LEMMA StartKinds ==
  ASSUME NEW x \in Starting
  PROVE  /\ x.pc = "asked" => x.provider \in Providers
         /\ x.pc = "answered" => x.flow \in 1..started
BY DEF Starting, Idle

\* One of the phone's starts changes to what it may be.
LEMMA StartMoves ==
  ASSUME Asked, NEW a \in Attempts, NEW x \in Starting', started \in Nat, started' \in Nat,
         started <= started', starting' = [starting EXCEPT ![a] = x]
  PROVE  starting' \in [Attempts -> Starting']
<1>1. Starting \subseteq Starting'
  <2>1. \A i : i \in 1..started => i \in 1..started'
    OBVIOUS
  <2> QED BY <2>1 DEF Starting
<1> QED BY <1>1 DEF Asked

\* A flow is started for nobody's token yet.
LEMMA StartKeeps ==
  ASSUME Kept, Asked, NEW a \in Attempts, Start(a)
  PROVE  Kept' /\ Asked'
<1> DEFINE n == started + 1
           fresh == [provider |-> starting[a].provider, status |-> "pending", token |-> 0]
<1>1. started < MaxFlows /\ started \in Nat /\ starting[a].provider \in Providers
  BY OAuthParametersOK, StartKinds DEF Asked, Start
<1>2. n \in FlowIds /\ started' = n /\ n \notin 1..started /\ started < n
  BY <1>1, OAuthParametersOK DEF Start, FlowIds
<1>3. fresh \in Flow /\ fresh # None /\ fresh.token = 0 /\ fresh.status = "pending"
  BY <1>1, OAuthParametersOK DEF Flow, None
<1>4. flows' = [Cleaned EXCEPT ![n] = fresh]
  BY DEF Start
<1>5. /\ Cleaned \in [FlowIds -> {None} \cup Flow]
      /\ \A g \in FlowIds : Cleaned[g] = None \/ Cleaned[g] = flows[g]
  BY CleanedFlows
<1> HIDE DEF fresh
<1>6. /\ flows' \in [FlowIds -> {None} \cup Flow] /\ flows'[n] = fresh
      /\ \A g \in FlowIds : g # n => flows'[g] = None \/ flows'[g] = flows[g]
  BY <1>2, <1>3, <1>4, <1>5
<1>7. UNCHANGED <<callbacks, returned>>
  BY DEF Start
<1> HIDE DEF n
<1>8. \A k \in Callbacks : Sound(callbacks'[k], flows', started')
  <2>1. SUFFICES ASSUME NEW k \in Callbacks, callbacks[k].pc \in {"exchange", "finish"}
                 PROVE  /\ callbacks[k].flow <= started'
                        /\ flows'[callbacks[k].flow] # None =>
                             flows'[callbacks[k].flow].provider = callbacks[k].provider
    BY <1>7 DEF Sound
  <2>2. callbacks[k].flow \in FlowIds /\ callbacks[k].flow <= started
    BY <2>1, SoundBefore DEF Sound
  <2>3. callbacks[k].flow <= started' /\ callbacks[k].flow # n
    BY <1>1, <1>2, <2>2 DEF FlowIds, n
  <2>4. Sound(callbacks[k], flows, started)
    BY <2>1, SoundBefore
  <2> QED BY <1>6, <2>1, <2>2, <2>3, <2>4 DEF Sound
<1>9. \A f \in FlowIds : flows'[f] # None =>
        f <= started' /\ (flows'[f].status = "complete" <=> flows'[f].token # 0)
  <2>1. SUFFICES ASSUME NEW f \in FlowIds, flows'[f] # None
                 PROVE  f <= started' /\ (flows'[f].status = "complete" <=> flows'[f].token # 0)
    OBVIOUS
  <2>2. CASE f = n
    BY <1>2, <1>3, <1>6, <2>2 DEF FlowIds
  <2>3. CASE f # n
    <3>1. flows'[f] = flows[f] /\ flows[f] # None
      BY <1>6, <2>1, <2>3
    <3>2. f <= started /\ (flows[f].status = "complete" <=> flows[f].token # 0)
      BY <3>1 DEF Kept
    <3>3. f <= started'
      BY <1>1, <1>2, <3>2 DEF FlowIds, n
    <3> QED BY <3>1, <3>2, <3>3
  <2> QED BY <2>2, <2>3
<1>10. OnePlace'
  <2>1. \A f, g \in FlowIds :
          flows'[f] # None /\ flows'[g] # None /\ flows'[f].token = flows'[g].token =>
            f = g \/ flows'[f].token = 0
    BY <1>3, <1>6 DEF Kept, OnePlace
  <2>2. \A f \in FlowIds, k \in Callbacks : flows'[f] # None /\ flows'[f].token = k =>
          callbacks'[k] = Done /\ f # n
    <3>1. \A k \in Callbacks : k # 0
      BY DEF Callbacks
    <3> QED BY <1>3, <1>6, <1>7, <3>1 DEF Kept, OnePlace
  <2>3. ASSUME NEW f \in FlowIds, NEW k \in Callbacks, returned'[k][f] > 0
        PROVE  /\ f <= started' /\ flows'[f] = None /\ callbacks'[k] = Done
               /\ \A g \in FlowIds : flows'[g] # None => flows'[g].token # k
    <3>1. /\ f <= started /\ flows[f] = None /\ callbacks[k] = Done
          /\ \A g \in FlowIds : flows[g] # None => flows[g].token # k
      BY <1>7, <2>3 DEF Kept, OnePlace
    <3>2. f # n /\ f <= started'
      BY <1>1, <1>2, <3>1 DEF FlowIds, n
    <3>3. k # 0
      BY DEF Callbacks
    <3> QED BY <1>3, <1>6, <1>7, <3>1, <3>2, <3>3
  <2> QED BY <2>1, <2>2, <2>3 DEF OnePlace
<1>11. returned' \in [Callbacks -> [FlowIds -> Nat]] /\ ReturnedOnce'
  BY <1>7 DEF Kept, ReturnedOnce, Returns
<1>12. callbacks' \in [Callbacks -> Requests]
  BY <1>7 DEF Kept
<1>13. Kept'
  BY <1>6, <1>8, <1>9, <1>10, <1>11, <1>12, CallbacksSound DEF Kept
<1>14. Asked'
  <2>1. starting' = [starting EXCEPT ![a] = [pc |-> "answered", flow |-> n]]
    BY DEF Start, n
  <2>2. starting' \in [Attempts -> Starting']
    <3>1. n \in 1..started' /\ started' \in Nat /\ started <= started'
      BY <1>1, <1>2 DEF n
    <3>2. [pc |-> "answered", flow |-> n] \in Starting'
      BY <3>1 DEF Starting
    <3> HIDE DEF n
    <3> QED BY <1>1, <2>1, <3>1, <3>2, StartMoves
  <2>3. started' \in 0..MaxFlows /\ \A i : i \in 0..started => i \in 0..started'
    BY <1>1, <1>2, OAuthParametersOK DEF FlowIds, n
  <2>4. \A i : i \in 1..started => i \in 1..started'
    BY <1>1, <1>2 DEF FlowIds, n
  <2>5. UNCHANGED <<old, authorizing, shown, latest, timer, polls>>
    BY DEF Start
  <2>6. \A f \in FlowIds : polls'[f] # "none" => f <= started'
    BY <1>1, <1>2, <2>5 DEF Asked, FlowIds, n
  <2> QED BY <2>2, <2>3, <2>4, <2>5, <2>6 DEF Asked
<1> QED BY <1>13, <1>14

\* Callbacks that do not touch flows.
LEMMA CallbackMoves ==
  ASSUME Kept, NEW k \in Callbacks, callbacks[k] # Done, NEW c \in Requests,
         callbacks' = [callbacks EXCEPT ![k] = c], Sound(c, flows, started),
         UNCHANGED <<flows, returned, started>>
  PROVE  Kept'
<1>1. /\ callbacks' \in [Callbacks -> Requests] /\ callbacks'[k] = c
      /\ \A x \in Callbacks : x # k => callbacks'[x] = callbacks[x]
  BY DEF Kept
<1>2. \A x \in Callbacks : Sound(callbacks'[x], flows', started')
  BY <1>1, SoundBefore
<1>3. OnePlace'
  BY <1>1 DEF Kept, OnePlace
<1>4. ReturnedOnce'
  BY DEF Kept, ReturnedOnce, Returns
<1> QED BY <1>1, <1>2, <1>3, <1>4, CallbacksSound DEF Kept

\* A callback that came takes its flow and provider with it.
LEMMA CallbackKeeps ==
  ASSUME Kept, NEW k \in Callbacks, NEW f \in FlowIds, NEW p \in Providers, Callback(k, f, p)
  PROVE  Kept'
<1> DEFINE c == callbacks'[k]
<1>1. /\ Cleaned \in [FlowIds -> {None} \cup Flow]
      /\ \A g \in FlowIds : Cleaned[g] = None \/ Cleaned[g] = flows[g]
  BY CleanedFlows
<1>2. PICK pc \in {"exchange", "finish"} :
        callbacks' = [callbacks EXCEPT ![k] =
          IF Valid(f, p) THEN [pc |-> pc, flow |-> f, provider |-> p, result |-> "failed"]
          ELSE Done]
  BY DEF Callback
<1>3. callbacks \in [Callbacks -> Requests]
  BY DEF Kept
<1>4. /\ c = IF Valid(f, p) THEN [pc |-> pc, flow |-> f, provider |-> p, result |-> "failed"]
              ELSE Done
      /\ callbacks' = [callbacks EXCEPT ![k] = c]
  BY <1>2, <1>3
<1>5. c \in Requests
  BY <1>4 DEF Requests, Underway
<1>6. flows' = Cleaned /\ UNCHANGED <<returned, started>> /\ f <= started
  BY DEF Callback
<1>7. Sound(c, flows', started)
  BY <1>4, <1>6 DEF Sound, Valid, Done
<1>8. callbacks[k] # Done
  BY DEF Callback, Unused, Done
<1>9. /\ callbacks' \in [Callbacks -> Requests]
      /\ \A x \in Callbacks : x # k => callbacks'[x] = callbacks[x]
  BY <1>3, <1>4, <1>5
<1>10. \A x \in Callbacks : Sound(callbacks'[x], flows', started')
  <2>1. SUFFICES ASSUME NEW x \in Callbacks, x # k
                 PROVE  Sound(callbacks[x], flows', started)
    BY <1>6, <1>7, <1>9
  <2> QED BY <1>1, <1>6, SoundBefore DEF Sound
<1> HIDE DEF c
<1>11. OnePlace'
  BY <1>1, <1>6, <1>8, <1>9 DEF Kept, OnePlace
<1>12. ReturnedOnce' /\ returned' \in [Callbacks -> [FlowIds -> Nat]]
  BY <1>6 DEF Kept, ReturnedOnce, Returns
<1>13. \A g \in FlowIds : flows'[g] # None =>
         g <= started' /\ (flows'[g].status = "complete" <=> flows'[g].token # 0)
  BY <1>1, <1>6 DEF Kept
<1> QED BY <1>1, <1>6, <1>9, <1>10, <1>11, <1>12, <1>13, CallbacksSound DEF Kept

LEMMA ExchangeKeeps ==
  ASSUME Kept, NEW k \in Callbacks, ExchangeCode(k)
  PROVE  Kept'
<1> DEFINE c == callbacks'[k]
<1>1. callbacks[k].pc = "exchange" /\ callbacks \in [Callbacks -> Requests]
  BY DEF ExchangeCode, Kept
<1>2. callbacks[k] \in Underway /\ callbacks[k] # Done
  BY <1>1, CallbackKinds
<1>3. PICK result \in {"complete", "failed"} :
        callbacks' = [callbacks EXCEPT ![k].pc = "finish", ![k].result = result]
  BY DEF ExchangeCode
<1>4. /\ c = [callbacks[k] EXCEPT !.pc = "finish", !.result = result]
      /\ callbacks' = [callbacks EXCEPT ![k] = c]
  BY <1>1, <1>3
<1>5. c \in Requests /\ c.flow = callbacks[k].flow /\ c.provider = callbacks[k].provider
  BY <1>2, <1>4 DEF Requests, Underway
<1>6. Sound(c, flows, started)
  BY <1>1, <1>5, SoundBefore DEF Sound
<1>7. UNCHANGED <<flows, returned, started>>
  BY DEF ExchangeCode
<1> HIDE DEF c
<1> QED BY <1>2, <1>4, <1>5, <1>6, <1>7, CallbackMoves

\* finishFlow puts the callback's own token into a flow, which is still there, and
\* the callback is done.
LEMMA FinishKeeps ==
  ASSUME Kept, NEW k \in Callbacks, FinishFlow(k)
  PROVE  Kept'
<1> DEFINE c == callbacks[k]
           t == IF c.result = "complete" THEN k ELSE 0
           r == [flows[c.flow] EXCEPT !.status = c.result, !.token = t]
<1>1. c.pc = "finish" /\ c \in Requests
  BY SoundBefore DEF FinishFlow
<1>2. c \in Underway /\ c.flow \in FlowIds /\ c.result \in {"complete", "failed"} /\ c # Done
  BY <1>1, CallbackKinds
<1>3. callbacks' = [callbacks EXCEPT ![k] = Done] /\ UNCHANGED <<returned, started>>
  BY DEF FinishFlow
<1>4. Done \in Requests /\ Done.pc = "done"
  BY DEF Requests, Done
<1>5. CASE flows[c.flow] = None
  <2>1. flows' = flows
    BY <1>5 DEF FinishFlow
  <2>2. Sound(Done, flows, started)
    BY <1>4 DEF Sound
  <2> QED BY <1>2, <1>3, <1>4, <2>1, <2>2, CallbackMoves
<1>6. CASE flows[c.flow] # None
  <2>1. flows[c.flow] \in Flow
    BY <1>2, <1>6 DEF Kept
  <2>2. k \in 1..MaxCallbacks /\ t \in 0..MaxCallbacks /\ k # 0
    BY OAuthParametersOK DEF Callbacks
  <2>3. r \in Flow /\ r # None /\ r.token = t /\ r.status = c.result
        /\ r.provider = flows[c.flow].provider
    BY <1>2, <2>1, <2>2 DEF Flow, None
  <2>4. flows' = [flows EXCEPT ![c.flow] = r]
    BY <1>6, <1>2 DEF FinishFlow, Kept
  <2>5. t = k <=> c.result = "complete"
    BY <2>2
  <2>6. t \in {0, k}
    OBVIOUS
  <2> HIDE DEF r, t
  <2>7. /\ flows' \in [FlowIds -> {None} \cup Flow] /\ flows'[c.flow] = r
        /\ \A g \in FlowIds : g # c.flow => flows'[g] = flows[g]
    BY <1>2, <2>3, <2>4 DEF Kept
  <2>8. /\ callbacks' \in [Callbacks -> Requests] /\ callbacks'[k] = Done
        /\ \A x \in Callbacks : x # k => callbacks'[x] = callbacks[x]
    BY <1>3, <1>4 DEF Kept
  <2>9. \A x \in Callbacks : Sound(callbacks'[x], flows', started')
    <3>1. SUFFICES ASSUME NEW x \in Callbacks, x # k
                   PROVE  Sound(callbacks[x], flows', started)
      BY <1>3, <1>4, <2>8 DEF Sound
    <3> QED BY <1>6, <2>3, <2>7, SoundBefore DEF Sound
  <2>10. \A g \in FlowIds : flows'[g] # None =>
           g <= started' /\ (flows'[g].status = "complete" <=> flows'[g].token # 0)
    <3>1. r.status = "complete" <=> r.token # 0
      BY <2>2, <2>3, <2>5, <2>6
    <3> QED BY <1>2, <1>3, <1>6, <2>7, <3>1 DEF Kept
  <2>11. \A g \in FlowIds, x \in Callbacks : flows[g] # None /\ flows[g].token = x => x # k
    BY <1>2 DEF Kept, OnePlace
  <2>12. \A g \in FlowIds : ~(returned[k][g] > 0)
    BY <1>2 DEF Kept, OnePlace
  <2>13. \A g \in FlowIds : flows[g] # None => flows[g].token # k
    BY <2>11
  <2>14. \A g, h \in FlowIds :
           flows'[g] # None /\ flows'[h] # None /\ flows'[g].token = flows'[h].token =>
             g = h \/ flows'[g].token = 0
    BY <2>3, <2>6, <2>7, <2>13 DEF Kept, OnePlace
  <2>15. \A g \in FlowIds, x \in Callbacks :
           flows'[g] # None /\ flows'[g].token = x => callbacks'[x] = Done
    <3>1. \A x \in Callbacks : x # 0
      BY DEF Callbacks
    <3> QED BY <2>3, <2>6, <2>7, <2>8, <3>1 DEF Kept, OnePlace
  <2>16. ASSUME NEW g \in FlowIds, NEW x \in Callbacks, returned[x][g] > 0
         PROVE  /\ g <= started /\ flows'[g] = None /\ callbacks'[x] = Done
                /\ \A h \in FlowIds : flows'[h] # None => flows'[h].token # x
    <3>1. x # k /\ x # 0
      BY <2>12, <2>16 DEF Callbacks
    <3>2. /\ g <= started /\ flows[g] = None /\ callbacks[x] = Done
          /\ \A h \in FlowIds : flows[h] # None => flows[h].token # x
      BY <2>16 DEF Kept, OnePlace
    <3> QED BY <1>6, <2>3, <2>6, <2>7, <2>8, <3>1, <3>2
  <2>17. OnePlace'
    BY <1>3, <2>14, <2>15, <2>16 DEF OnePlace
  <2>18. ReturnedOnce' /\ returned' \in [Callbacks -> [FlowIds -> Nat]]
    BY <1>3 DEF Kept, ReturnedOnce, Returns
  <2> QED BY <2>7, <2>8, <2>9, <2>10, <2>17, <2>18, CallbacksSound DEF Kept
<1> QED BY <1>5, <1>6

-----------------------------------------------------------------------------
(* The phone.                                                              *)

LEMMA ServerRests ==
  ASSUME Kept, UNCHANGED <<flows, callbacks, returned, started>>
  PROVE  Kept'
BY DEF Kept, OnePlace, ReturnedOnce, Returns

LEMMA PhoneRests ==
  ASSUME Asked, UNCHANGED <<old, started, phone>>
  PROVE  Asked'
BY DEF Asked, Starting, phone

\* One poll changes to a state it may be in.
LEMMA PollMoves ==
  ASSUME Asked, NEW f \in FlowIds, f <= started, NEW x \in States,
         polls' = [polls EXCEPT ![f] = x]
  PROVE  /\ polls' \in [FlowIds -> States]
         /\ \A g \in FlowIds : polls'[g] # "none" => g <= started
BY DEF Asked

LEMMA StatusKeeps ==
  ASSUME IInv, NEW f \in FlowIds, Status(f) \/ StatusAgain(f)
  PROVE  IInv'
<1>1. Kept /\ Asked
  BY Halves
<1>2. Report(f) /\ UNCHANGED <<callbacks, started>>
  BY DEF Status, StatusAgain
<1>3. Kept'
  BY <1>1, <1>2, ReportKeeps
<1>4. CASE StatusAgain(f)
  BY <1>1, <1>3, <1>4, PhoneRests, Halves, HalvesAfter DEF StatusAgain
<1>5. CASE Status(f)
  <2>1. f <= started
    BY <1>1, <1>5 DEF Status, Asked
  <2> DEFINE x == IF Cleaned[f].status \in {"pending", "complete"} THEN Cleaned[f].status
                  ELSE "over"
  <2>2. polls' = [polls EXCEPT ![f] = x] /\ x \in States
    BY <1>5 DEF Status, Answer, States
  <2> HIDE DEF x
  <2>3. /\ polls' \in [FlowIds -> States]
        /\ \A g \in FlowIds : polls'[g] # "none" => g <= started
    BY <1>1, <2>1, <2>2, PollMoves
  <2>4. UNCHANGED <<old, started, authorizing, shown, starting, latest, timer>>
    BY <1>5 DEF Status
  <2>5. Asked'
    BY <1>1, <2>3, <2>4 DEF Asked, Starting
  <2> QED BY <1>3, <2>5, HalvesAfter
<1> QED BY <1>2, <1>4, <1>5

LEMMA BrowserKeeps ==
  ASSUME IInv, NEW k \in Callbacks,
         \/ ExchangeCode(k) \/ FinishFlow(k)
         \/ \E f \in FlowIds, p \in Providers : Callback(k, f, p)
  PROVE  IInv'
<1>1. Kept /\ Asked
  BY Halves
<1>2. Kept'
  BY <1>1, ExchangeKeeps, FinishKeeps, CallbackKeeps
<1>3. UNCHANGED <<old, started, phone>>
  BY DEF ExchangeCode, FinishFlow, Callback
<1> QED BY <1>1, <1>2, <1>3, PhoneRests, Halves, HalvesAfter

LEMMA ExpireKeeps ==
  ASSUME IInv, NEW f \in FlowIds, Expire(f)
  PROVE  IInv'
<1>1. Kept /\ Asked
  BY Halves
<1>2. Kept'
  BY <1>1, ServerRests DEF Expire
<1>3. old' \subseteq 1..started /\ UNCHANGED <<started, phone>>
  BY <1>1 DEF Expire, Asked
<1>4. Asked'
  BY <1>1, <1>3 DEF Asked, Starting, phone
<1> QED BY <1>2, <1>4, HalvesAfter

LEMMA PhoneKeeps ==
  ASSUME IInv,
         \/ \E a \in Attempts : Started(a) \/ StartFails(a)
                               \/ \E p \in Providers : BeginAuthorization(a, p)
         \/ Cancel \/ PollAuthorization
         \/ \E f \in FlowIds : LosePoll(f) \/ PollAnswered(f)
  PROVE  IInv'
<1>1. Kept /\ Asked
  BY Halves
<1>2. UNCHANGED <<flows, old, started, callbacks, returned>>
  BY DEF Started, StartFails, Cancel, PollAuthorization, BeginAuthorization, LosePoll,
         PollAnswered, server
<1>3. Kept'
  BY <1>1, <1>2, ServerRests
<1>4. started \in Nat /\ MaxFlows \in Nat /\ started <= MaxFlows
  BY <1>1, OAuthParametersOK DEF Asked
<1> SUFFICES Asked'
  BY <1>3, HalvesAfter
<1>5. ASSUME NEW a \in Attempts,
             \/ Started(a) \/ StartFails(a)
             \/ \E p \in Providers : BeginAuthorization(a, p)
      PROVE  Asked'
  <2>1. \E x \in Starting' : starting' = [starting EXCEPT ![a] = x]
    BY <1>2, <1>5 DEF Started, StartFails, BeginAuthorization, Starting, Idle
  <2>2. starting' \in [Attempts -> Starting']
    <3>1. PICK x \in Starting' : starting' = [starting EXCEPT ![a] = x]
      BY <2>1
    <3>2. started \in Nat /\ started' \in Nat /\ started <= started'
      BY <1>2, <1>4
    <3> QED BY <1>1, <3>1, <3>2, StartMoves
  <2>3. latest' \in 0..started /\ timer' \in 0..started
    <3>1. starting[a].pc = "answered" => starting[a].flow \in 1..started
      BY <1>1, StartKinds DEF Asked
    <3> QED BY <1>1, <1>4, <1>5, <3>1 DEF Started, StartFails, BeginAuthorization, Asked
  <2>4. authorizing' \in BOOLEAN /\ shown' \in BOOLEAN /\ UNCHANGED polls
    BY <1>1, <1>5 DEF Started, StartFails, BeginAuthorization, Asked
  <2> QED BY <1>1, <1>2, <2>2, <2>3, <2>4 DEF Asked
<1>7. CASE Cancel
  <2>1. timer' \in 0..started
    BY <1>1, <1>4, <1>7 DEF Cancel, Asked
  <2> QED BY <1>1, <1>2, <1>7, <2>1 DEF Cancel, Asked, Starting
<1>8. CASE PollAuthorization
  <2>1. timer \in FlowIds /\ timer <= started /\ timer' \in 0..started
    BY <1>1, <1>4, <1>8 DEF PollAuthorization, Asked, FlowIds
  <2>2. authorizing' \in BOOLEAN
    BY <1>8 DEF PollAuthorization
  <2>3. polls' = polls \/ polls' = [polls EXCEPT ![timer] = "asked"]
    BY <1>8 DEF PollAuthorization
  <2>4. "asked" \in States
    BY DEF States
  <2>5. /\ polls' \in [FlowIds -> States]
        /\ \A g \in FlowIds : polls'[g] # "none" => g <= started
    BY <1>1, <2>1, <2>3, <2>4, PollMoves DEF Asked
  <2>6. shown' \in BOOLEAN /\ UNCHANGED <<starting, latest>>
    BY <1>8 DEF PollAuthorization
  <2> QED BY <1>1, <1>2, <2>1, <2>2, <2>5, <2>6 DEF Asked, Starting
<1>10. ASSUME NEW f \in FlowIds, LosePoll(f) \/ PollAnswered(f) PROVE Asked'
  <2>1. polls[f] # "none" /\ f <= started
    BY <1>1, <1>10 DEF LosePoll, PollAnswered, Asked
  <2>2. "over" \in States /\ "none" \in States
    BY DEF States
  <2>3. \E x \in States : polls' = [polls EXCEPT ![f] = x]
    BY <1>10, <2>2 DEF LosePoll, PollAnswered
  <2>4. /\ polls' \in [FlowIds -> States]
        /\ \A g \in FlowIds : polls'[g] # "none" => g <= started
    BY <1>1, <2>1, <2>3, PollMoves
  <2>5. f \in 0..started
    BY <1>4, <2>1 DEF FlowIds
  <2>6. /\ timer' \in 0..started /\ authorizing' \in BOOLEAN /\ shown' \in BOOLEAN
        /\ UNCHANGED <<starting, latest>>
    BY <1>1, <1>10, <2>5 DEF LosePoll, PollAnswered, Asked
  <2> QED BY <1>1, <1>2, <2>4, <2>6 DEF Asked, Starting
<1> QED BY <1>5, <1>7, <1>8, <1>10

-----------------------------------------------------------------------------
LEMMA InitIInv == Init => IInv
<1> SUFFICES ASSUME Init PROVE IInv
  OBVIOUS
<1>0. MaxFlows \in Nat /\ None.status = "none" /\ Unused.pc = "unused" /\ Unused \in Requests
  BY OAuthParametersOK DEF None, Unused, Requests
<1>1. Asked
  <2>1. starting \in [Attempts -> Starting] /\ authorizing \in BOOLEAN /\ shown \in BOOLEAN /\ old = {}
    BY DEF Init, Starting, Idle
  <2>2. /\ polls \in [FlowIds -> States]
        /\ \A f \in FlowIds : polls[f] = "none"
    BY DEF Init, States
  <2>3. started \in 0..MaxFlows /\ latest \in 0..started /\ timer \in 0..started
    BY <1>0 DEF Init
  <2> QED BY <2>1, <2>2, <2>3 DEF Asked
<1>2. Kept
  <2>1. /\ flows \in [FlowIds -> {None} \cup Flow] /\ \A f \in FlowIds : flows[f] = None
        /\ callbacks \in [Callbacks -> Requests]
        /\ \A k \in Callbacks : callbacks[k].pc = "unused"
    BY <1>0 DEF Init
  <2>2. /\ returned \in [Callbacks -> [FlowIds -> Nat]]
        /\ \A k \in Callbacks, f \in FlowIds : returned[k][f] = 0
    BY DEF Init
  <2>3. OnePlace /\ ReturnedOnce
    BY <2>1, <2>2 DEF OnePlace, ReturnedOnce, Returns
  <2> QED BY <2>1, <2>2, <2>3 DEF Kept
<1> QED BY <1>1, <1>2, Halves

LEMMA NextIInv == IInv /\ [Next]_vars => IInv'
<1> SUFFICES ASSUME IInv, [Next]_vars PROVE IInv'
  OBVIOUS
<1>1. CASE UNCHANGED vars
  BY <1>1, ServerRests, PhoneRests, Halves, HalvesAfter DEF vars, server, phone
<1>2. CASE \E a \in Attempts : Start(a)
  BY <1>2, StartKeeps, Halves, HalvesAfter
<1>3. ASSUME NEW f \in FlowIds, Status(f) \/ StatusAgain(f) \/ Expire(f) PROVE IInv'
  BY <1>3, StatusKeeps, ExpireKeeps
<1>4. ASSUME NEW k \in Callbacks,
             \/ ExchangeCode(k) \/ FinishFlow(k)
             \/ \E f \in FlowIds, p \in Providers : Callback(k, f, p)
      PROVE  IInv'
  BY <1>4, BrowserKeeps
<1>5. CASE \/ \E a \in Attempts : Started(a) \/ StartFails(a)
                                 \/ \E p \in Providers : BeginAuthorization(a, p)
           \/ Cancel \/ PollAuthorization
           \/ \E f \in FlowIds : LosePoll(f) \/ PollAnswered(f)
  BY <1>5, PhoneKeeps
<1> QED BY <1>1, <1>2, <1>3, <1>4, <1>5 DEF Next

\* The invariant holds in every reachable state.
THEOREM Invariance == Spec => []IInv
<1>1. Init => IInv
  BY InitIInv
<1>2. IInv /\ [Next]_vars => IInv'
  BY NextIInv
<1> QED BY <1>1, <1>2, PTL DEF Spec

\* A flow holds a token exactly while it is complete, and whatever the phone asks
\* for was started (CollaborationOAuthHandler).
THEOREM TypeCorrect == Spec => []TypeOK
<1>1. IInv => TypeOK
  BY DEF IInv
<1> QED BY <1>1, Invariance, PTL

\* "A successful token is returned exactly once", at the most, in however many
\* browsers the flow is authorized and however polls are repeated (Status).
THEOREM Once == Spec => []ReturnedOnce
<1>1. IInv => ReturnedOnce
  BY DEF IInv
<1> QED BY <1>1, Invariance, PTL

LEMMA ReturnedStep ==
  ASSUME IInv, Next, NEW k \in Callbacks, NEW f \in FlowIds, returned'[k][f] # returned[k][f]
  PROVE  f \notin old
<1>1. Kept
  BY Halves
<1>2. PICK g \in FlowIds : Report(g)
  BY DEF Next, Start, Started, StartFails, Cancel, PollAuthorization, BeginAuthorization,
         Status, StatusAgain, Expire, LosePoll, PollAnswered, ExchangeCode, FinishFlow,
         Callback, server
<1>3. Cleaned[g].status = "complete" /\ returned' = [returned EXCEPT ![Cleaned[g].token][g] = @ + 1]
  BY <1>2 DEF Report, Return
<1>4. g \notin old
  BY <1>1, <1>3, CleanedFlows DEF None
<1>5. f = g
  <2>1. returned \in [Callbacks -> [FlowIds -> Nat]]
    BY <1>1 DEF Kept
  <2> QED BY <1>3, <2>1
<1> QED BY <1>4, <1>5

\* No token of a flow whose ten minutes are over is handed out, though callbacks
\* write into it until somebody cleans up (Status).
THEOREM InTime == Spec => ReturnedInTime
<1>1. IInv /\ [Next]_vars =>
        [\A k \in Callbacks, f \in FlowIds : returned'[k][f] # returned[k][f] => f \notin old]_vars
  BY ReturnedStep
<1> QED BY <1>1, Invariance, PTL DEF Spec, ReturnedInTime

LEMMA BoundStep ==
  ASSUME IInv, Next, NEW f \in FlowIds, NEW k \in Callbacks,
         flows'[f] # None, flows'[f].token = k, flows[f] # flows'[f]
  PROVE  callbacks[k].provider = flows[f].provider
<1>1. Kept /\ k # 0
  BY Halves DEF Callbacks
<1>2. /\ Cleaned \in [FlowIds -> {None} \cup Flow]
      /\ \A g \in FlowIds : Cleaned[g] = None \/ Cleaned[g] = flows[g]
  BY <1>1, CleanedFlows
<1>3. CASE \E a \in Attempts : Start(a)
  <2>1. PICK a \in Attempts : flows' = [Cleaned EXCEPT ![started + 1] =
                    [provider |-> starting[a].provider, status |-> "pending", token |-> 0]]
    BY <1>3 DEF Start
  <2>2. flows'[f] = Cleaned[f] \/ flows'[f].token = 0
    BY <1>2, <2>1
  <2> QED BY <1>1, <1>2, <2>2
<1>4. CASE \E g \in FlowIds : Status(g) \/ StatusAgain(g)
  BY <1>2, <1>4 DEF Status, StatusAgain, Report
<1>5. CASE \E x \in Callbacks, g \in FlowIds, p \in Providers : Callback(x, g, p)
  BY <1>2, <1>5 DEF Callback
<1>6. CASE \E x \in Callbacks : FinishFlow(x)
  <2>1. PICK x \in Callbacks : FinishFlow(x)
    BY <1>6
  <2> DEFINE c == callbacks[x]
             t == IF c.result = "complete" THEN x ELSE 0
             r == [flows[c.flow] EXCEPT !.status = c.result, !.token = t]
  <2>2. c.pc = "finish" /\ c.flow \in FlowIds /\ Sound(c, flows, started)
    BY <1>1, <2>1, SoundBefore DEF FinishFlow
  <2>3. flows \in [FlowIds -> {None} \cup Flow]
    BY <1>1 DEF Kept
  <2>4. flows' = flows \/ flows' = [flows EXCEPT ![c.flow] = r]
    BY <2>1, <2>2, <2>3 DEF FinishFlow
  <2>5. f = c.flow /\ flows'[f] = r /\ flows[f] # None
    BY <2>1, <2>2, <2>3, <2>4 DEF FinishFlow
  <2>6. r.token = t
    BY <2>2, <2>3, <2>5 DEF Flow
  <2>7. k = x
    BY <1>1, <2>5, <2>6
  <2> QED BY <2>2, <2>5, <2>7 DEF Sound
<1>7. CASE \/ \E a \in Attempts : Started(a) \/ StartFails(a)
                                 \/ \E p \in Providers : BeginAuthorization(a, p)
           \/ Cancel \/ PollAuthorization
           \/ \E g \in FlowIds : Expire(g) \/ LosePoll(g) \/ PollAnswered(g)
           \/ \E x \in Callbacks : ExchangeCode(x)
  BY <1>7 DEF Started, StartFails, Cancel, PollAuthorization, BeginAuthorization, Expire,
              LosePoll, PollAnswered, ExchangeCode, server
<1> QED BY <1>3, <1>4, <1>5, <1>6, <1>7 DEF Next

\* The token put into a flow is from the provider the flow was started for, while
\* flows are cleaned up and started between callback and exchange (Callback).
THEOREM SameProvider == Spec => ProviderBound
<1>1. IInv /\ [Next]_vars =>
        [\A f \in FlowIds, k \in Callbacks :
           flows'[f] # None /\ flows'[f].token = k /\ flows[f] # flows'[f] =>
             callbacks[k].provider = flows[f].provider]_vars
  BY BoundStep
<1> QED BY <1>1, Invariance, PTL DEF Spec, ProviderBound
=============================================================================
