--------------------------- MODULE CommandPromise ---------------------------
(***************************************************************************)
(* What the command queue promises to phone and agents, without long       *)
(* polls, channels, marks, reports under way and the history.              *)
(*                                                                         *)
(* told:    what the phone was told of its command: nothing as long as it  *)
(*          was not sent ("none"), never anything ("nobody" waits), nothing*)
(*          yet ("open"), a result or a failure.                           *)
(* known:   the commands that may be handed out and reported.              *)
(* ahead:   the commands that have to be handed out before this one.       *)
(* handed:  how often an agent got the command.                            *)
(* counted: how many reports of it counted.                                *)
(*                                                                         *)
(* CommandQueue implements this specification.                             *)
(***************************************************************************)
EXTENDS Naturals, FiniteSets

CONSTANTS Cmds, MaxStored, MaxCallers

VARIABLES told, known, ahead, handed, counted

vars == <<told, known, ahead, handed, counted>>

Init ==
  /\ told = [c \in Cmds |-> "none"]
  /\ known = {}
  /\ ahead = [c \in Cmds |-> {}]
  /\ handed = [c \in Cmds |-> 0] /\ counted = [c \in Cmds |-> 0]

\* The commands no agent has got yet, and those that it has.
Waiting  == {c \in known : handed[c] = 0}
Finished == {c \in known : handed[c] > 0}

\* Those that wait go first.  When too many are known, some that agents have got
\* are forgotten.
Send(c, how, gone) ==
  /\ told[c] = "none"
  /\ how = "open" => Cardinality({d \in Cmds : told[d] = "open"}) < MaxCallers
  /\ Cardinality(known \cup {c}) <= MaxStored => gone = {}
  /\ told' = [told EXCEPT ![c] = how]
  /\ known' = (known \cup {c}) \ gone
  /\ ahead' = [ahead EXCEPT ![c] = Waiting]
  /\ UNCHANGED <<handed, counted>>

\* Each command once, and in the order they were sent.
Hand(c) ==
  /\ c \in Waiting /\ ahead[c] = {}
  /\ handed' = [handed EXCEPT ![c] = 1]
  /\ ahead' = [d \in Cmds |-> ahead[d] \ {c}]
  /\ UNCHANGED <<told, known, counted>>

\* A command that was on its way to an agent when it was withdrawn or forgotten
\* arrives, if need be a second time.
HandLate(c) ==
  /\ told[c] # "none" /\ c \notin known
  /\ handed' = [handed EXCEPT ![c] = @ + 1]
  /\ UNCHANGED <<told, known, ahead, counted>>

\* One report counts, of a command that an agent has got.
Count(c) ==
  /\ handed[c] > 0 /\ counted[c] = 0
  /\ counted' = [counted EXCEPT ![c] = 1]
  /\ UNCHANGED <<told, known, ahead, handed>>

\* A result the phone is told is that of the report that counted.
TellResult(c) ==
  /\ told[c] = "open" /\ counted[c] = 1
  /\ told' = [told EXCEPT ![c] = "result"]
  /\ UNCHANGED <<known, ahead, handed, counted>>

\* A command the phone was told to have failed is withdrawn.
TellFailure(c) ==
  /\ told[c] = "open"
  /\ told' = [told EXCEPT ![c] = "failure"]
  /\ known' = known \ {c}
  /\ ahead' = [d \in Cmds |-> IF d = c THEN {} ELSE ahead[d] \ {c}]
  /\ UNCHANGED <<handed, counted>>

Next ==
  \/ \E c \in Cmds, how \in {"nobody", "open"}, gone \in SUBSET Finished : Send(c, how, gone)
  \/ \E c \in Cmds : Hand(c) \/ HandLate(c) \/ Count(c) \/ TellResult(c) \/ TellFailure(c)

Spec == Init /\ [][Next]_vars
=============================================================================
