-------------------------- MODULE ApprovalPromise ---------------------------
(***************************************************************************)
(* What the approval of tool calls promises to the user of the phone,      *)
(* without records, clocks, handlers, polls and the scanner.               *)
(*                                                                         *)
(* outcome: what became of the call of a hook.                             *)
(* call:    what the hook asked about.                                     *)
(* said:    what a phone said of it, once.                                 *)
(* waived:  nobody had to be asked.                                        *)
(* mode:    the permission mode.                                           *)
(*                                                                         *)
(* Approvals implements this specification.                                *)
(***************************************************************************)
EXTENDS RiskPolicy

CONSTANTS Hooks, ToolCalls, Modes

VARIABLES outcome, call, said, waived, mode

vars == <<outcome, call, said, waived, mode>>

Init ==
  /\ outcome = [h \in Hooks |-> "none"]
  /\ call    = [h \in Hooks |-> [tool |-> "none"]]
  /\ said    = [h \in Hooks |-> "nothing"]
  /\ waived  = [h \in Hooks |-> FALSE]
  /\ mode    = "default"

Ask(h, c) ==
  /\ outcome[h] = "none"
  /\ outcome' = [outcome EXCEPT ![h] = "open"]
  /\ call' = [call EXCEPT ![h] = c]
  /\ UNCHANGED <<said, waived, mode>>

\* A phone may answer when the hook has given up already.
Say(h, answer) ==
  /\ outcome[h] # "none" /\ said[h] = "nothing"
  /\ said' = [said EXCEPT ![h] = answer]
  /\ UNCHANGED <<outcome, call, waived, mode>>

\* The command is not blacklisted, and a phone allowed it before.
Vouched(h) ==
  /\ call[h].cmd \notin Blacklist
  /\ \E g \in Hooks : said[g] = "allow" /\ call[g].cmd = call[h].cmd

\* A call that is not dangerous, that a phone has vouched for, or that the mode
\* of this moment lets through.
Waive(h) ==
  /\ outcome[h] # "none" /\ said[h] = "nothing" /\ ~waived[h]
  /\ \/ ~Dangerous(call[h])
     \/ Vouched(h)
     \/ EvaluatePermission(mode, "red", call[h].tool) = "auto_approve"
  /\ waived' = [waived EXCEPT ![h] = TRUE]
  /\ UNCHANGED <<outcome, call, said, mode>>

Run(h) ==
  /\ outcome[h] = "open"
  /\ said[h] = "allow" \/ waived[h]
  /\ outcome' = [outcome EXCEPT ![h] = "run"]
  /\ UNCHANGED <<call, said, waived, mode>>

\* Refused, timed out, or with no answer that could be had.
Stop(h) ==
  /\ outcome[h] = "open"
  /\ outcome' = [outcome EXCEPT ![h] = "stop"]
  /\ UNCHANGED <<call, said, waived, mode>>

\* The phone switches the mode, or a restart loses it.
Switch(m) ==
  /\ mode' = m
  /\ UNCHANGED <<outcome, call, said, waived>>

Next ==
  \/ \E h \in Hooks : \E c \in ToolCalls : Ask(h, c)
  \/ \E h \in Hooks : Waive(h) \/ Run(h) \/ Stop(h)
  \/ \E h \in Hooks, answer \in {"allow", "deny"} : Say(h, answer)
  \/ \E m \in Modes \cup {"default"} : Switch(m)

Spec == Init /\ [][Next]_vars
=============================================================================
