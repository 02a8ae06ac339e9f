---------------------------- MODULE RiskPolicy -----------------------------
(***************************************************************************)
(* How a tool call is judged: the risk level (backend/internal/risk) and   *)
(* what the permission mode of the phone makes of a level                  *)
(* (backend/internal/session/message.go).  Regular expressions and tool    *)
(* names are abstracted to the rule lists a command matches and the class  *)
(* of the tool.                                                            *)
(***************************************************************************)
CONSTANTS
  Commands,         (* command texts, as the hook describes them             *)
  DBBlacklist,      (* commands that match a row of the blacklist table      *)
  StaticBlacklist,  (* commands that match the built-in blacklist            *)
  DBWhitelist,      (* commands that match a row of the whitelist table      *)
  RedRules, YellowRules, GreenRules  (* commands that match such a rule      *)

\* The read-only tools, the file editing tools, and Bash and all the rest.
Tools  == {"read", "edit", "other"}
Levels == {"green", "yellow", "red"}
Calls  == [tool : Tools, cmd : Commands]

Blacklist == DBBlacklist \cup StaticBlacklist

\* Mutant of Classify: the whitelist and the memory come before the blacklist.
ClassifyWhitelistFirst(call, memory) ==
  CASE call.tool = "read"            -> "green"
    [] call.tool = "edit"            -> "yellow"
    [] OTHER ->
       CASE call.cmd \in memory \cup DBWhitelist       -> "green"
         [] call.cmd \in DBBlacklist \cup StaticBlacklist -> "red"
         [] call.cmd \in RedRules -> "red"
         [] OTHER -> "yellow"

\* Engine.Classify; memory is what the session's user has allowed before.
Classify(call, memory) ==
  CASE call.tool = "read"            -> "green"
    [] call.tool = "edit"            -> "yellow"
    [] OTHER ->
       CASE call.cmd \in Blacklist   -> "red"
         [] call.cmd \in (memory \cup DBWhitelist) \ Blacklist -> "green"
         [] OTHER ->
            IF call.cmd \in RedRules THEN "red"
            ELSE IF call.cmd \in GreenRules \ YellowRules THEN "green" ELSE "yellow"

\* A call no list or memory speaks for, and that a rule holds dangerous.
Dangerous(call) ==
  /\ call.tool = "other"
  /\ \/ call.cmd \in Blacklist
     \/ call.cmd \in RedRules \ DBWhitelist

PermissionModes ==
  {"default", "accept_edits", "bypass_permissions", "plan", "read_only",
   "safe_yolo", "yolo"}

Answers == {"auto_approve", "auto_deny", "needs_approval"}

\* EvaluatePermission, as its only caller uses it: no tool is listed as allowed
\* or disallowed.
EvaluatePermission(mode, level, tool) ==
  CASE mode \in {"bypass_permissions", "yolo"} -> "auto_approve"
    [] mode = "safe_yolo" ->
         IF level = "red" THEN "auto_deny" ELSE "auto_approve"
    [] mode = "accept_edits" ->
         IF level = "red" THEN "needs_approval" ELSE "auto_approve"
    [] mode = "default" ->
         IF level = "green" THEN "auto_approve" ELSE "needs_approval"
    [] OTHER ->
         IF tool = "read" THEN "auto_approve" ELSE "auto_deny"
=============================================================================
