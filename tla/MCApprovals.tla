---------------------------- MODULE MCApprovals -----------------------------
(* Approvals for TLC: a dangerous command, one on the blacklist and a      *)
(* harmless one; the blacklisted one is whitelisted, too, by mistake.      *)
EXTENDS Approvals, TLC

Push  == "git push"
Wipe  == "rm -rf /"
Build == "make"

MCCommands        == {Push, Wipe, Build}
MCDBBlacklist     == {}
MCStaticBlacklist == {Wipe}
MCDBWhitelist     == {Wipe}
MCRedRules        == {Push, Wipe}
MCYellowRules     == {Build}
MCGreenRules      == {}

Shell(cmd) == [tool |-> "other", cmd |-> cmd]
Dangers    == {Shell(Push), Shell(Wipe)}
OnePush    == {Shell(Push)}
AllCalls   == Dangers \cup {Shell(Build), [tool |-> "read", cmd |-> Build],
                            [tool |-> "edit", cmd |-> Build]}
=============================================================================
