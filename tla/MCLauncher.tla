------------------------------ MODULE MCLauncher ------------------------------
(* Two runs of the launchers, one after the other or at once.               *)
EXTENDS Launcher

TwoRuns == 1 .. 2
TelegramAndAny == [r \in TwoRuns |-> IF r = 1 THEN {"telegram"} ELSE {"app", "telegram"}]
BackendPort == {"backend"}
=============================================================================
