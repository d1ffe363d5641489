------------------------------ MODULE ASTSwitch ------------------------------
(***************************************************************************)
(* What the HUB and AST promise each other about turning AST on and off:   *)
(* the HUB requests, AST works and then echoes, and no second request is   *)
(* made before the echo.  Enabling may fail halfway; then AST is neither   *)
(* enabled nor disabled and the HUB goes on waiting.                       *)
(***************************************************************************)
VARIABLES hub, ast

Init == hub = "disabled" /\ ast = "none"

Off == ast \in {"none", "disabled"}

RequestEnable  == hub = "disabled" /\ Off /\ hub' = "enabling" /\ UNCHANGED ast
Enable         == hub = "enabling" /\ Off /\ ast' = "enabled" /\ UNCHANGED hub
FailToEnable   == hub = "enabling" /\ Off /\ ast' = "enabling" /\ UNCHANGED hub
ConfirmEnable  == hub = "enabling" /\ ast = "enabled" /\ hub' = "enabled"
                  /\ UNCHANGED ast
RequestDisable == hub = "enabled" /\ ast = "enabled" /\ hub' = "disabling"
                  /\ UNCHANGED ast
BeginDisable   == hub = "disabling" /\ ast = "enabled" /\ ast' = "disabling"
                  /\ UNCHANGED hub
EndDisable     == hub = "disabling" /\ ast = "disabling" /\ ast' = "disabled"
                  /\ UNCHANGED hub
ConfirmDisable == hub = "disabling" /\ ast = "disabled" /\ hub' = "disabled"
                  /\ UNCHANGED ast

Next ==
    \/ RequestEnable \/ Enable \/ FailToEnable \/ ConfirmEnable
    \/ RequestDisable \/ BeginDisable \/ EndDisable \/ ConfirmDisable

Spec == Init /\ [][Next]_<<hub, ast>>
=============================================================================
