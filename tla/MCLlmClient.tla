---------------------------- MODULE MCLlmClient ----------------------------
(***************************************************************************)
(* The calls the process makes to others, side by side: to the model       *)
(* service through its gate, and to the tools through their registry.      *)
(* They share no variable: a behaviour moves one part, and TLC explores    *)
(* the sum of their states in place of the product.                        *)
(***************************************************************************)
EXTENDS LlmClient, ToolGovernance

VARIABLE part   \* the part that moves

callVars == <<part, vars, toolVars>>

CallInit == part \in {"model", "tools"} /\ Init /\ ToolInit

CallNext ==
    \/ part = "model" /\ Next /\ UNCHANGED <<part, toolVars>>
    \/ part = "tools" /\ ToolNext /\ UNCHANGED <<part, vars>>

\* A part that does not move is idle, and asks nothing of fairness.
CallSpec == CallInit /\ [][CallNext]_callVars /\ Fairness /\ ToolFairness
=============================================================================
