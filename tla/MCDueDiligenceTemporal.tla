----------------------- MODULE MCDueDiligenceTemporal -----------------------
(***************************************************************************)
(* The Temporal workflow, with two grades of which one needs a review and  *)
(* two concurrent updates, and beside it the gateway that starts such      *)
(* workflows and calls them.  The gateway has its own, coarser view of the *)
(* workflows it names, and shares no variable with the one that is seen    *)
(* from inside: a behaviour moves one part, and TLC explores the sum of    *)
(* their states in place of the product.                                   *)
(***************************************************************************)
EXTENDS DueDiligenceTemporal, DueDiligenceGateway, TLC

VARIABLE part   \* the part that moves

temporalVars == <<part, vars, gatewayVars>>

MCGrade == {"GREEN", "ORANGE"}
MCReviewRequiredGrades == {"ORANGE"}
Symmetry == Permutations(Update) \cup Permutations(Call)

TemporalInit ==
    /\ part \in {"workflow", "gateway"}
    /\ Init /\ GatewayInit
    /\ part = "gateway" => complete
    /\ part = "workflow" => \A c \in Call : target[c] = CHOOSE s \in Start : TRUE

TemporalNext ==
    \/ part = "workflow" /\ Next /\ UNCHANGED <<part, gatewayVars>>
    \/ part = "gateway" /\ GatewayNext /\ UNCHANGED <<part, vars>>

TemporalSpec == TemporalInit /\ [][TemporalNext]_temporalVars
=============================================================================
