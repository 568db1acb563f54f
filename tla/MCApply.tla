------------------------------- MODULE MCApply -------------------------------
(* Model-checking instances of Apply: two appliers of different contents   *)
(* of the same shape, or of different shapes, beside one more content.     *)
EXTENDS Apply, TLC

CONSTANTS a1, a2

TwoAppliers == {a1, a2}
Contents == {"x", "y", "z"}
DesiredXY == (a1 :> "x") @@ (a2 :> "y")
OneShape == [s \in Contents |-> 1]
TwoShapes == ("x" :> 1) @@ ("y" :> 2) @@ ("z" :> 1)
=============================================================================
