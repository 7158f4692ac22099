----------------------------- MODULE MCLockOrder -----------------------------
(***************************************************************************)
(* Transactions on two requests, each asked by the other's helper.          *)
(***************************************************************************)
EXTENDS LockOrder

CONSTANTS ann, ben, r1, r2, bread, water

AnnThenBen == [r \in Requests |-> IF r = r1 THEN ann ELSE ben]
BenThenAnn == [r \in Requests |-> IF r = r1 THEN ben ELSE ann]
BreadThenWater == [r \in Requests |-> IF r = r1 THEN bread ELSE water]
=============================================================================
