--------------------------- MODULE MCGarageDoors ---------------------------
(* GarageDoors for TLC: doors of one account, of two, of both; one of none.  *)
EXTENDS GarageDoors, TLC

CONSTANTS d1, d2, a1, a2

SmallListings ==
    {(d1 :> {a1} @@ d2 :> {a1}), (d1 :> {a1} @@ d2 :> {a2}),
     (d1 :> {a1, a2} @@ d2 :> {a2}), (d1 :> {} @@ d2 :> {a1, a2})}
=============================================================================
