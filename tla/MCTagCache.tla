----------------------------- MODULE MCTagCache -----------------------------
(* Instances of TagCache for TLC: a route under two tags, one under a      *)
(* single tag, one without tags.                                           *)
EXTENDS TagCache, TLC

CONSTANTS t1, t2, list, detail, ping, p1, p2, r1, r2, w1

ThreeRoutes == (detail :> {t1}) @@ (list :> {t1, t2}) @@ (ping :> {})

TwoProcs == r1 :> p1 @@ r2 :> p2 @@ w1 :> p1

TwoTagWrite == w1 :> {t1, t2}
=============================================================================
