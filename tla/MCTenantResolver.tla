-------------------------- MODULE MCTenantResolver --------------------------
(* An instance of TenantResolver for TLC: two tenants, each with the       *)
(* other's id as its slug.                                                 *)
EXTENDS TenantResolver, TLC

TwoTenants == {"acme", "beta"}
SwappedSlugs == "acme" :> "beta" @@ "beta" :> "acme"
AllOrNone == {{}, TwoTenants}
Setting(r, v, p, b, s, t) ==
  [resolver |-> r, validate |-> v, postgres |-> p, baseDomain |-> b, spelled |-> s,
   ttl |-> t]
SomeSettings ==
  {Setting("subdomain", TRUE, TRUE, TRUE, TRUE, 1),
   Setting("header", TRUE, TRUE, FALSE, TRUE, 0),
   Setting("header", FALSE, FALSE, FALSE, TRUE, 1),
   Setting("subdomain", FALSE, TRUE, TRUE, TRUE, 1),
   Setting("header", FALSE, FALSE, FALSE, FALSE, 1)}
=============================================================================
