SPECIFICATION TenantFairSpec
CONSTANTS
  Tenants <- TwoTenants
  SlugOf <- SwappedSlugs
  Seeds <- AllOrNone
  Operated = {"acme"}
  Requests = {r1, r2}
  Settings <- SomeSettings
  MaxActive = 1
  MaxInactive = 1
  MinNegTTL = 1
  MaxLag = 2
INVARIANTS ServedTenantWasActive RefusedTenantWasInactive
PROPERTIES RealTenantsStay DeactivationTakesEffect
