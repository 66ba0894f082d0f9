SPECIFICATION SurfaceSpec
CONSTANTS
  e1 = e1
  e2 = e2
  e3 = e3
  n1 = n1
  n2 = n2
  n3 = n3
  Identifier = {e1, e2, e3}
  Name = {n1, n2, n3}
  MaximumEndpointCount = 3
  Offered <- OfferedLists
  MaxOvertakes = 2
INVARIANTS SurfaceTypeOK ObjectsAgree ClaimsAreAnswered ViewIsCurrent
PROPERTIES StableIdentity ViewBecomesCurrent
