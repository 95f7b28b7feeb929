CONSTANTS
  c1 = c1  c2 = c2
  NoTenant = "empty"
  NoKid = "no_kid"
  Calls <- MCCalls
  Tokens <- MCTokens
  StaticToken <- MCStaticToken
  LocalPrincipal <- MCLocalPrincipal
  Inputs <- MCInputs
  Published <- MCPublished
  KnownPrincipals <- MCKnownPrincipals
SPECIFICATION Spec
SYMMETRY CallSymmetry
INVARIANTS
  RulesAreExclusive
  AllowedAsDeclaredAndVerified
  DecidedIsPersisted
  OnlyFirstContactCollides
  MixedRowNeedsOverlap
  FreshKeyIsAccepted
CHECK_DEADLOCK FALSE
