SPECIFICATION Spec
CONSTANTS
  t1 = t1
  t2 = t2
  alice = alice
  bob = bob
  search = search
  Global = Global
  Nobody = Nobody
  Threads <- MCThreads
  Identities <- MCIdentities
  RuledTools <- MCTools
  GlobalRule <- MCGlobalRule
  IdentityRule <- MCIdentityRule
  ToolRules <- MCToolRules
  TicksPerMinute = 6
  MaxTime = 3
SYMMETRY LimiterSymmetry
INVARIANTS TypeOK WindowBound GlobalBoundsAdmitted
PROPERTY DenialFollowsGrant
