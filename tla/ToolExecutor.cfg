SPECIFICATION FairSpec
CONSTANTS
  Calls = {c1, c2}
  Names = {n}
  Caps = {k1, k2}
  Defs <- MCDefs
  GateModes = {"trust_after_first", "always_ask", "confirm_first_use_only"}
  None = None
INVARIANTS DangerousAskedEachUse TrustIsEarned RefusedHadNoEffect
PROPERTIES EveryCallReturns
