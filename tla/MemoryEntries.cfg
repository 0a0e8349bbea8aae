SPECIFICATION Spec
CONSTANTS
  Sessions = {s1, s2}
  plain = plain
  secret = secret
  blank = blank
  hostile = hostile
  Texts = {plain, secret, blank, hostile}
  Pii = {secret}
  Blank = {blank}
  Patterns <- MCPatterns
  MaxWindow = 2
  MaxId = 3
  MaxTime = 1
  None = None
SYMMETRY Symmetry
INVARIANTS NothingSensitiveShown ForgottenOnceForAll
PROPERTIES ForgottenWasAskedFor NothingIsLost
