SPECIFICATION StoreSpec
CONSTANTS
  Procs = {p1, p2}
  Passphrases = {w1, w2}
  MaxSalts = 3
  LaxUmask = TRUE
  Unset = Unset
PROPERTY RotationRenewsSalt
