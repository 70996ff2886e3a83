SPECIFICATION CleanSpec
CONSTANTS
  CleanPayments = {p1, p2, p3}
  CleanReports = {t1}
  Archives = {z1, z2}
  Cleaners = {y1}
  Cutoffs = {Unset, 2}
  Traffic = {}
  Unset = Unset
INVARIANT DeletedIsArchived
CHECK_DEADLOCK FALSE
