CONSTANTS
  t1 = t1  t2 = t2  t3 = t3  s1 = s1  s2 = s2  s3 = s3
  None = None
  Tasks = {t1, t2, t3}
  Sessions = {s1, s2, s3}
  MaxGeneration = 2
  Programs <- ClientPrograms
SPECIFICATION Spec
SYMMETRY Symmetric
INVARIANTS GrantedOnce
PROPERTIES OwnerSpec ClaimKeepsOwner
CHECK_DEADLOCK FALSE
