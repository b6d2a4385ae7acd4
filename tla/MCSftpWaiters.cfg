CONSTANTS
  t1 = t1  t2 = t2  t3 = t3  s1 = s1  s2 = s2  s3 = s3
  None = None
  Tasks = {t1, t2, t3}
  Sessions = {s1, s2}
  MaxGeneration = 1
  Programs <- ReconnectPrograms
SPECIFICATION FairSpec
PROPERTIES WaitersResume
