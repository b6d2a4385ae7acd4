CONSTANTS
  c1 = c1  c2 = c2  c3 = c3  k1 = k1  u1 = u1  u2 = u2  w1 = w1  w2 = w2  r1 = r1
  None = None
  Conns = {c1}
  Keys = {k1}
  Consumers = {u1, u2}
  Workers = {w1}
  Reapers = {r1}
  Clients <- TimerClients
SPECIFICATION FairSpec
PROPERTIES IdleEventuallyEnds
