SPECIFICATION MCSpec
CONSTANTS
  a = a  b = b  c = c  d = d
  None = None  v1 = v1  v2 = v2
  Key = {a, b, c, d}
  Value = {None, v1, v2}
  Thread = {t1, t2, t3}
  NShards = 3
  ShardOf <- MCShardOf
  Request <- MCRequest
  MaxCalls = 1
INVARIANT NoWaitCycle
PROPERTY ImplementsKeyspace
