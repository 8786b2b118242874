SPECIFICATION FairSpec
CONSTANTS
    k1 = k1  k2 = k2  t1 = t1  t2 = t2
    Keys = {k1, k2}
    Threads = {t1, t2}
    Asks <- MCAsks
    Uses <- MCUses
    NumShards = 1
    ShardOf <- MCShardOf
    Policy = "volatile-ttl"
    MaxMemory = 3
    Overhead = 1
    MaxSize = 2
    TTLs = {1}
    MaxTime = 2
    Sampled = 1
    BatchPerShard = 1
    Rank <- MCRank
INVARIANTS NeverOvercounted TtlIndexed
PROPERTIES OnlyExpiredExpire ExpiredCollected
