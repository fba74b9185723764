\* Callers that part users only from channels on their lists.
SPECIFICATION CacheSpec
CONSTANTS
    u1 = u1
    u2 = u2
    u3 = u3
    n1 = n1
    n2 = n2
    Users <- MCUsers
    Nets <- MCNets
    NetOf <- MCNetOf
    Channels = {main, other}
    Topics = {t1, t2}
    NoTopic = NoTopic
    NoName = NoName
    Slots = {s1, s2, s3}
INVARIANTS TypeOK  ChannelNamesUnique 
 
