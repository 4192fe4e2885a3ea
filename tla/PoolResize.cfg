\* A pool of one worker and two producers: two queued tasks outnumber the live
\* threads while one more thread is allowed.
SPECIFICATION FairSpec
CONSTANTS
    Workers = {w1}
    Producers = {p1, p2}
    Manager = manager
    Tasks = {t1, t2, t3}
    Capacity = 2
    MaxNum = 2
    Destroys = FALSE
    None = None
PROPERTY PoolGrows
