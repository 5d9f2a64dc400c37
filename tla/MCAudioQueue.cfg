CONSTANTS
    p1 = p1
    p2 = p2
    ann = ann
    ben = ben
    cyd = cyd
    dan = dan
    Pods = {p1, p2}
    Users = {ann, ben, cyd, dan}
    Items = {1, 2, 3}
    Legacy = {3}
    None = None
    PodOf <- OnFirst
    SkipVotePercent = 80
    SkipVoteMin = 2
    Instances <- Rollouts
SPECIFICATION FairSpec
INVARIANTS
    TypeOK
    CurrentIsTimed
PROPERTIES
    SkipsAreVoted
    QueueEmpties
