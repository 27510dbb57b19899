CONSTANTS
    v1 = v1
    v2 = v2
    NENV = 3
    Senders = {1, 2}
    Receivers = {0}
    Page = {1}
    MaxGen = 2
    Val = {v1, v2}
    NoPage = NoPage
    MaxKills = 1
    Msgs <- MCMsgs
SPECIFICATION FairSpec
CHECK_DEADLOCK FALSE
PROPERTIES ImplementsRendezvous  MatchedPairProceeds DeadTargetNoticed
