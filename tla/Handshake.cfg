CONSTANTS
    TaskMod = 3
    TimeMod = 8
    DEF_REQ_TIMEOUT_SEC = 2
    Uid1 = 11
    Uid2 = 12
    Confs <- MCConfs
    SvrConf <- MCSvrConf
    Randoms = {5, 6}
    Times = {0, 1, 2, 3}
SPECIFICATION FairSpec
INVARIANTS TypeOK OneUnderWay Agreement NoWrongPassword
PROPERTIES AcceptOnlyFresh NoLimbo
