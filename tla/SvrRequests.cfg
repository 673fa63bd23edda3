CONSTANTS
    u1 = u1
    u2 = u2
    s1 = s1
    b1 = b1
    Conns = {c1, c2}
    Uids = {u1, u2}
    Sids = {s1}
    Bodies = {b1, BadLen, BadTxtLen}
    Inputs <- RequestInputs
    NoConn = NoConn
    NoUid = NoUid
    NoSid = NoSid
    BadLen = BadLen
    BadTxtLen = BadTxtLen
    MaxBacklog = 2
SPECIFICATION FairSpec
CHECK_DEADLOCK FALSE
PROPERTY RequestsAnswered
