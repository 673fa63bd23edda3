---------------------------- MODULE LoginCenter ----------------------------
(***************************************************************************)
(* LoginCenter (logincenter.cpp): the login data both ends of a connection *)
(* keep, the messages generated from it, and the checks and assignments    *)
(* that parsing a message makes.  A parse is two operators: whether it     *)
(* succeeds, and the login data after a success; a failed parse changes    *)
(* nothing but m_reason, which is only reported.                           *)
(*                                                                         *)
(* Tokens are modelled by what they tell apart.  Both ends compute a token *)
(* from values of the same messages, so only passwords can differ: the     *)
(* request token then tells passwd1 apart, the exchange token only the     *)
(* difference of the passwords, and in the end token the secret, used      *)
(* twice in an exclusive or, cancels out.                                  *)
(***************************************************************************)
EXTENDS Integers

CONSTANTS
    TaskMod,            \* task identifiers are below this (2^64)
    TimeMod,            \* times are below this (2^32)
    DEF_REQ_TIMEOUT_SEC \* a LOGIN_REQ must be younger

ASSUME LoginAssumption ==
    /\ TaskMod \in Nat /\ TaskMod > 1
    /\ TimeMod \in Nat /\ TimeMod > 0
    /\ DEF_REQ_TIMEOUT_SEC \in Nat /\ DEF_REQ_TIMEOUT_SEC > 0

\* No secret has been created yet (the zeroed m_secret).
NoSecret == <<>>

\* The zeroed LoginData, with the passwords of a configuration.
emptyLogin(conf, u1, u2) ==
    [passwd1 |-> conf.passwd1, passwd2 |-> conf.passwd2, taskid |-> 0,
     timestamp |-> 0, uid1 |-> u1, uid2 |-> u2, random1 |-> 0, random2 |-> 0,
     stat |-> "INVALID", secret |-> NoSecret]

\* Task identifiers skip 0 when they wrap around.
next(seq) == IF (seq + 1) % TaskMod # 0 THEN (seq + 1) % TaskMod ELSE 1

creatTokenReq(p1, u1, r1) == <<p1, u1, r1>>

creatTokenExch(p1, p2, r1, r2) == (p1 + r1) - (p2 + r2)

creatTokenEnd(secret, taskid, timestamp, u1) == <<taskid, timestamp, u1>>

creatSecret(p1, p2, r1, r2, u1) == <<p1, p2, r1, r2, u1>>
----------------------------------------------------------------------------
genHeloMsg(login) == [cmd |-> "HELO", timestamp |-> login.timestamp]

genErrorMsg(login) == [cmd |-> "ERROR_ACK", taskid |-> login.taskid]

genLoginReqMsg(login) ==
    [cmd |-> "LOGIN_REQ", timestamp |-> login.timestamp, uid1 |-> login.uid1,
     random1 |-> login.random1,
     token |-> creatTokenReq(login.passwd1, login.uid1, login.random1)]

genExchKeyMsg(login) ==
    [cmd |-> "EXCH_KEY", taskid |-> login.taskid, uid1 |-> login.uid1,
     uid2 |-> login.uid2, random2 |-> login.random2,
     token |-> creatTokenExch(login.passwd1, login.passwd2,
                              login.random1, login.random2)]

genLoginEndMsg(login) ==
    [cmd |-> "LOGIN_END", taskid |-> login.taskid, uid1 |-> login.uid1,
     uid2 |-> login.uid2,
     token |-> creatTokenEnd(login.secret, login.taskid, login.timestamp,
                             login.uid1)]
----------------------------------------------------------------------------
(* The client parses HELO and EXCH_KEY.                                    *)

chkHelo(login) == login.stat = "INIT"

parseHeloMsg(login, msg, rand) ==
    [login EXCEPT !.timestamp = msg.timestamp, !.random1 = rand,
                  !.stat = "CLI_REQ"]

chkExchKey(login, msg) ==
    /\ login.stat = "CLI_REQ"
    /\ login.uid1 = msg.uid1
    /\ msg.token = creatTokenExch(login.passwd1, login.passwd2,
                                  login.random1, msg.random2)

\* Mutant: the secret is created before the router's random is stored.
parseExchKeyMsgEarlySecret(login, msg) ==
    [login EXCEPT !.taskid = msg.taskid, !.uid2 = msg.uid2,
                  !.random2 = msg.random2, !.stat = "AUTH_OK",
                  !.secret = creatSecret(login.passwd1, login.passwd2,
                                login.random1, login.random2, login.uid1)]

parseExchKeyMsg(login, msg) ==
    [login EXCEPT !.taskid = msg.taskid, !.uid2 = msg.uid2,
                  !.random2 = msg.random2, !.stat = "AUTH_OK",
                  !.secret = creatSecret(login.passwd1, login.passwd2,
                                login.random1, msg.random2, login.uid1)]
----------------------------------------------------------------------------
(* The router parses LOGIN_REQ and LOGIN_END.                              *)

\* Mutant: the age as a signed difference.
ageSigned(now, tm) == now - tm

\* now - reqTm, in unsigned arithmetic: a request from the future is old.
age(now, tm) == (now - tm) % TimeMod

\* Mutant: the token is not compared.
chkLoginReqNoToken(login, msg, now) ==
    /\ login.stat = "SVR_HELO"
    /\ msg.timestamp = login.timestamp
    /\ age(now, msg.timestamp) < DEF_REQ_TIMEOUT_SEC

chkLoginReq(login, msg, now) ==
    /\ login.stat = "SVR_HELO"
    /\ msg.timestamp = login.timestamp
    /\ age(now, msg.timestamp) < DEF_REQ_TIMEOUT_SEC
    /\ msg.token = creatTokenReq(login.passwd1, msg.uid1, msg.random1)

\* Mutant: the new login keeps the identifier of the zeroed LoginData.
parseLoginReqMsgNoTask(login, msg, taskid, rand) ==
    [login EXCEPT !.uid1 = msg.uid1, !.random1 = msg.random1,
                  !.random2 = rand,
                  !.secret = creatSecret(login.passwd1, login.passwd2,
                                         msg.random1, rand, msg.uid1),
                  !.stat = "SVR_EXCH_KEY"]

parseLoginReqMsg(login, msg, taskid, rand) ==
    [login EXCEPT !.uid1 = msg.uid1, !.random1 = msg.random1,
                  !.taskid = taskid, !.random2 = rand,
                  !.secret = creatSecret(login.passwd1, login.passwd2,
                                         msg.random1, rand, msg.uid1),
                  !.stat = "SVR_EXCH_KEY"]

chkLoginEnd(login, msg) ==
    /\ login.stat = "SVR_EXCH_KEY"
    /\ login.uid1 = msg.uid1 /\ login.uid2 = msg.uid2
    /\ login.taskid = msg.taskid
    /\ msg.token = creatTokenEnd(login.secret, login.taskid,
                                 login.timestamp, login.uid1)

parseLoginEnd(login) == [login EXCEPT !.stat = "AUTH_OK"]
----------------------------------------------------------------------------
(* Either end parses ERROR_ACK.                                            *)

chkErrorAck(login, msg) == login.taskid = msg.taskid

parseErrorAck(login) == [login EXCEPT !.stat = "ERROR"]
=============================================================================
