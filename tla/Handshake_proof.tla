-------------------------- MODULE Handshake_proof --------------------------
(***************************************************************************)
(* Proofs about the login over one connection, for any passwords, random   *)
(* numbers, clock values and identifier widths: its types, the agreement   *)
(* of the two ends, that no other password is taken, and that a request is *)
(* only accepted when it is fresh.                                         *)
(*                                                                         *)
(* The argument: the handshake is strictly alternating, so that at most    *)
(* one message is under way (LockStep), and what that message says of both *)
(* ends is known from its command (UpMsg, DownMsg).                        *)
(***************************************************************************)
EXTENDS Handshake, TLAPS

CliStats == {"INVALID", "INIT", "CLI_REQ", "AUTH_OK", "ERROR"}

SvrStats == {"INVALID", "SVR_HELO", "SVR_EXCH_KEY", "AUTH_OK", "ERROR"}

Fds == {"none", "open", "closing"}

\* The values of the fields of LoginData at an end with these states.
LoginData(stats) ==
    [passwd1 : Int, passwd2 : Int, taskid : 0..(TaskMod - 1),
     timestamp : Times \union {0}, uid1 : {0, Uid1}, uid2 : {0, Uid2},
     random1 : Randoms \union {0}, random2 : Randoms \union {0}, stat : stats,
     secret : {NoSecret} \union (Int \X Int \X Int \X Int \X {Uid1})]
----------------------------------------------------------------------------
(* The inductive invariant.                                                *)

CliType == cli \in LoginData(CliStats) /\ cliFd \in Fds

SvrType == svr \in LoginData(SvrStats) /\ svrFd \in Fds

RestType == conf \in Confs /\ seq \in 0..(TaskMod - 1) /\ now \in Times

\* What the client's login data are made of, whatever the router does.
CliSound ==
    /\ cli.passwd1 = conf.passwd1 /\ cli.passwd2 = conf.passwd2
    /\ cli.uid1 = Uid1
    /\ cliFd = "none" <=> cli.stat = "INVALID"
    /\ cli.stat = "AUTH_OK" => cli.taskid # 0
    /\ cli.stat \in {"INVALID", "INIT", "CLI_REQ"} => cli.taskid = 0
    /\ cli.taskid # 0 =>
        /\ conf = SvrConf
        /\ cli.uid2 = Uid2
        /\ cli.secret = creatSecret(SvrConf.passwd1, SvrConf.passwd2,
                                    cli.random1, cli.random2, Uid1)

\* What the router's login data are made of, whatever the client does.
SvrSound ==
    /\ svr.passwd1 = SvrConf.passwd1 /\ svr.passwd2 = SvrConf.passwd2
    /\ svr.uid2 = Uid2
    /\ svrFd = "none" <=> svr.stat = "INVALID"
    /\ svr.stat = "SVR_HELO" => svr.timestamp \in Times
    /\ svr.stat \in {"SVR_EXCH_KEY", "AUTH_OK"} => svr.taskid # 0
    /\ svr.stat \in {"INVALID", "SVR_HELO"} => svr.taskid = 0
    /\ svr.stat = "AUTH_OK" => conf = SvrConf
    /\ svr.taskid # 0 =>
        /\ conf.passwd1 = SvrConf.passwd1
        /\ svr.uid1 = Uid1
        /\ svr.secret = creatSecret(SvrConf.passwd1, SvrConf.passwd2,
                                    svr.random1, svr.random2, Uid1)

\* What the two ends of a connection that both still have know of each other.
Paired ==
    cliFd # "none" /\ svrFd # "none" =>
        /\ svr.taskid # 0 => cli.random1 = svr.random1
        /\ svr.stat = "AUTH_OK" => cli.taskid # 0
        /\ cli.taskid # 0 =>
            svr.taskid = cli.taskid /\ svr.random2 = cli.random2

\* A message to the router, and the states of the ends while it is on its way.
UpMsg(m) ==
    \/ /\ m \in [cmd : {"LOGIN_REQ"}, timestamp : Times \union {0}, uid1 : {Uid1},
                 random1 : Randoms, token : Int \X {Uid1} \X Int]
       /\ m.token = creatTokenReq(conf.passwd1, Uid1, m.random1)
       /\ cliFd # "none" => cli.stat = "CLI_REQ" /\ cli.random1 = m.random1
       /\ svrFd # "none" => svr.stat = "SVR_HELO"
    \/ /\ m.cmd = "LOGIN_END"
       /\ conf = SvrConf
       /\ cliFd # "none" => cli.stat = "AUTH_OK"
       /\ svrFd # "none" => svr.stat = "SVR_EXCH_KEY"
    \/ m.cmd = "ERROR_ACK"

\* A message to the client, and the states of the ends while it is on its way.
DownMsg(m) ==
    \/ /\ m \in [cmd : {"HELO"}, timestamp : Times]
       /\ cliFd # "none" => cli.stat = "INIT"
       /\ svrFd # "none" => svr.stat = "SVR_HELO"
    \/ /\ m \in [cmd : {"EXCH_KEY"}, taskid : 1..(TaskMod - 1), uid1 : {Uid1},
                 uid2 : {Uid2}, random2 : Randoms, token : Int]
       /\ conf.passwd1 = SvrConf.passwd1
       /\ cliFd # "none" =>
            /\ cli.stat = "CLI_REQ"
            /\ m.token = creatTokenExch(SvrConf.passwd1, SvrConf.passwd2,
                                        cli.random1, m.random2)
       /\ svrFd # "none" =>
            /\ svr.stat = "SVR_EXCH_KEY"
            /\ svr.taskid = m.taskid /\ svr.random2 = m.random2
    \/ m.cmd = "ERROR_ACK"

\* At most one message is under way, and it is one that the states allow.
LockStep ==
    \/ up = <<>> /\ down = <<>>
    \/ down = <<>> /\ Len(up) = 1 /\ up = <<up[1]>> /\ UpMsg(up[1])
    \/ up = <<>> /\ Len(down) = 1 /\ down = <<down[1]>> /\ DownMsg(down[1])

IInv ==
    /\ CliType /\ SvrType /\ RestType
    /\ CliSound /\ SvrSound /\ Paired /\ LockStep
----------------------------------------------------------------------------
(* What the helpers return.                                                *)

\* Task identifiers stay within their width and are never 0.
LEMMA NextType ==
    ASSUME NEW s \in 0..(TaskMod - 1)
    PROVE  next(s) \in 1..(TaskMod - 1)
  BY LoginAssumption DEF next

\* A sum and difference of unsigned values that do not wrap are themselves.
LEMMA AgeFresh ==
    ASSUME NEW t \in Times, NEW s \in Times, age(t, s) < DEF_REQ_TIMEOUT_SEC
    PROVE  t - s \in 0..(DEF_REQ_TIMEOUT_SEC - 1)
<1>1. t \in 0..(TimeMod - 1) /\ s \in 0..(TimeMod - 1) /\ TimeMod \in Nat /\ TimeMod > 0
  BY LoginAssumption, HandshakeAssumption
<1>2. s - t <= TimeMod - DEF_REQ_TIMEOUT_SEC
  BY ClockAssumption
<1>3. CASE t >= s
  <2>1. t - s \in 0..(TimeMod - 1)
    BY <1>1, <1>3
  <2>2. (t - s) % TimeMod = t - s
    BY <1>1, <2>1
  <2> QED
    BY <1>1, <1>3, <2>2, LoginAssumption DEF age
<1>4. CASE t < s
  <2>1. (t - s) % TimeMod = t - s + TimeMod
    BY <1>1, <1>4
  <2> QED
    BY <1>1, <1>2, <1>4, <2>1, LoginAssumption DEF age
<1> QED
  BY <1>1, <1>3, <1>4
\* The zeroed login data of either end, with passwords of a configuration.
LEMMA EmptyType ==
    /\ conf \in Confs => emptyLogin(conf, Uid1, 0) \in LoginData(CliStats)
    /\ emptyLogin(SvrConf, 0, Uid2) \in LoginData(SvrStats)
  BY HandshakeAssumption, LoginAssumption
  DEF emptyLogin, LoginData, CliStats, SvrStats

\* Passwords and random numbers are numbers.
LEMMA NumberTypes ==
    /\ \A r \in Randoms \union {0} : r \in Int
    /\ CliType => cli.passwd1 \in Int /\ cli.passwd2 \in Int /\ cli.random1 \in Int
    /\ SvrType => svr.passwd1 \in Int /\ svr.passwd2 \in Int
<1>1. \A r \in Randoms \union {0} : r \in Int
  BY HandshakeAssumption
<1> QED
  BY <1>1 DEF CliType, SvrType, LoginData

\* An end sends at most one message, and only on an open descriptor.
LEMMA SentOne ==
    ASSUME NEW f, NEW m
    PROVE  Sent(<<>>, f, m) = <<>> \/ (f # "none" /\ Sent(<<>>, f, m) = <<m>>)
  BY DEF Sent

\* A handler that fails does not free its descriptor.
LEMMA ClosedType ==
    ASSUME NEW f \in Fds
    PROVE  Closed(f) \in Fds /\ (Closed(f) = "none" <=> f = "none")
  BY DEF Closed, Fds

\* The wire a handler reads from carried just the message it handles.
LEMMA UpAlone ==
    ASSUME LockStep, up # <<>>
    PROVE  down = <<>> /\ Tail(up) = <<>> /\ UpMsg(Head(up))
<1>1. down = <<>> /\ up = <<up[1]>> /\ UpMsg(up[1])
  BY DEF LockStep
<1>2. Head(<<up[1]>>) = up[1] /\ Tail(<<up[1]>>) = <<>>
  OBVIOUS
<1> QED
  BY <1>1, <1>2

\* The same of the wire to the client.
LEMMA DownAlone ==
    ASSUME LockStep, down # <<>>
    PROVE  up = <<>> /\ Tail(down) = <<>> /\ DownMsg(Head(down))
<1>1. up = <<>> /\ down = <<down[1]>> /\ DownMsg(down[1])
  BY DEF LockStep
<1>2. Head(<<down[1]>>) = down[1] /\ Tail(<<down[1]>>) = <<>>
  OBVIOUS
<1> QED
  BY <1>1, <1>2

\* Sending one message on idle wires, or none, keeps the lock step.
LEMMA LockStepKept ==
    ASSUME \/ up' = <<>> /\ down' = <<>>
           \/ down' = <<>> /\ \E m : up' = <<m>> /\ UpMsg(m)'
           \/ up' = <<>> /\ \E m : down' = <<m>> /\ DownMsg(m)'
    PROVE  LockStep'
<1>1. ASSUME NEW m, up' = <<m>>, UpMsg(m)'
      PROVE  Len(up)' = 1 /\ up' = <<up[1]>>' /\ UpMsg(up[1])'
  BY <1>1 DEF UpMsg
<1>2. ASSUME NEW m, down' = <<m>>, DownMsg(m)'
      PROVE  Len(down)' = 1 /\ down' = <<down[1]>>' /\ DownMsg(down[1])'
  BY <1>2 DEF DownMsg
<1> QED
  BY <1>1, <1>2 DEF LockStep
----------------------------------------------------------------------------
(* The invariant is inductive.                                             *)

\* Before the first connection neither end knows anything.
LEMMA IInvInit == Init => IInv
<1> SUFFICES ASSUME Init PROVE IInv
  OBVIOUS
<1>1. CliType /\ SvrType /\ RestType
  BY EmptyType, HandshakeAssumption, LoginAssumption
  DEF Init, CliType, SvrType, RestType, Fds
<1>2. CliSound /\ SvrSound
  BY DEF Init, CliSound, SvrSound, emptyLogin
<1>3. Paired /\ LockStep
  BY DEF Init, Paired, LockStep
<1> QED
  BY <1>1, <1>2, <1>3 DEF IInv

\* A connection is made between two ends that have forgotten the last one.
LEMMA ConnectStep ==
    ASSUME IInv, Connect
    PROVE  IInv'
<1>1. cli.stat = "INVALID" /\ cli.taskid = 0 /\ cli \in LoginData(CliStats)
  BY DEF IInv, Connect, CliSound, CliType
<1>2. cli' = [cli EXCEPT !.stat = "INIT"] /\ conf' = conf /\ seq' = seq /\ now' = now
      /\ cliFd' = "open" /\ svrFd' = "open" /\ now \in Times
  BY DEF Connect, IInv, RestType
<1>3. cli' \in LoginData(CliStats)
  BY <1>1, <1>2 DEF LoginData, CliStats
<1>4. /\ svr' \in LoginData(SvrStats)
      /\ svr'.stat = "SVR_HELO" /\ svr'.taskid = 0 /\ svr'.timestamp = now
      /\ svr'.passwd1 = SvrConf.passwd1 /\ svr'.passwd2 = SvrConf.passwd2
      /\ svr'.uid2 = Uid2
  <2> DEFINE s == emptyLogin(SvrConf, 0, Uid2)
  <2>1. s \in LoginData(SvrStats) /\ s.taskid = 0 /\ s.uid2 = Uid2
        /\ s.passwd1 = SvrConf.passwd1 /\ s.passwd2 = SvrConf.passwd2
    BY EmptyType DEF emptyLogin
  <2>2. svr' = [s EXCEPT !.timestamp = now, !.stat = "SVR_HELO"]
    BY DEF Connect
  <2> QED
    BY <1>2, <2>1, <2>2 DEF LoginData, SvrStats
<1>5. CliType' /\ SvrType' /\ RestType'
  BY <1>2, <1>3, <1>4 DEF IInv, CliType, SvrType, RestType, Fds
<1>6. CliSound' /\ SvrSound'
  BY <1>1, <1>2, <1>4 DEF IInv, CliSound, SvrSound, LoginData
<1>7. Paired'
  BY <1>1, <1>2, <1>4 DEF Paired, LoginData
<1>8. PICK m : m = genHeloMsg(svr')
  OBVIOUS
<1>9. m \in [cmd : {"HELO"}, timestamp : Times]
  BY <1>2, <1>4, <1>8 DEF genHeloMsg
<1>10. DownMsg(m)'
  BY <1>1, <1>2, <1>4, <1>9 DEF DownMsg, LoginData
<1>11. LockStep'
  BY <1>8, <1>10, LockStepKept DEF Connect
<1> QED
  BY <1>5, <1>6, <1>7, <1>11 DEF IInv

\* An end that is lost keeps its data until onClose.
LEMMA LostStep ==
    ASSUME IInv, CliLost \/ SvrLost \/ Clock
    PROVE  IInv'
<1>1. UNCHANGED <<conf, cli, svr, up, down, seq>> /\ now' \in Times
      /\ cliFd' \in Fds /\ svrFd' \in Fds
      /\ (cliFd' = "none" <=> cliFd = "none")
      /\ (svrFd' = "none" <=> svrFd = "none")
  BY DEF CliLost, SvrLost, Clock, IInv, RestType, CliType, SvrType, Fds
<1>2. CliType' /\ SvrType' /\ RestType' /\ CliSound' /\ SvrSound' /\ Paired'
  BY <1>1 DEF IInv, CliType, SvrType, RestType, CliSound, SvrSound, Paired
<1>3. LockStep'
  BY <1>1 DEF IInv, LockStep, UpMsg, DownMsg
<1> QED
  BY <1>2, <1>3 DEF IInv
\* A handler of the client that fails.
LEMMA CliFails ==
    ASSUME IInv, cliFd # "none", down # <<>>, down' = Tail(down), CliErrRsp,
           UNCHANGED <<conf, svr, svrFd, seq, now>>
    PROVE  IInv'
<1>1. up = <<>> /\ down' = <<>>
  BY DownAlone DEF IInv
<1>2. cliFd' \in Fds /\ cliFd' # "none" /\ cli' = cli
  BY ClosedType DEF CliErrRsp, IInv, CliType
<1>3. CliType' /\ SvrType' /\ RestType' /\ CliSound' /\ SvrSound' /\ Paired'
  BY <1>2 DEF IInv, CliType, SvrType, RestType, CliSound, SvrSound, Paired
<1>4. PICK m : m = genErrorMsg(cli)
  OBVIOUS
<1>5. UpMsg(m)'
  BY <1>4 DEF UpMsg, genErrorMsg
<1>6. up' = <<>> \/ up' = <<m>>
  BY <1>1, <1>4, SentOne DEF CliErrRsp
<1>7. LockStep'
  BY <1>1, <1>5, <1>6, LockStepKept
<1> QED
  BY <1>3, <1>7 DEF IInv

\* The client's answer to HELO, which it always accepts: LOGIN_REQ.
LEMMA HeloStep ==
    ASSUME IInv, procHeloMsg
    PROVE  IInv'
<1>1. /\ cliFd # "none" /\ down # <<>> /\ Head(down).cmd = "HELO"
      /\ down' = Tail(down) /\ UNCHANGED <<conf, svr, svrFd, seq, now>>
  BY DEF procHeloMsg, CliHandles
<1>2. CASE CliErrRsp
  BY <1>1, <1>2, CliFails
<1>3. ASSUME NEW rand \in Randoms, cli' = parseHeloMsg(cli, Head(down), rand),
             up' = Sent(up, cliFd, genLoginReqMsg(cli')), UNCHANGED cliFd
      PROVE  IInv'
  <2>1. up = <<>> /\ down' = <<>> /\ DownMsg(Head(down))
    BY <1>1, DownAlone DEF IInv
  <2>2. /\ Head(down).timestamp \in Times /\ cli.stat = "INIT"
        /\ svrFd # "none" => svr.stat = "SVR_HELO"
    BY <1>1, <2>1 DEF DownMsg
  <2>3. /\ cli' \in LoginData(CliStats) /\ cli'.stat = "CLI_REQ"
        /\ cli'.random1 = rand /\ cli'.timestamp \in Times
        /\ cli'.passwd1 = cli.passwd1 /\ cli'.passwd2 = cli.passwd2
        /\ cli'.uid1 = cli.uid1 /\ cli'.taskid = cli.taskid
    BY <1>3, <2>2 DEF IInv, CliType, parseHeloMsg, LoginData, CliStats
  <2>4. CliType' /\ SvrType' /\ RestType'
    BY <1>1, <1>3, <2>3 DEF IInv, CliType, SvrType, RestType
  <2>5. cli.taskid = 0 /\ cli.uid1 = Uid1 /\ cli.passwd1 = conf.passwd1
    BY <2>2 DEF IInv, CliSound
  <2>6. CliSound' /\ SvrSound'
    BY <1>1, <1>3, <2>3, <2>5 DEF IInv, CliSound, SvrSound
  <2>7. Paired'
    BY <1>1, <1>3, <2>2, <2>3, <2>5 DEF IInv, Paired, SvrSound
  <2>8. PICK m : m = genLoginReqMsg(cli')
    OBVIOUS
  <2>9. /\ m.cmd = "LOGIN_REQ" /\ m.random1 = rand
        /\ m.token = creatTokenReq(conf.passwd1, Uid1, rand)
        /\ m \in [cmd : {"LOGIN_REQ"}, timestamp : Times \union {0}, uid1 : {Uid1},
                  random1 : Randoms, token : Int \X {Uid1} \X Int]
    <3>1. cli'.passwd1 \in Int /\ rand \in Int
      BY <2>3, HandshakeAssumption DEF LoginData
    <3> QED
      BY <2>3, <2>5, <2>8, <3>1 DEF genLoginReqMsg, creatTokenReq
  <2>10. UpMsg(m)'
    BY <1>1, <1>3, <2>2, <2>3, <2>9 DEF UpMsg
  <2>11. up' = <<>> \/ up' = <<m>>
    BY <1>3, <2>1, <2>8, SentOne
  <2>12. LockStep'
    BY <2>1, <2>10, <2>11, LockStepKept
  <2> QED
    BY <2>4, <2>6, <2>7, <2>12 DEF IInv
<1> QED
  BY <1>2, <1>3 DEF procHeloMsg

\* The client's answer to EXCH_KEY: LOGIN_END.  The router has compared
\* passwd1, so the equal differences make the second passwords equal too.
LEMMA ExchKeyStep ==
    ASSUME IInv, procExchKeyMsg
    PROVE  IInv'
<1>1. /\ cliFd # "none" /\ down # <<>> /\ Head(down).cmd = "EXCH_KEY"
      /\ down' = Tail(down) /\ UNCHANGED <<conf, svr, svrFd, seq, now>>
  BY DEF procExchKeyMsg, CliHandles
<1>2. CASE CliErrRsp
  BY <1>1, <1>2, CliFails
<1>3. CASE /\ chkExchKey(cli, Head(down))
           /\ cli' = parseExchKeyMsg(cli, Head(down))
           /\ up' = Sent(up, cliFd, genLoginEndMsg(cli'))
           /\ UNCHANGED cliFd
  <2> DEFINE h == Head(down)
  <2>1. up = <<>> /\ down' = <<>> /\ DownMsg(h)
    BY <1>1, DownAlone DEF IInv
  <2>2. /\ h \in [cmd : {"EXCH_KEY"}, taskid : 1..(TaskMod - 1), uid1 : {Uid1},
                  uid2 : {Uid2}, random2 : Randoms, token : Int]
        /\ conf.passwd1 = SvrConf.passwd1 /\ cli.stat = "CLI_REQ"
        /\ h.token = creatTokenExch(SvrConf.passwd1, SvrConf.passwd2,
                                    cli.random1, h.random2)
        /\ svrFd # "none" => /\ svr.stat = "SVR_EXCH_KEY"
                             /\ svr.taskid = h.taskid /\ svr.random2 = h.random2
    BY <1>1, <2>1 DEF DownMsg
  <2>3. cli.passwd1 = conf.passwd1 /\ cli.passwd2 = conf.passwd2 /\ cli.uid1 = Uid1
    BY DEF IInv, CliSound
  <2>4. conf = SvrConf
    <3>1. conf \in [passwd1 : Int, passwd2 : Int] /\ SvrConf \in [passwd1 : Int, passwd2 : Int]
      BY HandshakeAssumption DEF IInv, RestType
    <3>2. cli.random1 \in Int /\ h.random2 \in Int
      BY <2>2, NumberTypes DEF IInv
    <3>3. h.token = creatTokenExch(conf.passwd1, conf.passwd2, cli.random1, h.random2)
      BY <1>3, <2>3 DEF chkExchKey
    <3>4. conf.passwd2 = SvrConf.passwd2
      BY <2>2, <3>1, <3>2, <3>3 DEF creatTokenExch
    <3> QED
      BY <2>2, <3>1, <3>4
  <2>5. /\ cli' \in LoginData(CliStats) /\ cli'.stat = "AUTH_OK"
        /\ cli'.passwd1 = cli.passwd1 /\ cli'.passwd2 = cli.passwd2
        /\ cli'.uid1 = cli.uid1 /\ cli'.uid2 = Uid2
        /\ cli'.random1 = cli.random1 /\ cli'.random2 = h.random2
        /\ cli'.taskid = h.taskid
        /\ cli'.secret = creatSecret(conf.passwd1, conf.passwd2,
                                     cli.random1, h.random2, Uid1)
    <3> DEFINE k == creatSecret(conf.passwd1, conf.passwd2, cli.random1, h.random2, Uid1)
    <3>1. k \in Int \X Int \X Int \X Int \X {Uid1}
      BY <2>2, <2>3, NumberTypes DEF IInv, creatSecret
    <3>2. h.taskid \in 0..(TaskMod - 1)
      BY <2>2, LoginAssumption
    <3>3. cli' = [cli EXCEPT !.taskid = h.taskid, !.uid2 = h.uid2,
                  !.random2 = h.random2, !.stat = "AUTH_OK", !.secret = k]
      BY <1>3, <2>3 DEF parseExchKeyMsg
    <3> HIDE DEF k
    <3>4. /\ cli' \in LoginData(CliStats) /\ cli'.stat = "AUTH_OK"
          /\ cli'.passwd1 = cli.passwd1 /\ cli'.passwd2 = cli.passwd2
          /\ cli'.uid1 = cli.uid1 /\ cli'.uid2 = Uid2
          /\ cli'.random1 = cli.random1 /\ cli'.random2 = h.random2
          /\ cli'.taskid = h.taskid /\ cli'.secret = k
      BY <2>2, <3>1, <3>2, <3>3 DEF IInv, CliType, LoginData, CliStats
    <3> QED
      BY <3>4 DEF k
  <2>6. h.taskid # 0
    BY <2>2, LoginAssumption
  <2>7. CliType' /\ SvrType' /\ RestType'
    BY <1>1, <1>3, <2>5 DEF IInv, CliType, SvrType, RestType
  <2>8. CliSound' /\ SvrSound'
    BY <1>1, <1>3, <2>3, <2>4, <2>5, <2>6 DEF IInv, CliSound, SvrSound
  <2>9. Paired'
    BY <1>1, <1>3, <2>2, <2>5, <2>6 DEF IInv, Paired
  <2>10. PICK m : m = genLoginEndMsg(cli')
    OBVIOUS
  <2>11. m.cmd = "LOGIN_END"
    BY <2>10 DEF genLoginEndMsg
  <2>12. UpMsg(m)'
    BY <1>1, <1>3, <2>2, <2>4, <2>5, <2>11 DEF UpMsg
  <2>13. up' = <<>> \/ up' = <<m>>
    BY <1>3, <2>1, <2>10, SentOne
  <2>14. LockStep'
    BY <2>1, <2>12, <2>13, LockStepKept
  <2> QED
    BY <2>7, <2>8, <2>9, <2>14 DEF IInv
<1> QED
  BY <1>2, <1>3 DEF procExchKeyMsg
\* The client takes the router's refusal.
LEMMA CliErrorAckStep ==
    ASSUME IInv, CliErrorAck
    PROVE  IInv'
<1>1. /\ cliFd # "none" /\ down # <<>> /\ down' = Tail(down)
      /\ UNCHANGED <<conf, svr, svrFd, up, seq, now>>
      /\ cliFd' \in Fds /\ cliFd' # "none"
  BY ClosedType DEF CliErrorAck, CliHandles, IInv, CliType
<1>2. up' = <<>> /\ down' = <<>>
  BY <1>1, DownAlone DEF IInv
<1>3. cli' = cli \/ cli' = [cli EXCEPT !.stat = "ERROR"]
  BY DEF CliErrorAck, parseErrorAck
<1>4. /\ cli' \in LoginData(CliStats) /\ cli'.passwd1 = cli.passwd1
      /\ cli'.passwd2 = cli.passwd2 /\ cli'.uid1 = cli.uid1 /\ cli'.uid2 = cli.uid2
      /\ cli'.random1 = cli.random1 /\ cli'.random2 = cli.random2
      /\ cli'.taskid = cli.taskid /\ cli'.secret = cli.secret
      /\ cli'.stat = cli.stat \/ cli'.stat = "ERROR"
  BY <1>3 DEF IInv, CliType, LoginData, CliStats
<1>5. CliType' /\ SvrType' /\ RestType'
  BY <1>1, <1>4 DEF IInv, CliType, SvrType, RestType
<1>6. CliSound' /\ SvrSound' /\ Paired'
  BY <1>1, <1>4 DEF IInv, CliSound, SvrSound, Paired
<1>7. LockStep'
  BY <1>2, LockStepKept
<1> QED
  BY <1>5, <1>6, <1>7 DEF IInv

\* What is under way when an end forgets its login data says nothing of it.
LEMMA OnCloseStep ==
    ASSUME IInv, CliOnClose \/ SvrOnClose
    PROVE  IInv'
<1>1. CASE CliOnClose
  <2>1. /\ cliFd' = "none" /\ cli' = emptyLogin(conf, Uid1, 0)
        /\ UNCHANGED <<conf, svr, svrFd, up, down, seq, now>>
    BY <1>1 DEF CliOnClose
  <2>2. CliType' /\ SvrType' /\ RestType'
    BY <2>1, EmptyType DEF IInv, CliType, SvrType, RestType, Fds
  <2>3. CliSound' /\ SvrSound' /\ Paired'
    BY <2>1 DEF IInv, CliSound, SvrSound, Paired, emptyLogin
  <2>4. LockStep'
    BY <2>1 DEF IInv, LockStep, UpMsg, DownMsg
  <2> QED
    BY <2>2, <2>3, <2>4 DEF IInv
<1>2. CASE SvrOnClose
  <2>1. /\ svrFd' = "none" /\ svr' = emptyLogin(SvrConf, 0, Uid2)
        /\ UNCHANGED <<conf, cli, cliFd, up, down, seq, now>>
    BY <1>2 DEF SvrOnClose
  <2>2. CliType' /\ SvrType' /\ RestType'
    BY <2>1, EmptyType DEF IInv, CliType, SvrType, RestType, Fds
  <2>3. CliSound' /\ SvrSound' /\ Paired'
    BY <2>1 DEF IInv, CliSound, SvrSound, Paired, emptyLogin
  <2>4. LockStep'
    BY <2>1 DEF IInv, LockStep, UpMsg, DownMsg
  <2> QED
    BY <2>2, <2>3, <2>4 DEF IInv
<1> QED
  BY <1>1, <1>2

\* A handler of the router that fails.
LEMMA SvrFails ==
    ASSUME IInv, svrFd # "none", up # <<>>, up' = Tail(up), SvrErrRsp,
           UNCHANGED <<conf, cli, cliFd, seq, now>>
    PROVE  IInv'
<1>1. down = <<>> /\ up' = <<>>
  BY UpAlone DEF IInv
<1>2. svrFd' \in Fds /\ svrFd' # "none" /\ svr' = svr
  BY ClosedType DEF SvrErrRsp, IInv, SvrType
<1>3. CliType' /\ SvrType' /\ RestType' /\ CliSound' /\ SvrSound' /\ Paired'
  BY <1>2 DEF IInv, CliType, SvrType, RestType, CliSound, SvrSound, Paired
<1>4. PICK m : m = genErrorMsg(svr)
  OBVIOUS
<1>5. DownMsg(m)'
  BY <1>4 DEF DownMsg, genErrorMsg
<1>6. down' = <<>> \/ down' = <<m>>
  BY <1>1, <1>4, SentOne DEF SvrErrRsp
<1>7. LockStep'
  BY <1>1, <1>5, <1>6, LockStepKept
<1> QED
  BY <1>3, <1>7 DEF IInv

\* The router takes a LOGIN_REQ: its token shows the client's passwd1, and
\* the session gets a task identifier, both randoms and the secret.
LEMMA LoginReqStep ==
    ASSUME IInv, procLoginReq
    PROVE  IInv'
<1>1. /\ svrFd # "none" /\ up # <<>> /\ Head(up).cmd = "LOGIN_REQ"
      /\ up' = Tail(up) /\ UNCHANGED <<conf, cli, cliFd, now>>
  BY DEF procLoginReq, SvrHandles
<1>2. CASE SvrErrRsp /\ UNCHANGED seq
  BY <1>1, <1>2, SvrFails
<1>3. ASSUME chkLoginReq(svr, Head(up), now), seq' = next(seq),
             NEW rand \in Randoms,
             svr' = parseLoginReqMsg(svr, Head(up), seq', rand),
             down' = Sent(down, svrFd, genExchKeyMsg(svr')), UNCHANGED svrFd
      PROVE  IInv'
  <2> DEFINE h == Head(up)
  <2>1. down = <<>> /\ up' = <<>> /\ UpMsg(h)
    BY <1>1, UpAlone DEF IInv
  <2>2. /\ h.uid1 = Uid1 /\ h.random1 \in Randoms
        /\ h.token = creatTokenReq(conf.passwd1, Uid1, h.random1)
        /\ cliFd # "none" => cli.stat = "CLI_REQ" /\ cli.random1 = h.random1
        /\ svr.stat = "SVR_HELO"
    BY <1>1, <2>1 DEF UpMsg
  <2>3. seq' \in 1..(TaskMod - 1) /\ seq' \in 0..(TaskMod - 1) /\ seq' # 0
    BY <1>3, NextType, LoginAssumption DEF IInv, RestType
  <2>4. svr.passwd1 = SvrConf.passwd1 /\ svr.passwd2 = SvrConf.passwd2 /\ svr.uid2 = Uid2
    BY DEF IInv, SvrSound
  <2>5. conf.passwd1 = SvrConf.passwd1
    BY <1>3, <2>2, <2>4 DEF chkLoginReq, creatTokenReq
  <2>6. /\ svr' \in LoginData(SvrStats) /\ svr'.stat = "SVR_EXCH_KEY"
        /\ svr'.passwd1 = svr.passwd1 /\ svr'.passwd2 = svr.passwd2
        /\ svr'.uid1 = Uid1 /\ svr'.uid2 = Uid2 /\ svr'.taskid = seq'
        /\ svr'.random1 = h.random1 /\ svr'.random2 = rand
        /\ svr'.secret = creatSecret(SvrConf.passwd1, SvrConf.passwd2,
                                     h.random1, rand, Uid1)
    <3> DEFINE k == creatSecret(SvrConf.passwd1, SvrConf.passwd2, h.random1, rand, Uid1)
    <3>1. k \in Int \X Int \X Int \X Int \X {Uid1}
      BY <2>2, <2>4, NumberTypes DEF IInv, creatSecret
    <3>2. svr' = [svr EXCEPT !.uid1 = Uid1, !.random1 = h.random1, !.taskid = seq',
                  !.random2 = rand, !.secret = k, !.stat = "SVR_EXCH_KEY"]
      BY <1>3, <2>2, <2>4 DEF parseLoginReqMsg
    <3> HIDE DEF k
    <3>3. /\ svr' \in LoginData(SvrStats) /\ svr'.stat = "SVR_EXCH_KEY"
          /\ svr'.passwd1 = svr.passwd1 /\ svr'.passwd2 = svr.passwd2
          /\ svr'.uid1 = Uid1 /\ svr'.uid2 = svr.uid2 /\ svr'.taskid = seq'
          /\ svr'.random1 = h.random1 /\ svr'.random2 = rand /\ svr'.secret = k
      BY <2>2, <2>3, <3>1, <3>2 DEF IInv, SvrType, LoginData, SvrStats
    <3> QED
      BY <2>4, <3>3 DEF k
  <2>7. CliType' /\ SvrType' /\ RestType'
    BY <1>1, <1>3, <2>3, <2>6 DEF IInv, CliType, SvrType, RestType
  <2>8. CliSound' /\ SvrSound'
    BY <1>1, <1>3, <2>3, <2>4, <2>5, <2>6 DEF IInv, CliSound, SvrSound
  <2>9. Paired'
    BY <1>1, <1>3, <2>2, <2>3, <2>6 DEF IInv, Paired, CliSound
  <2>10. PICK m : m = genExchKeyMsg(svr')
    OBVIOUS
  <2>11. /\ m \in [cmd : {"EXCH_KEY"}, taskid : 1..(TaskMod - 1), uid1 : {Uid1},
                   uid2 : {Uid2}, random2 : Randoms, token : Int]
         /\ m.taskid = seq' /\ m.random2 = rand
         /\ m.token = creatTokenExch(SvrConf.passwd1, SvrConf.passwd2, h.random1, rand)
    <3>1. creatTokenExch(SvrConf.passwd1, SvrConf.passwd2, h.random1, rand) \in Int
      BY <2>2, <2>4, NumberTypes DEF IInv, creatTokenExch
    <3> QED
      BY <2>3, <2>4, <2>6, <2>10, <3>1 DEF genExchKeyMsg
  <2>12. DownMsg(m)'
    BY <1>1, <1>3, <2>2, <2>5, <2>6, <2>11 DEF DownMsg
  <2>13. down' = <<>> \/ down' = <<m>>
    BY <1>3, <2>1, <2>10, SentOne
  <2>14. LockStep'
    BY <2>1, <2>12, <2>13, LockStepKept
  <2> QED
    BY <2>7, <2>8, <2>9, <2>14 DEF IInv
<1> QED
  BY <1>2, <1>3 DEF procLoginReq

\* The router takes a LOGIN_END: the client logged in before it sent it.
LEMMA LoginEndStep ==
    ASSUME IInv, procLoginEnd
    PROVE  IInv'
<1>1. /\ svrFd # "none" /\ up # <<>> /\ Head(up).cmd = "LOGIN_END"
      /\ up' = Tail(up) /\ UNCHANGED <<conf, cli, cliFd, seq, now>>
  BY DEF procLoginEnd, SvrHandles
<1>2. CASE SvrErrRsp
  BY <1>1, <1>2, SvrFails
<1>3. CASE /\ svr' = parseLoginEnd(svr)
           /\ svrFd' = svrFd \/ svrFd' = Closed(svrFd)
           /\ UNCHANGED down
  <2>1. down = <<>> /\ up' = <<>> /\ UpMsg(Head(up))
    BY <1>1, UpAlone DEF IInv
  <2>2. /\ conf = SvrConf /\ svr.stat = "SVR_EXCH_KEY"
        /\ cliFd # "none" => cli.stat = "AUTH_OK"
    BY <1>1, <2>1 DEF UpMsg
  <2>3. svrFd' \in Fds /\ svrFd' # "none"
    BY <1>1, <1>3, ClosedType DEF IInv, SvrType
  <2>4. /\ svr' \in LoginData(SvrStats) /\ svr'.stat = "AUTH_OK"
        /\ svr'.passwd1 = svr.passwd1 /\ svr'.passwd2 = svr.passwd2
        /\ svr'.uid1 = svr.uid1 /\ svr'.uid2 = svr.uid2
        /\ svr'.random1 = svr.random1 /\ svr'.random2 = svr.random2
        /\ svr'.taskid = svr.taskid /\ svr'.secret = svr.secret
    BY <1>3 DEF IInv, SvrType, parseLoginEnd, LoginData, SvrStats
  <2>5. CliType' /\ SvrType' /\ RestType'
    BY <1>1, <2>3, <2>4 DEF IInv, CliType, SvrType, RestType
  <2>6. CliSound' /\ SvrSound' /\ Paired'
    BY <1>1, <2>2, <2>3, <2>4 DEF IInv, CliSound, SvrSound, Paired
  <2>7. LockStep'
    BY <1>3, <2>1, LockStepKept
  <2> QED
    BY <2>5, <2>6, <2>7 DEF IInv
<1> QED
  BY <1>2, <1>3 DEF procLoginEnd

\* The router takes the client's refusal.
LEMMA SvrErrorAckStep ==
    ASSUME IInv, SvrErrorAck
    PROVE  IInv'
<1>1. /\ svrFd # "none" /\ up # <<>> /\ up' = Tail(up)
      /\ UNCHANGED <<conf, cli, cliFd, down, seq, now>>
      /\ svrFd' \in Fds /\ svrFd' # "none"
  BY ClosedType DEF SvrErrorAck, SvrHandles, IInv, SvrType
<1>2. up' = <<>> /\ down' = <<>>
  BY <1>1, UpAlone DEF IInv
<1>3. svr' = svr \/ svr' = [svr EXCEPT !.stat = "ERROR"]
  BY DEF SvrErrorAck, parseErrorAck
<1>4. /\ svr' \in LoginData(SvrStats) /\ svr'.passwd1 = svr.passwd1
      /\ svr'.passwd2 = svr.passwd2 /\ svr'.uid1 = svr.uid1 /\ svr'.uid2 = svr.uid2
      /\ svr'.random1 = svr.random1 /\ svr'.random2 = svr.random2
      /\ svr'.taskid = svr.taskid /\ svr'.secret = svr.secret
      /\ svr'.timestamp = svr.timestamp
      /\ svr'.stat = svr.stat \/ svr'.stat = "ERROR"
  BY <1>3 DEF IInv, SvrType, LoginData, SvrStats
<1>5. CliType' /\ SvrType' /\ RestType'
  BY <1>1, <1>4 DEF IInv, CliType, SvrType, RestType
<1>6. CliSound' /\ SvrSound' /\ Paired'
  BY <1>1, <1>4 DEF IInv, CliSound, SvrSound, Paired
<1>7. LockStep'
  BY <1>2, LockStepKept
<1> QED
  BY <1>5, <1>6, <1>7 DEF IInv
\* Every step keeps the invariant: one case per action.
LEMMA IInvStep == IInv /\ [Next]_vars => IInv'
<1> SUFFICES ASSUME IInv, [Next]_vars PROVE IInv'
  OBVIOUS
<1>1. CASE UNCHANGED vars
  <2>1. CliType' /\ SvrType' /\ RestType'
    BY <1>1 DEF vars, IInv, CliType, SvrType, RestType
  <2>2. CliSound' /\ SvrSound' /\ Paired'
    BY <1>1 DEF vars, IInv, CliSound, SvrSound, Paired
  <2>3. LockStep'
    BY <1>1 DEF vars, IInv, LockStep, UpMsg, DownMsg
  <2> QED
    BY <2>1, <2>2, <2>3 DEF IInv
<1> QED
  BY <1>1, ConnectStep, LostStep, HeloStep, ExchKeyStep, CliErrorAckStep,
     OnCloseStep, LoginReqStep, LoginEndStep, SvrErrorAckStep
  DEF Next, Cli, Svr

\* The invariant holds in every reachable state.
LEMMA Inductive == Spec => []IInv
  BY IInvInit, IInvStep, PTL DEF Spec
----------------------------------------------------------------------------
(* What follows from it.                                                   *)

\* The login data and the wires have their types (TypeOK).
THEOREM TypeCorrect == Spec => []TypeOK
<1>1. IInv => TypeOK
  <2> SUFFICES ASSUME IInv PROVE TypeOK
    OBVIOUS
  <2>1. cli.stat \in CliStats /\ svr.stat \in SvrStats /\ cliFd \in Fds /\ svrFd \in Fds
    BY DEF IInv, CliType, SvrType, LoginData
  <2>2. ASSUME NEW m, UpMsg(m) PROVE m.cmd \in {"LOGIN_REQ", "LOGIN_END", "ERROR_ACK"}
    BY <2>2 DEF UpMsg
  <2>3. ASSUME NEW m, DownMsg(m) PROVE m.cmd \in {"HELO", "EXCH_KEY", "ERROR_ACK"}
    BY <2>3 DEF DownMsg
  <2>4. \A i \in 1..Len(up) : up[i].cmd \in {"LOGIN_REQ", "LOGIN_END", "ERROR_ACK"}
    BY <2>2 DEF IInv, LockStep
  <2>5. \A i \in 1..Len(down) : down[i].cmd \in {"HELO", "EXCH_KEY", "ERROR_ACK"}
    BY <2>3 DEF IInv, LockStep
  <2>6. ASSUME NEW m, DownMsg(m), m.cmd = "EXCH_KEY" PROVE m.taskid \in Tasks
    BY <2>6 DEF DownMsg, Tasks
  <2>7. \A i \in 1..Len(down) : down[i].cmd = "EXCH_KEY" => down[i].taskid \in Tasks
    BY <2>6 DEF IInv, LockStep
  <2>8. /\ {cli.taskid, svr.taskid} \subseteq Tasks \union {0}
        /\ {cli.timestamp, svr.timestamp} \subseteq Times \union {0}
    BY LoginAssumption DEF IInv, CliType, SvrType, LoginData, Tasks
  <2>9. /\ cli.stat = "AUTH_OK" => cli.taskid \in Tasks
        /\ svr.stat \in {"SVR_EXCH_KEY", "AUTH_OK"} => svr.taskid \in Tasks
    BY <2>8 DEF IInv, CliSound, SvrSound
  <2> QED
    BY <2>1, <2>4, <2>5, <2>7, <2>8, <2>9 DEF IInv, RestType, TypeOK, CliStats, SvrStats, Fds
<1> QED
  BY <1>1, Inductive, PTL

\* At most one message of a login is under way, in either direction
\* (OneUnderWay).
THEOREM HandshakeAlternates == Spec => []OneUnderWay
<1>1. IInv => OneUnderWay
  BY DEF IInv, LockStep, OneUnderWay
<1> QED
  BY <1>1, Inductive, PTL

\* An end that takes itself for logged in shares uids, task identifier and
\* secret with the other end, if that still has the connection (Agreement).
THEOREM EndsAgree == Spec => []Agreement
<1>1. IInv => Agreement
  <2> SUFFICES ASSUME IInv PROVE Agreement
    OBVIOUS
  <2>0. /\ CliSound /\ SvrSound /\ Paired
        /\ cli.stat \in CliStats /\ svr.stat \in SvrStats
    BY DEF IInv, CliType, SvrType, LoginData
  <2>1. ASSUME NEW a, NEW b, NEW c, NEW d, NEW e
        PROVE  creatSecret(a, b, c, d, e) # NoSecret
    BY DEF creatSecret, NoSecret
  <2>2. ASSUME cliFd # "none", svrFd # "none", cli.taskid # 0
        PROVE  SameSession(cli, svr)
    BY <2>0, <2>1, <2>2 DEF CliSound, SvrSound, Paired, SameSession
  <2>3. ASSUME svr.stat = "AUTH_OK", cliFd # "none"
        PROVE  cli.stat \in {"AUTH_OK", "ERROR"} /\ SameSession(cli, svr)
    <3>1. svrFd # "none"
      BY <2>0, <2>3 DEF SvrSound
    <3>2. cli.taskid # 0
      BY <2>0, <2>3, <3>1 DEF Paired
    <3> QED
      BY <2>0, <2>2, <2>3, <3>1, <3>2 DEF CliSound, CliStats
  <2>4. ASSUME cli.stat = "AUTH_OK", svrFd # "none"
        PROVE  /\ svr.stat \in {"SVR_EXCH_KEY", "AUTH_OK", "ERROR"}
               /\ SameSession(cli, svr)
    <3>1. cliFd # "none" /\ cli.taskid # 0
      BY <2>0, <2>4 DEF CliSound
    <3>2. svr.taskid # 0
      BY <2>0, <2>4, <3>1 DEF Paired
    <3> QED
      BY <2>0, <2>2, <2>4, <3>1, <3>2 DEF SvrSound, SvrStats
  <2> QED
    BY <2>3, <2>4 DEF Agreement
<1> QED
  BY <1>1, Inductive, PTL

\* Neither end takes a client with other passwords for logged in
\* (NoWrongPassword), whatever the passwords are.
THEOREM NoWrongPasswordTaken == Spec => []NoWrongPassword
<1>1. IInv => NoWrongPassword
  BY DEF IInv, CliSound, SvrSound, NoWrongPassword
<1> QED
  BY <1>1, Inductive, PTL

\* The router takes a LOGIN_REQ only in the first seconds after its HELO
\* (AcceptOnlyFresh), even when its clock is set back in between.
THEOREM OnlyFreshTaken == Spec => AcceptOnlyFresh
<1>1. IInv /\ [Next]_vars =>
        [svr.stat = "SVR_HELO" /\ svr'.stat = "SVR_EXCH_KEY" =>
            now - svr.timestamp \in 0..(DEF_REQ_TIMEOUT_SEC - 1)]_vars
  <2> SUFFICES ASSUME IInv, Next, svr.stat = "SVR_HELO", svr'.stat = "SVR_EXCH_KEY"
               PROVE  now - svr.timestamp \in 0..(DEF_REQ_TIMEOUT_SEC - 1)
    OBVIOUS
  <2>1. svr.timestamp \in Times /\ now \in Times
    BY DEF IInv, SvrSound, RestType
  <2>2. CASE chkLoginReq(svr, Head(up), now)
    BY <2>1, <2>2, AgeFresh DEF chkLoginReq
  <2>3. CASE svr'.stat = svr.stat
    BY <2>3
  <2>4. CASE svr'.stat \in {"INVALID", "SVR_HELO", "AUTH_OK", "ERROR"}
    BY <2>4
  <2>5. /\ Connect => svr'.stat = "SVR_HELO"
        /\ procLoginEnd => svr' = svr \/ svr'.stat = "AUTH_OK"
        /\ SvrErrorAck => svr' = svr \/ svr'.stat = "ERROR"
        /\ SvrOnClose => svr'.stat = "INVALID"
    <3>1. svr \in LoginData(SvrStats)
      BY DEF IInv, SvrType
    <3>2. /\ parseLoginEnd(svr).stat = "AUTH_OK" /\ parseErrorAck(svr).stat = "ERROR"
      BY <3>1 DEF parseLoginEnd, parseErrorAck, LoginData
    <3>3. /\ procLoginEnd => svr' = svr \/ svr'.stat = "AUTH_OK"
          /\ SvrErrorAck => svr' = svr \/ svr'.stat = "ERROR"
          /\ SvrOnClose => svr'.stat = "INVALID"
      BY <3>2 DEF procLoginEnd, SvrErrorAck, SvrOnClose, emptyLogin, SvrErrRsp
    <3>4. Connect => svr'.stat = "SVR_HELO"
      BY DEF Connect, emptyLogin
    <3> QED
      BY <3>3, <3>4
  <2>6. procLoginReq => chkLoginReq(svr, Head(up), now) \/ svr' = svr
    BY DEF procLoginReq, SvrErrRsp
  <2>7. CliLost \/ SvrLost \/ Clock \/ Cli => svr' = svr
    BY DEF CliLost, SvrLost, Clock, Cli, procHeloMsg, procExchKeyMsg,
       CliErrorAck, CliOnClose
  <2> QED
    BY <2>2, <2>3, <2>4, <2>5, <2>6, <2>7 DEF Next, Svr
<1> QED
  BY <1>1, Inductive, PTL DEF Spec, AcceptOnlyFresh
=============================================================================
