----------------------------- MODULE Handshake -----------------------------
(***************************************************************************)
(* The login over one connection: the handlers of CliCenter and SvrCenter  *)
(* that call LoginCenter, at the two ends of a TCP connection that may     *)
(* break at any moment and is made anew.  The router's clock may run on    *)
(* or be set, and the client may have been given other passwords than the  *)
(* router.  What the framework does is modelled as in SvrCenter.           *)
(***************************************************************************)
EXTENDS LoginCenter, Sequences

CONSTANTS
    Uid1, Uid2,     \* the client's uid and the router's
    Confs,          \* pairs of passwords a client may be configured with
    SvrConf,        \* the router's passwords
    Randoms,        \* what getRand returns
    Times           \* what getTimeSec returns

ASSUME HandshakeAssumption ==
    /\ Times \subseteq 0..(TimeMod - 1)
    /\ Randoms \subseteq Int /\ Randoms # {}
    /\ Confs \subseteq [passwd1 : Int, passwd2 : Int]
    /\ SvrConf \in [passwd1 : Int, passwd2 : Int]

\* The clock is never set back by so much that an unsigned difference
\* wraps around to a small one: all its values lie within 136 years less
\* the age of a request.
ASSUME ClockAssumption ==
    \A s, t \in Times : s - t <= TimeMod - DEF_REQ_TIMEOUT_SEC

VARIABLES
    conf,           \* the client's RouterCliConf
    cli, svr,       \* LoginData of the two ends
    cliFd, svrFd,   \* descriptors of the two ends: none, open, closing
    up, down,       \* the connection, towards the router and the client
    seq,            \* LoginCenter::m_seq of the router
    now             \* the router's clock

vars == <<conf, cli, svr, cliFd, svrFd, up, down, seq, now>>
----------------------------------------------------------------------------
Init ==
    /\ conf \in Confs
    /\ cli = emptyLogin(conf, Uid1, 0)
    /\ svr = emptyLogin(SvrConf, 0, Uid2)
    /\ cliFd = "none" /\ svrFd = "none"
    /\ up = <<>> /\ down = <<>>
    /\ seq = 0
    /\ now \in Times

\* A handler that ends in an error closes its own end.
Closed(f) == IF f = "open" THEN "closing" ELSE f

\* _sendMsg of either end: nothing is sent once the end is being closed.
Sent(wire, f, m) == IF f = "open" THEN Append(wire, m) ELSE wire
----------------------------------------------------------------------------
(* The network and the clock.                                              *)

\* Mutant: the client asks for its login without waiting for the greeting.
ConnectEager ==
    /\ cliFd = "none" /\ svrFd = "none"
    /\ cliFd' = "open" /\ svrFd' = "open"
    /\ cli' = [cli EXCEPT !.stat = "CLI_REQ"]
    /\ svr' = [emptyLogin(SvrConf, 0, Uid2) EXCEPT !.timestamp = now,
                                                   !.stat = "SVR_HELO"]
    /\ up' = <<genLoginReqMsg(cli')>>
    /\ down' = <<genHeloMsg(svr')>>
    /\ UNCHANGED <<conf, seq, now>>

\* onConnOK at the client, onNewSock at the router, which greets.
Connect ==
    /\ cliFd = "none" /\ svrFd = "none"
    /\ cliFd' = "open" /\ svrFd' = "open"
    /\ cli' = [cli EXCEPT !.stat = "INIT"]
    /\ svr' = [emptyLogin(SvrConf, 0, Uid2) EXCEPT !.timestamp = now,
                                                   !.stat = "SVR_HELO"]
    /\ up' = <<>>
    /\ down' = <<genHeloMsg(svr')>>
    /\ UNCHANGED <<conf, seq, now>>

\* The connection breaks, or an end learns that the other is gone.
CliLost == cliFd = "open" /\ cliFd' = "closing"
           /\ UNCHANGED <<conf, cli, svr, svrFd, up, down, seq, now>>

SvrLost == svrFd = "open" /\ svrFd' = "closing"
           /\ UNCHANGED <<conf, cli, svr, cliFd, up, down, seq, now>>

Clock == now' \in Times /\ UNCHANGED <<conf, cli, svr, cliFd, svrFd, up, down, seq>>
----------------------------------------------------------------------------
(* The client.                                                             *)

CliHandles(cmd) == cliFd # "none" /\ down # <<>> /\ Head(down).cmd = cmd

\* errRsp, and the error that makes the framework close the connection.
CliErrRsp ==
    /\ up' = Sent(up, cliFd, genErrorMsg(cli))
    /\ cliFd' = Closed(cliFd)
    /\ UNCHANGED cli

procHeloMsg ==
    /\ CliHandles("HELO")
    /\ down' = Tail(down)
    /\ \/ /\ chkHelo(cli)
          /\ \E rand \in Randoms : cli' = parseHeloMsg(cli, Head(down), rand)
          /\ up' = Sent(up, cliFd, genLoginReqMsg(cli'))
          /\ UNCHANGED cliFd
       \/ /\ ~chkHelo(cli)
          /\ CliErrRsp
    /\ UNCHANGED <<conf, svr, svrFd, seq, now>>

procExchKeyMsg ==
    /\ CliHandles("EXCH_KEY")
    /\ down' = Tail(down)
    /\ \/ /\ chkExchKey(cli, Head(down))
          /\ cli' = parseExchKeyMsg(cli, Head(down))
          /\ up' = Sent(up, cliFd, genLoginEndMsg(cli'))
          /\ UNCHANGED cliFd
       \/ /\ ~chkExchKey(cli, Head(down))
          /\ CliErrRsp
    /\ UNCHANGED <<conf, svr, svrFd, seq, now>>

CliErrorAck ==
    /\ CliHandles("ERROR_ACK")
    /\ down' = Tail(down)
    /\ cli' = IF chkErrorAck(cli, Head(down)) THEN parseErrorAck(cli) ELSE cli
    /\ cliFd' = Closed(cliFd)
    /\ UNCHANGED <<conf, svr, svrFd, up, seq, now>>

\* CliCenter::onClose: cleanCli zeroes the login data.
CliOnClose ==
    /\ cliFd = "closing"
    /\ cliFd' = "none"
    /\ cli' = emptyLogin(conf, Uid1, 0)
    /\ UNCHANGED <<conf, svr, svrFd, up, down, seq, now>>
----------------------------------------------------------------------------
(* The router.                                                             *)

SvrHandles(cmd) == svrFd # "none" /\ up # <<>> /\ Head(up).cmd = cmd

\* Mutant: a failed parse is not reported and not an error.
SvrErrRspIgnored == UNCHANGED <<down, svrFd, svr>>

SvrErrRsp ==
    /\ down' = Sent(down, svrFd, genErrorMsg(svr))
    /\ svrFd' = Closed(svrFd)
    /\ UNCHANGED svr

procLoginReq ==
    /\ SvrHandles("LOGIN_REQ")
    /\ up' = Tail(up)
    /\ \/ /\ chkLoginReq(svr, Head(up), now)
          /\ seq' = next(seq)
          /\ \E rand \in Randoms :
                svr' = parseLoginReqMsg(svr, Head(up), seq', rand)
          /\ down' = Sent(down, svrFd, genExchKeyMsg(svr'))
          /\ UNCHANGED svrFd
       \/ /\ ~chkLoginReq(svr, Head(up), now)
          /\ SvrErrRsp
          /\ UNCHANGED seq
    /\ UNCHANGED <<conf, cli, cliFd, now>>

\* Another connection may hold the uid: then the login data say AUTH_OK
\* but the handler fails.
procLoginEnd ==
    /\ SvrHandles("LOGIN_END")
    /\ up' = Tail(up)
    /\ \/ /\ chkLoginEnd(svr, Head(up))
          /\ svr' = parseLoginEnd(svr)
          /\ \E taken \in BOOLEAN :
                svrFd' = IF taken THEN Closed(svrFd) ELSE svrFd
          /\ UNCHANGED down
       \/ /\ ~chkLoginEnd(svr, Head(up))
          /\ SvrErrRsp
    /\ UNCHANGED <<conf, cli, cliFd, seq, now>>

SvrErrorAck ==
    /\ SvrHandles("ERROR_ACK")
    /\ up' = Tail(up)
    /\ svr' = IF chkErrorAck(svr, Head(up)) THEN parseErrorAck(svr) ELSE svr
    /\ svrFd' = Closed(svrFd)
    /\ UNCHANGED <<conf, cli, cliFd, down, seq, now>>

\* SvrCenter::onClose frees the data.
SvrOnClose ==
    /\ svrFd = "closing"
    /\ svrFd' = "none"
    /\ svr' = emptyLogin(SvrConf, 0, Uid2)
    /\ UNCHANGED <<conf, cli, cliFd, up, down, seq, now>>
----------------------------------------------------------------------------
Cli == procHeloMsg \/ procExchKeyMsg \/ CliErrorAck \/ CliOnClose

Svr == procLoginReq \/ procLoginEnd \/ SvrErrorAck \/ SvrOnClose

Next == Connect \/ CliLost \/ SvrLost \/ Clock \/ Cli \/ Svr

\* Both processes serve their queues, and an end whose peer is gone and
\* that has read everything learns of it.
Fairness ==
    /\ WF_vars(Cli) /\ WF_vars(Svr)
    /\ WF_vars(svrFd = "none" /\ down = <<>> /\ CliLost)
    /\ WF_vars(cliFd = "none" /\ up = <<>> /\ SvrLost)

Spec == Init /\ [][Next]_vars

FairSpec == Spec /\ Fairness
----------------------------------------------------------------------------
(* Properties.                                                             *)

Tasks == 1..(TaskMod - 1)

\* The wires carry only what the other end parses, and the login data have
\* their types: in particular 0, the identifier of the zeroed LoginData, is
\* no task, at either end or in the message that takes it there.
TypeOK ==
    /\ conf \in Confs
    /\ cli.stat \in {"INVALID", "INIT", "CLI_REQ", "AUTH_OK", "ERROR"}
    /\ svr.stat \in {"INVALID", "SVR_HELO", "SVR_EXCH_KEY", "AUTH_OK", "ERROR"}
    /\ {cli.taskid, svr.taskid} \subseteq Tasks \union {0}
    /\ cli.stat = "AUTH_OK" => cli.taskid \in Tasks
    /\ svr.stat \in {"SVR_EXCH_KEY", "AUTH_OK"} => svr.taskid \in Tasks
    /\ {cli.timestamp, svr.timestamp} \subseteq Times \union {0}
    /\ cliFd \in {"none", "open", "closing"}
    /\ svrFd \in {"none", "open", "closing"}
    /\ \A i \in 1..Len(up) : up[i].cmd \in {"LOGIN_REQ", "LOGIN_END", "ERROR_ACK"}
    /\ \A i \in 1..Len(down) : down[i].cmd \in {"HELO", "EXCH_KEY", "ERROR_ACK"}
    /\ \A i \in 1..Len(down) : down[i].cmd = "EXCH_KEY" => down[i].taskid \in Tasks
    /\ seq \in 0..(TaskMod - 1)
    /\ now \in Times

\* The login is strictly alternating: each end waits for the other's answer,
\* so no handler ever meets a message sent before the other end's last step.
OneUnderWay == Len(up) + Len(down) <= 1

SameSession(a, b) ==
    /\ a.uid1 = b.uid1 /\ a.uid2 = b.uid2
    /\ a.taskid = b.taskid /\ a.taskid # 0
    /\ a.secret = b.secret /\ a.secret # NoSecret

\* Whichever end takes itself for logged in, the other end, if it still has
\* the connection, has got at least as far as it must have and holds the
\* same uids, task identifier and secret: each can read what the other
\* enciphers.
Agreement ==
    /\ svr.stat = "AUTH_OK" /\ cliFd # "none" =>
            cli.stat \in {"AUTH_OK", "ERROR"} /\ SameSession(cli, svr)
    /\ cli.stat = "AUTH_OK" /\ svrFd # "none" =>
            svr.stat \in {"SVR_EXCH_KEY", "AUTH_OK", "ERROR"} /\ SameSession(cli, svr)

\* Neither end ever takes a client with other passwords for logged in,
\* although one token shows passwd1 and the other only a difference.
NoWrongPassword ==
    cli.stat = "AUTH_OK" \/ svr.stat = "AUTH_OK" => conf = SvrConf

\* The router takes a LOGIN_REQ only in the first seconds after its HELO,
\* whatever is done to its clock in between.
AcceptOnlyFresh ==
    [][svr.stat = "SVR_HELO" /\ svr'.stat = "SVR_EXCH_KEY" =>
            now - svr.timestamp \in 0..(DEF_REQ_TIMEOUT_SEC - 1)]_vars

\* No client stays half logged in: both ends finish the login, or the client
\* learns that its connection is gone.
NoLimbo ==
    cliFd = "open" ~> \/ cliFd = "none"
                      \/ cli.stat = "AUTH_OK" /\ svr.stat = "AUTH_OK"
=============================================================================
