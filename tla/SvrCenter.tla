----------------------------- MODULE SvrCenter -----------------------------
(***************************************************************************)
(* The router: SvrCenter (usercenter.cpp) with the server side of the      *)
(* login as far as the registry of users depends on it.                    *)
(*                                                                         *)
(* A connection is named by its descriptor.  A descriptor that has been    *)
(* freed may be given to a later connection, so a registration that        *)
(* outlives its RouterSvrData (a dangling pointer in m_users) shows as     *)
(* a user whose connection is free or is another's.                        *)
(*                                                                         *)
(* The event framework is external.  What this model assumes of it, from   *)
(* the way the code uses it: the handlers of one center run one at a       *)
(* time; dispatch() and sendMsg() append to a FIFO of the descriptor and   *)
(* fail once it is being closed; a handler that returns an error, and      *)
(* closeData(), only start the closing; onClose() runs once, later.        *)
(* Messages that were queued before the closing may still be handled.      *)
(***************************************************************************)
EXTENDS Messages, Naturals, Sequences, FiniteSetsExt

CONSTANTS
    Conns,      \* descriptors of accepted connections
    Inputs,     \* messages the peers send
    NoConn,     \* no connection: the user is not in m_users
    MaxBacklog  \* bound: peers connect and send only while fewer messages
                \* than this are queued or under way

VARIABLES
    fd,         \* state of each descriptor in the framework
    stat,       \* m_login.m_stat
    uid1,       \* m_login.m_uid1
    users,      \* m_users
    inq,        \* messages dispatched to the descriptor, not yet handled
    out         \* messages sent on the connection, not yet received

vars == <<fd, stat, uid1, users, inq, out>>
----------------------------------------------------------------------------
(* Messages.                                                               *)

\* What the login checks of the message's timestamp, token and task
\* identifier come to is the field ok.
LoginCmds == {"LOGIN_REQ", "LOGIN_END", "LOGOUT", "ERROR_ACK"}
LoginMsg == [cmd : LoginCmds, uid : AllUids, ok : BOOLEAN]

\* Messages of the router's own side of the login.
SvrLoginMsg == [cmd : {"HELO", "EXCH_KEY", "ERROR_ACK"}]

Envelope == [dir : {"north"}, msg : RoutedMsg \union LoginMsg]
              \union [dir : {"south"}, msg : RoutedMsg \union ExitMsg]

NorthCmds == {"FRAME_CIPHER"} \union NoerrCmds \union TunnelCmds \union LoginCmds

ASSUME SvrAssumption ==
    /\ NoConn \notin Conns
    /\ Inputs \subseteq RoutedMsg \union LoginMsg
----------------------------------------------------------------------------
(* The framework and the registry.                                         *)

Open(c) == fd[c] = "open"

closeData(f, c) == [f EXCEPT ![c] = IF @ = "open" THEN "closing" ELSE @]

\* The handler of the message at the head of c's queue, for these commands.
Handles(c, dir, cmds) ==
    /\ fd[c] # "free"
    /\ inq[c] # <<>>
    /\ Head(inq[c]).dir = dir
    /\ Head(inq[c]).msg.cmd \in cmds

Msg(c) == Head(inq[c]).msg

Handled(c) == [inq EXCEPT ![c] = Tail(@)]

hasAuthed(c) == stat[c] = "AUTH_OK"

\* Mutant: a user whose connection is being closed no longer counts.
existUsrOpen(u) == users[u] # NoConn /\ Open(users[u])

existUsr(u) == users[u] # NoConn

\* Whether _sendMsg and _forward return 0.
Sendable(c) == Open(c)

Forwardable(u) == u # NoUid /\ existUsr(u) /\ Open(users[u])

\* The wires after _sendMsg(c, m), the queues after _forward(u, m).
_sendMsg(c, m) ==
    IF Sendable(c) THEN [out EXCEPT ![c] = Append(@, m)] ELSE out

_forward(q, u, m) ==
    IF Forwardable(u)
    THEN [q EXCEPT ![users[u]] = Append(@, [dir |-> "south", msg |-> m])]
    ELSE q

\* rspUsrUnreach: down to the sender when it is this connection's user,
\* back to the sender when this connection's user is the receiver.
rspUsrUnreach(c, q, m) ==
    LET errMsg == genUnreachMsg(uid1[c], m)
        down == m.ssid # NoSid /\ m.suid = uid1[c] /\ m.duid # uid1[c]
        back == m.ssid # NoSid /\ m.duid = uid1[c] /\ m.suid # uid1[c]
    IN /\ out' = IF down THEN _sendMsg(c, errMsg) ELSE out
       /\ inq' = IF back THEN _forward(q, m.suid, errMsg) ELSE q
----------------------------------------------------------------------------
Init ==
    /\ fd = [c \in Conns |-> "free"]
    /\ stat = [c \in Conns |-> "INVALID"]
    /\ uid1 = [c \in Conns |-> NoUid]
    /\ users = [u \in AllUids |-> NoConn]
    /\ inq = [c \in Conns |-> <<>>]
    /\ out = [c \in Conns |-> <<>>]
----------------------------------------------------------------------------
(* The network: peers connect, send, receive and go away.                  *)

Room == MapThenSumSet(LAMBDA c : Len(inq[c]) + Len(out[c]), Conns) < MaxBacklog

\* onNewSock: a fresh RouterSvrData, greeted with HELO.
onNewSock(c) ==
    /\ fd[c] = "free"
    /\ fd' = [fd EXCEPT ![c] = "open"]
    /\ stat' = [stat EXCEPT ![c] = "SVR_HELO"]
    /\ out' = [out EXCEPT ![c] = <<[cmd |-> "HELO"]>>]
    /\ UNCHANGED <<uid1, users, inq>>

\* What the peer of c can have sent: a LOGIN_END that passes the check
\* answers the EXCH_KEY of this login, and a client signs what it sends
\* with its own uid (AgentCenter::_forward), which is unset before a login.
Sent(c, m) ==
    /\ m.cmd = "LOGIN_END" /\ m.ok => stat[c] = "SVR_EXCH_KEY"
    /\ m.cmd \in RoutedCmds => m.suid = uid1[c]

parseData(c, m) ==
    /\ Open(c)
    /\ Sent(c, m)
    /\ inq' = [inq EXCEPT ![c] = Append(@, [dir |-> "north", msg |-> m])]
    /\ UNCHANGED <<fd, stat, uid1, users, out>>

Receive(c) ==
    /\ out[c] # <<>>
    /\ out' = [out EXCEPT ![c] = Tail(@)]
    /\ UNCHANGED <<fd, stat, uid1, users, inq>>

PeerGone(c) ==
    /\ Open(c)
    /\ fd' = closeData(fd, c)
    /\ UNCHANGED <<stat, uid1, users, inq, out>>
----------------------------------------------------------------------------
(* Login.                                                                  *)

\* Mutant: a LOGIN_REQ is taken in every state.
ParsesLoginReqAnyStat(c, m) == m.ok

ParsesLoginReq(c, m) == stat[c] = "SVR_HELO" /\ m.ok

ParsesLoginEnd(c, m) == stat[c] = "SVR_EXCH_KEY" /\ m.ok

\* The parse fails: an ERROR_ACK to the peer, and the handler's error
\* makes the framework close the connection.
errRsp(c) ==
    /\ out' = _sendMsg(c, [cmd |-> "ERROR_ACK"])
    /\ fd' = closeData(fd, c)
    /\ UNCHANGED <<stat, uid1, users>>

procLoginReq(c) ==
    /\ Handles(c, "north", {"LOGIN_REQ"})
    /\ inq' = Handled(c)
    /\ \/ /\ ParsesLoginReq(c, Msg(c))
          /\ stat' = [stat EXCEPT ![c] = "SVR_EXCH_KEY"]
          /\ uid1' = [uid1 EXCEPT ![c] = Msg(c).uid]
          /\ out' = _sendMsg(c, [cmd |-> "EXCH_KEY"])
          /\ UNCHANGED <<fd, users>>
       \/ /\ ~ParsesLoginReq(c, Msg(c))
          /\ errRsp(c)

\* Mutant: the registration is left out.
addUsrNever(c) == UNCHANGED users

\* addUsr: uid 0 is logged in but never registered.
addUsr(c) ==
    users' = IF uid1[c] # NoUid THEN [users EXCEPT ![uid1[c]] = c] ELSE users

procLoginEnd(c) ==
    /\ Handles(c, "north", {"LOGIN_END"})
    /\ inq' = Handled(c)
    /\ \/ /\ ParsesLoginEnd(c, Msg(c))
          /\ stat' = [stat EXCEPT ![c] = "AUTH_OK"]
          /\ IF ~existUsr(uid1[c])
             THEN addUsr(c) /\ UNCHANGED fd
             ELSE fd' = closeData(fd, c) /\ UNCHANGED users
          /\ UNCHANGED <<uid1, out>>
       \/ /\ ~ParsesLoginEnd(c, Msg(c))
          /\ errRsp(c)

\* procLogout, procErrorAck: the connection is closed either way, by
\* closeData or by the handler's error.
procLeave(c, cmd, to) ==
    /\ Handles(c, "north", {cmd})
    /\ inq' = Handled(c)
    /\ stat' = IF Msg(c).ok THEN [stat EXCEPT ![c] = to] ELSE stat
    /\ fd' = closeData(fd, c)
    /\ UNCHANGED <<uid1, users, out>>

procLogout(c) == procLeave(c, "LOGOUT", "LOGOUT")

procErrorAck(c) == procLeave(c, "ERROR_ACK", "ERROR")
----------------------------------------------------------------------------
(* Routing from a user's connection to another user's.                     *)

Refuse(c) ==
    /\ inq' = Handled(c)
    /\ fd' = closeData(fd, c)
    /\ UNCHANGED <<stat, uid1, users, out>>

\* Mutant: an undeliverable message is dropped without an answer.
ForwardSilent(c, m) ==
    /\ inq' = _forward(Handled(c), m.duid, m)
    /\ UNCHANGED <<fd, stat, uid1, users, out>>

\* procCipher deciphers what it forwards, procForward forwards it as it is.
\* "here donot fail": an undeliverable message is answered, not an error.
Forward(c, m) ==
    /\ IF Forwardable(m.duid)
       THEN inq' = _forward(Handled(c), m.duid, m) /\ UNCHANGED out
       ELSE rspUsrUnreach(c, Handled(c), m)
    /\ UNCHANGED <<fd, stat, uid1, users>>

parseCipherMsg(c, m) == hasAuthed(c) /\ cipherLenOK(m)

procCipher(c) ==
    /\ Handles(c, "north", {"FRAME_CIPHER"})
    /\ \/ /\ parseCipherMsg(c, Msg(c)) /\ txtLenOK(Msg(c))
          /\ Forward(c, cipher2PlainMsg(Msg(c)))
       \/ /\ ~parseCipherMsg(c, Msg(c))
          /\ Refuse(c)

\* The end of the process: everything is lost but what was sent before,
\* which may still arrive.  A new one starts with empty tables.
processEnds ==
    /\ fd' = [c \in Conns |-> "free"]
    /\ stat' = [c \in Conns |-> "INVALID"]
    /\ uid1' = [c \in Conns |-> NoUid]
    /\ users' = [u \in AllUids |-> NoConn]
    /\ inq' = [c \in Conns |-> <<>>]
    /\ UNCHANGED out

\* procCipher goes on with the NULL of cipher2PlainMsg, and getDuid reads
\* the head of a message that is not there.
procCipherNull(c) ==
    /\ Handles(c, "north", {"FRAME_CIPHER"})
    /\ parseCipherMsg(c, Msg(c)) /\ ~txtLenOK(Msg(c))
    /\ processEnds

procForward(c) ==
    /\ Handles(c, "north", TunnelCmds)
    /\ IF hasAuthed(c) THEN Forward(c, Msg(c)) ELSE Refuse(c)

procForwardNoerr(c) ==
    /\ Handles(c, "north", NoerrCmds)
    /\ IF hasAuthed(c)
       THEN /\ inq' = _forward(Handled(c), Msg(c).duid, Msg(c))
            /\ UNCHANGED <<fd, stat, uid1, users, out>>
       ELSE Refuse(c)

----------------------------------------------------------------------------
(* Routing from the queue of a user's connection to its wire.              *)

procPlain(c) ==
    /\ Handles(c, "south", {"FRAME_PLAIN"})
    /\ IF hasAuthed(c)
       THEN /\ IF Sendable(c)
               THEN /\ out' = _sendMsg(c, plain2CipherMsg(Msg(c)))
                    /\ inq' = Handled(c)
               ELSE rspUsrUnreach(c, Handled(c), Msg(c))
            /\ UNCHANGED <<fd, stat, uid1, users>>
       ELSE Refuse(c)

procSend(c) ==
    /\ Handles(c, "south", TunnelCmds)
    /\ IF Sendable(c)
       THEN out' = _sendMsg(c, Msg(c)) /\ inq' = Handled(c) /\ UNCHANGED fd
       ELSE rspUsrUnreach(c, Handled(c), Msg(c)) /\ fd' = closeData(fd, c)
    /\ UNCHANGED <<stat, uid1, users>>

procSendNoerr(c) ==
    /\ Handles(c, "south", NoerrCmds \union {"UID_EXIT_BROADCAST"})
    /\ out' = _sendMsg(c, Msg(c))
    /\ inq' = Handled(c)
    /\ fd' = IF Sendable(c) THEN fd ELSE closeData(fd, c)
    /\ UNCHANGED <<stat, uid1, users>>

\* A command that no worker is listed for is dropped without an error.
procUnknown(c) ==
    /\ \/ Handles(c, "north", RoutedCmds \ NorthCmds)
       \/ Handles(c, "south", {"FRAME_CIPHER"})
    /\ inq' = Handled(c)
    /\ UNCHANGED <<fd, stat, uid1, users, out>>
----------------------------------------------------------------------------
(* The end of a connection.                                                *)

\* Mutant: only a connection that is still logged in leaves the registry.
delUsrAuthed(c) == IF hasAuthed(c) THEN [users EXCEPT ![uid1[c]] = NoConn] ELSE users

\* delUsr erases the entry of the connection's uid, whoever holds it.
delUsr(c) == [users EXCEPT ![uid1[c]] = NoConn]

\* Mutant: only the exit of a registered user is announced.
broadcastUidExitKnown(q, reg, u) ==
    [c \in Conns |->
        IF users[u] # NoConn /\ Open(c) /\ uid1[c] # NoUid /\ reg[uid1[c]] = c
        THEN Append(q[c], [dir |-> "south", msg |-> exitMsg(u)])
        ELSE q[c]]

\* Mutant: the exit is not announced.
broadcastUidExitNone(q, reg, u) == q

\* notifyAllUsr: to every user of the map, through _forward.
broadcastUidExit(q, reg, u) ==
    [c \in Conns |->
        IF Open(c) /\ uid1[c] # NoUid /\ reg[uid1[c]] = c
        THEN Append(q[c], [dir |-> "south", msg |-> exitMsg(u)])
        ELSE q[c]]

\* What was sent before may still arrive.
onClose(c) ==
    /\ fd[c] = "closing"
    /\ users' = delUsr(c)
    /\ inq' = [broadcastUidExit(inq, users', uid1[c]) EXCEPT ![c] = <<>>]
    /\ fd' = [fd EXCEPT ![c] = "free"]
    /\ stat' = [stat EXCEPT ![c] = "INVALID"]
    /\ uid1' = [uid1 EXCEPT ![c] = NoUid]
    /\ UNCHANGED out
----------------------------------------------------------------------------
process(c) ==
    \/ procLoginReq(c) \/ procLoginEnd(c) \/ procLogout(c) \/ procErrorAck(c)
    \/ procCipher(c) \/ procCipherNull(c) \/ procForward(c)
    \/ procForwardNoerr(c) \/ procPlain(c) \/ procSend(c) \/ procSendNoerr(c) \/ procUnknown(c)

Network(c) ==
    \/ Receive(c) \/ PeerGone(c)
    \/ Room /\ (onNewSock(c) \/ \E m \in Inputs : parseData(c, m))

Next == \E c \in Conns : Network(c) \/ process(c) \/ onClose(c)

\* The framework serves every queue and completes every closing.
Fairness == \A c \in Conns : WF_vars(process(c)) /\ WF_vars(onClose(c))

Spec == Init /\ [][Next]_vars

FairSpec == Spec /\ Fairness
----------------------------------------------------------------------------
(* Properties.                                                             *)

\* Every variable keeps its type: in particular every queue holds messages
\* of the kinds the workers' tables are written for.
TypeOK ==
    /\ fd \in [Conns -> {"free", "open", "closing"}]
    /\ stat \in [Conns -> {"INVALID", "SVR_HELO", "SVR_EXCH_KEY", "AUTH_OK",
                           "LOGOUT", "ERROR"}]
    /\ uid1 \in [Conns -> AllUids]
    /\ users \in [AllUids -> Conns \union {NoConn}]
    /\ inq \in [Conns -> Seq(Envelope)]
    /\ out \in [Conns -> Seq(RoutedMsg \union ExitMsg \union SvrLoginMsg)]

LoggedIn == {"AUTH_OK", "LOGOUT", "ERROR"}

\* The registry (addUsr, delUsr) never refers to freed connection data, and
\* a user's entry is a connection that logged in as that very user, even
\* though entries are erased by uid and descriptors are used again.
RegistrySound ==
    \A u \in AllUids : users[u] # NoConn =>
        /\ u # NoUid
        /\ fd[users[u]] # "free"
        /\ uid1[users[u]] = u
        /\ stat[users[u]] \in LoggedIn

\* What the router hands to a connection's peer was addressed to the user
\* that logged in on it, and nothing is routed to a connection before its
\* login is complete.
IsRouted(m) == m.cmd \in RoutedCmds

Isolation ==
    \A c \in Conns : \A i \in 1..Len(inq[c]) :
        inq[c][i].dir = "south" =>
            /\ stat[c] \in LoggedIn
            /\ IsRouted(inq[c][i].msg) => inq[c][i].msg.duid = uid1[c]

\* A login never takes over a user that another connection is serving.
NoTakeover ==
    [][\A u \in Uids : users[u] # NoConn /\ users'[u] # NoConn
            => users'[u] = users[u]]_vars

\* The users who hold a logged-in connection that is not yet closed.
LiveUids == {uid1[d] : d \in {e \in Conns : fd[e] # "free" /\ stat[e] \in LoggedIn}}

\* In the queue q and on the wire o of a connection, what comes from a user
\* outside live is followed by that user's exit broadcast.
Covers(q, o, live) ==
    /\ \A i \in 1..Len(o) : IsRouted(o[i]) =>
            \/ o[i].suid \in live
            \/ \E j \in 1..Len(o) : j > i /\ o[j] = exitMsg(o[i].suid)
            \/ \E j \in 1..Len(q) : q[j] = [dir |-> "south", msg |-> exitMsg(o[i].suid)]
    /\ \A i \in 1..Len(q) : q[i].dir = "south" /\ IsRouted(q[i].msg) =>
            \/ q[i].msg.suid \in live
            \/ \E j \in 1..Len(q) :
                  j > i /\ q[j] = [dir |-> "south", msg |-> exitMsg(q[i].msg.suid)]

Serving(c) == Open(c) /\ users[uid1[c]] = c

\* The announcement that a user has left is the last word of its
\* connections: what a registered user is still to receive from a user
\* without a live connection is followed by that user's exit broadcast.
LastWord == \A c \in Conns : Serving(c) => Covers(inq[c], out[c], LiveUids)

\* Every tunnel request is accounted for: once it is at the head of the
\* queue of a registered user's connection, the request reaches the wire of
\* the user it is for, or the sender's wire carries an UNREACH for it or the
\* exit broadcast of that user, unless the sender's own connection is lost.
Carries(c, m) == \E i \in 1..Len(out[c]) : out[c][i] = m

Pending(c, m) ==
    /\ Open(c) /\ hasAuthed(c) /\ users[uid1[c]] = c
    /\ inq[c] # <<>> /\ Head(inq[c]) = [dir |-> "north", msg |-> m]
    /\ m.suid = uid1[c] /\ m.duid # m.suid

Accounted(c, m) ==
    \/ users[m.suid] # c \/ ~Open(c)
    \/ Carries(c, genUnreachMsg(m.suid, m)) \/ Carries(c, exitMsg(m.duid))
    \/ \E d \in Conns : uid1[d] = m.duid /\ Carries(d, m)

RequestsAnswered ==
    \A c \in Conns :
        \A m \in {i \in Inputs : i.cmd = "TUNNEL_REQ"} :
            Pending(c, m) ~> Accounted(c, m)

\* A connection that has logged in and is neither leaving nor being closed
\* is the registered one of its user.
AuthedRegistered ==
    \A c \in Conns :
        Open(c) /\ hasAuthed(c) /\ uid1[c] # NoUid => users[uid1[c]] = c
=============================================================================
