-------------------------- MODULE SvrCenter_proof --------------------------
(***************************************************************************)
(* Proofs about the router, for any number of connections and users and    *)
(* any messages the peers send: its types, the soundness of the registry   *)
(* of users, that a login takes over no user, and that nothing of a user   *)
(* follows the announcement of its exit.                                   *)
(***************************************************************************)
EXTENDS SvrCenter, SequenceTheorems, TLAPS

Stats == {"INVALID", "SVR_HELO", "SVR_EXCH_KEY", "AUTH_OK", "LOGOUT", "ERROR"}

OutMsg == RoutedMsg \union ExitMsg \union SvrLoginMsg

Queues == [Conns -> Seq(Envelope)]

Wires == [Conns -> Seq(OutMsg)]
----------------------------------------------------------------------------
(* What the helpers return.                                                *)

\* Popping a queue leaves a queue, and its head was an envelope.
LEMMA HandledType ==
    ASSUME inq \in Queues, NEW c \in Conns, inq[c] # <<>>
    PROVE  Handled(c) \in Queues /\ Head(inq[c]) \in Envelope
  BY DEF Handled, Queues

\* The router forwards only messages an envelope can hold.
LEMMA ForwardType ==
    ASSUME TypeOK, NEW q \in Queues, NEW u \in AllUids,
           NEW m \in RoutedMsg
    PROVE  _forward(q, u, m) \in Queues
<1>1. CASE Forwardable(u)
  <2>1. users[u] \in Conns
    BY <1>1 DEF Forwardable, existUsr, TypeOK
  <2>2. [dir |-> "south", msg |-> m] \in Envelope
    BY DEF Envelope
  <2>3. Append(q[users[u]], [dir |-> "south", msg |-> m]) \in Seq(Envelope)
    BY <2>1, <2>2 DEF Queues
  <2> QED
    BY <1>1, <2>1, <2>3 DEF _forward, Queues
<1>2. CASE ~Forwardable(u)
  BY <1>2 DEF _forward
<1> QED
  BY <1>1, <1>2

\* What is sent on a wire has one of the types the wire carries.
LEMMA SendType ==
    ASSUME out \in Wires, NEW c \in Conns, NEW m \in OutMsg
    PROVE  _sendMsg(c, m) \in Wires
  BY DEF _sendMsg, Wires

\* The answer to an undeliverable message is itself a routed message.
LEMMA UnreachType ==
    ASSUME NEW from \in AllUids, NEW m \in RoutedMsg
    PROVE  genUnreachMsg(from, m) \in RoutedMsg
  BY DEF genUnreachMsg, RoutedMsg, RoutedCmds, NoerrCmds, AllSids, AllUids

\* Answering an undeliverable message keeps queues and wires typed.
LEMMA RspType ==
    ASSUME TypeOK, NEW c \in Conns, NEW q \in Queues, NEW m \in RoutedMsg,
           rspUsrUnreach(c, q, m)
    PROVE  inq' \in Queues /\ out' \in Wires
<1> DEFINE e == genUnreachMsg(uid1[c], m)
<1>1. uid1[c] \in AllUids /\ m.suid \in AllUids
  BY DEF TypeOK, RoutedMsg
<1>2. e \in RoutedMsg /\ e \in OutMsg
  BY <1>1, UnreachType DEF OutMsg
<1>3. out \in Wires
  BY DEF TypeOK, Wires, OutMsg
<1>4. _sendMsg(c, e) \in Wires
  BY <1>2, <1>3, SendType
<1>5. _forward(q, m.suid, e) \in Queues
  BY <1>1, <1>2, ForwardType
<1> QED
  BY <1>3, <1>4, <1>5 DEF rspUsrUnreach

\* Closing a descriptor keeps the framework's types.
LEMMA CloseType ==
    ASSUME TypeOK, NEW c \in Conns
    PROVE  closeData(fd, c) \in [Conns -> {"free", "open", "closing"}]
  BY DEF closeData, TypeOK

\* What is queued is one of the messages of its direction.
LEMMA EnvelopeKind ==
    ASSUME NEW e \in Envelope
    PROVE  /\ e.msg.cmd \in RoutedCmds => e.msg \in RoutedMsg
           /\ e.msg.cmd = "UID_EXIT_BROADCAST" => e.msg \in ExitMsg
           /\ e.msg.cmd \in LoginCmds => e.msg \in LoginMsg
  BY DEF Envelope, RoutedMsg, ExitMsg, LoginMsg, LoginCmds, RoutedCmds,
         NoerrCmds, TunnelCmds
----------------------------------------------------------------------------
(* Type correctness.                                                       *)

\* A new connection.
LEMMA NewSockType == ASSUME TypeOK, NEW c \in Conns, onNewSock(c) PROVE TypeOK'
<1>1. <<[cmd |-> "HELO"]>> \in Seq(RoutedMsg \union ExitMsg \union SvrLoginMsg)
  BY DEF SvrLoginMsg
<1> QED
  BY <1>1 DEF onNewSock, TypeOK

\* The end of the process leaves its empty tables.
LEMMA EndType == ASSUME TypeOK, processEnds PROVE TypeOK'
  BY DEF processEnds, TypeOK, AllUids

\* Every step of Next keeps the types (the inductive step of TypeCorrect).
LEMMA TypeCorrectStep == TypeOK /\ [Next]_vars => TypeOK'
<1> SUFFICES ASSUME TypeOK, [Next]_vars PROVE TypeOK'
  OBVIOUS
<1>0. inq \in Queues /\ out \in Wires
  BY DEF TypeOK, Queues, Wires, OutMsg
<1>q. ASSUME inq' \in Queues, out' \in Wires,
             fd' \in [Conns -> {"free", "open", "closing"}],
             stat' \in [Conns -> Stats], uid1' \in [Conns -> AllUids],
             users' \in [AllUids -> Conns \union {NoConn}]
      PROVE  TypeOK'
  BY <1>q DEF TypeOK, Queues, Wires, OutMsg, Stats
<1>s. /\ fd \in [Conns -> {"free", "open", "closing"}]
      /\ stat \in [Conns -> Stats] /\ uid1 \in [Conns -> AllUids]
      /\ users \in [AllUids -> Conns \union {NoConn}]
  BY DEF TypeOK, Stats
<1>f. ASSUME NEW c \in Conns, NEW m \in RoutedMsg, inq[c] # <<>>, Forward(c, m)
      PROVE  TypeOK'
  <2>1. Handled(c) \in Queues
    BY <1>0, <1>f, HandledType
  <2>2. m.duid \in AllUids
    BY DEF RoutedMsg
  <2>3. inq' \in Queues /\ out' \in Wires
    BY <1>0, <1>f, <2>1, <2>2, ForwardType, RspType DEF Forward
  <2> QED
    BY <1>f, <1>s, <1>q, <2>3 DEF Forward
<1>r. ASSUME NEW c \in Conns, inq[c] # <<>>, Refuse(c)
      PROVE  TypeOK'
  BY <1>r, <1>0, <1>s, <1>q, HandledType, CloseType DEF Refuse
<1>1. ASSUME NEW c \in Conns, onNewSock(c) PROVE TypeOK'
  BY <1>1, NewSockType
<1>2. ASSUME NEW c \in Conns, Receive(c) PROVE TypeOK'
  <2>1. out' \in Wires
    BY <1>2, <1>0 DEF Receive, Wires
  <2> QED
    BY <1>2, <1>0, <1>s, <1>q, <2>1 DEF Receive
<1>3. ASSUME NEW c \in Conns, PeerGone(c) PROVE TypeOK'
  BY <1>3, <1>0, <1>s, <1>q, CloseType DEF PeerGone
<1>4. ASSUME NEW c \in Conns, NEW m \in Inputs, parseData(c, m) PROVE TypeOK'
  <2>1. [dir |-> "north", msg |-> m] \in Envelope
    BY SvrAssumption DEF Envelope
  <2>2. inq' \in Queues
    BY <1>4, <1>0, <2>1 DEF parseData, Queues
  <2> QED
    BY <1>4, <1>0, <1>s, <1>q, <2>2 DEF parseData
<1>e. ASSUME NEW c \in Conns, inq[c] # <<>>, inq' = Handled(c), errRsp(c)
      PROVE  TypeOK'
  <2>1. [cmd |-> "ERROR_ACK"] \in OutMsg
    BY DEF OutMsg, SvrLoginMsg
  <2> QED
    BY <1>e, <1>0, <1>s, <1>q, <2>1, SendType, HandledType, CloseType DEF errRsp
<1>5. ASSUME NEW c \in Conns, procLoginReq(c) PROVE TypeOK'
  <2>1. inq[c] # <<>> /\ Msg(c).cmd = "LOGIN_REQ" /\ inq' = Handled(c)
    BY <1>5 DEF procLoginReq, Handles, Msg
  <2>2. Msg(c).uid \in AllUids
    BY <2>1, <1>0, HandledType, EnvelopeKind DEF Msg, LoginMsg, LoginCmds
  <2>3. [cmd |-> "EXCH_KEY"] \in OutMsg
    BY DEF OutMsg, SvrLoginMsg
  <2>4. CASE ParsesLoginReq(c, Msg(c))
    <3>1. _sendMsg(c, [cmd |-> "EXCH_KEY"]) \in Wires
      BY <1>0, <2>3, SendType
    <3>2. out' \in Wires /\ inq' \in Queues
      BY <1>5, <2>1, <2>4, <3>1, <1>0, HandledType DEF procLoginReq
    <3> QED
      BY <1>5, <2>2, <2>4, <3>2, <1>s, <1>q DEF procLoginReq, Stats
  <2>5. CASE ~ParsesLoginReq(c, Msg(c))
    BY <1>5, <2>1, <2>5, <1>e DEF procLoginReq
  <2> QED
    BY <2>4, <2>5
<1>6. ASSUME NEW c \in Conns, procLoginEnd(c) PROVE TypeOK'
  <2>1. inq[c] # <<>> /\ inq' = Handled(c)
    BY <1>6 DEF procLoginEnd, Handles
  <2>2. CASE ParsesLoginEnd(c, Msg(c))
    <3>1. inq' \in Queues
      BY <2>1, <1>0, HandledType
    <3>2. users' \in [AllUids -> Conns \union {NoConn}]
      BY <1>6, <2>2, <1>s DEF procLoginEnd, addUsr
    <3> QED
      BY <1>6, <2>2, <3>1, <3>2, <1>0, <1>s, <1>q, CloseType
      DEF procLoginEnd, addUsr, Stats
  <2>3. CASE ~ParsesLoginEnd(c, Msg(c))
    BY <1>6, <2>1, <2>3, <1>e DEF procLoginEnd
  <2> QED
    BY <2>2, <2>3
<1>7. ASSUME NEW c \in Conns, procLogout(c) \/ procErrorAck(c) PROVE TypeOK'
  <2>1. inq[c] # <<>> /\ inq' = Handled(c)
    BY <1>7 DEF procLogout, procErrorAck, procLeave, Handles
  <2>2. inq' \in Queues
    BY <2>1, <1>0, HandledType
  <2> QED
    BY <1>7, <1>0, <1>s, <1>q, <2>2, CloseType
    DEF procLogout, procErrorAck, procLeave, Stats
<1>8. ASSUME NEW c \in Conns, procCipher(c) PROVE TypeOK'
  <2>1. inq[c] # <<>> /\ Msg(c).cmd = "FRAME_CIPHER"
    BY <1>8 DEF procCipher, Handles, Msg
  <2>2. Msg(c) \in RoutedMsg
    BY <2>1, <1>0, HandledType, EnvelopeKind DEF Msg, RoutedCmds
  <2>3. cipher2PlainMsg(Msg(c)) \in RoutedMsg
    BY <2>2 DEF cipher2PlainMsg, RoutedMsg, RoutedCmds
  <2> QED
    BY <1>8, <2>1, <2>3, <1>f, <1>r DEF procCipher
<1>9. ASSUME NEW c \in Conns, procForward(c) PROVE TypeOK'
  <2>1. inq[c] # <<>> /\ Msg(c).cmd \in TunnelCmds
    BY <1>9 DEF procForward, Handles, Msg
  <2>2. Msg(c) \in RoutedMsg
    BY <2>1, <1>0, HandledType, EnvelopeKind DEF Msg, RoutedCmds
  <2> QED
    BY <1>9, <2>1, <2>2, <1>f, <1>r DEF procForward
<1>10. ASSUME NEW c \in Conns, procForwardNoerr(c) PROVE TypeOK'
  <2>1. inq[c] # <<>> /\ Msg(c).cmd \in NoerrCmds
    BY <1>10 DEF procForwardNoerr, Handles, Msg
  <2>2. Msg(c) \in RoutedMsg /\ Msg(c).duid \in AllUids
    BY <2>1, <1>0, HandledType, EnvelopeKind DEF Msg, RoutedCmds, RoutedMsg
  <2>3. _forward(Handled(c), Msg(c).duid, Msg(c)) \in Queues
    BY <1>0, <2>1, <2>2, HandledType, ForwardType
  <2> QED
    BY <1>10, <2>1, <2>3, <1>0, <1>s, <1>q, <1>r DEF procForwardNoerr
<1>11. ASSUME NEW c \in Conns, procPlain(c) PROVE TypeOK'
  <2>1. inq[c] # <<>> /\ Msg(c).cmd = "FRAME_PLAIN"
    BY <1>11 DEF procPlain, Handles, Msg
  <2>2. Msg(c) \in RoutedMsg
    BY <2>1, <1>0, HandledType, EnvelopeKind DEF Msg, RoutedCmds
  <2>3. plain2CipherMsg(Msg(c)) \in OutMsg
    BY <2>2 DEF plain2CipherMsg, OutMsg, RoutedMsg, RoutedCmds
  <2>4. _sendMsg(c, plain2CipherMsg(Msg(c))) \in Wires
    BY <1>0, <2>3, SendType
  <2>5. Handled(c) \in Queues
    BY <1>0, <2>1, HandledType
  <2>6. CASE hasAuthed(c)
    <3>1. inq' \in Queues /\ out' \in Wires
      BY <1>11, <2>2, <2>4, <2>5, <2>6, RspType DEF procPlain
    <3> QED
      BY <1>11, <2>6, <3>1, <1>s, <1>q DEF procPlain
  <2> QED
    BY <1>11, <2>1, <2>6, <1>r DEF procPlain
<1>12. ASSUME NEW c \in Conns, procSend(c) PROVE TypeOK'
  <2>1. inq[c] # <<>> /\ Msg(c).cmd \in TunnelCmds
    BY <1>12 DEF procSend, Handles, Msg
  <2>2. Msg(c) \in RoutedMsg /\ Msg(c) \in OutMsg
    BY <2>1, <1>0, HandledType, EnvelopeKind DEF Msg, RoutedCmds, OutMsg
  <2>4. _sendMsg(c, Msg(c)) \in Wires
    BY <1>0, <2>2, SendType
  <2>5. Handled(c) \in Queues
    BY <1>0, <2>1, HandledType
  <2>6. inq' \in Queues /\ out' \in Wires
    BY <1>12, <2>2, <2>4, <2>5, RspType DEF procSend
  <2> QED
    BY <1>12, <2>6, <1>s, <1>q, CloseType DEF procSend
<1>13. ASSUME NEW c \in Conns, procSendNoerr(c) PROVE TypeOK'
  <2>1. /\ inq[c] # <<>>
        /\ Msg(c).cmd \in NoerrCmds \union {"UID_EXIT_BROADCAST"}
    BY <1>13 DEF procSendNoerr, Handles, Msg
  <2>2. Msg(c) \in OutMsg
    BY <2>1, <1>0, HandledType, EnvelopeKind DEF Msg, RoutedCmds, OutMsg
  <2>3. _sendMsg(c, Msg(c)) \in Wires /\ Handled(c) \in Queues
    BY <1>0, <2>1, <2>2, SendType, HandledType
  <2> QED
    BY <1>13, <2>3, <1>s, <1>q, CloseType DEF procSendNoerr
<1>14. ASSUME NEW c \in Conns, procUnknown(c) PROVE TypeOK'
  <2>1. Handled(c) \in Queues
    BY <1>14, <1>0, HandledType DEF procUnknown, Handles
  <2> QED
    BY <1>14, <2>1, <1>0, <1>s, <1>q DEF procUnknown
<1>15. ASSUME NEW c \in Conns, onClose(c) PROVE TypeOK'
  <2>1. uid1[c] \in AllUids
    BY <1>s
  <2>2. [dir |-> "south", msg |-> exitMsg(uid1[c])] \in Envelope
    BY <2>1 DEF exitMsg, Envelope, ExitMsg
  <2>3. broadcastUidExit(inq, users', uid1[c]) \in Queues
    BY <1>0, <2>2 DEF broadcastUidExit, Queues
  <2>4. inq' \in Queues /\ out' \in Wires
    BY <1>15, <1>0, <2>3 DEF onClose, Queues, Wires
  <2>5. /\ users' \in [AllUids -> Conns \union {NoConn}]
        /\ uid1' \in [Conns -> AllUids] /\ stat' \in [Conns -> Stats]
        /\ fd' \in [Conns -> {"free", "open", "closing"}]
    BY <1>15, <1>s DEF onClose, delUsr, AllUids, Stats
  <2> QED
    BY <2>4, <2>5, <1>q
<1>16. CASE UNCHANGED vars
  BY <1>16 DEF vars, TypeOK
<1>17. ASSUME NEW c \in Conns, procCipherNull(c) PROVE TypeOK'
  BY <1>17, EndType DEF procCipherNull
<1> QED
  BY <1>1, <1>2, <1>3, <1>4, <1>5, <1>6, <1>7, <1>8, <1>9, <1>10, <1>11,
     <1>12, <1>13, <1>14, <1>15, <1>16, <1>17
  DEF Next, Network, process

\* Every reachable state is well typed (TypeOK): SvrCenter's queues and
\* wires hold only messages of the kinds its workers are written for.
THEOREM TypeCorrect == Spec => []TypeOK
<1>1. Init => TypeOK
  BY SvrAssumption, MessagesAssumption DEF Init, TypeOK, AllUids
<1> QED
  BY <1>1, TypeCorrectStep, PTL DEF Spec
----------------------------------------------------------------------------
(* The registry.  Two more facts make it inductive together with the       *)
(* isolation of the queues: a freed descriptor keeps nothing of its last   *)
(* connection, and everything routed to a queue went there through a       *)
(* sound registry.                                                         *)

FreeClean == \A c \in Conns : fd[c] = "free" => inq[c] = <<>>

\* Isolation of any queues q, for connections in states st of users ud.
Clean(q, st, ud) ==
    \A c \in Conns : \A i \in 1..Len(q[c]) :
        q[c][i].dir = "south" =>
            /\ st[c] \in LoggedIn
            /\ IsRouted(q[c][i].msg) => q[c][i].msg.duid = ud[c]

IInv == TypeOK /\ RegistrySound /\ FreeClean /\ Isolation

\* Handling a message disturbs no other.
LEMMA HandledClean ==
    ASSUME TypeOK, Isolation, NEW c \in Conns, inq[c] # <<>>
    PROVE  Clean(Handled(c), stat, uid1)
<1> SUFFICES ASSUME NEW d \in Conns, NEW i \in 1..Len(Handled(c)[d]),
                    Handled(c)[d][i].dir = "south"
             PROVE  /\ stat[d] \in LoggedIn
                    /\ IsRouted(Handled(c)[d][i].msg)
                         => Handled(c)[d][i].msg.duid = uid1[d]
  BY DEF Clean
<1>0. inq \in Queues
  BY DEF TypeOK, Queues
<1>1. CASE d = c
  <2>1. Handled(c)[d] = Tail(inq[c]) /\ inq[c] \in Seq(Envelope)
    BY <1>0, <1>1 DEF Handled, Queues
  <2>2. i + 1 \in 1..Len(inq[c]) /\ Handled(c)[d][i] = inq[c][i + 1]
    BY <2>1
  <2> QED
    BY <1>1, <2>2 DEF Isolation
<1>2. CASE d # c
  <2>1. Handled(c)[d] = inq[d]
    BY <1>0, <1>2 DEF Handled, Queues
  <2> QED
    BY <2>1 DEF Isolation
<1> QED
  BY <1>1, <1>2

\* One more message of the right kind keeps a queue isolated.
LEMMA AppendClean ==
    ASSUME NEW q \in Queues, NEW c \in Conns, NEW e \in Envelope,
           NEW st, NEW ud, Clean(q, st, ud),
           e.dir = "south" => /\ st[c] \in LoggedIn
                              /\ IsRouted(e.msg) => e.msg.duid = ud[c]
    PROVE  Clean([q EXCEPT ![c] = Append(@, e)], st, ud)
<1> DEFINE r == [q EXCEPT ![c] = Append(@, e)]
<1> SUFFICES ASSUME NEW d \in Conns, NEW i \in 1..Len(r[d]), r[d][i].dir = "south"
             PROVE  /\ st[d] \in LoggedIn
                    /\ IsRouted(r[d][i].msg) => r[d][i].msg.duid = ud[d]
  BY DEF Clean
<1>1. CASE d = c
  <2>1. r[d] = Append(q[c], e) /\ q[c] \in Seq(Envelope)
    BY <1>1 DEF Queues
  <2>2. CASE i \in 1..Len(q[c])
    <3>1. r[d][i] = q[c][i]
      BY <2>1, <2>2
    <3> QED
      BY <1>1, <2>2, <3>1 DEF Clean
  <2>3. CASE i = Len(q[c]) + 1
    BY <1>1, <2>1, <2>3
  <2> QED
    BY <2>1, <2>2, <2>3
<1>2. CASE d # c
  <2>1. r[d] = q[d]
    BY <1>2 DEF Queues
  <2> QED
    BY <2>1 DEF Clean
<1> QED
  BY <1>1, <1>2

\* Forwarding through a sound registry keeps the queues isolated.
LEMMA ForwardClean ==
    ASSUME TypeOK, RegistrySound, NEW q \in Queues, NEW m \in RoutedMsg,
           Clean(q, stat, uid1)
    PROVE  Clean(_forward(q, m.duid, m), stat, uid1)
<1>0. m.duid \in AllUids
  BY DEF RoutedMsg
<1>1. CASE Forwardable(m.duid)
  <2> DEFINE c == users[m.duid]
             e == [dir |-> "south", msg |-> m]
  <2>1. c \in Conns /\ stat[c] \in LoggedIn /\ uid1[c] = m.duid
    BY <1>0, <1>1 DEF Forwardable, existUsr, TypeOK, RegistrySound
  <2>2. e \in Envelope /\ e.msg = m
    BY DEF Envelope
  <2>3. Clean([q EXCEPT ![c] = Append(@, e)], stat, uid1)
    BY <2>1, <2>2, AppendClean
  <2> QED
    BY <1>1, <2>3 DEF _forward
<1>2. CASE ~Forwardable(m.duid)
  BY <1>2 DEF _forward
<1> QED
  BY <1>1, <1>2

\* Answering an undeliverable message keeps the queues isolated.
LEMMA RspClean ==
    ASSUME TypeOK, RegistrySound, NEW c \in Conns, NEW q \in Queues,
           NEW m \in RoutedMsg, Clean(q, stat, uid1), rspUsrUnreach(c, q, m)
    PROVE  Clean(inq', stat, uid1)
<1> DEFINE e == genUnreachMsg(uid1[c], m)
<1>1. e \in RoutedMsg /\ e.duid = m.suid
  <2>1. uid1[c] \in AllUids
    BY DEF TypeOK
  <2> QED
    BY <2>1, UnreachType DEF genUnreachMsg
<1>2. Clean(_forward(q, m.suid, e), stat, uid1)
  <2>1. Clean(_forward(q, e.duid, e), stat, uid1)
    BY <1>1, ForwardClean
  <2> QED
    BY <1>1, <2>1
<1> QED
  BY <1>2 DEF rspUsrUnreach

\* A descriptor that is only open or closing receives messages.
LEMMA ForwardFree ==
    ASSUME TypeOK, NEW q \in Queues, NEW u \in AllUids, NEW m,
           NEW c \in Conns, fd[c] = "free"
    PROVE  _forward(q, u, m)[c] = q[c]
  BY DEF _forward, Forwardable, existUsr, Open, Queues, TypeOK
----------------------------------------------------------------------------
(* One step preserves IInv.  Most handlers leave the registry and the      *)
(* users of the connections alone; Quiet is what they have in common.      *)

Quiet ==
    /\ users' = users /\ uid1' = uid1
    /\ \A c \in Conns : stat[c] \in LoggedIn => stat'[c] \in LoggedIn
    /\ \A c \in Conns : (fd'[c] = "free") <=> (fd[c] = "free")
    /\ \A c \in Conns : fd[c] = "free" => inq'[c] = inq[c]
    /\ Clean(inq', stat, uid1)

\* A step that changes neither a login nor the registry keeps the
\* conjuncts of the invariant that only depend on these.
LEMMA QuietStep ==
    ASSUME IInv, TypeOK', Quiet
    PROVE  IInv'
<1>1. RegistrySound'
  BY DEF IInv, Quiet, RegistrySound, TypeOK
<1>2. FreeClean'
  BY DEF IInv, Quiet, FreeClean
<1>3. Isolation'
  BY DEF Quiet, Isolation, Clean
<1> QED
  BY <1>1, <1>2, <1>3 DEF IInv

\* Closing a connection frees nothing yet.
LEMMA CloseFree ==
    ASSUME TypeOK, NEW c \in Conns
    PROVE  \A d \in Conns : (closeData(fd, c)[d] = "free") <=> (fd[d] = "free")
  BY DEF closeData, TypeOK

\* Popping the queue of a live connection leaves freed descriptors alone.
LEMMA HandledFree ==
    ASSUME TypeOK, NEW c \in Conns, fd[c] # "free"
    PROVE  \A d \in Conns : fd[d] = "free" => Handled(c)[d] = inq[d]
  BY DEF Handled, TypeOK

\* An answer reaches no freed descriptor.
LEMMA RspFree ==
    ASSUME TypeOK, NEW c \in Conns, fd[c] # "free", inq[c] # <<>>,
           NEW m \in RoutedMsg, rspUsrUnreach(c, Handled(c), m)
    PROVE  \A d \in Conns : fd[d] = "free" => inq'[d] = inq[d]
<1>1. Handled(c) \in Queues /\ m.suid \in AllUids
  BY HandledType DEF TypeOK, Queues, RoutedMsg
<1> QED
  BY <1>1, HandledFree, ForwardFree DEF rspUsrUnreach

\* The handlers that give up on a message.
LEMMA RefuseQuiet ==
    ASSUME IInv, NEW c \in Conns, fd[c] # "free", inq[c] # <<>>, Refuse(c)
    PROVE  Quiet
  BY HandledClean, CloseFree, HandledFree DEF IInv, Refuse, Quiet

\* The handlers that forward or answer.
LEMMA ForwardQuiet ==
    ASSUME IInv, NEW c \in Conns, fd[c] # "free", inq[c] # <<>>,
           NEW m \in RoutedMsg, Forward(c, m)
    PROVE  Quiet
<1>1. Handled(c) \in Queues /\ m.duid \in AllUids
  BY HandledType DEF IInv, TypeOK, Queues, RoutedMsg
<1>2. Clean(Handled(c), stat, uid1)
  BY HandledClean DEF IInv
<1>3. Clean(inq', stat, uid1)
  BY <1>1, <1>2, ForwardClean, RspClean DEF IInv, Forward
<1>4. \A d \in Conns : fd[d] = "free" => inq'[d] = inq[d]
  BY <1>1, HandledFree, ForwardFree, RspFree DEF IInv, Forward
<1> QED
  BY <1>3, <1>4 DEF Forward, Quiet

\* Every handler of a message but the two that advance a login.
LEMMA WorkerQuiet ==
    ASSUME IInv, NEW c \in Conns,
           \/ procLogout(c) \/ procErrorAck(c) \/ procCipher(c)
           \/ procForward(c) \/ procForwardNoerr(c) \/ procPlain(c)
           \/ procSend(c) \/ procSendNoerr(c) \/ procUnknown(c)
    PROVE  Quiet
<1>0. TypeOK /\ Isolation /\ RegistrySound /\ inq \in Queues
  BY DEF IInv, TypeOK, Queues
<1>1. fd[c] # "free" /\ inq[c] # <<>>
  BY DEF procLogout, procErrorAck, procLeave, procCipher, procForward,
         procForwardNoerr, procPlain, procSend, procSendNoerr, procUnknown, Handles
<1>2. Head(inq[c]) \in Envelope /\ Handled(c) \in Queues
  BY <1>0, <1>1, HandledType
<1>3. Clean(Handled(c), stat, uid1)
  BY <1>0, <1>1, HandledClean
<1>r. Msg(c).cmd \in RoutedCmds => Msg(c) \in RoutedMsg
  BY <1>2, EnvelopeKind DEF Msg
<1>4. CASE procLogout(c) \/ procErrorAck(c)
  <2>1. \A d \in Conns : stat[d] \in LoggedIn => stat'[d] \in LoggedIn
    BY <1>0, <1>4 DEF procLogout, procErrorAck, procLeave, LoggedIn, TypeOK
  <2> QED
    BY <1>0, <1>1, <1>3, <1>4, <2>1, CloseFree, HandledFree
    DEF procLogout, procErrorAck, procLeave, Quiet
<1>5. CASE procCipher(c)
  <2>1. Msg(c) \in RoutedMsg
    BY <1>5, <1>r DEF procCipher, Handles, Msg, RoutedCmds
  <2>2. cipher2PlainMsg(Msg(c)) \in RoutedMsg
    BY <2>1 DEF cipher2PlainMsg, RoutedMsg, RoutedCmds
  <2> QED
    BY <1>1, <1>5, <2>2, ForwardQuiet, RefuseQuiet DEF procCipher
<1>6. CASE procForward(c)
  <2>1. Msg(c) \in RoutedMsg
    BY <1>6, <1>r DEF procForward, Handles, Msg, RoutedCmds
  <2> QED
    BY <1>1, <1>6, <2>1, ForwardQuiet, RefuseQuiet DEF procForward
<1>7. CASE procForwardNoerr(c)
  <2>1. Msg(c) \in RoutedMsg /\ Msg(c).duid \in AllUids
    BY <1>7, <1>r DEF procForwardNoerr, Handles, Msg, RoutedCmds, RoutedMsg
  <2>2. Clean(_forward(Handled(c), Msg(c).duid, Msg(c)), stat, uid1)
    BY <1>0, <1>2, <1>3, <2>1, ForwardClean
  <2>3. \A d \in Conns : fd[d] = "free" =>
            _forward(Handled(c), Msg(c).duid, Msg(c))[d] = inq[d]
    BY <1>0, <1>1, <1>2, <2>1, ForwardFree, HandledFree
  <2> QED
    BY <1>1, <1>7, <2>2, <2>3, RefuseQuiet DEF procForwardNoerr, Quiet
<1>8. CASE procPlain(c)
  <2>1. Msg(c) \in RoutedMsg
    BY <1>8, <1>r DEF procPlain, Handles, Msg, RoutedCmds
  <2>2. CASE hasAuthed(c)
    <3>1. Clean(inq', stat, uid1)
      BY <1>0, <1>2, <1>3, <1>8, <2>1, <2>2, RspClean DEF procPlain
    <3>2. \A d \in Conns : fd[d] = "free" => inq'[d] = inq[d]
      BY <1>0, <1>1, <1>8, <2>1, <2>2, RspFree, HandledFree DEF procPlain
    <3> QED
      BY <1>8, <2>2, <3>1, <3>2 DEF procPlain, Quiet
  <2> QED
    BY <1>1, <1>8, <2>2, RefuseQuiet DEF procPlain
<1>9. CASE procSend(c)
  <2>1. Msg(c) \in RoutedMsg
    BY <1>9, <1>r DEF procSend, Handles, Msg, RoutedCmds
  <2>2. Clean(inq', stat, uid1)
    BY <1>0, <1>2, <1>3, <1>9, <2>1, RspClean DEF procSend
  <2>3. \A d \in Conns : fd[d] = "free" => inq'[d] = inq[d]
    BY <1>0, <1>1, <1>9, <2>1, RspFree, HandledFree DEF procSend
  <2> QED
    BY <1>0, <1>9, <2>2, <2>3, CloseFree DEF procSend, Quiet
<1>10. CASE procSendNoerr(c)
  BY <1>0, <1>1, <1>3, <1>10, CloseFree, HandledFree DEF procSendNoerr, Quiet
<1>11. CASE procUnknown(c)
  BY <1>0, <1>1, <1>3, <1>11, HandledFree DEF procUnknown, Quiet
<1> QED
  BY <1>4, <1>5, <1>6, <1>7, <1>8, <1>9, <1>10, <1>11
----------------------------------------------------------------------------
(* The inductive invariant and what follows from it.                       *)

\* A router without connections satisfies the invariant.
LEMMA IInvInit == Init => IInv
<1> SUFFICES ASSUME Init PROVE IInv
  OBVIOUS
<1>1. TypeOK
  BY SvrAssumption, MessagesAssumption DEF Init, TypeOK, AllUids
<1> QED
  BY <1>1 DEF Init, IInv, RegistrySound, FreeClean, Isolation

\* A new connection takes a free descriptor: it is not registered, and its
\* queue is empty.
LEMMA NewSockSound == ASSUME IInv, NEW c \in Conns, onNewSock(c) PROVE IInv'
<1>0. TypeOK /\ RegistrySound /\ FreeClean /\ Isolation
  BY DEF IInv
<1>1. fd[c] = "free" /\ inq[c] = <<>> /\ inq' = inq /\ users' = users /\ uid1' = uid1
  BY <1>0 DEF onNewSock, FreeClean
<1>2. \A d \in Conns \ {c} : fd'[d] = fd[d] /\ stat'[d] = stat[d]
  BY <1>0 DEF onNewSock, TypeOK
<1>3. RegistrySound'
  <2>1. \A u \in AllUids : users[u] # NoConn => users[u] \in Conns \ {c}
    BY <1>0, <1>1 DEF RegistrySound, TypeOK
  <2> QED
    BY <1>0, <1>1, <1>2, <2>1 DEF RegistrySound
<1>4. FreeClean'
  BY <1>0, <1>1, <1>2 DEF FreeClean, onNewSock, TypeOK
<1>5. Isolation'
  BY <1>0, <1>1, <1>2 DEF Isolation
<1> QED
  BY <1>0, <1>3, <1>4, <1>5, NewSockType DEF IInv

\* A process that has ended leaves nothing that could be registered or
\* routed.
LEMMA EndSound == ASSUME IInv, processEnds PROVE IInv'
<1>1. TypeOK'
  BY EndType DEF IInv
<1>2. RegistrySound' /\ FreeClean' /\ Isolation'
  BY DEF processEnds, RegistrySound, FreeClean, Isolation
<1> QED
  BY <1>1, <1>2 DEF IInv

\* The invariant is inductive: one case for each handler that changes a
\* login, the registry or the descriptors, the others by QuietStep.
LEMMA IInvStep == IInv /\ [Next]_vars => IInv'
<1> SUFFICES ASSUME IInv, [Next]_vars PROVE IInv'
  OBVIOUS
<1>0. TypeOK /\ RegistrySound /\ FreeClean /\ Isolation /\ inq \in Queues
  BY DEF IInv, TypeOK, Queues
<1>t. TypeOK'
  BY <1>0, TypeCorrectStep
<1>c. Clean(inq, stat, uid1)
  BY <1>0 DEF Isolation, Clean
<1>1. ASSUME NEW c \in Conns, onNewSock(c) PROVE IInv'
  BY <1>1, NewSockSound
<1>2. ASSUME NEW c \in Conns, Receive(c) PROVE IInv'
  BY <1>t, <1>c, <1>2, QuietStep DEF Receive, Quiet
<1>3. ASSUME NEW c \in Conns, PeerGone(c) PROVE IInv'
  BY <1>t, <1>c, <1>0, <1>3, QuietStep, CloseFree DEF PeerGone, Quiet
<1>4. ASSUME NEW c \in Conns, NEW m \in Inputs, parseData(c, m) PROVE IInv'
  <2> DEFINE e == [dir |-> "north", msg |-> m]
  <2>1. e \in Envelope /\ e.dir # "south"
    BY SvrAssumption DEF Envelope
  <2>2. Clean([inq EXCEPT ![c] = Append(@, e)], stat, uid1)
    BY <1>0, <1>c, <2>1, AppendClean
  <2>3. \A d \in Conns : fd[d] = "free" => inq'[d] = inq[d]
    BY <1>0, <1>4 DEF parseData, Open, TypeOK
  <2> QED
    BY <1>t, <1>4, <2>2, <2>3, QuietStep DEF parseData, Quiet
\* A handler that fails a login message.
<1>e. ASSUME NEW c \in Conns, fd[c] # "free", inq[c] # <<>>,
             inq' = Handled(c), errRsp(c)
      PROVE  IInv'
  BY <1>t, <1>0, <1>e, QuietStep, HandledClean, HandledFree, CloseFree
  DEF errRsp, Quiet
\* The uid of a connection is set only before its login is complete, when
\* it is neither registered nor routed to.
<1>5. ASSUME NEW c \in Conns, procLoginReq(c) PROVE IInv'
  <2>1. fd[c] # "free" /\ inq[c] # <<>> /\ inq' = Handled(c)
    BY <1>5 DEF procLoginReq, Handles
  <2>2. CASE ParsesLoginReq(c, Msg(c))
    <3>1. stat[c] = "SVR_HELO" /\ users' = users /\ fd' = fd
      BY <1>5, <2>2 DEF procLoginReq, ParsesLoginReq
    <3>2. \A d \in Conns \ {c} : uid1'[d] = uid1[d] /\ stat'[d] = stat[d]
      BY <1>0, <1>5, <2>2 DEF procLoginReq, TypeOK
    <3>3. stat[c] \notin LoggedIn
      BY <3>1 DEF LoggedIn
    <3>4. RegistrySound'
      <4>1. \A u \in AllUids : users[u] # NoConn => users[u] \in Conns \ {c}
        BY <1>0, <3>3 DEF RegistrySound, TypeOK
      <4> QED
        BY <1>0, <3>1, <3>2, <4>1 DEF RegistrySound
    <3>5. FreeClean'
      BY <1>0, <2>1, <3>1, HandledFree DEF FreeClean
    <3>6. Clean(inq', stat, uid1)
      BY <1>0, <2>1, HandledClean
    <3>7. Isolation'
      BY <3>2, <3>3, <3>6 DEF Clean, Isolation
    <3> QED
      BY <1>t, <3>4, <3>5, <3>7 DEF IInv
  <2>3. CASE ~ParsesLoginReq(c, Msg(c))
    BY <1>5, <1>e, <2>1, <2>3 DEF procLoginReq
  <2> QED
    BY <2>2, <2>3
<1>6. ASSUME NEW c \in Conns, procLoginEnd(c) PROVE IInv'
  <2>1. fd[c] # "free" /\ inq[c] # <<>> /\ inq' = Handled(c)
    BY <1>6 DEF procLoginEnd, Handles
  <2>2. CASE ParsesLoginEnd(c, Msg(c))
    <3>1. uid1' = uid1 /\ stat' = [stat EXCEPT ![c] = "AUTH_OK"]
      BY <1>6, <2>2 DEF procLoginEnd
    <3>2. \A d \in Conns : stat[d] \in LoggedIn => stat'[d] \in LoggedIn
      BY <1>0, <3>1 DEF LoggedIn, TypeOK
    <3>3. \A d \in Conns : (fd'[d] = "free") <=> (fd[d] = "free")
      BY <1>0, <1>6, <2>2, CloseFree DEF procLoginEnd
    <3>4. stat'[c] \in LoggedIn /\ fd'[c] # "free"
      BY <1>0, <2>1, <3>1, <3>3 DEF LoggedIn, TypeOK
    <3>5. \A u \in AllUids : users'[u] # users[u] =>
                users'[u] = c /\ u = uid1[c] /\ u # NoUid
      BY <1>0, <1>6, <2>2 DEF procLoginEnd, addUsr, TypeOK
    <3>6. RegistrySound'
      BY <1>0, <3>1, <3>2, <3>3, <3>4, <3>5 DEF RegistrySound, TypeOK
    <3>7. FreeClean'
      BY <1>0, <2>1, <3>3, HandledFree DEF FreeClean
    <3>8. Clean(inq', stat, uid1)
      BY <1>0, <2>1, HandledClean
    <3>9. Isolation'
      BY <3>1, <3>2, <3>8 DEF Clean, Isolation
    <3> QED
      BY <1>t, <3>6, <3>7, <3>9 DEF IInv
  <2>3. CASE ~ParsesLoginEnd(c, Msg(c))
    BY <1>6, <1>e, <2>1, <2>3 DEF procLoginEnd
  <2> QED
    BY <2>2, <2>3
\* A registered connection is registered under its own uid, so erasing the
\* entry of that uid leaves none that refers to the freed data.
<1>7. ASSUME NEW c \in Conns, onClose(c) PROVE IInv'
  <2>1. \A d \in Conns \ {c} : fd'[d] = fd[d] /\ uid1'[d] = uid1[d] /\ stat'[d] = stat[d]
    BY <1>0, <1>7 DEF onClose, TypeOK
  <2>2. \A u \in AllUids : users'[u] # NoConn => users'[u] = users[u] /\ u # uid1[c]
    BY <1>0, <1>7 DEF onClose, delUsr, TypeOK
  <2>3. RegistrySound'
    BY <1>0, <2>1, <2>2 DEF RegistrySound, TypeOK
  <2>4. inq'[c] = <<>>
    BY <1>0, <1>7 DEF onClose, broadcastUidExit, TypeOK
  <2>5. ASSUME NEW d \in Conns \ {c}
        PROVE  \/ inq'[d] = inq[d]
               \/ /\ Open(d) /\ users'[uid1[d]] = d /\ uid1[d] \in AllUids
                  /\ inq'[d] = Append(inq[d], [dir |-> "south", msg |-> exitMsg(uid1[c])])
    BY <1>0, <1>7 DEF onClose, broadcastUidExit, TypeOK
  <2>6. FreeClean'
    BY <1>0, <2>1, <2>4, <2>5 DEF FreeClean, Open
  <2>7. ASSUME NEW d \in Conns, NEW i \in 1..Len(inq'[d]), inq'[d][i].dir = "south"
        PROVE  /\ stat'[d] \in LoggedIn
               /\ IsRouted(inq'[d][i].msg) => inq'[d][i].msg.duid = uid1'[d]
    <3>1. d # c
      BY <2>4, <2>7
    <3>2. CASE i \in 1..Len(inq[d]) /\ inq'[d][i] = inq[d][i]
      BY <1>0, <2>1, <2>7, <3>1, <3>2 DEF Isolation
    <3>3. CASE inq'[d][i] = [dir |-> "south", msg |-> exitMsg(uid1[c])]
               /\ users'[uid1[d]] = d /\ uid1[d] \in AllUids
      <4>1. stat'[d] \in LoggedIn
        BY <1>0, <2>1, <2>2, <3>1, <3>3, SvrAssumption, MessagesAssumption DEF RegistrySound
      <4>2. ~IsRouted(inq'[d][i].msg)
        BY <3>3 DEF IsRouted, exitMsg, RoutedCmds, NoerrCmds, TunnelCmds
      <4> QED
        BY <4>1, <4>2
    <3>4. inq[d] \in Seq(Envelope)
      BY <1>0 DEF Queues
    <3> QED
      BY <2>5, <2>7, <3>1, <3>2, <3>3, <3>4
  <2>8. Isolation'
    BY <2>7 DEF Isolation
  <2> QED
    BY <1>t, <2>3, <2>6, <2>8 DEF IInv
<1>8. CASE UNCHANGED vars
  BY <1>t, <1>c, <1>8, QuietStep DEF vars, Quiet
<1>9. ASSUME NEW c \in Conns, procCipherNull(c) PROVE IInv'
  BY <1>9, EndSound DEF procCipherNull
<1> QED
  BY <1>t, <1>1, <1>2, <1>3, <1>4, <1>5, <1>6, <1>7, <1>8, <1>9, WorkerQuiet, QuietStep
  DEF Next, Network, process

\* The invariant holds in every state the router reaches.
LEMMA Inductive == Spec => []IInv
  BY IInvInit, IInvStep, PTL DEF Spec

\* m_users never refers to freed connection data, and a user's entry is a
\* connection that logged in as that user (RegistrySound), although delUsr
\* erases by uid and descriptors are used again.
THEOREM RegistryIsSound == Spec => []RegistrySound
<1>1. IInv => RegistrySound
  BY DEF IInv
<1> QED
  BY <1>1, Inductive, PTL

\* What is queued for a connection was addressed to the user that logged in
\* on it (Isolation).
THEOREM RoutingIsIsolated == Spec => []Isolation
<1>1. IInv => Isolation
  BY DEF IInv
<1> QED
  BY <1>1, Inductive, PTL

\* No login replaces the connection of a registered user (NoTakeover).
THEOREM LoginTakesNothingOver == Spec => NoTakeover
<1>1. TypeOK /\ [Next]_vars =>
        [\A u \in Uids : users[u] # NoConn /\ users'[u] # NoConn
            => users'[u] = users[u]]_vars
  <2> SUFFICES ASSUME TypeOK, Next,
                      NEW u \in Uids, users[u] # NoConn, users'[u] # NoConn
               PROVE  users'[u] = users[u]
    OBVIOUS
  <2>1. ASSUME NEW c \in Conns, procLoginEnd(c) PROVE users'[u] = users[u]
    BY <2>1 DEF procLoginEnd, existUsr, addUsr, errRsp, TypeOK, AllUids
  <2>2. ASSUME NEW c \in Conns, onClose(c) PROVE users'[u] = users[u]
    BY <2>2 DEF onClose, delUsr, TypeOK, AllUids
  <2>3. ASSUME NEW c \in Conns,
               \/ Network(c) \/ procLoginReq(c) \/ procLogout(c)
               \/ procErrorAck(c) \/ procCipher(c) \/ procForward(c)
               \/ procForwardNoerr(c) \/ procPlain(c) \/ procSend(c)
               \/ procSendNoerr(c) \/ procUnknown(c)
        PROVE  users'[u] = users[u]
    BY <2>3 DEF Network, onNewSock, Receive, PeerGone, parseData, procLoginReq,
         errRsp, procLogout, procErrorAck, procLeave, procCipher, procForward,
         procForwardNoerr, procPlain, procSend, procSendNoerr, procUnknown,
         Forward, Refuse
  <2>4. ASSUME NEW c \in Conns, procCipherNull(c) PROVE users'[u] = users[u]
    BY <2>4 DEF procCipherNull, processEnds, AllUids
  <2> QED
    BY <2>1, <2>2, <2>3, <2>4 DEF Next, process
<1> QED
  BY <1>1, TypeCorrect, PTL DEF Spec, NoTakeover
----------------------------------------------------------------------------
(***************************************************************************)
(* The exit broadcast is the last word of a user (LastWord).  The          *)
(* argument: what a connection routes is signed with its own uid           *)
(* (Orderly), so its sender is live; a live connection stays logged in     *)
(* until onClose, which puts the broadcast behind everything; and a        *)
(* connection that begins to serve has nothing routed in its queue         *)
(* (Isolation) or on its wire (WireClean).                                 *)
(***************************************************************************)

\* A LOGIN_END that passes its check.
IsEnd(e) == e.dir = "north" /\ e.msg.cmd = "LOGIN_END" /\ e.msg.ok

\* In the queue q of a connection in state s of user u: no LOGIN_END that
\* answers an EXCH_KEY before that was sent, and what is routed after the
\* login comes from u itself.
Orderly(q, s, u) ==
    /\ s \in {"INVALID", "SVR_HELO"} => \A i \in 1..Len(q) : ~IsEnd(q[i])
    /\ \A j \in 1..Len(q) :
          /\ q[j].dir = "north" /\ IsRouted(q[j].msg)
          /\ s = "AUTH_OK" \/ \E i \in 1..Len(q) : i < j /\ IsEnd(q[i])
          => q[j].msg.suid = u

OrderlyAll == \A c \in Conns : Orderly(inq[c], stat[c], uid1[c])

\* Nothing was routed to a connection before its login.
WireClean ==
    \A c \in Conns : stat[c] \in {"SVR_HELO", "SVR_EXCH_KEY"} =>
        \A i \in 1..Len(out[c]) : ~IsRouted(out[c][i])

LInv == IInv /\ OrderlyAll /\ WireClean /\ LastWord
----------------------------------------------------------------------------
(* How the line of a connection may change.                                *)

exitEnvelope(u) == [dir |-> "south", msg |-> exitMsg(u)]

\* More live users cover more.
LEMMA CoversLive ==
    ASSUME NEW q, NEW o, NEW L, NEW M, L \subseteq M, Covers(q, o, L)
    PROVE  Covers(q, o, M)
  BY DEF Covers

\* Anything but an exit broadcast may be taken from the queue.
LEMMA CoversPop ==
    ASSUME NEW q \in Seq(Envelope), NEW o \in Seq(OutMsg), NEW L,
           q # <<>>, Covers(q, o, L),
           \A u : Head(q) # exitEnvelope(u)
    PROVE  Covers(Tail(q), o, L)
<1>1. /\ Tail(q) \in Seq(Envelope) /\ Len(Tail(q)) = Len(q) - 1 /\ Len(q) \in Nat
      /\ \A i \in 1..Len(Tail(q)) : Tail(q)[i] = q[i + 1] /\ i + 1 \in 1..Len(q)
      /\ Head(q) = q[1]
  OBVIOUS
<1>2. ASSUME NEW j \in 1..Len(q), j > 1
      PROVE  \E k \in 1..Len(Tail(q)) : k + 1 = j /\ Tail(q)[k] = q[j]
  <2>1. j - 1 \in 1..Len(Tail(q)) /\ (j - 1) + 1 = j
    BY <1>1, <1>2
  <2> QED
    BY <1>1, <2>1
<1>3. ASSUME NEW u, NEW j \in 1..Len(q), q[j] = exitEnvelope(u)
      PROVE  j > 1
  BY <1>1, <1>3
<1>4. ASSUME NEW i \in 1..Len(o), IsRouted(o[i]), o[i].suid \notin L
      PROVE  \/ \E j \in 1..Len(o) : j > i /\ o[j] = exitMsg(o[i].suid)
             \/ \E k \in 1..Len(Tail(q)) : Tail(q)[k] = exitEnvelope(o[i].suid)
  <2>1. CASE \E j \in 1..Len(o) : j > i /\ o[j] = exitMsg(o[i].suid)
    BY <2>1
  <2>2. CASE \E j \in 1..Len(q) : q[j] = exitEnvelope(o[i].suid)
    BY <1>2, <1>3, <2>2
  <2> QED
    BY <1>4, <2>1, <2>2 DEF Covers, exitEnvelope
<1>5. ASSUME NEW i \in 1..Len(Tail(q)), Tail(q)[i].dir = "south",
             IsRouted(Tail(q)[i].msg), Tail(q)[i].msg.suid \notin L
      PROVE  \E k \in 1..Len(Tail(q)) :
                k > i /\ Tail(q)[k] = exitEnvelope(Tail(q)[i].msg.suid)
  <2>1. PICK j \in 1..Len(q) : j > i + 1 /\ q[j] = exitEnvelope(q[i + 1].msg.suid)
    BY <1>1, <1>5 DEF Covers, exitEnvelope
  <2>2. PICK k \in 1..Len(Tail(q)) : k + 1 = j /\ Tail(q)[k] = q[j]
    BY <1>1, <1>2, <2>1
  <2> QED
    BY <1>1, <2>1, <2>2
<1> QED
  BY <1>4, <1>5 DEF Covers, exitEnvelope

\* What a live user sends may be queued, and so may what is not routed.
LEMMA CoversAppend ==
    ASSUME NEW q \in Seq(Envelope), NEW o \in Seq(OutMsg), NEW L,
           NEW e \in Envelope, Covers(q, o, L),
           e.dir = "south" /\ IsRouted(e.msg) => e.msg.suid \in L
    PROVE  Covers(Append(q, e), o, L)
<1>1. /\ Len(Append(q, e)) = Len(q) + 1 /\ Len(q) \in Nat
      /\ \A i \in 1..Len(q) : Append(q, e)[i] = q[i] /\ i \in 1..Len(Append(q, e))
      /\ Append(q, e)[Len(q) + 1] = e
      /\ \A i \in 1..Len(Append(q, e)) : i \in 1..Len(q) \/ i = Len(q) + 1
  OBVIOUS
<1> QED
  BY <1>1 DEF Covers

\* The exit broadcast of a user covers all that came from it.
LEMMA CoversExit ==
    ASSUME NEW q \in Seq(Envelope), NEW o \in Seq(OutMsg), NEW L, NEW M, NEW u,
           Covers(q, o, L), L \subseteq M \union {u}
    PROVE  Covers(Append(q, exitEnvelope(u)), o, M)
<1> DEFINE e == exitEnvelope(u)
<1>1. /\ Len(Append(q, e)) = Len(q) + 1 /\ Len(q) \in Nat
      /\ \A i \in 1..Len(q) : Append(q, e)[i] = q[i] /\ i \in 1..Len(Append(q, e))
      /\ Append(q, e)[Len(q) + 1] = e /\ Len(q) + 1 \in 1..Len(Append(q, e))
      /\ \A i \in 1..Len(Append(q, e)) : i \in 1..Len(q) \/ i = Len(q) + 1
      /\ \A i \in 1..Len(q) : Len(q) + 1 > i
  OBVIOUS
<1>2. ~IsRouted(e.msg)
  BY DEF exitEnvelope, exitMsg, IsRouted, RoutedCmds, NoerrCmds, TunnelCmds
<1>3. ASSUME NEW i \in 1..Len(o), IsRouted(o[i]), o[i].suid \notin M
      PROVE  \/ \E j \in 1..Len(o) : j > i /\ o[j] = exitMsg(o[i].suid)
             \/ \E k \in 1..Len(Append(q, e)) : Append(q, e)[k] = exitEnvelope(o[i].suid)
  <2>1. CASE o[i].suid = u
    BY <1>1, <2>1
  <2>2. CASE o[i].suid \notin L
    BY <1>1, <1>3, <2>2 DEF Covers, exitEnvelope
  <2> QED
    BY <1>3, <2>1, <2>2
<1>4. ASSUME NEW i \in 1..Len(Append(q, e)), Append(q, e)[i].dir = "south",
             IsRouted(Append(q, e)[i].msg), Append(q, e)[i].msg.suid \notin M
      PROVE  \E k \in 1..Len(Append(q, e)) :
                k > i /\ Append(q, e)[k] = exitEnvelope(Append(q, e)[i].msg.suid)
  <2>1. i \in 1..Len(q) /\ Append(q, e)[i] = q[i]
    BY <1>1, <1>2, <1>4
  <2>2. CASE q[i].msg.suid = u
    BY <1>1, <2>1, <2>2
  <2>3. CASE q[i].msg.suid \notin L
    BY <1>1, <1>4, <2>1, <2>3 DEF Covers, exitEnvelope
  <2> QED
    BY <1>4, <2>1, <2>2, <2>3
<1> QED
  BY <1>3, <1>4 DEF Covers, exitEnvelope

\* What a live user sends may go on the wire, and so may what is not routed.
LEMMA CoversSend ==
    ASSUME NEW q \in Seq(Envelope), NEW o \in Seq(OutMsg), NEW L,
           NEW m \in OutMsg, Covers(q, o, L),
           IsRouted(m) => m.suid \in L
    PROVE  Covers(q, Append(o, m), L)
<1>1. /\ Len(Append(o, m)) = Len(o) + 1 /\ Len(o) \in Nat
      /\ \A i \in 1..Len(o) : Append(o, m)[i] = o[i] /\ i \in 1..Len(Append(o, m))
      /\ Append(o, m)[Len(o) + 1] = m
      /\ \A i \in 1..Len(Append(o, m)) : i \in 1..Len(o) \/ i = Len(o) + 1
  OBVIOUS
<1> QED
  BY <1>1 DEF Covers

\* The peer receives from the front.
LEMMA CoversReceive ==
    ASSUME NEW q \in Seq(Envelope), NEW o \in Seq(OutMsg), NEW L,
           o # <<>>, Covers(q, o, L)
    PROVE  Covers(q, Tail(o), L)
<1>1. /\ Len(Tail(o)) = Len(o) - 1 /\ Len(o) \in Nat
      /\ \A i \in 1..Len(Tail(o)) : Tail(o)[i] = o[i + 1] /\ i + 1 \in 1..Len(o)
  OBVIOUS
<1>2. ASSUME NEW i \in 1..Len(Tail(o)), NEW j \in 1..Len(o), j > i + 1
      PROVE  \E k \in 1..Len(Tail(o)) : k > i /\ Tail(o)[k] = o[j]
  <2>1. j - 1 \in 1..Len(Tail(o)) /\ (j - 1) + 1 = j /\ j - 1 > i
    BY <1>1, <1>2
  <2> QED
    BY <1>1, <2>1
<1>3. ASSUME NEW i \in 1..Len(Tail(o)), IsRouted(Tail(o)[i]), Tail(o)[i].suid \notin L
      PROVE  \/ \E k \in 1..Len(Tail(o)) : k > i /\ Tail(o)[k] = exitMsg(Tail(o)[i].suid)
             \/ \E j \in 1..Len(q) : q[j] = exitEnvelope(Tail(o)[i].suid)
  <2> DEFINE u == Tail(o)[i].suid
  <2>1. o[i + 1] = Tail(o)[i] /\ i + 1 \in 1..Len(o)
    BY <1>1
  <2>2. \/ \E j \in 1..Len(o) : j > i + 1 /\ o[j] = exitMsg(u)
        \/ \E j \in 1..Len(q) : q[j] = exitEnvelope(u)
    BY <1>3, <2>1 DEF Covers, exitEnvelope
  <2> QED
    BY <1>2, <2>2
<1> QED
  BY <1>3 DEF Covers, exitEnvelope

\* The head of the queue moves to the wire: the message itself, or another
\* routed one from the same user.
LEMMA CoversMove ==
    ASSUME NEW q \in Seq(Envelope), NEW o \in Seq(OutMsg), NEW L,
           NEW m \in OutMsg, q # <<>>, Covers(q, o, L), Head(q).dir = "south",
           \/ m = Head(q).msg
           \/ IsRouted(m) /\ IsRouted(Head(q).msg) /\ m.suid = Head(q).msg.suid
    PROVE  Covers(Tail(q), Append(o, m), L)
<1>1. /\ Len(Tail(q)) = Len(q) - 1 /\ Len(q) \in Nat /\ Head(q) = q[1] /\ 1 \in 1..Len(q)
      /\ \A i \in 1..Len(Tail(q)) : Tail(q)[i] = q[i + 1] /\ i + 1 \in 1..Len(q)
  OBVIOUS
<1>2. /\ Len(Append(o, m)) = Len(o) + 1 /\ Len(o) \in Nat
      /\ \A i \in 1..Len(o) : Append(o, m)[i] = o[i] /\ i \in 1..Len(Append(o, m))
                              /\ Len(o) + 1 > i
      /\ Append(o, m)[Len(o) + 1] = m /\ Len(o) + 1 \in 1..Len(Append(o, m))
      /\ \A i \in 1..Len(Append(o, m)) : i \in 1..Len(o) \/ i = Len(o) + 1
  OBVIOUS
<1>3. ASSUME NEW j \in 1..Len(q), j > 1
      PROVE  \E k \in 1..Len(Tail(q)) : k + 1 = j /\ Tail(q)[k] = q[j]
  <2>1. j - 1 \in 1..Len(Tail(q)) /\ (j - 1) + 1 = j
    BY <1>1, <1>3
  <2> QED
    BY <1>1, <2>1
<1>4. \A u : q[1] = exitEnvelope(u) => m = exitMsg(u)
  BY <1>1 DEF exitEnvelope, exitMsg, IsRouted, RoutedCmds, NoerrCmds, TunnelCmds
<1>5. ASSUME NEW i \in 1..Len(o), IsRouted(o[i]), o[i].suid \notin L
      PROVE  \/ \E j \in 1..Len(Append(o, m)) : j > i /\ Append(o, m)[j] = exitMsg(o[i].suid)
             \/ \E k \in 1..Len(Tail(q)) : Tail(q)[k] = exitEnvelope(o[i].suid)
  <2>1. CASE \E j \in 1..Len(o) : j > i /\ o[j] = exitMsg(o[i].suid)
    BY <1>2, <2>1
  <2>2. ASSUME NEW j \in 1..Len(q), q[j] = exitEnvelope(o[i].suid)
        PROVE  \/ Append(o, m)[Len(o) + 1] = exitMsg(o[i].suid)
               \/ \E k \in 1..Len(Tail(q)) : Tail(q)[k] = exitEnvelope(o[i].suid)
    <3>1. CASE j = 1
      BY <1>2, <1>4, <2>2, <3>1
    <3>2. CASE j > 1
      BY <1>3, <2>2, <3>2
    <3> QED
      BY <1>1, <3>1, <3>2
  <2> QED
    BY <1>2, <1>5, <2>1, <2>2 DEF Covers, exitEnvelope
<1>6. ASSUME IsRouted(m), m.suid \notin L
      PROVE  \E k \in 1..Len(Tail(q)) : Tail(q)[k] = exitEnvelope(m.suid)
  <2>1. PICK j \in 1..Len(q) : j > 1 /\ q[j] = exitEnvelope(m.suid)
    BY <1>1, <1>6 DEF Covers, exitEnvelope
  <2> QED
    BY <1>3, <2>1
<1>7. ASSUME NEW i \in 1..Len(Tail(q)), Tail(q)[i].dir = "south",
             IsRouted(Tail(q)[i].msg), Tail(q)[i].msg.suid \notin L
      PROVE  \E k \in 1..Len(Tail(q)) :
                k > i /\ Tail(q)[k] = exitEnvelope(Tail(q)[i].msg.suid)
  <2>1. PICK j \in 1..Len(q) : j > i + 1 /\ q[j] = exitEnvelope(q[i + 1].msg.suid)
    BY <1>1, <1>7 DEF Covers, exitEnvelope
  <2>2. PICK k \in 1..Len(Tail(q)) : k + 1 = j /\ Tail(q)[k] = q[j]
    BY <1>1, <1>3, <2>1
  <2> QED
    BY <1>1, <2>1, <2>2
<1>8. ASSUME NEW i \in 1..Len(Append(o, m)), IsRouted(Append(o, m)[i]),
             Append(o, m)[i].suid \notin L
      PROVE  \/ \E j \in 1..Len(Append(o, m)) :
                    j > i /\ Append(o, m)[j] = exitMsg(Append(o, m)[i].suid)
             \/ \E k \in 1..Len(Tail(q)) :
                    Tail(q)[k] = exitEnvelope(Append(o, m)[i].suid)
  BY <1>2, <1>5, <1>6, <1>8
<1> QED
  BY <1>7, <1>8 DEF Covers, exitEnvelope
----------------------------------------------------------------------------
(* How the order of a queue is kept.                                       *)

\* Messages leave a queue from the front.
LEMMA OrderlyPop ==
    ASSUME NEW q \in Seq(Envelope), NEW s, NEW u, q # <<>>, Orderly(q, s, u)
    PROVE  Orderly(Tail(q), s, u)
<1>1. /\ Len(Tail(q)) = Len(q) - 1 /\ Len(q) \in Nat
      /\ \A i \in 1..Len(Tail(q)) : Tail(q)[i] = q[i + 1] /\ i + 1 \in 1..Len(q)
      /\ \A i, j \in 1..Len(Tail(q)) : i < j => i + 1 < j + 1
  OBVIOUS
<1> QED
  BY <1>1 DEF Orderly

\* A message is queued that is signed with the connection's uid, or routed
\* to it, or a LOGIN_END after the EXCH_KEY.
LEMMA OrderlyAppend ==
    ASSUME NEW q \in Seq(Envelope), NEW s, NEW u, NEW e \in Envelope,
           Orderly(q, s, u),
           IsEnd(e) => s \notin {"INVALID", "SVR_HELO"},
           e.dir = "north" /\ IsRouted(e.msg) => e.msg.suid = u
    PROVE  Orderly(Append(q, e), s, u)
<1>1. /\ Len(Append(q, e)) = Len(q) + 1 /\ Len(q) \in Nat
      /\ \A i \in 1..Len(q) : Append(q, e)[i] = q[i] /\ i \in 1..Len(Append(q, e))
      /\ Append(q, e)[Len(q) + 1] = e
      /\ \A i \in 1..Len(Append(q, e)) : i \in 1..Len(q) \/ i = Len(q) + 1
      /\ \A i \in 1..Len(Append(q, e)), j \in 1..Len(q) : i < j => i \in 1..Len(q)
  OBVIOUS
<1>2. s \in {"INVALID", "SVR_HELO"} =>
        \A i \in 1..Len(Append(q, e)) : ~IsEnd(Append(q, e)[i])
  BY <1>1 DEF Orderly
<1>3. ASSUME NEW j \in 1..Len(Append(q, e)), Append(q, e)[j].dir = "north",
             IsRouted(Append(q, e)[j].msg),
             \/ s = "AUTH_OK"
             \/ \E i \in 1..Len(Append(q, e)) : i < j /\ IsEnd(Append(q, e)[i])
      PROVE  Append(q, e)[j].msg.suid = u
  <2>1. CASE j = Len(q) + 1
    BY <1>1, <1>3, <2>1
  <2>2. CASE j \in 1..Len(q)
    BY <1>1, <1>3, <2>2 DEF Orderly
  <2> QED
    BY <1>1, <2>1, <2>2
<1> QED
  BY <1>2, <1>3 DEF Orderly

\* The LOGIN_END at the head logs the connection in.
LEMMA OrderlyLogin ==
    ASSUME NEW q \in Seq(Envelope), NEW s, NEW u, q # <<>>, Orderly(q, s, u),
           IsEnd(Head(q))
    PROVE  Orderly(Tail(q), "AUTH_OK", u)
<1>1. /\ Len(Tail(q)) = Len(q) - 1 /\ Len(q) \in Nat /\ Head(q) = q[1] /\ 1 \in 1..Len(q)
      /\ \A i \in 1..Len(Tail(q)) : Tail(q)[i] = q[i + 1] /\ i + 1 \in 1..Len(q) /\ 1 < i + 1
  OBVIOUS
<1> QED
  BY <1>1 DEF Orderly

\* Before the EXCH_KEY no LOGIN_END can have been sent that fits it.
LEMMA OrderlyReq ==
    ASSUME NEW q \in Seq(Envelope), NEW u, NEW v, q # <<>>, Orderly(q, "SVR_HELO", u)
    PROVE  Orderly(Tail(q), "SVR_EXCH_KEY", v)
<1>1. /\ Len(Tail(q)) = Len(q) - 1 /\ Len(q) \in Nat
      /\ \A i \in 1..Len(Tail(q)) : Tail(q)[i] = q[i + 1] /\ i + 1 \in 1..Len(q)
  OBVIOUS
<1> QED
  BY <1>1 DEF Orderly

\* A connection that leaves the login protocol routes nothing more.
LEMMA OrderlyLeave ==
    ASSUME NEW q, NEW s, NEW t \in {"LOGOUT", "ERROR"}, NEW u, Orderly(q, s, u)
    PROVE  Orderly(q, t, u)
  BY DEF Orderly
----------------------------------------------------------------------------
(* What the helpers of the router keep.                                    *)

\* With the queues q and the wires o.
AllCovered(q, o) ==
    \A c \in Conns : Serving(c) => Covers(q[c], o[c], LiveUids)

AllOrderly(q) == \A c \in Conns : Orderly(q[c], stat[c], uid1[c])

\* The user of a logged-in connection is live.
LEMMA LiveSelf ==
    ASSUME NEW c \in Conns, fd[c] # "free", stat[c] \in LoggedIn
    PROVE  uid1[c] \in LiveUids
  BY DEF LiveUids

\* An exit broadcast is the one message that covers others.
LEMMA NotExit ==
    ASSUME NEW e, e.dir # "south" \/ e.msg.cmd # "UID_EXIT_BROADCAST"
    PROVE  \A u : e # exitEnvelope(u)
  BY DEF exitEnvelope, exitMsg

\* A handler takes a message that is no exit broadcast from its queue.
LEMMA HandledCovered ==
    ASSUME TypeOK, LastWord, OrderlyAll, NEW c \in Conns, inq[c] # <<>>,
           ~Open(c) \/ Head(inq[c]).dir # "south"
                    \/ Head(inq[c]).msg.cmd # "UID_EXIT_BROADCAST"
    PROVE  AllCovered(Handled(c), out) /\ AllOrderly(Handled(c))
<1>1. inq[c] \in Seq(Envelope) /\ out[c] \in Seq(OutMsg)
  BY DEF TypeOK, OutMsg
<1>2. /\ Handled(c)[c] = Tail(inq[c])
      /\ \A d \in Conns \ {c} : Handled(c)[d] = inq[d]
  BY DEF Handled, TypeOK
<1>3. Serving(c) => Covers(Tail(inq[c]), out[c], LiveUids)
  BY <1>1, NotExit, CoversPop DEF LastWord, Serving
<1>4. Orderly(Tail(inq[c]), stat[c], uid1[c])
  BY <1>1, OrderlyPop DEF OrderlyAll
<1> QED
  BY <1>2, <1>3, <1>4 DEF AllCovered, AllOrderly, LastWord, OrderlyAll

\* A handler forwards what comes from a live user.
LEMMA ForwardCovered ==
    ASSUME TypeOK, NEW q \in Queues, NEW o \in Wires, NEW u \in AllUids,
           NEW m \in RoutedMsg, m.suid \in LiveUids,
           AllCovered(q, o), AllOrderly(q)
    PROVE  AllCovered(_forward(q, u, m), o) /\ AllOrderly(_forward(q, u, m))
<1> DEFINE e == [dir |-> "south", msg |-> m]
<1>1. CASE Forwardable(u)
  <2>1. users[u] \in Conns /\ e \in Envelope /\ ~IsEnd(e) /\ e.dir # "north"
    BY <1>1 DEF Forwardable, existUsr, TypeOK, Envelope, IsEnd
  <2>2. /\ _forward(q, u, m)[users[u]] = Append(q[users[u]], e)
        /\ \A d \in Conns \ {users[u]} : _forward(q, u, m)[d] = q[d]
    BY <1>1, <2>1 DEF _forward, Queues
  <2>3. q[users[u]] \in Seq(Envelope) /\ o[users[u]] \in Seq(OutMsg)
    BY <2>1 DEF Queues, Wires
  <2>4. Serving(users[u]) => Covers(Append(q[users[u]], e), o[users[u]], LiveUids)
    BY <2>1, <2>3, CoversAppend DEF AllCovered
  <2>5. Orderly(Append(q[users[u]], e), stat[users[u]], uid1[users[u]])
    BY <2>1, <2>3, OrderlyAppend DEF AllOrderly
  <2> QED
    BY <2>1, <2>2, <2>4, <2>5 DEF AllCovered, AllOrderly
<1>2. CASE ~Forwardable(u)
  BY <1>2 DEF _forward
<1> QED
  BY <1>1, <1>2

\* A handler sends what comes from a live user, or is not routed.
LEMMA SendCovered ==
    ASSUME TypeOK, NEW q \in Queues, NEW c \in Conns, NEW m \in OutMsg,
           IsRouted(m) => m.suid \in LiveUids, AllCovered(q, out)
    PROVE  AllCovered(q, _sendMsg(c, m))
<1>1. q[c] \in Seq(Envelope) /\ out[c] \in Seq(OutMsg)
  BY DEF Queues, TypeOK, OutMsg
<1>2. Serving(c) => Covers(q[c], Append(out[c], m), LiveUids)
  BY <1>1, CoversSend DEF AllCovered
<1> QED
  BY <1>2 DEF _sendMsg, AllCovered, TypeOK

\* A handler sends what it takes from its queue.
LEMMA MoveCovered ==
    ASSUME TypeOK, LastWord, NEW c \in Conns, inq[c] # <<>>,
           Head(inq[c]).dir = "south", Open(c), NEW m \in OutMsg,
           \/ m = Msg(c)
           \/ IsRouted(m) /\ IsRouted(Msg(c)) /\ m.suid = Msg(c).suid
    PROVE  AllCovered(Handled(c), _sendMsg(c, m))
<1>1. inq[c] \in Seq(Envelope) /\ out[c] \in Seq(OutMsg)
  BY DEF TypeOK, OutMsg
<1>2. /\ Handled(c)[c] = Tail(inq[c]) /\ _sendMsg(c, m)[c] = Append(out[c], m)
      /\ \A d \in Conns \ {c} : Handled(c)[d] = inq[d] /\ _sendMsg(c, m)[d] = out[d]
  BY DEF Handled, _sendMsg, Sendable, TypeOK
<1>3. Serving(c) => Covers(Tail(inq[c]), Append(out[c], m), LiveUids)
  BY <1>1, CoversMove DEF LastWord, Msg
<1> QED
  BY <1>2, <1>3 DEF AllCovered, LastWord

\* A logged-in connection answers what cannot be delivered.
LEMMA RspCovered ==
    ASSUME TypeOK, NEW c \in Conns, fd[c] # "free", stat[c] \in LoggedIn,
           NEW q \in Queues, NEW m \in RoutedMsg, rspUsrUnreach(c, q, m),
           AllCovered(q, out), AllOrderly(q)
    PROVE  AllCovered(inq', out') /\ AllOrderly(inq')
<1> DEFINE e == genUnreachMsg(uid1[c], m)
<1>1. uid1[c] \in AllUids /\ m.suid \in AllUids /\ uid1[c] \in LiveUids
  BY LiveSelf DEF TypeOK, RoutedMsg
<1>2. e \in RoutedMsg /\ e \in OutMsg /\ e.suid = uid1[c]
  BY <1>1, UnreachType DEF OutMsg, genUnreachMsg
<1>3. out' = out \/ out' = _sendMsg(c, e)
  BY DEF rspUsrUnreach
<1>4. out \in Wires
  BY DEF TypeOK, Wires, OutMsg
<1>5. out' \in Wires /\ AllCovered(q, out')
  BY <1>1, <1>2, <1>3, <1>4, SendType, SendCovered
<1>6. inq' = q \/ inq' = _forward(q, m.suid, e)
  BY DEF rspUsrUnreach
<1> QED
  BY <1>1, <1>2, <1>5, <1>6, ForwardCovered
CleanWires(o) ==
    \A c \in Conns : stat[c] \in {"SVR_HELO", "SVR_EXCH_KEY"} =>
        \A i \in 1..Len(o[c]) : ~IsRouted(o[c][i])

\* Before its login a connection is sent nothing routed.
LEMMA SendClean ==
    ASSUME TypeOK, WireClean, NEW c \in Conns, NEW m \in OutMsg,
           ~IsRouted(m) \/ stat[c] \in LoggedIn
    PROVE  CleanWires(_sendMsg(c, m))
<1>1. out[c] \in Seq(OutMsg)
  BY DEF TypeOK, OutMsg
<1>2. /\ Len(Append(out[c], m)) = Len(out[c]) + 1
      /\ \A i \in 1..Len(out[c]) : Append(out[c], m)[i] = out[c][i]
      /\ Append(out[c], m)[Len(out[c]) + 1] = m
      /\ \A i \in 1..Len(Append(out[c], m)) : i \in 1..Len(out[c]) \/ i = Len(out[c]) + 1
  BY <1>1
<1>3. stat[c] \in {"SVR_HELO", "SVR_EXCH_KEY"} =>
        \A i \in 1..Len(Append(out[c], m)) : ~IsRouted(Append(out[c], m)[i])
  BY <1>2 DEF WireClean, LoggedIn
<1> QED
  BY <1>3 DEF _sendMsg, CleanWires, WireClean, TypeOK
----------------------------------------------------------------------------
(* The steps that begin or end no login and make no connection.            *)

\* A step that only closes descriptors, leaves logins, and changes queues
\* and wires as the invariant wants.
Kept ==
    /\ users' = users /\ uid1' = uid1
    /\ \A c \in Conns : fd'[c] = "open" => fd[c] = "open"
    /\ \A c \in Conns : fd[c] # "free" => fd'[c] # "free"
    /\ \A c \in Conns : stat'[c] = stat[c] \/ stat'[c] \in {"LOGOUT", "ERROR"}
    /\ AllCovered(inq', out') /\ AllOrderly(inq') /\ CleanWires(out')

\* Such a step keeps the invariant.
LEMMA KeptStep ==
    ASSUME LInv, IInv', Kept
    PROVE  LInv'
<1>1. LiveUids \subseteq LiveUids'
  BY DEF Kept, LiveUids, LoggedIn
<1>2. LastWord'
  BY <1>1, CoversLive DEF Kept, AllCovered, LastWord, Serving, Open
<1>3. OrderlyAll'
  BY OrderlyLeave DEF Kept, AllOrderly, OrderlyAll
<1>4. WireClean'
  BY DEF Kept, CleanWires, WireClean
<1> QED
  BY <1>2, <1>3, <1>4 DEF LInv

\* closeData and the handlers' errors only close.
LEMMA CloseKept ==
    ASSUME TypeOK, NEW c \in Conns, fd' = closeData(fd, c)
    PROVE  /\ \A d \in Conns : fd'[d] = "open" => fd[d] = "open"
           /\ \A d \in Conns : fd[d] # "free" => fd'[d] # "free"
  BY DEF closeData, TypeOK

\* What a handler may assume of the message it handles.
LEMMA HandlesType ==
    ASSUME IInv, NEW c \in Conns, inq[c] # <<>>
    PROVE  /\ Msg(c).cmd \in RoutedCmds => Msg(c) \in RoutedMsg
           /\ Msg(c) \in OutMsg \/ Head(inq[c]).dir = "north"
           /\ Handled(c) \in Queues
           /\ Head(inq[c]).dir = "south" => stat[c] \in LoggedIn
<1>1. Head(inq[c]) \in Envelope /\ Handled(c) \in Queues
  BY HandledType DEF IInv, TypeOK, Queues
<1>2. 1 \in 1..Len(inq[c]) /\ inq[c][1] = Head(inq[c])
  BY DEF IInv, TypeOK
<1>3. Head(inq[c]).dir = "south" => stat[c] \in LoggedIn
  BY <1>2 DEF IInv, Isolation
<1>4. Msg(c) \in OutMsg \/ Head(inq[c]).dir = "north"
  BY <1>1 DEF Envelope, OutMsg, Msg
<1> QED
  BY <1>1, <1>3, <1>4, EnvelopeKind DEF Msg

\* A logged-in connection's next message is signed with its own uid.
LEMMA Signed ==
    ASSUME IInv, OrderlyAll, NEW c \in Conns, inq[c] # <<>>, hasAuthed(c),
           Head(inq[c]).dir = "north", IsRouted(Msg(c))
    PROVE  Msg(c).suid = uid1[c]
<1>1. 1 \in 1..Len(inq[c]) /\ inq[c][1] = Head(inq[c])
  BY DEF IInv, TypeOK
<1> QED
  BY <1>1 DEF OrderlyAll, Orderly, hasAuthed, Msg

\* A handler that gives up on a message.
LEMMA RefuseKept ==
    ASSUME LInv, NEW c \in Conns, inq[c] # <<>>, Refuse(c),
           Msg(c).cmd # "UID_EXIT_BROADCAST"
    PROVE  Kept
<1>1. AllCovered(Handled(c), out) /\ AllOrderly(Handled(c))
  BY HandledCovered DEF LInv, IInv, Msg
<1>2. CleanWires(out)
  BY DEF LInv, WireClean, CleanWires
<1> QED
  BY <1>1, <1>2, CloseKept DEF Refuse, Kept, LInv, IInv

\* A logged-in connection routes a message of its own.
LEMMA ForwardKept ==
    ASSUME LInv, NEW c \in Conns, fd[c] # "free", inq[c] # <<>>, hasAuthed(c),
           NEW m \in RoutedMsg, m.suid = uid1[c], Forward(c, m),
           Msg(c).cmd # "UID_EXIT_BROADCAST"
    PROVE  Kept
<1>0. TypeOK /\ OrderlyAll /\ LastWord /\ WireClean /\ out \in Wires
  BY DEF LInv, IInv, TypeOK, Wires, OutMsg
<1>1. AllCovered(Handled(c), out) /\ AllOrderly(Handled(c)) /\ Handled(c) \in Queues
  BY <1>0, HandledCovered, HandlesType DEF LInv, Msg
<1>2. stat[c] \in LoggedIn /\ m.suid \in LiveUids /\ m.duid \in AllUids
  BY LiveSelf DEF hasAuthed, LoggedIn, RoutedMsg
<1>3. CASE Forwardable(m.duid)
  BY <1>0, <1>1, <1>2, <1>3, ForwardCovered DEF Forward, Kept, WireClean, CleanWires
<1>4. CASE rspUsrUnreach(c, Handled(c), m)
  <2>1. AllCovered(inq', out') /\ AllOrderly(inq')
    BY <1>0, <1>1, <1>2, <1>4, RspCovered
  <2>2. genUnreachMsg(uid1[c], m) \in OutMsg
    BY <1>0, UnreachType DEF TypeOK, OutMsg
  <2>3. CleanWires(out')
    BY <1>0, <1>2, <1>4, <2>2, SendClean DEF rspUsrUnreach, WireClean, CleanWires
  <2> QED
    BY <2>1, <2>3 DEF Forward, Kept
<1> QED
  BY <1>3, <1>4 DEF Forward

\* Every handler of a message but the two that advance a login.
LEMMA WorkerKept ==
    ASSUME LInv, NEW c \in Conns,
           \/ procLogout(c) \/ procErrorAck(c) \/ procCipher(c)
           \/ procForward(c) \/ procForwardNoerr(c) \/ procPlain(c)
           \/ procSend(c) \/ procSendNoerr(c) \/ procUnknown(c)
    PROVE  Kept
<1>0. IInv /\ TypeOK /\ OrderlyAll /\ LastWord /\ WireClean /\ out \in Wires
  BY DEF LInv, IInv, TypeOK, Wires, OutMsg
<1>1. fd[c] # "free" /\ inq[c] # <<>>
  BY DEF procLogout, procErrorAck, procLeave, procCipher, procForward,
         procForwardNoerr, procPlain, procSend, procSendNoerr, procUnknown, Handles
<1>2. /\ Msg(c).cmd \in RoutedCmds => Msg(c) \in RoutedMsg
      /\ Msg(c) \in OutMsg \/ Head(inq[c]).dir = "north"
      /\ Handled(c) \in Queues
      /\ Head(inq[c]).dir = "south" => stat[c] \in LoggedIn
  BY <1>0, <1>1, HandlesType
<1>3. CleanWires(out)
  BY <1>0 DEF WireClean, CleanWires
<1>4. ~Open(c) \/ Head(inq[c]).dir # "south" \/ Msg(c).cmd # "UID_EXIT_BROADCAST" =>
        AllCovered(Handled(c), out) /\ AllOrderly(Handled(c))
  BY <1>0, <1>1, HandledCovered DEF Msg
<1>5. AllOrderly(Handled(c))
  <2>1. inq[c] \in Seq(Envelope)
    BY <1>0 DEF TypeOK
  <2> QED
    BY <1>0, <1>1, <2>1, OrderlyPop DEF AllOrderly, OrderlyAll, Handled, TypeOK
<1>6. CASE procLogout(c) \/ procErrorAck(c)
  <2>1. Head(inq[c]).dir = "north"
    BY <1>6 DEF procLogout, procErrorAck, procLeave, Handles
  <2>2. \A d \in Conns : stat'[d] = stat[d] \/ stat'[d] \in {"LOGOUT", "ERROR"}
    BY <1>0, <1>6 DEF procLogout, procErrorAck, procLeave, TypeOK
  <2> QED
    BY <1>0, <1>3, <1>4, <1>6, <2>1, <2>2, CloseKept
    DEF procLogout, procErrorAck, procLeave, Kept
<1>7. CASE procCipher(c)
  <2>1. Msg(c) \in RoutedMsg /\ Msg(c).cmd = "FRAME_CIPHER"
        /\ Head(inq[c]).dir = "north" /\ IsRouted(Msg(c))
    BY <1>2, <1>7 DEF procCipher, Handles, Msg, RoutedCmds, IsRouted
  <2>2. cipher2PlainMsg(Msg(c)) \in RoutedMsg /\ cipher2PlainMsg(Msg(c)).suid = Msg(c).suid
    BY <2>1 DEF cipher2PlainMsg, RoutedMsg, RoutedCmds
  <2>3. CASE parseCipherMsg(c, Msg(c))
    BY <1>0, <1>1, <1>7, <2>1, <2>2, <2>3, Signed, ForwardKept DEF procCipher, parseCipherMsg
  <2> QED
    BY <1>1, <1>7, <2>1, <2>3, RefuseKept DEF procCipher
<1>8. CASE procForward(c)
  <2>1. Msg(c) \in RoutedMsg /\ Msg(c).cmd # "UID_EXIT_BROADCAST"
        /\ Head(inq[c]).dir = "north" /\ IsRouted(Msg(c))
    BY <1>2, <1>8 DEF procForward, Handles, Msg, RoutedCmds, TunnelCmds, IsRouted
  <2>2. CASE hasAuthed(c)
    BY <1>0, <1>1, <1>8, <2>1, <2>2, Signed, ForwardKept DEF procForward
  <2> QED
    BY <1>1, <1>8, <2>1, <2>2, RefuseKept DEF procForward
<1>9. CASE procForwardNoerr(c)
  <2>1. Msg(c) \in RoutedMsg /\ Msg(c).cmd # "UID_EXIT_BROADCAST"
        /\ Head(inq[c]).dir = "north" /\ IsRouted(Msg(c)) /\ Msg(c).duid \in AllUids
    BY <1>2, <1>9 DEF procForwardNoerr, Handles, Msg, RoutedCmds, NoerrCmds, IsRouted,
       RoutedMsg
  <2>2. CASE hasAuthed(c)
    <3>1. Msg(c).suid \in LiveUids
      BY <1>0, <1>1, <2>1, <2>2, Signed, LiveSelf DEF hasAuthed, LoggedIn
    <3>2. /\ AllCovered(_forward(Handled(c), Msg(c).duid, Msg(c)), out)
          /\ AllOrderly(_forward(Handled(c), Msg(c).duid, Msg(c)))
      BY <1>0, <1>2, <1>4, <2>1, <3>1, ForwardCovered
    <3> QED
      BY <1>3, <1>9, <2>2, <3>2 DEF procForwardNoerr, Kept
  <2> QED
    BY <1>1, <1>9, <2>1, <2>2, RefuseKept DEF procForwardNoerr
<1>10. CASE procPlain(c)
  <2>1. Msg(c) \in RoutedMsg /\ Msg(c).cmd # "UID_EXIT_BROADCAST" /\ IsRouted(Msg(c))
        /\ Head(inq[c]).dir = "south" /\ stat[c] \in LoggedIn
    BY <1>2, <1>10 DEF procPlain, Handles, Msg, RoutedCmds, IsRouted
  <2> DEFINE m == plain2CipherMsg(Msg(c))
  <2>2. m \in OutMsg /\ IsRouted(m) /\ m.suid = Msg(c).suid
    BY <2>1 DEF plain2CipherMsg, OutMsg, RoutedMsg, RoutedCmds, IsRouted
  <2>3. CASE hasAuthed(c) /\ Sendable(c)
    <3>1. AllCovered(Handled(c), _sendMsg(c, m))
      BY <1>0, <1>1, <2>1, <2>2, <2>3, MoveCovered DEF Sendable
    <3>2. CleanWires(_sendMsg(c, m))
      BY <1>0, <2>1, <2>2, SendClean
    <3> QED
      BY <1>5, <1>10, <2>3, <3>1, <3>2 DEF procPlain, Kept
  <2>4. CASE hasAuthed(c) /\ ~Sendable(c)
    <3>1. rspUsrUnreach(c, Handled(c), Msg(c))
      BY <1>10, <2>4 DEF procPlain
    <3>2. AllCovered(inq', out') /\ AllOrderly(inq')
      BY <1>0, <1>1, <1>2, <1>4, <2>1, <3>1, RspCovered
    <3>3. out' = out \/ out' = _sendMsg(c, genUnreachMsg(uid1[c], Msg(c)))
      BY <3>1 DEF rspUsrUnreach
    <3>4. CleanWires(out')
      BY <1>3, <2>4, <3>3 DEF _sendMsg
    <3> QED
      BY <1>10, <2>4, <3>2, <3>4 DEF procPlain, Kept
  <2> QED
    BY <1>1, <1>10, <2>1, <2>3, <2>4, RefuseKept DEF procPlain
<1>11. CASE procSend(c)
  <2>1. Msg(c) \in RoutedMsg /\ Msg(c).cmd # "UID_EXIT_BROADCAST"
        /\ Head(inq[c]).dir = "south" /\ stat[c] \in LoggedIn /\ Msg(c) \in OutMsg
    BY <1>2, <1>11 DEF procSend, Handles, Msg, RoutedCmds, TunnelCmds, OutMsg
  <2>2. CASE Sendable(c)
    <3>1. AllCovered(Handled(c), _sendMsg(c, Msg(c)))
      BY <1>0, <1>1, <2>1, <2>2, MoveCovered DEF Sendable
    <3>2. CleanWires(_sendMsg(c, Msg(c)))
      BY <1>0, <2>1, SendClean
    <3> QED
      BY <1>5, <1>11, <2>2, <3>1, <3>2 DEF procSend, Kept
  <2>3. CASE ~Sendable(c)
    <3>1. rspUsrUnreach(c, Handled(c), Msg(c)) /\ fd' = closeData(fd, c)
      BY <1>11, <2>3 DEF procSend
    <3>2. AllCovered(inq', out') /\ AllOrderly(inq')
      BY <1>0, <1>1, <1>2, <1>4, <2>1, <3>1, RspCovered
    <3>3. out' = out \/ out' = _sendMsg(c, genUnreachMsg(uid1[c], Msg(c)))
      BY <3>1 DEF rspUsrUnreach
    <3>4. CleanWires(out')
      BY <1>3, <2>3, <3>3 DEF _sendMsg
    <3> QED
      BY <1>0, <1>11, <3>1, <3>2, <3>4, CloseKept DEF procSend, Kept
  <2> QED
    BY <2>2, <2>3
<1>12. CASE procSendNoerr(c)
  <2>1. Head(inq[c]).dir = "south" /\ stat[c] \in LoggedIn /\ Msg(c) \in OutMsg
    BY <1>2, <1>12 DEF procSendNoerr, Handles
  <2>2. inq' = Handled(c) /\ out' = _sendMsg(c, Msg(c))
        /\ users' = users /\ uid1' = uid1 /\ stat' = stat
        /\ fd' = IF Sendable(c) THEN fd ELSE closeData(fd, c)
    BY <1>12 DEF procSendNoerr
  <2>3. AllCovered(inq', out')
    <3>1. CASE Open(c)
      BY <1>0, <1>1, <2>1, <2>2, <3>1, MoveCovered
    <3>2. CASE ~Open(c)
      BY <1>4, <2>2, <3>2 DEF _sendMsg, Sendable
    <3> QED
      BY <3>1, <3>2
  <2>4. CleanWires(out')
    BY <1>0, <2>1, <2>2, SendClean
  <2>5. fd' = fd \/ fd' = closeData(fd, c)
    BY <2>2
  <2> QED
    BY <1>0, <1>5, <2>2, <2>3, <2>4, <2>5, CloseKept DEF Kept
<1>13. CASE procUnknown(c)
  <2>1. Head(inq[c]).dir # "south" \/ Msg(c).cmd # "UID_EXIT_BROADCAST"
    BY <1>13 DEF procUnknown, Handles, Msg
  <2> QED
    BY <1>3, <1>4, <1>13, <2>1 DEF procUnknown, Kept
<1> QED
  BY <1>6, <1>7, <1>8, <1>9, <1>10, <1>11, <1>12, <1>13
\* A handler that fails a login message.
LEMMA ErrRspKept ==
    ASSUME LInv, NEW c \in Conns, inq[c] # <<>>, Head(inq[c]).dir = "north",
           inq' = Handled(c), errRsp(c)
    PROVE  Kept
<1>0. TypeOK /\ OrderlyAll /\ LastWord /\ WireClean /\ Handled(c) \in Queues
  BY HandlesType DEF LInv, IInv
<1>1. AllCovered(Handled(c), out) /\ AllOrderly(Handled(c))
  BY <1>0, HandledCovered
<1>2. [cmd |-> "ERROR_ACK"] \in OutMsg /\ ~IsRouted([cmd |-> "ERROR_ACK"])
  BY DEF OutMsg, SvrLoginMsg, IsRouted, RoutedCmds, NoerrCmds, TunnelCmds
<1>3. AllCovered(Handled(c), out') /\ CleanWires(out')
  BY <1>0, <1>1, <1>2, SendCovered, SendClean DEF errRsp
<1> QED
  BY <1>0, <1>1, <1>3, CloseKept DEF errRsp, Kept

\* What the network does to connections that are there.
LEMMA NetworkKept ==
    ASSUME LInv, NEW c \in Conns,
           Receive(c) \/ PeerGone(c) \/ \E m \in Inputs : parseData(c, m)
    PROVE  Kept
<1>0. /\ TypeOK /\ inq[c] \in Seq(Envelope) /\ out[c] \in Seq(OutMsg)
      /\ AllCovered(inq, out) /\ AllOrderly(inq) /\ CleanWires(out)
  BY DEF LInv, IInv, TypeOK, OutMsg, LastWord, AllCovered, OrderlyAll, AllOrderly,
         WireClean, CleanWires
<1>1. CASE Receive(c)
  <2>1. Serving(c) => Covers(inq[c], Tail(out[c]), LiveUids)
    BY <1>0, <1>1, CoversReceive DEF Receive, AllCovered
  <2>2. AllCovered(inq, out')
    BY <1>0, <1>1, <2>1 DEF Receive, AllCovered, TypeOK
  <2>3. \A i \in 1..Len(Tail(out[c])) : \E j \in 1..Len(out[c]) : Tail(out[c])[i] = out[c][j]
    <3>1. ASSUME NEW i \in 1..Len(Tail(out[c]))
          PROVE  Tail(out[c])[i] = out[c][i + 1] /\ i + 1 \in 1..Len(out[c])
      BY <1>0, <1>1 DEF Receive
    <3> QED
      BY <3>1
  <2>4. CleanWires(out')
    BY <1>0, <1>1, <2>3 DEF Receive, CleanWires, TypeOK
  <2> QED
    BY <1>0, <1>1, <2>2, <2>4 DEF Receive, Kept
<1>2. CASE PeerGone(c)
  BY <1>0, <1>2, CloseKept DEF PeerGone, Kept
<1>3. ASSUME NEW m \in Inputs, parseData(c, m)
      PROVE  Kept
  <2> DEFINE e == [dir |-> "north", msg |-> m]
  <2>1. e \in Envelope /\ e.dir # "south"
    BY SvrAssumption DEF Envelope
  <2>2. IsEnd(e) => stat[c] = "SVR_EXCH_KEY"
    BY <1>3 DEF parseData, Sent, IsEnd
  <2>3. IsRouted(e.msg) => e.msg.suid = uid1[c]
    BY <1>3 DEF parseData, Sent, IsRouted
  <2>4. Serving(c) => Covers(Append(inq[c], e), out[c], LiveUids)
    BY <1>0, <2>1, CoversAppend DEF AllCovered
  <2>5. Orderly(Append(inq[c], e), stat[c], uid1[c])
    BY <1>0, <2>1, <2>2, <2>3, OrderlyAppend DEF AllOrderly
  <2>6. /\ inq'[c] = Append(inq[c], e)
        /\ \A d \in Conns \ {c} : inq'[d] = inq[d]
    BY <1>0, <1>3 DEF parseData, TypeOK
  <2> QED
    BY <1>0, <1>3, <2>4, <2>5, <2>6 DEF parseData, Kept, AllCovered, AllOrderly
<1> QED
  BY <1>1, <1>2, <1>3
----------------------------------------------------------------------------
(* The steps that make a connection, log it in and end it.                 *)

\* A new connection serves nobody yet, and its wire is new.
LEMMA NewSockStep ==
    ASSUME LInv, IInv', NEW c \in Conns, onNewSock(c)
    PROVE  LInv'
<1>0. TypeOK /\ RegistrySound /\ FreeClean /\ OrderlyAll /\ WireClean /\ LastWord
  BY DEF LInv, IInv
<1>1. /\ fd[c] = "free" /\ inq[c] = <<>> /\ inq' = inq /\ users' = users /\ uid1' = uid1
      /\ out'[c] = <<[cmd |-> "HELO"]>>
      /\ \A d \in Conns \ {c} : fd'[d] = fd[d] /\ stat'[d] = stat[d] /\ out'[d] = out[d]
  BY <1>0 DEF onNewSock, FreeClean, TypeOK
<1>2. users[uid1[c]] # c
  BY <1>0, <1>1, SvrAssumption DEF RegistrySound, TypeOK
<1>3. LiveUids \subseteq LiveUids'
  BY <1>1 DEF LiveUids
<1>4. LastWord'
  BY <1>0, <1>1, <1>2, <1>3, CoversLive DEF LastWord, Serving, Open
<1>5. OrderlyAll'
  BY <1>0, <1>1 DEF OrderlyAll, Orderly
<1>6. WireClean'
  <2>1. ~IsRouted([cmd |-> "HELO"])
    BY DEF IsRouted, RoutedCmds, NoerrCmds, TunnelCmds
  <2>2. \A i \in 1..Len(out'[c]) : ~IsRouted(out'[c][i])
    BY <1>1, <2>1
  <2> QED
    BY <1>0, <1>1, <2>2 DEF WireClean
<1> QED
  BY <1>4, <1>5, <1>6 DEF LInv

\* The uid of a connection is set when it neither serves nor is live.
LEMMA LoginReqStep ==
    ASSUME LInv, IInv', NEW c \in Conns, procLoginReq(c)
    PROVE  LInv'
<1>0. TypeOK /\ RegistrySound /\ OrderlyAll /\ WireClean /\ LastWord
      /\ inq[c] \in Seq(Envelope)
  BY DEF LInv, IInv, TypeOK
<1>1. inq[c] # <<>> /\ inq' = Handled(c) /\ Head(inq[c]).dir = "north"
  BY DEF procLoginReq, Handles
<1>2. CASE ParsesLoginReq(c, Msg(c))
  <2>1. /\ stat[c] = "SVR_HELO" /\ stat'[c] = "SVR_EXCH_KEY"
        /\ users' = users /\ fd' = fd
        /\ \A d \in Conns \ {c} : uid1'[d] = uid1[d] /\ stat'[d] = stat[d]
        /\ out' = _sendMsg(c, [cmd |-> "EXCH_KEY"])
    BY <1>0, <1>2 DEF procLoginReq, ParsesLoginReq, TypeOK
  <2>2. [cmd |-> "EXCH_KEY"] \in OutMsg /\ ~IsRouted([cmd |-> "EXCH_KEY"])
    BY DEF OutMsg, SvrLoginMsg, IsRouted, RoutedCmds, NoerrCmds, TunnelCmds
  <2>3. AllCovered(Handled(c), out) /\ AllOrderly(Handled(c)) /\ Handled(c) \in Queues
    BY <1>0, <1>1, HandledCovered, HandlesType DEF LInv
  <2>4. AllCovered(inq', out') /\ CleanWires(out')
    BY <1>0, <1>1, <2>1, <2>2, <2>3, SendCovered, SendClean
  <2>5. LiveUids \subseteq LiveUids'
    BY <2>1 DEF LiveUids, LoggedIn
  <2>6. ~Serving(c)'
    <3>1. stat'[c] \notin LoggedIn /\ uid1'[c] \in AllUids
      BY <2>1 DEF LoggedIn, LInv, IInv, TypeOK
    <3> QED
      BY <3>1, SvrAssumption DEF LInv, IInv, RegistrySound, Serving
  <2>7. LastWord'
    BY <2>1, <2>4, <2>5, <2>6, CoversLive DEF AllCovered, LastWord, Serving, Open
  <2>8. Orderly(Tail(inq[c]), "SVR_EXCH_KEY", uid1'[c])
    BY <1>0, <1>1, <2>1, OrderlyReq DEF OrderlyAll
  <2>9. OrderlyAll'
    BY <1>0, <1>1, <2>1, <2>8 DEF OrderlyAll, Handled, TypeOK
  <2>10. WireClean'
    BY <2>1, <2>4 DEF CleanWires, WireClean
  <2> QED
    BY <2>7, <2>9, <2>10 DEF LInv
<1>3. CASE ~ParsesLoginReq(c, Msg(c))
  BY <1>1, <1>3, ErrRspKept, KeptStep DEF procLoginReq
<1> QED
  BY <1>2, <1>3

\* A connection begins to serve with nothing routed in its queue or on its
\* wire.
LEMMA LoginEndStep ==
    ASSUME LInv, IInv', NEW c \in Conns, procLoginEnd(c)
    PROVE  LInv'
<1>0. TypeOK /\ RegistrySound /\ Isolation /\ OrderlyAll /\ WireClean /\ LastWord
      /\ inq[c] \in Seq(Envelope)
  BY DEF LInv, IInv, TypeOK
<1>1. /\ inq[c] # <<>> /\ inq' = Handled(c) /\ Head(inq[c]).dir = "north"
      /\ Head(inq[c]).msg.cmd = "LOGIN_END"
  BY DEF procLoginEnd, Handles
<1>2. CASE ParsesLoginEnd(c, Msg(c))
  <2>1. /\ stat[c] = "SVR_EXCH_KEY" /\ stat'[c] = "AUTH_OK" /\ IsEnd(Head(inq[c]))
        /\ uid1' = uid1 /\ out' = out
        /\ \A d \in Conns \ {c} : stat'[d] = stat[d]
    BY <1>0, <1>1, <1>2 DEF procLoginEnd, ParsesLoginEnd, Msg, IsEnd, TypeOK
  <2>2. fd' = fd \/ fd' = closeData(fd, c)
    BY <1>2 DEF procLoginEnd
  <2>3. /\ \A d \in Conns : fd'[d] = "open" => fd[d] = "open"
        /\ \A d \in Conns : fd[d] # "free" => fd'[d] # "free"
    BY <1>0, <2>2, CloseKept
  <2>4. \A d \in Conns \ {c} : \A u \in AllUids : users'[u] = d => users[u] = d
    BY <1>0, <1>2, SvrAssumption DEF procLoginEnd, addUsr, TypeOK
  <2>5. LiveUids \subseteq LiveUids'
    BY <2>1, <2>3 DEF LiveUids, LoggedIn
  <2>6. AllCovered(Handled(c), out)
    BY <1>0, <1>1, HandledCovered
  <2>7. ASSUME NEW d \in Conns \ {c}, Serving(d)'
        PROVE  Covers(inq'[d], out'[d], LiveUids')
    <3>1. Serving(d)
      BY <1>0, <2>1, <2>3, <2>4, <2>7 DEF Serving, Open, TypeOK
    <3> QED
      BY <1>1, <2>1, <2>5, <2>6, <3>1, CoversLive DEF AllCovered
  <2>8. Covers(inq'[c], out'[c], LiveUids')
    <3>1. \A i \in 1..Len(inq[c]) : inq[c][i].dir # "south"
      BY <1>0, <2>1 DEF Isolation, LoggedIn
    <3>2. \A i \in 1..Len(Tail(inq[c])) : Tail(inq[c])[i].dir # "south"
      <4>1. ASSUME NEW i \in 1..Len(Tail(inq[c]))
            PROVE  Tail(inq[c])[i] = inq[c][i + 1] /\ i + 1 \in 1..Len(inq[c])
        BY <1>0, <1>1
      <4> QED
        BY <3>1, <4>1
    <3>3. \A i \in 1..Len(out[c]) : ~IsRouted(out[c][i])
      BY <1>0, <2>1 DEF WireClean
    <3>4. inq'[c] = Tail(inq[c]) /\ out'[c] = out[c]
      BY <1>0, <1>1, <2>1 DEF Handled, TypeOK
    <3> QED
      BY <3>2, <3>3, <3>4 DEF Covers
  <2>9. LastWord'
    BY <2>7, <2>8 DEF LastWord
  <2>10. Orderly(Tail(inq[c]), "AUTH_OK", uid1[c])
    BY <1>0, <1>1, <2>1, OrderlyLogin DEF OrderlyAll
  <2>11. OrderlyAll'
    BY <1>0, <1>1, <2>1, <2>10 DEF OrderlyAll, Handled, TypeOK
  <2>12. WireClean'
    BY <1>0, <2>1 DEF WireClean
  <2> QED
    BY <2>9, <2>11, <2>12 DEF LInv
<1>3. CASE ~ParsesLoginEnd(c, Msg(c))
  BY <1>1, <1>3, ErrRspKept, KeptStep DEF procLoginEnd
<1> QED
  BY <1>2, <1>3

\* onClose puts the exit broadcast of its user behind all that is under way
\* to those who are served.
LEMMA OnCloseStep ==
    ASSUME LInv, IInv', NEW c \in Conns, onClose(c)
    PROVE  LInv'
<1>0. TypeOK /\ RegistrySound /\ OrderlyAll /\ WireClean /\ LastWord
  BY DEF LInv, IInv
<1> DEFINE u == uid1[c]
<1>1. /\ fd'[c] = "free" /\ stat'[c] = "INVALID" /\ inq'[c] = <<>> /\ out' = out
      /\ \A d \in Conns \ {c} : fd'[d] = fd[d] /\ uid1'[d] = uid1[d] /\ stat'[d] = stat[d]
      /\ u \in AllUids
  BY <1>0 DEF onClose, broadcastUidExit, TypeOK
<1>2. \A v \in AllUids : users'[v] = users[v] \/ users'[v] = NoConn
  BY <1>0 DEF onClose, delUsr, TypeOK
<1>3. ASSUME NEW d \in Conns \ {c}
      PROVE  inq'[d] = IF Open(d) /\ uid1[d] # NoUid /\ users'[uid1[d]] = d
                       THEN Append(inq[d], exitEnvelope(u)) ELSE inq[d]
  BY <1>0 DEF onClose, broadcastUidExit, exitEnvelope, TypeOK
<1>4. LiveUids \subseteq LiveUids' \union {u}
  BY <1>1 DEF LiveUids
<1>5. ASSUME NEW d \in Conns, Serving(d)'
      PROVE  Covers(inq'[d], out'[d], LiveUids')
  <2>1. d # c /\ Open(d) /\ users'[uid1[d]] = d /\ uid1[d] \in AllUids
    BY <1>0, <1>1, <1>5 DEF Serving, Open, TypeOK
  <2>2. users[uid1[d]] = d /\ users[uid1[d]] # NoConn
    BY <1>2, <2>1, SvrAssumption
  <2>3. uid1[d] # NoUid
    BY <1>0, <2>1, <2>2 DEF RegistrySound
  <2>4. Covers(inq[d], out[d], LiveUids)
    BY <1>0, <2>1, <2>2 DEF LastWord, Serving
  <2>5. inq[d] \in Seq(Envelope) /\ out[d] \in Seq(OutMsg)
    BY <1>0 DEF TypeOK, OutMsg
  <2>6. Covers(Append(inq[d], exitEnvelope(u)), out[d], LiveUids')
    BY <1>4, <2>4, <2>5, CoversExit
  <2> QED
    BY <1>1, <1>3, <2>1, <2>3, <2>6
<1>6. LastWord'
  BY <1>5 DEF LastWord
<1>7. ASSUME NEW d \in Conns
      PROVE  Orderly(inq'[d], stat'[d], uid1'[d])
  <2>1. CASE d = c
    BY <1>1, <2>1 DEF Orderly
  <2>2. CASE d # c
    <3>1. exitEnvelope(u) \in Envelope /\ exitEnvelope(u).dir = "south"
      BY <1>1 DEF exitEnvelope, exitMsg, Envelope, ExitMsg
    <3>2. Orderly(inq[d], stat[d], uid1[d]) /\ inq[d] \in Seq(Envelope)
      BY <1>0 DEF OrderlyAll, TypeOK
    <3>3. Orderly(Append(inq[d], exitEnvelope(u)), stat[d], uid1[d])
      BY <3>1, <3>2, OrderlyAppend DEF IsEnd
    <3> QED
      BY <1>1, <1>3, <2>2, <3>2, <3>3
  <2> QED
    BY <2>1, <2>2
<1>8. OrderlyAll'
  BY <1>7 DEF OrderlyAll
<1>9. WireClean'
  BY <1>0, <1>1 DEF WireClean
<1> QED
  BY <1>6, <1>8, <1>9 DEF LInv

\* After the end of the process nobody is served and nobody logs in.
LEMMA EndLast == ASSUME LInv, processEnds PROVE LInv'
<1>1. IInv'
  BY EndSound DEF LInv
<1>2. LastWord'
  BY DEF processEnds, LastWord, Serving, Open
<1>3. OrderlyAll' /\ WireClean'
  BY DEF processEnds, OrderlyAll, Orderly, WireClean
<1> QED
  BY <1>1, <1>2, <1>3 DEF LInv
----------------------------------------------------------------------------
(* The invariant, and what follows from it.                                *)

\* A router without connections satisfies the invariant.
LEMMA LInvInit == Init => LInv
  BY IInvInit DEF Init, LInv, OrderlyAll, Orderly, WireClean, LastWord, Serving, Open

\* Every step keeps it.
LEMMA LInvStep == LInv /\ [Next]_vars => LInv'
<1> SUFFICES ASSUME LInv, [Next]_vars PROVE LInv'
  OBVIOUS
<1>1. IInv'
  BY IInvStep DEF LInv
<1>2. CASE UNCHANGED vars
  <2>1. Kept
    BY <1>2 DEF LInv, vars, Kept, LastWord, AllCovered, OrderlyAll, AllOrderly,
                WireClean, CleanWires
  <2> QED
    BY <1>1, <2>1, KeptStep
<1>3. ASSUME NEW c \in Conns, procCipherNull(c) PROVE LInv'
  BY <1>3, EndLast DEF procCipherNull
<1> QED
  BY <1>1, <1>2, <1>3, NewSockStep, NetworkKept, LoginReqStep, LoginEndStep, WorkerKept,
     OnCloseStep, KeptStep
  DEF Next, Network, process

\* Whatever a registered user is still to receive from a user without a live
\* connection is followed by that user's exit broadcast (LastWord), for any
\* number of connections, in every order of closings, logins and messages.
THEOREM ExitIsLastWord == Spec => []LastWord
<1>1. LInv => LastWord
  BY DEF LInv
<1> QED
  BY <1>1, LInvInit, LInvStep, PTL DEF Spec
=============================================================================
