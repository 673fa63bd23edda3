--------------------------- MODULE TunnelData_proof ---------------------------
(***************************************************************************)
(* Proofs about the data that pass the whole system, for any number of     *)
(* users, connections, agents, units of data and faults: whatever is in a  *)
(* queue or on a wire was sent by an application, to the address that its  *)
(* end of the tunnel has, and is handed to no other.                       *)
(***************************************************************************)
EXTENDS TunnelPhases_proof

DataCmds == {"FRAME_PLAIN", "FRAME_CIPHER"}

\* A unit that an application has sent.
SentUnit(x) == \E a \in Agents : \E k \in 1..read[a] : x = <<a, k>>

\* What carries data carries a unit that an application has sent, from the
\* address and to the address that its agent has, unless that is freed: when
\* r counts what has been read, and the agents are ag.
GenuineFor(m, r, ag) ==
    m.cmd \in DataCmds =>
        \E a \in Agents : \E k \in 1..r[a] :
            /\ m.body = <<a, k>>
            /\ ag[a].fd # "dead" =>
                  <<m.suid, m.ssid, m.duid, m.dsid>> = Addresses(ag[a])

Genuine(m) == GenuineFor(m, read, agent)

\* The queues of the router, the wires and the queues of the links, and the
\* queues of agents, which also hold what the agent itself has read.
QueueGood(q) == \A i \in 1..Len(q) : Genuine(q[i].msg)

WireGood(w) == \A i \in 1..Len(w) : Genuine(w[i])

SouthGood(q) == \A i \in 1..Len(q) : q[i].dir = "south" => Genuine(q[i].msg)

NorthGood(a, q) ==
    \A i \in 1..Len(q) : q[i].dir = "north" => \E k \in 1..read[a] : q[i].unit = <<a, k>>

QueuesGood(q) == \A c \in Conns : QueueGood(q[c])

WiresGood(w) == \A c \in Conns : WireGood(w[c])

LinksGood(q) == \A u \in Uids : WireGood(q[u])

AgentsGood(q) == \A a \in Agents : SouthGood(q[a]) /\ NorthGood(a, q[a])

GotGood == \A b \in Agents : \A i \in 1..Len(got[b]) : SentUnit(got[b][i])

DataSound ==
    QueuesGood(inq) /\ WiresGood(out) /\ LinksGood(cliq) /\ AgentsGood(agentq) /\ GotGood
----------------------------------------------------------------------------
(* Messages that move from queue to queue.                                 *)

\* What carries no data is genuine.
LEMMA NotData == ASSUME NEW m, m.cmd \notin DataCmds PROVE Genuine(m)
  BY DEF Genuine, GenuineFor

\* Deciphering and enciphering leave the unit and its addresses alone.
LEMMA Converted ==
    ASSUME NEW m \in RoutedMsg, m.cmd \in DataCmds, Genuine(m)
    PROVE  Genuine(cipher2PlainMsg(m)) /\ Genuine(plain2CipherMsg(m))
<1>1. \A x \in DataCmds : [m EXCEPT !.cmd = x].cmd \in DataCmds
                          /\ [m EXCEPT !.cmd = x].body = m.body
                          /\ [m EXCEPT !.cmd = x].suid = m.suid
                          /\ [m EXCEPT !.cmd = x].ssid = m.ssid
                          /\ [m EXCEPT !.cmd = x].duid = m.duid
                          /\ [m EXCEPT !.cmd = x].dsid = m.dsid
  BY DEF RoutedMsg
<1>2. \A x \in DataCmds : Genuine([m EXCEPT !.cmd = x])
  <2> SUFFICES ASSUME NEW x \in DataCmds PROVE Genuine([m EXCEPT !.cmd = x])
    OBVIOUS
  <2> DEFINE n == [m EXCEPT !.cmd = x]
  <2>1. n.body = m.body /\ n.suid = m.suid /\ n.ssid = m.ssid /\ n.duid = m.duid /\ n.dsid = m.dsid
    BY <1>1
  <2> HIDE DEF n
  <2>2. Genuine(n)  BY <2>1 DEF Genuine, GenuineFor
  <2> QED  BY <2>2 DEF n
<1> QED  BY <1>2 DEF cipher2PlainMsg, plain2CipherMsg, DataCmds

\* A queue that is appended to, and one that the first message is taken from.
LEMMA QueueMoves ==
    ASSUME NEW S, NEW q \in Seq(S), QueueGood(q)
    PROVE  /\ \A e \in S : Genuine(e.msg) => QueueGood(Append(q, e))
           /\ q # <<>> => Genuine(Head(q).msg) /\ QueueGood(Tail(q))
  BY DEF QueueGood

\* The same of a wire
LEMMA WireMoves ==
    ASSUME NEW S, NEW q \in Seq(S), WireGood(q)
    PROVE  /\ \A m \in S : Genuine(m) => WireGood(Append(q, m))
           /\ q # <<>> => Genuine(Head(q)) /\ WireGood(Tail(q))
  BY DEF WireGood

\* and of the queue of an agent.
LEMMA AgentMoves ==
    ASSUME NEW S, NEW q \in Seq(S), NEW a, SouthGood(q), NorthGood(a, q)
    PROVE  /\ \A e \in S : /\ e.dir = "south" /\ Genuine(e.msg)
                           => SouthGood(Append(q, e)) /\ NorthGood(a, Append(q, e))
           /\ q # <<>> => /\ Head(q).dir = "south" => Genuine(Head(q).msg)
                          /\ Head(q).dir = "north" => \E k \in 1..read[a] : Head(q).unit = <<a, k>>
                          /\ SouthGood(Tail(q)) /\ NorthGood(a, Tail(q))
  BY DEF SouthGood, NorthGood
----------------------------------------------------------------------------
(* The router.                                                             *)

RouterMsg == RoutedMsg \union ExitMsg \union Router!LoginMsg
Env == [dir : {"north", "south"}, msg : RouterMsg]
WireMsg == RoutedMsg \union ExitMsg \union Router!SvrLoginMsg

\* The types of the router's queues and wires.
LEMMA RouterQueues ==
    ASSUME Router!IInv
    PROVE  /\ inq \in [Conns -> Seq(Env)] /\ out \in [Conns -> Seq(WireMsg)]
           /\ fd \in [Conns -> {"free", "open", "closing"}] /\ uid1 \in [Conns -> AllUids]
           /\ users \in [AllUids -> Conns \union {NoConn}]
<1>1. Router!RoutedMsg = RoutedMsg /\ Router!ExitMsg = ExitMsg /\ Router!AllUids = AllUids
  BY DEF RoutedMsg, Router!RoutedMsg, ExitMsg, Router!ExitMsg, RoutedCmds, Router!RoutedCmds,
     NoerrCmds, Router!NoerrCmds, TunnelCmds, Router!TunnelCmds,
     AllUids, Router!AllUids, AllSids, Router!AllSids
<1>2. Router!Envelope \subseteq Env
  BY <1>1 DEF Router!Envelope, Env, RouterMsg
<1>3. inq \in [Conns -> Seq(Router!Envelope)] /\ out \in [Conns -> Seq(WireMsg)]
  BY <1>1 DEF Router!IInv, Router!TypeOK, WireMsg
<1>4. inq \in [Conns -> Seq(Env)]
  <2> HIDE DEF Env
  <2>1. ASSUME NEW c \in Conns PROVE inq[c] \in Seq(Env)
    BY <1>2, <1>3
  <2> QED  BY <1>3, <2>1
<1> QED
  BY <1>1, <1>3, <1>4 DEF Router!IInv, Router!TypeOK

\* Forwarding and sending what is genuine.
LEMMA ForwardGood ==
    ASSUME NEW q \in [Conns -> Seq(Env)], QueuesGood(q), NEW u, NEW m \in RouterMsg, Genuine(m)
    PROVE  QueuesGood(Svr!_forward(q, u, m))
<1> DEFINE e == [dir |-> "south", msg |-> m]
<1>1. e \in Env /\ e.msg = m  BY DEF Env
<1> HIDE DEF e
<1>2. ASSUME NEW c \in Conns PROVE QueueGood(Append(q[c], e))
  <2>1. q[c] \in Seq(Env) /\ QueueGood(q[c])  BY DEF QueuesGood
  <2> QED  BY <1>1, <2>1, QueueMoves
<1>3. ASSUME NEW d PROVE QueuesGood([q EXCEPT ![d] = Append(@, e)])
  BY <1>2 DEF QueuesGood
<1> QED  BY <1>3 DEF Svr!_forward, e

\* Sending puts one genuine message on a wire.
LEMMA SendGood ==
    ASSUME out \in [Conns -> Seq(WireMsg)], WiresGood(out), NEW c, NEW m \in WireMsg, Genuine(m)
    PROVE  WiresGood(Svr!_sendMsg(c, m))
<1>1. ASSUME NEW d \in Conns PROVE WireGood(Append(out[d], m))
  <2>1. out[d] \in Seq(WireMsg) /\ WireGood(out[d])  BY DEF WiresGood
  <2> QED  BY <2>1, WireMoves
<1>2. WiresGood([out EXCEPT ![c] = Append(@, m)])  BY <1>1 DEF WiresGood
<1> QED  BY <1>2 DEF Svr!_sendMsg

\* What a worker takes from its queue.
LEMMA TakenGood ==
    ASSUME inq \in [Conns -> Seq(Env)], QueuesGood(inq), NEW c \in Conns, inq[c] # <<>>
    PROVE  /\ QueuesGood(Svr!Handled(c)) /\ Svr!Handled(c) \in [Conns -> Seq(Env)]
           /\ Genuine(Svr!Msg(c)) /\ Svr!Msg(c) \in RouterMsg
           /\ Svr!Msg(c).cmd \in RoutedCmds => Svr!Msg(c) \in RoutedMsg
<1>1. inq[c] \in Seq(Env) /\ QueueGood(inq[c])  BY DEF QueuesGood
<1>2. Genuine(Head(inq[c]).msg) /\ QueueGood(Tail(inq[c]))  BY <1>1, QueueMoves
<1>3. Head(inq[c]) \in Env /\ Tail(inq[c]) \in Seq(Env)  BY <1>1
<1>4. \A m \in RouterMsg : m.cmd \in RoutedCmds => m \in RoutedMsg
  BY DEF RouterMsg, RoutedMsg, ExitMsg, RoutedCmds, NoerrCmds, TunnelCmds,
     Router!LoginMsg, Router!LoginCmds
<1> QED
  BY <1>2, <1>3, <1>4 DEF Svr!Handled, Svr!Msg, QueuesGood, Env

\* An UNREACH carries no data.
LEMMA UnreachGood ==
    ASSUME NEW u \in AllUids, NEW m \in RoutedMsg
    PROVE  /\ genUnreachMsg(u, m) \in RoutedMsg /\ Genuine(genUnreachMsg(u, m))
           /\ genUnreachMsg(u, m) = Svr!genUnreachMsg(u, m)
           /\ genUnreachMsg(u, m) = Cli!genUnreachMsg(u, m)
<1>1. genUnreachMsg(u, m) \in RoutedMsg
  BY DEF genUnreachMsg, RoutedMsg, RoutedCmds, NoerrCmds, AllUids, AllSids
<1>2. genUnreachMsg(u, m).cmd \notin DataCmds  BY DEF genUnreachMsg, DataCmds
<1> QED  BY <1>1, <1>2, NotData DEF genUnreachMsg, Svr!genUnreachMsg, Cli!genUnreachMsg

\* Refusing delivery answers with an UNREACH, which carries no data.
LEMMA RspUsrGood ==
    ASSUME Router!IInv, QueuesGood(inq), WiresGood(out), NEW c \in Conns,
           NEW q \in [Conns -> Seq(Env)], QueuesGood(q), NEW m \in RoutedMsg,
           Svr!rspUsrUnreach(c, q, m)
    PROVE  QueuesGood(inq') /\ WiresGood(out')
<1> DEFINE e == Svr!genUnreachMsg(uid1[c], m)
<1>1. uid1[c] \in AllUids /\ out \in [Conns -> Seq(WireMsg)]  BY RouterQueues
<1>2. e \in RoutedMsg /\ Genuine(e)  BY <1>1, UnreachGood
<1> HIDE DEF e
<1>3. e \in RouterMsg /\ e \in WireMsg  BY <1>2 DEF RouterMsg, WireMsg
<1>4. QueuesGood(Svr!_forward(q, m.suid, e)) /\ WiresGood(Svr!_sendMsg(c, e))
  BY <1>1, <1>2, <1>3, ForwardGood, SendGood
<1> QED  BY <1>4 DEF Svr!rspUsrUnreach, e

\* No message that is under way has a text of another length than its cipher:
\* the programs make none, so none ends the router.
LEMMA NoNullCipher ==
    ASSUME Router!IInv, NEW c \in Conns
    PROVE  ~ Svr!procCipherNull(c)
<1> SUFFICES ASSUME Svr!procCipherNull(c) PROVE FALSE
  OBVIOUS
<1>1. inq[c] # <<>> /\ Svr!Msg(c).cmd = "FRAME_CIPHER" /\ Svr!Msg(c).body = BadTxtLen
  BY DEF Svr!procCipherNull, Svr!Handles, Svr!Msg, Svr!txtLenOK
<1>2. Svr!Msg(c) \in RouterMsg
  <2>1. Head(inq[c]) \in Env  BY <1>1, RouterQueues
  <2> QED  BY <2>1 DEF Env, Svr!Msg
<1>3. Svr!Msg(c) \in RoutedMsg
  BY <1>1, <1>2 DEF RouterMsg, ExitMsg, Router!LoginMsg, Router!LoginCmds
<1>4. BadTxtLen \in Bodies \union (AllUids \X AllSids)  BY <1>1, <1>3 DEF RoutedMsg
<1> QED  BY <1>4, TunnelAssumption

\* A worker of the router passes on what it takes, or an answer.
LEMMA RouterMoves ==
    ASSUME Router!IInv, QueuesGood(inq), WiresGood(out), NEW c \in Conns, Svr!process(c)
    PROVE  QueuesGood(inq') /\ WiresGood(out')
<1> DEFINE m == Svr!Msg(c)
           h == Svr!Handled(c)
<1>0. inq[c] # <<>>
  BY NoNullCipher
  DEF Svr!process, Svr!procLoginReq, Svr!procLoginEnd, Svr!procLogout, Svr!procErrorAck,
     Svr!procLeave, Svr!procCipher, Svr!procForward, Svr!procForwardNoerr, Svr!procPlain,
     Svr!procSend, Svr!procSendNoerr, Svr!procUnknown, Svr!Handles
<1>1. /\ QueuesGood(h) /\ h \in [Conns -> Seq(Env)] /\ Genuine(m) /\ m \in RouterMsg
      /\ m.cmd \in RoutedCmds => m \in RoutedMsg
  BY <1>0, RouterQueues, TakenGood
<1>2. out \in [Conns -> Seq(WireMsg)]  BY RouterQueues
<1>3. ASSUME NEW x, x.cmd \notin DataCmds, x \in WireMsg PROVE WiresGood(Svr!_sendMsg(c, x))
  BY <1>2, <1>3, NotData, SendGood
<1> HIDE DEF m, h
<1>4. ASSUME Svr!errRsp(c), inq' = h PROVE QueuesGood(inq') /\ WiresGood(out')
  <2>1. [cmd |-> "ERROR_ACK"] \in WireMsg  BY DEF WireMsg, Router!SvrLoginMsg
  <2> QED  BY <1>1, <1>3, <1>4, <2>1 DEF Svr!errRsp, DataCmds
<1>5. CASE Svr!procLoginReq(c)
  <2>1. [cmd |-> "EXCH_KEY"] \in WireMsg  BY DEF WireMsg, Router!SvrLoginMsg
  <2> QED  BY <1>1, <1>3, <1>4, <1>5, <2>1 DEF Svr!procLoginReq, h, DataCmds
<1>6. CASE Svr!procLoginEnd(c) \/ Svr!procLogout(c) \/ Svr!procErrorAck(c) \/ Svr!procUnknown(c)
  BY <1>1, <1>4, <1>6
  DEF Svr!procLoginEnd, Svr!procLogout, Svr!procErrorAck, Svr!procLeave, Svr!procUnknown, h
<1>7. ASSUME Svr!Refuse(c) PROVE QueuesGood(inq') /\ WiresGood(out')
  BY <1>1, <1>7 DEF Svr!Refuse, h
<1>8. ASSUME NEW x \in RoutedMsg, Genuine(x), Svr!Forward(c, x)
      PROVE  QueuesGood(inq') /\ WiresGood(out')
  <2>1. QueuesGood(Svr!_forward(h, x.duid, x))
    BY <1>1, <1>8, ForwardGood DEF RouterMsg
  <2> QED  BY <1>1, <1>8, <2>1, RspUsrGood DEF Svr!Forward, h
<1>9. CASE Svr!procCipher(c)
  <2>1. m.cmd = "FRAME_CIPHER"  BY <1>9 DEF Svr!procCipher, Svr!Handles, Svr!Msg, m
  <2>2. m \in RoutedMsg /\ m.cmd \in DataCmds  BY <1>1, <2>1 DEF RoutedCmds, DataCmds
  <2>3. cipher2PlainMsg(m) \in RoutedMsg /\ Svr!cipher2PlainMsg(m) = cipher2PlainMsg(m)
    BY <2>2 DEF cipher2PlainMsg, Svr!cipher2PlainMsg, RoutedMsg, RoutedCmds
  <2>4. Genuine(cipher2PlainMsg(m))  BY <1>1, <2>2, Converted
  <2> QED  BY <1>7, <1>8, <1>9, <2>3, <2>4 DEF Svr!procCipher, m
<1>10. CASE Svr!procForward(c)
  <2>1. m.cmd \in RoutedCmds
    BY <1>10 DEF Svr!procForward, Svr!Handles, Svr!Msg, m, RoutedCmds, Svr!TunnelCmds, TunnelCmds
  <2> QED  BY <1>1, <1>7, <1>8, <1>10, <2>1 DEF Svr!procForward, m
<1>11. CASE Svr!procForwardNoerr(c)
  <2>1. QueuesGood(Svr!_forward(h, m.duid, m))  BY <1>1, ForwardGood
  <2> QED  BY <1>7, <1>11, <2>1 DEF Svr!procForwardNoerr, m, h
<1>12. CASE Svr!procPlain(c)
  <2>1. m.cmd = "FRAME_PLAIN"  BY <1>12 DEF Svr!procPlain, Svr!Handles, Svr!Msg, m
  <2>2. m \in RoutedMsg /\ m.cmd \in DataCmds  BY <1>1, <2>1 DEF RoutedCmds, DataCmds
  <2>3. plain2CipherMsg(m) \in RoutedMsg /\ Svr!plain2CipherMsg(m) = plain2CipherMsg(m)
    BY <2>2 DEF plain2CipherMsg, Svr!plain2CipherMsg, RoutedMsg, RoutedCmds
  <2>4. WiresGood(Svr!_sendMsg(c, plain2CipherMsg(m)))
    BY <1>1, <1>2, <2>2, <2>3, Converted, SendGood DEF WireMsg
  <2> QED
    BY <1>1, <1>7, <1>12, <2>2, <2>3, <2>4, RspUsrGood DEF Svr!procPlain, m, h
<1>13. CASE Svr!procSend(c)
  <2>1. m.cmd \in RoutedCmds
    BY <1>13 DEF Svr!procSend, Svr!Handles, Svr!Msg, m, RoutedCmds, Svr!TunnelCmds, TunnelCmds
  <2>2. WiresGood(Svr!_sendMsg(c, m))  BY <1>1, <1>2, <2>1, SendGood DEF WireMsg
  <2> QED  BY <1>1, <1>13, <2>1, <2>2, RspUsrGood DEF Svr!procSend, m, h
<1>14. CASE Svr!procSendNoerr(c)
  <2>1. m \in WireMsg
    <3>1. m.cmd \in NoerrCmds \union {"UID_EXIT_BROADCAST"}
      BY <1>14 DEF Svr!procSendNoerr, Svr!Handles, Svr!Msg, m, Svr!NoerrCmds, NoerrCmds
    <3> QED
      BY <1>1, <3>1 DEF WireMsg, RouterMsg, NoerrCmds, RoutedCmds, Router!LoginMsg, Router!LoginCmds
  <2>2. WiresGood(Svr!_sendMsg(c, m))  BY <1>1, <1>2, <2>1, SendGood
  <2> QED  BY <1>1, <1>14, <2>2 DEF Svr!procSendNoerr, m, h
<1> QED
  BY <1>5, <1>6, <1>9, <1>10, <1>11, <1>12, <1>13, <1>14, NoNullCipher DEF Svr!process

\* The callbacks of the network.
LEMMA RouterEvents ==
    ASSUME Router!IInv, QueuesGood(inq), WiresGood(out), NEW c \in Conns,
           Svr!onClose(c) \/ Svr!PeerGone(c) \/ Svr!onNewSock(c)
    PROVE  QueuesGood(inq') /\ WiresGood(out')
<1>1. CASE Svr!onClose(c)
  <2>1. WiresGood(out')  BY <1>1 DEF Svr!onClose
  <2>2. QueueGood(<<>>)  BY DEF QueueGood
  <2>3. ASSUME NEW d \in Conns, NEW u \in AllUids
        PROVE  QueueGood(Append(inq[d], [dir |-> "south", msg |-> Svr!exitMsg(u)]))
    <3>1. inq[d] \in Seq(Env) /\ QueueGood(inq[d])  BY RouterQueues DEF QueuesGood
    <3>2. Svr!exitMsg(u) \in RouterMsg  BY DEF RouterMsg, ExitMsg, Svr!exitMsg
    <3>3. Genuine(Svr!exitMsg(u))  BY NotData DEF Svr!exitMsg, DataCmds
    <3> DEFINE e == [dir |-> "south", msg |-> Svr!exitMsg(u)]
    <3>4. e \in Env /\ Genuine(e.msg)  BY <3>2, <3>3 DEF Env
    <3> HIDE DEF e
    <3>5. QueueGood(Append(inq[d], e))  BY <3>1, <3>4, QueueMoves
    <3> QED  BY <3>5 DEF e
  <2>4. \A d \in Conns : \/ inq'[d] = <<>> \/ inq'[d] = inq[d]
                         \/ inq'[d] = Append(inq[d], [dir |-> "south", msg |-> Svr!exitMsg(uid1[c])])
    BY <1>1 DEF Svr!onClose, Svr!broadcastUidExit
  <2>5. QueuesGood(inq')  BY <2>2, <2>3, <2>4, RouterQueues DEF QueuesGood
  <2> QED  BY <2>1, <2>5
<1>2. CASE Svr!PeerGone(c)
  BY <1>2 DEF Svr!PeerGone
<1>3. CASE Svr!onNewSock(c)
  <2>1. WireGood(<<[cmd |-> "HELO"]>>)  BY NotData DEF WireGood, DataCmds
  <2> QED  BY <1>3, <2>1, RouterQueues DEF Svr!onNewSock, WiresGood
<1> QED  BY <1>1, <1>2, <1>3
----------------------------------------------------------------------------
(* The clients.                                                            *)

\* What a link sends to the router, and to one of its agents.
LEMMA LinkSends ==
    ASSUME Router!IInv, QueuesGood(inq), NEW u, NEW m \in RouterMsg, Genuine(m)
    PROVE  QueuesGood(Cli!_sendMsg(u, m))
<1> DEFINE e == [dir |-> "north", msg |-> m]
<1>1. e \in Env /\ e.msg = m  BY DEF Env
<1> HIDE DEF e
<1>2. ASSUME NEW c \in Conns PROVE QueueGood(Append(inq[c], e))
  <2>1. inq[c] \in Seq(Env) /\ QueueGood(inq[c])  BY RouterQueues DEF QueuesGood
  <2> QED  BY <1>1, <2>1, QueueMoves
<1>3. ASSUME NEW d PROVE QueuesGood([inq EXCEPT ![d] = Append(@, e)])
  BY <1>2, RouterQueues DEF QueuesGood
<1> QED  BY <1>3 DEF Cli!_sendMsg, e

\* A link puts one genuine message into the queue of an agent.
LEMMA LinkForwards ==
    ASSUME agentq \in AgentQueues, AgentsGood(agentq), NEW u, NEW s, NEW m \in ToAgent, Genuine(m)
    PROVE  AgentsGood(Cli!_forward(u, s, m))
<1> DEFINE e == [dir |-> "south", msg |-> m]
<1>1. e \in AgentEnv /\ e.msg = m /\ e.dir = "south"  BY DEF AgentEnv
<1> HIDE DEF e
<1>2. ASSUME NEW a \in Agents PROVE SouthGood(Append(agentq[a], e)) /\ NorthGood(a, Append(agentq[a], e))
  <2>1. agentq[a] \in Seq(AgentEnv) /\ SouthGood(agentq[a]) /\ NorthGood(a, agentq[a])
    BY DEF AgentsGood, AgentQueues
  <2> QED  BY <1>1, <2>1, AgentMoves
<1>3. ASSUME NEW d PROVE AgentsGood([agentq EXCEPT ![d] = Append(@, e)])
  BY <1>2 DEF AgentsGood, AgentQueues
<1> QED  BY <1>3 DEF Cli!_forward, e

\* A link answers an undeliverable message with one that carries no data.
LEMMA RspSidGood ==
    ASSUME Router!IInv, QueuesGood(inq), agentq \in AgentQueues, AgentsGood(agentq),
           NEW u \in Uids, NEW m \in RoutedMsg, Cli!rspSidUnreach(u, m)
    PROVE  QueuesGood(inq') /\ AgentsGood(agentq')
<1> DEFINE e == Cli!genUnreachMsg(u, m)
<1>1. e \in RoutedMsg /\ Genuine(e) /\ e \in ToAgent
  BY UnreachGood, UnreachMsgType DEF AllUids
<1> HIDE DEF e
<1>2. QueuesGood(Cli!_sendMsg(u, e)) /\ AgentsGood(Cli!_forward(u, m.ssid, e))
  BY <1>1, LinkSends, LinkForwards DEF RouterMsg
<1> QED  BY <1>2 DEF Cli!rspSidUnreach, e

\* What a link takes from its wire
LEMMA SouthTaken ==
    ASSUME NodeInv, WiresGood(out), NEW u \in Uids, NEW cmds,
           Cli!HandlesSouth(u, cmds), Cli!SouthHandled(u)
    PROVE  WiresGood(out') /\ Genuine(Cli!SouthMsg(u))
<1>1. connOf[u] \in Conns /\ out[connOf[u]] # <<>>
  BY DEF NodeInv, LinkSound, Cli!HandlesSouth
<1>2. out \in [Conns -> Seq(WireMsg)]  BY RouterQueues DEF NodeInv
<1>3. Genuine(Head(out[connOf[u]])) /\ WireGood(Tail(out[connOf[u]]))
  BY <1>1, <1>2, WireMoves DEF WiresGood
<1> QED  BY <1>1, <1>2, <1>3 DEF WiresGood, Cli!SouthHandled, Cli!SouthMsg

\* and from the queue of what its agents collected.
LEMMA NorthTaken ==
    ASSUME NodeType, LinksGood(cliq), NEW u \in Uids, NEW cmds,
           Cli!HandlesNorth(u, cmds), Cli!NorthHandled(u)
    PROVE  LinksGood(cliq') /\ Genuine(Cli!NorthMsg(u))
<1>1. cliq \in [Uids -> Seq(RoutedMsg)] /\ cliq[u] # <<>>
  BY DEF NodeType, LinkQueues, Cli!HandlesNorth
<1>2. Genuine(Head(cliq[u])) /\ WireGood(Tail(cliq[u]))
  BY <1>1, WireMoves DEF LinksGood
<1> QED  BY <1>1, <1>2 DEF LinksGood, Cli!NorthHandled, Cli!NorthMsg

\* A link passes on what it takes, or an answer.
LEMMA LinkMoves ==
    ASSUME NodeInv, DataSound, NEW u \in Uids, Cli!process(u)
    PROVE  QueuesGood(inq') /\ WiresGood(out') /\ LinksGood(cliq') /\ AgentsGood(agentq')
<1>0. /\ NodeType /\ Router!IInv /\ agentq \in AgentQueues
      /\ QueuesGood(inq) /\ WiresGood(out) /\ LinksGood(cliq) /\ AgentsGood(agentq)
  BY DEF NodeInv, NodeType, DataSound
<1>f. ASSUME NEW m \in RoutedMsg, m \in ToAgent, Genuine(m), Cli!ForwardOrAnswer(u, m)
      PROVE  QueuesGood(inq') /\ AgentsGood(agentq')
  BY <1>0, <1>f, LinkForwards, RspSidGood DEF Cli!ForwardOrAnswer
<1>s. ASSUME NEW m \in RoutedMsg, Genuine(m), Cli!SendOrAnswer(u, m)
      PROVE  QueuesGood(inq') /\ AgentsGood(agentq')
  BY <1>0, <1>s, LinkSends, RspSidGood DEF Cli!SendOrAnswer, RouterMsg
<1>1. ASSUME NEW cmd, NEW exp, NEW next, NEW ans \in {"LOGIN_REQ", "LOGIN_END"},
             Cli!procLogin(u, cmd, exp, next, ans)
      PROVE  QueuesGood(inq') /\ WiresGood(out') /\ LinksGood(cliq') /\ AgentsGood(agentq')
  <2>1. ASSUME NEW x \in {"LOGIN_REQ", "LOGIN_END", "ERROR_ACK"}
        PROVE  Cli!LoginAnswer(u, x) \in RouterMsg /\ Genuine(Cli!LoginAnswer(u, x))
    <3>1. Cli!LoginAnswer(u, x) \in Router!LoginMsg
      BY DEF Cli!LoginAnswer, Router!LoginMsg, Router!LoginCmds, Router!AllUids
    <3>2. Cli!LoginAnswer(u, x).cmd \notin DataCmds
      BY DEF Cli!LoginAnswer, DataCmds
    <3> QED  BY <3>1, <3>2, NotData DEF RouterMsg
  <2>2. inq' = Cli!_sendMsg(u, Cli!LoginAnswer(u, ans)) \/ inq' = Cli!_sendMsg(u, Cli!LoginAnswer(u, "ERROR_ACK"))
    BY <1>1 DEF Cli!procLogin, Cli!errRsp
  <2>3. QueuesGood(inq')  BY <1>0, <2>1, <2>2, LinkSends
  <2>4. WiresGood(out')  BY <1>0, <1>1, SouthTaken DEF Cli!procLogin
  <2> QED  BY <1>0, <1>1, <2>3, <2>4 DEF Cli!procLogin
<1>2. CASE Cli!procCipher(u)
  <2> DEFINE m == Cli!SouthMsg(u)
  <2>1. WiresGood(out') /\ Genuine(m) /\ m \in RoutedMsg /\ m.cmd \in DataCmds
    BY <1>0, <1>2, SouthTaken, SouthType DEF Cli!procCipher, RoutedCmds, DataCmds
  <2> HIDE DEF m
  <2>2. cipher2PlainMsg(m) \in RoutedMsg /\ cipher2PlainMsg(m) \in ToAgent
        /\ Cli!cipher2PlainMsg(m) = cipher2PlainMsg(m)
    BY <2>1 DEF Cli!cipher2PlainMsg, cipher2PlainMsg, RoutedMsg, ToAgent, RoutedCmds
  <2>3. Genuine(cipher2PlainMsg(m))  BY <2>1, Converted
  <2>4. QueuesGood(inq') /\ AgentsGood(agentq')
    BY <1>0, <1>2, <1>f, <2>2, <2>3 DEF Cli!procCipher, m
  <2> QED  BY <1>0, <1>2, <2>1, <2>4 DEF Cli!procCipher
<1>3. CASE Cli!procForward(u) \/ Cli!procForwardNoerr(u)
  <2> DEFINE m == Cli!SouthMsg(u)
  <2>1. WiresGood(out') /\ Genuine(m) /\ m \in RoutedMsg /\ m \in ToAgent
    BY <1>0, <1>3, SouthTaken, SouthType
    DEF Cli!procForward, Cli!procForwardNoerr, Cli!NoerrCmds, NoerrCmds, RoutedCmds, TunnelCmds, ToAgent
  <2> HIDE DEF m
  <2>2. QueuesGood(inq') /\ AgentsGood(agentq')
    BY <1>0, <1>3, <1>f, <2>1, LinkForwards DEF Cli!procForward, Cli!procForwardNoerr, m
  <2> QED  BY <1>0, <1>3, <2>1, <2>2 DEF Cli!procForward, Cli!procForwardNoerr
<1>5. CASE Cli!procPeerUsrExit(u)
  <2> DEFINE m == Cli!SouthMsg(u)
             e == [dir |-> "south", msg |-> m]
  <2>1. WiresGood(out') /\ Genuine(m) /\ m \in ToAgent
    BY <1>0, <1>5, SouthTaken, SouthType DEF Cli!procPeerUsrExit, ToAgent
  <2>2. e \in AgentEnv /\ e.dir = "south" /\ e.msg = m  BY <2>1 DEF AgentEnv
  <2> HIDE DEF e
  <2>3. ASSUME NEW a \in Agents PROVE SouthGood(Append(agentq[a], e)) /\ NorthGood(a, Append(agentq[a], e))
    <3>1. agentq[a] \in Seq(AgentEnv) /\ SouthGood(agentq[a]) /\ NorthGood(a, agentq[a])
      BY <1>0 DEF AgentsGood, AgentQueues
    <3> QED  BY <2>1, <2>2, <3>1, AgentMoves
  <2>4. AgentsGood(Cli!notifyAllSid(u, m))
    BY <1>0, <2>3 DEF AgentsGood, Cli!notifyAllSid, e
  <2> QED  BY <1>0, <1>5, <2>1, <2>4 DEF Cli!procPeerUsrExit
<1>6. CASE Cli!procPlain(u)
  <2> DEFINE m == Cli!NorthMsg(u)
  <2>1. LinksGood(cliq') /\ Genuine(m) /\ m \in RoutedMsg /\ m.cmd = "FRAME_PLAIN"
    BY <1>0, <1>6, NorthTaken, NorthType DEF Cli!procPlain, Cli!HandlesNorth, Cli!NorthMsg
  <2> HIDE DEF m
  <2>2. plain2CipherMsg(m) \in RoutedMsg /\ Cli!plain2CipherMsg(m) = plain2CipherMsg(m)
    BY <2>1 DEF Cli!plain2CipherMsg, plain2CipherMsg, RoutedMsg, RoutedCmds
  <2>3. Genuine(plain2CipherMsg(m))  BY <2>1, Converted DEF DataCmds
  <2>4. QueuesGood(inq') /\ AgentsGood(agentq')
    BY <1>0, <1>6, <1>s, <2>2, <2>3 DEF Cli!procPlain, m
  <2> QED  BY <1>0, <1>6, <2>1, <2>4 DEF Cli!procPlain
<1>7. CASE Cli!procSend(u) \/ Cli!procSendNoerr(u)
  <2> DEFINE m == Cli!NorthMsg(u)
  <2>1. LinksGood(cliq') /\ Genuine(m) /\ m \in RoutedMsg
    BY <1>0, <1>7, NorthTaken, NorthType DEF Cli!procSend, Cli!procSendNoerr
  <2> HIDE DEF m
  <2>2. m \in RouterMsg  BY <2>1 DEF RouterMsg
  <2>3. QueuesGood(inq') /\ AgentsGood(agentq')
    BY <1>0, <1>7, <1>s, <2>1, <2>2, LinkSends DEF Cli!procSend, Cli!procSendNoerr, m
  <2> QED  BY <1>0, <1>7, <2>1, <2>3 DEF Cli!procSend, Cli!procSendNoerr
<1> QED
  BY <1>1, <1>2, <1>3, <1>5, <1>6, <1>7 DEF Cli!process, Cli!procHeloMsg, Cli!procExchKeyMsg

\* A request for a tunnel is taken, or answered.
LEMMA RequestMoves ==
    ASSUME NodeInv, DataSound, NEW u \in Uids, Agt!creatAgentCli(u)
    PROVE  QueuesGood(inq') /\ WiresGood(out') /\ AgentsGood(agentq')
<1> DEFINE m == Agt!Cli!SouthMsg(u)
<1>0. /\ Router!IInv /\ agentq \in AgentQueues
      /\ QueuesGood(inq) /\ WiresGood(out) /\ AgentsGood(agentq)
  BY DEF NodeInv, NodeType, DataSound
<1>1. /\ Cli!HandlesSouth(u, {"TUNNEL_REQ"}) /\ Cli!SouthHandled(u) /\ m = Cli!SouthMsg(u)
  BY DEF Agt!creatAgentCli, Agt!Cli!HandlesSouth, Cli!HandlesSouth,
         Agt!Cli!SouthHandled, Cli!SouthHandled, Agt!Cli!SouthMsg, Cli!SouthMsg
<1>2. WiresGood(out') /\ m \in RoutedMsg
  BY <1>0, <1>1, SouthTaken, SouthType DEF RoutedCmds, TunnelCmds
<1>3. (inq' = inq /\ agentq' = agentq) \/ Agt!Cli!rspSidUnreach(u, m)
  BY DEF Agt!creatAgentCli
<1>4. Agt!Cli!rspSidUnreach(u, m) => Cli!rspSidUnreach(u, m)
  BY DEF Agt!Cli!rspSidUnreach, Cli!rspSidUnreach, Agt!Cli!genUnreachMsg,
      Cli!genUnreachMsg, Agt!Cli!_forward, Cli!_forward, Agt!Cli!Forwardable,
      Cli!Forwardable, Agt!Cli!existSid, Cli!existSid, Agt!Cli!_sendMsg, Cli!_sendMsg,
      Agt!Cli!Sendable, Cli!Sendable
<1> HIDE DEF m
<1> QED  BY <1>0, <1>2, <1>3, <1>4, RspSidGood
----------------------------------------------------------------------------
(* The agents.                                                             *)

\* What an agent collects for its link is genuine: no data, or a unit that it
\* has read from its application.
LEMMA AgentSends ==
    ASSUME NodeType, LinksGood(cliq), NEW ag \in AgentRec, NEW cmd \in RoutedCmds,
           NEW b \in Contents, Agt!_forward(ag, cmd, b),
           cmd \in DataCmds => \E a \in Agents : \E k \in 1..read[a] : b = <<a, k>> /\ ag = agent[a]
    PROVE  LinksGood(cliq')
<1> DEFINE m == Agt!Msg(cmd, ag, b)
<1>1. m \in RoutedMsg
  BY DEF Agt!Msg, RoutedMsg, AgentRec, Contents
<1>2. /\ m.cmd = cmd /\ m.body = b
      /\ <<m.suid, m.ssid, m.duid, m.dsid>> = Addresses(ag)
  BY DEF Agt!Msg, Addresses
<1> HIDE DEF m
<1>3. Genuine(m)  BY <1>2 DEF Genuine, GenuineFor
<1>4. cliq \in [Uids -> Seq(RoutedMsg)]  BY DEF NodeType, LinkQueues
<1>5. ASSUME NEW u \in Uids PROVE WireGood(Append(cliq[u], m))
  BY <1>1, <1>3, <1>4, WireMoves DEF LinksGood
<1>6. ASSUME NEW u PROVE LinksGood([cliq EXCEPT ![u] = Append(@, m)])
  BY <1>4, <1>5 DEF LinksGood
<1> QED  BY <1>6 DEF Agt!_forward, Agt!Cli!collect, m

\* An agent's CLOSE carries no data.
LEMMA CloseGood ==
    ASSUME NodeType, LinksGood(cliq), NEW ag \in AgentRec, Agt!sendCloseTunnelMsg(ag)
    PROVE  LinksGood(cliq')
<1>1. "TUNNEL_CLOSE" \in RoutedCmds /\ "TUNNEL_CLOSE" \notin DataCmds /\ Request \in Contents
  BY TunnelAssumption DEF RoutedCmds, NoerrCmds, DataCmds, Contents
<1> QED  BY <1>1, AgentSends DEF Agt!sendCloseTunnelMsg

\* What an agent takes from its queue.
LEMMA TakenByAgent ==
    ASSUME NodeType, AgentsGood(agentq), NEW a \in Agents, agentq[a] # <<>>, Agt!Handled(a)
    PROVE  /\ AgentsGood(agentq')
           /\ Head(agentq[a]).dir = "south" => Genuine(Agt!SouthMsg(a))
           /\ Head(agentq[a]).dir = "north" =>
                 \E k \in 1..read[a] : Head(agentq[a]).unit = <<a, k>>
<1>1. agentq \in [Agents -> Seq(AgentEnv)]  BY DEF NodeType, AgentQueues
<1>2. agentq[a] \in Seq(AgentEnv) /\ SouthGood(agentq[a]) /\ NorthGood(a, agentq[a])
  BY <1>1 DEF AgentsGood
<1>3. /\ Head(agentq[a]).dir = "south" => Genuine(Head(agentq[a]).msg)
      /\ Head(agentq[a]).dir = "north" => \E k \in 1..read[a] : Head(agentq[a]).unit = <<a, k>>
      /\ SouthGood(Tail(agentq[a])) /\ NorthGood(a, Tail(agentq[a]))
  BY <1>2, AgentMoves
<1> QED  BY <1>1, <1>3 DEF AgentsGood, Agt!Handled, Agt!SouthMsg

\* The handlers of an agent, and its end.
LEMMA AgentStepMoves ==
    ASSUME NodeType, LinksGood(cliq), AgentsGood(agentq), NEW a \in Agents, agentStep(a)
    PROVE  LinksGood(cliq') /\ AgentsGood(agentq') /\ UNCHANGED <<inq, out>>
<1>0. agent[a] \in AgentRec  BY DEF NodeType
<1>1. CASE Agt!procForward(a)
  <2> DEFINE x == Head(agentq[a]).unit
  <2>1. AgentsGood(agentq') /\ (\E k \in 1..read[a] : x = <<a, k>>) /\ x \in Contents
    BY <1>1, TakenByAgent, AgentHead DEF Agt!procForward, Agt!HandlesNorth
  <2> HIDE DEF x
  <2>2. cliq' = cliq \/ Agt!_forward(agent[a], "FRAME_PLAIN", x)
    BY <1>1 DEF Agt!procForward, x
  <2>3. "FRAME_PLAIN" \in RoutedCmds  BY DEF RoutedCmds
  <2>4. LinksGood(cliq')  BY <1>0, <2>1, <2>2, <2>3, AgentSends
  <2> QED  BY <1>1, <2>1, <2>4 DEF Agt!procForward
<1>2. CASE Agt!procSend(a) \/ Agt!procTunnelAck(a)
  <2>1. AgentsGood(agentq')
    BY <1>2, TakenByAgent DEF Agt!procSend, Agt!procTunnelAck, Agt!HandlesSouth
  <2> QED  BY <1>2, <2>1 DEF Agt!procSend, Agt!procTunnelAck
<1>3. ASSUME NEW cmd, Agt!procEnd(a, cmd)
      PROVE  LinksGood(cliq') /\ AgentsGood(agentq') /\ UNCHANGED <<inq, out>>
  <2>1. AgentsGood(agentq')  BY <1>3, TakenByAgent DEF Agt!procEnd, Agt!HandlesSouth
  <2> QED  BY <1>3, <2>1 DEF Agt!procEnd
<1>4. CASE Agt!onClose(a)
  <2>1. LinksGood(cliq')  BY <1>0, <1>4, CloseGood DEF Agt!onClose
  <2>2. SouthGood(<<>>) /\ NorthGood(a, <<>>)  BY DEF SouthGood, NorthGood
  <2>3. AgentsGood(agentq')
    BY <1>4, <2>2 DEF Agt!onClose, AgentsGood, NodeType, AgentQueues
  <2> QED  BY <1>4, <2>1, <2>3 DEF Agt!onClose
<1> QED
  BY <1>1, <1>2, <1>3, <1>4 DEF agentStep, Agt!process, Agt!procPeerUsrExit,
     Agt!procTunnelClose, Agt!procUnreach

\* The end of an agent's connection attempt.
LEMMA AgentConnMoves ==
    ASSUME NodeType, LinksGood(cliq), NEW a \in Agents, agentConn(a),
           Agt!Cli!newSid(agent[a].uid) \in AllSids \/ ~Agt!Cli!hasAuthed(agent[a].uid)
    PROVE  LinksGood(cliq') /\ UNCHANGED <<inq, out, agentq>>
<1>0. agent[a] \in AgentRec  BY DEF NodeType
<1> DEFINE ag == [agent[a] EXCEPT !.fd = "open", !.stat = "AUTH_OK",
                                  !.sid = Agt!Cli!newSid(agent[a].uid)]
<1>1. ASSUME Agt!Cli!newSid(agent[a].uid) \in AllSids, Agt!sendTunnelAckMsg(ag)
      PROVE  LinksGood(cliq')
  <2>1. ag \in AgentRec  BY <1>0, <1>1 DEF AgentRec
  <2> HIDE DEF ag
  <2>2. "TUNNEL_ACK" \in RoutedCmds /\ "TUNNEL_ACK" \notin DataCmds /\ Request \in Contents
    BY TunnelAssumption DEF RoutedCmds, TunnelCmds, DataCmds, Contents
  <2> QED  BY <1>1, <2>1, <2>2, AgentSends DEF Agt!sendTunnelAckMsg
<1>2. LinksGood(cliq')
  BY <1>0, <1>1, CloseGood DEF agentConn, Agt!onConnOK, Agt!onConnFail
<1> QED  BY <1>2 DEF agentConn, Agt!onConnOK, Agt!onConnFail

\* A new agent asks for its tunnel.
LEMMA NewAgentMoves ==
    ASSUME NodeType, LinksGood(cliq), NEW u \in Uids, Agt!creatAgentSvr(u),
           Agt!Cli!newSid(u) \in AllSids
    PROVE  LinksGood(cliq') /\ UNCHANGED <<inq, out, agentq>>
<1> DEFINE ag == [Agt!emptyAgent("open") EXCEPT
                     !.stat = "INIT", !.uid = u, !.sid = Agt!Cli!newSid(u),
                     !.peerUid = linkTo[u]]
<1>1. ag \in AgentRec
  BY TunnelAssumption DEF Agt!emptyAgent, AgentRec, AllUids, AllSids
<1>2. Agt!_forward(ag, "TUNNEL_REQ", Request)
  BY DEF Agt!creatAgentSvr
<1> HIDE DEF ag
<1>3. "TUNNEL_REQ" \in RoutedCmds /\ "TUNNEL_REQ" \notin DataCmds /\ Request \in Contents
  BY TunnelAssumption DEF RoutedCmds, TunnelCmds, DataCmds, Contents
<1> QED  BY <1>1, <1>2, <1>3, AgentSends DEF Agt!creatAgentSvr
----------------------------------------------------------------------------
(* Every step of the system.                                               *)

\* Whatever happens, what is in the queues was there, or has been read, or
\* carries no data.
LEMMA StepMoves ==
    ASSUME SysInv, DataSound, [Next]_vars
    PROVE  /\ QueuesGood(inq') /\ WiresGood(out') /\ LinksGood(cliq')
           /\ AgentsGood(agentq') \/ \E a \in Agents : Agt!parseData(a)
<1>0. /\ NodeInv /\ NodeType /\ Router!IInv /\ SessionInv /\ AgentSound /\ EnoughSids
      /\ QueuesGood(inq) /\ WiresGood(out) /\ LinksGood(cliq) /\ AgentsGood(agentq)
  BY DEF SysInv, NodeInv, SessionInv, DataSound
<1>1. ASSUME NEW c \in Conns, svrStep(c) \/ SvrLost(c)
      PROVE  QueuesGood(inq') /\ WiresGood(out') /\ LinksGood(cliq') /\ AgentsGood(agentq')
  <2>1. cliq' = cliq /\ agentq' = agentq
    BY <1>1 DEF svrStep, SvrLost, nodeVars
  <2>2. QueuesGood(inq') /\ WiresGood(out')
    BY <1>0, <1>1, RouterMoves, RouterEvents DEF svrStep, SvrLost
  <2> QED  BY <1>0, <2>1, <2>2
<1>2. ASSUME NEW u \in Uids, Connect(u)
      PROVE  QueuesGood(inq') /\ WiresGood(out') /\ LinksGood(cliq') /\ AgentsGood(agentq')
  <2>1. cliq' = cliq /\ agentq' = agentq
    BY <1>2 DEF Connect, Cli!onConnOK
  <2>2. newConn \in Conns  BY <1>2, NewConnFree
  <2>3. QueuesGood(inq') /\ WiresGood(out')
    BY <1>0, <1>2, <2>2, RouterEvents DEF Connect
  <2> QED  BY <1>0, <2>1, <2>3
<1>3. ASSUME NEW u \in Uids, CliLost(u)
      PROVE  QueuesGood(inq') /\ WiresGood(out') /\ LinksGood(cliq') /\ AgentsGood(agentq')
  BY <1>0, <1>3 DEF CliLost, Cli!LinkLost
<1>4. ASSUME NEW u \in Uids, Break(u)
      PROVE  QueuesGood(inq') /\ WiresGood(out') /\ LinksGood(cliq') /\ AgentsGood(agentq')
  <2>1. connOf[u] \in Conns  BY <1>0, <1>4 DEF Break, NodeInv, LinkSound
  <2> QED  BY <1>1, <1>3, <1>4, <2>1 DEF Break
<1>5. CASE SvrCrash
  <2>1. QueueGood(<<>>)  BY DEF QueueGood
  <2> QED  BY <1>0, <1>5, <2>1 DEF SvrCrash, Svr!processEnds, nodeVars, QueuesGood
<1>6. ASSUME NEW u \in Uids, CliCrash(u)
      PROVE  QueuesGood(inq') /\ WiresGood(out') /\ LinksGood(cliq') /\ AgentsGood(agentq')
  <2>1. inq' = inq /\ out' = out  BY <1>6 DEF CliCrash, svrVars
  <2>2. LinksGood(cliq')
    <3>1. WireGood(<<>>)  BY DEF WireGood
    <3>2. \A v \in Uids : cliq'[v] = <<>> \/ cliq'[v] = cliq[v]
      BY <1>0, <1>6 DEF CliCrash, NodeType, LinkQueues
    <3> QED  BY <1>0, <3>1, <3>2 DEF LinksGood
  <2>3. AgentsGood(agentq')
    <3>1. \A a \in Agents : SouthGood(<<>>) /\ NorthGood(a, <<>>)
      BY DEF SouthGood, NorthGood
    <3>2. \A a \in Agents : agentq'[a] = <<>> \/ agentq'[a] = agentq[a]
      BY <1>6 DEF CliCrash
    <3> QED  BY <1>0, <3>1, <3>2 DEF AgentsGood
  <2> QED  BY <1>0, <2>1, <2>2, <2>3
<1>7. ASSUME NEW u \in Uids, cliStep(u)
      PROVE  QueuesGood(inq') /\ WiresGood(out') /\ LinksGood(cliq') /\ AgentsGood(agentq')
  <2>1. CASE Cli!process(u)
    BY <1>0, <2>1, LinkMoves
  <2>2. CASE Cli!onClose(u)
    <3>1. WireGood(<<>>)  BY DEF WireGood
    <3>2. \A v \in Uids : cliq'[v] = <<>> \/ cliq'[v] = cliq[v]
      BY <1>0, <2>2 DEF Cli!onClose, NodeType, LinkQueues
    <3>3. LinksGood(cliq')  BY <1>0, <3>1, <3>2 DEF LinksGood
    <3> QED  BY <1>0, <2>2, <3>3 DEF Cli!onClose
  <2>3. CASE Agt!creatAgentCli(u)
    <3>1. cliq' = cliq  BY <2>3 DEF Agt!creatAgentCli
    <3> QED  BY <1>0, <2>3, <3>1, RequestMoves
  <2> QED  BY <1>7, <2>1, <2>2, <2>3 DEF cliStep
<1>8. ASSUME NEW a \in Agents, agentStep(a) \/ agentConn(a) \/ Agt!AppGone(a)
      PROVE  QueuesGood(inq') /\ WiresGood(out') /\ LinksGood(cliq') /\ AgentsGood(agentq')
  <2>1. CASE agentStep(a)
    BY <1>0, <2>1, AgentStepMoves
  <2>2. CASE agentConn(a)
    <3>1. agent[a].fd = "connecting" /\ agent[a].uid \in Uids
      BY <1>0, <2>2 DEF agentConn, Agt!onConnOK, Agt!onConnFail, AgentSound
    <3>2. Agt!Cli!newSid(agent[a].uid) \in AllSids
      BY <1>0, <3>1, NewSid DEF Agt!Cli!newSid, AllSids
    <3> QED  BY <1>0, <2>2, <3>2, AgentConnMoves
  <2>3. CASE Agt!AppGone(a)
    BY <1>0, <2>3 DEF Agt!AppGone
  <2> QED  BY <1>8, <2>1, <2>2, <2>3
<1>9. ASSUME NEW u \in Uids, Agt!creatAgentSvr(u)
      PROVE  QueuesGood(inq') /\ WiresGood(out') /\ LinksGood(cliq') /\ AgentsGood(agentq')
  <2>1. Agt!newAgent \in Agents /\ agent[Agt!newAgent].fd = "free"
    BY <1>9, NewAgentFree DEF Agt!creatAgentSvr
  <2>2. Agt!Cli!newSid(u) \in AllSids
    BY <1>0, <2>1, NewSid DEF Agt!Cli!newSid, AllSids
  <2> QED  BY <1>0, <1>9, <2>2, NewAgentMoves
<1>10. ASSUME NEW a \in Agents, Agt!parseData(a)
       PROVE  /\ QueuesGood(inq') /\ WiresGood(out') /\ LinksGood(cliq')
              /\ AgentsGood(agentq') \/ \E b \in Agents : Agt!parseData(b)
  BY <1>0, <1>10 DEF Agt!parseData
<1>11. CASE UNCHANGED vars
  BY <1>0, <1>11 DEF vars, svrVars, nodeVars
<1>12. CASE Next
  BY <1>1, <1>2, <1>3, <1>4, <1>5, <1>6, <1>7, <1>8, <1>9, <1>10, <1>12
  DEF Next, SvrNotice, CliNotice, application
<1> QED  BY <1>11, <1>12

\* What has been read has been read.
LEMMA ReadGrows ==
    ASSUME read \in [Agents -> Nat], EndStep, NEW a \in Agents
    PROVE  read'[a] \in Nat /\ read[a] <= read'[a]
  BY DEF EndStep, Kept, Made, Sent, HandedTo

\* What is genuine stays so: nobody unreads, and an agent that has read keeps
\* its addresses until it is freed.
LEMMA GenuineKept ==
    ASSUME AgentTypes, read \in [Agents -> Nat], StatSound, Unread, EndStep,
           NEW m, Genuine(m)
    PROVE  GenuineFor(m, read', agent')
<1>1. \A a \in Agents : read'[a] \in Nat /\ read[a] <= read'[a]
  BY ReadGrows
<1>2. ASSUME NEW a \in Agents, read[a] > 0, agent'[a].fd # "dead"
      PROVE  agent[a].fd # "dead" /\ Addresses(agent'[a]) = Addresses(agent[a])
  <2>1. agent[a].fd # "dead"
    BY <1>2 DEF EndStep, Kept, Stays, Made, Sent, HandedTo, PhaseOf
  <2>2. agent[a].stat = "AUTH_OK"
    BY <1>2, <2>1 DEF Unread
  <2>3. agent[a].fd \in {"open", "closing"}
    BY <2>1, <2>2 DEF AgentTypes, AgentRec, StatSound, StatOf
  <2>4. PhaseOf(agent[a]) # "new"
    BY <2>2, <2>3 DEF PhaseOf
  <2>5. CASE Kept
    BY <1>2, <2>1, <2>2, <2>5 DEF Kept, Stays
  <2>6. ASSUME NEW b \in Agents, Made(b) \/ Sent(b) \/ HandedTo(b)
        PROVE  agent'[a] = agent[a]
    BY <2>4, <2>6 DEF Made, Sent, HandedTo
  <2> QED  BY <2>1, <2>5, <2>6 DEF EndStep
<1>3. CASE m.cmd \in DataCmds
  <2>1. PICK a \in Agents : \E k \in 1..read[a] :
           /\ m.body = <<a, k>>
           /\ agent[a].fd # "dead" =>
                 <<m.suid, m.ssid, m.duid, m.dsid>> = Addresses(agent[a])
    BY <1>3 DEF Genuine, GenuineFor
  <2>2. \A k \in 1..read[a] : k \in 1..read'[a] /\ read[a] > 0  BY <1>1
  <2> QED  BY <1>2, <2>1, <2>2 DEF GenuineFor
<1> QED  BY <1>3 DEF GenuineFor

\* The data stay sound in every step.
LEMMA DataKept ==
    ASSUME PInv, DataSound, [Next]_vars
    PROVE  DataSound'
<1>0. /\ SysInv /\ StatSound /\ Unread /\ NodeType /\ AgentTypes
      /\ read \in [Agents -> Nat] /\ agentq \in AgentQueues /\ agentq \in [Agents -> Seq(AgentEnv)]
      /\ got \in [Agents -> Seq(Contents)]
  BY DEF PInv, SysInv, NodeInv, NodeType, AgentTypes, AgentQueues
<1>1. EndStep  BY <1>0, Steps
<1>2. /\ QueuesGood(inq') /\ WiresGood(out') /\ LinksGood(cliq')
      /\ AgentsGood(agentq') \/ \E a \in Agents : Agt!parseData(a)
  BY <1>0, StepMoves
<1>3. \A a \in Agents : read'[a] \in Nat /\ read[a] <= read'[a]
  BY <1>0, <1>1, ReadGrows
<1>4. ASSUME NEW m, Genuine(m) PROVE GenuineFor(m, read', agent')
  BY <1>0, <1>1, <1>4, GenuineKept
<1>5. QueuesGood(inq)' /\ WiresGood(out)' /\ LinksGood(cliq)'
  BY <1>2, <1>4 DEF QueuesGood, QueueGood, WiresGood, LinksGood, WireGood, Genuine
<1>6. AgentsGood(agentq)'
  <2>1. ASSUME NEW a \in Agents, NEW q, SouthGood(q)
        PROVE  \A i \in 1..Len(q) : q[i].dir = "south" => GenuineFor(q[i].msg, read', agent')
    BY <1>4, <2>1 DEF SouthGood
  <2>2. ASSUME NEW a \in Agents, NEW q, NorthGood(a, q)
        PROVE  \A i \in 1..Len(q) :
                  q[i].dir = "north" => \E k \in 1..read'[a] : q[i].unit = <<a, k>>
    <3> SUFFICES ASSUME NEW i \in 1..Len(q), q[i].dir = "north"
                 PROVE  \E k \in 1..read'[a] : q[i].unit = <<a, k>>
      OBVIOUS
    <3>1. PICK k \in 1..read[a] : q[i].unit = <<a, k>>  BY <2>2 DEF NorthGood
    <3>2. k \in 1..read'[a]  BY <1>0, <1>3
    <3> QED  BY <3>1, <3>2
  <2>3. CASE AgentsGood(agentq')
    <3>1. ASSUME NEW a \in Agents
          PROVE  \A i \in 1..Len(agentq'[a]) :
                    /\ agentq'[a][i].dir = "south" => GenuineFor(agentq'[a][i].msg, read', agent')
                    /\ agentq'[a][i].dir = "north" =>
                          \E k \in 1..read'[a] : agentq'[a][i].unit = <<a, k>>
      <4>1. SouthGood(agentq'[a]) /\ NorthGood(a, agentq'[a])
        BY <2>3 DEF AgentsGood
      <4> QED  BY <2>1, <2>2, <4>1
    <3> QED  BY <3>1 DEF AgentsGood, SouthGood, NorthGood, Genuine
  <2>4. ASSUME NEW a \in Agents, Agt!parseData(a) PROVE AgentsGood(agentq)'
    <3> DEFINE e == [dir |-> "north", unit |-> <<a, read[a] + 1>>]
               q == agentq[a]
    <3>1. agentq' = [agentq EXCEPT ![a] = Append(@, e)] /\ read'[a] = read[a] + 1
      BY <1>0, <2>4 DEF Agt!parseData
    <3>2. q \in Seq(AgentEnv) /\ SouthGood(q) /\ NorthGood(a, q)
      BY <1>0 DEF AgentsGood, DataSound
    <3>3. e.dir = "north" /\ \E k \in 1..read'[a] : e.unit = <<a, k>>
      BY <1>0, <3>1
    <3> HIDE DEF e
    <3>4. \A i \in 1..Len(Append(q, e)) :
             /\ Append(q, e)[i].dir = "south" => GenuineFor(Append(q, e)[i].msg, read', agent')
             /\ Append(q, e)[i].dir = "north" => \E k \in 1..read'[a] : Append(q, e)[i].unit = <<a, k>>
      BY <2>1, <2>2, <3>2, <3>3
    <3>5. \A b \in Agents : agentq'[b] = IF b = a THEN Append(q, e) ELSE agentq[b]
      BY <1>0, <3>1
    <3>6. \A b \in Agents : SouthGood(agentq[b]) /\ NorthGood(b, agentq[b])
      BY DEF DataSound, AgentsGood
    <3> HIDE DEF q
    <3>7. ASSUME NEW b \in Agents, NEW i \in 1..Len(agentq'[b])
          PROVE  /\ agentq'[b][i].dir = "south" => GenuineFor(agentq'[b][i].msg, read', agent')
                 /\ agentq'[b][i].dir = "north" => \E k \in 1..read'[b] : agentq'[b][i].unit = <<b, k>>
      <4>1. CASE b = a  BY <3>4, <3>5, <3>7, <4>1
      <4>2. CASE b # a  BY <2>1, <2>2, <3>5, <3>6, <3>7, <4>2
      <4> QED  BY <4>1, <4>2
    <3> QED
      BY <3>7 DEF AgentsGood, SouthGood, NorthGood, Genuine
  <2> QED  BY <1>2, <2>3, <2>4
<1>7. GotGood'
  <2>1. ASSUME NEW x, SentUnit(x) PROVE \E a \in Agents : \E k \in 1..read'[a] : x = <<a, k>>
    <3>1. PICK a \in Agents : \E k \in 1..read[a] : x = <<a, k>>  BY <2>1 DEF SentUnit
    <3>2. \A k \in 1..read[a] : k \in 1..read'[a]  BY <1>0, <1>3
    <3> QED  BY <3>1, <3>2
  <2>2. ASSUME NEW b \in Agents, NEW i \in 1..Len(got'[b]) PROVE SentUnit(got'[b][i])
    <3>1. got[b] \in Seq(Contents) /\ \A j \in 1..Len(got[b]) : SentUnit(got[b][j])
      BY <1>0 DEF DataSound, GotGood
    <3>2. CASE got' = got
      BY <2>2, <3>1, <3>2
    <3>3. ASSUME NEW a \in Agents, HandedTo(a) PROVE SentUnit(got'[b][i])
      <4> DEFINE m == Agt!SouthMsg(a)
      <4>1. /\ agentq[a] # <<>> /\ Head(agentq[a]).dir = "south" /\ m.cmd = "FRAME_PLAIN"
            /\ m.body \in Contents /\ got' = [got EXCEPT ![a] = Append(@, m.body)]
        BY <3>3 DEF HandedTo
      <4>2. Genuine(m)
        <5>1. agentq[a] \in Seq(AgentEnv) /\ SouthGood(agentq[a]) /\ NorthGood(a, agentq[a])
          BY <1>0 DEF DataSound, AgentsGood
        <5> QED  BY <4>1, <5>1, AgentMoves DEF Agt!SouthMsg
      <4>3. SentUnit(m.body)  BY <4>1, <4>2 DEF Genuine, GenuineFor, SentUnit, DataCmds
      <4> HIDE DEF m
      <4>4. CASE b = a
        <5>1. got'[b] = Append(got[b], m.body)  BY <1>0, <4>1, <4>4
        <5> QED  BY <2>2, <3>1, <4>1, <4>3, <5>1
      <4>5. CASE b # a
        <5>1. got'[b] = got[b]  BY <1>0, <4>1, <4>5
        <5> QED  BY <2>2, <3>1, <5>1
      <4> QED  BY <4>4, <4>5
    <3> QED  BY <1>1, <3>2, <3>3 DEF EndStep, Kept, Made, Sent
  <2> QED  BY <2>1, <2>2 DEF GotGood, SentUnit
<1> QED  BY <1>5, <1>6, <1>7 DEF DataSound

\* There are no data to begin with.
LEMMA DataInit == ASSUME Init PROVE DataSound
<1>1. /\ inq = [c \in Conns |-> <<>>] /\ out = [c \in Conns |-> <<>>]
      /\ cliq = [u \in Uids |-> <<>>] /\ agentq = [a \in Agents |-> <<>>]
      /\ got = [a \in Agents |-> <<>>]
  BY DEF Init, Svr!Init, Cli!Init, Agt!Init
<1> QED
  BY <1>1 DEF DataSound, QueuesGood, QueueGood, WiresGood, LinksGood, WireGood,
     AgentsGood, SouthGood, NorthGood, GotGood

\* So they are sound always.
LEMMA DataAlways == Spec => [](PInv /\ DataSound)
<1>1. Init => DataSound  BY DataInit
<1>2. PInv /\ DataSound /\ [Next]_vars => DataSound'  BY DataKept
<1> QED  BY <1>1, <1>2, PInvAlways, PTL DEF Spec

\* Nothing is made up on the way: whatever an application has been handed is
\* a unit that some application sent into an agent of its own before, whole
\* and deciphered, through whatever queues, breaks and crashes it came.
THEOREM HandedWasSent == Spec => []GotGood
<1>1. PInv /\ DataSound => GotGood  BY DEF DataSound
<1> QED  BY <1>1, DataAlways, PTL
----------------------------------------------------------------------------
(* Addresses.  What reaches a link is for its user, because no other user  *)
(* logs in on the link's connection while the link lasts; so what reaches  *)
(* an agent is for its session.                                            *)

\* The queue of a connection on which only u logs in, and a wire to u.
LoginsOf(u, q) ==
    \A i \in 1..Len(q) :
        q[i].dir = "north" /\ q[i].msg.cmd = "LOGIN_REQ" => q[i].msg.uid = u

WireTo(u, w) == \A i \in 1..Len(w) : w[i].cmd \in RoutedCmds => w[i].duid = u

\* The router serves u, and nobody else, on connection c.
Serves(u, c) ==
    /\ uid1[c] \in {NoUid, u}
    /\ stat[c] \in {"SVR_EXCH_KEY", "AUTH_OK"} => uid1[c] = u
    /\ LoginsOf(u, inq[c]) /\ WireTo(u, out[c])

\* What is queued for the peer of a connection is for somebody.
Named(q) ==
    \A i \in 1..Len(q) :
        q[i].dir = "south" /\ q[i].msg.cmd \in RoutedCmds => q[i].msg.duid # NoUid

LinksServed ==
    /\ \A u \in Uids : link[u] # "down" => Serves(u, connOf[u])
    /\ \A u, v \in Uids :
          link[u] # "down" /\ link[v] # "down" /\ connOf[u] = connOf[v] => u = v
    /\ \A c \in Conns : Named(inq[c]) /\ (fd[c] = "free" => uid1[c] = NoUid)

\* A worker appends at most one message to the queue of a connection, which
\* goes to its peer and is for somebody, and to the wire of its own, which is
\* for its user.
ForPeer(e) ==
    e.dir = "south" /\ e \in Env /\ (e.msg.cmd \in RoutedCmds => e.msg.duid # NoUid)

QueueStep(d) ==
    \E q \in {inq[d]} \union (IF inq[d] # <<>> THEN {Tail(inq[d])} ELSE {}) :
        inq'[d] = q \/ \E e \in Env : ForPeer(e) /\ inq'[d] = Append(q, e)

WireStep(c) ==
    \/ out' = out
    \/ \E x \in WireMsg :
          /\ out' = [out EXCEPT ![c] = Append(@, x)]
          /\ x.cmd \in RoutedCmds =>
                x.duid = uid1[c] /\ (x.duid # NoUid \/ stat[c] = "AUTH_OK")

\* What forwarding does to a queue.
LEMMA ForwardStep ==
    ASSUME Router!IInv, NEW c \in Conns, inq[c] # <<>>, NEW u,
           NEW m \in RouterMsg, m.cmd \in RoutedCmds => m.duid = u,
           inq' = Svr!Handled(c) \/ inq' = Svr!_forward(Svr!Handled(c), u, m)
    PROVE  \A d \in Conns : QueueStep(d)
<1> DEFINE e == [dir |-> "south", msg |-> m]
<1>1. e \in Env /\ e.dir = "south" /\ e.msg = m  BY DEF Env
<1> HIDE DEF e
<1>2. u # NoUid => ForPeer(e)  BY <1>1 DEF ForPeer
<1>3. inq \in [Conns -> Seq(Env)]  BY RouterQueues
<1> SUFFICES ASSUME NEW d \in Conns PROVE QueueStep(d)
  OBVIOUS
<1> DEFINE q == IF d = c THEN Tail(inq[d]) ELSE inq[d]
<1>4. Svr!Handled(c)[d] = q /\ Svr!Handled(c) \in [Conns -> Seq(Env)]
  BY <1>3 DEF Svr!Handled
<1>5. \/ inq'[d] = q
      \/ u # NoUid /\ inq'[d] = Append(q, e)
  BY <1>4 DEF Svr!_forward, Svr!Forwardable, e
<1>6. q \in {inq[d]} \union (IF inq[d] # <<>> THEN {Tail(inq[d])} ELSE {})
  OBVIOUS
<1> HIDE DEF q
<1> QED  BY <1>1, <1>2, <1>5, <1>6 DEF QueueStep

\* The workers and what they do to the queues and the wires.
LEMMA RouterAppends ==
    ASSUME Router!IInv, \A d \in Conns : Named(inq[d]), NEW c \in Conns, Svr!process(c)
    PROVE  WireStep(c) /\ \A d \in Conns : QueueStep(d)
<1> DEFINE m == Svr!Msg(c)
           h == Svr!Handled(c)
<1>0. inq[c] # <<>>
  BY NoNullCipher
  DEF Svr!process, Svr!procLoginReq, Svr!procLoginEnd, Svr!procLogout, Svr!procErrorAck,
     Svr!procLeave, Svr!procCipher, Svr!procForward, Svr!procForwardNoerr, Svr!procPlain,
     Svr!procSend, Svr!procSendNoerr, Svr!procUnknown, Svr!Handles
<1>1. /\ inq \in [Conns -> Seq(Env)] /\ out \in [Conns -> Seq(WireMsg)] /\ uid1[c] \in AllUids
  BY RouterQueues
<1>2. m \in RouterMsg /\ (m.cmd \in RoutedCmds => m \in RoutedMsg)
  <2>1. Head(inq[c]) \in Env  BY <1>0, <1>1
  <2>2. \A x \in RouterMsg : x.cmd \in RoutedCmds => x \in RoutedMsg
    BY DEF RouterMsg, RoutedMsg, ExitMsg, RoutedCmds, NoerrCmds, TunnelCmds,
       Router!LoginMsg, Router!LoginCmds
  <2> QED  BY <2>1, <2>2 DEF Env, Svr!Msg
<1>3. Head(inq[c]).dir = "south" /\ m.cmd \in RoutedCmds => m.duid = uid1[c] /\ m.duid # NoUid
  <2>1. inq[c][1] = Head(inq[c]) /\ 1 \in 1..Len(inq[c])  BY <1>0, <1>1
  <2>2. Router!RoutedCmds = RoutedCmds
    BY DEF RoutedCmds, Router!RoutedCmds, NoerrCmds, Router!NoerrCmds, TunnelCmds, Router!TunnelCmds
  <2> QED
    BY <2>1, <2>2 DEF Router!IInv, Router!Isolation, Router!IsRouted, Named, Svr!Msg
<1>4. ASSUME inq' = h PROVE \A d \in Conns : QueueStep(d)
  <2>1. exitMsg(NoUid) \in RouterMsg /\ exitMsg(NoUid).cmd \notin RoutedCmds
    BY DEF exitMsg, RouterMsg, ExitMsg, AllUids, RoutedCmds, NoerrCmds, TunnelCmds
  <2> QED  BY <1>0, <1>4, <2>1, ForwardStep DEF h
<1>5. ASSUME NEW x \in WireMsg,
             x.cmd \in RoutedCmds => x.duid = uid1[c] /\ (x.duid # NoUid \/ stat[c] = "AUTH_OK"),
             out' = Svr!_sendMsg(c, x)
      PROVE  WireStep(c)
  BY <1>5 DEF Svr!_sendMsg, WireStep
<1>6. out' = out => WireStep(c)  BY DEF WireStep
<1> HIDE DEF h
<1>7. ASSUME NEW x \in RoutedMsg, Svr!rspUsrUnreach(c, h, x),
             x.suid = uid1[c] /\ x.duid # uid1[c] => stat[c] = "AUTH_OK"
      PROVE  WireStep(c) /\ \A d \in Conns : QueueStep(d)
  <2> DEFINE e == Svr!genUnreachMsg(uid1[c], x)
  <2>1. e \in RoutedMsg /\ e.duid = x.suid
    BY <1>1, UnreachGood DEF Svr!genUnreachMsg
  <2> HIDE DEF e
  <2>2. inq' = h \/ inq' = Svr!_forward(h, x.suid, e)
    BY <1>7 DEF Svr!rspUsrUnreach, e
  <2>3. \A d \in Conns : QueueStep(d)
    BY <1>0, <2>1, <2>2, ForwardStep DEF RouterMsg, h
  <2>4. out' = out \/ (out' = Svr!_sendMsg(c, e) /\ x.suid = uid1[c] /\ x.duid # uid1[c])
    BY <1>7 DEF Svr!rspUsrUnreach, e
  <2>5. WireStep(c)  BY <1>5, <1>6, <1>7, <2>1, <2>4 DEF WireMsg
  <2> QED  BY <2>3, <2>5
<1>8. ASSUME Svr!Refuse(c) PROVE WireStep(c) /\ \A d \in Conns : QueueStep(d)
  BY <1>4, <1>6, <1>8 DEF Svr!Refuse, h
<1>9. ASSUME Svr!errRsp(c), inq' = h PROVE WireStep(c) /\ \A d \in Conns : QueueStep(d)
  <2>1. [cmd |-> "ERROR_ACK"] \in WireMsg  BY DEF WireMsg, Router!SvrLoginMsg
  <2> QED  BY <1>4, <1>5, <1>9, <2>1 DEF Svr!errRsp, RoutedCmds, NoerrCmds, TunnelCmds
<1>10. CASE Svr!procLoginReq(c)
  <2>1. [cmd |-> "EXCH_KEY"] \in WireMsg  BY DEF WireMsg, Router!SvrLoginMsg
  <2> QED
    BY <1>4, <1>5, <1>9, <1>10, <2>1 DEF Svr!procLoginReq, h, RoutedCmds, NoerrCmds, TunnelCmds
<1>11. CASE Svr!procLoginEnd(c) \/ Svr!procLogout(c) \/ Svr!procErrorAck(c) \/ Svr!procUnknown(c)
  BY <1>4, <1>6, <1>9, <1>11
  DEF Svr!procLoginEnd, Svr!procLogout, Svr!procErrorAck, Svr!procLeave, Svr!procUnknown, h
<1>12. ASSUME NEW x \in RoutedMsg, Svr!Forward(c, x), stat[c] = "AUTH_OK"
       PROVE  WireStep(c) /\ \A d \in Conns : QueueStep(d)
  <2>1. CASE inq' = Svr!_forward(h, x.duid, x) /\ out' = out
    BY <1>0, <1>6, <2>1, ForwardStep DEF RouterMsg, h
  <2> QED  BY <1>7, <1>12, <2>1 DEF Svr!Forward, h
<1>13. CASE Svr!procCipher(c)
  <2>1. m \in RoutedMsg
    BY <1>2, <1>13 DEF Svr!procCipher, Svr!Handles, Svr!Msg, m, RoutedCmds
  <2>2. Svr!cipher2PlainMsg(m) \in RoutedMsg
    BY <2>1 DEF Svr!cipher2PlainMsg, RoutedMsg, RoutedCmds
  <2> QED
    BY <1>8, <1>12, <1>13, <2>2 DEF Svr!procCipher, Svr!parseCipherMsg, Svr!hasAuthed, m
<1>14. CASE Svr!procForward(c)
  <2>1. m \in RoutedMsg
    BY <1>2, <1>14 DEF Svr!procForward, Svr!Handles, Svr!Msg, m, RoutedCmds, Svr!TunnelCmds, TunnelCmds
  <2> QED  BY <1>8, <1>12, <1>14, <2>1 DEF Svr!procForward, Svr!hasAuthed, m
<1>15. CASE Svr!procForwardNoerr(c)
  <2>1. CASE inq' = Svr!_forward(h, m.duid, m) /\ out' = out
    BY <1>0, <1>2, <1>6, <2>1, ForwardStep DEF h
  <2> QED  BY <1>8, <1>15, <2>1 DEF Svr!procForwardNoerr, m, h
<1>16. CASE Svr!procPlain(c) \/ Svr!procSend(c)
  <2>1. m \in RoutedMsg /\ Head(inq[c]).dir = "south" /\ m.cmd \in RoutedCmds
    BY <1>2, <1>16 DEF Svr!procPlain, Svr!procSend, Svr!Handles, Svr!Msg, m, RoutedCmds,
       Svr!TunnelCmds, TunnelCmds
  <2>2. m.duid = uid1[c] /\ m.duid # NoUid  BY <1>3, <2>1
  <2>3. Svr!plain2CipherMsg(m) \in RoutedMsg /\ Svr!plain2CipherMsg(m).duid = m.duid
    BY <2>1 DEF Svr!plain2CipherMsg, RoutedMsg, RoutedCmds
  <2>4. CASE (out' = Svr!_sendMsg(c, m) \/ out' = Svr!_sendMsg(c, Svr!plain2CipherMsg(m))) /\ inq' = h
    BY <1>4, <1>5, <2>1, <2>2, <2>3, <2>4 DEF WireMsg
  <2> QED  BY <1>7, <1>8, <1>16, <2>1, <2>2, <2>4 DEF Svr!procPlain, Svr!procSend, m, h
<1>17. CASE Svr!procSendNoerr(c)
  <2>1. m \in WireMsg /\ Head(inq[c]).dir = "south"
    <3>1. m.cmd \in NoerrCmds \union {"UID_EXIT_BROADCAST"} /\ Head(inq[c]).dir = "south"
      BY <1>17 DEF Svr!procSendNoerr, Svr!Handles, Svr!Msg, m, Svr!NoerrCmds, NoerrCmds
    <3> QED
      BY <1>2, <3>1 DEF WireMsg, RouterMsg, NoerrCmds, RoutedCmds, Router!LoginMsg, Router!LoginCmds
  <2> QED  BY <1>3, <1>4, <1>5, <1>17, <2>1 DEF Svr!procSendNoerr, m, h
<1> QED
  BY <1>10, <1>11, <1>13, <1>14, <1>15, <1>16, <1>17, NoNullCipher DEF Svr!process

\* A worker logs in only on its own connection, and only as the user that
\* the request names.
LEMMA LoginStep ==
    ASSUME Router!IInv, NEW c \in Conns, Svr!process(c)
    PROVE  /\ \A d \in Conns \ {c} : uid1'[d] = uid1[d] /\ stat'[d] = stat[d]
           /\ \/ /\ uid1'[c] = uid1[c]
                 /\ stat'[c] \in {"SVR_EXCH_KEY", "AUTH_OK"} => stat[c] \in {"SVR_EXCH_KEY", "AUTH_OK"}
              \/ /\ inq[c] # <<>> /\ Head(inq[c]).dir = "north"
                 /\ Head(inq[c]).msg.cmd = "LOGIN_REQ" /\ uid1'[c] = Head(inq[c]).msg.uid
           /\ \A d \in Conns : fd'[d] = "free" => fd[d] = "free" /\ d # c
<1>1. /\ fd \in [Conns -> {"free", "open", "closing"}] /\ uid1 \in [Conns -> AllUids]
  BY RouterQueues
<1>2. stat \in [Conns -> {"INVALID", "SVR_HELO", "SVR_EXCH_KEY", "AUTH_OK", "LOGOUT", "ERROR"}]
  BY DEF Router!IInv, Router!TypeOK
<1>3. fd[c] # "free" /\ (fd' = fd \/ fd' = Svr!closeData(fd, c))
  BY NoNullCipher
  DEF Svr!process, Svr!procLoginReq, Svr!procLoginEnd, Svr!procLogout, Svr!procErrorAck,
     Svr!procLeave, Svr!procCipher, Svr!procForward, Svr!procForwardNoerr, Svr!procPlain,
     Svr!procSend, Svr!procSendNoerr, Svr!procUnknown, Svr!Handles, Svr!Refuse, Svr!Forward,
     Svr!errRsp
<1>4. \A d \in Conns : fd'[d] = "free" => fd[d] = "free" /\ d # c
  BY <1>1, <1>3 DEF Svr!closeData
<1>5. CASE Svr!procLoginReq(c)
  BY <1>1, <1>2, <1>4, <1>5 DEF Svr!procLoginReq, Svr!Handles, Svr!Msg, Svr!errRsp
<1>6. CASE Svr!procLoginEnd(c)
  BY <1>1, <1>2, <1>4, <1>6 DEF Svr!procLoginEnd, Svr!ParsesLoginEnd, Svr!errRsp
<1>7. CASE Svr!procLogout(c) \/ Svr!procErrorAck(c)
  BY <1>1, <1>2, <1>4, <1>7 DEF Svr!procLogout, Svr!procErrorAck, Svr!procLeave
<1>8. CASE UNCHANGED <<stat, uid1>>
  BY <1>4, <1>8
<1> QED
  BY <1>5, <1>6, <1>7, <1>8, NoNullCipher
  DEF Svr!process, Svr!procCipher, Svr!procForward, Svr!procForwardNoerr, Svr!procPlain,
     Svr!procSend, Svr!procSendNoerr, Svr!procUnknown, Svr!Refuse, Svr!Forward

\* So queues stay as they are for the users.
LEMMA QueueServes ==
    ASSUME Router!IInv, NEW d \in Conns, QueueStep(d)
    PROVE  /\ \A u : LoginsOf(u, inq[d]) => LoginsOf(u, inq'[d])
           /\ Named(inq[d]) => Named(inq'[d])
<1>1. inq[d] \in Seq(Env)  BY RouterQueues
<1>2. PICK q \in {inq[d]} \union (IF inq[d] # <<>> THEN {Tail(inq[d])} ELSE {}) :
         inq'[d] = q \/ \E e \in Env : ForPeer(e) /\ inq'[d] = Append(q, e)
  BY DEF QueueStep
<1>3. /\ q \in Seq(Env)
      /\ \A u : LoginsOf(u, inq[d]) => LoginsOf(u, q)
      /\ Named(inq[d]) => Named(q)
  <2>1. CASE q = inq[d]  BY <1>1, <2>1
  <2>2. CASE inq[d] # <<>> /\ q = Tail(inq[d])
    <3>1. /\ q \in Seq(Env) /\ Len(q) = Len(inq[d]) - 1
          /\ \A i \in 1..Len(q) : i + 1 \in 1..Len(inq[d]) /\ q[i] = inq[d][i + 1]
      BY <1>1, <2>2
    <3> QED  BY <3>1 DEF LoginsOf, Named
  <2> QED  BY <1>2, <2>1, <2>2
<1>4. ASSUME NEW e \in Env, ForPeer(e)
      PROVE  /\ \A u : LoginsOf(u, q) => LoginsOf(u, Append(q, e))
             /\ Named(q) => Named(Append(q, e))
  BY <1>3, <1>4 DEF LoginsOf, Named, ForPeer
<1> QED  BY <1>2, <1>3, <1>4

\* What the router does leaves the links served as they were.
LEMMA RouterServes ==
    ASSUME NodeInv, LinksServed, NEW c \in Conns, UNCHANGED <<link, connOf>>,
           Svr!process(c) \/ Svr!onClose(c) \/ Svr!PeerGone(c)
    PROVE  LinksServed'
<1>0. /\ Router!IInv /\ inq \in [Conns -> Seq(Env)] /\ out \in [Conns -> Seq(WireMsg)]
      /\ fd \in [Conns -> {"free", "open", "closing"}] /\ uid1 \in [Conns -> AllUids]
      /\ stat \in [Conns -> {"INVALID", "SVR_HELO", "SVR_EXCH_KEY", "AUTH_OK", "LOGOUT", "ERROR"}]
  BY RouterQueues DEF NodeInv, Router!IInv, Router!TypeOK
<1>1. \A u \in Uids : link[u] # "down" => connOf[u] \in Conns  BY DEF NodeInv, LinkSound
<1>2. CASE Svr!process(c)
  <2>1. WireStep(c) /\ \A d \in Conns : QueueStep(d)
    BY <1>0, <1>2, RouterAppends DEF LinksServed
  <2>2. ASSUME NEW u \in Uids, NEW d \in Conns, Serves(u, d)
        PROVE  Serves(u, d)'
    <3>1. LoginsOf(u, inq'[d])  BY <1>0, <2>1, <2>2, QueueServes DEF Serves
    <3>2. /\ uid1'[d] \in {NoUid, u}
          /\ stat'[d] \in {"SVR_EXCH_KEY", "AUTH_OK"} => uid1'[d] = u
      <4>1. CASE d # c
        BY <1>0, <1>2, <2>2, <4>1, LoginStep DEF Serves
      <4>2. CASE /\ d = c /\ uid1'[c] = uid1[c]
                 /\ stat'[c] \in {"SVR_EXCH_KEY", "AUTH_OK"} => stat[c] \in {"SVR_EXCH_KEY", "AUTH_OK"}
        BY <2>2, <4>2 DEF Serves
      <4>3. CASE /\ d = c /\ inq[c] # <<>> /\ Head(inq[c]).dir = "north"
                 /\ Head(inq[c]).msg.cmd = "LOGIN_REQ" /\ uid1'[c] = Head(inq[c]).msg.uid
        <5>1. inq[c][1] = Head(inq[c]) /\ 1 \in 1..Len(inq[c])  BY <1>0, <4>3
        <5> QED  BY <2>2, <4>3, <5>1 DEF Serves, LoginsOf
      <4> QED  BY <1>0, <1>2, <4>1, <4>2, <4>3, LoginStep
    <3>3. WireTo(u, out'[d])
      <4>1. CASE out'[d] = out[d]  BY <2>2, <4>1 DEF Serves
      <4>2. CASE out'[d] # out[d]
        <5>1. PICK x \in WireMsg :
                 /\ out' = [out EXCEPT ![c] = Append(@, x)]
                 /\ x.cmd \in RoutedCmds =>
                       x.duid = uid1[c] /\ (x.duid # NoUid \/ stat[c] = "AUTH_OK")
          BY <2>1, <4>2 DEF WireStep
        <5>2. d = c /\ out'[d] = Append(out[d], x)  BY <1>0, <4>2, <5>1
        <5>3. x.cmd \in RoutedCmds => x.duid = u  BY <2>2, <5>1, <5>2 DEF Serves
        <5>4. out[d] \in Seq(WireMsg) /\ WireTo(u, out[d])  BY <1>0, <2>2 DEF Serves
        <5> QED  BY <5>2, <5>3, <5>4 DEF WireTo
      <4> QED  BY <4>1, <4>2
    <3> QED  BY <3>1, <3>2, <3>3 DEF Serves
  <2>3. ASSUME NEW d \in Conns PROVE Named(inq'[d]) /\ (fd'[d] = "free" => uid1'[d] = NoUid)
    BY <1>0, <1>2, <2>1, QueueServes, LoginStep DEF LinksServed
  <2> QED  BY <1>1, <2>2, <2>3 DEF LinksServed
<1>3. CASE Svr!onClose(c)
  <2> DEFINE e == [dir |-> "south", msg |-> Svr!exitMsg(uid1[c])]
  <2>1. /\ uid1' = [uid1 EXCEPT ![c] = NoUid] /\ stat' = [stat EXCEPT ![c] = "INVALID"]
        /\ out' = out /\ fd' = [fd EXCEPT ![c] = "free"]
    BY <1>3 DEF Svr!onClose
  <2>2. \A d \in Conns : inq'[d] = <<>> \/ inq'[d] = inq[d] \/ inq'[d] = Append(inq[d], e)
    BY <1>0, <1>3 DEF Svr!onClose, Svr!broadcastUidExit
  <2>3. e \in Env /\ ForPeer(e)
    BY <1>0 DEF Env, RouterMsg, ExitMsg, Svr!exitMsg, ForPeer, RoutedCmds, NoerrCmds, TunnelCmds
  <2> HIDE DEF e
  <2>4. ASSUME NEW d \in Conns
        PROVE  /\ \A u : LoginsOf(u, inq[d]) => LoginsOf(u, inq'[d])
               /\ Named(inq[d]) => Named(inq'[d])
    <3>1. CASE inq'[d] = <<>>  BY <3>1 DEF LoginsOf, Named
    <3>2. CASE inq'[d] # <<>>
      <4>1. QueueStep(d)  BY <2>2, <2>3, <3>2 DEF QueueStep
      <4> QED  BY <1>0, <4>1, QueueServes
    <3> QED  BY <3>1, <3>2
  <2>5. ASSUME NEW u \in Uids, NEW d \in Conns, Serves(u, d) PROVE Serves(u, d)'
    BY <1>0, <2>1, <2>4, <2>5 DEF Serves
  <2> QED  BY <1>0, <1>1, <2>1, <2>4, <2>5 DEF LinksServed
<1>4. CASE Svr!PeerGone(c)
  <2>1. UNCHANGED <<stat, uid1, inq, out>> /\ \A d \in Conns : fd'[d] = "free" => fd[d] = "free"
    BY <1>0, <1>4 DEF Svr!PeerGone, Svr!closeData
  <2> QED  BY <1>1, <2>1 DEF LinksServed, Serves
<1> QED  BY <1>2, <1>3, <1>4
----------------------------------------------------------------------------
(* The clients leave the links served.                                     *)

\* What a link sends to the router is signed by its user.
LinkFeeds(u) ==
    \/ inq' = inq
    \/ \E m \in RouterMsg :
          /\ m.cmd = "LOGIN_REQ" => m.uid = u
          /\ inq' = Cli!_sendMsg(u, m)

\* Whatever it sends
LEMMA LinkFed ==
    ASSUME NodeInv, NEW u \in Uids, Cli!process(u) \/ Agt!creatAgentCli(u)
    PROVE  LinkFeeds(u)
<1>0. NodeType  BY DEF NodeInv
<1>1. ASSUME NEW m \in RoutedMsg, inq' = Cli!_sendMsg(u, m) PROVE LinkFeeds(u)
  BY <1>1 DEF LinkFeeds, RouterMsg, RoutedMsg, RoutedCmds, NoerrCmds, TunnelCmds
<1>2. inq' = inq => LinkFeeds(u)  BY DEF LinkFeeds
<1>3. ASSUME NEW m \in RoutedMsg, Cli!rspSidUnreach(u, m) PROVE LinkFeeds(u)
  <2>1. Cli!genUnreachMsg(u, m) \in RoutedMsg  BY UnreachMsgType
  <2> QED  BY <1>1, <1>2, <1>3, <2>1 DEF Cli!rspSidUnreach
<1>4. ASSUME NEW cmd, NEW exp, NEW next, NEW ans \in {"LOGIN_REQ", "LOGIN_END"},
             Cli!procLogin(u, cmd, exp, next, ans)
      PROVE  LinkFeeds(u)
  <2>1. ASSUME NEW x \in {"LOGIN_REQ", "LOGIN_END", "ERROR_ACK"}
        PROVE  Cli!LoginAnswer(u, x) \in RouterMsg /\ Cli!LoginAnswer(u, x).uid = u
    BY DEF Cli!LoginAnswer, Router!LoginMsg, Router!LoginCmds, Router!AllUids, RouterMsg
  <2> QED  BY <1>4, <2>1 DEF Cli!procLogin, Cli!errRsp, LinkFeeds
<1>5. CASE Cli!procCipher(u)
  <2>1. Cli!SouthMsg(u) \in RoutedMsg
    BY <1>5, SouthType DEF Cli!procCipher, RoutedCmds
  <2>2. Cli!cipher2PlainMsg(Cli!SouthMsg(u)) \in RoutedMsg
    BY <2>1 DEF Cli!cipher2PlainMsg, RoutedMsg, RoutedCmds
  <2> QED  BY <1>2, <1>3, <1>5, <2>2 DEF Cli!procCipher, Cli!ForwardOrAnswer
<1>6. CASE Cli!procForward(u)
  <2>1. Cli!SouthMsg(u) \in RoutedMsg
    BY <1>6, SouthType DEF Cli!procForward, RoutedCmds, TunnelCmds
  <2> QED  BY <1>2, <1>3, <1>6, <2>1 DEF Cli!procForward, Cli!ForwardOrAnswer
<1>7. CASE Cli!procForwardNoerr(u) \/ Cli!procPeerUsrExit(u)
  BY <1>2, <1>7 DEF Cli!procForwardNoerr, Cli!procPeerUsrExit
<1>8. ASSUME NEW m \in RoutedMsg, Cli!SendOrAnswer(u, m) PROVE LinkFeeds(u)
  BY <1>1, <1>3, <1>8 DEF Cli!SendOrAnswer
<1>9. CASE Cli!procPlain(u)
  <2>1. Cli!NorthMsg(u) \in RoutedMsg  BY <1>0, <1>9, NorthType DEF Cli!procPlain
  <2>2. Cli!plain2CipherMsg(Cli!NorthMsg(u)) \in RoutedMsg
    BY <2>1 DEF Cli!plain2CipherMsg, RoutedMsg, RoutedCmds
  <2> QED  BY <1>2, <1>8, <1>9, <2>2 DEF Cli!procPlain
<1>10. CASE Cli!procSend(u) \/ Cli!procSendNoerr(u)
  <2>1. Cli!NorthMsg(u) \in RoutedMsg
    BY <1>0, <1>10, NorthType DEF Cli!procSend, Cli!procSendNoerr
  <2> QED  BY <1>1, <1>8, <1>10, <2>1 DEF Cli!procSend, Cli!procSendNoerr
<1>11. CASE Agt!creatAgentCli(u)
  <2> DEFINE m == Agt!Cli!SouthMsg(u)
  <2>1. /\ Cli!HandlesSouth(u, {"TUNNEL_REQ"}) /\ Cli!SouthHandled(u) /\ m = Cli!SouthMsg(u)
    BY <1>11 DEF Agt!creatAgentCli, Agt!Cli!HandlesSouth, Cli!HandlesSouth,
       Agt!Cli!SouthHandled, Cli!SouthHandled, Agt!Cli!SouthMsg, Cli!SouthMsg
  <2>2. m \in RoutedMsg  BY <2>1, SouthType DEF RoutedCmds, TunnelCmds
  <2>3. inq' = inq \/ Agt!Cli!rspSidUnreach(u, m)  BY <1>11 DEF Agt!creatAgentCli
  <2>4. Agt!Cli!rspSidUnreach(u, m) => Cli!rspSidUnreach(u, m)
    BY DEF Agt!Cli!rspSidUnreach, Cli!rspSidUnreach, Agt!Cli!genUnreachMsg,
        Cli!genUnreachMsg, Agt!Cli!_forward, Cli!_forward, Agt!Cli!Forwardable,
        Cli!Forwardable, Agt!Cli!existSid, Cli!existSid, Agt!Cli!_sendMsg, Cli!_sendMsg,
        Agt!Cli!Sendable, Cli!Sendable
  <2> HIDE DEF m
  <2> QED  BY <1>2, <1>3, <2>2, <2>3, <2>4
<1> QED
  BY <1>4, <1>5, <1>6, <1>7, <1>8, <1>9, <1>10, <1>11
  DEF Cli!process, Cli!procHeloMsg, Cli!procExchKeyMsg

\* is for the router to keep, and what it takes from the wire is gone.
LEMMA ClientServes ==
    ASSUME NodeInv, LinksServed, UNCHANGED <<fd, stat, uid1, connOf>>,
           \A v \in Uids : link'[v] # "down" => link[v] # "down",
           out' = out \/ \E c \in Conns : out[c] # <<>> /\ out' = [out EXCEPT ![c] = Tail(@)],
           inq' = inq \/ \E u \in Uids : LinkFeeds(u)
    PROVE  LinksServed'
<1>0. inq \in [Conns -> Seq(Env)] /\ out \in [Conns -> Seq(WireMsg)]
  BY RouterQueues DEF NodeInv
<1>1. \A u \in Uids : link[u] # "down" => connOf[u] \in Conns  BY DEF NodeInv, LinkSound
<1>2. ASSUME NEW u \in Uids, NEW d \in Conns, WireTo(u, out[d]) PROVE WireTo(u, out'[d])
  <2>1. CASE out'[d] = out[d]  BY <1>2, <2>1
  <2>2. CASE out[d] # <<>> /\ out'[d] = Tail(out[d])
    <3>1. /\ out[d] \in Seq(WireMsg) /\ Len(out'[d]) = Len(out[d]) - 1
          /\ \A i \in 1..Len(out'[d]) : i + 1 \in 1..Len(out[d]) /\ out'[d][i] = out[d][i + 1]
      BY <1>0, <2>2
    <3> QED  BY <1>2, <3>1 DEF WireTo
  <2> QED  BY <1>0, <2>1, <2>2
<1>3. ASSUME NEW d \in Conns
      PROVE  /\ Named(inq'[d])
             /\ \A u \in Uids : link[u] # "down" /\ connOf[u] = d => LoginsOf(u, inq'[d])
  <2>0. /\ Named(inq[d]) /\ inq[d] \in Seq(Env)
        /\ \A u \in Uids : link[u] # "down" /\ connOf[u] = d => LoginsOf(u, inq[d])
    BY <1>0 DEF LinksServed, Serves
  <2>1. CASE inq'[d] = inq[d]  BY <2>0, <2>1
  <2>2. CASE inq'[d] # inq[d]
    <3>1. PICK v \in Uids : LinkFeeds(v) /\ inq' # inq  BY <2>2
    <3>2. PICK m \in RouterMsg : (m.cmd = "LOGIN_REQ" => m.uid = v) /\ inq' = Cli!_sendMsg(v, m)
      BY <3>1 DEF LinkFeeds
    <3> DEFINE e == [dir |-> "north", msg |-> m]
    <3>3. /\ link[v] # "down" /\ connOf[v] = d /\ inq'[d] = Append(inq[d], e)
      BY <1>0, <2>2, <3>1, <3>2 DEF Cli!_sendMsg, Cli!Sendable
    <3>4. e \in Env /\ e.dir = "north" /\ e.msg = m  BY DEF Env
    <3> HIDE DEF e
    <3>5. ASSUME NEW u \in Uids, link[u] # "down", connOf[u] = d PROVE u = v
      BY <3>3, <3>5 DEF LinksServed
    <3>6. Named(Append(inq[d], e)) /\ (LoginsOf(v, inq[d]) => LoginsOf(v, Append(inq[d], e)))
      BY <2>0, <3>2, <3>4 DEF Named, LoginsOf
    <3> QED  BY <2>0, <3>3, <3>5, <3>6
  <2> QED  BY <2>1, <2>2
<1>4. ASSUME NEW u \in Uids, link'[u] # "down" PROVE Serves(u, connOf[u])'
  <2>1. link[u] # "down" /\ connOf[u] \in Conns /\ Serves(u, connOf[u])
    BY <1>1, <1>4 DEF LinksServed
  <2> QED  BY <1>2, <1>3, <2>1 DEF Serves
<1> QED  BY <1>3, <1>4 DEF LinksServed

\* A connection that is made is new to both ends.
LEMMA ConnectServes ==
    ASSUME NodeInv, LinksServed, NEW u \in Uids, Connect(u)
    PROVE  LinksServed'
<1>0. /\ inq \in [Conns -> Seq(Env)] /\ out \in [Conns -> Seq(WireMsg)] /\ NodeType
      /\ fd \in [Conns -> {"free", "open", "closing"}]
      /\ stat \in [Conns -> {"INVALID", "SVR_HELO", "SVR_EXCH_KEY", "AUTH_OK", "LOGOUT", "ERROR"}]
  BY RouterQueues DEF NodeInv, Router!IInv, Router!TypeOK
<1>1. PICK n \in Conns : n = newConn /\ fd[n] = "free" /\ ~Linked(n)  BY NewConnFree
<1>2. inq[n] = <<>> /\ uid1[n] = NoUid
  BY <1>1 DEF NodeInv, Router!IInv, Router!FreeClean, LinksServed
<1>3. /\ fd' = [fd EXCEPT ![n] = "open"] /\ stat' = [stat EXCEPT ![n] = "SVR_HELO"]
      /\ out' = [out EXCEPT ![n] = <<[cmd |-> "HELO"]>>] /\ UNCHANGED <<uid1, inq>>
      /\ link' = [link EXCEPT ![u] = "up"]
      /\ connOf' = [v \in Uids |-> IF v = u THEN n
                                   ELSE IF connOf[v] = n THEN NoConn ELSE connOf[v]]
  BY <1>1 DEF Connect, Svr!onNewSock, Cli!onConnOK
<1>4. Serves(u, n)'
  <2>1. LoginsOf(u, <<>>)  BY DEF LoginsOf
  <2>2. WireTo(u, <<[cmd |-> "HELO"]>>)
    BY DEF WireTo, RoutedCmds, NoerrCmds, TunnelCmds
  <2> QED  BY <1>0, <1>1, <1>2, <1>3, <2>1, <2>2 DEF Serves
<1>5. ASSUME NEW v \in Uids \ {u}, link'[v] # "down"
      PROVE  link[v] # "down" /\ connOf'[v] = connOf[v] /\ connOf[v] # n
  BY <1>0, <1>1, <1>3, <1>5 DEF Linked, NodeType
<1>6. ASSUME NEW v \in Uids \ {u}, link'[v] # "down" PROVE Serves(v, connOf[v])'
  <2>1. Serves(v, connOf[v]) /\ connOf[v] \in Conns
    BY <1>5, <1>6 DEF LinksServed, NodeInv, LinkSound
  <2> QED  BY <1>0, <1>3, <1>5, <1>6, <2>1 DEF Serves
<1>7. connOf'[u] = n  BY <1>3
<1>8. \A c \in Conns : fd'[c] = "free" => fd[c] = "free"  BY <1>0, <1>3
<1>9. ASSUME NEW v \in Uids, link'[v] # "down" PROVE Serves(v, connOf[v])'
  BY <1>4, <1>6, <1>7, <1>9 DEF Serves
<1>10. \A v, w \in Uids : link'[v] # "down" /\ link'[w] # "down" /\ connOf'[v] = connOf'[w] => v = w
  BY <1>5, <1>7 DEF LinksServed
<1> QED  BY <1>3, <1>8, <1>9, <1>10 DEF LinksServed

\* Every step leaves them served.
LEMMA ServedKept ==
    ASSUME NodeInv, LinksServed, [Next]_vars
    PROVE  LinksServed'
<1>0. NodeType  BY DEF NodeInv
<1>1. ASSUME UNCHANGED <<fd, stat, uid1, connOf, inq, out>>,
             \A v \in Uids : link'[v] # "down" => link[v] # "down"
      PROVE  LinksServed'
  BY <1>1, ClientServes
<1>2. ASSUME NEW u \in Uids, Connect(u) PROVE LinksServed'
  BY <1>2, ConnectServes
<1>3. ASSUME NEW u \in Uids, CliLost(u) PROVE LinksServed'
  <2>1. \A v \in Uids : link'[v] # "down" => link[v] # "down"
    BY <1>0, <1>3, CloseLinkType DEF CliLost, Cli!LinkLost
  <2> QED  BY <1>1, <1>3, <2>1 DEF CliLost, Cli!LinkLost
<1>4. ASSUME NEW c \in Conns, svrStep(c) \/ SvrLost(c) PROVE LinksServed'
  BY <1>4, RouterServes DEF svrStep, SvrLost, nodeVars, netVars
<1>5. ASSUME NEW u \in Uids, Break(u) PROVE LinksServed'
  <2>1. connOf[u] \in Conns  BY <1>5 DEF Break, NodeInv, LinkSound
  <2> QED  BY <1>3, <1>4, <1>5, <2>1 DEF Break
<1>6. CASE SvrCrash
  <2>1. /\ link' = link /\ connOf' = connOf /\ out' = out
        /\ \A c \in Conns : inq'[c] = <<>> /\ uid1'[c] = NoUid /\ stat'[c] = "INVALID"
    BY <1>6 DEF SvrCrash, Svr!processEnds, nodeVars
  <2>2. Named(<<>>) /\ \A u : LoginsOf(u, <<>>)  BY DEF Named, LoginsOf
  <2>3. \A u \in Uids : link[u] # "down" => connOf[u] \in Conns  BY DEF NodeInv, LinkSound
  <2> QED  BY <2>1, <2>2, <2>3 DEF LinksServed, Serves
<1>7. ASSUME NEW u \in Uids, CliCrash(u) \/ (Cli!onClose(u) /\ UNCHANGED <<stat, uid1, connOf>>)
      PROVE  LinksServed'
  <2>1. link' = [link EXCEPT ![u] = "down"] /\ UNCHANGED <<fd, stat, uid1, connOf, inq, out>>
    BY <1>7 DEF CliCrash, svrVars, Cli!onClose
  <2> QED  BY <1>0, <1>1, <2>1 DEF NodeType
<1>8. ASSUME NEW u \in Uids, cliStep(u) PROVE LinksServed'
  <2>1. UNCHANGED <<stat, uid1, connOf>>  BY <1>8 DEF cliStep, netVars
  <2>2. CASE Cli!process(u) /\ UNCHANGED <<read, got>>
    <3>1. RouterFed  BY <1>8, <2>2, CliProcess DEF cliStep, netVars
    <3>2. link' = link \/ link' = Cli!closeLink(u)
      BY <2>2 DEF Cli!process, Cli!procHeloMsg, Cli!procExchKeyMsg, Cli!procLogin, Cli!procCipher,
         Cli!procForward, Cli!procForwardNoerr, Cli!procPeerUsrExit, Cli!procPlain, Cli!procSend,
         Cli!procSendNoerr, Cli!SendOrAnswer
    <3>3. \A v \in Uids : link'[v] # "down" => link[v] # "down"
      BY <1>0, <3>2, CloseLinkType
    <3> QED  BY <2>1, <2>2, <3>1, <3>3, LinkFed, ClientServes DEF RouterFed
  <2>3. CASE Cli!onClose(u)
    BY <1>7, <2>1, <2>3
  <2>4. CASE Agt!creatAgentCli(u)
    <3>1. link' = link /\ fd' = fd  BY <2>4 DEF Agt!creatAgentCli
    <3>2. \E c \in Conns : out[c] # <<>> /\ out' = [out EXCEPT ![c] = Tail(@)]
      <4>1. Cli!HandlesSouth(u, {"TUNNEL_REQ"}) /\ Cli!SouthHandled(u)
        BY <2>4 DEF Agt!creatAgentCli, Agt!Cli!HandlesSouth, Cli!HandlesSouth,
           Agt!Cli!SouthHandled, Cli!SouthHandled
      <4> QED  BY <4>1, SouthType
    <3> QED  BY <2>1, <2>4, <3>1, <3>2, LinkFed, ClientServes
  <2> QED  BY <1>8, <2>2, <2>3, <2>4 DEF cliStep
<1>9. ASSUME NEW a \in Agents, agentStep(a) \/ agentConn(a) PROVE LinksServed'
  BY <1>1, <1>9 DEF agentStep, agentConn, netVars, Agt!process, Agt!procForward, Agt!procSend,
     Agt!procTunnelAck, Agt!procPeerUsrExit, Agt!procTunnelClose, Agt!procUnreach, Agt!procEnd,
     Agt!onClose, Agt!onConnOK, Agt!onConnFail
<1>10. CASE application
  BY <1>1, <1>10 DEF application, netVars, Agt!creatAgentSvr, Agt!parseData, Agt!AppGone
<1>11. CASE UNCHANGED vars
  BY <1>1, <1>11 DEF vars, svrVars, nodeVars, netVars
<1>12. ASSUME NEW u \in Uids, Connect(u) \/ Break(u) \/ CliNotice(u) \/ CliCrash(u) \/ cliStep(u)
       PROVE  LinksServed'
  BY <1>2, <1>3, <1>5, <1>7, <1>8, <1>12 DEF CliNotice
<1>13. ASSUME NEW c \in Conns, SvrNotice(c) \/ svrStep(c) PROVE LinksServed'
  BY <1>4, <1>13 DEF SvrNotice
<1> QED  BY <1>6, <1>9, <1>10, <1>11, <1>12, <1>13 DEF Next

\* In the beginning there are no links.
LEMMA ServedInit == ASSUME Init PROVE LinksServed
<1>1. /\ link = [u \in Uids |-> "down"] /\ inq = [c \in Conns |-> <<>>]
      /\ uid1 = [c \in Conns |-> NoUid]
  BY DEF Init, Svr!Init, Cli!Init
<1> QED  BY <1>1 DEF LinksServed, Named
----------------------------------------------------------------------------
(* What reaches an agent.                                                  *)

\* A message for the session of ag.
ForSession(ag, m) == m.cmd \in RoutedCmds => m.duid = ag.uid /\ m.dsid = ag.sid

QueueFor(ag, q) == \A i \in 1..Len(q) : q[i].dir = "south" => ForSession(ag, q[i].msg)

\* Only an agent with a session has messages, which are for its session.
AtAgent ==
    \A a \in Agents :
        /\ agentq[a] # <<>> => HasSession(a)
        /\ QueueFor(agent[a], agentq[a])

\* What a step may do to the queue of an agent: one that is freed loses it.
AgentQueueStep(a) ==
    agentq'[a] # <<>> =>
        /\ agent'[a].fd # "dead"
        /\ \/ agentq'[a] = agentq[a]
           \/ agentq[a] # <<>> /\ agentq'[a] = Tail(agentq[a])
           \/ \E e \in AgentEnv :
                 /\ HasSession(a) /\ agentq'[a] = Append(agentq[a], e)
                 /\ e.dir = "south" => ForSession(agent[a], e.msg)

\* The agents are as they were, or closed.
LEMMA QueueAlone ==
    ASSUME AtAgent, agentq' = agentq, NEW a \in Agents,
           agent'[a].fd = "dead" => agent[a].fd \in {"dead", "free", "connecting"}
    PROVE  AgentQueueStep(a)
  BY DEF AtAgent, HasSession, AgentQueueStep

\* A link forwards to the session that the message is for.
LEMMA ForwardFits ==
    ASSUME NodeType, SessionsSound, AtAgent, agent' = agent, NEW u \in Uids, NEW s \in AllSids,
           NEW m \in ToAgent, m.cmd \in RoutedCmds => m.duid = u /\ m.dsid = s,
           agentq' = agentq \/ agentq' = Cli!_forward(u, s, m)
    PROVE  \A a \in Agents : AgentQueueStep(a)
<1> SUFFICES ASSUME NEW a \in Agents PROVE AgentQueueStep(a)
  OBVIOUS
<1>0. /\ agentq \in [Agents -> Seq(AgentEnv)] /\ agent \in [Agents -> AgentRec]
      /\ sids \in [Uids -> [Sids -> Agents \union {NoAgent}]]
  BY DEF NodeType, AgentQueues
<1>1. CASE agentq'[a] = agentq[a]
  BY <1>1 DEF AtAgent, HasSession, AgentQueueStep
<1>2. CASE agentq'[a] # agentq[a]
  <2> DEFINE e == [dir |-> "south", msg |-> m]
  <2>1. /\ Cli!Forwardable(u, s) /\ sids[u][s] = a /\ agentq'[a] = Append(agentq[a], e)
    BY <1>0, <1>2 DEF Cli!_forward
  <2>2. s # NoSid /\ sids[u][s] # NoAgent /\ agent[a].fd = "open"
    BY <2>1 DEF Cli!Forwardable, Cli!existSid
  <2>3. agent[a].uid = u /\ agent[a].sid = s
    BY <2>1, <2>2 DEF SessionsSound, AllSids
  <2>4. e \in AgentEnv /\ ForSession(agent[a], e.msg)
    BY <2>3 DEF AgentEnv, ForSession
  <2> QED  BY <2>1, <2>2, <2>4 DEF AgentQueueStep, HasSession
<1> QED  BY <1>1, <1>2

\* So does the answer that a message cannot be delivered.
LEMMA RspFits ==
    ASSUME NodeType, SessionsSound, AtAgent, agent' = agent, NEW u \in Uids,
           NEW m \in RoutedMsg, Cli!rspSidUnreach(u, m)
    PROVE  \A a \in Agents : AgentQueueStep(a)
<1> DEFINE e == Cli!genUnreachMsg(u, m)
<1>1. e \in ToAgent /\ e.duid = m.suid /\ e.dsid = m.ssid /\ m.ssid \in AllSids
  BY UnreachMsgType DEF Cli!genUnreachMsg, RoutedMsg
<1> HIDE DEF e
<1>2. agentq' = agentq \/ (m.suid = u /\ agentq' = Cli!_forward(u, m.ssid, e))
  BY DEF Cli!rspSidUnreach, e
<1>3. exitMsg(NoUid) \in ToAgent /\ exitMsg(NoUid).cmd \notin RoutedCmds
  BY DEF exitMsg, ToAgent, ExitMsg, AllUids, RoutedCmds, NoerrCmds, TunnelCmds
<1> QED  BY <1>1, <1>2, <1>3, ForwardFits

\* What a link takes from its wire is for its user.
LEMMA TakenIsMine ==
    ASSUME NodeInv, LinksServed, NEW u \in Uids, NEW cmds, Cli!HandlesSouth(u, cmds),
           Cli!SouthMsg(u).cmd \in RoutedCmds
    PROVE  Cli!SouthMsg(u).duid = u
<1>1. out \in [Conns -> Seq(WireMsg)]  BY RouterQueues DEF NodeInv
<1>2. link[u] # "down" /\ connOf[u] \in Conns /\ out[connOf[u]] # <<>>
  BY DEF Cli!HandlesSouth, NodeInv, LinkSound
<1>3. WireTo(u, out[connOf[u]])  BY <1>2 DEF LinksServed, Serves
<1>4. 1 \in 1..Len(out[connOf[u]]) /\ out[connOf[u]][1] = Head(out[connOf[u]])
  BY <1>1, <1>2
<1> QED  BY <1>3, <1>4 DEF WireTo, Cli!SouthMsg

\* The handlers of a link.
LEMMA LinkQueueSteps ==
    ASSUME NodeInv, SessionsSound, LinksServed, AtAgent, NEW u \in Uids, Cli!process(u)
    PROVE  \A a \in Agents : AgentQueueStep(a)
<1>0. NodeType /\ agentq \in [Agents -> Seq(AgentEnv)]  BY DEF NodeInv, NodeType, AgentQueues
<1>a. agent' = agent
  BY DEF Cli!process, Cli!procHeloMsg, Cli!procExchKeyMsg, Cli!procLogin, Cli!procCipher,
     Cli!procForward, Cli!procForwardNoerr, Cli!procPeerUsrExit, Cli!procPlain, Cli!procSend,
     Cli!procSendNoerr
<1>b. agentq' = agentq => \A a \in Agents : AgentQueueStep(a)
  BY <1>a, QueueAlone
<1>f. ASSUME NEW m \in RoutedMsg, m \in ToAgent, m.duid = u, Cli!ForwardOrAnswer(u, m)
      PROVE  \A a \in Agents : AgentQueueStep(a)
  <2>1. m.dsid \in AllSids  BY DEF RoutedMsg
  <2> QED  BY <1>0, <1>a, <1>f, <2>1, ForwardFits, RspFits DEF Cli!ForwardOrAnswer
<1>1. CASE Cli!procCipher(u)
  <2> DEFINE m == Cli!SouthMsg(u)
  <2>1. m \in RoutedMsg /\ m.duid = u
    BY <1>1, SouthType, TakenIsMine DEF Cli!procCipher, RoutedCmds
  <2> HIDE DEF m
  <2>2. /\ Cli!cipher2PlainMsg(m) \in RoutedMsg /\ Cli!cipher2PlainMsg(m) \in ToAgent
        /\ Cli!cipher2PlainMsg(m).duid = u
    BY <2>1 DEF Cli!cipher2PlainMsg, RoutedMsg, ToAgent, RoutedCmds
  <2> QED  BY <1>b, <1>f, <1>1, <2>2 DEF Cli!procCipher, m
<1>2. CASE Cli!procForward(u) \/ Cli!procForwardNoerr(u)
  <2> DEFINE m == Cli!SouthMsg(u)
  <2>1. m \in RoutedMsg /\ m.duid = u /\ m \in ToAgent
    BY <1>2, SouthType, TakenIsMine
    DEF Cli!procForward, Cli!procForwardNoerr, Cli!NoerrCmds, NoerrCmds, RoutedCmds, TunnelCmds, ToAgent
  <2> HIDE DEF m
  <2>2. m.dsid \in AllSids  BY <2>1 DEF RoutedMsg
  <2>3. ASSUME agentq' = agentq \/ agentq' = Cli!_forward(u, m.dsid, m)
        PROVE  \A a \in Agents : AgentQueueStep(a)
    BY <1>0, <1>a, <2>1, <2>2, <2>3, ForwardFits
  <2> QED  BY <1>b, <1>f, <1>2, <2>1, <2>3 DEF Cli!procForward, Cli!procForwardNoerr, m
<1>3. CASE Cli!procPeerUsrExit(u)
  <2> DEFINE m == Cli!SouthMsg(u)
             e == [dir |-> "south", msg |-> m]
  <2>1. m \in ToAgent /\ m.cmd \notin RoutedCmds
    BY <1>3, SouthType
    DEF Cli!procPeerUsrExit, Cli!HandlesSouth, Cli!SouthMsg, ToAgent, RoutedCmds, NoerrCmds, TunnelCmds
  <2>2. e \in AgentEnv /\ \A ag : ForSession(ag, e.msg)
    BY <2>1 DEF AgentEnv, ForSession
  <2>3. \A a \in Agents :
           \/ agentq'[a] = agentq[a]
           \/ agent[a].fd = "open" /\ agentq'[a] = Append(agentq[a], e)
    BY <1>0, <1>3 DEF Cli!procPeerUsrExit, Cli!notifyAllSid, Cli!Forwardable
  <2> HIDE DEF e
  <2> QED  BY <1>a, <2>2, <2>3 DEF AgentQueueStep, HasSession, AtAgent
<1>4. ASSUME NEW m \in RoutedMsg, Cli!SendOrAnswer(u, m)
      PROVE  \A a \in Agents : AgentQueueStep(a)
  BY <1>0, <1>a, <1>b, <1>4, RspFits DEF Cli!SendOrAnswer
<1>5. CASE Cli!procPlain(u)
  <2>1. Cli!NorthMsg(u) \in RoutedMsg  BY <1>0, <1>5, NorthType DEF Cli!procPlain
  <2>2. Cli!plain2CipherMsg(Cli!NorthMsg(u)) \in RoutedMsg
    BY <2>1 DEF Cli!plain2CipherMsg, RoutedMsg, RoutedCmds
  <2> QED  BY <1>b, <1>4, <1>5, <2>2 DEF Cli!procPlain
<1>6. CASE Cli!procSend(u)
  <2>1. Cli!NorthMsg(u) \in RoutedMsg  BY <1>0, <1>6, NorthType DEF Cli!procSend
  <2> QED  BY <1>4, <1>6, <2>1 DEF Cli!procSend
<1>7. CASE Cli!procSendNoerr(u) \/ Cli!procHeloMsg(u) \/ Cli!procExchKeyMsg(u)
  BY <1>b, <1>7 DEF Cli!procSendNoerr, Cli!procHeloMsg, Cli!procExchKeyMsg, Cli!procLogin
<1> QED  BY <1>1, <1>2, <1>3, <1>5, <1>6, <1>7 DEF Cli!process

\* The agent itself, its connection and its application.
LEMMA OwnQueueSteps ==
    ASSUME NodeType, AtAgent, NEW a \in Agents,
           agentStep(a) \/ agentConn(a) \/ Agt!parseData(a) \/ Agt!AppGone(a)
    PROVE  \A b \in Agents : AgentQueueStep(b)
<1>0. agentq \in [Agents -> Seq(AgentEnv)] /\ agent \in [Agents -> AgentRec]
  BY DEF NodeType, AgentQueues
<1> DEFINE x == agent[a]
<1>1. x \in AgentRec  BY <1>0
<1>2. ASSUME NEW y, agent' = [agent EXCEPT ![a] = y], y.fd # "dead",
             agentq[a] # <<>>, Agt!Handled(a)
      PROVE  \A b \in Agents : AgentQueueStep(b)
  <2>1. agentq' = [agentq EXCEPT ![a] = Tail(@)]  BY <1>2 DEF Agt!Handled
  <2> SUFFICES ASSUME NEW b \in Agents PROVE AgentQueueStep(b)
    OBVIOUS
  <2>2. CASE b = a  BY <1>0, <1>2, <2>1, <2>2 DEF AgentQueueStep
  <2>3. CASE b # a
    <3>1. agentq'[b] = agentq[b] /\ agent'[b] = agent[b]  BY <1>0, <1>2, <2>1, <2>3
    <3> QED  BY <3>1 DEF AgentQueueStep, AtAgent, HasSession
  <2> QED  BY <2>2, <2>3
<1>3. /\ Agt!closed(x).fd \in {x.fd, "closing"} /\ Agt!_invalidPeer(x).fd = x.fd
      /\ Agt!closed(Agt!_invalidPeer(x)).fd \in {x.fd, "closing"}
  BY <1>1, ClosedType
<1>4. agent' = agent => agent' = [agent EXCEPT ![a] = x]  BY <1>0
<1>5. CASE Agt!procForward(a)
  <2>1. /\ x.fd \in {"open", "closing"} /\ agentq[a] # <<>> /\ Agt!Handled(a)
        /\ \/ agent' = [agent EXCEPT ![a] = x]
           \/ agent' = [agent EXCEPT ![a] = Agt!closed(Agt!_invalidPeer(x))]
           \/ agent' = [agent EXCEPT ![a] = Agt!closed(x)]
    BY <1>5 DEF Agt!procForward, Agt!HandlesNorth
  <2> QED  BY <1>2, <1>3, <2>1
<1>6. CASE Agt!procSend(a)
  <2>1. x.fd \in {"open", "closing"} /\ agentq[a] # <<>> /\ Agt!Handled(a) /\ agent' = agent
    BY <1>6 DEF Agt!procSend, Agt!HandlesSouth
  <2> QED  BY <1>2, <1>4, <2>1
<1>7. CASE Agt!procTunnelAck(a)
  <2> DEFINE y == [x EXCEPT !.peerSid = Agt!SouthMsg(a).ssid, !.stat = "AUTH_OK",
                            !.peerStat = "AUTH_OK"]
  <2>1. /\ x.fd \in {"open", "closing"} /\ agentq[a] # <<>> /\ Agt!Handled(a)
        /\ agent' = [agent EXCEPT ![a] = y] \/ agent' = [agent EXCEPT ![a] = Agt!closed(x)]
    BY <1>0, <1>7 DEF Agt!procTunnelAck, Agt!HandlesSouth
  <2>2. y.fd = x.fd  BY <1>1 DEF AgentRec
  <2> HIDE DEF y
  <2> QED  BY <1>2, <1>3, <2>1, <2>2
<1>8. ASSUME NEW cmd, Agt!procEnd(a, cmd) PROVE \A b \in Agents : AgentQueueStep(b)
  <2>1. /\ x.fd \in {"open", "closing"} /\ agentq[a] # <<>> /\ Agt!Handled(a)
        /\ agent' = agent \/ agent' = [agent EXCEPT ![a] = Agt!closed(Agt!_invalidPeer(x))]
    BY <1>8 DEF Agt!procEnd, Agt!HandlesSouth
  <2> QED  BY <1>2, <1>3, <1>4, <2>1
<1>9. CASE Agt!onClose(a)
  <2> SUFFICES ASSUME NEW b \in Agents PROVE AgentQueueStep(b)
    OBVIOUS
  <2>1. /\ agent' = [agent EXCEPT ![a] = Agt!emptyAgent("dead")]
        /\ agentq' = [agentq EXCEPT ![a] = <<>>]
    BY <1>9 DEF Agt!onClose, Agt!freeAgent
  <2>2. CASE b = a  BY <1>0, <2>1, <2>2 DEF AgentQueueStep
  <2>3. CASE b # a
    <3>1. agentq'[b] = agentq[b] /\ agent'[b] = agent[b]  BY <1>0, <2>1, <2>3
    <3> QED  BY <3>1 DEF AgentQueueStep, AtAgent, HasSession
  <2> QED  BY <2>2, <2>3
<1>10. ASSUME NEW y, agent' = [agent EXCEPT ![a] = y], agentq' = agentq,
              y.fd # "dead" \/ x.fd = "connecting"
       PROVE  \A b \in Agents : AgentQueueStep(b)
  BY <1>0, <1>10, QueueAlone
<1>11. CASE agentConn(a)
  <2>1. x.fd = "connecting" /\ agentq' = agentq /\ \E y : agent' = [agent EXCEPT ![a] = y]
    BY <1>11 DEF agentConn, Agt!onConnOK, Agt!onConnFail, Agt!freeAgent
  <2> QED  BY <1>10, <2>1
<1>12. CASE Agt!AppGone(a)
  <2>1. x.fd = "open" /\ agentq' = agentq /\ agent' = [agent EXCEPT ![a] = Agt!closed(x)]
    BY <1>12 DEF Agt!AppGone
  <2> QED  BY <1>3, <1>10, <2>1
<1>13. CASE Agt!parseData(a)
  <2> DEFINE e == [dir |-> "north", unit |-> <<a, read[a] + 1>>]
  <2> SUFFICES ASSUME NEW b \in Agents PROVE AgentQueueStep(b)
    OBVIOUS
  <2>1. agent' = agent /\ agentq' = [agentq EXCEPT ![a] = Append(@, e)] /\ x.fd = "open"
    BY <1>13 DEF Agt!parseData, Agt!Reads
  <2>2. e \in AgentEnv /\ e.dir # "south"
    <3>0. read[a] \in Nat /\ MaxData[a] \in Nat /\ read[a] < MaxData[a]
      BY <1>13, TunnelAssumption DEF Agt!parseData, NodeType
    <3>1. read[a] + 1 \in 1..MaxData[a] /\ read[a] + 1 \in Nat
      BY <3>0
    <3>2. <<a, read[a] + 1>> \in Units
      BY <3>1, TunnelAssumption DEF Units
    <3> QED  BY <3>2 DEF AgentEnv
  <2> HIDE DEF e
  <2>3. CASE b = a
    BY <1>0, <2>1, <2>2, <2>3 DEF AgentQueueStep, HasSession
  <2>4. CASE b # a
    <3>1. agentq'[b] = agentq[b] /\ agent'[b] = agent[b]  BY <1>0, <2>1, <2>4
    <3> QED  BY <3>1 DEF AgentQueueStep, AtAgent, HasSession
  <2> QED  BY <2>3, <2>4
<1> QED
  BY <1>5, <1>6, <1>7, <1>8, <1>9, <1>11, <1>12, <1>13
  DEF agentStep, Agt!process, Agt!procPeerUsrExit, Agt!procTunnelClose, Agt!procUnreach

\* So a message comes to an agent only for the session that the agent has.
LEMMA AgentQueueSteps ==
    ASSUME SysInv, LinksServed, AtAgent, [Next]_vars
    PROVE  \A a \in Agents : AgentQueueStep(a)
<1>0. /\ NodeInv /\ NodeType /\ SessionsSound
      /\ agentq \in [Agents -> Seq(AgentEnv)] /\ agent \in [Agents -> AgentRec]
  BY DEF SysInv, NodeInv, SessionInv, NodeType, AgentQueues
<1>1. ASSUME agent' = agent, agentq' = agentq PROVE \A a \in Agents : AgentQueueStep(a)
  BY <1>1, QueueAlone
<1>2. CASE SvrCrash \/ \E c \in Conns : SvrNotice(c) \/ svrStep(c)
  BY <1>1, <1>2 DEF SvrCrash, SvrNotice, svrStep, SvrLost, nodeVars
<1>3. ASSUME NEW u \in Uids, Connect(u) \/ Break(u) \/ CliNotice(u)
      PROVE  \A a \in Agents : AgentQueueStep(a)
  BY <1>1, <1>3
  DEF Connect, Break, CliNotice, CliLost, SvrLost, Cli!onConnOK, Cli!LinkLost, nodeVars
<1>4. ASSUME NEW u \in Uids, CliCrash(u), NEW a \in Agents PROVE AgentQueueStep(a)
  <2>1. \/ agentq'[a] = <<>>
        \/ agentq'[a] = agentq[a] /\ agent'[a] = agent[a]
    BY <1>0, <1>4 DEF CliCrash
  <2> QED  BY <2>1 DEF AgentQueueStep, AtAgent, HasSession
<1>5. ASSUME NEW u \in Uids, Cli!onClose(u) PROVE \A a \in Agents : AgentQueueStep(a)
  <2>1. agentq' = agentq /\ agent' = Cli!closeChildren(u)  BY <1>5 DEF Cli!onClose
  <2>2. \A a \in Agents : agent'[a] = agent[a] \/ agent'[a] = [agent[a] EXCEPT !.fd = "closing"]
    BY <2>1 DEF Cli!closeChildren, Cli!closeAgents
  <2>3. \A a \in Agents : [agent[a] EXCEPT !.fd = "closing"].fd = "closing"
    BY <1>0 DEF AgentRec
  <2> QED  BY <2>1, <2>2, <2>3, QueueAlone
<1>6. ASSUME Agt!Free # {}, agentq' = agentq, NEW y, agent' = [agent EXCEPT ![Agt!newAgent] = y]
      PROVE  \A a \in Agents : AgentQueueStep(a)
  <2>1. Agt!newAgent \in Agents /\ agent[Agt!newAgent].fd = "free"
    BY <1>6, NewAgentFree
  <2>2. ASSUME NEW a \in Agents, agent'[a].fd = "dead"
        PROVE  agent[a].fd \in {"dead", "free", "connecting"}
    BY <1>0, <1>6, <2>1, <2>2
  <2> QED  BY <1>6, <2>2, QueueAlone
<1>7. ASSUME NEW u \in Uids, Agt!creatAgentCli(u) PROVE \A a \in Agents : AgentQueueStep(a)
  <2> DEFINE m == Agt!Cli!SouthMsg(u)
  <2>1. /\ Cli!HandlesSouth(u, {"TUNNEL_REQ"}) /\ Cli!SouthHandled(u) /\ m = Cli!SouthMsg(u)
    BY <1>7 DEF Agt!creatAgentCli, Agt!Cli!HandlesSouth, Cli!HandlesSouth,
       Agt!Cli!SouthHandled, Cli!SouthHandled, Agt!Cli!SouthMsg, Cli!SouthMsg
  <2>2. m \in RoutedMsg  BY <2>1, <1>0, SouthType DEF RoutedCmds, TunnelCmds
  <2>3. Agt!Cli!rspSidUnreach(u, m) => Cli!rspSidUnreach(u, m)
    BY DEF Agt!Cli!rspSidUnreach, Cli!rspSidUnreach, Agt!Cli!genUnreachMsg,
        Cli!genUnreachMsg, Agt!Cli!_forward, Cli!_forward, Agt!Cli!Forwardable,
        Cli!Forwardable, Agt!Cli!existSid, Cli!existSid, Agt!Cli!_sendMsg, Cli!_sendMsg,
        Agt!Cli!Sendable, Cli!Sendable
  <2>4. \/ Agt!Free # {} /\ agentq' = agentq /\ \E y : agent' = [agent EXCEPT ![Agt!newAgent] = y]
        \/ Agt!Cli!rspSidUnreach(u, m) /\ agent' = agent
    BY <1>7 DEF Agt!creatAgentCli
  <2> HIDE DEF m
  <2> QED  BY <1>0, <1>6, <2>2, <2>3, <2>4, RspFits
<1>8. ASSUME NEW u \in Uids, Agt!creatAgentSvr(u) PROVE \A a \in Agents : AgentQueueStep(a)
  <2>1. Agt!Free # {} /\ agentq' = agentq /\ \E y : agent' = [agent EXCEPT ![Agt!newAgent] = y]
    BY <1>8 DEF Agt!creatAgentSvr
  <2> QED  BY <1>6, <2>1
<1>9. ASSUME NEW u \in Uids, cliStep(u) PROVE \A a \in Agents : AgentQueueStep(a)
  BY <1>0, <1>5, <1>7, <1>9, LinkQueueSteps DEF cliStep
<1>10. ASSUME NEW a \in Agents,
              agentStep(a) \/ agentConn(a) \/ Agt!parseData(a) \/ Agt!AppGone(a)
       PROVE  \A b \in Agents : AgentQueueStep(b)
  BY <1>0, <1>10, OwnQueueSteps
<1>11. CASE UNCHANGED vars
  BY <1>1, <1>11 DEF vars, nodeVars
<1> QED
  BY <1>2, <1>3, <1>4, <1>8, <1>9, <1>10, <1>11 DEF Next, application

\* An agent that has a session and is not freed by a step keeps the session.
LEMMA SessionStays ==
    ASSUME EndStep, NEW a \in Agents, HasSession(a), agent'[a].fd # "dead"
    PROVE  /\ agent'[a].fd \in {"open", "closing"}
           /\ agent'[a].uid = agent[a].uid /\ agent'[a].sid = agent[a].sid
<1>1. SameSession(agent[a], agent'[a])
  <2>1. SameSession(agent[a], agent[a])  BY DEF SameSession
  <2>2. ASSUME NEW b \in Agents, Made(b) PROVE SameSession(agent[a], agent'[a])
    BY <2>1, <2>2 DEF Made
  <2> QED  BY <2>1, <2>2 DEF EndStep, Kept, Stays, Sent, HandedTo
<1> QED  BY <1>1 DEF SameSession, HasSession

\* So what is at an agent stays for its session,
LEMMA AtAgentKept ==
    ASSUME NodeType, AtAgent, EndStep, \A a \in Agents : AgentQueueStep(a)
    PROVE  AtAgent'
<1>0. agentq \in [Agents -> Seq(AgentEnv)]  BY DEF NodeType, AgentQueues
<1>1. ASSUME NEW a \in Agents, agentq'[a] # <<>>
      PROVE  /\ agent'[a].fd \in {"open", "closing"}
             /\ \A i \in 1..Len(agentq'[a]) :
                   agentq'[a][i].dir = "south" => ForSession(agent'[a], agentq'[a][i].msg)
  <2> DEFINE q == agentq[a]
  <2>1. /\ q \in Seq(AgentEnv) /\ (q # <<>> => HasSession(a))
        /\ \A i \in 1..Len(q) : q[i].dir = "south" => ForSession(agent[a], q[i].msg)
    BY <1>0 DEF AtAgent, QueueFor
  <2>2. /\ agent'[a].fd # "dead"
        /\ \/ agentq'[a] = q
           \/ q # <<>> /\ agentq'[a] = Tail(q)
           \/ \E e \in AgentEnv :
                 /\ HasSession(a) /\ agentq'[a] = Append(q, e)
                 /\ e.dir = "south" => ForSession(agent[a], e.msg)
    BY <1>1 DEF AgentQueueStep
  <2>3. HasSession(a)  BY <1>1, <2>1, <2>2
  <2>4. /\ agent'[a].fd \in {"open", "closing"}
        /\ agent'[a].uid = agent[a].uid /\ agent'[a].sid = agent[a].sid
    BY <2>2, <2>3, SessionStays
  <2>5. \A m : ForSession(agent[a], m) => ForSession(agent'[a], m)
    BY <2>4 DEF ForSession
  <2> HIDE DEF q
  <2>6. \A i \in 1..Len(agentq'[a]) :
           agentq'[a][i].dir = "south" => ForSession(agent[a], agentq'[a][i].msg)
    <3>1. CASE agentq'[a] = q  BY <2>1, <3>1
    <3>2. CASE q # <<>> /\ agentq'[a] = Tail(q)
      <4>1. \A i \in 1..Len(Tail(q)) : i + 1 \in 1..Len(q) /\ Tail(q)[i] = q[i + 1]
        BY <2>1, <3>2
      <4> QED  BY <2>1, <3>2, <4>1
    <3>3. ASSUME NEW e \in AgentEnv, agentq'[a] = Append(q, e),
                 e.dir = "south" => ForSession(agent[a], e.msg)
          PROVE  \A i \in 1..Len(agentq'[a]) :
                    agentq'[a][i].dir = "south" => ForSession(agent[a], agentq'[a][i].msg)
      <4>1. /\ Len(Append(q, e)) = Len(q) + 1
            /\ \A i \in 1..Len(q) : Append(q, e)[i] = q[i]
            /\ Append(q, e)[Len(q) + 1] = e
        BY <2>1, <3>3
      <4>2. \A i \in 1..(Len(q) + 1) : i \in 1..Len(q) \/ i = Len(q) + 1
        BY <2>1
      <4> QED  BY <2>1, <3>3, <4>1, <4>2
    <3> QED  BY <2>2, <3>1, <3>2, <3>3
  <2> QED  BY <2>4, <2>5, <2>6
<1>2. \A a \in Agents : agentq'[a] = <<>> => Len(agentq'[a]) = 0  OBVIOUS
<1> QED  BY <1>1, <1>2 DEF AtAgent, QueueFor, HasSession

\* from when there is nothing.
LEMMA AtAgentInit == ASSUME Init PROVE AtAgent
<1>1. agentq = [a \in Agents |-> <<>>]  BY DEF Init, Agt!Init
<1> QED  BY <1>1 DEF AtAgent, QueueFor
----------------------------------------------------------------------------
(* Who is handed what.                                                     *)

AddressInv == PInv /\ DataSound /\ LinksServed /\ AtAgent

\* All this holds in every reachable state.
LEMMA AddressAlways == Spec => []AddressInv
<1>1. Init => LinksServed /\ AtAgent  BY ServedInit, AtAgentInit
<1>2. PInv /\ LinksServed /\ AtAgent /\ [Next]_vars => LinksServed' /\ AtAgent'
  <2> SUFFICES ASSUME PInv, LinksServed, AtAgent, [Next]_vars PROVE LinksServed' /\ AtAgent'
    OBVIOUS
  <2>1. SysInv /\ NodeInv /\ NodeType /\ EndStep
    BY Steps DEF PInv, SysInv, NodeInv
  <2> QED  BY <2>1, ServedKept, AgentQueueSteps, AtAgentKept
<1> QED  BY <1>1, <1>2, DataAlways, PTL DEF Spec, AddressInv

\* What an application is handed is at the head of its agent's queue.
LEMMA StepHands ==
    ASSUME AddressInv, EndStep
    PROVE  ToItsPeer
<1>0. /\ agentq \in [Agents -> Seq(AgentEnv)] /\ got \in [Agents -> Seq(Contents)]
  BY DEF AddressInv, PInv, SysInv, NodeInv, NodeType, AgentQueues
<1> SUFFICES ASSUME NEW b \in Agents, got'[b] # got[b],
                    agent[got'[b][Len(got'[b])][1]].fd # "dead"
             PROVE  /\ agent[got'[b][Len(got'[b])][1]].peerUid = agent[b].uid
                    /\ agent[got'[b][Len(got'[b])][1]].peerSid = agent[b].sid
  BY DEF ToItsPeer
<1>1. HandedTo(b)
  BY <1>0 DEF EndStep, Kept, Made, Sent, HandedTo
<1> DEFINE q == agentq[b]
           m == q[1].msg
<1>2. /\ q \in Seq(AgentEnv) /\ q # <<>> /\ Head(q) = q[1] /\ 1 \in 1..Len(q)
  BY <1>0, <1>1 DEF HandedTo
<1>3. /\ q[1].dir = "south" /\ m.cmd = "FRAME_PLAIN" /\ m.body \in Contents
      /\ got' = [got EXCEPT ![b] = Append(@, m.body)]
  BY <1>1, <1>2 DEF HandedTo, Agt!SouthMsg
<1>4. Genuine(m) /\ ForSession(agent[b], m)
  BY <1>2, <1>3 DEF AddressInv, DataSound, AgentsGood, SouthGood, AtAgent, QueueFor
<1> HIDE DEF q, m
<1>5. got'[b][Len(got'[b])] = m.body
  <2>1. got'[b] = Append(got[b], m.body) /\ got[b] \in Seq(Contents)
    BY <1>0, <1>3
  <2> QED  BY <2>1, <1>3
<1>6. m.duid = agent[b].uid /\ m.dsid = agent[b].sid
  BY <1>3, <1>4 DEF ForSession, RoutedCmds
<1>7. PICK a \in Agents : \E k \in 1..read[a] :
          /\ m.body = <<a, k>>
          /\ agent[a].fd # "dead" => <<m.suid, m.ssid, m.duid, m.dsid>> = Addresses(agent[a])
  BY <1>3, <1>4 DEF Genuine, GenuineFor, DataCmds
<1>8. got'[b][Len(got'[b])][1] = a  BY <1>5, <1>7
<1>9. m.duid = agent[a].peerUid /\ m.dsid = agent[a].peerSid
  BY <1>7, <1>8 DEF Addresses
<1> QED  BY <1>6, <1>8, <1>9

\* No unit goes astray (DataAddressed): as long as the end that sent it has
\* not been freed, a unit is handed only to the application of the session
\* that this end addresses, whichever sessions and connections came and went
\* meanwhile, and whether or not their numbers were used again.
THEOREM HandedAsAddressed == Spec => DataAddressed
<1>1. AddressInv /\ [Next]_vars => [ToItsPeer]_vars
  <2> SUFFICES ASSUME AddressInv, [Next]_vars PROVE ToItsPeer
    OBVIOUS
  <2>1. EndStep  BY Steps DEF AddressInv, PInv
  <2> QED  BY <2>1, StepHands
<1> QED  BY <1>1, AddressAlways, PTL DEF Spec, DataAddressed
=============================================================================
