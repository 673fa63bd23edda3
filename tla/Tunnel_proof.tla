---------------------------- MODULE Tunnel_proof ----------------------------
(***************************************************************************)
(* Proofs about the whole system, for any number of users, connections,    *)
(* agents, units of data and faults: its types, and that the tables of     *)
(* sessions and the agents agree, through lost links and crashes.          *)
(***************************************************************************)
EXTENDS Tunnel, TLAPS, FiniteSetTheorems, WellFoundedInduction

\* The router's own proofs, taken over for the system.
Router == INSTANCE SvrCenter_proof WITH Inputs <- {}, MaxBacklog <- 1000

\* What the router's proofs assume holds of the system's constants.
LEMMA RouterAssumptions == Router!SvrAssumption /\ Router!MessagesAssumption
  BY TunnelAssumption, MessagesAssumption
  DEF Router!SvrAssumption, Router!MessagesAssumption

\* The two instances name the same types and the same steps.
LEMMA RouterTypes == Svr!TypeOK <=> Router!TypeOK
  BY DEF Svr!TypeOK, Router!TypeOK, Svr!Envelope, Router!Envelope,
      Svr!AllUids, Router!AllUids, Svr!AllSids, Router!AllSids, Svr!RoutedMsg,
      Router!RoutedMsg, Svr!ExitMsg, Router!ExitMsg, Svr!LoginMsg,
      Router!LoginMsg, Svr!LoginCmds, Router!LoginCmds, Svr!SvrLoginMsg,
      Router!SvrLoginMsg, Svr!RoutedCmds, Router!RoutedCmds, Svr!NoerrCmds,
      Router!NoerrCmds, Svr!TunnelCmds, Router!TunnelCmds

\* Each callback of the router is the same in both instances.
LEMMA RouterProcess == ASSUME NEW c PROVE Svr!process(c) => Router!process(c)
  BY DEF Svr!AllUids, Router!AllUids, Svr!AllSids, Router!AllSids,
      Svr!NoerrCmds, Router!NoerrCmds, Svr!TunnelCmds, Router!TunnelCmds,
      Svr!RoutedCmds, Router!RoutedCmds, Svr!RoutedMsg, Router!RoutedMsg,
      Svr!ExitMsg, Router!ExitMsg, Svr!exitMsg, Router!exitMsg,
      Svr!genUnreachMsg, Router!genUnreachMsg, Svr!cipher2PlainMsg,
      Router!cipher2PlainMsg, Svr!plain2CipherMsg, Router!plain2CipherMsg,
      Svr!LoginCmds, Router!LoginCmds, Svr!LoginMsg, Router!LoginMsg,
      Svr!SvrLoginMsg, Router!SvrLoginMsg, Svr!Envelope, Router!Envelope,
      Svr!NorthCmds, Router!NorthCmds, Svr!Open, Router!Open, Svr!closeData,
      Router!closeData, Svr!Handles, Router!Handles, Svr!Msg, Router!Msg,
      Svr!Handled, Router!Handled, Svr!hasAuthed, Router!hasAuthed,
      Svr!existUsr, Router!existUsr, Svr!Sendable, Router!Sendable,
      Svr!Forwardable, Router!Forwardable, Svr!_sendMsg, Router!_sendMsg,
      Svr!_forward, Router!_forward, Svr!rspUsrUnreach, Router!rspUsrUnreach,
      Svr!ParsesLoginReq, Router!ParsesLoginReq, Svr!ParsesLoginEnd,
      Router!ParsesLoginEnd, Svr!errRsp, Router!errRsp, Svr!procLoginReq,
      Router!procLoginReq, Svr!addUsr, Router!addUsr, Svr!procLoginEnd,
      Router!procLoginEnd, Svr!procLeave, Router!procLeave, Svr!procLogout,
      Router!procLogout, Svr!procErrorAck, Router!procErrorAck, Svr!Refuse,
      Router!Refuse, Svr!Forward, Router!Forward, Svr!parseCipherMsg,
      Router!parseCipherMsg, Svr!cipherLenOK, Router!cipherLenOK,
      Svr!txtLenOK, Router!txtLenOK, Svr!procCipher, Router!procCipher,
      Svr!processEnds, Router!processEnds, Svr!procCipherNull,
      Router!procCipherNull,
      Svr!procForward, Router!procForward, Svr!procForwardNoerr,
      Router!procForwardNoerr, Svr!procPlain, Router!procPlain, Svr!procSend,
      Router!procSend, Svr!procSendNoerr, Router!procSendNoerr,
      Svr!procUnknown, Router!procUnknown, Svr!process, Router!process

\* The same of the end of a connection,
LEMMA RouterClose == ASSUME NEW c PROVE Svr!onClose(c) => Router!onClose(c)
  BY DEF Svr!onClose, Router!onClose, Svr!delUsr, Router!delUsr,
      Svr!broadcastUidExit, Router!broadcastUidExit, Svr!Open, Router!Open,
      Svr!exitMsg, Router!exitMsg

\* and of what the network does to one.
LEMMA RouterNetwork ==
    ASSUME NEW c
    PROVE  /\ Svr!onNewSock(c) => Router!onNewSock(c)
           /\ Svr!PeerGone(c) => Router!PeerGone(c)
  BY DEF Svr!onNewSock, Router!onNewSock, Svr!PeerGone, Router!PeerGone,
      Svr!Open, Router!Open, Svr!closeData, Router!closeData

----------------------------------------------------------------------------
(* The router in the system.                                               *)

\* A router's step in the system is one of its own, so it keeps what the
\* router's invariant says.
LEMMA RouterStep ==
    ASSUME Router!IInv, NEW c \in Conns,
           \/ Svr!process(c) \/ Svr!onClose(c) \/ Svr!PeerGone(c) \/ Svr!onNewSock(c)
    PROVE  Router!IInv'
<1>1. CASE Svr!process(c) \/ Svr!onClose(c) \/ Svr!PeerGone(c)
  <2>1. Router!Next
    BY <1>1, RouterProcess, RouterClose, RouterNetwork DEF Router!Next, Router!Network
  <2> QED
    BY <2>1, Router!IInvStep, RouterAssumptions
<1>2. CASE Svr!onNewSock(c)
  BY <1>2, RouterNetwork, Router!NewSockSound, RouterAssumptions
<1> QED
  BY <1>1, <1>2

\* What the clients do to the router: they send to connections that are open,
\* and take what it sent.
RouterFed ==
    /\ fd' = fd /\ stat' = stat /\ uid1' = uid1 /\ users' = users
    /\ \/ inq' = inq
       \/ \E c \in Conns, m \in RoutedMsg \union Router!LoginMsg :
             fd[c] = "open" /\ inq' = [inq EXCEPT ![c] = Append(@, [dir |-> "north", msg |-> m])]
    /\ \/ out' = out
       \/ \E c \in Conns : out[c] # <<>> /\ out' = [out EXCEPT ![c] = Tail(@)]

\* The router's invariant bears whatever its clients send.
LEMMA RouterFedStep ==
    ASSUME Router!IInv, RouterFed
    PROVE  Router!IInv'
<1>1. Router!TypeOK /\ inq \in Router!Queues /\ out \in Router!Wires
  BY DEF Router!IInv, Router!TypeOK, Router!Queues, Router!Wires, Router!OutMsg
<1>2. out' \in Router!Wires
  <2>1. CASE out' = out
    BY <1>1, <2>1
  <2>2. ASSUME NEW c \in Conns, out[c] # <<>>, out' = [out EXCEPT ![c] = Tail(@)]
        PROVE  out' \in Router!Wires
    BY <1>1, <2>2 DEF Router!Wires
  <2> QED
    BY <2>1, <2>2 DEF RouterFed
<1>3. Router!Clean(inq, stat, uid1)
  BY DEF Router!IInv, Router!Isolation, Router!Clean
<1>4. inq' \in Router!Queues /\ Router!Clean(inq', stat, uid1)
      /\ \A c \in Conns : fd[c] = "free" => inq'[c] = inq[c]
  <2>1. CASE inq' = inq
    BY <1>1, <1>3, <2>1
  <2>2. ASSUME NEW c \in Conns, NEW m \in RoutedMsg \union Router!LoginMsg, fd[c] = "open",
               inq' = [inq EXCEPT ![c] = Append(@, [dir |-> "north", msg |-> m])]
        PROVE  inq' \in Router!Queues /\ Router!Clean(inq', stat, uid1)
               /\ \A d \in Conns : fd[d] = "free" => inq'[d] = inq[d]
    <3> DEFINE e == [dir |-> "north", msg |-> m]
    <3>1. e \in Router!Envelope /\ e.dir # "south"
      BY DEF Router!Envelope, RoutedMsg, Router!RoutedMsg, RoutedCmds, Router!RoutedCmds,
             NoerrCmds, Router!NoerrCmds, TunnelCmds, Router!TunnelCmds,
             AllUids, Router!AllUids, AllSids, Router!AllSids
    <3>2. Router!Clean([inq EXCEPT ![c] = Append(@, e)], stat, uid1)
      BY <1>1, <1>3, <3>1, Router!AppendClean, RouterAssumptions
    <3>3. inq' \in Router!Queues
      BY <1>1, <2>2, <3>1 DEF Router!Queues
    <3> QED
      BY <1>1, <2>2, <3>2, <3>3 DEF Router!Queues
  <2> QED
    BY <2>1, <2>2 DEF RouterFed
<1>5. Router!TypeOK'
  BY <1>1, <1>2, <1>4 DEF RouterFed, Router!TypeOK, Router!Queues, Router!Wires, Router!OutMsg
<1>6. Router!Quiet
  BY <1>4 DEF RouterFed, Router!Quiet
<1> QED
  BY <1>5, <1>6, Router!QuietStep, RouterAssumptions

\* A crash leaves the router as new, except for what it sent before.
LEMMA RouterCrash ==
    ASSUME Router!IInv, SvrCrash
    PROVE  Router!IInv'
<1>1. Router!processEnds
  BY DEF SvrCrash, Svr!processEnds, Router!processEnds, Svr!AllUids, Router!AllUids
<1> QED
  BY <1>1, Router!EndSound, RouterAssumptions
----------------------------------------------------------------------------
(* The types of the clients and the agents.                                *)

AgentRec ==
    [fd : {"free", "connecting", "open", "closing", "dead"},
     stat : {"INVALID", "INIT", "AUTH_OK"},
     peerStat : {"INVALID", "AUTH_OK", "CLOSING"},
     uid : AllUids, sid : AllSids, peerUid : AllUids, peerSid : AllSids]

ToAgent == {m \in RoutedMsg \union ExitMsg : m.cmd \notin {"FRAME_CIPHER", "TUNNEL_REQ"}}

Units == Bodies \intersect (Agents \X Nat)

AgentEnv == [dir : {"south"}, msg : ToAgent] \union [dir : {"north"}, unit : Units]

Contents == Bodies \union (AllUids \X AllSids)

LinkQueues == [Uids -> Seq(RoutedMsg)]

AgentQueues == [Agents -> Seq(AgentEnv)]

NodeType ==
    /\ connOf \in [Uids -> Conns \union {NoConn}]
    /\ link \in [Uids -> {"down", "up", "closing"}]
    /\ cstat \in [Uids -> {"INVALID", "INIT", "CLI_REQ", "AUTH_OK"}]
    /\ sids \in [Uids -> [Sids -> Agents \union {NoAgent}]]
    /\ nextSid \in [Uids -> Nat]
    /\ cliq \in LinkQueues
    /\ agent \in [Agents -> AgentRec]
    /\ agentq \in AgentQueues
    /\ read \in [Agents -> Nat] /\ \A a \in Agents : read[a] <= MaxData[a]
    /\ got \in [Agents -> Seq(Contents)]

\* A link that is not down leads to a descriptor of the router.
LinkSound == \A u \in Uids : link[u] # "down" => connOf[u] \in Conns

NodeInv == Router!IInv /\ NodeType /\ LinkSound

\* These are the types that TypeOK states.
LEMMA TypeOKIs ==
    TypeOK <=> Svr!TypeOK /\ NodeType /\ nextSid \in [Uids -> 0..Cardinality(Sids)]
<1>1. Agt!AgentBase = AgentRec
  BY DEF Agt!AgentBase, AgentRec, Agt!AllUids, AllUids, Agt!AllSids, AllSids
<1>2. Agt!AgentMsg = AgentEnv
  BY DEF Agt!AgentMsg, AgentEnv, ToAgent, Units, Agt!RoutedMsg, RoutedMsg, Agt!ExitMsg, ExitMsg,
         Agt!RoutedCmds, RoutedCmds, Agt!NoerrCmds, NoerrCmds, Agt!TunnelCmds, TunnelCmds,
         Agt!AllUids, AllUids, Agt!AllSids, AllSids
<1>3. Sids = 1..Cardinality(Sids) /\ Cardinality(Sids) \in Nat
  BY TunnelAssumption
<1>4. nextSid \in [Uids -> 0..Cardinality(Sids)] => nextSid \in [Uids -> Nat]
  BY <1>3
<1> QED
  BY <1>1, <1>2, <1>4 DEF TypeOK, NodeType, AgentQueues, LinkQueues, Contents
----------------------------------------------------------------------------
(* What the helpers of the clients and the agents return.                  *)

\* Closing links and agents keeps their types and their identities.
LEMMA CloseLinkType ==
    ASSUME NodeType, NEW u \in Uids
    PROVE  /\ Cli!closeLink(u) \in [Uids -> {"down", "up", "closing"}]
           /\ \A v \in Uids : Cli!closeLink(u)[v] = "down" <=> link[v] = "down"
  BY DEF NodeType, Cli!closeLink

\* What is collected is a routed message.
LEMMA CollectType ==
    ASSUME NodeType, NEW u, NEW m \in RoutedMsg
    PROVE  Agt!Cli!collect(cliq, u, m) \in LinkQueues
<1>1. cliq \in LinkQueues
  BY DEF NodeType
<1>2. [cliq EXCEPT ![u] = Append(@, m)] \in LinkQueues
  <2>1. CASE u \in Uids
    <3>1. Append(cliq[u], m) \in Seq(RoutedMsg)
      BY <1>1, <2>1 DEF LinkQueues
    <3> QED
      BY <1>1, <2>1, <3>1 DEF LinkQueues
  <2>2. CASE u \notin Uids
    BY <1>1, <2>2 DEF LinkQueues
  <2> QED
    BY <2>1, <2>2
<1> QED
  BY <1>1, <1>2 DEF Agt!Cli!collect

\* An agent forwards routed messages, and so does its end.
LEMMA AgentForwardType ==
    ASSUME NodeType, NEW ag \in AgentRec, NEW cmd \in RoutedCmds, NEW b \in Contents,
           Agt!_forward(ag, cmd, b)
    PROVE  cliq' \in LinkQueues
<1>1. Agt!Msg(cmd, ag, b) \in RoutedMsg
  BY DEF Agt!Msg, RoutedMsg, AgentRec, Contents
<1> QED
  BY <1>1, CollectType DEF Agt!_forward

\* An agent's CLOSE leaves the clients' queues well typed.
LEMMA CloseMsgType ==
    ASSUME NodeType, NEW ag \in AgentRec, Agt!sendCloseTunnelMsg(ag)
    PROVE  cliq' \in LinkQueues
<1>1. Request \in Contents /\ "TUNNEL_CLOSE" \in RoutedCmds
  BY TunnelAssumption DEF Contents, RoutedCmds, NoerrCmds
<1> QED
  BY <1>1, AgentForwardType DEF Agt!sendCloseTunnelMsg, NodeType

\* What a link forwards to an agent is dispatched to it.
LEMMA ToAgentType ==
    ASSUME NodeType, NEW u, NEW s, NEW m \in ToAgent
    PROVE  Cli!_forward(u, s, m) \in AgentQueues
<1>1. agentq \in AgentQueues
  BY DEF NodeType
<1>2. [dir |-> "south", msg |-> m] \in AgentEnv
  BY DEF AgentEnv
<1>3. [agentq EXCEPT ![sids[u][s]] = Append(@, [dir |-> "south", msg |-> m])] \in AgentQueues
  <2> DEFINE a == sids[u][s]
             e == [dir |-> "south", msg |-> m]
  <2>1. CASE a \in Agents
    <3>1. Append(agentq[a], e) \in Seq(AgentEnv)
      BY <1>1, <1>2, <2>1 DEF AgentQueues
    <3> QED
      BY <1>1, <2>1, <3>1 DEF AgentQueues
  <2>2. CASE a \notin Agents
    BY <1>1, <2>2 DEF AgentQueues
  <2> QED
    BY <2>1, <2>2
<1> QED
  BY <1>1, <1>3 DEF Cli!_forward

\* Nothing, or one message to a connection of the router that is open.
InqFed ==
    \/ inq' = inq
    \/ \E c \in Conns, m \in RoutedMsg \union Router!LoginMsg :
          fd[c] = "open" /\ inq' = [inq EXCEPT ![c] = Append(@, [dir |-> "north", msg |-> m])]

\* What a client sends reaches the router as from any peer.
LEMMA SendFed ==
    ASSUME NodeInv, NEW u \in Uids, NEW m \in RoutedMsg \union Router!LoginMsg,
           inq' = Cli!_sendMsg(u, m)
    PROVE  InqFed
<1>1. link[u] = "up" => connOf[u] \in Conns
  BY DEF NodeInv, LinkSound
<1> QED
  BY <1>1 DEF Cli!_sendMsg, Cli!Sendable, InqFed

\* The UNREACH for a message is one that agents take.
LEMMA UnreachMsgType ==
    ASSUME NEW u \in Uids, NEW m \in RoutedMsg
    PROVE  Cli!genUnreachMsg(u, m) \in RoutedMsg /\ Cli!genUnreachMsg(u, m) \in ToAgent
<1>1. Cli!genUnreachMsg(u, m) \in RoutedMsg
  BY DEF Cli!genUnreachMsg, RoutedMsg, RoutedCmds, NoerrCmds, AllUids, AllSids
<1> QED
  BY <1>1 DEF Cli!genUnreachMsg, ToAgent

\* An answer that something is unreachable goes to an agent or to the router.
LEMMA RspFed ==
    ASSUME NodeInv, NEW u \in Uids, NEW m \in RoutedMsg, Cli!rspSidUnreach(u, m)
    PROVE  agentq' \in AgentQueues /\ InqFed
<1> DEFINE e == Cli!genUnreachMsg(u, m)
<1>1. e \in RoutedMsg /\ e \in ToAgent
  BY UnreachMsgType
<1>2. NodeType /\ agentq \in AgentQueues
  BY DEF NodeInv, NodeType
<1>3. Cli!_forward(u, m.ssid, e) \in AgentQueues
  BY <1>1, <1>2, ToAgentType
<1>4. agentq' \in AgentQueues
  BY <1>2, <1>3 DEF Cli!rspSidUnreach
<1>5. inq' = inq \/ inq' = Cli!_sendMsg(u, e)
  BY DEF Cli!rspSidUnreach
<1>6. inq' = inq => InqFed
  BY DEF InqFed
<1> QED
  BY <1>1, <1>4, <1>5, <1>6, SendFed

\* What a client takes from the router.
LEMMA SouthType ==
    ASSUME NodeInv, NEW u \in Uids, NEW cmds, Cli!HandlesSouth(u, cmds), Cli!SouthHandled(u)
    PROVE  /\ \E c \in Conns : out[c] # <<>> /\ out' = [out EXCEPT ![c] = Tail(@)]
           /\ Cli!SouthMsg(u).cmd \in cmds
           /\ Cli!SouthMsg(u).cmd \in RoutedCmds => Cli!SouthMsg(u) \in RoutedMsg
           /\ Cli!SouthMsg(u).cmd = "UID_EXIT_BROADCAST" => Cli!SouthMsg(u) \in ExitMsg
<1>1. connOf[u] \in Conns /\ out[connOf[u]] # <<>>
  BY DEF NodeInv, LinkSound, Cli!HandlesSouth
<1>2. out[connOf[u]] \in Seq(RoutedMsg \union ExitMsg \union Router!SvrLoginMsg)
  <2>1. Router!RoutedMsg = RoutedMsg /\ Router!ExitMsg = ExitMsg
    BY DEF RoutedMsg, Router!RoutedMsg, ExitMsg, Router!ExitMsg, RoutedCmds, Router!RoutedCmds,
           NoerrCmds, Router!NoerrCmds, TunnelCmds, Router!TunnelCmds,
           AllUids, Router!AllUids, AllSids, Router!AllSids
  <2> QED
    BY <1>1, <2>1 DEF NodeInv, Router!IInv, Router!TypeOK
<1>3. Cli!SouthMsg(u) \in RoutedMsg \union ExitMsg \union Router!SvrLoginMsg
  BY <1>1, <1>2 DEF Cli!SouthMsg
<1> QED
  BY <1>1, <1>3 DEF Cli!SouthHandled, Cli!HandlesSouth, Cli!SouthMsg, RoutedMsg, ExitMsg,
     Router!SvrLoginMsg, RoutedCmds, NoerrCmds, TunnelCmds
----------------------------------------------------------------------------
(* The steps of a client.                                                  *)

\* No agent is created, registered, forgotten or freed; some may be closed.
SessionsKept ==
    /\ sids' = sids /\ nextSid' = nextSid
    /\ \A a \in Agents :
          /\ agent'[a].uid = agent[a].uid /\ agent'[a].sid = agent[a].sid
          /\ \/ agent'[a].fd = agent[a].fd
             \/ agent[a].fd = "open" /\ agent'[a].fd = "closing"

\* A message is taken from the queue of a link.
LEMMA NorthType ==
    ASSUME NodeType, NEW u \in Uids, NEW cmds, Cli!HandlesNorth(u, cmds), Cli!NorthHandled(u)
    PROVE  cliq' \in LinkQueues /\ Cli!NorthMsg(u) \in RoutedMsg
<1>1. cliq \in LinkQueues /\ cliq[u] # <<>> /\ cliq[u] \in Seq(RoutedMsg)
  BY DEF NodeType, LinkQueues, Cli!HandlesNorth
<1> QED
  BY <1>1 DEF Cli!NorthHandled, Cli!NorthMsg, LinkQueues

\* The handlers of a link keep the types, change the router only by what
\* they send and take, and leave the sessions alone.
LEMMA CliProcess ==
    ASSUME NodeInv, NEW u \in Uids, Cli!process(u),
           UNCHANGED <<stat, uid1, users, connOf, read, got>>
    PROVE  RouterFed /\ NodeType' /\ LinkSound' /\ SessionsKept
<1>0. NodeType /\ LinkSound /\ cliq \in LinkQueues /\ agentq \in AgentQueues
  BY DEF NodeInv, NodeType
<1> DEFINE OutFed == \/ out' = out
                     \/ \E c \in Conns : out[c] # <<>> /\ out' = [out EXCEPT ![c] = Tail(@)]
           Links == {link, Cli!closeLink(u)}
<1>q. ASSUME UNCHANGED <<sids, nextSid, agent, fd>>, InqFed, OutFed,
             cstat' \in [Uids -> {"INVALID", "INIT", "CLI_REQ", "AUTH_OK"}],
             link' \in Links, cliq' \in LinkQueues, agentq' \in AgentQueues
      PROVE  RouterFed /\ NodeType' /\ LinkSound' /\ SessionsKept
  <2>1. RouterFed
    BY <1>q DEF RouterFed, InqFed
  <2>2. /\ link' \in [Uids -> {"down", "up", "closing"}]
        /\ \A v \in Uids : link'[v] = "down" <=> link[v] = "down"
    BY <1>0, <1>q, CloseLinkType DEF NodeType
  <2>3. NodeType'
    BY <1>0, <1>q, <2>2 DEF NodeType
  <2>4. LinkSound'
    BY <1>0, <1>q, <2>2 DEF LinkSound
  <2>5. sids' = sids /\ nextSid' = nextSid /\ agent' = agent
    BY <1>q
  <2>6. SessionsKept
    BY <2>5 DEF SessionsKept
  <2> QED
    BY <2>1, <2>3, <2>4, <2>6
<1>c. cstat \in [Uids -> {"INVALID", "INIT", "CLI_REQ", "AUTH_OK"}]
  BY <1>0 DEF NodeType
<1>n. /\ inq' = inq => InqFed
      /\ out' = out => OutFed
      /\ link' = link \/ link' = Cli!closeLink(u) => link' \in Links
  BY DEF InqFed
<1> HIDE DEF OutFed, Links
<1>l. ASSUME NEW cmd, NEW exp, NEW next \in {"CLI_REQ", "AUTH_OK"},
             NEW ans \in {"LOGIN_REQ", "LOGIN_END"}, Cli!procLogin(u, cmd, exp, next, ans)
      PROVE  RouterFed /\ NodeType' /\ LinkSound' /\ SessionsKept
  <2>1. /\ Cli!LoginAnswer(u, ans) \in Router!LoginMsg
        /\ Cli!LoginAnswer(u, "ERROR_ACK") \in Router!LoginMsg
    BY DEF Cli!LoginAnswer, Router!LoginMsg, Router!LoginCmds, Router!AllUids
  <2>2. InqFed
    BY <1>l, <2>1, SendFed DEF Cli!procLogin, Cli!errRsp
  <2>3. OutFed
    BY <1>l, SouthType DEF Cli!procLogin, OutFed
  <2>4. cstat' \in [Uids -> {"INVALID", "INIT", "CLI_REQ", "AUTH_OK"}]
    BY <1>c, <1>l DEF Cli!procLogin
  <2>5. link' = link \/ link' = Cli!closeLink(u)
    BY <1>l DEF Cli!procLogin
  <2> QED
    BY <1>0, <1>l, <1>n, <1>q, <2>2, <2>3, <2>4, <2>5 DEF Cli!procLogin
<1>1. CASE Cli!procHeloMsg(u) \/ Cli!procExchKeyMsg(u)
  BY <1>1, <1>l DEF Cli!procHeloMsg, Cli!procExchKeyMsg
\* What is for a session, or answered because that is not there.
<1>f. ASSUME NEW m \in RoutedMsg, m \in ToAgent, Cli!ForwardOrAnswer(u, m)
      PROVE  agentq' \in AgentQueues /\ InqFed
  BY <1>0, <1>f, <1>n, ToAgentType, RspFed DEF Cli!ForwardOrAnswer
<1>2. CASE Cli!procCipher(u)
  <2>1. /\ Cli!SouthMsg(u) \in RoutedMsg /\ OutFed
    BY <1>2, SouthType DEF Cli!procCipher, RoutedCmds, OutFed
  <2>2. /\ Cli!cipher2PlainMsg(Cli!SouthMsg(u)) \in RoutedMsg
        /\ Cli!cipher2PlainMsg(Cli!SouthMsg(u)) \in ToAgent
    BY <2>1 DEF Cli!cipher2PlainMsg, RoutedMsg, ToAgent, RoutedCmds
  <2>3. agentq' \in AgentQueues /\ InqFed /\ link' \in Links
    BY <1>0, <1>2, <1>f, <1>n, <2>2 DEF Cli!procCipher
  <2> QED
    BY <1>0, <1>2, <1>c, <1>q, <2>1, <2>3 DEF Cli!procCipher
<1>3. CASE Cli!procForward(u)
  <2>1. /\ Cli!SouthMsg(u) \in RoutedMsg /\ Cli!SouthMsg(u) \in ToAgent /\ OutFed
    BY <1>3, SouthType DEF Cli!procForward, RoutedCmds, TunnelCmds, OutFed, ToAgent
  <2>2. agentq' \in AgentQueues /\ InqFed /\ link' \in Links
    BY <1>0, <1>3, <1>f, <1>n, <2>1 DEF Cli!procForward
  <2> QED
    BY <1>0, <1>3, <1>c, <1>q, <2>1, <2>2 DEF Cli!procForward
<1>4. CASE Cli!procForwardNoerr(u)
  <2>1. /\ Cli!SouthMsg(u) \in RoutedMsg /\ Cli!SouthMsg(u) \in ToAgent /\ OutFed
    BY <1>4, SouthType DEF Cli!procForwardNoerr, RoutedCmds, NoerrCmds, Cli!NoerrCmds, OutFed, ToAgent
  <2>2. agentq' \in AgentQueues /\ InqFed /\ link' \in Links
    BY <1>0, <1>4, <1>n, <2>1, ToAgentType DEF Cli!procForwardNoerr
  <2> QED
    BY <1>0, <1>4, <1>c, <1>q, <2>1, <2>2 DEF Cli!procForwardNoerr
<1>5. CASE Cli!procPeerUsrExit(u)
  <2>1. /\ Cli!SouthMsg(u) \in ToAgent /\ OutFed
    BY <1>5, SouthType DEF Cli!procPeerUsrExit, OutFed, ToAgent
  <2>2. Cli!notifyAllSid(u, Cli!SouthMsg(u)) \in AgentQueues
    BY <1>0, <2>1 DEF Cli!notifyAllSid, AgentQueues, AgentEnv
  <2>3. agentq' \in AgentQueues /\ InqFed /\ link' \in Links
    BY <1>0, <1>5, <1>n, <2>2 DEF Cli!procPeerUsrExit
  <2> QED
    BY <1>0, <1>5, <1>c, <1>q, <2>1, <2>3 DEF Cli!procPeerUsrExit
\* What is sent, or answered because it cannot be sent.
<1>s. ASSUME NEW m \in RoutedMsg, Cli!SendOrAnswer(u, m)
      PROVE  agentq' \in AgentQueues /\ InqFed /\ link' \in Links
  BY <1>0, <1>s, <1>n, SendFed, RspFed DEF Cli!SendOrAnswer
<1>6. CASE Cli!procPlain(u)
  <2>1. cliq' \in LinkQueues /\ Cli!NorthMsg(u) \in RoutedMsg
    BY <1>0, <1>6, NorthType DEF Cli!procPlain
  <2>2. Cli!plain2CipherMsg(Cli!NorthMsg(u)) \in RoutedMsg
    BY <2>1 DEF Cli!plain2CipherMsg, RoutedMsg, RoutedCmds
  <2>3. agentq' \in AgentQueues /\ InqFed /\ link' \in Links
    BY <1>0, <1>6, <1>s, <1>n, <2>2 DEF Cli!procPlain
  <2> QED
    BY <1>0, <1>6, <1>c, <1>n, <1>q, <2>1, <2>3 DEF Cli!procPlain
<1>7. CASE Cli!procSend(u)
  <2>1. cliq' \in LinkQueues /\ Cli!NorthMsg(u) \in RoutedMsg
    BY <1>0, <1>7, NorthType DEF Cli!procSend
  <2>2. agentq' \in AgentQueues /\ InqFed /\ link' \in Links
    BY <1>7, <1>s, <2>1 DEF Cli!procSend
  <2> QED
    BY <1>0, <1>7, <1>c, <1>n, <1>q, <2>1, <2>2 DEF Cli!procSend
<1>8. CASE Cli!procSendNoerr(u)
  <2>1. cliq' \in LinkQueues /\ Cli!NorthMsg(u) \in RoutedMsg
    BY <1>0, <1>8, NorthType DEF Cli!procSendNoerr
  <2>2. InqFed
    BY <1>8, <2>1, SendFed DEF Cli!procSendNoerr
  <2> QED
    BY <1>0, <1>8, <1>c, <1>n, <1>q, <2>1, <2>2 DEF Cli!procSendNoerr
<1> QED
  BY <1>1, <1>2, <1>3, <1>4, <1>5, <1>6, <1>7, <1>8 DEF Cli!process
----------------------------------------------------------------------------
(* The steps of an agent.                                                  *)

\* What an agent takes from its queue.
LEMMA AgentHead ==
    ASSUME NodeType, NEW a \in Agents, agentq[a] # <<>>
    PROVE  /\ Head(agentq[a]) \in AgentEnv
           /\ [agentq EXCEPT ![a] = Tail(@)] \in AgentQueues
           /\ Head(agentq[a]).dir = "north" => Head(agentq[a]).unit \in Contents
           /\ Head(agentq[a]).dir = "south" =>
                 /\ Agt!SouthMsg(a) \in ToAgent
                 /\ Agt!SouthMsg(a).cmd \in RoutedCmds => Agt!SouthMsg(a) \in RoutedMsg
<1>1. agentq \in AgentQueues /\ agentq[a] \in Seq(AgentEnv)
  BY DEF NodeType, AgentQueues
<1>2. Head(agentq[a]) \in AgentEnv
  BY <1>1
<1>3. [agentq EXCEPT ![a] = Tail(@)] \in AgentQueues
  BY <1>1 DEF AgentQueues
<1>4. Head(agentq[a]).dir = "north" => Head(agentq[a]).unit \in Contents
  BY <1>2 DEF AgentEnv, Units, Contents
<1>5. Head(agentq[a]).dir = "south" => Agt!SouthMsg(a) \in ToAgent
  BY <1>2 DEF AgentEnv, Agt!SouthMsg
<1>6. ASSUME NEW m \in ToAgent, m.cmd \in RoutedCmds PROVE m \in RoutedMsg
  BY <1>6 DEF ToAgent, ExitMsg, RoutedCmds, NoerrCmds, TunnelCmds
<1> QED
  BY <1>2, <1>3, <1>4, <1>5, <1>6

\* The record of one agent changes, and stays the agent that it was.
LEMMA OneAgentKept ==
    ASSUME NodeType, NEW a \in Agents, NEW ag \in AgentRec,
           ag.uid = agent[a].uid, ag.sid = agent[a].sid,
           \/ ag.fd = agent[a].fd
           \/ agent[a].fd = "open" /\ ag.fd = "closing",
           agent' = [agent EXCEPT ![a] = ag], sids' = sids, nextSid' = nextSid
    PROVE  agent' \in [Agents -> AgentRec] /\ SessionsKept
<1>1. agent' \in [Agents -> AgentRec]
  BY DEF NodeType
<1>2. \A b \in Agents : agent'[b] = IF b = a THEN ag ELSE agent[b]
  BY DEF NodeType
<1> QED
  BY <1>1, <1>2 DEF SessionsKept

\* Closing an agent, or losing its peer, changes only its state.
LEMMA ClosedType ==
    ASSUME NEW ag \in AgentRec
    PROVE  /\ Agt!closed(ag) \in AgentRec /\ Agt!_invalidPeer(ag) \in AgentRec
           /\ Agt!closed(ag).uid = ag.uid /\ Agt!closed(ag).sid = ag.sid
           /\ \/ Agt!closed(ag).fd = ag.fd
              \/ ag.fd = "open" /\ Agt!closed(ag).fd = "closing"
           /\ Agt!_invalidPeer(ag).uid = ag.uid /\ Agt!_invalidPeer(ag).sid = ag.sid
           /\ Agt!_invalidPeer(ag).fd = ag.fd
  BY DEF AgentRec, Agt!closed, Agt!_invalidPeer

\* The handlers of an agent keep the types, leave the router and the sessions
\* alone.
LEMMA AgentProcess ==
    ASSUME NodeInv, NEW a \in Agents, Agt!process(a),
           UNCHANGED <<stat, uid1, users, connOf>>
    PROVE  RouterFed /\ NodeType' /\ LinkSound' /\ SessionsKept
<1>0. NodeType /\ LinkSound /\ agent[a] \in AgentRec /\ cliq \in LinkQueues
      /\ got \in [Agents -> Seq(Contents)]
  BY DEF NodeInv, NodeType
<1>q. ASSUME UNCHANGED <<link, cstat, sids, nextSid, read, fd, inq, out>>,
             agentq' \in AgentQueues, cliq' \in LinkQueues, got' \in [Agents -> Seq(Contents)],
             NEW ag \in AgentRec, ag.uid = agent[a].uid, ag.sid = agent[a].sid,
             \/ ag.fd = agent[a].fd
             \/ agent[a].fd = "open" /\ ag.fd = "closing",
             agent' = [agent EXCEPT ![a] = ag]
      PROVE  RouterFed /\ NodeType' /\ LinkSound' /\ SessionsKept
  <2>1. agent' \in [Agents -> AgentRec] /\ SessionsKept
    BY <1>0, <1>q, OneAgentKept
  <2>2. NodeType'
    BY <1>0, <1>q, <2>1 DEF NodeType
  <2>3. RouterFed
    BY <1>q DEF RouterFed
  <2>4. LinkSound'
    BY <1>0, <1>q DEF LinkSound
  <2> QED
    BY <2>1, <2>2, <2>3, <2>4
<1>s. agent' = agent => agent' = [agent EXCEPT ![a] = agent[a]]
  BY <1>0 DEF NodeType
<1> DEFINE q == [agentq EXCEPT ![a] = Tail(@)]
<1>1. CASE Agt!procForward(a)
  <2>1. agentq' \in AgentQueues /\ Head(agentq[a]).unit \in Contents
    BY <1>0, <1>1, AgentHead DEF Agt!procForward, Agt!HandlesNorth, Agt!Handled
  <2>2. cliq' \in LinkQueues
    <3>1. CASE Agt!_forward(agent[a], "FRAME_PLAIN", Head(agentq[a]).unit)
      BY <1>0, <2>1, <3>1, AgentForwardType DEF RoutedCmds
    <3>2. CASE UNCHANGED cliq
      BY <1>0, <3>2
    <3> QED
      BY <1>1, <3>1, <3>2 DEF Agt!procForward
  <2>3. PICK ag \in {agent[a], Agt!closed(agent[a]), Agt!closed(Agt!_invalidPeer(agent[a]))} :
            agent' = [agent EXCEPT ![a] = ag]
    BY <1>1 DEF Agt!procForward
  <2>4. /\ ag \in AgentRec /\ ag.uid = agent[a].uid /\ ag.sid = agent[a].sid
        /\ ag.fd = agent[a].fd \/ (agent[a].fd = "open" /\ ag.fd = "closing")
    BY <1>0, <2>3, ClosedType
  <2>5. UNCHANGED <<link, cstat, sids, nextSid, read, got, fd, inq, out>>
    BY <1>1 DEF Agt!procForward
  <2> QED
    BY <1>0, <1>q, <2>1, <2>2, <2>3, <2>4, <2>5
<1>2. CASE Agt!procSend(a)
  <2>1. agentq' \in AgentQueues /\ Agt!SouthMsg(a) \in RoutedMsg
    BY <1>0, <1>2, AgentHead
    DEF Agt!procSend, Agt!HandlesSouth, Agt!Handled, Agt!SouthMsg, RoutedCmds
  <2>2. Agt!SouthMsg(a).body \in Contents
    BY <2>1 DEF RoutedMsg, Contents
  <2>3. got' \in [Agents -> Seq(Contents)]
    BY <1>0, <1>2, <2>2 DEF Agt!procSend
  <2> QED
    BY <1>0, <1>2, <1>q, <1>s, <2>1, <2>3 DEF Agt!procSend
<1>3. CASE Agt!procTunnelAck(a)
  <2>1. agentq' \in AgentQueues /\ Agt!SouthMsg(a) \in RoutedMsg
    BY <1>0, <1>3, AgentHead
    DEF Agt!procTunnelAck, Agt!HandlesSouth, Agt!Handled, Agt!SouthMsg, RoutedCmds, TunnelCmds
  <2>2. Agt!SouthMsg(a).ssid \in AllSids
    BY <2>1 DEF RoutedMsg
  <2> DEFINE acked == [agent[a] EXCEPT !.peerSid = Agt!SouthMsg(a).ssid,
                                       !.stat = "AUTH_OK", !.peerStat = "AUTH_OK"]
  <2>3. /\ acked \in AgentRec /\ acked.uid = agent[a].uid /\ acked.sid = agent[a].sid
        /\ acked.fd = agent[a].fd
    BY <1>0, <2>2 DEF AgentRec
  <2>4. agent' = [agent EXCEPT ![a] = acked] \/ agent' = [agent EXCEPT ![a] = Agt!closed(agent[a])]
    BY <1>0, <1>3 DEF Agt!procTunnelAck, NodeType
  <2> HIDE DEF acked
  <2> QED
    BY <1>0, <1>3, <1>q, <2>1, <2>3, <2>4, ClosedType DEF Agt!procTunnelAck
<1>4. ASSUME NEW cmd, Agt!procEnd(a, cmd)
      PROVE  RouterFed /\ NodeType' /\ LinkSound' /\ SessionsKept
  <2>1. agentq' \in AgentQueues
    BY <1>0, <1>4, AgentHead DEF Agt!procEnd, Agt!HandlesSouth, Agt!Handled
  <2>2. \/ agent' = [agent EXCEPT ![a] = agent[a]]
        \/ agent' = [agent EXCEPT ![a] = Agt!closed(Agt!_invalidPeer(agent[a]))]
    BY <1>4, <1>s DEF Agt!procEnd
  <2> QED
    BY <1>0, <1>4, <1>q, <2>1, <2>2, ClosedType DEF Agt!procEnd
<1> QED
  BY <1>1, <1>2, <1>3, <1>4
  DEF Agt!process, Agt!procPeerUsrExit, Agt!procTunnelClose, Agt!procUnreach
----------------------------------------------------------------------------
(* Sessions.  An agent with a session has one of its user's numbers that   *)
(* were given out, and shares it with no other; numbers are given out in   *)
(* order, each for an agent that is used up, so they suffice.              *)

HasSession(a) == agent[a].fd \in {"open", "closing"}

AgentSound ==
    \A a \in Agents :
        /\ agent[a].fd \in {"connecting", "open", "closing"} => agent[a].uid \in Uids
        /\ HasSession(a) => agent[a].sid \in 1..nextSid[agent[a].uid]

OneAgent ==
    \A a, b \in Agents :
        HasSession(a) /\ HasSession(b)
            /\ agent[a].uid = agent[b].uid /\ agent[a].sid = agent[b].sid => a = b

Used == {a \in Agents : agent[a].fd \notin {"free", "connecting"}}

EnoughSids == \A u \in Uids : nextSid[u] <= Cardinality(Used)

SessionInv == AgentSound /\ OneAgent /\ EnoughSids /\ SessionsSound

\* The numbers that are given out are session numbers.
LEMMA UsedBound ==
    /\ IsFiniteSet(Used) /\ Cardinality(Used) \in Nat
    /\ Cardinality(Used) <= Cardinality(Agents)
    /\ Cardinality(Used) = Cardinality(Agents) => Used = Agents
    /\ Cardinality(Agents) \in Nat /\ Cardinality(Sids) = Cardinality(Agents)
    /\ Sids = Agents
<1>1. IsFiniteSet(Agents)
  BY TunnelAssumption, FS_Interval
<1>2. Used \subseteq Agents /\ Sids = Agents
  BY TunnelAssumption DEF Used
<1> QED
  BY <1>1, <1>2, FS_Subset, FS_CardinalityType

\* While no agent is used again, a session number is left for each.
LEMMA SidsSuffice ==
    ASSUME NodeType, EnoughSids
    PROVE  /\ \A u \in Uids : nextSid[u] \in 0..Cardinality(Sids)
           /\ \A u \in Uids : 1..nextSid[u] \subseteq Sids
<1> SUFFICES ASSUME NEW u \in Uids
             PROVE  nextSid[u] \in 0..Cardinality(Sids) /\ 1..nextSid[u] \subseteq Sids
  OBVIOUS
<1>1. nextSid[u] \in Nat /\ nextSid[u] <= Cardinality(Used)
  BY DEF NodeType, EnoughSids
<1>2. /\ Cardinality(Used) \in Nat /\ Cardinality(Sids) \in Nat
      /\ Cardinality(Used) <= Cardinality(Sids)
      /\ Sids = 1..Cardinality(Sids)
  BY UsedBound, TunnelAssumption
<1>3. nextSid[u] <= Cardinality(Sids)
  BY <1>1, <1>2
<1> QED
  BY <1>1, <1>2, <1>3

\* The more agents are used up the more numbers may be given out.
LEMMA MoreUsed ==
    ASSUME Used \subseteq Used', Used' \subseteq Agents
    PROVE  /\ Cardinality(Used') \in Nat /\ Cardinality(Used) <= Cardinality(Used')
           /\ \A a \in Used' \ Used : Cardinality(Used) + 1 <= Cardinality(Used')
<1>1. IsFiniteSet(Agents)
  BY TunnelAssumption, FS_Interval
<1>2. IsFiniteSet(Used') /\ Cardinality(Used') \in Nat
  BY <1>1, FS_Subset, FS_CardinalityType
<1>3. Cardinality(Used) \in Nat /\ Cardinality(Used) <= Cardinality(Used')
      /\ (Cardinality(Used) = Cardinality(Used') => Used = Used')
  BY <1>2, FS_Subset, UsedBound
<1> QED
  BY <1>2, <1>3

\* Closing agents leaves the sessions as they were.
LEMMA SessionsKeptStep ==
    ASSUME NodeType, SessionInv, SessionsKept
    PROVE  SessionInv'
<1>0. AgentSound /\ OneAgent /\ EnoughSids /\ SessionsSound
  BY DEF SessionInv
<1>1. \A a \in Agents : /\ HasSession(a)' <=> HasSession(a)
                        /\ agent'[a].uid = agent[a].uid /\ agent'[a].sid = agent[a].sid
                        /\ agent'[a].fd = "open" => agent[a].fd = "open"
                        /\ agent'[a].fd \in {"connecting", "free"} <=> agent[a].fd \in {"connecting", "free"}
                        /\ agent'[a].fd = "connecting" => agent[a].fd = "connecting"
  BY DEF SessionsKept, HasSession
<1>2. AgentSound'
  BY <1>0, <1>1 DEF AgentSound, SessionsKept, HasSession
<1>3. OneAgent'
  BY <1>0, <1>1 DEF OneAgent
<1>4. EnoughSids'
  <2>1. Used' = Used
    BY <1>1 DEF Used
  <2> QED
    BY <1>0, <2>1 DEF EnoughSids, SessionsKept
<1>5. SessionsSound'
  <2>1. ASSUME NEW u \in Uids, NEW s \in Sids, sids'[u][s] # NoAgent
        PROVE  /\ agent'[sids'[u][s]].fd \in {"open", "closing"}
               /\ agent'[sids'[u][s]].uid = u /\ agent'[sids'[u][s]].sid = s
    <3>1. sids'[u][s] = sids[u][s] /\ sids[u][s] \in Agents
      BY <2>1 DEF SessionsKept, NodeType
    <3> QED
      BY <1>0, <1>1, <2>1, <3>1 DEF SessionsSound, HasSession
  <2>2. ASSUME NEW a \in Agents, agent'[a].fd = "open"
        PROVE  sids'[agent'[a].uid][agent'[a].sid] = a
    BY <1>0, <1>1, <2>2 DEF SessionsSound, SessionsKept
  <2> QED
    BY <2>1, <2>2 DEF SessionsSound
<1> QED
  BY <1>2, <1>3, <1>4, <1>5 DEF SessionInv

\* There is a number left for an agent that has none yet.
LEMMA NewSid ==
    ASSUME NodeType, EnoughSids, NEW u \in Uids,
           NEW a \in Agents, agent[a].fd \in {"free", "connecting"}
    PROVE  /\ nextSid[u] \in Nat /\ nextSid[u] + 1 \in Sids /\ nextSid[u] + 1 # NoSid
           /\ nextSid[u] + 1 <= Cardinality(Used) + 1
<1>1. a \notin Used
  BY DEF Used
<1>2. Cardinality(Used) # Cardinality(Agents)
  BY <1>1, UsedBound
<1>3. nextSid[u] \in Nat /\ nextSid[u] <= Cardinality(Used)
  BY DEF NodeType, EnoughSids
<1>4. /\ Cardinality(Used) \in Nat /\ Cardinality(Agents) \in Nat
      /\ Cardinality(Used) <= Cardinality(Agents)
  BY UsedBound
<1>5. nextSid[u] + 1 \in 1..Cardinality(Agents)
  BY <1>2, <1>3, <1>4
<1> QED
  BY <1>3, <1>4, <1>5, TunnelAssumption

\* An agent is registered with the next number of its user: nobody has had
\* that number, in the table or in an agent that is still being closed.
LEMMA RegisterStep ==
    ASSUME NodeType, SessionInv, NEW u \in Uids,
           NEW a \in Agents, agent[a].fd \in {"free", "connecting"},
           NEW ag \in AgentRec, ag.fd = "open", ag.uid = u, ag.sid = nextSid[u] + 1,
           agent' = [agent EXCEPT ![a] = ag], Agt!Cli!regSid(u, a)
    PROVE  /\ sids' \in [Uids -> [Sids -> Agents \union {NoAgent}]]
           /\ nextSid' \in [Uids -> Nat]
           /\ SessionInv'
<1> DEFINE n == nextSid[u] + 1
<1>0. AgentSound /\ OneAgent /\ EnoughSids /\ SessionsSound
  BY DEF SessionInv
<1>1. nextSid[u] \in Nat /\ n \in Sids /\ n \in Nat /\ n <= Cardinality(Used) + 1
  BY <1>0, NewSid
<1>2. nextSid' = [nextSid EXCEPT ![u] = n] /\ sids' = [sids EXCEPT ![u][n] = a]
  BY DEF Agt!Cli!regSid, Agt!Cli!newSid
<1>3. /\ nextSid' \in [Uids -> Nat]
      /\ nextSid'[u] = n /\ \A v \in Uids \ {u} : nextSid'[v] = nextSid[v]
      /\ \A v \in Uids : nextSid[v] \in Nat /\ nextSid'[v] \in Nat /\ nextSid[v] <= nextSid'[v]
  BY <1>1, <1>2 DEF NodeType
<1>4. /\ sids' \in [Uids -> [Sids -> Agents \union {NoAgent}]]
      /\ sids'[u][n] = a
      /\ \A v \in Uids, s \in Sids : v # u \/ s # n => sids'[v][s] = sids[v][s]
  BY <1>1, <1>2 DEF NodeType
<1>5. agent'[a] = ag /\ \A b \in Agents \ {a} : agent'[b] = agent[b]
  BY DEF NodeType
<1>6. \A b \in Agents \ {a} : HasSession(b)' <=> HasSession(b)
  BY <1>5 DEF HasSession
<1>7. AgentSound'
  <2>1. ASSUME NEW b \in Agents
        PROVE  /\ agent'[b].fd \in {"connecting", "open", "closing"} => agent'[b].uid \in Uids
               /\ HasSession(b)' => agent'[b].sid \in 1..nextSid'[agent'[b].uid]
    <3>1. CASE b = a
      BY <1>1, <1>3, <1>5, <3>1
    <3>2. CASE b # a
      <4>1. agent[b].fd \in {"connecting", "open", "closing"} => agent[b].uid \in Uids
        BY <1>0 DEF AgentSound
      <4>2. HasSession(b) => agent[b].uid \in Uids /\ agent[b].sid \in 1..nextSid[agent[b].uid]
        BY <1>0 DEF AgentSound, HasSession
      <4> QED
        BY <1>3, <1>5, <1>6, <3>2, <4>1, <4>2
    <3> QED
      BY <3>1, <3>2
  <2> QED
    BY <2>1 DEF AgentSound
<1>8. \A b \in Agents \ {a} : HasSession(b) /\ agent[b].uid = u => agent[b].sid # n
  BY <1>0, <1>1 DEF AgentSound
<1>9. OneAgent'
  BY <1>0, <1>5, <1>6, <1>8 DEF OneAgent
<1>10. EnoughSids'
  <2>1. Used \subseteq Used' /\ Used' \subseteq Agents /\ a \in Used' \ Used
    BY <1>5 DEF Used
  <2>2. /\ Cardinality(Used) \in Nat /\ Cardinality(Used') \in Nat
        /\ Cardinality(Used) + 1 <= Cardinality(Used')
    BY <2>1, MoreUsed, UsedBound
  <2>3. ASSUME NEW v \in Uids PROVE nextSid'[v] <= Cardinality(Used')
    <3>1. nextSid[v] \in Nat /\ nextSid[v] <= Cardinality(Used)
      BY <1>0 DEF EnoughSids, NodeType
    <3> QED
      BY <1>1, <1>3, <2>2, <3>1
  <2> QED
    BY <2>3 DEF EnoughSids
<1>11. SessionsSound'
  <2>1. ASSUME NEW v \in Uids, NEW s \in Sids, sids'[v][s] # NoAgent
        PROVE  /\ agent'[sids'[v][s]].fd \in {"open", "closing"}
               /\ agent'[sids'[v][s]].uid = v /\ agent'[sids'[v][s]].sid = s
    <3>1. CASE v = u /\ s = n
      BY <1>4, <1>5, <3>1
    <3>2. CASE ~(v = u /\ s = n)
      <4>1. sids'[v][s] = sids[v][s] /\ sids[v][s] \in Agents
        BY <1>4, <2>1, <3>2 DEF NodeType
      <4>2. /\ agent[sids[v][s]].fd \in {"open", "closing"}
            /\ agent[sids[v][s]].uid = v /\ agent[sids[v][s]].sid = s
        BY <1>0, <2>1, <4>1 DEF SessionsSound
      <4> QED
        BY <1>5, <4>1, <4>2
    <3> QED
      BY <3>1, <3>2
  <2>2. ASSUME NEW b \in Agents, agent'[b].fd = "open"
        PROVE  sids'[agent'[b].uid][agent'[b].sid] = b
    <3>1. CASE b = a
      BY <1>4, <1>5, <3>1
    <3>2. CASE b # a
      <4>1. HasSession(b) /\ agent'[b] = agent[b] /\ agent[b].fd = "open"
        BY <1>5, <2>2, <3>2 DEF HasSession
      <4>2. agent[b].uid \in Uids /\ agent[b].sid \in Sids
        BY <1>0, <4>1, SidsSuffice DEF AgentSound, HasSession
      <4> QED
        BY <1>0, <1>4, <1>8, <3>2, <4>1, <4>2 DEF SessionsSound
    <3> QED
      BY <3>1, <3>2
  <2> QED
    BY <2>1, <2>2 DEF SessionsSound
<1> QED
  BY <1>3, <1>4, <1>7, <1>9, <1>10, <1>11 DEF SessionInv

\* An agent without a session is created for a peer's request, or freed
\* because its application could not be reached.
LEMMA NoSessionStep ==
    ASSUME NodeType, SessionInv, NEW a \in Agents, ~HasSession(a),
           NEW ag \in AgentRec, ag.fd \in {"connecting", "dead"},
           ag.fd = "connecting" => ag.uid \in Uids /\ agent[a].fd = "free",
           agent' = [agent EXCEPT ![a] = ag], sids' = sids, nextSid' = nextSid
    PROVE  SessionInv'
<1>0. AgentSound /\ OneAgent /\ EnoughSids /\ SessionsSound
  BY DEF SessionInv
<1>1. agent'[a] = ag /\ \A b \in Agents \ {a} : agent'[b] = agent[b]
  BY DEF NodeType
<1>2. \A b \in Agents : (HasSession(b)' <=> HasSession(b)) /\ (HasSession(b) => b # a)
  BY <1>1 DEF HasSession
<1>3. AgentSound'
  BY <1>0, <1>1, <1>2 DEF AgentSound
<1>4. OneAgent'
  BY <1>0, <1>1, <1>2 DEF OneAgent
<1>5. EnoughSids'
  <2>1. Used \subseteq Used' /\ Used' \subseteq Agents
    BY <1>1 DEF Used
  <2>2. /\ Cardinality(Used) \in Nat /\ Cardinality(Used') \in Nat
        /\ Cardinality(Used) <= Cardinality(Used')
    BY <2>1, MoreUsed, UsedBound
  <2> QED
    BY <1>0, <2>2 DEF EnoughSids, NodeType
<1>6. SessionsSound'
  <2>1. ASSUME NEW u \in Uids, NEW s \in Sids, sids'[u][s] # NoAgent
        PROVE  /\ agent'[sids'[u][s]].fd \in {"open", "closing"}
               /\ agent'[sids'[u][s]].uid = u /\ agent'[sids'[u][s]].sid = s
    <3>1. sids'[u][s] = sids[u][s] /\ sids[u][s] \in Agents
      BY <2>1 DEF NodeType
    <3>2. HasSession(sids[u][s]) /\ agent[sids[u][s]].uid = u /\ agent[sids[u][s]].sid = s
      BY <1>0, <2>1 DEF SessionsSound, HasSession
    <3> QED
      BY <1>1, <1>2, <3>1, <3>2 DEF HasSession
  <2>2. ASSUME NEW b \in Agents, agent'[b].fd = "open"
        PROVE  sids'[agent'[b].uid][agent'[b].sid] = b
    <3>1. b # a
      BY <1>1, <2>2
    <3> QED
      BY <1>0, <1>1, <2>2, <3>1 DEF SessionsSound
  <2> QED
    BY <2>1, <2>2 DEF SessionsSound
<1> QED
  BY <1>3, <1>4, <1>5, <1>6 DEF SessionInv

\* The data of agents are freed, all their sessions are forgotten, and those
\* who stay keep theirs.  (A table whose sessions are all forgotten may lose
\* the numbers that it has given out.)
LEMMA FreedStep ==
    ASSUME NodeType, SessionInv, NEW S \in SUBSET Agents,
           \A a \in Agents : agent'[a] = IF a \in S THEN Agt!emptyAgent("dead") ELSE agent[a],
           sids' \in [Uids -> [Sids -> Agents \union {NoAgent}]],
           \A u \in Uids, s \in Sids :
              sids'[u][s] = IF sids[u][s] \in S THEN NoAgent ELSE sids[u][s],
           nextSid' \in [Uids -> Nat],
           \A u \in Uids : \/ nextSid'[u] = nextSid[u]
                           \/ /\ nextSid'[u] <= nextSid[u]
                              /\ \A a \in Agents : agent[a].uid = u => a \in S
    PROVE  SessionInv'
<1>0. AgentSound /\ OneAgent /\ EnoughSids /\ SessionsSound
  BY DEF SessionInv
<1>d. Agt!emptyAgent("dead").fd = "dead"
  BY DEF Agt!emptyAgent
<1>1. \A a \in Agents : /\ HasSession(a)' <=> HasSession(a) /\ a \notin S
                        /\ a \notin S => agent'[a] = agent[a]
                        /\ a \in S => agent'[a].fd = "dead"
  BY <1>d DEF HasSession
<1>3. AgentSound'
  <2>1. ASSUME NEW a \in Agents
        PROVE  /\ agent'[a].fd \in {"connecting", "open", "closing"} => agent'[a].uid \in Uids
               /\ HasSession(a)' => agent'[a].sid \in 1..nextSid'[agent'[a].uid]
    <3>1. CASE a \in S
      BY <1>1, <3>1
    <3>2. CASE a \notin S
      <4>1. agent[a].uid \in Uids => nextSid'[agent[a].uid] = nextSid[agent[a].uid]
        BY <3>2
      <4> QED
        BY <1>0, <1>1, <3>2, <4>1 DEF AgentSound, HasSession
    <3> QED
      BY <3>1, <3>2
  <2> QED
    BY <2>1 DEF AgentSound
<1>4. OneAgent'
  BY <1>0, <1>1 DEF OneAgent
<1>5. EnoughSids'
  <2>1. Used \subseteq Used' /\ Used' \subseteq Agents
    BY <1>1 DEF Used
  <2>2. /\ Cardinality(Used) \in Nat /\ Cardinality(Used') \in Nat
        /\ Cardinality(Used) <= Cardinality(Used')
    BY <2>1, MoreUsed, UsedBound
  <2>3. ASSUME NEW u \in Uids PROVE nextSid'[u] <= Cardinality(Used')
    <3>1. nextSid[u] \in Nat /\ nextSid'[u] \in Nat /\ nextSid'[u] <= nextSid[u]
      BY DEF NodeType
    <3>2. nextSid[u] <= Cardinality(Used)
      BY <1>0 DEF EnoughSids
    <3> QED
      BY <2>2, <3>1, <3>2
  <2> QED
    BY <2>3 DEF EnoughSids
<1>6. SessionsSound'
  <2>1. ASSUME NEW u \in Uids, NEW s \in Sids, sids'[u][s] # NoAgent
        PROVE  /\ agent'[sids'[u][s]].fd \in {"open", "closing"}
               /\ agent'[sids'[u][s]].uid = u /\ agent'[sids'[u][s]].sid = s
    <3>1. sids'[u][s] = sids[u][s] /\ sids[u][s] \in Agents \ S
      BY <2>1 DEF NodeType
    <3> QED
      BY <1>0, <1>1, <2>1, <3>1 DEF SessionsSound
  <2>2. ASSUME NEW b \in Agents, agent'[b].fd = "open"
        PROVE  sids'[agent'[b].uid][agent'[b].sid] = b
    <3>1. b \notin S /\ agent'[b] = agent[b] /\ HasSession(b)
      BY <1>1, <2>2 DEF HasSession
    <3>2. agent[b].uid \in Uids /\ agent[b].sid \in Sids
      BY <1>0, <3>1, SidsSuffice DEF AgentSound, HasSession
    <3> QED
      BY <1>0, <2>2, <3>1, <3>2 DEF SessionsSound
  <2> QED
    BY <2>1, <2>2 DEF SessionsSound
<1> QED
  BY <1>3, <1>4, <1>5, <1>6 DEF SessionInv

\* A link is lost: all its sessions are forgotten, their agents closed.
LEMMA LinkDownStep ==
    ASSUME NodeType, SessionInv, NEW u \in Uids,
           agent' = Cli!closeChildren(u),
           sids' = [sids EXCEPT ![u] = [s \in Sids |-> NoAgent]],
           nextSid' = nextSid
    PROVE  agent' \in [Agents -> AgentRec] /\ SessionInv'
<1>0. AgentSound /\ OneAgent /\ EnoughSids /\ SessionsSound
  BY DEF SessionInv
<1> DEFINE S == {sids[u][s] : s \in Cli!Sessions(u)}
<1>1. \A a \in Agents :
        agent'[a] = IF a \in S /\ agent[a].fd = "open"
                    THEN [agent[a] EXCEPT !.fd = "closing"] ELSE agent[a]
  BY DEF Cli!closeChildren, Cli!closeAgents
<1>2. \A a \in Agents :
        /\ agent'[a] \in AgentRec /\ agent'[a].uid = agent[a].uid /\ agent'[a].sid = agent[a].sid
        /\ HasSession(a)' <=> HasSession(a)
        /\ agent'[a].fd \in {"free", "connecting"} <=> agent[a].fd \in {"free", "connecting"}
        /\ agent'[a].fd = "connecting" => agent[a].fd = "connecting"
        /\ agent'[a].fd = "open" => agent[a].fd = "open" /\ a \notin S
  <2> SUFFICES ASSUME NEW a \in Agents
               PROVE  /\ agent'[a] \in AgentRec /\ agent'[a].uid = agent[a].uid
                      /\ agent'[a].sid = agent[a].sid
                      /\ \/ agent'[a] = agent[a] /\ (agent[a].fd = "open" => a \notin S)
                         \/ agent[a].fd = "open" /\ agent'[a].fd = "closing"
    BY DEF HasSession
  <2>1. agent[a] \in AgentRec
    BY DEF NodeType
  <2>2. CASE a \in S /\ agent[a].fd = "open"
    <3>1. agent'[a] = [agent[a] EXCEPT !.fd = "closing"]
      BY <1>1, <2>2
    <3> QED
      BY <2>1, <2>2, <3>1 DEF AgentRec
  <2>3. CASE ~(a \in S /\ agent[a].fd = "open")
    <3>1. agent'[a] = agent[a]
      BY <1>1, <2>3
    <3> QED
      BY <2>1, <2>3, <3>1
  <2> QED
    BY <2>2, <2>3
<1>3. agent' \in [Agents -> AgentRec]
  BY <1>2 DEF Cli!closeChildren, Cli!closeAgents
<1>4. AgentSound'
  BY <1>0, <1>2 DEF AgentSound, HasSession
<1>5. OneAgent'
  BY <1>0, <1>2 DEF OneAgent
<1>6. EnoughSids'
  <2>1. Used' = Used
    BY <1>2 DEF Used
  <2> QED
    BY <1>0, <2>1 DEF EnoughSids
<1>7. SessionsSound'
  <2>1. ASSUME NEW v \in Uids, NEW s \in Sids, sids'[v][s] # NoAgent
        PROVE  /\ agent'[sids'[v][s]].fd \in {"open", "closing"}
               /\ agent'[sids'[v][s]].uid = v /\ agent'[sids'[v][s]].sid = s
    <3>1. v # u /\ sids'[v][s] = sids[v][s] /\ sids[v][s] \in Agents
      BY <2>1 DEF NodeType
    <3>2. HasSession(sids[v][s]) /\ agent[sids[v][s]].uid = v /\ agent[sids[v][s]].sid = s
      BY <1>0, <2>1, <3>1 DEF SessionsSound, HasSession
    <3> QED
      BY <1>2, <3>1, <3>2 DEF HasSession
  <2>2. ASSUME NEW b \in Agents, agent'[b].fd = "open"
        PROVE  sids'[agent'[b].uid][agent'[b].sid] = b
    <3>1. agent[b].fd = "open" /\ b \notin S /\ HasSession(b)
      BY <1>2, <2>2 DEF HasSession
    <3>2. agent[b].uid \in Uids /\ agent[b].sid \in Sids /\ sids[agent[b].uid][agent[b].sid] = b
      BY <1>0, <3>1, SidsSuffice DEF AgentSound, HasSession, SessionsSound
    <3>3. agent[b].uid # u
      BY <3>1, <3>2, TunnelAssumption DEF Cli!Sessions
    <3> QED
      BY <1>2, <3>2, <3>3 DEF NodeType
  <2> QED
    BY <2>1, <2>2 DEF SessionsSound
<1> QED
  BY <1>3, <1>4, <1>5, <1>6, <1>7 DEF SessionInv
----------------------------------------------------------------------------
(* The life of an agent.                                                   *)

\* Every set of numbers has a least one.
LEMMA LeastExists ==
    ASSUME NEW S \in SUBSET Nat, S # {}
    PROVE  \E x \in S : \A y \in S : x <= y
<1> DEFINE R == {p \in Nat \X Nat : p[1] < p[2]}
<1>1. IsWellFoundedOn(R, Nat)
  BY NatLessThanWellFounded DEF OpToRel
<1>2. \E x \in S : \A y \in S : ~(<<y, x>> \in R)
  BY <1>1, WFMin
<1>3. \A x, y \in S : ~(<<y, x>> \in R) => x <= y
  <2> SUFFICES ASSUME NEW x \in S, NEW y \in S, ~(<<y, x>> \in R)
               PROVE  x <= y
    OBVIOUS
  <2>1. x \in Nat /\ y \in Nat /\ ~(y < x)
    OBVIOUS
  <2> QED
    BY <2>1
<1> HIDE DEF R
<1> QED
  BY <1>2, <1>3

\* The agent that is created is a free one.
LEMMA NewAgentFree ==
    ASSUME Agt!Free # {}
    PROVE  Agt!newAgent \in Agents /\ agent[Agt!newAgent].fd = "free"
<1>1. Agt!Free \subseteq Nat /\ Agt!Free \subseteq Agents
  BY TunnelAssumption DEF Agt!Free
<1>2. \E x \in Agt!Free : \A y \in Agt!Free : x <= y
  BY <1>1, LeastExists
<1>3. Agt!newAgent \in Agt!Free
  BY <1>2 DEF Agt!newAgent, Agt!Min
<1> QED
  BY <1>1, <1>3 DEF Agt!Free

\* The record of an agent that is not in use is well typed.
LEMMA EmptyAgentType ==
    ASSUME NEW state \in {"free", "connecting", "open", "closing", "dead"}
    PROVE  Agt!emptyAgent(state) \in AgentRec /\ Agt!emptyAgent(state).fd = state
  BY DEF Agt!emptyAgent, AgentRec, AllUids, AllSids

\* An agent that has forwarded a message is still the same agent.
LEMMA AfterForwardType ==
    ASSUME NEW ag \in AgentRec
    PROVE  /\ Agt!afterForward(ag) \in AgentRec /\ Agt!afterForward(ag).fd = ag.fd
           /\ Agt!afterForward(ag).uid = ag.uid /\ Agt!afterForward(ag).sid = ag.sid
  BY ClosedType DEF Agt!afterForward

\* What the steps that change no queue of the router leave to show.
LEMMA NodeStep ==
    ASSUME NodeInv, UNCHANGED <<fd, stat, uid1, users, inq, out, connOf, link, cstat>>,
           sids' \in [Uids -> [Sids -> Agents \union {NoAgent}]], nextSid' \in [Uids -> Nat],
           cliq' \in LinkQueues, agent' \in [Agents -> AgentRec], agentq' \in AgentQueues,
           read' \in [Agents -> Nat], \A a \in Agents : read'[a] <= MaxData[a],
           got' \in [Agents -> Seq(Contents)]
    PROVE  RouterFed /\ NodeType' /\ LinkSound'
<1>1. NodeType'
  BY DEF NodeInv, NodeType
<1>2. LinkSound'
  BY DEF NodeInv, LinkSound
<1> QED
  BY <1>1, <1>2 DEF RouterFed

\* An agent for an application that connected to the listener.
LEMMA CreatAgentSvrStep ==
    ASSUME NodeInv, SessionInv, NEW u \in Uids, Agt!creatAgentSvr(u),
           UNCHANGED <<stat, uid1, users, connOf>>
    PROVE  RouterFed /\ NodeType' /\ LinkSound' /\ SessionInv'
<1> DEFINE a == Agt!newAgent
           ag == [Agt!emptyAgent("open") EXCEPT
                     !.stat = "INIT", !.uid = u, !.sid = Agt!Cli!newSid(u),
                     !.peerUid = linkTo[u]]
<1>0. NodeType /\ EnoughSids /\ agent \in [Agents -> AgentRec]
  BY DEF NodeInv, NodeType, SessionInv
<1>1. a \in Agents /\ agent[a].fd = "free"
  BY NewAgentFree DEF Agt!creatAgentSvr
<1>2. Agt!Cli!newSid(u) = nextSid[u] + 1 /\ nextSid[u] + 1 \in Sids
  BY <1>0, <1>1, NewSid DEF Agt!Cli!newSid
<1>3. linkTo[u] \in AllUids
  BY TunnelAssumption
<1>4. ag \in AgentRec /\ ag.fd = "open" /\ ag.uid = u /\ ag.sid = nextSid[u] + 1
  BY <1>2, <1>3 DEF Agt!emptyAgent, AgentRec, AllUids, AllSids
<1>5. /\ Agt!_forward(ag, "TUNNEL_REQ", Request) /\ Agt!Cli!regSid(u, a)
      /\ agent' = [agent EXCEPT ![a] = Agt!afterForward(ag)]
  BY DEF Agt!creatAgentSvr
<1> HIDE DEF ag
<1>6. cliq' \in LinkQueues
  BY <1>0, <1>4, <1>5, TunnelAssumption, AgentForwardType DEF RoutedCmds, TunnelCmds, Contents
<1>7. /\ Agt!afterForward(ag) \in AgentRec /\ Agt!afterForward(ag).fd = "open"
      /\ Agt!afterForward(ag).uid = u /\ Agt!afterForward(ag).sid = nextSid[u] + 1
  BY <1>4, AfterForwardType
<1>8. agent' \in [Agents -> AgentRec]
  BY <1>0, <1>5, <1>7
<1>9. /\ sids' \in [Uids -> [Sids -> Agents \union {NoAgent}]] /\ nextSid' \in [Uids -> Nat]
      /\ SessionInv'
  BY <1>0, <1>1, <1>5, <1>7, RegisterStep
<1>10. RouterFed /\ NodeType' /\ LinkSound'
  BY <1>0, <1>6, <1>8, <1>9, NodeStep DEF Agt!creatAgentSvr, NodeType
<1> QED
  BY <1>9, <1>10

\* The connection to an application is made.
LEMMA AgentConnOKStep ==
    ASSUME NodeInv, SessionInv, NEW a \in Agents, Agt!onConnOK(a),
           UNCHANGED <<stat, uid1, users, connOf>>
    PROVE  RouterFed /\ NodeType' /\ LinkSound' /\ SessionInv'
<1> DEFINE u == agent[a].uid
           ag == [agent[a] EXCEPT !.fd = "open", !.stat = "AUTH_OK", !.sid = Agt!Cli!newSid(u)]
<1>0. NodeType /\ EnoughSids /\ AgentSound /\ agent[a] \in AgentRec
      /\ agent \in [Agents -> AgentRec]
  BY DEF NodeInv, NodeType, SessionInv
<1>1. agent[a].fd = "connecting" /\ u \in Uids
  BY <1>0 DEF Agt!onConnOK, AgentSound
<1>2. Agt!Cli!newSid(u) = nextSid[u] + 1 /\ nextSid[u] + 1 \in Sids
  BY <1>0, <1>1, NewSid DEF Agt!Cli!newSid
<1>3. CASE Agt!Cli!hasAuthed(u)
  <2>1. ag \in AgentRec /\ ag.fd = "open" /\ ag.uid = u /\ ag.sid = nextSid[u] + 1
    BY <1>0, <1>2 DEF AgentRec, AllSids
  <2>2. /\ Agt!sendTunnelAckMsg(ag) /\ Agt!Cli!regSid(u, a)
        /\ agent' = [agent EXCEPT ![a] = Agt!afterForward(ag)]
    BY <1>3 DEF Agt!onConnOK
  <2> HIDE DEF ag
  <2>3. cliq' \in LinkQueues
    BY <1>0, <2>1, <2>2, TunnelAssumption, AgentForwardType
    DEF Agt!sendTunnelAckMsg, RoutedCmds, TunnelCmds, Contents
  <2>4. /\ Agt!afterForward(ag) \in AgentRec /\ Agt!afterForward(ag).fd = "open"
        /\ Agt!afterForward(ag).uid = u /\ Agt!afterForward(ag).sid = nextSid[u] + 1
    BY <2>1, AfterForwardType
  <2>5. agent' \in [Agents -> AgentRec]
    BY <1>0, <2>2, <2>4
  <2>6. /\ sids' \in [Uids -> [Sids -> Agents \union {NoAgent}]] /\ nextSid' \in [Uids -> Nat]
        /\ SessionInv'
    BY <1>0, <1>1, <2>2, <2>4, RegisterStep
  <2>7. RouterFed /\ NodeType' /\ LinkSound'
    BY <1>0, <2>3, <2>5, <2>6, NodeStep DEF Agt!onConnOK, NodeType
  <2> QED
    BY <2>6, <2>7
<1>4. CASE ~Agt!Cli!hasAuthed(u)
  <2>1. /\ cliq' \in LinkQueues
        /\ agent' = [agent EXCEPT ![a] = Agt!emptyAgent("dead")]
        /\ sids' = sids /\ nextSid' = nextSid
    BY <1>0, <1>4, CloseMsgType DEF Agt!onConnOK, Agt!freeAgent
  <2>2. SessionInv' /\ agent' \in [Agents -> AgentRec]
    BY <1>0, <1>1, <2>1, EmptyAgentType, NoSessionStep DEF HasSession
  <2>3. RouterFed /\ NodeType' /\ LinkSound'
    BY <1>0, <2>1, <2>2, NodeStep DEF Agt!onConnOK, NodeType
  <2> QED
    BY <2>2, <2>3
<1> QED
  BY <1>3, <1>4

\* It cannot be made.
LEMMA AgentConnFailStep ==
    ASSUME NodeInv, SessionInv, NEW a \in Agents, Agt!onConnFail(a),
           UNCHANGED <<stat, uid1, users, connOf>>
    PROVE  RouterFed /\ NodeType' /\ LinkSound' /\ SessionInv'
<1>0. NodeType /\ agent[a] \in AgentRec /\ agent \in [Agents -> AgentRec]
  BY DEF NodeInv, NodeType
<1>1. agent[a].fd = "connecting"
      /\ agent' = [agent EXCEPT ![a] = Agt!emptyAgent("dead")]
      /\ sids' = sids /\ nextSid' = nextSid
  BY DEF Agt!onConnFail, Agt!freeAgent
<1>2. cliq' \in LinkQueues
  BY <1>0, CloseMsgType DEF Agt!onConnFail
<1>3. SessionInv' /\ agent' \in [Agents -> AgentRec]
  BY <1>0, <1>1, EmptyAgentType, NoSessionStep DEF HasSession
<1>4. RouterFed /\ NodeType' /\ LinkSound'
  BY <1>0, <1>1, <1>2, <1>3, NodeStep DEF Agt!onConnFail, NodeType
<1> QED
  BY <1>3, <1>4

\* An agent for a peer's request, or an answer that there is none.
LEMMA CreatAgentCliStep ==
    ASSUME NodeInv, SessionInv, NEW u \in Uids, Agt!creatAgentCli(u),
           UNCHANGED <<stat, uid1, users, connOf>>
    PROVE  RouterFed /\ NodeType' /\ LinkSound' /\ SessionInv'
<1> DEFINE m == Agt!Cli!SouthMsg(u)
           a == Agt!newAgent
           ag == [Agt!emptyAgent("connecting") EXCEPT
                     !.peerStat = "AUTH_OK", !.uid = u,
                     !.peerUid = m.suid, !.peerSid = m.ssid]
<1>0. NodeType /\ LinkSound /\ agent \in [Agents -> AgentRec] /\ agentq \in AgentQueues
  BY DEF NodeInv, NodeType
<1>1. /\ Cli!HandlesSouth(u, {"TUNNEL_REQ"}) /\ Cli!SouthHandled(u)
      /\ m = Cli!SouthMsg(u)
  BY DEF Agt!creatAgentCli, Agt!Cli!HandlesSouth, Cli!HandlesSouth,
         Agt!Cli!SouthHandled, Cli!SouthHandled, Agt!Cli!SouthMsg, Cli!SouthMsg
<1>2. m \in RoutedMsg /\ \E c \in Conns : out[c] # <<>> /\ out' = [out EXCEPT ![c] = Tail(@)]
  BY <1>1, SouthType DEF RoutedCmds, TunnelCmds
<1>3. /\ InqFed /\ agentq' \in AgentQueues /\ agent' \in [Agents -> AgentRec]
      /\ SessionInv'
  <2>1. CASE Agt!chkTunnelReq(u, m) /\ Agt!Free # {}
    <3>1. a \in Agents /\ agent[a].fd = "free"
      BY <2>1, NewAgentFree
    <3>2. ag \in AgentRec /\ ag.fd = "connecting" /\ ag.uid = u
      BY <1>2 DEF Agt!emptyAgent, AgentRec, RoutedMsg, AllUids, AllSids
    <3>3. /\ agent' = [agent EXCEPT ![a] = ag] /\ UNCHANGED <<agentq, inq, sids, nextSid>>
      BY <2>1 DEF Agt!creatAgentCli
    <3> HIDE DEF ag, a
    <3>4. SessionInv'
      BY <1>0, <3>1, <3>2, <3>3, NoSessionStep DEF HasSession
    <3>5. agent' \in [Agents -> AgentRec]
      BY <1>0, <3>1, <3>2, <3>3
    <3> QED
      BY <1>0, <3>3, <3>4, <3>5 DEF InqFed
  <2>2. CASE ~(Agt!chkTunnelReq(u, m) /\ Agt!Free # {})
    <3>1. Agt!Cli!rspSidUnreach(u, m) /\ agent' = agent /\ sids' = sids /\ nextSid' = nextSid
      BY <2>2 DEF Agt!creatAgentCli
    <3>2. Cli!rspSidUnreach(u, m)
      BY <3>1 DEF Agt!Cli!rspSidUnreach, Cli!rspSidUnreach, Agt!Cli!genUnreachMsg,
          Cli!genUnreachMsg, Agt!Cli!_forward, Cli!_forward, Agt!Cli!Forwardable,
          Cli!Forwardable, Agt!Cli!existSid, Cli!existSid, Agt!Cli!_sendMsg, Cli!_sendMsg,
          Agt!Cli!Sendable, Cli!Sendable
    <3>3. SessionsKept
      BY <3>1 DEF SessionsKept
    <3> QED
      BY <1>0, <1>2, <3>1, <3>2, <3>3, RspFed, SessionsKeptStep
  <2> QED
    BY <2>1, <2>2
<1>4. UNCHANGED <<link, cstat, sids, nextSid, cliq, read, got, fd>>
  BY DEF Agt!creatAgentCli
<1>5. NodeType'
  BY <1>0, <1>3, <1>4 DEF NodeType
<1>6. RouterFed
  BY <1>2, <1>3, <1>4 DEF RouterFed, InqFed
<1>7. LinkSound'
  BY <1>0, <1>4 DEF LinkSound
<1> QED
  BY <1>3, <1>5, <1>6, <1>7

\* An agent is closed: its session, if it still has one, is forgotten, and
\* no other can be, since it shares its number with no other agent.
LEMMA AgentCloseStep ==
    ASSUME NodeInv, SessionInv, NEW a \in Agents, Agt!onClose(a),
           UNCHANGED <<stat, uid1, users, connOf>>
    PROVE  RouterFed /\ NodeType' /\ LinkSound' /\ SessionInv'
<1> DEFINE u == agent[a].uid
           s == agent[a].sid
<1>0. NodeType /\ agent[a] \in AgentRec /\ agent \in [Agents -> AgentRec]
      /\ AgentSound /\ OneAgent /\ EnoughSids /\ SessionsSound
      /\ agentq \in AgentQueues
  BY DEF NodeInv, NodeType, SessionInv
<1>1. /\ agent[a].fd = "closing" /\ HasSession(a)
      /\ agent' = [agent EXCEPT ![a] = Agt!emptyAgent("dead")]
      /\ sids' = Agt!Cli!unregSid(u, s) /\ nextSid' = nextSid
  BY DEF Agt!onClose, Agt!freeAgent, HasSession
<1>2. u \in Uids /\ s \in Sids /\ s # NoSid
  BY <1>0, <1>1, SidsSuffice, MessagesAssumption DEF AgentSound
<1>3. sids' = [sids EXCEPT ![u][s] = NoAgent]
  BY <1>1, <1>2 DEF Agt!Cli!unregSid
<1>4. sids' \in [Uids -> [Sids -> Agents \union {NoAgent}]]
  BY <1>0, <1>2, <1>3 DEF NodeType
<1>5. ASSUME NEW v \in Uids, NEW t \in Sids
      PROVE  sids'[v][t] = IF sids[v][t] \in {a} THEN NoAgent ELSE sids[v][t]
  <2>1. sids'[v][t] = IF v = u /\ t = s THEN NoAgent ELSE sids[v][t]
    BY <1>0, <1>2, <1>3 DEF NodeType
  <2>2. sids[v][t] # NoAgent =>
            /\ sids[v][t] \in Agents /\ HasSession(sids[v][t])
            /\ agent[sids[v][t]].uid = v /\ agent[sids[v][t]].sid = t
    BY <1>0 DEF NodeType, SessionsSound, HasSession
  <2>3. CASE v = u /\ t = s
    BY <1>0, <1>1, <2>1, <2>2, <2>3 DEF OneAgent
  <2>4. CASE ~(v = u /\ t = s)
    BY <2>1, <2>2, <2>4, TunnelAssumption
  <2> QED
    BY <2>3, <2>4
<1>6. \A b \in Agents : agent'[b] = IF b \in {a} THEN Agt!emptyAgent("dead") ELSE agent[b]
  BY <1>0, <1>1
<1>7. SessionInv'
  <2>1. nextSid' \in [Uids -> Nat] /\ \A v \in Uids : nextSid'[v] = nextSid[v]
    BY <1>0, <1>1 DEF NodeType
  <2>2. NodeType /\ SessionInv /\ {a} \in SUBSET Agents
    BY <1>0
  <2> QED
    BY <2>1, <2>2, <1>4, <1>5, <1>6, FreedStep
<1>8. agent' \in [Agents -> AgentRec]
  BY <1>0, <1>1, EmptyAgentType
<1>9. cliq' \in LinkQueues
  BY <1>0, CloseMsgType DEF Agt!onClose
<1>10. agentq' \in AgentQueues
  BY <1>0 DEF Agt!onClose, AgentQueues
<1>11. RouterFed /\ NodeType' /\ LinkSound'
  BY <1>0, <1>1, <1>4, <1>8, <1>9, <1>10, NodeStep DEF Agt!onClose, NodeType
<1> QED
  BY <1>7, <1>11

\* What applications do.
LEMMA ApplicationStep ==
    ASSUME NodeInv, SessionInv, NEW a \in Agents, Agt!parseData(a) \/ Agt!AppGone(a),
           UNCHANGED <<stat, uid1, users, connOf>>
    PROVE  RouterFed /\ NodeType' /\ LinkSound' /\ SessionInv'
<1>0. NodeType /\ agent[a] \in AgentRec /\ agent \in [Agents -> AgentRec]
      /\ agentq \in AgentQueues /\ read[a] \in Nat /\ read \in [Agents -> Nat]
      /\ MaxData[a] \in Nat /\ \A b \in Agents : read[b] <= MaxData[b]
  BY TunnelAssumption DEF NodeInv, NodeType
<1>1. CASE Agt!parseData(a)
  <2>1. read[a] + 1 \in 1..MaxData[a]
    BY <1>0, <1>1 DEF Agt!parseData
  <2>2. <<a, read[a] + 1>> \in Units
    BY <2>1, TunnelAssumption DEF Units
  <2> DEFINE e == [dir |-> "north", unit |-> <<a, read[a] + 1>>]
  <2>3. e \in AgentEnv
    BY <2>2 DEF AgentEnv
  <2>4. agentq' = [agentq EXCEPT ![a] = Append(@, e)]
    BY <1>1 DEF Agt!parseData
  <2> HIDE DEF e
  <2>5. agentq' \in AgentQueues
    BY <1>0, <2>3, <2>4 DEF AgentQueues
  <2>6. read' \in [Agents -> Nat] /\ \A b \in Agents : read'[b] <= MaxData[b]
    BY <1>0, <1>1, <2>1 DEF Agt!parseData
  <2>7. agent' = agent /\ sids' = sids /\ nextSid' = nextSid
    BY <1>1 DEF Agt!parseData
  <2>8. SessionsKept
    BY <2>7 DEF SessionsKept
  <2> QED
    BY <1>0, <1>1, <2>5, <2>6, <2>8, SessionsKeptStep, NodeStep DEF Agt!parseData, NodeType
<1>2. CASE Agt!AppGone(a)
  <2>1. agent' = [agent EXCEPT ![a] = Agt!closed(agent[a])] /\ sids' = sids /\ nextSid' = nextSid
    BY <1>2 DEF Agt!AppGone
  <2>2. agent' \in [Agents -> AgentRec] /\ SessionsKept
    BY <1>0, <2>1, ClosedType, OneAgentKept
  <2> QED
    BY <1>0, <1>2, <2>2, SessionsKeptStep, NodeStep DEF Agt!AppGone, NodeType
<1> QED
  BY <1>1, <1>2
----------------------------------------------------------------------------
(* Links and processes come and go.                                        *)

\* The link of u is down for good: its queue is empty and its login is over.
LEMMA CliCloseStep ==
    ASSUME NodeInv, SessionInv, NEW u \in Uids, Cli!onClose(u),
           UNCHANGED <<stat, uid1, users, connOf, read, got>>
    PROVE  RouterFed /\ NodeType' /\ LinkSound' /\ SessionInv'
<1>0. NodeType /\ LinkSound
  BY DEF NodeInv
<1>1. /\ agent' = Cli!closeChildren(u) /\ nextSid' = nextSid
      /\ sids' = [sids EXCEPT ![u] = [s \in Sids |-> NoAgent]]
  BY DEF Cli!onClose
<1>2. agent' \in [Agents -> AgentRec] /\ SessionInv'
  BY <1>0, <1>1, LinkDownStep
<1>3. link' = [link EXCEPT ![u] = "down"] /\ UNCHANGED <<agentq, fd, inq, out>>
      /\ cstat' = [cstat EXCEPT ![u] = "INVALID"] /\ cliq' = [cliq EXCEPT ![u] = <<>>]
  BY DEF Cli!onClose
<1>4. NodeType'
  BY <1>0, <1>1, <1>2, <1>3 DEF NodeType, LinkQueues
<1>5. LinkSound'
  BY <1>0, <1>3 DEF LinkSound, NodeType
<1>6. RouterFed
  BY <1>3 DEF RouterFed
<1> QED
  BY <1>2, <1>4, <1>5, <1>6

\* A client's process is gone with its agents.
LEMMA CliCrashStep ==
    ASSUME NodeInv, SessionInv, NEW u \in Uids, CliCrash(u)
    PROVE  RouterFed /\ NodeType' /\ LinkSound' /\ SessionInv'
<1> DEFINE S == {a \in Agents : agent[a].uid = u}
<1>0. NodeType /\ LinkSound /\ SessionsSound
  BY DEF NodeInv, SessionInv
<1>1. \A a \in Agents : agent'[a] = IF a \in S THEN Agt!emptyAgent("dead") ELSE agent[a]
  BY DEF CliCrash
<1>2. sids' = [sids EXCEPT ![u] = [s \in Sids |-> NoAgent]]
  BY DEF CliCrash
<1>3. sids' \in [Uids -> [Sids -> Agents \union {NoAgent}]]
  BY <1>0, <1>2 DEF NodeType
<1>4. ASSUME NEW v \in Uids, NEW s \in Sids
      PROVE  sids'[v][s] = IF sids[v][s] \in S THEN NoAgent ELSE sids[v][s]
  <2>1. sids'[v][s] = IF v = u THEN NoAgent ELSE sids[v][s]
    BY <1>0, <1>2 DEF NodeType
  <2>2. sids[v][s] # NoAgent => sids[v][s] \in Agents /\ agent[sids[v][s]].uid = v
    BY <1>0 DEF NodeType, SessionsSound
  <2> QED
    BY <2>1, <2>2, TunnelAssumption
<1>5. PICK n \in 0..nextSid[u] : nextSid' = [nextSid EXCEPT ![u] = n]
  <2>1. nextSid[u] \in Nat /\ nextSid[u] \in 0..nextSid[u]
    BY <1>0 DEF NodeType
  <2>2. \E n \in (IF KeepsSids THEN {nextSid[u]} ELSE 0..nextSid[u]) :
             nextSid' = [nextSid EXCEPT ![u] = n]
    BY DEF CliCrash
  <2> QED
    BY <2>1, <2>2
<1>6. /\ nextSid' \in [Uids -> Nat]
      /\ \A v \in Uids : \/ nextSid'[v] = nextSid[v]
                         \/ /\ nextSid'[v] <= nextSid[v]
                            /\ \A a \in Agents : agent[a].uid = v => a \in S
  BY <1>0, <1>5 DEF NodeType
<1>7. SessionInv'
  BY <1>0, <1>1, <1>3, <1>4, <1>6, FreedStep
<1>8. agent' \in [Agents -> AgentRec]
  <2>1. \A a \in Agents : agent'[a] \in AgentRec
    BY <1>0, <1>1, EmptyAgentType DEF NodeType
  <2> QED
    BY <2>1 DEF CliCrash
<1>9. /\ link' = [link EXCEPT ![u] = "down"] /\ cstat' = [cstat EXCEPT ![u] = "INVALID"]
      /\ cliq' = [cliq EXCEPT ![u] = <<>>]
      /\ agentq' = [a \in Agents |-> IF a \in S THEN <<>> ELSE agentq[a]]
      /\ UNCHANGED <<fd, stat, uid1, users, inq, out, read, got, connOf>>
  BY DEF CliCrash, svrVars
<1>10. agentq' \in AgentQueues
  BY <1>0, <1>9 DEF NodeType, AgentQueues
<1>11. NodeType'
  BY <1>0, <1>3, <1>6, <1>8, <1>9, <1>10 DEF NodeType, LinkQueues
<1>12. LinkSound'
  BY <1>0, <1>9 DEF LinkSound, NodeType
<1>13. RouterFed
  BY <1>9 DEF RouterFed
<1> QED
  BY <1>7, <1>11, <1>12, <1>13

\* A new connection has a descriptor that neither end uses.
LEMMA NewConnFree ==
    ASSUME NEW u, Connect(u)
    PROVE  newConn \in Conns /\ fd[newConn] = "free" /\ ~Linked(newConn)
<1> DEFINE S == {c \in Conns : fd[c] = "free" /\ ~Linked(c)}
<1>1. S \in SUBSET Nat /\ S # {}
  BY TunnelAssumption DEF Connect
<1>2. \E x \in S : \A y \in S : x <= y
  BY <1>1, LeastExists
<1>3. newConn \in S
  BY <1>2 DEF newConn, Min
<1> QED
  BY <1>3

\* A client connects: its connection is one that nobody uses.
LEMMA ConnectStep ==
    ASSUME NodeInv, SessionInv, NEW u \in Uids, Connect(u)
    PROVE  Router!IInv' /\ NodeType' /\ LinkSound' /\ SessionInv'
<1>0. NodeType /\ LinkSound /\ Router!IInv
  BY DEF NodeInv
<1>1. newConn \in Conns /\ ~Linked(newConn)
  BY NewConnFree
<1>2. Router!IInv'
  BY <1>0, <1>1, RouterStep DEF Connect
<1>3. /\ link' = [link EXCEPT ![u] = "up"] /\ cstat' = [cstat EXCEPT ![u] = "INIT"]
      /\ UNCHANGED <<sids, nextSid, cliq, agent, agentq, read, got>>
      /\ connOf' = [v \in Uids |-> IF v = u THEN newConn
                                   ELSE IF connOf[v] = newConn THEN NoConn
                                   ELSE connOf[v]]
  BY DEF Connect, Cli!onConnOK
<1>4. NodeType'
  BY <1>0, <1>1, <1>3 DEF NodeType
<1>5. LinkSound'
  <2>1. ASSUME NEW v \in Uids, link'[v] # "down" PROVE connOf'[v] \in Conns
    <3>1. CASE v = u
      BY <1>1, <1>3, <3>1
    <3>2. CASE v # u
      BY <1>0, <1>1, <1>3, <2>1, <3>2 DEF NodeType, LinkSound, Linked
    <3> QED
      BY <3>1, <3>2
  <2> QED
    BY <2>1 DEF LinkSound
<1>6. SessionInv'
  BY <1>0, <1>3, SessionsKeptStep DEF SessionsKept
<1> QED
  BY <1>2, <1>4, <1>5, <1>6

\* An end finds its connection lost.
LEMMA CliLostStep ==
    ASSUME NodeInv, SessionInv, NEW u \in Uids, CliLost(u)
    PROVE  RouterFed /\ NodeType' /\ LinkSound' /\ SessionInv'
<1>0. NodeType /\ LinkSound
  BY DEF NodeInv
<1>1. /\ link' = Cli!closeLink(u)
      /\ UNCHANGED <<cstat, sids, nextSid, cliq, agent, agentq, fd, inq, out,
                     stat, uid1, users, read, got, connOf>>
  BY DEF CliLost, Cli!LinkLost
<1>2. /\ link' \in [Uids -> {"down", "up", "closing"}]
      /\ \A v \in Uids : link'[v] = "down" <=> link[v] = "down"
  BY <1>0, <1>1, CloseLinkType
<1>3. NodeType'
  BY <1>0, <1>1, <1>2 DEF NodeType
<1>4. LinkSound'
  BY <1>0, <1>1, <1>2 DEF LinkSound
<1>5. SessionInv'
  BY <1>0, <1>1, SessionsKeptStep DEF SessionsKept
<1>6. RouterFed
  BY <1>1 DEF RouterFed
<1> QED
  BY <1>3, <1>4, <1>5, <1>6

\* Steps of the router leave the clients and their agents alone.
LEMMA NodesAlone ==
    ASSUME NodeInv, SessionInv, UNCHANGED <<nodeVars, connOf>>
    PROVE  NodeType' /\ LinkSound' /\ SessionInv'
<1>0. NodeType /\ LinkSound
  BY DEF NodeInv
<1>1. UNCHANGED <<link, cstat, sids, nextSid, cliq, agent, agentq, read, got, connOf>>
  BY DEF nodeVars
<1>2. NodeType' /\ LinkSound'
  BY <1>0, <1>1 DEF NodeType, LinkSound
<1>3. SessionInv'
  BY <1>0, <1>1, SessionsKeptStep DEF SessionsKept
<1> QED
  BY <1>2, <1>3
----------------------------------------------------------------------------
(* The invariant of the system: the router's own, the types, links that    *)
(* lead somewhere, and the sessions.                                       *)

SysInv == NodeInv /\ SessionInv

\* The system starts with all tables empty.
LEMMA SysInvInit == Init => SysInv
<1> SUFFICES ASSUME Init PROVE SysInv
  OBVIOUS
<1>1. Router!IInv
  <2>1. Router!Init
    BY DEF Init, Svr!Init, Router!Init, Svr!AllUids, Router!AllUids
  <2> QED
    BY <2>1, Router!IInvInit, RouterAssumptions
<1>2. NodeType
  <2>1. Agt!emptyAgent("free") \in AgentRec
    BY EmptyAgentType
  <2>2. \A a \in Agents : MaxData[a] \in Nat
    BY TunnelAssumption
  <2> QED
    BY <2>1, <2>2 DEF Init, Cli!Init, Agt!Init, NodeType, LinkQueues, AgentQueues
<1>3. LinkSound
  BY DEF Init, Cli!Init, LinkSound
<1>4. \A a \in Agents : agent[a].fd = "free"
  BY EmptyAgentType DEF Init, Agt!Init
<1>5. EnoughSids
  <2>1. Cardinality(Used) \in Nat
    BY UsedBound
  <2>2. \A u \in Uids : nextSid[u] = 0
    BY DEF Init, Cli!Init
  <2>3. \A n \in Nat : 0 <= n
    OBVIOUS
  <2>4. 0 <= Cardinality(Used)
    BY <2>1, <2>3
  <2> QED
    BY <2>2, <2>4 DEF EnoughSids
<1>6. AgentSound /\ OneAgent /\ SessionsSound
  BY <1>4 DEF Init, Cli!Init, AgentSound, OneAgent, SessionsSound, HasSession
<1> QED
  BY <1>1, <1>2, <1>3, <1>5, <1>6 DEF SysInv, NodeInv, SessionInv

\* Every step of a process, the network or a fault keeps the invariant.
LEMMA SysInvStep == SysInv /\ [Next]_vars => SysInv'
<1> SUFFICES ASSUME SysInv, [Next]_vars PROVE SysInv'
  OBVIOUS
<1>0. NodeInv /\ SessionInv /\ Router!IInv /\ NodeType /\ LinkSound
  BY DEF SysInv, NodeInv
<1>q. RouterFed /\ NodeType' /\ LinkSound' /\ SessionInv' => SysInv'
  BY <1>0, RouterFedStep DEF SysInv, NodeInv
<1>r. Router!IInv' /\ NodeType' /\ LinkSound' /\ SessionInv' => SysInv'
  BY DEF SysInv, NodeInv
<1>k. RouterFed /\ NodeType' /\ LinkSound' /\ SessionsKept => SysInv'
  BY <1>0, <1>q, SessionsKeptStep
<1>l. ASSUME NEW c \in Conns, SvrLost(c) PROVE SysInv'
  BY <1>0, <1>l, <1>r, RouterStep, NodesAlone DEF SvrLost
<1>1. ASSUME NEW u \in Uids, Connect(u) PROVE SysInv'
  BY <1>0, <1>1, <1>r, ConnectStep
<1>2. ASSUME NEW u \in Uids, Break(u) PROVE SysInv'
  <2>1. connOf[u] \in Conns
    BY <1>0, <1>2 DEF Break, LinkSound
  <2> QED
    BY <1>0, <1>2, <1>l, <1>q, <2>1, CliLostStep DEF Break
<1>3. ASSUME NEW u \in Uids, CliNotice(u) PROVE SysInv'
  BY <1>0, <1>3, <1>q, CliLostStep DEF CliNotice
<1>4. ASSUME NEW u \in Uids, CliCrash(u) PROVE SysInv'
  BY <1>0, <1>4, <1>q, CliCrashStep
<1>5. CASE SvrCrash
  <2>1. UNCHANGED <<nodeVars, connOf>>
    BY <1>5 DEF SvrCrash
  <2> QED
    BY <1>0, <1>5, <1>r, <2>1, RouterCrash, NodesAlone
<1>6. ASSUME NEW c \in Conns, SvrNotice(c) PROVE SysInv'
  BY <1>6, <1>l DEF SvrNotice
<1>7. ASSUME NEW c \in Conns, svrStep(c) PROVE SysInv'
  BY <1>0, <1>7, <1>r, RouterStep, NodesAlone DEF svrStep, netVars
<1>8. ASSUME NEW u \in Uids, cliStep(u) PROVE SysInv'
  <2>1. UNCHANGED <<stat, uid1, users, connOf>>
    BY <1>8 DEF cliStep, netVars
  <2>2. CASE Cli!process(u) /\ UNCHANGED <<read, got>>
    BY <1>0, <1>k, <2>1, <2>2, CliProcess
  <2>3. CASE Cli!onClose(u) /\ UNCHANGED <<read, got>>
    BY <1>0, <1>q, <2>1, <2>3, CliCloseStep
  <2>4. CASE Agt!creatAgentCli(u)
    BY <1>0, <1>q, <2>1, <2>4, CreatAgentCliStep
  <2> QED
    BY <1>8, <2>2, <2>3, <2>4 DEF cliStep
<1>9. ASSUME NEW a \in Agents, agentStep(a) \/ agentConn(a) PROVE SysInv'
  <2>1. UNCHANGED <<stat, uid1, users, connOf>>
    BY <1>9 DEF agentStep, agentConn, netVars
  <2>2. CASE Agt!process(a)
    BY <1>0, <1>k, <2>1, <2>2, AgentProcess
  <2>3. CASE Agt!onClose(a)
    BY <1>0, <1>q, <2>1, <2>3, AgentCloseStep
  <2>4. CASE Agt!onConnOK(a)
    BY <1>0, <1>q, <2>1, <2>4, AgentConnOKStep
  <2>5. CASE Agt!onConnFail(a)
    BY <1>0, <1>q, <2>1, <2>5, AgentConnFailStep
  <2> QED
    BY <1>9, <2>2, <2>3, <2>4, <2>5 DEF agentStep, agentConn
<1>10. CASE application
  <2>1. UNCHANGED <<stat, uid1, users, connOf>>
    BY <1>10 DEF application, netVars
  <2>2. ASSUME NEW u \in Uids, Agt!creatAgentSvr(u) PROVE SysInv'
    BY <1>0, <1>q, <2>1, <2>2, CreatAgentSvrStep
  <2>3. ASSUME NEW a \in Agents, Agt!parseData(a) \/ Agt!AppGone(a) PROVE SysInv'
    BY <1>0, <1>q, <2>1, <2>3, ApplicationStep
  <2> QED
    BY <1>10, <2>2, <2>3 DEF application
<1>11. CASE UNCHANGED vars
  <2>1. UNCHANGED <<nodeVars, connOf>> /\ RouterFed
    BY <1>11 DEF vars, svrVars, netVars, RouterFed
  <2> QED
    BY <1>0, <1>q, <2>1, NodesAlone
<1> QED
  BY <1>1, <1>2, <1>3, <1>4, <1>5, <1>6, <1>7, <1>8, <1>9, <1>10, <1>11 DEF Next

\* The invariant holds in every state the system reaches.
LEMMA SysInvAlways == Spec => []SysInv
  BY SysInvInit, SysInvStep, PTL DEF Spec

\* Every table, queue and wire of the system keeps its type: messages reach
\* only workers that know them, and the session numbers suffice (TypeOK).
THEOREM TypeCorrect == Spec => []TypeOK
<1>1. SysInv => TypeOK
  <2> SUFFICES ASSUME SysInv PROVE TypeOK
    OBVIOUS
  <2>1. Svr!TypeOK
    BY RouterTypes DEF SysInv, NodeInv, Router!IInv
  <2>2. NodeType /\ EnoughSids
    BY DEF SysInv, NodeInv, SessionInv
  <2>3. nextSid \in [Uids -> 0..Cardinality(Sids)]
    BY <2>2, SidsSuffice DEF NodeType
  <2> QED
    BY <2>1, <2>2, <2>3, TypeOKIs
<1> QED
  BY <1>1, SysInvAlways, PTL

\* m_sids and the agents agree, whatever links are lost and processes crash:
\* a session is an agent of that user and number whose data has not been
\* freed, and an open agent is a session of its user (SessionsSound).
THEOREM SessionsAreSound == Spec => []SessionsSound
<1>1. SysInv => SessionsSound
  BY DEF SysInv, SessionInv
<1> QED
  BY <1>1, SysInvAlways, PTL

\* The router's registry stays sound and its queues isolated in the system
\* too, where links break at either end and the router crashes.
THEOREM RouterStaysSound == Spec => [](Svr!RegistrySound /\ Svr!Isolation)
<1>1. SysInv => Svr!RegistrySound /\ Svr!Isolation
  BY DEF SysInv, NodeInv, Router!IInv, Svr!RegistrySound, Router!RegistrySound,
     Svr!Isolation, Router!Isolation, Svr!LoggedIn, Router!LoggedIn,
     Svr!IsRouted, Router!IsRouted, Svr!AllUids, Router!AllUids, Svr!RoutedCmds,
     Router!RoutedCmds, Svr!NoerrCmds, Router!NoerrCmds, Svr!TunnelCmds, Router!TunnelCmds
<1> QED
  BY <1>1, SysInvAlways, PTL
=============================================================================
