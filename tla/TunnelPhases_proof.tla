------------------------- MODULE TunnelPhases_proof -------------------------
(***************************************************************************)
(* Proofs towards the refinement of TunnelService by the whole system, for *)
(* any number of users, connections, agents, units of data and faults.     *)
(* Every step of the system but the delivery of data is a step of the      *)
(* service; what is delivered is for TLC to say.                           *)
(***************************************************************************)
EXTENDS Tunnel_proof

\* The phase of one end, as the refinement mapping has it.
PhaseOf(ag) ==
    CASE ag.fd \in {"closing", "dead"} -> "over"
      [] ag.fd = "open" /\ ag.stat = "AUTH_OK" -> "made"
      [] OTHER -> "new"

\* An open agent has asked for its tunnel, or been asked (AgentBase is never
\* left as allocAgent makes it); one that is not open yet has not.
StatOf(ag) ==
    /\ ag.fd = "open" => ag.stat # "INVALID"
    /\ ag.fd \in {"free", "connecting"} => ag.stat = "INVALID"

StatSound == \A a \in Agents : StatOf(agent[a])

\* An agent that is not freed has read from its application only after its
\* tunnel was made.
Unread ==
    \A a \in Agents :
        agent[a].fd # "dead" /\ agent[a].stat # "AUTH_OK" => read[a] = 0

\* The addresses of the two ends.
Addresses(ag) == <<ag.uid, ag.sid, ag.peerUid, ag.peerSid>>

AgentTypes == agent \in [Agents -> AgentRec]

\* An end that has a session keeps it until it is freed.
SameSession(x, y) ==
    x.fd \in {"open", "closing"} /\ y.fd # "dead" =>
        y.fd \in {"open", "closing"} /\ y.uid = x.uid /\ y.sid = x.sid

\* What a step may do to the ends: one whose tunnel is made keeps the
\* addresses until it is freed.
Stays(x, y) ==
    /\ PhaseOf(y) = "over" \/ PhaseOf(y) = PhaseOf(x)
    /\ StatOf(x) => StatOf(y)
    /\ x.fd = "dead" => y.fd = "dead"
    /\ SameSession(x, y)
    /\ x.stat = "AUTH_OK" /\ y.fd # "dead" =>
          y.stat = "AUTH_OK" /\ Addresses(y) = Addresses(x)

\* No tunnel is made, and no data pass,
Kept ==
    /\ read' = read /\ got' = got
    /\ \A a \in Agents : Stays(agent[a], agent'[a])

\* or the tunnel of a is made at a's end,
Made(a) ==
    /\ read' = read /\ got' = got
    /\ PhaseOf(agent[a]) = "new" /\ PhaseOf(agent'[a]) = "made"
    /\ agent'[a].fd \in {"open", "closing"} /\ agent'[a].stat = "AUTH_OK"
    /\ SameSession(agent[a], agent'[a])
    /\ \A b \in Agents \ {a} : agent'[b] = agent[b]

\* or a's application sends a unit,
Sent(a) ==
    /\ agent[a].fd = "open" /\ agent[a].stat # "INIT"
    /\ read[a] < MaxData[a]
    /\ read' = [read EXCEPT ![a] = @ + 1] /\ UNCHANGED <<agent, got>>

\* or the one that a has been sent is handed to it.
HandedTo(a) ==
    /\ agent[a].fd = "open"
    /\ agentq[a] # <<>> /\ Head(agentq[a]).dir = "south"
    /\ Agt!SouthMsg(a).cmd = "FRAME_PLAIN" /\ Agt!SouthMsg(a).body \in Contents
    /\ got' = [got EXCEPT ![a] = Append(@, Agt!SouthMsg(a).body)]
    /\ UNCHANGED <<agent, read>>

EndStep == Kept \/ \E a \in Agents : Made(a) \/ Sent(a) \/ HandedTo(a)

\* The phases are those of the mapping.
LEMMA PhaseIs ==
    /\ Phase = [a \in Agents |-> PhaseOf(agent[a])]
    /\ Phase' = [a \in Agents |-> PhaseOf(agent'[a])]
  BY DEF Phase, PhaseOf
----------------------------------------------------------------------------
(* Every step of the system is one of these.                               *)

\* A step that leaves the agents and the data alone.
LEMMA AgentsAlone ==
    ASSUME UNCHANGED <<agent, read, got>>
    PROVE  Kept
  BY DEF Kept, Stays, Addresses, SameSession

\* One agent is closed, or freed, or is created for a tunnel to come.
LEMMA StaysWhen ==
    ASSUME AgentTypes, read' = read, got' = got, NEW a \in Agents, NEW y,
           agent' = [agent EXCEPT ![a] = y], Stays(agent[a], y)
    PROVE  Kept
  BY DEF Kept, AgentTypes, Stays, SameSession

\* Closing or freeing an agent ends it, or changes nothing.
LEMMA ClosedStays ==
    ASSUME NEW x \in AgentRec
    PROVE  /\ Stays(x, Agt!closed(x)) /\ Stays(x, Agt!closed(Agt!_invalidPeer(x)))
           /\ Stays(x, Agt!emptyAgent("dead")) /\ Stays(x, x)
           /\ x.fd = "open" => Stays(x, [x EXCEPT !.fd = "closing"])
<1>1. Stays(x, x)  BY DEF Stays, SameSession
<1>2. /\ Agt!emptyAgent("dead").fd = "dead" /\ PhaseOf(Agt!emptyAgent("dead")) = "over"
  BY DEF Agt!emptyAgent, PhaseOf
<1>3. Stays(x, Agt!emptyAgent("dead"))  BY <1>2 DEF Stays, StatOf, SameSession
<1>4. ASSUME NEW y, y.fd = x.fd \/ (x.fd = "open" /\ y.fd = "closing"),
             y.stat = x.stat, Addresses(y) = Addresses(x)
      PROVE  Stays(x, y)
  BY <1>4 DEF Stays, PhaseOf, StatOf, SameSession, Addresses
<1>5. ASSUME NEW y \in AgentRec
      PROVE  /\ [y EXCEPT !.fd = "closing"].fd = "closing"
             /\ [y EXCEPT !.fd = "closing"].stat = y.stat
             /\ Addresses([y EXCEPT !.fd = "closing"]) = Addresses(y)
  BY DEF AgentRec, Addresses
<1>6. /\ Agt!_invalidPeer(x) \in AgentRec /\ Agt!_invalidPeer(x).fd = x.fd
      /\ Agt!_invalidPeer(x).stat = x.stat /\ Addresses(Agt!_invalidPeer(x)) = Addresses(x)
  BY DEF AgentRec, Agt!_invalidPeer, Addresses
<1>7. CASE x.fd = "open"
  <2>1. Stays(x, [x EXCEPT !.fd = "closing"])  BY <1>4, <1>5, <1>7
  <2>2. Stays(x, [Agt!_invalidPeer(x) EXCEPT !.fd = "closing"])
    <3> DEFINE z == Agt!_invalidPeer(x)
    <3> HIDE DEF z
    <3>1. z \in AgentRec /\ z.stat = x.stat /\ Addresses(z) = Addresses(x)  BY <1>6 DEF z
    <3>2. Stays(x, [z EXCEPT !.fd = "closing"])  BY <3>1, <1>4, <1>5, <1>7
    <3> QED  BY <3>2 DEF z
  <2>3. /\ Agt!closed(x) = [x EXCEPT !.fd = "closing"]
        /\ Agt!closed(Agt!_invalidPeer(x)) = [Agt!_invalidPeer(x) EXCEPT !.fd = "closing"]
    BY <1>6, <1>7 DEF Agt!closed
  <2> QED  BY <1>1, <1>3, <2>1, <2>2, <2>3
<1>8. CASE x.fd # "open"
  <2>1. Agt!closed(x) = x /\ Agt!closed(Agt!_invalidPeer(x)) = Agt!_invalidPeer(x)
    BY <1>6, <1>8 DEF Agt!closed
  <2>2. Stays(x, Agt!_invalidPeer(x))
    <3> DEFINE z == Agt!_invalidPeer(x)
    <3> HIDE DEF z
    <3>1. z.fd = x.fd /\ z.stat = x.stat /\ Addresses(z) = Addresses(x)  BY <1>6 DEF z
    <3>2. Stays(x, z)  BY <3>1 DEF Stays, PhaseOf, StatOf, SameSession, Addresses
    <3> QED  BY <3>2 DEF z
  <2> QED  BY <1>1, <1>3, <1>8, <2>1, <2>2
<1> QED  BY <1>7, <1>8

\* The router's worker and callbacks, and its crash.
LEMMA RouterSteps ==
    ASSUME SvrCrash \/ \E c \in Conns : SvrNotice(c) \/ svrStep(c)
    PROVE  Kept
<1>1. UNCHANGED <<agent, read, got>>
  BY DEF SvrCrash, SvrNotice, svrStep, SvrLost, nodeVars
<1> QED  BY <1>1, AgentsAlone

\* The workers and callbacks of clients and of the network.
LEMMA ClientSteps ==
    ASSUME AgentTypes, StatSound, NEW u \in Uids,
           Connect(u) \/ Break(u) \/ CliNotice(u) \/ CliCrash(u) \/ cliStep(u)
    PROVE  Kept
<1>1. ASSUME CliCrash(u) PROVE Kept
  <2> DEFINE lost == {a \in Agents : agent[a].uid = u}
  <2>1. /\ read' = read /\ got' = got
        /\ agent' = [a \in Agents |->
              IF a \in lost THEN Agt!emptyAgent("dead") ELSE agent[a]]
    BY <1>1 DEF CliCrash
  <2> HIDE DEF lost
  <2>2. ASSUME NEW a \in Agents PROVE Stays(agent[a], agent'[a])
    BY <2>1, ClosedStays DEF AgentTypes
  <2> QED  BY <2>1, <2>2 DEF Kept
<1>2. ASSUME Cli!onClose(u), UNCHANGED <<read, got>> PROVE Kept
  <2>1. PICK S : agent' = Cli!closeAgents(S)
    BY <1>2 DEF Cli!onClose, Cli!closeChildren
  <2>2. ASSUME NEW a \in Agents PROVE Stays(agent[a], agent'[a])
    <3>1. agent'[a] = IF a \in S /\ agent[a].fd = "open"
                      THEN [agent[a] EXCEPT !.fd = "closing"] ELSE agent[a]
      BY <2>1 DEF Cli!closeAgents
    <3> QED  BY <3>1, ClosedStays DEF AgentTypes
  <2> QED  BY <1>2, <2>2 DEF Kept
<1>3. ASSUME Cli!process(u), UNCHANGED <<read, got>> PROVE Kept
  <2>1. agent' = agent
    BY <1>3 DEF Cli!process, Cli!procHeloMsg, Cli!procExchKeyMsg, Cli!procLogin, Cli!procCipher,
       Cli!procForward, Cli!procForwardNoerr, Cli!procPeerUsrExit, Cli!procPlain, Cli!procSend,
       Cli!procSendNoerr
  <2> QED  BY <1>3, <2>1, AgentsAlone
<1>4. ASSUME Agt!creatAgentCli(u) PROVE Kept
  <2>1. read' = read /\ got' = got  BY <1>4 DEF Agt!creatAgentCli
  <2>2. CASE agent' = agent  BY <2>1, <2>2, AgentsAlone
  <2>3. CASE agent' # agent
    <3> DEFINE m == Agt!Cli!SouthMsg(u)
               a == Agt!newAgent
               y == [Agt!emptyAgent("connecting") EXCEPT
                        !.peerStat = "AUTH_OK", !.uid = u,
                        !.peerUid = m.suid, !.peerSid = m.ssid]
    <3>1. Agt!Free # {} /\ agent' = [agent EXCEPT ![a] = y]
      BY <1>4, <2>3 DEF Agt!creatAgentCli
    <3>2. y.fd = "connecting" /\ y.stat = "INVALID"  BY DEF Agt!emptyAgent
    <3>3. a \in Agents /\ agent[a].fd = "free"  BY <3>1, NewAgentFree
    <3> HIDE DEF a, y
    <3>4. agent[a].stat = "INVALID"  BY <3>3 DEF StatSound, StatOf
    <3>5. Stays(agent[a], y)  BY <3>2, <3>3, <3>4 DEF Stays, PhaseOf, StatOf, SameSession
    <3> QED  BY <2>1, <3>1, <3>3, <3>5, StaysWhen
  <2> QED  BY <2>2, <2>3
<1>5. ASSUME Connect(u) \/ Break(u) \/ CliNotice(u)
      PROVE  Kept
  <2>1. UNCHANGED <<agent, read, got>>
    BY <1>5 DEF Connect, Break, CliNotice, CliLost, SvrLost,
       Cli!onConnOK, Cli!LinkLost, nodeVars
  <2> QED  BY <2>1, AgentsAlone
<1>6. ASSUME cliStep(u) PROVE Kept
  BY <1>2, <1>3, <1>4, <1>6 DEF cliStep
<1> QED  BY <1>1, <1>5, <1>6

\* The end of an agent's connection to its application, and what its peer
\* and its application do to it.
LEMMA AgentSteps ==
    ASSUME AgentTypes, agentq \in AgentQueues, StatSound, NEW a \in Agents,
           agentStep(a) \/ agentConn(a) \/ Agt!parseData(a) \/ Agt!AppGone(a)
    PROVE  EndStep
<1> DEFINE x == agent[a]
<1>0. x \in AgentRec  BY DEF AgentTypes
<1>k. ASSUME NEW y, Stays(x, y), agent' = [agent EXCEPT ![a] = y], read' = read, got' = got
      PROVE  EndStep
  BY <1>k, StaysWhen DEF EndStep
<1>1. CASE Agt!procForward(a)
  <2>1. read' = read /\ got' = got  BY <1>1 DEF Agt!procForward
  <2>2. \/ agent' = [agent EXCEPT ![a] = x]
        \/ agent' = [agent EXCEPT ![a] = Agt!closed(Agt!_invalidPeer(x))]
        \/ agent' = [agent EXCEPT ![a] = Agt!closed(x)]
    BY <1>1 DEF Agt!procForward
  <2> QED  BY <1>0, <1>k, <2>1, <2>2, ClosedStays
<1>2. CASE Agt!procSend(a)
  <2>1. read' = read /\ agent' = agent  BY <1>2 DEF Agt!procSend
  <2>2. CASE x.fd = "open"
    <3>1. /\ agentq[a] # <<>> /\ Head(agentq[a]).dir = "south"
          /\ Head(agentq[a]).msg.cmd = "FRAME_PLAIN"
      BY <1>2 DEF Agt!procSend, Agt!HandlesSouth
    <3>2. Head(agentq[a]) \in AgentEnv  BY <3>1 DEF AgentQueues
    <3>3. Head(agentq[a]).msg \in ToAgent  BY <3>1, <3>2 DEF AgentEnv
    <3>4. Head(agentq[a]).msg.body \in Contents
      BY <3>1, <3>3 DEF ToAgent, RoutedMsg, ExitMsg, Contents
    <3>5. got' = [got EXCEPT ![a] = Append(@, Agt!SouthMsg(a).body)]
      BY <1>2, <2>2 DEF Agt!procSend
    <3> QED  BY <2>1, <2>2, <3>1, <3>4, <3>5 DEF EndStep, HandedTo, Agt!SouthMsg
  <2>3. CASE x.fd # "open"
    <3>1. got' = got  BY <1>2, <2>3 DEF Agt!procSend
    <3> QED  BY <2>1, <3>1, AgentsAlone DEF EndStep
  <2> QED  BY <2>2, <2>3
<1>3. CASE Agt!procTunnelAck(a)
  <2> DEFINE m == Agt!SouthMsg(a)
             y == [x EXCEPT !.peerSid = m.ssid, !.stat = "AUTH_OK", !.peerStat = "AUTH_OK"]
  <2>1. read' = read /\ got' = got /\ x.fd \in {"open", "closing"}
    BY <1>3 DEF Agt!procTunnelAck, Agt!HandlesSouth
  <2>2. CASE Agt!chkTunnelAck(a, m)
    <3>1. x.stat = "INIT"  BY <2>2 DEF Agt!chkTunnelAck
    <3>2. agent' = [agent EXCEPT ![a] = y]  BY <1>3, <2>2 DEF Agt!procTunnelAck, AgentTypes
    <3>3. y.fd = x.fd /\ y.stat = "AUTH_OK" /\ y.uid = x.uid /\ y.sid = x.sid
      BY <1>0 DEF AgentRec
    <3> HIDE DEF y
    <3>4. CASE x.fd = "open"
      <4>1. PhaseOf(x) = "new" /\ PhaseOf(y) = "made"  BY <3>1, <3>3, <3>4 DEF PhaseOf
      <4>2. agent'[a] = y /\ \A b \in Agents \ {a} : agent'[b] = agent[b]
        BY <3>2 DEF AgentTypes
      <4> QED  BY <2>1, <3>3, <4>1, <4>2 DEF Made, EndStep, SameSession
    <3>5. CASE x.fd = "closing"
      <4>1. Stays(x, y)  BY <3>1, <3>3, <3>5 DEF Stays, PhaseOf, StatOf, SameSession
      <4> QED  BY <1>k, <2>1, <3>2, <4>1
    <3> QED  BY <2>1, <3>4, <3>5
  <2>3. CASE ~Agt!chkTunnelAck(a, m)
    <3>1. agent' = [agent EXCEPT ![a] = Agt!closed(x)]
      BY <1>3, <2>3 DEF Agt!procTunnelAck
    <3> QED  BY <1>0, <1>k, <2>1, <3>1, ClosedStays
  <2> QED  BY <2>2, <2>3
<1>4. ASSUME NEW cmd, Agt!procEnd(a, cmd) PROVE EndStep
  <2>1. read' = read /\ got' = got  BY <1>4 DEF Agt!procEnd
  <2>2. \/ agent' = agent
        \/ agent' = [agent EXCEPT ![a] = Agt!closed(Agt!_invalidPeer(x))]
    BY <1>4 DEF Agt!procEnd
  <2> QED  BY <1>0, <1>k, <2>1, <2>2, ClosedStays, AgentsAlone DEF EndStep
<1>5. CASE Agt!onClose(a) \/ Agt!onConnFail(a)
  <2>1. /\ read' = read /\ got' = got
        /\ agent' = [agent EXCEPT ![a] = Agt!emptyAgent("dead")]
    BY <1>5 DEF Agt!onClose, Agt!onConnFail, Agt!freeAgent
  <2> QED  BY <1>0, <1>k, <2>1, ClosedStays
<1>6. CASE Agt!onConnOK(a)
  <2> DEFINE u == x.uid
             y == [x EXCEPT !.fd = "open", !.stat = "AUTH_OK", !.sid = Agt!Cli!newSid(u)]
             z == Agt!afterForward(y)
  <2>1. read' = read /\ got' = got /\ x.fd = "connecting"  BY <1>6 DEF Agt!onConnOK
  <2>2. \/ agent' = [agent EXCEPT ![a] = z]
        \/ agent' = [agent EXCEPT ![a] = Agt!emptyAgent("dead")]
    BY <1>6 DEF Agt!onConnOK, Agt!freeAgent
  <2>3. y.fd = "open" /\ y.stat = "AUTH_OK" /\ DOMAIN y = DOMAIN x  BY <1>0 DEF AgentRec
  <2>4. z.fd = "open" /\ z.stat = "AUTH_OK"
    <3> HIDE DEF y
    <3> QED  BY <2>3, <1>0 DEF Agt!afterForward, Agt!_invalidPeer, AgentRec
  <2> HIDE DEF z
  <2>5. CASE agent' = [agent EXCEPT ![a] = z]
    <3>1. agent'[a] = z /\ \A b \in Agents \ {a} : agent'[b] = agent[b]
      BY <2>5 DEF AgentTypes
    <3>2. PhaseOf(x) = "new" /\ PhaseOf(z) = "made"  BY <2>1, <2>4 DEF PhaseOf
    <3> QED  BY <2>1, <2>4, <3>1, <3>2 DEF Made, EndStep, SameSession
  <2>6. CASE agent' = [agent EXCEPT ![a] = Agt!emptyAgent("dead")]
    BY <1>0, <1>k, <2>1, <2>6, ClosedStays
  <2> QED  BY <2>2, <2>5, <2>6
<1>7. CASE Agt!parseData(a)
  BY <1>7 DEF Agt!parseData, Agt!Reads, EndStep, Sent
<1>8. CASE Agt!AppGone(a)
  <2>1. /\ read' = read /\ got' = got /\ agent' = [agent EXCEPT ![a] = Agt!closed(x)]
    BY <1>8 DEF Agt!AppGone
  <2> QED  BY <1>0, <1>k, <2>1, ClosedStays
<1> QED
  BY <1>1, <1>2, <1>3, <1>4, <1>5, <1>6, <1>7, <1>8
  DEF agentStep, agentConn, Agt!process, Agt!procPeerUsrExit, Agt!procTunnelClose, Agt!procUnreach

\* An application that connects makes an end whose tunnel is yet to come.
LEMMA NewEnd ==
    ASSUME AgentTypes, StatSound, NEW u \in Uids, Agt!creatAgentSvr(u)
    PROVE  Kept
<1> DEFINE a == Agt!newAgent
           y == [Agt!emptyAgent("open") EXCEPT
                    !.stat = "INIT", !.uid = u, !.sid = Agt!Cli!newSid(u),
                    !.peerUid = linkTo[u]]
           z == Agt!afterForward(y)
<1>1. /\ Agt!Free # {} /\ read' = read /\ got' = got
      /\ agent' = [agent EXCEPT ![a] = z]
  BY DEF Agt!creatAgentSvr
<1>2. z.fd = "open" /\ z.stat = "INIT"
  BY DEF Agt!emptyAgent, Agt!afterForward, Agt!_invalidPeer
<1>3. a \in Agents /\ agent[a].fd = "free"  BY <1>1, NewAgentFree
<1> HIDE DEF a, z
<1>4. agent[a].stat = "INVALID"  BY <1>3 DEF StatSound, StatOf
<1>5. Stays(agent[a], z)  BY <1>2, <1>3, <1>4 DEF Stays, PhaseOf, StatOf, SameSession
<1> QED  BY <1>1, <1>3, <1>5, StaysWhen

\* So every step of the system is one of those.
LEMMA Steps ==
    ASSUME SysInv, StatSound, [Next]_vars
    PROVE  EndStep
<1>0. AgentTypes /\ agentq \in AgentQueues  BY DEF SysInv, NodeInv, NodeType, AgentTypes
<1>1. ASSUME NEW u \in Uids, Connect(u) \/ Break(u) \/ CliNotice(u) \/ CliCrash(u) \/ cliStep(u)
      PROVE  EndStep
  BY <1>0, <1>1, ClientSteps DEF EndStep
<1>2. CASE SvrCrash \/ \E c \in Conns : SvrNotice(c) \/ svrStep(c)
  BY <1>2, RouterSteps DEF EndStep
<1>3. ASSUME NEW a \in Agents, agentStep(a) \/ agentConn(a) \/ Agt!parseData(a) \/ Agt!AppGone(a)
      PROVE  EndStep
  BY <1>0, <1>3, AgentSteps
<1>4. CASE application
  <2>1. ASSUME NEW u \in Uids, Agt!creatAgentSvr(u) PROVE EndStep
    BY <1>0, <2>1, NewEnd DEF EndStep
  <2> QED  BY <1>3, <1>4, <2>1 DEF application
<1>5. CASE UNCHANGED vars
  <2>1. UNCHANGED <<agent, read, got>>  BY <1>5 DEF vars, nodeVars
  <2> QED  BY <2>1, AgentsAlone DEF EndStep
<1> QED  BY <1>1, <1>2, <1>3, <1>4, <1>5 DEF Next
----------------------------------------------------------------------------
(* What the steps keep, and what they are to the service.                  *)

\* Both hold in the initial state
LEMMA StatInit == ASSUME Init PROVE StatSound /\ Unread
  BY DEF Init, Agt!Init, StatSound, StatOf, Unread, Agt!emptyAgent

\* and after every step.
LEMMA StatKept ==
    ASSUME StatSound, Unread, AgentTypes, EndStep, read \in [Agents -> Nat]
    PROVE  StatSound' /\ Unread'
<1>1. CASE Kept
  <2>1. StatSound'  BY <1>1 DEF StatSound, Kept, Stays
  <2> SUFFICES ASSUME NEW a \in Agents, agent'[a].fd # "dead", agent'[a].stat # "AUTH_OK"
               PROVE  read'[a] = 0
    BY <2>1 DEF Unread
  <2> QED  BY <1>1 DEF Kept, Stays, Unread
<1>2. ASSUME NEW a \in Agents, Made(a) PROVE StatSound' /\ Unread'
  <2>1. ASSUME NEW b \in Agents PROVE StatOf(agent'[b])
    BY <1>2, <2>1 DEF Made, StatSound, StatOf
  <2>2. ASSUME NEW b \in Agents, agent'[b].fd # "dead", agent'[b].stat # "AUTH_OK"
        PROVE  read'[b] = 0
    BY <1>2, <2>2 DEF Made, Unread
  <2> QED  BY <2>1, <2>2 DEF StatSound, Unread
<1>3. ASSUME NEW a \in Agents, Sent(a) PROVE StatSound' /\ Unread'
  <2>1. agent' = agent /\ \A b \in Agents \ {a} : read'[b] = read[b]
    BY <1>3 DEF Sent
  <2>2. agent[a].stat \in {"INVALID", "INIT", "AUTH_OK"}
    BY DEF AgentTypes, AgentRec
  <2>3. agent[a].stat = "AUTH_OK"
    BY <1>3, <2>2 DEF Sent, StatSound, StatOf
  <2> QED  BY <2>1, <2>3 DEF StatSound, Unread
<1>4. ASSUME NEW a \in Agents, HandedTo(a) PROVE StatSound' /\ Unread'
  BY <1>4 DEF StatSound, Unread, HandedTo
<1> QED  BY <1>1, <1>2, <1>3, <1>4 DEF EndStep

\* A unit is handed to an end, whichever: the phases and what was sent stay.
Handed(b) ==
    /\ agent[b].fd = "open"
    /\ \E unit \in Contents : got' = [got EXCEPT ![b] = Append(@, unit)]
    /\ UNCHANGED <<Phase, read>>

\* Every such step but that is one of the service.
LEMMA StepServes ==
    ASSUME StatSound, AgentTypes, EndStep
    PROVE  Promise!Next \/ \E b \in Agents : Handed(b)
<1>1. CASE Kept
  <2> DEFINE S == {a \in Agents : PhaseOf(agent'[a]) = "over"}
  <2>1. Phase' = [a \in Agents |-> IF a \in S THEN "over" ELSE Phase[a]]
    BY <1>1, PhaseIs DEF Kept, Stays
  <2>2. S \in SUBSET Agents  OBVIOUS
  <2> HIDE DEF S
  <2>3. Promise!End(S)  BY <1>1, <2>1 DEF Kept, Promise!End
  <2> QED  BY <2>2, <2>3 DEF Promise!Next
<1>2. ASSUME NEW a \in Agents, Made(a) PROVE Promise!Next
  <2>1. Phase[a] = "new" /\ Phase' = [Phase EXCEPT ![a] = "made"]
    BY <1>2, PhaseIs DEF Made
  <2> QED  BY <1>2, <2>1 DEF Made, Promise!Make, Promise!Next
<1>3. ASSUME NEW a \in Agents, Sent(a) PROVE Promise!Next
  <2>1. Phase' = Phase  BY <1>3, PhaseIs DEF Sent
  <2>2. agent[a].stat \in {"INVALID", "INIT", "AUTH_OK"}
    BY DEF AgentTypes, AgentRec
  <2>3. Phase[a] = "made"
    BY <1>3, <2>2, PhaseIs DEF Sent, StatSound, StatOf, PhaseOf
  <2> QED  BY <1>3, <2>1, <2>3 DEF Sent, Promise!Send, Promise!Next
<1>4. ASSUME NEW a \in Agents, HandedTo(a) PROVE Handed(a)
  <2>1. Phase' = Phase  BY <1>4, PhaseIs DEF HandedTo
  <2> QED  BY <1>4, <2>1 DEF HandedTo, Handed
<1> QED  BY <1>1, <1>2, <1>3, <1>4 DEF EndStep

\* An end whose tunnel is over has ended for good, and sends and gets nothing.
EndsStayOver ==
    \A a \in Agents : Phase[a] = "over" =>
        Phase'[a] = "over" /\ read'[a] = read[a] /\ got'[a] = got[a]

\* Only open ends send and get, and none opens again.
LEMMA StepEnds ==
    ASSUME StatSound, AgentTypes, EndStep, read \in [Agents -> Nat], got \in [Agents -> Seq(Contents)]
    PROVE  EndsStayOver
<1> SUFFICES ASSUME NEW a \in Agents, Phase[a] = "over"
             PROVE  Phase'[a] = "over" /\ read'[a] = read[a] /\ got'[a] = got[a]
  BY DEF EndsStayOver
<1>1. PhaseOf(agent[a]) = "over" /\ agent[a].fd # "open"
  BY PhaseIs DEF PhaseOf
<1>2. Phase'[a] = PhaseOf(agent'[a])
  BY PhaseIs
<1>3. CASE Kept
  BY <1>1, <1>2, <1>3 DEF Kept, Stays
<1>4. ASSUME NEW b \in Agents, Made(b) PROVE agent'[a] = agent[a] /\ read' = read /\ got' = got
  BY <1>1, <1>4 DEF Made
<1>5. ASSUME NEW b \in Agents, Sent(b) \/ HandedTo(b)
      PROVE  agent'[a] = agent[a] /\ read'[a] = read[a] /\ got'[a] = got[a]
  BY <1>1, <1>5 DEF Sent, HandedTo
<1> QED
  BY <1>1, <1>2, <1>3, <1>4, <1>5 DEF EndStep

\* What an end has sent, it has sent since its tunnel was made.
SentSound == \A a \in Agents : Phase[a] = "new" => read[a] = 0
----------------------------------------------------------------------------
(* The theorems.                                                           *)

\* The invariant of all this: the system's, and these two.
PInv == SysInv /\ StatSound /\ Unread

\* It holds in every reachable state.
LEMMA PInvAlways == Spec => []PInv
<1>1. SysInv /\ StatSound /\ Unread /\ [Next]_vars => StatSound' /\ Unread'
  <2> SUFFICES ASSUME SysInv, StatSound, Unread, [Next]_vars PROVE StatSound' /\ Unread'
    OBVIOUS
  <2>1. EndStep /\ AgentTypes /\ read \in [Agents -> Nat]
    BY Steps DEF SysInv, NodeInv, NodeType, AgentTypes
  <2> QED  BY <2>1, StatKept
<1> QED  BY <1>1, StatInit, SysInvAlways, PTL DEF Spec, PInv

\* Under the mapping of TunnelIsService, the system starts as TunnelService
\* does, and every step of the router, the clients, the agents and the
\* network, whatever breaks or crashes, is a step of it or leaves its state
\* alone, but for the handing of a unit to an application: there only the
\* fact that the end is open is proved, not whose unit it is.
THEOREM StepsAreService ==
    Spec => Promise!Init /\ [][Promise!Next \/ \E b \in Agents : Handed(b)]_(Promise!svcVars)
<1>1. Init => Promise!Init
  <2> SUFFICES ASSUME Init PROVE Promise!Init
    OBVIOUS
  <2>1. Phase = [a \in Agents |-> "new"]
    BY DEF Init, Agt!Init, Agt!emptyAgent, Phase
  <2> QED  BY <2>1 DEF Init, Agt!Init, Promise!Init
<1>2. PInv /\ [Next]_vars => [Promise!Next \/ \E b \in Agents : Handed(b)]_(Promise!svcVars)
  <2> SUFFICES ASSUME PInv, [Next]_vars PROVE Promise!Next \/ \E b \in Agents : Handed(b)
    OBVIOUS
  <2>1. EndStep /\ AgentTypes /\ StatSound
    BY Steps DEF PInv, SysInv, NodeInv, NodeType, AgentTypes
  <2> QED  BY <2>1, StepServes
<1> QED  BY <1>1, <1>2, PInvAlways, PTL DEF Spec

\* An end that is over stays over, and its application neither sends nor
\* gets anything more through it (NotAfter of TunnelService): no late frame
\* reaches an agent whose socket is closed or whose data has been freed.
THEOREM NothingAfterEnd == Spec => Promise!NotAfter
<1>1. PInv /\ [Next]_vars => [EndsStayOver]_(Promise!svcVars)
  <2> SUFFICES ASSUME PInv, [Next]_vars PROVE EndsStayOver
    OBVIOUS
  <2>1. EndStep /\ AgentTypes /\ StatSound
    BY Steps DEF PInv, SysInv, NodeInv, NodeType, AgentTypes
  <2>2. read \in [Agents -> Nat] /\ got \in [Agents -> Seq(Contents)]
    BY DEF PInv, SysInv, NodeInv, NodeType
  <2> QED  BY <2>1, <2>2, StepEnds
<1> QED  BY <1>1, PInvAlways, PTL DEF Spec, Promise!NotAfter, EndsStayOver

\* An agent reads nothing from its application before the tunnel is made.
THEOREM NoSendBeforeMade == Spec => []SentSound
<1>1. ASSUME PInv PROVE SentSound
  <2> SUFFICES ASSUME NEW a \in Agents, PhaseOf(agent[a]) = "new" PROVE read[a] = 0
    BY PhaseIs DEF SentSound
  <2>1. agent[a] \in AgentRec /\ StatOf(agent[a])
    BY <1>1 DEF PInv, StatSound, SysInv, NodeInv, NodeType
  <2>2. agent[a].fd # "dead" /\ agent[a].stat # "AUTH_OK"
    BY <2>1 DEF StatOf, PhaseOf, AgentRec
  <2> QED  BY <1>1, <2>2 DEF PInv, Unread
<1> QED  BY <1>1, PInvAlways, PTL
=============================================================================
