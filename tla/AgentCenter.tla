---------------------------- MODULE AgentCenter ----------------------------
(***************************************************************************)
(* The agents: AgentCenter (routeragent.cpp).  An agent is one end of a    *)
(* tunnel, a TCP connection to an application: accepted from one           *)
(* (creatAgentSvr), or made to one because a peer asked for it             *)
(* (creatAgentCli).  It reaches its peer over the link of its user, as a   *)
(* session of that link (CliCenter).                                       *)
(*                                                                         *)
(* Agents are numbered in the order they are created and a number is never *)
(* used again.  The data of agent a are the units <<a, 1>>, <<a, 2>>, ...  *)
(* that its application sends; read and got are what has been read from    *)
(* the application and what has been sent to it.                           *)
(***************************************************************************)
EXTENDS Messages, Naturals, Sequences, FiniteSetsExt

CONSTANTS
    Agents, NoAgent,            \* see CliCenter
    linkTo,     \* the user that a user's listener makes tunnels to, or NoUid
    Request,    \* the body of the tunnel messages
    MaxData,    \* bound: units that each agent's application sends
    DrainsOnClose   \* whether the framework has an agent handle what it was
                    \* dispatched before it is closed

VARIABLES connOf, link, cstat, sids, nextSid, cliq,     \* see CliCenter
    agent,      \* every agent: state of its descriptor, and its AgentBase
    agentq,     \* messages dispatched to each agent
    read,       \* number of units read from each agent's application
    got,        \* units sent to each agent's application
    fd, inq, out                                \* see SvrCenter

Cli == INSTANCE CliCenter
----------------------------------------------------------------------------
(* Agents.                                                                 *)

AgentBase ==
    [fd : {"free", "connecting", "open", "closing", "dead"},
     stat : {"INVALID", "INIT", "AUTH_OK"},
     peerStat : {"INVALID", "AUTH_OK", "CLOSING"},
     uid : AllUids, sid : AllSids, peerUid : AllUids, peerSid : AllSids]

\* What is dispatched to an agent: messages for it, and data it has read.
AgentMsg ==
    [dir : {"south"}, msg : {m \in RoutedMsg \union ExitMsg :
                                m.cmd \notin {"FRAME_CIPHER", "TUNNEL_REQ"}}]
      \union [dir : {"north"}, unit : Bodies \intersect (Agents \X Nat)]

\* allocAgent
emptyAgent(state) ==
    [fd |-> state, stat |-> "INVALID", peerStat |-> "INVALID",
     uid |-> NoUid, sid |-> NoSid, peerUid |-> NoUid, peerSid |-> NoSid]

Free == {a \in Agents : agent[a].fd = "free"}

newAgent == Min(Free)

\* freeAgent
freeAgent(a) == [agent EXCEPT ![a] = emptyAgent("dead")]

closed(ag) == IF ag.fd = "open" THEN [ag EXCEPT !.fd = "closing"] ELSE ag

_invalidPeer(ag) == [ag EXCEPT !.peerStat = "CLOSING"]

Msg(cmd, ag, body) ==
    [cmd |-> cmd, suid |-> ag.uid, ssid |-> ag.sid,
     duid |-> ag.peerUid, dsid |-> ag.peerSid, body |-> body]

\* _forward: the message is collected for the link of ag's user; "if cannot
\* link with cli, then peer is broken down".
_forward(ag, cmd, body) == cliq' = Cli!collect(cliq, ag.uid, Msg(cmd, ag, body))

afterForward(ag) == IF Cli!Collects(ag.uid) THEN ag ELSE _invalidPeer(ag)

\* Mutant: the peer is not told of the end.
sendCloseTunnelMsgNever(ag) == UNCHANGED cliq

sendCloseTunnelMsg(ag) ==
    IF ag.peerStat = "AUTH_OK"
    THEN _forward(ag, "TUNNEL_CLOSE", Request)
    ELSE UNCHANGED cliq
----------------------------------------------------------------------------
Init ==
    /\ agent = [a \in Agents |-> emptyAgent("free")]
    /\ agentq = [a \in Agents |-> <<>>]
    /\ read = [a \in Agents |-> 0]
    /\ got = [a \in Agents |-> <<>>]
----------------------------------------------------------------------------
(* Creation.                                                               *)

\* creatAgentSvr: an application connects to the listener of user u.  When
\* u is not logged in there is no session for it and it is refused.
creatAgentSvr(u) ==
    /\ linkTo[u] # NoUid
    /\ Free # {}
    /\ Cli!hasAuthed(u)
    /\ LET a == newAgent
           ag == [emptyAgent("open") EXCEPT
                     !.stat = "INIT", !.uid = u, !.sid = Cli!newSid(u),
                     !.peerUid = linkTo[u]]
       IN /\ Cli!regSid(u, a)
          /\ _forward(ag, "TUNNEL_REQ", Request)
          /\ agent' = [agent EXCEPT ![a] = afterForward(ag)]
    /\ UNCHANGED <<link, cstat, agentq, read, got, fd, inq, out>>

\* CliCenter::procTunnelReq with creatAgentCli: the agent that is being
\* connected is not registered yet.  The check of the request is one of its
\* user (link_no is the sum of the two users' numbers) and of its fields.
chkTunnelReq(u, m) == m.duid = u /\ m.suid # NoUid /\ m.ssid # NoSid

creatAgentCli(u) ==
    LET m == Cli!SouthMsg(u)
    IN /\ Cli!HandlesSouth(u, {"TUNNEL_REQ"})
       /\ Cli!SouthHandled(u)
       /\ IF chkTunnelReq(u, m) /\ Free # {}
          THEN /\ agent' = [agent EXCEPT ![newAgent] =
                      [emptyAgent("connecting") EXCEPT
                          !.peerStat = "AUTH_OK", !.uid = u,
                          !.peerUid = m.suid, !.peerSid = m.ssid]]
               /\ UNCHANGED <<agentq, inq>>
          ELSE Cli!rspSidUnreach(u, m) /\ UNCHANGED agent
       /\ UNCHANGED <<link, cstat, sids, nextSid, cliq, read, got, fd>>

sendTunnelAckMsg(ag) == _forward(ag, "TUNNEL_ACK", Request)

onConnOK(a) ==
    LET u == agent[a].uid
        ag == [agent[a] EXCEPT !.fd = "open", !.stat = "AUTH_OK",
                               !.sid = Cli!newSid(u)]
    IN /\ agent[a].fd = "connecting"
       /\ IF Cli!hasAuthed(u)
          THEN /\ Cli!regSid(u, a)
               /\ sendTunnelAckMsg(ag)
               /\ agent' = [agent EXCEPT ![a] = afterForward(ag)]
          ELSE /\ sendCloseTunnelMsg(agent[a])
               /\ agent' = freeAgent(a)
               /\ UNCHANGED <<sids, nextSid>>
       /\ UNCHANGED <<link, cstat, agentq, read, got, fd, inq, out>>

onConnFail(a) ==
    /\ agent[a].fd = "connecting"
    /\ sendCloseTunnelMsg(agent[a])
    /\ agent' = freeAgent(a)
    /\ UNCHANGED <<link, cstat, sids, nextSid, agentq, read, got, fd, inq, out>>
----------------------------------------------------------------------------
(* The application.                                                        *)

\* Reading is delayed until the tunnel is acknowledged (m_delay,
\* undelayRead).
Reads(a) == agent[a].fd = "open" /\ agent[a].stat # "INIT"

parseData(a) ==
    /\ Reads(a)
    /\ read[a] < MaxData[a]
    /\ read' = [read EXCEPT ![a] = @ + 1]
    /\ agentq' = [agentq EXCEPT ![a] = Append(@, [dir |-> "north",
                                                  unit |-> <<a, read[a] + 1>>])]
    /\ UNCHANGED <<link, cstat, sids, nextSid, cliq, agent, got, fd, inq, out>>

\* The application is gone.
AppGone(a) ==
    /\ agent[a].fd = "open"
    /\ agent' = [agent EXCEPT ![a] = closed(@)]
    /\ UNCHANGED <<link, cstat, sids, nextSid, cliq, agentq, read, got, fd, inq, out>>
----------------------------------------------------------------------------
(* Messages of an agent.                                                   *)

HandlesNorth(a) ==
    agent[a].fd \in {"open", "closing"} /\ agentq[a] # <<>>
        /\ Head(agentq[a]).dir = "north"

HandlesSouth(a, cmd) ==
    agent[a].fd \in {"open", "closing"} /\ agentq[a] # <<>>
        /\ Head(agentq[a]).dir = "south" /\ Head(agentq[a]).msg.cmd = cmd

SouthMsg(a) == Head(agentq[a]).msg

Handled(a) == agentq' = [agentq EXCEPT ![a] = Tail(@)]

\* Data of the application; an error closes the agent.
procForward(a) ==
    /\ HandlesNorth(a)
    /\ Handled(a)
    /\ IF agent[a].stat = "AUTH_OK"
       THEN /\ _forward(agent[a], "FRAME_PLAIN", Head(agentq[a]).unit)
            /\ agent' = [agent EXCEPT ![a] =
                  IF Cli!Collects(@.uid) THEN @ ELSE closed(_invalidPeer(@))]
       ELSE agent' = [agent EXCEPT ![a] = closed(@)] /\ UNCHANGED cliq
    /\ UNCHANGED <<link, cstat, sids, nextSid, read, got, fd, inq, out>>

\* Data for the application, which fails only when it is being closed.
procSend(a) ==
    /\ HandlesSouth(a, "FRAME_PLAIN")
    /\ Handled(a)
    /\ got' = IF agent[a].fd = "open"
              THEN [got EXCEPT ![a] = Append(@, SouthMsg(a).body)] ELSE got
    /\ UNCHANGED <<link, cstat, sids, nextSid, cliq, agent, read, fd, inq, out>>

chkTunnelAck(a, m) ==
    /\ agent[a].stat = "INIT"
    /\ m.suid # NoUid /\ m.ssid # NoSid
    /\ m.dsid = agent[a].sid
    /\ m.suid = agent[a].peerUid

\* An acknowledgement that does not fit is an error and closes the agent.
procTunnelAck(a) ==
    /\ HandlesSouth(a, "TUNNEL_ACK")
    /\ Handled(a)
    /\ agent' = IF chkTunnelAck(a, SouthMsg(a))
                THEN [agent EXCEPT ![a].peerSid = SouthMsg(a).ssid,
                                   ![a].stat = "AUTH_OK",
                                   ![a].peerStat = "AUTH_OK"]
                ELSE [agent EXCEPT ![a] = closed(@)]
    /\ UNCHANGED <<link, cstat, sids, nextSid, cliq, read, got, fd, inq, out>>

\* procPeerUsrExit, procTunnelClose and procUnreach end the agent if they
\* are about its peer.
Ends(a, cmd, m) ==
    CASE cmd = "UID_EXIT_BROADCAST" -> m.uid = agent[a].peerUid
      [] cmd = "TUNNEL_CLOSE" -> m.duid = agent[a].uid /\ m.dsid = agent[a].sid
      [] cmd = "UNREACH" -> m.body = <<agent[a].peerUid, agent[a].peerSid>>

procEnd(a, cmd) ==
    /\ HandlesSouth(a, cmd)
    /\ Handled(a)
    /\ agent' = IF Ends(a, cmd, SouthMsg(a))
                THEN [agent EXCEPT ![a] = closed(_invalidPeer(@))] ELSE agent
    /\ UNCHANGED <<link, cstat, sids, nextSid, cliq, read, got, fd, inq, out>>

procPeerUsrExit(a) == procEnd(a, "UID_EXIT_BROADCAST")

procTunnelClose(a) == procEnd(a, "TUNNEL_CLOSE")

procUnreach(a) == procEnd(a, "UNREACH")

onClose(a) ==
    /\ agent[a].fd = "closing"
    /\ DrainsOnClose => agentq[a] = <<>>
    /\ sendCloseTunnelMsg(agent[a])
    /\ sids' = Cli!unregSid(agent[a].uid, agent[a].sid)
    /\ agent' = freeAgent(a)
    /\ agentq' = [agentq EXCEPT ![a] = <<>>]
    /\ UNCHANGED <<link, cstat, nextSid, read, got, fd, inq, out>>
----------------------------------------------------------------------------
process(a) ==
    \/ procForward(a) \/ procSend(a) \/ procTunnelAck(a)
    \/ procPeerUsrExit(a) \/ procTunnelClose(a) \/ procUnreach(a)
=============================================================================
