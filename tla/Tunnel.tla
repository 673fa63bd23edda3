------------------------------- MODULE Tunnel -------------------------------
(***************************************************************************)
(* The whole system: the router (SvrCenter), the clients (CliCenter) and   *)
(* their agents (AgentCenter), connected by links that may break, in       *)
(* processes that may crash and start again.                               *)
(*                                                                         *)
(* A link breaks at either end, and the other end learns of it later, or   *)
(* handles some of what was sent before.  Meanwhile the client connects    *)
(* again, on another descriptor of the router, and the two connections of  *)
(* one user contend at the router as they do in SvrCenter.  A crash loses  *)
(* everything that the process keeps; the program keeps nothing on disk.   *)
(***************************************************************************)
EXTENDS Messages, FiniteSetsExt, Naturals, Sequences

CONSTANTS
    Agents, NoAgent,                                \* see CliCenter
    linkTo, Request, MaxData, DrainsOnClose,        \* see AgentCenter
    Conns, NoConn,                                  \* see SvrCenter
    Faults,         \* what happens: "break", "router", "client"
    MaxFaults,      \* bound: links that break and processes that crash
    KeepsSids,      \* whether the session numbers of a restarted client go
                    \* on where those of the former process ended
    WaitsForRouter  \* whether a client connects again only when the router
                    \* has got rid of its former connection

ASSUME TunnelAssumption ==
    /\ Cardinality(Agents) \in Nat /\ Agents = 1..Cardinality(Agents)
    /\ Sids = 1..Cardinality(Agents) /\ NoSid = 0   \* one for every agent
    /\ NoAgent \notin Agents
    /\ linkTo \in [Uids -> AllUids]
    /\ \A u \in Uids : linkTo[u] # u
    /\ {DrainsOnClose, KeepsSids, WaitsForRouter} \subseteq BOOLEAN
    /\ MaxData \in [Agents -> Nat] /\ MaxFaults \in Nat
    /\ Faults \subseteq {"break", "router", "client"}
    /\ Conns \subseteq Nat /\ NoConn \notin Conns
    /\ Request \in Bodies
    /\ \A a \in Agents : {a} \X (1..MaxData[a]) \subseteq Bodies
    \* the programs fill in lengths that agree
    /\ {BadLen, BadTxtLen} \intersect (Bodies \union (AllUids \X AllSids)) = {}

VARIABLES
    fd, stat, uid1, users, inq, out,                \* see SvrCenter
    connOf, link, cstat, sids, nextSid, cliq,       \* see CliCenter
    agent, agentq, read, got,                       \* see AgentCenter
    faults      \* number of links that broke and processes that crashed

svrVars == <<fd, stat, uid1, users, inq, out>>
nodeVars == <<link, cstat, sids, nextSid, cliq, agent, agentq, read, got>>
netVars == <<connOf, faults>>
vars == <<svrVars, nodeVars, netVars>>

Svr == INSTANCE SvrCenter WITH Inputs <- {}, MaxBacklog <- 1000
Cli == INSTANCE CliCenter
Agt == INSTANCE AgentCenter
----------------------------------------------------------------------------
Init ==
    /\ Svr!Init /\ Cli!Init /\ Agt!Init
    /\ connOf = [u \in Uids |-> NoConn]
    /\ faults = 0
----------------------------------------------------------------------------
(* The network.                                                            *)

\* The router's end of a connection, and whether the client's end lives.
Linked(c) == \E u \in Uids : link[u] # "down" /\ connOf[u] = c

\* A new connection has the lowest descriptor that neither end uses.
newConn == Min({c \in Conns : fd[c] = "free" /\ ~Linked(c)})

RouterHas(u) == connOf[u] # NoConn /\ fd[connOf[u]] # "free"

Connect(u) ==
    /\ \E c \in Conns : fd[c] = "free" /\ ~Linked(c)
    /\ WaitsForRouter => ~RouterHas(u)
    /\ Cli!onConnOK(u)
    /\ Svr!onNewSock(newConn)
    /\ connOf' = [v \in Uids |-> IF v = u THEN newConn
                                 ELSE IF connOf[v] = newConn THEN NoConn
                                 ELSE connOf[v]]
    /\ UNCHANGED <<read, got, faults>>

CliLost(u) == Cli!LinkLost(u) /\ UNCHANGED <<stat, uid1, users, read, got, connOf>>

SvrLost(c) == Svr!PeerGone(c) /\ UNCHANGED <<nodeVars, connOf>>

Fault(kind) == kind \in Faults /\ faults < MaxFaults /\ faults' = faults + 1

Break(u) ==
    /\ Fault("break")
    /\ link[u] = "up" /\ fd[connOf[u]] = "open"
    /\ CliLost(u) \/ SvrLost(connOf[u])

\* An end learns that the other end is gone.
CliNotice(u) ==
    /\ link[u] = "up" /\ fd[connOf[u]] = "free"
    /\ CliLost(u)
    /\ UNCHANGED faults

SvrNotice(c) == ~Linked(c) /\ SvrLost(c) /\ UNCHANGED faults
----------------------------------------------------------------------------
(* Crashes: the process is gone with its connections, and starts again.    *)

SvrCrash ==
    /\ Fault("router")
    /\ Svr!processEnds
    /\ UNCHANGED <<nodeVars, connOf>>

\* m_next_sid is not initialized: unless KeepsSids, any value that the
\* former process had may come back.
CliCrash(u) ==
    LET lost == {a \in Agents : agent[a].uid = u}
    IN /\ Fault("client")
       /\ link' = [link EXCEPT ![u] = "down"]
       /\ cstat' = [cstat EXCEPT ![u] = "INVALID"]
       /\ sids' = [sids EXCEPT ![u] = [s \in Sids |-> NoAgent]]
       /\ \E n \in (IF KeepsSids THEN {nextSid[u]} ELSE 0..nextSid[u]) :
             nextSid' = [nextSid EXCEPT ![u] = n]
       /\ cliq' = [cliq EXCEPT ![u] = <<>>]
       /\ agent' = [a \in Agents |->
             IF a \in lost THEN Agt!emptyAgent("dead") ELSE agent[a]]
       /\ agentq' = [a \in Agents |-> IF a \in lost THEN <<>> ELSE agentq[a]]
       /\ UNCHANGED <<svrVars, read, got, connOf>>
----------------------------------------------------------------------------
(* The processes.                                                          *)

svrStep(c) ==
    /\ Svr!process(c) \/ Svr!onClose(c)
    /\ UNCHANGED <<nodeVars, netVars>>

cliStep(u) ==
    /\ \/ (Cli!process(u) \/ Cli!onClose(u)) /\ UNCHANGED <<read, got>>
       \/ Agt!creatAgentCli(u)
    /\ UNCHANGED <<stat, uid1, users, netVars>>

agentStep(a) ==
    /\ Agt!process(a) \/ Agt!onClose(a)
    /\ UNCHANGED <<stat, uid1, users, netVars>>

\* An agent's connection to its application is made, or fails.
agentConn(a) ==
    /\ Agt!onConnOK(a) \/ Agt!onConnFail(a)
    /\ UNCHANGED <<stat, uid1, users, netVars>>

application ==
    /\ \/ \E u \in Uids : Agt!creatAgentSvr(u)
       \/ \E a \in Agents : Agt!parseData(a) \/ Agt!AppGone(a)
    /\ UNCHANGED <<stat, uid1, users, netVars>>

Next ==
    \/ \E u \in Uids : Connect(u) \/ Break(u) \/ CliNotice(u) \/ CliCrash(u)
    \/ SvrCrash
    \/ \E c \in Conns : SvrNotice(c) \/ svrStep(c)
    \/ \E u \in Uids : cliStep(u)
    \/ \E a \in Agents : agentStep(a) \/ agentConn(a)
    \/ application

\* The framework serves every queue, completes every closing and every
\* connection attempt of an agent, and finds out every broken link.
Fairness ==
    /\ \A c \in Conns : WF_vars(svrStep(c)) /\ WF_vars(SvrNotice(c))
    /\ \A u \in Uids : WF_vars(cliStep(u)) /\ WF_vars(CliNotice(u))
    /\ \A a \in Agents : WF_vars(agentStep(a)) /\ WF_vars(agentConn(a))

Spec == Init /\ [][Next]_vars

FairSpec == Spec /\ Fairness
----------------------------------------------------------------------------
(* Properties.                                                             *)

\* Every variable of the router, the clients and the agents keeps its type:
\* in particular each queue holds only messages that its worker tables know.
TypeOK ==
    /\ Svr!TypeOK
    /\ connOf \in [Uids -> Conns \union {NoConn}]
    /\ link \in [Uids -> {"down", "up", "closing"}]
    /\ cstat \in [Uids -> {"INVALID", "INIT", "CLI_REQ", "AUTH_OK"}]
    /\ sids \in [Uids -> [Sids -> Agents \union {NoAgent}]]
    /\ nextSid \in [Uids -> 0..Cardinality(Sids)]
    /\ cliq \in [Uids -> Seq(RoutedMsg)]
    /\ agent \in [Agents -> Agt!AgentBase]
    /\ agentq \in [Agents -> Seq(Agt!AgentMsg)]
    /\ read \in [Agents -> Nat] /\ \A a \in Agents : read[a] <= MaxData[a]
    /\ got \in [Agents -> Seq(Bodies \union (AllUids \X AllSids))]

\* The tables of sessions and the agents agree: a session is an agent of
\* that user and number whose data has not been freed, and an agent that is
\* open is a session of its link.
SessionsSound ==
    /\ \A u \in Uids, s \in Sids : sids[u][s] # NoAgent =>
          LET ag == agent[sids[u][s]]
          IN ag.fd \in {"open", "closing"} /\ ag.uid = u /\ ag.sid = s
    /\ \A a \in Agents : agent[a].fd = "open" =>
          sids[agent[a].uid][agent[a].sid] = a

\* The clients, the router and the agents together are the service that
\* TunnelService states.
Phase == [a \in Agents |->
    CASE agent[a].fd \in {"closing", "dead"} -> "over"
      [] agent[a].fd = "open" /\ agent[a].stat = "AUTH_OK" -> "made"
      [] OTHER -> "new"]

Promise == INSTANCE TunnelService WITH phase <- Phase

TunnelIsService == Promise!Spec

\* What an agent is handed was addressed to it: it comes from an agent that
\* has been freed since, or whose peer is the very session that gets it,
\* however sessions and connections of the two users came and went while it
\* was under way.  No address is looked at when data are handed over; the
\* tables of the router and of the links alone bring them there.
ToItsPeer ==
    \A b \in Agents : got'[b] # got[b] =>
        LET a == got'[b][Len(got'[b])][1]
        IN agent[a].fd # "dead" =>
              agent[a].peerUid = agent[b].uid /\ agent[a].peerSid = agent[b].sid

DataAddressed == [][ToItsPeer]_vars

\* Two agents that address each other.
Paired(a, b) ==
    /\ agent[a].fd = "open" /\ agent[b].fd = "open"
    /\ agent[a].peerUid = agent[b].uid /\ agent[a].peerSid = agent[b].sid
    /\ agent[b].peerUid = agent[a].uid /\ agent[b].peerSid = agent[a].sid

\* No agent stays open alone: one whose tunnel did not come about, or whose
\* peer has ended, is closed, whichever of the ends, the links and the
\* messages between them is lost in whatever order.
NoHalfOpen ==
    \A a \in Agents :
        agent[a].fd = "open" ~>
            agent[a].fd # "open" \/ \E b \in Agents : Paired(a, b)

\* A client that is logged in can be reached: the router comes to have the
\* client's connection in its registry, or the client learns that it is not
\* logged in any more.
LoggedIn(u) == link[u] = "up" /\ cstat[u] = "AUTH_OK"

UserReachable ==
    \A u \in Uids :
        LoggedIn(u) ~> ~LoggedIn(u) \/ users[u] = connOf[u]
=============================================================================
