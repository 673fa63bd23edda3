----------------------------- MODULE CliCenter -----------------------------
(***************************************************************************)
(* The clients: CliCenter (clicenter.cpp), one link to the router for each *)
(* user, with the sessions (sids) that are multiplexed on it.              *)
(*                                                                         *)
(* Every user is a process of its own.  While the link of user u is not    *)
(* down, it is connected to the router's descriptor connOf[u]: what the    *)
(* client sends on it is appended to inq[connOf[u]], what the router sent  *)
(* is out[connOf[u]] and is handled in place, so the wire and the client's *)
(* queue of messages from the router are one FIFO.  cliq is the queue of   *)
(* messages that the user's agents collected for the link.                 *)
(*                                                                         *)
(* The login is the exchange of messages that a correct password makes;    *)
(* module Handshake has its checks.  The framework is that of SvrCenter.   *)
(***************************************************************************)
EXTENDS Messages, Naturals, Sequences

CONSTANTS
    Agents,     \* agents (see AgentCenter)
    NoAgent     \* no agent: the session is not in m_sids

VARIABLES
    connOf,     \* the router's descriptor of each user's last connection
    link,       \* m_self_fd in the framework: down, up, closing
    cstat,      \* m_login.m_stat
    sids,       \* m_sids: the agent of each session
    nextSid,    \* m_next_sid
    cliq,       \* messages dispatched to the link by agents
    agent,      \* AgentBase of every agent, with the state of its descriptor
    agentq,     \* messages dispatched to each agent
    fd, inq, out    \* the router's descriptors, queues and wires

----------------------------------------------------------------------------
(* The framework and the table of sessions.                                *)

closeLink(u) == IF link[u] = "up" THEN [link EXCEPT ![u] = "closing"] ELSE link

hasAuthed(u) == cstat[u] = "AUTH_OK"

\* The agents of S, with those closed that were open.
closeAgents(S) ==
    [a \in Agents |-> IF a \in S /\ agent[a].fd = "open"
                      THEN [agent[a] EXCEPT !.fd = "closing"] ELSE agent[a]]

Sessions(u) == {s \in Sids : sids[u][s] # NoAgent}

existSid(u, s) == s # NoSid /\ sids[u][s] # NoAgent

\* Mutant: the lowest number that is not in use.
newSidLowest(u) ==
    CHOOSE s \in Sids : sids[u][s] = NoAgent
                        /\ \A t \in 1..(s - 1) : sids[u][t] # NoAgent

newSid(u) == nextSid[u] + 1

\* Mutant: the session is entered under the number before it is counted on.
regSidBefore(u, a) ==
    /\ nextSid' = [nextSid EXCEPT ![u] = newSid(u)]
    /\ sids' = [sids EXCEPT ![u][nextSid[u]] = a]

\* regSid for a user that is logged in; the session it returns is newSid.
regSid(u, a) ==
    /\ nextSid' = [nextSid EXCEPT ![u] = newSid(u)]
    /\ sids' = [sids EXCEPT ![u][newSid(u)] = a]

unregSid(u, s) ==
    IF s = NoSid THEN sids ELSE [sids EXCEPT ![u][s] = NoAgent]

\* collect: agents dispatch to the link of a logged-in user.
Collects(u) == hasAuthed(u) /\ link[u] = "up"

collect(q, u, m) == IF Collects(u) THEN [q EXCEPT ![u] = Append(@, m)] ELSE q

\* _forward: the link dispatches to the agent of a session.
Forwardable(u, s) == existSid(u, s) /\ agent[sids[u][s]].fd = "open"

_forward(u, s, m) ==
    IF Forwardable(u, s)
    THEN [agentq EXCEPT ![sids[u][s]] = Append(@, [dir |-> "south", msg |-> m])]
    ELSE agentq

\* _sendMsg: what is sent to a connection that the router is closing or has
\* closed is lost, although sending it succeeds.
Sendable(u) == link[u] = "up"

_sendMsg(u, m) ==
    IF Sendable(u) /\ fd[connOf[u]] = "open"
    THEN [inq EXCEPT ![connOf[u]] = Append(@, [dir |-> "north", msg |-> m])]
    ELSE inq

\* rspSidUnreach: to the agent that sent m, or over the link to the user
\* that sent it.
rspSidUnreach(u, m) ==
    LET errMsg == genUnreachMsg(u, m)
        down == m.ssid # NoSid /\ m.suid = u /\ m.duid # u
        back == m.ssid # NoSid /\ m.duid = u /\ m.suid # u
    IN /\ agentq' = IF down THEN _forward(u, m.ssid, errMsg) ELSE agentq
       /\ inq' = IF back THEN _sendMsg(u, errMsg) ELSE inq
----------------------------------------------------------------------------
Init ==
    /\ link = [u \in Uids |-> "down"]
    /\ cstat = [u \in Uids |-> "INVALID"]
    /\ sids = [u \in Uids |-> [s \in Sids |-> NoAgent]]
    /\ nextSid = [u \in Uids |-> 0]
    /\ cliq = [u \in Uids |-> <<>>]
----------------------------------------------------------------------------
(* The life of a link.                                                     *)

\* onConnOK; what the router does with the connection is its onNewSock.
onConnOK(u) ==
    /\ link[u] = "down"
    /\ link' = [link EXCEPT ![u] = "up"]
    /\ cstat' = [cstat EXCEPT ![u] = "INIT"]
    /\ UNCHANGED <<sids, nextSid, cliq, agent, agentq>>

\* The framework finds the connection broken, or closed by the router.
LinkLost(u) ==
    /\ link[u] = "up"
    /\ link' = closeLink(u)
    /\ UNCHANGED <<cstat, sids, nextSid, cliq, agent, agentq, fd, inq, out>>

\* Mutant: the children are forgotten but not closed.
closeChildrenForgets(u) == agent

closeChildren(u) == closeAgents({sids[u][s] : s \in Sessions(u)})

\* onClose, with cleanCli; the reconnection that it schedules is onConnOK.
onClose(u) ==
    /\ link[u] = "closing"
    /\ link' = [link EXCEPT ![u] = "down"]
    /\ agent' = closeChildren(u)
    /\ sids' = [sids EXCEPT ![u] = [s \in Sids |-> NoAgent]]
    /\ cstat' = [cstat EXCEPT ![u] = "INVALID"]
    /\ cliq' = [cliq EXCEPT ![u] = <<>>]
    /\ UNCHANGED <<nextSid, agentq, fd, inq, out>>
----------------------------------------------------------------------------
(* Messages from the router.                                               *)

HandlesSouth(u, cmds) ==
    /\ link[u] # "down"
    /\ out[connOf[u]] # <<>>
    /\ Head(out[connOf[u]]).cmd \in cmds

SouthMsg(u) == Head(out[connOf[u]])

SouthHandled(u) == out' = [out EXCEPT ![connOf[u]] = Tail(@)]

\* The login message that the client answers with: its fields are what the
\* router makes of its checks (see SvrCenter).
LoginAnswer(u, cmd) == [cmd |-> cmd, uid |-> u, ok |-> TRUE]

errRsp(u) == _sendMsg(u, LoginAnswer(u, "ERROR_ACK"))

\* procHeloMsg, procExchKeyMsg; a message that is not expected, or an
\* answer that cannot be sent, is an error and closes the link.
procLogin(u, cmd, expected, next, answer) ==
    /\ HandlesSouth(u, {cmd})
    /\ SouthHandled(u)
    /\ IF cstat[u] = expected
       THEN /\ cstat' = [cstat EXCEPT ![u] = next]
            /\ inq' = _sendMsg(u, LoginAnswer(u, answer))
            /\ link' = IF Sendable(u) THEN link ELSE closeLink(u)
       ELSE inq' = errRsp(u) /\ link' = closeLink(u) /\ UNCHANGED cstat
    /\ UNCHANGED <<sids, nextSid, cliq, agent, agentq, fd>>

procHeloMsg(u) == procLogin(u, "HELO", "INIT", "CLI_REQ", "LOGIN_REQ")

procExchKeyMsg(u) == procLogin(u, "EXCH_KEY", "CLI_REQ", "AUTH_OK", "LOGIN_END")

\* To the agent of the message's session, or an answer that it is not
\* there ("here donot fail").
ForwardOrAnswer(u, m) ==
    IF Forwardable(u, m.dsid)
    THEN agentq' = _forward(u, m.dsid, m) /\ UNCHANGED inq
    ELSE rspSidUnreach(u, m)

parseCipherMsg(u, m) == hasAuthed(u) /\ cipherLenOK(m)

\* If the parse fails, the handler's error closes the link.  What a client
\* gets comes from plain2CipherMsg, so txtLenOK always holds: procCipher, like
\* the router's, could not go on with the NULL of cipher2PlainMsg.
procCipher(u) ==
    /\ HandlesSouth(u, {"FRAME_CIPHER"})
    /\ txtLenOK(SouthMsg(u))
    /\ SouthHandled(u)
    /\ IF parseCipherMsg(u, SouthMsg(u))
       THEN ForwardOrAnswer(u, cipher2PlainMsg(SouthMsg(u))) /\ UNCHANGED link
       ELSE link' = closeLink(u) /\ UNCHANGED <<agentq, inq>>
    /\ UNCHANGED <<cstat, sids, nextSid, cliq, agent, fd>>

procForward(u) ==
    /\ HandlesSouth(u, {"TUNNEL_ACK"})
    /\ SouthHandled(u)
    /\ IF hasAuthed(u)
       THEN ForwardOrAnswer(u, SouthMsg(u)) ELSE UNCHANGED <<agentq, inq>>
    /\ UNCHANGED <<link, cstat, sids, nextSid, cliq, agent, fd>>

procForwardNoerr(u) ==
    /\ HandlesSouth(u, NoerrCmds)
    /\ SouthHandled(u)
    /\ agentq' = IF hasAuthed(u) THEN _forward(u, SouthMsg(u).dsid, SouthMsg(u))
                 ELSE agentq
    /\ UNCHANGED <<link, cstat, sids, nextSid, cliq, agent, fd, inq>>

\* notifyAllSid: to every session of the link.
notifyAllSid(u, m) ==
    LET told == {sids[u][s] : s \in {t \in Sessions(u) : Forwardable(u, t)}}
    IN [a \in Agents |-> IF a \in told
            THEN Append(agentq[a], [dir |-> "south", msg |-> m]) ELSE agentq[a]]

procPeerUsrExit(u) ==
    /\ HandlesSouth(u, {"UID_EXIT_BROADCAST"})
    /\ SouthHandled(u)
    /\ agentq' = IF hasAuthed(u) /\ SouthMsg(u).uid # u
                 THEN notifyAllSid(u, SouthMsg(u)) ELSE agentq
    /\ UNCHANGED <<link, cstat, sids, nextSid, cliq, agent, fd, inq>>
----------------------------------------------------------------------------
(* Messages that the agents collected.                                     *)

HandlesNorth(u, cmds) ==
    /\ link[u] # "down"
    /\ cliq[u] # <<>>
    /\ Head(cliq[u]).cmd \in cmds

NorthMsg(u) == Head(cliq[u])

NorthHandled(u) == cliq' = [cliq EXCEPT ![u] = Tail(@)]

\* A message that cannot be sent is answered to its agent, and the error
\* closes the link, if it was not being closed.
SendOrAnswer(u, m) ==
    IF Sendable(u)
    THEN inq' = _sendMsg(u, m) /\ UNCHANGED <<agentq, link>>
    ELSE rspSidUnreach(u, m) /\ link' = closeLink(u)

\* Data of an agent that is left from before the login is dropped.
procPlain(u) ==
    /\ HandlesNorth(u, {"FRAME_PLAIN"})
    /\ NorthHandled(u)
    /\ IF hasAuthed(u)
       THEN SendOrAnswer(u, plain2CipherMsg(NorthMsg(u)))
       ELSE UNCHANGED <<inq, agentq, link>>
    /\ UNCHANGED <<cstat, sids, nextSid, agent, fd, out>>

procSend(u) ==
    /\ HandlesNorth(u, TunnelCmds)
    /\ NorthHandled(u)
    /\ SendOrAnswer(u, NorthMsg(u))
    /\ UNCHANGED <<cstat, sids, nextSid, agent, fd, out>>

procSendNoerr(u) ==
    /\ HandlesNorth(u, NoerrCmds)
    /\ NorthHandled(u)
    /\ inq' = _sendMsg(u, NorthMsg(u))
    /\ UNCHANGED <<link, cstat, sids, nextSid, agent, agentq, fd, out>>
----------------------------------------------------------------------------
process(u) ==
    \/ procHeloMsg(u) \/ procExchKeyMsg(u) \/ procCipher(u) \/ procForward(u)
    \/ procForwardNoerr(u) \/ procPeerUsrExit(u)
    \/ procPlain(u) \/ procSend(u) \/ procSendNoerr(u)
=============================================================================
