------------------------------ MODULE MCTunnel ------------------------------
(***************************************************************************)
(* TLC instances of Tunnel: user u1 has a listener whose tunnels lead to   *)
(* user u2.  Agents are numbered as they are created.                      *)
(***************************************************************************)
EXTENDS Tunnel

CONSTANTS u1, u2, NAgents, NData

MCAgents == 1..NAgents

MCBodies == {Request} \union (MCAgents \X (1..NData))

\* The first agent is the requesting end of the first tunnel.
MCMaxData == [a \in MCAgents |-> NData]

MCMaxDataFirst == [a \in MCAgents |-> IF a = 1 THEN NData ELSE 0]

MCMaxDataSecond == [a \in MCAgents |-> IF a = 2 THEN NData ELSE 0]

MCLinkTo == [u \in Uids |-> IF u = u1 THEN u2 ELSE NoUid]
=============================================================================
