---------------------------- MODULE MCAgentProto ----------------------------
(***************************************************************************)
(* TLC instance of AgentProto: every stream of up to three messages with   *)
(* heads of two bytes, whose heads declare sizes from too small to too     *)
(* large.                                                                  *)
(***************************************************************************)
EXTENDS AgentProto

MCSizes == (DEF_MSG_HEAD_SIZE - 1)..(MAX_MSG_SIZE + 1)

MCStreams == UNION {[1..n -> MCSizes] : n \in 1..3}
=============================================================================
