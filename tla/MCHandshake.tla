---------------------------- MODULE MCHandshake ----------------------------
(***************************************************************************)
(* TLC instance of Handshake.  The passwords include a pair with the       *)
(* router's difference and one with its passwd1 only.                      *)
(***************************************************************************)
EXTENDS Handshake

MCConfs == [passwd1 : 1..2, passwd2 : 1..2]

MCSvrConf == [passwd1 |-> 1, passwd2 |-> 1]
=============================================================================
