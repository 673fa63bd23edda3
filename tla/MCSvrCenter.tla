---------------------------- MODULE MCSvrCenter ----------------------------
(***************************************************************************)
(* TLC instances of SvrCenter.  The registry run lets three connections    *)
(* contend for two users; the routing run has two connections and every    *)
(* kind of message.                                                        *)
(***************************************************************************)
EXTENDS SvrCenter, TLC

CONSTANTS u1, u2, s1, b1

\* Logins that succeed, one message of two routed kinds for every pair of
\* sender and receiver, and a cipher that ends the router.
RegistryInputs ==
    [cmd : {"LOGIN_REQ"}, uid : Uids, ok : {TRUE}]
    \union [cmd : {"LOGIN_END", "LOGOUT"}, uid : {NoUid}, ok : {TRUE}]
    \union [cmd : {"TUNNEL_REQ", "TUNNEL_CLOSE"},
            suid : Uids, ssid : {s1}, duid : Uids, dsid : {s1}, body : {b1}]
    \union [cmd : {"FRAME_CIPHER"},
            suid : Uids, ssid : {s1}, duid : {NoUid}, dsid : {s1}, body : {BadTxtLen}]

\* Every command, with logins that fail their check, a user of uid 0,
\* messages without a source session and ciphers with lengths that disagree.
RoutingInputs ==
    [cmd : {"LOGIN_REQ"}, uid : AllUids, ok : {TRUE}]
    \union [cmd : LoginCmds, uid : {NoUid}, ok : BOOLEAN]
    \union [cmd : RoutedCmds, suid : AllUids, ssid : {s1},
            duid : Uids, dsid : {s1}, body : {b1}]
    \union [cmd : {"FRAME_CIPHER"}, suid : Uids, ssid : {NoSid},
            duid : Uids, dsid : {s1}, body : {b1, BadLen, BadTxtLen}]

\* Logins and tunnel requests only.
RequestInputs ==
    [cmd : {"LOGIN_REQ"}, uid : Uids, ok : {TRUE}]
    \union [cmd : {"LOGIN_END"}, uid : {NoUid}, ok : {TRUE}]
    \union [cmd : {"TUNNEL_REQ"}, suid : Uids, ssid : {s1},
            duid : Uids, dsid : {s1}, body : {b1}]

Symmetry == Permutations(Conns) \union Permutations(Uids)
=============================================================================
