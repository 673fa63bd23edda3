------------------------------ MODULE Messages ------------------------------
(***************************************************************************)
(* The messages that cross the router, as isockmsg.h lays them out, and    *)
(* the ones LoginCenter (logincenter.cpp) makes of another message.        *)
(*                                                                         *)
(* A routed message has the address of its sender (suid, ssid) and of its  *)
(* receiver (duid, dsid) in its head.  TUNNEL_REQ, TUNNEL_ACK and          *)
(* TUNNEL_CLOSE repeat addresses of the head in their bodies.              *)
(***************************************************************************)
CONSTANTS
    Uids,       \* user identifiers, the non-zero ones
    Sids,       \* session identifiers, the non-zero ones
    Bodies,     \* contents of routed messages, opaque to the router
    NoUid,      \* user identifier 0
    NoSid,      \* session identifier 0
    BadLen,     \* body of a cipher message that is not as long as it says
    BadTxtLen   \* body of one whose text is not as long as its cipher

ASSUME MessagesAssumption ==
    /\ NoUid \notin Uids
    /\ NoSid \notin Sids

AllUids == Uids \union {NoUid}
AllSids == Sids \union {NoSid}

NoerrCmds == {"UNREACH", "TUNNEL_CLOSE"}
TunnelCmds == {"TUNNEL_REQ", "TUNNEL_ACK"}
RoutedCmds == NoerrCmds \union TunnelCmds \union {"FRAME_CIPHER", "FRAME_PLAIN"}

\* The body of an UNREACH names the address that could not be reached.
RoutedMsg == [cmd : RoutedCmds,
              suid : AllUids, ssid : AllSids, duid : AllUids, dsid : AllSids,
              body : Bodies \union (AllUids \X AllSids)]

ExitMsg == [cmd : {"UID_EXIT_BROADCAST"}, uid : AllUids]

exitMsg(u) == [cmd |-> "UID_EXIT_BROADCAST", uid |-> u]

\* Mutant: the unreachable address with its parts swapped.
genUnreachMsgSwapped(from, m) ==
    [cmd |-> "UNREACH", suid |-> from, ssid |-> NoSid,
     duid |-> m.suid, dsid |-> m.ssid, body |-> <<m.dsid, m.duid>>]

genUnreachMsg(from, m) ==
    [cmd |-> "UNREACH", suid |-> from, ssid |-> NoSid,
     duid |-> m.suid, dsid |-> m.ssid, body |-> <<m.duid, m.dsid>>]

\* The cipher's length is that of the message (parseCipherMsg), the text's
\* is that of the cipher (cipher2PlainMsg, which otherwise returns NULL).
cipherLenOK(m) == m.body # BadLen

txtLenOK(m) == m.body # BadTxtLen

\* The message that is returned if txtLenOK(m).
cipher2PlainMsg(m) == [m EXCEPT !.cmd = "FRAME_PLAIN"]

\* Its lengths always agree: both are the text's.
plain2CipherMsg(m) == [m EXCEPT !.cmd = "FRAME_CIPHER"]
=============================================================================
