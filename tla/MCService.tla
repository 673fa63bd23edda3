----------------------------- MODULE MCService -----------------------------
(***************************************************************************)
(* TLC instances of Service: files with up to two sections of a kind.  The *)
(* address of a section is its place in its list, so that equal sections   *)
(* can be told apart.                                                      *)
(***************************************************************************)
EXTENDS Service

CONSTANTS u1, u2, MaxSections

\* The lists of up to n sections over the given uids and link types.
SectionLists(uids, types, n) ==
    UNION {{s \in [1..k -> [uid : uids, type : types, addr : 1..n]] :
               \A i \in 1..k : s[i].addr = i} : k \in 0..n}

Complete ==
    [servers : SectionLists({u1}, {0}, 1),
     clients : SectionLists({NoUid, u1, u2}, {0}, MaxSections),
     agents : SectionLists({u1, u2}, {1}, MaxSections),
     links : SectionLists({u1}, {1, 2}, MaxSections),
     complete : {TRUE}]

\* Files that lack a key of their last link, or a global one.
MCFiles ==
    Complete \union {[f EXCEPT !.links = Append(@, Broken)] : f \in Complete}
             \union {[f EXCEPT !.complete = FALSE] : f \in Complete}
=============================================================================
