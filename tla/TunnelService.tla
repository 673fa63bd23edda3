--------------------------- MODULE TunnelService ---------------------------
(***************************************************************************)
(* What the tunnels promise to the applications at their ends: no data     *)
(* pass an end before its tunnel is made or after it is over, every end    *)
(* belongs to at most one pair, and what an application sends reaches the  *)
(* application at the other end of its pair in order, without gaps, copies *)
(* or anything that another tunnel carries.                                *)
(***************************************************************************)
EXTENDS Naturals, Sequences

CONSTANTS
    Agents,     \* ends of tunnels
    MaxData     \* bound: units that each end's application sends

VARIABLES
    phase,  \* of each end: new, made, over
    read,   \* number of units that the end's application has sent
    got     \* units handed to the end's application

svcVars == <<phase, read, got>>

\* The end that a unit came from, and the ends that have units of a.
Receivers(a) == {b \in Agents : \E i \in 1..Len(got[b]) : got[b][i][1] = a}

Senders(b) == {got[b][i][1] : i \in 1..Len(got[b])}

\* a and b are, or may still become, the two ends of one tunnel.
Pairable(a, b) ==
    /\ a # b
    /\ Receivers(a) \subseteq {b} /\ Senders(a) \subseteq {b}
    /\ Receivers(b) \subseteq {a} /\ Senders(b) \subseteq {a}

Init ==
    /\ phase = [a \in Agents |-> "new"]
    /\ read = [a \in Agents |-> 0]
    /\ got = [a \in Agents |-> <<>>]

Make(a) ==
    /\ phase[a] = "new"
    /\ phase' = [phase EXCEPT ![a] = "made"]
    /\ UNCHANGED <<read, got>>

Send(a) ==
    /\ phase[a] = "made"
    /\ read[a] < MaxData[a]
    /\ read' = [read EXCEPT ![a] = @ + 1]
    /\ UNCHANGED <<phase, got>>

Deliver(a, b) ==
    /\ phase[b] = "made"
    /\ Pairable(a, b)
    /\ Len(got[b]) < read[a]
    /\ got' = [got EXCEPT ![b] = Append(@, <<a, Len(@) + 1>>)]
    /\ UNCHANGED <<phase, read>>

\* Any ends are over, made or not.
End(S) ==
    /\ phase' = [a \in Agents |-> IF a \in S THEN "over" ELSE phase[a]]
    /\ UNCHANGED <<read, got>>

Next ==
    \/ \E a \in Agents : Make(a) \/ Send(a)
    \/ \E a, b \in Agents : Deliver(a, b)
    \/ \E S \in SUBSET Agents : End(S)

Spec == Init /\ [][Next]_svcVars
----------------------------------------------------------------------------
(* What follows for the applications.                                      *)

\* What an application has got is the beginning of what one other
\* application has sent, unit by unit.
InOrder ==
    \A b \in Agents : \A i \in 1..Len(got[b]) :
        LET a == got[b][i][1]
        IN a \in Agents \ {b} /\ got[b][i] = <<a, i>> /\ i <= read[a]

\* Data tie two ends together, in both directions and for good: an end has
\* one source, a source one receiver, and they are each other's.
OnePair ==
    \A b, c \in Agents : \A i \in 1..Len(got[b]), j \in 1..Len(got[c]) :
        /\ b = c <=> got[b][i][1] = got[c][j][1]
        /\ got[b][i][1] = c => got[c][j][1] = b

\* Nothing passes an end before its tunnel is made.
NotBefore ==
    \A a \in Agents : phase[a] = "new" => read[a] = 0 /\ got[a] = <<>>

\* Nothing passes an end after its tunnel is over, and it stays over.
NotAfter ==
    [][\A a \in Agents : phase[a] = "over" =>
            phase'[a] = "over" /\ read'[a] = read[a] /\ got'[a] = got[a]]_svcVars
=============================================================================
