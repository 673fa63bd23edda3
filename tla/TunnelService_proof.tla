------------------------ MODULE TunnelService_proof ------------------------
(***************************************************************************)
(* What the service of the tunnels means for the applications, for any     *)
(* number of tunnels and any amount of data.  Together with the runs that  *)
(* check that the system implements TunnelService, these are its end to    *)
(* end guarantees.                                                         *)
(***************************************************************************)
EXTENDS TunnelService, TLAPS

Type ==
    /\ phase \in [Agents -> {"new", "made", "over"}]
    /\ read \in [Agents -> Nat]
    /\ got \in [Agents -> Seq(Agents \X Nat)]

SInv == Type /\ InOrder /\ OnePair /\ NotBefore
----------------------------------------------------------------------------
\* A unit is delivered: the ends' earlier units, if any, tie the two ends to
\* each other and to nobody else.
LEMMA DeliverStep ==
    ASSUME SInv, NEW a \in Agents, NEW b \in Agents, Deliver(a, b)
    PROVE  SInv'
<1> DEFINE n == Len(got[b]) + 1
<1>0. Type /\ InOrder /\ OnePair /\ NotBefore /\ got[b] \in Seq(Agents \X Nat)
      /\ a # b /\ Len(got[b]) \in Nat /\ n \in Nat
  BY DEF SInv, Type, Deliver, Pairable
<1>1. /\ got'[b] = Append(got[b], <<a, n>>)
      /\ \A c \in Agents \ {b} : got'[c] = got[c]
      /\ phase' = phase /\ read' = read
  BY <1>0 DEF Deliver, Type
<1>2. /\ Len(got'[b]) = n
      /\ \A i \in 1..Len(got[b]) : got'[b][i] = got[b][i]
      /\ got'[b][n] = <<a, n>>
      /\ \A i \in 1..Len(got'[b]) : i \in 1..Len(got[b]) \/ i = n
  BY <1>0, <1>1
<1>3. Type'
  <2>1. <<a, n>> \in Agents \X Nat
    BY <1>0
  <2> QED
    BY <1>0, <1>1, <2>1 DEF Type, Deliver
<1>4. InOrder'
  <2>1. n <= read[a]
    BY <1>0 DEF Deliver, Type
  <2> SUFFICES ASSUME NEW c \in Agents, NEW i \in 1..Len(got'[c])
               PROVE  /\ got'[c][i][1] \in Agents \ {c}
                      /\ got'[c][i] = <<got'[c][i][1], i>>
                      /\ i <= read'[got'[c][i][1]]
    BY DEF InOrder
  <2>2. CASE c = b /\ i = n
    <3>1. got'[c][i] = <<a, n>>
      BY <2>2, <1>2
    <3> QED
      BY <3>1, <2>1, <2>2, <1>0, <1>1
  <2>3. CASE i \in 1..Len(got[c]) /\ got'[c][i] = got[c][i]
    BY <2>3, <1>0, <1>1 DEF InOrder
  <2> QED
    BY <2>2, <2>3, <1>1, <1>2
<1>5. \A c \in Agents : \A i \in 1..Len(got[c]) :
        /\ got[c][i][1] = a => c = b
        /\ got[c][i][1] = b => c = a
        /\ c = b => got[c][i][1] = a
        /\ c = a => got[c][i][1] = b
  <2> SUFFICES ASSUME NEW c \in Agents, NEW i \in 1..Len(got[c])
               PROVE  /\ got[c][i][1] = a => c = b
                      /\ got[c][i][1] = b => c = a
                      /\ c = b => got[c][i][1] = a
                      /\ c = a => got[c][i][1] = b
    OBVIOUS
  <2>1. /\ Receivers(a) \subseteq {b} /\ Senders(a) \subseteq {b}
        /\ Receivers(b) \subseteq {a} /\ Senders(b) \subseteq {a}
    BY DEF Deliver, Pairable
  <2>2. c \in Receivers(got[c][i][1])
    BY DEF Receivers
  <2>3. got[c][i][1] \in Senders(c)
    BY DEF Senders
  <2> QED
    BY <2>1, <2>2, <2>3
<1>6. \A c \in Agents : \A i \in 1..Len(got'[c]) :
        \/ i \in 1..Len(got[c]) /\ got'[c][i] = got[c][i]
        \/ c = b /\ got'[c][i][1] = a
  BY <1>1, <1>2
<1>7. OnePair'
  <2> SUFFICES ASSUME NEW c \in Agents, NEW d \in Agents,
                      NEW i \in 1..Len(got'[c]), NEW j \in 1..Len(got'[d])
               PROVE  /\ c = d <=> got'[c][i][1] = got'[d][j][1]
                      /\ got'[c][i][1] = d => got'[d][j][1] = c
    BY DEF OnePair
  <2>1. \/ i \in 1..Len(got[c]) /\ got'[c][i] = got[c][i]
        \/ c = b /\ got'[c][i][1] = a
    BY <1>6
  <2>2. \/ j \in 1..Len(got[d]) /\ got'[d][j] = got[d][j]
        \/ d = b /\ got'[d][j][1] = a
    BY <1>6
  <2>3. CASE /\ i \in 1..Len(got[c]) /\ got'[c][i] = got[c][i]
             /\ j \in 1..Len(got[d]) /\ got'[d][j] = got[d][j]
    BY <1>0, <2>3 DEF OnePair
  <2>4. CASE /\ c = b /\ got'[c][i][1] = a
             /\ j \in 1..Len(got[d]) /\ got'[d][j] = got[d][j]
    BY <1>0, <1>5, <2>4
  <2>5. CASE /\ i \in 1..Len(got[c]) /\ got'[c][i] = got[c][i]
             /\ d = b /\ got'[d][j][1] = a
    BY <1>0, <1>5, <2>5
  <2>6. CASE c = b /\ got'[c][i][1] = a /\ d = b /\ got'[d][j][1] = a
    BY <1>0, <2>6
  <2> QED
    BY <2>1, <2>2, <2>3, <2>4, <2>5, <2>6
<1>8. NotBefore'
  BY <1>0, <1>1 DEF NotBefore, Deliver
<1> QED
  BY <1>3, <1>4, <1>7, <1>8 DEF SInv

\* The other steps hand out no data.
LEMMA SInvStep == SInv /\ [Next]_svcVars => SInv'
<1> SUFFICES ASSUME SInv, [Next]_svcVars PROVE SInv'
  OBVIOUS
<1>1. ASSUME NEW a \in Agents, Make(a) PROVE SInv'
  <2>1. got' = got /\ read' = read /\ phase' = [phase EXCEPT ![a] = "made"]
    BY <1>1 DEF Make
  <2>2. Type'
    BY <2>1 DEF SInv, Type
  <2>3. InOrder' /\ OnePair'
    BY <2>1 DEF SInv, InOrder, OnePair
  <2>4. NotBefore'
    BY <2>1 DEF SInv, Type, NotBefore
  <2> QED
    BY <2>2, <2>3, <2>4 DEF SInv
<1>2. ASSUME NEW a \in Agents, Send(a) PROVE SInv'
  <2>1. got' = got /\ phase' = phase /\ read' = [read EXCEPT ![a] = @ + 1] /\ phase[a] = "made"
    BY <1>2 DEF Send
  <2>2. Type' /\ OnePair' /\ NotBefore'
    <3>1. Type'
      BY <2>1 DEF SInv, Type
    <3>2. OnePair'
      BY <2>1 DEF SInv, OnePair
    <3>3. NotBefore'
      BY <2>1 DEF SInv, Type, NotBefore
    <3> QED
      BY <3>1, <3>2, <3>3
  <2>3. \A b \in Agents : read'[b] \in Nat /\ read[b] \in Nat /\ read[b] <= read'[b]
    BY <2>1 DEF SInv, Type
  <2>4. \A b \in Agents : Len(got[b]) \in Nat
    BY DEF SInv, Type
  <2>5. InOrder'
    BY <2>1, <2>3, <2>4 DEF SInv, InOrder
  <2> QED
    BY <2>2, <2>5 DEF SInv
<1>3. ASSUME NEW S \in SUBSET Agents, End(S) PROVE SInv'
  BY <1>3 DEF End, SInv, Type, InOrder, OnePair, NotBefore
<1>4. CASE UNCHANGED svcVars
  BY <1>4 DEF svcVars, SInv, Type, InOrder, OnePair, NotBefore
<1> QED
  BY <1>1, <1>2, <1>3, <1>4, DeliverStep DEF Next

\* The invariant holds in every reachable state.
LEMMA SInvAlways == Spec => []SInv
<1>1. Init => SInv
  BY DEF Init, SInv, Type, InOrder, OnePair, NotBefore
<1> QED
  BY <1>1, SInvStep, PTL DEF Spec
----------------------------------------------------------------------------
\* What an application gets is what one other application sent, in order
\* and without gaps or copies (InOrder).
THEOREM DataInOrder == Spec => []InOrder
<1>1. SInv => InOrder
  BY DEF SInv
<1> QED
  BY <1>1, SInvAlways, PTL

\* Data never come from, or go to, more than one other end (OnePair).
THEOREM TunnelsArePairs == Spec => []OnePair
<1>1. SInv => OnePair
  BY DEF SInv
<1> QED
  BY <1>1, SInvAlways, PTL

\* Data only pass made tunnels: not before (NotBefore) and not after they
\* are over (NotAfter).
THEOREM DataOnlyInTunnels == Spec => []NotBefore /\ NotAfter
<1>1. SInv => NotBefore
  BY DEF SInv
<1>2. SInv /\ [Next]_svcVars =>
        [\A a \in Agents : phase[a] = "over" =>
            phase'[a] = "over" /\ read'[a] = read[a] /\ got'[a] = got[a]]_svcVars
  BY DEF SInv, Type, Next, Make, Send, Deliver, End
<1> QED
  BY <1>1, <1>2, SInvAlways, PTL DEF Spec, NotAfter
=============================================================================
