-------------------------- MODULE AgentProto_proof --------------------------
(***************************************************************************)
(* Proofs about the framing, for any stream of messages in any division    *)
(* into chunks, over any number of connections: what is dispatched is      *)
(* exactly the complete messages.                                          *)
(*                                                                         *)
(* The loop over a chunk and the positions in a stream are defined by      *)
(* recursion.  What is said of every round and of every position is shown  *)
(* by taking the least one that it does not hold for (Induction).          *)
(***************************************************************************)
EXTENDS AgentProto, TLAPS, FiniteSetTheorems, SequenceTheorems,
        WellFoundedInduction

\* What holds of 0, and of n + 1 if it holds of n, holds up to m.
LEMMA Induction ==
    ASSUME NEW m \in Nat, NEW S, 0 \in S,
           \A n \in 0..(m - 1) : n \in S => n + 1 \in S
    PROVE  \A n \in 0..m : n \in S
<1> SUFFICES ASSUME (0..m) \ S # {} PROVE FALSE  OBVIOUS
<1> DEFINE R == OpToRel(<, Nat)
           T == (0..m) \ S
<1>1. IsWellFoundedOn(R, Nat)  BY NatLessThanWellFounded
<1>2. T \subseteq Nat /\ T # {}  OBVIOUS
<1> HIDE DEF R
<1>3. \E x \in T : \A y \in T : ~ (<<y, x>> \in R)  BY <1>1, <1>2, WFMin
<1>4. PICK x \in T : \A y \in T : ~ (<<y, x>> \in R)  BY <1>3
<1>5. x \in 1..m /\ x - 1 \in 0..(m - 1)  BY <1>4
<1>6. <<x - 1, x>> \in R
  <2>1. x \in Nat /\ x - 1 \in Nat /\ x - 1 < x  BY <1>5
  <2> QED  BY <2>1 DEF R, OpToRel
<1>7. x - 1 \in S  BY <1>4, <1>5, <1>6
<1> QED  BY <1>4, <1>5, <1>7

\* f starts with x0, and step[i] takes it from i - 1 to i.
Recurses(m, X, x0, step, f) ==
    f \in [0..m -> X] /\ f[0] = x0 /\ \A i \in 1..m : f[i] = step[i][f[i - 1]]

\* A function that is defined by recursion up to m exists.
LEMMA Recursion ==
    ASSUME NEW m \in Nat, NEW X, NEW x0 \in X, NEW step \in [1..m -> [X -> X]]
    PROVE  \E f : Recurses(m, X, x0, step, f)
<1> DEFINE S == {n \in 0..m : \E f : Recurses(n, X, x0, step, f)}
<1>1. 0 \in S
  <2> DEFINE f == [i \in 0..0 |-> x0]
  <2>1. Recurses(0, X, x0, step, f)  BY DEF Recurses
  <2> HIDE DEF f
  <2> QED  BY <2>1
<1>2. ASSUME NEW n \in 0..(m - 1), n \in S PROVE n + 1 \in S
  <2>1. PICK f : Recurses(n, X, x0, step, f)  BY <1>2
  <2> DEFINE g == [i \in 0..(n + 1) |-> IF i = n + 1 THEN step[n + 1][f[n]] ELSE f[i]]
  <2>2. n + 1 \in 1..m /\ n \in 0..n /\ f[n] \in X  BY <1>2, <2>1 DEF Recurses
  <2>3. step[n + 1][f[n]] \in X  BY <2>2
  <2>4. g \in [0..(n + 1) -> X]  BY <2>1, <2>3 DEF Recurses
  <2>5. \A i \in 0..n : g[i] = f[i]  OBVIOUS
  <2>6. g[n + 1] = step[n + 1][g[n]]
    <3>1. n + 1 \in 0..(n + 1) /\ n \in 0..n  BY <1>2
    <3>2. g[n + 1] = step[n + 1][f[n]]  BY <3>1
    <3> HIDE DEF g
    <3> QED  BY <3>1, <3>2, <2>5
  <2> HIDE DEF g
  <2>7. Recurses(n + 1, X, x0, step, g)
    <3>1. g[0] = x0  BY <2>1, <2>5, <1>2 DEF Recurses
    <3>2. ASSUME NEW i \in 1..(n + 1) PROVE g[i] = step[i][g[i - 1]]
      <4>1. CASE i = n + 1  BY <4>1, <2>6, <1>2
      <4>2. CASE i \in 1..n
        <5>1. g[i] = f[i] /\ g[i - 1] = f[i - 1]  BY <4>2, <2>5, <1>2
        <5> QED  BY <4>2, <5>1, <2>1 DEF Recurses
      <4> QED  BY <4>1, <4>2, <1>2
    <3> QED  BY <3>1, <3>2, <2>4 DEF Recurses
  <2> QED  BY <2>2, <2>7
<1> HIDE DEF S
<1>3. \A n \in 0..m : n \in S  BY <1>1, <1>2, Induction
<1> QED  BY <1>3 DEF S
----------------------------------------------------------------------------
(* The positions in a stream.                                              *)

\* Each message ends its width behind the one before it.
LEMMA EndsStep ==
    ASSUME NEW str \in Seq(Nat)
    PROVE  /\ Ends(str) \in [0..Len(str) -> Nat] /\ Ends(str)[0] = 0
           /\ \A k \in 1..Len(str) : Ends(str)[k] = Ends(str)[k - 1] + Width(str[k])
           /\ \A k \in 1..Len(str) : Width(str[k]) \in Nat /\ Width(str[k]) >= DEF_MSG_HEAD_SIZE
<1> DEFINE m == Len(str)
           step == [k \in 1..m |-> [x \in Nat |-> x + Width(str[k])]]
<1>1. m \in Nat  OBVIOUS
<1>2. \A k \in 1..m : Width(str[k]) \in Nat /\ Width(str[k]) >= DEF_MSG_HEAD_SIZE
  BY ProtoAssumption DEF Width
<1>3. step \in [1..m -> [Nat -> Nat]]  BY <1>2
<1>4. \A i \in 1..m, n \in Nat : step[i][n] = n + Width(str[i])  OBVIOUS
<1> HIDE DEF step, m
<1>5. PICK f : Recurses(m, Nat, 0, step, f)
  BY <1>1, <1>3, Recursion
<1>6. \A i \in 0..m : f[i] = IF i = 0 THEN 0 ELSE f[i - 1] + Width(str[i])
  <2> SUFFICES ASSUME NEW i \in 0..m PROVE f[i] = IF i = 0 THEN 0 ELSE f[i - 1] + Width(str[i])
    OBVIOUS
  <2>1. CASE i = 0  BY <2>1, <1>5 DEF Recurses
  <2>2. CASE i \in 1..m
    <3>0. i - 1 \in 0..m  BY <2>2, <1>1
    <3>1. f[i] = step[i][f[i - 1]] /\ f[i - 1] \in Nat  BY <2>2, <3>0, <1>5 DEF Recurses
    <3> QED  BY <2>2, <3>1, <1>4
  <2> QED  BY <2>1, <2>2
<1>7. f = [k \in 0..m |-> IF k = 0 THEN 0 ELSE f[k - 1] + Width(str[k])]
  BY <1>5, <1>6 DEF Recurses
<1> DEFINE E == CHOOSE g : g = [k \in 0..m |-> IF k = 0 THEN 0 ELSE g[k - 1] + Width(str[k])]
<1>8. Ends(str) = E  BY DEF Ends, m
<1>9. E = [k \in 0..m |-> IF k = 0 THEN 0 ELSE E[k - 1] + Width(str[k])]
  BY <1>7
<1> HIDE DEF E
<1>10. \A k \in 0..m : E[k] = IF k = 0 THEN 0 ELSE E[k - 1] + Width(str[k])
  BY <1>9
<1> DEFINE S == {k \in 0..m : E[k] \in Nat}
<1>11. 0 \in S  BY <1>1, <1>10
<1>12. ASSUME NEW n \in 0..(m - 1), n \in S PROVE n + 1 \in S
  <2>1. n + 1 \in 1..m /\ (n + 1) - 1 = n /\ n + 1 \in 0..m  BY <1>1
  <2>2. E[n + 1] = E[n] + Width(str[n + 1])  BY <2>1, <1>10
  <2> QED  BY <2>1, <2>2, <1>2, <1>12
<1> HIDE DEF S
<1>13. \A k \in 0..m : k \in S  BY <1>1, <1>11, <1>12, Induction
<1>14. \A k \in 0..m : E[k] \in Nat  BY <1>13 DEF S
<1>15. E \in [0..m -> Nat]  BY <1>9, <1>14
<1> QED  BY <1>1, <1>2, <1>8, <1>10, <1>15 DEF m

\* Messages do not overlap: from one to a later one it takes at least a head.
LEMMA EndsGrow ==
    ASSUME NEW str \in Seq(Nat), NEW j \in 0..Len(str), NEW k \in 0..Len(str), j < k
    PROVE  Ends(str)[j] + DEF_MSG_HEAD_SIZE <= Ends(str)[k]
<1> DEFINE m == Len(str)
           E == Ends(str)
           S == {n \in 0..m : j < n => E[j] + DEF_MSG_HEAD_SIZE <= E[n]}
<1>1. m \in Nat /\ DEF_MSG_HEAD_SIZE \in Nat  BY ProtoAssumption
<1>2. /\ E \in [0..m -> Nat]
      /\ \A n \in 1..m : E[n] = E[n - 1] + Width(str[n])
      /\ \A n \in 1..m : Width(str[n]) \in Nat /\ Width(str[n]) >= DEF_MSG_HEAD_SIZE
  BY EndsStep
<1> HIDE DEF m, E
<1>3. 0 \in S  BY <1>1 DEF m
<1>4. ASSUME NEW n \in 0..(m - 1), n \in S PROVE n + 1 \in S
  <2>1. n + 1 \in 1..m /\ n \in 0..m /\ j \in 0..m /\ (n + 1) - 1 = n  BY <1>1 DEF m
  <2>2. E[n + 1] = E[n] + Width(str[n + 1]) /\ Width(str[n + 1]) \in Nat
        /\ Width(str[n + 1]) >= DEF_MSG_HEAD_SIZE /\ E[n] \in Nat /\ E[j] \in Nat
    BY <2>1, <1>2
  <2>3. CASE j < n
    <3>1. E[j] + DEF_MSG_HEAD_SIZE <= E[n]  BY <2>3, <1>4
    <3> QED  BY <2>1, <2>2, <3>1, <1>1
  <2>4. CASE j = n  BY <2>1, <2>2, <2>4, <1>1
  <2>5. CASE j > n  BY <2>1, <2>5
  <2> QED  BY <2>1, <2>3, <2>4, <2>5
<1> HIDE DEF S
<1>5. \A n \in 0..m : n \in S  BY <1>1, <1>3, <1>4, Induction
<1> QED  BY <1>5 DEF S, m, E
----------------------------------------------------------------------------
(* The bytes of a connection.                                              *)

Byte == Nat \X Nat

\* The bytes behind position a, up to position b.
LEMMA BytesAre ==
    ASSUME conn \in Nat, NEW a \in Nat, NEW b \in Nat, a <= b
    PROVE  /\ Bytes(a + 1, b) \in Seq(Byte) /\ Len(Bytes(a + 1, b)) = b - a
           /\ \A i \in 1..(b - a) : Bytes(a + 1, b)[i] = <<conn, a + i>>
<1>1. b - (a + 1) + 1 = b - a /\ b - a \in Nat  OBVIOUS
<1> DEFINE z == Bytes(a + 1, b)
<1>2. z = [i \in 1..(b - a) |-> <<conn, (a + 1) + i - 1>>]  BY <1>1 DEF Bytes
<1>3. \A i \in 1..(b - a) : z[i] = <<conn, a + i>>
  <2> SUFFICES ASSUME NEW i \in 1..(b - a) PROVE z[i] = <<conn, a + i>>  OBVIOUS
  <2>1. (a + 1) + i - 1 = a + i  OBVIOUS
  <2>2. z[i] = <<conn, (a + 1) + i - 1>>  BY <1>2
  <2> QED  BY <2>1, <2>2
<1>4. z \in [1..(b - a) -> Byte]
  <2>1. DOMAIN z = 1..(b - a) /\ z = [i \in 1..(b - a) |-> z[i]]  BY <1>2
  <2>2. \A i \in 1..(b - a) : z[i] \in Byte  BY <1>3 DEF Byte
  <2> HIDE DEF z
  <2> QED  BY <2>1, <2>2
<1> HIDE DEF z
<1>5. z \in Seq(Byte) /\ Len(z) = b - a  BY <1>1, <1>4
<1> QED  BY <1>3, <1>5 DEF z

\* There are none behind the last position.
LEMMA NoBytes ==
    ASSUME conn \in Nat, NEW a \in Nat
    PROVE  Bytes(a + 1, a) = <<>>
<1> DEFINE b == a
<1>1. b \in Nat /\ a <= b /\ b - a = 0  OBVIOUS
<1> HIDE DEF b
<1>2. Bytes(a + 1, b) \in Seq(Byte) /\ Len(Bytes(a + 1, b)) = b - a  BY <1>1, BytesAre
<1>3. Bytes(a + 1, b) = <<>>  BY <1>1, <1>2, EmptySeq
<1> QED  BY <1>3 DEF b

\* The first n bytes that are left complete those before them.
LEMMA BytesJoin ==
    ASSUME conn \in Nat, NEW a \in Nat, NEW b \in Nat, NEW c \in Nat, a <= b, b <= c,
           NEW n \in 0..(c - b)
    PROVE  /\ Bytes(a + 1, b) \o SubSeq(Bytes(b + 1, c), 1, n) = Bytes(a + 1, b + n)
           /\ SubSeq(Bytes(b + 1, c), n + 1, Len(Bytes(b + 1, c))) = Bytes(b + n + 1, c)
<1> DEFINE before == Bytes(a + 1, b)
           buf == Bytes(b + 1, c)
           used == SubSeq(buf, 1, n)
           rest == SubSeq(buf, n + 1, Len(buf))
           all == Bytes(a + 1, b + n)
           more == Bytes(b + n + 1, c)
<1>0. b + n \in Nat /\ a <= b + n /\ b + n <= c  OBVIOUS
<1>1. /\ before \in Seq(Byte) /\ Len(before) = b - a
      /\ \A i \in 1..(b - a) : before[i] = <<conn, a + i>>
  BY BytesAre
<1>2. /\ buf \in Seq(Byte) /\ Len(buf) = c - b
      /\ \A i \in 1..(c - b) : buf[i] = <<conn, b + i>>
  BY BytesAre
<1>3. /\ all \in Seq(Byte) /\ Len(all) = b + n - a
      /\ \A i \in 1..(b + n - a) : all[i] = <<conn, a + i>>
  BY <1>0, BytesAre
<1>4. /\ more \in Seq(Byte) /\ Len(more) = c - (b + n)
      /\ \A i \in 1..(c - (b + n)) : more[i] = <<conn, b + n + i>>
  BY <1>0, BytesAre
<1> HIDE DEF before, buf, all, more
<1>5. /\ used \in Seq(Byte) /\ Len(used) = n
      /\ \A i \in 1..n : used[i] = <<conn, b + i>>
  <2>1. \A i \in 1..n : buf[i] \in Byte  BY <1>2
  <2>2. /\ used \in Seq(Byte) /\ Len(used) = (IF 1 <= n THEN n - 1 + 1 ELSE 0)
        /\ \A i \in 1..(n - 1 + 1) : used[i] = buf[1 + i - 1]
    BY <2>1, SubSeqProperties
  <2> HIDE DEF used
  <2>3. Len(used) = n  BY <2>2
  <2>4. ASSUME NEW i \in 1..n PROVE used[i] = <<conn, b + i>>
    <3>1. i \in 1..(n - 1 + 1) /\ 1 + i - 1 = i /\ i \in 1..(c - b)  OBVIOUS
    <3>2. used[i] = buf[1 + i - 1]  BY <2>2, <3>1
    <3> QED  BY <3>1, <3>2, <1>2
  <2> QED  BY <2>2, <2>3, <2>4
<1>6. /\ rest \in Seq(Byte) /\ Len(rest) = c - (b + n)
      /\ \A i \in 1..(c - (b + n)) : rest[i] = <<conn, b + n + i>>
  <2>1. n + 1 \in Int /\ Len(buf) \in Int /\ \A i \in (n + 1)..Len(buf) : buf[i] \in Byte
    BY <1>2
  <2>2. /\ rest \in Seq(Byte)
        /\ Len(rest) = (IF n + 1 <= Len(buf) THEN Len(buf) - (n + 1) + 1 ELSE 0)
        /\ \A i \in 1..(Len(buf) - (n + 1) + 1) : rest[i] = buf[(n + 1) + i - 1]
    BY <2>1, SubSeqProperties
  <2> HIDE DEF rest
  <2>3. Len(rest) = c - (b + n)  BY <2>2, <1>2
  <2>4. ASSUME NEW i \in 1..(c - (b + n)) PROVE rest[i] = <<conn, b + n + i>>
    <3>0. /\ i \in 1..(Len(buf) - (n + 1) + 1) /\ (n + 1) + i - 1 = n + i
          /\ n + i \in 1..(c - b)
      BY <1>2
    <3>1. rest[i] = buf[n + i] /\ n + i \in 1..(c - b)  BY <3>0, <2>2
    <3>2. buf[n + i] = <<conn, b + (n + i)>> /\ b + (n + i) = b + n + i  BY <3>1, <1>2
    <3> QED  BY <3>1, <3>2
  <2> QED  BY <2>2, <2>3, <2>4
<1> HIDE DEF used, rest
<1>7. before \o used = all
  <2>1. /\ before \o used \in Seq(Byte) /\ Len(before \o used) = Len(before) + Len(used)
        /\ \A i \in 1..(Len(before) + Len(used)) :
              (before \o used)[i] = IF i <= Len(before) THEN before[i] ELSE used[i - Len(before)]
    BY <1>1, <1>5, ConcatProperties
  <2>2. Len(before \o used) = Len(all) /\ Len(all) = b + n - a  BY <2>1, <1>1, <1>3, <1>5
  <2>4. Len(before) = b - a /\ Len(before) + Len(used) = b + n - a  BY <1>1, <1>5
  <2> DEFINE both == before \o used
  <2>5. \A i \in 1..(b + n - a) :
           both[i] = IF i <= b - a THEN before[i] ELSE used[i - (b - a)]
    BY <2>1, <2>4
  <2>3. ASSUME NEW i \in 1..(b + n - a) PROVE both[i] = all[i]
    <3> HIDE DEF both
    <3>1. CASE i <= b - a
      <4>1. both[i] = before[i] /\ i \in 1..(b - a)  BY <3>1, <2>5
      <4> QED  BY <4>1, <1>1, <1>3
    <3>2. CASE ~ (i <= b - a)
      <4>1. both[i] = used[i - (b - a)] /\ i - (b - a) \in 1..n
        BY <3>2, <2>5
      <4>2. used[i - (b - a)] = <<conn, b + (i - (b - a))>> /\ b + (i - (b - a)) = a + i
        BY <4>1, <1>5
      <4> QED  BY <4>1, <4>2, <1>3
    <3> QED  BY <3>1, <3>2
  <2> QED  BY <2>1, <2>2, <2>3, <1>3, SeqEqual
<1>8. rest = more
  <2>1. \A i \in 1..Len(rest) : rest[i] = more[i]  BY <1>4, <1>6
  <2>2. Len(rest) = Len(more)  BY <1>4, <1>6
  <2> QED  BY <2>1, <2>2, <1>4, <1>6, SeqEqual
<1> QED  BY <1>7, <1>8 DEF before, used, all, rest, buf, more
----------------------------------------------------------------------------
(* The messages of a stream.                                               *)

\* A message begins where the one before it ends.
LEMMA Starts ==
    ASSUME stream \in Seq(Nat)
    PROVE  /\ Start(stream, 1) = 0 /\ Total \in Nat
           /\ \A k \in 1..(Len(stream) + 1) :
                 Start(stream, k) \in Nat /\ Start(stream, k) <= Total
           /\ \A k \in 1..Len(stream) :
                 /\ Start(stream, k + 1) = Start(stream, k) + Width(stream[k])
                 /\ Start(stream, k) + DEF_MSG_HEAD_SIZE <= Start(stream, k + 1)
           /\ \A j, k \in 1..(Len(stream) + 1) :
                 j < k => Start(stream, j) + DEF_MSG_HEAD_SIZE <= Start(stream, k)
<1> DEFINE m == Len(stream)
           E == Ends(stream)
<1>0. m \in Nat /\ DEF_MSG_HEAD_SIZE \in Nat  BY ProtoAssumption
<1>1. /\ E \in [0..m -> Nat] /\ E[0] = 0
      /\ \A k \in 1..m : E[k] = E[k - 1] + Width(stream[k])
  BY EndsStep
<1>2. \A j, k \in 0..m : j < k => E[j] + DEF_MSG_HEAD_SIZE <= E[k]  BY EndsGrow
<1>3. \A k : Start(stream, k) = E[k - 1]  BY DEF Start
<1>4. Total = E[m]
  <2>1. Total = E[(m + 1) - 1] /\ (m + 1) - 1 = m  BY <1>0 DEF Total, Start
  <2> QED  BY <2>1
<1> HIDE DEF m, E
<1>5. Total \in Nat  BY <1>0, <1>1, <1>4
<1>6. ASSUME NEW k \in 1..(m + 1) PROVE Start(stream, k) \in Nat /\ Start(stream, k) <= Total
  <2>1. k - 1 \in 0..m /\ m \in 0..m  BY <1>0
  <2>2. E[k - 1] \in Nat /\ E[m] \in Nat  BY <2>1, <1>1
  <2>3. CASE k - 1 = m  BY <2>3, <2>2, <1>3, <1>4
  <2>4. CASE k - 1 < m
    <3>1. E[k - 1] + DEF_MSG_HEAD_SIZE <= E[m]  BY <2>1, <2>4, <1>2
    <3> QED  BY <3>1, <2>2, <1>0, <1>3, <1>4
  <2> QED  BY <2>1, <2>3, <2>4, <1>0
<1>7. ASSUME NEW j \in 1..(m + 1), NEW k \in 1..(m + 1), j < k
      PROVE  Start(stream, j) + DEF_MSG_HEAD_SIZE <= Start(stream, k)
  <2>1. j - 1 \in 0..m /\ k - 1 \in 0..m /\ j - 1 < k - 1  BY <1>0, <1>7
  <2> QED  BY <2>1, <1>2, <1>3
<1>8. ASSUME NEW k \in 1..m
      PROVE  /\ Start(stream, k + 1) = Start(stream, k) + Width(stream[k])
             /\ Start(stream, k) + DEF_MSG_HEAD_SIZE <= Start(stream, k + 1)
  <2>1. (k + 1) - 1 = k /\ k \in 1..(m + 1) /\ k + 1 \in 1..(m + 1) /\ k < k + 1  BY <1>0
  <2>2. Start(stream, k + 1) = E[k] /\ Start(stream, k) = E[k - 1]  BY <2>1, <1>3
  <2> QED  BY <2>1, <2>2, <1>1, <1>7
<1>9. Start(stream, 1) = 0
  <2>1. 1 - 1 = 0  OBVIOUS
  <2> QED  BY <2>1, <1>1, <1>3
<1> QED  BY <1>5, <1>6, <1>7, <1>8, <1>9 DEF m

\* A head is that of one message only, and declares its size.
LEMMA HeadsDeclare ==
    ASSUME conn \in Nat, stream \in Seq(Nat), NEW k \in 1..Len(stream)
    PROVE  Declared(HeadBytes(k)) = stream[k]
<1>1. ASSUME NEW j \in 1..Len(stream), HeadBytes(k) = HeadBytes(j) PROVE j = k
  <2> DEFINE a == Start(stream, k)
             b == Start(stream, j)
             h == DEF_MSG_HEAD_SIZE
  <2>1. a \in Nat /\ b \in Nat /\ h \in Nat \ {0}  BY Starts, ProtoAssumption
  <2>2. Bytes(a + 1, a + h) = Bytes(b + 1, b + h)  BY <1>1 DEF HeadBytes
  <2> HIDE DEF a, b, h
  <2> DEFINE ae == a + h
             be == b + h
  <2>3. ae \in Nat /\ a <= ae /\ be \in Nat /\ b <= be /\ 1 \in 1..(ae - a) /\ 1 \in 1..(be - b)
    BY <2>1
  <2> HIDE DEF ae, be
  <2>4. Bytes(a + 1, ae)[1] = <<conn, a + 1>> /\ Bytes(b + 1, be)[1] = <<conn, b + 1>>
    BY <2>1, <2>3, BytesAre
  <2>5. a = b  BY <2>1, <2>2, <2>4 DEF ae, be
  <2>6. ~ (j < k) /\ ~ (k < j)
    <3>1. Len(stream) \in Nat  OBVIOUS
    <3>2. j \in 1..(Len(stream) + 1) /\ k \in 1..(Len(stream) + 1)  BY <3>1
    <3>3. (j < k => b + h <= a) /\ (k < j => a + h <= b)  BY <3>2, Starts DEF a, b, h
    <3> QED  BY <3>3, <2>1, <2>5
  <2> QED  BY <2>6
<1>2. (CHOOSE j \in 1..Len(stream) : HeadBytes(k) = HeadBytes(j)) = k  BY <1>1
<1> QED  BY <1>2 DEF Declared
----------------------------------------------------------------------------
(* The invariant of the loop over a chunk.                                 *)

Cache == [head : Seq(Byte), msg : Seq(Byte), size : Nat]

Parse == [cache : Cache, dispatched : Seq(Seq(Byte)), buf : Seq(Byte), ok : BOOLEAN]

\* The message that is being put together, and the position that the parse
\* has come to, when total bytes have been received.
Cur(p) == Len(p.dispatched) + 1

Pos(p, total) == total - Len(p.buf)

\* What has been dispatched are the messages before it.
Delivered(p, total) ==
    /\ Cur(p) <= Len(stream) + 1
    /\ \A j \in 1..Len(p.dispatched) :
          /\ p.dispatched[j] = MsgBytes(j) /\ chkValidHead(stream[j])
          /\ IF stream[j] > DEF_MSG_HEAD_SIZE
             THEN Start(stream, j + 1) <= total ELSE Start(stream, j + 1) < total

\* Its head is not complete,
InHead(p, total) ==
    /\ p.ok /\ p.cache.msg = <<>> /\ p.cache.size = 0
    /\ p.cache.head = Bytes(Start(stream, Cur(p)) + 1, Pos(p, total))
    /\ Start(stream, Cur(p)) <= Pos(p, total)
    /\ Pos(p, total) < Start(stream, Cur(p)) + DEF_MSG_HEAD_SIZE

\* or it is valid and the body is not complete, or not looked at,
InBody(p, total) ==
    /\ p.ok /\ Cur(p) <= Len(stream) /\ chkValidHead(stream[Cur(p)])
    /\ p.cache.head = HeadBytes(Cur(p)) /\ p.cache.size = stream[Cur(p)]
    /\ p.cache.msg = Bytes(Start(stream, Cur(p)) + 1, Pos(p, total))
    /\ Start(stream, Cur(p)) + DEF_MSG_HEAD_SIZE <= Pos(p, total)
    /\ \/ Pos(p, total) < Start(stream, Cur(p) + 1)
       \/ /\ stream[Cur(p)] = DEF_MSG_HEAD_SIZE
          /\ Pos(p, total) = Start(stream, Cur(p) + 1)

\* or it is not valid.
Refused(p, total) ==
    /\ ~p.ok /\ Cur(p) <= Len(stream) /\ ~chkValidHead(stream[Cur(p)])
    /\ Start(stream, Cur(p)) + DEF_MSG_HEAD_SIZE <= Pos(p, total)

Framed(p, total) ==
    /\ p \in Parse
    /\ Len(p.buf) <= total /\ p.buf = Bytes(Pos(p, total) + 1, total)
    /\ Delivered(p, total)
    /\ InHead(p, total) \/ InBody(p, total) \/ Refused(p, total)

\* A round that takes bytes to the head.
LEMMA HeadRound ==
    ASSUME conn \in Nat, stream \in Seq(Nat), NEW total \in 0..Total, NEW p,
           Framed(p, total), Goes(p), InHead(p, total)
    PROVE  Framed(parseHead(p), total)
<1> DEFINE k == Cur(p)
           a == Start(stream, k)
           x == Pos(p, total)
           h == DEF_MSG_HEAD_SIZE
           used == Fewer(h - Len(p.cache.head), Len(p.buf))
           y == x + used
           head == p.cache.head \o SubSeq(p.buf, 1, used)
           rest == [p EXCEPT !.buf = SubSeq(p.buf, used + 1, Len(p.buf))]
           q == parseHead(p)
<1>1. /\ h \in Nat \ {0} /\ total \in Nat /\ Total \in Nat /\ Len(stream) \in Nat
  BY ProtoAssumption, Starts
<1>2. /\ p \in Parse /\ p.buf \in Seq(Byte) /\ Len(p.buf) \in Nat /\ p.buf # <<>>
      /\ Len(p.buf) <= total /\ p.buf = Bytes(x + 1, total) /\ Delivered(p, total)
      /\ Len(p.dispatched) \in Nat /\ p.ok /\ p.cache \in Cache
  BY DEF Framed, Parse, Goes
<1>3. k \in 1..(Len(stream) + 1)  BY <1>1, <1>2 DEF Delivered, Cur
<1>4. a \in Nat /\ a <= Total  BY <1>3, Starts
<1>5. /\ p.cache.head = Bytes(a + 1, x) /\ a <= x /\ x < a + h
      /\ p.cache.msg = <<>> /\ p.cache.size = 0
  BY DEF InHead
<1>6. x \in Nat /\ x = total - Len(p.buf) /\ Len(p.buf) # 0 /\ x < total
  <2>1. Len(p.buf) # 0  BY <1>2, EmptySeq
  <2> QED  BY <2>1, <1>1, <1>2 DEF Pos
<1>7. Len(p.cache.head) = x - a  BY <1>4, <1>5, <1>6, BytesAre
<1>8. k \in 1..Len(stream)
  <2>1. k # Len(stream) + 1
    <3>1. Start(stream, Len(stream) + 1) = Total  BY DEF Total
    <3> HIDE DEF x
    <3> QED  BY <3>1, <1>1, <1>4, <1>5, <1>6
  <2> QED  BY <2>1, <1>1, <1>3
<1> HIDE DEF k, a, x, h
<1>9. /\ used \in 0..(total - x) /\ used <= h - (x - a)
      /\ used = h - (x - a) \/ used = total - x
  <2>0. /\ a \in Nat /\ x \in Nat /\ h \in Nat /\ total \in Nat
        /\ a <= x /\ x < a + h /\ x < total
    BY <1>1, <1>4, <1>5, <1>6
  <2>1. /\ Len(p.cache.head) = x - a /\ Len(p.buf) = total - x
        /\ x - a \in Nat /\ h - (x - a) \in Nat /\ total - x \in Nat
    <3>1. x - a \in Nat /\ h - (x - a) \in Nat /\ total - x \in Nat  BY <2>0
    <3>2. Len(p.buf) = total - x
      <4>1. x = total - Len(p.buf) /\ Len(p.buf) \in Nat  BY <1>2, <1>6
      <4> QED  BY <4>1, <2>0
    <3> QED  BY <3>1, <3>2, <1>7
  <2>2. used = IF h - (x - a) <= total - x THEN h - (x - a) ELSE total - x
    BY <2>1 DEF Fewer
  <2> HIDE DEF used
  <2> QED  BY <2>1, <2>2
<1> HIDE DEF used
<1>10. /\ head = Bytes(a + 1, y) /\ SubSeq(p.buf, used + 1, Len(p.buf)) = Bytes(y + 1, total)
       /\ y \in Nat /\ a <= y /\ x <= y /\ y <= total /\ y <= a + h
  <2>1. y \in Nat /\ a <= y /\ x <= y /\ y <= total /\ y <= a + h
    <3>1. /\ a \in Nat /\ x \in Nat /\ h \in Nat /\ total \in Nat /\ a <= x /\ x <= total
      BY <1>1, <1>4, <1>5, <1>6
    <3> QED  BY <3>1, <1>9
  <2>2. x <= total  BY <1>6, <1>1
  <2>3. /\ Bytes(a + 1, x) \o SubSeq(Bytes(x + 1, total), 1, used) = Bytes(a + 1, x + used)
        /\ SubSeq(Bytes(x + 1, total), used + 1, Len(Bytes(x + 1, total)))
              = Bytes(x + used + 1, total)
    <3>1. /\ a \in Nat /\ x \in Nat /\ total \in Nat /\ a <= x
      BY <1>1, <1>4, <1>5, <1>6
    <3>2. \A n \in 0..(total - x) :
            /\ Bytes(a + 1, x) \o SubSeq(Bytes(x + 1, total), 1, n) = Bytes(a + 1, x + n)
            /\ SubSeq(Bytes(x + 1, total), n + 1, Len(Bytes(x + 1, total)))
                  = Bytes(x + n + 1, total)
      BY <3>1, <2>2, BytesJoin
    <3>3. used \in 0..(total - x)  BY <1>9, <3>1, <2>2
    <3> QED  BY <3>2, <3>3
  <2> QED  BY <2>1, <2>3, <1>2, <1>5
<1> HIDE DEF head, y
<1>11. /\ head \in Seq(Byte) /\ Len(head) = y - a
       /\ Bytes(y + 1, total) \in Seq(Byte) /\ Len(Bytes(y + 1, total)) = total - y
  BY <1>1, <1>4, <1>10, BytesAre
<1>12. /\ rest \in Parse /\ rest.buf = Bytes(y + 1, total) /\ rest.cache = p.cache
       /\ rest.dispatched = p.dispatched /\ rest.ok
  BY <1>2, <1>10, <1>11 DEF Parse
<1>13. q = IF Len(head) = h THEN analyseHead(rest, head) ELSE [rest EXCEPT !.cache.head = head]
  BY DEF parseHead, head, used, h
<1> HIDE DEF rest
<1>14. CASE Len(head) = h
  <2>1. y = a + h  BY <1>1, <1>4, <1>10, <1>11, <1>14
  <2>2. head = HeadBytes(k)  BY <2>1, <1>10 DEF HeadBytes, a, h
  <2>3. Declared(head) = stream[k] /\ stream[k] \in Nat  BY <2>2, <1>8, HeadsDeclare
  <2>4. /\ q.cache = [head |-> head, msg |-> head, size |-> stream[k]]
        /\ q.ok = chkValidHead(stream[k]) /\ q.buf = Bytes(y + 1, total)
        /\ q.dispatched = p.dispatched /\ q \in Parse
    <3>1. q = [rest EXCEPT !.cache = [head |-> head, msg |-> head, size |-> stream[k]],
                           !.ok = chkValidHead(stream[k])]
      BY <2>3, <1>13, <1>14 DEF analyseHead
    <3>2. chkValidHead(stream[k]) \in BOOLEAN  BY DEF chkValidHead
    <3>3. [head |-> head, msg |-> head, size |-> stream[k]] \in Cache
      BY <2>3, <1>11 DEF Cache
    <3> HIDE DEF q
    <3> QED  BY <3>1, <3>2, <3>3, <1>12 DEF Parse
  <2> HIDE DEF q
  <2>5. Cur(q) = k /\ Pos(q, total) = y /\ Len(q.buf) <= total
    BY <2>4, <1>1, <1>10, <1>11 DEF Cur, Pos, k
  <2>6. Delivered(q, total)  BY <2>4, <2>5, <1>2 DEF Delivered, k
  <2>7. Start(stream, k + 1) = a + Width(stream[k])  BY <1>8, Starts DEF a
  <2>8. CASE chkValidHead(stream[k])
    <3>1. h <= stream[k]  BY <2>8, <2>3, <1>1 DEF chkValidHead, h
    <3>2. \/ y < Start(stream, k + 1)
          \/ stream[k] = h /\ y = Start(stream, k + 1)
      BY <3>1, <2>1, <2>3, <2>7, <1>1, <1>4 DEF Width, h
    <3>3. InBody(q, total)
      BY <3>2, <2>1, <2>2, <2>4, <2>5, <2>8, <1>1, <1>4, <1>8, <1>10 DEF InBody, a, h
    <3> QED  BY <3>3, <2>4, <2>5, <2>6 DEF Framed, q
  <2>9. CASE ~chkValidHead(stream[k])
    <3>1. Refused(q, total)
      BY <2>1, <2>4, <2>5, <2>9, <1>1, <1>4, <1>8 DEF Refused, a, h
    <3> QED  BY <3>1, <2>4, <2>5, <2>6 DEF Framed, q
  <2> QED  BY <2>8, <2>9
<1>15. CASE Len(head) # h
  <2>1. y < a + h  BY <1>1, <1>4, <1>10, <1>11, <1>15
  <2>2. /\ q.cache = [head |-> head, msg |-> <<>>, size |-> 0] /\ q.ok
        /\ q.buf = Bytes(y + 1, total) /\ q.dispatched = p.dispatched /\ q \in Parse
    <3>1. q = [rest EXCEPT !.cache = [rest.cache EXCEPT !.head = head]]  BY <1>13, <1>15
    <3>2. [rest.cache EXCEPT !.head = head] = [head |-> head, msg |-> <<>>, size |-> 0]
      BY <1>2, <1>5, <1>12 DEF Cache
    <3>3. [head |-> head, msg |-> <<>>, size |-> 0] \in Cache  BY <1>11 DEF Cache
    <3> HIDE DEF q
    <3> QED  BY <3>1, <3>2, <3>3, <1>12 DEF Parse
  <2> HIDE DEF q
  <2>3. Cur(q) = k /\ Pos(q, total) = y /\ Len(q.buf) <= total
    BY <2>2, <1>1, <1>10, <1>11 DEF Cur, Pos, k
  <2>4. Delivered(q, total)  BY <2>2, <2>3, <1>2 DEF Delivered, k
  <2>5. InHead(q, total)  BY <2>1, <2>2, <2>3, <1>10 DEF InHead, a, h
  <2> QED  BY <2>2, <2>3, <2>4, <2>5 DEF Framed, q
<1> QED  BY <1>14, <1>15

\* A round that takes bytes to the message, or finds that it is complete.
LEMMA BodyRound ==
    ASSUME conn \in Nat, stream \in Seq(Nat), NEW total \in 0..Total, NEW p,
           Framed(p, total), Goes(p), InBody(p, total)
    PROVE  Framed(parseBody(p), total)
<1> DEFINE k == Cur(p)
           a == Start(stream, k)
           b == Start(stream, k + 1)
           x == Pos(p, total)
           h == DEF_MSG_HEAD_SIZE
           size == stream[k]
           used == Fewer(left(p.cache), Len(p.buf))
           y == x + used
           msg == p.cache.msg \o SubSeq(p.buf, 1, used)
           rest == [p EXCEPT !.buf = SubSeq(p.buf, used + 1, Len(p.buf))]
           q == parseBody(p)
<1>1. /\ h \in Nat \ {0} /\ total \in Nat /\ Total \in Nat /\ Len(stream) \in Nat
  BY ProtoAssumption, Starts
<1>2. /\ p \in Parse /\ p.buf \in Seq(Byte) /\ Len(p.buf) \in Nat /\ p.buf # <<>>
      /\ Len(p.buf) <= total /\ p.buf = Bytes(x + 1, total) /\ Delivered(p, total)
      /\ p.dispatched \in Seq(Seq(Byte)) /\ Len(p.dispatched) \in Nat
      /\ p.ok /\ p.cache \in Cache
  BY DEF Framed, Parse, Goes
<1>3. k \in 1..Len(stream)  BY <1>1, <1>2 DEF InBody, Cur
<1>4. /\ a \in Nat /\ b \in Nat /\ size \in Nat /\ b = a + Width(size)
  <2>1. k \in 1..(Len(stream) + 1) /\ k + 1 \in 1..(Len(stream) + 1)  BY <1>1, <1>3
  <2> QED  BY <2>1, <1>3, Starts
<1>5. /\ p.cache.head = HeadBytes(k) /\ p.cache.size = size
      /\ p.cache.msg = Bytes(a + 1, x) /\ a + h <= x
      /\ x < b \/ (size = h /\ x = b)
      /\ chkValidHead(size)
  BY DEF InBody
<1>6. x \in Nat /\ Len(p.buf) = total - x /\ Len(p.buf) # 0 /\ x < total
  <2>1. Len(p.buf) # 0  BY <1>2, EmptySeq
  <2> QED  BY <2>1, <1>1, <1>2 DEF Pos
<1> HIDE DEF k, a, b, x, h, size
<1>7. h <= size /\ b = a + size /\ a <= x /\ x <= b
  <2>1. h <= size  BY <1>1, <1>4, <1>5 DEF chkValidHead, h
  <2>2. Width(size) = size  BY <2>1, <1>1, <1>4 DEF Width, h
  <2> QED  BY <2>1, <2>2, <1>1, <1>4, <1>5, <1>6
<1>8. left(p.cache) = b - x
  <2>1. Len(p.cache.msg) = x - a  BY <1>4, <1>5, <1>6, <1>7, BytesAre
  <2>2. left(p.cache) = size - (x - a)  BY <2>1, <1>5 DEF left
  <2> QED  BY <2>2, <1>4, <1>6, <1>7
<1>9. used = IF b - x <= total - x THEN b - x ELSE total - x
  BY <1>6, <1>8 DEF Fewer
<1> HIDE DEF used
<1>10. used \in 0..(total - x) /\ y \in Nat /\ a <= y /\ x <= y /\ y <= total
  <2>1. /\ a \in Nat /\ x \in Nat /\ b \in Nat /\ total \in Nat /\ a <= x /\ x <= total /\ x <= b
    BY <1>1, <1>4, <1>6, <1>7
  <2> QED  BY <2>1, <1>9
<1>11. msg = Bytes(a + 1, y) /\ SubSeq(p.buf, used + 1, Len(p.buf)) = Bytes(y + 1, total)
  <2>1. a \in Nat /\ x \in Nat /\ total \in Nat /\ a <= x /\ x <= total
    BY <1>1, <1>4, <1>6, <1>7
  <2>2. /\ Bytes(a + 1, x) \o SubSeq(Bytes(x + 1, total), 1, used) = Bytes(a + 1, x + used)
        /\ SubSeq(Bytes(x + 1, total), used + 1, Len(Bytes(x + 1, total)))
              = Bytes(x + used + 1, total)
    <3>1. used \in 0..(total - x)  BY <1>10
    <3> HIDE DEF used
    <3>2. \A n \in 0..(total - x) :
            /\ Bytes(a + 1, x) \o SubSeq(Bytes(x + 1, total), 1, n) = Bytes(a + 1, x + n)
            /\ SubSeq(Bytes(x + 1, total), n + 1, Len(Bytes(x + 1, total)))
                  = Bytes(x + n + 1, total)
      BY <2>1, BytesJoin
    <3> QED  BY <3>1, <3>2
  <2> QED  BY <2>2, <1>2, <1>5
<1> HIDE DEF msg, y
<1>12. /\ msg \in Seq(Byte)
       /\ Bytes(y + 1, total) \in Seq(Byte) /\ Len(Bytes(y + 1, total)) = total - y
  BY <1>1, <1>4, <1>10, <1>11, BytesAre
<1>13. /\ rest \in Parse /\ rest.buf = Bytes(y + 1, total) /\ rest.cache = p.cache
       /\ rest.dispatched = p.dispatched /\ rest.ok
  BY <1>2, <1>11, <1>12 DEF Parse
<1>14. q = IF left(p.cache) <= Len(p.buf)
           THEN [rest EXCEPT !.cache = emptyCache, !.dispatched = Append(rest.dispatched, msg)]
           ELSE [rest EXCEPT !.cache.msg = msg]
  BY DEF parseBody, msg, used
<1> HIDE DEF rest
<1>15. CASE b <= total
  <2>1. y = b  BY <1>1, <1>4, <1>6, <1>7, <1>9, <1>15 DEF y
  <2>2. msg = MsgBytes(k)  BY <2>1, <1>11 DEF MsgBytes, a, b
  <2> DEFINE ds == Append(p.dispatched, msg)
  <2>3. /\ ds \in Seq(Seq(Byte)) /\ Len(ds) = Len(p.dispatched) + 1
        /\ \A j \in 1..Len(p.dispatched) : ds[j] = p.dispatched[j]
        /\ ds[Len(p.dispatched) + 1] = msg
    BY <1>2, <1>12, AppendProperties
  <2> HIDE DEF ds
  <2>4. /\ q.cache = emptyCache /\ q.ok /\ q.buf = Bytes(y + 1, total)
        /\ q.dispatched = ds /\ q \in Parse
    <3>1. left(p.cache) <= Len(p.buf)  BY <1>1, <1>4, <1>6, <1>8, <1>15
    <3>2. q = [rest EXCEPT !.cache = emptyCache, !.dispatched = ds]
      BY <3>1, <1>13, <1>14 DEF ds
    <3>3. emptyCache \in Cache  BY DEF emptyCache, Cache
    <3> HIDE DEF q
    <3> QED  BY <3>2, <3>3, <2>3, <1>13 DEF Parse
  <2> HIDE DEF q
  <2>5. Cur(q) = k + 1 /\ Pos(q, total) = b /\ Len(q.buf) <= total
    <3>1. Len(q.dispatched) = Len(p.dispatched) + 1  BY <2>3, <2>4
    <3>2. Len(q.buf) = total - y /\ total - y <= total  BY <2>4, <1>1, <1>10, <1>12
    <3>3. Pos(q, total) = b
      <4>1. y \in Nat /\ total \in Nat  BY <1>1, <1>10
      <4> QED  BY <4>1, <3>2, <2>1 DEF Pos
    <3>4. Cur(q) = k + 1  BY <3>1 DEF Cur, k
    <3> QED  BY <3>2, <3>3, <3>4
  <2>6. Delivered(q, total)
    <3>1. k + 1 <= Len(stream) + 1  BY <1>1, <1>3
    <3>2. IF stream[k] > h THEN Start(stream, k + 1) <= total ELSE Start(stream, k + 1) < total
      BY <1>1, <1>4, <1>5, <1>6, <1>7, <1>15 DEF b, size
    <3>3. chkValidHead(stream[k])  BY <1>5 DEF size
    <3>4. k = Len(p.dispatched) + 1 /\ Len(q.dispatched) = k  BY <2>3, <2>4 DEF k, Cur
    <3>5. ASSUME NEW j \in 1..Len(q.dispatched)
          PROVE  /\ q.dispatched[j] = MsgBytes(j) /\ chkValidHead(stream[j])
                 /\ IF stream[j] > DEF_MSG_HEAD_SIZE
                    THEN Start(stream, j + 1) <= total ELSE Start(stream, j + 1) < total
      <4>1. CASE j = k  BY <4>1, <3>2, <3>3, <3>4, <2>2, <2>3, <2>4 DEF h
      <4>2. CASE j \in 1..Len(p.dispatched)
        BY <4>2, <2>3, <2>4, <1>2 DEF Delivered
      <4> QED  BY <4>1, <4>2, <3>4, <1>2
    <3> QED  BY <3>1, <3>5, <2>5 DEF Delivered
  <2>7. InHead(q, total)
    <3>1. Start(stream, Cur(q)) = b  BY <2>5 DEF b
    <3>2. Bytes(b + 1, b) = <<>>
      BY <1>4, NoBytes
    <3>3. b <= b /\ b < b + h  BY <1>1, <1>4
    <3> QED  BY <3>1, <3>2, <3>3, <2>4, <2>5 DEF InHead, emptyCache, h
  <2> QED  BY <2>1, <2>4, <2>5, <2>6, <2>7 DEF Framed, q
<1>16. CASE b > total
  <2>1. y = total  BY <1>1, <1>4, <1>6, <1>7, <1>9, <1>16 DEF y
  <2>2. /\ q.cache = [head |-> p.cache.head, msg |-> msg, size |-> size] /\ q.ok
        /\ q.buf = Bytes(y + 1, total) /\ q.dispatched = p.dispatched /\ q \in Parse
    <3>1. ~ (left(p.cache) <= Len(p.buf))  BY <1>1, <1>4, <1>6, <1>8, <1>16
    <3>2. q = [rest EXCEPT !.cache = [rest.cache EXCEPT !.msg = msg]]  BY <3>1, <1>14
    <3>3. [rest.cache EXCEPT !.msg = msg] = [head |-> p.cache.head, msg |-> msg, size |-> size]
      <4>1. rest.cache = p.cache /\ p.cache.size = size /\ p.cache \in Cache
        BY <1>2, <1>5, <1>13
      <4> DEFINE c == p.cache
      <4>2. c \in Cache /\ c.size = size  BY <4>1
      <4> HIDE DEF c
      <4>3. [c EXCEPT !.msg = msg] = [head |-> c.head, msg |-> msg, size |-> size]
        BY <4>2 DEF Cache
      <4> QED  BY <4>1, <4>3 DEF c
    <3>4. [head |-> p.cache.head, msg |-> msg, size |-> size] \in Cache
      BY <1>2, <1>4, <1>12 DEF Cache
    <3> HIDE DEF q
    <3> QED  BY <3>2, <3>3, <3>4, <1>13 DEF Parse
  <2> HIDE DEF q
  <2>3. Cur(q) = k /\ Pos(q, total) = y /\ Len(q.buf) <= total
    BY <2>2, <1>1, <1>10, <1>12 DEF Cur, Pos, k
  <2>4. Delivered(q, total)  BY <2>2, <2>3, <1>2 DEF Delivered, k
  <2>5. y < b /\ a + h <= y
    BY <2>1, <1>1, <1>4, <1>5, <1>6, <1>16
  <2>6. k <= Len(stream)  BY <1>1, <1>3
  <2>7. InBody(q, total)
    BY <2>2, <2>3, <2>5, <2>6, <1>5, <1>11 DEF InBody, a, b, h, size
  <2> QED  BY <2>2, <2>3, <2>4, <2>7 DEF Framed, q
<1> QED  BY <1>1, <1>4, <1>15, <1>16

\* While nothing has failed, the head tells which of the rounds comes next.
LEMMA HeadTells ==
    ASSUME conn \in Nat, stream \in Seq(Nat), NEW total \in 0..Total, NEW p,
           Framed(p, total), p.ok
    PROVE  \/ InHead(p, total) /\ Len(p.cache.head) \in 0..(DEF_MSG_HEAD_SIZE - 1)
           \/ /\ InBody(p, total) /\ Len(p.cache.head) = DEF_MSG_HEAD_SIZE
              /\ left(p.cache) \in Nat /\ Len(p.cache.msg) <= p.cache.size
<1> DEFINE k == Cur(p)
           a == Start(stream, k)
           x == Pos(p, total)
           h == DEF_MSG_HEAD_SIZE
<1>1. /\ h \in Nat \ {0} /\ total \in Nat /\ Total \in Nat /\ Len(stream) \in Nat
      /\ p \in Parse /\ Len(p.buf) \in Nat /\ Len(p.buf) <= total /\ Delivered(p, total)
      /\ Len(p.dispatched) \in Nat
  BY ProtoAssumption, Starts DEF Framed, Parse
<1>2. k \in 1..(Len(stream) + 1)  BY <1>1 DEF Delivered, Cur
<1>3. a \in Nat  BY <1>2, Starts
<1>4. x \in Nat  BY <1>1 DEF Pos
<1>5. InHead(p, total) \/ InBody(p, total)  BY DEF Framed, Refused
<1> HIDE DEF k, a, x, h
<1>6. CASE InHead(p, total)
  <2>1. p.cache.head = Bytes(a + 1, x) /\ a <= x /\ x < a + h
    BY <1>6 DEF InHead, k, a, x, h
  <2>2. Len(p.cache.head) = x - a  BY <2>1, <1>3, <1>4, BytesAre
  <2> QED  BY <2>1, <2>2, <1>1, <1>3, <1>4, <1>6 DEF h
<1>7. CASE InBody(p, total)
  <2> DEFINE size == stream[k]
             ah == a + h
  <2>1. k \in 1..Len(stream)  BY <1>1, <1>2, <1>7 DEF InBody, k
  <2>2. /\ size \in Nat /\ Start(stream, k + 1) = a + Width(size)
    BY <2>1, Starts DEF a
  <2>3. /\ p.cache.head = Bytes(a + 1, ah) /\ p.cache.size = size
        /\ p.cache.msg = Bytes(a + 1, x) /\ ah <= x
        /\ x < Start(stream, k + 1) \/ (size = h /\ x = Start(stream, k + 1))
        /\ chkValidHead(size)
    BY <1>7 DEF InBody, HeadBytes, k, a, x, h
  <2>4. h <= size /\ Width(size) = size
    <3>1. h <= size  BY <2>3, <2>2, <1>1 DEF chkValidHead, h
    <3> QED  BY <3>1, <2>2, <1>1 DEF Width, h
  <2>5. ah \in Nat /\ a <= ah /\ ah - a = h /\ a <= x  BY <2>3, <1>1, <1>3, <1>4
  <2> HIDE DEF ah, size
  <2>6. Len(p.cache.head) = h  BY <2>3, <2>5, <1>3, BytesAre
  <2>7. Len(p.cache.msg) = x - a  BY <2>3, <2>5, <1>3, <1>4, BytesAre
  <2>8. x - a <= size  BY <2>2, <2>3, <2>4, <1>1, <1>3, <1>4
  <2>9. left(p.cache) = size - (x - a)  BY <2>3, <2>7 DEF left
  <2> QED  BY <2>2, <2>3, <2>5, <2>6, <2>7, <2>8, <2>9, <1>3, <1>4, <1>7 DEF h
<1> QED  BY <1>5, <1>6, <1>7

\* A round keeps the parse framed.
LEMMA IterateFramed ==
    ASSUME conn \in Nat, stream \in Seq(Nat), NEW total \in 0..Total, NEW p,
           Framed(p, total)
    PROVE  Framed(Iterate(p), total)
<1>1. CASE ~Goes(p)  BY <1>1 DEF Iterate
<1>2. CASE Goes(p)
  <2>1. p.ok  BY <1>2 DEF Goes
  <2>2. CASE InHead(p, total) /\ Len(p.cache.head) \in 0..(DEF_MSG_HEAD_SIZE - 1)
    <3>1. Len(p.cache.head) < DEF_MSG_HEAD_SIZE  BY <2>2, ProtoAssumption
    <3>2. Framed(parseHead(p), total)  BY <2>2, <1>2, HeadRound
    <3> QED  BY <3>1, <3>2, <1>2 DEF Iterate
  <2>3. CASE InBody(p, total) /\ Len(p.cache.head) = DEF_MSG_HEAD_SIZE
    <3>1. ~ (Len(p.cache.head) < DEF_MSG_HEAD_SIZE)  BY <2>3, ProtoAssumption
    <3>2. Framed(parseBody(p), total)  BY <2>3, <1>2, BodyRound
    <3> QED  BY <3>1, <3>2, <1>2 DEF Iterate
  <2> QED  BY <2>1, <2>2, <2>3, HeadTells
<1> QED  BY <1>1, <1>2

\* What decreases with every round: a byte counts for the two rounds that it
\* may take, and a message with a complete head for the one that dispatches it.
Remains(p) ==
    2 * Len(p.buf) + (IF Len(p.cache.head) < DEF_MSG_HEAD_SIZE THEN 0 ELSE 1)

\* A round of the loop that goes on makes progress.
LEMMA IterateDecreases ==
    ASSUME conn \in Nat, stream \in Seq(Nat), NEW total \in 0..Total, NEW p,
           Framed(p, total), Goes(p)
    PROVE  Remains(Iterate(p)) < Remains(p)
<1> DEFINE h == DEF_MSG_HEAD_SIZE
           n == Len(p.buf)
           c == Len(p.cache.head)
<1>1. /\ h \in Nat \ {0} /\ p \in Parse /\ p.buf \in Seq(Byte) /\ n \in Nat /\ n # 0
      /\ p.cache \in Cache
  BY ProtoAssumption, EmptySeq DEF Framed, Parse, Goes
<1>2. ASSUME NEW used \in 0..n
      PROVE  SubSeq(p.buf, used + 1, n) \in Seq(Byte) /\ Len(SubSeq(p.buf, used + 1, n)) = n - used
  <2>1. used + 1 \in Int /\ n \in Int /\ \A i \in (used + 1)..n : p.buf[i] \in Byte  BY <1>1
  <2>2. /\ SubSeq(p.buf, used + 1, n) \in Seq(Byte)
        /\ Len(SubSeq(p.buf, used + 1, n)) = IF used + 1 <= n THEN n - (used + 1) + 1 ELSE 0
    BY <2>1, SubSeqProperties
  <2> QED  BY <2>2, <1>1
<1>3. CASE InHead(p, total) /\ c \in 0..(h - 1)
  <2> DEFINE used == Fewer(h - c, n)
             head == p.cache.head \o SubSeq(p.buf, 1, used)
             rest == [p EXCEPT !.buf = SubSeq(p.buf, used + 1, n)]
             q == parseHead(p)
  <2>1. used \in 1..n
    <3>1. used = IF h - c <= n THEN h - c ELSE n  BY DEF Fewer
    <3> HIDE DEF used, h, n, c
    <3> QED  BY <3>1, <1>1, <1>3
  <2>2. q = IF Len(head) = h THEN analyseHead(rest, head) ELSE [rest EXCEPT !.cache.head = head]
    BY DEF parseHead
  <2> HIDE DEF used, head
  <2>3. rest.buf = SubSeq(p.buf, used + 1, n) /\ rest \in Parse
    <3>1. used \in 0..n  BY <2>1
    <3>2. SubSeq(p.buf, used + 1, n) \in Seq(Byte)  BY <3>1, <1>2
    <3> HIDE DEF n
    <3> QED  BY <3>2, <1>1 DEF Parse
  <2>4. q.buf = rest.buf
    <3> HIDE DEF rest, q
    <3> QED  BY <2>2, <2>3 DEF analyseHead, Parse
  <2>5. Len(q.buf) = n - used  BY <2>1, <2>3, <2>4, <1>2
  <2>6. Iterate(p) = q  BY <1>1, <1>3 DEF Iterate
  <2>7. Remains(p) = 2 * n
    <3>1. c < h  BY <1>1, <1>3
    <3>2. Remains(p) = 2 * n + (IF c < h THEN 0 ELSE 1)  BY DEF Remains
    <3> HIDE DEF n, c, h
    <3> QED  BY <3>1, <3>2, <1>1
  <2>8. Remains(q) = 2 * Len(q.buf) + (IF Len(q.cache.head) < h THEN 0 ELSE 1)
    BY DEF Remains
  <2> HIDE DEF q, n, h, c, rest
  <2>9. Remains(q) <= 2 * (n - used) + 1  BY <2>1, <2>5, <2>8, <1>1
  <2>10. 2 * (n - used) + 1 < 2 * n  BY <2>1, <1>1
  <2>11. Remains(q) \in Int  BY <2>1, <2>5, <2>8, <1>1
  <2> QED  BY <2>1, <2>6, <2>7, <2>9, <2>10, <2>11, <1>1
<1>4. CASE InBody(p, total) /\ c = h /\ left(p.cache) \in Nat
  <2> DEFINE used == Fewer(left(p.cache), n)
             msg == p.cache.msg \o SubSeq(p.buf, 1, used)
             rest == [p EXCEPT !.buf = SubSeq(p.buf, used + 1, n)]
             q == parseBody(p)
  <2>1. used \in 0..n /\ used = IF left(p.cache) <= n THEN left(p.cache) ELSE n
    <3>1. used = IF left(p.cache) <= n THEN left(p.cache) ELSE n  BY DEF Fewer
    <3> HIDE DEF used, n
    <3> QED  BY <3>1, <1>1, <1>4
  <2>2. q = IF left(p.cache) <= n
            THEN [rest EXCEPT !.cache = emptyCache, !.dispatched = Append(rest.dispatched, msg)]
            ELSE [rest EXCEPT !.cache.msg = msg]
    BY DEF parseBody
  <2>3. rest.buf = SubSeq(p.buf, used + 1, n) /\ rest \in Parse
    <3> HIDE DEF used
    <3>1. SubSeq(p.buf, used + 1, n) \in Seq(Byte)  BY <2>1, <1>2
    <3> HIDE DEF n
    <3> QED  BY <3>1, <1>1 DEF Parse
  <2>4. ~ (c < h) /\ ~ (Len(p.cache.head) < DEF_MSG_HEAD_SIZE)  BY <1>1, <1>4
  <2>5. Iterate(p) = q  BY <2>4 DEF Iterate
  <2>6. Remains(p) = 2 * n + 1  BY <2>4 DEF Remains
  <2>7. Remains(q) = 2 * Len(q.buf) + (IF Len(q.cache.head) < h THEN 0 ELSE 1)
    BY DEF Remains
  <2> HIDE DEF q, rest, msg, used
  <2>8. Len(q.buf) = n - used
    <3>1. q.buf = SubSeq(p.buf, used + 1, n)  BY <2>2, <2>3 DEF Parse
    <3> QED  BY <3>1, <2>1, <1>2
  <2>9. CASE used = 0
    <3>1. left(p.cache) <= n  BY <2>1, <2>9, <1>1, <1>4
    <3>2. q.cache = emptyCache  BY <3>1, <2>2, <2>3 DEF Parse
    <3>3. Len(q.cache.head) = 0  BY <3>2, EmptySeq DEF emptyCache
    <3> HIDE DEF n, h, c
    <3> QED  BY <3>3, <2>5, <2>6, <2>7, <2>8, <2>9, <1>1
  <2>10. CASE used # 0
    <3> HIDE DEF n, h, c
    <3>1. n - used \in Nat /\ n - used < n  BY <2>1, <2>10, <1>1
    <3>2. /\ Remains(q) \in Int
          /\ Remains(q) <= 2 * (n - used) + 1
      BY <3>1, <2>7, <2>8
    <3>3. 2 * (n - used) + 1 < 2 * n + 1 /\ Remains(p) = 2 * n + 1
      BY <3>1, <2>1, <2>6, <1>1
    <3> QED  BY <2>5, <3>1, <3>2, <3>3, <1>1
  <2> QED  BY <2>9, <2>10
<1> QED
  <2>1. p.ok  BY DEF Goes
  <2> QED  BY <2>1, <1>3, <1>4, HeadTells
----------------------------------------------------------------------------
(* The loop over a chunk.                                                  *)

\* The rounds are enough: in the end no bytes are left or a head was invalid.
LEMMA ChunkFramed ==
    ASSUME conn \in Nat, stream \in Seq(Nat), NEW total \in 0..Total, NEW p,
           Framed(p, total)
    PROVE  Framed(parseChunk(p), total) /\ ~Goes(parseChunk(p))
<1> DEFINE r == Rounds(p)
           X == {q \in Parse : Framed(q, total)}
           step == [i \in 1..r |-> [q \in X |-> Iterate(q)]]
<1>1. \A q : Framed(q, total) => q \in Parse /\ Len(q.buf) \in Nat /\ Remains(q) \in Nat
  BY DEF Framed, Parse, Remains
<1>2. r \in Nat /\ Remains(p) <= r
  <2>1. Len(p.buf) \in Nat  BY <1>1
  <2> QED  BY <2>1 DEF Rounds, Remains
<1>3. p \in X  BY <1>1
<1>4. \A q \in X : Iterate(q) \in X  BY <1>1, IterateFramed
<1>5. step \in [1..r -> [X -> X]]  BY <1>4
<1>6. \A i \in 1..r, q \in X : step[i][q] = Iterate(q)  OBVIOUS
<1> HIDE DEF step, X, r
<1>7. PICK f : Recurses(r, X, p, step, f)  BY <1>2, <1>3, <1>5, Recursion
<1>8. \A i \in 0..r : f[i] = IF i = 0 THEN p ELSE Iterate(f[i - 1])
  <2> SUFFICES ASSUME NEW i \in 0..r PROVE f[i] = IF i = 0 THEN p ELSE Iterate(f[i - 1])
    OBVIOUS
  <2>1. CASE i = 0  BY <2>1, <1>7 DEF Recurses
  <2>2. CASE i \in 1..r
    <3>1. i - 1 \in 0..r  BY <2>2, <1>2
    <3>2. f[i] = step[i][f[i - 1]] /\ f[i - 1] \in X  BY <2>2, <3>1, <1>7 DEF Recurses
    <3> QED  BY <2>2, <3>2, <1>6
  <2> QED  BY <2>1, <2>2
<1>9. f = [i \in 0..r |-> IF i = 0 THEN p ELSE Iterate(f[i - 1])]
  BY <1>7, <1>8 DEF Recurses
<1> DEFINE F == CHOOSE g : g = [i \in 0..r |-> IF i = 0 THEN p ELSE Iterate(g[i - 1])]
<1>10. Parses(p) = F  BY DEF Parses, r
<1>11. F = [i \in 0..r |-> IF i = 0 THEN p ELSE Iterate(F[i - 1])]  BY <1>9
<1> HIDE DEF F
<1>12. \A i \in 0..r : F[i] = IF i = 0 THEN p ELSE Iterate(F[i - 1])  BY <1>11
<1> DEFINE S == {i \in 0..r : /\ Framed(F[i], total)
                              /\ Goes(F[i]) => Remains(F[i]) <= r - i}
<1>13. 0 \in S  BY <1>2, <1>12
<1>14. ASSUME NEW n \in 0..(r - 1), n \in S PROVE n + 1 \in S
  <2>1. n + 1 \in 0..r /\ n + 1 # 0 /\ (n + 1) - 1 = n  BY <1>2
  <2>2. F[n + 1] = Iterate(F[n])  BY <2>1, <1>12
  <2>3. Framed(F[n], total)  BY <1>14
  <2>4. Framed(F[n + 1], total)  BY <2>2, <2>3, IterateFramed
  <2>5. Goes(F[n + 1]) => Remains(F[n + 1]) <= r - (n + 1)
    <3>1. CASE Goes(F[n])
      <4>1. Remains(F[n + 1]) < Remains(F[n])  BY <3>1, <2>2, <2>3, IterateDecreases
      <4>2. Remains(F[n]) <= r - n  BY <3>1, <1>14
      <4>3. Remains(F[n]) \in Nat /\ Remains(F[n + 1]) \in Nat  BY <2>3, <2>4, <1>1
      <4> QED  BY <4>1, <4>2, <4>3, <1>2
    <3>2. CASE ~Goes(F[n])
      <4>1. F[n + 1] = F[n]  BY <3>2, <2>2 DEF Iterate
      <4> QED  BY <3>2, <4>1
    <3> QED  BY <3>1, <3>2
  <2> QED  BY <2>1, <2>4, <2>5
<1> HIDE DEF S
<1>15. \A i \in 0..r : i \in S  BY <1>2, <1>13, <1>14, Induction
<1>16. Framed(F[r], total) /\ (Goes(F[r]) => Remains(F[r]) <= r - r)
  <2>1. r \in S  BY <1>2, <1>15
  <2> QED  BY <2>1 DEF S
<1>17. ~Goes(F[r])
  <2> SUFFICES ASSUME Goes(F[r]) PROVE FALSE  OBVIOUS
  <2> DEFINE n == Len(F[r].buf)
  <2>1. Remains(F[r]) <= 0  BY <1>2, <1>16
  <2>2. n \in Nat /\ n # 0  BY <1>1, <1>16, EmptySeq DEF Framed, Parse, Goes
  <2>3. \/ Remains(F[r]) = 2 * n + 0
        \/ Remains(F[r]) = 2 * n + 1
    BY DEF Remains
  <2> HIDE DEF n
  <2> QED  BY <2>1, <2>2, <2>3
<1> QED  BY <1>10, <1>16, <1>17 DEF parseChunk, r
----------------------------------------------------------------------------
(* The invariant.                                                          *)

\* What the connection has got, with the bytes b that it has just delivered.
Got(b) == [cache |-> cache, dispatched |-> dispatched, buf |-> b, ok |-> open]

\* The cache and what has been dispatched are a parse of all that has been
\* received.
IInv ==
    /\ conn \in Nat /\ stream \in Seq(Nat) /\ sent \in 0..Total /\ open \in BOOLEAN
    /\ Framed(Got(<<>>), sent)

\* Nothing has been received on a new connection.
Fresh ==
    /\ conn \in Nat /\ stream \in Seq(Nat) /\ sent = 0 /\ open = TRUE
    /\ cache = emptyCache /\ dispatched = <<>>

\* A new connection has parsed all the nothing that it received.
LEMMA FreshFramed == Fresh => IInv
<1> SUFFICES ASSUME Fresh PROVE IInv  OBVIOUS
<1> USE DEF Fresh
<1> DEFINE p == Got(<<>>)
<1>1. p = [cache |-> emptyCache, dispatched |-> <<>>, buf |-> <<>>, ok |-> TRUE]  BY DEF Got
<1>2. /\ Total \in Nat /\ Start(stream, 1) = 0 /\ Len(stream) \in Nat
      /\ DEF_MSG_HEAD_SIZE \in Nat \ {0}
  BY Starts, ProtoAssumption
<1>3. Bytes(0 + 1, 0) = <<>>  BY NoBytes
<1>4. /\ p.cache = [head |-> <<>>, msg |-> <<>>, size |-> 0] /\ p.dispatched = <<>>
      /\ p.buf = <<>> /\ p.ok /\ p \in Parse
  <2>1. <<>> \in Seq(Byte) /\ <<>> \in Seq(Seq(Byte))  OBVIOUS
  <2>2. emptyCache = [head |-> <<>>, msg |-> <<>>, size |-> 0]  BY DEF emptyCache
  <2>3. emptyCache \in Cache  BY <2>1, <2>2 DEF Cache
  <2> HIDE DEF p
  <2>4. p \in Parse  BY <2>1, <2>3, <1>1 DEF Parse
  <2> QED  BY <2>2, <2>4, <1>1
<1> HIDE DEF p
<1>5. Len(p.buf) = 0 /\ Len(p.dispatched) = 0  BY <1>4, EmptySeq
<1>6. Cur(p) = 1 /\ Pos(p, 0) = 0  BY <1>5 DEF Cur, Pos
<1>7. Delivered(p, 0)  BY <1>2, <1>5, <1>6 DEF Delivered
<1>8. InHead(p, 0)  BY <1>2, <1>3, <1>4, <1>6 DEF InHead
<1>9. Framed(p, 0)  BY <1>3, <1>4, <1>5, <1>6, <1>7, <1>8 DEF Framed
<1> QED  BY <1>2, <1>9 DEF IInv, p

\* What a chunk leaves is a parse of the bytes that have been received.
LEMMA ParseKeeps ==
    ASSUME IInv, open, NEW n \in 1..(Total - sent), NEW p,
           p = parseChunk(Got(Bytes(sent + 1, sent + n)))
    PROVE  /\ sent + n \in 0..Total /\ p.ok \in BOOLEAN
           /\ Framed([cache |-> p.cache, dispatched |-> p.dispatched,
                      buf |-> <<>>, ok |-> p.ok], sent + n)
<1> DEFINE all == sent + n
           g == Got(<<>>)
           b == Bytes(sent + 1, all)
           q == Got(b)
           z == [cache |-> p.cache, dispatched |-> p.dispatched, buf |-> <<>>, ok |-> p.ok]
<1>1. /\ conn \in Nat /\ stream \in Seq(Nat) /\ sent \in 0..Total /\ Total \in Nat
      /\ Framed(g, sent)
  BY Starts DEF IInv
<1>2. all \in 0..Total /\ sent <= all /\ all - sent = n  BY <1>1
<1>3. b \in Seq(Byte) /\ Len(b) = n
  <2>1. sent \in Nat /\ all \in Nat  BY <1>1
  <2> HIDE DEF all
  <2> QED  BY <1>1, <1>2, <2>1, BytesAre
<1> HIDE DEF all, b
<1>4. /\ g.cache = cache /\ g.dispatched = dispatched /\ g.ok = open /\ g.buf = <<>>
      /\ q.cache = cache /\ q.dispatched = dispatched /\ q.ok = open /\ q.buf = b
  BY DEF Got
<1>5. Len(g.buf) = 0  BY <1>4, EmptySeq
<1>6. q \in Parse
  <2>1. g \in Parse  BY <1>1 DEF Framed
  <2>2. cache \in Cache /\ dispatched \in Seq(Seq(Byte)) /\ open \in BOOLEAN
    BY <2>1, <1>4 DEF Parse
  <2> QED  BY <2>2, <1>3 DEF Parse, Got
<1> HIDE DEF g, q
<1>7. Pos(g, sent) = sent /\ Pos(q, all) = sent /\ Cur(g) = Cur(q)
  BY <1>1, <1>2, <1>3, <1>4, <1>5 DEF Pos, Cur
<1>8. Len(q.buf) <= all /\ q.buf = Bytes(Pos(q, all) + 1, all)
  BY <1>1, <1>2, <1>3, <1>4, <1>7 DEF b
<1>9. Delivered(q, all)
  <2>1. Delivered(g, sent)  BY <1>1 DEF Framed
  <2>2. q.dispatched = g.dispatched  BY <1>4
  <2>3. Cur(q) <= Len(stream) + 1  BY <2>1, <1>7 DEF Delivered
  <2>4. ASSUME NEW j \in 1..Len(q.dispatched)
        PROVE  /\ q.dispatched[j] = MsgBytes(j) /\ chkValidHead(stream[j])
               /\ IF stream[j] > DEF_MSG_HEAD_SIZE
                  THEN Start(stream, j + 1) <= all ELSE Start(stream, j + 1) < all
    <3>1. /\ q.dispatched[j] = MsgBytes(j) /\ chkValidHead(stream[j])
          /\ IF stream[j] > DEF_MSG_HEAD_SIZE
             THEN Start(stream, j + 1) <= sent ELSE Start(stream, j + 1) < sent
      BY <2>1, <2>2 DEF Delivered
    <3>2. Start(stream, j + 1) \in Nat
      <4>1. Len(q.dispatched) \in Nat /\ Len(stream) \in Nat  BY <1>6, <1>1 DEF Parse
      <4>2. j + 1 \in 1..(Len(stream) + 1)  BY <4>1, <2>3 DEF Cur
      <4> QED  BY <4>2, <1>1, Starts
    <3> QED  BY <3>1, <3>2, <1>1, <1>2
  <2> QED  BY <2>3, <2>4 DEF Delivered
<1>10. InHead(q, all) \/ InBody(q, all)
  <2>1. InHead(g, sent) \/ InBody(g, sent)  BY <1>1, <1>4 DEF Framed, Refused
  <2>2. g.cache = q.cache /\ g.ok = q.ok  BY <1>4
  <2> QED  BY <2>1, <2>2, <1>7 DEF InHead, InBody
<1>11. Framed(q, all)  BY <1>6, <1>8, <1>9, <1>10 DEF Framed
<1>12. p = parseChunk(q)  BY DEF q, b, all
<1>13. Framed(p, all) /\ ~Goes(p)  BY <1>1, <1>2, <1>11, <1>12, ChunkFramed
<1>14. p \in Parse /\ Len(p.buf) \in Nat /\ p.ok \in BOOLEAN /\ Len(p.buf) <= all
  BY <1>13 DEF Framed, Parse
<1>15. z.cache = p.cache /\ z.dispatched = p.dispatched /\ z.buf = <<>> /\ z.ok = p.ok
       /\ z \in Parse
  BY <1>14 DEF Parse
<1> HIDE DEF z
<1>16. Len(z.buf) = 0 /\ Cur(z) = Cur(p) /\ Pos(z, all) = all /\ Pos(p, all) <= all
  BY <1>2, <1>14, <1>15, EmptySeq DEF Cur, Pos
<1>17. z.buf = Bytes(Pos(z, all) + 1, all) /\ Len(z.buf) <= all
  <2>1. all \in Nat  BY <1>2
  <2>4. Bytes(all + 1, all) = <<>>  BY <2>1, <1>1, NoBytes
  <2> QED  BY <2>1, <2>4, <1>15, <1>16
<1>18. Delivered(z, all)  BY <1>13, <1>15, <1>16 DEF Framed, Delivered
<1>19. InHead(z, all) \/ InBody(z, all) \/ Refused(z, all)
  <2>1. CASE p.ok
    <3>1. p.buf = <<>>  BY <2>1, <1>13 DEF Goes
    <3>2. Pos(p, all) = all  BY <3>1, <1>2, EmptySeq DEF Pos
    <3>3. InHead(p, all) \/ InBody(p, all)  BY <2>1, <1>13 DEF Framed, Refused
    <3> QED  BY <3>2, <3>3, <1>15, <1>16 DEF InHead, InBody
  <2>2. CASE ~p.ok
    <3>1. Refused(p, all)  BY <2>2, <1>13 DEF Framed, InHead, InBody
    <3>2. Start(stream, Cur(p)) + DEF_MSG_HEAD_SIZE <= all
      <4>1. Cur(p) \in 1..(Len(stream) + 1) /\ Len(stream) \in Nat
        BY <3>1, <1>1, <1>14 DEF Refused, Cur, Parse
      <4>2. Start(stream, Cur(p)) \in Nat /\ DEF_MSG_HEAD_SIZE \in Nat
        BY <4>1, <1>1, Starts, ProtoAssumption
      <4>3. Start(stream, Cur(p)) + DEF_MSG_HEAD_SIZE <= Pos(p, all) /\ Pos(p, all) \in Int
        BY <3>1, <1>2, <1>14 DEF Refused, Pos
      <4> QED  BY <4>2, <4>3, <1>2, <1>16
    <3> QED  BY <3>1, <3>2, <1>15, <1>16 DEF Refused
  <2> QED  BY <2>1, <2>2
<1>20. Framed(z, all)  BY <1>15, <1>17, <1>18, <1>19 DEF Framed
<1> QED  BY <1>2, <1>14, <1>20 DEF z, all

\* What is said of a parse depends on the connection and its stream only.
LEMMA FramedStays ==
    ASSUME conn' = conn, stream' = stream, NEW p, NEW total, Framed(p, total),
           Got(<<>>)' = p, sent' = total
    PROVE  Framed(Got(<<>>), sent)'
<1>1. \A i, j : Bytes(i, j)' = Bytes(i, j)  BY DEF Bytes
<1>2. \A k : MsgBytes(k)' = MsgBytes(k) /\ HeadBytes(k)' = HeadBytes(k)
  BY <1>1 DEF MsgBytes, HeadBytes
<1>3. Delivered(Got(<<>>), sent)'
  BY <1>2 DEF Framed, Delivered, Cur
<1>4. (InHead(Got(<<>>), sent) \/ InBody(Got(<<>>), sent) \/ Refused(Got(<<>>), sent))'
  BY <1>1, <1>2 DEF Framed, InHead, InBody, Refused, Cur, Pos
<1>5. (Got(<<>>).buf = Bytes(Pos(Got(<<>>), sent) + 1, sent))'
  BY <1>1 DEF Framed, Pos
<1> QED  BY <1>3, <1>4, <1>5 DEF Framed

\* A chunk and a new connection preserve the invariant.
LEMMA Inductive == IInv /\ [Next]_vars => IInv'
<1> SUFFICES ASSUME IInv, [Next]_vars PROVE IInv'  OBVIOUS
<1>1. CASE parseData
  <2>1. /\ open /\ conn' = conn /\ stream' = stream
        /\ \E n \in 1..(Total - sent) :
              LET p == parseChunk([cache |-> cache, dispatched |-> dispatched,
                                   buf |-> Bytes(sent + 1, sent + n), ok |-> TRUE])
              IN /\ sent' = sent + n /\ cache' = p.cache
                 /\ dispatched' = p.dispatched /\ open' = p.ok
    BY <1>1 DEF parseData
  <2>2. open = TRUE  BY <2>1 DEF IInv
  <2>3. PICK n \in 1..(Total - sent) :
           LET p == parseChunk([cache |-> cache, dispatched |-> dispatched,
                                buf |-> Bytes(sent + 1, sent + n), ok |-> TRUE])
           IN /\ sent' = sent + n /\ cache' = p.cache
              /\ dispatched' = p.dispatched /\ open' = p.ok
    BY <2>1
  <2> DEFINE p == parseChunk(Got(Bytes(sent + 1, sent + n)))
             z == [cache |-> p.cache, dispatched |-> p.dispatched, buf |-> <<>>, ok |-> p.ok]
  <2>4. sent' = sent + n /\ cache' = p.cache /\ dispatched' = p.dispatched /\ open' = p.ok
    BY <2>2, <2>3 DEF Got
  <2>5. sent + n \in 0..Total /\ p.ok \in BOOLEAN /\ Framed(z, sent + n)
    BY <2>1, ParseKeeps
  <2>6. Got(<<>>)' = z  BY <2>4 DEF Got
  <2> HIDE DEF p, z
  <2>7. Total' = Total  BY <2>1 DEF Total
  <2>8. Framed(Got(<<>>), sent)'
    BY <2>1, <2>4, <2>5, <2>6, FramedStays
  <2> QED  BY <2>1, <2>4, <2>5, <2>7, <2>8 DEF IInv
<1>2. CASE Reconnect
  <2>1. Fresh'  BY <1>2, ProtoAssumption DEF Reconnect, cleanCli, IInv, Fresh, emptyCache
  <2> QED  BY <2>1, FreshFramed, PTL
<1>3. CASE UNCHANGED vars
  <2>1. /\ conn' = conn /\ stream' = stream /\ sent' = sent /\ Got(<<>>)' = Got(<<>>)
        /\ open' = open
    BY <1>3 DEF vars, Got
  <2>2. Framed(Got(<<>>), sent)'  BY <2>1, FramedStays DEF IInv
  <2> QED  BY <2>1, <2>2 DEF IInv, Total
<1> QED  BY <1>1, <1>2, <1>3 DEF Next

\* The cache and what has been dispatched are a parse of what was received.
LEMMA IInvAlways == Spec => []IInv
<1>1. Init => IInv
  <2>1. Init => Fresh  BY ProtoAssumption DEF Init, Fresh
  <2> QED  BY <2>1, FreshFramed
<1> QED  BY <1>1, Inductive, PTL DEF Spec
----------------------------------------------------------------------------
(* The properties.                                                         *)

\* What the invariant says of the state: the message d + 1 is the one that
\* is being put together.
LEMMA Summary ==
    ASSUME IInv, NEW d, d = Len(dispatched)
    PROVE  /\ d \in 0..Len(stream) /\ Len(stream) \in Nat /\ sent \in Nat
           /\ \A j \in 1..d :
                 /\ dispatched[j] = MsgBytes(j) /\ chkValidHead(stream[j])
                 /\ IF stream[j] > DEF_MSG_HEAD_SIZE
                    THEN Start(stream, j + 1) <= sent ELSE Start(stream, j + 1) < sent
           /\ \/ open /\ sent < Start(stream, d + 1) + DEF_MSG_HEAD_SIZE
              \/ /\ open /\ d < Len(stream) /\ chkValidHead(stream[d + 1])
                 /\ \/ sent < Start(stream, d + 2)
                    \/ /\ stream[d + 1] = DEF_MSG_HEAD_SIZE
                       /\ sent = Start(stream, d + 2)
              \/ /\ ~open /\ d < Len(stream) /\ ~chkValidHead(stream[d + 1])
                 /\ Start(stream, d + 1) + DEF_MSG_HEAD_SIZE <= sent
<1> DEFINE p == Got(<<>>)
<1>1. /\ conn \in Nat /\ stream \in Seq(Nat) /\ sent \in 0..Total /\ open \in BOOLEAN
      /\ Framed(p, sent) /\ Total \in Nat /\ Len(stream) \in Nat
  BY Starts DEF IInv
<1>2. /\ p.cache = cache /\ p.dispatched = dispatched /\ p.ok = open /\ p.buf = <<>>
  BY DEF Got
<1> HIDE DEF p
<1>3. d \in Nat  BY <1>1, <1>2 DEF Framed, Parse
<1>4. Cur(p) = d + 1 /\ Pos(p, sent) = sent /\ Cur(p) + 1 = d + 2
  BY <1>1, <1>2, <1>3, EmptySeq DEF Cur, Pos
<1>5. Delivered(p, sent)  BY <1>1 DEF Framed
<1>6. d \in 0..Len(stream)  BY <1>1, <1>3, <1>4, <1>5 DEF Delivered
<1>7. \A j \in 1..d :
         /\ dispatched[j] = MsgBytes(j) /\ chkValidHead(stream[j])
         /\ IF stream[j] > DEF_MSG_HEAD_SIZE
            THEN Start(stream, j + 1) <= sent ELSE Start(stream, j + 1) < sent
  BY <1>2, <1>5 DEF Delivered
<1>8. CASE InHead(p, sent)  BY <1>1, <1>2, <1>4, <1>6, <1>7, <1>8 DEF InHead
<1>9. CASE InBody(p, sent)
  <2>1. open /\ chkValidHead(stream[d + 1]) /\ d + 1 <= Len(stream)
    BY <1>2, <1>4, <1>9 DEF InBody
  <2>2. \/ sent < Start(stream, d + 2)
        \/ stream[d + 1] = DEF_MSG_HEAD_SIZE /\ sent = Start(stream, d + 2)
    BY <1>4, <1>9 DEF InBody
  <2> QED  BY <2>1, <2>2, <1>1, <1>6, <1>7
<1>10. CASE Refused(p, sent)
  <2>1. /\ ~open /\ ~chkValidHead(stream[d + 1]) /\ d + 1 <= Len(stream)
        /\ Start(stream, d + 1) + DEF_MSG_HEAD_SIZE <= sent
    BY <1>2, <1>4, <1>10 DEF Refused
  <2> QED  BY <2>1, <1>1, <1>6, <1>7
<1> QED  BY <1>1, <1>8, <1>9, <1>10 DEF Framed

\* The cache never holds more than a head and a message of an allowed size,
\* which is what analyseHead allocates and parseBody fills.
THEOREM TypeCorrect == Spec => []TypeOK
<1>1. IInv => TypeOK
  <2> SUFFICES ASSUME IInv, open PROVE TypeOK  BY DEF TypeOK
  <2> DEFINE p == Got(<<>>)
  <2>1. /\ conn \in Nat /\ stream \in Seq(Nat) /\ sent \in 0..Total /\ Framed(p, sent)
    BY DEF IInv
  <2>2. p.cache = cache /\ p.ok  BY DEF Got
  <2> HIDE DEF p
  <2>3. DEF_MSG_HEAD_SIZE \in Nat /\ MAX_MSG_SIZE \in Nat  BY ProtoAssumption
  <2>4. CASE InHead(p, sent) /\ Len(p.cache.head) \in 0..(DEF_MSG_HEAD_SIZE - 1)
    <3>1. cache.size = 0 /\ cache.msg = <<>>  BY <2>2, <2>4 DEF InHead
    <3>2. Len(cache.msg) = 0  BY <3>1, EmptySeq
    <3> QED  BY <3>1, <3>2, <2>2, <2>3, <2>4 DEF TypeOK
  <2>5. CASE /\ InBody(p, sent) /\ Len(p.cache.head) = DEF_MSG_HEAD_SIZE
             /\ Len(p.cache.msg) <= p.cache.size
    <3>1. chkValidHead(cache.size)  BY <2>2, <2>5 DEF InBody
    <3>2. cache.size <= MAX_MSG_SIZE  BY <3>1, <2>3 DEF chkValidHead
    <3> QED  BY <3>2, <2>2, <2>3, <2>5 DEF TypeOK
  <2> QED  BY <2>1, <2>2, <2>4, <2>5, HeadTells
<1> QED  BY <1>1, IInvAlways, PTL

\* In whatever chunks the streams come, and wherever the connections break:
\* what is dispatched is exactly the complete messages, each with its own
\* bytes, up to the first head that is not valid.
THEOREM FramesAreExact == Spec => []FramesExact
<1>1. IInv => FramesExact
  <2> SUFFICES ASSUME IInv PROVE FramesExact  OBVIOUS
  <2> DEFINE d == Len(dispatched)
             h == DEF_MSG_HEAD_SIZE
             n == Len(stream)
             whole == {k \in 1..n : Complete(k)}
  <2>1. /\ d \in 0..n /\ n \in Nat /\ sent \in Nat
        /\ \A j \in 1..d :
              /\ dispatched[j] = MsgBytes(j) /\ chkValidHead(stream[j])
              /\ IF stream[j] > h THEN Start(stream, j + 1) <= sent
                                  ELSE Start(stream, j + 1) < sent
        /\ \/ open /\ sent < Start(stream, d + 1) + h
           \/ /\ open /\ d < n /\ chkValidHead(stream[d + 1])
              /\ \/ sent < Start(stream, d + 2)
                 \/ stream[d + 1] = h /\ sent = Start(stream, d + 2)
           \/ ~open /\ d < n /\ ~chkValidHead(stream[d + 1])
    BY Summary
  <2>2. stream \in Seq(Nat) /\ h \in Nat \ {0}  BY ProtoAssumption DEF IInv
  <2>3. /\ \A k \in 1..(n + 1) : Start(stream, k) \in Nat
        /\ \A j, k \in 1..(n + 1) : j < k => Start(stream, j) + h <= Start(stream, k)
    BY <2>2, Starts
  <2>4. ASSUME NEW k \in 1..d PROVE Complete(k)
    <3>1. \A j \in 1..k : j \in 1..d  BY <2>1
    <3> QED  BY <3>1, <2>1 DEF Complete
  <2> HIDE DEF d, n, h
  <2>5. ASSUME NEW k \in 1..n, Complete(k), ~ (k \in 1..d) PROVE FALSE
    <3>1. d + 1 \in 1..k /\ d + 1 \in 1..n /\ d + 1 \in 1..(n + 1)
          /\ d + 2 \in 1..(n + 1) /\ k + 1 \in 1..(n + 1) /\ d + 1 < k + 1 /\ d + 1 < d + 2
      BY <2>1, <2>5
    <3>2. chkValidHead(stream[d + 1])  BY <3>1, <2>5 DEF Complete
    <3>3. /\ Start(stream, d + 1) \in Nat /\ Start(stream, d + 2) \in Nat
          /\ Start(stream, k + 1) \in Nat
          /\ Start(stream, d + 1) + h <= Start(stream, k + 1)
          /\ Start(stream, d + 1) + h <= Start(stream, d + 2)
      BY <3>1, <2>3
    <3>4. /\ Start(stream, k + 1) <= sent
          /\ ~ (stream[k] > h) => Start(stream, k + 1) < sent
      <4>1. IF stream[k] > h THEN Start(stream, k + 1) <= sent
                             ELSE Start(stream, k + 1) < sent
        BY <2>5 DEF Complete, h
      <4> QED  BY <4>1, <3>3, <2>1
    <3>5. ~ (sent < Start(stream, d + 1) + h)  BY <3>3, <3>4, <2>1, <2>2
    <3>6. \/ sent < Start(stream, d + 2)
          \/ stream[d + 1] = h /\ sent = Start(stream, d + 2)
      BY <3>2, <3>5, <2>1
    <3>7. CASE k = d + 1
      <4>1. k + 1 = d + 2  BY <3>7, <2>1
      <4>2. ~ (h > h)  BY <2>2
      <4> QED  BY <4>1, <4>2, <3>3, <3>4, <3>6, <3>7, <2>1
    <3>8. CASE k # d + 1
      <4>1. d + 2 < k + 1  BY <3>1, <3>8, <2>1
      <4>2. Start(stream, d + 2) + h <= Start(stream, k + 1)  BY <4>1, <3>1, <2>3
      <4> QED  BY <4>2, <3>3, <3>4, <3>6, <2>1, <2>2
    <3> QED  BY <3>7, <3>8
  <2>6. whole = 1..d  BY <2>1, <2>4, <2>5
  <2>7. Cardinality(1..d) = d
    <3>1. Cardinality(1..d) = IF 1 > d THEN 0 ELSE d - 1 + 1  BY <2>1, FS_Interval
    <3> QED  BY <3>1, <2>1
  <2> HIDE DEF whole
  <2>8. d = Cardinality(whole) /\ \A k \in whole : dispatched[k] = MsgBytes(k)
    BY <2>1, <2>6, <2>7
  <2> QED  BY <2>8 DEF FramesExact, d, whole, n
<1> QED  BY <1>1, IInvAlways, PTL

\* The connection is given up exactly at the first head that is not valid.
THEOREM ClosesOnBadHead == Spec => []ClosedOnBadHead
<1>1. IInv => ClosedOnBadHead
  <2> SUFFICES ASSUME IInv PROVE ClosedOnBadHead  OBVIOUS
  <2> DEFINE d == Len(dispatched)
             h == DEF_MSG_HEAD_SIZE
             n == Len(stream)
  <2>1. /\ d \in 0..n /\ n \in Nat /\ sent \in Nat
        /\ \A j \in 1..d : chkValidHead(stream[j])
        /\ \/ open /\ sent < Start(stream, d + 1) + h
           \/ /\ open /\ d < n /\ chkValidHead(stream[d + 1])
              /\ sent < Start(stream, d + 2) \/ sent = Start(stream, d + 2)
           \/ /\ ~open /\ d < n /\ ~chkValidHead(stream[d + 1])
              /\ Start(stream, d + 1) + h <= sent
    BY Summary
  <2>2. stream \in Seq(Nat) /\ h \in Nat \ {0}  BY ProtoAssumption DEF IInv
  <2>3. /\ \A k \in 1..(n + 1) : Start(stream, k) \in Nat
        /\ \A j, k \in 1..(n + 1) : j < k => Start(stream, j) + h <= Start(stream, k)
    BY <2>2, Starts
  <2> HIDE DEF d, n, h
  <2>4. ASSUME ~open
        PROVE  \E k \in 1..n : /\ ~chkValidHead(stream[k])
                               /\ \A j \in 1..(k - 1) : chkValidHead(stream[j])
                               /\ Start(stream, k) + h <= sent
    <3>1. d + 1 \in 1..n /\ (d + 1) - 1 = d  BY <2>1, <2>4
    <3> QED  BY <3>1, <2>1, <2>4
  <2>5. ASSUME open, NEW k \in 1..n, ~chkValidHead(stream[k]),
               Start(stream, k) + h <= sent
        PROVE  FALSE
    <3>1. k \in (d + 1)..n  BY <2>1, <2>5
    <3>2. /\ d + 1 \in 1..(n + 1) /\ k \in 1..(n + 1) /\ d < n
      BY <3>1, <2>1
    <3>3. Start(stream, d + 1) \in Nat /\ Start(stream, k) \in Nat  BY <3>2, <2>3
    <3>4. CASE k = d + 1  BY <3>3, <3>4, <2>1, <2>2, <2>5
    <3>5. CASE k # d + 1
      <4>1. d + 2 \in 1..(n + 1) /\ d + 1 < k /\ (d + 2 = k \/ d + 2 < k)
        BY <3>1, <3>2, <3>5, <2>1
      <4>2. Start(stream, d + 2) \in Nat  BY <4>1, <2>3
      <4>3. Start(stream, d + 1) + h <= Start(stream, k)  BY <4>1, <3>2, <2>3
      <4>4. Start(stream, d + 2) <= Start(stream, k)
        <5>1. CASE d + 2 = k  BY <5>1, <3>3
        <5>2. CASE d + 2 < k
          <6>1. Start(stream, d + 2) + h <= Start(stream, k)  BY <5>2, <4>1, <3>2, <2>3
          <6> QED  BY <6>1, <4>2, <3>3, <2>2
        <5> QED  BY <4>1, <5>1, <5>2
      <4> QED  BY <4>2, <4>3, <4>4, <3>3, <2>1, <2>2, <2>5
    <3> QED  BY <3>4, <3>5
  <2> QED  BY <2>4, <2>5 DEF ClosedOnBadHead, n, h
<1> QED  BY <1>1, IInvAlways, PTL
=============================================================================
