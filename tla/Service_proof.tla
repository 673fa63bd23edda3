--------------------------- MODULE Service_proof ---------------------------
(***************************************************************************)
(* Proofs about a process, for any set of configuration files of any       *)
(* length: what runs is what the file says, every client keeps one link,   *)
(* and the delays between its attempts to connect are those of the code.   *)
(***************************************************************************)
EXTENDS Service, TLAPS, FiniteSetTheorems, SequenceTheorems

Setting == pc \in {"prepare", "run"}

\* How many sections of list l prepare has added.
At(l) == Len(file[l]) - Len(conf[l])

\* What prepare has yet to add is the rest of each list of the file.
ConfSound ==
    /\ file \in Files /\ DOMAIN conf = Lists
    /\ Setting => \A l \in Lists :
          /\ Broken \notin ToSet(file[l])
          /\ conf[l] \in Seq(ToSet(file[l]))
          /\ Len(conf[l]) <= Len(file[l])
          /\ \A k \in 1..Len(conf[l]) : conf[l][k] = file[l][At(l) + k]
    /\ pc = "run" => conf = Empty
    /\ pc = "prepare" /\ At("agents") > 0 => conf["clients"] = <<>>

\* What it has added are the sections that the property asks for, as far as
\* it has got in each list.
SvrsSound == Setting =>
    /\ svrConfs \in Seq(ToSet(file["servers"]))
    /\ Len(svrConfs) = At("servers")
    /\ \A k \in 1..Len(svrConfs) : svrConfs[k] = file["servers"][k]

ClisSound == Setting =>
    /\ cliConfs \in Seq(ToSet(file["clients"]))
    /\ Picks(cliConfs, file["clients"],
             FirstClients(file["clients"]) \intersect (1..At("clients")))
    /\ \A i \in 1..At("clients") :
          file["clients"][i].uid # NoUid => hasUsr(file["clients"][i].uid)

AgentsSound == Setting =>
    /\ agentConfs \in Seq(ToSet(file["agents"]))
    /\ Picks(agentConfs, file["agents"],
             OfClients(file["agents"], file["clients"]) \intersect (1..At("agents")))

LinksSound == Setting =>
    /\ \A i \in 1..At("links") : file["links"][i].type \in DOMAIN links
    /\ \A t \in DOMAIN links :
          \E i \in FirstLinks(file["links"]) \intersect (1..At("links")) :
              links[t] = file["links"][i] /\ file["links"][i].type = t

Unset == ~Setting =>
    svrConfs = <<>> /\ cliConfs = <<>> /\ agentConfs = <<>> /\ links = <<>>

SetInv ==
    /\ pc \in {"parse", "prepare", "run", "failed", "finished"}
    /\ ConfSound /\ SvrsSound /\ ClisSound /\ AgentsSound /\ LinksSound /\ Unset
----------------------------------------------------------------------------
(* Sequences that are taken from a list.                                   *)

\* An element put at the end of a sequence.
LEMMA Appended ==
    ASSUME NEW S, NEW s \in Seq(S), NEW e \in S
    PROVE  /\ Append(s, e) \in Seq(S)
           /\ Len(Append(s, e)) = Len(s) + 1
           /\ DOMAIN Append(s, e) = 1..(Len(s) + 1)
           /\ \A k \in 1..Len(s) : Append(s, e)[k] = s[k]
           /\ Append(s, e)[Len(s) + 1] = e
  BY AppendProperties

\* Elements are taken in the order of their list.
LEMMA PicksAppend ==
    ASSUME NEW S, NEW s \in Seq(S), NEW list \in Seq(S), NEW n \in Nat,
           n + 1 \in DOMAIN list, NEW I \in SUBSET (1..n), Picks(s, list, I)
    PROVE  Picks(Append(s, list[n + 1]), list, I \union {n + 1})
<1>0. list[n + 1] \in S  BY ElementOfSeq
<1> DEFINE z == Append(s, list[n + 1])
<1>1. /\ z \in Seq(S)  /\ DOMAIN z = 1..(Len(s) + 1) /\ DOMAIN s = 1..Len(s)
      /\ \A k \in 1..Len(s) : z[k] = s[k]
      /\ z[Len(s) + 1] = list[n + 1] /\ Len(s) \in Nat
  BY <1>0, Appended
<1>2. PICK at \in [DOMAIN s -> I] :
        /\ \A k \in DOMAIN s : s[k] = list[at[k]]
        /\ \A k, m \in DOMAIN s : k < m => at[k] < at[m]
        /\ \A i \in I : \E k \in DOMAIN s : at[k] = i
  BY DEF Picks
<1> DEFINE upto == [k \in DOMAIN z |-> IF k = Len(s) + 1 THEN n + 1 ELSE at[k]]
<1> HIDE DEF z
<1>3. ASSUME NEW k \in 1..Len(s)
      PROVE  k \in DOMAIN z /\ upto[k] = at[k] /\ at[k] \in 1..n /\ at[k] \in I
  <2>1. k \in DOMAIN z /\ k # Len(s) + 1  BY <1>1
  <2>2. at[k] \in I  BY <1>1, <1>2
  <2> QED  BY <2>1, <2>2
<1>4. Len(s) + 1 \in DOMAIN z /\ upto[Len(s) + 1] = n + 1
  BY <1>1
<1>5. upto \in [DOMAIN z -> I \union {n + 1}]
  BY <1>1, <1>2
<1>6. \A k \in DOMAIN z : z[k] = list[upto[k]]
  BY <1>1, <1>2, <1>3, <1>4
<1>7. ASSUME NEW k \in DOMAIN z, NEW m \in DOMAIN z, k < m PROVE upto[k] < upto[m]
  <2>1. k \in 1..Len(s)  BY <1>1, <1>7
  <2>2. CASE m = Len(s) + 1
    <3>1. upto[k] \in 1..n  BY <2>1, <1>3
    <3> QED  BY <2>2, <3>1, <1>4
  <2>3. CASE m \in 1..Len(s)  BY <2>1, <2>3, <1>1, <1>2, <1>3, <1>7
  <2> QED  BY <1>1, <2>2, <2>3
<1>8. ASSUME NEW i \in I \union {n + 1} PROVE \E k \in DOMAIN z : upto[k] = i
  BY <1>1, <1>2, <1>3, <1>4
<1> HIDE DEF upto
<1>9. Picks(z, list, I \union {n + 1})
  BY <1>5, <1>6, <1>7, <1>8 DEF Picks
<1> QED  BY <1>9 DEF z

\* The empty sequence takes nothing.
LEMMA PicksNone == ASSUME NEW list PROVE Picks(<<>>, list, {})
<1>1. <<>> \in [DOMAIN <<>> -> {}]  OBVIOUS
<1> QED  BY <1>1 DEF Picks

\* A file's lists are sequences of sections.
LEMMA FileLists ==
    ASSUME file \in Files, NEW l \in Lists
    PROVE  /\ file[l] \in Seq(ToSet(file[l])) /\ Len(file[l]) \in Nat
           /\ DOMAIN file[l] = 1..Len(file[l])
           /\ \A i \in 1..Len(file[l]) : file[l][i] \in ToSet(file[l])
<1>1. file[l] \in Seq(ToSet(file[l]))  BY ServiceAssumption
<1> QED  BY <1>1 DEF ToSet
\* prepare adds the next section of a list, and goes on behind it.
LEMMA Taken ==
    ASSUME SetInv, NEW l \in Lists, Adds(l), Added(l), file' = file, pc' = pc
    PROVE  /\ ConfSound' /\ Setting /\ Setting'
           /\ At(l) \in Nat /\ At(l)' = At(l) + 1
           /\ At(l) + 1 \in 1..Len(file[l])
           /\ Head(conf[l]) = file[l][At(l) + 1]
           /\ Head(conf[l]) \in ToSet(file[l])
           /\ Head(conf[l]) # Broken
           /\ \A k \in Lists \ {l} : At(k)' = At(k)
<1> DEFINE F(k) == file[k]
           C(k) == conf[k]
<1>1. /\ \A k \in Lists : /\ F(k) \in Seq(ToSet(F(k))) /\ Len(F(k)) \in Nat
                           /\ C(k) \in Seq(ToSet(F(k))) /\ Len(C(k)) \in Nat
                           /\ Len(C(k)) <= Len(F(k)) /\ Broken \notin ToSet(F(k))
                           /\ \A i \in 1..Len(C(k)) : C(k)[i] = F(k)[At(k) + i]
      /\ pc = "prepare" /\ Setting /\ Setting' /\ C(l) # <<>>
  BY FileLists DEF SetInv, ConfSound, Adds, Setting
<1>2. /\ Head(C(l)) = C(l)[1] /\ Head(C(l)) \in ToSet(F(l))
      /\ Tail(C(l)) \in Seq(ToSet(F(l))) /\ Len(Tail(C(l))) = Len(C(l)) - 1
      /\ \A i \in 1..Len(Tail(C(l))) : Tail(C(l))[i] = C(l)[i + 1]
      /\ Len(C(l)) \in Nat \ {0}
  <2>1. Len(C(l)) # 0  BY <1>1, EmptySeq
  <2> HIDE DEF C, F
  <2>2. C(l) \in Seq(ToSet(F(l))) /\ C(l) # <<>> /\ Len(C(l)) \in Nat  BY <1>1
  <2>3. /\ Head(C(l)) \in ToSet(F(l)) /\ Tail(C(l)) \in Seq(ToSet(F(l)))
        /\ Len(Tail(C(l))) = Len(C(l)) - 1
        /\ \A i \in 1..Len(Tail(C(l))) : Tail(C(l))[i] = C(l)[i + 1]
    BY <2>2, HeadTailProperties
  <2>4. Head(C(l)) = C(l)[1]  BY <2>2
  <2> QED  BY <2>1, <2>2, <2>3, <2>4
<1>3. conf' = [conf EXCEPT ![l] = Tail(C(l))]  BY DEF Added
<1>4. DOMAIN conf' = Lists /\ conf'[l] = Tail(C(l)) /\ \A k \in Lists \ {l} : conf'[k] = C(k)
  BY <1>3 DEF SetInv, ConfSound
<1>5. /\ At(l) \in Nat /\ At(l)' = At(l) + 1 /\ At(l) + 1 \in 1..Len(F(l))
      /\ \A k \in Lists \ {l} : At(k)' = At(k)
  <2>1. /\ At(l) = Len(F(l)) - Len(C(l)) /\ At(l)' = Len(F(l)) - Len(Tail(C(l)))
        /\ \A k \in Lists \ {l} : At(k)' = Len(F(k)) - Len(C(k)) /\ At(k) = Len(F(k)) - Len(C(k))
    BY <1>4 DEF At
  <2> HIDE DEF C, F
  <2> QED  BY <2>1, <1>1, <1>2
<1>6. Head(C(l)) = F(l)[At(l) + 1]  BY <1>1, <1>2
<1>7. ASSUME NEW k \in Lists
      PROVE  /\ conf'[k] \in Seq(ToSet(F(k))) /\ Len(conf'[k]) <= Len(F(k))
             /\ \A i \in 1..Len(conf'[k]) : conf'[k][i] = F(k)[At(k)' + i]
  <2>1. CASE k = l
    <3> SUFFICES ASSUME NEW i \in 1..Len(Tail(C(l)))
                 PROVE  Tail(C(l))[i] = F(l)[At(l)' + i]
      BY <2>1, <1>1, <1>2, <1>4
    <3>1. Tail(C(l))[i] = C(l)[i + 1] /\ i + 1 \in 1..Len(C(l))  BY <1>1, <1>2
    <3>2. C(l)[i + 1] = F(l)[At(l) + (i + 1)]  BY <1>1, <3>1
    <3> QED  BY <3>1, <3>2, <1>5
  <2>2. CASE k # l  BY <2>2, <1>1, <1>4, <1>5
  <2> QED  BY <2>1, <2>2
<1>8. At("agents")' > 0 => conf'["clients"] = <<>>
  <2>1. CASE l = "agents"
    <3>1. C("clients") = <<>> /\ "clients" \in Lists \ {l}  BY <2>1 DEF Adds, Lists
    <3> QED  BY <3>1, <1>4
  <2>2. CASE l # "agents"
    <3>1. At("agents")' = At("agents")  BY <2>2, <1>5 DEF Lists
    <3>2. CASE At("agents") > 0
      <4>1. C("clients") = <<>>  BY <3>2, <1>1 DEF SetInv, ConfSound
      <4>2. l # "clients"  BY <4>1, <1>1
      <4> QED  BY <4>1, <4>2, <1>4 DEF Lists
    <3> QED  BY <3>1, <3>2
  <2> QED  BY <2>1, <2>2
<1>9. file' \in Files /\ (pc' = "run" => conf' = Empty)
  BY <1>1 DEF SetInv, ConfSound
<1>10. ConfSound'
  BY <1>1, <1>4, <1>7, <1>8, <1>9 DEF ConfSound
<1> QED  BY <1>1, <1>2, <1>5, <1>6, <1>10

\* What is picked stands at a position that is taken, and each of those is
\* picked.
LEMMA PicksBoth ==
    ASSUME NEW s, NEW list, NEW I, Picks(s, list, I)
    PROVE  /\ \A k \in DOMAIN s : \E i \in I : s[k] = list[i]
           /\ \A i \in I : \E k \in DOMAIN s : s[k] = list[i]
  BY DEF Picks

\* hasUsr looks for a client's section with that user.
LEMMA HasUsr ==
    ASSUME NEW u PROVE hasUsr(u) <=> \E k \in DOMAIN cliConfs : cliConfs[k].uid = u
  BY DEF hasUsr, ToSet
----------------------------------------------------------------------------
(* Every step keeps the settings sound.                                    *)

\* A process starts without settings.
LEMMA SetInit == Init => SetInv
  BY DEF Init, SetInv, Setting, ConfSound, SvrsSound, ClisSound, AgentsSound,
      LinksSound, Unset, Empty

\* parse takes the file's lists as they are, or nothing of them.
LEMMA SetParse == SetInv /\ parse => SetInv'
<1> SUFFICES ASSUME SetInv, parse PROVE SetInv'  OBVIOUS
<1>1. pc = "parse" /\ ~Setting /\ UNCHANGED <<file, tables, clients, reach>>
  BY DEF parse, Setting
<1>2. svrConfs = <<>> /\ cliConfs = <<>> /\ agentConfs = <<>> /\ links = <<>>
  BY <1>1 DEF SetInv, Unset
<1>3. CASE pc' = "failed" /\ UNCHANGED conf
  BY <1>1, <1>2, <1>3 DEF SetInv, Setting, ConfSound, SvrsSound, ClisSound,
      AgentsSound, LinksSound, Unset, tables
<1>4. CASE pc' = "prepare" /\ conf' = [l \in Lists |-> file[l]] /\ parseConf
  <2>1. /\ file \in Files /\ file' = file /\ svrConfs' = <<>> /\ cliConfs' = <<>>
        /\ agentConfs' = <<>> /\ links' = <<>>
    BY <1>1, <1>2 DEF SetInv, ConfSound, tables
  <2>2. \A l \in Lists : conf'[l] = file[l] /\ At(l)' = 0 /\ Broken \notin ToSet(file[l])
    BY <2>1, <1>4, FileLists DEF At, parseConf, parseSection
  <2>3. ConfSound'
    BY <2>1, <2>2, <1>4, FileLists DEF ConfSound, Setting, Lists
  <2>4. SvrsSound' /\ LinksSound'
    BY <2>1, <2>2 DEF SvrsSound, LinksSound, Lists
  <2>5. ClisSound'
    <3>1. FirstClients(file["clients"]) \intersect (1..0) = {}  OBVIOUS
    <3>2. Picks(<<>>, file["clients"], FirstClients(file["clients"]) \intersect (1..0))
      BY <3>1, PicksNone
    <3>3. At("clients")' = 0 /\ <<>> \in Seq(ToSet(file["clients"]))
      BY <2>2 DEF Lists
    <3>4. \A i \in 1..At("clients")' : FALSE  BY <3>3
    <3> QED  BY <3>2, <3>3, <3>4, <2>1 DEF ClisSound
  <2>6. AgentsSound'
    <3>1. OfClients(file["agents"], file["clients"]) \intersect (1..0) = {}  OBVIOUS
    <3>2. Picks(<<>>, file["agents"],
                OfClients(file["agents"], file["clients"]) \intersect (1..0))
      BY <3>1, PicksNone
    <3>3. At("agents")' = 0 /\ <<>> \in Seq(ToSet(file["agents"]))
      BY <2>2 DEF Lists
    <3> QED  BY <3>2, <3>3, <2>1 DEF AgentsSound
  <2> QED
    BY <1>4, <2>3, <2>4, <2>5, <2>6 DEF SetInv, Unset, Setting
<1> QED  BY <1>3, <1>4 DEF parse

\* addSvr takes the next router section.
LEMMA SetAddSvr == SetInv /\ addSvr => SetInv'
<1> SUFFICES ASSUME SetInv, addSvr PROVE SetInv'  OBVIOUS
<1>1. /\ "servers" \in Lists /\ Adds("servers") /\ Added("servers")
      /\ svrConfs' = Append(svrConfs, Head(conf["servers"]))
      /\ UNCHANGED <<file, pc, cliConfs, agentConfs, links>>
  BY DEF addSvr, Lists
<1>2. /\ ConfSound' /\ Setting /\ Setting' /\ At("servers") \in Nat
      /\ At("servers")' = At("servers") + 1
      /\ Head(conf["servers"]) = file["servers"][At("servers") + 1]
      /\ Head(conf["servers"]) \in ToSet(file["servers"])
      /\ \A k \in Lists \ {"servers"} : At(k)' = At(k)
  BY <1>1, Taken
<1>3. SvrsSound'
  <2> DEFINE F == file["servers"]  e == Head(conf["servers"])
  <2>1. svrConfs \in Seq(ToSet(F)) /\ Len(svrConfs) = At("servers")
        /\ \A k \in 1..Len(svrConfs) : svrConfs[k] = F[k]
    BY <1>2 DEF SetInv, SvrsSound
  <2>2. /\ Append(svrConfs, e) \in Seq(ToSet(F))
        /\ Len(Append(svrConfs, e)) = Len(svrConfs) + 1
        /\ \A k \in 1..Len(svrConfs) : Append(svrConfs, e)[k] = svrConfs[k]
        /\ Append(svrConfs, e)[Len(svrConfs) + 1] = e
    BY <2>1, <1>2, Appended
  <2>3. \A k \in 1..(Len(svrConfs) + 1) : Append(svrConfs, e)[k] = F[k]
    BY <2>1, <2>2, <1>2
  <2> QED  BY <2>1, <2>2, <2>3, <1>1, <1>2 DEF SvrsSound
<1>4. At("clients")' = At("clients") /\ At("agents")' = At("agents") /\ At("links")' = At("links")
  BY <1>2 DEF Lists
<1>5. ClisSound' /\ AgentsSound' /\ LinksSound'
  BY <1>1, <1>2, <1>4 DEF SetInv, ClisSound, AgentsSound, LinksSound, hasUsr
<1> QED  BY <1>1, <1>2, <1>3, <1>5 DEF SetInv, Unset

\* addCli takes the next client, unless its user is there already.
LEMMA SetAddCli == SetInv /\ addCli => SetInv'
<1> SUFFICES ASSUME SetInv, addCli PROVE SetInv'  OBVIOUS
<1> DEFINE F == file["clients"]
           n == At("clients")
           c == Head(conf["clients"])
<1>1. /\ "clients" \in Lists /\ Adds("clients") /\ Added("clients")
      /\ cliConfs' = IF TakesCli(c) THEN Append(cliConfs, c) ELSE cliConfs
      /\ UNCHANGED <<file, pc, svrConfs, agentConfs, links>>
  BY DEF addCli, Lists
<1>2. /\ ConfSound' /\ Setting /\ Setting' /\ n \in Nat /\ n' = n + 1
      /\ n + 1 \in 1..Len(F) /\ c = F[n + 1] /\ c \in ToSet(F)
      /\ \A k \in Lists \ {"clients"} : At(k)' = At(k)
  BY <1>1, Taken
<1>3. /\ F \in Seq(ToSet(F)) /\ DOMAIN F = 1..Len(F)
      /\ cliConfs \in Seq(ToSet(F))
      /\ Picks(cliConfs, F, FirstClients(F) \intersect (1..n))
      /\ \A i \in 1..n : F[i].uid # NoUid => hasUsr(F[i].uid)
  BY <1>1, <1>2, FileLists DEF SetInv, ConfSound, ClisSound
<1> HIDE DEF F, n, c
<1>4. hasUsr(c.uid) => \E i \in 1..n : F[i].uid = c.uid
  BY <1>3, PicksBoth, HasUsr
<1>5. TakesCli(c) <=> n + 1 \in FirstClients(F)
  BY <1>2, <1>3, <1>4 DEF TakesCli, FirstClients
<1>6. ASSUME TakesCli(c)
      PROVE  /\ cliConfs' \in Seq(ToSet(F))
             /\ Picks(cliConfs', F, FirstClients(F) \intersect (1..(n + 1)))
             /\ \A i \in 1..(n + 1) : F[i].uid # NoUid =>
                   \E k \in DOMAIN cliConfs' : cliConfs'[k].uid = F[i].uid
  <2>1. cliConfs' = Append(cliConfs, F[n + 1])  BY <1>1, <1>2, <1>6
  <2> DEFINE I == FirstClients(F) \intersect (1..n)
  <2>2. FirstClients(F) \intersect (1..(n + 1)) = I \union {n + 1}
    BY <1>2, <1>5, <1>6
  <2>3. I \in SUBSET (1..n) /\ n + 1 \in DOMAIN F /\ Picks(cliConfs, F, I)
    BY <1>2, <1>3
  <2> HIDE DEF I
  <2>4. Picks(cliConfs', F, I \union {n + 1})
    BY <2>1, <2>3, <1>2, <1>3, PicksAppend
  <2>5. /\ cliConfs' \in Seq(ToSet(F)) /\ DOMAIN cliConfs' = 1..(Len(cliConfs) + 1)
        /\ DOMAIN cliConfs = 1..Len(cliConfs) /\ Len(cliConfs) \in Nat
        /\ \A k \in 1..Len(cliConfs) : cliConfs'[k] = cliConfs[k]
        /\ cliConfs'[Len(cliConfs) + 1] = c
    BY <2>1, <1>2, <1>3, Appended
  <2>6. ASSUME NEW i \in 1..(n + 1), F[i].uid # NoUid
        PROVE  \E k \in DOMAIN cliConfs' : cliConfs'[k].uid = F[i].uid
    <3>1. CASE i = n + 1  BY <3>1, <2>5, <1>2
    <3>2. CASE i \in 1..n
      <4>1. PICK k \in 1..Len(cliConfs) : cliConfs[k].uid = F[i].uid
        BY <3>2, <2>5, <2>6, <1>3, HasUsr
      <4> QED  BY <4>1, <2>5
    <3> QED  BY <3>1, <3>2, <1>2
  <2> QED  BY <2>2, <2>4, <2>5, <2>6
<1>7. ASSUME ~TakesCli(c)
      PROVE  /\ cliConfs' \in Seq(ToSet(F))
             /\ Picks(cliConfs', F, FirstClients(F) \intersect (1..(n + 1)))
             /\ \A i \in 1..(n + 1) : F[i].uid # NoUid =>
                   \E k \in DOMAIN cliConfs' : cliConfs'[k].uid = F[i].uid
  <2>1. cliConfs' = cliConfs  BY <1>1, <1>7
  <2>2. FirstClients(F) \intersect (1..(n + 1)) = FirstClients(F) \intersect (1..n)
    BY <1>2, <1>5, <1>7
  <2>3. c.uid # NoUid => hasUsr(c.uid)  BY <1>7 DEF TakesCli
  <2>4. ASSUME NEW i \in 1..(n + 1), F[i].uid # NoUid
        PROVE  \E k \in DOMAIN cliConfs : cliConfs[k].uid = F[i].uid
    <3>1. hasUsr(F[i].uid)  BY <2>3, <2>4, <1>2, <1>3
    <3> QED  BY <3>1, HasUsr
  <2> QED  BY <2>1, <2>2, <2>4, <1>3
<1>8. ClisSound'
  <2>1. /\ cliConfs' \in Seq(ToSet(F))
        /\ Picks(cliConfs', F, FirstClients(F) \intersect (1..(n + 1)))
        /\ \A i \in 1..(n + 1) : F[i].uid # NoUid =>
              \E k \in DOMAIN cliConfs' : cliConfs'[k].uid = F[i].uid
    BY <1>6, <1>7
  <2>2. /\ At("clients")' = n + 1 /\ file'["clients"] = F  BY <1>1, <1>2 DEF F, n
  <2> QED  BY <2>1, <2>2 DEF ClisSound, hasUsr, ToSet
<1>9. At("servers")' = At("servers") /\ At("agents")' = At("agents") /\ At("links")' = At("links")
  BY <1>2 DEF Lists
<1>10. SvrsSound' /\ AgentsSound' /\ LinksSound'
  BY <1>1, <1>2, <1>9 DEF SetInv, SvrsSound, AgentsSound, LinksSound
<1> QED  BY <1>1, <1>2, <1>8, <1>10 DEF SetInv, Unset

\* addListener takes the next listener, if its client is there.
LEMMA SetAddListener == SetInv /\ addListener => SetInv'
<1> SUFFICES ASSUME SetInv, addListener PROVE SetInv'  OBVIOUS
<1> DEFINE F == file["agents"]
           K == file["clients"]
           n == At("agents")
           e == Head(conf["agents"])
<1>1. /\ "agents" \in Lists /\ "clients" \in Lists /\ Adds("agents") /\ Added("agents")
      /\ agentConfs' = IF hasUsr(e.uid) THEN Append(agentConfs, e) ELSE agentConfs
      /\ UNCHANGED <<file, pc, svrConfs, cliConfs, links>>
  BY DEF addListener, Lists
<1>2. /\ ConfSound' /\ Setting /\ Setting' /\ n \in Nat /\ n' = n + 1
      /\ n + 1 \in 1..Len(F) /\ e = F[n + 1] /\ e \in ToSet(F)
      /\ \A k \in Lists \ {"agents"} : At(k)' = At(k)
  BY <1>1, Taken
<1>3. /\ F \in Seq(ToSet(F)) /\ DOMAIN F = 1..Len(F)
      /\ agentConfs \in Seq(ToSet(F))
      /\ Picks(agentConfs, F, OfClients(F, K) \intersect (1..n))
  BY <1>1, <1>2, FileLists DEF SetInv, ConfSound, AgentsSound
<1>4. At("clients") = Len(K) /\ DOMAIN K = 1..Len(K) /\ Len(K) \in Nat
  <2>1. conf["clients"] = <<>>  BY <1>1 DEF Adds
  <2>2. Len(K) \in Nat /\ DOMAIN K = 1..Len(K)
    BY <1>1, FileLists DEF SetInv, ConfSound
  <2> QED  BY <2>1, <2>2 DEF At
\* All clients are added: hasUsr knows those of the file.
<1>5. hasUsr(e.uid) <=> n + 1 \in OfClients(F, K)
  <2>1. /\ Picks(cliConfs, K, FirstClients(K) \intersect (1..Len(K)))
        /\ \A i \in 1..Len(K) : K[i].uid # NoUid => hasUsr(K[i].uid)
    BY <1>2, <1>4 DEF SetInv, ClisSound
  <2>2. ASSUME hasUsr(e.uid) PROVE n + 1 \in OfClients(F, K)
    <3>1. PICK k \in DOMAIN cliConfs : cliConfs[k].uid = e.uid  BY <2>2, HasUsr
    <3>2. PICK i \in FirstClients(K) : cliConfs[k] = K[i]  BY <2>1, <3>1, PicksBoth
    <3>3. K[i].uid = e.uid /\ e.uid # NoUid /\ K[i] \in ToSet(K)
      BY <3>1, <3>2 DEF FirstClients, ToSet
    <3> HIDE DEF F, K, n, e
    <3> QED  BY <3>3, <1>2, <1>3 DEF OfClients
  <2>3. ASSUME n + 1 \in OfClients(F, K) PROVE hasUsr(e.uid)
    <3> HIDE DEF F, K, n, e
    <3>1. e.uid # NoUid /\ \E x \in ToSet(K) : x.uid = e.uid
      BY <2>3, <1>2 DEF OfClients
    <3>2. PICK i \in 1..Len(K) : K[i].uid = e.uid  BY <3>1, <1>4 DEF ToSet
    <3> QED  BY <3>1, <3>2, <2>1
  <2> QED  BY <2>2, <2>3
<1> HIDE DEF F, K, n, e
<1>6. /\ agentConfs' \in Seq(ToSet(F))
      /\ Picks(agentConfs', F, OfClients(F, K) \intersect (1..(n + 1)))
  <2> DEFINE I == OfClients(F, K) \intersect (1..n)
  <2>1. I \in SUBSET (1..n) /\ n + 1 \in DOMAIN F /\ Picks(agentConfs, F, I)
    BY <1>2, <1>3
  <2>2. CASE hasUsr(e.uid)
    <3>1. OfClients(F, K) \intersect (1..(n + 1)) = I \union {n + 1}
      BY <1>2, <1>5, <2>2
    <3> HIDE DEF I
    <3>2. agentConfs' = Append(agentConfs, F[n + 1])  BY <1>1, <1>2, <2>2
    <3>3. Picks(agentConfs', F, I \union {n + 1})
      BY <2>1, <3>2, <1>2, <1>3, PicksAppend
    <3> QED  BY <3>1, <3>2, <3>3, <1>2, <1>3, Appended
  <2>3. CASE ~hasUsr(e.uid)
    <3>1. OfClients(F, K) \intersect (1..(n + 1)) = I  BY <1>2, <1>5, <2>3
    <3> QED  BY <3>1, <2>1, <2>3, <1>1, <1>3
  <2> QED  BY <2>2, <2>3
<1>7. AgentsSound'
  <2>1. /\ At("agents")' = n + 1 /\ file'["agents"] = F /\ file'["clients"] = K
    BY <1>1, <1>2 DEF F, K, n
  <2> QED  BY <2>1, <1>6 DEF AgentsSound
<1>8. At("servers")' = At("servers") /\ At("clients")' = At("clients") /\ At("links")' = At("links")
  BY <1>2 DEF Lists
<1>9. SvrsSound' /\ ClisSound' /\ LinksSound'
  BY <1>1, <1>2, <1>8 DEF SetInv, SvrsSound, ClisSound, LinksSound, hasUsr
<1> QED  BY <1>1, <1>2, <1>7, <1>9 DEF SetInv, Unset

\* addLink takes the next link, unless its type is there already.
LEMMA SetAddLink == SetInv /\ addLink => SetInv'
<1> SUFFICES ASSUME SetInv, addLink PROVE SetInv'  OBVIOUS
<1> DEFINE F == file["links"]
           n == At("links")
           e == Head(conf["links"])
<1>1. /\ "links" \in Lists /\ Adds("links") /\ Added("links")
      /\ links' = IF e.type \in DOMAIN links THEN links
                  ELSE [t \in DOMAIN links \union {e.type} |->
                           IF t = e.type THEN e ELSE links[t]]
      /\ UNCHANGED <<file, pc, svrConfs, cliConfs, agentConfs>>
  BY DEF addLink, Lists, existLink
<1>2. /\ ConfSound' /\ Setting /\ Setting' /\ n \in Nat /\ n' = n + 1
      /\ n + 1 \in 1..Len(F) /\ e = F[n + 1]
      /\ \A k \in Lists \ {"links"} : At(k)' = At(k)
  BY <1>1, Taken
<1>3. /\ DOMAIN F = 1..Len(F) /\ Len(F) \in Nat
      /\ \A i \in 1..n : F[i].type \in DOMAIN links
      /\ \A t \in DOMAIN links : \E i \in FirstLinks(F) \intersect (1..n) :
            links[t] = F[i] /\ F[i].type = t
  BY <1>1, <1>2, FileLists DEF SetInv, ConfSound, LinksSound
<1> HIDE DEF F, n, e
<1>4. CASE e.type \in DOMAIN links
  <2>1. /\ \A i \in 1..(n + 1) : F[i].type \in DOMAIN links
        /\ \A t \in DOMAIN links : \E i \in FirstLinks(F) \intersect (1..(n + 1)) :
              links[t] = F[i] /\ F[i].type = t
    BY <1>2, <1>3, <1>4
  <2>2. links' = links /\ At("links")' = n + 1 /\ file'["links"] = F
    BY <1>1, <1>2, <1>4 DEF F, n
  <2>3. LinksSound'  BY <2>1, <2>2 DEF LinksSound
  <2>4. At("servers")' = At("servers") /\ At("clients")' = At("clients")
        /\ At("agents")' = At("agents")
    BY <1>2 DEF Lists
  <2> QED
    BY <2>3, <2>4, <1>1, <1>2 DEF SetInv, SvrsSound, ClisSound, AgentsSound, hasUsr, Unset
<1>5. CASE e.type \notin DOMAIN links
  <2>1. n + 1 \in FirstLinks(F)  BY <1>2, <1>3, <1>5 DEF FirstLinks
  <2>2. /\ DOMAIN links' = DOMAIN links \union {e.type} /\ links'[e.type] = e
        /\ \A t \in DOMAIN links : links'[t] = links[t]
    BY <1>1, <1>5
  <2>3. \A i \in 1..(n + 1) : F[i].type \in DOMAIN links'
    BY <2>2, <1>2, <1>3
  <2>4. ASSUME NEW t \in DOMAIN links'
        PROVE  \E i \in FirstLinks(F) \intersect (1..(n + 1)) :
                   links'[t] = F[i] /\ F[i].type = t
    <3>1. CASE t = e.type  BY <3>1, <2>1, <2>2, <1>2
    <3>2. CASE t \in DOMAIN links
      <4>1. PICK i \in FirstLinks(F) \intersect (1..n) : links[t] = F[i] /\ F[i].type = t
        BY <3>2, <1>3
      <4> QED  BY <4>1, <3>2, <2>2, <1>2
    <3> QED  BY <3>1, <3>2, <2>2
  <2>5. At("links")' = n + 1 /\ file'["links"] = F  BY <1>1, <1>2 DEF F, n
  <2>6. LinksSound'  BY <2>3, <2>4, <2>5 DEF LinksSound
  <2>7. At("servers")' = At("servers") /\ At("clients")' = At("clients")
        /\ At("agents")' = At("agents")
    BY <1>2 DEF Lists
  <2> QED
    BY <2>6, <2>7, <1>1, <1>2 DEF SetInv, SvrsSound, ClisSound, AgentsSound, hasUsr, Unset
<1> QED  BY <1>4, <1>5

\* start, and all that happens to the links of the clients, changes no table.
LEMMA SetKept ==
    ASSUME SetInv, UNCHANGED <<file, conf, tables>>,
           \/ pc' = pc
           \/ pc = "prepare" /\ conf = Empty /\ pc' = "run"
    PROVE  SetInv'
<1>1. /\ file' = file /\ conf' = conf /\ svrConfs' = svrConfs /\ cliConfs' = cliConfs
      /\ agentConfs' = agentConfs /\ links' = links /\ Setting' = Setting
  BY DEF tables, Setting
<1>2. \A l \in Lists : At(l)' = At(l)  BY <1>1 DEF At
<1>3. /\ At("servers")' = At("servers") /\ At("clients")' = At("clients")
      /\ At("agents")' = At("agents") /\ At("links")' = At("links")
  BY <1>2 DEF Lists
<1>4. ConfSound'  BY <1>1, <1>2, <1>3 DEF SetInv, ConfSound
<1>5. SvrsSound'  BY <1>1, <1>3 DEF SetInv, SvrsSound
<1>6. ClisSound'  BY <1>1, <1>3 DEF SetInv, ClisSound, hasUsr
<1>7. AgentsSound'  BY <1>1, <1>3 DEF SetInv, AgentsSound
<1>8. LinksSound'  BY <1>1, <1>3 DEF SetInv, LinksSound
<1>9. Unset'  BY <1>1 DEF SetInv, Unset
<1> QED  BY <1>4, <1>5, <1>6, <1>7, <1>8, <1>9 DEF SetInv

\* A process that finishes gives all its settings up.
LEMMA SetFinish == SetInv /\ finish => SetInv'
  BY DEF SetInv, finish, ConfSound, SvrsSound, ClisSound, AgentsSound, LinksSound,
      Unset, Setting

\* The settings are sound in every state.
LEMMA SetStep == SetInv /\ [Next]_vars => SetInv'
<1> SUFFICES ASSUME SetInv, [Next]_vars PROVE SetInv'  OBVIOUS
<1>1. CASE parse  BY <1>1, SetParse
<1>2. CASE addSvr  BY <1>2, SetAddSvr
<1>3. CASE addCli  BY <1>3, SetAddCli
<1>4. CASE addListener  BY <1>4, SetAddListener
<1>5. CASE addLink  BY <1>5, SetAddLink
<1>6. CASE start  BY <1>6, SetKept DEF start
<1>7. ASSUME NEW d \in DOMAIN cliConfs,
             onConnFail(d) \/ onConnOK(d) \/ onClose(d) \/ TimerFires(d)
      PROVE  SetInv'
  BY <1>7, SetKept DEF onConnFail, onConnOK, onClose, TimerFires
<1>8. CASE Reach  BY <1>8, SetKept DEF Reach
<1>9. CASE finish  BY <1>9, SetFinish
<1>10. CASE UNCHANGED vars  BY <1>10, SetKept DEF vars
<1> QED  BY <1>1, <1>2, <1>3, <1>4, <1>5, <1>6, <1>7, <1>8, <1>9, <1>10 DEF Next

\* What runs is what the file says: every router section, the first section
\* of each client, the listeners of those clients, in the file's order, and
\* for each link type its first section (Service::prepare and the add
\* functions of the centers).
THEOREM SettingsAreExact == Spec => []SettingsExact
<1>1. SetInv => SettingsExact
  <2> SUFFICES ASSUME SetInv, pc = "run"
               PROVE  /\ svrConfs = file["servers"]
                      /\ Picks(cliConfs, file["clients"], FirstClients(file["clients"]))
                      /\ Picks(agentConfs, file["agents"],
                               OfClients(file["agents"], file["clients"]))
                      /\ {links[t] : t \in DOMAIN links} =
                             {file["links"][i] : i \in FirstLinks(file["links"])}
    BY DEF SettingsExact
  <2>1. Setting /\ file \in Files /\ \A l \in Lists : conf[l] = <<>>
    BY DEF SetInv, ConfSound, Setting, Empty
  <2>2. \A l \in Lists : /\ file[l] \in Seq(ToSet(file[l])) /\ Len(file[l]) \in Nat
                         /\ DOMAIN file[l] = 1..Len(file[l]) /\ At(l) = Len(file[l])
    <3> SUFFICES ASSUME NEW l \in Lists
                 PROVE  /\ file[l] \in Seq(ToSet(file[l])) /\ Len(file[l]) \in Nat
                        /\ DOMAIN file[l] = 1..Len(file[l]) /\ At(l) = Len(file[l])
      OBVIOUS
    <3>1. file[l] \in Seq(ToSet(file[l])) /\ Len(file[l]) \in Nat /\ DOMAIN file[l] = 1..Len(file[l])
      BY <2>1, FileLists
    <3>2. Len(conf[l]) = 0  BY <2>1
    <3> QED  BY <3>1, <3>2 DEF At
  <2>3. svrConfs = file["servers"]
    <3>1. /\ svrConfs \in Seq(ToSet(file["servers"]))
          /\ Len(svrConfs) = Len(file["servers"])
          /\ \A k \in 1..Len(svrConfs) : svrConfs[k] = file["servers"][k]
      BY <2>1, <2>2 DEF SetInv, SvrsSound, Lists
    <3>2. file["servers"] \in Seq(ToSet(file["servers"]))  BY <2>2 DEF Lists
    <3> QED  BY <3>1, <3>2, SeqEqual
  <2>4. Picks(cliConfs, file["clients"], FirstClients(file["clients"]))
    <3>1. At("clients") = Len(file["clients"]) /\ DOMAIN file["clients"] = 1..Len(file["clients"])
      BY <2>2 DEF Lists
    <3>2. FirstClients(file["clients"]) \intersect (1..At("clients")) = FirstClients(file["clients"])
      BY <3>1 DEF FirstClients
    <3> QED  BY <3>2, <2>1 DEF SetInv, ClisSound
  <2>5. Picks(agentConfs, file["agents"], OfClients(file["agents"], file["clients"]))
    <3>1. At("agents") = Len(file["agents"]) /\ DOMAIN file["agents"] = 1..Len(file["agents"])
      BY <2>2 DEF Lists
    <3>2. OfClients(file["agents"], file["clients"]) \intersect (1..At("agents"))
              = OfClients(file["agents"], file["clients"])
      BY <3>1 DEF OfClients
    <3> QED  BY <3>2, <2>1 DEF SetInv, AgentsSound
  <2>6. ASSUME NEW t \in DOMAIN links
        PROVE  \E i \in FirstLinks(file["links"]) : links[t] = file["links"][i]
    BY <2>1 DEF SetInv, LinksSound
  <2>7. ASSUME NEW i \in FirstLinks(file["links"])
        PROVE  \E t \in DOMAIN links : links[t] = file["links"][i]
    <3> DEFINE F == file["links"]
    <3>1. i \in 1..Len(F) /\ Len(F) \in Nat /\ At("links") = Len(F)
      BY <2>2, <2>7 DEF FirstLinks, Lists
    <3>2. F[i].type \in DOMAIN links  BY <3>1, <2>1 DEF SetInv, LinksSound
    <3>3. PICK j \in FirstLinks(F) : links[F[i].type] = F[j] /\ F[j].type = F[i].type
      BY <3>2, <2>1 DEF SetInv, LinksSound
    <3>4. j \in 1..Len(F)  BY <2>2, <3>3 DEF FirstLinks, Lists
    <3> HIDE DEF F
    <3>5. i = j  BY <3>1, <3>3, <3>4, <2>7 DEF FirstLinks, F
    <3> QED  BY <3>2, <3>3, <3>5 DEF F
  <2> QED  BY <2>3, <2>4, <2>5, <2>6, <2>7
<1> QED  BY <1>1, SetInit, SetStep, PTL DEF Spec
----------------------------------------------------------------------------
(* The links of the clients.                                               *)

\* The delay after n attempts and connections that ended.
DelayAfter(n) == IF n = 0 THEN 0 ELSE DELAY_TIMEOUT[IF n < 4 THEN n ELSE 4]

TaskType ==
    [kind : {"attempt", "connection", "timer"}, data : DOMAIN cliConfs,
     wait : {0} \union ToSet(DELAY_TIMEOUT)]

\* The framework has one task for each data, and no other; a timer runs for
\* the delay of its data.
OneTaskEach ==
    /\ tasks = SetToBag(DOMAIN tasks)
    /\ DOMAIN tasks \in SUBSET TaskType
    /\ \A s, t \in DOMAIN tasks : s.data = t.data => s = t
    /\ \A d \in DOMAIN cliConfs : \E t \in DOMAIN tasks : t.data = d
    /\ \A t \in DOMAIN tasks :
          t.kind = "timer" => t.wait = delay[t.data] /\ fails[t.data] > 0

DelaySound ==
    /\ delay \in [DOMAIN cliConfs -> {0} \union ToSet(DELAY_TIMEOUT)]
    /\ fails \in [DOMAIN cliConfs -> 0..5]
    /\ \A d \in DOMAIN cliConfs : delay[d] = DelayAfter(fails[d])

UsersSound ==
    /\ users \in [Uids -> 0..Len(cliConfs)]
    /\ \A d \in DOMAIN cliConfs : users[cliConfs[d].uid] = d

RunInv ==
    /\ pc = "run" => OneTaskEach /\ DelaySound /\ UsersSound
    /\ pc # "run" => /\ users = [u \in Uids |-> 0]
                     /\ delay = <<>> /\ tasks = EmptyBag

IInv == SetInv /\ RunInv

\* The table of delays.
LEMMA DelayTable ==
    /\ ToSet(DELAY_TIMEOUT) = {1, 15, 60, 120}
    /\ DelayAfter(0) = 0 /\ DelayAfter(1) = 1 /\ DelayAfter(2) = 15
    /\ DelayAfter(3) = 60 /\ DelayAfter(4) = 120 /\ DelayAfter(5) = 120
<1>1. /\ DOMAIN DELAY_TIMEOUT = 1..4
      /\ DELAY_TIMEOUT[1] = 1 /\ DELAY_TIMEOUT[2] = 15
      /\ DELAY_TIMEOUT[3] = 60 /\ DELAY_TIMEOUT[4] = 120
  BY DEF DELAY_TIMEOUT
<1>2. ToSet(DELAY_TIMEOUT) = {1, 15, 60, 120}
  <2>1. 1..4 = {1, 2, 3, 4}  OBVIOUS
  <2> QED  BY <1>1, <2>1 DEF ToSet
<1> QED  BY <1>1, <1>2 DEF DelayAfter

\* What reConn's search finds: the first longer delay, or the last one.
LEMMA NextDelay ==
    ASSUME NEW n \in 0..5
    PROVE  nextDelay(DelayAfter(n)) = DelayAfter(IF n < 5 THEN n + 1 ELSE n)
<1> DEFINE First(last, j) ==
             /\ j = 5 \/ last < DELAY_TIMEOUT[j]
             /\ \A k \in 1..(j - 1) : last >= DELAY_TIMEOUT[k]
<1>1. /\ DELAY_TIMEOUT[1] = 1 /\ DELAY_TIMEOUT[2] = 15
      /\ DELAY_TIMEOUT[3] = 60 /\ DELAY_TIMEOUT[4] = 120
  BY DEF DELAY_TIMEOUT
<1>2. ASSUME NEW last \in Nat, NEW j \in 1..5, First(last, j)
      PROVE  nextDelay(last) = IF j = 5 THEN last ELSE DELAY_TIMEOUT[j]
  <2>1. \A i \in 1..5 : First(last, i) => i = j
    BY <1>1, <1>2
  <2>2. nextDelay(last) =
            LET i == CHOOSE i \in 1..5 : First(last, i)
            IN IF i = 5 THEN last ELSE DELAY_TIMEOUT[i]
    BY DEF nextDelay
  <2> HIDE DEF First
  <2>3. (CHOOSE i \in 1..5 : First(last, i)) = j  BY <2>1, <1>2
  <2> QED  BY <2>2, <2>3
<1>3. First(0, 1) /\ First(1, 2) /\ First(15, 3) /\ First(60, 4) /\ First(120, 5)
  BY <1>1
<1> HIDE DEF First
<1>4. /\ nextDelay(0) = 1 /\ nextDelay(1) = 15 /\ nextDelay(15) = 60
      /\ nextDelay(60) = 120 /\ nextDelay(120) = 120
  BY <1>1, <1>2, <1>3
<1> QED  BY <1>4, DelayTable

\* One task takes the place of another.
LEMMA Replaced ==
    ASSUME NEW t, NEW u, tasks = SetToBag(DOMAIN tasks), t \in DOMAIN tasks,
           u \notin DOMAIN tasks
    PROVE  /\ DOMAIN ((tasks (-) SetToBag({t})) (+) SetToBag({u}))
                  = (DOMAIN tasks \ {t}) \union {u}
           /\ (tasks (-) SetToBag({t})) (+) SetToBag({u})
                  = SetToBag((DOMAIN tasks \ {t}) \union {u})
<1>1. tasks (-) SetToBag({t}) = SetToBag(DOMAIN tasks \ {t})
  BY SMT DEF (-), SetToBag
<1>2. SetToBag(DOMAIN tasks \ {t}) (+) SetToBag({u})
          = SetToBag((DOMAIN tasks \ {t}) \union {u})
  BY SMT DEF (+), SetToBag
<1> QED  BY <1>1, <1>2 DEF SetToBag

\* The framework goes from one task of a data to the next.
LEMMA ReplaceStep ==
    ASSUME pc = "run", OneTaskEach, NEW d \in DOMAIN cliConfs, NEW kind, NEW new,
           NEW wait \in {0} \union ToSet(DELAY_TIMEOUT),
           new \in {"attempt", "connection", "timer"}, new # kind,
           HasTask(kind, d), Replace(kind, d, Task(new, d, wait)),
           UNCHANGED cliConfs, \A e \in DOMAIN cliConfs \ {d} :
               delay'[e] = delay[e] /\ fails'[e] = fails[e],
           new = "timer" => wait = delay'[d] /\ fails'[d] > 0
    PROVE  OneTaskEach'
<1> DEFINE t == CHOOSE s \in DOMAIN tasks : s.kind = kind /\ s.data = d
           u == [kind |-> new, data |-> d, wait |-> wait]
<1>1. t \in DOMAIN tasks /\ t.kind = kind /\ t.data = d
  BY DEF HasTask, BagToSet
<1>2. u \in TaskType /\ u.data = d /\ u.kind = new /\ u.wait = wait  BY DEF TaskType
<1>3. tasks' = (tasks (-) SetToBag({t})) (+) SetToBag({u})
  BY DEF Replace, BagToSet, Task
<1> HIDE DEF t, u
<1>4. u \notin DOMAIN tasks
  BY <1>1, <1>2 DEF OneTaskEach
<1>5. /\ DOMAIN tasks' = (DOMAIN tasks \ {t}) \union {u}
      /\ tasks' = SetToBag(DOMAIN tasks')
  <2>1. tasks = SetToBag(DOMAIN tasks)  BY DEF OneTaskEach
  <2>2. /\ DOMAIN ((tasks (-) SetToBag({t})) (+) SetToBag({u}))
              = (DOMAIN tasks \ {t}) \union {u}
        /\ (tasks (-) SetToBag({t})) (+) SetToBag({u})
              = SetToBag((DOMAIN tasks \ {t}) \union {u})
    BY <2>1, <1>1, <1>4, Replaced
  <2> QED  BY <2>2, <1>3
<1>6. DOMAIN tasks' \in SUBSET TaskType' /\ TaskType' = TaskType
  BY <1>2, <1>5 DEF OneTaskEach, TaskType
<1>7. \A s \in DOMAIN tasks \ {t} : s.data # d /\ s.data \in DOMAIN cliConfs
  BY <1>1 DEF OneTaskEach, TaskType
<1>8. \A r, s \in DOMAIN tasks' : r.data = s.data => r = s
  BY <1>2, <1>5, <1>7 DEF OneTaskEach
<1>9. \A e \in DOMAIN cliConfs : \E s \in DOMAIN tasks' : s.data = e
  BY <1>1, <1>2, <1>5 DEF OneTaskEach
<1>10. \A s \in DOMAIN tasks' :
          s.kind = "timer" => s.wait = delay'[s.data] /\ fails'[s.data] > 0
  BY <1>2, <1>5, <1>7 DEF OneTaskEach
<1> QED  BY <1>5, <1>6, <1>8, <1>9, <1>10 DEF OneTaskEach

\* Each client has a section of its own.
LEMMA ClientsDiffer ==
    ASSUME SetInv, Setting
    PROVE  /\ DOMAIN cliConfs = 1..Len(cliConfs) /\ Len(cliConfs) \in Nat
           /\ \A d \in DOMAIN cliConfs :
                 /\ cliConfs[d].uid \in Uids \ {NoUid}
                 /\ cliConfs[d] \in ToSet(file["clients"])
           /\ \A d, e \in DOMAIN cliConfs : cliConfs[d].uid = cliConfs[e].uid => d = e
<1> DEFINE F == file["clients"]
           I == FirstClients(F) \intersect (1..At("clients"))
<1>1. /\ cliConfs \in Seq(ToSet(F)) /\ Picks(cliConfs, F, I)
      /\ file \in Files /\ Broken \notin ToSet(F) /\ DOMAIN F = 1..Len(F) /\ Len(F) \in Nat
  BY FileLists DEF SetInv, ClisSound, ConfSound, Lists
<1>2. PICK at \in [DOMAIN cliConfs -> I] :
        /\ \A k \in DOMAIN cliConfs : cliConfs[k] = F[at[k]]
        /\ \A k, m \in DOMAIN cliConfs : k < m => at[k] < at[m]
  BY <1>1 DEF Picks
<1>3. DOMAIN cliConfs = 1..Len(cliConfs) /\ Len(cliConfs) \in Nat  BY <1>1
<1>4. \A i \in I : i \in 1..Len(F) /\ F[i].uid # NoUid
                /\ \A j \in 1..(i - 1) : F[j].uid # F[i].uid
  BY <1>1 DEF FirstClients
<1>5. ASSUME NEW d \in DOMAIN cliConfs
      PROVE  cliConfs[d].uid \in Uids \ {NoUid} /\ cliConfs[d] \in ToSet(F)
  <2>1. cliConfs[d] \in ToSet(F) \ {Broken}  BY <1>1, <1>5
  <2>2. cliConfs[d].uid \in Uids  BY <2>1, <1>1 DEF Uids
  <2>3. at[d] \in I /\ cliConfs[d] = F[at[d]]  BY <1>2, <1>5
  <2> HIDE DEF F, I
  <2> QED  BY <2>1, <2>2, <2>3, <1>4
<1> HIDE DEF F, I
<1>6. ASSUME NEW d \in DOMAIN cliConfs, NEW e \in DOMAIN cliConfs, d < e
      PROVE  cliConfs[d].uid # cliConfs[e].uid
  <2>1. /\ at[d] \in I /\ at[e] \in I /\ at[d] < at[e]
        /\ cliConfs[d] = F[at[d]] /\ cliConfs[e] = F[at[e]]
    BY <1>2, <1>6
  <2>2. at[d] \in 1..(at[e] - 1)  BY <2>1, <1>1, <1>4
  <2> QED  BY <2>1, <2>2, <1>4
<1>7. \A d, e \in DOMAIN cliConfs : cliConfs[d].uid = cliConfs[e].uid => d = e
  BY <1>3, <1>6
<1> QED  BY <1>3, <1>5, <1>7 DEF F

\* No task exists before the process runs.
LEMMA RunInit == Init => RunInv
  BY DEF Init, RunInv

\* start makes one attempt for each client.
LEMMA RunStart == SetInv /\ start => RunInv'
<1> SUFFICES ASSUME SetInv, start PROVE RunInv'  OBVIOUS
<1>1. Setting /\ pc' = "run" /\ cliConfs' = cliConfs  BY DEF start, Setting, tables
<1>2. /\ DOMAIN cliConfs = 1..Len(cliConfs) /\ Len(cliConfs) \in Nat
      /\ \A d \in DOMAIN cliConfs : cliConfs[d].uid \in Uids \ {NoUid}
      /\ \A d, e \in DOMAIN cliConfs : cliConfs[d].uid = cliConfs[e].uid => d = e
  BY <1>1, ClientsDiffer
<1>3. OneTaskEach'
  <2> DEFINE T == [kind : {"attempt"}, data : DOMAIN cliConfs, wait : {0}]
  <2>1. tasks' = SetToBag(T)  BY DEF start
  <2>2. DOMAIN tasks' = T  BY <2>1 DEF SetToBag
  <2>3. T \in SUBSET TaskType'  BY <1>1 DEF TaskType
  <2>4. \A r, s \in T : r.data = s.data => r = s  OBVIOUS
  <2>5. ASSUME NEW d \in DOMAIN cliConfs PROVE \E s \in T : s.data = d
    <3>1. [kind |-> "attempt", data |-> d, wait |-> 0] \in T  OBVIOUS
    <3> QED  BY <3>1
  <2>6. \A s \in T : s.kind # "timer"  OBVIOUS
  <2> HIDE DEF T
  <2> QED  BY <2>1, <2>2, <2>3, <2>4, <2>5, <2>6, <1>1 DEF OneTaskEach
<1>4. DelaySound'
  <2>1. delay' = [d \in DOMAIN cliConfs |-> 0] /\ fails' = [d \in DOMAIN cliConfs |-> 0]
    BY DEF start
  <2>2. DelayAfter(0) = 0  BY DelayTable
  <2> QED  BY <2>1, <2>2, <1>1 DEF DelaySound
<1>5. UsersSound'
  <2> DEFINE D(u) == CHOOSE d \in DOMAIN cliConfs :
                        /\ cliConfs[d].uid = u
                        /\ \A e \in DOMAIN cliConfs : cliConfs[e].uid = u => e <= d
  <2>1. users' = [u \in Uids |-> IF hasUsr(u) THEN D(u) ELSE 0]  BY DEF start
  <2>2. ASSUME NEW d \in DOMAIN cliConfs PROVE D(cliConfs[d].uid) = d
    BY <1>2, <2>2
  <2> HIDE DEF D
  <2>3. ASSUME NEW u \in Uids, hasUsr(u) PROVE D(u) \in 1..Len(cliConfs)
    <3>1. PICK d \in DOMAIN cliConfs : cliConfs[d].uid = u  BY <2>3, HasUsr
    <3> QED  BY <3>1, <2>2, <1>2
  <2>4. users' \in [Uids -> 0..Len(cliConfs)]  BY <2>1, <2>3, <1>2
  <2>5. ASSUME NEW d \in DOMAIN cliConfs PROVE users'[cliConfs[d].uid] = d
    <3>1. hasUsr(cliConfs[d].uid) /\ cliConfs[d].uid \in Uids  BY <1>2, HasUsr
    <3> QED  BY <3>1, <2>1, <2>2
  <2> QED  BY <2>4, <2>5, <1>1 DEF UsersSound
<1> QED  BY <1>1, <1>3, <1>4, <1>5 DEF RunInv

\* The delays keep step with the attempts that failed.
LEMMA DelayStep ==
    ASSUME DelaySound, NEW d \in DOMAIN cliConfs, UNCHANGED cliConfs, CountFail(d),
           delay' = [delay EXCEPT ![d] = nextDelay(delay[d])]
    PROVE  /\ DelaySound' /\ fails'[d] > 0 /\ delay'[d] = nextDelay(delay[d])
           /\ delay'[d] \in {0} \union ToSet(DELAY_TIMEOUT)
           /\ \A e \in DOMAIN cliConfs \ {d} : delay'[e] = delay[e] /\ fails'[e] = fails[e]
<1> DEFINE n == fails[d]
           m == IF n < 5 THEN n + 1 ELSE n
<1>1. n \in 0..5 /\ delay[d] = DelayAfter(n)  BY DEF DelaySound
<1>2. nextDelay(delay[d]) = DelayAfter(m)  BY <1>1, NextDelay
<1>3. m \in 1..5  BY <1>1
<1>4. DelayAfter(m) \in {0} \union ToSet(DELAY_TIMEOUT)  BY <1>3, DelayTable
<1>5. fails' = [fails EXCEPT ![d] = m]  BY DEF CountFail
<1>6. /\ delay'[d] = DelayAfter(m) /\ fails'[d] = m
      /\ \A e \in DOMAIN cliConfs \ {d} : delay'[e] = delay[e] /\ fails'[e] = fails[e]
  BY <1>2, <1>5 DEF DelaySound
<1> HIDE DEF n, m
<1>7. delay' \in [DOMAIN cliConfs -> {0} \union ToSet(DELAY_TIMEOUT)]
  BY <1>2, <1>4 DEF DelaySound
<1>8. fails' \in [DOMAIN cliConfs -> 0..5]  BY <1>3, <1>5 DEF DelaySound
<1>9. \A e \in DOMAIN cliConfs : delay'[e] = DelayAfter(fails'[e])
  BY <1>6 DEF DelaySound
<1>10. DelaySound'  BY <1>7, <1>8, <1>9 DEF DelaySound
<1> QED  BY <1>2, <1>3, <1>4, <1>6, <1>10

\* An attempt fails, or a connection ends.
LEMMA RunReConn ==
    ASSUME RunInv, pc = "run", NEW d \in DOMAIN cliConfs,
           NEW kind \in {"attempt", "connection"}, HasTask(kind, d), reConn(kind, d),
           CountFail(d), UNCHANGED <<pc, cliConfs, users>>
    PROVE  RunInv'
<1>1. OneTaskEach /\ DelaySound /\ UsersSound  BY DEF RunInv
<1>2. /\ delay' = [delay EXCEPT ![d] = nextDelay(delay[d])]
      /\ Replace(kind, d, Task("timer", d, nextDelay(delay[d])))
  BY DEF reConn
<1>3. /\ DelaySound' /\ fails'[d] > 0 /\ delay'[d] = nextDelay(delay[d])
      /\ nextDelay(delay[d]) \in {0} \union ToSet(DELAY_TIMEOUT)
      /\ \A e \in DOMAIN cliConfs \ {d} : delay'[e] = delay[e] /\ fails'[e] = fails[e]
  BY <1>1, <1>2, DelayStep
<1>4. OneTaskEach'  BY <1>1, <1>2, <1>3, ReplaceStep
<1>5. UsersSound'  BY <1>1 DEF UsersSound
<1> QED  BY <1>3, <1>4, <1>5 DEF RunInv

\* A connection takes the place of the attempt that made it.
LEMMA RunConnOK ==
    ASSUME RunInv, NEW d \in DOMAIN cliConfs, onConnOK(d)
    PROVE  RunInv'
<1>1. /\ pc = "run" /\ HasTask("attempt", d)
      /\ Replace("attempt", d, Task("connection", d, 0))
      /\ delay' = [delay EXCEPT ![d] = 0] /\ fails' = [fails EXCEPT ![d] = 0]
      /\ UNCHANGED <<pc, cliConfs, users>>
  BY DEF onConnOK, HasTask, tables
<1>2. OneTaskEach /\ DelaySound /\ UsersSound  BY <1>1 DEF RunInv
<1>3. DelayAfter(0) = 0  BY DelayTable
<1>4. /\ DelaySound'
      /\ \A e \in DOMAIN cliConfs \ {d} : delay'[e] = delay[e] /\ fails'[e] = fails[e]
  BY <1>1, <1>2, <1>3 DEF DelaySound
<1>5. OneTaskEach'  BY <1>1, <1>2, <1>4, ReplaceStep
<1>6. UsersSound'  BY <1>1, <1>2 DEF UsersSound
<1> QED  BY <1>1, <1>4, <1>5, <1>6 DEF RunInv

\* An attempt takes the place of the timer that fired.
LEMMA RunTimer ==
    ASSUME RunInv, NEW d \in DOMAIN cliConfs, TimerFires(d)
    PROVE  RunInv'
<1>1. /\ pc = "run" /\ HasTask("timer", d)
      /\ Replace("timer", d, Task("attempt", d, 0))
      /\ UNCHANGED <<pc, cliConfs, users, delay, fails>>
  BY DEF TimerFires, HasTask, tables
<1>2. OneTaskEach /\ DelaySound /\ UsersSound  BY <1>1 DEF RunInv
<1>3. OneTaskEach'  BY <1>1, <1>2, ReplaceStep
<1>4. DelaySound' /\ UsersSound'  BY <1>1, <1>2 DEF DelaySound, UsersSound
<1> QED  BY <1>1, <1>3, <1>4 DEF RunInv

\* Nothing happens to the clients.
LEMMA RunKept ==
    ASSUME RunInv,
           \/ UNCHANGED <<pc, cliConfs, clients>>
           \/ pc # "run" /\ pc' # "run" /\ UNCHANGED clients
    PROVE  RunInv'
  BY DEF RunInv, OneTaskEach, TaskType, DelaySound, UsersSound, clients

\* Every step keeps the invariant.
LEMMA Inductive == IInv /\ [Next]_vars => IInv'
<1> SUFFICES ASSUME IInv, [Next]_vars PROVE RunInv'
  BY SetStep DEF IInv
<1>0. SetInv /\ RunInv  BY DEF IInv
<1>1. CASE parse \/ addSvr \/ addCli \/ addListener \/ addLink
  BY <1>0, <1>1, RunKept DEF parse, addSvr, addCli, addListener, addLink, Adds
<1>2. CASE start  BY <1>0, <1>2, RunStart
<1>3. ASSUME NEW d \in DOMAIN cliConfs, onConnFail(d) \/ onClose(d) PROVE RunInv'
  BY <1>0, <1>3, RunReConn DEF onConnFail, onClose, HasTask, tables
<1>4. ASSUME NEW d \in DOMAIN cliConfs, onConnOK(d) \/ TimerFires(d) PROVE RunInv'
  BY <1>0, <1>4, RunConnOK, RunTimer
<1>5. CASE Reach  BY <1>0, <1>5, RunKept DEF Reach, tables
<1>6. CASE finish  BY <1>6 DEF finish, RunInv
<1>7. CASE UNCHANGED vars  BY <1>0, <1>7, RunKept DEF vars, tables
<1> QED  BY <1>1, <1>2, <1>3, <1>4, <1>5, <1>6, <1>7 DEF Next

\* The invariant holds in every reachable state.
LEMMA IInvAlways == Spec => []IInv
<1>1. Init => IInv  BY SetInit, RunInit DEF IInv
<1> QED  BY <1>1, Inductive, PTL DEF Spec
----------------------------------------------------------------------------
(* What follows from the invariant.                                        *)

\* The tables of the process keep their types, for any configuration file.
THEOREM TypeCorrect == Spec => []TypeOK
<1>1. IInv => TypeOK
  <2> SUFFICES ASSUME IInv PROVE TypeOK  OBVIOUS
  <2>0. SetInv /\ RunInv  BY DEF IInv
  <2>1. \A s \in {svrConfs, cliConfs, agentConfs} : Broken \notin ToSet(s)
    <3>1. CASE ~Setting  BY <3>1, <2>0 DEF SetInv, Unset, ToSet
    <3>2. CASE Setting
      <4>1. /\ svrConfs \in Seq(ToSet(file["servers"])) /\ Broken \notin ToSet(file["servers"])
            /\ cliConfs \in Seq(ToSet(file["clients"])) /\ Broken \notin ToSet(file["clients"])
            /\ agentConfs \in Seq(ToSet(file["agents"])) /\ Broken \notin ToSet(file["agents"])
        BY <3>2, <2>0 DEF SetInv, ConfSound, SvrsSound, ClisSound, AgentsSound, Lists
      <4>2. ASSUME NEW S, NEW s \in Seq(S), Broken \notin S PROVE Broken \notin ToSet(s)
        BY <4>2 DEF ToSet
      <4> QED  BY <4>1, <4>2
    <3> QED  BY <3>1, <3>2
  <2>2. \A t \in DOMAIN links : links[t] # Broken /\ links[t].type = t
    <3>1. CASE ~Setting  BY <3>1, <2>0 DEF SetInv, Unset
    <3>2. CASE Setting
      <4> DEFINE F == file["links"]
      <4>1. Broken \notin ToSet(F) /\ \A i \in FirstLinks(F) : F[i] \in ToSet(F)
        BY <3>2, <2>0 DEF SetInv, ConfSound, FirstLinks, ToSet, Lists
      <4> QED  BY <4>1, <3>2, <2>0 DEF SetInv, LinksSound
    <3> QED  BY <3>1, <3>2
  <2>3. CASE pc = "run"
    <3>1. OneTaskEach /\ DelaySound /\ UsersSound  BY <2>0, <2>3 DEF RunInv
    <3> QED
      BY <3>1, <2>0, <2>1, <2>2
      DEF TypeOK, SetInv, OneTaskEach, TaskType, DelaySound, UsersSound, BagToSet
  <2>4. CASE pc # "run"
    <3>1. users = [u \in Uids |-> 0] /\ delay = <<>> /\ tasks = EmptyBag
      BY <2>0, <2>4 DEF RunInv
    <3>2. Len(cliConfs) \in Nat
      BY <2>0, ClientsDiffer DEF SetInv, Unset
    <3>3. BagToSet(tasks) = {}  BY <3>1 DEF BagToSet, EmptyBag, SetToBag
    <3>4. users \in [Uids -> 0..Len(cliConfs)]  BY <3>1, <3>2
    <3>5. delay \in [DOMAIN delay -> {0} \union ToSet(DELAY_TIMEOUT)]  BY <3>1
    <3> QED  BY <3>3, <3>4, <3>5, <2>0, <2>1, <2>2 DEF TypeOK, SetInv
  <2> QED  BY <2>3, <2>4
<1> QED  BY <1>1, IInvAlways, PTL

\* Every client keeps exactly one link: one attempt, timer or connection in
\* the framework, of the data that m_users finds (CliCenter::start, onConnOK,
\* onConnFail, onClose, reConn).
THEOREM OneLinkAlways == Spec => []OneLinkEach
<1>1. IInv => OneLinkEach
  <2> SUFFICES ASSUME IInv, pc = "run", NEW u \in Uids \ {NoUid}
               PROVE  LET ofUser == {t \in BagToSet(tasks) : cliConfs[t.data].uid = u}
                      IN /\ (\E c \in ToSet(file["clients"]) : c.uid = u) <=> ofUser # {}
                         /\ \A t \in ofUser : users[u] = t.data /\ tasks[t] = 1
                         /\ Cardinality(ofUser) <= 1
    BY DEF OneLinkEach
  <2> DEFINE ofUser == {t \in BagToSet(tasks) : cliConfs[t.data].uid = u}
             F == file["clients"]
  <2>1. Setting /\ SetInv /\ OneTaskEach /\ UsersSound
    BY DEF IInv, RunInv, Setting
  <2>2. /\ \A d \in DOMAIN cliConfs : cliConfs[d] \in ToSet(F)
        /\ \A d, e \in DOMAIN cliConfs : cliConfs[d].uid = cliConfs[e].uid => d = e
    BY <2>1, ClientsDiffer
  <2>3. ASSUME NEW t \in ofUser
        PROVE  /\ t \in DOMAIN tasks /\ t.data \in DOMAIN cliConfs
               /\ cliConfs[t.data].uid = u /\ users[u] = t.data /\ tasks[t] = 1
    <3>1. t \in DOMAIN tasks /\ cliConfs[t.data].uid = u  BY <2>3 DEF BagToSet
    <3>2. t.data \in DOMAIN cliConfs  BY <3>1, <2>1 DEF OneTaskEach, TaskType
    <3>3. tasks[t] = 1  BY <3>1, <2>1 DEF OneTaskEach, SetToBag
    <3> QED  BY <3>1, <3>2, <3>3, <2>1 DEF UsersSound
  <2>4. ASSUME NEW s \in ofUser, NEW t \in ofUser PROVE s = t
    <3>1. s.data = t.data  BY <2>2, <2>3
    <3> QED  BY <3>1, <2>1, <2>3 DEF OneTaskEach
  <2>5. ASSUME NEW c \in ToSet(F), c.uid = u PROVE ofUser # {}
    <3>1. At("clients") = Len(F) /\ DOMAIN F = 1..Len(F)
      <4>1. conf["clients"] = <<>> /\ file \in Files  BY <2>1 DEF SetInv, ConfSound, Empty, Lists
      <4>2. Len(F) \in Nat /\ DOMAIN F = 1..Len(F)  BY <4>1, FileLists DEF Lists
      <4>3. Len(conf["clients"]) = 0  BY <4>1
      <4> QED  BY <4>2, <4>3 DEF At
    <3>2. PICK i \in 1..Len(F) : F[i] = c  BY <2>5, <3>1 DEF ToSet
    <3>3. hasUsr(u)  BY <3>1, <3>2, <2>1, <2>5 DEF SetInv, ClisSound
    <3>4. PICK d \in DOMAIN cliConfs : cliConfs[d].uid = u  BY <3>3, HasUsr
    <3>5. PICK t \in DOMAIN tasks : t.data = d  BY <3>4, <2>1 DEF OneTaskEach
    <3>6. t \in ofUser  BY <3>4, <3>5 DEF BagToSet
    <3> QED  BY <3>6
  <2>6. ASSUME NEW t \in ofUser PROVE \E c \in ToSet(F) : c.uid = u
    BY <2>2, <2>3
  <2> HIDE DEF ofUser
  <2>7. Cardinality(ofUser) <= 1
    <3>1. CASE ofUser = {}  BY <3>1, FS_EmptySet
    <3>2. CASE ofUser # {}
      <4>1. PICK t : ofUser = {t}  BY <3>2, <2>4
      <4>2. Cardinality({t}) = 1  BY FS_Singleton
      <4> QED  BY <4>1, <4>2
    <3> QED  BY <3>1, <3>2
  <2> QED  BY <2>3, <2>5, <2>6, <2>7 DEF ofUser
<1> QED  BY <1>1, IInvAlways, PTL

\* A timer waits for the delay that follows from the attempts and connections
\* that ended since the last connection was made: 1, 15, 60 and then always
\* 120 seconds (CliCenter::reConn).
THEOREM BackoffIsExact == Spec => []BackoffExact
<1>1. IInv => BackoffExact
  <2> SUFFICES ASSUME IInv, NEW t \in BagToSet(tasks), t.kind = "timer"
               PROVE  t.wait = DELAY_TIMEOUT[IF fails[t.data] < 4 THEN fails[t.data] ELSE 4]
    BY DEF BackoffExact
  <2>1. t \in DOMAIN tasks  BY DEF BagToSet
  <2>2. pc = "run"  BY <2>1 DEF IInv, RunInv, EmptyBag, SetToBag
  <2>3. OneTaskEach /\ DelaySound  BY <2>2 DEF IInv, RunInv
  <2>4. t.data \in DOMAIN cliConfs  BY <2>1, <2>3 DEF OneTaskEach, TaskType
  <2>5. /\ t.wait = delay[t.data] /\ fails[t.data] > 0
        /\ delay[t.data] = DelayAfter(fails[t.data])
    BY <2>1, <2>3, <2>4 DEF OneTaskEach, DelaySound
  <2> QED  BY <2>5 DEF DelayAfter
<1> QED  BY <1>1, IInvAlways, PTL
=============================================================================
