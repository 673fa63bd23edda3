------------------------------ MODULE Service ------------------------------
(***************************************************************************)
(* One process from its configuration file to its end: BaseConfig reads    *)
(* the file, Service hands the sections to the centers and starts them,    *)
(* and CliCenter keeps one link to a router for every user, which it makes *)
(* again, after a delay, whenever it is lost or cannot be made.            *)
(*                                                                         *)
(* The framework holds a task for a client as long as an attempt to        *)
(* connect is under way, a connection is open, or a timer for the next     *)
(* attempt is running.  Tasks are counted in a bag, and refer to the       *)
(* client's data, which is numbered like its section in cliConfs.          *)
(***************************************************************************)
EXTENDS Naturals, Sequences, SequencesExt, Bags

CONSTANTS
    Files,      \* configuration files: the sections of servers, clients,
                \* agents and links, and whether the rest is complete
    Broken,     \* a section with a key that is missing or cannot be read
    NoUid       \* the uid 0

Lists == {"servers", "clients", "agents", "links"}

ASSUME ServiceAssumption ==
    \A f \in Files :
        /\ DOMAIN f = Lists \union {"complete"} /\ f.complete \in BOOLEAN
        /\ \A l \in Lists : f[l] \in Seq(ToSet(f[l]))
        /\ \A e \in UNION {ToSet(f[l]) : l \in Lists} \ {Broken} :
              DOMAIN e = {"uid", "type", "addr"}

VARIABLES
    file,       \* the configuration file
    pc,         \* parse, prepare, run, failed, finished
    conf,       \* GlobalConf: the sections that prepare has yet to add
    svrConfs,   \* SvrCenter::m_confs
    cliConfs,   \* CliCenter::m_confs
    agentConfs, \* AgentCenter::m_confs
    links,      \* AgentCenter::m_links: the sections by their link type
    users,      \* CliCenter::m_users: the data of each user
    delay,      \* m_conn_delay of each data
    tasks,      \* the framework's tasks for clients
    reach,      \* whether the router can be reached
    fails       \* attempts and connections of each data that ended since it
                \* was connected last: history, read by BackoffExact only

tables == <<svrConfs, cliConfs, agentConfs, links>>
clients == <<users, delay, tasks, fails>>
vars == <<file, pc, conf, tables, clients, reach>>

Empty == [l \in Lists |-> <<>>]

Uids == UNION {{e.uid : e \in ToSet(f.clients) \ {Broken}} : f \in Files}

Init ==
    /\ file \in Files
    /\ pc = "parse"
    /\ conf = Empty
    /\ svrConfs = <<>> /\ cliConfs = <<>> /\ agentConfs = <<>>
    /\ links = <<>>
    /\ users = [u \in Uids |-> 0]
    /\ delay = <<>> /\ fails = <<>>
    /\ tasks = EmptyBag
    /\ reach \in BOOLEAN
----------------------------------------------------------------------------
(* From the file to the tables of the centers.                             *)

\* parseLog, parseParam: every key must be there.
parseGlobals == file.complete

\* parseServer, parseClient, parseAgent, parseLink: the section's keys, and
\* those of the address that it names.
parseSection(e) == e # Broken

parseConf == \A l \in Lists : \A e \in ToSet(file[l]) : parseSection(e)

\* The first thing that cannot be read ends it all.
parse ==
    /\ pc = "parse"
    /\ IF parseGlobals /\ parseConf
       THEN pc' = "prepare" /\ conf' = [l \in Lists |-> file[l]]
       ELSE pc' = "failed" /\ UNCHANGED conf
    /\ UNCHANGED <<file, tables, clients, reach>>

\* The next section that prepare adds is the first of list l.  Mutant: the
\* agents come before the clients.
AddsAgentsFirst(l) ==
    /\ pc = "prepare" /\ conf[l] # <<>>
    /\ l = "clients" => conf.servers = <<>> /\ conf.agents = <<>>
    /\ l = "agents" => conf.servers = <<>>
    /\ l = "links" => \A k \in Lists \ {"links"} : conf[k] = <<>>

Adds(l) ==
    /\ pc = "prepare" /\ conf[l] # <<>>
    /\ l = "clients" => conf.servers = <<>>
    /\ l = "agents" => conf.servers = <<>> /\ conf.clients = <<>>
    /\ l = "links" => \A k \in Lists \ {"links"} : conf[k] = <<>>

Added(l) == conf' = [conf EXCEPT ![l] = Tail(@)]

hasUsr(uid) == \E c \in ToSet(cliConfs) : c.uid = uid

addSvr ==
    /\ Adds("servers") /\ Added("servers")
    /\ svrConfs' = Append(svrConfs, Head(conf.servers))
    /\ UNCHANGED <<file, pc, cliConfs, agentConfs, links, clients, reach>>

\* Mutant: a user that has a section already gets another one.
TakesCliAgain(c) == c.uid # NoUid

TakesCli(c) == c.uid # NoUid /\ ~hasUsr(c.uid)

\* What is not taken is dropped; prepare does not look at the result.
addCli ==
    /\ Adds("clients") /\ Added("clients")
    /\ cliConfs' = IF TakesCli(Head(conf.clients))
                   THEN Append(cliConfs, Head(conf.clients)) ELSE cliConfs
    /\ UNCHANGED <<file, pc, svrConfs, agentConfs, links, clients, reach>>

addListener ==
    /\ Adds("agents") /\ Added("agents")
    /\ agentConfs' = IF hasUsr(Head(conf.agents).uid)
                     THEN Append(agentConfs, Head(conf.agents)) ELSE agentConfs
    /\ UNCHANGED <<file, pc, svrConfs, cliConfs, links, clients, reach>>

existLink(type) == type \in DOMAIN links

addLink ==
    /\ Adds("links") /\ Added("links")
    /\ links' = LET k == Head(conf.links)
                IN IF existLink(k.type) THEN links
                   ELSE [t \in DOMAIN links \union {k.type} |->
                            IF t = k.type THEN k ELSE links[t]]
    /\ UNCHANGED <<file, pc, svrConfs, cliConfs, agentConfs, clients, reach>>
----------------------------------------------------------------------------
(* The links of the clients.                                               *)

Task(kind, d, wait) == SetToBag({[kind |-> kind, data |-> d, wait |-> wait]})

\* start: every client gets its data and a first attempt to connect.
start ==
    /\ pc = "prepare" /\ conf = Empty
    /\ pc' = "run"
    /\ users' = [u \in Uids |->
          IF hasUsr(u) THEN CHOOSE d \in DOMAIN cliConfs :
                               /\ cliConfs[d].uid = u
                               /\ \A e \in DOMAIN cliConfs : cliConfs[e].uid = u => e <= d
          ELSE 0]
    /\ delay' = [d \in DOMAIN cliConfs |-> 0]
    /\ fails' = [d \in DOMAIN cliConfs |-> 0]
    /\ tasks' = SetToBag([kind : {"attempt"}, data : DOMAIN cliConfs, wait : {0}])
    /\ UNCHANGED <<file, conf, tables, reach>>

DELAY_TIMEOUT == <<1, 15, 60, 120>>

\* Mutant: the search stops at the delay that was waited last.
nextDelayStays(last) ==
    LET i == CHOOSE j \in 1..5 : /\ j = 5 \/ last <= DELAY_TIMEOUT[j]
                                 /\ \A k \in 1..(j - 1) : last > DELAY_TIMEOUT[k]
    IN IF i = 5 THEN last ELSE DELAY_TIMEOUT[i]

\* Mutant: the delay doubles.
nextDelayDoubles(last) == IF last = 0 THEN 1 ELSE 2 * last

nextDelay(last) ==
    LET i == CHOOSE j \in 1..5 : /\ j = 5 \/ last < DELAY_TIMEOUT[j]
                                 /\ \A k \in 1..(j - 1) : last >= DELAY_TIMEOUT[k]
    IN IF i = 5 THEN last ELSE DELAY_TIMEOUT[i]

HasTask(kind, d) ==
    pc = "run" /\ \E t \in BagToSet(tasks) : t.kind = kind /\ t.data = d

\* The framework ends a task of data d; another one takes its place.
Replace(kind, d, new) ==
    LET t == CHOOSE s \in BagToSet(tasks) : s.kind = kind /\ s.data = d
    IN tasks' = (tasks (-) SetToBag({t})) (+) new

CountFail(d) == fails' = [fails EXCEPT ![d] = IF @ < 5 THEN @ + 1 ELSE @]

\* With sheduleCli.
reConn(kind, d) ==
    /\ delay' = [delay EXCEPT ![d] = nextDelay(delay[d])]
    /\ Replace(kind, d, Task("timer", d, nextDelay(delay[d])))

\* Mutant: a client whose attempt failed does not try again.
onConnFailGivesUp(d) ==
    /\ HasTask("attempt", d) /\ ~reach
    /\ Replace("attempt", d, EmptyBag) /\ CountFail(d)
    /\ UNCHANGED <<file, pc, conf, tables, users, delay, reach>>

onConnFail(d) ==
    /\ HasTask("attempt", d) /\ ~reach
    /\ reConn("attempt", d) /\ CountFail(d)
    /\ UNCHANGED <<file, pc, conf, tables, users, reach>>

onConnOK(d) ==
    /\ HasTask("attempt", d) /\ reach
    /\ Replace("attempt", d, Task("connection", d, 0))
    /\ delay' = [delay EXCEPT ![d] = 0]
    /\ fails' = [fails EXCEPT ![d] = 0]
    /\ UNCHANGED <<file, pc, conf, tables, users, reach>>

\* The router refuses the login or is gone, or the connection breaks or has
\* been idle for too long.
onClose(d) ==
    /\ HasTask("connection", d)
    /\ reConn("connection", d) /\ CountFail(d)
    /\ UNCHANGED <<file, pc, conf, tables, users, reach>>

TimerFires(d) ==
    /\ HasTask("timer", d)
    /\ Replace("timer", d, Task("attempt", d, 0))
    /\ UNCHANGED <<file, pc, conf, tables, users, delay, fails, reach>>

\* The router, or the network to it, goes or comes back.
Reach == reach' = ~reach /\ UNCHANGED <<file, pc, conf, tables, clients>>

\* stop, and finish, which also follows a configuration that failed.
finish ==
    /\ pc \in {"run", "failed"}
    /\ pc' = "finished"
    /\ svrConfs' = <<>> /\ cliConfs' = <<>> /\ agentConfs' = <<>>
    /\ links' = <<>>
    /\ users' = [u \in Uids |-> 0]
    /\ delay' = <<>> /\ fails' = <<>> /\ tasks' = EmptyBag
    /\ UNCHANGED <<file, conf, reach>>
----------------------------------------------------------------------------
Next ==
    \/ parse \/ addSvr \/ addCli \/ addListener \/ addLink \/ start
    \/ \E d \in DOMAIN cliConfs :
          onConnFail(d) \/ onConnOK(d) \/ onClose(d) \/ TimerFires(d)
    \/ Reach \/ finish

Spec == Init /\ [][Next]_vars

\* The process goes on by itself, timers fire and attempts end.  Nothing
\* is assumed of connections, of the router and of whoever stops the process.
Fairness ==
    /\ WF_vars(parse \/ addSvr \/ addCli \/ addListener \/ addLink \/ start)
    /\ \A d \in 1..Max({Len(f.clients) : f \in Files}) :
          WF_vars(TimerFires(d)) /\ WF_vars(onConnOK(d) \/ onConnFail(d))

FairSpec == Spec /\ Fairness
----------------------------------------------------------------------------
(* Properties.                                                             *)

\* The tables hold sections that can be read, and a delay is one of those
\* that the code lists.
TypeOK ==
    /\ pc \in {"parse", "prepare", "run", "failed", "finished"}
    /\ \A s \in {svrConfs, cliConfs, agentConfs} : Broken \notin ToSet(s)
    /\ \A t \in DOMAIN links : links[t] # Broken /\ links[t].type = t
    /\ users \in [Uids -> 0..Len(cliConfs)]
    /\ delay \in [DOMAIN delay -> {0} \union ToSet(DELAY_TIMEOUT)]
    /\ \A t \in BagToSet(tasks) : t.data \in DOMAIN delay

\* What runs is what the file says: every router section, the first section of
\* each client, the listeners whose user is a client of this process wherever
\* the file names it, and for each link type its first section, each list in
\* the order of the file.
FirstClients(list) ==
    {i \in DOMAIN list : /\ list[i].uid # NoUid
                         /\ \A j \in 1..(i - 1) : list[j].uid # list[i].uid}

OfClients(list, clis) ==
    {i \in DOMAIN list : list[i].uid # NoUid /\ \E c \in ToSet(clis) : c.uid = list[i].uid}

FirstLinks(list) ==
    {i \in DOMAIN list : \A j \in 1..(i - 1) : list[j].type # list[i].type}

\* s holds the elements of list at the positions I, in their order.
Picks(s, list, I) ==
    \E at \in [DOMAIN s -> I] :
        /\ \A k \in DOMAIN s : s[k] = list[at[k]]
        /\ \A k, m \in DOMAIN s : k < m => at[k] < at[m]
        /\ \A i \in I : \E k \in DOMAIN s : at[k] = i

SettingsExact ==
    pc = "run" =>
        /\ svrConfs = file.servers
        /\ Picks(cliConfs, file.clients, FirstClients(file.clients))
        /\ Picks(agentConfs, file.agents, OfClients(file.agents, file.clients))
        /\ {links[t] : t \in DOMAIN links} =
               {file.links[i] : i \in FirstLinks(file.links)}

\* Every client has one link, never two and never none: one attempt, timer or
\* connection in the framework, and it is of the data that m_users finds.
OneLinkEach ==
    pc = "run" => \A u \in Uids \ {NoUid} :
        LET ofUser == {t \in BagToSet(tasks) : cliConfs[t.data].uid = u}
        IN /\ (\E c \in ToSet(file.clients) : c.uid = u) <=> ofUser # {}
           /\ \A t \in ofUser : users[u] = t.data /\ tasks[t] = 1
           /\ Cardinality(ofUser) <= 1

\* A client waits 1 second after it lost its connection, and longer after each
\* attempt that fails, up to 2 minutes, until it is connected again.
BackoffExact ==
    \A t \in BagToSet(tasks) : t.kind = "timer" =>
        t.wait = DELAY_TIMEOUT[IF fails[t.data] < 4 THEN fails[t.data] ELSE 4]

\* When the router can be reached again for good, every client comes to be
\* connected, and again after each loss of its connection.
Connected(u) == \E d \in DOMAIN cliConfs :
    cliConfs[d].uid = u /\ HasTask("connection", d)

ComesBack == \A u \in Uids \ {NoUid} :
    <>[](reach /\ pc = "run" /\ hasUsr(u)) => []<>Connected(u)
=============================================================================
