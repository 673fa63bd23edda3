# AllTalk in TLA+

AllTalk tunnels TCP connections between applications in different local
networks. A *router* in a reachable place accepts links from *clients*; each
client logs in as a user; an application that connects to a listener of one user
gets a connection to an application that another user can reach, and the data
of both cross the router.

    application -- agent -- client == link == router == link == client -- agent -- application
                 AgentCenter  CliCenter      SvrCenter        CliCenter   AgentCenter

This directory holds TLA+ modules for that program, TLC configurations that
check them on small instances, and proofs about each part and about the whole that
TLAPS checks for every instance. Sources are named relative to `src/src/`; `PROJECT.json` gives
the lines that every definition models.

## 1. The system

### Components

| component | state | operations |
|---|---|---|
| **SvrCenter** `usercenter.cpp` | `m_users` (uid to connection data), one `RouterSvrData` for each connection with its `LoginData` | `onNewSock`, `onClose`, a north worker for each message of its peer (login, `procCipher`, `procForward`, `procForwardNoerr`), a south worker for each message that another connection dispatched to it (`procPlain`, `procSend`, `procSendNoerr`), exit broadcast |
| **LoginCenter** `logincenter.cpp` | `m_seq`, `LoginData` of both ends | generate and parse HELO, LOGIN_REQ, EXCH_KEY, LOGIN_END, ERROR_ACK, LOGOUT; tokens and secret; cipher; UNREACH |
| **CliCenter** `clicenter.cpp` | a `RouterCliData` for each user: login, `m_sids` (session to agent), descriptor, delay of the next attempt; `m_confs`, `m_users`, `m_next_sid` | `addCli`, `start`, `onConnOK`, `onConnFail`, `onClose`/`cleanCli`, `reConn`, `regSid`, `unregSid`, `collect`, workers in both directions, `notifyAllSid`, `rspSidUnreach` |
| **AgentCenter** `routeragent.cpp` | an `AgentBase` for each end of a tunnel; configured listeners and links | `creatAgentSvr`, `creatAgentCli`, `onConnOK`, `onConnFail`, `onClose`, `parseData`, workers for ACK, CLOSE, UNREACH, exit, data |
| **AgentProto** `agentproto.cpp` | `m_cache` of partial message | `parseData`: chunks to messages |
| **MsgCenter** `msgcenter.cpp`, `isockmsg.h` | none | message heads: command, size, direction, addresses |
| **Service** `service.cpp` | the centers and the framework | `parseInit`, `prepare` (hands the sections to the centers), `start`, `stop`, `finish` |
| **BaseConfig** `baseconfig.cpp` | `GlobalConf` | `parse`: sections of the file to lists |
| **sock_api** `extern/*.h` | descriptors, queues, timers | external: only headers are in the repository |

### Interactions

All components run inside one event framework and meet in it: a component gives
the framework a descriptor with an *extra* (a pointer to its data) and callbacks,
and then calls `dispatch(fd, msg)` (append to the queue of a descriptor of its
own process), `sendMsg(fd, msg)` (write to the connection) and `closeData(fd)`.
A message from another process is *north* when it comes in from a descriptor's
peer and *south* when another descriptor's handler dispatched it. `m_users` and
`m_sids` are shared tables: the handlers of one connection look up another's
descriptor in them, long before that one handles what it is sent.

### What is hard

* *Registries outlive what they refer to.* `m_users` and `m_sids` hold pointers
  and descriptors that `onClose` of another object frees, and descriptors and
  session numbers are used again.
* *Closing takes two steps.* `closeData` and a handler's error only start it,
  `onClose` comes later, and messages queued before it may be handled in between.
* *Everybody learns late.* A connection breaks at one end; the other end, the
  router, the peer user and the agents at both ends learn of it by different
  paths (exit broadcast, UNREACH, CLOSE, closed descriptor) in any order.
* *Logins race.* Two connections log in as the same user in interleaved steps;
  the clock may be set; one exchange token compares only a difference.
* *TCP delivers chunks*, and the next connection inherits the parser's cache.
* *Processes crash.* Nothing is kept on disk: a router that starts again knows of
  no login, a client that starts again gives out session numbers from anywhere, and
  messages of the time before are still under way.
* *Clients come back by themselves*, after delays that depend on what failed
  before, sometimes sooner than the router has noticed that they were gone.

`PROJECT.json` lists these as hazards, each at its line with the properties
that would catch it.

### What makes each component correct

* SvrCenter: the registry names only live connections that logged in as that
  user; messages reach only their user; no login takes a user over; a user's exit
  is announced after everything it sent; a request is delivered or answered.
* LoginCenter: both ends agree on uids, task and secret, with the right password
  only, within the time limit, and no client stays half logged in.
* CliCenter and AgentCenter: sessions and agents agree; no tunnel carries another
  tunnel's data, and none loses, repeats or reorders data in the middle; no agent
  stays open without a peer.
* AgentProto: exactly the complete messages are dispatched, however chunked.
* Service, BaseConfig and the timers of CliCenter: what runs is what the file says;
  every client has one link, which is made again with the delays of the code and is
  connected in the end.

## 2. The modules

| module | models | correspondence |
|---|---|---|
| `Messages` | message formats, UNREACH, cipher to plain | `RoutedMsg` is the head's addresses and an opaque body; UNREACH's body is the unreachable address; the two lengths of a cipher message, of the cipher (`cipherLenOK`) and of its text (`txtLenOK`), agree or not |
| `SvrCenter` | the router | `users` = `m_users`, `stat`/`uid1` = `m_login`, `inq` = what is dispatched to a descriptor (direction with each message), `out` = what is on its wire, `fd` = the framework's descriptor. One action for each worker and callback; `procCipherNull` is the worker that ends the process |
| `LoginCenter` | login data, checks and parses | each `parse...` is a check `chk...` and the new login data |
| `Handshake` | both ends of one login, over a connection that is made anew | `cli`, `svr` = the two `LoginData`; `up`, `down` = the wire; `now` = the router's clock |
| `CliCenter` | clients | `sids`, `nextSid`, `cstat`, `cliq` for each user |
| `AgentCenter` | agents | `agent` = `AgentBase` and its descriptor, `agentq` = its queue, `read`/`got` = data from and to its application |
| `TunnelService` | abstract: what a tunnel promises | `Make`, `Send`, `Deliver`, `End`; an end is new, made or over |
| `Tunnel` | `SvrCenter`, `CliCenter` and `AgentCenter` as instances, the network between them, and crashes | a client's wire is the router's `inq`/`out` of its descriptor `connOf`; `Break`, `SvrCrash`, `CliCrash` are the faults |
| `Service` | `Service`, `BaseConfig`, and the settings and timers of the centers | `file` and `conf` = the file and what `prepare` has yet to add; `cliConfs`, `agentConfs`, `svrConfs` = the three `m_confs`; `links` = `m_links`; `delay` = `m_conn_delay`; `tasks` = what the framework does for each client |
| `AgentProto` | framing | a byte is its connection and position, so that a misplaced byte shows |
| `MCSvrCenter`, `MCHandshake`, `MCTunnel`, `MCAgentProto`, `MCService` | instances for TLC | |
| `SvrCenter_proof`, `Handshake_proof`, `Tunnel_proof`, `TunnelPhases_proof`, `TunnelData_proof`, `TunnelService_proof`, `Service_proof`, `AgentProto_proof` | proofs | section 5 |

`Tunnel` composes: its steps are an action of one of the three instances with the
others' variables unchanged, except where one event belongs to two of them
(`Connect` is the client's `onConnOK` with the router's `onNewSock`).
`creatAgentCli` is a client's worker that makes an agent, and is in `AgentCenter`.
`Service` stands beside it: it has the links of one process over a long time, but
only as attempts, connections and timers, where `Tunnel` has what passes on them
and lets a link be made again at any time.

In a definition's neighbourhood, a comment that begins with *Mutant:* marks an
altered copy of it. It is used by no specification; substituting it shows that
a property depends on the code it models.

### Assumptions about the framework

It is external. Taken from the way the code uses it:

1. The handlers of one process run one at a time, each to its end.
2. `dispatch` and `sendMsg` append to a FIFO, and fail once the descriptor is
   being closed.
3. `closeData`, and a handler that returns an error, start the closing; `onClose`
   is called once, later. Between them queued messages may be handled or not:
   both happen in the models. Only where `DrainsOnClose` is TRUE does the framework
   handle an agent's queue before it closes the agent (see `TunnelEnds`).
4. A descriptor is used again only after `onClose`.
5. When a handler sends to a connection whose other end has gone, sending
   succeeds and the message is lost.
6. A failed `onConnOK` ends the descriptor without `onClose`.
7. A new connection has the lowest descriptor that is free, and (in `Tunnel`) the
   descriptor of an earlier connection is not taken while the client's end lives.
8. An attempt to connect ends in `onConnOK` or `onConnFail`, once, and a timer of
   `sheduleCli` fires once.
9. Each end of a broken connection learns of it in the end. The configured idle
   timeouts (`rd_timeout`, `wr_timeout`) are one way; they are not modelled otherwise.

### Bounds and abstractions

* A login message in `SvrCenter` has a field `ok`, whether its token, time and
  task identifier pass; `Handshake` models these checks.
* A body `BadLen` is that of a cipher message whose cipher is not as long as the message says:
  `parseCipherMsg` refuses it. `BadTxtLen` is one whose text is not as long as its cipher:
  `cipher2PlainMsg` returns NULL for it, and the process ends (`procCipherNull`). Both are inputs of
  the router's runs. In `Tunnel` they are not bodies (`TunnelAssumption`), since every
  message there comes from `plain2CipherMsg`, which fills in both lengths from one.
* In `AgentProto` a head of another version (`chkValidHead`) is given up like one of an
  invalid size, so invalid sizes stand for both.
* Tokens in `LoginCenter` are the values they tell apart: the request token
  `passwd1`, the exchange token the difference of the passwords, the end token
  everything but the secret, which cancels out of it.
* Names for bounds: `MaxBacklog` (messages under way at the router while peers
  still send), `MaxData` (units that an application sends), `MaxFaults` (links that
  break and processes that crash), `MaxConns`, `MaxSections`. Agents are numbered and
  never used again, so the number of `Agents` bounds the tunnels; when none is
  left, allocation fails, which the code handles.
* In `Tunnel` every user is a process of its own, and no tunnel leads from a user to
  itself. `Faults` names what may happen in a run.
* A crash loses everything the process has. What it sent before may still arrive.
  Two constants make assumptions explicit: `KeepsSids` (the session numbers of a
  restarted client go on where the former ones ended; FALSE is the code's
  uninitialized `m_next_sid`, which may come out as any earlier value), and `WaitsForRouter`
  (a client connects again only when the router has freed its old connection).
  The passing runs have both TRUE. The violation runs show what happens otherwise.
* In `Service` delays are numbers that a timer carries, and time itself is left out: a
  timer fires at some time. `fails` is history that only `BackoffExact` reads.
  Addresses of sections are their places in the file, so that equal sections differ.
* Task identifiers are counted modulo 3 in `Handshake`, so that they are used again. The
  real counter has 64 bits and never gets there.
* The session counter does not wrap: 2^32 tunnels of one link are out of reach.

## 3. The runs

| run | states | shows |
|---|---|---|
| `SvrRegistry` | 777 000 | three connections contend for two users, and a cipher may end the router: `TypeOK`, `RegistrySound`, `LastWord`, `NoTakeover` |
| `SvrRouting` | 601 000 | two connections, every command, failed checks, uid 0, missing sessions, ciphers of either wrong length: `Isolation` |
| `SvrRequests` | 49 000 | fair handling: `RequestsAnswered` |
| `SvrEviction` | violation | finding 1 |
| `Handshake` | 12 900 | `TypeOK`, `OneUnderWay`, `Agreement`, `NoWrongPassword`, `AcceptOnlyFresh`, `NoLimbo` |
| `TunnelBreak` | 464 000 | one tunnel, two units of data, one fault of any kind: `TypeOK`, `SessionsSound`, `TunnelIsService` |
| `TunnelReuse` | 830 000 | three agents, so a second tunnel is asked for while messages of the first are under way: `TunnelIsService`, `DataAddressed` |
| `TunnelEnds` | 152 000 | fair handling, one fault of any kind: `NoHalfOpen`, `UserReachable` |
| `TunnelRestart` | violation | finding 2 |
| `TunnelRelogin` | violation | finding 3 |
| `AgentProto` | 3 100 | every stream of up to three messages, every chunking, a broken connection: `TypeOK`, `FramesExact`, `ClosedOnBadHead` |
| `Service` | 111 000 | every file with up to two sections of a kind, and a router that comes and goes: `TypeOK`, `SettingsExact`, `OneLinkEach`, `BackoffExact`, `ComesBack` |

Why these are enough to meet the hazards:

* *SvrRegistry.* Three connections are the least that let one hold a user, a
  second be refused (and evict it), and a third take the user next, while the
  second user watches. With a backlog of two, an exit broadcast and a message
  of the user that left are in one queue.
* *SvrRouting* has one connection fewer for the sake of all the commands: isolation
  relates one sender and one receiver. Inputs are what a peer can send: a
  client signs with its own uid, and a good LOGIN_END needs an EXCH_KEY (`Sent`).
* *Handshake.* Passwords 1 and 2 give every relation to the router's: equal, same
  difference, same first only. Times 0 to 3 around a limit of 2 seconds and modulus
  8 include a clock set back (unsigned difference near the modulus). Logins with new
  identifiers follow each other, and the 0 of a zeroed `LoginData` is none of them.
* *TunnelBreak.* Two units are the least that show a gap or reordering; one fault
  takes a link down at either end, or the router, or a client, in any state, and
  the client logs in again while agents survive or not. Two faults with one unit
  were checked once (2.7 million states) and hold as well.
* *TunnelEnds* has the same faults, without data: what an agent is told of its peer's end
  does not depend on them, and the liveness of larger instances takes too long.
* *TunnelReuse.* Session 1 has ended and session 2 exists: the least that lets a late
  message meet a successor, and for `DataAddressed` to tell two sessions of a user apart.
  A third agent without a partner is a refused request.
* *AgentProto.* Heads of 2 bytes and messages up to 4, declared sizes 1 to 5: a
  chunk can end within a head, at its end, within a body and after several messages.

* *Service.* Two sections of a kind are the least with a duplicate, one to be refused
  and one in the wrong place; two clients the least whose tasks could be
  confused. Nothing bounds how often the router goes and comes, so each delay
  of the table is reached and its end stayed at.

`CHECK_DEADLOCK FALSE` is set where the system may stop: peers that have sent all
the bound allows, applications with nothing more to send, a process that has
finished.

### Fairness

* Router: `WF` of each connection's workers together and of its `onClose`: the
  framework polls every descriptor and finishes every closing. Nothing is
  assumed of peers: they need not send or even receive.
* Handshake: `WF` of either process, and that an end whose peer is gone and which
  has read everything learns so (the read returns 0). No fairness for connecting
  or for the clock.
* Tunnel: `WF` of router, client and agent steps, of an agent's connection attempt
  (it succeeds or times out) and, at either end, of noticing that a connection is
  gone. None for applications, faults and reconnecting.
* Service: `WF` of the program's own start, of each timer and of each attempt to
  connect. None for the loss of connections, for the router or for stopping.

### What the properties say

* `RegistrySound`: `m_users` never holds a freed or a foreign connection, though
  `delUsr` erases by uid, whoever holds the entry.
* `LastWord`: what a registered user is still to get from a user without connection
  is followed by that user's exit broadcast. Peers rely on the order: an agent
  that is told of an exit takes everything before it as the tunnel's end.
* `TunnelIsService`: clients, router and agents implement `TunnelService` under the
  refinement mapping that keeps `read` and `got`, calls an agent made when it is open
  and its tunnel acknowledged, and over when it is closing or gone. An end passes data only
  while it is made, belongs to one pair, and gets data in order, without
  gaps, copies or strangers.
* `DataAddressed`: what an agent is handed comes from an agent that addresses the very session that
  gets it, or that has been freed since. `procSend` looks at no address; the tables of the
  router (`m_users`) and of the link (`m_sids`) and the descriptors in both bring the
  data there. It holds where `TunnelIsService` fails as well (finding 2: the address is right,
  but the session has another owner).
* `NoHalfOpen`: an agent whose tunnel did not come about or whose peer ended is closed.
* `NoLimbo`: a client that is in the middle of a login gets to its end or loses its connection. It looks
  at the client, which connects again once it has noticed.
* `UserReachable`: a client that takes itself for logged in is in the router's registry,
  or learns that it is not logged in any more. The client cannot see the
  difference by itself.
* `OneUnderWay`: the two ends of a login speak in turn. At most one message is under way,
  and it is the one that the end it goes to waits for.
* `SettingsExact` compares the tables that `prepare` fills, section by section, with what the
  file says: of the sections of one user the first counts, listeners only for clients
  that exist, each in the file's order (`Picks`). `OneLinkEach` counts the framework's tasks in
  a bag, so that a second attempt for the same client would show; `BackoffExact` relates
  a running timer to the attempts since the last connection; `ComesBack` is the
  promise to the user.

Insights from the mutants and from failed attempts:

* Data of an agent that outlives its link may be sent after the next login, without
  the units lost before. What prevents a gap is the router's exit broadcast of
  the old login, which closes the peer first. Without it (mutant
  `broadcastUidExitNone`) `TunnelIsService` fails.
* It also fails if a client reconnects before the router has freed the old connection
  (`TunnelBreak` with `WaitsForRouter` FALSE and three connections): `parseLoginEnd` makes a
  connection `AUTH_OK` before `existUsr` refuses it (`usercenter.cpp:388`), so until
  it is closed its queue is still forwarded, and an agent that is being closed with
  the old link sends its second unit after the first was lost. It holds (4.2 million
  states, checked once) when the client's agents have completed their closing first,
  which the delay of at least a second (`reConn`) makes likely.
* `procCipher` of the router does not look at what `cipher2PlainMsg` returns
  (`usercenter.cpp:453`), and `parseCipherMsg` compares the length of the cipher only
  (`logincenter.cpp:447`). A message with another `m_txt_len` ends the process, and with it the
  links of all users. No program of this repository makes one. `RegistrySound`,
  `Isolation`, `LastWord` and `NoTakeover` hold before and after.
* An agent closed while its TUNNEL_ACK is still in its queue has
  `m_peer_stat` 0 and sends no TUNNEL_CLOSE (`routeragent.cpp:387`). If the
  framework drops that queue, the other end stays open until its
  application sends or leaves. `NoHalfOpen` therefore assumes `DrainsOnClose`;
  the safety runs do not.

### Findings

1. `SvrEviction`: `delUsr` (`usercenter.cpp:350`) erases `m_users` by uid for any
   connection that closes. A second connection of the same user, refused at
   `procLoginEnd` ("user already login") or gone after its LOGIN_REQ, removes the entry
   of the first one. That one stays logged in and open, but nobody reaches it.
   `RegistrySound` and `NoTakeover` still hold: the entry is lost, never wrong.
2. `TunnelRestart`: `m_next_sid` is not initialized (`clicenter.cpp:44`, `203`). A client process
   that starts again may give a session number to a new agent that the former process gave
   to another. The peer of the former tunnel has data in its client's queue or
   uplink; they arrive after the new login and are handed to the new
   agent's application, for `procSend` of `routeragent.cpp:727` does not look at the
   sender. `link_no`, which `routeragent.cpp:275` calls authentication, is only in the
   request and its ACK. With `KeepsSids` TRUE the property holds.
3. `TunnelRelogin`: the line of finding 1 with a single client. Its link breaks during the
   login, it connects again and is registered before the router frees the old connection;
   `onClose` of the old one erases the new registration. The client is logged in and not
   reachable until its new link breaks too. With `WaitsForRouter` TRUE the
   property holds.

## 4. Mutants

Each property of a passing run has a mutant in `PROJECT.json`: a definition and
an altered form of it under which TLC finds the property violated.

## 5. What is proved

Every invariant and every action property that the runs check is a theorem, for all
values of the constants, and so is the greater part of the refinement of
`TunnelService`. Bounds (`MaxBacklog`, `MaxData`, `MaxFaults`, `MaxConns`, the sets of inputs and
files) appear only in guards, so the proofs hold for every value of them. The runs
check the same formulas first, and the inductive invariants were checked by TLC
on the same instances before they were proved.

### Assumptions

Each is an `ASSUME` of the module that declares the constants, which TLC evaluates.

| assumption | says |
|---|---|
| `MessagesAssumption` | 0 is not among the identifiers of users and sessions |
| `SvrAssumption` | `NoConn` is no connection; the inputs are messages |
| `LoginAssumption`, `HandshakeAssumption` | widths of the clock and of the task identifier, the limit in seconds; passwords and random numbers are numbers |
| `ClockAssumption` | the clock is not set back by nearly its whole range (136 years), where the unsigned age of a request would wrap to a small one |
| `TunnelAssumption` | agents and sessions are numbered, with a session for every agent; no link leads from a user to itself; descriptors are numbers; requests and units of data are bodies, ciphers with a wrong length are not |
| `ServiceAssumption` | a file is a sequence of sections for each list, and says whether it was read to its end; a section is broken or a record |
| `ProtoAssumption` | a head has at least one byte; sizes are numbers; a stream is a sequence of sizes |

### The router: `SvrCenter_proof`

| theorem | says |
|---|---|
| `TypeCorrect` | `Spec => []TypeOK` |
| `RegistryIsSound` | `Spec => []RegistrySound` |
| `RoutingIsIsolated` | `Spec => []Isolation` |
| `LoginTakesNothingOver` | `Spec => NoTakeover` |
| `ExitIsLastWord` | `Spec => []LastWord` |

Type correctness is inductive by itself; what needs work is that the answers and
forwarded messages are again messages of a kind the next worker takes (`ForwardType`,
`UnreachType`, `RspType`). `NoTakeover` follows from it, action by action.

`RegistrySound` and `Isolation` are not inductive alone. `Isolation` needs that
forwarding looks up a sound registry; that a message queued for a uid stays on a
connection of that uid needs that a logged-in connection never changes it
(`ParsesLoginReq` requires SVR_HELO), and that a descriptor that is used again starts with
an empty queue. The inductive invariant is

    IInv == TypeOK /\ RegistrySound /\ FreeClean /\ Isolation

with `FreeClean`, that a free descriptor's queue is empty. The workers that change no
login and not the registry are handled together (`QuietStep`, `WorkerQuiet`), the others
(`onNewSock`, `procLoginReq`, `procLoginEnd`, `procLeave`, `onClose`) one by one
(`IInvStep`). The end of the process is a lemma of its own for each invariant (`EndType`,
`EndSound`, `EndLast`).

`LastWord` speaks of what users that are registered are still to get. The step that
endangers it is a login: a user that is new in the registry must have nothing yet,
in its queue (from `Isolation`) or on its wire (`WireClean`), and what a peer sent
before its login was finished must not be forwarded for another user afterwards
(`OrderlyAll`: a queue has no LOGIN_END before its EXCH_KEY was sent, and what is
routed after it comes from the user itself). The invariant is

    LInv == IInv /\ OrderlyAll /\ WireClean /\ LastWord

and the lemmas on `Covers` say what appending to a line, taking from it, and
users coming and going do to it.

### The login: `Handshake_proof`

| theorem | says |
|---|---|
| `TypeCorrect` | `Spec => []TypeOK` |
| `HandshakeAlternates` | `Spec => []OneUnderWay` |
| `EndsAgree` | `Spec => []Agreement` |
| `NoWrongPasswordTaken` | `Spec => []NoWrongPassword` |
| `OnlyFreshTaken` | `Spec => AcceptOnlyFresh` |

`Agreement` relates the ends only when both have finished. What carries it there is
`LockStep`: the ends speak in turn, and the message under way fits the states of
both and carries the values that the end it comes from has kept, with a token
made from them. `CliSound`, `SvrSound` and `Paired` say which values each end has in each
state, and which it shares with the other. `OneUnderWay` is the part of it that a reader can
check against the code's state names. Arithmetic modulo the clock's and the
counter's widths enters only through lemmas.

### The whole: `Tunnel_proof`, `TunnelPhases_proof`, `TunnelData_proof`

| theorem | says |
|---|---|
| `TypeCorrect` | `Spec => []TypeOK` |
| `SessionsAreSound` | `Spec => []SessionsSound` |
| `RouterStaysSound` | `Spec => [](Svr!RegistrySound /\ Svr!Isolation)` |
| `StepsAreService` | `Spec => Promise!Init /\ [][Promise!Next \/ \E b : Handed(b)]` |
| `NothingAfterEnd` | `Spec => Promise!NotAfter` |
| `NoSendBeforeMade` | `Spec => [](\A a : Phase[a] = "new" => read[a] = 0)` |
| `HandedWasSent` | `Spec => []GotGood`: whatever was handed over is a unit that was read before |
| `HandedAsAddressed` | `Spec => DataAddressed` |

The router's invariant is reused, not proved again: `Tunnel_proof` has the router's
proof module as an instance (`Router`), and every step of the system that moves the
router is a step of its `Next` with some set of inputs, or a crash (`EndSound` again), or the loss
of a link, whose effect on `IInv` is proved here. That clients and agents send
only what the router's inputs may be is part of the invariant.

    SysInv == Router!IInv /\ NodeType /\ LinkSound /\ AgentSound /\ OneAgent /\ EnoughSids /\ SessionsSound

`SessionsSound` needs that two agents of a user never have the same session (`OneAgent`)
and that each has one that was given out (`AgentSound`), so that the next number is
fresh; `EnoughSids`, that a number was given out for each agent that was used up, is
what keeps `nextSid` within its type. The invariant does not need `KeepsSids`: a restarted
client may take any earlier number, for its former agents are gone.

`TunnelPhases_proof` takes up the refinement. `Steps` sorts the steps of the system by what they
do to the ends of tunnels (nothing or an end, a tunnel made, a unit sent, a unit handed
over), `StepServes` maps each sort to a step of `TunnelService`. The invariant it
needs beyond that of `Tunnel_proof` is that an open agent has asked or been asked for its
tunnel (`StatSound`), for `parseData` tests only for `CONN_INIT`, and that an agent whose
tunnel is not made has read nothing (`Unread`). `Steps` also says what the later proofs
need of the ends: an agent keeps its session until it is freed (`SameSession`), and
its peer's address from when its tunnel is made (`Stays`).

`TunnelData_proof` is about what is delivered, in two layers, each an invariant of every
queue and wire between two applications.

* *What the data are.* `DataSound`: each message with data, in the router's queues,
  on the wires, in the queues of links and of agents, carries a unit that some agent
  has read, and the addresses that this agent has, unless it has been freed
  (`Genuine`). Messages that move from queue to queue, whole, converted by a cipher or taken
  from the front, stay so (`QueueMoves`, `WireMoves`, `AgentMoves`, `Converted`); answers
  carry no data (`UnreachGood`); no message that is under way ends the router
  (`NoNullCipher`); what is new is put together by an agent that
  has a session (`AgentSends`). They remain genuine because nobody unreads and an
  agent that has read keeps its addresses (`GenuineKept`).
* *Whom they are for.* `LinksServed`: the router serves the user of a link on that link's
  connection, and no other; a login that may still come on it is by that user, and
  what is on the wire is for that user. It needs that no two links that live share a
  connection, and that a descriptor is taken only when both ends have done with it.
  `AtAgent`: what is in an agent's queue is for its session, because the link looks it
  up in `m_sids` (`SessionsSound`), and the queue is gone when the agent is freed.

`HandedAsAddressed` puts both together. It needs neither `KeepsSids` nor `WaitsForRouter`.
What remains of `TunnelIsService` is that the unit is the next one, and that the session has
not had another owner before. `TunnelBreak` and `TunnelReuse` check it; it does depend
on `KeepsSids` and `WaitsForRouter`, and on an order along all those queues.

### What the service means: `TunnelService_proof`

| theorem | says |
|---|---|
| `DataInOrder` | `Spec => []InOrder` |
| `TunnelsArePairs` | `Spec => []OnePair` |
| `DataOnlyInTunnels` | `Spec => []NotBefore /\ NotAfter` |

About the abstract specification alone: what an application gets is a prefix of what one
other application sent. A specification that allowed something else would
make the refinement worthless.

### A process and its settings: `Service_proof`

| theorem | says |
|---|---|
| `TypeCorrect` | `Spec => []TypeOK` |
| `SettingsAreExact` | `Spec => []SettingsExact` |
| `OneLinkAlways` | `Spec => []OneLinkEach` |
| `BackoffIsExact` | `Spec => []BackoffExact` |

`SettingsExact` speaks of the file as a whole, while `prepare` handles its sections one by one:
the invariant (`SetInv`) says the same of the part of each list that has been handled, and
that no listener is handled before all clients are. `OneTaskEach` says that the bag of tasks
is a set with one task for each client, whose timer has the delay that its data hold;
`DelaySound` relates that delay to the failures, by the table.

### Framing: `AgentProto_proof`

| theorem | says |
|---|---|
| `TypeCorrect` | `Spec => []TypeOK` |
| `FramesAreExact` | `Spec => []FramesExact` |
| `ClosesOnBadHead` | `Spec => []ClosedOnBadHead` |

The positions of the messages in a stream, and the loop of `parseData`, are recursive
functions. That such a function is what its equation says, and that a statement
about it holds for every number, are proved from the least element of a set of numbers
(`Induction`, `Recursion`), for the library's theorems take an operator as a parameter.
The invariant `Framed` holds before and after each round of the loop (`HeadRound`,
`BodyRound`); `IterateDecreases` has the measure that ends the loop: twice the
bytes left, and one while a head is complete.

### Only model-checked

* Liveness: `RequestsAnswered`, `NoLimbo`, `NoHalfOpen`, `UserReachable`, `ComesBack`. The prover
  has no rules for fairness and `ENABLED`.
* `TunnelIsService` in the order of what is delivered: that units come one after the other, without
  gaps or copies, that the two ends are each other's, and that an address never had two
  owners. The rest of it is proved (see above).
* The findings: a counterexample is a behaviour, which TLC shows.

## 6. Not modelled

* The text of the configuration file, which an external parser reads, and the settings for
  logging and speed.
* The exclusive-or cipher, checksums and number formats: what they do to bytes is
  not what the properties are about. What they do to lengths is modelled (section 2).
* Time: delays and idle timeouts are events that happen at some time, except in
  `Handshake`, which has the router's clock.
* LOGOUT towards a client: no code sends it.
* Failures of `creatSvr`, `creatCli` and `sheduleCli`, whose results the code ignores, and
  callbacks while the framework is destroyed: only the headers of the framework are
  in the repository.
* Tunnels of a user to itself (see the hazards), and several users in one client
  process, which share `m_next_sid`.
* The test programs: command lines that start the parts by hand.

## 7. Plan

Written first, most important first: (1) `Messages` and `SvrCenter` with its runs and
proofs; (2) `LoginCenter`, `Handshake`; (3) `CliCenter`, `AgentCenter`, composed with the
router in `Tunnel`, and `TunnelService` as its abstract specification; (4) `AgentProto`;
(5) crashes, reconnecting clients and reachability in `Tunnel`; (6) `Service` with the
configuration and the timers. These are done. What is left to model is small: tunnels of a
user to itself, and the cipher's body layout as pure operators.

To prove: the order of deliveries, the last part of the refinement of `TunnelService`. On top of
`AddressInv` its invariant has to say that the units of an end are in order along their
path (what the other end has been handed, that end's queue, the wire to its
client, the router's queue in both directions, the queue of its own client's link and its own
queue), each once, without a gap except where a unit was lost with a link, and then
behind an exit broadcast (`ExitIsLastWord`); and, for `KeepsSids` and `WaitsForRouter`, that the two
ends of a tunnel are tied by its TUNNEL_REQ and TUNNEL_ACK, so that no session number comes to
a second end while a unit to the first is under way.
