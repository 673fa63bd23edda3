----------------------------- MODULE AgentProto -----------------------------
(***************************************************************************)
(* The framing of the messages on a link: AgentProto (agentproto.cpp) puts *)
(* together what TCP delivers in chunks of any size.  The connection may   *)
(* break anywhere, and the next one starts with the cache that             *)
(* CliCenter::cleanCli leaves behind.                                      *)
(*                                                                         *)
(* Byte i of the n-th connection is the pair <<n, i>>.  The peer's stream  *)
(* is a sequence of messages, of which only the size that the head         *)
(* declares matters.                                                       *)
(***************************************************************************)
EXTENDS Integers, Sequences, FiniteSets

CONSTANTS
    DEF_MSG_HEAD_SIZE, MAX_MSG_SIZE,
    Streams,    \* streams: sequences of declared message sizes
    MaxConns    \* bound: connections

ASSUME ProtoAssumption ==
    /\ DEF_MSG_HEAD_SIZE \in Nat \ {0}
    /\ MAX_MSG_SIZE \in Nat
    /\ MaxConns \in Nat
    /\ \A s \in Streams : s \in Seq(Nat)

VARIABLES
    conn,       \* number of the connection
    stream,     \* what its peer sends
    sent,       \* number of bytes that have been received
    open,       \* whether the connection stands
    cache,      \* m_cache: m_head up to m_pos, and m_msg with its size
    dispatched  \* the messages that were dispatched, as the bytes they hold

vars == <<conn, stream, sent, open, cache, dispatched>>
----------------------------------------------------------------------------
(* The stream.                                                             *)

\* A message takes at least its head, whatever the head declares.
Width(size) == IF size > DEF_MSG_HEAD_SIZE THEN size ELSE DEF_MSG_HEAD_SIZE

\* The positions at which the messages end.
Ends(str) ==
    LET end[k \in 0..Len(str)] == IF k = 0 THEN 0 ELSE end[k - 1] + Width(str[k])
    IN end

\* The position before message k.
Start(str, k) == Ends(str)[k - 1]

Bytes(first, last) == [i \in 1..(last - first + 1) |-> <<conn, first + i - 1>>]

MsgBytes(k) == Bytes(Start(stream, k) + 1, Start(stream, k + 1))

HeadBytes(k) == Bytes(Start(stream, k) + 1, Start(stream, k) + DEF_MSG_HEAD_SIZE)

\* The size that the bytes of a head declare; the bytes of no head declare
\* none that is valid.
Declared(head) ==
    IF \E k \in 1..Len(stream) : head = HeadBytes(k)
    THEN stream[CHOOSE k \in 1..Len(stream) : head = HeadBytes(k)]
    ELSE 0
----------------------------------------------------------------------------
(* Parsing.  A parse has the cache, the messages dispatched and the bytes  *)
(* of the chunk that are left.                                             *)

emptyCache == [head |-> <<>>, msg |-> <<>>, size |-> 0]

\* The version is part of the check: a head of another version is given up
\* as one of an invalid size is, and the invalid sizes stand for both.
chkValidHead(size) == size \in DEF_MSG_HEAD_SIZE..MAX_MSG_SIZE

\* Mutant: the head is not checked.
analyseHeadUnchecked(p, head) ==
    [p EXCEPT !.cache = [head |-> head, msg |-> head, size |-> Declared(head)]]

\* The head is complete: it is the beginning of the message.
analyseHead(p, head) ==
    [p EXCEPT !.cache = [head |-> head, msg |-> head, size |-> Declared(head)],
              !.ok = chkValidHead(Declared(head))]

Fewer(m, n) == IF m <= n THEN m ELSE n

parseHead(p) ==
    LET used == Fewer(DEF_MSG_HEAD_SIZE - Len(p.cache.head), Len(p.buf))
        head == p.cache.head \o SubSeq(p.buf, 1, used)
        rest == [p EXCEPT !.buf = SubSeq(@, used + 1, Len(@))]
    IN IF Len(head) = DEF_MSG_HEAD_SIZE
       THEN analyseHead(rest, head)
       ELSE [rest EXCEPT !.cache.head = head]

\* getMsgLeft
left(c) == c.size - Len(c.msg)

\* A complete message is dispatched and the cache starts again.
parseBody(p) ==
    LET used == Fewer(left(p.cache), Len(p.buf))
        msg == p.cache.msg \o SubSeq(p.buf, 1, used)
        rest == [p EXCEPT !.buf = SubSeq(@, used + 1, Len(@))]
    IN IF left(p.cache) <= Len(p.buf)
       THEN [rest EXCEPT !.cache = emptyCache, !.dispatched = Append(@, msg)]
       ELSE [rest EXCEPT !.cache.msg = msg]

\* The loop goes on while bytes are left and nothing has failed.
Goes(p) == p.buf # <<>> /\ p.ok

Iterate(p) ==
    IF ~Goes(p) THEN p
    ELSE IF Len(p.cache.head) < DEF_MSG_HEAD_SIZE THEN parseHead(p) ELSE parseBody(p)

\* A byte takes two rounds at most, and a message that was complete before
\* one more.
Rounds(p) == 2 * Len(p.buf) + 1

Parses(p) ==
    LET after[i \in 0..Rounds(p)] == IF i = 0 THEN p ELSE Iterate(after[i - 1])
    IN after

parseChunk(p) == Parses(p)[Rounds(p)]
----------------------------------------------------------------------------
Total == Start(stream, Len(stream) + 1)

Init ==
    /\ conn = 1 /\ stream \in Streams
    /\ sent = 0 /\ open = TRUE
    /\ cache = emptyCache /\ dispatched = <<>>

\* TCP delivers the next bytes of the stream; a head that is not valid is
\* an error, which closes the connection.
parseData ==
    /\ open
    /\ \E n \in 1..(Total - sent) :
          LET p == parseChunk([cache |-> cache, dispatched |-> dispatched,
                               buf |-> Bytes(sent + 1, sent + n), ok |-> TRUE])
          IN /\ sent' = sent + n
             /\ cache' = p.cache
             /\ dispatched' = p.dispatched
             /\ open' = p.ok
    /\ UNCHANGED <<conn, stream>>

\* Mutant: the cache is left as it is.
cleanCliKeepsCache == cache

cleanCli == emptyCache

\* onClose, and the next connection.
Reconnect ==
    /\ conn < MaxConns
    /\ conn' = conn + 1
    /\ stream' \in Streams
    /\ sent' = 0 /\ open' = TRUE
    /\ cache' = cleanCli
    /\ dispatched' = <<>>

Next == parseData \/ Reconnect

Spec == Init /\ [][Next]_vars
----------------------------------------------------------------------------
(* Properties.                                                             *)

\* While the connection stands, the cache holds no more than a head and a
\* message of a size that is allowed.
TypeOK ==
    open => /\ Len(cache.head) <= DEF_MSG_HEAD_SIZE
            /\ cache.size <= MAX_MSG_SIZE
            /\ Len(cache.msg) <= cache.size

\* A message is complete once its last byte has been received, but one that
\* is only a head needs a byte of the next message, too.
Complete(k) ==
    /\ \A j \in 1..k : chkValidHead(stream[j])
    /\ IF stream[k] > DEF_MSG_HEAD_SIZE
       THEN Start(stream, k + 1) <= sent ELSE Start(stream, k + 1) < sent

\* In whatever chunks a stream is delivered, and wherever a former
\* connection broke, what has been dispatched is exactly the messages that
\* are complete, each with its own bytes, up to the first invalid head.
FramesExact ==
    LET whole == {k \in 1..Len(stream) : Complete(k)}
    IN /\ Len(dispatched) = Cardinality(whole)
       /\ \A k \in whole : dispatched[k] = MsgBytes(k)

\* The connection is given up exactly when the head of a message that has
\* been received completely is not valid.
ClosedOnBadHead ==
    ~open <=> \E k \in 1..Len(stream) :
                 /\ ~chkValidHead(stream[k])
                 /\ \A j \in 1..(k-1) : chkValidHead(stream[j])
                 /\ Start(stream, k) + DEF_MSG_HEAD_SIZE <= sent
=============================================================================
