---------------------------- MODULE RtmpChannel ----------------------------
(* One RTMP connection: SrsProtocol in the server, and a peer at the other    *)
(* end of the socket.  The peer is any conforming one: it may use every chunk *)
(* type, interleave the messages of several chunk streams, change its chunk   *)
(* size between chunks, ask for acknowledgements and stop when a window of    *)
(* bytes is not acknowledged.  The server's replies and messages go back      *)
(* through the server's writer and are read by a peer with the same reader.   *)
EXTENDS ChunkCodec, FiniteSets

CONSTANTS Kinds,      \* what the peer sends: [cids, type, val, len, fmts, deltas]
          SrvKinds,   \* what the server sends of its own accord
          MaxIn,      \* messages of the peer
          MaxOut,     \* messages of the server's own
          NetCap,     \* bytes the connection holds on the way to the server
          Styles      \* whether type 3 chunks repeat the extended timestamp

(* Every message of the server has a payload; the messages of the peer that   *)
(* change the protocol carry one number, of a chunk size at least 1.          *)
ASSUME ChannelAssumption ==
    /\ 2 \in Cids
    /\ \A k \in Kinds :
          /\ k.cids \subseteq Cids /\ k.fmts \subseteq 0..3 /\ k.deltas \subseteq 0..(TsMod - 1)
          /\ k.len \in Nat
          /\ k.type \in {"chunk", "winack", "ping", "buffer"} => k.len = 1
          /\ k.type = "chunk" => k.val \in Nat \ {0}
    /\ \A k \in SrvKinds :
          /\ k.cid \in Cids /\ k.ts \in 0..(TsMod - 1) /\ k.len \in Nat \ {0}
          /\ k.type = "chunk" => k.val \in Nat \ {0}

VARIABLES style,      \* of the peer
          tx,         \* the peer's writer, per chunk stream
          psize,      \* its chunk size
          pin,        \* its reader: chunk streams and chunk size
          net, nsent, \* tokens on the way to the server, bytes written so far
          out,        \* tokens on the way to the peer
          srv,        \* SrsProtocol
          rbytes,     \* bytes the server has taken from the socket
          err,        \* why the server gave up, or "misled"
          begun,      \* how many messages the peer has begun
          done, got,  \* messages the peer wrote, messages recv_message returned
          outdone, outgot
vars == <<style, tx, psize, pin, net, nsent, out, srv, rbytes, err, begun, done, got, outdone, outgot>>

SrsProtocol ==
    [cs |-> [c \in Cids |-> SrsChunkStream], in_chunk_size |-> MinChunk, out_chunk_size |-> MinChunk,
     window |-> 0, nb_recv_bytes |-> 0, sequence_number |-> 0, out_window |-> 0, in_buffer_length |-> 0]

Init ==
    /\ style \in Styles
    /\ tx = [c \in Cids |-> [fresh |-> TRUE, ts |-> 0, delta |-> 0, len |-> 0, type |-> "none",
                             sid |-> 0, left |-> <<>>, body |-> <<>>]]
    /\ psize = MinChunk
    /\ pin = [cs |-> [c \in Cids |-> SrsChunkStream], size |-> MinChunk]
    /\ net = <<>> /\ nsent = 0 /\ out = <<>>
    /\ srv = SrsProtocol /\ rbytes = 0 /\ err = "none"
    /\ begun = 0 /\ done = <<>> /\ got = <<>> /\ outdone = <<>> /\ outgot = <<>>

-----------------------------------------------------------------------------
(* The peer.                                                                  *)

LastOf(s, type, d) ==
    LET I == {i \in 1..Len(s) : s[i].type = type}
    IN  IF I = {} THEN d ELSE s[CHOOSE i \in I : \A j \in I : j <= i].body[1]
PeerWindow == LastOf(done, "winack", 0)
Acked == LastOf(outgot, "ack", 0)

(* It writes a chunk only while less than its window is unacknowledged.       *)
InWindow(chunk) == PeerWindow > 0 => nsent + Bytes(chunk) - Acked <= PeerWindow

Write(chunk) ==
    /\ InWindow(chunk)
    /\ Bytes(net) + Bytes(chunk) <= NetCap
    /\ net' = net \o chunk
    /\ nsent' = nsent + Bytes(chunk)

Ext3(t) == IF style = "every" THEN Extended(t.delta) ELSE <<>>

(* The message on chunk stream c is complete once nothing of it is left.      *)
Wrote(c, t) ==
    /\ tx' = [tx EXCEPT ![c] = t]
    /\ done' = IF t.left = <<>> /\ t.body # <<>>
               THEN Append(done, [cid |-> c, type |-> t.type, ts |-> t.ts, sid |-> t.sid, body |-> t.body])
               ELSE done
    /\ psize' = IF t.left = <<>> /\ t.type = "chunk" THEN t.body[1] ELSE psize

(* The chunk types a sender may begin this message with.                      *)
LegalFmt(t, fmt, k, delta) ==
    CASE fmt = 0 -> TRUE
      [] fmt = 1 -> TRUE
      [] fmt = 2 -> ~ t.fresh /\ k.len = t.len /\ k.type = t.type
      [] OTHER   -> /\ ~ t.fresh /\ k.len = t.len /\ k.type = t.type /\ delta = t.delta
                    /\ delta < ExtTs \/ style = "every"

PeerBegin(c, fmt, k, delta) ==
    LET t == tx[c]
        body == [i \in 1..k.len |-> k.val]
        n == smaller(psize, k.len)
        u == [t EXCEPT !.fresh = FALSE, !.delta = delta, !.len = k.len, !.type = k.type, !.body = body,
                       !.ts = IF fmt = 0 THEN delta ELSE (@ + delta) % TsMod,
                       !.sid = IF fmt = 0 THEN 1 ELSE @,
                       !.left = SubSeq(body, n + 1, k.len)]
        m == [cid |-> c, type |-> k.type, sid |-> u.sid, body |-> body]
    IN  /\ t.left = <<>> /\ begun < MaxIn
        /\ begun' = begun + 1
        /\ LegalFmt(t, fmt, k, delta)
        /\ Write(<<Header(fmt, m, delta)>>
                 \o (IF fmt = 3 THEN Ext3(u) ELSE Extended(delta)) \o Payload(SubSeq(body, 1, n)))
        /\ Wrote(c, u)
        /\ UNCHANGED <<style, pin, out, srv, rbytes, err, got, outdone, outgot>>

NextChunk(c) ==
    LET t == tx[c]
        m == [cid |-> c, type |-> t.type, sid |-> t.sid, body |-> t.body]
    IN  <<Header(3, m, t.delta)>> \o Ext3(t) \o Payload(SubSeq(t.left, 1, smaller(psize, Len(t.left))))

PeerContinue(c) ==
    /\ tx[c].left # <<>>
    /\ Write(NextChunk(c))
    /\ Wrote(c, [tx[c] EXCEPT !.left = SubSeq(@, smaller(psize, Len(@)) + 1, Len(@))])
    /\ UNCHANGED <<style, pin, out, srv, rbytes, err, begun, got, outdone, outgot>>

PeerRecv ==
    LET c == out[1].cid
        r == recv_interlaced_message(pin.cs, pin.size, out)
    IN  /\ ChunkThere(pin.cs, out)
        /\ ChunkError(pin.cs, pin.size, out) = "none" /\ ~ Misled(pin.cs, out)
        /\ out' = Unread(pin.cs, pin.size, out)
        /\ outgot' = IF r.open THEN outgot ELSE Append(outgot, Message(c, r))
        /\ pin' = [cs |-> [pin.cs EXCEPT ![c] = Taken(r)],
                   size |-> IF ~ r.open /\ r.type = "chunk" THEN r.body[1] ELSE pin.size]
        /\ UNCHANGED <<style, tx, psize, net, nsent, srv, rbytes, err, begun, done, got, outdone>>

-----------------------------------------------------------------------------
(* The server.                                                                *)

Control(type, val) == [cid |-> 2, type |-> type, ts |-> 0, sid |-> 0, body |-> <<val>>]

\* Mutant of AckDue: an acknowledgement only after a whole window.
AckDue_Whole(p, n) == p.window > 0 /\ n - p.nb_recv_bytes >= p.window

(* An acknowledgement is due once half a window was received since the last.  *)
AckDue(p, n) == p.window > 0 /\ n - p.nb_recv_bytes >= p.window \div 2

Acknowledged(p, n) ==
    LET delta == n - p.nb_recv_bytes
        s == p.sequence_number + delta
    IN  [p EXCEPT !.nb_recv_bytes = n, !.sequence_number = IF s > SeqLimit THEN delta ELSE s]

response_acknowledgement_message(p, n) == IF AckDue(p, n) THEN Acknowledged(p, n) ELSE p

AckReply(p, n) ==
    IF AckDue(p, n) THEN <<Control("ack", Acknowledged(p, n).sequence_number)>> ELSE <<>>
response_ping_message(m) == IF m.type = "ping" THEN <<Control("pong", m.body[1])>> ELSE <<>>

on_recv_message(p, m) ==
    CASE m.type = "winack" /\ m.body[1] > 0 -> [p EXCEPT !.window = m.body[1]]
      [] m.type = "chunk"                   -> [p EXCEPT !.in_chunk_size = m.body[1]]
      [] m.type = "buffer"                  -> [p EXCEPT !.in_buffer_length = m.body[1]]
      [] OTHER                              -> p

RecvError(m) == IF m.type = "chunk" /\ m.body[1] < MinChunk THEN "chunk_size" ELSE "none"

(* on_send_packet, once the packet is written.                                *)
on_send_packet(p, m) ==
    CASE m.type = "chunk"  -> [p EXCEPT !.out_chunk_size = m.body[1]]
      [] m.type = "winack" -> [p EXCEPT !.out_window = m.body[1]]
      [] OTHER             -> p

(* SrsFastStream::grow: nothing is read while the buffer has enough, else     *)
(* what the chunk needs, or all that has come.  (Before there is a window the *)
(* difference is not looked at.)                                              *)
GrownTo(used) ==
    IF rbytes >= used THEN {rbytes} ELSE IF srv.window = 0 THEN {nsent} ELSE {used, nsent}

Chunks(ms) ==
    IF ms = <<>> THEN <<>>
    ELSE IF Len(ms) = 1 THEN do_send_messages(ms[1], srv.out_chunk_size)
    ELSE do_send_messages(ms[1], srv.out_chunk_size) \o do_send_messages(ms[2], srv.out_chunk_size)

(* recv_message: a chunk that completes a message is followed by              *)
(* on_recv_message, except that a message without payload is dropped.         *)
ServerRecv ==
    LET in == srv.in_chunk_size
        c == net[1].cid
        r == recv_interlaced_message(srv.cs, in, net)
        m == Message(c, r)
        p == [srv EXCEPT !.cs[c] = Taken(r)]
        left == Unread(srv.cs, in, net)
        whole == ChunkError(srv.cs, in, net) = "none" /\ ~ r.open /\ r.body # <<>>
        broken == ChunkError(srv.cs, in, net)
    IN  /\ err = "none" /\ ChunkThere(srv.cs, net) /\ ~ Misled(srv.cs, net)
        /\ err' = IF broken # "none" THEN broken ELSE IF whole THEN RecvError(m) ELSE "none"
        /\ net' = left
        /\ \E n \in GrownTo(nsent - Bytes(left)) :
             /\ rbytes' = n
             /\ srv' = IF whole THEN on_recv_message(response_acknowledgement_message(p, n), m) ELSE p
             /\ LET replies == IF whole THEN AckReply(p, n) \o response_ping_message(m) ELSE <<>>
                IN  outdone' = outdone \o replies /\ out' = out \o Chunks(replies)
        /\ got' = IF whole /\ err' = "none" THEN Append(got, m) ELSE got
        /\ UNCHANGED <<style, tx, psize, pin, nsent, begun, done, outgot>>

(* Four bytes of payload are taken for the extended timestamp that they are   *)
(* equal to.  The code does not notice: it fills the message with the bytes   *)
(* that come after them and looks for the next header too late.  What it      *)
(* makes of the rest depends on every byte, so the model ends here.           *)
ServerMisled ==
    /\ err = "none" /\ ChunkThere(srv.cs, net) /\ Misled(srv.cs, net)
    /\ err' = "misled"
    /\ UNCHANGED <<style, tx, psize, pin, net, nsent, out, srv, rbytes, begun, done, got, outdone, outgot>>

OwnSent == Len(SelectSeq(outdone, LAMBDA m : m.type \notin {"ack", "pong"}))

(* send_and_free_packet and send_and_free_messages.  To bound the states it   *)
(* does so while nothing is on the way: the directions of a connection meet   *)
(* only in acknowledgements and answers to pings, which ServerRecv sends.     *)
ServerSend(k) ==
    LET m == [cid |-> k.cid, type |-> k.type, ts |-> k.ts, sid |-> 1, body |-> [i \in 1..k.len |-> k.val]]
    IN  /\ err = "none" /\ OwnSent < MaxOut /\ out = <<>> /\ net = <<>>
        /\ out' = out \o do_send_messages(m, srv.out_chunk_size)
        /\ outdone' = Append(outdone, m)
        /\ srv' = on_send_packet(srv, m)
        /\ UNCHANGED <<style, tx, psize, pin, net, nsent, rbytes, err, begun, done, got, outgot>>

Next ==
    \/ \E k \in Kinds : \E c \in k.cids, fmt \in k.fmts, d \in k.deltas : PeerBegin(c, fmt, k, d)
    \/ \E c \in Cids : PeerContinue(c)
    \/ PeerRecv \/ ServerRecv \/ ServerMisled
    \/ \E k \in SrvKinds : ServerSend(k)

Spec == Init /\ [][Next]_vars
-----------------------------------------------------------------------------
In  == INSTANCE MessageChannel WITH sent <- done, got <- got
Out == INSTANCE MessageChannel WITH sent <- outdone, got <- outgot

TypeOK ==
    /\ srv.in_chunk_size \in Nat /\ srv.out_chunk_size \in Nat \ {0}
    /\ \A c \in Cids : srv.cs[c].ts \in 0..(TsMod - 1) /\ srv.cs[c].open \in BOOLEAN
    /\ rbytes \in 0..nsent /\ err \in {"none", "start", "overflow", "chunk_size", "misled"}

(* recv_message returns exactly the messages the peer wrote, with their       *)
(* timestamps, types and payloads, in the order in which they were completed, *)
(* whatever chunk types, interleaving and chunk sizes the peer uses: up to a  *)
(* chunk whose payload reads as the extended timestamp of its message, from a *)
(* peer that does not repeat it (ServerMisled).                               *)
PeerToServer == In!Spec

(* What do_send_messages writes, with the chunk size in force when it does,   *)
(* is read back as the same messages in the same order.                       *)
ServerToPeer == Out!Spec

(* A conforming peer never makes the reader fail, and payload is taken for an *)
(* extended timestamp only from a peer that does not repeat the timestamps    *)
(* (of which the server's own writer is none).                                *)
Conforming == \A i \in 1..Len(done) : done[i].type = "chunk" => done[i].body[1] >= MinChunk
Unfailing == Conforming => err \in {"none", "misled"}
NoError ==
    /\ Unfailing
    /\ err = "misled" => style # "every"
    /\ out # <<>> => ~ Misled(pin.cs, out)

(* With nothing on the way, both ends use the same chunk size for each        *)
(* direction.                                                                 *)
ChunkSizeAgreed ==
    err = "none" => /\ net = <<>> => srv.in_chunk_size = psize
                    /\ out = <<>> => srv.out_chunk_size = pin.size

(* Between messages the server never owes an acknowledgement: half a window   *)
(* of unacknowledged bytes is only there while a message is incomplete, right *)
(* after the window was set, or after an empty message.                       *)
AckPaid ==
    AckDue(srv, nsent - Bytes(net)) /\ err = "none" =>
        \/ \E c \in Cids : srv.cs[c].open
        \/ got # <<>> /\ got[Len(got)].type = "winack"
        \/ \E c \in Cids : srv.cs[c].count > 0 /\ srv.cs[c].len = 0

(* Where both sides wait for each other: once all it wrote has been read and  *)
(* answered, a peer in the middle of a message waits for an acknowledgement   *)
(* only if it interleaves messages, or asked for acknowledgements after other *)
(* messages.  These can be held for ever: the server acknowledges only when a *)
(* message is complete, and with the chunks of several in a window none is.   *)
(* (A window is at least twice as large as a message, which the code does not *)
(* check, and what a peer that omits timestamps wrote is read once four bytes *)
(* have come after the header.)                                               *)
Interleaving == Cardinality({c \in Cids : tx[c].left # <<>>}) > 1
WindowFirst == done # <<>> /\ done[1].type = "winack"
NeverStalled ==
    err = "none" /\ out = <<>> /\ net = <<>> /\ WindowFirst /\ ~ Interleaving =>
        \A c \in Cids : tx[c].left # <<>> => InWindow(NextChunk(c))

(* The two ends keep in step until payload is taken for a timestamp: the      *)
(* reader fails for no conforming peer, each direction has one chunk size, no *)
(* acknowledgement is owed between messages, and a peer whose chunks are all  *)
(* read waits for ever for one only in the two cases above.                   *)
InStep == TypeOK /\ NoError /\ ChunkSizeAgreed /\ AckPaid /\ NeverStalled
=============================================================================
