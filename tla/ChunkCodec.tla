----------------------------- MODULE ChunkCodec -----------------------------
(* How SrsProtocol cuts RTMP messages into chunks and puts them together      *)
(* again.  A stream is a sequence of tokens: a basic and message header, an   *)
(* extended timestamp (4 bytes), a byte of payload.  Timestamps are counted   *)
(* modulo TsMod (2^31) and do not fit the header's field from ExtTs (2^24-1)  *)
(* on.  A message is [cid, type, ts, sid, body]; every byte of a body has the *)
(* same value, which is what a protocol control message says.                 *)
EXTENDS Integers, Sequences, SequencesExt

CONSTANTS ExtTs,      \* RTMP_EXTENDED_TIMESTAMP
          TsMod,      \* one more than the timestamp mask 0x7fffffff
          MinChunk,   \* SRS_CONSTS_RTMP_PROTOCOL_CHUNK_SIZE, the smallest legal one
          BufSize,    \* SRS_DEFAULT_RECV_BUFFER_SIZE
          SeqLimit,   \* 0xf0000000, where the acknowledged count starts again
          Cids,       \* chunk stream ids
          FourBytes(_) \* the number that the first four bytes of a stream read as

ASSUME ChunkAssumption ==
    /\ ExtTs \in Nat \ {0} /\ TsMod \in Nat /\ ExtTs < TsMod
    /\ MinChunk \in Nat \ {0} /\ BufSize \in Nat /\ SeqLimit \in Nat

Header(fmt, m, delta) ==
    [k |-> "head", fmt |-> fmt, cid |-> m.cid, delta |-> IF delta < ExtTs THEN delta ELSE ExtTs,
     len |-> Len(m.body), type |-> m.type, sid |-> m.sid]
Extended(delta) == IF delta < ExtTs THEN <<>> ELSE <<[k |-> "ext", ts |-> delta]>>
Payload(body) == [i \in 1..Len(body) |-> [k |-> "byte", val |-> body[i]]]

mh_sizes == <<11, 7, 3, 0>>
TokenSize(t) ==
    CASE t.k = "head" -> 1 + mh_sizes[t.fmt + 1]
      [] t.k = "ext"  -> 4
      [] OTHER        -> 1
Bytes(s) == LET F[i \in 0..Len(s)] == IF i = 0 THEN 0 ELSE F[i - 1] + TokenSize(s[i]) IN F[Len(s)]

-----------------------------------------------------------------------------
(* Writing: a type 0 chunk, then type 3 chunks that repeat the extended       *)
(* timestamp; a message without payload is not sent at all.                   *)

smaller(a, b) == IF a < b THEN a ELSE b

\* Mutant of chunk_header: only the 24 bits of the header's field are written.
chunk_header_NoExt(m, c0) == <<Header(IF c0 THEN 0 ELSE 3, m, m.ts % ExtTs)>>

chunk_header(m, c0) ==
    IF c0 THEN <<Header(0, m, m.ts)>> \o Extended(m.ts)
          ELSE <<Header(3, m, m.ts)>> \o Extended(m.ts)

do_send_messages(m, chunk_size) ==
    LET n == (Len(m.body) + chunk_size - 1) \div chunk_size
        Chunk(i) == chunk_header(m, i = 1)
                    \o Payload(SubSeq(m.body, (i - 1) * chunk_size + 1, smaller(i * chunk_size, Len(m.body))))
    IN  FlattenSeq([i \in 1..n |-> Chunk(i)])

-----------------------------------------------------------------------------
(* Reading one chunk into the chunk stream it belongs to.                     *)

SrsChunkStream ==
    [ts |-> 0, delta |-> 0, len |-> 0, type |-> "none", sid |-> 0,
     has_ext |-> FALSE, ext |-> 0, open |-> FALSE, body |-> <<>>, count |-> 0]

IllegalStart(c, h) ==
    \/ c.count = 0 /\ h.fmt \in {2, 3}
    \/ c.open /\ h.fmt = 0
    \/ c.open /\ h.fmt = 1 /\ h.len # c.len

(* The fields a header of this type carries; the others keep their values.    *)
HeaderFields(c, h) ==
    LET ext == IF h.fmt <= 2 THEN h.delta >= ExtTs ELSE c.has_ext
        d   == IF h.fmt <= 2 THEN h.delta ELSE c.delta
    IN  [c EXCEPT
          !.delta = d, !.has_ext = ext,
          !.ts   = IF ext \/ (h.fmt = 3 /\ c.open) THEN @
                   ELSE IF h.fmt = 0 THEN d ELSE @ + d,
          !.len  = IF h.fmt <= 1 THEN h.len ELSE @,
          !.type = IF h.fmt <= 1 THEN h.type ELSE @,
          !.sid  = IF h.fmt = 0 THEN h.sid ELSE @]

(* The four bytes that follow, as a timestamp.                                *)
ExtRead(rest) == IF rest[1].k = "ext" THEN rest[1].ts % TsMod ELSE FourBytes(rest)

\* Mutant of ExtIsPayload: the four bytes always are the extended timestamp.
ExtIsPayload_Never(c, rest) == FALSE /\ c.open /\ rest = <<>>

(* They are the extended timestamp, unless this is not the first chunk of the *)
(* message and they differ from the one known: then they are read again.      *)
ExtIsPayload(c, rest) == c.open /\ c.ext > 0 /\ ExtRead(rest) # c.ext

(* Payload whose first four bytes happen to be the timestamp that is known.   *)
Misleading(c, rest) == c.open /\ c.has_ext /\ rest[1].k # "ext" /\ FourBytes(rest) = c.ext

ExtTimestamp(c, h, rest) ==
    [c EXCEPT !.ext = ExtRead(rest),
              !.ts = IF h.fmt = 0 THEN ExtRead(rest) ELSE IF c.open THEN @ ELSE @ + ExtRead(rest)]

read_message_header(c, h, rest) ==
    LET f == HeaderFields(c, h)
        g == IF f.has_ext /\ ~ ExtIsPayload(f, rest) THEN ExtTimestamp(f, h, rest) ELSE f
    IN  [g EXCEPT !.ts = @ % TsMod, !.open = TRUE, !.count = @ + 1]

(* What is left of the stream after the header and the extended timestamp.    *)
AfterHeader(c, h, rest) ==
    LET f == HeaderFields(c, h) IN IF f.has_ext /\ ~ ExtIsPayload(f, rest) THEN Tail(rest) ELSE rest

(* A byte of payload; anything else in its place is not what was sent.        *)
Byte(t) == IF t.k = "byte" THEN t.val ELSE -1

PayloadSize(c, in_chunk_size) == smaller(c.len - Len(c.body), in_chunk_size)

read_message_payload(c, in_chunk_size, rest) ==
    LET b == c.body \o [i \in 1..PayloadSize(c, in_chunk_size) |-> Byte(rest[i])]
    IN  [c EXCEPT !.body = b, !.open = Len(b) < c.len]

(* The message a chunk stream has just completed.                             *)
Message(cid, c) == [cid |-> cid, type |-> c.type, ts |-> c.ts, sid |-> c.sid, body |-> c.body]

-----------------------------------------------------------------------------
(* One chunk off the front of a stream.  Every chunk in the stream is there   *)
(* as a whole, so the only wait is for the four bytes after a header.  Which  *)
(* they are decides whether the chunk is read as it was written.              *)

ChunkThere(cs, in) ==
    /\ in # <<>>
    /\ HeaderFields(cs[in[1].cid], in[1]).has_ext => Bytes(Tail(in)) >= 4

Misled(cs, in) == Misleading(cs[in[1].cid], Tail(in))

Parsed(cs, in) == read_message_header(cs[in[1].cid], in[1], Tail(in))

ChunkError(cs, in_chunk_size, in) ==
    IF IllegalStart(cs[in[1].cid], in[1]) THEN "start"
    ELSE IF PayloadSize(Parsed(cs, in), in_chunk_size) > BufSize THEN "overflow" ELSE "none"

(* recv_interlaced_message: the chunk stream after the chunk, and what is     *)
(* left of the input.                                                         *)
recv_interlaced_message(cs, in_chunk_size, in) ==
    read_message_payload(Parsed(cs, in), in_chunk_size, AfterHeader(cs[in[1].cid], in[1], Tail(in)))

Unread(cs, in_chunk_size, in) ==
    LET rest == AfterHeader(cs[in[1].cid], in[1], Tail(in))
    IN  SubSeq(rest, PayloadSize(Parsed(cs, in), in_chunk_size) + 1, Len(rest))

(* A completed message leaves its chunk stream ready for the next one.        *)
Taken(c) == IF c.open THEN c ELSE [c EXCEPT !.body = <<>>]
=============================================================================
