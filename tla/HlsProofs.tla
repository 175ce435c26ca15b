----------------------------- MODULE HlsProofs -----------------------------
(***************************************************************************)
(* Proofs about the HLS output behind the hub, for every set of failing     *)
(* file calls, every stream and every value of the constants.               *)
(*                                                                          *)
(* What failures cannot break is HlsInv: the current segment, the file of   *)
(* the writer, the numbers, the playlist and the files of the window.  What *)
(* holds as long as none failed is Clean: nothing stays cached, and the     *)
(* times of neighbours join.                                                *)
(*                                                                          *)
(* What the files hold has invariants of its own: Recorded says, whatever   *)
(* fails, that the segments hold the frames, kind by kind, and Filled, as   *)
(* long as nothing failed, how the file of the open segment begins, so that *)
(* it can be decoded when it is closed.  What the frames of a longer        *)
(* sequence of messages are follows by induction on its length, from the    *)
(* least number that contradicts it.                                        *)
(***************************************************************************)
EXTENDS HlsHub, SequenceTheorems, FiniteSetTheorems, WellFoundedInduction, TLAPS

HlsFields ==
    {"enabled", "current", "sequence_no", "segments", "expired", "latest", "context",
     "audio", "video", "writing", "tmp", "files", "m3u8", "out", "lost", "stale"}

HlsType(h) ==
    /\ DOMAIN h = HlsFields
    /\ h.enabled \in BOOLEAN /\ h.writing \in BOOLEAN /\ h.stale \in BOOLEAN
    /\ h.current \in Segment \cup {NULL}
    /\ h.sequence_no \in Nat
    /\ h.segments \in Seq(Segment) /\ h.expired = << >>
    /\ h.latest \in Codecs
    /\ h.audio \in TsMessage \cup {NULL} /\ h.video \in TsMessage \cup {NULL}

\* The assertions of the muxer (SegmentOpen) for one state of the output.
HlsOpen(h) ==
    /\ h.enabled => h.current # NULL
    /\ h.writing => h.current # NULL /\ h.current.no \in DOMAIN h.tmp

\* The number that the segment closed next has.
NextNo(h) == IF h.current = NULL THEN h.sequence_no ELSE h.current.no

\* The numbers of a window ascend to the next one.
Ascending(segs, next) ==
    /\ \A i, j \in DOMAIN segs : i < j => segs[i].no < segs[j].no
    /\ \A i \in DOMAIN segs : segs[i].no < next

Numbering(h) ==
    /\ h.current # NULL => h.sequence_no = h.current.no + 1
    /\ Ascending(h.segments, NextNo(h))

\* Only segments that were not renamed leave gaps in the numbers of a window, also
\* between it and the next number.
Gaps(segs, next, lost) ==
    /\ \A i \in DOMAIN segs :
          i + 1 \in DOMAIN segs => segs[i].no + 1 .. segs[i + 1].no - 1 \subseteq lost
    /\ segs # << >> => segs[Len(segs)].no + 1 .. next - 1 \subseteq lost

\* The window and the playlist.
Stored(h) ==
    /\ ~ h.stale => h.m3u8 = h.segments
    /\ Numbers(h.segments) \subseteq DOMAIN h.files
    /\ Gaps(h.segments, NextNo(h), h.lost)

HlsInv(h) == HlsType(h) /\ HlsOpen(h) /\ Numbering(h) /\ Stored(h)

End(s) == s.start + s.dur

\* A segment that follows begins when the one before it ended.
Chained(segs) ==
    \A i \in DOMAIN segs :
        i + 1 \in DOMAIN segs /\ segs[i + 1].follows => End(segs[i]) = segs[i + 1].first

\* A segment that follows has begun, when the newest of a window ended.
Follows(s, segs) ==
    s.follows => s.start # -1 /\ segs # << >> /\ End(segs[Len(segs)]) = s.first

Joined(h) == h.current # NULL => Follows(h.current, h.segments)

\* What holds between two steps while no call has failed.
Clean(h) ==
    /\ h.enabled = (h.current # NULL) /\ h.writing = (h.current # NULL)
    /\ ~ h.stale /\ Chained(h.segments) /\ Joined(h)
    /\ h.audio = NULL /\ h.video = NULL

-----------------------------------------------------------------------------
(* Numbers, segments and messages.                                          *)

\* A set of numbers has a least element.
LEMMA NatMin ==
    ASSUME NEW T, T \subseteq Nat, T # {}
    PROVE  \E x \in T : \A y \in T : x <= y
<1> DEFINE R == {ss \in Nat \X Nat : ss[1] < ss[2]}
<1>1. IsWellFoundedOn(R, Nat)
  BY NatLessThanWellFounded, Zenon DEF OpToRel
<1>2. \A x, y \in Nat : <<y, x>> \in R <=> y < x
  OBVIOUS
<1> HIDE DEF R
<1>3. PICK x \in T : \A y \in T : ~ (<<y, x>> \in R)
  BY <1>1, WFMin
<1>4. \A y \in T : ~(y < x)
  BY <1>2, <1>3
<1> QED
  BY <1>3, <1>4

\* The fields of a segment.
LEMMA SegmentFields ==
    ASSUME NEW s \in Segment
    PROVE  /\ s # NULL
           /\ DOMAIN s = {"no", "start", "dur", "sh", "by", "follows", "codec", "first"}
           /\ s.no \in Nat /\ s.start \in Nat \cup {-1} /\ s.dur \in Nat
           /\ s.codec \in Codecs /\ s.follows \in BOOLEAN /\ s.first \in Nat \cup {-1}
           /\ End(s) \in Int
BY HlsAssumption DEF Segment, End

\* What append() and the marks of a segment change, as a whole.
LEMMA SegmentBuilt ==
    ASSUME NEW s \in Segment, NEW start \in Nat \cup {-1}, NEW dur \in Nat, NEW sh \in BOOLEAN,
           NEW codec \in Codecs, NEW first \in Nat \cup {-1}, NEW t,
           DOMAIN t = DOMAIN s, t = [x \in DOMAIN t |-> t[x]],
           t.no = s.no, t.by = s.by, t.follows = s.follows,
           t.start = start, t.dur = dur, t.sh = sh, t.codec = codec, t.first = first
    PROVE  t \in Segment
<1>1. t = [no |-> s.no, start |-> start, dur |-> dur, sh |-> sh, by |-> s.by,
           follows |-> s.follows, codec |-> codec, first |-> first]
  BY DEF Segment
<1>2. s.no \in Nat /\ s.by \in {"publish", "audio", "video"} /\ s.follows \in BOOLEAN
  BY DEF Segment
<1> QED
  BY <1>1, <1>2 DEF Segment

\* SrsFragment::append: the fragment ends at dts, and begins no later.
LEMMA AppendFragment ==
    ASSUME NEW s \in Segment, NEW dts \in Nat
    PROVE  /\ append(s, dts) \in Segment
           /\ append(s, dts).no = s.no /\ append(s, dts).follows = s.follows
           /\ append(s, dts).start = (IF s.start = -1 \/ dts < s.start THEN dts ELSE s.start)
           /\ append(s, dts).start \in Nat
           /\ append(s, dts).first = (IF s.start = -1 THEN dts ELSE s.first)
           /\ End(append(s, dts)) = dts
<1> DEFINE start == IF s.start = -1 \/ dts < s.start THEN dts ELSE s.start
           first == IF s.start = -1 THEN dts ELSE s.first
           t == append(s, dts)
<1>1. /\ DOMAIN s = {"no", "start", "dur", "sh", "by", "follows", "codec", "first"}
      /\ s.start \in Nat \cup {-1} /\ s.codec \in Codecs /\ s.sh \in BOOLEAN
      /\ s.first \in Nat \cup {-1}
  BY DEF Segment
<1>2. start \in Nat /\ dts - start \in Nat /\ first \in Nat \cup {-1}
  BY <1>1
<1>3. t = [s EXCEPT !.start = start, !.dur = dts - start, !.first = first]
  BY DEF append
<1> HIDE DEF start, first
<1>4. /\ DOMAIN t = DOMAIN s /\ t.no = s.no /\ t.by = s.by /\ t.follows = s.follows
      /\ t.start = start /\ t.dur = dts - start /\ t.sh = s.sh /\ t.codec = s.codec
      /\ t.first = first
  BY <1>1, <1>3
<1>5. t = [x \in DOMAIN t |-> t[x]]
  BY <1>3
<1> HIDE DEF t
<1>6. t \in Segment
  BY <1>1, <1>2, <1>4, <1>5, SegmentBuilt
<1>7. End(t) = dts
  BY <1>2, <1>4 DEF End
<1> QED
  BY <1>2, <1>4, <1>6, <1>7 DEF t, start, first

\* The fields of the codecs, and of a message.
LEMMA CodecsSet ==
    ASSUME NEW c \in Codecs
    PROVE  /\ [c EXCEPT !["a"] = "aac"] \in Codecs
           /\ [c EXCEPT !["v"] = "avc"] \in Codecs
BY DEF Codecs

LEMMA MessageFields ==
    ASSUME NEW m \in TsMessage
    PROVE  m # NULL /\ m.dts \in Nat /\ DOMAIN m = {"type", "dts", "pcr", "frames"}
BY HlsAssumption DEF TsMessage

\* cache_audio and cache_video: the message keeps the time of its first frame.
LEMMA CachedMessage ==
    ASSUME NEW m \in TsMessage \cup {NULL}, NEW frame \in Frame, NEW f
    PROVE  /\ Cached(m, frame, f) \in TsMessage
           /\ Cached(m, frame, f).dts = IF m = NULL THEN frame.ts ELSE m.dts
           /\ Cached(m, frame, f).type = IF m = NULL THEN frame.type ELSE m.type
           /\ Cached(m, frame, f).frames =
                 LET old == IF m = NULL THEN << >> ELSE m.frames
                 IN  IF "cache" \in f THEN old ELSE Append(old, frame)
<1> DEFINE b == MessageFor(m, frame)
           more == IF "cache" \in f THEN b.frames ELSE Append(b.frames, frame)
<1>1. /\ b \in TsMessage
      /\ b.dts = IF m = NULL THEN frame.ts ELSE m.dts
      /\ b.type = IF m = NULL THEN frame.type ELSE m.type
      /\ b.frames = IF m = NULL THEN << >> ELSE m.frames
  <2>1. /\ frame.type \in {"pat", "audio", "video"} /\ frame.ts \in Nat /\ frame.key \in BOOLEAN
        /\ << >> \in Seq(Frame)
    BY DEF Frame
  <2>2. CASE m = NULL
    BY <2>1, <2>2 DEF MessageFor, TsMessage
  <2>3. CASE m # NULL
    BY <2>3 DEF MessageFor
  <2> QED
    BY <2>2, <2>3
<1>2. Cached(m, frame, f) = [b EXCEPT !.frames = more]
  BY DEF Cached
<1> HIDE DEF b
<1>3. b.frames \in Seq(Frame)
  BY <1>1 DEF TsMessage
<1>4. more \in Seq(Frame)
  BY <1>3
<1>5. more = LET old == IF m = NULL THEN << >> ELSE m.frames
             IN  IF "cache" \in f THEN old ELSE Append(old, frame)
  BY <1>1
<1> HIDE DEF more
<1>6. Cached(m, frame, f) = [type |-> b.type, dts |-> b.dts, pcr |-> b.pcr, frames |-> more]
  BY <1>1, <1>2 DEF TsMessage
<1>7. b.type \in {"pat", "audio", "video"} /\ b.dts \in Nat /\ b.pcr \in BOOLEAN
  BY <1>1 DEF TsMessage
<1> QED
  BY <1>1, <1>4, <1>5, <1>6, <1>7 DEF TsMessage

-----------------------------------------------------------------------------
(* The TS side: what is written goes to the file of the current segment.    *)

\* What writing leaves alone.
SameWindow(h, k) ==
    /\ HlsType(k)
    /\ k.enabled = h.enabled /\ k.writing = h.writing /\ k.sequence_no = h.sequence_no
    /\ k.segments = h.segments /\ k.files = h.files /\ k.m3u8 = h.m3u8
    /\ k.lost = h.lost /\ k.stale = h.stale
    /\ DOMAIN k.tmp = DOMAIN h.tmp
    /\ k.current = NULL <=> h.current = NULL
    /\ h.current # NULL =>
          /\ k.current.no = h.current.no /\ k.current.follows = h.current.follows
          /\ h.current.start # -1 =>
                k.current.start # -1 /\ k.current.first = h.current.first

LEMMA SameWindowTrans ==
    ASSUME NEW h, NEW k, NEW l, SameWindow(h, k), SameWindow(k, l)
    PROVE  SameWindow(h, l)
BY DEF SameWindow

LEMMA SameWindowInv ==
    ASSUME NEW h, NEW k, HlsInv(h), SameWindow(h, k)
    PROVE  HlsInv(k)
<1>1. HlsType(k)
  BY DEF SameWindow
<1>2. HlsOpen(k)
  BY DEF SameWindow, HlsInv, HlsOpen
<1>3. NextNo(k) = NextNo(h)
  BY DEF SameWindow, NextNo
<1>4. Numbering(k)
  BY <1>3 DEF SameWindow, HlsInv, Numbering
<1>5. Stored(k)
  BY <1>3 DEF SameWindow, HlsInv, Stored
<1> QED
  BY <1>1, <1>2, <1>4, <1>5 DEF HlsInv

LEMMA SameWindowJoined ==
    ASSUME NEW h, NEW k, Joined(h), SameWindow(h, k)
    PROVE  Joined(k)
BY DEF SameWindow, Joined, Follows

\* SrsFileWriter::write.
LEMMA Written ==
    ASSUME NEW h, HlsType(h), NEW packet, NEW call, NEW f
    PROVE  LET r == write(h, packet, call, f)
           IN  /\ r.ok \in BOOLEAN /\ SameWindow(h, r.hls)
               /\ r.hls.current = h.current /\ r.hls.context = h.context
               /\ r.hls.audio = h.audio /\ r.hls.video = h.video
               /\ h.writing /\ call \notin f => r.ok
<1> DEFINE r == write(h, packet, call, f)
<1>1. CASE ~ h.writing \/ call \in f
  <2>1. r.hls = h /\ r.ok = FALSE
    BY <1>1 DEF write, Failed
  <2> QED
    BY <1>1, <2>1 DEF SameWindow
<1>2. CASE ~(~ h.writing \/ call \in f)
  <2> DEFINE more == [h.tmp EXCEPT ![h.current.no] = Append(@, packet)]
  <2>1. r.ok = TRUE /\ r.hls = [h EXCEPT !.tmp = more]
    BY <1>2 DEF write, Done
  <2>2. DOMAIN more = DOMAIN h.tmp
    OBVIOUS
  <2> HIDE DEF more, r
  <2>3. /\ DOMAIN r.hls = HlsFields /\ r.hls.tmp = more
        /\ \A x \in HlsFields \ {"tmp"} : r.hls[x] = h[x]
    BY <2>1 DEF HlsType, HlsFields
  <2>4. /\ r.hls.enabled = h.enabled /\ r.hls.current = h.current
        /\ r.hls.sequence_no = h.sequence_no /\ r.hls.segments = h.segments
        /\ r.hls.expired = h.expired /\ r.hls.latest = h.latest
        /\ r.hls.context = h.context /\ r.hls.audio = h.audio /\ r.hls.video = h.video
        /\ r.hls.writing = h.writing /\ r.hls.files = h.files /\ r.hls.m3u8 = h.m3u8
        /\ r.hls.lost = h.lost /\ r.hls.stale = h.stale
    BY <2>3 DEF HlsFields
  <2> QED
    BY <1>2, <2>1, <2>2, <2>3, <2>4 DEF SameWindow, HlsType, r
<1> QED
  BY <1>1, <1>2

\* SrsTsContext::encode.
LEMMA Encoded ==
    ASSUME NEW h, HlsType(h), NEW msg, NEW f
    PROVE  LET r == encode(h, msg, f)
           IN  /\ r.ok \in BOOLEAN /\ SameWindow(h, r.hls)
               /\ r.hls.current = h.current
               /\ r.hls.audio = h.audio /\ r.hls.video = h.video
               /\ h.writing /\ f = {} => r.ok
<1> DEFINE own == [h EXCEPT !.context = h.current.codec]
           pat == IF h.context = h.current.codec THEN Done(h) ELSE write(own, PatPmt, "pat", f)
           pcr == msg.pcr \/ (h.current.codec.v # "avc" /\ msg.type = "audio")
           pes == write(pat.hls, [msg EXCEPT !.pcr = pcr], "pes", f)
           r == encode(h, msg, f)
<1>1. r = IF pat.ok THEN pes ELSE pat
  BY DEF encode, Then
<1>2. /\ SameWindow(h, own) /\ own.writing = h.writing
      /\ own.current = h.current /\ own.audio = h.audio /\ own.video = h.video
  <2> DEFINE codec == h.current.codec
  <2>1. own = [h EXCEPT !.context = codec]
    OBVIOUS
  <2> HIDE DEF codec, own
  <2> QED
    BY <2>1 DEF HlsType, HlsFields, SameWindow
<1> HIDE DEF own
<1>3. /\ pat.ok \in BOOLEAN /\ SameWindow(h, pat.hls)
      /\ pat.hls.current = h.current
      /\ pat.hls.audio = h.audio /\ pat.hls.video = h.video
      /\ h.writing /\ f = {} => pat.ok
  <2>1. CASE h.context = h.current.codec
    BY <2>1 DEF Done, SameWindow
  <2>2. CASE h.context # h.current.codec
    <3>1. pat = write(own, PatPmt, "pat", f)
      BY <2>2
    <3>2. HlsType(own)
      BY <1>2 DEF SameWindow
    <3> HIDE DEF pat
    <3>3. /\ pat.ok \in BOOLEAN /\ SameWindow(own, pat.hls)
          /\ pat.hls.current = own.current
          /\ pat.hls.audio = own.audio /\ pat.hls.video = own.video
          /\ own.writing /\ "pat" \notin f => pat.ok
      BY <3>1, <3>2, Written
    <3> QED
      BY <1>2, <3>3, SameWindowTrans
  <2> QED
    BY <2>1, <2>2
<1> HIDE DEF pat
<1>4. HlsType(pat.hls) /\ pat.hls.writing = h.writing
  BY <1>3 DEF SameWindow
<1> DEFINE packet == [msg EXCEPT !.pcr = pcr]
<1>5. pes = write(pat.hls, packet, "pes", f)
  OBVIOUS
<1> HIDE DEF packet, pes
<1>6. /\ pes.ok \in BOOLEAN /\ SameWindow(pat.hls, pes.hls)
      /\ pes.hls.current = pat.hls.current
      /\ pes.hls.audio = pat.hls.audio /\ pes.hls.video = pat.hls.video
      /\ pat.hls.writing /\ "pes" \notin f => pes.ok
  BY <1>4, <1>5, Written
<1>7. SameWindow(h, pes.hls)
  BY <1>3, <1>6, SameWindowTrans
<1> HIDE DEF r
<1>8. CASE pat.ok
  BY <1>1, <1>3, <1>4, <1>6, <1>7, <1>8 DEF r
<1>9. CASE ~ pat.ok
  BY <1>1, <1>3, <1>9 DEF r
<1> QED
  BY <1>3, <1>8, <1>9

\* A change of the current segment alone.
LEMMA CurrentChanged ==
    ASSUME NEW h, HlsType(h), h.current # NULL, NEW s \in Segment,
           s.no = h.current.no, s.follows = h.current.follows,
           h.current.start # -1 => s.start # -1 /\ s.first = h.current.first
    PROVE  LET k == [h EXCEPT !.current = s]
           IN  /\ SameWindow(h, k) /\ k.current = s
               /\ k.audio = h.audio /\ k.video = h.video
<1>1. s # NULL
  BY SegmentFields
<1> QED
  BY <1>1 DEF HlsType, HlsFields, SameWindow

\* update_duration().
LEMMA DurationUpdated ==
    ASSUME NEW h, HlsType(h), h.current # NULL, NEW dts \in Nat
    PROVE  LET k == update_duration(h, dts)
           IN  /\ SameWindow(h, k) /\ k.current = append(h.current, dts)
               /\ k.audio = h.audio /\ k.video = h.video
<1> DEFINE s == append(h.current, dts)
<1>1. /\ s \in Segment /\ s.no = h.current.no /\ s.follows = h.current.follows
      /\ h.current.start # -1 => s.start # -1 /\ s.first = h.current.first
  <2>1. h.current \in Segment
    BY DEF HlsType
  <2>2. /\ s \in Segment /\ s.no = h.current.no /\ s.follows = h.current.follows
        /\ s.start \in Nat
        /\ s.first = (IF h.current.start = -1 THEN dts ELSE h.current.first)
    BY <2>1, AppendFragment
  <2> HIDE DEF s
  <2> QED
    BY <2>2
<1>2. update_duration(h, dts) = [h EXCEPT !.current = s]
  BY DEF update_duration
<1> HIDE DEF s
<1>3. LET k == [h EXCEPT !.current = s]
      IN  /\ SameWindow(h, k) /\ k.current = s
          /\ k.audio = h.audio /\ k.video = h.video
  BY <1>1, CurrentChanged
<1> QED
  BY <1>2, <1>3 DEF s

\* on_sequence_header().
LEMMA HeaderMarked ==
    ASSUME NEW h, HlsType(h), h.current # NULL
    PROVE  LET k == on_sequence_header(h)
           IN  /\ SameWindow(h, k) /\ k.current.start = h.current.start
               /\ k.audio = h.audio /\ k.video = h.video
<1> DEFINE s == [h.current EXCEPT !.sh = TRUE]
<1>1. /\ h.current \in Segment
      /\ DOMAIN h.current = {"no", "start", "dur", "sh", "by", "follows", "codec", "first"}
      /\ h.current.start \in Nat \cup {-1} /\ h.current.dur \in Nat
      /\ h.current.codec \in Codecs /\ h.current.first \in Nat \cup {-1}
  BY SegmentFields DEF HlsType
<1>2. /\ DOMAIN s = DOMAIN h.current /\ s = [x \in DOMAIN s |-> s[x]]
      /\ s.no = h.current.no /\ s.by = h.current.by /\ s.follows = h.current.follows
      /\ s.start = h.current.start /\ s.dur = h.current.dur /\ s.sh = TRUE
      /\ s.codec = h.current.codec /\ s.first = h.current.first
  BY <1>1
<1>3. on_sequence_header(h) = [h EXCEPT !.current = s]
  BY DEF on_sequence_header
<1> HIDE DEF s
<1>4. s \in Segment
  BY <1>1, <1>2, SegmentBuilt
<1>5. LET k == [h EXCEPT !.current = s]
      IN  /\ SameWindow(h, k) /\ k.current = s
          /\ k.audio = h.audio /\ k.video = h.video
  BY <1>1, <1>2, <1>4, CurrentChanged
<1> QED
  BY <1>2, <1>3, <1>5

\* set_latest_acodec() and set_latest_vcodec().
LEMMA LatestCodecSet ==
    ASSUME NEW h, HlsType(h), h.current # NULL,
           NEW av, NEW codec, <<av, codec>> \in {<<"a", "aac">>, <<"v", "avc">>}
    PROVE  LET k == set_latest_codec(h, av, codec)
           IN  /\ SameWindow(h, k) /\ k.current.start = h.current.start
               /\ k.audio = h.audio /\ k.video = h.video
<1> DEFINE own == [h.current.codec EXCEPT ![av] = codec]
           latest == [h.latest EXCEPT ![av] = codec]
           s == [h.current EXCEPT !.codec = own]
           k == set_latest_codec(h, av, codec)
<1>1. /\ h.current \in Segment
      /\ DOMAIN h.current = {"no", "start", "dur", "sh", "by", "follows", "codec", "first"}
      /\ h.current.start \in Nat \cup {-1} /\ h.current.dur \in Nat
      /\ h.current.codec \in Codecs /\ h.current.sh \in BOOLEAN
      /\ h.current.first \in Nat \cup {-1}
  BY SegmentFields DEF HlsType, Segment
<1>2. own \in Codecs /\ latest \in Codecs
  BY <1>1, CodecsSet DEF HlsType
<1>3. k = [h EXCEPT !.current = s, !.latest = latest]
  BY DEF set_latest_codec
<1> HIDE DEF own, latest
<1>4. /\ DOMAIN s = DOMAIN h.current /\ s = [x \in DOMAIN s |-> s[x]]
      /\ s.no = h.current.no /\ s.by = h.current.by /\ s.follows = h.current.follows
      /\ s.start = h.current.start /\ s.dur = h.current.dur /\ s.sh = h.current.sh
      /\ s.codec = own /\ s.first = h.current.first
  BY <1>1
<1> HIDE DEF s
<1>5. s \in Segment
  BY <1>1, <1>2, <1>4, SegmentBuilt
<1> DEFINE marked == [h EXCEPT !.current = s]
<1>6. /\ SameWindow(h, marked) /\ marked.current = s
      /\ marked.audio = h.audio /\ marked.video = h.video
  BY <1>1, <1>4, <1>5, CurrentChanged
<1>7. k = [marked EXCEPT !.latest = latest]
  BY <1>3
<1> HIDE DEF marked, k
<1>8. /\ SameWindow(marked, k) /\ k.current = marked.current
      /\ k.audio = marked.audio /\ k.video = marked.video
  <2>1. HlsType(marked)
    BY <1>6 DEF SameWindow
  <2> QED
    BY <1>2, <1>7, <2>1 DEF HlsType, HlsFields, SameWindow
<1> QED
  BY <1>4, <1>6, <1>8, SameWindowTrans DEF k

\* A change of the cache alone.
LEMMA CacheChanged ==
    ASSUME NEW h, HlsType(h), NEW av \in {"audio", "video"}, NEW m \in TsMessage \cup {NULL}
    PROVE  LET k == [h EXCEPT ![av] = m]
           IN  /\ SameWindow(h, k) /\ k.current = h.current /\ k[av] = m
               /\ \A bv \in {"audio", "video"} \ {av} : k[bv] = h[bv]
<1>1. CASE av = "audio"
  BY <1>1 DEF HlsType, HlsFields, SameWindow
<1>2. CASE av = "video"
  BY <1>2 DEF HlsType, HlsFields, SameWindow
<1> QED
  BY <1>1, <1>2

\* A message that is written when it is flushed.
Flushable(m) == m # NULL => m.frames # << >>

\* flush_audio() and flush_video().
LEMMA Flushed ==
    ASSUME NEW h, HlsType(h), NEW av \in {"audio", "video"}, NEW f
    PROVE  LET r == flush(h, av, f)
           IN  /\ r.ok \in BOOLEAN /\ SameWindow(h, r.hls)
               /\ \A bv \in {"audio", "video"} \ {av} : r.hls[bv] = h[bv]
               /\ h.current # NULL /\ h.writing /\ f = {} /\ Flushable(h[av]) =>
                     /\ r.ok /\ r.hls[av] = NULL
                     /\ r.hls.current = IF h[av] = NULL THEN h.current
                                        ELSE append(h.current, h[av].dts)
<1> DEFINE r == flush(h, av, f)
<1>1. CASE h.current = NULL \/ Unused(h[av])
  <2>1. r.hls = h /\ r.ok = TRUE
    BY <1>1 DEF flush, Done
  <2> QED
    BY <1>1, <2>1 DEF SameWindow, Unused, Flushable
<1>2. CASE ~(h.current = NULL \/ Unused(h[av]))
  <2> DEFINE timed == update_duration(h, h[av].dts)
             e == encode(timed, h[av], f)
             out == [e.hls EXCEPT ![av] = NULL]
  <2>1. h[av] \in TsMessage
    BY <1>2 DEF HlsType, Unused
  <2>2. r = IF e.ok THEN Done(out) ELSE e
    BY <1>2 DEF flush, Then
  <2>3. /\ SameWindow(h, timed) /\ timed.current = append(h.current, h[av].dts)
        /\ timed.audio = h.audio /\ timed.video = h.video
    BY <1>2, <2>1, DurationUpdated, MessageFields
  <2> HIDE DEF timed
  <2>4. /\ e.ok \in BOOLEAN /\ SameWindow(timed, e.hls)
        /\ e.hls.current = timed.current
        /\ e.hls.audio = timed.audio /\ e.hls.video = timed.video
        /\ timed.writing /\ f = {} => e.ok
    BY <2>3, Encoded DEF SameWindow
  <2> HIDE DEF e
  <2>5. HlsType(e.hls) /\ timed.writing = h.writing
    BY <2>3, <2>4 DEF SameWindow
  <2>6. /\ SameWindow(e.hls, out) /\ out.current = e.hls.current /\ out[av] = NULL
        /\ \A bv \in {"audio", "video"} \ {av} : out[bv] = e.hls[bv]
    BY <2>5, CacheChanged
  <2> HIDE DEF out
  <2>7. SameWindow(h, e.hls) /\ SameWindow(h, out)
    BY <2>3, <2>4, <2>6, SameWindowTrans
  <2>8. CASE e.ok
    <3>1. r.hls = out /\ r.ok = TRUE
      BY <2>2, <2>8 DEF Done
    <3> QED
      BY <1>2, <2>3, <2>4, <2>6, <2>7, <3>1 DEF Unused
  <2>9. CASE ~ e.ok
    <3>1. r = e
      BY <2>2, <2>9
    <3> QED
      BY <2>3, <2>4, <2>5, <2>7, <2>9, <3>1
  <2> QED
    BY <2>4, <2>8, <2>9
<1> QED
  BY <1>1, <1>2

-----------------------------------------------------------------------------
(* The window of segments.                                                  *)

\* t is what is left of segs, which is not all of it, without its first n elements.
Suffixed(segs, n, t) ==
    /\ n \in 0 .. Len(segs) /\ (segs # << >> => n < Len(segs))
    /\ t = SubSeq(segs, n + 1, Len(segs))

\* The elements of what is left.
LEMMA Suffix ==
    ASSUME NEW segs \in Seq(Segment), NEW n, NEW t, Suffixed(segs, n, t)
    PROVE  /\ n \in 0 .. Len(segs)
           /\ t \in Seq(Segment) /\ Len(t) = Len(segs) - n
           /\ \A i \in DOMAIN t : i + n \in DOMAIN segs /\ t[i] = segs[i + n]
           /\ segs # << >> => t # << >> /\ t[Len(t)] = segs[Len(segs)]
<1>1. t = SubSeq(segs, n + 1, Len(segs)) /\ n \in 0 .. Len(segs)
  BY DEF Suffixed
<1>9. n \in 0 .. Len(segs) /\ (segs # << >> => n < Len(segs))
  BY Zenon DEF Suffixed
<1>2. Len(segs) \in Nat /\ DOMAIN segs = 1 .. Len(segs)
  OBVIOUS
<1>3. t \in Seq(Segment)
  BY <1>1
<1>4. Len(t) = Len(segs) - n
  BY <1>1
<1>5. \A i \in 1 .. Len(segs) - n : t[i] = segs[i + n]
  BY <1>1
<1> HIDE DEF Suffixed
<1>6. DOMAIN t = 1 .. Len(t)
  BY <1>3
<1>7. \A i \in 1 .. Len(t) : i + n \in 1 .. Len(segs)
  BY ONLY <1>2, <1>4, <1>9
<1>8. ASSUME segs # << >> PROVE t # << >> /\ t[Len(t)] = segs[Len(segs)]
  <2>1. Len(t) \in 1 .. Len(segs) - n /\ Len(t) + n = Len(segs)
    BY ONLY <1>2, <1>4, <1>8, <1>9
  <2>2. t # << >>
    BY <2>1, <1>6
  <2>3. t[Len(t)] = segs[Len(t) + n]
    BY ONLY <1>5, <2>1
  <2> QED
    BY <2>1, <2>2, <2>3, Zenon
<1> QED
  BY ONLY <1>2, <1>3, <1>4, <1>5, <1>6, <1>7, <1>8, <1>9

\* Dropping from the front keeps the order and the chain, and the names dropped are
\* not those of what is left.
LEMMA SuffixAscending ==
    ASSUME NEW segs \in Seq(Segment), NEW n, NEW t, Suffixed(segs, n, t), NEW next,
           Ascending(segs, next)
    PROVE  Ascending(t, next)
<1>1. /\ n \in 0 .. Len(segs)
      /\ t \in Seq(Segment) /\ Len(t) = Len(segs) - n
      /\ \A i \in DOMAIN t : i + n \in DOMAIN segs /\ t[i] = segs[i + n]
      /\ segs # << >> => t # << >> /\ t[Len(t)] = segs[Len(segs)]
  BY Suffix, Zenon
<1>2. DOMAIN t = 1 .. Len(t) /\ Len(t) \in Nat
  BY <1>1
<1>3. \A i, j \in DOMAIN t : i < j => i + n < j + n
  BY <1>1, <1>2
<1> QED
  BY <1>1, <1>3 DEF Ascending

\* A neighbour in what is left was one before.
LEMMA SuffixNext ==
    ASSUME NEW segs \in Seq(Segment), NEW n, NEW t, Suffixed(segs, n, t),
           NEW i \in DOMAIN t, i + 1 \in DOMAIN t
    PROVE  \E j \in DOMAIN segs :
              j + 1 \in DOMAIN segs /\ t[i] = segs[j] /\ t[i + 1] = segs[j + 1]
<1>1. /\ n \in 0 .. Len(segs)
      /\ t \in Seq(Segment) /\ Len(t) = Len(segs) - n
      /\ \A x \in DOMAIN t : x + n \in DOMAIN segs /\ t[x] = segs[x + n]
      /\ segs # << >> => t # << >> /\ t[Len(t)] = segs[Len(segs)]
  BY Suffix, Zenon
<1>2. DOMAIN t = 1 .. Len(t) /\ Len(t) \in Nat
  BY <1>1
<1>3. (i + 1) + n = (i + n) + 1
  BY ONLY <1>1, <1>2, i \in DOMAIN t
<1>4. i + n \in DOMAIN segs /\ (i + 1) + n \in DOMAIN segs
  BY ONLY <1>1, i \in DOMAIN t, i + 1 \in DOMAIN t
<1>5. t[i] = segs[i + n] /\ t[i + 1] = segs[(i + n) + 1]
  BY <1>1, <1>3
<1> QED
  BY <1>3, <1>4, <1>5, Zenon

LEMMA SuffixChained ==
    ASSUME NEW segs \in Seq(Segment), NEW n, NEW t, Suffixed(segs, n, t), Chained(segs)
    PROVE  Chained(t)
BY SuffixNext DEF Chained

LEMMA SuffixGaps ==
    ASSUME NEW segs \in Seq(Segment), NEW n, NEW t, Suffixed(segs, n, t), NEW next, NEW lost,
           Gaps(segs, next, lost)
    PROVE  Gaps(t, next, lost)
<1>1. \A i \in DOMAIN t :
         i + 1 \in DOMAIN t => t[i].no + 1 .. t[i + 1].no - 1 \subseteq lost
  BY SuffixNext DEF Gaps
<1>2. t # << >> => t[Len(t)].no + 1 .. next - 1 \subseteq lost
  <2>1. /\ segs # << >> => t # << >> /\ t[Len(t)] = segs[Len(segs)]
        /\ t # << >> => segs # << >>
    <3>1. t \in Seq(Segment) /\ Len(t) = Len(segs) - n /\ n \in 0 .. Len(segs)
          /\ (segs # << >> => t # << >> /\ t[Len(t)] = segs[Len(segs)])
      BY Suffix, Zenon
    <3> QED
      BY <3>1
  <2> QED
    BY <2>1 DEF Gaps
<1> QED
  BY <1>1, <1>2 DEF Gaps

\* The next number is lost, and one more follows.
LEMMA GapsLost ==
    ASSUME NEW segs \in Seq(Segment), NEW next \in Nat, NEW lost, Gaps(segs, next, lost)
    PROVE  Gaps(segs, next + 1, lost \cup {next})
<1>1. \A i \in DOMAIN segs :
         i + 1 \in DOMAIN segs => segs[i].no + 1 .. segs[i + 1].no - 1 \subseteq lost \cup {next}
  BY DEF Gaps
<1>2. ASSUME segs # << >>
      PROVE  segs[Len(segs)].no + 1 .. (next + 1) - 1 \subseteq lost \cup {next}
  <2>1. segs[Len(segs)].no \in Nat
    BY <1>2, SegmentFields
  <2>2. segs[Len(segs)].no + 1 .. next - 1 \subseteq lost
    BY <1>2 DEF Gaps
  <2>3. \A a \in Nat : a + 1 .. (next + 1) - 1 \subseteq (a + 1 .. next - 1) \cup {next}
    OBVIOUS
  <2> QED
    BY <2>1, <2>2, <2>3
<1> QED
  BY <1>1, <1>2 DEF Gaps

LEMMA SuffixNumbers ==
    ASSUME NEW segs \in Seq(Segment), NEW n, NEW t, Suffixed(segs, n, t), NEW next,
           Ascending(segs, next)
    PROVE  \A x \in Numbers(t) : x \in Numbers(segs) /\ \A i \in 1 .. n : x # segs[i].no
<1>1. /\ n \in 0 .. Len(segs)
      /\ t \in Seq(Segment) /\ Len(t) = Len(segs) - n
      /\ \A i \in DOMAIN t : i + n \in DOMAIN segs /\ t[i] = segs[i + n]
      /\ segs # << >> => t # << >> /\ t[Len(t)] = segs[Len(segs)]
  BY Suffix, Zenon
<1>2. DOMAIN t = 1 .. Len(t) /\ Len(t) \in Nat
  BY <1>1
<1>3. ASSUME NEW i \in DOMAIN t
      PROVE  t[i].no \in Numbers(segs) /\ \A j \in 1 .. n : t[i].no # segs[j].no
  <2>1. t[i] = segs[i + n] /\ i + n \in DOMAIN segs
    BY <1>1
  <2>2. \A j \in 1 .. n : j < i + n /\ j \in DOMAIN segs
    BY <1>1, <1>2
  <2>3. \A j \in DOMAIN segs : segs[j].no \in Nat
    BY SegmentFields
  <2>4. \A j \in 1 .. n : segs[j].no < segs[i + n].no
    BY <2>1, <2>2 DEF Ascending
  <2>5. segs[i + n].no \in Numbers(segs)
    BY <2>1 DEF Numbers
  <2> QED
    BY <2>1, <2>2, <2>3, <2>4, <2>5
<1> QED
  BY <1>3 DEF Numbers

LEMMA PrefixNumbers ==
    ASSUME NEW segs \in Seq(Segment), NEW n \in 0 .. Len(segs)
    PROVE  Numbers(SubSeq(segs, 1, n)) = {segs[i].no : i \in 1 .. n}
<1> PICK l \in Nat : l = Len(segs) /\ DOMAIN segs = 1 .. l /\ n \in 0 .. l
  OBVIOUS
<1>1. \A i \in 1 .. n : segs[i] \in Segment
  OBVIOUS
<1>2. /\ SubSeq(segs, 1, n) \in Seq(Segment)
      /\ Len(SubSeq(segs, 1, n)) = IF 1 <= n THEN n - 1 + 1 ELSE 0
      /\ \A i \in 1 .. n - 1 + 1 : SubSeq(segs, 1, n)[i] = segs[1 + i - 1]
  <2>1. n \in Int /\ 1 \in Int /\ \A i \in 1 .. n : segs[i] \in Segment
    BY <1>1
  <2> QED
    BY <2>1, SubSeqProperties
<1>3. PICK gone : gone = SubSeq(segs, 1, n)
  OBVIOUS
<1>4. DOMAIN gone = 1 .. n /\ \A i \in 1 .. n : gone[i] = segs[i]
  BY <1>2, <1>3
<1>5. Numbers(gone) = {segs[i].no : i \in 1 .. n}
  BY <1>4 DEF Numbers
<1> QED
  BY <1>3, <1>5

\* Appending the current segment keeps the order and the chain.
LEMMA AppendOrdered ==
    ASSUME NEW segs \in Seq(Segment), NEW s \in Segment
    PROVE  /\ Append(segs, s) \in Seq(Segment) /\ Append(segs, s) # << >>
           /\ Append(segs, s)[Len(Append(segs, s))] = s
           /\ Numbers(Append(segs, s)) = Numbers(segs) \cup {s.no}
           /\ Ascending(segs, s.no) => Ascending(Append(segs, s), s.no + 1)
           /\ \A lost : Gaps(segs, s.no, lost) => Gaps(Append(segs, s), s.no + 1, lost)
           /\ Chained(segs) /\ Follows(s, segs) => Chained(Append(segs, s))
<1> PICK l \in Nat : l = Len(segs) /\ DOMAIN segs = 1 .. l
  OBVIOUS
<1> DEFINE t == Append(segs, s)
<1>1. /\ t \in Seq(Segment) /\ Len(t) = l + 1 /\ DOMAIN t = 1 .. l + 1
      /\ \A i \in 1 .. l : t[i] = segs[i]
      /\ t[l + 1] = s
  OBVIOUS
<1> HIDE DEF t
<1>2. /\ s.no \in Nat
      /\ \A i \in 1 .. l : segs[i] \in Segment /\ segs[i].no \in Nat
  BY SegmentFields
<1>3. t # << >> /\ t[Len(t)] = s
  BY <1>1
<1>4. Numbers(t) = Numbers(segs) \cup {s.no}
  <2>1. 1 .. l + 1 = 1 .. l \cup {l + 1}
    OBVIOUS
  <2> QED
    BY <1>1, <2>1 DEF Numbers
<1>5. Ascending(segs, s.no) => Ascending(t, s.no + 1)
  <2> SUFFICES ASSUME Ascending(segs, s.no) PROVE Ascending(t, s.no + 1)
    OBVIOUS
  <2>1. \A i \in 1 .. l : segs[i].no < s.no
    BY DEF Ascending
  <2>2. \A i, j \in 1 .. l : i < j => segs[i].no < segs[j].no
    BY DEF Ascending
  <2>3. \A i, j \in 1 .. l + 1 : i < j => i \in 1 .. l
    OBVIOUS
  <2>4. \A i, j \in 1 .. l + 1 : i < j => t[i].no < t[j].no
    BY <1>1, <2>1, <2>2, <2>3
  <2>5. \A i \in 1 .. l + 1 : t[i].no < s.no + 1
    BY <1>1, <1>2, <2>1
  <2> QED
    BY <1>1, <2>4, <2>5 DEF Ascending
<1>8. ASSUME NEW i \in DOMAIN t, i + 1 \in DOMAIN t
      PROVE  \/ i \in DOMAIN segs /\ i + 1 \in DOMAIN segs /\ t[i] = segs[i] /\ t[i + 1] = segs[i + 1]
             \/ segs # << >> /\ t[i] = segs[Len(segs)] /\ t[i + 1] = s
  <2>1. CASE i + 1 \in 1 .. l
    BY <1>1, <1>8, <2>1
  <2>2. CASE i = l
    <3>1. t[i] = segs[l] /\ t[i + 1] = s /\ l \in 1 .. l
      BY <1>1, <1>8, <2>2
    <3> QED
      BY <3>1
  <2> QED
    BY <1>1, <1>8, <2>1, <2>2
<1>6. Chained(segs) /\ Follows(s, segs) => Chained(t)
  BY <1>8 DEF Chained, Follows
<1>7. ASSUME NEW lost, Gaps(segs, s.no, lost) PROVE Gaps(t, s.no + 1, lost)
  <2>1. ASSUME NEW i \in DOMAIN t, i + 1 \in DOMAIN t
        PROVE  t[i].no + 1 .. t[i + 1].no - 1 \subseteq lost
    BY <1>7, <1>8, <2>1 DEF Gaps
  <2>2. t[Len(t)].no + 1 .. (s.no + 1) - 1 = {}
    BY <1>2, <1>3
  <2> QED
    BY <2>1, <2>2 DEF Gaps
<1> QED
  BY <1>1, <1>3, <1>4, <1>5, <1>6, <1>7 DEF t

\* shrink() keeps a suffix, and never empties the window: the suffix that is longer
\* than the window and the shortest of those exists.
LEMMA Shrunk ==
    ASSUME NEW h, HlsType(h)
    PROVE  \E n \in 0 .. Len(h.segments) :
              /\ h.segments # << >> => n < Len(h.segments)
              /\ shrink(h) = [h EXCEPT !.segments = SubSeq(@, n + 1, Len(@)),
                                       !.expired = @ \o SubSeq(h.segments, 1, n)]
<1> DEFINE segs == h.segments
           over == {i \in DOMAIN segs : Durations(SubSeq(segs, i, Len(segs))) > Window}
           last == CHOOSE i \in over : \A j \in over : j <= i
           n == IF over = {} THEN 0 ELSE last - 1
<1>1. segs \in Seq(Segment) /\ DOMAIN segs = 1 .. Len(segs) /\ Len(segs) \in Nat
  BY DEF HlsType
<1>2. over \subseteq 1 .. Len(segs)
  BY <1>1
<1>3. shrink(h) = [h EXCEPT !.segments = SubSeq(@, n + 1, Len(@)),
                            !.expired = @ \o SubSeq(h.segments, 1, n)]
  BY DEF shrink
<1> HIDE DEF over
<1> DEFINE l == Len(segs)
<1>6. l \in Nat /\ over \subseteq 1 .. l /\ (segs # << >> => 0 < l)
  BY <1>1, <1>2
<1> HIDE DEF l
<1>4. CASE over = {}
  <2>1. 0 \in 0 .. l /\ n = 0
    BY <1>4, <1>6
  <2> QED
    BY <1>3, <1>6, <2>1 DEF l
<1>5. CASE over # {}
  <2> DEFINE T == {l - i : i \in over}
  <2>1. T \subseteq Nat /\ T # {}
    <3>1. \A i \in over : l - i \in Nat
      BY <1>6
    <3>2. T # {}
      BY <1>5
    <3> QED
      BY <3>1, <3>2
  <2>2. PICK x \in T : \A y \in T : x <= y
    BY <2>1, NatMin
  <2>3. PICK i \in over : x = l - i
    BY <2>2
  <2>4. \A j \in over : j <= i
    <3>1. \A j \in over : x <= l - j
      BY <2>2
    <3>2. i \in 1 .. l
      BY <1>6
    <3> QED
      BY <1>6, <2>3, <3>1, <3>2
  <2>5. last \in over
    BY <2>3, <2>4
  <2>6. n = last - 1 /\ last \in 1 .. l
    BY <1>5, <1>6, <2>5
  <2> HIDE DEF last, n
  <2>7. n \in 0 .. l /\ n < l
    BY <1>6, <2>6
  <2> QED
    BY <1>3, <2>7 DEF l
<1> QED
  BY <1>4, <1>5

\* The end of do_segment_close(): the window slides, then the playlist follows.
LEMMA RefreshedFacts ==
    ASSUME NEW h, HlsType(h), NEW f
    PROVE  LET r == Refreshed(h, f)
           IN  /\ r.ok \in BOOLEAN
               /\ DOMAIN r.hls = HlsFields
               /\ r.hls.enabled = h.enabled /\ r.hls.current = h.current
               /\ r.hls.sequence_no = h.sequence_no /\ r.hls.latest = h.latest
               /\ r.hls.audio = h.audio /\ r.hls.video = h.video
               /\ r.hls.writing = h.writing /\ r.hls.expired = << >>
               /\ \E n :
                     /\ Suffixed(h.segments, n, r.hls.segments)
                     /\ DOMAIN h.files \ Numbers(SubSeq(h.segments, 1, n)) \subseteq DOMAIN r.hls.files
               /\ r.hls.lost = h.lost /\ r.hls.stale \in BOOLEAN
               /\ ~ r.hls.stale =>
                     IF h.segments = << >> THEN r.hls.m3u8 = h.m3u8 /\ ~ h.stale
                     ELSE r.hls.m3u8 = r.hls.segments
               /\ f = {} => r.ok /\ (~ h.stale => ~ r.hls.stale)
<1> DEFINE s == shrink(h)
           m == refresh_m3u8(s, f)
           c == clear_expired(m.hls, f)
           r == Refreshed(h, f)
<1>1. PICK n \in 0 .. Len(h.segments) :
         /\ h.segments # << >> => n < Len(h.segments)
         /\ s = [h EXCEPT !.segments = SubSeq(@, n + 1, Len(@)),
                          !.expired = @ \o SubSeq(h.segments, 1, n)]
  BY Shrunk
<1> DEFINE kept == SubSeq(h.segments, n + 1, Len(h.segments))
           gone == SubSeq(h.segments, 1, n)
<1>2. h.segments \in Seq(Segment) /\ h.expired = << >>
  BY DEF HlsType
<1>3. /\ kept \in Seq(Segment) /\ (kept = << >> <=> h.segments = << >>)
      /\ << >> \o gone = gone
  <2>1. kept \in Seq(Segment) /\ Len(kept) = Len(h.segments) - n
    <3>1. PICK t : t = SubSeq(h.segments, n + 1, Len(h.segments))
      OBVIOUS
    <3>2. n \in 0 .. Len(h.segments) /\ (h.segments # << >> => n < Len(h.segments))
      BY <1>1, Zenon
    <3>3. Suffixed(h.segments, n, t)
      BY ONLY <3>1, <3>2, Zenon DEF Suffixed
    <3>4. h.segments \in Seq(Segment)
      BY <1>2
    <3>7. PICK all : all = h.segments
      OBVIOUS
    <3>8. all \in Seq(Segment) /\ Suffixed(all, n, t)
      BY ONLY <3>3, <3>4, <3>7, Zenon
    <3>9. t \in Seq(Segment) /\ Len(t) = Len(all) - n
      BY ONLY <3>8, Suffix, Zenon
    <3>5. t \in Seq(Segment) /\ Len(t) = Len(h.segments) - n
      BY ONLY <3>7, <3>9, Zenon
    <3>6. kept = t
      BY ONLY <3>1, Zenon DEF kept
    <3> HIDE DEF kept
    <3> QED
      BY ONLY <3>5, <3>6, Zenon
  <2>2. gone \in Seq(Segment)
    <3>1. 1 \in 1 .. Len(h.segments) + 1 /\ n \in 1 - 1 .. Len(h.segments)
      BY <1>1, <1>2
    <3> QED
      BY <1>2, <3>1, SubSeqProperties
  <2>3. << >> \o gone = gone
    BY <2>2
  <2>4. h.segments = << >> <=> Len(h.segments) = 0
    BY <1>2
  <2>6. Len(kept) = 0 <=> Len(h.segments) = 0
    <3> HIDE DEF kept, gone
    <3> QED
      BY <1>1, <1>2, <2>1, <2>4
  <2>5. kept = << >> <=> Len(kept) = 0
    <3> HIDE DEF kept
    <3> QED
      BY <2>1
  <2> QED
    BY <2>1, <2>3, <2>4, <2>5, <2>6, Zenon
<1>4. s = [h EXCEPT !.segments = kept, !.expired = gone]
  BY <1>1, <1>2, <1>3
<1>7. r = [m EXCEPT !.hls = c]
  BY DEF Refreshed
<1> HIDE DEF kept, gone, s
<1>5. /\ DOMAIN s = HlsFields /\ s.segments = kept /\ s.expired = gone
      /\ s.enabled = h.enabled /\ s.current = h.current
      /\ s.sequence_no = h.sequence_no /\ s.latest = h.latest
      /\ s.audio = h.audio /\ s.video = h.video /\ s.writing = h.writing
      /\ s.files = h.files /\ s.m3u8 = h.m3u8 /\ s.lost = h.lost /\ s.stale = h.stale
  BY <1>4 DEF HlsType, HlsFields
<1>6. /\ m.ok \in BOOLEAN
      /\ DOMAIN m.hls = HlsFields /\ m.hls.segments = kept /\ m.hls.expired = gone
      /\ m.hls.enabled = h.enabled /\ m.hls.current = h.current
      /\ m.hls.sequence_no = h.sequence_no /\ m.hls.latest = h.latest
      /\ m.hls.audio = h.audio /\ m.hls.video = h.video /\ m.hls.writing = h.writing
      /\ m.hls.files = h.files /\ m.hls.lost = h.lost /\ m.hls.stale \in BOOLEAN
      /\ ~ m.hls.stale => IF kept = << >> THEN m.hls.m3u8 = h.m3u8 /\ ~ h.stale
                          ELSE m.hls.m3u8 = kept
      /\ f = {} => m.ok /\ (~ h.stale => ~ m.hls.stale)
      /\ m = [hls |-> m.hls, ok |-> m.ok]
  <2>4. h.stale \in BOOLEAN
    BY DEF HlsType
  <2>1. CASE kept = << >>
    BY <1>5, <2>1, <2>4 DEF refresh_m3u8, Done
  <2>2. CASE kept # << >> /\ "m3u8" \in f
    <3>1. m = Failed([s EXCEPT !.stale = TRUE])
      BY <1>5, <2>2 DEF refresh_m3u8
    <3> DEFINE t == [s EXCEPT !.stale = TRUE]
    <3>2. /\ DOMAIN t = HlsFields /\ t.segments = kept /\ t.expired = gone
          /\ t.enabled = h.enabled /\ t.current = h.current
          /\ t.sequence_no = h.sequence_no /\ t.latest = h.latest
          /\ t.audio = h.audio /\ t.video = h.video /\ t.writing = h.writing
          /\ t.files = h.files /\ t.lost = h.lost /\ t.stale = TRUE
      BY <1>5 DEF HlsFields
    <3> HIDE DEF t
    <3>3. m.hls = t /\ m.ok = FALSE /\ m = [hls |-> m.hls, ok |-> m.ok]
      BY <3>1 DEF Failed, t
    <3> QED
      BY <2>2, <3>2, <3>3
  <2>3. CASE kept # << >> /\ "m3u8" \notin f
    <3>1. m = Done([s EXCEPT !.m3u8 = kept, !.stale = FALSE])
      BY <1>5, <2>3 DEF refresh_m3u8
    <3> DEFINE t == [s EXCEPT !.m3u8 = kept, !.stale = FALSE]
    <3>2. /\ DOMAIN t = HlsFields /\ t.segments = kept /\ t.expired = gone
          /\ t.enabled = h.enabled /\ t.current = h.current
          /\ t.sequence_no = h.sequence_no /\ t.latest = h.latest
          /\ t.audio = h.audio /\ t.video = h.video /\ t.writing = h.writing
          /\ t.files = h.files /\ t.m3u8 = kept /\ t.lost = h.lost /\ t.stale = FALSE
      BY <1>5 DEF HlsFields
    <3> HIDE DEF t
    <3>3. m.hls = t /\ m.ok = TRUE /\ m = [hls |-> m.hls, ok |-> m.ok]
      BY <3>1 DEF Done, t
    <3> QED
      BY <2>3, <3>2, <3>3
  <2> QED
    BY <2>1, <2>2, <2>3
<1> HIDE DEF m
<1>8. r.hls = c /\ r.ok = m.ok
  <2> HIDE DEF c
  <2> QED
    BY <1>6, <1>7
<1>9. /\ DOMAIN c = HlsFields /\ c.segments = kept /\ c.expired = << >>
      /\ c.enabled = h.enabled /\ c.current = h.current
      /\ c.sequence_no = h.sequence_no /\ c.latest = h.latest
      /\ c.audio = h.audio /\ c.video = h.video /\ c.writing = h.writing
      /\ c.m3u8 = m.hls.m3u8 /\ c.lost = h.lost /\ c.stale = m.hls.stale
      /\ DOMAIN h.files \ Numbers(gone) \subseteq DOMAIN c.files
  <2> DEFINE rest == IF "unlink" \in f THEN m.hls.files
                     ELSE Restrict(m.hls.files, DOMAIN m.hls.files \ Numbers(m.hls.expired))
  <2>1. c = [m.hls EXCEPT !.expired = << >>, !.files = rest]
    BY DEF clear_expired
  <2>2. DOMAIN h.files \ Numbers(gone) \subseteq DOMAIN rest
    BY <1>6 DEF Restrict
  <2> HIDE DEF rest, c
  <2> QED
    BY <1>6, <2>1, <2>2 DEF HlsFields
<1> HIDE DEF c, r
<1>10. Suffixed(h.segments, n, r.hls.segments)
  BY <1>1, <1>8, <1>9, Zenon DEF Suffixed, kept
<1>11. DOMAIN h.files \ Numbers(SubSeq(h.segments, 1, n)) \subseteq DOMAIN r.hls.files
  BY <1>8, <1>9, Zenon DEF gone
<1>12. /\ r.hls.lost = h.lost /\ r.hls.stale \in BOOLEAN
       /\ ~ r.hls.stale => IF h.segments = << >> THEN r.hls.m3u8 = h.m3u8 /\ ~ h.stale
                           ELSE r.hls.m3u8 = r.hls.segments
       /\ f = {} => r.ok /\ (~ h.stale => ~ r.hls.stale)
  BY <1>3, <1>6, <1>8, <1>9
<1> QED
  BY <1>6, <1>8, <1>9, <1>10, <1>11, <1>12 DEF r

-----------------------------------------------------------------------------
(* A segment is opened and closed.                                          *)

\* segment_open(): there is a current segment afterwards, whatever failed.
LEMMA SegmentOpened ==
    ASSUME NEW h, HlsType(h), Numbering(h), Stored(h),
           h.writing => h.current # NULL /\ h.current.no \in DOMAIN h.tmp,
           NEW by \in {"publish", "audio", "video"}, NEW follows \in BOOLEAN, NEW f
    PROVE  LET r == segment_open(h, by, follows, f)
           IN  /\ r.ok \in BOOLEAN /\ HlsInv(r.hls) /\ r.hls.current # NULL
               /\ r.hls.enabled = h.enabled /\ r.hls.segments = h.segments
               /\ r.hls.files = h.files /\ r.hls.m3u8 = h.m3u8
               /\ r.hls.audio = h.audio /\ r.hls.video = h.video
               /\ r.hls.stale = h.stale /\ NextNo(r.hls) = NextNo(h)
               /\ h.current # NULL => r.ok /\ r.hls = h
               /\ h.current = NULL => /\ r.hls.current.start = -1
                                      /\ r.hls.current.follows = follows
                                      /\ f = {} => r.ok /\ r.hls.writing
<1> DEFINE r == segment_open(h, by, follows, f)
           seg == [no |-> h.sequence_no, start |-> -1, dur |-> 0, sh |-> FALSE, by |-> by,
                   follows |-> follows, first |-> -1,
                   codec |-> [a |-> DefaultCodec(h.latest.a, "aac"),
                              v |-> DefaultCodec(h.latest.v, "avc")]]
           new == [h EXCEPT !.current = seg, !.sequence_no = @ + 1]
           tmp == With(h.tmp, seg.no, << >>)
           open == [new EXCEPT !.writing = TRUE, !.tmp = tmp,
                               !.context = [a |-> "none", v |-> "none"]]
<1>1. HlsType(h) /\ Numbering(h) /\ Stored(h)
  OBVIOUS
<1>2. CASE h.current # NULL
  <2>1. r.hls = h /\ r.ok = TRUE
    BY <1>2 DEF segment_open, Done
  <2>2. HlsInv(h)
    BY <1>1, <1>2 DEF HlsInv, HlsOpen
  <2> QED
    BY <1>2, <2>1, <2>2
<1>3. CASE h.current = NULL
  <2>1. r = IF h.writing \/ "open" \in f THEN Failed(new) ELSE Done(open)
    BY <1>3 DEF segment_open
  <2>2. /\ seg \in Segment /\ seg # NULL
        /\ seg.no = h.sequence_no /\ seg.start = -1 /\ seg.follows = follows
    <3>1. seg \in Segment
      <4>1. /\ DefaultCodec(h.latest.a, "aac") \in {"none", "aac"}
            /\ DefaultCodec(h.latest.v, "avc") \in {"none", "avc"}
        BY <1>1 DEF HlsType, Codecs, DefaultCodec
      <4> QED
        BY <1>1, <4>1 DEF HlsType, Segment, Codecs
    <3> QED
      BY <3>1, SegmentFields
  <2>3. ~ h.writing /\ h.sequence_no \in Nat
    BY <1>3 DEF HlsType
  <2>4. seg.no \in DOMAIN tmp
    BY DEF With
  <2> HIDE DEF seg, tmp
  <2>5. /\ DOMAIN new = HlsFields /\ new.current = seg /\ new.sequence_no = h.sequence_no + 1
        /\ new.enabled = h.enabled /\ new.segments = h.segments /\ new.expired = h.expired
        /\ new.latest = h.latest /\ new.audio = h.audio /\ new.video = h.video
        /\ new.writing = h.writing /\ new.files = h.files /\ new.m3u8 = h.m3u8
        /\ new.lost = h.lost /\ new.stale = h.stale
    BY <1>1 DEF HlsType, HlsFields
  <2> HIDE DEF new
  <2>6. /\ DOMAIN open = HlsFields /\ open.current = seg /\ open.sequence_no = h.sequence_no + 1
        /\ open.enabled = h.enabled /\ open.segments = h.segments /\ open.expired = h.expired
        /\ open.latest = h.latest /\ open.audio = h.audio /\ open.video = h.video
        /\ open.writing = TRUE /\ open.files = h.files /\ open.m3u8 = h.m3u8
        /\ open.lost = h.lost /\ open.stale = h.stale
        /\ open.tmp = tmp
    BY <2>5 DEF HlsFields
  <2> HIDE DEF open
  <2>7. ASSUME NEW k, DOMAIN k = HlsFields, k.current = seg,
               k.sequence_no = h.sequence_no + 1, k.enabled = h.enabled,
               k.segments = h.segments, k.expired = h.expired, k.latest = h.latest,
               k.audio = h.audio, k.video = h.video, k.files = h.files, k.m3u8 = h.m3u8,
               k.lost = h.lost, k.stale = h.stale,
               k.writing \in BOOLEAN, k.writing => seg.no \in DOMAIN k.tmp
        PROVE  HlsInv(k) /\ NextNo(k) = NextNo(h)
    <3>1. HlsType(k)
      BY <1>1, <2>2, <2>3, <2>7 DEF HlsType
    <3>2. HlsOpen(k)
      BY <2>2, <2>7 DEF HlsOpen
    <3>3. NextNo(k) = NextNo(h)
      BY <1>3, <2>2, <2>7 DEF NextNo
    <3>4. Numbering(k)
      BY <1>1, <2>2, <2>7, <3>3 DEF Numbering
    <3>5. Stored(k)
      BY <1>1, <2>7, <3>3 DEF Stored
    <3> QED
      BY <3>1, <3>2, <3>3, <3>4, <3>5 DEF HlsInv
  <2> HIDE DEF r
  <2>8. CASE "open" \in f
    <3>1. r.hls = new /\ r.ok = FALSE
      BY <2>1, <2>8 DEF Failed
    <3>2. new.writing \in BOOLEAN /\ ~ new.writing
      BY <1>1, <2>3, <2>5 DEF HlsType
    <3>3. HlsInv(new) /\ NextNo(new) = NextNo(h)
      BY ONLY <2>5, <2>7, <3>2, ZenonT(60)
    <3>4. /\ r.ok \in BOOLEAN /\ HlsInv(r.hls) /\ r.hls.current # NULL
          /\ r.hls.enabled = h.enabled /\ r.hls.segments = h.segments
          /\ r.hls.files = h.files /\ r.hls.m3u8 = h.m3u8
          /\ r.hls.audio = h.audio /\ r.hls.video = h.video
          /\ r.hls.stale = h.stale /\ NextNo(r.hls) = NextNo(h)
          /\ r.hls.current.start = -1
          /\ r.hls.current.follows = follows
          /\ f = {} => r.ok /\ r.hls.writing
      BY <2>2, <2>5, <2>8, <3>1, <3>3
    <3> QED
      BY <1>3, <3>4 DEF r
  <2>9. CASE "open" \notin f
    <3>1. r.hls = open /\ r.ok = TRUE
      BY <2>1, <2>3, <2>9 DEF Done
    <3>2. open.writing \in BOOLEAN /\ seg.no \in DOMAIN open.tmp
      BY <2>4, <2>6
    <3>3. HlsInv(open) /\ NextNo(open) = NextNo(h)
      BY ONLY <2>6, <2>7, <3>2, ZenonT(60)
    <3>4. /\ r.ok \in BOOLEAN /\ HlsInv(r.hls) /\ r.hls.current # NULL
          /\ r.hls.enabled = h.enabled /\ r.hls.segments = h.segments
          /\ r.hls.files = h.files /\ r.hls.m3u8 = h.m3u8
          /\ r.hls.audio = h.audio /\ r.hls.video = h.video
          /\ r.hls.stale = h.stale /\ NextNo(r.hls) = NextNo(h)
          /\ r.hls.current.start = -1
          /\ r.hls.current.follows = follows
          /\ f = {} => r.ok /\ r.hls.writing
      BY <2>2, <2>6, <3>1, <3>3
    <3> QED
      BY <1>3, <3>4 DEF r
  <2> QED
    BY <2>8, <2>9
<1> QED
  BY <1>2, <1>3

\* What do_segment_close() hands to the window: the segments, a number, files and what
\* was lost.
Closing(h, b, segs, no, files, lost) ==
    /\ DOMAIN b = HlsFields
    /\ b.enabled = h.enabled /\ b.writing = FALSE
    /\ b.current = h.current /\ b.latest = h.latest
    /\ b.audio = h.audio /\ b.video = h.video
    /\ b.m3u8 = h.m3u8 /\ b.stale = h.stale /\ b.expired = << >>
    /\ b.segments = segs /\ b.sequence_no = no /\ DOMAIN b.files = files /\ b.lost = lost

LEMMA ClosingType ==
    ASSUME NEW h, HlsInv(h), NEW b, NEW segs \in Seq(Segment), NEW no \in Nat, NEW files, NEW lost,
           Closing(h, b, segs, no, files, lost)
    PROVE  HlsType(b)
BY DEF Closing, HlsInv, HlsType

\* The state do_segment_close() leaves, for a window segs and a next number no.
Closed(h, r, segs, no, files, lost, f) ==
    /\ r.ok \in BOOLEAN
    /\ DOMAIN r.hls = HlsFields
    /\ r.hls.enabled = h.enabled /\ r.hls.writing = FALSE
    /\ r.hls.latest = h.latest /\ r.hls.sequence_no = no
    /\ r.hls.audio = h.audio /\ r.hls.video = h.video
    /\ r.hls.expired = << >>
    /\ r.hls.segments \in Seq(Segment)
    /\ r.hls.lost = lost /\ r.hls.stale \in BOOLEAN
    /\ Ascending(segs, no) => Ascending(r.hls.segments, no)
    /\ Gaps(segs, no, lost) => Gaps(r.hls.segments, no, lost)
    /\ Chained(segs) => Chained(r.hls.segments)
    /\ segs # << >> => /\ r.hls.segments # << >>
                       /\ r.hls.segments[Len(r.hls.segments)] = segs[Len(segs)]
    /\ (~ h.stale => h.m3u8 = h.segments) /\ (segs = << >> => h.segments = << >>)
          => (~ r.hls.stale => r.hls.m3u8 = r.hls.segments)
    /\ Ascending(segs, no) /\ Numbers(segs) \subseteq files
          => Numbers(r.hls.segments) \subseteq DOMAIN r.hls.files
    /\ f = {} => r.ok /\ (~ h.stale => ~ r.hls.stale)

\* The window slides and the playlist follows.
LEMMA ClosingRefreshed ==
    ASSUME NEW h, HlsInv(h), NEW b, NEW segs \in Seq(Segment), NEW no \in Nat, NEW files, NEW lost,
           Closing(h, b, segs, no, files, lost), NEW f
    PROVE  Closed(h, Refreshed(b, f), segs, no, files, lost, f)
<1> DEFINE r == Refreshed(b, f)
<1>1. HlsType(b)
  BY ClosingType
<1>2. /\ r.ok \in BOOLEAN
      /\ DOMAIN r.hls = HlsFields
      /\ r.hls.enabled = b.enabled /\ r.hls.current = b.current
      /\ r.hls.sequence_no = b.sequence_no /\ r.hls.latest = b.latest
      /\ r.hls.audio = b.audio /\ r.hls.video = b.video
      /\ r.hls.writing = b.writing /\ r.hls.expired = << >>
      /\ r.hls.lost = b.lost /\ r.hls.stale \in BOOLEAN
      /\ ~ r.hls.stale => IF b.segments = << >> THEN r.hls.m3u8 = b.m3u8 /\ ~ b.stale
                          ELSE r.hls.m3u8 = r.hls.segments
      /\ f = {} => r.ok /\ (~ b.stale => ~ r.hls.stale)
  BY <1>1, RefreshedFacts
<1>3. PICK n :
         /\ Suffixed(segs, n, r.hls.segments)
         /\ files \ Numbers(SubSeq(segs, 1, n)) \subseteq DOMAIN r.hls.files
  <2>1. b.segments = segs /\ DOMAIN b.files = files
    BY DEF Closing
  <2> QED
    BY <1>1, <2>1, RefreshedFacts
<1> HIDE DEF r
<1>4. PICK t : t = r.hls.segments
  OBVIOUS
<1>9. Suffixed(segs, n, t)
  BY <1>3, <1>4, Zenon
<1>5. /\ t \in Seq(Segment)
      /\ Len(t) = Len(segs) - n
      /\ segs # << >> => t # << >> /\ t[Len(t)] = segs[Len(segs)]
  BY <1>9, Suffix, Zenon
<1>10. n \in 0 .. Len(segs)
  BY <1>9, Suffix, Zenon
<1>6. /\ Ascending(segs, no) => Ascending(t, no)
      /\ Gaps(segs, no, lost) => Gaps(t, no, lost)
      /\ Chained(segs) => Chained(t)
      /\ Ascending(segs, no) /\ Numbers(segs) \subseteq files
            => Numbers(t) \subseteq files \ Numbers(SubSeq(segs, 1, n))
  <2>1. ASSUME Ascending(segs, no) PROVE Ascending(t, no)
    BY <1>9, <2>1, SuffixAscending, Zenon
  <2>2. ASSUME Chained(segs) PROVE Chained(t)
    BY <1>9, <2>2, SuffixChained, Zenon
  <2>4. ASSUME Gaps(segs, no, lost) PROVE Gaps(t, no, lost)
    BY <1>9, <2>4, SuffixGaps, Zenon
  <2>3. ASSUME Ascending(segs, no), Numbers(segs) \subseteq files
        PROVE  Numbers(t) \subseteq files \ Numbers(SubSeq(segs, 1, n))
    <3>1. \A x \in Numbers(t) : x \in Numbers(segs) /\ \A i \in 1 .. n : x # segs[i].no
      BY <1>9, <2>3, SuffixNumbers, Zenon
    <3>2. Numbers(SubSeq(segs, 1, n)) = {segs[i].no : i \in 1 .. n}
      BY <1>10, PrefixNumbers
    <3> QED
      BY <2>3, <3>1, <3>2
  <2> QED
    BY <2>1, <2>2, <2>3, <2>4
<1>7. segs = << >> => t = << >>
  <2> SUFFICES ASSUME segs = << >> PROVE t = << >>
    OBVIOUS
  <2>1. Len(segs) = 0 /\ n = 0
    BY <1>10
  <2>2. Len(t) = 0
    BY <1>5, <2>1
  <2> QED
    BY <1>5, <2>2
<1>8. (~ h.stale => h.m3u8 = h.segments) /\ (segs = << >> => h.segments = << >>)
        => (~ r.hls.stale => r.hls.m3u8 = t)
  BY <1>2, <1>4, <1>7 DEF Closing
<1>11. Ascending(segs, no) /\ Numbers(segs) \subseteq files => Numbers(t) \subseteq DOMAIN r.hls.files
  BY <1>3, <1>6
<1> QED
  BY <1>2, <1>4, <1>5, <1>6, <1>8, <1>11 DEF Closing, Closed, r

\* A close that fails before the window slides.
LEMMA ClosingFailed ==
    ASSUME NEW h, HlsInv(h), NEW b, NEW no \in Nat, NEW files, NEW lost,
           Closing(h, b, h.segments, no, files, lost), NEW f, f # {}
    PROVE  Closed(h, Failed(b), h.segments, no, files, lost, f)
<1>1. h.segments \in Seq(Segment) /\ h.stale \in BOOLEAN
  BY DEF HlsInv, HlsType
<1> QED
  BY <1>1 DEF Closing, Closed, Failed

\* do_segment_close() of a state h leaves a window in order, with the files and the
\* playlist in step with it.
Slid(h, r, f) ==
    /\ r.ok \in BOOLEAN
    /\ DOMAIN r.hls = HlsFields
    /\ r.hls.enabled = h.enabled /\ r.hls.writing = FALSE
    /\ r.hls.latest = h.latest /\ r.hls.sequence_no \in Nat
    /\ r.hls.audio = h.audio /\ r.hls.video = h.video
    /\ r.hls.expired = << >>
    /\ r.hls.segments \in Seq(Segment) /\ r.hls.stale \in BOOLEAN
    /\ Ascending(r.hls.segments, r.hls.sequence_no)
    /\ ~ r.hls.stale => r.hls.m3u8 = r.hls.segments
    /\ Numbers(r.hls.segments) \subseteq DOMAIN r.hls.files
    /\ Gaps(r.hls.segments, r.hls.sequence_no, r.hls.lost)
    /\ Chained(h.segments) /\ Joined(h) => Chained(r.hls.segments)
    /\ f = {} /\ h.writing =>
          /\ r.ok
          /\ ~ h.stale => ~ r.hls.stale
          /\ Kept(h.current) => /\ r.hls.segments # << >>
                                /\ r.hls.segments[Len(r.hls.segments)] = h.current

\* What the window of an open segment is like.
LEMMA WindowFacts ==
    ASSUME NEW h, HlsInv(h), h.current # NULL
    PROVE  /\ h.segments \in Seq(Segment) /\ h.current \in Segment /\ h.current.no \in Nat
           /\ h.sequence_no = h.current.no + 1 /\ h.sequence_no \in Nat
           /\ h.sequence_no - 1 = h.current.no
           /\ Ascending(h.segments, h.current.no) /\ Ascending(h.segments, h.sequence_no)
           /\ ~ h.stale => h.m3u8 = h.segments
           /\ Numbers(h.segments) \subseteq DOMAIN h.files
           /\ Gaps(h.segments, h.current.no, h.lost)
           /\ Gaps(h.segments, h.sequence_no, h.lost \cup {h.current.no})
           /\ Joined(h) => Follows(h.current, h.segments)
<1>1. HlsType(h) /\ Numbering(h) /\ Stored(h)
  BY DEF HlsInv
<1>2. /\ h.segments \in Seq(Segment) /\ h.current \in Segment /\ h.sequence_no \in Nat
  BY <1>1 DEF HlsType
<1>3. h.current.no \in Nat
  BY <1>2, SegmentFields
<1>4. NextNo(h) = h.current.no
  BY DEF NextNo
<1>5. h.sequence_no = h.current.no + 1 /\ Ascending(h.segments, h.current.no)
  BY <1>1, <1>4 DEF Numbering
<1>6. Ascending(h.segments, h.sequence_no)
  <2>1. \A i \in DOMAIN h.segments : h.segments[i].no \in Nat
    BY <1>2, SegmentFields
  <2> QED
    BY <1>3, <1>5, <2>1 DEF Ascending
<1>7. /\ ~ h.stale => h.m3u8 = h.segments
      /\ Numbers(h.segments) \subseteq DOMAIN h.files
      /\ Gaps(h.segments, h.current.no, h.lost)
  BY <1>1, <1>4 DEF Stored
<1>8. Gaps(h.segments, h.sequence_no, h.lost \cup {h.current.no})
  BY <1>2, <1>3, <1>5, <1>7, GapsLost
<1> QED
  BY <1>2, <1>3, <1>4, <1>5, <1>6, <1>7, <1>8 DEF Joined

\* The segment was dropped, or its file could not be renamed.
LEMMA SlidBack ==
    ASSUME NEW h, HlsInv(h), h.current # NULL, NEW r, NEW f, NEW g, NEW no, NEW lost,
           \/ no = h.current.no /\ lost = h.lost
           \/ no = h.sequence_no /\ lost = h.lost \cup {h.current.no},
           Closed(h, r, h.segments, no, DOMAIN h.files, lost, g),
           f = {} /\ h.writing => g = {} /\ ~ Kept(h.current)
    PROVE  Slid(h, r, f)
<1>1. no \in Nat /\ Ascending(h.segments, no) /\ Gaps(h.segments, no, lost)
  BY WindowFacts
<1>2. (~ h.stale => h.m3u8 = h.segments) /\ Numbers(h.segments) \subseteq DOMAIN h.files
  BY WindowFacts
<1> QED
  BY <1>1, <1>2 DEF Closed, Slid

\* The segment is the newest of the window.
LEMMA SlidOn ==
    ASSUME NEW h, HlsInv(h), h.current # NULL, NEW r, NEW f,
           Closed(h, r, Append(h.segments, h.current), h.sequence_no,
                  DOMAIN h.files \cup {h.current.no}, h.lost, f)
    PROVE  Slid(h, r, f)
<1> DEFINE segs == Append(h.segments, h.current)
           files == DOMAIN h.files \cup {h.current.no}
<1>1. /\ segs \in Seq(Segment) /\ segs # << >>
      /\ segs[Len(segs)] = h.current
      /\ Numbers(segs) = Numbers(h.segments) \cup {h.current.no}
      /\ Ascending(segs, h.sequence_no)
      /\ Gaps(segs, h.sequence_no, h.lost)
      /\ Chained(h.segments) /\ Follows(h.current, h.segments) => Chained(segs)
  <2>1. /\ h.segments \in Seq(Segment) /\ h.current \in Segment
        /\ h.sequence_no = h.current.no + 1
        /\ Ascending(h.segments, h.current.no) /\ Gaps(h.segments, h.current.no, h.lost)
    BY WindowFacts
  <2>2. /\ segs \in Seq(Segment) /\ segs # << >>
        /\ segs[Len(segs)] = h.current
        /\ Numbers(segs) = Numbers(h.segments) \cup {h.current.no}
        /\ Ascending(h.segments, h.current.no) => Ascending(segs, h.current.no + 1)
        /\ \A lost : Gaps(h.segments, h.current.no, lost) => Gaps(segs, h.current.no + 1, lost)
        /\ Chained(h.segments) /\ Follows(h.current, h.segments) => Chained(segs)
    BY <2>1, AppendOrdered
  <2> QED
    BY <2>1, <2>2
<1>2. Closed(h, r, segs, h.sequence_no, files, h.lost, f)
  OBVIOUS
<1>3. h.sequence_no \in Nat /\ (~ h.stale => h.m3u8 = h.segments)
  BY WindowFacts
<1>4. Numbers(segs) \subseteq files
  BY <1>1, WindowFacts
<1>5. Chained(h.segments) /\ Joined(h) => Chained(segs)
  BY <1>1, WindowFacts
<1> HIDE DEF segs, files
<1> QED
  BY <1>1, <1>2, <1>3, <1>4, <1>5 DEF Closed, Slid

\* A result is a state and a verdict.
LEMMA RefreshedDomain ==
    ASSUME NEW h, NEW f
    PROVE  DOMAIN Refreshed(h, f) = {"hls", "ok"}
BY DEF Refreshed, refresh_m3u8, Done, Failed

LEMMA DoSegmentClosed ==
    ASSUME NEW h, HlsInv(h), h.current # NULL, NEW f
    PROVE  /\ DOMAIN do_segment_close(h, f) = {"hls", "ok"}
           /\ Slid(h, do_segment_close(h, f), f)
<1> DEFINE r == do_segment_close(h, f)
           no == h.current.no
           out == h.out \o Held(h)
           rest == Restrict(h.tmp, DOMAIN h.tmp \ {no})
           files == With(h.files, no, h.tmp[no])
           segs == Append(h.segments, h.current)
           c == [h EXCEPT !.writing = FALSE, !.out = out]
           lost == h.lost \cup {no}
           gone == [c EXCEPT !.lost = lost]
           kept == [c EXCEPT !.tmp = rest, !.files = files, !.segments = segs]
           back == [c EXCEPT !.sequence_no = @ - 1]
           dropped == [back EXCEPT !.tmp = rest]
<1>1. /\ DOMAIN h = HlsFields /\ h.expired = << >>
      /\ h.writing => no \in DOMAIN h.tmp
  BY DEF HlsInv, HlsType, HlsOpen
<1>2. /\ h.segments \in Seq(Segment) /\ h.sequence_no \in Nat /\ no \in Nat
      /\ h.sequence_no - 1 = no /\ segs \in Seq(Segment)
  BY WindowFacts, AppendOrdered
<1>3. DOMAIN files = DOMAIN h.files \cup {no}
  BY DEF With
<1> HIDE DEF files, rest, out, segs
<1>4. /\ DOMAIN c = HlsFields
      /\ c.enabled = h.enabled /\ c.writing = FALSE
      /\ c.current = h.current /\ c.latest = h.latest
      /\ c.audio = h.audio /\ c.video = h.video
      /\ c.m3u8 = h.m3u8 /\ c.expired = << >>
      /\ c.segments = h.segments /\ c.sequence_no = h.sequence_no /\ c.files = h.files
      /\ c.lost = h.lost /\ c.stale = h.stale
  BY <1>1 DEF HlsFields
<1>5. r = CASE Kept(h.current) /\ (no \notin DOMAIN h.tmp \/ "rename" \in f) -> Failed(gone)
            [] Kept(h.current) /\ no \in DOMAIN h.tmp /\ "rename" \notin f -> Refreshed(kept, f)
            [] ~ Kept(h.current) /\ no \in DOMAIN h.tmp /\ "unlink" \in f -> Failed(back)
            [] OTHER -> Refreshed(dropped, f)
  BY DEF do_segment_close, files, rest, out, segs
<1> HIDE DEF c, r, lost
<1>6. CASE Kept(h.current) /\ (no \notin DOMAIN h.tmp \/ "rename" \in f)
  <2>1. r = Failed(gone)
    BY <1>5, <1>6
  <2>2. Closing(h, gone, h.segments, h.sequence_no, DOMAIN h.files, lost)
    BY <1>4 DEF Closing, HlsFields
  <2>3. Closed(h, r, h.segments, h.sequence_no, DOMAIN h.files, lost, {"rename"})
    BY <1>2, <2>1, <2>2, ClosingFailed
  <2>4. ~ (f = {} /\ h.writing)
    BY <1>1, <1>6
  <2>5. lost = h.lost \cup {h.current.no}
    BY DEF lost
  <2>6. Slid(h, r, f)
    BY <2>3, <2>4, <2>5, SlidBack
  <2> QED
    BY <2>1, <2>6 DEF r, Failed
<1>7. CASE Kept(h.current) /\ no \in DOMAIN h.tmp /\ "rename" \notin f
  <2>1. r = Refreshed(kept, f)
    BY <1>5, <1>7
  <2>2. Closing(h, kept, segs, h.sequence_no, DOMAIN files, h.lost)
    BY <1>4 DEF Closing, HlsFields
  <2>3. Closed(h, r, segs, h.sequence_no, DOMAIN files, h.lost, f)
    BY <1>2, <2>1, <2>2, ClosingRefreshed
  <2>4. Closed(h, r, Append(h.segments, h.current), h.sequence_no,
               DOMAIN h.files \cup {h.current.no}, h.lost, f)
    BY <1>3, <2>3 DEF segs
  <2>5. Slid(h, r, f)
    BY <2>4, SlidOn
  <2> QED
    BY <2>1, <2>5, RefreshedDomain DEF r
<1>8. CASE ~ Kept(h.current)
  <2>1. /\ DOMAIN back = HlsFields
        /\ back.enabled = h.enabled /\ back.writing = FALSE
        /\ back.current = h.current /\ back.latest = h.latest
        /\ back.audio = h.audio /\ back.video = h.video
        /\ back.m3u8 = h.m3u8 /\ back.expired = << >>
        /\ back.segments = h.segments /\ back.sequence_no = no /\ back.files = h.files
        /\ back.lost = h.lost /\ back.stale = h.stale
    BY <1>2, <1>4 DEF HlsFields
  <2> HIDE DEF back
  <2>2. CASE no \in DOMAIN h.tmp /\ "unlink" \in f
    <3>1. r = Failed(back)
      BY <1>5, <1>8, <2>2
    <3>2. Closing(h, back, h.segments, no, DOMAIN h.files, h.lost)
      BY <2>1 DEF Closing
    <3>3. Closed(h, r, h.segments, no, DOMAIN h.files, h.lost, {"unlink"})
      BY <1>2, <3>1, <3>2, ClosingFailed
    <3>4. Slid(h, r, f)
      BY <2>2, <3>3, SlidBack
    <3> QED
      BY <3>1, <3>4 DEF r, Failed
  <2>3. CASE ~ (no \in DOMAIN h.tmp /\ "unlink" \in f)
    <3>1. r = Refreshed(dropped, f)
      BY <1>5, <1>8, <2>3
    <3>2. Closing(h, dropped, h.segments, no, DOMAIN h.files, h.lost)
      BY <2>1 DEF Closing, HlsFields
    <3>3. Closed(h, r, h.segments, no, DOMAIN h.files, h.lost, f)
      BY <1>2, <3>1, <3>2, ClosingRefreshed
    <3>4. Slid(h, r, f)
      BY <1>8, <3>3, SlidBack
    <3> QED
      BY <3>1, <3>4, RefreshedDomain DEF r
  <2> QED
    BY <2>2, <2>3
<1> QED
  BY <1>6, <1>7, <1>8

\* segment_close(): there is no current segment afterwards, whatever failed.
LEMMA SegmentClosed ==
    ASSUME NEW h, HlsInv(h), NEW f
    PROVE  LET r == segment_close(h, f)
           IN  /\ r.ok \in BOOLEAN /\ HlsType(r.hls) /\ Numbering(r.hls) /\ Stored(r.hls)
               /\ r.hls.current = NULL /\ r.hls.writing = FALSE
               /\ r.hls.enabled = h.enabled
               /\ r.hls.audio = h.audio /\ r.hls.video = h.video
               /\ h.current = NULL => r.hls = h
               /\ Chained(h.segments) /\ Joined(h) => Chained(r.hls.segments)
               /\ h.current # NULL /\ f = {} /\ h.writing =>
                     /\ r.ok /\ (~ h.stale => ~ r.hls.stale)
                     /\ Kept(h.current) =>
                           /\ r.hls.segments # << >>
                           /\ r.hls.segments[Len(r.hls.segments)] = h.current
<1> DEFINE r == segment_close(h, f)
<1>1. HlsType(h) /\ HlsOpen(h) /\ Numbering(h) /\ Stored(h)
  BY DEF HlsInv
<1>2. CASE h.current = NULL
  <2>1. r = Done(h)
    BY <1>2 DEF segment_close
  <2>2. r.hls = h /\ r.ok = TRUE
    BY <2>1 DEF Done
  <2>3. h.writing = FALSE
    BY <1>1, <1>2 DEF HlsOpen, HlsType
  <2> QED
    BY <1>1, <1>2, <2>2, <2>3
<1>3. CASE h.current # NULL
  <2> DEFINE d == do_segment_close(h, f)
             k == [d.hls EXCEPT !.current = NULL]
  <2>1. DOMAIN d = {"hls", "ok"} /\ Slid(h, d, f)
    BY <1>3, DoSegmentClosed
  <2>2. r = [d EXCEPT !.hls = k]
    BY <1>3, <2>1 DEF segment_close
  <2> HIDE DEF d
  <2>3. /\ DOMAIN k = HlsFields /\ k.current = NULL
        /\ k.enabled = h.enabled /\ k.writing = FALSE
        /\ k.latest = h.latest /\ k.sequence_no = d.hls.sequence_no
        /\ k.audio = h.audio /\ k.video = h.video /\ k.expired = << >>
        /\ k.segments = d.hls.segments /\ k.files = d.hls.files /\ k.m3u8 = d.hls.m3u8
        /\ k.lost = d.hls.lost /\ k.stale = d.hls.stale
    BY <2>1 DEF Slid, HlsFields
  <2> HIDE DEF k
  <2>4. r.hls = k /\ r.ok = d.ok
    BY <2>1, <2>2
  <2>5. HlsType(k)
    BY <1>1, <2>1, <2>3 DEF Slid, HlsType
  <2>6. NextNo(k) = d.hls.sequence_no
    BY <2>3 DEF NextNo
  <2>7. Numbering(k)
    BY <2>1, <2>3, <2>6 DEF Slid, Numbering
  <2>10. Stored(k)
    BY <2>1, <2>3, <2>6 DEF Slid, Stored
  <2>11. Chained(h.segments) /\ Joined(h) => Chained(k.segments)
    BY <2>1, <2>3 DEF Slid
  <2>8. ASSUME f = {}, h.writing
        PROVE  /\ d.ok /\ (~ h.stale => ~ k.stale)
               /\ Kept(h.current) => /\ k.segments # << >>
                                     /\ k.segments[Len(k.segments)] = h.current
    BY <2>1, <2>3, <2>8 DEF Slid
  <2> HIDE DEF r
  <2>9. /\ r.ok \in BOOLEAN /\ HlsType(r.hls) /\ Numbering(r.hls) /\ Stored(r.hls)
        /\ r.hls.current = NULL /\ r.hls.writing = FALSE
        /\ r.hls.enabled = h.enabled
        /\ r.hls.audio = h.audio /\ r.hls.video = h.video
    BY <2>1, <2>3, <2>4, <2>5, <2>7, <2>10 DEF Slid
  <2> QED
    BY <1>3, <2>4, <2>8, <2>9, <2>11 DEF r
<1> QED
  BY <1>2, <1>3

-----------------------------------------------------------------------------
(* The next segment is opened in the place of the one that was closed.      *)

\* Both caches are written, one after the other.
LEMMA FlushedBoth ==
    ASSUME NEW h, HlsType(h), NEW av \in {"audio", "video"},
           NEW bv \in {"audio", "video"} \ {av}, NEW f
    PROVE  LET r == Then(flush(h, av, f), LAMBDA v : flush(v, bv, f))
           IN  /\ r.ok \in BOOLEAN /\ SameWindow(h, r.hls)
               /\ h.current # NULL /\ h.writing /\ f = {} /\ Flushable(h.audio) /\ Flushable(h.video) =>
                     /\ r.ok /\ r.hls.audio = NULL /\ r.hls.video = NULL
                     /\ h[av] = NULL =>
                           r.hls.current = IF h[bv] = NULL THEN h.current
                                           ELSE append(h.current, h[bv].dts)
                     /\ h[bv] = NULL =>
                           r.hls.current = IF h[av] = NULL THEN h.current
                                           ELSE append(h.current, h[av].dts)
<1> DEFINE a == flush(h, av, f)
           b == flush(a.hls, bv, f)
           r == Then(a, LAMBDA v : flush(v, bv, f))
<1>1. /\ a.ok \in BOOLEAN /\ SameWindow(h, a.hls) /\ a.hls[bv] = h[bv]
      /\ h.current # NULL /\ h.writing /\ f = {} /\ Flushable(h[av]) =>
            /\ a.ok /\ a.hls[av] = NULL
            /\ a.hls.current = IF h[av] = NULL THEN h.current
                               ELSE append(h.current, h[av].dts)
  BY Flushed
<1>2. r = IF a.ok THEN b ELSE a
  BY DEF Then
<1> HIDE DEF a
<1>3. HlsType(a.hls) /\ a.hls.writing = h.writing /\ (a.hls.current = NULL <=> h.current = NULL)
  BY <1>1 DEF SameWindow
<1>4. /\ b.ok \in BOOLEAN /\ SameWindow(a.hls, b.hls) /\ b.hls[av] = a.hls[av]
      /\ a.hls.current # NULL /\ a.hls.writing /\ f = {} /\ Flushable(a.hls[bv]) =>
            /\ b.ok /\ b.hls[bv] = NULL
            /\ b.hls.current = IF a.hls[bv] = NULL THEN a.hls.current
                               ELSE append(a.hls.current, a.hls[bv].dts)
  BY <1>3, Flushed
<1> HIDE DEF b, r
<1>5. SameWindow(h, b.hls)
  BY <1>1, <1>4, SameWindowTrans
<1>6. r.ok \in BOOLEAN /\ SameWindow(h, r.hls)
  BY <1>1, <1>2, <1>4, <1>5
<1>7. ASSUME h.current # NULL, h.writing, f = {}, Flushable(h[av]), Flushable(h[bv])
      PROVE  /\ r.ok /\ r.hls.audio = NULL /\ r.hls.video = NULL
             /\ h[av] = NULL =>
                   r.hls.current = IF h[bv] = NULL THEN h.current
                                   ELSE append(h.current, h[bv].dts)
             /\ h[bv] = NULL =>
                   r.hls.current = IF h[av] = NULL THEN h.current
                                   ELSE append(h.current, h[av].dts)
  <2>1. r = b
    BY <1>1, <1>2, <1>7
  <2>2. b.ok /\ b.hls[av] = NULL /\ b.hls[bv] = NULL
    BY <1>1, <1>3, <1>4, <1>7
  <2>3. b.hls.audio = NULL /\ b.hls.video = NULL
    BY <2>2
  <2>4. a.hls.current = (IF h[av] = NULL THEN h.current ELSE append(h.current, h[av].dts))
    BY <1>1, <1>7
  <2>5. b.hls.current = (IF h[bv] = NULL THEN a.hls.current
                         ELSE append(a.hls.current, h[bv].dts))
    BY <1>1, <1>3, <1>4, <1>7
  <2> QED
    BY <2>1, <2>2, <2>3, <2>4, <2>5
<1>8. Flushable(h.audio) /\ Flushable(h.video) => Flushable(h[av]) /\ Flushable(h[bv])
  OBVIOUS
<1> QED
  BY <1>6, <1>7, <1>8 DEF r, a

\* What the next segment is like when the output goes on undisturbed.
LEMMA SegmentReaped ==
    ASSUME NEW h, HlsInv(h), h.current # NULL, NEW av \in {"audio", "video"}, NEW f
    PROVE  LET r == reap_segment(h, av, f)
           IN  /\ r.ok \in BOOLEAN /\ HlsInv(r.hls) /\ r.hls.current # NULL
               /\ r.hls.enabled = h.enabled
               /\ /\ f = {} /\ h.writing /\ ~ h.stale /\ Chained(h.segments) /\ Joined(h)
                  /\ h[av] # NULL /\ h[av].frames # << >> /\ h[av].dts = End(h.current)
                  /\ \A bv \in {"audio", "video"} \ {av} : h[bv] = NULL
                  => /\ r.ok /\ r.hls.writing /\ ~ r.hls.stale
                     /\ Chained(r.hls.segments) /\ Joined(r.hls)
                     /\ r.hls.audio = NULL /\ r.hls.video = NULL
<1> DEFINE closed == segment_close(h, f)
           open == segment_open(closed.hls, av, Kept(h.current), f)
           opened == [open EXCEPT !.ok = @ /\ closed.ok]
           r == reap_segment(h, av, f)
           both == Then(flush(opened.hls, "video", f), LAMBDA v : flush(v, "audio", f))
<1>1. r = IF opened.ok THEN both ELSE opened
  BY DEF reap_segment, Then
<1>2. /\ closed.ok \in BOOLEAN /\ HlsType(closed.hls) /\ Numbering(closed.hls) /\ Stored(closed.hls)
      /\ closed.hls.current = NULL /\ closed.hls.writing = FALSE
      /\ closed.hls.enabled = h.enabled
      /\ closed.hls.audio = h.audio /\ closed.hls.video = h.video
      /\ Chained(h.segments) /\ Joined(h) => Chained(closed.hls.segments)
      /\ f = {} /\ h.writing =>
            /\ closed.ok /\ (~ h.stale => ~ closed.hls.stale)
            /\ Kept(h.current) =>
                  /\ closed.hls.segments # << >>
                  /\ closed.hls.segments[Len(closed.hls.segments)] = h.current
  <2>1. LET c == segment_close(h, f)
        IN  /\ c.ok \in BOOLEAN /\ HlsType(c.hls) /\ Numbering(c.hls) /\ Stored(c.hls)
            /\ c.hls.current = NULL /\ c.hls.writing = FALSE
            /\ c.hls.enabled = h.enabled
            /\ c.hls.audio = h.audio /\ c.hls.video = h.video
            /\ h.current = NULL => c.hls = h
            /\ Chained(h.segments) /\ Joined(h) => Chained(c.hls.segments)
            /\ h.current # NULL /\ f = {} /\ h.writing =>
                  /\ c.ok /\ (~ h.stale => ~ c.hls.stale)
                  /\ Kept(h.current) =>
                        /\ c.hls.segments # << >>
                        /\ c.hls.segments[Len(c.hls.segments)] = h.current
    BY SegmentClosed, Zenon
  <2> QED
    BY <2>1, Zenon
<1> HIDE DEF closed
<1>3. Kept(h.current) \in BOOLEAN
  BY DEF Kept
<1>4. /\ open.ok \in BOOLEAN /\ HlsInv(open.hls) /\ open.hls.current # NULL
      /\ open.hls.enabled = closed.hls.enabled /\ open.hls.segments = closed.hls.segments
      /\ open.hls.files = closed.hls.files /\ open.hls.m3u8 = closed.hls.m3u8
      /\ open.hls.audio = closed.hls.audio /\ open.hls.video = closed.hls.video
      /\ open.hls.stale = closed.hls.stale /\ NextNo(open.hls) = NextNo(closed.hls)
      /\ open.hls.current.start = -1
      /\ open.hls.current.follows = Kept(h.current)
      /\ f = {} => open.ok /\ open.hls.writing
  BY <1>2, <1>3, SegmentOpened
<1>5. DOMAIN open = {"hls", "ok"}
  BY DEF segment_open, Done, Failed
<1> HIDE DEF open
<1>6. opened.hls = open.hls /\ opened.ok = (open.ok /\ closed.ok)
  BY <1>2, <1>4, <1>5
<1> HIDE DEF opened
<1>7. /\ HlsInv(opened.hls) /\ HlsType(opened.hls) /\ opened.ok \in BOOLEAN
      /\ opened.hls.current # NULL /\ opened.hls.enabled = h.enabled
  BY <1>2, <1>4, <1>6 DEF HlsInv
<1>8. /\ both.ok \in BOOLEAN /\ SameWindow(opened.hls, both.hls)
      /\ opened.hls.current # NULL /\ opened.hls.writing /\ f = {}
         /\ Flushable(opened.hls.audio) /\ Flushable(opened.hls.video) =>
            /\ both.ok /\ both.hls.audio = NULL /\ both.hls.video = NULL
            /\ opened.hls.video = NULL =>
                  both.hls.current = IF opened.hls.audio = NULL THEN opened.hls.current
                                     ELSE append(opened.hls.current, opened.hls.audio.dts)
            /\ opened.hls.audio = NULL =>
                  both.hls.current = IF opened.hls.video = NULL THEN opened.hls.current
                                     ELSE append(opened.hls.current, opened.hls.video.dts)
  <2> DEFINE o == opened.hls
  <2>1. /\ "video" \in {"audio", "video"} /\ "audio" \in {"audio", "video"} \ {"video"}
        /\ HlsType(o)
    BY <1>7
  <2> HIDE DEF o
  <2>2. LET q == Then(flush(o, "video", f), LAMBDA v : flush(v, "audio", f))
        IN  /\ q.ok \in BOOLEAN /\ SameWindow(o, q.hls)
            /\ o.current # NULL /\ o.writing /\ f = {} /\ Flushable(o.audio) /\ Flushable(o.video) =>
                  /\ q.ok /\ q.hls.audio = NULL /\ q.hls.video = NULL
                  /\ o["video"] = NULL =>
                        q.hls.current = IF o["audio"] = NULL THEN o.current
                                        ELSE append(o.current, o["audio"].dts)
                  /\ o["audio"] = NULL =>
                        q.hls.current = IF o["video"] = NULL THEN o.current
                                        ELSE append(o.current, o["video"].dts)
    BY <2>1, FlushedBoth
  <2> QED
    BY <2>2 DEF o
<1> HIDE DEF both, r
<1>9. HlsInv(both.hls) /\ both.hls.current # NULL /\ both.hls.enabled = h.enabled
  <2>1. HlsInv(both.hls)
    BY <1>7, <1>8, SameWindowInv
  <2> QED
    BY <2>1, <1>7, <1>8 DEF SameWindow
<1>10. ASSUME f = {}, h.writing, ~ h.stale, Chained(h.segments), Joined(h),
              h[av] # NULL, h[av].frames # << >>, h[av].dts = End(h.current),
              \A bv \in {"audio", "video"} \ {av} : h[bv] = NULL
       PROVE  /\ r.ok /\ r.hls.writing /\ ~ r.hls.stale
              /\ Chained(r.hls.segments) /\ Joined(r.hls)
              /\ r.hls.audio = NULL /\ r.hls.video = NULL
  <2>1. opened.ok /\ opened.hls.writing /\ r = both
    BY <1>1, <1>2, <1>4, <1>6, <1>10
  <2>2. h[av].dts \in Nat
    BY <1>10, MessageFields DEF HlsInv, HlsType
  <2>3. /\ opened.hls.audio = h.audio /\ opened.hls.video = h.video
        /\ Flushable(opened.hls.audio) /\ Flushable(opened.hls.video)
    <3>1. opened.hls.audio = h.audio /\ opened.hls.video = h.video
      BY <1>2, <1>4, <1>6
    <3>2. \A bv \in {"audio", "video"} : Flushable(h[bv])
      BY <1>10 DEF Flushable
    <3> QED
      BY <3>1, <3>2
  <2>4. both.hls.current = append(opened.hls.current, h[av].dts)
    <3>1. CASE av = "audio"
      BY <1>7, <1>8, <1>10, <2>1, <2>3, <3>1
    <3>2. CASE av = "video"
      BY <1>7, <1>8, <1>10, <2>1, <2>3, <3>2
    <3> QED
      BY <3>1, <3>2
  <2>5. opened.hls.current \in Segment /\ opened.hls.current.start = -1
    BY <1>4, <1>6, <1>7 DEF HlsType
  <2>6. both.hls.current.start # -1 /\ both.hls.current.first = h[av].dts
    <3>1. PICK s \in Segment : s = opened.hls.current /\ s.start = -1
      BY ONLY <2>5
    <3>2. /\ append(s, h[av].dts).start \in Nat
          /\ append(s, h[av].dts).first = (IF s.start = -1 THEN h[av].dts ELSE s.first)
      BY ONLY <2>2, AppendFragment
    <3>3. append(s, h[av].dts).first = h[av].dts
      BY ONLY <3>1, <3>2
    <3> QED
      BY ONLY <2>4, <3>1, <3>2, <3>3
  <2>7. both.hls.segments = closed.hls.segments /\ both.hls.writing = TRUE /\ ~ both.hls.stale
    BY <1>2, <1>4, <1>6, <1>7, <1>8, <1>10, <2>1 DEF SameWindow, HlsType
  <2>8. both.hls.current.follows = Kept(h.current)
    BY <1>4, <1>6, <1>7, <1>8 DEF SameWindow
  <2>9. Joined(both.hls)
    <3> SUFFICES ASSUME Kept(h.current)
                 PROVE  /\ both.hls.current.start # -1
                        /\ both.hls.segments # << >>
                        /\ End(both.hls.segments[Len(both.hls.segments)]) = both.hls.current.first
      BY <2>8 DEF Joined, Follows
    <3> QED
      BY <1>2, <1>10, <2>6, <2>7
  <2>10. Chained(both.hls.segments)
    BY <1>2, <1>10, <2>7
  <2> QED
    BY <1>7, <1>8, <1>10, <2>1, <2>3, <2>7, <2>9, <2>10
<1>11. /\ r.ok \in BOOLEAN /\ HlsInv(r.hls) /\ r.hls.current # NULL
       /\ r.hls.enabled = h.enabled
  BY <1>1, <1>7, <1>8, <1>9
<1> QED
  BY <1>10, <1>11 DEF r

-----------------------------------------------------------------------------
(* A frame, the begin and the end of a session.                             *)

\* The state in which a frame has joined its message, and that in which it has counted
\* for the duration.
Collected(h, frame, f) ==
    LET av     == frame.type
        codec  == set_latest_codec(h, IF av = "audio" THEN "a" ELSE "v",
                                   IF av = "audio" THEN "aac" ELSE "avc")
    IN  [codec EXCEPT ![av] = Cached(@, frame, f)]

Timed(h, frame, f) ==
    LET cached == Collected(h, frame, f) IN update_duration(cached, cached[frame.type].dts)

LEMMA TimedFacts ==
    ASSUME NEW h, HlsInv(h), h.current # NULL, NEW frame \in Frame, NEW f
    PROVE  LET k == Timed(h, frame, f)
           IN  /\ HlsInv(Collected(h, frame, f)) /\ Collected(h, frame, f).current # NULL
               /\ Collected(h, frame, f)[frame.type] \in TsMessage
               /\ HlsInv(k) /\ SameWindow(h, k) /\ k.current # NULL
               /\ f = {} /\ Clean(h) =>
                     /\ k.writing /\ ~ k.stale /\ Chained(k.segments) /\ Joined(k)
                     /\ k[frame.type] # NULL /\ k[frame.type].frames # << >>
                     /\ k[frame.type].dts = End(k.current)
                     /\ \A bv \in {"audio", "video"} \ {frame.type} : k[bv] = NULL
<1> DEFINE av == frame.type
           a == IF av = "audio" THEN "a" ELSE "v"
           c == IF av = "audio" THEN "aac" ELSE "avc"
           codec == set_latest_codec(h, a, c)
           m == Cached(codec[av], frame, f)
           cached == [codec EXCEPT ![av] = m]
           k == update_duration(cached, cached[av].dts)
<1>1. av \in {"audio", "video"} /\ frame.ts \in Nat
  BY DEF Frame
<1>2. HlsType(h)
  BY DEF HlsInv
<1>3. /\ SameWindow(h, codec) /\ codec.current.start = h.current.start
      /\ codec.audio = h.audio /\ codec.video = h.video
  <2>1. <<a, c>> \in {<<"a", "aac">>, <<"v", "avc">>}
    OBVIOUS
  <2> HIDE DEF a, c
  <2> QED
    BY <1>2, <2>1, LatestCodecSet
<1>4. Collected(h, frame, f) = cached /\ Timed(h, frame, f) = k
  BY DEF Timed, Collected
<1> HIDE DEF a, c, codec
<1>5. HlsType(codec) /\ codec.current # NULL
  BY <1>3 DEF SameWindow
<1>6. codec[av] \in TsMessage \cup {NULL} /\ codec[av] = h[av]
  <2>1. CASE av = "audio"
    BY <1>3, <1>5, <2>1 DEF HlsType
  <2>2. CASE av = "video"
    BY <1>3, <1>5, <2>2 DEF HlsType
  <2> QED
    BY <1>1, <2>1, <2>2
<1>7. /\ m \in TsMessage
      /\ m.frames = LET old == IF codec[av] = NULL THEN << >> ELSE codec[av].frames
                    IN  IF "cache" \in f THEN old ELSE Append(old, frame)
  BY <1>6, CachedMessage
<1>14. f = {} /\ codec[av] = NULL => m.frames # << >>
  BY <1>7
<1> HIDE DEF m
<1>8. /\ SameWindow(codec, cached) /\ cached.current = codec.current /\ cached[av] = m
      /\ \A bv \in {"audio", "video"} \ {av} : cached[bv] = codec[bv]
  BY <1>1, <1>5, <1>7, CacheChanged
<1> HIDE DEF cached
<1>9. m.dts \in Nat /\ m # NULL /\ HlsType(cached) /\ cached.current # NULL
  BY <1>5, <1>7, <1>8, MessageFields DEF SameWindow
<1>10. k = update_duration(cached, m.dts)
  BY <1>8
<1> HIDE DEF k
<1>11. /\ SameWindow(cached, k) /\ k.current = append(cached.current, m.dts)
       /\ k.audio = cached.audio /\ k.video = cached.video
  BY <1>9, <1>10, DurationUpdated
<1>12. SameWindow(h, cached) /\ SameWindow(h, k)
  <2>1. SameWindow(h, cached)
    BY <1>3, <1>8, SameWindowTrans
  <2> QED
    BY <1>11, <2>1, SameWindowTrans
<1>13. HlsInv(cached) /\ HlsInv(k) /\ k.current # NULL
  <2>1. HlsInv(cached) /\ HlsInv(k)
    BY <1>12, SameWindowInv
  <2> QED
    BY <2>1, <1>12 DEF SameWindow
<1>15. ASSUME f = {}, Clean(h)
       PROVE  /\ k.writing /\ ~ k.stale /\ Chained(k.segments) /\ Joined(k)
              /\ k[av] # NULL /\ k[av].frames # << >>
              /\ k[av].dts = End(k.current)
              /\ \A bv \in {"audio", "video"} \ {av} : k[bv] = NULL
  <2>1. /\ h.writing /\ ~ h.stale /\ Chained(h.segments) /\ Joined(h)
        /\ h.audio = NULL /\ h.video = NULL
    BY <1>15 DEF Clean
  <2>2. m.frames # << >>
    <3>1. h[av] = NULL
      BY <1>1, <2>1
    <3> QED
      BY <1>6, <1>14, <1>15, <3>1
  <2>3. k[av] = m /\ \A bv \in {"audio", "video"} \ {av} : k[bv] = NULL
    <3>1. CASE av = "audio"
      BY <1>3, <1>8, <1>11, <2>1, <3>1
    <3>2. CASE av = "video"
      BY <1>3, <1>8, <1>11, <2>1, <3>2
    <3> QED
      BY <1>1, <3>1, <3>2
  <2>4. k.writing /\ ~ k.stale /\ Chained(k.segments)
    BY <1>12, <2>1 DEF SameWindow
  <2>5. cached.current \in Segment
    BY <1>9 DEF HlsType
  <2>6. End(k.current) = m.dts
    BY <1>9, <1>11, <2>5, AppendFragment
  <2>7. Joined(k)
    BY <1>12, <2>1, SameWindowJoined
  <2> QED
    BY <1>9, <2>2, <2>3, <2>4, <2>6, <2>7
<1> QED
  BY <1>4, <1>7, <1>8, <1>9, <1>12, <1>13, <1>15

\* write_audio() and write_video().
LEMMA FrameWritten ==
    ASSUME NEW h, HlsInv(h), h.current # NULL, NEW frame \in Frame, NEW f
    PROVE  LET r == write_frame(h, frame, f)
           IN  /\ r.ok \in BOOLEAN /\ HlsInv(r.hls)
               /\ f = {} /\ Clean(h) => r.ok /\ Clean(r.hls)
<1> DEFINE av == frame.type
           k == Timed(h, frame, f)
           cached == Collected(h, frame, f)
           cut == \/ frame.type = "audio" /\ is_segment_absolutely_overflow(k)
                  \/ frame.type = "video" /\ is_segment_overflow(k) /\ frame.key
           p == Reaped(k, frame, f)
           q == flush(p.hls, av, f)
           r == write_frame(h, frame, f)
<1>1. av \in {"audio", "video"}
  BY DEF Frame
<1>2. r = IF "cache" \in f THEN Failed(cached) ELSE IF p.ok THEN q ELSE p
  BY DEF write_frame, Then, Timed, Collected
<1>3. /\ HlsInv(cached)
      /\ HlsInv(k) /\ SameWindow(h, k) /\ k.current # NULL
      /\ f = {} /\ Clean(h) =>
            /\ k.writing /\ ~ k.stale /\ Chained(k.segments) /\ Joined(k)
            /\ k[av] # NULL /\ k[av].frames # << >>
            /\ k[av].dts = End(k.current)
            /\ \A bv \in {"audio", "video"} \ {av} : k[bv] = NULL
  BY TimedFacts
<1> HIDE DEF k, cached
<1>4. k.enabled = h.enabled
  BY <1>3 DEF SameWindow
<1>5. p = IF cut THEN reap_segment(k, av, f) ELSE Done(k)
  BY DEF Reaped
<1> HIDE DEF cut, p
<1>6. /\ p.ok \in BOOLEAN /\ HlsInv(p.hls) /\ p.hls.current # NULL /\ p.hls.enabled = h.enabled
      /\ f = {} /\ Clean(h) =>
            /\ p.ok /\ p.hls.writing /\ ~ p.hls.stale
            /\ Chained(p.hls.segments) /\ Joined(p.hls)
            /\ Flushable(p.hls[av])
            /\ \A bv \in {"audio", "video"} \ {av} : p.hls[bv] = NULL
  <2>1. CASE cut
    <3>1. p = reap_segment(k, av, f)
      BY <1>5, <2>1
    <3>2. /\ p.ok \in BOOLEAN /\ HlsInv(p.hls) /\ p.hls.current # NULL
          /\ p.hls.enabled = k.enabled
          /\ /\ f = {} /\ k.writing /\ ~ k.stale /\ Chained(k.segments) /\ Joined(k)
             /\ k[av] # NULL /\ k[av].frames # << >> /\ k[av].dts = End(k.current)
             /\ \A bv \in {"audio", "video"} \ {av} : k[bv] = NULL
             => /\ p.ok /\ p.hls.writing /\ ~ p.hls.stale
                /\ Chained(p.hls.segments) /\ Joined(p.hls)
                /\ p.hls.audio = NULL /\ p.hls.video = NULL
      BY <1>1, <1>3, <3>1, SegmentReaped
    <3>3. ASSUME f = {}, Clean(h)
          PROVE  /\ p.ok /\ p.hls.writing /\ ~ p.hls.stale
                 /\ Chained(p.hls.segments) /\ Joined(p.hls)
                 /\ p.hls.audio = NULL /\ p.hls.video = NULL
      BY <1>3, <3>2, <3>3
    <3>4. ASSUME p.hls.audio = NULL, p.hls.video = NULL
          PROVE  \A bv \in {"audio", "video"} : p.hls[bv] = NULL
      BY <3>4
    <3> QED
      BY <1>1, <1>4, <3>2, <3>3, <3>4 DEF Flushable
  <2>2. CASE ~ cut
    <3>1. p.hls = k /\ p.ok = TRUE
      BY <1>5, <2>2 DEF Done
    <3> QED
      BY <1>3, <1>4, <3>1 DEF Flushable
  <2> QED
    BY <2>1, <2>2
<1>7. HlsType(p.hls)
  BY <1>6 DEF HlsInv
<1>8. /\ q.ok \in BOOLEAN /\ SameWindow(p.hls, q.hls)
      /\ \A bv \in {"audio", "video"} \ {av} : q.hls[bv] = p.hls[bv]
      /\ p.hls.current # NULL /\ p.hls.writing /\ f = {} /\ Flushable(p.hls[av]) =>
            q.ok /\ q.hls[av] = NULL
  BY <1>1, <1>7, Flushed
<1> HIDE DEF q, r
<1>9. HlsInv(q.hls)
  BY <1>6, <1>8, SameWindowInv
<1>10. ASSUME f = {}, Clean(h)
       PROVE  r.ok /\ Clean(r.hls)
  <2>1. /\ p.ok /\ p.hls.writing /\ ~ p.hls.stale
        /\ Chained(p.hls.segments) /\ Joined(p.hls)
        /\ Flushable(p.hls[av])
        /\ \A bv \in {"audio", "video"} \ {av} : p.hls[bv] = NULL
    BY <1>6, <1>10
  <2>2. r = q
    BY <1>2, <1>10, <2>1
  <2>3. q.ok /\ q.hls.audio = NULL /\ q.hls.video = NULL
    <3>1. q.ok /\ q.hls[av] = NULL /\ \A bv \in {"audio", "video"} \ {av} : q.hls[bv] = NULL
      BY <1>6, <1>8, <1>10, <2>1
    <3>2. CASE av = "audio"
      BY <3>1, <3>2
    <3>3. CASE av = "video"
      BY <3>1, <3>3
    <3> QED
      BY <1>1, <3>2, <3>3
  <2>4. ~ q.hls.stale /\ Chained(q.hls.segments)
    BY <1>8, <2>1 DEF SameWindow
  <2>5. Joined(q.hls)
    BY <1>8, <2>1, SameWindowJoined
  <2>6. h.enabled
    BY <1>10 DEF Clean
  <2>7. q.hls.current # NULL /\ q.hls.enabled = TRUE /\ q.hls.writing = TRUE
    BY <1>6, <1>7, <1>8, <2>1, <2>6 DEF SameWindow, HlsType
  <2> QED
    BY <2>2, <2>3, <2>4, <2>5, <2>7 DEF Clean
<1>11. r.ok \in BOOLEAN /\ HlsInv(r.hls)
  BY <1>2, <1>3, <1>6, <1>8, <1>9 DEF Failed
<1> QED
  BY <1>10, <1>11 DEF r

\* The output is enabled or disabled.
LEMMA EnabledChanged ==
    ASSUME NEW h, HlsType(h), Numbering(h), Stored(h), NEW e \in BOOLEAN, e => h.current # NULL,
           h.writing => h.current # NULL /\ h.current.no \in DOMAIN h.tmp
    PROVE  LET k == [h EXCEPT !.enabled = e]
           IN  /\ HlsInv(k)
               /\ k.enabled = e /\ k.writing = h.writing /\ k.current = h.current
               /\ k.segments = h.segments /\ k.files = h.files /\ k.m3u8 = h.m3u8
               /\ k.audio = h.audio /\ k.video = h.video /\ NextNo(k) = NextNo(h)
               /\ k.stale = h.stale
<1> DEFINE k == [h EXCEPT !.enabled = e]
<1>1. /\ DOMAIN k = HlsFields /\ k.enabled = e
      /\ k.writing = h.writing /\ k.current = h.current
      /\ k.sequence_no = h.sequence_no /\ k.expired = h.expired
      /\ k.latest = h.latest /\ k.tmp = h.tmp
      /\ k.segments = h.segments /\ k.files = h.files /\ k.m3u8 = h.m3u8
      /\ k.audio = h.audio /\ k.video = h.video
      /\ k.lost = h.lost /\ k.stale = h.stale
  BY DEF HlsType, HlsFields
<1> HIDE DEF k
<1>2. HlsType(k)
  BY <1>1 DEF HlsType
<1>3. HlsOpen(k)
  BY <1>1 DEF HlsOpen
<1>4. NextNo(k) = NextNo(h)
  BY <1>1 DEF NextNo
<1>5. Numbering(k)
  BY <1>1, <1>4 DEF Numbering
<1>6. Stored(k)
  BY <1>1, <1>4 DEF Stored
<1> QED
  BY <1>1, <1>2, <1>3, <1>4, <1>5, <1>6 DEF HlsInv, k

\* on_publish().
LEMMA Published ==
    ASSUME NEW h, HlsInv(h), NEW f
    PROVE  LET r == on_publish(h, f)
           IN  /\ HlsInv(r.hls)
               /\ f = {} /\ Clean(h) => Clean(r.hls)
<1> DEFINE open == segment_open(h, "publish", FALSE, f)
           on == [open.hls EXCEPT !.enabled = TRUE]
           r == on_publish(h, f)
<1>1. HlsType(h) /\ HlsOpen(h) /\ Numbering(h) /\ Stored(h)
  BY DEF HlsInv
<1>2. r = IF "dir" \in f THEN Failed(h) ELSE IF open.ok THEN Done(on) ELSE open
  BY DEF on_publish, Then
<1>3. /\ open.ok \in BOOLEAN /\ HlsInv(open.hls) /\ open.hls.current # NULL
      /\ open.hls.segments = h.segments
      /\ open.hls.files = h.files /\ open.hls.m3u8 = h.m3u8
      /\ open.hls.audio = h.audio /\ open.hls.video = h.video
      /\ open.hls.stale = h.stale
      /\ h.current # NULL => open.ok /\ open.hls = h
      /\ h.current = NULL => /\ open.hls.current.start = -1
                             /\ open.hls.current.follows = FALSE
                             /\ f = {} => open.ok /\ open.hls.writing
  <2>1. h.writing => h.current # NULL /\ h.current.no \in DOMAIN h.tmp
    BY <1>1 DEF HlsOpen
  <2>2. PICK no \in BOOLEAN : no = FALSE
    OBVIOUS
  <2> DEFINE first == segment_open(h, "publish", no, f)
  <2>3. /\ first.ok \in BOOLEAN /\ HlsInv(first.hls) /\ first.hls.current # NULL
        /\ first.hls.segments = h.segments
        /\ first.hls.files = h.files /\ first.hls.m3u8 = h.m3u8
        /\ first.hls.audio = h.audio /\ first.hls.video = h.video
        /\ first.hls.stale = h.stale
        /\ h.current # NULL => first.ok /\ first.hls = h
        /\ h.current = NULL => /\ first.hls.current.start = -1
                               /\ first.hls.current.follows = no
                               /\ f = {} => first.ok /\ first.hls.writing
    BY <1>1, <2>1, SegmentOpened
  <2>4. open = first
    BY <2>2, Zenon
  <2> HIDE DEF open, first
  <2> QED
    BY <2>2, <2>3, <2>4
<1> HIDE DEF open
<1>4. /\ HlsInv(on)
      /\ on.enabled = TRUE /\ on.writing = open.hls.writing /\ on.current = open.hls.current
      /\ on.segments = open.hls.segments /\ on.files = open.hls.files
      /\ on.m3u8 = open.hls.m3u8 /\ on.audio = open.hls.audio /\ on.video = open.hls.video
      /\ on.stale = open.hls.stale
  <2>1. /\ HlsType(open.hls) /\ Numbering(open.hls) /\ Stored(open.hls)
        /\ open.hls.writing => open.hls.current # NULL
                               /\ open.hls.current.no \in DOMAIN open.hls.tmp
    BY <1>3 DEF HlsInv, HlsOpen
  <2> QED
    BY <1>3, <2>1, EnabledChanged
<1> HIDE DEF on, r
<1>5. HlsInv(r.hls)
  BY <1>2, <1>3, <1>4 DEF Failed, Done
<1>6. ASSUME f = {}, Clean(h)
      PROVE  Clean(r.hls)
  <2>1. open.ok
    BY <1>3, <1>6
  <2>2. r.hls = on
    BY <1>2, <1>6, <2>1 DEF Done
  <2>3. /\ ~ h.stale /\ Chained(h.segments) /\ Joined(h) /\ h.audio = NULL /\ h.video = NULL
        /\ h.writing = (h.current # NULL)
    BY <1>6 DEF Clean
  <2>4. ~ on.stale /\ Chained(on.segments)
    BY <1>3, <1>4, <2>3
  <2>5. Joined(on) /\ on.writing = TRUE
    <3>1. CASE h.current = NULL
      BY <1>3, <1>4, <1>6, <3>1 DEF Joined, Follows, HlsInv, HlsType
    <3>2. CASE h.current # NULL
      BY <1>3, <1>4, <2>3, <3>2 DEF Joined
    <3> QED
      BY <3>1, <3>2
  <2> QED
    BY <1>3, <1>4, <2>2, <2>3, <2>4, <2>5 DEF Clean
<1> QED
  BY <1>5, <1>6 DEF r

\* on_unpublish(): the segment is closed, or kept for the next session when the cached
\* messages could not be written.
LEMMA Unpublished ==
    ASSUME NEW h, HlsInv(h), NEW f
    PROVE  /\ HlsInv(on_unpublish(h, f))
           /\ f = {} /\ Clean(h) => Clean(on_unpublish(h, f))
<1> DEFINE both == Then(flush(h, "audio", f), LAMBDA a : flush(a, "video", f))
           end == Then(both, LAMBDA v : segment_close(v, f))
           closed == segment_close(both.hls, f)
           off == [end.hls EXCEPT !.enabled = FALSE]
<1>1. on_unpublish(h, f) = IF h.enabled THEN off ELSE h
  BY DEF on_unpublish
<1>2. end = IF both.ok THEN closed ELSE both
  BY DEF Then
<1>3. HlsType(h)
  BY DEF HlsInv
<1>4. /\ both.ok \in BOOLEAN /\ SameWindow(h, both.hls)
      /\ h.current # NULL /\ h.writing /\ f = {} /\ Flushable(h.audio) /\ Flushable(h.video) =>
            /\ both.ok /\ both.hls.audio = NULL /\ both.hls.video = NULL
            /\ h.audio = NULL /\ h.video = NULL => both.hls.current = h.current
  <2>1. "audio" \in {"audio", "video"} /\ "video" \in {"audio", "video"} \ {"audio"}
    OBVIOUS
  <2>2. LET q == Then(flush(h, "audio", f), LAMBDA v : flush(v, "video", f))
        IN  /\ q.ok \in BOOLEAN /\ SameWindow(h, q.hls)
            /\ h.current # NULL /\ h.writing /\ f = {} /\ Flushable(h.audio) /\ Flushable(h.video) =>
                  /\ q.ok /\ q.hls.audio = NULL /\ q.hls.video = NULL
                  /\ h["audio"] = NULL =>
                        q.hls.current = IF h["video"] = NULL THEN h.current
                                        ELSE append(h.current, h["video"].dts)
                  /\ h["video"] = NULL =>
                        q.hls.current = IF h["audio"] = NULL THEN h.current
                                        ELSE append(h.current, h["audio"].dts)
    BY <1>3, <2>1, FlushedBoth
  <2> QED
    BY <2>2
<1> HIDE DEF both
<1>5. HlsInv(both.hls) /\ HlsType(both.hls) /\ Numbering(both.hls)
  <2>1. HlsInv(both.hls)
    BY <1>4, SameWindowInv
  <2> QED
    BY <2>1 DEF HlsInv
<1>6. /\ closed.ok \in BOOLEAN /\ HlsType(closed.hls) /\ Numbering(closed.hls) /\ Stored(closed.hls)
      /\ closed.hls.current = NULL /\ closed.hls.writing = FALSE
      /\ closed.hls.audio = both.hls.audio /\ closed.hls.video = both.hls.video
      /\ Chained(both.hls.segments) /\ Joined(both.hls) => Chained(closed.hls.segments)
      /\ both.hls.current # NULL /\ f = {} /\ both.hls.writing =>
            closed.ok /\ (~ both.hls.stale => ~ closed.hls.stale)
  BY <1>5, SegmentClosed, Zenon
<1> HIDE DEF closed, end
<1>7. /\ HlsInv(off)
      /\ off.enabled = FALSE /\ off.writing = end.hls.writing /\ off.current = end.hls.current
      /\ off.segments = end.hls.segments /\ off.files = end.hls.files
      /\ off.m3u8 = end.hls.m3u8 /\ off.audio = end.hls.audio /\ off.video = end.hls.video
      /\ off.stale = end.hls.stale
  <2>1. /\ HlsType(end.hls) /\ Numbering(end.hls) /\ Stored(end.hls)
        /\ end.hls.writing => end.hls.current # NULL
                              /\ end.hls.current.no \in DOMAIN end.hls.tmp
    <3>1. CASE both.ok
      BY <1>2, <1>6, <3>1
    <3>2. CASE ~ both.ok
      BY <1>2, <1>5, <3>2 DEF HlsInv, HlsOpen
    <3> QED
      BY <1>4, <3>1, <3>2
  <2> QED
    BY <2>1, EnabledChanged
<1> HIDE DEF off
<1>8. ASSUME f = {}, Clean(h)
      PROVE  Clean(on_unpublish(h, f))
  <2>1. /\ ~ h.stale /\ Chained(h.segments) /\ Joined(h) /\ h.audio = NULL /\ h.video = NULL
        /\ h.writing = (h.current # NULL) /\ h.enabled = (h.current # NULL)
    BY <1>8 DEF Clean
  <2>2. CASE h.current = NULL
    BY <1>1, <1>8, <2>1, <2>2
  <2>3. CASE h.current # NULL
    <3>1. /\ both.ok /\ both.hls.audio = NULL /\ both.hls.video = NULL
          /\ both.hls.current = h.current
      BY <1>4, <1>8, <2>1, <2>3 DEF Flushable
    <3>2. Chained(both.hls.segments) /\ Joined(both.hls)
      BY <1>4, <2>1, SameWindowJoined DEF SameWindow
    <3>3. both.hls.writing = TRUE /\ ~ both.hls.stale
      BY <1>4, <2>1, <2>3 DEF SameWindow
    <3>4. end = closed /\ Chained(closed.hls.segments) /\ ~ closed.hls.stale
      BY <1>2, <1>6, <1>8, <2>3, <3>1, <3>2, <3>3
    <3>5. Chained(off.segments) /\ ~ off.stale
      BY <1>7, <3>4
    <3>6. Joined(off) /\ off.current = NULL
      BY <1>6, <1>7, <3>4 DEF Joined
    <3> QED
      BY <1>1, <1>6, <1>7, <2>1, <2>3, <3>1, <3>4, <3>5, <3>6 DEF Clean
  <2> QED
    BY <2>2, <2>3
<1> QED
  BY <1>1, <1>7, <1>8

\* What the hub does with an error keeps the invariant, whatever fails again.
LEMMA OutputFacts ==
    ASSUME NEW r, HlsInv(r.hls), NEW f, NEW again
    PROVE  HlsInv(Output(r, f, again)) /\ (r.ok => Output(r, f, again) = r.hls)
<1>1. HlsInv(on_unpublish(r.hls, IF again THEN f ELSE {}))
  BY Unpublished
<1> QED
  BY <1>1 DEF Output

-----------------------------------------------------------------------------
(* The hub.                                                                 *)

\* The parameter sets the format holds.
FormatInv(fmt) == DOMAIN fmt = DOMAIN Fmt!NewFormat /\ fmt.sps \in Nat

UsedInv ==
    /\ DOMAIN used = {"frames", "headers", "sessions", "faults"}
    /\ used.faults \in Nat

HubInv ==
    /\ HlsInv(hls) /\ clock \in Nat
    /\ FormatInv(format) /\ UsedInv
    /\ Undisturbed => Clean(hls)

\* The calls that fail in a step, of the file system or of the cache.
StepFaults == Faults \cup {{"cache"}}

LEMMA FaultCount ==
    ASSUME NEW f \in StepFaults
    PROVE  Cardinality(f) \in Nat /\ (Cardinality(f) = 0 => f = {})
<1>1. CASE f = {}
  BY <1>1, FS_EmptySet
<1>2. CASE f # {}
  <2>1. PICK c : f = {c}
    BY <1>2 DEF Faults, StepFaults
  <2>2. Cardinality({c}) = 1
    BY FS_Singleton, Zenon
  <2>3. Cardinality(f) = 1
    BY <2>1, <2>2
  <2> QED
    BY <2>3
<1> QED
  BY <1>1, <1>2

\* What is kept of the format is well formed.
LEMMA FormatKept ==
    ASSUME NEW fmt, fmt.sps \in Nat
    PROVE  FormatInv(Fmt!Kept(fmt))
BY DEF FormatInv, Fmt!Kept, Fmt!NewFormat

\* Parsing a message keeps the parameter sets, or stores what a header carries.
LEMMA AudioParsed ==
    ASSUME NEW fmt, FormatInv(fmt), NEW m
    PROVE  Fmt!on_audio(fmt, m).format.sps \in Nat
BY DEF FormatInv, Fmt!NewFormat, Fmt!on_audio, Fmt!Parsed

LEMMA VideoParsed ==
    ASSUME NEW fmt, FormatInv(fmt), NEW m, m.key \in BOOLEAN, m.idr \in BOOLEAN, m.data \in Nat
    PROVE  LET g == Fmt!on_video(fmt, m).format
           IN  g.sps \in Nat /\ g.key \in BOOLEAN /\ g.idr \in BOOLEAN
<1> DEFINE reset == [fmt EXCEPT !.vcodec = m.codec, !.key = m.key, !.idr = FALSE, !.nalus = 0]
           tag   == [reset EXCEPT !.video = m.packet]
           fit(g) == /\ DOMAIN g = DOMAIN Fmt!NewFormat /\ g.sps \in Nat
                     /\ g.key \in BOOLEAN /\ g.idr \in BOOLEAN
<1>1. fit(reset) /\ fit(tag)
  BY DEF FormatInv, Fmt!NewFormat
<1>2. Fmt!on_video(fmt, m).format \in
        {reset, tag, Fmt!avc_demux_sps_pps(tag, m).format,
         Fmt!avc_demux_ibmf_format(tag, m).format}
  BY DEF Fmt!on_video, Fmt!Parsed
<1> HIDE DEF reset, tag
<1>3. fit(Fmt!avc_demux_sps_pps(tag, m).format)
  BY <1>1 DEF Fmt!NewFormat, Fmt!avc_demux_sps_pps, Fmt!Parsed
<1>4. fit(Fmt!avc_demux_ibmf_format(tag, m).format)
  BY <1>1 DEF Fmt!NewFormat, Fmt!avc_demux_ibmf_format, Fmt!Parsed
<1> QED
  BY <1>1, <1>2, <1>3, <1>4

\* on_audio() and on_video() of the hub: a frame, a sequence header, or nothing.
LEMMA MediaWritten ==
    ASSUME NEW h, HlsInv(h), NEW frame \in Frame, NEW f, NEW again, NEW k,
           \/ h.enabled /\ k = Output(write_frame(h, frame, f), f, again)
           \/ h.enabled /\ k = on_sequence_header(h)
           \/ k = h
    PROVE  HlsInv(k) /\ (f = {} /\ Clean(h) => Clean(k))
<1>1. HlsType(h) /\ (h.enabled => h.current # NULL)
  BY DEF HlsInv, HlsOpen
<1>2. CASE h.enabled /\ k = Output(write_frame(h, frame, f), f, again)
  <2> DEFINE r == write_frame(h, frame, f)
  <2>1. /\ r.ok \in BOOLEAN /\ HlsInv(r.hls)
        /\ f = {} /\ Clean(h) => r.ok /\ Clean(r.hls)
    BY <1>1, <1>2, FrameWritten
  <2>2. HlsInv(Output(r, f, again)) /\ (r.ok => Output(r, f, again) = r.hls)
    BY <2>1, OutputFacts
  <2> HIDE DEF r
  <2> QED
    BY <1>2, <2>1, <2>2 DEF r
<1>3. CASE h.enabled /\ k = on_sequence_header(h)
  <2>1. SameWindow(h, k) /\ k.audio = h.audio /\ k.video = h.video
    BY <1>1, <1>3, HeaderMarked
  <2>2. HlsInv(k)
    BY <2>1, SameWindowInv
  <2>3. ASSUME Clean(h) PROVE Clean(k)
    <3>1. Joined(k)
      BY <2>1, <2>3, SameWindowJoined DEF Clean
    <3> QED
      BY <2>1, <2>3, <3>1 DEF Clean, SameWindow
  <2> QED
    BY <2>2, <2>3
<1> QED
  BY <1>2, <1>3

\* A message counts for the bounds.
LEMMA Counted ==
    ASSUME UsedInv, NEW bound \in {"frames", "headers", "sessions"}, NEW f \in StepFaults,
           Count(bound, f)
    PROVE  UsedInv' /\ (Undisturbed' => Undisturbed /\ f = {})
<1>1. /\ DOMAIN used' = DOMAIN used
      /\ used'.faults = used.faults + Cardinality(f)
  BY DEF UsedInv, Count
<1>2. Cardinality(f) \in Nat /\ (Cardinality(f) = 0 => f = {})
  BY FaultCount
<1> QED
  BY <1>1, <1>2 DEF UsedInv, Undisturbed

LEMMA HubInit == Init => HubInv
<1> SUFFICES ASSUME Init PROVE HubInv
  OBVIOUS
<1>1. /\ DOMAIN hls = HlsFields
      /\ hls.enabled = FALSE /\ hls.writing = FALSE /\ hls.current = NULL
      /\ hls.sequence_no = 0 /\ hls.segments = << >> /\ hls.expired = << >>
      /\ hls.latest = [a |-> "none", v |-> "none"]
      /\ hls.audio = NULL /\ hls.video = NULL /\ hls.m3u8 = << >>
      /\ hls.stale = FALSE /\ clock = 0
  BY DEF Init, NewHls, HlsFields
<1>2. << >> \in Seq(Segment) /\ [a |-> "none", v |-> "none"] \in Codecs
  BY DEF Codecs
<1>3. HlsType(hls) /\ HlsOpen(hls)
  <2>1. hls.segments \in Seq(Segment) /\ hls.latest \in Codecs
    BY <1>1, <1>2
  <2>2. hls.enabled \in BOOLEAN /\ hls.writing \in BOOLEAN /\ hls.stale \in BOOLEAN
    BY <1>1, Zenon
  <2>3. /\ hls.sequence_no \in Nat /\ hls.current \in Segment \cup {NULL}
        /\ hls.audio \in TsMessage \cup {NULL} /\ hls.video \in TsMessage \cup {NULL}
    BY <1>1
  <2>4. HlsType(hls)
    BY <1>1, <2>1, <2>2, <2>3 DEF HlsType
  <2>5. HlsOpen(hls)
    BY <1>1 DEF HlsOpen
  <2> QED
    BY <2>4, <2>5
<1>4. Numbering(hls)
  BY <1>1 DEF Numbering, Ascending
<1>5. Stored(hls) /\ Clean(hls)
  <2>1. DOMAIN hls.segments = {}
    BY <1>1
  <2>2. Numbers(hls.segments) = {}
    BY <2>1 DEF Numbers
  <2>3. Chained(hls.segments) /\ Gaps(hls.segments, NextNo(hls), hls.lost)
    BY <1>1, <2>1 DEF Chained, Gaps
  <2> QED
    BY <1>1, <2>2, <2>3 DEF Stored, Clean, Joined
<1>6. FormatInv(format) /\ UsedInv /\ clock \in Nat
  BY DEF Init, FormatInv, Fmt!NewFormat, UsedInv
<1> QED
  BY <1>3, <1>4, <1>5, <1>6 DEF HubInv, HlsInv

\* A publish session begins.
LEMMA HubOnPublish ==
    ASSUME HubInv, NEW f \in Faults, NEW ll \in BOOLEAN, OnPublish(f, ll)
    PROVE  HubInv'
<1>1. /\ hls' = on_publish(hls, f).hls /\ clock' = clock /\ format' = format
      /\ Count("sessions", f)
  BY DEF OnPublish
<1>2. HlsInv(hls')
  BY <1>1, Published DEF HubInv
<1>3. UsedInv' /\ (Undisturbed' => Undisturbed /\ f = {})
  BY <1>1, Counted DEF HubInv, StepFaults
<1>4. Undisturbed' => Clean(hls')
  BY <1>1, <1>3, Published DEF HubInv
<1> QED
  BY <1>1, <1>2, <1>3, <1>4 DEF HubInv, FormatInv

\* A publish session ends.
LEMMA HubOnUnpublish ==
    ASSUME HubInv, NEW f \in Faults, OnUnpublish(f)
    PROVE  HubInv'
<1>1. /\ hls' = on_unpublish(hls, f) /\ clock' = 0 /\ format' = format
      /\ used' = [used EXCEPT !.faults = @ + Cardinality(f)]
  BY DEF OnUnpublish
<1>2. HlsInv(hls')
  BY <1>1, Unpublished DEF HubInv
<1>3. Cardinality(f) \in Nat /\ (Cardinality(f) = 0 => f = {})
  BY FaultCount DEF StepFaults
<1>4. UsedInv' /\ (Undisturbed' => Undisturbed /\ f = {})
  BY <1>1, <1>3 DEF HubInv, UsedInv, Undisturbed
<1>5. Undisturbed' => Clean(hls')
  BY <1>1, <1>4, Unpublished DEF HubInv
<1> QED
  BY <1>1, <1>2, <1>4, <1>5 DEF HubInv, FormatInv

\* A message arrives that the format understands as audio.
LEMMA HubOnAudio ==
    ASSUME HubInv, NEW m, NEW step \in Int, NEW f \in StepFaults, NEW again \in BOOLEAN,
           OnAudio(m, step, f, again),
           NEW bound \in {"frames", "headers", "sessions"}, Count(bound, f)
    PROVE  HubInv'
<1> DEFINE p     == Fmt!on_audio(format, m)
           frame == [type |-> "audio", ts |-> clock + step, key |-> FALSE, idr |-> FALSE, sps |-> 0]
           takes == p.ok /\ WritesAudio(hls, p.format)
           marks == p.ok /\ MarksAudio(hls, p.format)
<1>1. /\ format' = Fmt!Kept(p.format) /\ clock' = clock + step /\ clock + step >= 0
      /\ hls' = CASE takes -> Output(write_frame(hls, frame, f), f, again)
                  [] ~ takes /\ marks -> on_sequence_header(hls)
                  [] OTHER -> hls
  BY DEF OnAudio
<1>2. takes => hls.enabled
  BY DEF WritesAudio
<1>3. marks => hls.enabled
  BY DEF MarksAudio
<1>4. FormatInv(Fmt!Kept(p.format))
  BY AudioParsed, FormatKept DEF HubInv
<1> HIDE DEF p
<1>5. clock + step \in Nat /\ frame \in Frame /\ HlsInv(hls)
  BY <1>1 DEF HubInv, Frame
<1> HIDE DEF frame, takes, marks
<1>6. \/ hls.enabled /\ hls' = Output(write_frame(hls, frame, f), f, again)
      \/ hls.enabled /\ hls' = on_sequence_header(hls)
      \/ hls' = hls
  BY <1>1, <1>2, <1>3
<1>7. HlsInv(hls') /\ (f = {} /\ Clean(hls) => Clean(hls'))
  BY <1>5, <1>6, MediaWritten
<1>8. UsedInv' /\ (Undisturbed' => Undisturbed /\ f = {})
  BY Counted DEF HubInv
<1>9. Undisturbed' => Clean(hls')
  BY <1>7, <1>8 DEF HubInv
<1>10. clock' \in Nat /\ FormatInv(format')
  BY <1>1, <1>4, <1>5
<1> QED
  BY <1>7, <1>8, <1>9, <1>10 DEF HubInv, FormatInv

\* A message arrives that the format understands as video.
LEMMA HubOnVideo ==
    ASSUME HubInv, NEW m, m.key \in BOOLEAN, m.idr \in BOOLEAN, m.data \in Nat,
           NEW step \in Int, NEW f \in StepFaults, NEW again \in BOOLEAN,
           OnVideo(m, step, f, again),
           NEW bound \in {"frames", "headers", "sessions"}, Count(bound, f)
    PROVE  HubInv'
<1> DEFINE p     == Fmt!on_video(format, m)
           frame == [type |-> "video", ts |-> clock + step, key |-> p.format.key,
                     idr |-> p.format.idr, sps |-> IF p.format.idr THEN p.format.sps ELSE 0]
           takes == p.ok /\ WritesVideo(hls, p.format)
           marks == p.ok /\ MarksVideo(hls, p.format)
<1>1. /\ format' = Fmt!Kept(p.format) /\ clock' = clock + step /\ clock + step >= 0
      /\ hls' = CASE takes -> Output(write_frame(hls, frame, f), f, again)
                  [] ~ takes /\ marks -> on_sequence_header(hls)
                  [] OTHER -> hls
  BY DEF OnVideo
<1>2. takes => hls.enabled
  BY DEF WritesVideo
<1>3. marks => hls.enabled
  BY DEF MarksVideo
<1>4. /\ p.format.sps \in Nat /\ p.format.key \in BOOLEAN /\ p.format.idr \in BOOLEAN
      /\ FormatInv(Fmt!Kept(p.format))
  BY VideoParsed, FormatKept DEF HubInv
<1> HIDE DEF p
<1>5. clock + step \in Nat /\ frame \in Frame /\ HlsInv(hls)
  BY <1>1, <1>4 DEF HubInv, Frame
<1> HIDE DEF frame, takes, marks
<1>6. \/ hls.enabled /\ hls' = Output(write_frame(hls, frame, f), f, again)
      \/ hls.enabled /\ hls' = on_sequence_header(hls)
      \/ hls' = hls
  BY <1>1, <1>2, <1>3
<1>7. HlsInv(hls') /\ (f = {} /\ Clean(hls) => Clean(hls'))
  BY <1>5, <1>6, MediaWritten
<1>8. UsedInv' /\ (Undisturbed' => Undisturbed /\ f = {})
  BY Counted DEF HubInv
<1>9. Undisturbed' => Clean(hls')
  BY <1>7, <1>8 DEF HubInv
<1>10. clock' \in Nat /\ FormatInv(format')
  BY <1>1, <1>4, <1>5
<1> QED
  BY <1>7, <1>8, <1>9, <1>10 DEF HubInv, FormatInv

\* The alphabet of the messages that are not frames.
LEMMA OtherData ==
    ASSUME NEW m \in VideoOthers
    PROVE  m.key \in BOOLEAN /\ m.idr \in BOOLEAN /\ m.data \in Nat
<1>1. 0 \in Nat /\ 1 \in Nat /\ Configs \cup {0} \subseteq Nat
  BY HlsHubAssumption
<1>2. CASE m \in [codec : {"avc"}, packet : {"header"}, data : Configs \cup {0}, ok : BOOLEAN,
                  key : {TRUE}, idr : {FALSE}]
  BY <1>1, <1>2
<1>3. CASE m \in [codec : {"avc"}, packet : {"raw"}, data : {1}, ok : {FALSE}, key : {FALSE}, idr : {FALSE}]
  BY <1>1, <1>3
<1>4. CASE m \in [codec : {"avc"}, packet : {"raw", "other", "short"}, data : {0}, ok : {TRUE},
                  key : {TRUE}, idr : {FALSE}]
  BY <1>1, <1>4
<1>5. CASE m \in [codec : {"hevc"}, packet : {"raw"}, data : {1}, ok : {TRUE}, key : {FALSE}, idr : {FALSE}]
  BY <1>1, <1>5
<1> QED
  BY <1>2, <1>3, <1>4, <1>5 DEF VideoOthers

\* The messages of the steps that bring media, and what fails in them: the cache refuses
\* the frames without payload, and no others.
Refusal(m, f) ==
    LET p == Fmt!on_audio(format, m)
    IN  p.ok /\ WritesAudio(hls, p.format) => ("cache" \in f <=> m.data = 0)

AudioStep(m, step, f, again, bound) ==
    /\ Refusal(m, f)
    /\ step \in Int /\ f \in StepFaults /\ again \in BOOLEAN
    /\ OnAudio(m, step, f, again)
    /\ bound \in {"frames", "headers", "sessions"} /\ Count(bound, f)

VideoStep(m, step, f, again, bound) ==
    /\ m.key \in BOOLEAN /\ m.idr \in BOOLEAN /\ m.data \in Nat
    /\ step \in Int /\ f \in StepFaults /\ "cache" \notin f /\ again \in BOOLEAN
    /\ OnVideo(m, step, f, again)
    /\ bound \in {"frames", "headers", "sessions"} /\ Count(bound, f)

\* What is not a frame of AAC is not handed to the controller.
LEMMA OtherAudio ==
    ASSUME FormatInv(format), NEW m \in AudioOthers, NEW f
    PROVE  Refusal(m, f)
<1> DEFINE p == Fmt!on_audio(format, m)
           reset == [format EXCEPT !.acodec = m.codec, !.samples = 0]
           tag == [reset EXCEPT !.audio = m.packet]
           heard == [tag EXCEPT !.aac = IF m.data = -1 THEN @ ELSE m.data]
<1>1. \/ m.codec = "aac" /\ m.packet = "header"
      \/ m.codec = "aac" /\ m.packet = "short"
      \/ m.codec = "mp3"
  BY DEF AudioOthers
<1>2. /\ DOMAIN reset = DOMAIN Fmt!NewFormat /\ DOMAIN tag = DOMAIN Fmt!NewFormat
      /\ reset.acodec = m.codec /\ reset.samples = 0 /\ heard.audio = m.packet
  BY DEF FormatInv, Fmt!NewFormat
<1>3. CASE m.codec = "aac" /\ m.packet = "header"
  <2>1. p.format = heard
    BY <1>3 DEF Fmt!on_audio, Fmt!Parsed
  <2> HIDE DEF p, heard
  <2>2. ~ WritesAudio(hls, p.format)
    BY <1>2, <1>3, <2>1 DEF WritesAudio
  <2> QED
    BY <2>2 DEF Refusal, p
<1>4. CASE m.codec # "aac" \/ m.packet = "short"
  <2>1. p.format = reset
    BY <1>4 DEF Fmt!on_audio, Fmt!Parsed
  <2> HIDE DEF p, reset
  <2>2. ~ WritesAudio(hls, p.format)
    BY <1>2, <2>1 DEF WritesAudio
  <2> QED
    BY <2>2 DEF Refusal, p
<1> QED
  BY <1>1, <1>3, <1>4

LEMMA NextCases ==
    ASSUME FormatInv(format), [Next]_vars
    PROVE  \/ \E f \in Faults, ll \in BOOLEAN : OnPublish(f, ll)
           \/ \E f \in Faults : OnUnpublish(f)
           \/ \E m, step, f, again, bound : AudioStep(m, step, f, again, bound)
           \/ \E m, step, f, again, bound : VideoStep(m, step, f, again, bound)
           \/ UNCHANGED vars
<1>1. \A step \in Steps : step \in Int
  BY HlsHubAssumption
<1>2. Faults \subseteq StepFaults /\ {} \in StepFaults /\ {"cache"} \in StepFaults
  BY DEF StepFaults, Faults
<1>8. "cache" \notin {} /\ "cache" \in {"cache"} /\ \A f \in Faults : "cache" \notin f
  BY DEF Faults, FileCalls
<1>3. ASSUME NEW step \in Steps, NEW f \in Faults, NEW again \in BOOLEAN,
             AudioFrame(step, f, again)
      PROVE  \E m, st, g, ag, bound : AudioStep(m, st, g, ag, bound)
  <2> DEFINE m == [codec |-> "aac", packet |-> "raw", data |-> 1, ok |-> TRUE]
  <2>1. Refusal(m, f)
    <3>1. m.data = 1
      OBVIOUS
    <3> HIDE DEF m
    <3> QED
      BY <1>8, <3>1 DEF Refusal
  <2>2. AudioStep(m, step, f, again, "frames")
    BY <1>1, <1>2, <1>3, <2>1 DEF AudioFrame, AudioStep
  <2> QED
    BY <2>2, Zenon
<1>4. ASSUME NEW step \in Steps, NEW f \in Faults, NEW again \in BOOLEAN,
             NEW pic \in Pictures, VideoFrame(pic, step, f, again)
      PROVE  \E m, st, g, ag, bound : VideoStep(m, st, g, ag, bound)
  <2> DEFINE m == [codec |-> "avc", packet |-> "raw", data |-> 1, ok |-> TRUE,
                   key |-> pic[1], idr |-> pic[2]]
  <2>1. m.key \in BOOLEAN /\ m.idr \in BOOLEAN /\ m.data \in Nat
    BY HlsHubAssumption
  <2>2. OnVideo(m, step, f, again) /\ Count("frames", f)
    BY <1>4 DEF VideoFrame
  <2> HIDE DEF m
  <2>3. VideoStep(m, step, f, again, "frames")
    BY <1>1, <1>2, <1>8, <2>1, <2>2 DEF VideoStep
  <2> QED
    BY <2>3, Zenon
<1>5. ASSUME NEW step \in Steps, AudioEmpty(step)
      PROVE  \E m, st, g, ag, bound : AudioStep(m, st, g, ag, bound)
  <2> DEFINE m == [codec |-> "aac", packet |-> "raw", data |-> 0, ok |-> TRUE]
  <2>1. Refusal(m, {"cache"})
    <3>1. m.data = 0
      OBVIOUS
    <3> HIDE DEF m
    <3> QED
      BY <1>8, <3>1 DEF Refusal
  <2>2. AudioStep(m, step, {"cache"}, FALSE, "frames")
    BY <1>1, <1>2, <1>5, <2>1 DEF AudioEmpty, AudioStep
  <2> QED
    BY <2>2, Zenon
<1>6. ASSUME NEW m \in AudioOthers, AudioOther(m)
      PROVE  \E n, st, g, ag, bound : AudioStep(n, st, g, ag, bound)
  <2>1. AudioStep(m, 0, {}, FALSE, "headers")
    <3>1. OnAudio(m, 0, {}, FALSE) /\ Count("headers", {})
      BY <1>6 DEF AudioOther
    <3>2. 0 \in Int /\ FALSE \in BOOLEAN /\ "headers" \in {"frames", "headers", "sessions"}
      OBVIOUS
    <3> QED
      BY <1>2, <3>1, <3>2, OtherAudio, Zenon DEF AudioStep
  <2> QED
    BY <2>1, Zenon
<1>7. ASSUME NEW m \in VideoOthers, VideoOther(m)
      PROVE  \E n, st, g, ag, bound : VideoStep(n, st, g, ag, bound)
  <2>1. VideoStep(m, 0, {}, FALSE, "headers")
    <3>1. OnVideo(m, 0, {}, FALSE) /\ Count("headers", {})
      BY <1>7 DEF VideoOther
    <3>2. 0 \in Int /\ FALSE \in BOOLEAN /\ "headers" \in {"frames", "headers", "sessions"}
      OBVIOUS
    <3>3. m.key \in BOOLEAN /\ m.idr \in BOOLEAN /\ m.data \in Nat
      BY OtherData
    <3> QED
      BY <1>2, <1>8, <3>1, <3>2, <3>3, Zenon DEF VideoStep
  <2> QED
    BY <2>1, Zenon
<1> QED
  BY <1>3, <1>4, <1>5, <1>6, <1>7 DEF Next

LEMMA HubNext == HubInv /\ [Next]_vars => HubInv'
<1> SUFFICES ASSUME HubInv, [Next]_vars PROVE HubInv'
  OBVIOUS
<1>1. ASSUME NEW f \in Faults, NEW ll \in BOOLEAN, OnPublish(f, ll)
      PROVE  HubInv'
  BY <1>1, HubOnPublish
<1>2. ASSUME NEW f \in Faults, OnUnpublish(f)
      PROVE  HubInv'
  BY <1>2, HubOnUnpublish
<1>3. ASSUME NEW m, NEW step, NEW f, NEW again, NEW bound, AudioStep(m, step, f, again, bound)
      PROVE  HubInv'
  BY <1>3, HubOnAudio DEF AudioStep
<1>4. ASSUME NEW m, NEW step, NEW f, NEW again, NEW bound, VideoStep(m, step, f, again, bound)
      PROVE  HubInv'
  BY <1>4, HubOnVideo DEF VideoStep
<1>5. ASSUME UNCHANGED vars
      PROVE  HubInv'
  BY <1>5 DEF vars, HubInv, FormatInv, UsedInv, Undisturbed
<1>6. FormatInv(format)
  BY DEF HubInv
<1> QED
  BY <1>1, <1>2, <1>3, <1>4, <1>5, <1>6, NextCases

\* The inductive invariant of the hub, for every stream, every sequence of sessions and
\* every choice of the file calls that fail.
THEOREM HubInvariant == Spec => []HubInv
<1>1. Init => HubInv
  BY HubInit
<1>2. HubInv /\ [Next]_vars => HubInv'
  BY HubNext
<1> QED
  BY <1>1, <1>2, PTL DEF Spec

\* The assertions of the muxer: whatever file call fails, an enabled output has a
\* current segment, and the writer has the file of that segment open.
THEOREM SegmentStaysOpen == Spec => []SegmentOpen
<1>1. HubInv => SegmentOpen
  BY DEF HubInv, HlsInv, HlsOpen, SegmentOpen
<1> QED
  BY <1>1, HubInvariant, PTL

\* do_segment_close() and refresh_m3u8(): whatever file call fails, the segments of the
\* window have their files, no number is given twice and only a segment that could not
\* be renamed leaves a gap, and the playlist is the window unless its last replacement
\* failed.
THEOREM PlaylistStaysServed == Spec => []PlaylistServed
<1>1. ASSUME HubInv PROVE PlaylistServed
  <2>1. /\ HlsType(hls) /\ Numbering(hls) /\ Stored(hls) /\ hls.segments \in Seq(Segment)
    BY <1>1 DEF HubInv, HlsInv, HlsType
  <2>2. PICK l \in Nat : l = Len(hls.segments) /\ DOMAIN hls.segments = 1 .. l
    BY <2>1
  <2>3. \A i \in 1 .. Len(hls.segments) - 1 :
           /\ hls.segments[i].no < hls.segments[i + 1].no
           /\ hls.segments[i].no + 1 .. hls.segments[i + 1].no - 1 \subseteq hls.lost
    <3>1. \A i \in 1 .. l - 1 : i \in 1 .. l /\ i + 1 \in 1 .. l /\ i < i + 1
      OBVIOUS
    <3> QED
      BY <2>1, <2>2, <3>1 DEF Numbering, Ascending, Stored, Gaps
  <2>4. hls.current # NULL => \A i \in DOMAIN hls.segments : hls.segments[i].no < hls.current.no
    BY <2>1 DEF Numbering, Ascending, NextNo
  <2> QED
    BY <2>1, <2>3, <2>4 DEF PlaylistServed, Stored
<1> QED
  BY <1>1, HubInvariant, PTL

\* reap_segment() and SrsFragment::append(): while no call fails, a segment lasts until
\* the time the next one begins with, whichever way the times of the stream go.
THEOREM SegmentsStayContiguous == Spec => []Contiguous
<1>1. ASSUME HubInv PROVE Contiguous
  <2>1. hls.segments \in Seq(Segment)
    BY <1>1 DEF HubInv, HlsInv, HlsType
  <2>2. PICK l \in Nat : l = Len(hls.segments) /\ DOMAIN hls.segments = 1 .. l
    BY <2>1
  <2>3. \A i \in 1 .. l - 1 : i \in DOMAIN hls.segments /\ i + 1 \in DOMAIN hls.segments
    BY <2>2
  <2> QED
    BY <1>1, <2>2, <2>3 DEF HubInv, Clean, Chained, Contiguous, End
<1> QED
  BY <1>1, HubInvariant, PTL

-----------------------------------------------------------------------------
(* The frames of a sequence of messages.                                    *)

Kinds == {"audio", "video"}

\* The frames of a longer sequence of messages, from those of a shorter one.
FramesStep(type, packets, f, n) ==
    IF n = 0 THEN << >>
    ELSE IF packets[n].type = type THEN f[n - 1] \o packets[n].frames ELSE f[n - 1]

LEMMA FramesExist ==
    ASSUME NEW type, NEW packets, NEW l \in Nat
    PROVE  \E f : f = [n \in 0 .. l |-> FramesStep(type, packets, f, n)]
<1> DEFINE Def(k) == \E f : f = [n \in 0 .. k |-> FramesStep(type, packets, f, n)]
           T == {k \in Nat : ~ Def(k)}
<1>1. Def(0)
  <2> DEFINE f == [n \in 0 .. 0 |-> << >>]
  <2>1. f = [n \in 0 .. 0 |-> FramesStep(type, packets, f, n)]
    BY DEF FramesStep
  <2> QED
    BY <2>1
<1>2. ASSUME NEW k \in Nat, Def(k)
      PROVE  Def(k + 1)
  <2>1. PICK g : g = [n \in 0 .. k |-> FramesStep(type, packets, g, n)]
    BY <1>2
  <2> DEFINE f == [n \in 0 .. k + 1 |->
                     IF n = k + 1 THEN FramesStep(type, packets, g, n) ELSE g[n]]
  <2>2. \A n \in 0 .. k : f[n] = g[n] /\ g[n] = FramesStep(type, packets, g, n)
    <3>1. \A n \in 0 .. k : n \in 0 .. k + 1 /\ n # k + 1
      OBVIOUS
    <3> QED
      BY <2>1, <3>1
  <2>3. f[k + 1] = FramesStep(type, packets, g, k + 1)
    OBVIOUS
  <2>4. ASSUME NEW n \in 0 .. k + 1
        PROVE  f[n] = FramesStep(type, packets, f, n)
    <3>1. n # 0 => n - 1 \in 0 .. k
      OBVIOUS
    <3>2. n # 0 => f[n - 1] = g[n - 1]
      BY <2>2, <3>1
    <3> HIDE DEF f
    <3>3. FramesStep(type, packets, f, n) = FramesStep(type, packets, g, n)
      BY <3>2 DEF FramesStep
    <3>4. n = k + 1 \/ n \in 0 .. k
      OBVIOUS
    <3> QED
      BY <2>2, <2>3, <3>3, <3>4
  <2>5. DOMAIN f = 0 .. k + 1 /\ f = [n \in DOMAIN f |-> f[n]]
    OBVIOUS
  <2> HIDE DEF f
  <2>6. f = [n \in 0 .. k + 1 |-> FramesStep(type, packets, f, n)]
    BY <2>4, <2>5
  <2> QED
    BY <2>6
<1> HIDE DEF Def
<1>3. T = {}
  <2> SUFFICES ASSUME T # {} PROVE FALSE
    OBVIOUS
  <2>1. PICK k \in T : \A y \in T : k <= y
    BY NatMin
  <2>2. k \in Nat /\ k # 0 /\ ~ Def(k)
    BY <1>1
  <2>3. k - 1 \in Nat /\ k - 1 \notin T /\ (k - 1) + 1 = k
    BY <2>1, <2>2
  <2> QED
    BY <1>2, <2>2, <2>3
<1>4. Def(l)
  BY <1>3
<1> QED
  BY <1>4 DEF Def

LEMMA FramesUnfold ==
    ASSUME NEW type, NEW packets, Len(packets) \in Nat
    PROVE  \E f : /\ FramesOf(type, packets) = f[Len(packets)]
                  /\ f = [n \in 0 .. Len(packets) |-> FramesStep(type, packets, f, n)]
<1> DEFINE f == CHOOSE f : f = [n \in 0 .. Len(packets) |-> FramesStep(type, packets, f, n)]
<1>1. FramesOf(type, packets) = f[Len(packets)]
  BY SMT DEF FramesOf, FramesStep
<1>2. f = [n \in 0 .. Len(packets) |-> FramesStep(type, packets, f, n)]
  BY FramesExist, Zenon
<1> QED
  BY <1>1, <1>2

LEMMA NoFrames ==
    ASSUME NEW type
    PROVE  FramesOf(type, << >>) = << >>
<1>1. PICK f : /\ FramesOf(type, << >>) = f[Len(<< >>)]
               /\ f = [n \in 0 .. Len(<< >>) |-> FramesStep(type, << >>, f, n)]
  BY FramesUnfold
<1>2. Len(<< >>) = 0
  OBVIOUS
<1> QED
  BY <1>1, <1>2 DEF FramesStep

LEMMA FramesAppended ==
    ASSUME NEW type, NEW S, NEW packets \in Seq(S), NEW p \in S
    PROVE  FramesOf(type, Append(packets, p)) =
             IF p.type = type THEN FramesOf(type, packets) \o p.frames
             ELSE FramesOf(type, packets)
<1> DEFINE more == Append(packets, p)
<1> PICK l \in Nat : l = Len(packets) /\ DOMAIN packets = 1 .. l
  OBVIOUS
<1>1. /\ Len(more) = l + 1 /\ more[l + 1] = p
      /\ \A i \in 1 .. l : more[i] = packets[i]
  OBVIOUS
<1> HIDE DEF more
<1>2. PICK f : /\ FramesOf(type, packets) = f[l]
               /\ f = [n \in 0 .. l |-> FramesStep(type, packets, f, n)]
  BY FramesUnfold
<1>3. PICK g : /\ FramesOf(type, more) = g[l + 1]
               /\ g = [n \in 0 .. l + 1 |-> FramesStep(type, more, g, n)]
  <2>1. Len(more) = l + 1 /\ Len(more) \in Nat
    BY <1>1
  <2>2. \E g : /\ FramesOf(type, more) = g[Len(more)]
               /\ g = [n \in 0 .. Len(more) |-> FramesStep(type, more, g, n)]
    BY <2>1, FramesUnfold
  <2> QED
    BY <2>1, <2>2
<1> DEFINE T == {n \in 0 .. l : f[n] # g[n]}
<1>4. T = {}
  <2> SUFFICES ASSUME T # {} PROVE FALSE
    OBVIOUS
  <2>1. PICK n \in T : \A y \in T : n <= y
    <3>1. T \subseteq Nat
      OBVIOUS
    <3> QED
      BY <3>1, NatMin
  <2>2. n \in 0 .. l /\ n \in 0 .. l + 1 /\ f[n] # g[n]
    OBVIOUS
  <2>3. f[n] = FramesStep(type, packets, f, n) /\ g[n] = FramesStep(type, more, g, n)
    BY <1>2, <1>3, <2>2
  <2>4. n # 0
    BY <2>2, <2>3 DEF FramesStep
  <2>5. n - 1 \in 0 .. l /\ n - 1 \notin T /\ n \in 1 .. l
    BY <2>1, <2>2, <2>4
  <2>6. f[n - 1] = g[n - 1] /\ more[n] = packets[n]
    BY <1>1, <2>5
  <2>7. FramesStep(type, packets, f, n) = FramesStep(type, more, g, n)
    BY <2>6 DEF FramesStep
  <2> QED
    BY <2>2, <2>3, <2>7
<1>5. g[l + 1] = FramesStep(type, more, g, l + 1)
  BY <1>3
<1>6. (l + 1) - 1 = l /\ l + 1 # 0 /\ f[l] = g[l]
  BY <1>4
<1>7. g[l + 1] = IF p.type = type THEN f[l] \o p.frames ELSE f[l]
  BY <1>1, <1>5, <1>6 DEF FramesStep
<1> QED
  BY <1>2, <1>3, <1>7 DEF more

LEMMA FramesTyped ==
    ASSUME NEW type, NEW packets \in Seq(TsMessage)
    PROVE  FramesOf(type, packets) \in Seq(Frame)
<1> PICK l \in Nat : l = Len(packets) /\ DOMAIN packets = 1 .. l
  OBVIOUS
<1>1. PICK f : /\ FramesOf(type, packets) = f[l]
               /\ f = [n \in 0 .. l |-> FramesStep(type, packets, f, n)]
  <2>1. Len(packets) = l /\ Len(packets) \in Nat
    OBVIOUS
  <2>2. \E f : /\ FramesOf(type, packets) = f[Len(packets)]
               /\ f = [n \in 0 .. Len(packets) |-> FramesStep(type, packets, f, n)]
    BY <2>1, FramesUnfold, Zenon
  <2> QED
    BY <2>1, <2>2
<1> DEFINE T == {n \in 0 .. l : f[n] \notin Seq(Frame)}
<1>2. T = {}
  <2> SUFFICES ASSUME T # {} PROVE FALSE
    OBVIOUS
  <2>1. PICK n \in T : \A y \in T : n <= y
    <3>1. T \subseteq Nat
      OBVIOUS
    <3> QED
      BY <3>1, NatMin
  <2>2. n \in 0 .. l /\ f[n] \notin Seq(Frame) /\ f[n] = FramesStep(type, packets, f, n)
    BY <1>1
  <2>3. n # 0
    BY <2>2 DEF FramesStep
  <2>4. n - 1 \in 0 .. l /\ n - 1 \notin T /\ n \in 1 .. l
    BY <2>1, <2>2, <2>3
  <2>5. f[n - 1] \in Seq(Frame) /\ packets[n].frames \in Seq(Frame)
    <3>1. packets[n] \in TsMessage
      BY <2>4
    <3>2. packets[n].frames \in Seq(Frame)
      BY ONLY <3>1 DEF TsMessage
    <3> QED
      BY <2>4, <3>2
  <2>6. f[n - 1] \o packets[n].frames \in Seq(Frame)
    BY <2>5, ConcatProperties
  <2> QED
    BY <2>2, <2>3, <2>5, <2>6 DEF FramesStep
<1> QED
  BY <1>1, <1>2

\* A message appended to the second of two sequences is appended to both.
LEMMA ConcatAppend ==
    ASSUME NEW S, NEW s \in Seq(S), NEW t \in Seq(S), NEW p \in S
    PROVE  s \o t \in Seq(S) /\ s \o Append(t, p) = Append(s \o t, p)
<1> DEFINE one == <<p>>
<1>1. s \o t \in Seq(S)
  BY ConcatProperties
<1>2. one \in Seq(S) /\ Append(t, p) = t \o one
  BY AppendIsConcat
<1>3. Append(s \o t, p) = (s \o t) \o one
  BY <1>1, AppendIsConcat
<1> HIDE DEF one
<1>4. (s \o t) \o one = s \o (t \o one)
  BY <1>2, ConcatAssociative
<1> QED
  BY <1>1, <1>2, <1>3, <1>4

\* A message written to the file of a segment.
AndFrames(type, frames, p) == IF p.type = type THEN frames \o p.frames ELSE frames

LEMMA FramesWritten ==
    ASSUME NEW type, NEW s \in Seq(TsMessage), NEW t \in Seq(TsMessage), NEW p \in TsMessage
    PROVE  FramesOf(type, s \o Append(t, p)) = AndFrames(type, FramesOf(type, s \o t), p)
<1> DEFINE S == TsMessage
<1>1. s \in Seq(S) /\ t \in Seq(S) /\ p \in S
  OBVIOUS
<1> HIDE DEF S
<1>2. s \o t \in Seq(S) /\ s \o Append(t, p) = Append(s \o t, p)
  BY ONLY <1>1, ConcatAppend
<1>3. PICK u \in Seq(S) : u = s \o t
  BY <1>2
<1>4. FramesOf(type, Append(u, p)) =
        IF p.type = type THEN FramesOf(type, u) \o p.frames ELSE FramesOf(type, u)
  BY <1>1, FramesAppended
<1> QED
  BY <1>2, <1>3, <1>4 DEF AndFrames

\* A frame joins the ones of a message.
LEMMA FrameJoins ==
    ASSUME NEW x \in Seq(Frame), NEW y \in Seq(Frame), NEW frame \in Frame
    PROVE  x \o Append(y, frame) = (x \o y) \o <<frame>>
<1> DEFINE S == Frame
<1>1. x \in Seq(S) /\ y \in Seq(S) /\ frame \in S
  OBVIOUS
<1> HIDE DEF S
<1>2. x \o y \in Seq(S) /\ x \o Append(y, frame) = Append(x \o y, frame)
  BY ONLY <1>1, ConcatAppend
<1>3. PICK u \in Seq(S) : u = x \o y
  BY <1>2
<1>4. Append(u, frame) = u \o <<frame>>
  BY <1>1, AppendIsConcat
<1> QED
  BY <1>2, <1>3, <1>4

LEMMA Tables == PatPmt \in TsMessage /\ PatPmt.type = "pat" /\ PatPmt.frames = << >>
BY DEF PatPmt, TsMessage

LEMMA PacketMessage ==
    ASSUME NEW msg \in TsMessage, NEW own
    PROVE  LET packet == [msg EXCEPT !.pcr = msg.pcr \/ own]
           IN  packet \in TsMessage /\ packet.type = msg.type /\ packet.frames = msg.frames
<1> DEFINE pcr == msg.pcr \/ own
           packet == [msg EXCEPT !.pcr = pcr]
<1>1. pcr \in BOOLEAN
  BY DEF TsMessage
<1> HIDE DEF pcr
<1>2. packet = [type |-> msg.type, dts |-> msg.dts, pcr |-> pcr, frames |-> msg.frames]
  BY DEF TsMessage
<1>3. packet \in TsMessage /\ packet.type = msg.type /\ packet.frames = msg.frames
  BY <1>1, <1>2 DEF TsMessage
<1> QED
  BY <1>3 DEF pcr

LEMMA ClosedType ==
    ASSUME NEW h, HlsInv(h), NEW f
    PROVE  LET c == segment_close(h, f)
           IN  /\ HlsType(c.hls) /\ Numbering(c.hls) /\ Stored(c.hls)
               /\ c.hls.current = NULL /\ c.hls.writing = FALSE
               /\ c.hls.audio = h.audio /\ c.hls.video = h.video
               /\ h.current # NULL /\ f = {} /\ h.writing => c.ok
<1>1. LET c == segment_close(h, f)
      IN  /\ c.ok \in BOOLEAN /\ HlsType(c.hls) /\ Numbering(c.hls) /\ Stored(c.hls)
          /\ c.hls.current = NULL /\ c.hls.writing = FALSE
          /\ c.hls.enabled = h.enabled
          /\ c.hls.audio = h.audio /\ c.hls.video = h.video
          /\ h.current = NULL => c.hls = h
          /\ Chained(h.segments) /\ Joined(h) => Chained(c.hls.segments)
          /\ h.current # NULL /\ f = {} /\ h.writing =>
                /\ c.ok /\ (~ h.stale => ~ c.hls.stale)
                /\ Kept(h.current) =>
                      /\ c.hls.segments # << >>
                      /\ c.hls.segments[Len(c.hls.segments)] = h.current
  BY SegmentClosed, Zenon
<1> QED
  BY <1>1, Zenon

-----------------------------------------------------------------------------
(* What the steps that do not write leave alone.                            *)

SameFile(h, k) ==
    /\ SameWindow(h, k)
    /\ k.tmp = h.tmp /\ k.context = h.context /\ k.out = h.out
    /\ k.current.by = h.current.by
    /\ h.current.codec.a # "none" => k.current.codec.a # "none"

LEMMA SameFileTrans ==
    ASSUME NEW h, NEW k, NEW l, SameFile(h, k), SameFile(k, l)
    PROVE  SameFile(h, l)
<1>1. SameWindow(h, l)
  BY SameWindowTrans DEF SameFile
<1> QED
  BY <1>1 DEF SameFile

\* A change of the current segment that keeps what opened it.
LEMMA SegmentFile ==
    ASSUME NEW h, HlsType(h), h.current # NULL, NEW s,
           SameWindow(h, [h EXCEPT !.current = s]),
           s.by = h.current.by, h.current.codec.a # "none" => s.codec.a # "none"
    PROVE  SameFile(h, [h EXCEPT !.current = s])
BY DEF SameFile, HlsType, HlsFields

\* update_duration().
LEMMA DurationFile ==
    ASSUME NEW h, HlsType(h), h.current # NULL, NEW dts \in Nat
    PROVE  SameFile(h, update_duration(h, dts))
<1> DEFINE s == append(h.current, dts)
<1>1. DOMAIN h.current = {"no", "start", "dur", "sh", "by", "follows", "codec", "first"}
  BY SegmentFields DEF HlsType
<1>2. s.by = h.current.by /\ s.codec = h.current.codec
  BY <1>1 DEF append
<1>3. update_duration(h, dts) = [h EXCEPT !.current = s]
  BY DEF update_duration
<1>4. SameWindow(h, update_duration(h, dts))
  BY DurationUpdated
<1> HIDE DEF s
<1> QED
  BY <1>2, <1>3, <1>4, SegmentFile

\* on_sequence_header().
LEMMA HeaderFile ==
    ASSUME NEW h, HlsType(h), h.current # NULL
    PROVE  LET k == on_sequence_header(h)
           IN  SameFile(h, k) /\ k.current.start = h.current.start /\ k.current.dur = h.current.dur
<1> DEFINE s == [h.current EXCEPT !.sh = TRUE]
<1>1. DOMAIN h.current = {"no", "start", "dur", "sh", "by", "follows", "codec", "first"}
  BY SegmentFields DEF HlsType
<1>2. /\ s.by = h.current.by /\ s.codec = h.current.codec
      /\ s.start = h.current.start /\ s.dur = h.current.dur
  BY <1>1
<1>3. on_sequence_header(h) = [h EXCEPT !.current = s]
  BY DEF on_sequence_header
<1>4. SameWindow(h, on_sequence_header(h))
  BY HeaderMarked
<1> HIDE DEF s
<1>5. SameFile(h, on_sequence_header(h))
  BY <1>2, <1>3, <1>4, SegmentFile
<1>6. on_sequence_header(h).current = s
  BY <1>3 DEF HlsType, HlsFields
<1> QED
  BY <1>2, <1>5, <1>6

\* A change of the cache alone.
LEMMA CacheFile ==
    ASSUME NEW h, HlsType(h), NEW av \in {"audio", "video"}, NEW m \in TsMessage \cup {NULL}
    PROVE  SameFile(h, [h EXCEPT ![av] = m])
<1> DEFINE k == [h EXCEPT ![av] = m]
<1>1. SameWindow(h, k) /\ k.current = h.current
  BY CacheChanged
<1>2. k.tmp = h.tmp /\ k.context = h.context /\ k.out = h.out
  BY DEF HlsType, HlsFields
<1> QED
  BY <1>1, <1>2 DEF SameFile

\* set_latest_acodec() and set_latest_vcodec().
LEMMA LatestCodecFile ==
    ASSUME NEW h, HlsType(h), h.current # NULL,
           NEW av, NEW codec, <<av, codec>> \in {<<"a", "aac">>, <<"v", "avc">>}
    PROVE  LET k == set_latest_codec(h, av, codec)
           IN  SameFile(h, k) /\ k.current.start = h.current.start /\ k.current.dur = h.current.dur
<1> DEFINE own == [h.current.codec EXCEPT ![av] = codec]
           latest == [h.latest EXCEPT ![av] = codec]
           s == [h.current EXCEPT !.codec = own]
           k == set_latest_codec(h, av, codec)
<1>1. /\ DOMAIN h.current = {"no", "start", "dur", "sh", "by", "follows", "codec", "first"}
      /\ h.current.codec \in Codecs /\ h.current.first \in Nat \cup {-1}
  BY SegmentFields DEF HlsType
<1>2. h.current.codec.a # "none" => own.a # "none"
  BY <1>1 DEF Codecs
<1>3. k = [h EXCEPT !.current = s, !.latest = latest]
  BY DEF set_latest_codec
<1> HIDE DEF own, latest
<1>4. /\ s.by = h.current.by /\ s.codec = own
      /\ s.start = h.current.start /\ s.dur = h.current.dur
  BY <1>1
<1>5. SameWindow(h, k)
  BY LatestCodecSet
<1> HIDE DEF s, k
<1>6. k.current = s /\ k.tmp = h.tmp /\ k.context = h.context /\ k.out = h.out
  BY <1>3 DEF HlsType, HlsFields
<1> QED
  BY <1>2, <1>4, <1>5, <1>6 DEF SameFile, k

-----------------------------------------------------------------------------
(* What the segments hold, whatever fails.                                  *)

\* The frames of a message, or of none, come after others.
Joins(frames, msg) == IF msg = NULL THEN frames ELSE frames \o msg.frames

\* The frames of a kind that the segments hold, and those with the cached ones.
Total(type, h) == FramesOf(type, h.out \o Held(h))

All(type, h) == Joins(Total(type, h), h[type])

\* Files and closed segments are sequences of messages, and frames are cached by kind.
Booked(h) ==
    /\ h.out \in Seq(TsMessage)
    /\ h.writing => h.tmp[h.current.no] \in Seq(TsMessage)
    /\ \A type \in Kinds : h[type] # NULL => h[type].type = type

\* No frame comes or goes.
Keeps(h, k) == Booked(k) /\ \A type \in Kinds : All(type, k) = All(type, h)

LEMMA KeepsTrans ==
    ASSUME NEW h, NEW k, NEW l, Keeps(h, k), Keeps(k, l)
    PROVE  Keeps(h, l)
BY DEF Keeps

LEMMA HeldSeq ==
    ASSUME NEW h, Booked(h)
    PROVE  /\ Held(h) \in Seq(TsMessage) /\ h.out \in Seq(TsMessage)
           /\ h.out \o Held(h) \in Seq(TsMessage)
           /\ \A type : Total(type, h) \in Seq(Frame)
<1>1. Held(h) \in Seq(TsMessage) /\ h.out \in Seq(TsMessage)
  BY DEF Held, Booked
<1>2. h.out \o Held(h) \in Seq(TsMessage)
  BY <1>1, ConcatProperties
<1> QED
  BY <1>1, <1>2, FramesTyped DEF Total

\* What changes neither files nor caches.
SameBook(h, k) ==
    /\ k.out = h.out /\ Held(k) = Held(h) /\ (k.writing => h.writing)
    /\ k.writing => k.tmp[k.current.no] = h.tmp[h.current.no]
    /\ k.audio = h.audio /\ k.video = h.video

LEMMA SameBookKeeps ==
    ASSUME NEW h, NEW k, Booked(h), SameBook(h, k)
    PROVE  Keeps(h, k) /\ Booked(k) /\ \A type \in Kinds : Total(type, k) = Total(type, h)
<1>1. \A type \in Kinds : k[type] = h[type]
  BY DEF SameBook, Kinds
<1>2. Booked(k)
  BY <1>1 DEF SameBook, Booked
<1>3. \A type \in Kinds : Total(type, k) = Total(type, h)
  BY DEF SameBook, Total
<1> QED
  BY <1>1, <1>2, <1>3 DEF Keeps, All

LEMMA SameFileBook ==
    ASSUME NEW h, NEW k, SameFile(h, k), h.writing => h.current # NULL,
           k.audio = h.audio, k.video = h.video
    PROVE  SameBook(h, k)
BY DEF SameFile, SameWindow, SameBook, Held

\* A message that was written is in the segments.
Adds(h, k, ok, p) ==
    \A type \in Kinds :
        Total(type, k) = IF ok /\ p.type = type THEN Total(type, h) \o p.frames
                         ELSE Total(type, h)

\* SrsFileWriter::write: the packet ends the file, or nothing is written.
LEMMA WrittenBook ==
    ASSUME NEW h, HlsInv(h), Booked(h), NEW packet \in TsMessage, NEW call, NEW f
    PROVE  LET r == write(h, packet, call, f)
           IN  HlsInv(r.hls) /\ Booked(r.hls) /\ Adds(h, r.hls, r.ok, packet)
<1> DEFINE r == write(h, packet, call, f)
<1>1. HlsType(h) /\ (h.writing => h.current # NULL /\ h.current.no \in DOMAIN h.tmp)
  BY DEF HlsInv, HlsOpen
<1>2. /\ SameWindow(h, r.hls) /\ r.hls.current = h.current
      /\ r.hls.audio = h.audio /\ r.hls.video = h.video
  BY <1>1, Written
<1>3. HlsInv(r.hls)
  BY <1>2, SameWindowInv
<1>4. CASE ~ h.writing \/ call \in f
  <2>1. r.hls = h /\ r.ok = FALSE
    BY <1>4 DEF write, Failed
  <2> QED
    BY <1>3, <2>1 DEF Adds
<1>5. CASE ~(~ h.writing \/ call \in f)
  <2> DEFINE no == h.current.no
             more == [h.tmp EXCEPT ![no] = Append(@, packet)]
  <2>1. r.ok = TRUE /\ r.hls = [h EXCEPT !.tmp = more]
    BY <1>5 DEF write, Done
  <2>2. more[no] = Append(h.tmp[no], packet)
    BY <1>1, <1>5
  <2> HIDE DEF more
  <2>3. r.hls.tmp = more /\ r.hls.out = h.out /\ r.hls.writing = h.writing
    BY <1>1, <2>1 DEF HlsType, HlsFields
  <2>4. h.tmp[no] \in Seq(TsMessage) /\ h.out \in Seq(TsMessage) /\ Held(h) = h.tmp[no]
    BY <1>5 DEF Booked, Held
  <2>5. more[no] \in Seq(TsMessage)
    BY <2>2, <2>4
  <2>6. Held(r.hls) = more[no] /\ r.hls.tmp[r.hls.current.no] = more[no]
    BY <1>2, <1>5, <2>3 DEF Held
  <2>7. Booked(r.hls)
    <3>1. \A type \in Kinds : r.hls[type] = h[type]
      BY <1>2 DEF Kinds
    <3> QED
      BY <2>3, <2>4, <2>5, <2>6, <3>1 DEF Booked
  <2>8. ASSUME NEW type \in Kinds
        PROVE  Total(type, r.hls) = IF packet.type = type THEN Total(type, h) \o packet.frames
                                    ELSE Total(type, h)
    <3> PICK s \in Seq(TsMessage), t \in Seq(TsMessage) : s = h.out /\ t = h.tmp[no]
      BY <2>4
    <3>1. s \in Seq(TsMessage) /\ t \in Seq(TsMessage) /\ packet \in TsMessage
      OBVIOUS
    <3>2. FramesOf(type, s \o Append(t, packet)) =
            AndFrames(type, FramesOf(type, s \o t), packet)
      BY ONLY <3>1, FramesWritten
    <3>3. /\ Total(type, h) = FramesOf(type, s \o t)
          /\ Total(type, r.hls) = FramesOf(type, s \o Append(t, packet))
      BY <2>2, <2>3, <2>4, <2>6 DEF Total
    <3> QED
      BY <3>2, <3>3 DEF AndFrames
  <2> QED
    BY <1>3, <2>1, <2>7, <2>8 DEF Adds
<1> QED
  BY <1>4, <1>5

\* SrsTsContext::encode: the message is written as a whole or not at all; the tables hold
\* no frames.
LEMMA EncodedBook ==
    ASSUME NEW h, HlsInv(h), Booked(h), NEW msg \in TsMessage, NEW f
    PROVE  LET r == encode(h, msg, f)
           IN  HlsInv(r.hls) /\ Booked(r.hls) /\ Adds(h, r.hls, r.ok, msg)
<1> DEFINE own == [h EXCEPT !.context = h.current.codec]
           pat == IF h.context = h.current.codec THEN Done(h) ELSE write(own, PatPmt, "pat", f)
           pcr == msg.pcr \/ (h.current.codec.v # "avc" /\ msg.type = "audio")
           packet == [msg EXCEPT !.pcr = pcr]
           pes == write(pat.hls, packet, "pes", f)
           r == encode(h, msg, f)
<1>1. r = IF pat.ok THEN pes ELSE pat
  BY DEF encode, Then
<1>2. packet \in TsMessage /\ packet.type = msg.type /\ packet.frames = msg.frames
  BY PacketMessage
<1> HIDE DEF packet
<1>3. /\ HlsInv(pat.hls) /\ Booked(pat.hls)
      /\ \A type \in Kinds : Total(type, pat.hls) = Total(type, h)
  <2>1. CASE h.context = h.current.codec
    BY <2>1 DEF Done
  <2>2. CASE h.context # h.current.codec
    <3>1. pat = write(own, PatPmt, "pat", f)
      BY <2>2
    <3>2. /\ SameWindow(h, own) /\ own.tmp = h.tmp /\ own.out = h.out
          /\ own.current = h.current /\ own.audio = h.audio /\ own.video = h.video
          /\ own.writing = h.writing
      <4> DEFINE codec == h.current.codec
      <4>1. own = [h EXCEPT !.context = codec]
        OBVIOUS
      <4> HIDE DEF codec, own
      <4> QED
        BY <4>1 DEF HlsInv, HlsType, HlsFields, SameWindow
    <3> HIDE DEF own, pat
    <3>3. HlsInv(own)
      BY <3>2, SameWindowInv
    <3>4. SameBook(h, own)
      BY <3>2 DEF SameBook, Held
    <3>5. Booked(own) /\ \A type \in Kinds : Total(type, own) = Total(type, h)
      BY <3>4, SameBookKeeps
    <3>6. HlsInv(pat.hls) /\ Booked(pat.hls) /\ Adds(own, pat.hls, pat.ok, PatPmt)
      <4>1. PICK k, tables : k = own /\ tables = PatPmt
        OBVIOUS
      <4>2. HlsInv(k) /\ Booked(k) /\ tables \in TsMessage
        BY <3>3, <3>5, <4>1, Tables
      <4>3. LET w == write(k, tables, "pat", f)
            IN  HlsInv(w.hls) /\ Booked(w.hls) /\ Adds(k, w.hls, w.ok, tables)
        BY ONLY <4>2, WrittenBook, Zenon
      <4> QED
        BY <3>1, <4>1, <4>3
    <3> QED
      BY <3>5, <3>6, Tables DEF Kinds, Adds
  <2> QED
    BY <2>1, <2>2
<1> HIDE DEF pat
<1>4. HlsInv(pes.hls) /\ Booked(pes.hls) /\ Adds(pat.hls, pes.hls, pes.ok, packet)
  BY <1>2, <1>3, WrittenBook
<1> HIDE DEF pes, r
<1>5. CASE pat.ok
  BY <1>1, <1>2, <1>3, <1>4, <1>5 DEF r, Adds
<1>6. CASE ~ pat.ok
  BY <1>1, <1>3, <1>6 DEF r, Adds
<1> QED
  BY <1>5, <1>6

\* flush_audio() and flush_video(): what is written leaves the cache, and nothing else.
LEMMA FlushedBook ==
    ASSUME NEW h, HlsInv(h), Booked(h), NEW av \in Kinds, NEW f
    PROVE  HlsInv(flush(h, av, f).hls) /\ Keeps(h, flush(h, av, f).hls)
<1> DEFINE r == flush(h, av, f)
<1>0. HlsType(h) /\ (h.writing => h.current # NULL)
  BY DEF HlsInv, HlsOpen
<1>1. CASE h.current = NULL \/ Unused(h[av])
  <2>1. r.hls = h
    BY <1>1 DEF flush, Done
  <2> QED
    BY <2>1 DEF Keeps
<1>2. CASE ~(h.current = NULL \/ Unused(h[av]))
  <2> DEFINE timed == update_duration(h, h[av].dts)
             e == encode(timed, h[av], f)
             out == [e.hls EXCEPT ![av] = NULL]
  <2>1. h[av] \in TsMessage /\ h[av] # NULL /\ h[av].dts \in Nat /\ h[av].type = av
    <3>1. h[av] \in TsMessage /\ h[av] # NULL
      BY <1>0, <1>2 DEF HlsType, Unused, Kinds
    <3> QED
      BY <3>1, MessageFields DEF Booked
  <2>2. r = IF e.ok THEN Done(out) ELSE e
    BY <1>2 DEF flush, Then
  <2>3. /\ SameWindow(h, timed) /\ SameFile(h, timed)
        /\ timed.audio = h.audio /\ timed.video = h.video
    BY <1>0, <1>2, <2>1, DurationUpdated, DurationFile
  <2> HIDE DEF timed
  <2>4. /\ HlsInv(timed) /\ Booked(timed)
        /\ \A type \in Kinds : Total(type, timed) = Total(type, h)
    BY <1>0, <2>3, SameWindowInv, SameFileBook, SameBookKeeps
  <2>5. /\ HlsInv(e.hls) /\ Booked(e.hls)
        /\ \A type \in Kinds :
              Total(type, e.hls) = IF e.ok /\ type = av THEN Total(type, h) \o h[av].frames
                                   ELSE Total(type, h)
    <3>1. HlsInv(e.hls) /\ Booked(e.hls) /\ Adds(timed, e.hls, e.ok, h[av])
      BY <2>1, <2>4, EncodedBook
    <3> QED
      BY <2>1, <2>4, <3>1 DEF Adds
  <2>6. e.hls.audio = h.audio /\ e.hls.video = h.video
    BY <2>3, <2>4, Encoded DEF HlsInv
  <2> HIDE DEF e
  <2>7. HlsType(e.hls)
    BY <2>5 DEF HlsInv
  <2>8. /\ SameWindow(e.hls, out) /\ SameFile(e.hls, out) /\ out[av] = NULL
        /\ \A bv \in Kinds \ {av} : out[bv] = e.hls[bv]
    BY <2>7, CacheChanged, CacheFile DEF Kinds
  <2>9. out.out = e.hls.out /\ Held(out) = Held(e.hls)
    <3>1. e.hls.writing => e.hls.current # NULL
      BY <2>5 DEF HlsInv, HlsOpen
    <3> QED
      BY <2>8, <3>1 DEF SameFile, SameWindow, Held
  <2>10. \A type \in Kinds : Total(type, out) = Total(type, e.hls)
    BY <2>9 DEF Total
  <2> HIDE DEF out
  <2>11. CASE e.ok
    <3>1. r.hls = out
      BY <2>2, <2>11 DEF Done
    <3>2. HlsInv(out)
      BY <2>5, <2>8, SameWindowInv
    <3>3. Booked(out)
      <4>1. out.writing = e.hls.writing
        BY <2>8 DEF SameWindow
      <4>2. out.out \in Seq(TsMessage)
        BY <2>5, <2>9 DEF Booked
      <4>3. out.writing => out.tmp[out.current.no] \in Seq(TsMessage)
        BY <2>5, <2>9, <4>1, HeldSeq DEF Held
      <4>4. \A type \in Kinds : out[type] # NULL => out[type].type = type
        BY <2>5, <2>8 DEF Booked
      <4> QED
        BY <4>2, <4>3, <4>4 DEF Booked
    <3>4. ASSUME NEW type \in Kinds PROVE All(type, out) = All(type, h)
      <4>1. CASE type = av
        <5>1. All(type, out) = Total(type, h) \o h[av].frames
          BY <2>5, <2>8, <2>10, <2>11, <4>1 DEF All, Joins
        <5> QED
          BY <2>1, <4>1, <5>1 DEF All, Joins
      <4>2. CASE type # av
        <5>1. out[type] = h[type]
          BY <2>6, <2>8, <4>2 DEF Kinds
        <5>2. Total(type, out) = Total(type, h)
          BY <2>5, <2>10, <4>2
        <5> QED
          BY <5>1, <5>2 DEF All
      <4> QED
        BY <4>1, <4>2
    <3> HIDE DEF r
    <3> QED
      BY <3>1, <3>2, <3>3, <3>4 DEF Keeps, r
  <2>12. CASE ~ e.ok
    <3>1. r.hls = e.hls
      BY <2>2, <2>12
    <3>2. \A type \in Kinds : e.hls[type] = h[type]
      BY <2>6 DEF Kinds
    <3>3. \A type \in Kinds : All(type, e.hls) = All(type, h)
      BY <2>5, <2>12, <3>2 DEF All
    <3> HIDE DEF r
    <3> QED
      BY <2>5, <3>1, <3>3 DEF Keeps, r
  <2> QED
    BY <2>11, <2>12
<1> QED
  BY <1>1, <1>2

\* refresh_m3u8() and clear_expired() write to no segment.
LEMMA RefreshedOut ==
    ASSUME NEW h, HlsType(h), NEW f
    PROVE  Refreshed(h, f).hls.out = h.out
<1> DEFINE s == shrink(h)
           m == refresh_m3u8(s, f)
           r == Refreshed(h, f)
<1>1. DOMAIN s = HlsFields /\ s.out = h.out
  <2>1. PICK n : s = [h EXCEPT !.segments = SubSeq(@, n + 1, Len(@)),
                               !.expired = @ \o SubSeq(h.segments, 1, n)]
    BY Shrunk
  <2> QED
    BY <2>1 DEF HlsType, HlsFields
<1> HIDE DEF s
<1>2. DOMAIN m = {"hls", "ok"} /\ DOMAIN m.hls = HlsFields /\ m.hls.out = h.out
  <2>1. CASE s.segments = << >>
    BY <1>1, <2>1 DEF refresh_m3u8, Done
  <2>2. CASE s.segments # << >> /\ "m3u8" \in f
    <3>1. m = Failed([s EXCEPT !.stale = TRUE])
      BY <2>2 DEF refresh_m3u8
    <3> QED
      BY <1>1, <3>1 DEF Failed, HlsFields
  <2>3. CASE s.segments # << >> /\ "m3u8" \notin f
    <3> DEFINE new == [s EXCEPT !.m3u8 = s.segments, !.stale = FALSE]
    <3>1. m = Done(new)
      BY <2>3 DEF refresh_m3u8
    <3>2. DOMAIN new = HlsFields /\ new.out = s.out
      BY <1>1 DEF HlsFields
    <3> HIDE DEF new
    <3> QED
      BY <1>1, <3>1, <3>2 DEF Done
  <2> QED
    BY <2>1, <2>2, <2>3
<1>3. r = [m EXCEPT !.hls = clear_expired(@, f)]
  BY DEF Refreshed, s
<1> HIDE DEF m
<1>4. r.hls = clear_expired(m.hls, f)
  BY <1>2, <1>3
<1> DEFINE rest == IF "unlink" \in f THEN m.hls.files
                   ELSE Restrict(m.hls.files, DOMAIN m.hls.files \ Numbers(m.hls.expired))
<1>5. clear_expired(m.hls, f) = [m.hls EXCEPT !.expired = << >>, !.files = rest]
  BY <1>2 DEF clear_expired
<1> HIDE DEF rest, r
<1>6. r.hls.out = h.out
  BY <1>2, <1>4, <1>5 DEF HlsFields
<1> QED
  BY <1>6 DEF r

\* segment_close(): what the file held is in the segment that is closed, whatever fails.
LEMMA ClosedBook ==
    ASSUME NEW h, HlsInv(h), Booked(h), NEW f
    PROVE  Keeps(h, segment_close(h, f).hls)
<1> DEFINE r == segment_close(h, f)
           d == do_segment_close(h, f)
           no == h.current.no
           out == h.out \o Held(h)
           rest == Restrict(h.tmp, DOMAIN h.tmp \ {no})
           files == With(h.files, no, h.tmp[no])
           segs == Append(h.segments, h.current)
           c == [h EXCEPT !.writing = FALSE, !.out = out]
           lost == h.lost \cup {no}
           gone == [c EXCEPT !.lost = lost]
           kept == [c EXCEPT !.tmp = rest, !.files = files, !.segments = segs]
           back == [c EXCEPT !.sequence_no = @ - 1]
           dropped == [back EXCEPT !.tmp = rest]
<1>1. CASE h.current = NULL
  <2>1. r.hls = h
    BY <1>1 DEF segment_close, Done
  <2> QED
    BY <2>1 DEF Keeps
<1>2. CASE h.current # NULL
  <2>1. /\ HlsType(h) /\ DOMAIN h = HlsFields
        /\ h.segments \in Seq(Segment) /\ h.current \in Segment
        /\ h.sequence_no \in Nat /\ h.sequence_no - 1 = no /\ no \in Nat
    BY <1>2, WindowFacts DEF HlsInv, HlsType
  <2>2. segs \in Seq(Segment)
    BY <2>1
  <2> HIDE DEF files, rest, out, segs
  <2>3. d = CASE Kept(h.current) /\ (no \notin DOMAIN h.tmp \/ "rename" \in f) -> Failed(gone)
              [] Kept(h.current) /\ no \in DOMAIN h.tmp /\ "rename" \notin f -> Refreshed(kept, f)
              [] ~ Kept(h.current) /\ no \in DOMAIN h.tmp /\ "unlink" \in f -> Failed(back)
              [] OTHER -> Refreshed(dropped, f)
    BY DEF do_segment_close, out, rest, files, segs
  <2>4. /\ DOMAIN c = HlsFields /\ c.out = out
        /\ \A x \in HlsFields \ {"writing", "out"} : c[x] = h[x]
        /\ c.writing = FALSE
    BY <2>1 DEF HlsFields
  <2> HIDE DEF c, d, lost
  <2>5. /\ gone.out = out
        /\ kept.out = out /\ DOMAIN kept = HlsFields /\ kept.segments = segs
        /\ kept.writing = FALSE
        /\ \A x \in HlsFields \ {"writing", "out", "tmp", "files", "segments"} : kept[x] = h[x]
    BY <2>4 DEF HlsFields
  <2>6. /\ back.out = out
        /\ dropped.out = out /\ DOMAIN dropped = HlsFields /\ dropped.sequence_no = no
        /\ dropped.writing = FALSE
        /\ \A x \in HlsFields \ {"writing", "out", "tmp", "sequence_no"} : dropped[x] = h[x]
    BY <2>1, <2>4 DEF HlsFields
  <2> HIDE DEF gone, kept, back, dropped
  <2>7. HlsType(kept) /\ HlsType(dropped)
    <3>1. HlsType(kept)
      BY <2>1, <2>2, <2>5 DEF HlsType, HlsFields
    <3>2. HlsType(dropped)
      BY <2>1, <2>6 DEF HlsType, HlsFields
    <3> QED
      BY <3>1, <3>2
  <2>8. Refreshed(kept, f).hls.out = out /\ Refreshed(dropped, f).hls.out = out
    BY <2>5, <2>6, <2>7, RefreshedOut
  <2>9. d.hls.out = out
    BY <2>3, <2>5, <2>6, <2>8 DEF Failed
  <2>10. DOMAIN d = {"hls", "ok"} /\ Slid(h, d, f)
    BY <1>2, DoSegmentClosed DEF d
  <2> DEFINE k == [d.hls EXCEPT !.current = NULL]
  <2>11. r = [d EXCEPT !.hls = k]
    BY <1>2, <2>10 DEF segment_close, d
  <2>12. /\ k.out = out /\ k.writing = FALSE
         /\ k.audio = h.audio /\ k.video = h.video
    BY <2>9, <2>10 DEF Slid, HlsFields
  <2> HIDE DEF k, r
  <2>13. r.hls = k
    BY <2>10, <2>11
  <2>14. out \in Seq(TsMessage)
    BY HeldSeq DEF out
  <2>15. k.out \o Held(k) = h.out \o Held(h)
    <3>1. Held(k) = << >> /\ out \o << >> = out
      BY <2>12, <2>14, ConcatEmptySeq DEF Held
    <3> QED
      BY <2>12, <3>1 DEF out
  <2>16. \A type \in Kinds : k[type] = h[type]
    BY <2>12 DEF Kinds
  <2>17. Booked(k)
    BY <2>12, <2>14, <2>16 DEF Booked
  <2>18. \A type \in Kinds : All(type, k) = All(type, h)
    BY <2>15, <2>16 DEF All, Total
  <2>19. Keeps(h, k)
    BY <2>17, <2>18 DEF Keeps
  <2> QED
    BY <2>13, <2>19 DEF r
<1> QED
  BY <1>1, <1>2

\* segment_open(): the new file holds nothing.
LEMMA OpenedBook ==
    ASSUME NEW h, HlsType(h), Booked(h), h.writing => h.current # NULL,
           NEW by, NEW follows, NEW f
    PROVE  Keeps(h, segment_open(h, by, follows, f).hls)
<1> DEFINE seg == [no |-> h.sequence_no, start |-> -1, dur |-> 0, sh |-> FALSE, by |-> by,
                   follows |-> follows, first |-> -1,
                   codec |-> [a |-> DefaultCodec(h.latest.a, "aac"),
                              v |-> DefaultCodec(h.latest.v, "avc")]]
           new == [h EXCEPT !.current = seg, !.sequence_no = @ + 1]
           tmp == With(h.tmp, seg.no, << >>)
           k == [new EXCEPT !.writing = TRUE, !.tmp = tmp,
                            !.context = [a |-> "none", v |-> "none"]]
           r == segment_open(h, by, follows, f)
<1>1. CASE h.current # NULL
  <2>1. r.hls = h
    BY <1>1 DEF segment_open, Done
  <2> QED
    BY <2>1 DEF Keeps
<1>2. CASE h.current = NULL
  <2>1. h.writing = FALSE
    BY <1>2 DEF HlsType
  <2>2. r = IF "open" \in f THEN Failed(new) ELSE Done(k)
    BY <1>2, <2>1 DEF segment_open
  <2>3. tmp[seg.no] = << >> /\ << >> \in Seq(TsMessage)
    BY DEF With
  <2> HIDE DEF seg, tmp
  <2>4. /\ DOMAIN new = HlsFields /\ new.current = seg
        /\ new.writing = FALSE /\ new.out = h.out
        /\ new.audio = h.audio /\ new.video = h.video
    BY <2>1 DEF HlsType, HlsFields
  <2> HIDE DEF new
  <2>5. /\ k.current = seg /\ k.writing = TRUE /\ k.out = h.out /\ k.tmp = tmp
        /\ k.audio = h.audio /\ k.video = h.video
    BY <2>4 DEF HlsFields
  <2> HIDE DEF k
  <2>6. Held(new) = << >> /\ Held(k) = << >> /\ Held(h) = << >>
    BY <2>1, <2>3, <2>4, <2>5 DEF Held
  <2>7. Keeps(h, new)
    BY <2>1, <2>4, <2>6, SameBookKeeps DEF SameBook
  <2>8. Keeps(h, k)
    <3>1. \A type \in Kinds : k[type] = h[type]
      BY <2>5 DEF Kinds
    <3>2. Booked(k)
      BY <2>3, <2>5, <3>1 DEF Booked
    <3>3. \A type \in Kinds : All(type, k) = All(type, h)
      BY <2>5, <2>6, <3>1 DEF All, Total
    <3> QED
      BY <3>2, <3>3 DEF Keeps
  <2> HIDE DEF r
  <2> QED
    BY <2>2, <2>7, <2>8 DEF Failed, Done, r
<1> QED
  BY <1>1, <1>2

\* reap_segment().
LEMMA ReapedBook ==
    ASSUME NEW h, HlsInv(h), h.current # NULL, Booked(h), NEW av \in Kinds, NEW f
    PROVE  Keeps(h, reap_segment(h, av, f).hls)
<1> DEFINE closed == segment_close(h, f)
           open == segment_open(closed.hls, av, Kept(h.current), f)
           opened == [open EXCEPT !.ok = @ /\ closed.ok]
           video == flush(opened.hls, "video", f)
           audio == flush(video.hls, "audio", f)
           both == Then(video, LAMBDA v : flush(v, "audio", f))
           r == reap_segment(h, av, f)
<1>1. Keeps(h, closed.hls) /\ Booked(closed.hls)
  BY ClosedBook DEF Keeps
<1>2. /\ HlsType(closed.hls) /\ Numbering(closed.hls) /\ Stored(closed.hls)
      /\ closed.hls.current = NULL /\ closed.hls.writing = FALSE
  <2>1. LET c == segment_close(h, f)
        IN  /\ HlsType(c.hls) /\ Numbering(c.hls) /\ Stored(c.hls)
            /\ c.hls.current = NULL /\ c.hls.writing = FALSE
            /\ c.hls.audio = h.audio /\ c.hls.video = h.video
            /\ h.current # NULL /\ f = {} /\ h.writing => c.ok
    BY ClosedType, Zenon
  <2> QED
    BY <2>1, Zenon
<1> HIDE DEF closed
<1>3. av \in {"publish", "audio", "video"} /\ Kept(h.current) \in BOOLEAN
  BY DEF Kept, Kinds
<1>4. HlsInv(open.hls)
  BY <1>2, <1>3, SegmentOpened
<1>5. Keeps(closed.hls, open.hls)
  BY <1>1, <1>2, OpenedBook
<1>6. opened.hls = open.hls
  BY DEF segment_open, Done, Failed
<1> HIDE DEF open, opened
<1>7. HlsInv(opened.hls) /\ Booked(opened.hls) /\ Keeps(h, opened.hls)
  <2>1. Keeps(h, open.hls)
    BY <1>1, <1>5, KeepsTrans
  <2> QED
    BY <1>4, <1>6, <2>1 DEF Keeps
<1>8. "video" \in Kinds /\ "audio" \in Kinds
  BY DEF Kinds
<1>9. HlsInv(video.hls) /\ Keeps(opened.hls, video.hls) /\ Booked(video.hls)
  BY <1>7, <1>8, FlushedBook DEF Keeps
<1>10. r = IF opened.ok THEN both ELSE opened
  BY DEF reap_segment, Then, opened, open, closed
<1>11. both = IF video.ok THEN audio ELSE video
  BY DEF Then
<1> HIDE DEF video, both, r
<1>12. Keeps(video.hls, audio.hls)
  BY <1>8, <1>9, FlushedBook
<1> HIDE DEF audio
<1>13. Keeps(h, video.hls) /\ Keeps(h, audio.hls)
  <2>1. Keeps(h, video.hls)
    BY <1>7, <1>9, KeepsTrans
  <2> QED
    BY <1>12, <2>1, KeepsTrans
<1>14. Keeps(h, r.hls)
  BY <1>7, <1>10, <1>11, <1>13
<1> QED
  BY <1>14 DEF r

\* A frame joins the others of its kind.
Grown(h, k, frame) ==
    /\ Booked(k)
    /\ \A type \in Kinds :
          All(type, k) = IF type = frame.type THEN All(type, h) \o <<frame>> ELSE All(type, h)

LEMMA GrownKeeps ==
    ASSUME NEW h, NEW k, NEW l, NEW frame, Grown(h, k, frame), Keeps(k, l)
    PROVE  Grown(h, l, frame)
BY DEF Grown, Keeps

\* cache_audio() and cache_video(): the frame joins the cache unless it is refused.
LEMMA CollectedBook ==
    ASSUME NEW h, HlsInv(h), h.current # NULL, Booked(h), NEW frame \in Frame, NEW f
    PROVE  LET k == Collected(h, frame, f)
           IN  IF "cache" \in f THEN Keeps(h, k) ELSE Grown(h, k, frame)
<1> DEFINE av == frame.type
           a == IF av = "audio" THEN "a" ELSE "v"
           c == IF av = "audio" THEN "aac" ELSE "avc"
           codec == set_latest_codec(h, a, c)
           m == Cached(codec[av], frame, f)
           k == [codec EXCEPT ![av] = m]
<1>1. av \in {"audio", "video"} /\ av \in Kinds /\ HlsType(h) /\ (h.writing => h.current # NULL)
  BY DEF Frame, Kinds, HlsInv
<1>2. /\ SameFile(h, codec) /\ SameWindow(h, codec)
      /\ codec.audio = h.audio /\ codec.video = h.video
  <2>1. <<a, c>> \in {<<"a", "aac">>, <<"v", "avc">>}
    OBVIOUS
  <2> HIDE DEF a, c
  <2> QED
    BY <1>1, <2>1, LatestCodecFile, LatestCodecSet
<1>3. Collected(h, frame, f) = k
  BY DEF Collected
<1> HIDE DEF a, c, codec
<1>4. /\ Booked(codec) /\ HlsInv(codec) /\ Keeps(h, codec)
      /\ \A type \in Kinds : Total(type, codec) = Total(type, h)
  BY <1>1, <1>2, SameFileBook, SameBookKeeps, SameWindowInv
<1>5. codec[av] \in TsMessage \cup {NULL} /\ codec[av] = h[av] /\ HlsType(codec)
  <2>1. HlsType(codec)
    BY <1>4 DEF HlsInv
  <2>2. CASE av = "audio"
    BY <1>2, <2>1, <2>2 DEF HlsType
  <2>3. CASE av = "video"
    BY <1>2, <2>1, <2>3 DEF HlsType
  <2> QED
    BY <1>1, <2>1, <2>2, <2>3
<1>6. /\ m \in TsMessage /\ m # NULL
      /\ m.type = av
      /\ m.frames = LET old == IF codec[av] = NULL THEN << >> ELSE codec[av].frames
                    IN  IF "cache" \in f THEN old ELSE Append(old, frame)
  <2>1. /\ m \in TsMessage
        /\ m.type = IF codec[av] = NULL THEN frame.type ELSE codec[av].type
        /\ m.frames = LET old == IF codec[av] = NULL THEN << >> ELSE codec[av].frames
                      IN  IF "cache" \in f THEN old ELSE Append(old, frame)
    BY <1>5, CachedMessage
  <2>2. codec[av] # NULL => codec[av].type = av
    BY <1>1, <1>4 DEF Booked
  <2> HIDE DEF m
  <2> QED
    BY <2>1, <2>2, MessageFields
<1> HIDE DEF m
<1>7. /\ SameWindow(codec, k) /\ SameFile(codec, k) /\ k[av] = m
      /\ \A bv \in Kinds \ {av} : k[bv] = codec[bv]
  BY <1>1, <1>5, <1>6, CacheChanged, CacheFile DEF Kinds
<1>8. k.out = codec.out /\ Held(k) = Held(codec)
  <2>1. codec.writing => codec.current # NULL
    BY <1>4 DEF HlsInv, HlsOpen
  <2> QED
    BY <1>7, <2>1 DEF SameFile, SameWindow, Held
<1> HIDE DEF k
<1>9. \A type \in Kinds : Total(type, k) = Total(type, h)
  BY <1>4, <1>8 DEF Total
<1>10. Booked(k)
  <2>1. k.writing = codec.writing
    BY <1>7 DEF SameWindow
  <2>2. k.out \in Seq(TsMessage)
    BY <1>4, <1>8 DEF Booked
  <2>3. k.writing => k.tmp[k.current.no] \in Seq(TsMessage)
    BY <1>4, <1>8, <2>1, HeldSeq DEF Held
  <2>4. \A type \in Kinds : k[type] # NULL => k[type].type = type
    BY <1>4, <1>6, <1>7 DEF Booked
  <2> QED
    BY <2>2, <2>3, <2>4 DEF Booked
<1>11. \A type \in Kinds \ {av} : All(type, k) = All(type, h)
  <2>1. \A type \in Kinds \ {av} : k[type] = h[type]
    BY <1>2, <1>7 DEF Kinds
  <2> QED
    BY <1>9, <2>1 DEF All
<1>12. All(av, k) = IF "cache" \in f THEN All(av, h) ELSE All(av, h) \o <<frame>>
  <2> PICK x \in Seq(Frame) : x = Total(av, h)
    BY HeldSeq
  <2>1. All(av, k) = x \o m.frames
    BY <1>1, <1>6, <1>7, <1>9 DEF All, Joins
  <2>2. CASE h[av] = NULL
    <3>1. All(av, h) = x
      BY <2>2 DEF All, Joins
    <3>2. x \o << >> = x /\ Append(<< >>, frame) = <<frame>>
      BY ConcatEmptySeq
    <3> QED
      BY <1>5, <1>6, <2>1, <2>2, <3>1, <3>2
  <2>3. CASE h[av] # NULL
    <3> PICK y : y = h[av].frames
      OBVIOUS
    <3>1. All(av, h) = x \o y
      BY <2>3 DEF All, Joins
    <3>2. y \in Seq(Frame)
      BY <1>5, <2>3 DEF TsMessage
    <3>3. x \o Append(y, frame) = (x \o y) \o <<frame>>
      BY <3>2, FrameJoins
    <3> QED
      BY <1>5, <1>6, <2>1, <2>3, <3>1, <3>3
  <2> QED
    BY <2>2, <2>3
<1> QED
  BY <1>3, <1>10, <1>11, <1>12 DEF Keeps, Grown

\* write_audio() and write_video(): a frame that the cache takes is written or cached,
\* whatever fails.
LEMMA FrameBook ==
    ASSUME NEW h, HlsInv(h), h.current # NULL, Booked(h), NEW frame \in Frame, NEW f
    PROVE  LET k == write_frame(h, frame, f).hls
           IN  IF "cache" \in f THEN Keeps(h, k) ELSE Grown(h, k, frame)
<1> DEFINE av == frame.type
           cached == Collected(h, frame, f)
           k == Timed(h, frame, f)
           cut == \/ frame.type = "audio" /\ is_segment_absolutely_overflow(k)
                  \/ frame.type = "video" /\ is_segment_overflow(k) /\ frame.key
           p == Reaped(k, frame, f)
           q == flush(p.hls, av, f)
           r == write_frame(h, frame, f)
<1>1. av \in {"audio", "video"} /\ av \in Kinds
  BY DEF Frame, Kinds
<1>2. r = IF "cache" \in f THEN Failed(cached) ELSE IF p.ok THEN q ELSE p
  BY DEF write_frame, Then, Timed, Collected
<1>3. HlsInv(cached) /\ HlsInv(k) /\ k.current # NULL /\ SameWindow(h, k)
  BY TimedFacts
<1>4. IF "cache" \in f THEN Keeps(h, cached) ELSE Grown(h, cached, frame)
  BY CollectedBook
<1>5. p = IF cut THEN reap_segment(k, av, f) ELSE Done(k)
  BY DEF Reaped
<1>6. k = update_duration(cached, cached[av].dts)
  BY DEF Timed
<1> HIDE DEF cut, p, q, r
<1>7. CASE "cache" \in f
  BY <1>2, <1>4, <1>7 DEF Failed, r
<1>8. CASE "cache" \notin f
  <2>1. Grown(h, cached, frame) /\ Booked(cached)
    BY <1>4, <1>8 DEF Grown
  <2>2. /\ cached[av].dts \in Nat /\ HlsType(cached) /\ cached.current # NULL
        /\ cached.writing => cached.current # NULL
    BY TimedFacts, MessageFields DEF HlsInv
  <2> HIDE DEF cached
  <2>3. Keeps(cached, k) /\ Booked(k)
    <3>1. SameFile(cached, k) /\ k.audio = cached.audio /\ k.video = cached.video
      BY <1>6, <2>2, DurationFile, DurationUpdated
    <3> QED
      BY <2>1, <2>2, <3>1, SameFileBook, SameBookKeeps
  <2> HIDE DEF k
  <2>4. Grown(h, k, frame)
    BY <2>1, <2>3, GrownKeeps
  <2>5. HlsInv(p.hls) /\ Keeps(k, p.hls)
    <3>1. CASE cut
      BY <1>1, <1>3, <1>5, <2>3, <3>1, ReapedBook, SegmentReaped
    <3>2. CASE ~ cut
      BY <1>3, <1>5, <2>3, <3>2 DEF Done, Keeps
    <3> QED
      BY <3>1, <3>2
  <2>6. Grown(h, p.hls, frame) /\ Booked(p.hls)
    <3>1. Grown(h, p.hls, frame)
      BY <2>4, <2>5, GrownKeeps
    <3> QED
      BY <3>1 DEF Grown
  <2>7. Keeps(p.hls, q.hls)
    BY <1>1, <2>5, <2>6, FlushedBook DEF q
  <2>8. Grown(h, q.hls, frame)
    BY <2>6, <2>7, GrownKeeps
  <2>9. r = q \/ r = p
    BY <1>2, <1>8
  <2> QED
    BY <1>8, <2>6, <2>8, <2>9 DEF r
<1> QED
  BY <1>7, <1>8

LEMMA EnabledBook ==
    ASSUME NEW h, HlsType(h), Booked(h), NEW e
    PROVE  Keeps(h, [h EXCEPT !.enabled = e])
<1> DEFINE k == [h EXCEPT !.enabled = e]
<1>1. /\ k.out = h.out /\ k.writing = h.writing /\ k.tmp = h.tmp /\ k.current = h.current
      /\ k.audio = h.audio /\ k.video = h.video
  BY DEF HlsType, HlsFields
<1> HIDE DEF k
<1>2. SameBook(h, k)
  BY <1>1 DEF SameBook, Held
<1>3. Keeps(h, k)
  BY <1>2, SameBookKeeps
<1> QED
  BY <1>3 DEF k

\* on_publish().
LEMMA PublishedBook ==
    ASSUME NEW h, HlsInv(h), Booked(h), NEW f
    PROVE  Keeps(h, on_publish(h, f).hls)
<1> DEFINE open == segment_open(h, "publish", FALSE, f)
           on == [open.hls EXCEPT !.enabled = TRUE]
           r == on_publish(h, f)
<1>1. HlsType(h) /\ HlsOpen(h) /\ Numbering(h) /\ Stored(h)
  BY DEF HlsInv
<1>2. r = IF "dir" \in f THEN Failed(h) ELSE IF open.ok THEN Done(on) ELSE open
  BY DEF on_publish, Then
<1>3. HlsType(open.hls)
  <2>1. PICK no \in BOOLEAN : no = FALSE
    OBVIOUS
  <2>2. HlsInv(segment_open(h, "publish", no, f).hls)
    BY <1>1, SegmentOpened DEF HlsOpen
  <2> QED
    BY <2>1, <2>2 DEF HlsInv
<1>4. Keeps(h, open.hls) /\ Booked(open.hls)
  <2>1. PICK no \in BOOLEAN : no = FALSE
    OBVIOUS
  <2>2. Keeps(h, segment_open(h, "publish", no, f).hls)
    BY <1>1, OpenedBook DEF HlsOpen
  <2>3. Keeps(h, open.hls)
    BY <2>1, <2>2
  <2> QED
    BY <2>3 DEF Keeps
<1> HIDE DEF open, r
<1>5. Keeps(open.hls, on)
  BY <1>3, <1>4, EnabledBook
<1> HIDE DEF on
<1>6. Keeps(h, on)
  BY <1>4, <1>5, KeepsTrans
<1>7. Keeps(h, h)
  BY DEF Keeps
<1>8. Keeps(h, r.hls)
  BY <1>2, <1>4, <1>6, <1>7 DEF Failed, Done
<1> QED
  BY <1>8 DEF r

\* on_unpublish().
LEMMA UnpublishedBook ==
    ASSUME NEW h, HlsInv(h), Booked(h), NEW f
    PROVE  Keeps(h, on_unpublish(h, f))
<1> DEFINE audio == flush(h, "audio", f)
           video == flush(audio.hls, "video", f)
           both == Then(audio, LAMBDA a : flush(a, "video", f))
           closed == segment_close(both.hls, f)
           end == Then(both, LAMBDA v : segment_close(v, f))
           off == [end.hls EXCEPT !.enabled = FALSE]
<1>1. on_unpublish(h, f) = IF h.enabled THEN off ELSE h
  BY DEF on_unpublish
<1>2. end = IF both.ok THEN closed ELSE both
  BY DEF Then
<1>3. both = IF audio.ok THEN video ELSE audio
  BY DEF Then
<1>4. "video" \in Kinds /\ "audio" \in Kinds
  BY DEF Kinds
<1>5. HlsInv(audio.hls) /\ Keeps(h, audio.hls) /\ Booked(audio.hls)
  BY <1>4, FlushedBook DEF Keeps
<1> HIDE DEF audio
<1>6. HlsInv(video.hls) /\ Keeps(audio.hls, video.hls)
  BY <1>4, <1>5, FlushedBook
<1> HIDE DEF video
<1>7. HlsInv(both.hls) /\ Keeps(h, both.hls) /\ Booked(both.hls)
  <2>1. Keeps(h, video.hls)
    BY <1>5, <1>6, KeepsTrans
  <2> QED
    BY <1>3, <1>5, <1>6, <2>1 DEF Keeps
<1> HIDE DEF both
<1>8. Keeps(both.hls, closed.hls) /\ HlsType(closed.hls)
  BY <1>7, ClosedBook, ClosedType
<1> HIDE DEF closed, end
<1>9. HlsType(end.hls) /\ Keeps(h, end.hls) /\ Booked(end.hls)
  <2>1. Keeps(h, closed.hls)
    BY <1>7, <1>8, KeepsTrans
  <2> QED
    BY <1>2, <1>7, <1>8, <2>1 DEF Keeps, HlsInv
<1>10. Keeps(end.hls, off)
  BY <1>9, EnabledBook
<1> HIDE DEF off
<1>11. Keeps(h, off) /\ Keeps(h, h)
  <2>1. Keeps(h, off)
    BY <1>9, <1>10, KeepsTrans
  <2> QED
    BY <2>1 DEF Keeps
<1> QED
  BY <1>1, <1>11

\* What the hub does with an error.
LEMMA OutputBook ==
    ASSUME NEW r, HlsInv(r.hls), Booked(r.hls), NEW f, NEW again
    PROVE  Keeps(r.hls, Output(r, f, again))
<1>1. Keeps(r.hls, on_unpublish(r.hls, IF again THEN f ELSE {}))
  BY UnpublishedBook
<1>2. Keeps(r.hls, r.hls)
  BY DEF Keeps
<1> QED
  BY <1>1, <1>2 DEF Output

-----------------------------------------------------------------------------
(* What the files hold, while no call fails.                                *)

NoCodecs == [a |-> "none", v |-> "none"]

\* The segments of a window whose files exist can be decoded by themselves.
WindowDecodable(segs, files) ==
    \A i \in DOMAIN segs :
        segs[i].no \in DOMAIN files => Decodable(segs[i].by, files[segs[i].no])

\* Every picture that can be decoded alone comes with its SPS.
SpsIn(file) == \A k \in DOMAIN file : HasSps(file[k])

\* The file of the current segment begins with the tables, and while it is empty
\* the context has forgotten the codecs, so that the tables are written first.
Filling(h) ==
    /\ h.current # NULL /\ h.writing /\ h.current.no \in DOMAIN h.tmp
    /\ h.current.codec.a # "none"
    /\ LET file == h.tmp[h.current.no]
       IN  /\ file \in Seq(TsMessage) /\ SpsIn(file)
           /\ file # << >> => file[1] = PatPmt
           /\ file = << >> => h.context = NoCodecs

\* The first video message of a file begins with a frame that is marked as key frame.
KeyFirst(file) ==
    \E k \in DOMAIN file :
        OpensVideo(file[k]) /\ \A j \in 1 .. k - 1 : file[j].type # "video"

\* Between two steps: a current segment that a video frame opened has its key frame,
\* and one that nothing was written to has no time yet.
Filled(h) ==
    /\ WindowDecodable(h.segments, h.files)
    /\ h.current # NULL =>
          /\ Filling(h)
          /\ h.current.by = "video" => KeyFirst(h.tmp[h.current.no])
          /\ h.tmp[h.current.no] = << >> => h.current.start = -1 /\ h.current.dur = 0

\* A cached message can be written.
Ready(msg) == msg # NULL => msg.frames # << >> /\ HasSps(msg)

LEMMA TablesSps == HasSps(PatPmt)
<1>1. DOMAIN PatPmt.frames = {}
  BY Tables
<1> QED
  BY <1>1 DEF HasSps

LEMMA OneFrame ==
    ASSUME NEW msg, NEW frame, msg.frames = <<frame>>, frame.idr => frame.sps # 0
    PROVE  Ready(msg)
<1>1. /\ msg.frames # << >> /\ DOMAIN msg.frames = {1} /\ msg.frames[1] = frame
  OBVIOUS
<1> QED
  BY <1>1 DEF Ready, HasSps

\* A message appended to a file leaves its beginning alone.
LEMMA FileGrows ==
    ASSUME NEW file \in Seq(TsMessage), NEW p \in TsMessage
    PROVE  LET more == Append(file, p)
           IN  /\ more \in Seq(TsMessage) /\ more # << >>
               /\ file # << >> => more[1] = file[1]
               /\ file = << >> => more[1] = p
               /\ SpsIn(file) /\ HasSps(p) => SpsIn(more)
               /\ KeyFirst(file) => KeyFirst(more)
               /\ (\A j \in DOMAIN file : file[j].type # "video") /\ OpensVideo(p) => KeyFirst(more)
<1> DEFINE more == Append(file, p)
<1> PICK l \in Nat : l = Len(file) /\ DOMAIN file = 1 .. l
  OBVIOUS
<1>1. /\ more \in Seq(TsMessage) /\ DOMAIN more = 1 .. l + 1
      /\ \A i \in 1 .. l : more[i] = file[i]
      /\ more[l + 1] = p
  OBVIOUS
<1> HIDE DEF more
<1>2. more # << >>
  BY <1>1
<1>3. (file # << >> => more[1] = file[1]) /\ (file = << >> => more[1] = p)
  BY <1>1
<1>6. SpsIn(file) /\ HasSps(p) => SpsIn(more)
  BY <1>1 DEF SpsIn
<1>4. ASSUME KeyFirst(file) PROVE KeyFirst(more)
  <2>1. PICK k \in 1 .. l :
           OpensVideo(file[k]) /\ \A j \in 1 .. k - 1 : file[j].type # "video"
    BY <1>4 DEF KeyFirst
  <2>2. k \in DOMAIN more /\ \A j \in 1 .. k - 1 : j \in 1 .. l
    BY <1>1
  <2>3. more[k] = file[k] /\ \A j \in 1 .. k - 1 : more[j].type # "video"
    BY <1>1, <2>1, <2>2
  <2> QED
    BY <2>1, <2>2, <2>3 DEF KeyFirst
<1>5. ASSUME \A j \in DOMAIN file : file[j].type # "video", OpensVideo(p)
      PROVE  KeyFirst(more)
  <2>1. l + 1 \in DOMAIN more /\ OpensVideo(more[l + 1])
    BY <1>1, <1>5
  <2>2. \A j \in 1 .. (l + 1) - 1 : more[j].type # "video"
    BY <1>1, <1>5
  <2> QED
    BY <2>1, <2>2 DEF KeyFirst
<1> QED
  BY <1>1, <1>2, <1>3, <1>4, <1>5, <1>6 DEF more

\* SrsFileWriter::write: the packet ends the file of the current segment.
LEMMA WrittenFile ==
    ASSUME NEW h, HlsType(h), h.current # NULL, h.writing, h.current.no \in DOMAIN h.tmp,
           NEW packet, NEW call
    PROVE  LET r == write(h, packet, call, {})
           IN  /\ r.ok = TRUE
               /\ r.hls.tmp[h.current.no] = Append(h.tmp[h.current.no], packet)
<1> DEFINE more == [h.tmp EXCEPT ![h.current.no] = Append(@, packet)]
           r == write(h, packet, call, {})
<1>1. r.ok = TRUE /\ r.hls = [h EXCEPT !.tmp = more]
  BY DEF write, Done
<1>2. more[h.current.no] = Append(h.tmp[h.current.no], packet)
  OBVIOUS
<1> HIDE DEF more
<1>3. r.hls.tmp = more
  BY <1>1 DEF HlsType, HlsFields
<1> QED
  BY <1>1, <1>2, <1>3

\* SrsTsContext::encode: the tables come first, the message last.
LEMMA EncodedFile ==
    ASSUME NEW h, HlsType(h), Filling(h), NEW msg \in TsMessage, HasSps(msg)
    PROVE  LET r == encode(h, msg, {})
               file == h.tmp[h.current.no]
               more == r.hls.tmp[h.current.no]
           IN  /\ r.ok = TRUE /\ HlsType(r.hls) /\ Filling(r.hls) /\ r.hls.current = h.current
               /\ more # << >>
               /\ KeyFirst(file) => KeyFirst(more)
               /\ file = << >> /\ OpensVideo(msg) => KeyFirst(more)
<1> DEFINE own == [h EXCEPT !.context = h.current.codec]
           pat == IF h.context = h.current.codec THEN Done(h) ELSE write(own, PatPmt, "pat", {})
           pcr == msg.pcr \/ (h.current.codec.v # "avc" /\ msg.type = "audio")
           packet == [msg EXCEPT !.pcr = pcr]
           pes == write(pat.hls, packet, "pes", {})
           r == encode(h, msg, {})
           no == h.current.no
           file == h.tmp[no]
<1>1. r = IF pat.ok THEN pes ELSE pat
  BY DEF encode, Then
<1>2. packet \in TsMessage /\ packet.type = msg.type /\ packet.frames = msg.frames
  BY PacketMessage
<1>3. (OpensVideo(msg) => OpensVideo(packet)) /\ HasSps(packet)
  BY <1>2 DEF OpensVideo, HasSps
<1> HIDE DEF packet
<1>4. file \in Seq(TsMessage) /\ no \in DOMAIN h.tmp /\ h.current # NULL /\ h.writing
      /\ h.current.codec.a # "none"
      /\ (file # << >> => file[1] = PatPmt) /\ (file = << >> => h.context = NoCodecs)
      /\ SpsIn(file)
  BY DEF Filling
<1>5. /\ pat.ok = TRUE /\ HlsType(pat.hls) /\ pat.hls.current = h.current
      /\ pat.hls.writing /\ DOMAIN pat.hls.tmp = DOMAIN h.tmp
      /\ pat.hls.tmp[no] \in Seq(TsMessage) /\ pat.hls.tmp[no] # << >>
      /\ pat.hls.tmp[no][1] = PatPmt
      /\ KeyFirst(file) => KeyFirst(pat.hls.tmp[no])
      /\ file = << >> => \A j \in DOMAIN pat.hls.tmp[no] : pat.hls.tmp[no][j].type # "video"
      /\ SpsIn(pat.hls.tmp[no])
  <2>1. CASE h.context = h.current.codec
    <3>1. pat.hls = h /\ pat.ok = TRUE
      BY <2>1 DEF Done
    <3>2. file # << >>
      BY <1>4, <2>1 DEF NoCodecs
    <3> QED
      BY <1>4, <3>1, <3>2
  <2>2. CASE h.context # h.current.codec
    <3>1. pat = write(own, PatPmt, "pat", {})
      BY <2>2
    <3>2. /\ HlsType(own) /\ own.current = h.current /\ own.writing = h.writing
          /\ own.tmp = h.tmp
      <4> DEFINE codec == h.current.codec
      <4>1. own = [h EXCEPT !.context = codec]
        OBVIOUS
      <4> HIDE DEF codec, own
      <4> QED
        BY <4>1 DEF HlsType, HlsFields
    <3> HIDE DEF own, pat
    <3>3. SameWindow(own, pat.hls) /\ pat.hls.current = own.current
      BY <3>1, <3>2, Written
    <3>4. pat.ok = TRUE /\ pat.hls.tmp[no] = Append(file, PatPmt)
      <4>1. /\ HlsType(own) /\ own.current # NULL /\ own.writing
            /\ own.current.no \in DOMAIN own.tmp
        BY <1>4, <3>2
      <4>2. LET w == write(own, PatPmt, "pat", {})
            IN  /\ w.ok = TRUE
                /\ w.hls.tmp[own.current.no] = Append(own.tmp[own.current.no], PatPmt)
        BY <4>1, WrittenFile
      <4> QED
        BY <3>1, <3>2, <4>2
    <3>5. /\ pat.hls.tmp[no] \in Seq(TsMessage) /\ pat.hls.tmp[no] # << >>
          /\ pat.hls.tmp[no][1] = PatPmt
          /\ KeyFirst(file) => KeyFirst(pat.hls.tmp[no])
          /\ SpsIn(pat.hls.tmp[no])
      <4>1. PatPmt \in TsMessage /\ HasSps(PatPmt)
        BY Tables, TablesSps
      <4>2. PICK p \in TsMessage : p = PatPmt
        BY <4>1
      <4>3. LET both == Append(file, p)
            IN  /\ both \in Seq(TsMessage) /\ both # << >>
                /\ file # << >> => both[1] = file[1]
                /\ file = << >> => both[1] = p
                /\ SpsIn(file) /\ HasSps(p) => SpsIn(both)
                /\ KeyFirst(file) => KeyFirst(both)
        BY <1>4, FileGrows
      <4> QED
        BY <1>4, <3>4, <4>1, <4>2, <4>3
    <3>6. ASSUME file = << >>, NEW j \in DOMAIN pat.hls.tmp[no]
          PROVE  pat.hls.tmp[no][j].type # "video"
      <4>1. pat.hls.tmp[no] = << PatPmt >>
        BY <3>4, <3>6
      <4>2. pat.hls.tmp[no][j] = PatPmt
        BY <3>6, <4>1
      <4> QED
        BY <4>2, Tables
    <3> QED
      BY <1>4, <3>2, <3>3, <3>4, <3>5, <3>6 DEF SameWindow
  <2> QED
    BY <2>1, <2>2
<1> HIDE DEF pat
<1>6. /\ r = pes /\ pes = write(pat.hls, packet, "pes", {})
  BY <1>1, <1>5
<1>7. SameWindow(pat.hls, pes.hls) /\ pes.hls.current = h.current
  BY <1>5, Written
<1>8. pes.ok = TRUE /\ pes.hls.tmp[no] = Append(pat.hls.tmp[no], packet)
  <2>1. ASSUME NEW g, NEW m, HlsType(g), g.current # NULL, g.writing,
               g.current.no \in DOMAIN g.tmp
        PROVE  LET w == write(g, m, "pes", {})
               IN  /\ w.ok = TRUE
                   /\ w.hls.tmp[g.current.no] = Append(g.tmp[g.current.no], m)
    BY <2>1, WrittenFile
  <2>2. /\ HlsType(pat.hls) /\ pat.hls.current # NULL /\ pat.hls.writing
        /\ pat.hls.current.no \in DOMAIN pat.hls.tmp
        /\ pat.hls.current.no = no
    BY <1>4, <1>5
  <2>3. /\ pes.ok = TRUE
        /\ pes.hls.tmp[pat.hls.current.no] = Append(pat.hls.tmp[pat.hls.current.no], packet)
    BY <2>1, <2>2, Zenon
  <2> QED
    BY <2>2, <2>3, Zenon
<1> HIDE DEF pes, r
<1>9. LET more == pes.hls.tmp[no]
      IN  /\ more \in Seq(TsMessage) /\ more # << >> /\ more[1] = PatPmt /\ SpsIn(more)
          /\ KeyFirst(file) => KeyFirst(more)
          /\ file = << >> /\ OpensVideo(packet) => KeyFirst(more)
  <2> DEFINE before == pat.hls.tmp[no]
             more == pes.hls.tmp[no]
  <2>1. before \in Seq(TsMessage) /\ before # << >> /\ before[1] = PatPmt
        /\ more = Append(before, packet) /\ SpsIn(before)
    BY <1>5, <1>8
  <2> HIDE DEF before, more
  <2>2. /\ more \in Seq(TsMessage) /\ more # << >> /\ more[1] = PatPmt /\ SpsIn(more)
        /\ KeyFirst(before) => KeyFirst(more)
        /\ (\A j \in DOMAIN before : before[j].type # "video") /\ OpensVideo(packet) => KeyFirst(more)
    BY <1>2, <1>3, <2>1, FileGrows
  <2>3. /\ KeyFirst(file) => KeyFirst(before)
        /\ file = << >> => \A j \in DOMAIN before : before[j].type # "video"
    BY <1>5 DEF before
  <2> QED
    BY <2>2, <2>3 DEF more
<1>10. HlsType(pes.hls) /\ pes.hls.writing /\ DOMAIN pes.hls.tmp = DOMAIN h.tmp
  BY <1>5, <1>7 DEF SameWindow
<1>11. Filling(pes.hls)
  BY <1>4, <1>7, <1>8, <1>9, <1>10 DEF Filling
<1> QED
  BY <1>3, <1>6, <1>7, <1>8, <1>9, <1>10, <1>11 DEF r

LEMMA SameFileFilling ==
    ASSUME NEW h, NEW k, SameFile(h, k), Filling(h)
    PROVE  Filling(k) /\ k.tmp[k.current.no] = h.tmp[h.current.no]
BY DEF SameFile, SameWindow, Filling

\* flush_audio() and flush_video().
LEMMA FlushedFile ==
    ASSUME NEW h, HlsType(h), Filling(h), NEW av \in {"audio", "video"}, Ready(h[av])
    PROVE  LET k == flush(h, av, {}).hls
               file == h.tmp[h.current.no]
               more == k.tmp[k.current.no]
           IN  /\ flush(h, av, {}).ok = TRUE
               /\ HlsType(k) /\ Filling(k) /\ k.current.by = h.current.by
               /\ k.segments = h.segments /\ k.files = h.files
               /\ h[av] # NULL \/ file # << >> => more # << >>
               /\ KeyFirst(file) => KeyFirst(more)
               /\ file = << >> /\ h[av] # NULL /\ OpensVideo(h[av]) => KeyFirst(more)
               /\ h[av] = NULL => k = h
               /\ \A bv \in {"audio", "video"} \ {av} : k[bv] = h[bv]
<1> DEFINE r == flush(h, av, {})
           file == h.tmp[h.current.no]
<1>1. h.current # NULL
  BY DEF Filling
<1>2. /\ SameWindow(h, r.hls)
      /\ \A bv \in {"audio", "video"} \ {av} : r.hls[bv] = h[bv]
  BY Flushed
<1>3. HlsType(r.hls) /\ r.hls.segments = h.segments /\ r.hls.files = h.files
  BY <1>2 DEF SameWindow
<1>4. CASE h[av] = NULL
  <2>1. r.hls = h /\ r.ok = TRUE
    BY <1>4 DEF flush, Done, Unused
  <2> QED
    BY <1>3, <1>4, <2>1
<1>5. CASE h[av] # NULL
  <2> DEFINE timed == update_duration(h, h[av].dts)
             e == encode(timed, h[av], {})
             out == [e.hls EXCEPT ![av] = NULL]
             no == timed.current.no
  <2>1. h[av] \in TsMessage /\ h[av].dts \in Nat /\ HasSps(h[av]) /\ ~ Unused(h[av])
    BY <1>5, MessageFields DEF HlsType, Ready, Unused
  <2>2. r = IF e.ok THEN Done(out) ELSE e
    BY <1>1, <2>1 DEF flush, Then
  <2>3. SameFile(h, timed)
    BY <1>1, <2>1, DurationFile
  <2> HIDE DEF timed
  <2>4. HlsType(timed) /\ Filling(timed) /\ timed.tmp[no] = file
    BY <2>3, SameFileFilling DEF SameFile, SameWindow
  <2>5. /\ e.ok = TRUE /\ HlsType(e.hls) /\ Filling(e.hls) /\ e.hls.current = timed.current
        /\ e.hls.tmp[no] # << >>
        /\ KeyFirst(timed.tmp[no]) => KeyFirst(e.hls.tmp[no])
        /\ timed.tmp[no] = << >> /\ OpensVideo(h[av]) => KeyFirst(e.hls.tmp[no])
    BY <2>1, <2>4, EncodedFile
  <2> HIDE DEF e
  <2>6. SameFile(e.hls, out)
    BY <2>5, CacheFile
  <2> HIDE DEF out
  <2>7. r.hls = out /\ r.ok = TRUE
    BY <2>2, <2>5 DEF Done
  <2>8. Filling(out) /\ out.tmp[out.current.no] = e.hls.tmp[no]
    BY <2>5, <2>6, SameFileFilling
  <2>9. out.current.by = h.current.by
    BY <2>3, <2>5, <2>6 DEF SameFile
  <2> QED
    BY <1>2, <1>3, <1>5, <2>4, <2>5, <2>7, <2>8, <2>9
<1> QED
  BY <1>4, <1>5

\* refresh_m3u8() and clear_expired() change no file, and keep those of the window.
LEMMA RefreshedFiles ==
    ASSUME NEW h, HlsType(h), WindowDecodable(h.segments, h.files)
    PROVE  LET k == Refreshed(h, {}).hls
           IN  WindowDecodable(k.segments, k.files)
<1> DEFINE s == shrink(h)
           m == refresh_m3u8(s, {})
           r == Refreshed(h, {})
<1>1. DOMAIN s = HlsFields /\ s.files = h.files
  <2>1. PICK n : s = [h EXCEPT !.segments = SubSeq(@, n + 1, Len(@)),
                               !.expired = @ \o SubSeq(h.segments, 1, n)]
    BY Shrunk
  <2> QED
    BY <2>1 DEF HlsType, HlsFields
<1> HIDE DEF s
<1>2. DOMAIN m.hls = HlsFields /\ m.hls.files = h.files /\ DOMAIN m = {"hls", "ok"}
  <2>1. CASE s.segments = << >>
    BY <1>1, <2>1 DEF refresh_m3u8, Done
  <2>2. CASE s.segments # << >>
    <3> DEFINE new == [s EXCEPT !.m3u8 = s.segments, !.stale = FALSE]
    <3>1. m = Done(new)
      BY <2>2 DEF refresh_m3u8
    <3>2. DOMAIN new = HlsFields /\ new.files = s.files
      BY <1>1 DEF HlsFields
    <3> HIDE DEF new
    <3> QED
      BY <1>1, <3>1, <3>2 DEF Done
  <2> QED
    BY <2>1, <2>2
<1>3. r = [m EXCEPT !.hls = clear_expired(@, {})]
  BY DEF Refreshed, s
<1> HIDE DEF m
<1>4. r.hls = clear_expired(m.hls, {})
  BY <1>2, <1>3
<1>5. r.hls.files = Restrict(h.files, DOMAIN h.files \ Numbers(m.hls.expired))
  <2> DEFINE rest == Restrict(h.files, DOMAIN h.files \ Numbers(m.hls.expired))
  <2>1. clear_expired(m.hls, {}) = [m.hls EXCEPT !.expired = << >>, !.files = rest]
    BY <1>2 DEF clear_expired
  <2> HIDE DEF rest
  <2>2. r.hls.files = rest
    BY <1>2, <1>4, <2>1 DEF HlsFields
  <2> QED
    BY <2>2 DEF rest
<1>6. \A x \in DOMAIN r.hls.files : x \in DOMAIN h.files /\ r.hls.files[x] = h.files[x]
  BY <1>5 DEF Restrict
<1>7. PICK n : Suffixed(h.segments, n, r.hls.segments)
  BY RefreshedFacts
<1> HIDE DEF r
<1>8. h.segments \in Seq(Segment)
  BY DEF HlsType
<1>9. \A i \in DOMAIN r.hls.segments :
         i + n \in DOMAIN h.segments /\ r.hls.segments[i] = h.segments[i + n]
  <2>1. \A segs \in Seq(Segment) : \A t : Suffixed(segs, n, t) =>
           \A i \in DOMAIN t : i + n \in DOMAIN segs /\ t[i] = segs[i + n]
    <3> SUFFICES ASSUME NEW segs \in Seq(Segment), NEW t, Suffixed(segs, n, t)
                 PROVE  \A i \in DOMAIN t : i + n \in DOMAIN segs /\ t[i] = segs[i + n]
      OBVIOUS
    <3>1. /\ n \in 0 .. Len(segs)
          /\ t \in Seq(Segment) /\ Len(t) = Len(segs) - n
          /\ \A i \in DOMAIN t : i + n \in DOMAIN segs /\ t[i] = segs[i + n]
          /\ segs # << >> => t # << >> /\ t[Len(t)] = segs[Len(segs)]
      BY Suffix, Zenon
    <3> QED
      BY <3>1, Zenon
  <2> QED
    BY <1>7, <1>8, <2>1, Zenon
<1> QED
  BY <1>5, <1>6, <1>9 DEF WindowDecodable, r

\* do_segment_close(): a kept segment takes its file with it.
LEMMA ClosedFiles ==
    ASSUME NEW h, HlsInv(h), h.current # NULL,
           WindowDecodable(h.segments, h.files),
           h.current.no \in DOMAIN h.tmp, h.tmp[h.current.no] \in Seq(TsMessage),
           Kept(h.current) => Decodable(h.current.by, h.tmp[h.current.no])
    PROVE  LET k == segment_close(h, {}).hls
           IN  WindowDecodable(k.segments, k.files)
<1> DEFINE no == h.current.no
           file == h.tmp[no]
           rest == Restrict(h.tmp, DOMAIN h.tmp \ {no})
           files == With(h.files, no, file)
           segs == Append(h.segments, h.current)
           out == h.out \o Held(h)
           kept == [h EXCEPT !.writing = FALSE, !.out = out, !.tmp = rest, !.files = files,
                             !.segments = segs]
           dropped == [h EXCEPT !.writing = FALSE, !.out = out, !.sequence_no = @ - 1,
                                !.tmp = rest]
           d == do_segment_close(h, {})
<1>1. /\ HlsType(h) /\ DOMAIN h = HlsFields /\ h.segments \in Seq(Segment)
      /\ h.sequence_no \in Nat /\ no \in Nat /\ h.sequence_no - 1 = no
      /\ segs \in Seq(Segment) /\ h.current \in Segment /\ Ascending(h.segments, no)
  BY WindowFacts, AppendOrdered DEF HlsInv, HlsType
<1>2. d = IF Kept(h.current) THEN Refreshed(kept, {}) ELSE Refreshed(dropped, {})
  BY DEF do_segment_close, Held
<1>3. WindowDecodable(segs, files) \/ ~ Kept(h.current)
  <2> SUFFICES ASSUME Kept(h.current), NEW i \in DOMAIN segs, segs[i].no \in DOMAIN files
               PROVE  Decodable(segs[i].by, files[segs[i].no])
    BY DEF WindowDecodable
  <2> PICK l \in Nat : l = Len(h.segments) /\ DOMAIN h.segments = 1 .. l
    BY <1>1
  <2>1. DOMAIN segs = 1 .. l + 1 /\ segs[l + 1] = h.current
        /\ \A j \in 1 .. l : segs[j] = h.segments[j]
    BY <1>1
  <2>2. CASE i \in 1 .. l
    <3>1. segs[i] = h.segments[i] /\ segs[i].no < no /\ segs[i].no \in Nat
      <4>1. segs[i] = h.segments[i] /\ i \in DOMAIN h.segments
        BY <2>1, <2>2
      <4>2. h.segments[i] \in Segment /\ h.segments[i].no < no
        BY <1>1, <4>1 DEF Ascending
      <4> QED
        BY <4>1, <4>2, SegmentFields
    <3>2. segs[i].no # no
      BY <1>1, <3>1
    <3>3. segs[i].no \in DOMAIN h.files /\ files[segs[i].no] = h.files[segs[i].no]
      BY <3>2 DEF With
    <3> QED
      BY <2>2, <3>1, <3>3 DEF WindowDecodable
  <2>3. CASE i = l + 1
    <3>1. segs[i] = h.current /\ files[no] = file
      BY <2>1, <2>3 DEF With
    <3> QED
      BY <3>1
  <2> QED
    BY <2>1, <2>2, <2>3
<1> HIDE DEF rest, files, segs, out
<1>4. /\ HlsType(kept) /\ kept.segments = segs /\ kept.files = files
      /\ HlsType(dropped) /\ dropped.segments = h.segments /\ dropped.files = h.files
      /\ kept.out = out /\ dropped.out = out
  <2>1. /\ DOMAIN kept = HlsFields /\ kept.segments = segs /\ kept.files = files
        /\ kept.writing = FALSE /\ kept.out = out
        /\ \A x \in HlsFields \ {"segments", "files", "writing", "tmp", "out"} : kept[x] = h[x]
    BY <1>1 DEF HlsFields
  <2>2. /\ DOMAIN dropped = HlsFields /\ dropped.sequence_no = no /\ dropped.writing = FALSE
        /\ dropped.out = out
        /\ \A x \in HlsFields \ {"sequence_no", "writing", "tmp", "out"} : dropped[x] = h[x]
    BY <1>1 DEF HlsFields
  <2> HIDE DEF kept, dropped
  <2>3. HlsType(kept)
    BY <1>1, <2>1 DEF HlsType, HlsFields
  <2>4. HlsType(dropped) /\ dropped.segments = h.segments /\ dropped.files = h.files
    BY <1>1, <2>2 DEF HlsType, HlsFields
  <2> QED
    BY <2>1, <2>2, <2>3, <2>4
<1> HIDE DEF kept, dropped, d
<1>5. WindowDecodable(d.hls.segments, d.hls.files)
  BY <1>2, <1>3, <1>4, RefreshedFiles
<1>6. DOMAIN d = {"hls", "ok"} /\ DOMAIN d.hls = HlsFields
  BY DoSegmentClosed DEF d, Slid
<1> DEFINE k == [d.hls EXCEPT !.current = NULL]
<1>7. segment_close(h, {}) = [d EXCEPT !.hls = k]
  BY <1>6 DEF segment_close, d
<1>8. /\ k.segments = d.hls.segments /\ k.files = d.hls.files
      /\ k.out = d.hls.out /\ k.current = NULL
  BY <1>6 DEF HlsFields
<1> HIDE DEF k
<1>9. segment_close(h, {}).hls = k
  BY <1>6, <1>7
<1> QED
  BY <1>5, <1>8, <1>9

\* segment_open(): the file is empty and the context has forgotten the codecs.
LEMMA OpenedFile ==
    ASSUME NEW h, HlsType(h), h.current = NULL, ~ h.writing,
           NEW by \in {"publish", "audio", "video"}, NEW follows \in BOOLEAN
    PROVE  LET k == segment_open(h, by, follows, {}).hls
           IN  /\ Filling(k) /\ k.tmp[k.current.no] = << >>
               /\ k.current.by = by /\ k.current.start = -1 /\ k.current.dur = 0
<1> DEFINE seg == [no |-> h.sequence_no, start |-> -1, dur |-> 0, sh |-> FALSE, by |-> by,
                   follows |-> follows, first |-> -1,
                   codec |-> [a |-> DefaultCodec(h.latest.a, "aac"),
                              v |-> DefaultCodec(h.latest.v, "avc")]]
           tmp == With(h.tmp, seg.no, << >>)
           new == [h EXCEPT !.current = seg, !.sequence_no = @ + 1]
           k == [new EXCEPT !.writing = TRUE, !.tmp = tmp,
                            !.context = [a |-> "none", v |-> "none"]]
<1>1. segment_open(h, by, follows, {}).hls = k
  BY DEF segment_open, Done
<1>2. seg.codec.a # "none" /\ seg # NULL
  <2>1. DefaultCodec(h.latest.a, "aac") # "none"
    BY DEF DefaultCodec
  <2>2. seg # NULL
    <3>1. /\ DefaultCodec(h.latest.a, "aac") \in {"none", "aac"}
          /\ DefaultCodec(h.latest.v, "avc") \in {"none", "avc"}
      BY DEF HlsType, Codecs, DefaultCodec
    <3>2. seg \in Segment
      BY <3>1 DEF HlsType, Segment, Codecs
    <3> QED
      BY <3>2, SegmentFields
  <2> QED
    BY <2>1, <2>2
<1>3. seg.no \in DOMAIN tmp /\ tmp[seg.no] = << >>
  BY DEF With
<1>4. seg.by = by /\ seg.start = -1 /\ seg.dur = 0
  OBVIOUS
<1> HIDE DEF seg, tmp
<1>5. /\ k.current = seg /\ k.tmp = tmp /\ k.writing = TRUE
      /\ k.context = NoCodecs
  BY DEF HlsType, HlsFields, NoCodecs
<1> HIDE DEF k
<1>6. << >> \in Seq(TsMessage) /\ SpsIn(<< >>)
  BY DEF SpsIn
<1>7. Filling(k)
  BY <1>2, <1>3, <1>5, <1>6 DEF Filling
<1> QED
  BY <1>1, <1>3, <1>4, <1>5, <1>7

\* reap_segment(): the segment that is closed can be decoded, and the next one begins with
\* the message that ended it.
LEMMA ReapedFile ==
    ASSUME NEW h, HlsInv(h), Ready(h.audio), Ready(h.video),
           WindowDecodable(h.segments, h.files), Filling(h),
           h.current.by = "video" => KeyFirst(h.tmp[h.current.no]),
           Kept(h.current) => h.tmp[h.current.no] # << >>,
           NEW av \in {"audio", "video"}, h[av] # NULL,
           av = "video" => OpensVideo(h[av])
    PROVE  LET k == reap_segment(h, av, {}).hls
           IN  /\ WindowDecodable(k.segments, k.files) /\ Filling(k)
               /\ k.current.by = "video" => KeyFirst(k.tmp[k.current.no])
               /\ k.tmp[k.current.no] # << >>
<1> DEFINE closed == segment_close(h, {})
           open == segment_open(closed.hls, av, Kept(h.current), {})
           opened == [open EXCEPT !.ok = @ /\ closed.ok]
           video == flush(opened.hls, "video", {})
           audio == flush(video.hls, "audio", {})
           r == reap_segment(h, av, {})
           k == audio.hls
<1>1. /\ h.current # NULL /\ h.writing /\ h.current.no \in DOMAIN h.tmp
      /\ h.tmp[h.current.no] # << >> => h.tmp[h.current.no][1] = PatPmt
      /\ h.tmp[h.current.no] \in Seq(TsMessage) /\ SpsIn(h.tmp[h.current.no])
  BY DEF Filling
<1>2. Kept(h.current) => Decodable(h.current.by, h.tmp[h.current.no])
  BY <1>1 DEF Decodable, KeyFirst, SpsIn
<1>3. WindowDecodable(closed.hls.segments, closed.hls.files)
  BY <1>1, <1>2, ClosedFiles
<1>4. /\ closed.ok /\ HlsType(closed.hls) /\ Numbering(closed.hls) /\ Stored(closed.hls)
      /\ closed.hls.current = NULL /\ closed.hls.writing = FALSE
      /\ closed.hls.audio = h.audio /\ closed.hls.video = h.video
  <2>1. LET c == segment_close(h, {})
        IN  /\ HlsType(c.hls) /\ Numbering(c.hls) /\ Stored(c.hls)
            /\ c.hls.current = NULL /\ c.hls.writing = FALSE
            /\ c.hls.audio = h.audio /\ c.hls.video = h.video
            /\ h.current # NULL /\ {} = {} /\ h.writing => c.ok
    BY ClosedType, Zenon
  <2> QED
    BY <1>1, <2>1, Zenon
<1> HIDE DEF closed
<1>5. av \in {"publish", "audio", "video"} /\ Kept(h.current) \in BOOLEAN
  BY DEF Kept
<1>6. /\ open.ok /\ HlsType(open.hls)
      /\ open.hls.segments = closed.hls.segments /\ open.hls.files = closed.hls.files
      /\ open.hls.audio = h.audio /\ open.hls.video = h.video
  BY <1>4, <1>5, SegmentOpened DEF HlsInv
<1>7. /\ Filling(open.hls) /\ open.hls.tmp[open.hls.current.no] = << >>
      /\ open.hls.current.by = av
  BY <1>3, <1>4, <1>5, OpenedFile
<1>8. DOMAIN open = {"hls", "ok"}
  BY DEF segment_open, Done, Failed
<1> HIDE DEF open
<1>9. opened.hls = open.hls /\ opened.ok
  BY <1>4, <1>6, <1>8
<1> HIDE DEF opened
<1> DEFINE none == opened.hls.tmp[opened.hls.current.no]
           first == video.hls.tmp[video.hls.current.no]
           both == k.tmp[k.current.no]
<1>10. /\ HlsType(opened.hls) /\ Filling(opened.hls) /\ none = << >> /\ opened.hls.current.by = av
       /\ Ready(opened.hls.audio) /\ Ready(opened.hls.video)
  BY <1>6, <1>7, <1>9
<1> HIDE DEF none
<1>11. /\ video.ok = TRUE /\ HlsType(video.hls) /\ Filling(video.hls)
       /\ video.hls.current.by = av
       /\ video.hls.segments = opened.hls.segments /\ video.hls.files = opened.hls.files
       /\ opened.hls.video # NULL => first # << >>
       /\ opened.hls.video # NULL /\ OpensVideo(opened.hls.video) => KeyFirst(first)
       /\ video.hls.audio = opened.hls.audio
  <2>1. "video" \in {"audio", "video"} /\ "audio" \in {"audio", "video"} \ {"video"}
    OBVIOUS
  <2>2. PICK o : o = opened.hls
    OBVIOUS
  <2> DEFINE v == flush(o, "video", {}).hls
             file == o.tmp[o.current.no]
             more == v.tmp[v.current.no]
  <2>3. HlsType(o) /\ Filling(o) /\ file = << >> /\ o.current.by = av /\ Ready(o["video"])
    BY <1>10, <2>2 DEF none
  <2>4. /\ flush(o, "video", {}).ok = TRUE /\ HlsType(v) /\ Filling(v)
        /\ v.current.by = o.current.by
        /\ v.segments = o.segments /\ v.files = o.files
        /\ o["video"] # NULL \/ file # << >> => more # << >>
        /\ file = << >> /\ o["video"] # NULL /\ OpensVideo(o["video"]) => KeyFirst(more)
        /\ \A bv \in {"audio", "video"} \ {"video"} : v[bv] = o[bv]
    BY <2>1, <2>3, FlushedFile
  <2>5. video = flush(o, "video", {})
    BY <2>2
  <2> HIDE DEF file, more
  <2>6. first = more
    BY <2>5 DEF more
  <2> HIDE DEF v, first, video
  <2> QED
    BY <2>1, <2>2, <2>3, <2>4, <2>5, <2>6 DEF v
<1> HIDE DEF video, first
<1>12. /\ audio.ok = TRUE /\ Filling(k) /\ k.current.by = av
       /\ k.segments = video.hls.segments /\ k.files = video.hls.files
       /\ video.hls.audio # NULL \/ first # << >> => both # << >>
       /\ KeyFirst(first) => KeyFirst(both)
  <2>1. "audio" \in {"audio", "video"}
    OBVIOUS
  <2> QED
    BY <1>10, <1>11, <2>1, FlushedFile DEF first
<1>13. r.hls = k
  BY <1>9, <1>11 DEF reap_segment, Then, opened, open, closed, video
<1> HIDE DEF audio, both, r
<1>14. /\ opened.hls.video = h.video /\ opened.hls.audio = h.audio
       /\ WindowDecodable(k.segments, k.files)
  BY <1>3, <1>6, <1>9, <1>11, <1>12
<1>15. CASE av = "video"
  <2>1. KeyFirst(both) /\ both # << >>
    BY <1>11, <1>12, <1>14, <1>15
  <2> QED
    BY <1>12, <1>13, <1>14, <1>15, <2>1 DEF both, r
<1>16. CASE av = "audio"
  <2>1. both # << >> /\ k.current.by # "video"
    BY <1>11, <1>12, <1>14, <1>16
  <2> QED
    BY <1>12, <1>13, <1>14, <2>1 DEF both, r
<1> QED
  BY <1>15, <1>16

\* The first frame of a segment begins its time.
LEMMA AppendFirst ==
    ASSUME NEW s \in Segment, s.start = -1, NEW dts \in Nat
    PROVE  append(s, dts).dur = 0
<1>1. append(s, dts) = [s EXCEPT !.start = dts, !.dur = dts - dts, !.first = dts]
  BY DEF append
<1>2. DOMAIN s = {"no", "start", "dur", "sh", "by", "follows", "codec", "first"} /\ dts - dts = 0
  BY SegmentFields
<1> QED
  BY <1>1, <1>2

\* A frame joins the cache.
LEMMA TimedFile ==
    ASSUME NEW h, HlsInv(h), h.current # NULL, NEW frame \in Frame, h[frame.type] = NULL
    PROVE  LET k == Timed(h, frame, {})
           IN  /\ SameFile(h, k)
               /\ k[frame.type].type = frame.type /\ k[frame.type].frames = <<frame>>
               /\ h.current.start = -1 => k.current.dur = 0
<1> DEFINE av == frame.type
           a == IF av = "audio" THEN "a" ELSE "v"
           c == IF av = "audio" THEN "aac" ELSE "avc"
           codec == set_latest_codec(h, a, c)
           m == Cached(codec[av], frame, {})
           cached == [codec EXCEPT ![av] = m]
           k == update_duration(cached, cached[av].dts)
<1>1. av \in {"audio", "video"} /\ frame.ts \in Nat /\ HlsType(h)
  BY DEF Frame, HlsInv
<1>2. /\ SameFile(h, codec) /\ codec.current.start = h.current.start
      /\ codec.audio = h.audio /\ codec.video = h.video
  <2>1. <<a, c>> \in {<<"a", "aac">>, <<"v", "avc">>}
    OBVIOUS
  <2> HIDE DEF a, c
  <2> QED
    BY <1>1, <2>1, LatestCodecFile, LatestCodecSet
<1>3. Timed(h, frame, {}) = k
  BY DEF Timed, Collected
<1> HIDE DEF a, c, codec
<1>4. HlsType(codec) /\ codec.current # NULL /\ codec[av] = NULL
  <2>1. CASE av = "audio"
    BY <1>2, <2>1 DEF SameFile, SameWindow
  <2>2. CASE av = "video"
    BY <1>2, <2>2 DEF SameFile, SameWindow
  <2> QED
    BY <1>1, <2>1, <2>2
<1>5. m \in TsMessage /\ m.type = av /\ m.frames = <<frame>> /\ m.dts = frame.ts
  <2> DEFINE base == [type |-> frame.type, dts |-> frame.ts, pcr |-> frame.key, frames |-> << >>]
  <2>1. m = [base EXCEPT !.frames = Append(<< >>, frame)]
    BY <1>4 DEF Cached, MessageFor
  <2>2. m = [type |-> frame.type, dts |-> frame.ts, pcr |-> frame.key, frames |-> <<frame>>]
    BY <2>1
  <2>3. <<frame>> \in Seq(Frame) /\ frame.key \in BOOLEAN
    BY DEF Frame
  <2> HIDE DEF m
  <2> QED
    BY <1>1, <2>2, <2>3 DEF TsMessage
<1> HIDE DEF m
<1>6. SameFile(codec, cached) /\ cached.current = codec.current /\ cached[av] = m
  BY <1>1, <1>4, <1>5, CacheFile, CacheChanged
<1> HIDE DEF cached
<1>7. HlsType(cached) /\ cached.current # NULL /\ cached.current \in Segment
  BY <1>4, <1>6 DEF SameFile, SameWindow, HlsType
<1>8. k = update_duration(cached, frame.ts)
  BY <1>5, <1>6
<1> HIDE DEF k
<1>9. /\ SameFile(cached, k) /\ k.current = append(cached.current, frame.ts)
      /\ k.audio = cached.audio /\ k.video = cached.video
  BY <1>1, <1>7, <1>8, DurationFile, DurationUpdated
<1>10. SameFile(h, k)
  <2>1. SameFile(h, cached)
    BY <1>2, <1>6, SameFileTrans
  <2> QED
    BY <1>9, <2>1, SameFileTrans
<1>11. k[av] = m
  BY <1>1, <1>6, <1>9
<1>12. h.current.start = -1 => k.current.dur = 0
  BY <1>1, <1>2, <1>6, <1>7, <1>9, AppendFirst
<1> QED
  BY <1>3, <1>5, <1>10, <1>11, <1>12

\* write_audio() and write_video(): a key frame comes with the SPS the parser has.
LEMMA FrameFile ==
    ASSUME NEW h, HlsInv(h), h.current # NULL, NEW frame \in Frame,
           Clean(h), Filled(h), frame.idr => frame.sps # 0
    PROVE  LET k == write_frame(h, frame, {}).hls
           IN  Filled(k)
<1> DEFINE av == frame.type
           k == Timed(h, frame, {})
           cut == \/ frame.type = "audio" /\ is_segment_absolutely_overflow(k)
                  \/ frame.type = "video" /\ is_segment_overflow(k) /\ frame.key
           p == Reaped(k, frame, {})
           q == flush(p.hls, av, {})
           r == write_frame(h, frame, {})
           file == h.tmp[h.current.no]
           timed == k.tmp[k.current.no]
           more == p.hls.tmp[p.hls.current.no]
<1>1. av \in {"audio", "video"} /\ frame.ts \in Nat
  BY DEF Frame
<1>2. r = IF p.ok THEN q ELSE p
  BY DEF write_frame, Then, Timed, Collected
<1>3. /\ HlsInv(k) /\ k.current # NULL
      /\ k.writing /\ ~ k.stale /\ Chained(k.segments) /\ Joined(k)
      /\ k[av] # NULL /\ k[av].frames # << >> /\ k[av].dts = End(k.current)
      /\ \A bv \in {"audio", "video"} \ {av} : k[bv] = NULL
  BY TimedFacts
<1>4. /\ SameFile(h, k)
      /\ k[av].type = av /\ k[av].frames = <<frame>>
      /\ h.current.start = -1 => k.current.dur = 0
      /\ Ready(k[av])
  <2>1. h[av] = NULL
    BY <1>1 DEF Clean
  <2> QED
    BY <2>1, TimedFile, OneFrame
<1>5. /\ WindowDecodable(h.segments, h.files) /\ Filling(h)
      /\ h.current.by = "video" => KeyFirst(file)
      /\ file = << >> => h.current.start = -1
  BY DEF Filled
<1> HIDE DEF k
<1>6. Filling(k) /\ timed = file
  BY <1>4, <1>5, SameFileFilling
<1>7. /\ WindowDecodable(k.segments, k.files)
      /\ k.current.by = "video" => KeyFirst(timed)
  BY <1>4, <1>5, <1>6 DEF SameFile, SameWindow
<1>8. Kept(k.current) => timed # << >>
  BY <1>4, <1>5, <1>6, HlsAssumption DEF Kept
<1> HIDE DEF file, timed
<1>9. p = IF cut THEN reap_segment(k, av, {}) ELSE Done(k)
  BY DEF Reaped
<1>10. cut /\ av = "video" => OpensVideo(k[av])
  <2>1. <<frame>> # << >> /\ <<frame>>[1] = frame
    OBVIOUS
  <2> QED
    BY <1>4, <2>1 DEF OpensVideo, cut
<1> HIDE DEF cut, p, q, r
<1>11. /\ p.ok /\ HlsType(p.hls) /\ Filling(p.hls)
       /\ WindowDecodable(p.hls.segments, p.hls.files)
       /\ p.hls.current.by = "video" => KeyFirst(more)
       /\ more # << >> \/ p.hls[av] # NULL
       /\ Ready(p.hls[av])
  <2>1. CASE cut
    <3>1. p = reap_segment(k, av, {})
      BY <1>9, <2>1
    <3>2. p.ok /\ HlsInv(p.hls) /\ p.hls[av] = NULL
      <4>1. LET o == reap_segment(k, av, {})
            IN  /\ o.ok \in BOOLEAN /\ HlsInv(o.hls) /\ o.hls.current # NULL
                /\ o.hls.enabled = k.enabled
                /\ /\ {} = {} /\ k.writing /\ ~ k.stale /\ Chained(k.segments) /\ Joined(k)
                   /\ k[av] # NULL /\ k[av].frames # << >> /\ k[av].dts = End(k.current)
                   /\ \A bv \in {"audio", "video"} \ {av} : k[bv] = NULL
                   => /\ o.ok /\ o.hls.writing /\ ~ o.hls.stale
                      /\ Chained(o.hls.segments) /\ Joined(o.hls)
                      /\ o.hls.audio = NULL /\ o.hls.video = NULL
        BY <1>1, <1>3, SegmentReaped
      <4> QED
        BY <1>1, <1>3, <3>1, <4>1
    <3>3. /\ Filling(p.hls) /\ WindowDecodable(p.hls.segments, p.hls.files)
          /\ p.hls.current.by = "video" => KeyFirst(more)
          /\ more # << >>
      <4>1. Ready(k.audio) /\ Ready(k.video)
        BY <1>1, <1>3, <1>4 DEF Ready
      <4> QED
        BY <1>1, <1>3, <1>6, <4>1, <1>7, <1>8, <1>10, <2>1, <3>1, ReapedFile DEF timed
    <3> QED
      BY <3>2, <3>3 DEF HlsInv, Ready
  <2>2. CASE ~ cut
    <3>1. p.hls = k /\ p.ok = TRUE
      BY <1>9, <2>2 DEF Done
    <3> QED
      BY <1>3, <1>4, <1>6, <1>7, <3>1 DEF HlsInv, timed
  <2> QED
    BY <2>1, <2>2
<1> DEFINE last == q.hls.tmp[q.hls.current.no]
<1>12. /\ Filling(q.hls) /\ q.hls.current.by = p.hls.current.by
       /\ q.hls.segments = p.hls.segments /\ q.hls.files = p.hls.files
       /\ p.hls[av] # NULL \/ more # << >> => last # << >>
       /\ KeyFirst(more) => KeyFirst(last)
  <2>1. ASSUME NEW o, NEW bv \in {"audio", "video"}, HlsType(o), Filling(o), Ready(o[bv])
        PROVE  LET l == flush(o, bv, {}).hls
                   one == o.tmp[o.current.no]
                   next == l.tmp[l.current.no]
               IN  /\ Filling(l) /\ l.current.by = o.current.by
                   /\ l.segments = o.segments /\ l.files = o.files
                   /\ o[bv] # NULL \/ one # << >> => next # << >>
                   /\ KeyFirst(one) => KeyFirst(next)
    BY <2>1, FlushedFile
  <2> HIDE DEF av
  <2> QED
    BY <1>1, <1>11, <2>1 DEF q
<1>13. last # << >> /\ (q.hls.current.by = "video" => KeyFirst(last))
  BY <1>11, <1>12
<1>14. Filled(q.hls)
  BY <1>11, <1>12, <1>13 DEF Filled
<1> QED
  BY <1>2, <1>11, <1>14 DEF r

LEMMA EnabledFile ==
    ASSUME NEW h, HlsType(h), Filled(h), NEW e
    PROVE  Filled([h EXCEPT !.enabled = e])
<1> DEFINE k == [h EXCEPT !.enabled = e]
<1>1. /\ k.current = h.current /\ k.segments = h.segments /\ k.files = h.files
      /\ k.tmp = h.tmp /\ k.context = h.context /\ k.writing = h.writing
  BY DEF HlsType, HlsFields
<1> HIDE DEF k
<1>2. Filled(k)
  BY <1>1 DEF Filled, Filling
<1> QED
  BY <1>2 DEF k

\* on_publish().
LEMMA PublishedFile ==
    ASSUME NEW h, HlsInv(h), Clean(h), Filled(h)
    PROVE  Filled(on_publish(h, {}).hls)
<1> DEFINE open == segment_open(h, "publish", FALSE, {})
           on == [open.hls EXCEPT !.enabled = TRUE]
<1>1. HlsType(h) /\ Numbering(h) /\ Stored(h) /\ (h.writing => h.current # NULL)
      /\ (h.writing => h.current.no \in DOMAIN h.tmp)
  BY DEF HlsInv, HlsOpen
<1>2. on_publish(h, {}) = IF open.ok THEN Done(on) ELSE open
  BY DEF on_publish, Then
<1>3. PICK no \in BOOLEAN : no = FALSE
  OBVIOUS
<1>4. /\ HlsInv(open.hls) /\ open.hls.segments = h.segments /\ open.hls.files = h.files
      /\ h.current # NULL => open.hls = h
      /\ h.current = NULL => open.ok
  <2> DEFINE first == segment_open(h, "publish", no, {})
  <2>1. /\ HlsInv(first.hls) /\ first.hls.segments = h.segments /\ first.hls.files = h.files
        /\ h.current # NULL => first.ok /\ first.hls = h
        /\ h.current = NULL => /\ first.hls.current.start = -1
                               /\ first.hls.current.follows = no
                               /\ {} = {} => first.ok /\ first.hls.writing
    BY <1>1, SegmentOpened
  <2>2. open = first
    BY <1>3, Zenon
  <2> HIDE DEF open, first
  <2> QED
    BY <2>1, <2>2
<1>5. Filled(open.hls)
  <2>1. CASE h.current # NULL
    BY <1>4, <2>1
  <2>2. CASE h.current = NULL
    <3>1. ~ h.writing
      BY <1>1, <2>2
    <3>2. /\ Filling(open.hls) /\ open.hls.tmp[open.hls.current.no] = << >>
          /\ open.hls.current.by = "publish"
          /\ open.hls.current.start = -1 /\ open.hls.current.dur = 0
      <4> DEFINE first == segment_open(h, "publish", no, {})
      <4>1. /\ Filling(first.hls) /\ first.hls.tmp[first.hls.current.no] = << >>
            /\ first.hls.current.by = "publish"
            /\ first.hls.current.start = -1 /\ first.hls.current.dur = 0
        BY <1>1, <2>2, <3>1, OpenedFile
      <4>2. open = first
        BY <1>3, Zenon
      <4> HIDE DEF open, first
      <4> QED
        BY <4>1, <4>2
    <3> HIDE DEF open
    <3>3. WindowDecodable(open.hls.segments, open.hls.files)
      BY <1>4 DEF Filled
    <3> QED
      BY <3>2, <3>3 DEF Filled
  <2> QED
    BY <2>1, <2>2
<1> HIDE DEF open
<1>6. Filled(on)
  BY <1>4, <1>5, EnabledFile DEF HlsInv
<1> HIDE DEF on
<1> QED
  BY <1>2, <1>5, <1>6 DEF Done

\* on_unpublish(): nothing is cached, so the last segment is as the frames left it.
LEMMA UnpublishedFile ==
    ASSUME NEW h, HlsInv(h), Clean(h), Filled(h)
    PROVE  Filled(on_unpublish(h, {}))
<1> DEFINE closed == segment_close(h, {})
<1>1. CASE ~ h.enabled
  BY <1>1 DEF on_unpublish
<1>2. CASE h.enabled
  <2>1. h.audio = NULL /\ h.video = NULL /\ h.current # NULL
    BY <1>2 DEF Clean
  <2>2. flush(h, "audio", {}) = Done(h) /\ flush(h, "video", {}) = Done(h)
    BY <2>1 DEF flush, Unused
  <2>3. on_unpublish(h, {}) = [closed.hls EXCEPT !.enabled = FALSE]
    <3>1. Then(flush(h, "audio", {}), LAMBDA a : flush(a, "video", {})) = Done(h)
      <4>1. Then(Done(h), LAMBDA a : flush(a, "video", {})) = flush(h, "video", {})
        BY DEF Then, Done
      <4> QED
        BY <2>2, <4>1
    <3>2. Then(Done(h), LAMBDA v : segment_close(v, {})) = closed
      BY DEF Then, Done
    <3>3. on_unpublish(h, {}) =
             [Then(Then(flush(h, "audio", {}), LAMBDA a : flush(a, "video", {})),
                   LAMBDA v : segment_close(v, {})).hls EXCEPT !.enabled = FALSE]
      BY <1>2 DEF on_unpublish
    <3> HIDE DEF closed
    <3> QED
      BY <3>1, <3>2, <3>3
  <2> DEFINE file == h.tmp[h.current.no]
  <2>4. /\ Filling(h) /\ WindowDecodable(h.segments, h.files)
        /\ h.current.by = "video" => KeyFirst(file)
        /\ file = << >> => h.current.dur = 0
    BY <2>1 DEF Filled
  <2>5. /\ h.current.no \in DOMAIN h.tmp /\ (file # << >> => file[1] = PatPmt)
        /\ file \in Seq(TsMessage) /\ SpsIn(file)
    BY <2>4 DEF Filling
  <2>6. Kept(h.current) => file # << >>
    BY <2>4, HlsAssumption DEF Kept
  <2>7. Kept(h.current) => Decodable(h.current.by, file)
    BY <2>4, <2>5, <2>6 DEF Decodable, KeyFirst, SpsIn
  <2>8. WindowDecodable(closed.hls.segments, closed.hls.files)
    BY <2>1, <2>4, <2>5, <2>7, ClosedFiles
  <2>9. HlsType(closed.hls) /\ closed.hls.current = NULL
    <3>1. LET r == segment_close(h, {})
          IN  /\ HlsType(r.hls) /\ Numbering(r.hls) /\ Stored(r.hls)
              /\ r.hls.current = NULL /\ r.hls.writing = FALSE
              /\ r.hls.audio = h.audio /\ r.hls.video = h.video
              /\ h.current # NULL /\ {} = {} /\ h.writing => r.ok
      BY ClosedType, Zenon
    <3> QED
      BY <3>1, Zenon
  <2> HIDE DEF closed
  <2>10. Filled(closed.hls)
    BY <2>8, <2>9 DEF Filled
  <2> QED
    BY <2>3, <2>8, <2>9, <2>10, EnabledFile
<1> QED
  BY <1>1, <1>2

-----------------------------------------------------------------------------
(* The hub.                                                                 *)

FrameMessage == [type : Kinds, frames : Seq(Frame)]

\* One more frame is one more message.
LEMMA FramesSent ==
    ASSUME NEW frames \in Seq(Frame), NEW frame \in Frame, NEW type
    PROVE  FramesOf(type, Messages(Append(frames, frame))) =
             IF type = frame.type THEN FramesOf(type, Messages(frames)) \o <<frame>>
             ELSE FramesOf(type, Messages(frames))
<1> DEFINE one == [type |-> frame.type, frames |-> <<frame>>]
           Message(x) == [type |-> x.type, frames |-> <<x>>]
<1>0. ASSUME NEW before \in Seq(FrameMessage), NEW p \in FrameMessage
      PROVE  FramesOf(type, Append(before, p)) =
               IF p.type = type THEN FramesOf(type, before) \o p.frames
               ELSE FramesOf(type, before)
  BY FramesAppended
<1> PICK l \in Nat : l = Len(frames) /\ DOMAIN frames = 1 .. l
  OBVIOUS
<1>1. \A x \in Frame : Message(x) \in FrameMessage
  BY DEF Frame, FrameMessage, Kinds
<1>2. \A i \in 1 .. l : frames[i] \in Frame
  OBVIOUS
<1>3. Messages(frames) = [i \in 1 .. l |-> Message(frames[i])]
  BY DEF Messages
<1>4. one \in FrameMessage /\ one.type = frame.type /\ one.frames = <<frame>> /\ one = Message(frame)
  BY <1>1
<1> HIDE DEF Message, one
<1>5. Messages(frames) \in Seq(FrameMessage) /\ Len(Messages(frames)) = l
  BY <1>1, <1>2, <1>3
<1>6. Messages(Append(frames, frame)) = Append(Messages(frames), one)
  <2> DEFINE more == Append(frames, frame)
             both == Append(Messages(frames), one)
  <2>1. /\ DOMAIN more = 1 .. l + 1 /\ more[l + 1] = frame
        /\ \A i \in 1 .. l : more[i] = frames[i]
    OBVIOUS
  <2>2. Messages(more) = [i \in 1 .. l + 1 |-> Message(more[i])]
    BY <2>1 DEF Messages, Message
  <2>3. /\ both \in Seq(FrameMessage) /\ Len(both) = l + 1 /\ both[l + 1] = one
        /\ \A i \in 1 .. l : both[i] = Messages(frames)[i]
    BY <1>4, <1>5, AppendProperties
  <2> HIDE DEF both, more
  <2>4. both = [i \in 1 .. l + 1 |-> both[i]]
    BY <2>3
  <2>5. ASSUME NEW i \in 1 .. l + 1 PROVE both[i] = Message(more[i])
    <3>1. CASE i = l + 1
      BY <1>4, <2>1, <2>3, <3>1
    <3>2. CASE i # l + 1
      <4>1. i \in 1 .. l
        BY <3>2
      <4> QED
        BY <1>3, <2>1, <2>3, <4>1
    <3> QED
      BY <3>1, <3>2
  <2>6. [i \in 1 .. l + 1 |-> both[i]] = [i \in 1 .. l + 1 |-> Message(more[i])]
    BY <2>5
  <2> QED
    BY <2>2, <2>4, <2>6 DEF both, more
<1>7. FramesOf(type, Append(Messages(frames), one)) =
        IF one.type = type THEN FramesOf(type, Messages(frames)) \o one.frames
        ELSE FramesOf(type, Messages(frames))
  BY <1>0, <1>4, <1>5
<1> QED
  BY <1>4, <1>6, <1>7

\* The segments and the cache hold the frames, kind by kind and in their order.
Recorded(h, frames) ==
    /\ frames \in Seq(Frame)
    /\ \A type \in Kinds : All(type, h) = FramesOf(type, Messages(frames))

LEMMA RecordedFrame ==
    ASSUME NEW h, NEW k, NEW old, NEW frame \in Frame, Recorded(h, old), Grown(h, k, frame)
    PROVE  Recorded(k, Append(old, frame))
<1>1. old \in Seq(Frame)
  BY DEF Recorded
<1> PICK new : new = Append(old, frame)
  OBVIOUS
<1>2. new \in Seq(Frame)
  BY <1>1
<1>3. ASSUME NEW type \in Kinds
      PROVE  FramesOf(type, Messages(new)) =
               IF type = frame.type THEN FramesOf(type, Messages(old)) \o <<frame>>
               ELSE FramesOf(type, Messages(old))
  BY <1>1, FramesSent
<1> QED
  BY <1>2, <1>3 DEF Recorded, Grown

\* on_audio() and on_video() of the hub: a frame that the cache takes joins its kind,
\* whatever fails.
LEMMA MediaBook ==
    ASSUME NEW h, HlsInv(h), Booked(h), NEW frame \in Frame, NEW f, NEW again, NEW k,
           NEW old, NEW new, Recorded(h, old),
           \/ /\ h.enabled /\ k = Output(write_frame(h, frame, f), f, again)
              /\ new = IF "cache" \in f THEN old ELSE Append(old, frame)
           \/ h.enabled /\ k = on_sequence_header(h) /\ new = old
           \/ k = h /\ new = old
    PROVE  Booked(k) /\ Recorded(k, new)
<1>1. HlsType(h) /\ (h.enabled => h.current # NULL) /\ (h.writing => h.current # NULL)
  BY DEF HlsInv, HlsOpen
<1>2. CASE h.enabled /\ k = Output(write_frame(h, frame, f), f, again)
           /\ new = IF "cache" \in f THEN old ELSE Append(old, frame)
  <2> DEFINE r == write_frame(h, frame, f)
  <2>1. h.current # NULL
    BY <1>1, <1>2
  <2>2. HlsInv(r.hls)
    BY <2>1, FrameWritten
  <2>3. IF "cache" \in f THEN Keeps(h, r.hls) ELSE Grown(h, r.hls, frame)
    BY <2>1, FrameBook
  <2> HIDE DEF r
  <2>4. Booked(r.hls)
    BY <2>3 DEF Keeps, Grown
  <2>5. Keeps(r.hls, k)
    BY <1>2, <2>2, <2>4, OutputBook DEF r
  <2>6. CASE "cache" \in f
    <3>1. Keeps(h, k)
      BY <2>3, <2>5, <2>6, KeepsTrans
    <3> QED
      BY <1>2, <2>6, <3>1 DEF Keeps, Recorded
  <2>7. CASE "cache" \notin f
    <3>1. Grown(h, k, frame)
      BY <2>3, <2>5, <2>7, GrownKeeps
    <3>2. Recorded(k, Append(old, frame))
      BY <3>1, RecordedFrame
    <3>3. Booked(k)
      BY <3>1 DEF Grown
    <3> QED
      BY <1>2, <2>7, <3>2, <3>3, Zenon
  <2> QED
    BY <2>6, <2>7
<1>3. CASE h.enabled /\ k = on_sequence_header(h) /\ new = old
  <2>1. SameFile(h, k) /\ k.audio = h.audio /\ k.video = h.video
    BY <1>1, <1>3, HeaderFile, HeaderMarked
  <2>2. SameBook(h, k)
    BY <1>1, <2>1, SameFileBook
  <2>3. Keeps(h, k)
    BY <2>2, SameBookKeeps
  <2> QED
    BY <1>3, <2>3 DEF Keeps, Recorded
<1> QED
  BY <1>2, <1>3

\* The same while no call fails: what the files hold.
LEMMA MediaFile ==
    ASSUME NEW h, HlsInv(h), Clean(h), Filled(h), NEW frame \in Frame, NEW again, NEW k,
           \/ /\ h.enabled /\ (frame.idr => frame.sps # 0)
              /\ k = Output(write_frame(h, frame, {}), {}, again)
           \/ h.enabled /\ k = on_sequence_header(h)
           \/ k = h
    PROVE  Filled(k)
<1>1. HlsType(h) /\ (h.enabled => h.current # NULL)
  BY DEF HlsInv, HlsOpen
<1>2. CASE h.enabled /\ (frame.idr => frame.sps # 0)
           /\ k = Output(write_frame(h, frame, {}), {}, again)
  <2> DEFINE r == write_frame(h, frame, {})
  <2>1. r.ok
    BY <1>1, <1>2, FrameWritten
  <2>2. Filled(r.hls)
    BY <1>1, <1>2, FrameFile
  <2> HIDE DEF r
  <2> QED
    BY <1>2, <2>1, <2>2 DEF Output, r
<1>3. CASE h.enabled /\ k = on_sequence_header(h)
  <2>1. SameFile(h, k) /\ k.current.start = h.current.start /\ k.current.dur = h.current.dur
    BY <1>1, <1>3, HeaderFile
  <2>2. Filling(k) /\ k.tmp[k.current.no] = h.tmp[h.current.no]
    BY <1>1, <1>3, <2>1, SameFileFilling DEF Filled
  <2> QED
    BY <1>1, <1>3, <2>1, <2>2 DEF Filled, SameFile, SameWindow
<1> QED
  BY <1>2, <1>3

\* Every frame the cache took is in a segment or cached, whatever failed; and what the
\* files hold while no call has failed.
PlayInv ==
    /\ HubInv
    /\ Booked(hls) /\ Recorded(hls, sent)
    /\ Undisturbed => Filled(hls)

LEMMA PlayOnAudio ==
    ASSUME PlayInv, NEW m, NEW step, NEW f, NEW again, NEW bound,
           AudioStep(m, step, f, again, bound)
    PROVE  Booked(hls') /\ Recorded(hls', sent') /\ (Undisturbed' => Filled(hls'))
<1> DEFINE p     == Fmt!on_audio(format, m)
           frame == [type |-> "audio", ts |-> clock + step, key |-> FALSE, idr |-> FALSE, sps |-> 0]
           takes == p.ok /\ WritesAudio(hls, p.format)
           marks == p.ok /\ MarksAudio(hls, p.format)
<1>0. /\ OnAudio(m, step, f, again) /\ step \in Int /\ f \in StepFaults
      /\ bound \in {"frames", "headers", "sessions"} /\ Count(bound, f)
      /\ takes => ("cache" \in f <=> m.data = 0)
  BY DEF AudioStep, Refusal
<1>1. /\ clock + step >= 0
      /\ hls' = CASE takes -> Output(write_frame(hls, frame, f), f, again)
                  [] ~ takes /\ marks -> on_sequence_header(hls)
                  [] OTHER -> hls
      /\ sent' = IF takes /\ m.data # 0 THEN Append(sent, frame) ELSE sent
  BY <1>0 DEF OnAudio
<1>2. (takes => hls.enabled) /\ (marks => hls.enabled)
  BY DEF WritesAudio, MarksAudio
<1>3. HubInv /\ HlsInv(hls) /\ Booked(hls) /\ Recorded(hls, sent)
  BY DEF PlayInv, HubInv
<1>4. frame \in Frame /\ ~ frame.idr
  BY <1>0, <1>1, <1>3 DEF HubInv, Frame
<1> HIDE DEF p, frame, takes, marks
<1>5. Undisturbed' => Undisturbed /\ f = {}
  BY <1>0, <1>3, Counted DEF HubInv
<1>6. Undisturbed => Clean(hls) /\ Filled(hls)
  BY DEF PlayInv, HubInv
<1>7. Booked(hls') /\ Recorded(hls', sent')
  <2>1. \/ /\ hls.enabled /\ hls' = Output(write_frame(hls, frame, f), f, again)
           /\ sent' = IF "cache" \in f THEN sent ELSE Append(sent, frame)
        \/ hls.enabled /\ hls' = on_sequence_header(hls) /\ sent' = sent
        \/ hls' = hls /\ sent' = sent
    BY <1>0, <1>1, <1>2
  <2> QED
    BY <1>3, <1>4, <2>1, MediaBook
<1>8. ASSUME Undisturbed' PROVE Filled(hls')
  <2>1. \/ /\ hls.enabled /\ (frame.idr => frame.sps # 0)
           /\ hls' = Output(write_frame(hls, frame, {}), {}, again)
        \/ hls.enabled /\ hls' = on_sequence_header(hls)
        \/ hls' = hls
    BY <1>1, <1>2, <1>4, <1>5, <1>8
  <2> QED
    BY <1>3, <1>4, <1>5, <1>6, <1>8, <2>1, MediaFile
<1> QED
  BY <1>7, <1>8

LEMMA PlayOnVideo ==
    ASSUME PlayInv, NEW m, NEW step, NEW f, NEW again, NEW bound,
           VideoStep(m, step, f, again, bound)
    PROVE  Booked(hls') /\ Recorded(hls', sent') /\ (Undisturbed' => Filled(hls'))
<1> DEFINE p     == Fmt!on_video(format, m)
           frame == [type |-> "video", ts |-> clock + step, key |-> p.format.key,
                     idr |-> p.format.idr, sps |-> IF p.format.idr THEN p.format.sps ELSE 0]
           takes == p.ok /\ WritesVideo(hls, p.format)
           marks == p.ok /\ MarksVideo(hls, p.format)
<1>0. /\ OnVideo(m, step, f, again) /\ step \in Int /\ f \in StepFaults /\ "cache" \notin f
      /\ m.key \in BOOLEAN /\ m.idr \in BOOLEAN /\ m.data \in Nat
      /\ bound \in {"frames", "headers", "sessions"} /\ Count(bound, f)
  BY DEF VideoStep
<1>1. /\ clock + step >= 0
      /\ hls' = CASE takes -> Output(write_frame(hls, frame, f), f, again)
                  [] ~ takes /\ marks -> on_sequence_header(hls)
                  [] OTHER -> hls
      /\ sent' = IF takes THEN Append(sent, frame) ELSE sent
  BY <1>0 DEF OnVideo
<1>2. (takes => hls.enabled /\ p.format.sps # 0) /\ (marks => hls.enabled)
  BY DEF WritesVideo, MarksVideo, Fmt!is_avc_codec_ok
<1>3. HubInv /\ HlsInv(hls) /\ Booked(hls) /\ Recorded(hls, sent)
  BY DEF PlayInv, HubInv
<1>4. p.format.sps \in Nat /\ p.format.key \in BOOLEAN /\ p.format.idr \in BOOLEAN
  BY <1>0, <1>3, VideoParsed DEF HubInv
<1> HIDE DEF p
<1>5. frame \in Frame /\ (takes => (frame.idr => frame.sps # 0))
  BY <1>0, <1>1, <1>2, <1>3, <1>4 DEF HubInv, Frame
<1> HIDE DEF frame, takes, marks
<1>6. Undisturbed' => Undisturbed /\ f = {}
  BY <1>0, <1>3, Counted DEF HubInv
<1>7. Undisturbed => Clean(hls) /\ Filled(hls)
  BY DEF PlayInv, HubInv
<1>8. Booked(hls') /\ Recorded(hls', sent')
  <2>1. \/ /\ hls.enabled /\ hls' = Output(write_frame(hls, frame, f), f, again)
           /\ sent' = IF "cache" \in f THEN sent ELSE Append(sent, frame)
        \/ hls.enabled /\ hls' = on_sequence_header(hls) /\ sent' = sent
        \/ hls' = hls /\ sent' = sent
    BY <1>0, <1>1, <1>2
  <2> QED
    BY <1>3, <1>5, <2>1, MediaBook
<1>9. ASSUME Undisturbed' PROVE Filled(hls')
  <2>1. \/ /\ hls.enabled /\ (frame.idr => frame.sps # 0)
           /\ hls' = Output(write_frame(hls, frame, {}), {}, again)
        \/ hls.enabled /\ hls' = on_sequence_header(hls)
        \/ hls' = hls
    BY <1>1, <1>2, <1>5, <1>6, <1>9
  <2> QED
    BY <1>3, <1>5, <1>6, <1>7, <1>9, <2>1, MediaFile
<1> QED
  BY <1>8, <1>9

LEMMA PlayInit == Init => PlayInv
<1> SUFFICES ASSUME Init PROVE PlayInv
  OBVIOUS
<1>1. /\ hls.current = NULL /\ hls.segments = << >> /\ hls.out = << >> /\ sent = << >>
      /\ hls.writing = FALSE /\ hls.audio = NULL /\ hls.video = NULL
  BY DEF Init, NewHls
<1>2. Filled(hls)
  BY <1>1 DEF Filled, WindowDecodable
<1>3. \A type \in Kinds : hls[type] = NULL
  BY <1>1 DEF Kinds
<1>4. Booked(hls)
  BY <1>1, <1>3 DEF Booked
<1>5. Recorded(hls, sent)
  <2>1. << >> \o << >> = << >>
    BY ConcatEmptySeq
  <2>2. hls.out \o Held(hls) = << >>
    BY <1>1, <2>1 DEF Held
  <2>3. Messages(sent) = << >>
    BY <1>1 DEF Messages
  <2>4. sent \in Seq(Frame)
    BY <1>1
  <2>5. \A type \in Kinds : All(type, hls) = FramesOf(type, << >>)
    BY <1>3, <2>2 DEF All, Joins, Total
  <2> QED
    BY <2>3, <2>4, <2>5 DEF Recorded
<1> QED
  BY <1>2, <1>4, <1>5, HubInit DEF PlayInv

LEMMA PlayNext == PlayInv /\ [Next]_vars => PlayInv'
<1> SUFFICES ASSUME PlayInv, [Next]_vars
             PROVE  Booked(hls') /\ Recorded(hls', sent') /\ (Undisturbed' => Filled(hls'))
  BY HubNext DEF PlayInv
<1>0. HubInv /\ HlsInv(hls) /\ Booked(hls) /\ Recorded(hls, sent)
      /\ (Undisturbed => Clean(hls) /\ Filled(hls))
  BY DEF PlayInv, HubInv
<1>1. ASSUME NEW f \in Faults, NEW ll \in BOOLEAN, OnPublish(f, ll)
      PROVE  Booked(hls') /\ Recorded(hls', sent') /\ (Undisturbed' => Filled(hls'))
  <2>1. hls' = on_publish(hls, f).hls /\ sent' = sent /\ Count("sessions", f)
    BY <1>1 DEF OnPublish
  <2>2. Undisturbed' => Undisturbed /\ f = {}
    BY <1>0, <2>1, Counted DEF HubInv, StepFaults
  <2>3. Undisturbed' => Filled(hls')
    BY <1>0, <2>1, <2>2, PublishedFile
  <2>4. Keeps(hls, hls')
    BY <1>0, <2>1, PublishedBook
  <2> QED
    BY <1>0, <2>1, <2>3, <2>4 DEF Keeps, Recorded
<1>2. ASSUME NEW f \in Faults, OnUnpublish(f)
      PROVE  Booked(hls') /\ Recorded(hls', sent') /\ (Undisturbed' => Filled(hls'))
  <2>1. hls' = on_unpublish(hls, f) /\ sent' = sent
        /\ used' = [used EXCEPT !.faults = @ + Cardinality(f)]
    BY <1>2 DEF OnUnpublish
  <2>2. Cardinality(f) \in Nat /\ (Cardinality(f) = 0 => f = {})
    BY FaultCount DEF StepFaults
  <2>3. Undisturbed' => Undisturbed /\ f = {}
    BY <1>0, <2>1, <2>2 DEF HubInv, UsedInv, Undisturbed
  <2>4. Undisturbed' => Filled(hls')
    BY <1>0, <2>1, <2>3, UnpublishedFile
  <2>5. Keeps(hls, hls')
    BY <1>0, <2>1, UnpublishedBook
  <2> QED
    BY <1>0, <2>1, <2>4, <2>5 DEF Keeps, Recorded
<1>3. ASSUME NEW m, NEW step, NEW f, NEW again, NEW bound, AudioStep(m, step, f, again, bound)
      PROVE  Booked(hls') /\ Recorded(hls', sent') /\ (Undisturbed' => Filled(hls'))
  BY <1>3, PlayOnAudio
<1>4. ASSUME NEW m, NEW step, NEW f, NEW again, NEW bound, VideoStep(m, step, f, again, bound)
      PROVE  Booked(hls') /\ Recorded(hls', sent') /\ (Undisturbed' => Filled(hls'))
  BY <1>4, PlayOnVideo
<1>5. ASSUME UNCHANGED vars
      PROVE  Booked(hls') /\ Recorded(hls', sent') /\ (Undisturbed' => Filled(hls'))
  BY <1>0, <1>5 DEF vars, Undisturbed
<1>6. FormatInv(format)
  BY <1>0 DEF HubInv
<1> QED
  BY <1>1, <1>2, <1>3, <1>4, <1>5, <1>6, NextCases

\* The TS context and the muxer: while no call fails, every file the playlist names begins
\* with PAT and PMT, every picture that can be decoded alone has its SPS in front, and when
\* a video frame cut the stream, the video begins with a frame marked as key frame.
THEOREM SegmentsStayPlayable == Spec => []Playable
<1>1. PlayInv => Playable
  <2> SUFFICES ASSUME PlayInv, Undisturbed PROVE Playable
    BY DEF Playable
  <2>1. hls.m3u8 = hls.segments /\ WindowDecodable(hls.segments, hls.files)
    BY DEF PlayInv, HubInv, HlsInv, Clean, Stored, Filled
  <2> QED
    BY <2>1 DEF Playable, WindowDecodable
<1>2. Spec => []PlayInv
  BY PlayInit, PlayNext, PTL DEF Spec
<1> QED
  BY <1>1, <1>2, PTL

\* A message that is still cached comes after those of the segments.
LEMMA PendingFrames ==
    ASSUME NEW s \in Seq(TsMessage), NEW msg \in TsMessage \cup {NULL}, NEW type
    PROVE  /\ s \o Pending(msg) \in Seq(TsMessage)
           /\ FramesOf(type, s \o Pending(msg)) =
                IF msg = NULL THEN FramesOf(type, s) ELSE AndFrames(type, FramesOf(type, s), msg)
<1>1. s \o << >> = s /\ << >> \in Seq(TsMessage)
  BY ConcatEmptySeq
<1>2. CASE msg = NULL
  BY <1>1, <1>2 DEF Pending
<1>3. CASE msg # NULL
  <2>1. msg \in TsMessage /\ Append(<< >>, msg) = <<msg>> /\ Pending(msg) = <<msg>>
    BY <1>3 DEF Pending
  <2>2. s \o <<msg>> \in Seq(TsMessage)
    BY <2>1, ConcatProperties
  <2>3. FramesOf(type, s \o Append(<< >>, msg)) = AndFrames(type, FramesOf(type, s \o << >>), msg)
    BY <1>1, <2>1, FramesWritten
  <2> QED
    BY <1>1, <1>3, <2>1, <2>2, <2>3
<1> QED
  BY <1>2, <1>3

\* The cache, flush and the end of a segment: whatever call fails, the segments and the
\* cache hold every frame the cache took, once and in the order of its kind.
THEOREM FramesStayOnce == Spec => []FramesOnce
<1>1. PlayInv => FramesOnce
  <2> SUFFICES ASSUME PlayInv, NEW type \in Kinds
               PROVE  FramesOf(type, hls.out \o Held(hls) \o Pending(hls.audio) \o Pending(hls.video))
                        = FramesOf(type, Messages(sent))
    BY DEF FramesOnce, Kinds
  <2>1. HlsType(hls) /\ Booked(hls) /\ Recorded(hls, sent)
    BY DEF PlayInv, HubInv, HlsInv
  <2>2. PICK s \in Seq(TsMessage) : s = hls.out \o Held(hls)
    BY <2>1, HeldSeq
  <2>3. PICK a \in TsMessage \cup {NULL}, v \in TsMessage \cup {NULL} : a = hls.audio /\ v = hls.video
    BY <2>1 DEF HlsType
  <2>4. (a # NULL => a.type = "audio") /\ (v # NULL => v.type = "video")
    <3>1. "audio" \in Kinds /\ "video" \in Kinds
      BY DEF Kinds
    <3> QED
      BY <2>1, <2>3, <3>1 DEF Booked
  <2>5. PICK t \in Seq(TsMessage) :
           /\ t = s \o Pending(a)
           /\ FramesOf(type, t) = IF a = NULL THEN FramesOf(type, s)
                                  ELSE AndFrames(type, FramesOf(type, s), a)
    BY PendingFrames
  <2>6. FramesOf(type, t \o Pending(v)) =
          IF v = NULL THEN FramesOf(type, t) ELSE AndFrames(type, FramesOf(type, t), v)
    BY PendingFrames
  <2>7. /\ FramesOf(type, s) = Total(type, hls)
        /\ type = "audio" => hls[type] = a
        /\ type = "video" => hls[type] = v
    BY <2>2, <2>3 DEF Total
  <2>8. FramesOf(type, t \o Pending(v)) = All(type, hls)
    <3>1. CASE type = "audio"
      BY <2>4, <2>5, <2>6, <2>7, <3>1 DEF AndFrames, All, Joins
    <3>2. CASE type = "video"
      BY <2>4, <2>5, <2>6, <2>7, <3>2 DEF AndFrames, All, Joins
    <3> QED
      BY <3>1, <3>2 DEF Kinds
  <2>9. hls.out \o Held(hls) \o Pending(hls.audio) \o Pending(hls.video) = t \o Pending(v)
    BY <2>2, <2>3, <2>5
  <2> QED
    BY <2>1, <2>8, <2>9 DEF Recorded
<1>2. Spec => []PlayInv
  BY PlayInit, PlayNext, PTL DEF Spec
<1> QED
  BY <1>1, <1>2, PTL
=============================================================================
