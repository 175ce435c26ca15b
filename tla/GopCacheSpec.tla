---------------------------- MODULE GopCacheSpec ----------------------------
(***************************************************************************)
(* The life of the SrsGopCache of one source: SrsLiveSource caches every    *)
(* audio and video message that is not a sequence header, and clears the    *)
(* cache when publishing stops.  All of it happens under the source lock.   *)
(***************************************************************************)
EXTENDS GopCache

CONSTANTS GopCacheMaxFrames,   \* gop_cache_max_frames (2500 in the program)
          MaxPublished         \* bound: messages in a behaviour

ASSUME GopCacheSpecAssumption ==
    GopCacheMaxFrames \in Nat /\ MaxPublished \in Nat

VARIABLES gop,
          npublished,   \* messages published so far
          log           \* the cacheable ones of this session, in order

gopVars == <<gop, npublished, log>>

CachedKinds == {"aac", "key", "inter", "vother"}

GopMessage == [kind : CachedKinds, id : Nat]

GopTypeOK ==
    /\ gop \in [gop_cache : Seq(GopMessage), enable_gop_cache : BOOLEAN,
                gop_cache_max_frames : Nat, cached_video_count : Nat,
                audio_after_last_video_count : 0 .. SRS_PURE_AUDIO_GUESS_COUNT]
    /\ npublished \in Nat
    /\ log \in Seq(GopMessage)

\* SrsRtmpConn::stream_service_cycle sets the configuration before it publishes.
GopInit ==
    /\ \E enabled \in BOOLEAN :
          gop = GopSetMaxFrames(GopSet(NewGop, enabled), GopCacheMaxFrames)
    /\ npublished = 0
    /\ log = << >>

\* gop_cache->cache() at the end of on_audio_imp and on_video_imp.
Cache(k) ==
    LET m == [kind |-> k, id |-> npublished + 1]
    IN  /\ npublished < MaxPublished
        /\ gop' = GopAdd(gop, m)
        /\ npublished' = npublished + 1
        /\ log' = IF is_audio(m) \/ h264(m) THEN Append(log, m) ELSE log

\* gop_cache->clear() in on_unpublish.
Unpublish ==
    /\ gop' = GopClear(gop)
    /\ log' = << >>
    /\ UNCHANGED npublished

GopNext == (\E k \in CachedKinds : Cache(k)) \/ Unpublish

GopSpec == GopInit /\ [][GopNext]_gopVars

-----------------------------------------------------------------------------

\* What a joining player is given ends with the newest cacheable message and
\* has no hole: the cache is empty or a run of the session's messages up to now.
GopIsRecent ==
    LET n == Len(gop.gop_cache)
    IN  /\ n <= Len(log)
        /\ gop.gop_cache = SubSeq(log, Len(log) - n + 1, Len(log))

\* A key frame is the first message of the cache or is not in it: a joining
\* player is never given more than one GOP.
OneGop ==
    \A i \in DOMAIN gop.gop_cache : gop.gop_cache[i].kind = "key" => i = 1

\* The cache never outgrows its limit, also for a stream without key frames
\* (the out-of-memory case named in srs_app_source.hpp).
GopBounded ==
    gop.gop_cache_max_frames > 0 => Len(gop.gop_cache) <= gop.gop_cache_max_frames

=============================================================================
