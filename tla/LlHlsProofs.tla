---------------------------- MODULE LlHlsProofs ----------------------------
(***************************************************************************)
(* Proofs about LL-HLS, for every value of the constants: the storage with  *)
(* its window and its playlist (LlHlsWindow), and its two users, the muxer  *)
(* that writes it (LlHlsMuxer) and the HTTP threads that read it            *)
(* (LlHlsServe).                                                            *)
(*                                                                          *)
(* The operations of the storage are followed through their stages: Opened, *)
(* Added, shrink, refresh_playlist; each lemma says what one stage does to  *)
(* the storage.  Both users implement WindowSpec, so what is shown of the   *)
(* window holds with either.  The muxer's invariant relates the segment     *)
(* that is open, the configurations of its samples and the two sums of its  *)
(* duration.  What a reader learnt from one call of the storage survives    *)
(* until its next call because the window only moves forward (Advanced).    *)
(***************************************************************************)
EXTENDS LlHlsMuxer, LlHlsServe, TLAPS

-----------------------------------------------------------------------------
(* The storage.                                                             *)


Playlists == [media_sequence : Nat \cup {-1}, parts : SUBSET (Nat \X Nat),
              segments : SUBSET Nat, hint : SUBSET (Nat \X Nat)]

Storages == [active : BOOLEAN, segments : Seq(Segment), next_msn : Nat,
             latest_msn : Nat \cup {-1}, latest_psn : Nat \cup {-1},
             init : SUBSET Configs, playlist : Playlists]

\* WindowConsistent as a predicate on a storage.
Numbered(s) ==
    \A i \in DOMAIN s.segments :
        /\ s.segments[i].msn = s.next_msn - Len(s.segments) + i - 1
        /\ i < Len(s.segments) => s.segments[i].parts # << >> /\ s.segments[i].completed

Consistent(s) ==
    /\ Numbered(s)
    /\ s.segments # << >> => /\ LastSeg(s).parts # << >>
                             /\ s.latest_msn = LastSeg(s).msn
                             /\ s.latest_psn = Len(LastSeg(s).parts) - 1

\* The playlist is the one of the window; only its hint may be missing, as after
\* on_publish, which does not make it again.
Agrees(s) ==
    /\ s.playlist.parts = generate(s).parts
    /\ s.playlist.segments = generate(s).segments
    /\ s.playlist.hint # {} => s.segments # << >> /\ s.playlist.hint = {NextPart(s)}

\* WindowConsistent, which is stated about the variable, is Consistent(storage).
LEMMA ConsistentWindow ==
    ASSUME NEW s \in Storages
    PROVE  Consistent(s) <=>
             /\ \A i \in DOMAIN s.segments :
                   /\ s.segments[i].msn = s.next_msn - Len(s.segments) + i - 1
                   /\ s.segments[i].parts # << >>
                   /\ i < Len(s.segments) => s.segments[i].completed
             /\ s.segments # << >> => /\ s.latest_msn = LastSeg(s).msn
                                      /\ s.latest_psn = Len(LastSeg(s).parts) - 1
<1>1. s.segments \in Seq(Segment)
  BY DEF Storages
<1>2. s.segments # << >> => Len(s.segments) \in DOMAIN s.segments
  BY <1>1
<1> QED
  BY <1>1, <1>2 DEF Consistent, Numbered, LastSeg

\* The segment that takes a part is open, and the numbers go on without a hole.
LEMMA OpenedFacts ==
    ASSUME NEW s \in Storages, Consistent(s)
    PROVE  LET o == Opened(s)
               n == Len(o.segments)
           IN  /\ o \in Storages
               /\ n \in Nat \ {0}
               /\ o.active = s.active
               /\ Numbered(o)
               /\ ~o.segments[n].completed
               /\ \/ o = s
                  \/ /\ n = Len(s.segments) + 1
                     /\ o.next_msn = s.next_msn + 1
                     /\ o.segments[n].parts = << >>
                     /\ s.segments # << >> => LastSeg(s).completed
               /\ \A i \in 1 .. n - 1 : i \in DOMAIN s.segments /\ o.segments[i] = s.segments[i]
<1> DEFINE new == [msn |-> s.next_msn, duration |-> 0, completed |-> FALSE, parts |-> << >>]
           l == Len(s.segments)
<1>1. new \in Segment /\ l \in Nat /\ s.segments \in Seq(Segment) /\ s.next_msn \in Nat
  BY DEF Storages, Segment
<1>2. CASE s.segments = << >> \/ LastSeg(s).completed
  <2> DEFINE o == [s EXCEPT !.segments = Append(@, new), !.next_msn = @ + 1]
  <2>1. Opened(s) = o
    BY <1>2 DEF Opened
  <2>a. Append(s.segments, new) \in Seq(Segment) /\ s.next_msn + 1 \in Nat
    BY <1>1
  <2> HIDE DEF new
  <2>2. /\ o.segments = Append(s.segments, new)
        /\ o.next_msn = s.next_msn + 1
        /\ o.active = s.active
        /\ o \in Storages
    BY <2>a DEF Storages
  <2> HIDE DEF o
  <2>3. /\ Len(o.segments) = l + 1
        /\ o.segments[l + 1] = new
        /\ \A i \in 1 .. l : o.segments[i] = s.segments[i]
        /\ DOMAIN o.segments = 1 .. l + 1
        /\ DOMAIN s.segments = 1 .. l
    BY <1>1, <2>2
  <2> HIDE DEF new
  <2>4. new.msn = s.next_msn /\ ~new.completed /\ new.parts = << >>
    BY DEF new
  <2>5. \A i \in 1 .. l : s.segments[i].completed /\ s.segments[i].parts # << >>
    <3> SUFFICES ASSUME NEW i \in 1 .. l
                 PROVE  s.segments[i].completed /\ s.segments[i].parts # << >>
      OBVIOUS
    <3>1. Numbered(s) /\ (s.segments # << >> => LastSeg(s).parts # << >>)
      BY DEF Consistent
    <3>2. CASE i < l
      BY ONLY <2>3, <3>1, <3>2 DEF Numbered
    <3>3. CASE i = l
      <4>1. s.segments # << >>
        BY ONLY <1>1, <3>3, i \in 1 .. l
      <4> QED
        BY ONLY <1>2, <3>1, <3>3, <4>1, Zenon DEF LastSeg
    <3> QED
      BY ONLY <1>1, <3>2, <3>3, i \in 1 .. l
  <2>6. \A i \in 1 .. l : o.segments[i].msn = o.next_msn - (l + 1) + i - 1
    <3> TAKE i \in 1 .. l
    <3>1. s.segments[i].msn = s.next_msn - l + i - 1
      BY <2>3 DEF Consistent, Numbered
    <3>2. s.next_msn - l + i - 1 = (s.next_msn + 1) - (l + 1) + i - 1
      <4>1. \A x, y, z \in Int : x - y + z - 1 = (x + 1) - (y + 1) + z - 1
        BY ONLY TRUE
      <4>2. s.next_msn \in Int /\ l \in Int /\ i \in Int
        BY ONLY <1>1, i \in 1 .. l
      <4> QED
        BY ONLY <4>1, <4>2, Zenon
    <3> QED
      BY <2>2, <2>3, <3>1, <3>2
  <2>7. Numbered(o)
    <3> SUFFICES ASSUME NEW i \in 1 .. l + 1
                 PROVE  /\ o.segments[i].msn = o.next_msn - (l + 1) + i - 1
                        /\ i < l + 1 => o.segments[i].parts # << >> /\ o.segments[i].completed
      BY <2>3 DEF Numbered
    <3>1. CASE i \in 1 .. l
      BY <2>3, <2>5, <2>6, <3>1
    <3>2. CASE i = l + 1
      <4>1. s.next_msn = (s.next_msn + 1) - (l + 1) + (l + 1) - 1
        <5>1. \A x, y \in Int : x = (x + 1) - (y + 1) + (y + 1) - 1
          BY ONLY TRUE
        <5>2. s.next_msn \in Int /\ l \in Int
          BY ONLY <1>1
        <5> QED
          BY ONLY <5>1, <5>2, Zenon
      <4>2. o.segments[i].msn = o.next_msn - (l + 1) + i - 1
        BY ONLY <2>2, <2>3, <2>4, <3>2, <4>1, Zenon
      <4>3. ~ (i < l + 1)
        BY ONLY <1>1, <3>2
      <4> QED
        BY ONLY <4>2, <4>3
    <3> QED
      BY ONLY <1>1, <3>1, <3>2, i \in 1 .. l + 1
  <2> QED
    BY <1>1, <1>2, <2>1, <2>2, <2>3, <2>4, <2>7
<1>3. CASE ~(s.segments = << >> \/ LastSeg(s).completed)
  <2>1. Opened(s) = s
    BY <1>3 DEF Opened
  <2> QED
    BY <1>1, <1>3, <2>1 DEF Consistent, LastSeg
<1> QED
  BY <1>2, <1>3

\* Added puts the part at the end of the segment that Opened provides, and the
\* result is consistent.
LEMMA AddedFacts ==
    ASSUME NEW s \in Storages, Consistent(s), NEW part \in Part, NEW close_segment \in BOOLEAN
    PROVE  LET o == Opened(s)
               n == Len(o.segments)
               a == Added(s, part, close_segment)
           IN  /\ a \in Storages
               /\ Consistent(a)
               /\ a.active = s.active
               /\ Len(a.segments) = n
               /\ a.next_msn = o.next_msn
               /\ a.segments[n].msn = o.segments[n].msn
               /\ a.segments[n].completed = close_segment
               /\ a.segments[n].parts = Append(o.segments[n].parts, part)
               /\ \A i \in 1 .. n - 1 : a.segments[i] = o.segments[i]
<1> DEFINE o == Opened(s)
           n == Len(o.segments)
           g == o.segments[n]
           h == [g EXCEPT !.parts = Append(@, part), !.duration = @ + part.duration,
                          !.completed = @ \/ close_segment]
           segs == [o.segments EXCEPT ![n] = h]
           a == Added(s, part, close_segment)
<1>1. /\ o \in Storages
      /\ o.active = s.active
      /\ n \in Nat \ {0}
      /\ Numbered(o)
      /\ ~g.completed
  BY OpenedFacts
<1> HIDE DEF o
<1>2. o.segments \in Seq(Segment) /\ n \in DOMAIN o.segments /\ DOMAIN o.segments = 1 .. n
  BY <1>1 DEF Storages
<1>3. g \in Segment
  BY <1>2
<1>4. /\ h \in Segment
      /\ h.msn = g.msn
      /\ h.completed = close_segment
      /\ h.parts = Append(g.parts, part)
      /\ Len(h.parts) = Len(g.parts) + 1
  <2>1. Append(g.parts, part) \in Seq(Part) /\ Len(Append(g.parts, part)) = Len(g.parts) + 1
    BY <1>3 DEF Segment
  <2>2. g.duration + part.duration \in Int
    BY <1>3 DEF Segment, Part
  <2>3. (g.completed \/ close_segment) = close_segment
    BY <1>1, Zenon
  <2>4. h = [g EXCEPT !.parts = Append(g.parts, part), !.duration = g.duration + part.duration,
                      !.completed = close_segment]
    BY <1>3, <2>3 DEF Segment
  <2> HIDE DEF h
  <2> QED
    BY <1>3, <2>1, <2>2, <2>4 DEF Segment
<1> HIDE DEF h
<1>5. /\ segs \in Seq(Segment)
      /\ Len(segs) = n
      /\ segs[n] = h
      /\ \A i \in 1 .. n - 1 : segs[i] = o.segments[i]
      /\ DOMAIN segs = 1 .. n
  BY <1>1, <1>2, <1>4
<1> HIDE DEF segs
<1>6. a = [o EXCEPT !.segments = segs, !.latest_msn = g.msn, !.latest_psn = Len(g.parts)]
  BY <1>1 DEF Added, segs, h, o, Storages
<1>7. g.msn \in Nat /\ Len(g.parts) \in Nat
  BY <1>3 DEF Segment
<1>8. /\ a \in Storages
      /\ a.segments = segs
      /\ a.next_msn = o.next_msn
      /\ a.active = s.active
      /\ a.latest_msn = g.msn
      /\ a.latest_psn = Len(g.parts)
  BY <1>1, <1>5, <1>6, <1>7 DEF Storages
<1> HIDE DEF a
<1>9. Numbered(a)
  <2> SUFFICES ASSUME NEW i \in 1 .. n
               PROVE  /\ segs[i].msn = o.next_msn - n + i - 1
                      /\ i < n => segs[i].parts # << >> /\ segs[i].completed
    BY <1>5, <1>8 DEF Numbered
  <2>1. CASE i = n
    BY <1>1, <1>2, <1>4, <1>5, <2>1 DEF Numbered
  <2>2. CASE i \in 1 .. n - 1
    BY <1>1, <1>2, <1>5, <2>2 DEF Numbered
  <2> QED
    BY <1>1, <2>1, <2>2
<1>10. Consistent(a)
  <2>1. LastSeg(a) = h
    BY <1>5, <1>8 DEF LastSeg
  <2>2. h.parts # << >> /\ a.latest_psn = Len(h.parts) - 1
    BY <1>3, <1>4, <1>7, <1>8 DEF Segment
  <2> QED
    BY <1>4, <1>8, <1>9, <2>1, <2>2 DEF Consistent
<1> QED
  BY <1>4, <1>5, <1>8, <1>10 DEF o, a

\* How many segments a window of completed segments loses.
LEMMA ExpiredCount ==
    ASSUME NEW segs \in Seq(Segment), \A i \in DOMAIN segs : segs[i].completed
    PROVE  Expired(segs) = IF Len(segs) > MaxSegments THEN Len(segs) - MaxSegments ELSE 0
<1> DEFINE S == {0} \cup {d \in DOMAIN segs :
                    Len(segs) - d >= MaxSegments /\ \A i \in 1 .. d : segs[i].completed}
           k == IF Len(segs) > MaxSegments THEN Len(segs) - MaxSegments ELSE 0
<1>1. MaxSegments \in Nat \ {0} /\ Len(segs) \in Nat /\ DOMAIN segs = 1 .. Len(segs)
  BY LlHlsStorageAssumption
<1>2. k \in S
  <2>1. CASE Len(segs) > MaxSegments
    <3>1. /\ k = Len(segs) - MaxSegments
          /\ k \in 1 .. Len(segs)
          /\ Len(segs) - k = MaxSegments
      BY <1>1, <2>1
    <3> HIDE DEF k
    <3>2. \A i \in 1 .. k : i \in 1 .. Len(segs)
      BY <1>1, <3>1
    <3>3. \A i \in 1 .. k : segs[i].completed
      BY <1>1, <3>2
    <3>4. Len(segs) - k >= MaxSegments
      BY <1>1, <3>1
    <3> QED
      BY <1>1, <3>1, <3>3, <3>4
  <2>2. CASE ~(Len(segs) > MaxSegments)
    BY <2>2
  <2> QED
    BY <2>1, <2>2
<1>3. \A d \in S : d \in Nat /\ d <= k
  BY <1>1
<1>4. k \in Nat
  BY <1>1
<1> HIDE DEF S, k
<1>5. \A x \in S : (\A y \in S : x >= y) => x = k
  BY <1>2, <1>3, <1>4
<1>6. Max(S) = k
  BY <1>2, <1>3, <1>4, <1>5 DEF Max
<1> QED
  BY <1>6 DEF Expired, S, k

\* shrink() leaves a window of completed segments consistent, within the limit,
\* and not empty: it drops the oldest k.
LEMMA ShrinkFacts ==
    ASSUME NEW a \in Storages, Consistent(a), a.segments # << >>, LastSeg(a).completed
    PROVE  LET b == shrink(a)
               n == Len(a.segments)
           IN  /\ b \in Storages
               /\ Consistent(b)
               /\ b.segments # << >>
               /\ Len(b.segments) <= MaxSegments
               /\ b.active = a.active
               /\ b.next_msn = a.next_msn
               /\ LastSeg(b) = LastSeg(a)
               /\ \A i \in DOMAIN b.segments :
                     /\ i + (n - Len(b.segments)) \in DOMAIN a.segments
                     /\ b.segments[i] = a.segments[i + (n - Len(b.segments))]
<1> DEFINE n == Len(a.segments)
           k == IF n > MaxSegments THEN n - MaxSegments ELSE 0
           segs == SubSeq(a.segments, k + 1, n)
           b == shrink(a)
<1>1. /\ a.segments \in Seq(Segment)
      /\ n \in Nat \ {0}
      /\ DOMAIN a.segments = 1 .. n
      /\ a.next_msn \in Nat
      /\ MaxSegments \in Nat \ {0}
  BY LlHlsStorageAssumption DEF Storages
<1>2. \A i \in DOMAIN a.segments : a.segments[i].completed
  BY <1>1 DEF Consistent, Numbered, LastSeg
<1>3. b = [a EXCEPT !.segments = segs]
  BY <1>1, <1>2, ExpiredCount DEF shrink
<1>4. k \in 0 .. n - 1
  BY <1>1
<1>5. n - k <= MaxSegments
  BY <1>1
<1> HIDE DEF k
<1>6. /\ segs \in Seq(Segment)
      /\ Len(segs) = n - k
      /\ DOMAIN segs = 1 .. n - k
      /\ \A i \in 1 .. n - k : segs[i] = a.segments[i + k]
  BY <1>1, <1>4
<1> HIDE DEF segs
<1>7. /\ b \in Storages
      /\ b.segments = segs
      /\ b.active = a.active
      /\ b.next_msn = a.next_msn
      /\ b.latest_msn = a.latest_msn
      /\ b.latest_psn = a.latest_psn
  BY <1>3, <1>6 DEF Storages
<1> HIDE DEF b
<1>8. /\ segs # << >>
      /\ LastSeg(b) = LastSeg(a)
  BY <1>1, <1>4, <1>6, <1>7 DEF LastSeg
<1>9. Numbered(b)
  <2> SUFFICES ASSUME NEW i \in 1 .. n - k
               PROVE  /\ segs[i].msn = a.next_msn - (n - k) + i - 1
                      /\ segs[i].completed
                      /\ segs[i].parts # << >>
    BY <1>6, <1>7 DEF Numbered
  <2>1. i + k \in 1 .. n
    BY <1>1, <1>4
  <2>2. a.segments[i + k].msn = a.next_msn - n + (i + k) - 1
    BY <1>1, <2>1 DEF Consistent, Numbered
  <2>3. a.segments[i + k].parts # << >>
    <3>1. Numbered(a) /\ (a.segments # << >> => LastSeg(a).parts # << >>)
      BY DEF Consistent
    <3>2. a.segments # << >>
      BY ONLY <1>1
    <3>3. \A x \in 1 .. n : x < n => a.segments[x].parts # << >>
      BY ONLY <1>1, <3>1, Zenon DEF Numbered
    <3>4. a.segments[n].parts # << >>
      BY ONLY <3>1, <3>2, Zenon DEF LastSeg
    <3>5. i + k < n \/ i + k = n
      BY ONLY <1>1, <2>1
    <3> QED
      BY ONLY <2>1, <3>3, <3>4, <3>5, Zenon
  <2>4. a.next_msn - n + (i + k) - 1 = a.next_msn - (n - k) + i - 1
    BY <1>1, <1>4
  <2> QED
    BY <1>1, <1>2, <1>6, <2>1, <2>2, <2>3, <2>4
<1>10. Consistent(b)
  BY <1>7, <1>8, <1>9 DEF Consistent
<1>11. n - Len(segs) = k
  BY <1>1, <1>4, <1>6
<1>12. \A i \in DOMAIN segs : i + k \in DOMAIN a.segments
  BY <1>1, <1>4, <1>6
<1> QED
  BY <1>5, <1>6, <1>7, <1>8, <1>10, <1>11, <1>12 DEF b

\* The playlist of a consistent window is a playlist: its numbers are natural.
LEMMA GenerateType ==
    ASSUME NEW s \in Storages, Consistent(s)
    PROVE  generate(s) \in Playlists
<1> DEFINE n == Len(s.segments)
<1>1. s.segments \in Seq(Segment) /\ n \in Nat /\ DOMAIN s.segments = 1 .. n
  BY DEF Storages
<1>2. \A i \in 1 .. n : /\ s.segments[i] \in Segment
                        /\ s.segments[i].msn \in Nat
                        /\ Len(s.segments[i].parts) \in Nat
  <2> TAKE i \in 1 .. n
  <2>1. s.segments[i] \in Segment
    BY <1>1
  <2> QED
    BY <2>1 DEF Segment
<1>3. CASE s.segments = << >>
  BY <1>3 DEF generate, NoPlaylist, Playlists
<1>4. CASE s.segments # << >>
  <2>1. n \in 1 .. n /\ 1 \in 1 .. n
    BY <1>1, <1>4
  <2>2. FirstSeg(s).msn \in Nat
    BY <1>2, <2>1 DEF FirstSeg
  <2>3. LastSeg(s).msn \in Nat /\ Len(LastSeg(s).parts) \in Nat
    BY <1>2, <2>1 DEF LastSeg
  <2>4. NextPart(s) \in Nat \X Nat
    BY <2>3 DEF NextPart
  <2>5. \A i \in 1 .. n : \A psn \in 0 .. Len(s.segments[i].parts) - 1 :
            <<s.segments[i].msn, psn>> \in Nat \X Nat
    BY <1>2
  <2>6. generate(s).parts \subseteq Nat \X Nat
    BY <1>1, <1>4, <2>5 DEF generate
  <2>7. generate(s).segments \subseteq Nat
    BY <1>1, <1>2, <1>4 DEF generate
  <2>8. generate(s).hint \subseteq Nat \X Nat
    BY <1>4, <2>4 DEF generate
  <2>9. generate(s) = [media_sequence |-> FirstSeg(s).msn, parts |-> generate(s).parts,
                       segments |-> generate(s).segments, hint |-> generate(s).hint]
    BY <1>4 DEF generate
  <2> QED
    BY <2>2, <2>6, <2>7, <2>8, <2>9 DEF Playlists
<1> QED
  BY <1>3, <1>4

\* refresh_playlist keeps everything but the playlist, which then agrees with the
\* window.
LEMMA RefreshFacts ==
    ASSUME NEW s \in Storages, Consistent(s)
    PROVE  LET r == refresh_playlist(s)
           IN  /\ r \in Storages
               /\ Consistent(r)
               /\ Agrees(r)
               /\ r.active = s.active
               /\ r.segments = s.segments
               /\ r.next_msn = s.next_msn
               /\ r.latest_msn = s.latest_msn
               /\ r.latest_psn = s.latest_psn
<1> DEFINE r == refresh_playlist(s)
<1>1. generate(s) \in Playlists
  BY GenerateType
<1>2. /\ r \in Storages
      /\ r.active = s.active
      /\ r.segments = s.segments
      /\ r.next_msn = s.next_msn
      /\ r.latest_msn = s.latest_msn
      /\ r.latest_psn = s.latest_psn
      /\ r.playlist = generate(s)
  BY <1>1 DEF refresh_playlist, Storages
<1> HIDE DEF r
<1>3. Consistent(r)
  BY <1>2 DEF Consistent, Numbered, LastSeg
<1>4. NextPart(r) = NextPart(s)
  BY <1>2 DEF NextPart, LastSeg
<1>5. generate(r) = generate(s)
  BY <1>2, <1>4 DEF generate, FirstSeg, LastSeg
<1>6. generate(s).hint # {} => s.segments # << >> /\ generate(s).hint = {NextPart(s)}
  BY DEF generate, NoPlaylist
<1>7. Agrees(r)
  BY <1>2, <1>4, <1>5, <1>6 DEF Agrees
<1> QED
  BY <1>2, <1>3, <1>7 DEF r

\* append_part from s to t puts the part in the open segment, or alone in a new one.
Continued(s, t, part) ==
    /\ s.segments # << >>
    /\ ~LastSeg(s).completed
    /\ t.next_msn = s.next_msn
    /\ LastSeg(t).msn = LastSeg(s).msn
    /\ LastSeg(t).parts = Append(LastSeg(s).parts, part)

Begun(s, t, part) ==
    /\ s.segments # << >> => LastSeg(s).completed
    /\ t.next_msn = s.next_msn + 1
    /\ LastSeg(t).msn = s.next_msn
    /\ LastSeg(t).parts = << part >>

\* The outcome of append_part: the part is the last one of the window, the other
\* segments are old ones, and the window is within its limit if a segment closed.
LEMMA AppendFacts ==
    ASSUME NEW s \in Storages, Consistent(s), NEW part \in Part, NEW close_segment \in BOOLEAN
    PROVE  LET t == append_part(s, part, close_segment)
           IN  /\ t \in Storages
               /\ Consistent(t)
               /\ Agrees(t)
               /\ t.segments # << >>
               /\ t.active = s.active
               /\ LastSeg(t).completed = close_segment
               /\ close_segment => Len(t.segments) <= MaxSegments
               /\ Continued(s, t, part) \/ Begun(s, t, part)
               /\ \A i \in DOMAIN t.segments :
                     i < Len(t.segments) => \E j \in DOMAIN s.segments : t.segments[i] = s.segments[j]
<1> DEFINE o == Opened(s)
           n == Len(o.segments)
           a == Added(s, part, close_segment)
           b == IF close_segment THEN shrink(a) ELSE a
           t == append_part(s, part, close_segment)
<1>1. /\ o \in Storages
      /\ n \in Nat \ {0}
      /\ Numbered(o)
      /\ ~o.segments[n].completed
      /\ \/ o = s
         \/ /\ n = Len(s.segments) + 1
            /\ o.next_msn = s.next_msn + 1
            /\ o.segments[n].parts = << >>
            /\ s.segments # << >> => LastSeg(s).completed
      /\ \A i \in 1 .. n - 1 : i \in DOMAIN s.segments /\ o.segments[i] = s.segments[i]
  BY OpenedFacts
<1>2. /\ a \in Storages
      /\ Consistent(a)
      /\ a.active = s.active
      /\ Len(a.segments) = n
      /\ a.next_msn = o.next_msn
      /\ a.segments[n].msn = o.segments[n].msn
      /\ a.segments[n].completed = close_segment
      /\ a.segments[n].parts = Append(o.segments[n].parts, part)
      /\ \A i \in 1 .. n - 1 : a.segments[i] = o.segments[i]
  BY AddedFacts
<1>3. t = refresh_playlist(b)
  BY DEF append_part
<1> HIDE DEF o, a, t
<1>4. a.segments \in Seq(Segment) /\ a.segments # << >> /\ DOMAIN a.segments = 1 .. n
  BY <1>1, <1>2 DEF Storages
<1>5. LastSeg(a) = a.segments[n]
  BY <1>2 DEF LastSeg
<1>6. /\ b \in Storages
      /\ Consistent(b)
      /\ b.segments # << >>
      /\ close_segment => Len(b.segments) <= MaxSegments
      /\ b.active = a.active
      /\ b.next_msn = a.next_msn
      /\ LastSeg(b) = LastSeg(a)
      /\ \A i \in DOMAIN b.segments :
            /\ i + (n - Len(b.segments)) \in DOMAIN a.segments
            /\ b.segments[i] = a.segments[i + (n - Len(b.segments))]
  <2>1. CASE close_segment
    <3>1. b = shrink(a)
      BY <2>1
    <3>2. LastSeg(a).completed
      BY ONLY <1>2, <1>5, <2>1
    <3>3. LET z == shrink(a)
              m == Len(a.segments)
          IN  /\ z \in Storages
              /\ Consistent(z)
              /\ z.segments # << >>
              /\ Len(z.segments) <= MaxSegments
              /\ z.active = a.active
              /\ z.next_msn = a.next_msn
              /\ LastSeg(z) = LastSeg(a)
              /\ \A i \in DOMAIN z.segments :
                    /\ i + (m - Len(z.segments)) \in DOMAIN a.segments
                    /\ z.segments[i] = a.segments[i + (m - Len(z.segments))]
      BY <1>2, <1>4, <3>2, ShrinkFacts, Zenon
    <3> QED
      BY <1>2, <3>1, <3>3, Zenon
  <2>2. CASE ~close_segment
    <3>1. n - Len(a.segments) = 0 /\ \A i \in 1 .. n : i + 0 = i
      BY <1>1, <1>2
    <3> QED
      BY <1>2, <1>4, <2>2, <3>1
  <2> QED
    BY <2>1, <2>2
<1> HIDE DEF b
<1>7. /\ t \in Storages
      /\ Consistent(t)
      /\ Agrees(t)
      /\ t.active = b.active
      /\ t.segments = b.segments
      /\ t.next_msn = b.next_msn
  BY <1>3, <1>6, RefreshFacts
<1>8. LastSeg(t) = a.segments[n]
  BY <1>5, <1>6, <1>7 DEF LastSeg
<1>9. \A i \in DOMAIN t.segments :
         i < Len(t.segments) => \E j \in DOMAIN s.segments : t.segments[i] = s.segments[j]
  <2> SUFFICES ASSUME NEW i \in DOMAIN b.segments, i < Len(b.segments)
               PROVE  \E j \in DOMAIN s.segments : b.segments[i] = s.segments[j]
    BY <1>7
  <2> DEFINE j == i + (n - Len(b.segments))
  <2>1. b.segments \in Seq(Segment) /\ Len(b.segments) \in Nat /\ i \in Nat
    BY <1>6 DEF Storages
  <2>2. j \in 1 .. n /\ b.segments[i] = a.segments[j]
    BY <1>4, <1>6
  <2>3. j # n
    <3>1. \A x, y, z \in Nat : x < y => x + (z - y) # z
      OBVIOUS
    <3> QED
      BY <1>1, <2>1, <3>1
  <2> HIDE DEF j
  <2>4. j \in 1 .. n - 1
    BY <1>1, <2>2, <2>3
  <2> QED
    BY <1>1, <1>2, <2>2, <2>4
<1>10. Continued(s, t, part) \/ Begun(s, t, part)
  <2>1. CASE o = s
    <3>1. LastSeg(s) = o.segments[n] /\ s.segments # << >>
      BY <1>1, <2>1 DEF LastSeg
    <3> QED
      BY <1>1, <1>2, <1>6, <1>7, <1>8, <2>1, <3>1 DEF Continued
  <2>2. CASE /\ n = Len(s.segments) + 1
             /\ o.next_msn = s.next_msn + 1
             /\ o.segments[n].parts = << >>
             /\ s.segments # << >> => LastSeg(s).completed
    <3>1. o.segments[n].msn = o.next_msn - n + n - 1
      BY <1>1 DEF Numbered, Storages
    <3>2. s.next_msn \in Int /\ n \in Int
      BY <1>1 DEF Storages
    <3>3. o.segments[n].msn = s.next_msn
      <4>1. \A x, y \in Int : (x + 1) - y + y - 1 = x
        BY ONLY TRUE
      <4> QED
        BY ONLY <2>2, <3>1, <3>2, <4>1, Zenon
    <3>4. Append(<< >>, part) = << part >>
      OBVIOUS
    <3> QED
      BY <1>2, <1>6, <1>7, <1>8, <2>2, <3>3, <3>4 DEF Begun
  <2> QED
    BY <1>1, <2>1, <2>2
<1> QED
  BY <1>2, <1>6, <1>7, <1>8, <1>9, <1>10 DEF t

\* A step that leaves the window and the playlist alone (on_publish, set_init).
LEMMA SameWindow ==
    ASSUME NEW s \in Storages, Consistent(s), Agrees(s), NEW t,
           t.segments = s.segments, t.next_msn = s.next_msn, t.playlist = s.playlist,
           t.latest_msn = s.latest_msn, t.latest_psn = s.latest_psn
    PROVE  Consistent(t) /\ Agrees(t)
<1>1. Consistent(t)
  BY DEF Consistent, Numbered, LastSeg
<1>2. NextPart(t) = NextPart(s)
  BY DEF NextPart, LastSeg
<1>3. generate(t).parts = generate(s).parts
  BY DEF generate, LastSeg, NoPlaylist
<1>4. generate(t).segments = generate(s).segments
  BY DEF generate, LastSeg, NoPlaylist
<1>5. Agrees(t)
  BY <1>2, <1>3, <1>4 DEF Agrees
<1> QED
  BY <1>1, <1>5

\* on_unpublish closes the last segment and otherwise keeps the window.
LEMMA UnpublishFacts ==
    ASSUME NEW s \in Storages, Consistent(s)
    PROVE  LET t == on_unpublish(s)
           IN  /\ t \in Storages
               /\ Consistent(t)
               /\ Agrees(t)
               /\ t.next_msn = s.next_msn
               /\ Len(t.segments) = Len(s.segments)
               /\ \A i \in DOMAIN s.segments : /\ t.segments[i].msn = s.segments[i].msn
                                               /\ t.segments[i].parts = s.segments[i].parts
<1> DEFINE n == Len(s.segments)
           c == IF n > 0 /\ ~LastSeg(s).completed /\ LastSeg(s).parts # << >>
                THEN [s EXCEPT !.segments[n].completed = TRUE] ELSE s
           u == [c EXCEPT !.active = FALSE]
           t == on_unpublish(s)
<1>1. t = refresh_playlist(u)
  BY DEF on_unpublish
<1>2. s.segments \in Seq(Segment) /\ n \in Nat /\ DOMAIN s.segments = 1 .. n
  BY DEF Storages
<1>3. /\ c \in Storages
      /\ c.next_msn = s.next_msn
      /\ c.latest_msn = s.latest_msn
      /\ c.latest_psn = s.latest_psn
      /\ Len(c.segments) = n
      /\ DOMAIN c.segments = 1 .. n
      /\ \A i \in 1 .. n : /\ c.segments[i].msn = s.segments[i].msn
                           /\ c.segments[i].parts = s.segments[i].parts
                           /\ i < n => c.segments[i].completed = s.segments[i].completed
  <2>1. CASE n > 0 /\ ~LastSeg(s).completed /\ LastSeg(s).parts # << >>
    <3> DEFINE g == s.segments[n]
               h == [g EXCEPT !.completed = TRUE]
               segs == [s.segments EXCEPT ![n] = h]
    <3>1. g \in Segment
      BY <1>2, <2>1
    <3>2. h \in Segment /\ h.msn = g.msn /\ h.parts = g.parts
      BY <3>1 DEF Segment
    <3> HIDE DEF h
    <3>3. /\ segs \in Seq(Segment)
          /\ Len(segs) = n
          /\ DOMAIN segs = 1 .. n
          /\ segs[n] = h
          /\ \A i \in 1 .. n : i # n => segs[i] = s.segments[i]
      BY <1>2, <2>1, <3>2
    <3> HIDE DEF segs
    <3>4. c = [s EXCEPT !.segments = segs]
      BY <2>1 DEF segs, h, Storages
    <3> HIDE DEF c
    <3>5. /\ c \in Storages
          /\ c.segments = segs
          /\ c.next_msn = s.next_msn
          /\ c.latest_msn = s.latest_msn
          /\ c.latest_psn = s.latest_psn
      BY <3>3, <3>4 DEF Storages
    <3> QED
      BY <1>2, <3>2, <3>3, <3>5
  <2>2. CASE ~(n > 0 /\ ~LastSeg(s).completed /\ LastSeg(s).parts # << >>)
    BY <1>2, <2>2
  <2> QED
    BY <2>1, <2>2
<1> HIDE DEF c
<1>a. \A i \in 1 .. n : c.segments[i].msn = s.segments[i].msn
  BY <1>3
<1>b. \A i \in 1 .. n : c.segments[i].parts = s.segments[i].parts
  BY <1>3
<1>c. \A i \in 1 .. n : i < n => c.segments[i].completed = s.segments[i].completed
  BY <1>3
<1>4. /\ u \in Storages
      /\ u.next_msn = c.next_msn
      /\ u.latest_msn = c.latest_msn
      /\ u.latest_psn = c.latest_psn
      /\ u.segments = c.segments
  BY <1>3 DEF Storages
<1> HIDE DEF u
<1>5. Consistent(u)
  <2>1. Numbered(u)
    <3> SUFFICES ASSUME NEW i \in 1 .. n
                 PROVE  /\ c.segments[i].msn = s.next_msn - n + i - 1
                        /\ i < n => c.segments[i].parts # << >> /\ c.segments[i].completed
      BY <1>3, <1>4 DEF Numbered
    <3>1. /\ s.segments[i].msn = s.next_msn - n + i - 1
          /\ i < n => s.segments[i].parts # << >> /\ s.segments[i].completed
      BY <1>2 DEF Consistent, Numbered
    <3> QED
      BY <1>a, <1>b, <1>c, <3>1, Zenon
  <2>2. ASSUME u.segments # << >>
        PROVE  /\ s.segments # << >>
               /\ LastSeg(u).parts = LastSeg(s).parts
               /\ LastSeg(u).msn = LastSeg(s).msn
    <3>1. n # 0
      BY <1>3, <1>4, <2>2 DEF Storages
    <3> QED
      <4>1. n \in 1 .. n /\ Len(u.segments) = n /\ s.segments # << >>
        BY <1>2, <1>3, <1>4, <3>1
      <4> QED
        BY <1>4, <1>a, <1>b, <4>1 DEF LastSeg
  <2> QED
    BY <1>3, <1>4, <2>1, <2>2 DEF Consistent
<1>6. /\ t \in Storages
      /\ Consistent(t)
      /\ Agrees(t)
      /\ t.segments = u.segments
      /\ t.next_msn = u.next_msn
  BY <1>1, <1>4, <1>5, RefreshFacts
<1>7. t.next_msn = s.next_msn /\ Len(t.segments) = Len(s.segments)
  BY <1>3, <1>4, <1>6
<1>8. \A i \in DOMAIN s.segments : /\ t.segments[i].msn = s.segments[i].msn
                                   /\ t.segments[i].parts = s.segments[i].parts
  BY <1>2, <1>4, <1>6, <1>a, <1>b
<1> QED
  BY <1>6, <1>7, <1>8, Zenon DEF t

-----------------------------------------------------------------------------

\* No name is taken that the next part could get: published names are in segments
\* already numbered and, in the last one, before its end.
NamesTaken ==
    /\ \A a \in published : a.msn < storage.next_msn
    /\ storage.segments # << >>
          => \A a \in published : a.msn = LastSeg(storage).msn
                                  => a.psn < Len(LastSeg(storage).parts)

\* The inductive invariant.
WindowInv ==
    /\ WindowType
    /\ WindowConsistent
    /\ Agrees(storage)
    /\ NamesTaken
    /\ PartsForever

\* The invariant holds of the empty storage.
LEMMA InvInit == WindowInit => WindowInv
<1> SUFFICES ASSUME WindowInit PROVE WindowInv
  OBVIOUS
<1>1. /\ storage.segments = << >>
      /\ storage.playlist = NoPlaylist
      /\ storage.next_msn = 0
      /\ nparts = 0
      /\ published = {}
  BY DEF WindowInit, NewStorage
<1>2. WindowType
  BY DEF WindowInit, NewStorage, NoPlaylist, WindowType
<1>3. generate(storage) = NoPlaylist
  BY <1>1 DEF generate
<1>4. Agrees(storage)
  BY <1>1, <1>3 DEF Agrees, NoPlaylist
<1>5. WindowConsistent
  BY <1>1 DEF WindowConsistent
<1> QED
  BY <1>1, <1>2, <1>4, <1>5 DEF WindowInv, NamesTaken, PartsForever

\* Steps that append nothing: the names stay taken, the parts stay where they are.
LEMMA InvKept ==
    ASSUME WindowInv, storage' \in Storages, Consistent(storage'), Agrees(storage'),
           UNCHANGED <<nparts, published>>,
           storage'.next_msn = storage.next_msn,
           Len(storage'.segments) = Len(storage.segments),
           \A i \in DOMAIN storage.segments :
              /\ storage'.segments[i].msn = storage.segments[i].msn
              /\ storage'.segments[i].parts = storage.segments[i].parts
    PROVE  WindowInv'
<1> DEFINE n == Len(storage.segments)
<1>1. /\ storage.segments \in Seq(Segment)
      /\ storage'.segments \in Seq(Segment)
      /\ n \in Nat
      /\ DOMAIN storage.segments = 1 .. n
      /\ DOMAIN storage'.segments = 1 .. n
  BY DEF WindowInv, WindowType, Storages
<1>2. WindowType'
  BY DEF WindowInv, WindowType, Storages, Playlists
<1>3. WindowConsistent'
  BY ConsistentWindow DEF WindowConsistent
<1>4. Agrees(storage)'
  OBVIOUS
<1>5. NamesTaken'
  <2>1. ASSUME storage'.segments # << >>
        PROVE  /\ storage.segments # << >>
               /\ LastSeg(storage').msn = LastSeg(storage).msn
               /\ LastSeg(storage').parts = LastSeg(storage).parts
    <3>1. n \in 1 .. n
      BY <1>1, <2>1
    <3> QED
      BY <1>1, <3>1 DEF LastSeg
  <2> QED
    BY <2>1 DEF WindowInv, NamesTaken
<1>6. PartsForever'
  BY <1>1 DEF WindowInv, PartsForever
<1> QED
  BY <1>2, <1>3, <1>4, <1>5, <1>6 DEF WindowInv

\* The variable holds a storage.
LEMMA StorageType ==
    ASSUME WindowInv
    PROVE  storage \in Storages /\ Consistent(storage) /\ Agrees(storage)
<1>1. storage \in Storages
  BY DEF WindowInv, WindowType, Storages, Playlists
<1> QED
  BY <1>1, ConsistentWindow DEF WindowInv, WindowConsistent

\* The name of the part just appended is one that no published part has.
LEMMA InvAppend ==
    ASSUME WindowInv, NEW d \in Durations, NEW close_segment \in BOOLEAN,
           AppendPart(d, close_segment)
    PROVE  WindowInv'
<1> DEFINE part == [id |-> nparts + 1, duration |-> d]
           s == storage
           t == storage'
           name == [msn |-> t.latest_msn, psn |-> t.latest_psn, id |-> part.id]
<1>1. s \in Storages /\ Consistent(s)
  BY StorageType
<1>2. nparts \in Nat /\ part \in Part
  BY LlHlsWindowAssumption DEF WindowInv, WindowType, Part
<1>3. /\ t = append_part(s, part, close_segment)
      /\ nparts' = nparts + 1
      /\ published' = published \cup {name}
  BY DEF AppendPart
<1> HIDE DEF part
<1>4. /\ t \in Storages
      /\ Consistent(t)
      /\ Agrees(t)
      /\ t.segments # << >>
      /\ Continued(s, t, part) \/ Begun(s, t, part)
      /\ \A i \in DOMAIN t.segments :
            i < Len(t.segments) => \E j \in DOMAIN s.segments : t.segments[i] = s.segments[j]
  BY <1>1, <1>2, <1>3, AppendFacts
<1>5. /\ s.segments \in Seq(Segment)
      /\ t.segments \in Seq(Segment)
      /\ s.next_msn \in Nat
      /\ t.next_msn \in Nat
  BY <1>1, <1>4 DEF Storages
<1>6. LastSeg(t) \in Segment /\ (s.segments # << >> => LastSeg(s) \in Segment)
  BY <1>4, <1>5 DEF LastSeg
<1>7. /\ LastSeg(t).msn \in Nat
      /\ LastSeg(t).parts \in Seq(Part)
      /\ s.segments # << >> => /\ LastSeg(s).msn \in Nat
                               /\ LastSeg(s).parts \in Seq(Part)
  BY <1>6 DEF Segment
<1>8. /\ name.msn = LastSeg(t).msn
      /\ name.psn = Len(LastSeg(t).parts) - 1
      /\ name.id = part.id
      /\ LastSeg(t).parts # << >>
  BY <1>4 DEF Consistent
<1>9. name \in [msn : Nat, psn : Nat, id : Nat]
  <2>1. Len(LastSeg(t).parts) - 1 \in Nat /\ part.id \in Nat
    BY <1>2, <1>7, <1>8 DEF Part
  <2> QED
    BY <1>7, <1>8, <2>1
<1> HIDE DEF name
<1>10. WindowType'
  <2>1. published' \subseteq [msn : Nat, psn : Nat, id : Nat]
    BY <1>3, <1>9 DEF WindowInv, WindowType
  <2>2. nparts' \in Nat
    BY <1>2, <1>3
  <2> QED
    BY <1>4, <2>1, <2>2 DEF WindowType, Storages, Playlists
<1>11. WindowConsistent'
  BY <1>4, ConsistentWindow DEF WindowConsistent
<1>12. \A a \in published : /\ a.msn \in Nat
                            /\ a.psn \in Nat
                            /\ a.msn < s.next_msn
                            /\ ~(a.msn = name.msn /\ a.psn = name.psn)
                            /\ a.msn = LastSeg(t).msn => a.psn < Len(LastSeg(t).parts)
  <2> TAKE a \in published
  <2>1. /\ a.msn \in Nat
        /\ a.psn \in Nat
        /\ a.msn < s.next_msn
        /\ s.segments # << >> /\ a.msn = LastSeg(s).msn => a.psn < Len(LastSeg(s).parts)
    BY DEF WindowInv, WindowType, NamesTaken
  <2>2. CASE Continued(s, t, part)
    <3>1. s.segments # << >> /\ LastSeg(t).msn = LastSeg(s).msn
      BY <2>2 DEF Continued
    <3>2. Len(LastSeg(t).parts) = Len(LastSeg(s).parts) + 1 /\ Len(LastSeg(s).parts) \in Nat
      BY <1>7, <2>2, <3>1 DEF Continued
    <3> QED
      BY <1>8, <2>1, <3>1, <3>2
  <2>3. CASE Begun(s, t, part)
    BY <1>5, <1>8, <2>1, <2>3 DEF Begun
  <2> QED
    BY <1>4, <2>2, <2>3
<1>13. NamesTaken'
  <2>1. s.next_msn <= t.next_msn /\ LastSeg(t).msn < t.next_msn
    <3>1. LastSeg(t).msn = t.next_msn - 1
      <4>1. Len(t.segments) \in DOMAIN t.segments /\ Len(t.segments) \in Nat
        BY <1>4, <1>5
      <4>2. LastSeg(t).msn = t.next_msn - Len(t.segments) + Len(t.segments) - 1
        BY <1>4, <4>1 DEF Consistent, Numbered, LastSeg
      <4> QED
        BY <1>5, <4>1, <4>2
    <3> QED
      BY <1>4, <1>5, <3>1 DEF Continued, Begun
  <2>2. \A a \in published : a.msn < t.next_msn
    BY <1>5, <1>12, <2>1
  <2>3. name.msn < t.next_msn /\ name.psn < Len(LastSeg(t).parts)
    BY <1>7, <1>8, <2>1
  <2> QED
    BY <1>3, <1>12, <2>2, <2>3 DEF NamesTaken
<1>14. PartsForever'
  <2>1. \A a, b \in published' : a.msn = b.msn /\ a.psn = b.psn => a = b
    <3>1. \A a, b \in published : a.msn = b.msn /\ a.psn = b.psn => a = b
      BY DEF WindowInv, PartsForever
    <3> QED
      BY <1>3, <1>12, <3>1
  <2>2. ASSUME NEW g, NEW j \in DOMAIN g.parts,
               \E i \in DOMAIN s.segments : g = s.segments[i]
        PROVE  [msn |-> g.msn, psn |-> j - 1, id |-> g.parts[j].id] \in published'
    BY <1>3, <2>2 DEF WindowInv, PartsForever
  <2>3. ASSUME NEW j \in DOMAIN LastSeg(t).parts
        PROVE  [msn |-> LastSeg(t).msn, psn |-> j - 1, id |-> LastSeg(t).parts[j].id]
                  \in published'
    <3> DEFINE m == Len(LastSeg(t).parts)
    <3>1. CASE j = m
      <4>1. LastSeg(t).parts[m] = part
        BY <1>4, <1>7 DEF Continued, Begun
      <4> QED
        BY <1>3, <1>8, <3>1, <4>1 DEF name
    <3>2. CASE j # m
      <4>1. j \in 1 .. m - 1 /\ m \in Nat
        BY <1>7, <2>3, <3>2
      <4>2. Continued(s, t, part)
        <5>1. Len(<< part >>) = 1
          OBVIOUS
        <5>2. ASSUME Begun(s, t, part)
              PROVE  FALSE
          <6>1. LastSeg(t).parts = << part >>
            BY <5>2 DEF Begun
          <6>2. m = 1
            BY <5>1, <6>1
          <6> HIDE DEF m
          <6> QED
            BY <4>1, <6>2
        <5> QED
          BY <1>4, <5>2
      <4>3. /\ j \in DOMAIN LastSeg(s).parts
            /\ LastSeg(t).parts[j] = LastSeg(s).parts[j]
            /\ LastSeg(t).msn = LastSeg(s).msn
        BY <1>7, <4>1, <4>2 DEF Continued
      <4>4. Len(s.segments) \in DOMAIN s.segments
        BY <1>5, <4>2 DEF Continued
      <4> QED
        BY <2>2, <4>3, <4>4 DEF LastSeg
    <3> QED
      BY <3>1, <3>2
  <2>4. ASSUME NEW i \in DOMAIN t.segments, NEW j \in DOMAIN t.segments[i].parts
        PROVE  [msn |-> t.segments[i].msn, psn |-> j - 1, id |-> t.segments[i].parts[j].id]
                  \in published'
    <3>1. CASE i = Len(t.segments)
      BY <2>3, <3>1 DEF LastSeg
    <3>2. CASE i < Len(t.segments)
      BY <1>4, <2>2, <3>2
    <3> QED
      BY <1>5, <3>1, <3>2
  <2> QED
    BY <2>1, <2>4 DEF PartsForever
<1> QED
  BY <1>4, <1>10, <1>11, <1>13, <1>14 DEF WindowInv

\* The invariant is inductive.
LEMMA InvNext == WindowInv /\ [Write]_wvars => WindowInv'
<1> SUFFICES ASSUME WindowInv, [Write]_wvars PROVE WindowInv'
  OBVIOUS
<1>1. storage \in Storages /\ Consistent(storage) /\ Agrees(storage)
  BY StorageType
<1>2. CASE Publish
  <2>1. storage' = [storage EXCEPT !.active = TRUE] /\ UNCHANGED <<nparts, published>>
    BY <1>2 DEF Publish, on_publish
  <2>2. /\ storage' \in Storages
        /\ storage'.segments = storage.segments
        /\ storage'.next_msn = storage.next_msn
        /\ storage'.playlist = storage.playlist
        /\ storage'.latest_msn = storage.latest_msn
        /\ storage'.latest_psn = storage.latest_psn
    BY <1>1, <2>1 DEF Storages
  <2>3. Consistent(storage') /\ Agrees(storage')
    BY <1>1, <2>2, SameWindow
  <2> QED
    BY <2>1, <2>2, <2>3, InvKept
<1>3. ASSUME NEW config \in Configs, SetInit(config)
      PROVE  WindowInv'
  <2>1. storage' = [storage EXCEPT !.init = {config}] /\ UNCHANGED <<nparts, published>>
    BY <1>3 DEF SetInit, set_init
  <2>2. /\ storage' \in Storages
        /\ storage'.segments = storage.segments
        /\ storage'.next_msn = storage.next_msn
        /\ storage'.playlist = storage.playlist
        /\ storage'.latest_msn = storage.latest_msn
        /\ storage'.latest_psn = storage.latest_psn
    BY <1>1, <2>1 DEF Storages
  <2>3. Consistent(storage') /\ Agrees(storage')
    BY <1>1, <2>2, SameWindow
  <2> QED
    BY <2>1, <2>2, <2>3, InvKept
<1>4. ASSUME NEW d \in Durations, NEW close_segment \in BOOLEAN, AppendPart(d, close_segment)
      PROVE  WindowInv'
  BY <1>4, InvAppend
<1>5. CASE Unpublish
  <2>1. storage' = on_unpublish(storage) /\ UNCHANGED <<nparts, published>>
    BY <1>5 DEF Unpublish
  <2>2. /\ storage' \in Storages
        /\ Consistent(storage')
        /\ Agrees(storage')
        /\ storage'.next_msn = storage.next_msn
        /\ Len(storage'.segments) = Len(storage.segments)
        /\ \A i \in DOMAIN storage.segments :
              /\ storage'.segments[i].msn = storage.segments[i].msn
              /\ storage'.segments[i].parts = storage.segments[i].parts
    BY <1>1, <2>1, UnpublishFacts
  <2> QED
    BY <2>1, <2>2, InvKept
<1>6. CASE UNCHANGED wvars
  BY <1>1, <1>6, InvKept DEF wvars
<1> QED
  BY <1>2, <1>3, <1>4, <1>5, <1>6 DEF Write

\* WindowInv is an invariant of the storage under every sequence of sessions,
\* parts and closed segments.
THEOREM WindowInvariant == WindowSpec => []WindowInv
<1> QED
  BY InvInit, InvNext, PTL DEF WindowSpec

\* find() may compute an index from a difference of sequence numbers, and reached()
\* may compare with the newest part: the window of srs_app_llhls.cpp never has a
\* hole, for every limit and over any number of publish sessions.
THEOREM WindowIsConsistent == WindowSpec => []WindowConsistent
<1>1. WindowInv => WindowConsistent
  BY DEF WindowInv
<1> QED
  BY <1>1, WindowInvariant, PTL

\* The types of the storage, in particular that no number in a playlist is negative.
THEOREM WindowTypeCorrect == WindowSpec => []WindowType
<1>1. WindowInv => WindowType
  BY DEF WindowInv
<1> QED
  BY <1>1, WindowInvariant, PTL

\* A part's URI has one content for ever, as its max-age=3600 promises the caches.
THEOREM PartNamesForever == WindowSpec => []PartsForever
<1>1. WindowInv => PartsForever
  BY DEF WindowInv
<1> QED
  BY <1>1, WindowInvariant, PTL

\* The part appended gets the name that NextPart gives.
LEMMA AppendName ==
    ASSUME NEW s \in Storages, Consistent(s), NEW part \in Part, NEW close_segment \in BOOLEAN,
           s.segments # << >>
    PROVE  LET t == append_part(s, part, close_segment)
           IN  <<t.latest_msn, t.latest_psn>> = NextPart(s)
<1> DEFINE t == append_part(s, part, close_segment)
           n == Len(s.segments)
<1>1. /\ t \in Storages
      /\ Consistent(t)
      /\ t.segments # << >>
      /\ Continued(s, t, part) \/ Begun(s, t, part)
  BY AppendFacts
<1> HIDE DEF t
<1>2. s.segments \in Seq(Segment) /\ s.next_msn \in Nat
  BY DEF Storages
<1>3. n \in Nat /\ n \in DOMAIN s.segments /\ LastSeg(s) \in Segment
  BY <1>2 DEF LastSeg
<1>4. t.latest_msn = LastSeg(t).msn /\ t.latest_psn = Len(LastSeg(t).parts) - 1
  BY <1>1 DEF Consistent
<1>5. ASSUME Continued(s, t, part)
      PROVE  <<t.latest_msn, t.latest_psn>> = NextPart(s)
  <2>1. Len(LastSeg(t).parts) - 1 = Len(LastSeg(s).parts)
    BY <1>3, <1>5 DEF Continued, Segment
  <2> QED
    BY <1>4, <1>5, <2>1 DEF Continued, NextPart
<1>6. ASSUME Begun(s, t, part)
      PROVE  <<t.latest_msn, t.latest_psn>> = NextPart(s)
  <2>1. LastSeg(s).msn = s.next_msn - n + n - 1
    BY <1>3 DEF Consistent, Numbered, LastSeg
  <2>2. s.next_msn = LastSeg(s).msn + 1
    BY <1>2, <1>3, <2>1
  <2>3. Len(<< part >>) - 1 = 0
    OBVIOUS
  <2> QED
    BY <1>4, <1>6, <2>2, <2>3 DEF Begun, NextPart
<1> QED
  BY <1>1, <1>5, <1>6 DEF t

\* Only append_part counts a part.
LEMMA CountedByAppend ==
    ASSUME [Write]_wvars, nparts' # nparts
    PROVE  \E d \in Durations, close_segment \in BOOLEAN : AppendPart(d, close_segment)
BY DEF Write, Publish, SetInit, Unpublish, wvars

\* The part a client was hinted by EXT-X-PRELOAD-HINT is the next part published: a
\* blocked request for it is answered by that part and no other.
THEOREM HintIsKept == WindowSpec => HintKept
<1>1. ASSUME WindowInv, [Write]_wvars, nparts' # nparts, storage.playlist.hint # {}
      PROVE  <<storage'.latest_msn, storage'.latest_psn>> \in storage.playlist.hint
  <2>1. PICK d \in Durations, close_segment \in BOOLEAN : AppendPart(d, close_segment)
    BY <1>1, CountedByAppend
  <2> DEFINE part == [id |-> nparts + 1, duration |-> d]
  <2>2. part \in Part
    BY <1>1, LlHlsWindowAssumption DEF WindowInv, WindowType, Part
  <2>3. storage' = append_part(storage, part, close_segment)
    BY <2>1 DEF AppendPart
  <2> HIDE DEF part
  <2>4. storage \in Storages /\ Consistent(storage) /\ Agrees(storage)
    BY <1>1, StorageType
  <2>5. storage.segments # << >> /\ storage.playlist.hint = {NextPart(storage)}
    BY <1>1, <2>4 DEF Agrees
  <2> QED
    BY <2>2, <2>3, <2>4, <2>5, AppendName
<1>2. WindowInv /\ [Write]_wvars =>
        [nparts' # nparts /\ storage.playlist.hint # {}
          => <<storage'.latest_msn, storage'.latest_psn>> \in storage.playlist.hint]_wvars
  BY <1>1
<1> QED
  BY <1>2, WindowInvariant, PTL DEF WindowSpec, HintKept

\* Whenever a segment closes, shrink() has brought the window back to
\* llhls_segment_count segments, whatever the sessions before it left behind.
THEOREM WindowShrinks == WindowSpec => CloseShrinks
<1>1. ASSUME WindowInv, [Write]_wvars, nparts' # nparts, LastSeg(storage').completed
      PROVE  Len(storage'.segments) <= MaxSegments
  <2>1. PICK d \in Durations, close_segment \in BOOLEAN : AppendPart(d, close_segment)
    BY <1>1, CountedByAppend
  <2> DEFINE part == [id |-> nparts + 1, duration |-> d]
  <2>2. part \in Part
    BY <1>1, LlHlsWindowAssumption DEF WindowInv, WindowType, Part
  <2>3. storage' = append_part(storage, part, close_segment)
    BY <2>1 DEF AppendPart
  <2> HIDE DEF part
  <2>4. storage \in Storages /\ Consistent(storage)
    BY <1>1, StorageType
  <2> QED
    BY <1>1, <2>2, <2>3, <2>4, AppendFacts
<1>2. WindowInv /\ [Write]_wvars =>
        [nparts' # nparts /\ LastSeg(storage').completed
          => Len(storage'.segments) <= MaxSegments]_wvars
  BY <1>1
<1> QED
  BY <1>2, WindowInvariant, PTL DEF WindowSpec, CloseShrinks

\* In a consistent window find() finds a segment by its number.
LEMMA FindFacts ==
    ASSUME NEW s \in Storages, Consistent(s), NEW i \in DOMAIN s.segments
    PROVE  find(s, s.segments[i].msn) = {i}
<1> DEFINE n == Len(s.segments)
<1>1. /\ s.segments \in Seq(Segment)
      /\ n \in Nat
      /\ DOMAIN s.segments = 1 .. n
      /\ s.next_msn \in Nat
      /\ i \in 1 .. n
  BY DEF Storages
<1>2. s.segments # << >> /\ 1 \in 1 .. n
  BY <1>1
<1>3. s.segments[i].msn = s.next_msn - n + i - 1
  BY <1>1 DEF Consistent, Numbered
<1>4. FirstSeg(s).msn = s.next_msn - n + 1 - 1
  BY <1>1, <1>2 DEF Consistent, Numbered, FirstSeg
<1>5. s.segments[i].msn - FirstSeg(s).msn + 1 = i
  BY <1>1, <1>3, <1>4
<1> QED
  BY <1>2, <1>5 DEF find

\* A playlist that agrees with the window names only what is served.
LEMMA ServedFacts ==
    ASSUME NEW s \in Storages, Consistent(s), Agrees(s)
    PROVE  /\ \A p \in s.playlist.parts : get_part(s, p[1], p[2]) # {}
           /\ \A msn \in s.playlist.segments : get_segment(s, msn) # {}
           /\ \A i \in DOMAIN s.segments :
                 s.segments[i].completed => s.segments[i].msn \in s.playlist.segments
           /\ s.segments # << >> => <<s.latest_msn, s.latest_psn>> \in s.playlist.parts
<1> DEFINE n == Len(s.segments)
<1>1. s.segments \in Seq(Segment) /\ n \in Nat /\ DOMAIN s.segments = 1 .. n
  BY DEF Storages
<1>2. CASE s.segments = << >>
  <2>1. s.playlist.parts = {} /\ s.playlist.segments = {}
    BY <1>2 DEF Agrees, generate, NoPlaylist
  <2> QED
    BY <1>2, <2>1
<1>3. CASE s.segments # << >>
  <2>1. s.playlist.parts =
           UNION {{<<s.segments[i].msn, psn>> : psn \in 0 .. Len(s.segments[i].parts) - 1} :
                     i \in {i \in DOMAIN s.segments :
                        s.segments[i].msn > LastSeg(s).msn - SRS_LLHLS_PART_SEGMENTS}}
    BY <1>3 DEF Agrees, generate
  <2>2. s.playlist.segments =
           {s.segments[i].msn : i \in {i \in DOMAIN s.segments : s.segments[i].completed}}
    BY <1>3 DEF Agrees, generate
  <2>3. ASSUME NEW p \in s.playlist.parts
        PROVE  get_part(s, p[1], p[2]) # {}
    <3>1. PICK i \in DOMAIN s.segments : \E psn \in 0 .. Len(s.segments[i].parts) - 1 :
             p = <<s.segments[i].msn, psn>>
      BY <2>1, <2>3
    <3>2. PICK psn \in 0 .. Len(s.segments[i].parts) - 1 : p = <<s.segments[i].msn, psn>>
      BY <3>1
    <3>3. find(s, p[1]) = {i} /\ p[2] = psn
      BY <3>2, FindFacts
    <3>4. s.segments[i] \in Segment
      BY <1>1
    <3>5. 0 <= psn /\ psn < Len(s.segments[i].parts)
      BY <3>2, <3>4 DEF Segment
    <3> QED
      BY <3>3, <3>5 DEF get_part
  <2>4. ASSUME NEW msn \in s.playlist.segments
        PROVE  get_segment(s, msn) # {}
    <3>1. PICK i \in DOMAIN s.segments : s.segments[i].completed /\ msn = s.segments[i].msn
      BY <2>2, <2>4
    <3>2. find(s, msn) = {i}
      BY <3>1, FindFacts
    <3> QED
      BY <3>1, <3>2 DEF get_segment
  <2>5. \A i \in DOMAIN s.segments :
           s.segments[i].completed => s.segments[i].msn \in s.playlist.segments
    BY <2>2
  <2>6. <<s.latest_msn, s.latest_psn>> \in s.playlist.parts
    <3>1. n \in DOMAIN s.segments /\ LastSeg(s) = s.segments[n] /\ LastSeg(s) \in Segment
      BY <1>1, <1>3 DEF LastSeg
    <3>2. LastSeg(s).msn \in Nat /\ LastSeg(s).parts \in Seq(Part)
      BY <3>1 DEF Segment
    <3>3. LastSeg(s).msn > LastSeg(s).msn - SRS_LLHLS_PART_SEGMENTS
      BY <3>2, LlHlsStorageAssumption
    <3>4. /\ s.latest_msn = LastSeg(s).msn
          /\ s.latest_psn = Len(LastSeg(s).parts) - 1
          /\ LastSeg(s).parts # << >>
      BY <1>3 DEF Consistent
    <3>5. s.latest_psn \in 0 .. Len(LastSeg(s).parts) - 1
      BY <3>2, <3>4
    <3> DEFINE named(i) == {<<s.segments[i].msn, psn>> : psn \in 0 .. Len(s.segments[i].parts) - 1}
               listed == {i \in DOMAIN s.segments :
                             s.segments[i].msn > LastSeg(s).msn - SRS_LLHLS_PART_SEGMENTS}
    <3>6. <<s.latest_msn, s.latest_psn>> \in named(n)
      BY <3>1, <3>4, <3>5
    <3>7. n \in listed
      BY <3>1, <3>3
    <3>8. s.playlist.parts = UNION {named(i) : i \in listed}
      BY <2>1
    <3> HIDE DEF named, listed
    <3> QED
      BY <3>6, <3>7, <3>8
  <2> QED
    BY <2>3, <2>4, <2>5, <2>6
<1> QED
  BY <1>2, <1>3

\* Everything a playlist lists can be fetched at once and every complete segment is
\* listed, after every call that changes the storage.
THEOREM PlaylistIsServed == WindowSpec => []PlaylistServes
<1>1. WindowInv => PlaylistServes
  <2> SUFFICES ASSUME WindowInv PROVE PlaylistServes
    OBVIOUS
  <2>1. storage \in Storages /\ Consistent(storage) /\ Agrees(storage)
    BY StorageType
  <2> QED
    BY <2>1, ServedFacts DEF PlaylistServes
<1> QED
  BY <1>1, WindowInvariant, PTL

-----------------------------------------------------------------------------
\* What a call of the writer leaves of the storage s in t: the window moves forward
\* only, a segment that stays keeps the parts it has, and one that is complete gets
\* no more.
Advanced(s, t) ==
    /\ s.segments # << >> => /\ t.segments # << >>
                             /\ FirstSeg(s).msn <= FirstSeg(t).msn
                             /\ \/ t.latest_msn > s.latest_msn
                                \/ t.latest_msn = s.latest_msn /\ t.latest_psn >= s.latest_psn
    /\ s.segments = << >> /\ t.segments # << >> => FirstSeg(t).msn >= s.next_msn
    /\ t.segments = << >> => t.latest_msn = s.latest_msn
    /\ \A i \in DOMAIN s.segments :
          \/ s.segments[i].msn < FirstSeg(t).msn
          \/ \E j \in DOMAIN t.segments :
                /\ t.segments[j].msn = s.segments[i].msn
                /\ Len(s.segments[i].parts) <= Len(t.segments[j].parts)
                /\ s.segments[i].completed => /\ t.segments[j].completed
                                              /\ t.segments[j].parts = s.segments[i].parts

\* A storage whose window is the same has not moved.
LEMMA SameAdvances ==
    ASSUME NEW s \in Storages, NEW t \in Storages,
           Len(t.segments) = Len(s.segments),
           t.latest_msn = s.latest_msn, t.latest_psn = s.latest_psn,
           \A i \in DOMAIN s.segments :
              /\ t.segments[i].msn = s.segments[i].msn
              /\ t.segments[i].parts = s.segments[i].parts
              /\ s.segments[i].completed => t.segments[i].completed
    PROVE  Advanced(s, t)
<1> DEFINE n == Len(s.segments)
<1>1. /\ s.segments \in Seq(Segment) /\ t.segments \in Seq(Segment) /\ n \in Nat
      /\ DOMAIN s.segments = 1 .. n /\ DOMAIN t.segments = 1 .. n
  BY DEF Storages
<1>2. s.latest_msn \in Int /\ s.latest_psn \in Int
  BY DEF Storages
<1>5. ASSUME NEW i \in 1 .. n
      PROVE  s.segments[i].msn \in Nat /\ Len(s.segments[i].parts) \in Nat
  <2>1. s.segments[i] \in Segment
    BY <1>1
  <2>2. s.segments[i].msn \in Nat /\ s.segments[i].parts \in Seq(Part)
    BY <2>1 DEF Segment
  <2> QED
    BY <2>2
<1>7. \A i \in DOMAIN s.segments :
         /\ t.segments[i].msn = s.segments[i].msn
         /\ t.segments[i].parts = s.segments[i].parts
         /\ s.segments[i].completed => t.segments[i].completed
  OBVIOUS
<1>3. s.segments # << >> => 1 \in 1 .. n
  BY <1>1
<1>4. s.segments = << >> <=> t.segments = << >>
  <2>1. s.segments = << >> <=> n = 0
    BY ONLY <1>1
  <2>2. t.segments = << >> <=> n = 0
    <3>1. n = Len(t.segments)
      BY Zenon
    <3> QED
      BY ONLY <1>1, <3>1
  <2> QED
    BY ONLY <2>1, <2>2
<1>6. s.segments # << >> => FirstSeg(s).msn = FirstSeg(t).msn /\ FirstSeg(s).msn \in Nat
  BY ONLY <1>1, <1>3, <1>5, <1>7 DEF FirstSeg
<1> HIDE DEF n
<1>8. /\ s.segments # << >> => t.segments # << >> /\ FirstSeg(s).msn <= FirstSeg(t).msn
      /\ t.latest_msn = s.latest_msn /\ t.latest_psn = s.latest_psn /\ t.latest_psn >= s.latest_psn
  BY <1>2, <1>4, <1>6
<1>9. ASSUME NEW i \in DOMAIN s.segments
      PROVE  \E j \in DOMAIN t.segments :
                /\ t.segments[j].msn = s.segments[i].msn
                /\ Len(s.segments[i].parts) <= Len(t.segments[j].parts)
                /\ s.segments[i].completed => /\ t.segments[j].completed
                                              /\ t.segments[j].parts = s.segments[i].parts
  <2>1. i \in DOMAIN t.segments /\ Len(s.segments[i].parts) \in Nat
    BY ONLY <1>1, <1>5, i \in DOMAIN s.segments
  <2>2. Len(s.segments[i].parts) <= Len(t.segments[i].parts)
    BY ONLY <1>7, <2>1, i \in DOMAIN s.segments
  <2> QED
    BY ONLY <1>7, <2>1, <2>2, i \in DOMAIN s.segments
<1> QED
  BY ONLY <1>4, <1>8, <1>9, Zenon DEF Advanced

\* A segment is found by its number only.
LEMMA MsnOf ==
    ASSUME NEW s \in Storages, Consistent(s)
    PROVE  /\ DOMAIN s.segments = 1 .. Len(s.segments) /\ Len(s.segments) \in Nat
           /\ \A i \in DOMAIN s.segments :
                 /\ s.segments[i].msn = s.next_msn - Len(s.segments) + i - 1
                 /\ s.segments[i].msn \in Nat /\ s.segments[i].parts \in Seq(Part)
           /\ s.segments # << >> =>
                 /\ FirstSeg(s).msn = s.next_msn - Len(s.segments)
                 /\ LastSeg(s).msn = s.next_msn - 1
                 /\ 1 \in DOMAIN s.segments /\ Len(s.segments) \in DOMAIN s.segments
<1>1. s.segments \in Seq(Segment) /\ s.next_msn \in Nat
  BY DEF Storages
<1>2. DOMAIN s.segments = 1 .. Len(s.segments) /\ Len(s.segments) \in Nat
  BY <1>1
<1>3. ASSUME NEW i \in DOMAIN s.segments
      PROVE  /\ s.segments[i].msn = s.next_msn - Len(s.segments) + i - 1
             /\ s.segments[i].msn \in Nat /\ s.segments[i].parts \in Seq(Part)
  <2>1. s.segments[i] \in Segment
    BY <1>1
  <2>2. s.segments[i].msn \in Nat /\ s.segments[i].parts \in Seq(Part)
    BY <2>1 DEF Segment
  <2>3. s.segments[i].msn = s.next_msn - Len(s.segments) + i - 1
    BY DEF Consistent, Numbered
  <2> QED
    BY <2>2, <2>3
<1>4. ASSUME s.segments # << >>
      PROVE  /\ FirstSeg(s).msn = s.next_msn - Len(s.segments)
             /\ LastSeg(s).msn = s.next_msn - 1
             /\ 1 \in DOMAIN s.segments /\ Len(s.segments) \in DOMAIN s.segments
  <2>1. 1 \in DOMAIN s.segments /\ Len(s.segments) \in DOMAIN s.segments
    BY <1>1, <1>4
  <2>2. /\ FirstSeg(s).msn = s.next_msn - Len(s.segments) + 1 - 1
        /\ LastSeg(s).msn = s.next_msn - Len(s.segments) + Len(s.segments) - 1
    BY <1>3, <2>1 DEF FirstSeg, LastSeg
  <2> QED
    BY <1>1, <1>2, <2>1, <2>2
<1> QED
  BY <1>2, <1>3, <1>4

\* append_part moves the window forward.
LEMMA AppendAdvances ==
    ASSUME NEW s \in Storages, Consistent(s), NEW part \in Part, NEW close_segment \in BOOLEAN
    PROVE  Advanced(s, append_part(s, part, close_segment))
<1> DEFINE t == append_part(s, part, close_segment)
           n == Len(s.segments)
           m == Len(t.segments)
<1>1. /\ t \in Storages /\ Consistent(t) /\ t.segments # << >>
      /\ Continued(s, t, part) \/ Begun(s, t, part)
      /\ \A i \in DOMAIN t.segments :
            i < m => \E j \in DOMAIN s.segments : t.segments[i] = s.segments[j]
  BY AppendFacts
<1> HIDE DEF t
<1>2. s.next_msn \in Nat /\ t.next_msn \in Nat
  BY <1>1 DEF Storages
<1>3. /\ DOMAIN s.segments = 1 .. n /\ n \in Nat
      /\ \A i \in DOMAIN s.segments :
            /\ s.segments[i].msn = s.next_msn - n + i - 1
            /\ s.segments[i].msn \in Nat /\ s.segments[i].parts \in Seq(Part)
      /\ s.segments # << >> =>
            /\ FirstSeg(s).msn = s.next_msn - n
            /\ LastSeg(s).msn = s.next_msn - 1
            /\ 1 \in DOMAIN s.segments /\ n \in DOMAIN s.segments
  BY MsnOf
<1>4. /\ DOMAIN t.segments = 1 .. m /\ m \in Nat
      /\ \A i \in DOMAIN t.segments :
            /\ t.segments[i].msn = t.next_msn - m + i - 1
            /\ t.segments[i].msn \in Nat /\ t.segments[i].parts \in Seq(Part)
      /\ FirstSeg(t).msn = t.next_msn - m
      /\ LastSeg(t).msn = t.next_msn - 1
      /\ 1 \in DOMAIN t.segments /\ m \in DOMAIN t.segments
  BY <1>1, MsnOf
<1> HIDE DEF m, n
<1>11. m \in Nat /\ n \in Nat /\ FirstSeg(t).msn = t.next_msn - m
  BY <1>3, <1>4
<1>12. FirstSeg(t).msn \in Int
  BY <1>2, <1>11
<1>5. \A i \in 1 .. m - 1 : \E j \in 1 .. n :
         t.segments[i] = s.segments[j] /\ s.next_msn - n + j - 1 = t.next_msn - m + i - 1
  <2> TAKE i \in 1 .. m - 1
  <2>1. i \in DOMAIN t.segments /\ i < m
    BY <1>4
  <2>2. PICK j \in DOMAIN s.segments : t.segments[i] = s.segments[j]
    BY <1>1, <2>1
  <2>3. t.segments[i].msn = t.next_msn - m + i - 1 /\ s.segments[j].msn = s.next_msn - n + j - 1
    BY <1>3, <1>4, <2>1
  <2> QED
    BY <1>3, <2>2, <2>3
<1>6. s.next_msn <= t.next_msn /\ t.next_msn <= s.next_msn + 1
  BY <1>1, <1>2 DEF Continued, Begun
<1>7. FirstSeg(t).msn >= IF s.segments = << >> THEN s.next_msn ELSE FirstSeg(s).msn
  <2>1. CASE m > 1
    <3>1. PICK j \in 1 .. n : s.next_msn - n + j - 1 = t.next_msn - m + 1 - 1
      BY <1>4, <1>5, <2>1
    <3>2. s.segments # << >>
      BY <1>3, <3>1
    <3> QED
      BY <1>2, <1>3, <1>4, <3>1, <3>2
  <2>2. CASE m = 1
    <3>1. s.segments # << >> => n >= 1
      BY <1>3
    <3>2. s.segments = << >> => t.next_msn = s.next_msn + 1
      BY <1>1 DEF Continued, Begun
    <3> QED
      BY <1>2, <1>3, <1>4, <1>6, <2>2, <3>1, <3>2
  <2> QED
    BY <1>4, <2>1, <2>2
<1>8. s.segments # << >> => \/ t.latest_msn > s.latest_msn
                            \/ t.latest_msn = s.latest_msn /\ t.latest_psn >= s.latest_psn
  <2> SUFFICES ASSUME s.segments # << >>
               PROVE  \/ t.latest_msn > s.latest_msn
                      \/ t.latest_msn = s.latest_msn /\ t.latest_psn >= s.latest_psn
    OBVIOUS
  <2>1. /\ s.latest_msn = LastSeg(s).msn /\ s.latest_psn = Len(LastSeg(s).parts) - 1
        /\ t.latest_msn = LastSeg(t).msn /\ t.latest_psn = Len(LastSeg(t).parts) - 1
    BY <1>1 DEF Consistent
  <2>2. LastSeg(s).parts \in Seq(Part)
    BY <1>3 DEF LastSeg
  <2>3. CASE Continued(s, t, part)
    BY <1>3, <2>1, <2>2, <2>3 DEF Continued
  <2>4. CASE Begun(s, t, part)
    BY <1>2, <1>3, <1>4, <2>1, <2>4 DEF Begun
  <2> QED
    BY <1>1, <2>3, <2>4
<1>9. ASSUME NEW i \in DOMAIN s.segments, s.segments[i].msn >= FirstSeg(t).msn
      PROVE  \E j \in DOMAIN t.segments :
                /\ t.segments[j].msn = s.segments[i].msn
                /\ Len(s.segments[i].parts) <= Len(t.segments[j].parts)
                /\ s.segments[i].completed => /\ t.segments[j].completed
                                              /\ t.segments[j].parts = s.segments[i].parts
  <2> DEFINE j == s.segments[i].msn - (t.next_msn - m) + 1
  <2>a. s.segments[i].msn = s.next_msn - n + i - 1 /\ i \in 1 .. n
    BY <1>3
  <2>d. s.segments[i].msn >= t.next_msn - m /\ s.segments[i].msn <= t.next_msn - 1
    BY <1>2, <1>6, <1>9, <1>11, <2>a
  <2>e. s.segments[i].msn \in Int
    BY <1>2, <1>11, <2>a
  <2>b. j \in 1 .. m
    BY <1>2, <1>11, <2>d, <2>e
  <2>c. t.segments[j].msn = t.next_msn - m + j - 1
    BY <1>4, <2>b
  <2>1. j \in 1 .. m /\ t.segments[j].msn = s.segments[i].msn
    <3>1. t.next_msn - m + j - 1 = s.segments[i].msn
      BY <1>2, <1>11, <2>e
    <3> QED
      BY <2>b, <2>c, <3>1
  <2> HIDE DEF j
  <2>2. CASE j < m
    <3>1. PICK k \in 1 .. n :
             t.segments[j] = s.segments[k] /\ s.next_msn - n + k - 1 = t.next_msn - m + j - 1
      BY <1>4, <1>5, <2>1, <2>2
    <3>2. k = i
      <4>1. s.next_msn - n + k - 1 = s.next_msn - n + i - 1
        BY <2>a, <2>c, <2>1, <3>1
      <4> QED
        BY <1>2, <1>3, <2>a, <4>1
    <3>3. t.segments[j] = s.segments[i]
      BY <3>1, <3>2
    <3>4. Len(s.segments[i].parts) <= Len(t.segments[j].parts)
      <4>1. s.segments[i].parts \in Seq(Part)
        BY <1>3
      <4>2. Len(s.segments[i].parts) \in Int
        BY <4>1
      <4> QED
        BY <3>3, <4>2
    <3> QED
      BY <1>4, <2>1, <3>3, <3>4
  <2>3. CASE j = m
    <3>1. ~ Begun(s, t, part)
      BY <1>2, <1>3, <1>4, <2>a, <2>c, <2>1, <2>3, SMTT(60) DEF Begun
    <3>2. Continued(s, t, part)
      BY <1>1, <3>1
    <3>3. i = n
      BY <1>2, <1>3, <1>4, <2>a, <2>c, <2>1, <2>3, <3>2 DEF Continued
    <3>4. /\ t.segments[j].parts = Append(s.segments[i].parts, part)
          /\ ~ s.segments[i].completed
      <4>1. LastSeg(t) = t.segments[m] /\ LastSeg(s) = s.segments[n]
        BY DEF LastSeg, m, n
      <4> QED
        BY <2>3, <3>2, <3>3, <4>1 DEF Continued
    <3>5. Len(s.segments[i].parts) <= Len(t.segments[j].parts)
      <4>1. s.segments[i].parts \in Seq(Part)
        BY <1>3
      <4>2. Len(Append(s.segments[i].parts, part)) = Len(s.segments[i].parts) + 1
        BY <4>1
      <4>3. Len(s.segments[i].parts) \in Int
        BY <4>1
      <4> QED
        BY <3>4, <4>2, <4>3
    <3>6. j \in DOMAIN t.segments
      BY <1>4, <2>1
    <3> QED
      BY <2>1, <3>4, <3>5, <3>6
  <2> QED
    BY <1>4, <2>1, <2>2, <2>3
<1>10. \A i \in DOMAIN s.segments : s.segments[i].msn \in Int
  BY <1>3
<1>13. ASSUME NEW i \in DOMAIN s.segments
       PROVE  \/ s.segments[i].msn < FirstSeg(t).msn
              \/ \E j \in DOMAIN t.segments :
                    /\ t.segments[j].msn = s.segments[i].msn
                    /\ Len(s.segments[i].parts) <= Len(t.segments[j].parts)
                    /\ s.segments[i].completed => /\ t.segments[j].completed
                                                  /\ t.segments[j].parts = s.segments[i].parts
  <2>1. s.segments[i].msn < FirstSeg(t).msn \/ s.segments[i].msn >= FirstSeg(t).msn
    BY <1>10, <1>12
  <2> QED
    BY <1>9, <2>1
<1>14. s.segments # << >> => FirstSeg(s).msn <= FirstSeg(t).msn
  <2>1. s.segments # << >> => FirstSeg(s).msn \in Int
    BY <1>3, <1>10 DEF FirstSeg
  <2> QED
    BY <1>7, <1>12, <2>1
<1>15. s.segments = << >> => FirstSeg(t).msn >= s.next_msn
  BY <1>7
<1> QED
  BY <1>1, <1>8, <1>13, <1>14, <1>15 DEF Advanced, t
\* on_unpublish closes a segment and moves nothing.
LEMMA UnpublishAdvances ==
    ASSUME NEW s \in Storages, Consistent(s)
    PROVE  Advanced(s, on_unpublish(s))
<1> DEFINE n == Len(s.segments)
           c == IF n > 0 /\ ~LastSeg(s).completed /\ LastSeg(s).parts # << >>
                THEN [s EXCEPT !.segments[n].completed = TRUE] ELSE s
           t == on_unpublish(s)
<1>1. t = [[c EXCEPT !.active = FALSE] EXCEPT
               !.playlist = generate([c EXCEPT !.active = FALSE])]
  BY DEF on_unpublish, refresh_playlist
<1>2. /\ c.latest_msn = s.latest_msn /\ c.latest_psn = s.latest_psn
      /\ \A i \in DOMAIN s.segments : s.segments[i].completed => c.segments[i].completed
      /\ DOMAIN c = DOMAIN s
  <2>1. s.segments \in Seq(Segment)
    BY DEF Storages
  <2>2. \A i \in DOMAIN s.segments : s.segments[i] \in Segment
    BY <2>1
  <2>3. DOMAIN s = {"active", "segments", "next_msn", "latest_msn", "latest_psn", "init", "playlist"}
    BY DEF Storages
  <2> QED
    BY <2>2, <2>3 DEF Segment
<1>3. DOMAIN s = {"active", "segments", "next_msn", "latest_msn", "latest_psn", "init", "playlist"}
  BY DEF Storages
<1> HIDE DEF c
<1>4. /\ t.segments = c.segments
      /\ t.latest_msn = c.latest_msn /\ t.latest_psn = c.latest_psn
  BY <1>1, <1>2, <1>3
<1>5. /\ t \in Storages
      /\ Len(t.segments) = Len(s.segments)
      /\ \A i \in DOMAIN s.segments : /\ t.segments[i].msn = s.segments[i].msn
                                      /\ t.segments[i].parts = s.segments[i].parts
  BY UnpublishFacts
<1> HIDE DEF t
<1>6. Advanced(s, t)
  BY <1>2, <1>4, <1>5, SameAdvances
<1> QED
  BY <1>6 DEF t

\* Every call of the writer moves the window forward.
LEMMA WriteAdvances ==
    ASSUME WindowInv, [Write]_wvars
    PROVE  Advanced(storage, storage')
<1>1. storage \in Storages /\ Consistent(storage)
  BY StorageType
<1>2. WindowInv'
  BY InvNext
<1>3. storage' \in Storages
  BY <1>2 DEF WindowInv, WindowType, Storages, Playlists
<1>4. ASSUME storage'.segments = storage.segments,
             storage'.latest_msn = storage.latest_msn, storage'.latest_psn = storage.latest_psn
      PROVE  Advanced(storage, storage')
  BY <1>1, <1>3, <1>4, SameAdvances
<1>5. DOMAIN storage = {"active", "segments", "next_msn", "latest_msn", "latest_psn", "init",
                        "playlist"}
  BY <1>1 DEF Storages
<1>6. CASE Publish
  BY <1>4, <1>5, <1>6 DEF Publish, on_publish
<1>7. ASSUME NEW config \in Configs, SetInit(config)
      PROVE  Advanced(storage, storage')
  BY <1>4, <1>5, <1>7 DEF SetInit, set_init
<1>8. ASSUME NEW d \in Durations, NEW close_segment \in BOOLEAN, AppendPart(d, close_segment)
      PROVE  Advanced(storage, storage')
  <2> DEFINE part == [id |-> nparts + 1, duration |-> d]
  <2>1. part \in Part
    BY LlHlsWindowAssumption DEF WindowInv, WindowType, Part
  <2>2. storage' = append_part(storage, part, close_segment)
    BY <1>8 DEF AppendPart
  <2> HIDE DEF part
  <2>3. Advanced(storage, append_part(storage, part, close_segment))
    BY <1>1, <2>1, AppendAdvances
  <2> QED
    BY <2>2, <2>3
<1>9. CASE Unpublish
  BY <1>1, <1>9, UnpublishAdvances DEF Unpublish
<1>10. CASE UNCHANGED wvars
  BY <1>4, <1>10 DEF wvars
<1> QED
  BY <1>6, <1>7, <1>8, <1>9, <1>10 DEF Write

\* find() finds what the window holds, and what it finds has the number asked for.
LEMMA FoundFacts ==
    ASSUME NEW s \in Storages, Consistent(s), NEW msn \in Int
    PROVE  /\ find(s, msn) # {} <=>
                 s.segments # << >> /\ FirstSeg(s).msn <= msn /\ msn < s.next_msn
           /\ \A i \in find(s, msn) : /\ i \in DOMAIN s.segments
                                      /\ s.segments[i].msn = msn
                                      /\ find(s, msn) = {i}
<1> DEFINE n == Len(s.segments)
           i == msn - FirstSeg(s).msn + 1
<1>1. CASE s.segments = << >>
  BY <1>1 DEF find
<1>2. CASE s.segments # << >>
  <2>1. /\ DOMAIN s.segments = 1 .. n /\ n \in Nat
        /\ \A k \in DOMAIN s.segments : s.segments[k].msn = s.next_msn - n + k - 1
        /\ FirstSeg(s).msn = s.next_msn - n
    BY <1>2, MsnOf
  <2>2. s.next_msn \in Nat
    BY DEF Storages
  <2>3. find(s, msn) = {i} \cap 1 .. n
    BY <1>2, <2>1 DEF find
  <2> HIDE DEF n
  <2>4. FirstSeg(s).msn \in Int
    BY <2>1, <2>2
  <2>5. i \in 1 .. n <=> FirstSeg(s).msn <= msn /\ msn < s.next_msn
    <3>1. n \in Nat /\ FirstSeg(s).msn = s.next_msn - n
      BY <2>1
    <3> QED
      BY <2>2, <2>4, <3>1
  <2>6. ASSUME i \in 1 .. n
        PROVE  s.segments[i].msn = msn
    <3>1. s.segments[i].msn = s.next_msn - n + i - 1
      BY <2>1, <2>6
    <3> QED
      BY <2>1, <2>2, <3>1
  <2> HIDE DEF i
  <2> QED
    BY <1>2, <2>1, <2>3, <2>5, <2>6
<1> QED
  BY <1>1, <1>2

\* A segment's URI is served with max-age=3600 as well: what get_segment() has once
\* returned for a number it returns as long as the segment stays, and a segment that
\* expired or was never completed before the numbers moved on does not come back.
THEOREM SegmentNamesForever == WindowSpec => SegmentsForever
<1>1. ASSUME WindowInv, [Write]_wvars, NEW msn \in 0 .. storage.next_msn - 1
      PROVE  \/ get_segment(storage', msn) = {}
             \/ get_segment(storage', msn) = get_segment(storage, msn)
             \/ find(storage, msn) # {} /\ get_segment(storage, msn) = {}
  <2>1. storage \in Storages /\ Consistent(storage)
    BY <1>1, StorageType
  <2>2. storage' \in Storages /\ Consistent(storage')
    <3>1. WindowInv'
      BY <1>1, InvNext
    <3>2. storage' \in Storages
      BY <3>1 DEF WindowInv, WindowType, Storages, Playlists
    <3>3. Consistent(storage')
      BY <3>1, <3>2, ConsistentWindow DEF WindowInv, WindowConsistent
    <3> QED
      BY <3>2, <3>3
  <2>3. Advanced(storage, storage')
    BY <1>1, WriteAdvances
  <2>4. msn \in Int /\ msn < storage.next_msn /\ storage.next_msn \in Nat
    BY <2>1 DEF Storages
  <2>5. SUFFICES ASSUME get_segment(storage', msn) # {},
                        ~ (find(storage, msn) # {} /\ get_segment(storage, msn) = {})
                 PROVE  get_segment(storage', msn) = get_segment(storage, msn)
    OBVIOUS
  <2>6. PICK j \in find(storage', msn) : storage'.segments[j].completed
    BY <2>5 DEF get_segment
  <2>7. /\ j \in DOMAIN storage'.segments /\ storage'.segments[j].msn = msn
        /\ find(storage', msn) = {j}
        /\ storage'.segments # << >> /\ FirstSeg(storage').msn <= msn
    BY <2>2, <2>4, <2>6, FoundFacts
  <2>8. find(storage, msn) # {}
    <3>a. FirstSeg(storage').msn \in Int
      BY <2>2, <2>7, MsnOf DEF FirstSeg
    <3>1. CASE storage.segments = << >>
      BY <2>3, <2>4, <2>7, <3>1, <3>a DEF Advanced
    <3>2. CASE storage.segments # << >>
      <4>1. FirstSeg(storage).msn <= FirstSeg(storage').msn
        BY <2>3, <3>2 DEF Advanced
      <4>2. FirstSeg(storage).msn \in Int
        BY <2>1, <3>2, MsnOf DEF FirstSeg
      <4>3. FirstSeg(storage).msn <= msn
        BY <2>4, <2>7, <3>a, <4>1, <4>2
      <4> QED
        BY <2>1, <2>4, <3>2, <4>3, FoundFacts
    <3> QED
      BY <3>1, <3>2
  <2>9. PICK i \in find(storage, msn) : storage.segments[i].completed
    BY <2>5, <2>8 DEF get_segment
  <2>10. /\ i \in DOMAIN storage.segments /\ storage.segments[i].msn = msn
         /\ find(storage, msn) = {i}
    BY <2>1, <2>4, <2>9, FoundFacts
  <2>11. storage'.segments[j].parts = storage.segments[i].parts
    <3>a. FirstSeg(storage').msn \in Int
      BY <2>2, <2>7, MsnOf DEF FirstSeg
    <3>b. ~ (storage.segments[i].msn < FirstSeg(storage').msn)
      BY <2>4, <2>7, <2>10, <3>a
    <3>1. PICK k \in DOMAIN storage'.segments :
             /\ storage'.segments[k].msn = storage.segments[i].msn
             /\ storage.segments[i].completed =>
                   storage'.segments[k].parts = storage.segments[i].parts
      BY <2>3, <2>10, <3>b DEF Advanced
    <3>2. find(storage', msn) = {k}
      BY <2>2, <2>10, <3>1, FindFacts
    <3> QED
      BY <2>7, <2>9, <3>1, <3>2
  <2> QED
    BY <2>6, <2>7, <2>9, <2>10, <2>11 DEF get_segment
<1>2. WindowInv /\ [Write]_wvars =>
        [ \A msn \in 0 .. storage.next_msn - 1 :
            \/ get_segment(storage', msn) = {}
            \/ get_segment(storage', msn) = get_segment(storage, msn)
            \/ find(storage, msn) # {} /\ get_segment(storage, msn) = {} ]_wvars
  BY <1>1
<1> QED
  BY <1>2, WindowInvariant, PTL DEF WindowSpec, SegmentsForever

-----------------------------------------------------------------------------
(* The storage after a call.                                                *)

\* No segment of the storage takes parts.
Closed(s) == s.segments = << >> \/ LastSeg(s).completed

\* The storage after a call of the writer.
LEMMA WrittenStorage ==
    ASSUME WindowInv, Write
    PROVE  /\ WindowInv'
           /\ storage' \in Storages /\ Consistent(storage') /\ Agrees(storage')
           /\ Advanced(storage, storage')
           /\ published \subseteq published'
<1>1. WindowInv'
  BY InvNext
<1>2. storage' \in Storages
  BY <1>1 DEF WindowInv, WindowType, Storages, Playlists
<1>3. Consistent(storage')
  BY <1>1, <1>2, ConsistentWindow DEF WindowInv, WindowConsistent
<1>4. Agrees(storage')
  BY <1>1 DEF WindowInv
<1>5. Advanced(storage, storage')
  BY WriteAdvances
<1>6. published \subseteq published'
  BY DEF Write, Publish, SetInit, AppendPart, Unpublish
<1> QED
  BY <1>1, <1>2, <1>3, <1>4, <1>5, <1>6

\* on_unpublish() stops the stream and hints at nothing; it keeps the segments when
\* none is open.
LEMMA UnpublishStops ==
    ASSUME NEW s \in Storages
    PROVE  /\ ~ on_unpublish(s).active /\ on_unpublish(s).playlist.hint = {}
           /\ Closed(s) => /\ on_unpublish(s).segments = s.segments
                           /\ on_unpublish(s).init = s.init
<1> DEFINE n == Len(s.segments)
           c == IF n > 0 /\ ~LastSeg(s).completed /\ LastSeg(s).parts # << >>
                THEN [s EXCEPT !.segments[n].completed = TRUE] ELSE s
           u == [c EXCEPT !.active = FALSE]
<1>1. "active" \in DOMAIN c /\ "playlist" \in DOMAIN c /\ (Closed(s) => c = s)
  BY DEF Storages, Closed
<1>2. on_unpublish(s) = [u EXCEPT !.playlist = generate(u)]
  BY DEF on_unpublish, refresh_playlist
<1> HIDE DEF c
<1>3. /\ ~ u.active /\ "active" \in DOMAIN u /\ "playlist" \in DOMAIN u
      /\ Closed(s) => u.segments = s.segments /\ u.init = s.init
  BY <1>1 DEF Storages
<1> HIDE DEF u
<1>4. generate(u).hint = {}
  BY <1>3 DEF generate, NoPlaylist
<1>5. /\ on_unpublish(s).active = u.active /\ on_unpublish(s).playlist = generate(u)
      /\ on_unpublish(s).segments = u.segments /\ on_unpublish(s).init = u.init
  BY <1>2, <1>3
<1> QED
  BY <1>3, <1>4, <1>5

-----------------------------------------------------------------------------
(* The muxer of module LlHlsMuxer, the writer of the program.               *)

Formats == [v : VideoConfigs \cup {0}, a : AudioConfigs \cup {0}]

Unparsed == [v |-> 0, a |-> 0]

Members ==
    [part_open : BOOLEAN, part_start_dts : 0 .. MaxDts, last_dts : 0 .. MaxDts,
     segment_duration : Int, init_dirty : BOOLEAN, video_configured : BOOLEAN,
     latest_avc_extra : VideoConfigs \cup {0}, latest_aac_extra : AudioConfigs \cup {0}]

MuxType ==
    /\ phase \in {"off", "on", "stopping"}
    /\ format \in Formats
    /\ mux \in Members
    /\ content \in Seq(SUBSET Formats) /\ Len(content) = nparts

\* The muxer and the storage agree on what is open, and the muxer on what the hub
\* parsed: format never differs from the configuration that on_sequence_header has
\* compared with, and the init segment is that one as soon as a part is open.
MuxControl ==
    /\ storage.active <=> phase # "off"
    /\ phase # "on" => ~mux.part_open
    /\ ~mux.part_open => Closed(storage) /\ samples = {}
    /\ format = [v |-> mux.latest_avc_extra, a |-> mux.latest_aac_extra]
    /\ samples \subseteq {format}
    /\ mux.part_open => ~mux.init_dirty /\ format # Unparsed
    /\ ~mux.init_dirty /\ format # Unparsed => storage.init = {format}

LongEnough(p) == p.duration * 100 >= PartTarget * 85

\* A segment: the first n parts have the configurations in cfgs, fmt is the one now.
SegmentInv(g, n, cfgs, fmt) ==
    /\ \A j \in DOMAIN g.parts : g.parts[j].id \in 1 .. n
    /\ \E cfg \in Formats : \A j \in DOMAIN g.parts : cfgs[g.parts[j].id] \subseteq {cfg}
    /\ \A j \in DOMAIN g.parts : j < Len(g.parts) => LongEnough(g.parts[j])
    /\ ~g.completed => \A j \in DOMAIN g.parts : /\ cfgs[g.parts[j].id] \subseteq {fmt}
                                                 /\ LongEnough(g.parts[j])

MuxInv ==
    /\ WindowInv
    /\ MuxType
    /\ MuxControl
    /\ \A i \in DOMAIN storage.segments :
          SegmentInv(storage.segments[i], nparts, content, format)
    /\ SegmentDurationAgrees

\* The duration of a segment is the sum of its parts, and append_part leaves the init
\* segment alone.
LEMMA OpenedDuration ==
    ASSUME NEW s \in Storages, Consistent(s)
    PROVE  LET o == Opened(s)
           IN  /\ o.segments[Len(o.segments)].duration =
                     IF Closed(s) THEN 0 ELSE LastSeg(s).duration
               /\ o.init = s.init
<1> DEFINE new == [msn |-> s.next_msn, duration |-> 0, completed |-> FALSE, parts |-> << >>]
<1>1. s.segments \in Seq(Segment)
  BY DEF Storages
<1>2. CASE Closed(s)
  <2> DEFINE o == [s EXCEPT !.segments = Append(@, new), !.next_msn = @ + 1]
  <2>1. Opened(s) = o
    BY <1>2 DEF Opened, Closed
  <2> HIDE DEF new
  <2>2. o.segments = Append(s.segments, new) /\ o.init = s.init
    BY DEF Storages
  <2> HIDE DEF o
  <2>3. o.segments[Len(o.segments)] = new
    BY <1>1, <2>2
  <2> QED
    BY <1>2, <2>1, <2>2, <2>3 DEF new
<1>3. CASE ~Closed(s)
  <2>1. Opened(s) = s
    BY <1>3 DEF Opened, Closed
  <2> QED
    BY <1>3, <2>1 DEF LastSeg
<1> QED
  BY <1>2, <1>3

LEMMA AppendDuration ==
    ASSUME NEW s \in Storages, Consistent(s), NEW new \in Part, NEW close_segment \in BOOLEAN
    PROVE  LET t == append_part(s, new, close_segment)
           IN  /\ LastSeg(t).duration =
                     new.duration + IF Closed(s) THEN 0 ELSE LastSeg(s).duration
               /\ t.init = s.init
<1> DEFINE o == Opened(s)
           n == Len(o.segments)
           g == o.segments[n]
           h == [g EXCEPT !.parts = Append(@, new), !.duration = @ + new.duration,
                          !.completed = @ \/ close_segment]
           a == Added(s, new, close_segment)
           b == IF close_segment THEN shrink(a) ELSE a
           t == append_part(s, new, close_segment)
<1>1. /\ o \in Storages /\ n \in Nat \ {0}
      /\ g.duration = (IF Closed(s) THEN 0 ELSE LastSeg(s).duration)
      /\ o.init = s.init
  BY OpenedFacts, OpenedDuration
<1>2. /\ a \in Storages /\ Consistent(a) /\ Len(a.segments) = n
      /\ a.segments[n].completed = close_segment
  BY AddedFacts
<1> HIDE DEF o
<1>3. o.segments \in Seq(Segment) /\ n \in DOMAIN o.segments /\ g \in Segment
  BY <1>1 DEF Storages
<1>4. h.duration = g.duration + new.duration
  BY <1>3 DEF Segment
<1>5. a = [o EXCEPT !.segments = [o.segments EXCEPT ![n] = h],
                    !.latest_msn = g.msn, !.latest_psn = Len(g.parts)]
  BY <1>1 DEF Added, o, Storages
<1> HIDE DEF h
<1>6. a.segments[n] = h /\ a.init = o.init
  BY <1>1, <1>3, <1>5 DEF Storages
<1> HIDE DEF a
<1>7. a.segments # << >> /\ LastSeg(a) = h
  BY <1>1, <1>2, <1>6 DEF LastSeg
<1>8. b \in Storages /\ Consistent(b) /\ LastSeg(b) = h /\ b.init = a.init
  <2>1. CASE close_segment
    <3>1. LastSeg(a).completed
      BY <1>1, <1>2, <2>1 DEF LastSeg
    <3>2. shrink(a).init = a.init
      BY <1>2 DEF shrink, Storages
    <3> QED
      BY <1>2, <1>7, <2>1, <3>1, <3>2, ShrinkFacts
  <2>2. CASE ~close_segment
    BY <1>2, <1>7, <2>2
  <2> QED
    BY <2>1, <2>2
<1>9. t = refresh_playlist(b)
  BY DEF append_part, a
<1> HIDE DEF b, t
<1>10. t.segments = b.segments
  BY <1>8, <1>9, RefreshFacts
<1>11. t.init = b.init
  BY <1>8, <1>9 DEF refresh_playlist, Storages
<1>12. LastSeg(t) = LastSeg(b)
  BY <1>10 DEF LastSeg
<1> QED
  BY <1>1, <1>4, <1>6, <1>8, <1>11, <1>12, <1>3 DEF t, Segment, Part

-----------------------------------------------------------------------------
\* A segment that is complete stays as it is whatever comes after it.
LEMMA SegmentStays ==
    ASSUME NEW g \in Segment, NEW n \in Nat, NEW m \in Nat, n <= m, NEW cfgs, NEW more,
           NEW fmt, NEW fmt2, SegmentInv(g, n, cfgs, fmt),
           \A id \in 1 .. n : more[id] = cfgs[id],
           g.completed \/ fmt2 = fmt
    PROVE  SegmentInv(g, m, more, fmt2)
<1>1. \A j \in DOMAIN g.parts : /\ g.parts[j].id \in 1 .. n /\ g.parts[j].id \in 1 .. m
                                /\ more[g.parts[j].id] = cfgs[g.parts[j].id]
  BY DEF SegmentInv
<1> HIDE DEF LongEnough
<1> QED
  BY <1>1 DEF SegmentInv

\* The segment that takes a part of the format it has.
LEMMA SegmentGrows ==
    ASSUME NEW s \in Storages, NEW t \in Storages, NEW new \in Part,
           Continued(s, t, new) \/ Begun(s, t, new),
           t.segments # << >>, NEW n \in Nat, new.id = n + 1, NEW cfgs, NEW more,
           NEW fmt \in Formats, \A id \in 1 .. n : more[id] = cfgs[id],
           more[n + 1] \subseteq {fmt},
           \A i \in DOMAIN s.segments : SegmentInv(s.segments[i], n, cfgs, fmt),
           LastSeg(t).completed \/ LongEnough(new)
    PROVE  SegmentInv(LastSeg(t), n + 1, more, fmt)
<1> DEFINE g == LastSeg(s)
           h == LastSeg(t)
<1>1. CASE Begun(s, t, new)
  <2>1. h.parts = << new >>
    BY <1>1 DEF Begun
  <2>2. DOMAIN h.parts = {1} /\ Len(h.parts) = 1 /\ h.parts[1] = new
    BY <2>1
  <2> HIDE DEF h, LongEnough
  <2> QED
    BY <2>2 DEF SegmentInv, h
<1>2. CASE Continued(s, t, new)
  <2>1. /\ s.segments # << >> /\ ~g.completed /\ h.parts = Append(g.parts, new)
    BY <1>2 DEF Continued
  <2>2. Len(s.segments) \in DOMAIN s.segments /\ g \in Segment
    BY <2>1 DEF LastSeg, Storages
  <2>3. SegmentInv(g, n, cfgs, fmt)
    BY <2>2 DEF LastSeg
  <2>4. /\ g.parts \in Seq(Part) /\ Len(g.parts) \in Nat
        /\ DOMAIN g.parts = 1 .. Len(g.parts)
    BY <2>2 DEF Segment
  <2>5. /\ DOMAIN h.parts = 1 .. Len(g.parts) + 1 /\ Len(h.parts) = Len(g.parts) + 1
        /\ h.parts[Len(g.parts) + 1] = new
        /\ \A j \in 1 .. Len(g.parts) : h.parts[j] = g.parts[j]
    BY <2>1, <2>4
  <2> HIDE DEF g, h, LongEnough
  <2>6. \A j \in 1 .. Len(g.parts) :
           /\ h.parts[j].id \in 1 .. n /\ h.parts[j].id \in 1 .. n + 1
           /\ more[h.parts[j].id] \subseteq {fmt} /\ LongEnough(h.parts[j])
    <3> TAKE j \in 1 .. Len(g.parts)
    <3>1. /\ g.parts[j].id \in 1 .. n /\ cfgs[g.parts[j].id] \subseteq {fmt}
          /\ LongEnough(g.parts[j]) /\ h.parts[j] = g.parts[j]
      BY <2>1, <2>3, <2>4, <2>5 DEF SegmentInv
    <3>2. g.parts[j].id \in 1 .. n + 1
      BY <3>1
    <3> QED
      BY <3>1, <3>2
  <2>7. \A j \in DOMAIN h.parts :
           /\ h.parts[j].id \in 1 .. n + 1 /\ more[h.parts[j].id] \subseteq {fmt}
           /\ j < Len(h.parts) => LongEnough(h.parts[j])
           /\ h.completed \/ LongEnough(h.parts[j])
    <3> TAKE j \in DOMAIN h.parts
    <3>1. CASE j \in 1 .. Len(g.parts)
      BY <2>6, <3>1
    <3>2. CASE j = Len(g.parts) + 1
      BY <2>4, <2>5, <3>2 DEF h
    <3> QED
      BY <2>4, <2>5, <3>1, <3>2
  <2> QED
    BY <2>7 DEF SegmentInv, h
<1> QED
  BY <1>1, <1>2

-----------------------------------------------------------------------------
\* The members of the muxer, field by field.
LEMMA MembersDomain ==
    ASSUME NEW m \in Members
    PROVE  DOMAIN m = {"part_open", "part_start_dts", "last_dts", "segment_duration",
                       "init_dirty", "video_configured", "latest_avc_extra",
                       "latest_aac_extra"}
BY DEF Members

LEMMA MembersBuilt ==
    ASSUME NEW m \in Members, NEW n, DOMAIN n = DOMAIN m, n = [x \in DOMAIN n |-> n[x]],
           n.part_open \in BOOLEAN, n.part_start_dts \in 0 .. MaxDts, n.last_dts \in 0 .. MaxDts,
           n.segment_duration \in Int, n.init_dirty \in BOOLEAN, n.video_configured \in BOOLEAN,
           n.latest_avc_extra \in VideoConfigs \cup {0},
           n.latest_aac_extra \in AudioConfigs \cup {0}
    PROVE  n \in Members
BY MembersDomain DEF Members

LEMMA MembersFields ==
    ASSUME NEW m \in Members
    PROVE  /\ m.part_open \in BOOLEAN /\ m.init_dirty \in BOOLEAN
           /\ m.video_configured \in BOOLEAN
           /\ m.part_start_dts \in 0 .. MaxDts /\ m.last_dts \in 0 .. MaxDts
           /\ m.segment_duration \in Int
           /\ m.latest_avc_extra \in VideoConfigs \cup {0}
           /\ m.latest_aac_extra \in AudioConfigs \cup {0}
BY DEF Members

LEMMA FlushedMembers ==
    ASSUME NEW m \in Members, NEW end_dts \in 0 .. MaxDts, NEW close_segment \in BOOLEAN
    PROVE  LET n == Flushed(m, end_dts, close_segment)
           IN  /\ n \in Members /\ ~n.part_open
               /\ n.segment_duration = IF close_segment THEN 0
                                       ELSE m.segment_duration + (end_dts - m.part_start_dts)
               /\ n.init_dirty = m.init_dirty /\ n.last_dts = m.last_dts
               /\ n.latest_avc_extra = m.latest_avc_extra
               /\ n.latest_aac_extra = m.latest_aac_extra
<1> DEFINE n == Flushed(m, end_dts, close_segment)
           d == IF close_segment THEN 0
                ELSE m.segment_duration + (end_dts - m.part_start_dts)
<1>1. /\ m.part_open \in BOOLEAN /\ m.init_dirty \in BOOLEAN /\ m.video_configured \in BOOLEAN
      /\ m.part_start_dts \in 0 .. MaxDts /\ m.last_dts \in 0 .. MaxDts
      /\ m.segment_duration \in Int
      /\ m.latest_avc_extra \in VideoConfigs \cup {0}
      /\ m.latest_aac_extra \in AudioConfigs \cup {0}
  BY MembersFields
<1>2. m.part_start_dts \in Int /\ end_dts \in Int
  BY <1>1, LlHlsMuxerAssumption
<1>3. d \in Int
  BY <1>1, <1>2
<1>4. n = [m EXCEPT !.part_open = FALSE, !.segment_duration = d]
  BY MembersDomain DEF Flushed
<1> HIDE DEF d, n
<1>5. /\ DOMAIN n = DOMAIN m /\ n = [x \in DOMAIN n |-> n[x]]
      /\ n.part_open = FALSE /\ n.segment_duration = d
      /\ n.part_start_dts = m.part_start_dts /\ n.last_dts = m.last_dts
      /\ n.init_dirty = m.init_dirty /\ n.video_configured = m.video_configured
      /\ n.latest_avc_extra = m.latest_avc_extra /\ n.latest_aac_extra = m.latest_aac_extra
  BY <1>4, MembersDomain
<1>6. n \in Members
  BY <1>1, <1>3, <1>5, MembersBuilt
<1> QED
  BY <1>5, <1>6 DEF n, d

LEMMA OpensMembers ==
    ASSUME NEW m \in Members, NEW dts \in 0 .. MaxDts
    PROVE  LET n == [Opens(m, dts) EXCEPT !.last_dts = dts]
           IN  /\ n \in Members /\ n.part_open
               /\ n.segment_duration = m.segment_duration
               /\ n.init_dirty = IF m.part_open THEN m.init_dirty ELSE FALSE
               /\ n.latest_avc_extra = m.latest_avc_extra
               /\ n.latest_aac_extra = m.latest_aac_extra
<1> DEFINE o == Opens(m, dts)
           n == [o EXCEPT !.last_dts = dts]
           v == IF m.init_dirty THEN format.v # 0 ELSE m.video_configured
<1>1. /\ m.part_open \in BOOLEAN /\ m.init_dirty \in BOOLEAN /\ m.video_configured \in BOOLEAN
      /\ m.part_start_dts \in 0 .. MaxDts /\ m.segment_duration \in Int
      /\ m.latest_avc_extra \in VideoConfigs \cup {0}
      /\ m.latest_aac_extra \in AudioConfigs \cup {0}
  BY MembersFields
<1>2. v \in BOOLEAN
  BY <1>1
<1>3. o = IF m.part_open THEN m
          ELSE [m EXCEPT !.part_open = TRUE, !.part_start_dts = dts, !.last_dts = dts,
                         !.init_dirty = FALSE, !.video_configured = v]
  BY MembersDomain DEF Opens
<1> HIDE DEF v, o
<1>4. /\ DOMAIN o = DOMAIN m /\ o = [x \in DOMAIN o |-> o[x]]
      /\ o.part_open = TRUE /\ o.segment_duration = m.segment_duration
      /\ o.part_start_dts \in 0 .. MaxDts
      /\ o.init_dirty = (IF m.part_open THEN m.init_dirty ELSE FALSE)
      /\ o.video_configured \in BOOLEAN
      /\ o.latest_avc_extra = m.latest_avc_extra /\ o.latest_aac_extra = m.latest_aac_extra
  <2>1. CASE m.part_open
    <3>1. o = m /\ m = [x \in DOMAIN m |-> m[x]]
      BY <1>3, <2>1 DEF Members
    <3> QED
      BY <1>1, <2>1, <3>1
  <2>2. CASE ~m.part_open
    <3>1. o = [m EXCEPT !.part_open = TRUE, !.part_start_dts = dts, !.last_dts = dts,
                        !.init_dirty = FALSE, !.video_configured = v]
      BY <1>3, <2>2
    <3> QED
      BY <1>2, <2>2, <3>1, MembersDomain
  <2> QED
    BY <2>1, <2>2
<1>5. /\ DOMAIN n = DOMAIN o /\ n = [x \in DOMAIN n |-> n[x]]
      /\ n.last_dts = dts
      /\ n.part_open = o.part_open /\ n.segment_duration = o.segment_duration
      /\ n.part_start_dts = o.part_start_dts /\ n.init_dirty = o.init_dirty
      /\ n.video_configured = o.video_configured
      /\ n.latest_avc_extra = o.latest_avc_extra /\ n.latest_aac_extra = o.latest_aac_extra
  BY <1>4, MembersDomain
<1> HIDE DEF n
<1>6. n.init_dirty \in BOOLEAN
  BY <1>1, <1>4, <1>5
<1>7. n \in Members
  BY <1>1, <1>4, <1>5, <1>6, MembersBuilt
<1> QED
  BY <1>4, <1>5, <1>7 DEF n, o

LEMMA HeaderMembers ==
    ASSUME NEW m \in Members, NEW f \in Formats
    PROVE  LET n == [m EXCEPT !.latest_avc_extra = f.v, !.latest_aac_extra = f.a,
                              !.init_dirty = TRUE]
           IN  /\ n \in Members /\ n.part_open = m.part_open
               /\ n.segment_duration = m.segment_duration /\ n.init_dirty
               /\ f = [v |-> n.latest_avc_extra, a |-> n.latest_aac_extra]
<1> DEFINE n == [m EXCEPT !.latest_avc_extra = f.v, !.latest_aac_extra = f.a,
                          !.init_dirty = TRUE]
<1>1. /\ m.part_open \in BOOLEAN /\ m.video_configured \in BOOLEAN
      /\ m.part_start_dts \in 0 .. MaxDts /\ m.last_dts \in 0 .. MaxDts
      /\ m.segment_duration \in Int
  BY MembersFields
<1>2. /\ DOMAIN n = DOMAIN m /\ n = [x \in DOMAIN n |-> n[x]]
      /\ n.part_open = m.part_open /\ n.segment_duration = m.segment_duration
      /\ n.part_start_dts = m.part_start_dts /\ n.last_dts = m.last_dts
      /\ n.init_dirty = TRUE /\ n.video_configured = m.video_configured
      /\ n.latest_avc_extra = f.v /\ n.latest_aac_extra = f.a
  BY MembersDomain
<1> HIDE DEF n
<1>3. /\ f.v \in VideoConfigs \cup {0} /\ f.a \in AudioConfigs \cup {0}
      /\ f = [v |-> f.v, a |-> f.a]
  BY DEF Formats
<1>4. n \in Members
  BY <1>1, <1>2, <1>3, MembersBuilt
<1> QED
  BY <1>2, <1>3, <1>4 DEF n

LEMMA PublishMembers ==
    ASSUME NEW m \in Members
    PROVE  LET n == [m EXCEPT !.part_open = FALSE, !.segment_duration = 0]
           IN  /\ n \in Members /\ ~n.part_open /\ n.segment_duration = 0
               /\ n.init_dirty = m.init_dirty
               /\ n.latest_avc_extra = m.latest_avc_extra
               /\ n.latest_aac_extra = m.latest_aac_extra
<1> DEFINE n == [m EXCEPT !.part_open = FALSE, !.segment_duration = 0]
<1>1. /\ m.init_dirty \in BOOLEAN /\ m.video_configured \in BOOLEAN
      /\ m.part_start_dts \in 0 .. MaxDts /\ m.last_dts \in 0 .. MaxDts
      /\ m.latest_avc_extra \in VideoConfigs \cup {0}
      /\ m.latest_aac_extra \in AudioConfigs \cup {0}
  BY MembersFields
<1>2. DOMAIN n = DOMAIN m /\ n = [x \in DOMAIN n |-> n[x]]
  BY MembersDomain
<1>3. /\ n.part_open = FALSE /\ n.segment_duration = 0
      /\ n.part_start_dts = m.part_start_dts /\ n.last_dts = m.last_dts
      /\ n.init_dirty = m.init_dirty /\ n.video_configured = m.video_configured
      /\ n.latest_avc_extra = m.latest_avc_extra /\ n.latest_aac_extra = m.latest_aac_extra
  BY MembersDomain
<1> HIDE DEF n
<1>4. n.segment_duration \in Int
  BY <1>3
<1>5. n.part_open \in BOOLEAN
  BY <1>3, Zenon
<1>6. n \in Members
  BY <1>1, <1>2, <1>3, <1>4, <1>5, MembersBuilt
<1> QED
  BY <1>3, <1>6 DEF n

\* flush_part is a call of append_part between on_publish and on_unpublish.
LEMMA FlushAppends ==
    ASSUME MuxInv, mux.part_open, NEW end_dts \in 0 .. MaxDts, NEW close_segment \in BOOLEAN,
           Flush(end_dts, close_segment)
    PROVE  /\ AppendPart(end_dts - mux.part_start_dts, close_segment)
           /\ end_dts - mux.part_start_dts \in Durations \cap Int
           /\ Write
<1>1. storage.active
  BY DEF MuxInv, MuxControl
<1>2. AppendPart(end_dts - mux.part_start_dts, close_segment)
  BY <1>1 DEF Flush, AppendPart
<1>3. mux.part_start_dts \in 0 .. MaxDts /\ MaxDts \in Nat
  BY LlHlsMuxerAssumption DEF MuxInv, MuxType, Members
<1>4. end_dts - mux.part_start_dts \in -MaxDts .. MaxDts
  BY <1>3
<1>5. end_dts - mux.part_start_dts \in Durations \cap Int
  BY <1>3, <1>4, LlHlsMuxerAssumption
<1> QED
  BY <1>2, <1>5 DEF Write

\* What flush_part leaves of the storage.
LEMMA FlushFacts ==
    ASSUME MuxInv, mux.part_open, NEW end_dts \in 0 .. MaxDts, NEW close_segment \in BOOLEAN,
           Flush(end_dts, close_segment),
           close_segment \/ LongEnough([id |-> nparts + 1,
                                        duration |-> end_dts - mux.part_start_dts])
    PROVE  /\ WindowInv'
           /\ storage'.active /\ storage'.init = storage.init
           /\ storage'.segments # << >> /\ LastSeg(storage').completed = close_segment
           /\ LastSeg(storage').duration = (end_dts - mux.part_start_dts)
                 + IF Closed(storage) THEN 0 ELSE LastSeg(storage).duration
           /\ content' \in Seq(SUBSET Formats) /\ Len(content') = nparts'
           /\ \A i \in DOMAIN storage'.segments :
                 SegmentInv(storage'.segments[i], nparts', content', format)
<1> DEFINE d == end_dts - mux.part_start_dts
           new == [id |-> nparts + 1, duration |-> d]
<1>1. /\ AppendPart(d, close_segment) /\ d \in Int /\ Write
      /\ storage \in Storages /\ Consistent(storage) /\ WindowInv /\ storage.active
      /\ nparts \in Nat
  <2>1. AppendPart(d, close_segment) /\ d \in Int /\ Write
    BY FlushAppends
  <2> HIDE DEF d
  <2>2. WindowInv /\ storage.active
    BY DEF MuxInv, MuxControl, Flush
  <2>3. storage \in Storages /\ Consistent(storage)
    BY <2>2, StorageType
  <2>4. nparts \in Nat
    BY <2>2 DEF WindowInv, WindowType
  <2> QED
    BY <2>1, <2>2, <2>3, <2>4
<1>2. WindowInv'
  BY <1>1, InvNext
<1>3. storage' \in Storages /\ Consistent(storage')
  <2>1. storage' \in Storages
    BY <1>2 DEF WindowInv, WindowType, Storages, Playlists
  <2> QED
    BY <1>2, <2>1, ConsistentWindow DEF WindowInv, WindowConsistent
<1>4. new \in Part /\ new.id = nparts + 1 /\ new.duration = d
  BY <1>1 DEF Part
<1>5. storage' = append_part(storage, new, close_segment) /\ nparts' = nparts + 1
  BY <1>1 DEF AppendPart
<1>6. close_segment \/ LongEnough(new)
  OBVIOUS
<1> HIDE DEF d, new
<1>7. /\ storage'.active = storage.active
      /\ storage'.segments # << >>
      /\ LastSeg(storage').completed = close_segment
      /\ Continued(storage, storage', new) \/ Begun(storage, storage', new)
      /\ \A i \in DOMAIN storage'.segments :
            i < Len(storage'.segments) =>
               \E j \in DOMAIN storage.segments : storage'.segments[i] = storage.segments[j]
  <2>1. LET t == append_part(storage, new, close_segment)
        IN  /\ t.active = storage.active
            /\ t.segments # << >>
            /\ LastSeg(t).completed = close_segment
            /\ Continued(storage, t, new) \/ Begun(storage, t, new)
            /\ \A i \in DOMAIN t.segments : i < Len(t.segments) =>
                   \E j \in DOMAIN storage.segments : t.segments[i] = storage.segments[j]
    BY <1>1, <1>4, AppendFacts
  <2> QED
    BY <1>5, <2>1
<1>8. /\ LastSeg(storage').duration =
            d + IF Closed(storage) THEN 0 ELSE LastSeg(storage).duration
      /\ storage'.init = storage.init
  BY <1>1, <1>4, <1>5, AppendDuration
<1>9. /\ samples \subseteq {format} /\ format \in Formats
      /\ content \in Seq(SUBSET Formats) /\ Len(content) = nparts
      /\ content' = Append(content, samples)
  BY DEF MuxInv, MuxType, MuxControl, Flush
<1>10. /\ content' \in Seq(SUBSET Formats) /\ Len(content') = nparts + 1
       /\ content'[nparts + 1] = samples
       /\ \A id \in 1 .. nparts : content'[id] = content[id]
  <2>1. samples \in SUBSET Formats /\ content \in Seq(SUBSET Formats) /\ Len(content) = nparts
    BY ONLY <1>9
  <2>2. content' \in Seq(SUBSET Formats) /\ Len(content') = nparts + 1
    BY ONLY <1>9, <2>1
  <2>3. content'[nparts + 1] = samples
    BY ONLY <1>9, <2>1
  <2>4. \A id \in 1 .. nparts : content'[id] = content[id]
    BY ONLY <1>9, <2>1
  <2> QED
    BY ONLY <2>2, <2>3, <2>4
<1>11. \A i \in DOMAIN storage.segments : SegmentInv(storage.segments[i], nparts, content, format)
  BY DEF MuxInv
<1>12. SegmentInv(LastSeg(storage'), nparts + 1, content', format)
  <2>1. PICK t, more : t = storage' /\ more = content'
    OBVIOUS
  <2>2. /\ storage \in Storages /\ t \in Storages /\ new \in Part /\ t.segments # << >>
        /\ Continued(storage, t, new) \/ Begun(storage, t, new)
        /\ nparts \in Nat /\ new.id = nparts + 1 /\ format \in Formats
    BY ONLY <1>1, <1>3, <1>4, <1>7, <1>9, <2>1
  <2>3. /\ \A id \in 1 .. nparts : more[id] = content[id]
        /\ more[nparts + 1] \subseteq {format}
        /\ LastSeg(t).completed \/ LongEnough(new)
    BY ONLY <1>6, <1>7, <1>9, <1>10, <2>1
  <2>4. SegmentInv(LastSeg(t), nparts + 1, more, format)
    BY ONLY <1>11, <2>2, <2>3, SegmentGrows
  <2> QED
    BY ONLY <2>1, <2>4, Zenon
<1>13. ASSUME NEW i \in DOMAIN storage'.segments
       PROVE  SegmentInv(storage'.segments[i], nparts + 1, content', format)
  <2>1. DOMAIN storage'.segments = 1 .. Len(storage'.segments) /\ Len(storage'.segments) \in Nat
    BY <1>3, MsnOf
  <2>2. CASE i = Len(storage'.segments)
    BY <1>12, <2>2 DEF LastSeg
  <2>3. CASE i < Len(storage'.segments)
    <3>1. PICK j \in DOMAIN storage.segments : storage'.segments[i] = storage.segments[j]
      BY <1>7, <2>3
    <3>2. storage.segments[j] \in Segment
      BY <1>1, <3>1 DEF Storages
    <3>3. nparts + 1 \in Nat /\ nparts <= nparts + 1
      BY <1>1
    <3> QED
      BY <1>1, <1>10, <1>11, <3>1, <3>2, <3>3, SegmentStays
  <2> QED
    BY <2>1, <2>2, <2>3
<1> QED
  BY <1>1, <1>2, <1>5, <1>7, <1>8, <1>10, <1>13 DEF d

\* The storage of the muxer's invariant.
LEMMA MuxStorage ==
    ASSUME MuxInv
    PROVE  /\ WindowInv /\ storage \in Storages /\ Consistent(storage)
           /\ nparts \in Nat /\ MaxDts \in Nat
           /\ \A i \in DOMAIN storage.segments :
                 /\ storage.segments[i] \in Segment
                 /\ SegmentInv(storage.segments[i], nparts, content, format)
<1>1. WindowInv /\ storage \in Storages /\ Consistent(storage)
  BY StorageType DEF MuxInv
<1>2. nparts \in Nat
  BY <1>1 DEF WindowInv, WindowType
<1>3. \A i \in DOMAIN storage.segments : storage.segments[i] \in Segment
  BY <1>1 DEF Storages
<1> QED
  BY <1>1, <1>2, <1>3, LlHlsMuxerAssumption DEF MuxInv

LEMMA MuxInvInit == MuxInit => MuxInv
<1> SUFFICES ASSUME MuxInit PROVE MuxInv
  OBVIOUS
<1>1. storage.segments = << >> /\ ~storage.active /\ nparts = 0
  BY DEF MuxInit, WindowInit, NewStorage
<1>2. WindowInv
  BY InvInit DEF MuxInit
<1>3. format \in Formats
  BY DEF MuxInit, Formats
<1>4. MuxType
  <2>1. content \in Seq(SUBSET Formats) /\ Len(content) = nparts
    BY <1>1 DEF MuxInit
  <2> QED
    BY <1>3, <2>1, LlHlsMuxerAssumption DEF MuxInit, MuxType, Members
<1>5. MuxControl
  BY <1>1 DEF MuxInit, MuxControl, Closed, Unparsed
<1>6. SegmentDurationAgrees
  BY DEF MuxInit, SegmentDurationAgrees
<1> QED
  BY <1>1, <1>2, <1>4, <1>5, <1>6 DEF MuxInv

\* A publish session begins.
LEMMA OnPublishKeeps ==
    ASSUME MuxInv, OnPublish
    PROVE  MuxInv' /\ Write
<1>1. storage \in Storages /\ WindowInv /\ ~storage.active /\ MuxType /\ MuxControl
  BY MuxStorage DEF MuxInv, MuxControl, OnPublish
<1>2. Write
  BY <1>1 DEF Write, Publish, OnPublish
<1>3. /\ storage'.segments = storage.segments /\ storage'.active
      /\ storage'.init = storage.init /\ LastSeg(storage') = LastSeg(storage)
  BY <1>1 DEF OnPublish, on_publish, Storages, LastSeg
<1>4. mux' = [mux EXCEPT !.part_open = FALSE, !.segment_duration = 0]
  BY DEF OnPublish
<1>6. ~mux.part_open /\ Closed(storage)
  BY <1>1 DEF OnPublish, MuxControl
<1>7. /\ mux' \in Members /\ ~mux'.part_open /\ mux'.segment_duration = 0
      /\ mux'.init_dirty = mux.init_dirty
      /\ mux'.latest_avc_extra = mux.latest_avc_extra
      /\ mux'.latest_aac_extra = mux.latest_aac_extra
  BY <1>1, <1>4, PublishMembers DEF MuxType
<1>5. MuxType'
  BY <1>1, <1>7 DEF OnPublish, MuxType
<1>8. MuxControl'
  BY <1>1, <1>3, <1>6, <1>7 DEF OnPublish, MuxControl, Closed
<1>9. SegmentDurationAgrees'
  BY <1>3, <1>6, <1>7 DEF SegmentDurationAgrees, Closed
<1>10. WindowInv'
  BY <1>1, <1>2, InvNext
<1>11. \A i \in DOMAIN storage'.segments :
          SegmentInv(storage'.segments[i], nparts', content', format')
  BY <1>3 DEF OnPublish, MuxInv
<1> QED
  BY <1>2, <1>5, <1>8, <1>9, <1>10, <1>11 DEF MuxInv

\* Once no segment takes parts, the format may change.
LEMMA AllClosed ==
    ASSUME NEW s \in Storages, Consistent(s), Closed(s)
    PROVE  \A i \in DOMAIN s.segments : s.segments[i].completed
<1>1. s.segments \in Seq(Segment)
  BY DEF Storages
<1> QED
  BY <1>1 DEF Consistent, Numbered, Closed, LastSeg

\* A sequence header.
LEMMA OnHeaderKeeps ==
    ASSUME MuxInv, NEW f \in Formats, OnHeader(f)
    PROVE  MuxInv' /\ [Write]_wvars
<1>1. /\ WindowInv /\ storage \in Storages /\ Consistent(storage)
      /\ nparts \in Nat
      /\ \A i \in DOMAIN storage.segments :
            /\ storage.segments[i] \in Segment
            /\ SegmentInv(storage.segments[i], nparts, content, format)
  BY MuxStorage
<1>2. MuxType /\ MuxControl /\ SegmentDurationAgrees
  BY DEF MuxInv
<1>3. phase = "on" /\ phase' = "on" /\ format' = f
  BY DEF OnHeader
<1>4. /\ mux \in Members /\ format \in Formats
      /\ content \in Seq(SUBSET Formats) /\ Len(content) = nparts
  BY <1>2 DEF MuxType
<1>5. CASE f.v = mux.latest_avc_extra /\ f.a = mux.latest_aac_extra
  <2>1. f = format
    BY <1>2, <1>5 DEF MuxControl, Formats
  <2>2. UNCHANGED <<wvars, mux, samples, content>>
    BY <1>5 DEF OnHeader
  <2>3. WindowInv'
    BY <1>1, <2>2, InvNext
  <2>4. storage' = storage /\ nparts' = nparts
    BY <2>2 DEF wvars
  <2>5. MuxType'
    BY <1>2, <1>3, <2>1, <2>2, <2>4 DEF MuxType
  <2>6. MuxControl'
    BY <1>2, <1>3, <2>1, <2>2, <2>4 DEF MuxControl
  <2>7. SegmentDurationAgrees'
    BY <1>2, <1>3, <2>2, <2>4 DEF SegmentDurationAgrees
  <2> QED
    BY <1>1, <1>3, <2>1, <2>2, <2>3, <2>4, <2>5, <2>6, <2>7 DEF MuxInv
<1>6. CASE ~(f.v = mux.latest_avc_extra /\ f.a = mux.latest_aac_extra)
  <2> DEFINE m == IF mux.part_open THEN Flushed(mux, mux.last_dts, TRUE) ELSE mux
  <2>1. /\ mux' = [m EXCEPT !.latest_avc_extra = f.v, !.latest_aac_extra = f.a,
                            !.init_dirty = TRUE]
        /\ samples' = {}
        /\ IF mux.part_open THEN Flush(mux.last_dts, TRUE) ELSE UNCHANGED <<wvars, content>>
    BY <1>6 DEF OnHeader, HeaderChanged
  <2>2. mux.last_dts \in 0 .. MaxDts
    BY <1>4, MembersFields
  <2>3. /\ m \in Members /\ ~m.part_open
        /\ m.segment_duration = IF mux.part_open THEN 0 ELSE mux.segment_duration
    BY <1>4, <2>2, FlushedMembers
  <2> HIDE DEF m
  <2>4. /\ mux' \in Members /\ ~mux'.part_open /\ mux'.init_dirty
        /\ mux'.segment_duration = m.segment_duration
        /\ format' = [v |-> mux'.latest_avc_extra, a |-> mux'.latest_aac_extra]
    <3>1. mux' = [m EXCEPT !.latest_avc_extra = f.v, !.latest_aac_extra = f.a,
                           !.init_dirty = TRUE]
      BY <2>1
    <3>2. /\ mux' \in Members /\ mux'.part_open = m.part_open
          /\ mux'.segment_duration = m.segment_duration /\ mux'.init_dirty
          /\ f = [v |-> mux'.latest_avc_extra, a |-> mux'.latest_aac_extra]
      <4>1. PICK n : n = mux'
        OBVIOUS
      <4>2. m \in Members /\ f \in Formats
        BY <2>3
      <4>3. n = [m EXCEPT !.latest_avc_extra = f.v, !.latest_aac_extra = f.a,
                          !.init_dirty = TRUE]
        BY ONLY <3>1, <4>1
      <4>4. /\ n \in Members /\ n.part_open = m.part_open
            /\ n.segment_duration = m.segment_duration /\ n.init_dirty
            /\ f = [v |-> n.latest_avc_extra, a |-> n.latest_aac_extra]
        BY ONLY <4>2, <4>3, HeaderMembers
      <4> QED
        BY ONLY <4>1, <4>4, Zenon
    <3> QED
      BY <1>3, <2>3, <3>2
  <2>5. /\ WindowInv' /\ [Write]_wvars /\ storage'.active
        /\ storage' \in Storages /\ Consistent(storage') /\ Closed(storage')
        /\ nparts' \in Nat
        /\ content' \in Seq(SUBSET Formats) /\ Len(content') = nparts'
        /\ \A i \in DOMAIN storage'.segments :
              SegmentInv(storage'.segments[i], nparts', content', format)
        /\ mux'.segment_duration = 0
    <3>1. CASE mux.part_open
      <4>1. Flush(mux.last_dts, TRUE)
        BY <2>1, <3>1
      <4>2. /\ WindowInv' /\ storage'.active /\ LastSeg(storage').completed
            /\ content' \in Seq(SUBSET Formats) /\ Len(content') = nparts'
            /\ \A i \in DOMAIN storage'.segments :
                  SegmentInv(storage'.segments[i], nparts', content', format)
        BY <2>2, <3>1, <4>1, FlushFacts
      <4>3. Write
        BY <2>2, <3>1, <4>1, FlushAppends
      <4>4. storage' \in Storages /\ Consistent(storage')
        BY <1>1, <4>3, WrittenStorage
      <4>5. nparts' \in Nat
        BY <1>1, <4>1 DEF Flush
      <4> QED
        BY <2>3, <2>4, <3>1, <4>2, <4>3, <4>4, <4>5 DEF Closed
    <3>2. CASE ~mux.part_open
      <4>1. UNCHANGED <<wvars, content>> /\ storage' = storage /\ nparts' = nparts
        BY <2>1, <3>2 DEF wvars
      <4>2. WindowInv'
        BY <1>1, <4>1, InvNext
      <4>3. storage.active /\ Closed(storage)
        BY <1>2, <1>3, <3>2 DEF MuxControl
      <4>4. mux.segment_duration = 0
        BY <1>2, <1>3, <4>3 DEF SegmentDurationAgrees, Closed
      <4> QED
        BY <1>1, <1>4, <2>3, <2>4, <3>2, <4>1, <4>2, <4>3, <4>4
    <3> QED
      BY <3>1, <3>2
  <2>6. MuxType'
    BY <1>3, <2>4, <2>5 DEF MuxType
  <2>7. MuxControl'
    BY <1>3, <2>1, <2>4, <2>5 DEF MuxControl
  <2>8. SegmentDurationAgrees'
    BY <2>5 DEF SegmentDurationAgrees, Closed
  <2>9. \A i \in DOMAIN storage'.segments :
           SegmentInv(storage'.segments[i], nparts', content', format')
    <3> TAKE i \in DOMAIN storage'.segments
    <3>1. storage'.segments[i].completed
      BY <2>5, AllClosed
    <3>2. storage'.segments[i] \in Segment
      BY <2>5 DEF Storages
    <3>3. SegmentInv(storage'.segments[i], nparts', content', format)
      BY <2>5
    <3>4. PICK g, n, cfgs, fmt : /\ g = storage'.segments[i] /\ n = nparts'
                                 /\ cfgs = content' /\ fmt = format'
      OBVIOUS
    <3>5. n \in Nat /\ n <= n /\ \A id \in 1 .. n : cfgs[id] = cfgs[id]
      BY <2>5, <3>4
    <3>6. g \in Segment /\ g.completed /\ SegmentInv(g, n, cfgs, format)
      BY ONLY <3>1, <3>2, <3>3, <3>4, Zenon
    <3>7. SegmentInv(g, n, cfgs, fmt)
      BY ONLY <3>5, <3>6, SegmentStays
    <3> QED
      BY ONLY <3>4, <3>7, Zenon
  <2> QED
    BY <2>5, <2>6, <2>7, <2>8, <2>9 DEF MuxInv
<1> QED
  BY <1>5, <1>6

\* A frame that no cut precedes: the init segment is written if it is due.
LEMMA UncutFrameKeeps ==
    ASSUME MuxInv, phase = "on", UNCHANGED <<phase, format, nparts, published, content>>,
           format # Unparsed, NEW dts \in 0 .. MaxDts,
           storage' = IF ~mux.part_open /\ mux.init_dirty THEN set_init(storage, format)
                      ELSE storage,
           mux' = [Opens(mux, dts) EXCEPT !.last_dts = dts],
           samples' = (IF ~mux.part_open THEN {} ELSE samples) \cup {format}
    PROVE  MuxInv' /\ [Write]_wvars
<1>1. /\ WindowInv /\ storage \in Storages
      /\ \A i \in DOMAIN storage.segments :
            SegmentInv(storage.segments[i], nparts, content, format)
      /\ MuxType /\ MuxControl /\ SegmentDurationAgrees
  BY MuxStorage DEF MuxInv
<1>2. /\ mux' \in Members /\ mux'.part_open
      /\ mux'.segment_duration = mux.segment_duration
      /\ mux'.init_dirty = (IF mux.part_open THEN mux.init_dirty ELSE FALSE)
      /\ mux'.latest_avc_extra = mux.latest_avc_extra
      /\ mux'.latest_aac_extra = mux.latest_aac_extra
  BY <1>1, OpensMembers DEF MuxType
<1>3. storage.active /\ format \in Configs
  BY <1>1, LlHlsMuxerAssumption DEF MuxControl, MuxType, Formats
<1>4. /\ storage'.segments = storage.segments /\ storage'.active
      /\ storage'.init = IF ~mux.part_open /\ mux.init_dirty THEN {format} ELSE storage.init
      /\ LastSeg(storage') = LastSeg(storage)
  BY <1>1, <1>3 DEF set_init, Storages, LastSeg
<1>5. [Write]_wvars
  BY <1>3 DEF Write, SetInit, wvars
<1>6. WindowInv'
  BY <1>1, <1>5, InvNext
<1>7. MuxType'
  BY <1>1, <1>2 DEF MuxType
<1>8. ~mux'.init_dirty
  BY <1>1, <1>2 DEF MuxControl
<1>9. storage'.init = {format}
  BY <1>1, <1>4 DEF MuxControl
<1>10. MuxControl'
  BY <1>1, <1>2, <1>4, <1>8, <1>9 DEF MuxControl
<1>11. SegmentDurationAgrees'
  BY <1>1, <1>2, <1>4 DEF SegmentDurationAgrees
<1> QED
  BY <1>1, <1>4, <1>5, <1>6, <1>7, <1>10, <1>11 DEF MuxInv

\* A frame that ends a part, and maybe its segment.
LEMMA CutFrameKeeps ==
    ASSUME MuxInv, phase = "on", UNCHANGED <<phase, format>>, mux.part_open,
           NEW dts \in 0 .. MaxDts, NEW close_segment \in BOOLEAN,
           close_segment \/ CutsPart(dts - mux.part_start_dts, dts - mux.last_dts),
           Flush(dts, close_segment),
           mux' = [Opens(Flushed(mux, dts, close_segment), dts) EXCEPT !.last_dts = dts],
           samples' = {format}
    PROVE  MuxInv' /\ [Write]_wvars
<1>1. MuxType /\ MuxControl /\ SegmentDurationAgrees /\ mux \in Members
  BY DEF MuxInv, MuxType
<1> DEFINE n == Flushed(mux, dts, close_segment)
<1>2. /\ n \in Members /\ ~n.part_open
      /\ n.segment_duration = IF close_segment THEN 0
                              ELSE mux.segment_duration + (dts - mux.part_start_dts)
      /\ n.latest_avc_extra = mux.latest_avc_extra
      /\ n.latest_aac_extra = mux.latest_aac_extra
  BY <1>1, FlushedMembers
<1> HIDE DEF n
<1>3. /\ mux' \in Members /\ mux'.part_open /\ ~mux'.init_dirty
      /\ mux'.segment_duration = n.segment_duration
      /\ mux'.latest_avc_extra = mux.latest_avc_extra
      /\ mux'.latest_aac_extra = mux.latest_aac_extra
  BY <1>2, OpensMembers DEF n
<1>4. /\ mux.part_start_dts \in Int /\ dts \in Int /\ PartTarget \in Nat
      /\ mux.segment_duration \in Int
  BY <1>1, MembersFields, LlHlsMuxerAssumption
<1>5. close_segment \/ LongEnough([id |-> nparts + 1, duration |-> dts - mux.part_start_dts])
  <2> SUFFICES ASSUME ~close_segment
               PROVE  (dts - mux.part_start_dts) * 100 >= PartTarget * 85
    BY DEF LongEnough
  <2>1. \/ dts - mux.part_start_dts >= PartTarget
        \/ (dts - mux.part_start_dts) * 100 >= PartTarget * 85
    BY DEF CutsPart
  <2> QED
    BY <1>4, <2>1
<1>6. /\ WindowInv' /\ storage'.active /\ storage'.init = storage.init
      /\ storage'.segments # << >> /\ LastSeg(storage').completed = close_segment
      /\ LastSeg(storage').duration = (dts - mux.part_start_dts)
            + IF Closed(storage) THEN 0 ELSE LastSeg(storage).duration
      /\ content' \in Seq(SUBSET Formats) /\ Len(content') = nparts'
      /\ \A i \in DOMAIN storage'.segments :
            SegmentInv(storage'.segments[i], nparts', content', format)
  BY <1>5, FlushFacts
<1>7. Write
  BY FlushAppends
<1>8. MuxType'
  BY <1>1, <1>3, <1>6 DEF MuxType
<1>9. storage.init = {format} /\ format # Unparsed
  BY <1>1 DEF MuxControl
<1>10. MuxControl'
  BY <1>1, <1>3, <1>6, <1>9 DEF MuxControl
<1>11. SegmentDurationAgrees'
  <2>1. mux.segment_duration = IF Closed(storage) THEN 0 ELSE LastSeg(storage).duration
    BY <1>1 DEF SegmentDurationAgrees, Closed
  <2>2. CASE close_segment
    BY <1>2, <1>3, <1>6, <2>2 DEF SegmentDurationAgrees
  <2>3. CASE ~close_segment
    <3>1. LastSeg(storage').duration = mux.segment_duration + (dts - mux.part_start_dts)
      BY <1>4, <1>6, <2>1
    <3> QED
      BY <1>2, <1>3, <1>6, <2>3, <3>1 DEF SegmentDurationAgrees
  <2> QED
    BY <2>2, <2>3
<1> QED
  BY <1>6, <1>7, <1>8, <1>10, <1>11 DEF MuxInv

\* write_audio and write_video.
LEMMA OnFrameKeeps ==
    ASSUME MuxInv, NEW kind \in {"aac", "key", "inter"}, NEW dts \in 0 .. MaxDts,
           OnFrame(kind, dts)
    PROVE  MuxInv' /\ [Write]_wvars
<1> DEFINE can_end == IF kind = "aac" THEN ~mux.video_configured ELSE kind = "key"
           cut     == Cut(dts, can_end)
           flushed == IF cut = "no" THEN mux ELSE Flushed(mux, dts, cut = "segment")
<1>1. /\ phase = "on" /\ UNCHANGED <<phase, format>>
      /\ IF kind = "aac" THEN format.a # 0 ELSE format.v # 0
      /\ IF cut # "no" THEN Flush(dts, cut = "segment")
         ELSE /\ storage' = IF ~flushed.part_open /\ mux.init_dirty
                            THEN set_init(storage, format) ELSE storage
              /\ UNCHANGED <<nparts, published, content>>
      /\ mux' = [Opens(flushed, dts) EXCEPT !.last_dts = dts]
      /\ samples' = (IF ~flushed.part_open THEN {} ELSE samples) \cup {format}
  BY DEF OnFrame
<1>2. /\ cut = "no" \/ mux.part_open
      /\ cut = "no" \/ cut = "segment" \/ CutsPart(dts - mux.part_start_dts, dts - mux.last_dts)
  BY DEF Cut
<1> HIDE DEF cut
<1>3. CASE cut = "no"
  <2>1. flushed = mux
    BY <1>3
  <2> HIDE DEF flushed
  <2>2. format # Unparsed
    BY <1>1 DEF Unparsed
  <2>3. /\ UNCHANGED <<phase, format, nparts, published, content>>
        /\ storage' = IF ~mux.part_open /\ mux.init_dirty THEN set_init(storage, format)
                      ELSE storage
        /\ mux' = [Opens(mux, dts) EXCEPT !.last_dts = dts]
        /\ samples' = (IF ~mux.part_open THEN {} ELSE samples) \cup {format}
    BY <1>1, <1>3, <2>1
  <2> QED
    BY <1>1, <2>2, <2>3, UncutFrameKeeps
<1>4. CASE cut # "no"
  <2>1. PICK close_segment \in BOOLEAN : close_segment = (cut = "segment")
    OBVIOUS
  <2>2. flushed = Flushed(mux, dts, close_segment)
    BY <1>4, <2>1
  <2> HIDE DEF flushed
  <2>3. mux \in Members
    BY DEF MuxInv, MuxType
  <2>4. ~flushed.part_open
    BY <2>1, <2>2, <2>3, FlushedMembers
  <2>5. samples' = {format} /\ Flush(dts, close_segment) /\ mux.part_open
    BY <1>1, <1>2, <1>4, <2>1, <2>4
  <2>6. /\ mux' = [Opens(Flushed(mux, dts, close_segment), dts) EXCEPT !.last_dts = dts]
        /\ close_segment \/ CutsPart(dts - mux.part_start_dts, dts - mux.last_dts)
    BY <1>1, <1>2, <1>4, <2>1, <2>2
  <2> QED
    BY <1>1, <2>1, <2>5, <2>6, CutFrameKeeps
<1> QED
  BY <1>3, <1>4

\* SrsLlHlsMuxer::on_unpublish.
LEMMA UnpublishFlushKeeps ==
    ASSUME MuxInv, UnpublishFlush
    PROVE  MuxInv' /\ [Write]_wvars
<1>1. /\ WindowInv /\ storage \in Storages /\ Consistent(storage) /\ nparts \in Nat
      /\ \A i \in DOMAIN storage.segments :
            SegmentInv(storage.segments[i], nparts, content, format)
  BY MuxStorage
<1>2. MuxType /\ MuxControl /\ SegmentDurationAgrees /\ mux \in Members
  BY DEF MuxInv, MuxType
<1>3. /\ phase = "on" /\ phase' = "stopping" /\ samples' = {}
      /\ UNCHANGED <<format, session>>
  BY DEF UnpublishFlush
<1>4. CASE mux.part_open
  <2>1. Flush(mux.last_dts, TRUE) /\ mux' = Flushed(mux, mux.last_dts, TRUE)
    BY <1>4 DEF UnpublishFlush
  <2>2. mux.last_dts \in 0 .. MaxDts
    BY <1>2, MembersFields
  <2>3. /\ mux' \in Members /\ ~mux'.part_open /\ mux'.init_dirty = mux.init_dirty
        /\ mux'.latest_avc_extra = mux.latest_avc_extra
        /\ mux'.latest_aac_extra = mux.latest_aac_extra
    BY <1>2, <2>1, <2>2, FlushedMembers
  <2>4. /\ WindowInv' /\ storage'.active /\ storage'.init = storage.init
        /\ LastSeg(storage').completed
        /\ content' \in Seq(SUBSET Formats) /\ Len(content') = nparts'
        /\ \A i \in DOMAIN storage'.segments :
              SegmentInv(storage'.segments[i], nparts', content', format)
    BY <1>4, <2>1, <2>2, FlushFacts
  <2>5. Write
    BY <1>4, <2>1, <2>2, FlushAppends
  <2>6. MuxType'
    BY <1>2, <1>3, <2>3, <2>4 DEF MuxType
  <2>7. MuxControl'
    BY <1>2, <1>3, <2>3, <2>4 DEF MuxControl, Closed
  <2>8. SegmentDurationAgrees'
    BY <1>3 DEF SegmentDurationAgrees
  <2> QED
    BY <1>3, <2>4, <2>5, <2>6, <2>7, <2>8 DEF MuxInv
<1>5. CASE ~mux.part_open
  <2>1. UNCHANGED <<wvars, content, mux>>
    BY <1>5 DEF UnpublishFlush
  <2>2. storage' = storage /\ nparts' = nparts
    BY <2>1 DEF wvars
  <2>3. WindowInv'
    BY <1>1, <2>1, InvNext
  <2>4. MuxType'
    BY <1>2, <1>3, <2>1, <2>2 DEF MuxType
  <2>5. MuxControl'
    BY <1>2, <1>3, <1>5, <2>1, <2>2 DEF MuxControl, Closed
  <2>6. SegmentDurationAgrees'
    BY <1>3 DEF SegmentDurationAgrees
  <2> QED
    BY <1>1, <1>3, <2>1, <2>2, <2>3, <2>4, <2>5, <2>6 DEF MuxInv
<1> QED
  BY <1>4, <1>5

\* SrsLlHlsStorage::on_unpublish finds nothing to complete: the muxer has.
LEMMA UnpublishEndKeeps ==
    ASSUME MuxInv, UnpublishEnd
    PROVE  MuxInv' /\ [Write]_wvars
<1>1. /\ WindowInv /\ storage \in Storages /\ Consistent(storage)
      /\ \A i \in DOMAIN storage.segments :
            SegmentInv(storage.segments[i], nparts, content, format)
      /\ MuxType /\ MuxControl
  BY MuxStorage DEF MuxInv
<1>2. /\ phase = "stopping" /\ phase' = "off" /\ storage' = on_unpublish(storage)
      /\ UNCHANGED <<nparts, published, format, mux, samples, content, session>>
  BY DEF UnpublishEnd
<1>3. storage.active /\ ~mux.part_open /\ Closed(storage)
  BY <1>1, <1>2 DEF MuxControl
<1>4. Write
  BY <1>2, <1>3 DEF Write, Unpublish
<1>5. /\ storage'.segments = storage.segments /\ storage'.init = storage.init
      /\ ~storage'.active
  BY <1>1, <1>2, <1>3, UnpublishStops
<1>6. WindowInv'
  BY <1>1, <1>4, InvNext
<1>7. MuxType'
  BY <1>1, <1>2 DEF MuxType
<1>8. MuxControl'
  BY <1>1, <1>2, <1>3, <1>5 DEF MuxControl, Closed, LastSeg
<1>9. SegmentDurationAgrees'
  BY <1>2 DEF SegmentDurationAgrees
<1> QED
  BY <1>1, <1>2, <1>4, <1>5, <1>6, <1>7, <1>8, <1>9 DEF MuxInv

\* Every step keeps the invariant, and calls the storage as its writer may.
LEMMA MuxInvNext ==
    ASSUME MuxInv, [MuxNext]_muxvars
    PROVE  MuxInv' /\ [Write]_wvars
<1>1. CASE OnPublish
  BY <1>1, OnPublishKeeps
<1>2. ASSUME NEW cfg \in VideoConfigs, OnVideoHeader(cfg)
      PROVE  MuxInv' /\ [Write]_wvars
  <2>1. [format EXCEPT !.v = cfg] \in Formats /\ OnHeader([format EXCEPT !.v = cfg])
    BY <1>2 DEF OnVideoHeader, MuxInv, MuxType, Formats
  <2> QED
    BY <2>1, OnHeaderKeeps
<1>3. ASSUME NEW cfg \in AudioConfigs, OnAudioHeader(cfg)
      PROVE  MuxInv' /\ [Write]_wvars
  <2>1. [format EXCEPT !.a = cfg] \in Formats /\ OnHeader([format EXCEPT !.a = cfg])
    BY <1>3 DEF OnAudioHeader, MuxInv, MuxType, Formats
  <2> QED
    BY <2>1, OnHeaderKeeps
<1>4. ASSUME NEW kind \in {"aac", "key", "inter"}, NEW step \in Steps,
             mux.last_dts + step \in 0 .. MaxDts, OnFrame(kind, mux.last_dts + step)
      PROVE  MuxInv' /\ [Write]_wvars
  BY <1>4, OnFrameKeeps
<1>5. CASE UnpublishFlush
  BY <1>5, UnpublishFlushKeeps
<1>6. CASE UnpublishEnd
  BY <1>6, UnpublishEndKeeps
<1>7. CASE UNCHANGED muxvars
  <2>1. UNCHANGED <<wvars, phase, format, mux, samples, content, session>>
    BY <1>7 DEF muxvars, mvars
  <2>2. storage' = storage /\ nparts' = nparts
    BY <2>1 DEF wvars
  <2>3. WindowInv'
    BY <2>1, InvNext DEF MuxInv
  <2>4. MuxType' /\ MuxControl' /\ SegmentDurationAgrees'
    BY <2>1, <2>2 DEF MuxInv, MuxType, MuxControl, SegmentDurationAgrees, Closed
  <2> QED
    BY <2>1, <2>2, <2>3, <2>4 DEF MuxInv
<1> QED
  BY <1>1, <1>2, <1>3, <1>4, <1>5, <1>6, <1>7 DEF MuxNext

\* The invariant of the muxer: it and its storage agree on the segment that is
\* open, on the configurations and on the durations, in every state.
THEOREM MuxInvariant == MuxSpec => []MuxInv
<1>1. MuxInv /\ [MuxNext]_muxvars => MuxInv'
  BY MuxInvNext
<1> QED
  BY <1>1, MuxInvInit, PTL DEF MuxSpec

\* The muxer implements the writer of LlHlsWindow: parts come only between
\* on_publish and on_unpublish, set_init too, one call of the storage a step.
THEOREM MuxerWritesWindow == MuxSpec => ImplementsWindow
<1>1. MuxInit => WindowInit
  BY DEF MuxInit
<1>2. MuxInv /\ [MuxNext]_muxvars => [Write]_wvars
  BY MuxInvNext
<1> QED
  BY <1>1, <1>2, MuxInvariant, PTL DEF MuxSpec, ImplementsWindow, WindowSpec

\* What the storage adds up for EXTINF is what the muxer's cuts are decided on, in
\* every session.
THEOREM MuxerAgreesOnDuration == MuxSpec => []SegmentDurationAgrees
<1>1. MuxInv => SegmentDurationAgrees
  BY DEF MuxInv
<1> QED
  BY <1>1, MuxInvariant, PTL

\* Every part but the last of its segment lasts at least 85% of the PART-TARGET,
\* whatever the timestamps, the key frames and the sequence headers.
THEOREM PartsReachTarget == MuxSpec => []PartsLongEnough
<1>1. MuxInv => PartsLongEnough
  <2> SUFFICES ASSUME MuxInv PROVE PartsLongEnough
    OBVIOUS
  <2> SUFFICES ASSUME NEW i \in DOMAIN storage.segments,
                      NEW j \in 1 .. Len(storage.segments[i].parts) - 1
               PROVE  LongEnough(storage.segments[i].parts[j])
    BY DEF PartsLongEnough, LongEnough
  <2>1. /\ storage.segments[i] \in Segment
        /\ SegmentInv(storage.segments[i], nparts, content, format)
    BY MuxStorage
  <2>2. storage.segments[i].parts \in Seq(Part)
    BY <2>1 DEF Segment
  <2>3. j \in DOMAIN storage.segments[i].parts /\ j < Len(storage.segments[i].parts)
    BY <2>2
  <2> QED
    BY <2>1, <2>3 DEF SegmentInv
<1> QED
  BY <1>1, MuxInvariant, PTL

\* Samples of two codec configurations never share a segment, and the newest are
\* decoded with the init segment served: one EXT-X-MAP per segment is enough.
THEOREM SegmentsHaveOneConfig == MuxSpec => []OneConfigPerSegment
<1>1. MuxInv => OneConfigPerSegment
  <2> SUFFICES ASSUME MuxInv PROVE OneConfigPerSegment
    OBVIOUS
  <2>1. MuxControl
    BY DEF MuxInv
  <2>2. samples \subseteq storage.init
    BY <2>1 DEF MuxControl
  <2>3. ASSUME NEW i \in DOMAIN storage.segments
        PROVE  \E cfg : SegmentCfgs(i) \subseteq {cfg}
    <3> DEFINE g == storage.segments[i]
    <3>1. g \in Segment /\ SegmentInv(g, nparts, content, format)
      BY <2>3, MuxStorage
    <3>2. storage.segments \in Seq(Segment)
      BY MuxStorage DEF Storages
    <3>3. CASE i = Len(storage.segments) /\ Continues
      <4>1. ~g.completed
        BY <3>2, <3>3 DEF Continues, LastSeg
      <4>2. \A j \in DOMAIN g.parts : content[g.parts[j].id] \subseteq {format}
        BY <3>1, <4>1 DEF SegmentInv
      <4>3. samples \subseteq {format}
        BY <2>1 DEF MuxControl
      <4>4. SegmentCfgs(i) \subseteq {format}
        BY <3>3, <4>2, <4>3 DEF SegmentCfgs
      <4> QED
        BY <4>4
    <3>4. CASE ~(i = Len(storage.segments) /\ Continues)
      <4>1. PICK cfg : \A j \in DOMAIN g.parts : content[g.parts[j].id] \subseteq {cfg}
        BY <3>1 DEF SegmentInv
      <4>2. SegmentCfgs(i) \subseteq {cfg}
        BY <3>4, <4>1 DEF SegmentCfgs
      <4> QED
        BY <4>2
    <3> QED
      BY <3>3, <3>4
  <2>4. ASSUME NEW i \in DOMAIN storage.segments
        PROVE  \A f, g \in SegmentCfgs(i) : f = g
    BY <2>3, <2>4
  <2> QED
    BY <2>2, <2>4 DEF OneConfigPerSegment
<1> QED
  BY <1>1, MuxInvariant, PTL

\* What the theorems on the window say of it, it keeps while the muxer writes it.
THEOREM MuxerKeepsWindow ==
    MuxSpec => [](WindowConsistent /\ PlaylistServes /\ PartsForever) /\ SegmentsForever /\ HintKept
BY MuxerWritesWindow, WindowIsConsistent, PlaylistIsServed, PartNamesForever,
   SegmentNamesForever, HintIsKept, PTL DEF ImplementsWindow

-----------------------------------------------------------------------------
(* The HTTP threads of module LlHlsServe, the readers of the program.        *)

Labels == {"idle", "lookup", "ahead", "hold", "active", "get", "answered"}

\* The fields of a thread; slices are only counted.
ServeType ==
    /\ pc \in [Clients -> Labels]
    /\ req \in [Clients -> Requests \cup {NoRequest}]
    /\ slices \in [Clients -> Nat]
    /\ held \in [Clients -> {"no", "reached", "stopped", "timeout"}]
    /\ answer = [c \in Clients |-> answer[c]]
    /\ hinted \in [Clients -> BOOLEAN]
    /\ stopped \in [Clients -> BOOLEAN]

\* Where a thread is says what it serves and how far it is.
Control(c) ==
    /\ pc[c] = "idle" => req[c] = NoRequest /\ ~hinted[c]
    /\ pc[c] # "idle" => req[c] \in Requests
    /\ pc[c] # "answered" => answer[c] = NoAnswer
    /\ pc[c] \in {"lookup", "ahead", "hold", "active"} => held[c] = "no"
    /\ pc[c] = "lookup" => req[c].kind = "part"
    /\ hinted[c] => req[c].kind = "part"
    /\ pc[c] = "get" /\ req[c].kind = "part" => held[c] # "no"

\* The newest part of the storage s is the one asked for or a later one.
Reach(s, msn, psn) ==
    /\ s.segments # << >>
    /\ \/ s.latest_msn > msn
       \/ s.latest_msn = msn /\ s.latest_psn >= psn

\* The part asked for is in the window, or was.
Avail(s, msn, psn) ==
    /\ s.segments # << >>
    /\ msn < FirstSeg(s).msn \/ get_part(s, msn, psn) # {}

\* A hold that ended because the part was there ended rightly, and the part does not
\* go away behind the newest one before the thread makes its next call.
HeldRightly(c) ==
    pc[c] = "get" /\ held[c] = "reached" => Reach(storage, req[c].msn, req[c].psn)

\* As long as the stream goes on, the part that was hinted is still the next one, or
\* it has come; once the hold is over for it, it has come.
HintWaits(c) ==
    hinted[c] /\ ~stopped[c] =>
        /\ pc[c] \in {"lookup", "ahead", "hold", "active"} =>
              /\ storage.active
              /\ \/ <<req[c].msn, req[c].psn>> \in storage.playlist.hint
                 \/ Avail(storage, req[c].msn, req[c].psn)
        /\ held[c] # "stopped"
        /\ pc[c] = "get" /\ held[c] = "reached" => Avail(storage, req[c].msn, req[c].psn)

\* The answers given.
Answers(c) ==
    /\ answer[c].status = 200 /\ req[c].kind = "playlist" /\ held[c] = "reached"
          => \A q \in answer[c].body : Covers(q, req[c].msn, req[c].psn)
    /\ answer[c].status = 200 /\ req[c].kind = "part"
          => \A p \in answer[c].body :
                [msn |-> req[c].msn, psn |-> req[c].psn, id |-> p.id] \in published
    /\ hinted[c] /\ answer[c].status = 404
          => \/ stopped[c] \/ held[c] = "timeout"
             \/ storage.segments # << >> /\ req[c].msn < FirstSeg(storage).msn

\* Before the first part there is no newest one, and the window never runs empty.
Filled == storage.latest_msn >= 0 <=> storage.segments # << >>

\* Only a stream that is live hints at a part.
HintLive == storage.playlist.hint # {} => storage.active

ClientInv(c) == Control(c) /\ HeldRightly(c) /\ HintWaits(c) /\ Answers(c)

ServeInv ==
    /\ WindowInv
    /\ Filled
    /\ HintLive
    /\ ServeType
    /\ \A c \in Clients : ClientInv(c)

-----------------------------------------------------------------------------
\* The numbers of a window that has segments.
LEMMA LatestFacts ==
    ASSUME NEW s \in Storages, Consistent(s), s.segments # << >>
    PROVE  /\ s.latest_msn = s.next_msn - 1 /\ s.latest_msn \in Nat /\ s.latest_psn \in Nat
           /\ FirstSeg(s).msn \in Nat /\ FirstSeg(s).msn <= s.latest_msn
           /\ LastSeg(s).msn = s.latest_msn /\ Len(LastSeg(s).parts) = s.latest_psn + 1
<1>1. /\ FirstSeg(s).msn = s.next_msn - Len(s.segments)
      /\ LastSeg(s).msn = s.next_msn - 1
      /\ 1 \in DOMAIN s.segments /\ Len(s.segments) \in DOMAIN s.segments
      /\ DOMAIN s.segments = 1 .. Len(s.segments) /\ Len(s.segments) \in Nat
  BY MsnOf
<1>2. FirstSeg(s).msn \in Nat /\ LastSeg(s).msn \in Nat /\ LastSeg(s).parts \in Seq(Part)
  BY <1>1, MsnOf DEF FirstSeg, LastSeg
<1>3. /\ LastSeg(s).parts # << >>
      /\ s.latest_msn = LastSeg(s).msn
      /\ s.latest_psn = Len(LastSeg(s).parts) - 1
  BY DEF Consistent
<1>4. Len(LastSeg(s).parts) \in Nat \ {0}
  BY <1>2, <1>3
<1>5. s.next_msn \in Nat /\ Len(s.segments) >= 1
  BY <1>1 DEF Storages
<1> QED
  BY <1>1, <1>2, <1>3, <1>4, <1>5

\* A part that was in the window stays in it or expires in its turn.
LEMMA AvailKept ==
    ASSUME NEW s \in Storages, NEW t \in Storages, Consistent(s), Consistent(t), Advanced(s, t),
           NEW msn \in Nat, NEW psn \in Nat, Avail(s, msn, psn)
    PROVE  Avail(t, msn, psn)
<1>1. s.segments # << >> /\ t.segments # << >> /\ FirstSeg(s).msn <= FirstSeg(t).msn
  BY DEF Avail, Advanced
<1>2. FirstSeg(s).msn \in Int /\ FirstSeg(t).msn \in Int
  <2>1. FirstSeg(s).msn \in Nat
    BY <1>1, LatestFacts
  <2>2. FirstSeg(t).msn \in Nat
    BY <1>1, LatestFacts
  <2> QED
    BY <2>1, <2>2
<1>3. CASE msn < FirstSeg(s).msn
  BY <1>1, <1>2, <1>3 DEF Avail
<1>4. CASE get_part(s, msn, psn) # {}
  <2>1. PICK i \in find(s, msn) : 0 <= psn /\ psn < Len(s.segments[i].parts)
    BY <1>4 DEF get_part
  <2>2. i \in DOMAIN s.segments /\ s.segments[i].msn = msn
    BY <2>1, FoundFacts
  <2>3. CASE s.segments[i].msn < FirstSeg(t).msn
    BY <1>1, <2>2, <2>3 DEF Avail
  <2>4. CASE ~ (s.segments[i].msn < FirstSeg(t).msn)
    <3>1. PICK j \in DOMAIN t.segments :
             /\ t.segments[j].msn = s.segments[i].msn
             /\ Len(s.segments[i].parts) <= Len(t.segments[j].parts)
      BY <2>2, <2>4 DEF Advanced
    <3>2. find(t, msn) = {j}
      BY <2>2, <3>1, FindFacts
    <3>3. s.segments[i].parts \in Seq(Part) /\ t.segments[j].parts \in Seq(Part)
      BY <2>2, <3>1, MsnOf
    <3>4. Len(s.segments[i].parts) \in Nat /\ Len(t.segments[j].parts) \in Nat
      BY <3>3
    <3>5. psn < Len(t.segments[j].parts)
      BY <2>1, <3>1, <3>4
    <3>6. get_part(t, msn, psn) # {}
      BY <2>1, <3>2, <3>5 DEF get_part
    <3> QED
      BY <1>1, <3>6 DEF Avail
  <2> QED
    BY <2>3, <2>4
<1> QED
  BY <1>3, <1>4 DEF Avail

\* The newest part only gets newer.
LEMMA ReachKept ==
    ASSUME NEW s \in Storages, NEW t \in Storages, Advanced(s, t),
           NEW msn \in Int, NEW psn \in Int, Reach(s, msn, psn)
    PROVE  Reach(t, msn, psn)
<1>1. /\ s.latest_msn \in Int /\ s.latest_psn \in Int
      /\ t.latest_msn \in Int /\ t.latest_psn \in Int
  BY DEF Storages
<1> QED
  BY <1>1 DEF Reach, Advanced

\* reached() is right: what it finds reached has been published.
LEMMA ReachedFacts ==
    ASSUME NEW s \in Storages, Consistent(s), s.segments # << >>,
           NEW msn \in Int, NEW psn \in Nat \cup {-1}, reached(s, msn, psn)
    PROVE  Reach(s, msn, psn)
<1>1. /\ s.latest_msn \in Nat /\ s.latest_psn \in Nat
      /\ FirstSeg(s).msn \in Nat /\ FirstSeg(s).msn <= s.latest_msn
  BY LatestFacts
<1> QED
  BY <1>1 DEF reached, Reach

\* What is hinted is not there yet, and close enough to be waited for.
LEMMA HintAhead ==
    ASSUME NEW s \in Storages, Consistent(s), Agrees(s),
           NEW msn, NEW psn, <<msn, psn>> \in s.playlist.hint
    PROVE  /\ s.segments # << >> /\ <<msn, psn>> = NextPart(s)
           /\ ~ reached(s, msn, psn)
           /\ msn <= s.latest_msn + 1
<1>1. s.segments # << >> /\ s.playlist.hint = {NextPart(s)}
  BY DEF Agrees
<1>2. /\ s.latest_msn \in Nat /\ s.latest_psn \in Nat
      /\ FirstSeg(s).msn \in Nat /\ FirstSeg(s).msn <= s.latest_msn
      /\ LastSeg(s).msn = s.latest_msn /\ Len(LastSeg(s).parts) = s.latest_psn + 1
  BY <1>1, LatestFacts
<1>3. <<msn, psn>> = NextPart(s)
  BY <1>1
<1>4. \/ msn = s.latest_msn + 1 /\ psn = 0
      \/ msn = s.latest_msn /\ psn = s.latest_psn + 1
  BY <1>2, <1>3 DEF NextPart
<1> QED
  BY <1>1, <1>2, <1>3, <1>4 DEF reached

\* What is or was in the window is not ahead of it.
LEMMA AvailNear ==
    ASSUME NEW s \in Storages, Consistent(s), NEW msn \in Nat, NEW psn \in Nat,
           Avail(s, msn, psn)
    PROVE  msn <= s.latest_msn
<1>1. /\ s.latest_msn = s.next_msn - 1 /\ s.latest_msn \in Nat
      /\ FirstSeg(s).msn \in Nat /\ FirstSeg(s).msn <= s.latest_msn
  BY LatestFacts DEF Avail
<1>2. CASE msn < FirstSeg(s).msn
  BY <1>1, <1>2
<1>3. CASE get_part(s, msn, psn) # {}
  <2>1. find(s, msn) # {}
    BY <1>3 DEF get_part
  <2>2. msn \in Int
    OBVIOUS
  <2>3. msn < s.next_msn
    BY <2>1, <2>2, FoundFacts
  <2>4. s.next_msn \in Nat
    BY DEF Storages
  <2> QED
    BY <1>1, <2>2, <2>3, <2>4
<1> QED
  BY <1>2, <1>3 DEF Avail

\* The part appended is the one that was hinted, and it can be fetched.
LEMMA HintArrives ==
    ASSUME NEW s \in Storages, Consistent(s), Agrees(s),
           NEW part \in Part, NEW close_segment \in BOOLEAN,
           NEW msn, NEW psn, <<msn, psn>> \in s.playlist.hint
    PROVE  Avail(append_part(s, part, close_segment), msn, psn)
<1> DEFINE t == append_part(s, part, close_segment)
<1>1. s.segments # << >> /\ <<msn, psn>> = NextPart(s)
  BY HintAhead
<1>2. t \in Storages /\ Consistent(t) /\ Agrees(t) /\ t.segments # << >>
  BY AppendFacts
<1>3. <<t.latest_msn, t.latest_psn>> = NextPart(s)
  BY <1>1, AppendName
<1> HIDE DEF t
<1>4. t.latest_msn = msn /\ t.latest_psn = psn
  BY <1>1, <1>3
<1>5. get_part(t, t.latest_msn, t.latest_psn) # {}
  BY <1>2, ServedFacts
<1>6. Avail(t, msn, psn)
  BY <1>2, <1>4, <1>5 DEF Avail
<1> QED
  BY <1>6 DEF t

\* A playlist fetched once the newest part is the one asked for, or later, names it.
LEMMA FreshPlaylist ==
    ASSUME NEW s \in Storages, Consistent(s), Agrees(s), NEW msn \in Int, NEW psn \in Int,
           Reach(s, msn, psn), NEW q \in get_playlist(s)
    PROVE  Covers(q, msn, psn)
<1>1. q = s.playlist
  BY DEF get_playlist
<1>2. <<s.latest_msn, s.latest_psn>> \in s.playlist.parts
  BY ServedFacts DEF Reach
<1> QED
  BY <1>1, <1>2 DEF Covers, Reach

\* get_part() returns what was published under the name.
LEMMA PublishedPart ==
    ASSUME WindowInv, NEW msn \in Nat, NEW psn \in Nat, NEW p \in get_part(storage, msn, psn)
    PROVE  [msn |-> msn, psn |-> psn, id |-> p.id] \in published
<1>1. storage \in Storages /\ Consistent(storage)
  BY StorageType
<1>2. PICK i \in find(storage, msn) : /\ psn < Len(storage.segments[i].parts)
                                      /\ p = storage.segments[i].parts[psn + 1]
  BY DEF get_part
<1>3. i \in DOMAIN storage.segments /\ storage.segments[i].msn = msn
  BY <1>1, <1>2, FoundFacts
<1>4. storage.segments[i].parts \in Seq(Part)
  BY <1>1, <1>3, MsnOf
<1> DEFINE j == psn + 1
<1>5. j \in DOMAIN storage.segments[i].parts /\ j - 1 = psn
  BY <1>2, <1>4
<1>6. p = storage.segments[i].parts[j]
  BY <1>2
<1> HIDE DEF j
<1>7. [msn |-> storage.segments[i].msn, psn |-> j - 1,
       id |-> storage.segments[i].parts[j].id] \in published
  BY <1>3, <1>5 DEF WindowInv, PartsForever
<1> QED
  BY <1>3, <1>5, <1>6, <1>7

-----------------------------------------------------------------------------
\* Only the writer writes.
LEMMA StepsWrite == [Next]_vars => [Write]_wvars
<1> SUFFICES ASSUME [Next]_vars PROVE [Write]_wvars
  OBVIOUS
<1>1. CASE WriteStep
  BY <1>1 DEF WriteStep
<1>2. ASSUME NEW c \in Clients, NEW r \in Requests, Request(c, r)
      PROVE  UNCHANGED wvars
  BY <1>2 DEF Request
<1>3. ASSUME NEW c \in Clients, Serve(c) \/ Done(c) \/ Interrupt(c)
      PROVE  UNCHANGED wvars
  BY <1>3 DEF Serve, LookupHit, LookupMiss, TooFarAhead, BeginHold, HoldReached, HoldSlice,
              HoldActive, HoldTimeout, Get, Done, Interrupt
<1>4. CASE UNCHANGED vars
  BY <1>4 DEF vars
<1> QED
  BY <1>1, <1>2, <1>3, <1>4 DEF Next

\* The system with its readers is a storage and its writer, so that whatever is
\* proved of WindowSpec holds while clients read: every call of a reader takes the
\* mutex, looks and leaves the storage alone (get_playlist, get_part, get_segment,
\* get_init, wait_for and active of srs_app_llhls.cpp).
THEOREM ServesWindow == Spec => WindowSpec
<1>1. Init => WindowInit
  BY DEF Init
<1> QED
  BY <1>1, StepsWrite, PTL DEF Spec, WindowSpec

\* The invariant holds of a server nobody has asked anything.
LEMMA ServeInvInit == Init => ServeInv
<1> SUFFICES ASSUME Init PROVE ServeInv
  OBVIOUS
<1>1. WindowInv
  BY InvInit DEF Init
<1>2. Filled
  BY DEF Init, WindowInit, NewStorage, Filled
<1>5. HintLive
  BY DEF Init, WindowInit, NewStorage, NoPlaylist, HintLive
<1>3. ServeType
  BY DEF Init, ServeType, Labels
<1>4. ASSUME NEW c \in Clients
      PROVE  ClientInv(c)
  BY DEF Init, ClientInv, Control, HeldRightly, HintWaits, Answers, NoAnswer
<1> QED
  BY <1>1, <1>2, <1>3, <1>4, <1>5 DEF ServeInv

\* The requests in short.
LEMMA RequestFacts ==
    ASSUME NEW r \in Requests
    PROVE  /\ r # NoRequest
           /\ r.msn \in Nat \cup {-1} /\ r.psn \in Nat \cup {-1}
           /\ r.kind \in {"playlist", "part", "segment", "init"}
           /\ r.kind = "part" => r.msn \in Nat /\ r.psn \in Nat
<1>1. NoRequest.kind = "none" /\ (\A x \in AskedMsn : x \in Nat) /\ (\A x \in AskedPsn : x \in Nat)
  BY LlHlsServeAssumption DEF NoRequest
<1>2. CASE r \in [kind : {"playlist"}, msn : AskedMsn, psn : AskedPsn \cup {-1}]
  <2>1. r.kind = "playlist" /\ r.msn \in AskedMsn /\ (r.psn \in AskedPsn \/ r.psn = -1)
    BY <1>2
  <2> QED
    BY <1>1, <2>1
<1>3. CASE r \in [kind : {"playlist"}, msn : {-1}, psn : {-1}]
  BY <1>1, <1>3
<1>4. CASE r \in [kind : {"part"}, msn : AskedMsn, psn : AskedPsn]
  <2>1. r.kind = "part" /\ r.msn \in AskedMsn /\ r.psn \in AskedPsn
    BY <1>4
  <2> QED
    BY <1>1, <2>1
<1>5. CASE r \in [kind : {"segment"}, msn : AskedMsn, psn : {-1}]
  <2>1. r.kind = "segment" /\ r.msn \in AskedMsn /\ r.psn = -1
    BY <1>5
  <2> QED
    BY <1>1, <2>1
<1>6. CASE r \in [kind : {"init"}, msn : {-1}, psn : {-1}]
  BY <1>1, <1>6
<1> QED
  BY <1>2, <1>3, <1>4, <1>5, <1>6 DEF Requests

\* The storage of the invariant.
LEMMA ServedStorage ==
    ASSUME ServeInv
    PROVE  /\ WindowInv
           /\ storage \in Storages /\ Consistent(storage) /\ Agrees(storage)
BY StorageType DEF ServeInv

\* A step of one thread leaves the others where they are.
LEMMA OtherThread ==
    ASSUME ServeInv, NEW d \in Clients, UNCHANGED wvars,
           pc'[d] = pc[d], req'[d] = req[d], held'[d] = held[d],
           answer'[d] = answer[d], hinted'[d] = hinted[d], stopped'[d] = stopped[d]
    PROVE  ClientInv(d)'
<1>1. ClientInv(d)
  BY DEF ServeInv
<1>2. storage' = storage /\ published' = published
  BY DEF wvars
<1> QED
  BY <1>1, <1>2 DEF ClientInv, Control, HeldRightly, HintWaits, Answers

\* So it is enough to look at the thread that made the step.
LEMMA ThreadStep ==
    ASSUME ServeInv, NEW c \in Clients, UNCHANGED wvars, ServeType', ClientInv(c)',
           \A d \in Clients \ {c} :
              /\ pc'[d] = pc[d] /\ req'[d] = req[d] /\ held'[d] = held[d]
              /\ answer'[d] = answer[d] /\ hinted'[d] = hinted[d] /\ stopped'[d] = stopped[d]
    PROVE  ServeInv'
<1>1. WindowInv'
  BY InvNext DEF ServeInv
<1>2. Filled' /\ HintLive'
  BY DEF ServeInv, Filled, HintLive, wvars
<1>3. ASSUME NEW d \in Clients
      PROVE  ClientInv(d)'
  BY OtherThread
<1> QED
  BY <1>1, <1>2, <1>3 DEF ServeInv

\* A thread reads a request.
LEMMA RequestKeeps ==
    ASSUME ServeInv, NEW c \in Clients, NEW r \in Requests, Request(c, r)
    PROVE  ServeInv'
<1>1. ServeType /\ ClientInv(c)
  BY DEF ServeInv
<1>2. /\ UNCHANGED wvars /\ answer' = answer
      /\ pc'[c] \in {"ahead", "lookup", "get"} /\ req'[c] = r /\ held'[c] = "no"
      /\ ~ stopped'[c]
      /\ hinted'[c] => r.kind = "part" /\ <<r.msn, r.psn>> \in storage.playlist.hint
      /\ pc'[c] = "lookup" <=> r.kind = "part"
  BY <1>1 DEF Request, Goto, ServeType
<1>3. ServeType'
  BY <1>1 DEF Request, Goto, ServeType, Labels
<1>4. answer[c] = NoAnswer
  BY <1>1 DEF Request, ClientInv, Control
<1>5. hinted'[c] => storage.active
  BY <1>2 DEF ServeInv, HintLive
<1>6. ClientInv(c)'
  BY <1>2, <1>4, <1>5 DEF ClientInv, Control, HeldRightly, HintWaits, Answers, wvars, NoAnswer
<1>7. \A d \in Clients \ {c} :
         /\ pc'[d] = pc[d] /\ req'[d] = req[d] /\ held'[d] = held[d]
         /\ answer'[d] = answer[d] /\ hinted'[d] = hinted[d] /\ stopped'[d] = stopped[d]
  BY <1>1 DEF Request, Goto, ServeType
<1> QED
  BY <1>2, <1>3, <1>6, <1>7, ThreadStep

\* What is known of a thread that serves a request.
LEMMA ThreadFacts ==
    ASSUME ServeInv, NEW c \in Clients, pc[c] # "idle"
    PROVE  /\ req[c] \in Requests
           /\ req[c].msn \in Int /\ req[c].psn \in Nat \cup {-1}
           /\ req[c].kind \in {"playlist", "part", "segment", "init"}
           /\ req[c].kind = "part" => req[c].msn \in Nat /\ req[c].psn \in Nat
           /\ hinted[c] => req[c].kind = "part"
<1>1. req[c] \in Requests /\ (hinted[c] => req[c].kind = "part")
  BY DEF ServeInv, ClientInv, Control
<1> QED
  BY <1>1, RequestFacts

\* A part that is there answers the request.
LEMMA LookupHitKeeps ==
    ASSUME ServeInv, NEW c \in Clients, LookupHit(c)
    PROVE  ClientInv(c)'
<1>1. ServeType /\ ClientInv(c) /\ pc[c] = "lookup"
  BY DEF ServeInv, LookupHit
<1> DEFINE found == get_part(storage, req[c].msn, req[c].psn)
<1>2. /\ UNCHANGED <<wvars, req, held, hinted, stopped>>
      /\ pc'[c] = "answered" /\ answer'[c] = [status |-> 200, body |-> found]
  BY <1>1 DEF LookupHit, Reply, Goto, ServeType
<1>3. req[c].kind = "part" /\ held[c] = "no"
  BY <1>1 DEF ClientInv, Control
<1>4. req[c].msn \in Nat /\ req[c].psn \in Nat
  BY <1>1, <1>3, ThreadFacts
<1>5. \A p \in found : [msn |-> req[c].msn, psn |-> req[c].psn, id |-> p.id] \in published
  BY <1>4, ServedStorage, PublishedPart
<1> HIDE DEF found
<1>6. answer'[c].status = 200 /\ answer'[c].body = found
  BY <1>2
<1>7. Answers(c)'
  BY <1>2, <1>3, <1>5, <1>6 DEF Answers, wvars
<1> QED
  BY <1>1, <1>2, <1>3, <1>7 DEF ClientInv, Control, HeldRightly, HintWaits

\* A part that is not there is waited for.
LEMMA LookupMissKeeps ==
    ASSUME ServeInv, NEW c \in Clients, LookupMiss(c) \/ BeginHold(c) \/ HoldSlice(c)
    PROVE  ClientInv(c)'
<1>1. ServeType /\ ClientInv(c) /\ pc[c] \in {"lookup", "ahead", "hold"}
  BY DEF ServeInv, LookupMiss, BeginHold, HoldSlice
<1>2. /\ UNCHANGED <<wvars, req, held, answer, hinted, stopped>>
      /\ pc'[c] \in {"ahead", "hold", "active"}
  BY <1>1 DEF LookupMiss, BeginHold, HoldSlice, Goto, ServeType
<1>3. answer[c] = NoAnswer
  BY <1>1 DEF ClientInv, Control
<1> QED
  BY <1>1, <1>2, <1>3
     DEF ClientInv, Control, HeldRightly, HintWaits, Answers, NoAnswer, wvars

\* What was hinted is never refused as too far ahead.
LEMMA TooFarAheadKeeps ==
    ASSUME ServeInv, NEW c \in Clients, TooFarAhead(c)
    PROVE  ClientInv(c)'
<1>1. ServeType /\ ClientInv(c) /\ pc[c] = "ahead"
  BY DEF ServeInv, TooFarAhead
<1> DEFINE status == IF req[c].kind = "playlist" THEN 400 ELSE 404
<1>2. /\ UNCHANGED <<wvars, req, held, hinted, stopped>>
      /\ pc'[c] = "answered" /\ answer'[c] = [status |-> status, body |-> {}]
      /\ req[c].msn > storage.latest_msn + SRS_HTTP_MSN_AHEAD_MAX
  BY <1>1 DEF TooFarAhead, Reply, Goto, ServeType
<1>3. answer'[c].status # 200 /\ held[c] = "no"
  BY <1>1, <1>2 DEF ClientInv, Control
<1>4. hinted[c] => stopped[c]
  <2> SUFFICES ASSUME hinted[c], ~ stopped[c] PROVE FALSE
    OBVIOUS
  <2>1. storage \in Storages /\ Consistent(storage) /\ Agrees(storage)
    BY ServedStorage
  <2>2. \/ <<req[c].msn, req[c].psn>> \in storage.playlist.hint
        \/ Avail(storage, req[c].msn, req[c].psn)
    BY <1>1 DEF ClientInv, HintWaits
  <2>3. req[c].msn \in Nat /\ req[c].psn \in Nat
    BY <1>1, ThreadFacts
  <2>4. req[c].msn <= storage.latest_msn + 1
    <3>1. storage.latest_msn \in Int
      BY <2>1 DEF Storages
    <3>2. CASE <<req[c].msn, req[c].psn>> \in storage.playlist.hint
      BY <2>1, <3>2, HintAhead
    <3>3. CASE Avail(storage, req[c].msn, req[c].psn)
      <4>1. req[c].msn <= storage.latest_msn
        BY <2>1, <2>3, <3>3, AvailNear
      <4> QED
        BY <2>3, <3>1, <4>1
    <3> QED
      BY <2>2, <3>2, <3>3
  <2> QED
    BY <1>2, <2>1, <2>3, <2>4, LlHlsServeAssumption DEF Storages
<1>5. Answers(c)'
  BY <1>2, <1>3, <1>4 DEF Answers
<1> QED
  BY <1>1, <1>2, <1>3, <1>5 DEF ClientInv, Control, HeldRightly, HintWaits

\* A hold ends because there is nothing left to wait for.
LEMMA HoldReachedKeeps ==
    ASSUME ServeInv, NEW c \in Clients, HoldReached(c)
    PROVE  ClientInv(c)'
<1>1. ServeType /\ ClientInv(c) /\ pc[c] = "hold" /\ answer[c] = NoAnswer
  BY DEF ServeInv, HoldReached, ClientInv, Control
<1>2. /\ UNCHANGED <<wvars, req, answer, hinted, stopped>>
      /\ pc'[c] = "get" /\ held'[c] = "reached"
      /\ reached(storage, req[c].msn, req[c].psn)
  BY <1>1 DEF HoldReached, Goto, ServeType
<1>3. storage \in Storages /\ Consistent(storage) /\ Agrees(storage)
  BY ServedStorage
<1>4. storage.segments # << >>
  BY <1>2 DEF reached, ServeInv, Filled
<1>5. req[c].msn \in Int /\ req[c].psn \in Nat \cup {-1}
  BY <1>1, ThreadFacts
<1>6. Reach(storage, req[c].msn, req[c].psn)
  BY <1>2, <1>3, <1>4, <1>5, ReachedFacts
<1>7. hinted[c] /\ ~ stopped[c] => Avail(storage, req[c].msn, req[c].psn)
  BY <1>1, <1>2, <1>3, HintAhead DEF ClientInv, HintWaits
<1> QED
  BY <1>1, <1>2, <1>6, <1>7
     DEF ClientInv, Control, HeldRightly, HintWaits, Answers, NoAnswer, wvars

\* A stream that stopped ends the hold, and the history knows that it stopped.
LEMMA HoldActiveKeeps ==
    ASSUME ServeInv, NEW c \in Clients, HoldActive(c) \/ HoldTimeout(c)
    PROVE  ClientInv(c)'
<1>1. /\ ServeType /\ ClientInv(c) /\ pc[c] \in {"hold", "active"}
      /\ answer[c] = NoAnswer /\ held[c] = "no"
  BY DEF ServeInv, HoldActive, HoldTimeout, ClientInv, Control
<1>2. /\ UNCHANGED <<wvars, req, answer, hinted, stopped>>
      /\ \/ storage.active /\ pc'[c] = "hold" /\ held'[c] = held[c]
         \/ ~ storage.active /\ pc'[c] = "get" /\ held'[c] = "stopped"
         \/ pc'[c] = "get" /\ held'[c] = "timeout"
  BY <1>1 DEF HoldActive, HoldTimeout, Goto, ServeType
<1> QED
  BY <1>1, <1>2 DEF ClientInv, Control, HeldRightly, HintWaits, Answers, NoAnswer, wvars

\* The last call of the storage answers the request.
LEMMA GetKeeps ==
    ASSUME ServeInv, NEW c \in Clients, Get(c)
    PROVE  ClientInv(c)'
<1>1. ServeType /\ ClientInv(c) /\ pc[c] = "get"
  BY DEF ServeInv, Get
<1> DEFINE body == Fetched(req[c])
           status == IF body = {} THEN 404 ELSE 200
<1>2. /\ UNCHANGED <<wvars, req, held, hinted, stopped>>
      /\ pc'[c] = "answered" /\ answer'[c] = [status |-> status, body |-> body]
  BY <1>1 DEF Get, Reply, Goto, ServeType
<1>3. /\ req[c].msn \in Int /\ req[c].psn \in Nat \cup {-1}
      /\ req[c].kind = "part" => req[c].msn \in Nat /\ req[c].psn \in Nat
      /\ hinted[c] => req[c].kind = "part"
  BY <1>1, ThreadFacts
<1>4. storage \in Storages /\ Consistent(storage) /\ Agrees(storage) /\ WindowInv
  BY ServedStorage
<1>5. /\ req[c].kind = "playlist" => body = get_playlist(storage)
      /\ req[c].kind = "part" => body = get_part(storage, req[c].msn, req[c].psn)
  BY DEF Fetched
<1>6. ASSUME req[c].kind = "playlist", held[c] = "reached"
      PROVE  \A q \in body : Covers(q, req[c].msn, req[c].psn)
  <2>1. Reach(storage, req[c].msn, req[c].psn)
    BY <1>1, <1>6 DEF ClientInv, HeldRightly
  <2> QED
    BY <1>3, <1>4, <1>5, <1>6, <2>1, FreshPlaylist
<1>7. ASSUME req[c].kind = "part"
      PROVE  \A p \in body : [msn |-> req[c].msn, psn |-> req[c].psn, id |-> p.id] \in published
  BY <1>3, <1>4, <1>5, <1>7, PublishedPart
<1>8. ASSUME hinted[c], body = {}
      PROVE  \/ stopped[c] \/ held[c] = "timeout"
             \/ storage.segments # << >> /\ req[c].msn < FirstSeg(storage).msn
  <2>1. req[c].kind = "part"
    BY <1>3, <1>8
  <2>2. held[c] \in {"reached", "stopped", "timeout"}
    BY <1>1, <2>1 DEF ClientInv, Control, ServeType
  <2>3. stopped[c] \/ held[c] = "timeout" \/ Avail(storage, req[c].msn, req[c].psn)
    BY <1>1, <1>8, <2>2 DEF ClientInv, HintWaits
  <2> QED
    BY <1>5, <1>8, <2>1, <2>3 DEF Avail
<1> HIDE DEF body
<1>9. /\ answer'[c].status = 200 => body # {}
      /\ answer'[c].status = 404 => body = {}
      /\ answer'[c].body = body
  BY <1>2
<1>10. Answers(c)'
  BY <1>2, <1>6, <1>7, <1>8, <1>9 DEF Answers, wvars
<1> QED
  BY <1>1, <1>2, <1>10 DEF ClientInv, Control, HeldRightly, HintWaits

\* The answer is sent, or given up.
LEMMA DoneKeeps ==
    ASSUME ServeInv, NEW c \in Clients, Done(c) \/ Interrupt(c)
    PROVE  ClientInv(c)'
<1>1. ServeType /\ ClientInv(c) /\ pc[c] \in {"answered", "hold"}
  BY DEF ServeInv, Done, Interrupt
<1>2. CASE Done(c)
  <2>1. /\ UNCHANGED wvars
        /\ pc'[c] = "idle" /\ req'[c] = NoRequest /\ held'[c] = "no"
        /\ answer'[c] = NoAnswer /\ ~ hinted'[c]
    BY <1>1, <1>2 DEF Done, Goto, ServeType
  <2> QED
    BY <2>1 DEF ClientInv, Control, HeldRightly, HintWaits, Answers, NoAnswer
<1>3. CASE Interrupt(c)
  <2>1. /\ UNCHANGED <<wvars, req, held, hinted, stopped>>
        /\ pc'[c] = "answered" /\ answer'[c] = [status |-> 0, body |-> {}]
        /\ pc[c] = "hold"
    BY <1>1, <1>3 DEF Interrupt, Reply, Goto, ServeType
  <2>2. answer'[c].status = 0
    BY <2>1
  <2> QED
    BY <1>1, <2>1, <2>2 DEF ClientInv, Control, HeldRightly, HintWaits, Answers
<1> QED
  BY <1>2, <1>3

\* Every call of a reader keeps the invariant.
LEMMA ReaderKeeps ==
    ASSUME ServeInv, NEW c \in Clients, Serve(c) \/ Done(c) \/ Interrupt(c)
    PROVE  ServeInv'
<1>1. ServeType /\ storage \in Storages
  BY ServedStorage DEF ServeInv
<1>2. ClientInv(c)'
  BY LookupHitKeeps, LookupMissKeeps, TooFarAheadKeeps, HoldReachedKeeps, HoldActiveKeeps,
     GetKeeps, DoneKeeps DEF Serve
<1>3. CASE LookupHit(c) \/ TooFarAhead(c) \/ Get(c) \/ Interrupt(c)
  <2>1. PICK a : /\ UNCHANGED <<wvars, req, slices, held, hinted, stopped>>
                 /\ pc' = [pc EXCEPT ![c] = "answered"]
                 /\ answer' = [answer EXCEPT ![c] = a]
    BY <1>3 DEF LookupHit, TooFarAhead, Get, Interrupt, Reply, Goto
  <2>2. ServeType'
    BY <1>1, <2>1 DEF ServeType, Labels
  <2> QED
    BY <1>1, <1>2, <2>1, <2>2, ThreadStep DEF ServeType
<1>4. CASE LookupMiss(c) \/ BeginHold(c) \/ HoldSlice(c)
  <2>1. PICK l \in Labels, n \in Nat :
           /\ UNCHANGED <<wvars, req, held, answer, hinted, stopped>>
           /\ pc' = [pc EXCEPT ![c] = l]
           /\ slices' = [slices EXCEPT ![c] = n]
    <3>1. slices = [slices EXCEPT ![c] = slices[c]] /\ slices[c] \in Nat /\ slices[c] + 1 \in Nat
      BY <1>1 DEF ServeType
    <3> QED
      BY <1>4, <3>1 DEF LookupMiss, BeginHold, HoldSlice, Goto, Labels
  <2>2. ServeType'
    BY <1>1, <2>1 DEF ServeType
  <2> QED
    BY <1>1, <1>2, <2>1, <2>2, ThreadStep DEF ServeType
<1>5. CASE HoldReached(c) \/ HoldActive(c) \/ HoldTimeout(c)
  <2>1. PICK l \in Labels, h \in {"no", "reached", "stopped", "timeout"} :
           /\ UNCHANGED <<wvars, req, slices, answer, hinted, stopped>>
           /\ pc' = [pc EXCEPT ![c] = l]
           /\ held' = [held EXCEPT ![c] = h]
    BY <1>1, <1>5 DEF HoldReached, HoldActive, HoldTimeout, Goto, Labels, ServeType
  <2>2. ServeType'
    BY <1>1, <2>1 DEF ServeType
  <2> QED
    BY <1>1, <1>2, <2>1, <2>2, ThreadStep DEF ServeType
<1>6. CASE Done(c)
  <2>1. ServeType'
    BY <1>1, <1>6 DEF Done, Goto, ServeType, Labels
  <2> QED
    BY <1>1, <1>2, <1>6, <2>1, ThreadStep DEF Done, Goto, ServeType
<1> QED
  BY <1>3, <1>4, <1>5, <1>6 DEF Serve

-----------------------------------------------------------------------------
\* As long as the stream goes on, what was hinted stays hinted until it is there.
LEMMA HintMoves ==
    ASSUME WindowInv, Write, storage.active, storage'.active,
           NEW msn \in Nat, NEW psn \in Nat,
           <<msn, psn>> \in storage.playlist.hint \/ Avail(storage, msn, psn)
    PROVE  <<msn, psn>> \in storage'.playlist.hint \/ Avail(storage', msn, psn)
<1>1. storage \in Storages /\ Consistent(storage) /\ Agrees(storage)
  BY StorageType
<1>2. storage' \in Storages /\ Consistent(storage') /\ Advanced(storage, storage')
  BY WrittenStorage
<1>3. CASE Avail(storage, msn, psn)
  BY <1>1, <1>2, <1>3, AvailKept
<1>4. CASE <<msn, psn>> \in storage.playlist.hint
  <2>1. CASE Publish
    BY <2>1 DEF Publish
  <2>2. ASSUME NEW config \in Configs, SetInit(config)
        PROVE  storage'.playlist = storage.playlist
    BY <1>1, <2>2 DEF SetInit, set_init, Storages
  <2>3. ASSUME NEW d \in Durations, NEW close_segment \in BOOLEAN, AppendPart(d, close_segment)
        PROVE  Avail(storage', msn, psn)
    <3> DEFINE part == [id |-> nparts + 1, duration |-> d]
    <3>1. part \in Part
      BY LlHlsWindowAssumption DEF WindowInv, WindowType, Part
    <3>2. storage' = append_part(storage, part, close_segment)
      BY <2>3 DEF AppendPart
    <3> HIDE DEF part
    <3> QED
      BY <1>1, <1>4, <3>1, <3>2, HintArrives
  <2>4. CASE Unpublish
    <3>1. storage' = on_unpublish(storage)
      BY <2>4 DEF Unpublish
    <3>2. ~ storage'.active
      BY <3>1, UnpublishStops, <1>1
    <3> QED
      BY <3>2
  <2> QED
    BY <1>4, <2>1, <2>2, <2>3, <2>4 DEF Write
<1> QED
  BY <1>3, <1>4

\* Every call of the writer keeps what the threads rely on.
LEMMA WriterKeeps ==
    ASSUME ServeInv, WriteStep
    PROVE  ServeInv'
<1>1. /\ storage \in Storages /\ Consistent(storage) /\ Agrees(storage)
      /\ WindowInv /\ Filled /\ HintLive /\ ServeType
  BY ServedStorage DEF ServeInv
<1>2. Write /\ UNCHANGED <<pc, req, slices, held, answer, hinted>>
  BY DEF WriteStep
<1>3. /\ WindowInv'
      /\ storage' \in Storages /\ Consistent(storage') /\ Agrees(storage')
      /\ Advanced(storage, storage')
      /\ published \subseteq published'
  BY <1>1, <1>2, WrittenStorage
<1>4. Filled'
  <2>1. CASE storage'.segments # << >>
    <3>1. storage'.latest_msn \in Nat
      BY <1>3, <2>1, LatestFacts
    <3> QED
      BY <2>1, <3>1 DEF Filled
  <2>2. CASE storage'.segments = << >>
    <3>1. storage.segments = << >> /\ storage'.latest_msn = storage.latest_msn
      BY <1>3, <2>2 DEF Advanced
    <3> QED
      BY <1>1, <2>2, <3>1 DEF Filled
  <2> QED
    BY <2>1, <2>2
<1>5. HintLive'
  <2>1. CASE Publish
    BY <1>1, <2>1 DEF Publish, on_publish, HintLive, Storages
  <2>2. ASSUME NEW config \in Configs, SetInit(config)
        PROVE  HintLive'
    BY <1>1, <2>2 DEF SetInit, set_init, HintLive, Storages
  <2>3. ASSUME NEW d \in Durations, NEW close_segment \in BOOLEAN, AppendPart(d, close_segment)
        PROVE  HintLive'
    <3> DEFINE part == [id |-> nparts + 1, duration |-> d]
    <3>1. part \in Part
      BY <1>1, LlHlsWindowAssumption DEF WindowInv, WindowType, Part
    <3>2. storage' = append_part(storage, part, close_segment) /\ storage.active
      BY <2>3 DEF AppendPart
    <3> HIDE DEF part
    <3>3. storage'.active = storage.active
      BY <1>1, <3>1, <3>2, AppendFacts
    <3> QED
      BY <3>2, <3>3 DEF HintLive
  <2>4. CASE Unpublish
    BY <1>1, <2>4, UnpublishStops DEF Unpublish, HintLive
  <2> QED
    BY <1>2, <2>1, <2>2, <2>3, <2>4 DEF Write
<1>6. ServeType'
  <2>1. stopped' \in [Clients -> BOOLEAN]
    BY <1>1 DEF WriteStep, ServeType
  <2> QED
    BY <1>1, <1>2, <2>1 DEF ServeType
<1>7. ASSUME NEW c \in Clients
      PROVE  ClientInv(c)'
  <2>1. /\ ClientInv(c)
        /\ pc'[c] = pc[c] /\ req'[c] = req[c] /\ held'[c] = held[c]
        /\ answer'[c] = answer[c] /\ hinted'[c] = hinted[c]
        /\ stopped'[c] = (stopped[c] \/ (req[c] # NoRequest /\ storage.active /\ ~storage'.active))
    BY <1>2, <1>7 DEF ServeInv, WriteStep
  <2>2. Control(c)'
    BY <2>1 DEF ClientInv, Control
  <2>3. CASE pc[c] = "idle"
    <3>1. ~ hinted[c] /\ answer[c] = NoAnswer
      BY <2>1, <2>3 DEF ClientInv, Control
    <3> QED
      BY <2>1, <2>2, <2>3, <3>1
         DEF ClientInv, HeldRightly, HintWaits, Answers, NoAnswer
  <2>4. CASE pc[c] # "idle"
    <3>1. /\ req[c].msn \in Int /\ req[c].psn \in Int /\ req[c] # NoRequest
          /\ hinted[c] => req[c].msn \in Nat /\ req[c].psn \in Nat
      <4>1. /\ req[c] \in Requests
            /\ req[c].msn \in Int /\ req[c].psn \in Nat \cup {-1}
            /\ req[c].kind = "part" => req[c].msn \in Nat /\ req[c].psn \in Nat
            /\ hinted[c] => req[c].kind = "part"
        BY <2>4, ThreadFacts
      <4>2. req[c] # NoRequest
        BY <4>1, RequestFacts
      <4> QED
        BY <4>1, <4>2
    <3>2. HeldRightly(c)'
      BY <1>1, <1>3, <2>1, <3>1, ReachKept DEF ClientInv, HeldRightly
    <3>3. HintWaits(c)'
      <4> SUFFICES ASSUME hinted[c], ~ stopped'[c] PROVE HintWaits(c)'
        BY <2>1 DEF HintWaits
      <4>1. ~ stopped[c] /\ (storage.active => storage'.active)
        BY <2>1, <3>1
      <4>2. req[c].msn \in Nat /\ req[c].psn \in Nat
        BY <3>1
      <4>3. ASSUME pc[c] \in {"lookup", "ahead", "hold", "active"}
            PROVE  /\ storage'.active
                   /\ \/ <<req[c].msn, req[c].psn>> \in storage'.playlist.hint
                      \/ Avail(storage', req[c].msn, req[c].psn)
        <5>1. /\ storage.active
              /\ \/ <<req[c].msn, req[c].psn>> \in storage.playlist.hint
                 \/ Avail(storage, req[c].msn, req[c].psn)
          BY <2>1, <4>1, <4>3 DEF ClientInv, HintWaits
        <5> QED
          BY <1>1, <1>2, <4>1, <4>2, <5>1, HintMoves
      <4>4. held[c] # "stopped"
        BY <2>1, <4>1 DEF ClientInv, HintWaits
      <4>5. ASSUME pc[c] = "get", held[c] = "reached"
            PROVE  Avail(storage', req[c].msn, req[c].psn)
        <5>1. Avail(storage, req[c].msn, req[c].psn)
          BY <2>1, <4>1, <4>5 DEF ClientInv, HintWaits
        <5> QED
          BY <1>1, <1>3, <4>2, <5>1, AvailKept
      <4> QED
        BY <2>1, <4>3, <4>4, <4>5 DEF HintWaits
    <3>4. Answers(c)'
      <4>1. ASSUME storage.segments # << >>, req[c].msn < FirstSeg(storage).msn
            PROVE  storage'.segments # << >> /\ req[c].msn < FirstSeg(storage').msn
        <5>1. storage'.segments # << >> /\ FirstSeg(storage).msn <= FirstSeg(storage').msn
          BY <1>3, <4>1 DEF Advanced
        <5>2. FirstSeg(storage).msn \in Nat
          BY <1>1, <4>1, LatestFacts
        <5>3. FirstSeg(storage').msn \in Nat
          BY <1>3, <5>1, LatestFacts
        <5> QED
          BY <3>1, <4>1, <5>1, <5>2, <5>3
      <4>2. Answers(c)
        BY <2>1 DEF ClientInv
      <4>3. hinted'[c] /\ answer'[c].status = 404
              => \/ stopped'[c] \/ held'[c] = "timeout"
                 \/ storage'.segments # << >> /\ req'[c].msn < FirstSeg(storage').msn
        <5>1. hinted[c] /\ answer[c].status = 404
                => \/ stopped[c] \/ held[c] = "timeout"
                   \/ storage.segments # << >> /\ req[c].msn < FirstSeg(storage).msn
          BY ONLY <4>2, Zenon DEF Answers
        <5>2. hinted[c] /\ answer[c].status = 404
                => \/ stopped'[c] \/ held[c] = "timeout"
                   \/ storage'.segments # << >> /\ req[c].msn < FirstSeg(storage').msn
          <6>1. stopped[c] => stopped'[c]
            BY <2>1
          <6> QED
            BY ONLY <4>1, <5>1, <6>1, Zenon
        <5> QED
          BY ONLY <2>1, <5>2
      <4>4. published \subseteq published'
        BY <1>3
      <4>5. answer[c].status = 200 /\ req[c].kind = "playlist" /\ held[c] = "reached"
              => \A q \in answer[c].body : Covers(q, req[c].msn, req[c].psn)
        BY ONLY <4>2, Zenon DEF Answers
      <4>6. answer[c].status = 200 /\ req[c].kind = "part"
              => \A p \in answer[c].body :
                    [msn |-> req[c].msn, psn |-> req[c].psn, id |-> p.id] \in published'
        BY ONLY <4>2, <4>4 DEF Answers
      <4> QED
        <5>1. answer'[c].status = 200 /\ req'[c].kind = "playlist" /\ held'[c] = "reached"
                => \A q \in answer'[c].body : Covers(q, req'[c].msn, req'[c].psn)
          BY <2>1, <4>5
        <5>2. answer'[c].status = 200 /\ req'[c].kind = "part"
                => \A p \in answer'[c].body :
                      [msn |-> req'[c].msn, psn |-> req'[c].psn, id |-> p.id] \in published'
          BY <2>1, <4>6
        <5> QED
          BY <4>3, <5>1, <5>2 DEF Answers
    <3> QED
      BY <2>2, <3>2, <3>3, <3>4 DEF ClientInv
  <2> QED
    BY <2>3, <2>4
<1> QED
  BY <1>3, <1>4, <1>5, <1>6, <1>7 DEF ServeInv

\* The invariant is inductive.
LEMMA ServeInvNext == ServeInv /\ [Next]_vars => ServeInv'
<1> SUFFICES ASSUME ServeInv, [Next]_vars PROVE ServeInv'
  OBVIOUS
<1>1. CASE WriteStep
  BY <1>1, WriterKeeps
<1>2. ASSUME NEW c \in Clients, NEW r \in Requests, Request(c, r)
      PROVE  ServeInv'
  BY <1>2, RequestKeeps
<1>3. ASSUME NEW c \in Clients, Serve(c) \/ Done(c) \/ Interrupt(c)
      PROVE  ServeInv'
  BY <1>3, ReaderKeeps
<1>4. CASE UNCHANGED vars
  <2>1. UNCHANGED wvars /\ UNCHANGED cvars
    BY <1>4 DEF vars
  <2>2. ServeType'
    BY <2>1 DEF ServeInv, ServeType, cvars
  <2>3. \A c \in Clients : ClientInv(c)'
    BY <2>1, OtherThread DEF cvars
  <2>4. WindowInv'
    BY <2>1, InvNext DEF ServeInv
  <2> QED
    BY <2>1, <2>2, <2>3, <2>4 DEF ServeInv, Filled, HintLive, wvars
<1> QED
  BY <1>1, <1>2, <1>3, <1>4 DEF Next

\* ServeInv is an invariant of the storage with its writer and any number of readers,
\* for every number of 100ms slices a hold may last.
THEOREM ServeInvariant == Spec => []ServeInv
<1> QED
  BY ServeInvInit, ServeInvNext, PTL DEF Spec

\* A thread that found a part sends what was published under its name, however the
\* window moved between get_part, wait_for and the second get_part (serve_part).
THEOREM PartIsRight == Spec => []RightPart
<1>1. ServeInv => RightPart
  BY DEF ServeInv, ClientInv, Answers, RightPart
<1> QED
  BY <1>1, ServeInvariant, PTL

\* A blocking reload that wait_for() answered TRUE sends a playlist that names the
\* part asked for or a later one: the playlist is fetched by a second call, after the
\* mutex was released.
THEOREM ReloadIsFresh == Spec => []FreshReload
<1>1. ServeInv => FreshReload
  BY DEF ServeInv, ClientInv, Answers, FreshReload
<1> QED
  BY <1>1, ServeInvariant, PTL

\* A client that asks for the part it was hinted at gets it, unless the stream
\* stopped, the hold ran out, or the part expired before the thread looked again.
THEOREM HintIsServed == Spec => []HintServed
<1>1. ServeInv => HintServed
  BY DEF ServeInv, ClientInv, Answers, HintServed
<1> QED
  BY <1>1, ServeInvariant, PTL

\* What is proved of the storage alone holds while clients read it: everything listed
\* can be fetched, and names of parts and segments are for ever.
THEOREM ServedWhileRead ==
    Spec => [](WindowConsistent /\ PlaylistServes /\ PartsForever) /\ SegmentsForever /\ HintKept
BY ServesWindow, WindowIsConsistent, PlaylistIsServed, PartNamesForever,
   SegmentNamesForever, HintIsKept, PTL
=============================================================================
