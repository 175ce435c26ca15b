------------------------- MODULE RtmpChannelProofs -------------------------
(***************************************************************************)
(* Proofs about the chunk streams of a connection, for every chunk size,    *)
(* message, chunk type and interleaving: what do_send_messages or a peer    *)
(* writes is what recv_interlaced_message reads, so that both directions    *)
(* implement MessageChannel; the reader never fails; and all of InStep      *)
(* but NeverStalled.  A reader is where its writer was some chunks ago      *)
(* (Behind), and each chunk brings it one place further (BehindRead),       *)
(* unless payload is taken for a timestamp (Misled), which a writer that    *)
(* repeats every timestamp does not bring about (BehindRight).              *)
(***************************************************************************)
EXTENDS RtmpChannel, SequenceTheorems, WellFoundedInduction, TLAPS

\* A set of naturals that is not empty has a least element.
LEMMA NatMin ==
    ASSUME NEW T, T \subseteq Nat, T # {}
    PROVE  \E x \in T : \A y \in T : x <= y
<1> DEFINE R == {ss \in Nat \X Nat : ss[1] < ss[2]}
<1>1. IsWellFoundedOn(R, Nat)
  BY NatLessThanWellFounded, Zenon DEF OpToRel
<1>2. \A x, y \in Nat : <<y, x>> \in R <=> y < x
  OBVIOUS
<1> HIDE DEF R
<1>3. PICK x \in T : \A y \in T : ~ (<<y, x>> \in R)
  BY <1>1, WFMin
<1>4. \A y \in T : ~ (y < x)
  BY <1>2, <1>3
<1> QED
  BY <1>3, <1>4

-----------------------------------------------------------------------------
(* What FlattenSeq does to a longer sequence of sequences.                    *)

FlatStep(e, f, n) == IF n = 1 THEN e[n] ELSE f[n - 1] \o e[n]

\* The recursive function that FlattenSeq chooses exists.
LEMMA FlatExists ==
    ASSUME NEW e, NEW l \in Nat
    PROVE  \E f : f = [n \in 1 .. l |-> FlatStep(e, f, n)]
<1> DEFINE Def(k) == \E f : f = [n \in 1 .. k |-> FlatStep(e, f, n)]
           T == {k \in Nat : ~ Def(k)}
<1>1. Def(0)
  <2> DEFINE f == [n \in 1 .. 0 |-> << >>]
  <2>1. f = [n \in 1 .. 0 |-> FlatStep(e, f, n)]
    OBVIOUS
  <2> QED
    BY <2>1
<1>2. ASSUME NEW k \in Nat, Def(k)
      PROVE  Def(k + 1)
  <2>1. PICK g : g = [n \in 1 .. k |-> FlatStep(e, g, n)]
    BY <1>2
  <2> DEFINE f == [n \in 1 .. k + 1 |-> IF n = k + 1 THEN FlatStep(e, g, n) ELSE g[n]]
  <2>2. \A n \in 1 .. k : f[n] = g[n] /\ g[n] = FlatStep(e, g, n)
    <3>1. \A n \in 1 .. k : n \in 1 .. k + 1 /\ n # k + 1
      OBVIOUS
    <3> QED
      BY <2>1, <3>1
  <2>3. f[k + 1] = FlatStep(e, g, k + 1)
    OBVIOUS
  <2>4. ASSUME NEW n \in 1 .. k + 1
        PROVE  f[n] = FlatStep(e, f, n)
    <3>1. n # 1 => n - 1 \in 1 .. k
      OBVIOUS
    <3>2. n # 1 => f[n - 1] = g[n - 1]
      BY <2>2, <3>1
    <3> HIDE DEF f
    <3>3. FlatStep(e, f, n) = FlatStep(e, g, n)
      BY <3>2 DEF FlatStep
    <3>4. n = k + 1 \/ n \in 1 .. k
      OBVIOUS
    <3> QED
      BY <2>2, <2>3, <3>3, <3>4
  <2>5. DOMAIN f = 1 .. k + 1 /\ f = [n \in DOMAIN f |-> f[n]]
    OBVIOUS
  <2> HIDE DEF f
  <2>6. f = [n \in 1 .. k + 1 |-> FlatStep(e, f, n)]
    BY <2>4, <2>5
  <2> QED
    BY <2>6
<1> HIDE DEF Def
<1>3. T = {}
  <2> SUFFICES ASSUME T # {} PROVE FALSE
    OBVIOUS
  <2>1. PICK k \in T : \A y \in T : k <= y
    BY NatMin
  <2>2. k \in Nat /\ k # 0 /\ ~ Def(k)
    BY <1>1
  <2>3. k - 1 \in Nat /\ k - 1 \notin T /\ (k - 1) + 1 = k
    BY <2>1, <2>2
  <2> QED
    BY <1>2, <2>2, <2>3
<1>4. Def(l)
  BY <1>3
<1> QED
  BY <1>4 DEF Def

\* FlattenSeq by the equation of that function.
LEMMA FlatUnfold ==
    ASSUME NEW e, Len(e) \in Nat \ {0}
    PROVE  \E f : /\ FlattenSeq(e) = f[Len(e)]
                  /\ f = [n \in 1 .. Len(e) |-> FlatStep(e, f, n)]
<1> DEFINE f == CHOOSE f : f = [n \in 1 .. Len(e) |-> FlatStep(e, f, n)]
<1>1. FlattenSeq(e) = f[Len(e)]
  BY SMT DEF FlattenSeq, FlatStep
<1>2. f = [n \in 1 .. Len(e) |-> FlatStep(e, f, n)]
  BY FlatExists, Zenon
<1> QED
  BY <1>1, <1>2

\* Nothing flattened is nothing.
LEMMA FlatEmpty == FlattenSeq(<< >>) = << >>
<1>1. Len(<< >>) = 0
  OBVIOUS
<1> QED
  BY <1>1 DEF FlattenSeq

\* One more sequence comes last.
LEMMA FlatAppend ==
    ASSUME NEW S, NEW e \in Seq(Seq(S)), NEW x \in Seq(S)
    PROVE  FlattenSeq(Append(e, x)) = FlattenSeq(e) \o x
<1> DEFINE more == Append(e, x)
<1> PICK l \in Nat : l = Len(e) /\ DOMAIN e = 1 .. l
  OBVIOUS
<1>1. /\ Len(more) = l + 1 /\ more[l + 1] = x
      /\ \A i \in 1 .. l : more[i] = e[i]
  OBVIOUS
<1> HIDE DEF more
<1>3. PICK g : /\ FlattenSeq(more) = g[l + 1]
               /\ g = [n \in 1 .. l + 1 |-> FlatStep(more, g, n)]
  <2>1. Len(more) = l + 1 /\ Len(more) \in Nat \ {0}
    BY <1>1
  <2>2. \E g : /\ FlattenSeq(more) = g[Len(more)]
               /\ g = [n \in 1 .. Len(more) |-> FlatStep(more, g, n)]
    BY <2>1, FlatUnfold
  <2> QED
    BY <2>1, <2>2
<1>a. CASE l = 0
  <2>1. e = << >>
    BY <1>a
  <2>2. g[1] = more[1]
    BY <1>3, <1>a DEF FlatStep
  <2> QED
    BY <1>1, <1>3, <1>a, <2>1, <2>2, FlatEmpty DEF more
<1>b. CASE l # 0
  <2>0. Len(e) \in Nat \ {0}
    BY <1>b
  <2>a. PICK f : /\ FlattenSeq(e) = f[l]
                 /\ f = [n \in 1 .. l |-> FlatStep(e, f, n)]
    BY <2>0, FlatUnfold
  <2> DEFINE T == {n \in 1 .. l : f[n] # g[n]}
  <2>b. T = {}
    <3> SUFFICES ASSUME T # {} PROVE FALSE
      OBVIOUS
    <3>1. PICK n \in T : \A y \in T : n <= y
      <4>1. T \subseteq Nat
        OBVIOUS
      <4> QED
        BY <4>1, NatMin
    <3>2. n \in 1 .. l /\ n \in 1 .. l + 1 /\ f[n] # g[n]
      OBVIOUS
    <3>3. f[n] = FlatStep(e, f, n) /\ g[n] = FlatStep(more, g, n)
      BY <1>3, <2>a, <3>2
    <3>4. more[n] = e[n]
      BY <1>1, <3>2
    <3>5. n # 1
      BY <3>2, <3>3, <3>4 DEF FlatStep
    <3>6. n - 1 \in 1 .. l /\ n - 1 \notin T
      BY <3>1, <3>2, <3>5
    <3>7. f[n - 1] = g[n - 1]
      BY <3>6
    <3>8. FlatStep(e, f, n) = FlatStep(more, g, n)
      BY <3>4, <3>7 DEF FlatStep
    <3> QED
      BY <3>2, <3>3, <3>8
  <2>c. f[l] = g[l]
    BY <1>b, <2>b
  <2>d. l + 1 \in 1 .. l + 1 /\ l + 1 # 1 /\ (l + 1) - 1 = l
    BY <1>b
  <2>e. g[l + 1] = FlatStep(more, g, l + 1)
    BY <1>3, <2>d
  <2> QED
    BY <1>1, <1>3, <2>a, <2>c, <2>d, <2>e DEF FlatStep, more
<1> QED
  BY <1>a, <1>b

\* Concatenation, for the steps that the provers do not find in a larger goal.
LEMMA Associative ==
    ASSUME NEW S, NEW a \in Seq(S), NEW b \in Seq(S), NEW c \in Seq(S)
    PROVE  (a \o b) \o c = a \o (b \o c)
  OBVIOUS

\* A sequence that is not empty has a last element.
LEMMA SplitLast ==
    ASSUME NEW S, NEW s \in Seq(S), s # << >>
    PROVE  \E f \in Seq(S), y \in S : s = Append(f, y) /\ Len(f) = Len(s) - 1
<1>1. PICK f \in Seq(S), y \in S : s = Append(f, y)
  BY SequenceEmptyOrAppend
<1>2. Len(s) = Len(f) + 1
  BY <1>1
<1> QED
  BY <1>1, <1>2

\* FlattenSeq of sequences over S is a sequence over S.
LEMMA FlatType ==
    ASSUME NEW S, NEW e \in Seq(Seq(S))
    PROVE  FlattenSeq(e) \in Seq(S)
<1> DEFINE T == {k \in Nat : \E d \in Seq(Seq(S)) : Len(d) = k /\ FlattenSeq(d) \notin Seq(S)}
<1>1. T = {}
  <2> SUFFICES ASSUME T # {} PROVE FALSE
    OBVIOUS
  <2>1. PICK k \in T : \A y \in T : k <= y
    <3>1. T \subseteq Nat
      OBVIOUS
    <3> QED
      BY <3>1, NatMin
  <2>2. PICK d \in Seq(Seq(S)) : Len(d) = k /\ FlattenSeq(d) \notin Seq(S)
    OBVIOUS
  <2>3. d # << >>
    BY <2>2, FlatEmpty
  <2>4. PICK f \in Seq(Seq(S)), x \in Seq(S) : d = Append(f, x) /\ Len(f) = Len(d) - 1
    <3> HIDE DEF T
    <3> QED
      BY ONLY d \in Seq(Seq(S)), <2>3, SplitLast
  <2>5. Len(f) \in Nat /\ Len(f) \notin T
    BY <2>1, <2>2, <2>4
  <2>6. FlattenSeq(f) \in Seq(S)
    BY <2>4, <2>5
  <2>7. FlattenSeq(d) = FlattenSeq(f) \o x
    BY ONLY <2>4, FlatAppend
  <2> QED
    BY ONLY <2>2, <2>6, <2>7, <2>4
<1>2. Len(e) \in Nat /\ Len(e) \notin T
  BY <1>1
<1> QED
  BY <1>2

\* FlattenSeq distributes over concatenation.
LEMMA FlatConcat ==
    ASSUME NEW S, NEW e \in Seq(Seq(S)), NEW f \in Seq(Seq(S))
    PROVE  FlattenSeq(e \o f) = FlattenSeq(e) \o FlattenSeq(f)
<1> DEFINE Splits(d) == FlattenSeq(e \o d) = FlattenSeq(e) \o FlattenSeq(d)
<1> DEFINE T == {k \in Nat : \E d \in Seq(Seq(S)) : Len(d) = k /\ ~ Splits(d)}
<1>0. FlattenSeq(e) \in Seq(S)
  BY FlatType
<1>a. Splits(<< >>)
  BY <1>0, FlatEmpty
<1>b. ASSUME NEW g \in Seq(Seq(S)), NEW y \in Seq(S), Splits(g)
      PROVE  Splits(Append(g, y))
  <2>1. e \o Append(g, y) = Append(e \o g, y) /\ e \o g \in Seq(Seq(S))
    <3>1. e \o g \in Seq(Seq(S)) /\ <<y>> \in Seq(Seq(S))
      OBVIOUS
    <3>2. Append(g, y) = g \o <<y>> /\ Append(e \o g, y) = (e \o g) \o <<y>>
      BY ONLY <3>1, g \in Seq(Seq(S)), y \in Seq(S), AppendIsConcat, Zenon
    <3>3. e \o (g \o <<y>>) = (e \o g) \o <<y>>
      BY ONLY <3>1, g \in Seq(Seq(S)), e \in Seq(Seq(S)), ConcatAssociative
    <3> QED
      BY ONLY <3>1, <3>2, <3>3
  <2>2. FlattenSeq(e \o Append(g, y)) = (FlattenSeq(e) \o FlattenSeq(g)) \o y
    BY <1>b, <2>1, FlatAppend
  <2>3. FlattenSeq(Append(g, y)) = FlattenSeq(g) \o y
    BY FlatAppend
  <2>4. FlattenSeq(g) \in Seq(S)
    BY FlatType
  <2> QED
    <3>1. (FlattenSeq(e) \o FlattenSeq(g)) \o y = FlattenSeq(e) \o (FlattenSeq(g) \o y)
      <4>1. PICK a \in Seq(S), b \in Seq(S) : a = FlattenSeq(e) /\ b = FlattenSeq(g)
        BY <1>0, <2>4
      <4>2. (a \o b) \o y = a \o (b \o y)
        BY ONLY a \in Seq(S), b \in Seq(S), y \in Seq(S), Associative, SMTT(30)
      <4> QED
        BY ONLY <4>1, <4>2
    <3> QED
      BY <2>2, <2>3, <3>1
<1> HIDE DEF Splits
<1>1. T = {}
  <2> SUFFICES ASSUME T # {} PROVE FALSE
    OBVIOUS
  <2>1. PICK k \in T : \A y \in T : k <= y
    <3>1. T \subseteq Nat
      OBVIOUS
    <3> QED
      BY <3>1, NatMin
  <2>2. PICK d \in Seq(Seq(S)) : Len(d) = k /\ ~ Splits(d)
    OBVIOUS
  <2>3. d # << >>
    BY <1>a, <2>2
  <2>4. PICK g \in Seq(Seq(S)), y \in Seq(S) : d = Append(g, y) /\ Len(g) = Len(d) - 1
    <3> HIDE DEF T
    <3> QED
      BY ONLY d \in Seq(Seq(S)), <2>3, SplitLast
  <2>5. Len(g) \in Nat /\ Len(g) \notin T
    BY <2>1, <2>2, <2>4
  <2>6. Splits(g)
    BY <2>5
  <2> QED
    BY <1>b, <2>2, <2>4, <2>6
<1>2. Len(f) \in Nat /\ Len(f) \notin T
  BY <1>1
<1>3. Splits(f)
  BY <1>2
<1> QED
  BY <1>3 DEF Splits

\* The first of the sequences comes first.
LEMMA FlatHead ==
    ASSUME NEW S, NEW e \in Seq(Seq(S)), e # << >>
    PROVE  FlattenSeq(e) = e[1] \o FlattenSeq(Tail(e))
<1>1. e[1] \in Seq(S) /\ Tail(e) \in Seq(Seq(S)) /\ e = <<e[1]>> \o Tail(e)
  BY HeadTailProperties, HeadTailAppend
<1>2. <<e[1]>> = Append(<< >>, e[1])
  OBVIOUS
<1>3. FlattenSeq(<<e[1]>>) = e[1]
  <2>1. << >> \in Seq(Seq(S))
    OBVIOUS
  <2>2. FlattenSeq(Append(<< >>, e[1])) = FlattenSeq(<< >>) \o e[1]
    BY ONLY <1>1, <2>1, FlatAppend
  <2>3. << >> \o e[1] = e[1]
    BY ONLY <1>1, ConcatEmptySeq
  <2> QED
    BY <1>2, <2>2, <2>3, FlatEmpty
<1>4. <<e[1]>> \in Seq(Seq(S))
  BY <1>1
<1> QED
  BY <1>1, <1>3, <1>4, FlatConcat

-----------------------------------------------------------------------------
(* Reading one chunk.                                                         *)

Uniform(v, n) == [i \in 1 .. n |-> v]
ByteOf(v) == [k |-> "byte", val |-> v]
ExtOf(d) == [k |-> "ext", ts |-> d]
Short(d) == IF d < ExtTs THEN d ELSE ExtTs

HeadToken(fmt, cid, d, len, type, sid) ==
    [k |-> "head", fmt |-> fmt, cid |-> cid, delta |-> Short(d),
     len |-> len, type |-> type, sid |-> sid]

\* A chunk stream of the reader is a record of these fields.
IsStream(c) ==
    /\ c = [ts |-> c.ts, delta |-> c.delta, len |-> c.len, type |-> c.type, sid |-> c.sid,
            has_ext |-> c.has_ext, ext |-> c.ext, open |-> c.open, body |-> c.body,
            count |-> c.count]
    /\ c.count \in Nat

\* The fields of a chunk stream.
LEMMA StreamFields ==
    ASSUME NEW c, IsStream(c)
    PROVE  DOMAIN c = {"ts", "delta", "len", "type", "sid", "has_ext", "ext", "open",
                       "body", "count"}
  BY DEF IsStream

\* A timestamp that fits is not changed by the mask,
LEMMA ModSmall ==
    ASSUME NEW d \in 0 .. TsMod - 1
    PROVE  d % TsMod = d
  BY ChunkAssumption DEF ChunkAssumption

\* and the mask makes every one fit.
LEMMA ModRange ==
    ASSUME NEW d \in Int
    PROVE  d % TsMod \in 0 .. TsMod - 1
  BY ChunkAssumption DEF ChunkAssumption

\* A payload of n equal bytes.
LEMMA UniformSeq ==
    ASSUME NEW S, NEW v \in S, NEW n \in Nat
    PROVE  /\ Uniform(v, n) \in Seq(S) /\ Len(Uniform(v, n)) = n
           /\ \A i \in 1 .. n : Uniform(v, n)[i] = v
  BY DEF Uniform

\* Its length,
LEMMA UniformLen ==
    ASSUME NEW v, NEW n \in Nat
    PROVE  Len(Uniform(v, n)) = n /\ \A i \in 1 .. n : Uniform(v, n)[i] = v
  BY DEF Uniform

\* its tokens,
LEMMA UniformPayload ==
    ASSUME NEW v, NEW n \in Nat
    PROVE  Payload(Uniform(v, n)) = Uniform(ByteOf(v), n)
<1>1. Len(Uniform(v, n)) = n /\ \A i \in 1 .. n : Uniform(v, n)[i] = v
  BY UniformLen
<1>2. Payload(Uniform(v, n)) = [i \in 1 .. n |-> ByteOf(Uniform(v, n)[i])]
  BY <1>1 DEF Payload, ByteOf
<1> QED
  BY <1>1, <1>2 DEF Uniform

\* a part of it,
LEMMA UniformPart ==
    ASSUME NEW v, NEW n \in Nat, NEW a \in 1 .. n + 1, NEW b \in a - 1 .. n
    PROVE  SubSeq(Uniform(v, n), a, b) = Uniform(v, b - a + 1)
  BY DEF Uniform

\* and two of them in a row.
LEMMA UniformJoin ==
    ASSUME NEW v, NEW a \in Nat, NEW b \in Nat
    PROVE  Uniform(v, a) \o Uniform(v, b) = Uniform(v, a + b)
<1> DEFINE s == Uniform(v, a) \o Uniform(v, b)
<1>0. a + b \in Nat /\ v \in {v}
  OBVIOUS
<1>1. Uniform(v, a) \in Seq({v}) /\ Uniform(v, b) \in Seq({v}) /\ Uniform(v, a + b) \in Seq({v})
  BY <1>0, UniformSeq, Zenon
<1>2. Len(Uniform(v, a)) = a /\ Len(Uniform(v, b)) = b /\ Len(Uniform(v, a + b)) = a + b
  BY <1>0, UniformLen, Zenon
<1>3. s \in Seq({v}) /\ Len(s) = a + b
  BY <1>1, <1>2, ConcatProperties
<1>4. \A i \in 1 .. a + b : s[i] = v /\ Uniform(v, a + b)[i] = v
  <2>1. \A t \in Seq({v}) : \A i \in 1 .. Len(t) : t[i] = v
    OBVIOUS
  <2> QED
    BY <1>1, <1>2, <1>3, <2>1
<1> HIDE DEF s
<1>5. s = Uniform(v, a + b)
  BY <1>1, <1>2, <1>3, <1>4, SeqEqual
<1> QED
  BY <1>5 DEF s

Begins(in, h, q) == in # << >> /\ in[1] = h /\ Tail(in) = q

\* What is left of the input after a header, with or without the extended timestamp.
LEMMA HeadRead ==
    ASSUME NEW S, NEW h \in S, NEW x \in Seq(S), NEW p \in Seq(S), NEW rest \in Seq(S)
    PROVE  Begins(((<<h>> \o x) \o p) \o rest, h, x \o (p \o rest))
<1> DEFINE in == ((<<h>> \o x) \o p) \o rest
<1>2. <<h>> \in Seq(S) /\ x \o p \in Seq(S) /\ p \o rest \in Seq(S) /\ x \o (p \o rest) \in Seq(S)
  OBVIOUS
<1>3. in = <<h>> \o (x \o (p \o rest))
  <2>1. (<<h>> \o x) \o p = <<h>> \o (x \o p)
    BY ONLY <1>2, x \in Seq(S), p \in Seq(S)
  <2>2. (<<h>> \o (x \o p)) \o rest = <<h>> \o ((x \o p) \o rest)
    BY ONLY <1>2, rest \in Seq(S)
  <2>3. (x \o p) \o rest = x \o (p \o rest)
    BY ONLY x \in Seq(S), p \in Seq(S), rest \in Seq(S)
  <2> QED
    BY <2>1, <2>2, <2>3
<1> DEFINE q == x \o (p \o rest)
<1>4. q \in Seq(S) /\ in = <<h>> \o q
  BY <1>2, <1>3
<1> HIDE DEF q, in
<1>5. in # << >> /\ in[1] = h /\ Tail(in) = q
  <2>1. /\ in \in Seq(S) /\ Len(in) = Len(q) + 1 /\ in[1] = h
        /\ \A i \in 1 .. Len(q) : in[i + 1] = q[i]
    <3>1. <<h>> \in Seq(S) /\ Len(<<h>>) = 1 /\ <<h>>[1] = h
      OBVIOUS
    <3>2. /\ in \in Seq(S) /\ Len(in) = 1 + Len(q)
          /\ \A i \in 1 .. 1 + Len(q) : in[i] = IF i <= 1 THEN <<h>>[i] ELSE q[i - 1]
      BY ONLY <1>4, <3>1, ConcatProperties
    <3>3. Len(q) \in Nat
      BY <1>4
    <3> QED
      BY ONLY <3>1, <3>2, <3>3
  <2>2. in # << >>
    BY <2>1
  <2>3. /\ Tail(in) \in Seq(S) /\ Len(Tail(in)) = Len(q)
        /\ \A i \in 1 .. Len(q) : Tail(in)[i] = in[i + 1]
    BY <2>1, <2>2
  <2>4. Tail(in) = q
    BY ONLY <1>4, <2>1, <2>3, SeqEqual
  <2> QED
    BY <2>1, <2>2, <2>4
<1> QED
  BY <1>5 DEF q, in, Begins

\* What is left after the payload of a chunk, and the bytes that were read.
LEMMA PayloadRead ==
    ASSUME NEW S, NEW p \in Seq(S), NEW rest \in Seq(S)
    PROVE  /\ \A i \in 1 .. Len(p) : (p \o rest)[i] = p[i]
           /\ SubSeq(p \o rest, Len(p) + 1, Len(p \o rest)) = rest
<1>1. \A i \in 1 .. Len(p) : (p \o rest)[i] = p[i]
  OBVIOUS
<1> DEFINE q == p \o rest
           s == SubSeq(q, Len(p) + 1, Len(q))
<1>2. q \in Seq(S) /\ Len(q) = Len(p) + Len(rest)
  OBVIOUS
<1>3. \A i \in 1 .. Len(rest) : q[Len(p) + i] = rest[i]
  OBVIOUS
<1> HIDE DEF q
<1>4. s \in Seq(S) /\ Len(s) = Len(rest) /\ \A i \in 1 .. Len(rest) : s[i] = q[Len(p) + i]
  BY <1>2
<1> HIDE DEF s
<1>5. s = rest
  BY <1>3, <1>4, SeqEqual
<1> QED
  BY <1>1, <1>5 DEF q, s

\* What a chunk stream knows of a message with the timestamp field d.
Knows(r, len, type, d) ==
    /\ r.len = len /\ r.type = type /\ r.count # 0
    /\ r.delta = Short(d) /\ r.has_ext = (d >= ExtTs) /\ (d >= ExtTs => r.ext = d)

\* The stream once a header of this message is read, and the rest of the input.
HeaderIs(c, h, tail, q, len, type, d, ts, sid) ==
    LET r == read_message_header(c, h, tail)
    IN  /\ AfterHeader(c, h, tail) = q
        /\ IsStream(r) /\ r.open = TRUE /\ r.body = c.body
        /\ Knows(r, len, type, d) /\ r.ts = ts /\ r.sid = sid

\* The header that begins a message, of every type that a peer may choose.
LEMMA FirstHeader ==
    ASSUME NEW S, NEW c, IsStream(c), c.open = FALSE, c.ts \in Int,
           NEW fmt \in 0 .. 3, NEW cid, NEW type, NEW sid, NEW len,
           NEW d \in 0 .. TsMod - 1,
           fmt >= 2 => c.len = len /\ c.type = type,
           fmt = 3 => c.delta = Short(d) /\ c.has_ext = (d >= ExtTs),
           NEW q \in Seq(S), ExtOf(d) \in S
    PROVE  HeaderIs(c, HeadToken(fmt, cid, d, len, type, sid), Extended(d) \o q, q,
                    len, type, d, IF fmt = 0 THEN d ELSE (c.ts + d) % TsMod,
                    IF fmt = 0 THEN sid ELSE c.sid)
<1> DEFINE tail == Extended(d) \o q
<1>h0. PICK h : h = HeadToken(fmt, cid, d, len, type, sid)
  OBVIOUS
<1> PICK r : r = read_message_header(c, h, tail)
  OBVIOUS
<1>0. /\ ExtTs \in Nat \ {0} /\ TsMod \in Nat
      /\ (Short(d) >= ExtTs) = (d >= ExtTs) /\ (d < ExtTs => Short(d) = d)
  BY ChunkAssumption DEF ChunkAssumption, Short
<1>1. DOMAIN c = {"ts", "delta", "len", "type", "sid", "has_ext", "ext", "open", "body", "count"}
  BY StreamFields
<1>h. /\ h.fmt = fmt /\ h.delta = Short(d) /\ h.len = len /\ h.type = type /\ h.sid = sid
  BY <1>h0 DEF HeadToken
<1>2. PICK f : f = HeaderFields(c, h)
  OBVIOUS
<1>3. /\ DOMAIN f = DOMAIN c
      /\ f.has_ext = (d >= ExtTs) /\ f.delta = Short(d)
      /\ f.len = len /\ f.type = type /\ f.sid = IF fmt = 0 THEN sid ELSE c.sid
      /\ f.open = FALSE /\ f.body = c.body /\ f.count = c.count
  BY <1>0, <1>1, <1>2, <1>h DEF HeaderFields
<1>4. f.ts = IF d >= ExtTs THEN c.ts ELSE IF fmt = 0 THEN d ELSE c.ts + d
  <2>1. (IF h.fmt <= 2 THEN h.delta >= ExtTs ELSE c.has_ext) = (d >= ExtTs)
    BY <1>0, <1>h
  <2>2. (IF h.fmt <= 2 THEN h.delta ELSE c.delta) = Short(d)
    BY <1>h
  <2>3. f.ts = IF d >= ExtTs \/ (h.fmt = 3 /\ c.open) THEN c.ts
               ELSE IF h.fmt = 0 THEN Short(d) ELSE c.ts + Short(d)
    BY <1>1, <1>2, <2>1, <2>2 DEF HeaderFields
  <2> QED
    BY <1>0, <1>h, <2>3
<1>5. ~ ExtIsPayload(f, tail)
  BY <1>3 DEF ExtIsPayload
<1>6. IsStream(f)
  BY <1>1, <1>2 DEF HeaderFields, IsStream
<1>7. PICK g : g = IF f.has_ext /\ ~ ExtIsPayload(f, tail) THEN ExtTimestamp(f, h, tail) ELSE f
  OBVIOUS
<1>8. r = [g EXCEPT !.ts = @ % TsMod, !.open = TRUE, !.count = @ + 1]
  BY <1>2, <1>7 DEF read_message_header
<1>9. d % TsMod = d
  BY ModSmall
<1>10. /\ AfterHeader(c, h, tail) = q
       /\ IsStream(g) /\ g.open = FALSE /\ g.body = c.body
       /\ g.ts = IF fmt = 0 THEN d ELSE c.ts + d
       /\ g.delta = Short(d) /\ g.has_ext = (d >= ExtTs)
       /\ d >= ExtTs => g.ext = d
       /\ g.len = len /\ g.type = type
       /\ g.sid = IF fmt = 0 THEN sid ELSE c.sid
  <2>1. CASE d >= ExtTs
    <3>1. Extended(d) = <<ExtOf(d)>>
      BY <1>0, <2>1 DEF Extended, ExtOf
    <3>2. tail[1] = ExtOf(d) /\ Tail(tail) = q
      BY <3>1
    <3>3. AfterHeader(c, h, tail) = q
      BY <1>2, <1>3, <1>5, <2>1, <3>2 DEF AfterHeader
    <3>4. ExtRead(tail) = d
      BY <1>9, <3>2 DEF ExtRead, ExtOf
    <3>5. g = [f EXCEPT !.ext = d, !.ts = IF fmt = 0 THEN d ELSE c.ts + d]
      <4>1. g = ExtTimestamp(f, h, tail)
        BY <1>3, <1>5, <1>7, <2>1
      <4>2. f.ts = c.ts /\ f.open = FALSE
        BY <1>3, <1>4, <2>1
      <4>3. CASE fmt = 0
        BY <1>h, <3>4, <4>1, <4>3 DEF ExtTimestamp
      <4>4. CASE fmt # 0
        BY <1>1, <1>3, <1>h, <3>4, <4>1, <4>2, <4>4 DEF ExtTimestamp
      <4> QED
        BY <4>3, <4>4
    <3> QED
      BY <1>1, <1>3, <1>6, <2>1, <3>3, <3>5 DEF IsStream
  <2>2. CASE ~ (d >= ExtTs)
    <3>1. Extended(d) = << >>
      BY <1>0, <2>2 DEF Extended
    <3>2. tail = q
      BY <3>1
    <3>3. AfterHeader(c, h, tail) = q /\ g = f
      BY <1>2, <1>3, <1>7, <2>2, <3>2 DEF AfterHeader
    <3> QED
      BY <1>3, <1>4, <1>6, <2>2, <3>3
  <2> QED
    BY <2>1, <2>2
<1>11. DOMAIN g = {"ts", "delta", "len", "type", "sid", "has_ext", "ext", "open", "body", "count"}
  BY <1>10, StreamFields
<1>12. r.ts = g.ts % TsMod /\ r.open = TRUE /\ r.body = g.body /\ r.delta = g.delta
       /\ r.has_ext = g.has_ext /\ r.ext = g.ext /\ r.len = g.len /\ r.type = g.type
       /\ r.sid = g.sid /\ IsStream(r) /\ r.count # 0
  <2>1. PICK j \in Nat : j = g.count
    BY <1>10 DEF IsStream
  <2>2. j + 1 \in Nat /\ j + 1 # 0
    OBVIOUS
  <2>3. r = [g EXCEPT !.ts = g.ts % TsMod, !.open = TRUE, !.count = j + 1]
    BY <1>8, <1>11, <2>1
  <2> QED
    BY ONLY <1>11, <2>2, <2>3 DEF IsStream
<1> QED
  BY <1>9, <1>10, <1>12, <1>h0 DEF HeaderIs, Knows

\* The header that goes on with a message, before at least one byte of payload.
LEMMA NextHeader ==
    ASSUME NEW S, NEW c, IsStream(c), c.open = TRUE, c.ts \in 0 .. TsMod - 1,
           NEW d \in 0 .. TsMod - 1, NEW len, NEW type, Knows(c, len, type, d),
           NEW h, h.fmt = 3,
           NEW q \in Seq(S), q # << >>, q[1].k = "byte", ExtOf(d) \in S,
           NEW x, x = Extended(d) \/ x = << >>, ~ Misleading(c, x \o q)
    PROVE  HeaderIs(c, h, x \o q, q, len, type, d, c.ts, c.sid)
<1> DEFINE tail == x \o q
<1> PICK r : r = read_message_header(c, h, tail)
  OBVIOUS
<1>k. c.has_ext = (d >= ExtTs) /\ (d >= ExtTs => c.ext = d)
  BY DEF Knows
<1>0. ExtTs \in Nat \ {0} /\ TsMod \in Nat
  BY ChunkAssumption DEF ChunkAssumption
<1>1. DOMAIN c = {"ts", "delta", "len", "type", "sid", "has_ext", "ext", "open", "body", "count"}
  BY StreamFields
<1>2. HeaderFields(c, h) = c
  <2>1. HeaderFields(c, h) = [c EXCEPT !.delta = c.delta, !.has_ext = c.has_ext, !.ts = c.ts,
                                       !.len = c.len, !.type = c.type, !.sid = c.sid]
    <3>1. ~ (h.fmt <= 2) /\ ~ (h.fmt <= 1) /\ h.fmt # 0 /\ h.fmt \notin {1, 2}
      OBVIOUS
    <3> QED
      BY <1>1, <3>1 DEF HeaderFields
  <2> QED
    BY <1>1, <2>1 DEF IsStream
<1>3. PICK g : g = IF c.has_ext /\ ~ ExtIsPayload(c, tail) THEN ExtTimestamp(c, h, tail) ELSE c
  OBVIOUS
<1>4. r = [g EXCEPT !.ts = @ % TsMod, !.open = TRUE, !.count = @ + 1]
  BY <1>2, <1>3 DEF read_message_header
<1>5. d % TsMod = d /\ c.ts % TsMod = c.ts
  BY ModSmall
<1>6. g = c /\ AfterHeader(c, h, tail) = q
  <2>1. CASE d >= ExtTs /\ x = Extended(d)
    <3>1. Extended(d) = <<ExtOf(d)>>
      BY <1>0, <2>1 DEF Extended, ExtOf
    <3>2. tail[1] = ExtOf(d) /\ Tail(tail) = q
      BY <2>1, <3>1
    <3>3. ExtRead(tail) = d
      BY <1>5, <3>2 DEF ExtRead, ExtOf
    <3>4. ~ ExtIsPayload(c, tail)
      BY <1>k, <2>1, <3>3 DEF ExtIsPayload
    <3>5. g = [c EXCEPT !.ext = c.ext, !.ts = c.ts]
      <4>1. g = ExtTimestamp(c, h, tail)
        BY <1>3, <1>k, <2>1, <3>4
      <4>2. ~ (h.fmt = 0) /\ c.ext = d
        BY <1>k, <2>1
      <4> QED
        BY <1>1, <3>3, <4>1, <4>2 DEF ExtTimestamp
    <3>6. g = c
      BY <1>1, <3>5 DEF IsStream
    <3> QED
      BY <1>2, <1>k, <2>1, <3>2, <3>4, <3>6 DEF AfterHeader
  <2>2. CASE d >= ExtTs /\ x = << >>
    <3>1. tail = q
      BY <2>2
    <3>2. ExtRead(tail) = FourBytes(tail) /\ tail[1].k # "ext" /\ ~ Misleading(c, tail)
      BY <3>1, <2>2 DEF ExtRead
    <3>3. ExtIsPayload(c, tail)
      <4>1. c.open /\ c.has_ext /\ c.ext > 0
        <5>1. c.open = TRUE /\ c.has_ext = TRUE /\ c.ext = d
          BY ONLY c.open = TRUE, <1>k, <2>2
        <5>2. d > 0
          BY ONLY <1>0, <2>2, d \in 0 .. TsMod - 1
        <5> QED
          BY ONLY <5>1, <5>2
      <4>2. FourBytes(tail) # c.ext
        BY <3>2, <4>1 DEF Misleading
      <4> QED
        BY <3>2, <4>1, <4>2 DEF ExtIsPayload
    <3> QED
      BY <1>2, <1>3, <1>k, <3>1, <3>3 DEF AfterHeader
  <2>3. CASE ~ (d >= ExtTs)
    <3>1. x = << >>
      BY <1>0, <2>3 DEF Extended
    <3>2. tail = q
      BY <3>1
    <3> QED
      BY <1>2, <1>3, <1>k, <2>3, <3>2 DEF AfterHeader
  <2> QED
    BY <2>1, <2>2, <2>3
<1>7. /\ IsStream(r) /\ r.open = TRUE /\ r.body = c.body /\ r.ts = c.ts
      /\ r.delta = c.delta /\ r.has_ext = c.has_ext /\ r.ext = c.ext
      /\ r.len = c.len /\ r.type = c.type /\ r.sid = c.sid /\ r.count # 0
  <2>1. PICK j \in Nat : j = c.count
    BY DEF IsStream
  <2>2. j + 1 \in Nat /\ j + 1 # 0
    OBVIOUS
  <2>3. r = [c EXCEPT !.ts = c.ts, !.open = TRUE, !.count = j + 1]
    BY <1>1, <1>4, <1>5, <1>6, <2>1
  <2> QED
    BY ONLY <1>1, <2>2, <2>3 DEF IsStream
<1> QED
  BY <1>6, <1>7 DEF HeaderIs, Knows

\* An extended timestamp is one token or none.
LEMMA ExtendedSeq ==
    ASSUME NEW S, NEW d, ExtOf(d) \in S
    PROVE  Extended(d) \in Seq(S) /\ << >> \in Seq(S)
  BY DEF Extended, ExtOf

\* The type and the length of two sequences in a row.
LEMMA SeqJoin ==
    ASSUME NEW S, NEW p \in Seq(S), NEW rest \in Seq(S)
    PROVE  p \o rest \in Seq(S) /\ Len(p \o rest) = Len(p) + Len(rest)
  OBVIOUS

\* The stream once the payload is read, of which m of len bytes are there then.
BodyIs(c, size, q, rest, v, m, len) ==
    LET r == read_message_payload(c, size, q)
    IN  /\ SubSeq(q, PayloadSize(c, size) + 1, Len(q)) = rest
        /\ IsStream(r) /\ r.body = Uniform(v, m) /\ r.open = (m < len)
        /\ r.ts = c.ts /\ r.delta = c.delta /\ r.has_ext = c.has_ext /\ r.ext = c.ext
        /\ r.len = c.len /\ r.type = c.type /\ r.sid = c.sid /\ r.count = c.count

\* The payload of a chunk joins what has come of the body.
LEMMA BodyRead ==
    ASSUME NEW S, NEW c, IsStream(c), c.open = TRUE, NEW len \in Nat, c.len = len,
           NEW from \in Nat, NEW v, c.body = Uniform(v, from),
           NEW size, NEW n \in Nat, n = smaller(len - from, size),
           ByteOf(v) \in S, NEW rest \in Seq(S)
    PROVE  BodyIs(c, size, Uniform(ByteOf(v), n) \o rest, rest, v, from + n, len)
<1>1. from + n \in Nat
  OBVIOUS
<1>2. Len(c.body) = from
  BY <1>1, UniformLen
<1>3. PayloadSize(c, size) = n
  BY <1>2 DEF PayloadSize
<1>4. PICK p \in Seq(S) :
         p = Uniform(ByteOf(v), n) /\ Len(p) = n /\ \A i \in 1 .. n : p[i] = ByteOf(v)
  <2>1. /\ Uniform(ByteOf(v), n) \in Seq(S) /\ Len(Uniform(ByteOf(v), n)) = n
        /\ \A i \in 1 .. n : Uniform(ByteOf(v), n)[i] = ByteOf(v)
    BY ONLY ByteOf(v) \in S, n \in Nat, UniformSeq, Zenon
  <2> QED
    BY ONLY <2>1, Zenon
<1>5. PICK q : q = p \o rest
  OBVIOUS
<1>6. (\A i \in 1 .. n : q[i] = ByteOf(v)) /\ SubSeq(q, n + 1, Len(q)) = rest
  <2>1. /\ \A i \in 1 .. Len(p) : (p \o rest)[i] = p[i]
        /\ SubSeq(p \o rest, Len(p) + 1, Len(p \o rest)) = rest
    BY PayloadRead, Zenon
  <2> QED
    BY ONLY <1>4, <1>5, <2>1
<1>7. [i \in 1 .. n |-> Byte(q[i])] = Uniform(v, n)
  <2>1. Byte(ByteOf(v)) = v
    BY DEF Byte, ByteOf
  <2>2. \A i \in 1 .. n : Byte(q[i]) = v
    BY <1>6, <2>1
  <2> QED
    BY ONLY <2>2 DEF Uniform
<1>8. c.body \o [i \in 1 .. PayloadSize(c, size) |-> Byte(q[i])] = Uniform(v, from + n)
  <2>1. Uniform(v, from) \o Uniform(v, n) = Uniform(v, from + n)
    BY ONLY from \in Nat, n \in Nat, UniformJoin
  <2> QED
    BY <1>3, <1>7, <2>1
<1>9. Len(Uniform(v, from + n)) = from + n
  BY <1>1, UniformLen
<1>10. PICK r : r = read_message_payload(c, size, q)
  OBVIOUS
<1>11. r = [c EXCEPT !.body = Uniform(v, from + n), !.open = from + n < len]
  BY <1>8, <1>9, <1>10 DEF read_message_payload
<1>12. DOMAIN c = {"ts", "delta", "len", "type", "sid", "has_ext", "ext", "open", "body", "count"}
  BY StreamFields
<1>13. /\ IsStream(r) /\ r.body = Uniform(v, from + n) /\ r.open = (from + n < len)
       /\ r.ts = c.ts /\ r.delta = c.delta /\ r.has_ext = c.has_ext /\ r.ext = c.ext
       /\ r.len = c.len /\ r.type = c.type /\ r.sid = c.sid /\ r.count = c.count
  BY <1>11, <1>12 DEF IsStream
<1> QED
  BY <1>3, <1>4, <1>5, <1>6, <1>10, <1>13 DEF BodyIs

\* What reading one chunk gives: the stream, with m of the len bytes of its message,
\* and the rest of the input.
ChunkIs(cs, size, in, h, rest, v, m, len, type, d, ts, sid) ==
    LET r == recv_interlaced_message(cs, size, in)
    IN  /\ in # << >> /\ in[1] = h /\ Unread(cs, size, in) = rest
        /\ IsStream(r) /\ r.body = Uniform(v, m) /\ r.open = (m < len)
        /\ Knows(r, len, type, d) /\ r.ts = ts /\ r.sid = sid
        /\ \E k \in Int : PayloadSize(Parsed(cs, in), size) = smaller(k, size)

\* A header and its payload, one after the other, are a chunk.
LEMMA ChunkRead ==
    ASSUME NEW S, NEW cs, NEW h \in S, NEW x \in Seq(S), NEW p \in Seq(S), NEW rest \in Seq(S),
           NEW len \in Nat, NEW type, NEW d, NEW ts, NEW sid,
           HeaderIs(cs[h.cid], h, x \o (p \o rest), p \o rest, len, type, d, ts, sid),
           NEW from \in Nat, NEW v, cs[h.cid].body = Uniform(v, from), NEW size,
           NEW n \in Nat, n = smaller(len - from, size), p = Uniform(ByteOf(v), n),
           ByteOf(v) \in S
    PROVE  ChunkIs(cs, size, ((<<h>> \o x) \o p) \o rest, h, rest,
                   v, from + n, len, type, d, ts, sid)
<1> DEFINE c == cs[h.cid]
<1>1. PICK in : in = ((<<h>> \o x) \o p) \o rest
  OBVIOUS
<1>2. PICK q : q = p \o rest
  OBVIOUS
<1>3. in # << >> /\ in[1] = h /\ Tail(in) = x \o q
  <2>1. Begins(((<<h>> \o x) \o p) \o rest, h, x \o (p \o rest))
    BY HeadRead, Zenon
  <2> QED
    BY ONLY <1>1, <1>2, <2>1 DEF Begins
<1>4. PICK g : g = read_message_header(c, h, x \o q)
  OBVIOUS
<1>5. /\ AfterHeader(c, h, x \o q) = q
      /\ IsStream(g) /\ g.open = TRUE /\ g.body = Uniform(v, from)
      /\ Knows(g, len, type, d) /\ g.ts = ts /\ g.sid = sid
  BY <1>2, <1>4 DEF HeaderIs
<1>6. g.len = len
  BY <1>5 DEF Knows
<1>7. BodyIs(g, size, Uniform(ByteOf(v), n) \o rest, rest, v, from + n, len)
  BY <1>5, <1>6, BodyRead, Zenon
<1>8. Parsed(cs, in) = g
  BY <1>3, <1>4 DEF Parsed
<1>9. PICK r : r = recv_interlaced_message(cs, size, in)
  OBVIOUS
<1>10. r = read_message_payload(g, size, q)
  BY <1>3, <1>5, <1>8, <1>9 DEF recv_interlaced_message
<1>11. q = Uniform(ByteOf(v), n) \o rest
  BY <1>2
<1>12. /\ SubSeq(q, PayloadSize(g, size) + 1, Len(q)) = rest
       /\ IsStream(r) /\ r.body = Uniform(v, from + n) /\ r.open = (from + n < len)
       /\ r.ts = g.ts /\ r.delta = g.delta /\ r.has_ext = g.has_ext /\ r.ext = g.ext
       /\ r.len = g.len /\ r.type = g.type /\ r.sid = g.sid /\ r.count = g.count
  BY ONLY <1>7, <1>10, <1>11 DEF BodyIs
<1>13. Unread(cs, size, in) = rest
  BY <1>3, <1>5, <1>8, <1>12 DEF Unread
<1>14. Knows(r, len, type, d)
  BY <1>5, <1>12 DEF Knows
<1>15. PayloadSize(Parsed(cs, in), size) = smaller(len - from, size) /\ len - from \in Int
  <2>1. Len(g.body) = from
    BY <1>5, UniformLen
  <2> QED
    BY <1>6, <1>8, <2>1 DEF PayloadSize
<1> QED
  BY ONLY <1>1, <1>3, <1>5, <1>9, <1>12, <1>13, <1>14, <1>15 DEF ChunkIs

\* Every field of a chunk's header and its payload is read as it was written: of the
\* chunk that begins a message,
LEMMA FirstChunk ==
    ASSUME NEW S, NEW cs, NEW cid, IsStream(cs[cid]), cs[cid].open = FALSE,
           cs[cid].body = << >>, cs[cid].ts \in Int,
           NEW fmt \in 0 .. 3, NEW type, NEW sid, NEW len \in Nat, NEW d \in 0 .. TsMod - 1,
           fmt >= 2 => cs[cid].len = len /\ cs[cid].type = type,
           fmt = 3 => cs[cid].delta = Short(d) /\ cs[cid].has_ext = (d >= ExtTs),
           NEW h \in S, h = HeadToken(fmt, cid, d, len, type, sid),
           NEW v, ExtOf(d) \in S, ByteOf(v) \in S,
           NEW size \in Nat, NEW n, n = smaller(len, size), NEW rest \in Seq(S)
    PROVE  ChunkIs(cs, size, ((<<h>> \o Extended(d)) \o Uniform(ByteOf(v), n)) \o rest, h, rest,
                   v, n, len, type, d,
                   IF fmt = 0 THEN d ELSE (cs[cid].ts + d) % TsMod,
                   IF fmt = 0 THEN sid ELSE cs[cid].sid)
<1>1. n \in Nat /\ 0 + n = n /\ n = smaller(len - 0, size) /\ 0 \in Nat
  BY DEF smaller
<1>2. PICK p \in Seq(S) : p = Uniform(ByteOf(v), n)
  BY ONLY <1>1, ByteOf(v) \in S, UniformSeq
<1>3. Extended(d) \in Seq(S) /\ p \o rest \in Seq(S)
  BY ExtendedSeq, SeqJoin
<1>4. h.cid = cid
  BY DEF HeadToken
<1>5. cs[cid].body = Uniform(v, 0)
  BY DEF Uniform
<1>6. PICK ts, s : /\ ts = IF fmt = 0 THEN d ELSE (cs[cid].ts + d) % TsMod
                   /\ s = IF fmt = 0 THEN sid ELSE cs[cid].sid
  OBVIOUS
<1>7. HeaderIs(cs[cid], h, Extended(d) \o (p \o rest), p \o rest, len, type, d, ts, s)
  <2>1. HeaderIs(cs[cid], HeadToken(fmt, cid, d, len, type, sid), Extended(d) \o (p \o rest),
                 p \o rest, len, type, d, IF fmt = 0 THEN d ELSE (cs[cid].ts + d) % TsMod,
                 IF fmt = 0 THEN sid ELSE cs[cid].sid)
    BY <1>3, FirstHeader, Zenon
  <2> QED
    BY <1>6, <2>1
<1>8. ChunkIs(cs, size, ((<<h>> \o Extended(d)) \o p) \o rest, h, rest,
              v, 0 + n, len, type, d, ts, s)
  <2>1. HeaderIs(cs[h.cid], h, Extended(d) \o (p \o rest), p \o rest, len, type, d, ts, s)
    BY <1>4, <1>7
  <2>2. cs[h.cid].body = Uniform(v, 0)
    BY <1>4, <1>5
  <2> QED
    BY ONLY <1>1, <1>2, <1>3, <2>1, <2>2, h \in S, rest \in Seq(S), len \in Nat,
            ByteOf(v) \in S, ChunkRead, Zenon
<1> QED
  BY <1>1, <1>2, <1>6, <1>8

\* and of the chunks that follow, with or without the extended timestamp.
LEMMA LaterChunk ==
    ASSUME NEW S, NEW cs, NEW cid, IsStream(cs[cid]), cs[cid].open = TRUE,
           cs[cid].ts \in 0 .. TsMod - 1,
           NEW type, NEW len \in Nat, NEW d \in 0 .. TsMod - 1, Knows(cs[cid], len, type, d),
           NEW from \in 0 .. len, from < len, NEW v, cs[cid].body = Uniform(v, from),
           NEW h \in S, h.fmt = 3, h.cid = cid, ExtOf(d) \in S, ByteOf(v) \in S,
           NEW x, x = Extended(d) \/ x = << >>,
           NEW size \in Nat \ {0}, NEW n, n = smaller(len - from, size), NEW rest \in Seq(S),
           ~ Misleading(cs[cid], x \o (Uniform(ByteOf(v), n) \o rest))
    PROVE  ChunkIs(cs, size, ((<<h>> \o x) \o Uniform(ByteOf(v), n)) \o rest, h, rest,
                   v, from + n, len, type, d, cs[cid].ts, cs[cid].sid)
<1>1. n \in Nat /\ n >= 1 /\ from \in Nat
  BY DEF smaller
<1>2. PICK p \in Seq(S) :
         p = Uniform(ByteOf(v), n) /\ Len(p) = n /\ \A i \in 1 .. n : p[i] = ByteOf(v)
  <2>1. /\ Uniform(ByteOf(v), n) \in Seq(S) /\ Len(Uniform(ByteOf(v), n)) = n
        /\ \A i \in 1 .. n : Uniform(ByteOf(v), n)[i] = ByteOf(v)
    BY ONLY ByteOf(v) \in S, <1>1, UniformSeq, Zenon
  <2> QED
    BY ONLY <2>1, Zenon
<1>3. x \in Seq(S) /\ p \o rest \in Seq(S)
  BY ExtendedSeq, SeqJoin
<1>4. PICK q \in Seq(S) : q = p \o rest
  BY <1>3
<1>5. q # << >> /\ q[1].k = "byte"
  <2>1. q[1] = p[1] /\ p[1] = ByteOf(v)
    BY ONLY <1>1, <1>2, <1>4, rest \in Seq(S), PayloadRead
  <2>2. ByteOf(v).k = "byte"
    BY DEF ByteOf
  <2>3. Len(q) = n + Len(rest)
    BY <1>2, <1>4, SeqJoin
  <2> QED
    BY <1>1, <2>1, <2>2, <2>3
<1>6. HeaderIs(cs[cid], h, x \o q, q, len, type, d, cs[cid].ts, cs[cid].sid)
  <2>1. ~ Misleading(cs[cid], x \o q)
    BY <1>2, <1>4
  <2> QED
    BY <1>5, <2>1, NextHeader, Zenon
<1> QED
  <2>1. HeaderIs(cs[h.cid], h, x \o (p \o rest), p \o rest, len, type, d, cs[cid].ts, cs[cid].sid)
    BY <1>4, <1>6
  <2>2. cs[h.cid].body = Uniform(v, from)
    OBVIOUS
  <2>3. ChunkIs(cs, size, ((<<h>> \o x) \o p) \o rest, h, rest,
                v, from + n, len, type, d, cs[cid].ts, cs[cid].sid)
    BY ONLY <1>1, <1>2, <1>3, <2>1, <2>2, h \in S, rest \in Seq(S), len \in Nat,
            n = smaller(len - from, size), ByteOf(v) \in S, ChunkRead, Zenon
  <2> QED
    BY <1>2, <2>3

-----------------------------------------------------------------------------
(* One chunk stream: the reader's and its writer's.                           *)

\* A payload is empty only if it has no bytes.
LEMMA UniformEmpty ==
    ASSUME NEW v, NEW n \in Nat
    PROVE  (Uniform(v, n) = << >>) <=> (n = 0)
<1>1. Len(Uniform(v, n)) = n
  BY UniformLen
<1>2. n = 0 => Uniform(v, n) = << >>
  BY DEF Uniform
<1> QED
  BY <1>1, <1>2

IsTx(t) ==
    t = [fresh |-> t.fresh, ts |-> t.ts, delta |-> t.delta, len |-> t.len, type |-> t.type,
         sid |-> t.sid, left |-> t.left, body |-> t.body]

\* What is left of a message is part of it.
TxOK(t) ==
    /\ IsTx(t) /\ t.ts \in 0 .. TsMod - 1 /\ t.delta \in 0 .. TsMod - 1 /\ t.len \in Nat
    /\ t.left # << >> =>
         /\ t.fresh = FALSE /\ Len(t.left) \in 1 .. t.len
         /\ t.left = Uniform(t.body[1], Len(t.left)) /\ t.body = Uniform(t.body[1], t.len)

\* The reader knows of the stream what the writer does, and has what it has written.
Match(c, t) ==
    /\ IsStream(c) /\ TxOK(t)
    /\ c.ts = t.ts /\ c.sid = t.sid
    /\ t.fresh = FALSE => Knows(c, t.len, t.type, t.delta)
    /\ c.open = (t.left # << >>)
    /\ c.body = IF t.left = << >> THEN << >> ELSE Uniform(t.body[1], t.len - Len(t.left))

\* The chunk ch of size bytes at most begins a message on chunk stream c,
StartsAs(c, t, size, ch, u, fmt, d, len, type, v, sid) ==
    /\ t.left = << >>
    /\ fmt >= 2 => t.fresh = FALSE /\ t.len = len /\ t.type = type
    /\ fmt = 3 => t.delta = d
    /\ ch = (<<HeadToken(fmt, c, d, len, type, sid)>> \o Extended(d))
            \o Uniform(ByteOf(v), smaller(len, size))
    /\ u = [fresh |-> FALSE, ts |-> IF fmt = 0 THEN d ELSE (t.ts + d) % TsMod, delta |-> d,
            len |-> len, type |-> type, sid |-> IF fmt = 0 THEN sid ELSE t.sid,
            left |-> Uniform(v, len - smaller(len, size)), body |-> Uniform(v, len)]
Starts(c, t, size, ch, u) ==
    \E fmt \in 0 .. 3, d \in 0 .. TsMod - 1, len \in Nat :
       \E type, v, sid : StartsAs(c, t, size, ch, u, fmt, d, len, type, v, sid)

\* or goes on with it, and leaves the writer with u.
GoesOn(c, t, size, ch, u) ==
    \E h, x :
       /\ t.left # << >> /\ h.fmt = 3 /\ h.cid = c
       /\ x = Extended(t.delta) \/ x = << >>
       /\ ch = (<<h>> \o x) \o Uniform(ByteOf(t.body[1]), smaller(Len(t.left), size))
       /\ u = [t EXCEPT !.left = Uniform(t.body[1], Len(t.left) - smaller(Len(t.left), size))]

MsgOf(c, u) == [cid |-> c, type |-> u.type, ts |-> u.ts, sid |-> u.sid, body |-> u.body]

\* The chunk is read as it was written, and the rest of the input is left.
Reads(cs, size, in, rest, c, u) ==
    LET r == recv_interlaced_message(cs, size, in)
    IN  /\ in # << >> /\ in[1].cid = c /\ Unread(cs, size, in) = rest
        /\ ~ IllegalStart(cs[c], in[1]) /\ PayloadSize(Parsed(cs, in), size) \in {z \in Int : z <= size}
        /\ Match(Taken(r), u) /\ r.open = (u.left # << >>) /\ r.type = u.type
        /\ u.left = << >> => r.body = u.body /\ Message(c, r) = MsgOf(c, u)

\* A sequence over a set is one over every larger set.
LEMMA SeqWider ==
    ASSUME NEW S, NEW T, S \subseteq T, NEW s \in Seq(S)
    PROVE  s \in Seq(T)
  OBVIOUS

\* A stream that has read m of len bytes, and the writer that has written them.
Alike(r, u, len, m, v, d) ==
    /\ IsStream(r) /\ IsTx(u) /\ u.fresh = FALSE /\ u.ts \in 0 .. TsMod - 1
    /\ u.delta = d /\ u.len = len /\ u.left = Uniform(v, len - m) /\ u.body = Uniform(v, len)
    /\ r.body = Uniform(v, m) /\ r.open = (m < len) /\ Knows(r, len, u.type, d)
    /\ r.ts = u.ts /\ r.sid = u.sid

\* A reader that has read what its writer has written matches it.
LEMMA Matched ==
    ASSUME NEW r, NEW u, NEW len \in Nat, NEW m \in 0 .. len, NEW v, NEW d \in 0 .. TsMod - 1,
           Alike(r, u, len, m, v, d), NEW c
    PROVE  /\ Match(Taken(r), u) /\ r.open = (u.left # << >>) /\ r.type = u.type
           /\ u.left = << >> => r.body = u.body /\ Message(c, r) = MsgOf(c, u)
<1> USE DEF Alike
<1>1. len - m \in Nat /\ Len(u.left) = len - m
  BY UniformLen
<1>2. (u.left = << >>) <=> (m = len)
  BY <1>1, UniformEmpty
<1>3. m < len => u.body[1] = v
  BY UniformLen
<1>4. TxOK(u)
  BY <1>1, <1>2, <1>3 DEF TxOK
<1>5. r.open = (u.left # << >>)
  BY <1>2
<1>6. r.type = u.type
  BY DEF Knows
<1>7. PICK p : p = Taken(r)
  OBVIOUS
<1>8. DOMAIN r = {"ts", "delta", "len", "type", "sid", "has_ext", "ext", "open", "body", "count"}
  BY StreamFields
<1>9. /\ IsStream(p) /\ p.ts = r.ts /\ p.sid = r.sid /\ p.open = r.open
      /\ p.len = r.len /\ p.type = r.type /\ p.delta = r.delta
      /\ p.has_ext = r.has_ext /\ p.ext = r.ext /\ p.count = r.count
      /\ p.body = IF r.open THEN r.body ELSE << >>
  BY <1>7, <1>8 DEF Taken, IsStream
<1>10. Knows(p, len, u.type, d)
  BY <1>9 DEF Knows
<1>a. /\ m < len => r.open = TRUE /\ p.body = Uniform(v, m) /\ u.left # << >>
      /\ m = len => r.open = FALSE /\ p.body = << >> /\ u.left = << >>
  <2>1. CASE m < len
    <3>1. r.open = TRUE
      BY ONLY <2>1, r.open = (m < len)
    <3>2. u.left # << >>
      BY <1>2, <2>1
    <3> QED
      BY <1>9, <2>1, <3>1, <3>2
  <2>2. CASE m = len
    <3>1. r.open = FALSE
      <4>1. (m < len) = FALSE
        BY <2>2
      <4> QED
        BY ONLY <4>1, r.open = (m < len)
    <3>2. u.left = << >>
      BY <1>2, <2>2
    <3> QED
      BY <1>9, <2>2, <3>1, <3>2
  <2> QED
    BY <2>1, <2>2
<1>11. p.body = IF u.left = << >> THEN << >> ELSE Uniform(u.body[1], u.len - Len(u.left))
  <2>1. CASE m < len
    <3>1. u.len - Len(u.left) = m
      BY <1>1
    <3> QED
      BY <1>3, <1>a, <2>1, <3>1
  <2>2. CASE m = len
    BY <1>a, <2>2
  <2> QED
    BY <2>1, <2>2
<1>12. Match(p, u)
  BY <1>4, <1>5, <1>9, <1>10, <1>11 DEF Match
<1>13. u.left = << >> => r.body = u.body /\ Message(c, r) = MsgOf(c, u)
  BY <1>2, <1>6 DEF Message, MsgOf
<1> QED
  BY <1>5, <1>6, <1>7, <1>12, <1>13

\* The chunk that begins a message is read as it was written,
LEMMA ReadStart ==
    ASSUME NEW S, NEW rest \in Seq(S), NEW cs, NEW c, NEW t, NEW u, NEW ch,
           NEW size \in Nat \ {0}, Match(cs[c], t), Starts(c, t, size, ch, u)
    PROVE  Reads(cs, size, ch \o rest, rest, c, u)
<1> PICK fmt \in 0 .. 3, d \in 0 .. TsMod - 1, len \in Nat :
      \E type, v, sid : StartsAs(c, t, size, ch, u, fmt, d, len, type, v, sid)
  BY DEF Starts
<1> PICK type, v, sid :
       /\ t.left = << >>
       /\ fmt >= 2 => t.fresh = FALSE /\ t.len = len /\ t.type = type
       /\ fmt = 3 => t.delta = d
       /\ ch = (<<HeadToken(fmt, c, d, len, type, sid)>> \o Extended(d))
               \o Uniform(ByteOf(v), smaller(len, size))
       /\ u = [fresh |-> FALSE, ts |-> IF fmt = 0 THEN d ELSE (t.ts + d) % TsMod, delta |-> d,
               len |-> len, type |-> type, sid |-> IF fmt = 0 THEN sid ELSE t.sid,
               left |-> Uniform(v, len - smaller(len, size)), body |-> Uniform(v, len)]
  BY Zenon DEF StartsAs
<1>1. PICK h : h = HeadToken(fmt, c, d, len, type, sid)
  OBVIOUS
<1>2. PICK T : T = S \cup {h, ExtOf(d), ByteOf(v)}
  OBVIOUS
<1>3. h \in T /\ ExtOf(d) \in T /\ ByteOf(v) \in T /\ rest \in Seq(T)
  BY <1>2, SeqWider
<1>4. PICK n : n = smaller(len, size)
  OBVIOUS
<1>5. n \in 0 .. len
  BY <1>4 DEF smaller
<1>6. /\ IsStream(cs[c]) /\ cs[c].open = FALSE /\ cs[c].body = << >> /\ cs[c].ts = t.ts
      /\ cs[c].sid = t.sid /\ t.ts \in 0 .. TsMod - 1
      /\ t.fresh = FALSE => Knows(cs[c], t.len, t.type, t.delta)
  BY DEF Match, TxOK
<1>7. /\ cs[c].ts \in Int
      /\ fmt >= 2 => cs[c].len = len /\ cs[c].type = type
      /\ fmt = 3 => cs[c].delta = Short(d) /\ cs[c].has_ext = (d >= ExtTs)
  BY <1>6 DEF Knows
<1>8. PICK ts, s : /\ ts = IF fmt = 0 THEN d ELSE (t.ts + d) % TsMod
                   /\ s = IF fmt = 0 THEN sid ELSE t.sid
  OBVIOUS
<1>9. ChunkIs(cs, size, ((<<h>> \o Extended(d)) \o Uniform(ByteOf(v), n)) \o rest, h, rest,
              v, n, len, type, d, ts, s)
  <2>1. ChunkIs(cs, size, ((<<h>> \o Extended(d)) \o Uniform(ByteOf(v), n)) \o rest, h, rest,
                v, n, len, type, d, IF fmt = 0 THEN d ELSE (cs[c].ts + d) % TsMod,
                IF fmt = 0 THEN sid ELSE cs[c].sid)
    BY ONLY <1>1, <1>3, <1>4, <1>6, <1>7, size \in Nat, len \in Nat, fmt \in 0 .. 3,
            d \in 0 .. TsMod - 1, FirstChunk, Zenon
  <2> QED
    BY <1>6, <1>8, <2>1
<1>10. PICK in : in = ch \o rest
  OBVIOUS
<1>11. ChunkIs(cs, size, in, h, rest, v, n, len, type, d, ts, s)
  BY <1>1, <1>4, <1>9, <1>10
<1>12. PICK r : r = recv_interlaced_message(cs, size, in)
  OBVIOUS
<1>13. /\ in # << >> /\ in[1] = h /\ Unread(cs, size, in) = rest
       /\ IsStream(r) /\ r.body = Uniform(v, n) /\ r.open = (n < len)
       /\ Knows(r, len, type, d) /\ r.ts = ts /\ r.sid = s
       /\ \E k \in Int : PayloadSize(Parsed(cs, in), size) = smaller(k, size)
  BY ONLY <1>11, <1>12 DEF ChunkIs
<1>14. /\ u.fresh = FALSE /\ u.delta = d /\ u.len = len /\ u.left = Uniform(v, len - n)
       /\ u.body = Uniform(v, len) /\ u.type = type /\ u.ts = ts /\ u.sid = s /\ IsTx(u)
  BY <1>4, <1>8 DEF IsTx
<1>15. ts \in 0 .. TsMod - 1
  <2>1. t.ts + d \in Int
    BY <1>6
  <2>2. (t.ts + d) % TsMod \in 0 .. TsMod - 1
    BY <2>1, ModRange
  <2> QED
    BY <1>8, <2>2
<1>16. /\ Match(Taken(r), u) /\ r.open = (u.left # << >>) /\ r.type = u.type
       /\ u.left = << >> => r.body = u.body /\ Message(c, r) = MsgOf(c, u)
  <2>1. u.ts \in 0 .. TsMod - 1 /\ r.ts = u.ts /\ r.sid = u.sid /\ Knows(r, len, u.type, d)
    BY <1>13, <1>14, <1>15
  <2> QED
    <3>1. Alike(r, u, len, n, v, d)
      BY ONLY <1>13, <1>14, <2>1 DEF Alike
    <3> QED
      BY ONLY <1>5, <3>1, d \in 0 .. TsMod - 1, len \in Nat, Matched, Zenon
<1>17. h.cid = c
  BY <1>1 DEF HeadToken
<1>18. PayloadSize(Parsed(cs, in), size) \in {z \in Int : z <= size}
  BY ONLY <1>13, size \in Nat \ {0} DEF smaller
<1>19. ~ IllegalStart(cs[c], h)
  <2>1. h.fmt = fmt
    BY <1>1 DEF HeadToken
  <2>2. fmt >= 2 => cs[c].count # 0
    BY <1>6 DEF Knows
  <2> QED
    BY <1>6, <2>1, <2>2 DEF IllegalStart
<1> QED
  BY ONLY <1>10, <1>12, <1>13, <1>16, <1>17, <1>18, <1>19 DEF Reads

\* and so is one that goes on with it.
LEMMA ReadOn ==
    ASSUME NEW S, NEW rest \in Seq(S), NEW cs, NEW c, NEW t, NEW u, NEW ch,
           NEW size \in Nat \ {0}, Match(cs[c], t), GoesOn(c, t, size, ch, u),
           ~ Misled(cs, ch \o rest)
    PROVE  Reads(cs, size, ch \o rest, rest, c, u)
<1> PICK h, x :
       /\ t.left # << >> /\ h.fmt = 3 /\ h.cid = c
       /\ x = Extended(t.delta) \/ x = << >>
       /\ ch = (<<h>> \o x) \o Uniform(ByteOf(t.body[1]), smaller(Len(t.left), size))
       /\ u = [t EXCEPT !.left = Uniform(t.body[1], Len(t.left) - smaller(Len(t.left), size))]
  BY DEF GoesOn
<1>1. PICK v, d, len, type, from :
         /\ v = t.body[1] /\ d = t.delta /\ len = t.len /\ type = t.type
         /\ from = len - Len(t.left)
  OBVIOUS
<1>2. PICK T : T = S \cup {h, ExtOf(d), ByteOf(v)}
  OBVIOUS
<1>3. h \in T /\ ExtOf(d) \in T /\ ByteOf(v) \in T /\ rest \in Seq(T)
  BY <1>2, SeqWider
<1>4. /\ IsStream(cs[c]) /\ cs[c].open = TRUE /\ cs[c].body = Uniform(v, from)
      /\ cs[c].ts = t.ts /\ cs[c].sid = t.sid /\ Knows(cs[c], len, type, d)
      /\ IsTx(t) /\ t.ts \in 0 .. TsMod - 1 /\ d \in 0 .. TsMod - 1 /\ len \in Nat
      /\ t.fresh = FALSE /\ Len(t.left) \in 1 .. len /\ t.body = Uniform(v, len)
  BY <1>1 DEF Match, TxOK
<1>5. from \in 0 .. len /\ from < len /\ len - from = Len(t.left)
  BY <1>1, <1>4
<1>6. PICK n : n = smaller(len - from, size)
  OBVIOUS
<1>7. from + n \in 0 .. len /\ Len(t.left) - n = len - (from + n)
  <2>1. n \in 1 .. len - from
    BY <1>5, <1>6 DEF smaller
  <2>2. len \in Nat /\ from \in Int
    BY <1>4, <1>5
  <2> QED
    BY ONLY <1>5, <2>1, <2>2
<1>a. ~ Misleading(cs[c], x \o (Uniform(ByteOf(v), n) \o rest))
  <2>1. PICK q \in Seq(T) : q = Uniform(ByteOf(v), n)
    <3>1. n \in Nat
      BY <1>5, <1>6 DEF smaller
    <3> QED
      BY ONLY <1>3, <3>1, UniformSeq, Zenon
  <2>2. x \in Seq(T)
    BY <1>1, <1>3, ExtendedSeq
  <2>3. Begins(((<<h>> \o x) \o q) \o rest, h, x \o (q \o rest))
    BY ONLY <1>3, <2>1, <2>2, HeadRead, Zenon
  <2>4. ch \o rest = ((<<h>> \o x) \o q) \o rest
    BY <1>1, <1>5, <1>6, <2>1
  <2> QED
    BY ONLY <2>1, <2>3, <2>4, ~ Misled(cs, ch \o rest), h.cid = c DEF Begins, Misled
<1>8. ChunkIs(cs, size, ((<<h>> \o x) \o Uniform(ByteOf(v), n)) \o rest, h, rest,
              v, from + n, len, type, d, cs[c].ts, cs[c].sid)
  <2>1. cs[c].ts \in 0 .. TsMod - 1 /\ (x = Extended(d) \/ x = << >>)
    BY <1>1, <1>4
  <2> QED
    BY ONLY <1>3, <1>4, <1>5, <1>6, <1>a, <2>1, h.fmt = 3, h.cid = c, size \in Nat \ {0},
            LaterChunk, Zenon
<1>9. PICK in : in = ch \o rest
  OBVIOUS
<1>10. ChunkIs(cs, size, in, h, rest, v, from + n, len, type, d, cs[c].ts, cs[c].sid)
  BY <1>1, <1>5, <1>6, <1>8, <1>9
<1>11. PICK r : r = recv_interlaced_message(cs, size, in)
  OBVIOUS
<1>12. /\ in # << >> /\ in[1] = h /\ Unread(cs, size, in) = rest
       /\ IsStream(r) /\ r.body = Uniform(v, from + n) /\ r.open = (from + n < len)
       /\ Knows(r, len, type, d) /\ r.ts = t.ts /\ r.sid = t.sid
       /\ \E k \in Int : PayloadSize(Parsed(cs, in), size) = smaller(k, size)
  BY ONLY <1>4, <1>10, <1>11 DEF ChunkIs
<1>13. /\ u.fresh = FALSE /\ u.delta = d /\ u.len = len /\ u.left = Uniform(v, len - (from + n))
       /\ u.body = Uniform(v, len) /\ u.type = type /\ u.ts = t.ts /\ u.sid = t.sid /\ IsTx(u)
  <2>1. u = [t EXCEPT !.left = Uniform(v, len - (from + n))]
    BY <1>1, <1>5, <1>6, <1>7
  <2>2. DOMAIN t = {"fresh", "ts", "delta", "len", "type", "sid", "left", "body"}
    BY <1>4 DEF IsTx
  <2> QED
    BY ONLY <1>1, <1>4, <2>1, <2>2 DEF IsTx
<1>14. /\ Match(Taken(r), u) /\ r.open = (u.left # << >>) /\ r.type = u.type
       /\ u.left = << >> => r.body = u.body /\ Message(c, r) = MsgOf(c, u)
  <2>1. u.ts \in 0 .. TsMod - 1 /\ r.ts = u.ts /\ r.sid = u.sid /\ Knows(r, len, u.type, d)
    BY <1>4, <1>12, <1>13
  <2> QED
    <3>1. Alike(r, u, len, from + n, v, d)
      BY ONLY <1>12, <1>13, <2>1 DEF Alike
    <3> QED
      <4>1. len \in Nat /\ d \in 0 .. TsMod - 1 /\ from + n \in 0 .. len
        BY <1>4, <1>7
      <4> QED
        BY ONLY <3>1, <4>1, Matched, Zenon
<1>15. PayloadSize(Parsed(cs, in), size) \in {z \in Int : z <= size}
  BY ONLY <1>12, size \in Nat \ {0} DEF smaller
<1>16. ~ IllegalStart(cs[c], h)
  BY <1>4 DEF IllegalStart, Knows
<1> QED
  BY ONLY <1>9, <1>11, <1>12, <1>14, <1>15, <1>16, h.cid = c DEF Reads

-----------------------------------------------------------------------------
(* A whole direction: the reader is where its writer was some chunks ago.     *)

NextSize(u, size) == IF u.left = << >> /\ u.type = "chunk" THEN u.body[1] ELSE size

\* A chunk that goes on with a message repeats the extended timestamp.
Repeats(t, ch) ==
    t.left # << >> =>
        \E h, v : \E n \in Nat : ch = (<<h>> \o Extended(t.delta)) \o Uniform(v, n)

\* A position of a writer is its chunk streams, its chunk size and the number of
\* messages it has completed of those in dn; one chunk takes it from a to b.  What
\* it may do is send messages without payload and omit extended timestamps.
LinkOn(c, may, dn, a, ch, b, u) ==
    /\ Starts(c, a.tx[c], a.size, ch, u) \/ GoesOn(c, a.tx[c], a.size, ch, u)
    /\ \A k \in Cids \ {c} : b.tx[k] = a.tx[k]
    /\ b.size = NextSize(u, a.size) /\ b.size \in Nat \ {0} /\ a.n \in Nat
    /\ u.left = << >> /\ u.body = << >> => may.empty /\ u.type # "chunk"
    /\ may.omits \/ Repeats(a.tx[c], ch)
    /\ IF u.left = << >> /\ u.body # << >>
       THEN b.n = a.n + 1 /\ b.n <= Len(dn) /\ dn[b.n] = MsgOf(c, u)
       ELSE b.n = a.n
Link(may, dn, a, ch, b) == \E c \in Cids : LinkOn(c, may, dn, a, ch, b, b.tx[c])

\* A reader with the chunk streams cs that has taken n messages is at position a.
At(cs, size, n, a) ==
    /\ DOMAIN cs = Cids /\ \A c \in Cids : Match(cs[c], a.tx[c])
    /\ a.size = size /\ size \in Nat \ {0} /\ a.n = n /\ n \in Nat

\* The chunks of e lead the reader to the position b of its writer.
Trail(may, dn, in, cs, size, n, b, S, e, w) ==
    /\ e \in Seq(Seq(S)) /\ in = FlattenSeq(e)
    /\ At(cs, size, n, w[1]) /\ w[Len(e) + 1] = b
    /\ \A j \in 1 .. Len(e) : Link(may, dn, w[j], e[j], w[j + 1])
Behind(may, dn, in, cs, size, n, b) ==
    \E S, e, w : Trail(may, dn, in, cs, size, n, b, S, e, w)

\* A reader at its writer's position is behind it by no chunk.
LEMMA BehindStart ==
    ASSUME NEW cs, NEW size, NEW n, NEW b, At(cs, size, n, b), NEW may, NEW dn
    PROVE  Behind(may, dn, << >>, cs, size, n, b)
<1> DEFINE w == [j \in 1 .. 1 |-> b]
<1>1. << >> \in Seq(Seq({})) /\ Len(<< >>) = 0
  OBVIOUS
<1>2. w[1] = b
  OBVIOUS
<1> HIDE DEF w
<1>3. w[0 + 1] = b
  BY <1>2
<1>4. Trail(may, dn, << >>, cs, size, n, b, {}, << >>, w)
  BY <1>1, <1>2, <1>3, FlatEmpty DEF Trail
<1> QED
  BY <1>4, Zenon DEF Behind

\* More messages do not change the way here.
LEMMA BehindMore ==
    ASSUME NEW may, NEW dn, NEW in, NEW cs, NEW size, NEW n, NEW b,
           Behind(may, dn, in, cs, size, n, b),
           NEW more, Len(dn) \in Nat, Len(more) \in Nat, Len(dn) <= Len(more),
           \A i \in 1 .. Len(dn) : more[i] = dn[i]
    PROVE  Behind(may, more, in, cs, size, n, b)
<1> PICK S, e, w : Trail(may, dn, in, cs, size, n, b, S, e, w)
  BY DEF Behind
<1>1. ASSUME NEW j \in 1 .. Len(e)
      PROVE  Link(may, more, w[j], e[j], w[j + 1])
  <2>1. PICK c \in Cids : LinkOn(c, may, dn, w[j], e[j], w[j + 1], w[j + 1].tx[c])
    BY DEF Trail, Link
  <2>2. w[j].n \in Nat
    BY <2>1 DEF LinkOn
  <2>3. ASSUME w[j + 1].n = w[j].n + 1, w[j + 1].n <= Len(dn)
        PROVE  w[j + 1].n <= Len(more) /\ more[w[j + 1].n] = dn[w[j + 1].n]
    <3>1. w[j + 1].n \in 1 .. Len(dn)
      BY <2>2, <2>3
    <3> QED
      BY <3>1
  <2>4. LinkOn(c, may, more, w[j], e[j], w[j + 1], w[j + 1].tx[c])
    BY ONLY <2>1, <2>3, Zenon DEF LinkOn
  <2> QED
    BY <2>4, Zenon DEF Link
<1>2. Trail(may, more, in, cs, size, n, b, S, e, w)
  BY <1>1 DEF Trail
<1> QED
  BY <1>2, Zenon DEF Behind

\* The writer writes one chunk more.
LEMMA BehindWrite ==
    ASSUME NEW may, NEW dn, NEW in, NEW cs, NEW size, NEW n, NEW a, NEW b,
           Behind(may, dn, in, cs, size, n, a),
           NEW S, NEW ch \in Seq(S), Link(may, dn, a, ch, b)
    PROVE  Behind(may, dn, in \o ch, cs, size, n, b)
<1> PICK T, e, w : Trail(may, dn, in, cs, size, n, a, T, e, w)
  BY DEF Behind
<1>1. PICK U : U = S \cup T
  OBVIOUS
<1>2. e \in Seq(Seq(U)) /\ ch \in Seq(U)
  <2>1. Seq(T) \subseteq Seq(U)
    BY <1>1, SeqWider
  <2>2. e \in Seq(Seq(T))
    BY DEF Trail
  <2> QED
    BY <1>1, <2>1, <2>2, SeqWider
<1>3. PICK l \in Nat : l = Len(e)
  <2>1. Len(e) \in Nat
    BY ONLY <1>2
  <2> QED
    BY ONLY <2>1
<1>4. PICK f \in Seq(Seq(U)) : f = Append(e, ch)
  <2>1. Append(e, ch) \in Seq(Seq(U))
    BY ONLY <1>2
  <2> QED
    BY ONLY <2>1, Zenon
<1>5. Len(f) = l + 1 /\ f[l + 1] = ch /\ \A j \in 1 .. l : f[j] = e[j]
  BY <1>2, <1>3, <1>4
<1>6. FlattenSeq(f) = in \o ch
  BY <1>2, <1>4, FlatAppend DEF Trail
<1> DEFINE x == [j \in 1 .. l + 2 |-> IF j = l + 2 THEN b ELSE w[j]]
<1>7. x[l + 2] = b /\ x[l + 1] = w[l + 1] /\ \A j \in 1 .. l : x[j] = w[j] /\ x[j + 1] = w[j + 1]
  OBVIOUS
<1>8. x[1] = w[1]
  OBVIOUS
<1> HIDE DEF x
<1>9. ASSUME NEW j \in 1 .. l + 1
      PROVE  Link(may, dn, x[j], f[j], x[j + 1])
  <2>1. CASE j = l + 1
    <3>1. x[j] = a /\ f[j] = ch /\ x[j + 1] = b
      BY <1>3, <1>5, <1>7, <2>1 DEF Trail
    <3> QED
      BY <3>1
  <2>2. CASE j # l + 1
    <3>1. j \in 1 .. l
      BY <2>2
    <3>2. x[j] = w[j] /\ f[j] = e[j] /\ x[j + 1] = w[j + 1]
      BY <1>5, <1>7, <3>1
    <3> QED
      BY <1>3, <3>1, <3>2 DEF Trail
  <2> QED
    BY <2>1, <2>2
<1>10. Trail(may, dn, in \o ch, cs, size, n, b, U, f, x)
  <2>1. x[Len(f) + 1] = b
    BY <1>5, <1>7
  <2>2. At(cs, size, n, x[1])
    BY <1>8 DEF Trail
  <2> QED
    BY <1>5, <1>6, <1>9, <2>1, <2>2 DEF Trail
<1> QED
  BY <1>10, Zenon DEF Behind

\* The reader reads one chunk.
ReadsOne(may, dn, in, cs, size, n, b) ==
    LET c == in[1].cid
        r == recv_interlaced_message(cs, size, in)
        k == IF r.open \/ r.body = << >> THEN n ELSE n + 1
    IN  /\ c \in Cids /\ r.open \in BOOLEAN
        /\ Behind(may, dn, Unread(cs, size, in), [cs EXCEPT ![c] = Taken(r)],
                  IF ~ r.open /\ r.type = "chunk" THEN r.body[1] ELSE size, k, b)
        /\ ~ r.open /\ r.body # << >> => k <= Len(dn) /\ dn[k] = Message(c, r)
        /\ ~ r.open /\ r.body = << >> => may.empty /\ r.type # "chunk"
        /\ ~ IllegalStart(cs[c], in[1]) /\ PayloadSize(Parsed(cs, in), size) \in {z \in Int : z <= size}

\* Reading a chunk takes the first of those on the way.
LEMMA BehindRead ==
    ASSUME NEW may, NEW dn, NEW in, NEW cs, NEW size, NEW n, NEW b,
           Behind(may, dn, in, cs, size, n, b), in # << >>, ~ Misled(cs, in)
    PROVE  ReadsOne(may, dn, in, cs, size, n, b)
<1> PICK S, e, w : Trail(may, dn, in, cs, size, n, b, S, e, w)
  BY DEF Behind
<1>1. e \in Seq(Seq(S)) /\ in = FlattenSeq(e) /\ At(cs, size, n, w[1]) /\ w[Len(e) + 1] = b
  BY DEF Trail
<1>2. e # << >>
  BY <1>1, FlatEmpty
<1>3. PICK l \in Nat : l + 1 = Len(e)
  <2>1. Len(e) \in Nat /\ Len(e) # 0
    BY <1>1, <1>2
  <2>2. (Len(e) - 1) + 1 = Len(e) /\ Len(e) - 1 \in Nat
    BY <2>1
  <2> QED
    BY <2>2
<1>4. PICK f \in Seq(Seq(S)) : /\ f = Tail(e) /\ Len(f) = l
                               /\ \A j \in 1 .. l : f[j] = e[j + 1]
  <2>1. /\ Tail(e) \in Seq(Seq(S)) /\ Len(Tail(e)) = Len(e) - 1
        /\ \A j \in 1 .. Len(e) - 1 : Tail(e)[j] = e[j + 1]
    BY ONLY <1>1, <1>2
  <2>2. Len(e) - 1 = l
    BY <1>3
  <2> QED
    BY ONLY <2>1, <2>2
<1>5. PICK rest \in Seq(S) : rest = FlattenSeq(f)
  BY FlatType
<1>6. in = e[1] \o rest
  BY <1>1, <1>2, <1>4, <1>5, FlatHead
<1>7. 1 \in 1 .. Len(e) /\ 1 + 1 = 2
  BY <1>3
<1>8. PICK c \in Cids : LinkOn(c, may, dn, w[1], e[1], w[2], w[2].tx[c])
  BY <1>7 DEF Trail, Link
<1>a. PICK u : u = w[2].tx[c]
  OBVIOUS
<1>9. /\ DOMAIN cs = Cids /\ \A k \in Cids : Match(cs[k], w[1].tx[k])
      /\ w[1].size = size /\ size \in Nat \ {0} /\ w[1].n = n /\ n \in Nat
  BY <1>1 DEF At
<1>10. Reads(cs, size, in, rest, c, u)
  <2>1. Match(cs[c], w[1].tx[c])
    BY <1>9
  <2>2. Starts(c, w[1].tx[c], size, e[1], u) \/ GoesOn(c, w[1].tx[c], size, e[1], u)
    BY <1>8, <1>9, <1>a DEF LinkOn
  <2>3. CASE Starts(c, w[1].tx[c], size, e[1], u)
    <3>1. Reads(cs, size, e[1] \o rest, rest, c, u)
      BY ONLY <1>9, <2>1, <2>3, rest \in Seq(S), ReadStart, Zenon
    <3> QED
      BY ONLY <1>6, <3>1
  <2>4. CASE GoesOn(c, w[1].tx[c], size, e[1], u)
    <3>1. Reads(cs, size, e[1] \o rest, rest, c, u)
      BY ONLY <1>6, <1>9, <2>1, <2>4, rest \in Seq(S), ~ Misled(cs, in), ReadOn, Zenon
    <3> QED
      BY ONLY <1>6, <3>1
  <2> QED
    BY <2>2, <2>3, <2>4
<1>11. PICK r : r = recv_interlaced_message(cs, size, in)
  OBVIOUS
<1>12. /\ in[1].cid = c /\ Unread(cs, size, in) = rest
       /\ ~ IllegalStart(cs[c], in[1]) /\ PayloadSize(Parsed(cs, in), size) \in {z \in Int : z <= size}
       /\ Match(Taken(r), u) /\ r.open = (u.left # << >>) /\ r.type = u.type
       /\ u.left = << >> => r.body = u.body /\ Message(c, r) = MsgOf(c, u)
  BY ONLY <1>10, <1>11 DEF Reads
<1>13. /\ u = w[2].tx[c] /\ \A k \in Cids \ {c} : w[2].tx[k] = w[1].tx[k]
       /\ w[2].size = NextSize(u, size) /\ w[2].size \in Nat \ {0}
       /\ u.left = << >> /\ u.body = << >> => may.empty /\ u.type # "chunk"
       /\ IF u.left = << >> /\ u.body # << >>
          THEN w[2].n = n + 1 /\ w[2].n <= Len(dn) /\ dn[w[2].n] = MsgOf(c, u)
          ELSE w[2].n = n
  BY <1>8, <1>9, <1>a DEF LinkOn
<1>14. r.open \in BOOLEAN /\ (r.open <=> u.left # << >>)
  BY <1>12
<1>15. PICK k : k = IF r.open \/ r.body = << >> THEN n ELSE n + 1
  OBVIOUS
<1>16. w[2].n = k /\ k \in Nat
  <2>1. r.open \/ r.body = << >> <=> ~ (u.left = << >> /\ u.body # << >>)
    BY ONLY <1>12, <1>14
  <2> QED
    BY ONLY <1>9, <1>13, <1>15, <2>1
<1>17. PICK z : z = IF ~ r.open /\ r.type = "chunk" THEN r.body[1] ELSE size
  OBVIOUS
<1>18. w[2].size = z /\ z \in Nat \ {0}
  BY <1>12, <1>13, <1>14, <1>17 DEF NextSize
<1>19. PICK ds : ds = [cs EXCEPT ![c] = Taken(r)]
  OBVIOUS
<1>20. At(ds, z, k, w[2])
  <2>1. DOMAIN ds = Cids /\ ds[c] = Taken(r) /\ \A x \in Cids \ {c} : ds[x] = cs[x]
    BY <1>9, <1>19
  <2>2. \A x \in Cids : Match(ds[x], w[2].tx[x])
    BY <1>9, <1>12, <1>13, <2>1
  <2> QED
    BY <1>16, <1>18, <2>1, <2>2 DEF At
<1> DEFINE y == [j \in 1 .. l + 1 |-> w[j + 1]]
<1>21. y[1] = w[2] /\ y[l + 1] = w[(l + 1) + 1] /\ \A j \in 1 .. l : y[j] = w[j + 1] /\ y[j + 1] = w[(j + 1) + 1]
  <2>1. 1 \in 1 .. l + 1 /\ l + 1 \in 1 .. l + 1 /\ \A j \in 1 .. l : j \in 1 .. l + 1 /\ j + 1 \in 1 .. l + 1
    OBVIOUS
  <2> QED
    BY <2>1
<1> HIDE DEF y
<1>22. Trail(may, dn, rest, ds, z, k, b, S, f, y)
  <2>1. y[Len(f) + 1] = b
    BY <1>1, <1>3, <1>4, <1>21
  <2>2. ASSUME NEW j \in 1 .. Len(f)
        PROVE  Link(may, dn, y[j], f[j], y[j + 1])
    <3>1. j \in 1 .. l /\ j + 1 \in 1 .. Len(e)
      BY <1>3, <1>4
    <3>2. Link(may, dn, w[j + 1], e[j + 1], w[(j + 1) + 1])
      BY <3>1 DEF Trail
    <3> QED
      BY <1>4, <1>21, <3>1, <3>2
  <2> QED
    BY <1>4, <1>5, <1>20, <1>21, <2>1, <2>2 DEF Trail
<1>23. Behind(may, dn, rest, ds, z, k, b)
  BY <1>22, Zenon DEF Behind
<1>24. ~ r.open /\ r.body # << >> => k <= Len(dn) /\ dn[k] = Message(c, r)
  BY <1>12, <1>13, <1>14, <1>16
<1>25. ~ r.open /\ r.body = << >> => may.empty /\ r.type # "chunk"
  BY <1>12, <1>13, <1>14
<1> QED
  BY ONLY <1>11, <1>12, <1>14, <1>15, <1>17, <1>19, <1>23, <1>24, <1>25, c \in Cids DEF ReadsOne

\* A chunk that goes on with a message begins with a header of its stream,
LEMMA GoesFront ==
    ASSUME NEW S, NEW rest \in Seq(S), NEW c, NEW t, TxOK(t), NEW size \in Nat \ {0},
           NEW ch, NEW u, GoesOn(c, t, size, ch, u)
    PROVE  ch \o rest # << >> /\ (ch \o rest)[1].cid = c
<1> PICK h, x :
       /\ t.left # << >> /\ h.cid = c
       /\ x = Extended(t.delta) \/ x = << >>
       /\ ch = (<<h>> \o x) \o Uniform(ByteOf(t.body[1]), smaller(Len(t.left), size))
  BY DEF GoesOn
<1>1. PICK n, v, d : n = smaller(Len(t.left), size) /\ v = ByteOf(t.body[1]) /\ d = t.delta
  OBVIOUS
<1>2. n \in Nat
  BY <1>1 DEF TxOK, smaller
<1>3. PICK T : T = S \cup {h, ExtOf(d), v}
  OBVIOUS
<1>4. h \in T /\ ExtOf(d) \in T /\ v \in T /\ rest \in Seq(T)
  BY <1>3, SeqWider
<1>5. x \in Seq(T)
  BY <1>1, <1>4, ExtendedSeq
<1>6. PICK q \in Seq(T) : q = Uniform(v, n)
  BY ONLY <1>2, <1>4, UniformSeq, Zenon
<1>7. Begins(((<<h>> \o x) \o q) \o rest, h, x \o (q \o rest))
  BY ONLY <1>4, <1>5, <1>6, HeadRead, Zenon
<1>8. ch \o rest = ((<<h>> \o x) \o q) \o rest
  BY <1>1, <1>6
<1> QED
  BY ONLY <1>7, <1>8, h.cid = c DEF Begins

\* and, if it repeats the extended timestamp, that comes next.
LEMMA RepeatsFront ==
    ASSUME NEW S, NEW rest \in Seq(S), NEW t, TxOK(t), t.left # << >>,
           NEW ch, Repeats(t, ch), t.delta >= ExtTs
    PROVE  Tail(ch \o rest)[1].k = "ext"
<1>1. PICK h, v, n, d : /\ n \in Nat /\ d = t.delta
                        /\ ch = (<<h>> \o Extended(d)) \o Uniform(v, n)
  BY DEF Repeats
<1>2. Extended(d) = <<ExtOf(d)>>
  <2>1. d \in Int /\ ExtTs \in Int /\ ~ (d < ExtTs)
    BY <1>1, ChunkAssumption DEF TxOK, ChunkAssumption
  <2> QED
    BY ONLY <2>1 DEF Extended, ExtOf
<1>3. PICK T : T = S \cup {h, ExtOf(d), v}
  OBVIOUS
<1>4. h \in T /\ ExtOf(d) \in T /\ v \in T /\ rest \in Seq(T)
  BY <1>3, SeqWider
<1>5. PICK x \in Seq(T) : x = <<ExtOf(d)>>
  <2>1. <<ExtOf(d)>> \in Seq(T)
    BY ONLY <1>4
  <2> QED
    BY ONLY <2>1
<1>6. PICK q \in Seq(T) : q = Uniform(v, n)
  BY ONLY <1>1, <1>4, UniformSeq, Zenon
<1>7. Begins(((<<h>> \o x) \o q) \o rest, h, x \o (q \o rest))
  BY ONLY <1>4, <1>5, <1>6, HeadRead, Zenon
<1>8. ch \o rest = ((<<h>> \o x) \o q) \o rest
  BY <1>1, <1>2, <1>5, <1>6
<1>9. Tail(ch \o rest) = x \o (q \o rest)
  BY ONLY <1>7, <1>8 DEF Begins
<1>10. PICK w \in Seq(T) : w = q \o rest
  <2>1. q \o rest \in Seq(T)
    BY ONLY <1>4, q \in Seq(T)
  <2> QED
    BY ONLY <2>1
<1>11. (x \o w)[1] = ExtOf(d)
  BY ONLY <1>4, <1>5, <1>10
<1>12. ExtOf(d).k = "ext"
  BY DEF ExtOf
<1> QED
  BY ONLY <1>9, <1>10, <1>11, <1>12

\* No payload is taken for a timestamp while the writer omits none.
LEMMA BehindRight ==
    ASSUME NEW may, NEW dn, NEW in, NEW cs, NEW size, NEW n, NEW b,
           Behind(may, dn, in, cs, size, n, b), in # << >>, ~ may.omits
    PROVE  ~ Misled(cs, in)
<1> PICK S, e, w : Trail(may, dn, in, cs, size, n, b, S, e, w)
  BY DEF Behind
<1>1. e \in Seq(Seq(S)) /\ in = FlattenSeq(e) /\ At(cs, size, n, w[1])
  BY DEF Trail
<1>2. e # << >>
  BY <1>1, FlatEmpty
<1>3. /\ Tail(e) \in Seq(Seq(S)) /\ 1 \in 1 .. Len(e) /\ 1 + 1 = 2
  BY <1>1, <1>2
<1>4. PICK rest \in Seq(S) : rest = FlattenSeq(Tail(e))
  BY <1>3, FlatType
<1>5. PICK ch : ch = e[1] /\ in = ch \o rest
  BY <1>1, <1>2, <1>4, FlatHead
<1>6. PICK c \in Cids : LinkOn(c, may, dn, w[1], e[1], w[2], w[2].tx[c])
  BY <1>3 DEF Trail, Link
<1>7. PICK t, u : t = w[1].tx[c] /\ u = w[2].tx[c]
  OBVIOUS
<1>8. Match(cs[c], t) /\ w[1].size = size /\ size \in Nat \ {0}
  BY <1>1, <1>7 DEF At
<1>9. Repeats(t, ch) /\ (Starts(c, t, size, ch, u) \/ GoesOn(c, t, size, ch, u))
  BY <1>5, <1>6, <1>7, <1>8 DEF LinkOn
<1>10. TxOK(t)
  BY ONLY <1>8 DEF Match
<1>11. CASE Starts(c, t, size, ch, u)
  <2>1. Reads(cs, size, ch \o rest, rest, c, u)
    BY ONLY <1>8, <1>11, rest \in Seq(S), ReadStart, Zenon
  <2>2. in[1].cid = c
    BY ONLY <1>5, <2>1 DEF Reads
  <2>3. cs[c].open = FALSE
    <3>1. t.left = << >>
      BY ONLY <1>11 DEF Starts, StartsAs
    <3> QED
      BY ONLY <1>8, <3>1 DEF Match
  <2> QED
    BY ONLY <2>2, <2>3 DEF Misled, Misleading
<1>12. CASE GoesOn(c, t, size, ch, u)
  <2>1. in[1].cid = c
    BY ONLY <1>5, <1>8, <1>10, <1>12, rest \in Seq(S), GoesFront
  <2>2. t.left # << >> /\ t.fresh = FALSE
    BY ONLY <1>10, <1>12 DEF GoesOn, TxOK
  <2>3. cs[c].has_ext = (t.delta >= ExtTs)
    BY ONLY <1>8, <2>2 DEF Match, Knows
  <2>4. CASE t.delta >= ExtTs
    <3>1. Tail(in)[1].k = "ext"
      BY ONLY <1>5, <1>9, <1>10, <2>2, <2>4, rest \in Seq(S), RepeatsFront
    <3> QED
      BY ONLY <2>1, <3>1 DEF Misled, Misleading
  <2>5. CASE ~ (t.delta >= ExtTs)
    BY ONLY <2>1, <2>3, <2>5 DEF Misled, Misleading
  <2> QED
    BY <2>4, <2>5
<1> QED
  BY <1>9, <1>11, <1>12

-----------------------------------------------------------------------------
(* do_send_messages, chunk by chunk.                                          *)

\* A message the server sends.
Sendable(m) ==
    /\ m = [cid |-> m.cid, type |-> m.type, ts |-> m.ts, sid |-> m.sid, body |-> m.body]
    /\ m.cid \in Cids /\ m.ts \in 0 .. TsMod - 1
    /\ Len(m.body) \in Nat \ {0} /\ m.body = Uniform(m.body[1], Len(m.body))
    /\ m.type = "chunk" => m.body[1] \in Nat \ {0}

Cut(m, s, i) ==
    chunk_header(m, i = 1) \o Payload(SubSeq(m.body, (i - 1) * s + 1, smaller(i * s, Len(m.body))))

\* The number of chunks that do_send_messages computes is enough and not too large.
LEMMA Ceiling ==
    ASSUME NEW L \in Nat \ {0}, NEW s \in Nat \ {0}, NEW N, N = (L + s - 1) \div s
    PROVE  /\ N \in Nat \ {0} /\ N * s >= L
           /\ \A i \in 1 .. N - 1 : i * s < L
<1>1. N \in Int /\ N * s <= L + s - 1 /\ L + s - 1 < N * s + s
  OBVIOUS
<1>2. N * s >= L
  BY <1>1
<1>3. N >= 1
  <2> SUFFICES ASSUME N <= 0 PROVE FALSE
    BY <1>1
  <2>1. N * s <= 0
    BY <1>1
  <2> QED
    BY <1>2, <2>1
<1>4. ASSUME NEW i \in 1 .. N - 1
      PROVE  i * s < L
  <2>1. i + 1 <= N
    BY <1>1
  <2>2. (i + 1) * s <= N * s
    <3>1. PICK d \in Nat : N = (i + 1) + d
      <4>1. N - (i + 1) \in Nat /\ N = (i + 1) + (N - (i + 1))
        BY ONLY <1>1, <2>1, i \in 1 .. N - 1
      <4> QED
        BY ONLY <4>1
    <3>2. N * s = (i + 1) * s + d * s
      BY <3>1
    <3>3. d * s >= 0
      OBVIOUS
    <3> QED
      BY <3>2, <3>3
  <2>3. (i + 1) * s = i * s + s
    OBVIOUS
  <2> QED
    BY <1>1, <2>2, <2>3
<1> QED
  BY <1>1, <1>2, <1>3, <1>4

\* The server's chunk streams and its position once a bytes of the message are written.
After(m, tx0, a) ==
    [c \in Cids |-> IF c = m.cid
                    THEN [fresh |-> FALSE, ts |-> m.ts, delta |-> m.ts, len |-> Len(m.body),
                          type |-> m.type, sid |-> m.sid,
                          left |-> Uniform(m.body[1], Len(m.body) - a), body |-> m.body]
                    ELSE tx0[c]]
Pos(m, tx0, s, k, a) ==
    [tx |-> After(m, tx0, a),
     size |-> IF a = Len(m.body) /\ m.type = "chunk" THEN m.body[1] ELSE s,
     n |-> IF a = Len(m.body) THEN k + 1 ELSE k]

\* A chunk of the message with a header of type fmt, after a bytes of it.
CutOf(m, s, ch, fmt, a) ==
    ch = (<<HeadToken(fmt, m.cid, m.ts, Len(m.body), m.type, m.sid)>> \o Extended(m.ts))
         \o Uniform(ByteOf(m.body[1]), smaller(Len(m.body) - a, s))

TokensOf(m) ==
    {HeadToken(fmt, m.cid, m.ts, Len(m.body), m.type, m.sid) : fmt \in {0, 3}}
    \cup {ExtOf(m.ts), ByteOf(m.body[1])}

\* The i-th chunk, from the bytes that are left before it.
LEMMA CutIs ==
    ASSUME NEW m, Sendable(m), NEW s \in Nat \ {0}, NEW i \in Nat \ {0}, NEW a \in Nat,
           a = (i - 1) * s, a < Len(m.body), NEW fmt, fmt = IF i = 1 THEN 0 ELSE 3
    PROVE  CutOf(m, s, Cut(m, s, i), fmt, a) /\ Cut(m, s, i) \in Seq(TokensOf(m))
<1> DEFINE v == m.body[1]
           n == smaller(Len(m.body) - a, s)
           h == HeadToken(fmt, m.cid, m.ts, Len(m.body), m.type, m.sid)
<1>1. PICK L \in Nat \ {0} : L = Len(m.body)
  BY DEF Sendable
<1>2. i * s = a + s
  OBVIOUS
<1>3. smaller(i * s, L) = a + n /\ n \in 1 .. L - a
  <2>1. smaller(i * s, L) = IF a + s < L THEN a + s ELSE L
    BY <1>2 DEF smaller
  <2>2. n = IF L - a < s THEN L - a ELSE s
    BY <1>1 DEF smaller
  <2>3. a < L
    BY <1>1
  <2> HIDE DEF n
  <2> QED
    BY ONLY <2>1, <2>2, <2>3, a \in Nat, L \in Nat \ {0}, s \in Nat \ {0}
<1>4. chunk_header(m, i = 1) = <<h>> \o Extended(m.ts)
  BY DEF chunk_header, Header, HeadToken, Short
<1>5. Payload(SubSeq(m.body, a + 1, a + n)) = Uniform(ByteOf(v), n)
  <2>1. SubSeq(Uniform(v, L), a + 1, a + n) = Uniform(v, (a + n) - (a + 1) + 1)
    <3>1. a + 1 \in 1 .. L + 1 /\ a + n \in (a + 1) - 1 .. L
      <4> HIDE DEF n
      <4> QED
        BY ONLY <1>3, a \in Nat, L \in Nat \ {0}
    <3> QED
      BY ONLY <3>1, L \in Nat \ {0}, UniformPart
  <2>2. (a + n) - (a + 1) + 1 = n /\ n \in Nat
    <3> HIDE DEF n
    <3> QED
      BY ONLY <1>3, a \in Nat, L \in Nat \ {0}
  <2>3. m.body = Uniform(v, L)
    BY <1>1 DEF Sendable
  <2> HIDE DEF n, v
  <2>4. SubSeq(m.body, a + 1, a + n) = Uniform(v, n)
    BY ONLY <2>1, <2>2, <2>3
  <2> QED
    BY <2>2, <2>4, UniformPayload
<1>6. Cut(m, s, i) = (<<h>> \o Extended(m.ts)) \o Uniform(ByteOf(v), n)
  <2> HIDE DEF h, n, v
  <2> QED
    BY <1>1, <1>3, <1>4, <1>5 DEF Cut
<1>7. Cut(m, s, i) \in Seq(TokensOf(m))
  <2> DEFINE S == TokensOf(m)
  <2>1. h \in S /\ ExtOf(m.ts) \in S /\ ByteOf(v) \in S
    BY DEF TokensOf
  <2> HIDE DEF S, h
  <2> HIDE DEF n, v
  <2>2. n \in Nat
    BY ONLY <1>3
  <2>3. Uniform(ByteOf(v), n) \in Seq(S)
    BY ONLY <2>1, <2>2, UniformSeq, Zenon
  <2>4. Extended(m.ts) \in Seq(S) /\ <<h>> \in Seq(S)
    BY <2>1, ExtendedSeq
  <2>5. <<h>> \o Extended(m.ts) \in Seq(S)
    BY ONLY <2>4
  <2>6. (<<h>> \o Extended(m.ts)) \o Uniform(ByteOf(v), n) \in Seq(S)
    BY ONLY <2>3, <2>5
  <2> QED
    BY <1>6, <2>6 DEF S
<1> QED
  BY <1>6, <1>7 DEF CutOf



\* No chunk of any message is under way.
Idle(tx0) == \A c \in Cids : tx0[c].left = << >>

\* The position after a bytes of the message, whose writer has so much of it left.
PosOf(m, tx0, s, k, a, p, u) ==
    /\ u = [fresh |-> FALSE, ts |-> m.ts, delta |-> m.ts, len |-> Len(m.body),
            type |-> m.type, sid |-> m.sid,
            left |-> Uniform(m.body[1], Len(m.body) - a), body |-> m.body]
    /\ \A c \in Cids \ {m.cid} : p.tx[c] = tx0[c]
    /\ (u.left = << >>) <=> (a = Len(m.body))
    /\ Len(u.left) = Len(m.body) - a
    /\ p.size = NextSize(u, s) /\ u.body # << >>
    /\ p.n = IF a = Len(m.body) THEN k + 1 ELSE k
    /\ MsgOf(m.cid, u) = m

\* The writer after i chunks, field by field.
LEMMA PosIs ==
    ASSUME NEW m, Sendable(m), NEW tx0, NEW s, NEW k \in Nat, NEW a \in 0 .. Len(m.body),
           NEW p, p = Pos(m, tx0, s, k, a), NEW u, u = p.tx[m.cid]
    PROVE  PosOf(m, tx0, s, k, a, p, u)
<1>1. m.cid \in Cids /\ Len(m.body) \in Nat \ {0}
  BY DEF Sendable
<1>4. /\ u = [fresh |-> FALSE, ts |-> m.ts, delta |-> m.ts, len |-> Len(m.body),
              type |-> m.type, sid |-> m.sid,
              left |-> Uniform(m.body[1], Len(m.body) - a), body |-> m.body]
      /\ \A c \in Cids \ {m.cid} : p.tx[c] = tx0[c]
  BY <1>1 DEF Pos, After
<1>5. Len(m.body) - a \in Nat
  BY <1>1
<1>6. Len(u.left) = Len(m.body) - a /\ ((u.left = << >>) <=> (a = Len(m.body)))
  BY <1>4, <1>5, <1>1, UniformLen, UniformEmpty
<1>7. p.size = NextSize(u, s)
  BY <1>4, <1>6 DEF Pos, NextSize
<1>8. p.n = IF a = Len(m.body) THEN k + 1 ELSE k
  BY DEF Pos
<1>9. u.body # << >> /\ MsgOf(m.cid, u) = m
  BY <1>1, <1>4 DEF MsgOf, Sendable
<1> QED
  BY ONLY <1>4, <1>6, <1>7, <1>8, <1>9 DEF PosOf

\* From then on only the rest of the message changes.
LEMMA LeftOnly ==
    ASSUME NEW t, IsTx(t), NEW x
    PROVE  [t EXCEPT !.left = x] =
             [fresh |-> t.fresh, ts |-> t.ts, delta |-> t.delta, len |-> t.len,
              type |-> t.type, sid |-> t.sid, left |-> x, body |-> t.body]
<1>1. DOMAIN t = {"fresh", "ts", "delta", "len", "type", "sid", "left", "body"}
  BY DEF IsTx
<1> QED
  BY <1>1

\* A chunk of the message leads from one position to the next.
LEMMA LinkPos ==
    ASSUME NEW m, Sendable(m), NEW s \in Nat \ {0}, NEW tx0, NEW k \in Nat,
           NEW dn, k + 1 <= Len(dn), dn[k + 1] = m, NEW may,
           NEW b \in 0 .. Len(m.body), NEW p, p.size = s, p.n = k, NEW ch,
           \A c \in Cids \ {m.cid} : p.tx[c] = tx0[c],
           \/ Starts(m.cid, p.tx[m.cid], s, ch, Pos(m, tx0, s, k, b).tx[m.cid])
           \/ GoesOn(m.cid, p.tx[m.cid], s, ch, Pos(m, tx0, s, k, b).tx[m.cid]),
           Repeats(p.tx[m.cid], ch)
    PROVE  Link(may, dn, p, ch, Pos(m, tx0, s, k, b))
<1>1. m.cid \in Cids /\ Len(m.body) \in Nat \ {0} /\ (m.type = "chunk" => m.body[1] \in Nat \ {0})
  BY DEF Sendable
<1>2. PICK q : q = Pos(m, tx0, s, k, b)
  OBVIOUS
<1>3. PICK u : u = q.tx[m.cid]
  OBVIOUS
<1>4. /\ u = [fresh |-> FALSE, ts |-> m.ts, delta |-> m.ts, len |-> Len(m.body),
              type |-> m.type, sid |-> m.sid,
              left |-> Uniform(m.body[1], Len(m.body) - b), body |-> m.body]
      /\ \A c \in Cids \ {m.cid} : q.tx[c] = tx0[c]
      /\ (u.left = << >>) <=> (b = Len(m.body))
      /\ q.size = NextSize(u, s) /\ u.body # << >>
      /\ q.n = IF b = Len(m.body) THEN k + 1 ELSE k
      /\ MsgOf(m.cid, u) = m
  <2>1. PosOf(m, tx0, s, k, b, q, u)
    BY <1>2, <1>3, PosIs, Zenon
  <2> QED
    BY ONLY <2>1 DEF PosOf
<1>5. q.size \in Nat \ {0}
  BY <1>1, <1>4 DEF NextSize
<1>6. \A c \in Cids \ {m.cid} : q.tx[c] = p.tx[c]
  BY <1>4
<1>7. IF u.left = << >> /\ u.body # << >>
      THEN q.n = p.n + 1 /\ q.n <= Len(dn) /\ dn[q.n] = MsgOf(m.cid, u) ELSE q.n = p.n
  BY <1>4
<1>8. Starts(m.cid, p.tx[m.cid], p.size, ch, u) \/ GoesOn(m.cid, p.tx[m.cid], p.size, ch, u)
  BY ONLY <1>2, <1>3, p.size = s,
          \/ Starts(m.cid, p.tx[m.cid], s, ch, Pos(m, tx0, s, k, b).tx[m.cid])
          \/ GoesOn(m.cid, p.tx[m.cid], s, ch, Pos(m, tx0, s, k, b).tx[m.cid])
<1>9. q.size = NextSize(u, p.size) /\ p.n \in Nat /\ u.body # << >>
  BY <1>4
<1>10. LinkOn(m.cid, may, dn, p, ch, q, u)
  BY ONLY <1>5, <1>6, <1>7, <1>8, <1>9, Repeats(p.tx[m.cid], ch) DEF LinkOn
<1> QED
  BY <1>1, <1>2, <1>3, <1>10 DEF Link

\* So does the first one,
LEMMA CutFirst ==
    ASSUME NEW m, Sendable(m), NEW s \in Nat \ {0}, NEW tx0, Idle(tx0), NEW k \in Nat,
           NEW dn, k + 1 <= Len(dn), dn[k + 1] = m, NEW may, NEW p,
           p = [tx |-> tx0, size |-> s, n |-> k], NEW b, b = smaller(Len(m.body), s)
    PROVE  Link(may, dn, p, Cut(m, s, 1), Pos(m, tx0, s, k, b))
<1>1. /\ m.cid \in Cids /\ Len(m.body) \in Nat \ {0} /\ m.ts \in 0 .. TsMod - 1
      /\ m.body = Uniform(m.body[1], Len(m.body))
  BY DEF Sendable
<1>2. b \in 0 .. Len(m.body)
  BY <1>1 DEF smaller
<1>a. PICK q : q = Pos(m, tx0, s, k, b)
  OBVIOUS
<1>3. PICK u : u = q.tx[m.cid]
  OBVIOUS
<1>4. u = [fresh |-> FALSE, ts |-> m.ts, delta |-> m.ts, len |-> Len(m.body),
           type |-> m.type, sid |-> m.sid,
           left |-> Uniform(m.body[1], Len(m.body) - b), body |-> m.body]
  <2>1. PosOf(m, tx0, s, k, b, q, u)
    BY <1>2, <1>3, <1>a, PosIs, Zenon
  <2> QED
    BY ONLY <2>1 DEF PosOf
<1>5. Cut(m, s, 1) = (<<HeadToken(0, m.cid, m.ts, Len(m.body), m.type, m.sid)>> \o Extended(m.ts))
                     \o Uniform(ByteOf(m.body[1]), b)
  <2>1. 1 \in Nat \ {0} /\ 0 \in Nat /\ 0 = (1 - 1) * s /\ 0 < Len(m.body) /\ Len(m.body) - 0 = Len(m.body)
    BY <1>1
  <2> QED
    <3>1. 0 = IF 1 = 1 THEN 0 ELSE 3
      OBVIOUS
    <3>2. CutOf(m, s, Cut(m, s, 1), 0, 0)
      BY ONLY <2>1, <3>1, Sendable(m), s \in Nat \ {0}, CutIs, Zenon
    <3> QED
      BY ONLY <2>1, <3>2, b = smaller(Len(m.body), s) DEF CutOf
<1>6. tx0[m.cid].left = << >>
  BY <1>1 DEF Idle
<1>7. StartsAs(m.cid, tx0[m.cid], s, Cut(m, s, 1), u, 0, m.ts, Len(m.body), m.type, m.body[1], m.sid)
  <2>1. b = smaller(Len(m.body), s)
    OBVIOUS
  <2>2. u = [fresh |-> FALSE, ts |-> m.ts, delta |-> m.ts, len |-> Len(m.body),
             type |-> m.type, sid |-> m.sid, left |-> Uniform(m.body[1], Len(m.body) - b),
             body |-> Uniform(m.body[1], Len(m.body))]
    BY ONLY <1>1, <1>4
  <2> QED
    BY ONLY <1>5, <1>6, <2>1, <2>2 DEF StartsAs
<1>8. Starts(m.cid, tx0[m.cid], s, Cut(m, s, 1), u)
  <2>1. 0 \in 0 .. 3 /\ m.ts \in 0 .. TsMod - 1 /\ Len(m.body) \in Nat
    BY <1>1
  <2> QED
    BY ONLY <1>7, <2>1, Zenon DEF Starts
<1>9. p.tx = tx0 /\ p.size = s /\ p.n = k
  OBVIOUS
<1> QED
  <2>1. Starts(m.cid, p.tx[m.cid], s, Cut(m, s, 1), Pos(m, tx0, s, k, b).tx[m.cid])
    BY <1>3, <1>a, <1>8, <1>9
  <2>2. \A c \in Cids \ {m.cid} : p.tx[c] = tx0[c]
    BY <1>9
  <2>3. Repeats(p.tx[m.cid], Cut(m, s, 1))
    BY <1>6, <1>9 DEF Repeats
  <2> QED
    BY <1>2, <1>9, <2>1, <2>2, <2>3, LinkPos, Zenon

\* and each that follows.
LEMMA CutNext ==
    ASSUME NEW m, Sendable(m), NEW s \in Nat \ {0}, NEW tx0, NEW k \in Nat,
           NEW dn, k + 1 <= Len(dn), dn[k + 1] = m, NEW may,
           NEW i \in Nat \ {0}, NEW a \in Nat, a = i * s, a < Len(m.body),
           NEW b, b = a + smaller(Len(m.body) - a, s)
    PROVE  Link(may, dn, Pos(m, tx0, s, k, a), Cut(m, s, i + 1), Pos(m, tx0, s, k, b))
<1>1. /\ m.cid \in Cids /\ Len(m.body) \in Nat \ {0} /\ m.ts \in 0 .. TsMod - 1
      /\ m.body = Uniform(m.body[1], Len(m.body))
  BY DEF Sendable
<1>2. b \in 0 .. Len(m.body) /\ a \in 0 .. Len(m.body)
  <2>1. PICK L \in Nat : L = Len(m.body)
    BY <1>1
  <2>2. smaller(L - a, s) \in 0 .. L - a
    BY ONLY <2>1, a \in Nat, a < Len(m.body), s \in Nat \ {0} DEF smaller
  <2> QED
    BY ONLY <2>1, <2>2, a \in Nat, a < Len(m.body), b = a + smaller(Len(m.body) - a, s)
<1>a. PICK q : q = Pos(m, tx0, s, k, b)
  OBVIOUS
<1>3. PICK u : u = q.tx[m.cid]
  OBVIOUS
<1>4. u = [fresh |-> FALSE, ts |-> m.ts, delta |-> m.ts, len |-> Len(m.body),
           type |-> m.type, sid |-> m.sid,
           left |-> Uniform(m.body[1], Len(m.body) - b), body |-> m.body]
  <2>1. PosOf(m, tx0, s, k, b, q, u)
    BY <1>2, <1>3, <1>a, PosIs, Zenon
  <2> QED
    BY ONLY <2>1 DEF PosOf
<1>5. PICK p : p = Pos(m, tx0, s, k, a)
  OBVIOUS
<1>6. PICK t : t = p.tx[m.cid]
  OBVIOUS
<1>7. /\ t = [fresh |-> FALSE, ts |-> m.ts, delta |-> m.ts, len |-> Len(m.body),
              type |-> m.type, sid |-> m.sid,
              left |-> Uniform(m.body[1], Len(m.body) - a), body |-> m.body]
      /\ \A c \in Cids \ {m.cid} : p.tx[c] = tx0[c]
      /\ (t.left = << >>) <=> (a = Len(m.body))
      /\ Len(t.left) = Len(m.body) - a
      /\ p.size = NextSize(t, s)
      /\ p.n = IF a = Len(m.body) THEN k + 1 ELSE k
  <2>1. PosOf(m, tx0, s, k, a, p, t)
    BY <1>2, <1>5, <1>6, PosIs, Zenon
  <2> QED
    BY ONLY <2>1 DEF PosOf
<1>8. t.left # << >> /\ p.size = s /\ p.n = k
  <2>1. a # Len(m.body)
    BY <1>1
  <2> QED
    BY <1>7, <2>1 DEF NextSize
<1>9. PICK h : h = HeadToken(3, m.cid, m.ts, Len(m.body), m.type, m.sid)
  OBVIOUS
<1>10. Cut(m, s, i + 1) = (<<h>> \o Extended(m.ts))
                          \o Uniform(ByteOf(m.body[1]), smaller(Len(m.body) - a, s))
  <2>1. i + 1 \in Nat \ {0} /\ a = ((i + 1) - 1) * s /\ i + 1 # 1
    OBVIOUS
  <2>2. 3 = IF i + 1 = 1 THEN 0 ELSE 3
    BY <2>1
  <2>3. CutOf(m, s, Cut(m, s, i + 1), 3, a)
    BY ONLY <2>1, <2>2, Sendable(m), s \in Nat \ {0}, a \in Nat, a < Len(m.body), CutIs, Zenon
  <2> QED
    BY ONLY <1>9, <2>3 DEF CutOf
<1>11. h.fmt = 3 /\ h.cid = m.cid
  BY <1>9 DEF HeadToken
<1>12. /\ t.delta = m.ts /\ t.body = m.body
       /\ u = [t EXCEPT !.left = Uniform(t.body[1], Len(t.left) - smaller(Len(t.left), s))]
  <2>1. Len(m.body) - b = (Len(m.body) - a) - smaller(Len(m.body) - a, s)
    <3>1. PICK L \in Nat : L = Len(m.body)
      BY ONLY <1>1
    <3>2. smaller(L - a, s) \in Int
      BY ONLY L \in Nat, a \in Nat, s \in Nat \ {0} DEF smaller
    <3>3. PICK x \in Int : x = smaller(L - a, s)
      BY ONLY <3>2
    <3> QED
      BY ONLY <3>1, <3>3, a \in Nat, b = a + smaller(Len(m.body) - a, s)
  <2>2. Len(m.body) - b = Len(t.left) - smaller(Len(t.left), s)
    BY <1>7, <2>1
  <2>3. u = [fresh |-> FALSE, ts |-> m.ts, delta |-> m.ts, len |-> Len(m.body),
             type |-> m.type, sid |-> m.sid,
             left |-> Uniform(m.body[1], Len(t.left) - smaller(Len(t.left), s)), body |-> m.body]
    BY ONLY <1>4, <2>2
  <2>4. t = [fresh |-> FALSE, ts |-> m.ts, delta |-> m.ts, len |-> Len(m.body),
             type |-> m.type, sid |-> m.sid, left |-> t.left, body |-> m.body]
    BY ONLY <1>7
  <2> QED
    <3>1. t.delta = m.ts /\ t.body = m.body
      BY ONLY <2>4
    <3>2. PICK x : x = Uniform(m.body[1], Len(t.left) - smaller(Len(t.left), s))
      OBVIOUS
    <3>3. u = [t EXCEPT !.left = x]
      <4>1. u = [fresh |-> FALSE, ts |-> m.ts, delta |-> m.ts, len |-> Len(m.body),
                 type |-> m.type, sid |-> m.sid, left |-> x, body |-> m.body]
        BY ONLY <2>3, <3>2
      <4>2. PICK y : t = [fresh |-> FALSE, ts |-> m.ts, delta |-> m.ts, len |-> Len(m.body),
                          type |-> m.type, sid |-> m.sid, left |-> y, body |-> m.body]
        BY ONLY <2>4, Zenon
      <4> QED
        <5>1. /\ t.fresh = FALSE /\ t.ts = m.ts /\ t.delta = m.ts /\ t.len = Len(m.body)
              /\ t.type = m.type /\ t.sid = m.sid /\ t.body = m.body /\ IsTx(t)
          BY ONLY <4>2 DEF IsTx
        <5> QED
          <6>1. [t EXCEPT !.left = x] =
                  [fresh |-> t.fresh, ts |-> t.ts, delta |-> t.delta, len |-> t.len,
                   type |-> t.type, sid |-> t.sid, left |-> x, body |-> t.body]
            BY <5>1, LeftOnly
          <6> QED
            BY ONLY <4>1, <5>1, <6>1
    <3> QED
      BY ONLY <3>1, <3>2, <3>3
<1>13. GoesOn(m.cid, t, s, Cut(m, s, i + 1), u)
  <2>1. Cut(m, s, i + 1) = (<<h>> \o Extended(t.delta))
                           \o Uniform(ByteOf(t.body[1]), smaller(Len(t.left), s))
    BY ONLY <1>7, <1>10, <1>12
  <2> QED
    BY ONLY <1>8, <1>11, <1>12, <2>1, Zenon DEF GoesOn
<1>14. Link(may, dn, p, Cut(m, s, i + 1), Pos(m, tx0, s, k, b))
  <2>1. GoesOn(m.cid, p.tx[m.cid], s, Cut(m, s, i + 1), Pos(m, tx0, s, k, b).tx[m.cid])
    BY <1>3, <1>a, <1>6, <1>13
  <2>2. \A c \in Cids \ {m.cid} : p.tx[c] = tx0[c]
    BY <1>7
  <2>3. Repeats(t, Cut(m, s, i + 1))
    <3>1. smaller(Len(t.left), s) \in Nat
      <4>1. Len(t.left) \in Nat
        BY ONLY <1>1, <1>7, a \in Nat, a < Len(m.body)
      <4> QED
        BY ONLY <4>1, s \in Nat \ {0} DEF smaller
    <3>2. Cut(m, s, i + 1) = (<<h>> \o Extended(t.delta))
                             \o Uniform(ByteOf(t.body[1]), smaller(Len(t.left), s))
      BY ONLY <1>7, <1>10, <1>12
    <3> QED
      BY ONLY <3>1, <3>2 DEF Repeats
  <2>4. Repeats(p.tx[m.cid], Cut(m, s, i + 1))
    BY <1>3, <1>a, <1>6, <2>3
  <2> QED
    BY <1>2, <1>8, <2>1, <2>2, <2>4, LinkPos, Zenon
<1> QED
  BY <1>5, <1>14

Written(m, s, i) == FlattenSeq([j \in 1 .. i |-> Cut(m, s, j)])

\* One more chunk of a message.
LEMMA WrittenGrows ==
    ASSUME NEW m, NEW s, NEW S, NEW i \in Nat, \A j \in 1 .. i + 1 : Cut(m, s, j) \in Seq(S)
    PROVE  /\ Written(m, s, 0) = << >> /\ Written(m, s, i) \in Seq(S)
           /\ Written(m, s, i + 1) = Written(m, s, i) \o Cut(m, s, i + 1)
<1>1. PICK e : e = [j \in 1 .. i |-> Cut(m, s, j)]
  OBVIOUS
<1>2. e \in Seq(Seq(S))
  BY <1>1
<1>3. [j \in 1 .. i + 1 |-> Cut(m, s, j)] = Append(e, Cut(m, s, i + 1))
  <2>1. PICK f : f = [j \in 1 .. i + 1 |-> Cut(m, s, j)]
    OBVIOUS
  <2>2. f \in Seq(Seq(S)) /\ Len(f) = i + 1 /\ \A j \in 1 .. i + 1 : f[j] = Cut(m, s, j)
    BY <2>1
  <2>3. PICK g : g = Append(e, Cut(m, s, i + 1))
    OBVIOUS
  <2>4. Len(e) = i /\ \A j \in 1 .. i : e[j] = Cut(m, s, j)
    BY <1>1
  <2>5. Cut(m, s, i + 1) \in Seq(S)
    OBVIOUS
  <2>6. g \in Seq(Seq(S)) /\ Len(g) = i + 1 /\ \A j \in 1 .. i + 1 : g[j] = Cut(m, s, j)
    BY <1>2, <2>3, <2>4, <2>5
  <2>7. f = g
    BY ONLY <2>2, <2>6, SeqEqual
  <2> QED
    BY ONLY <2>1, <2>3, <2>7
<1>4. Cut(m, s, i + 1) \in Seq(S)
  OBVIOUS
<1>5. FlattenSeq(Append(e, Cut(m, s, i + 1))) = FlattenSeq(e) \o Cut(m, s, i + 1)
  BY ONLY <1>2, <1>4, FlatAppend
<1>6. Written(m, s, i) = FlattenSeq(e) /\ FlattenSeq(e) \in Seq(S)
  BY <1>1, <1>2, FlatType DEF Written
<1>7. Written(m, s, i + 1) = FlattenSeq(e) \o Cut(m, s, i + 1)
  BY ONLY <1>3, <1>5 DEF Written
<1>8. [j \in 1 .. 0 |-> Cut(m, s, j)] = << >>
  OBVIOUS
<1>9. Written(m, s, 0) = << >>
  BY ONLY <1>8, FlatEmpty DEF Written
<1> QED
  BY <1>6, <1>7, <1>9

\* How much of L bytes is written with the i-th of N chunks.
Upto(L, s, N, i) == IF i < N THEN i * s ELSE L

\* Where the next chunk ends.
LEMMA UptoNext ==
    ASSUME NEW L \in Nat \ {0}, NEW s \in Nat \ {0}, NEW N \in Nat \ {0}, N * s >= L,
           \A i \in 1 .. N - 1 : i * s < L
    PROVE  /\ Upto(L, s, N, 1) = smaller(L, s)
           /\ \A i \in 1 .. N - 1 :
                 /\ Upto(L, s, N, i) = i * s /\ i * s < L /\ i * s \in Nat
                 /\ Upto(L, s, N, i + 1) = i * s + smaller(L - i * s, s)
<1>1. Upto(L, s, N, 1) = smaller(L, s)
  <2>1. CASE 1 < N
    <3>1. 1 * s < L /\ 1 * s = s
      BY <2>1
    <3> QED
      BY <2>1, <3>1 DEF Upto, smaller
  <2>2. CASE N = 1
    <3>1. s >= L
      BY <2>2
    <3> QED
      BY <2>2, <3>1 DEF Upto, smaller
  <2> QED
    BY <2>1, <2>2
<1>2. ASSUME NEW i \in 1 .. N - 1
      PROVE  /\ Upto(L, s, N, i) = i * s /\ i * s < L /\ i * s \in Nat
             /\ Upto(L, s, N, i + 1) = i * s + smaller(L - i * s, s)
  <2>1. i * s \in Nat /\ i * s < L /\ i < N
    OBVIOUS
  <2>2. PICK a \in Nat : a = i * s
    BY <2>1
  <2>3. (i + 1) * s = a + s
    BY <2>2
  <2>4. Upto(L, s, N, i + 1) = a + smaller(L - a, s)
    <3>1. CASE i + 1 < N
      <4>1. a + s < L
        BY <2>3, <3>1
      <4>2. smaller(L - a, s) = s
        BY ONLY <4>1, a \in Nat, s \in Nat \ {0}, L \in Nat \ {0} DEF smaller
      <4> QED
        BY <2>3, <3>1, <4>2 DEF Upto
    <3>2. CASE i + 1 = N
      <4>1. a + s >= L
        BY <2>3, <3>2
      <4>2. smaller(L - a, s) = L - a
        BY ONLY <4>1, a \in Nat, s \in Nat \ {0}, L \in Nat \ {0} DEF smaller
      <4> QED
        BY <3>2, <4>2 DEF Upto
    <3> QED
      BY <3>1, <3>2
  <2> QED
    BY <2>1, <2>2, <2>4 DEF Upto
<1> QED
  BY <1>1, <1>2

\* The chunks of a message are sequences of its tokens,
LEMMA CutsAre ==
    ASSUME NEW m, Sendable(m), NEW s \in Nat \ {0},
           NEW N, N = (Len(m.body) + s - 1) \div s
    PROVE  \A j \in 1 .. N : Cut(m, s, j) \in Seq(TokensOf(m))
<1>1. PICK L \in Nat \ {0} : L = Len(m.body)
  BY DEF Sendable
<1>3. N \in Nat \ {0} /\ N * s >= L /\ \A i \in 1 .. N - 1 : i * s < L
  BY <1>1, Ceiling
<1>4. \A i \in 1 .. N - 1 : i * s < L /\ i * s \in Nat
  BY ONLY <1>3, L \in Nat \ {0}, s \in Nat \ {0}, UptoNext
<1>6. ASSUME NEW j \in 1 .. N
      PROVE  Cut(m, s, j) \in Seq(TokensOf(m))
  <2>1. j \in Nat \ {0} /\ (j - 1) * s \in Nat /\ (j - 1) * s < Len(m.body)
    <3>1. CASE j = 1
      BY <1>1, <3>1
    <3>2. CASE j # 1
      <4>1. j - 1 \in 1 .. N - 1
        BY ONLY <1>3, <3>2, j \in 1 .. N
      <4> QED
        <5>1. (j - 1) * s < L /\ (j - 1) * s \in Nat
          BY ONLY <1>4, <4>1
        <5> QED
          BY ONLY <1>1, <5>1, j \in 1 .. N, <1>3
    <3> QED
      BY <3>1, <3>2
  <2>2. PICK a \in Nat, fmt \in {0, 3} : a = (j - 1) * s /\ fmt = IF j = 1 THEN 0 ELSE 3
    BY <2>1
  <2>3. Cut(m, s, j) \in Seq(TokensOf(m))
    BY ONLY <2>1, <2>2, Sendable(m), s \in Nat \ {0}, CutIs
  <2> QED
    BY <2>3
<1> QED
  BY <1>6

\* and so is what do_send_messages writes.
LEMMA SentTokens ==
    ASSUME NEW m, Sendable(m), NEW s \in Nat \ {0}
    PROVE  do_send_messages(m, s) \in Seq(TokensOf(m))
<1>1. PICK N : N = (Len(m.body) + s - 1) \div s
  OBVIOUS
<1>2. PICK e : e = [i \in 1 .. N |-> Cut(m, s, i)]
  OBVIOUS
<1>3. N \in Nat
  <2>1. Len(m.body) \in Nat \ {0}
    BY DEF Sendable
  <2> QED
    BY <1>1, <2>1, Ceiling
<1>4. e \in Seq(Seq(TokensOf(m)))
  <2>1. \A j \in 1 .. N : Cut(m, s, j) \in Seq(TokensOf(m))
    BY <1>1, CutsAre
  <2> QED
    BY <1>2, <1>3, <2>1
<1>5. do_send_messages(m, s) = FlattenSeq(e)
  BY <1>1, <1>2 DEF do_send_messages, Cut
<1> QED
  BY <1>4, <1>5, FlatType

\* The writer is idle, with chunks of s bytes and after k messages.
IdleBehind(may, dn, in, cs, size, n, s, k) ==
    \E p : /\ Behind(may, dn, in, cs, size, n, p)
           /\ p = [tx |-> p.tx, size |-> s, n |-> k] /\ Idle(p.tx)

\* What the server writes leaves no chunk under way, and its chunk size as it is then.
LEMMA WriteMessage ==
    ASSUME NEW may, NEW dn, NEW in, NEW cs, NEW size, NEW n, NEW s \in Nat \ {0},
           NEW k \in Nat, IdleBehind(may, dn, in, cs, size, n, s, k), NEW m, Sendable(m), k + 1 <= Len(dn), dn[k + 1] = m
    PROVE  IdleBehind(may, dn, in \o do_send_messages(m, s), cs, size, n,
                      IF m.type = "chunk" THEN m.body[1] ELSE s, k + 1)
<1> PICK tx0 : Idle(tx0) /\ Behind(may, dn, in, cs, size, n, [tx |-> tx0, size |-> s, n |-> k])
  BY DEF IdleBehind
<1>1. PICK L \in Nat \ {0} : L = Len(m.body)
  BY DEF Sendable
<1>2. PICK N : N = (L + s - 1) \div s
  OBVIOUS
<1>3. N \in Nat \ {0} /\ N * s >= L /\ \A i \in 1 .. N - 1 : i * s < L
  BY <1>2, Ceiling
<1>4. /\ Upto(L, s, N, 1) = smaller(L, s)
      /\ \A i \in 1 .. N - 1 :
            /\ Upto(L, s, N, i) = i * s /\ i * s < L /\ i * s \in Nat
            /\ Upto(L, s, N, i + 1) = i * s + smaller(L - i * s, s)
  BY ONLY <1>3, L \in Nat \ {0}, s \in Nat \ {0}, UptoNext
<1>5. PICK S : in \in Seq(S) /\ TokensOf(m) \subseteq S
  <2>1. PICK T, e, w : Trail(may, dn, in, cs, size, n, [tx |-> tx0, size |-> s, n |-> k], T, e, w)
    BY DEF Behind
  <2>2. in \in Seq(T)
    BY <2>1, FlatType DEF Trail
  <2>3. PICK U : U = T \cup TokensOf(m)
    OBVIOUS
  <2>4. T \subseteq U /\ TokensOf(m) \subseteq U
    BY <2>3
  <2>5. in \in Seq(U)
    BY ONLY <2>2, <2>4, SeqWider
  <2> QED
    BY <2>4, <2>5
<1>6. ASSUME NEW j \in 1 .. N
      PROVE  Cut(m, s, j) \in Seq(TokensOf(m)) /\ Cut(m, s, j) \in Seq(S)
  <2>1. Cut(m, s, j) \in Seq(TokensOf(m))
    BY <1>1, <1>2, CutsAre
  <2> QED
    BY ONLY <1>5, <2>1, SeqWider
<1> DEFINE B(i) == Behind(may, dn, in \o Written(m, s, i), cs, size, n,
                          Pos(m, tx0, s, k, Upto(L, s, N, i)))
<1>7. B(1)
  <2>1. PICK b : b = smaller(Len(m.body), s)
    OBVIOUS
  <2>2. PICK p : p = [tx |-> tx0, size |-> s, n |-> k]
    OBVIOUS
  <2>3. Link(may, dn, p, Cut(m, s, 1), Pos(m, tx0, s, k, b))
    BY <2>1, <2>2, CutFirst, Zenon
  <2>4. Cut(m, s, 1) \in Seq(S)
    BY <1>3, <1>6
  <2>5. Behind(may, dn, in, cs, size, n, p)
    BY <2>2
  <2>6. Behind(may, dn, in \o Cut(m, s, 1), cs, size, n, Pos(m, tx0, s, k, b))
    BY ONLY <2>3, <2>4, <2>5, BehindWrite, Zenon
  <2>7. Written(m, s, 1) = Cut(m, s, 1)
    <3>1. \A j \in 1 .. 0 + 1 : Cut(m, s, j) \in Seq(S)
      BY <1>3, <1>6
    <3>2. Written(m, s, 0) = << >> /\ Written(m, s, 0 + 1) = Written(m, s, 0) \o Cut(m, s, 0 + 1)
      BY ONLY <3>1, 0 \in Nat, WrittenGrows
    <3>3. << >> \o Cut(m, s, 1) = Cut(m, s, 1)
      BY ONLY <2>4, ConcatEmptySeq
    <3> QED
      <4>1. 0 + 1 = 1
        OBVIOUS
      <4> QED
        BY ONLY <3>2, <3>3, <4>1
  <2> QED
    BY <1>1, <1>4, <2>1, <2>6, <2>7
<1>8. ASSUME NEW i \in 1 .. N - 1, B(i)
      PROVE  B(i + 1)
  <2>0. PICK b : b = Upto(L, s, N, i + 1)
    OBVIOUS
  <2>1. PICK a \in Nat : /\ a = i * s /\ a < Len(m.body) /\ a = Upto(L, s, N, i)
                         /\ b = Upto(L, s, N, i + 1) /\ b = a + smaller(Len(m.body) - a, s)
    BY <1>1, <1>4, <2>0
  <2>2. i \in Nat \ {0} /\ i \in Nat /\ i + 1 \in 1 .. N /\ 1 .. i + 1 \subseteq 1 .. N
    BY <1>3
  <2>3. Link(may, dn, Pos(m, tx0, s, k, a), Cut(m, s, i + 1), Pos(m, tx0, s, k, b))
    BY <2>1, <2>2, CutNext, Zenon
  <2>4. PICK x : x = Written(m, s, i)
    OBVIOUS
  <2>5. PICK q : q = in \o x
    OBVIOUS
  <2>6. Behind(may, dn, q, cs, size, n, Pos(m, tx0, s, k, a))
    BY <1>8, <2>1, <2>4, <2>5
  <2>7. PICK y \in Seq(S) : y = Cut(m, s, i + 1)
    BY <1>6, <2>2
  <2>8. Behind(may, dn, q \o y, cs, size, n, Pos(m, tx0, s, k, b))
    BY <2>3, <2>6, <2>7, BehindWrite, Zenon
  <2>9. Written(m, s, i + 1) = x \o y /\ x \in Seq(S)
    <3>1. \A j \in 1 .. i + 1 : Cut(m, s, j) \in Seq(S)
      BY <1>6, <2>2
    <3> QED
      BY ONLY <2>2, <2>4, <2>7, <3>1, WrittenGrows
  <2>10. q \o y = in \o (x \o y)
    <3>1. (in \o x) \o y = in \o (x \o y)
      <4>1. in \in Seq(S) /\ x \in Seq(S) /\ y \in Seq(S)
        BY ONLY <1>5, <2>9, y \in Seq(S)
      <4> QED
        BY ONLY <4>1, Associative
    <3> QED
      BY ONLY <2>5, <3>1
  <2> QED
    BY <2>1, <2>8, <2>9, <2>10
<1>9. B(N)
  <2> DEFINE T == {i \in 1 .. N : ~ B(i)}
  <2> HIDE DEF B
  <2>1. T = {}
    <3> SUFFICES ASSUME T # {} PROVE FALSE
      OBVIOUS
    <3>1. T \subseteq Nat
      OBVIOUS
    <3>2. PICK i \in T : \A y \in T : i <= y
      BY <3>1, NatMin
    <3>3. i \in 1 .. N /\ ~ B(i) /\ i # 1
      BY <1>7
    <3>4. i - 1 \in 1 .. N - 1 /\ i - 1 \in 1 .. N /\ i - 1 \notin T /\ (i - 1) + 1 = i
      BY <1>3, <3>2, <3>3
    <3>5. B(i - 1)
      BY <3>4
    <3> QED
      BY <1>8, <3>3, <3>4, <3>5
  <2>2. N \in 1 .. N
    BY <1>3
  <2> QED
    BY <2>1, <2>2
<1>10. do_send_messages(m, s) = Written(m, s, N)
  BY <1>1, <1>2 DEF do_send_messages, Written, Cut
<1>11. Upto(L, s, N, N) = L
  BY <1>3 DEF Upto
<1>12. PICK p, u : p = Pos(m, tx0, s, k, L) /\ u = p.tx[m.cid]
  BY Zenon
<1>13. Behind(may, dn, in \o do_send_messages(m, s), cs, size, n, p)
  BY <1>9, <1>10, <1>11, <1>12
<1>14. Idle(p.tx)
  <2>1. L \in 0 .. Len(m.body)
    BY <1>1
  <2>2. PosOf(m, tx0, s, k, L, p, u)
    BY <1>12, <2>1, PosIs, Zenon
  <2>3. u.left = << >> /\ \A c \in Cids \ {m.cid} : p.tx[c] = tx0[c]
    BY ONLY <1>1, <2>2 DEF PosOf
  <2> QED
    BY <1>12, <2>3 DEF Idle
<1>15. p = [tx |-> p.tx, size |-> IF m.type = "chunk" THEN m.body[1] ELSE s, n |-> k + 1]
  BY <1>1, <1>12 DEF Pos
<1> QED
  BY <1>13, <1>14, <1>15 DEF IdleBehind

-----------------------------------------------------------------------------
(* From the server to the peer.                                               *)

\* The server sends no message without a payload and repeats the timestamps.
Never == [empty |-> FALSE, omits |-> FALSE]

OutIs(dn, o, cs, size, n, s) == IdleBehind(Never, dn, o, cs, size, n, s, Len(dn))

\* Sending a message puts its chunks behind those on the way.
LEMMA SendOne ==
    ASSUME NEW M, NEW dn \in Seq(M), NEW o, NEW cs, NEW size, NEW n, NEW s \in Nat \ {0},
           OutIs(dn, o, cs, size, n, s), NEW m, Sendable(m)
    PROVE  /\ OutIs(Append(dn, m), o \o do_send_messages(m, s), cs, size, n,
                    IF m.type = "chunk" THEN m.body[1] ELSE s)
           /\ Append(dn, m) \in Seq(M \cup {m})
<1>2. PICK k \in Nat : k = Len(dn)
  <2>1. Len(dn) \in Nat
    OBVIOUS
  <2> QED
    BY ONLY <2>1
<1>3. dn \in Seq(M \cup {m})
  <2>1. M \subseteq M \cup {m}
    OBVIOUS
  <2> QED
    BY ONLY <2>1, dn \in Seq(M), SeqWider
<1>4. PICK more : more = Append(dn, m)
  OBVIOUS
<1>5. /\ more \in Seq(M \cup {m}) /\ Len(more) = k + 1 /\ more[k + 1] = m
      /\ \A i \in 1 .. Len(dn) : more[i] = dn[i]
  BY ONLY <1>2, <1>3, <1>4
<1>6. IdleBehind(Never, more, o, cs, size, n, s, k)
  <2>1. Len(dn) \in Nat /\ Len(more) \in Nat /\ Len(dn) <= Len(more)
    BY ONLY <1>2, <1>5
  <2>2. PICK p : /\ Behind(Never, dn, o, cs, size, n, p)
                 /\ p = [tx |-> p.tx, size |-> s, n |-> k] /\ Idle(p.tx)
    BY <1>2 DEF OutIs, IdleBehind
  <2>3. Behind(Never, more, o, cs, size, n, p)
    BY ONLY <1>5, <2>1, <2>2, BehindMore, Zenon
  <2> QED
    BY ONLY <2>2, <2>3, Zenon DEF IdleBehind
<1>7. k + 1 <= Len(more) /\ more[k + 1] = m
  BY <1>5
<1>8. OutIs(more, o \o do_send_messages(m, s), cs, size, n,
            IF m.type = "chunk" THEN m.body[1] ELSE s)
  <2>1. IdleBehind(Never, more, o \o do_send_messages(m, s), cs, size, n,
                   IF m.type = "chunk" THEN m.body[1] ELSE s, k + 1)
    BY <1>6, <1>7, WriteMessage, Zenon
  <2> QED
    BY ONLY <1>5, <2>1 DEF OutIs
<1> QED
  BY <1>4, <1>5, <1>8

\* What the server sends without being asked, and its answers.
LEMMA ControlSendable ==
    ASSUME NEW type, type # "chunk", NEW val
    PROVE  Sendable(Control(type, val)) /\ Control(type, val).type = type
<1>1. PICK m : m = Control(type, val)
  OBVIOUS
<1>2. m = [cid |-> 2, type |-> type, ts |-> 0, sid |-> 0, body |-> <<val>>]
  BY <1>1 DEF Control
<1>3. 2 \in Cids /\ 0 \in 0 .. TsMod - 1
  BY ChunkAssumption, ChannelAssumption DEF ChunkAssumption, ChannelAssumption
<1>4. Len(m.body) = 1 /\ m.body[1] = val /\ m.body = Uniform(val, 1)
  BY <1>2 DEF Uniform
<1> QED
  BY ONLY <1>1, <1>2, <1>3, <1>4, type # "chunk" DEF Sendable

\* and so is every message the server begins itself.
LEMMA ServerSendable ==
    ASSUME NEW k \in SrvKinds, NEW m,
           m = [cid |-> k.cid, type |-> k.type, ts |-> k.ts, sid |-> 1,
                body |-> [i \in 1 .. k.len |-> k.val]]
    PROVE  Sendable(m)
<1>1. /\ k.cid \in Cids /\ k.ts \in 0 .. TsMod - 1 /\ k.len \in Nat \ {0}
      /\ k.type = "chunk" => k.val \in Nat \ {0}
  BY ChannelAssumption DEF ChannelAssumption
<1>2. Len(m.body) = k.len /\ m.body[1] = k.val /\ m.body = Uniform(k.val, k.len)
  BY <1>1 DEF Uniform
<1> QED
  BY ONLY <1>1, <1>2, m = [cid |-> k.cid, type |-> k.type, ts |-> k.ts, sid |-> 1,
                           body |-> [i \in 1 .. k.len |-> k.val]] DEF Sendable

\* At most two answers, each a protocol control message.
Answers(ms) ==
    \/ ms = << >>
    \/ \E a : Sendable(a) /\ a.type # "chunk" /\ ms = <<a>>
    \/ \E a, b : Sendable(a) /\ a.type # "chunk" /\ Sendable(b) /\ b.type # "chunk" /\ ms = <<a, b>>

\* What ServerRecv answers is at most two of them,
LEMMA AnswersAre ==
    ASSUME NEW p, NEW n, NEW m
    PROVE  Answers(AckReply(p, n) \o response_ping_message(m))
<1>1. PICK x : x = Control("ack", Acknowledged(p, n).sequence_number)
  OBVIOUS
<1>2. PICK y : y = Control("pong", m.body[1])
  OBVIOUS
<1>3. Sendable(x) /\ x.type # "chunk" /\ Sendable(y) /\ y.type # "chunk"
  BY <1>1, <1>2, ControlSendable
<1>4. AckReply(p, n) = << >> \/ AckReply(p, n) = <<x>>
  BY <1>1 DEF AckReply
<1>5. response_ping_message(m) = << >> \/ response_ping_message(m) = <<y>>
  BY <1>2 DEF response_ping_message
<1>6. /\ << >> \o << >> = << >> /\ <<x>> \o << >> = <<x>> /\ << >> \o <<y>> = <<y>>
      /\ <<x>> \o <<y>> = <<x, y>>
  <2>1. << >> \o << >> = << >>
    OBVIOUS
  <2>2. <<x>> \o << >> = <<x>>
    OBVIOUS
  <2>3. << >> \o <<y>> = <<y>>
    OBVIOUS
  <2>4. <<x>> \o <<y>> = <<x, y>>
    <3>1. PICK a, b, c : a = <<x>> /\ b = <<y>> /\ c = <<x, y>>
      OBVIOUS
    <3>2. /\ a \in Seq({x, y}) /\ Len(a) = 1 /\ a[1] = x
          /\ b \in Seq({x, y}) /\ Len(b) = 1 /\ b[1] = y
          /\ c \in Seq({x, y}) /\ Len(c) = 2 /\ c[1] = x /\ c[2] = y
      BY <3>1
    <3>3. PICK d : d = a \o b
      OBVIOUS
    <3>4. d \in Seq({x, y}) /\ Len(d) = 2 /\ d[1] = x /\ d[2] = y
      <4>1. /\ d \in Seq({x, y}) /\ Len(d) = 1 + 1
            /\ \A i \in 1 .. 1 + 1 : d[i] = IF i <= 1 THEN a[i] ELSE b[i - 1]
        BY ONLY <3>2, <3>3, ConcatProperties
      <4> QED
        BY ONLY <3>2, <4>1
    <3>5. d = c
      BY ONLY <3>2, <3>4, SeqEqual
    <3> QED
      BY ONLY <3>1, <3>3, <3>5
  <2> QED
    BY <2>1, <2>2, <2>3, <2>4
<1>7. \/ AckReply(p, n) \o response_ping_message(m) = << >>
      \/ AckReply(p, n) \o response_ping_message(m) = <<x>>
      \/ AckReply(p, n) \o response_ping_message(m) = <<y>>
      \/ AckReply(p, n) \o response_ping_message(m) = <<x, y>>
  BY ONLY <1>4, <1>5, <1>6
<1> QED
  BY ONLY <1>3, <1>7, Zenon DEF Answers

\* and they are sent one after the other.
LEMMA SendAnswers ==
    ASSUME NEW M, NEW dn \in Seq(M), NEW o, NEW cs, NEW size, NEW n, srv.out_chunk_size \in Nat \ {0},
           OutIs(dn, o, cs, size, n, srv.out_chunk_size), NEW ms, Answers(ms)
    PROVE  /\ OutIs(dn \o ms, o \o Chunks(ms), cs, size, n, srv.out_chunk_size)
           /\ \E T : dn \o ms \in Seq(T) /\ M \subseteq T
           /\ dn \o ms = dn \/ IsStrictPrefix(dn, dn \o ms)
<1>1. PICK s \in Nat \ {0} : s = srv.out_chunk_size
  OBVIOUS
<1>2. PICK S : o \in Seq(S)
  <2>1. PICK b : Behind(Never, dn, o, cs, size, n, b)
    BY DEF OutIs, IdleBehind
  <2>2. PICK S, e, w : Trail(Never, dn, o, cs, size, n, b, S, e, w)
    BY <2>1 DEF Behind
  <2>3. o \in Seq(S)
    BY <2>2, FlatType DEF Trail
  <2> QED
    BY <2>3
<1>3. CASE ms = << >>
  <2>1. Chunks(ms) = << >>
    BY <1>3 DEF Chunks
  <2>2. o \o << >> = o /\ dn \o << >> = dn
    BY <1>2
  <2> QED
    BY <1>3, <2>1, <2>2
<1>4. ASSUME NEW a, Sendable(a), a.type # "chunk", ms = <<a>>
      PROVE  /\ OutIs(dn \o ms, o \o Chunks(ms), cs, size, n, srv.out_chunk_size)
             /\ \E T : dn \o ms \in Seq(T) /\ M \subseteq T
             /\ dn \o ms = dn \/ IsStrictPrefix(dn, dn \o ms)
  <2>1. Chunks(ms) = do_send_messages(a, s)
    BY <1>1, <1>4 DEF Chunks
  <2>2. dn \o ms = Append(dn, a)
    BY <1>4
  <2>3. /\ OutIs(Append(dn, a), o \o do_send_messages(a, s), cs, size, n,
                 IF a.type = "chunk" THEN a.body[1] ELSE s)
        /\ Append(dn, a) \in Seq(M \cup {a})
    BY ONLY <1>1, <1>4, dn \in Seq(M), OutIs(dn, o, cs, size, n, srv.out_chunk_size), SendOne
  <2>4. IsStrictPrefix(dn, Append(dn, a))
    BY <2>3 DEF IsStrictPrefix, IsPrefix
  <2>5. M \subseteq M \cup {a}
    OBVIOUS
  <2> QED
    BY ONLY <1>1, <1>4, <2>1, <2>2, <2>3, <2>4, <2>5
<1>5. ASSUME NEW a, NEW b, Sendable(a), a.type # "chunk", Sendable(b), b.type # "chunk", ms = <<a, b>>
      PROVE  /\ OutIs(dn \o ms, o \o Chunks(ms), cs, size, n, srv.out_chunk_size)
             /\ \E T : dn \o ms \in Seq(T) /\ M \subseteq T
             /\ dn \o ms = dn \/ IsStrictPrefix(dn, dn \o ms)
  <2>1. PICK x, y : x = do_send_messages(a, s) /\ y = do_send_messages(b, s)
    OBVIOUS
  <2>2. Chunks(ms) = x \o y
    BY <1>1, <1>5, <2>1 DEF Chunks
  <2>3. PICK d1 \in Seq(M \cup {a}) : d1 = Append(dn, a)
    <3>1. a \in M \cup {a} /\ M \subseteq M \cup {a}
      OBVIOUS
    <3>2. dn \in Seq(M \cup {a})
      BY ONLY <3>1, dn \in Seq(M), SeqWider
    <3>3. Append(dn, a) \in Seq(M \cup {a})
      BY ONLY <3>1, <3>2
    <3> QED
      BY ONLY <3>3
  <2>4. OutIs(d1, o \o x, cs, size, n, s)
    BY ONLY <1>1, <1>5, <2>1, <2>3, dn \in Seq(M),
            OutIs(dn, o, cs, size, n, srv.out_chunk_size), SendOne
  <2>5. /\ OutIs(Append(d1, b), (o \o x) \o y, cs, size, n, s)
        /\ Append(d1, b) \in Seq((M \cup {a}) \cup {b})
    BY ONLY <1>1, <1>5, <2>1, <2>3, <2>4, SendOne
  <2>6. dn \o ms = Append(d1, b)
    BY <1>5, <2>3
  <2>7. (o \o x) \o y = o \o (x \o y)
    <3>1. PICK T : T = S \cup TokensOf(a) \cup TokensOf(b)
      OBVIOUS
    <3>2. S \subseteq T /\ TokensOf(a) \subseteq T /\ TokensOf(b) \subseteq T
      BY <3>1
    <3>3. x \in Seq(TokensOf(a)) /\ y \in Seq(TokensOf(b))
      BY ONLY <1>5, <2>1, s \in Nat \ {0}, SentTokens
    <3>4. o \in Seq(T) /\ x \in Seq(T) /\ y \in Seq(T)
      BY ONLY <1>2, <3>2, <3>3, SeqWider
    <3> QED
      BY ONLY <3>4
  <2>8. IsStrictPrefix(dn, Append(d1, b))
    BY <2>3, <2>5 DEF IsStrictPrefix, IsPrefix
  <2>9. M \subseteq (M \cup {a}) \cup {b}
    OBVIOUS
  <2> QED
    BY ONLY <1>1, <2>2, <2>5, <2>6, <2>7, <2>8, <2>9
<1> QED
  BY ONLY <1>3, <1>4, <1>5, Answers(ms), Zenon DEF Answers

IsSrv(p) ==
    p = [cs |-> p.cs, in_chunk_size |-> p.in_chunk_size, out_chunk_size |-> p.out_chunk_size,
         window |-> p.window, nb_recv_bytes |-> p.nb_recv_bytes,
         sequence_number |-> p.sequence_number, out_window |-> p.out_window,
         in_buffer_length |-> p.in_buffer_length]

\* The fields of SrsProtocol.
LEMMA SrvFields ==
    ASSUME NEW p, IsSrv(p)
    PROVE  DOMAIN p = {"cs", "in_chunk_size", "out_chunk_size", "window", "nb_recv_bytes",
                       "sequence_number", "out_window", "in_buffer_length"}
  BY DEF IsSrv

\* Reading a message changes the chunk size of the input at most.
LEMMA AckKeeps ==
    ASSUME NEW p, IsSrv(p), NEW n
    PROVE  LET q == response_acknowledgement_message(p, n)
           IN  /\ IsSrv(q) /\ q.out_chunk_size = p.out_chunk_size /\ q.cs = p.cs
               /\ q.in_chunk_size = p.in_chunk_size
<1>1. DOMAIN p = {"cs", "in_chunk_size", "out_chunk_size", "window", "nb_recv_bytes",
                  "sequence_number", "out_window", "in_buffer_length"}
  BY SrvFields
<1>2. PICK q : q = response_acknowledgement_message(p, n)
  OBVIOUS
<1>3. q = p \/ q = Acknowledged(p, n)
  BY <1>2 DEF response_acknowledgement_message
<1>4. /\ IsSrv(Acknowledged(p, n)) /\ Acknowledged(p, n).out_chunk_size = p.out_chunk_size
      /\ Acknowledged(p, n).cs = p.cs /\ Acknowledged(p, n).in_chunk_size = p.in_chunk_size
  <2>1. PICK z, y : Acknowledged(p, n) = [p EXCEPT !.nb_recv_bytes = z, !.sequence_number = y]
    BY DEF Acknowledged
  <2>2. PICK x : x = [p EXCEPT !.nb_recv_bytes = z, !.sequence_number = y]
    OBVIOUS
  <2>3. IsSrv(x) /\ x.out_chunk_size = p.out_chunk_size /\ x.cs = p.cs /\ x.in_chunk_size = p.in_chunk_size
    BY ONLY <1>1, <2>2, IsSrv(p) DEF IsSrv
  <2> QED
    BY <2>1, <2>2, <2>3
<1> QED
  BY <1>2, <1>3, <1>4

\* on_recv_message changes the chunk size of the input only with a chunk size message.
LEMMA RecvKeeps ==
    ASSUME NEW p, IsSrv(p), NEW m
    PROVE  LET q == on_recv_message(p, m)
           IN  /\ IsSrv(q) /\ q.out_chunk_size = p.out_chunk_size /\ q.cs = p.cs
               /\ q.in_chunk_size = IF m.type = "chunk" THEN m.body[1] ELSE p.in_chunk_size
<1>1. DOMAIN p = {"cs", "in_chunk_size", "out_chunk_size", "window", "nb_recv_bytes",
                  "sequence_number", "out_window", "in_buffer_length"}
  BY SrvFields
<1>2. PICK q : q = on_recv_message(p, m)
  OBVIOUS
<1>3. PICK v : v = m.body[1]
  OBVIOUS
<1>4. CASE m.type = "chunk"
  <2>1. q = [p EXCEPT !.in_chunk_size = v]
    BY ONLY <1>2, <1>3, <1>4 DEF on_recv_message
  <2>2. /\ IsSrv(q) /\ q.out_chunk_size = p.out_chunk_size /\ q.cs = p.cs
        /\ q.in_chunk_size = v
    BY ONLY <1>1, <2>1, IsSrv(p) DEF IsSrv
  <2> QED
    BY <1>2, <1>3, <1>4, <2>2
<1>5. CASE m.type # "chunk"
  <2>1. q = p \/ q = [p EXCEPT !.window = v] \/ q = [p EXCEPT !.in_buffer_length = v]
    BY ONLY <1>2, <1>3, <1>5 DEF on_recv_message
  <2>2. /\ IsSrv(q) /\ q.out_chunk_size = p.out_chunk_size /\ q.cs = p.cs
        /\ q.in_chunk_size = p.in_chunk_size
    <3>1. CASE q = p
      BY ONLY <3>1, IsSrv(p)
    <3>2. CASE q = [p EXCEPT !.window = v]
      BY ONLY <1>1, <3>2, IsSrv(p) DEF IsSrv
    <3>3. CASE q = [p EXCEPT !.in_buffer_length = v]
      BY ONLY <1>1, <3>3, IsSrv(p) DEF IsSrv
    <3> QED
      BY ONLY <2>1, <3>1, <3>2, <3>3
  <2> QED
    BY <1>2, <1>5, <2>2
<1> QED
  BY <1>4, <1>5

\* on_send_packet changes the chunk size of the output only with one.
LEMMA SendKeeps ==
    ASSUME NEW p, IsSrv(p), NEW m
    PROVE  LET q == on_send_packet(p, m)
           IN  /\ IsSrv(q) /\ q.cs = p.cs /\ q.in_chunk_size = p.in_chunk_size
               /\ q.out_chunk_size = IF m.type = "chunk" THEN m.body[1] ELSE p.out_chunk_size
<1>1. DOMAIN p = {"cs", "in_chunk_size", "out_chunk_size", "window", "nb_recv_bytes",
                  "sequence_number", "out_window", "in_buffer_length"}
  BY SrvFields
<1>2. PICK q : q = on_send_packet(p, m)
  OBVIOUS
<1>3. PICK v : v = m.body[1]
  OBVIOUS
<1>4. CASE m.type = "chunk"
  <2>1. q = [p EXCEPT !.out_chunk_size = v]
    BY ONLY <1>2, <1>3, <1>4 DEF on_send_packet
  <2>2. IsSrv(q) /\ q.out_chunk_size = v /\ q.cs = p.cs /\ q.in_chunk_size = p.in_chunk_size
    BY ONLY <1>1, <2>1, IsSrv(p) DEF IsSrv
  <2> QED
    BY <1>2, <1>3, <1>4, <2>2
<1>5. CASE m.type # "chunk"
  <2>1. q = p \/ q = [p EXCEPT !.out_window = v]
    BY ONLY <1>2, <1>3, <1>5 DEF on_send_packet
  <2>2. /\ IsSrv(q) /\ q.out_chunk_size = p.out_chunk_size /\ q.cs = p.cs
        /\ q.in_chunk_size = p.in_chunk_size
    <3>1. CASE q = p
      BY ONLY <3>1, IsSrv(p)
    <3>2. CASE q = [p EXCEPT !.out_window = v]
      BY ONLY <1>1, <3>2, IsSrv(p) DEF IsSrv
    <3> QED
      BY ONLY <2>1, <3>1, <3>2
  <2> QED
    BY <1>2, <1>5, <2>2
<1> QED
  BY <1>4, <1>5

\* The server after a chunk: its chunk stream has taken it, its own chunk size is kept.
LEMMA TakenKeeps ==
    ASSUME NEW p, IsSrv(p), NEW c, NEW t
    PROVE  LET q == [p EXCEPT !.cs[c] = t]
           IN  /\ IsSrv(q) /\ q.out_chunk_size = p.out_chunk_size
               /\ q.cs = [p.cs EXCEPT ![c] = t] /\ q.in_chunk_size = p.in_chunk_size
<1>1. DOMAIN p = {"cs", "in_chunk_size", "out_chunk_size", "window", "nb_recv_bytes",
                  "sequence_number", "out_window", "in_buffer_length"}
  BY SrvFields
<1>2. PICK d : d = [p.cs EXCEPT ![c] = t]
  OBVIOUS
<1>3. PICK q : q = [p EXCEPT !.cs = d]
  OBVIOUS
<1>4. IsSrv(q) /\ q.out_chunk_size = p.out_chunk_size /\ q.cs = d /\ q.in_chunk_size = p.in_chunk_size
  BY ONLY <1>1, <1>3, IsSrv(p) DEF IsSrv
<1> QED
  BY <1>2, <1>3, <1>4

\* What a chunk read does to the output.
LEMMA RecvShape ==
    ASSUME IsSrv(srv), ServerRecv
    PROVE  /\ IsSrv(srv') /\ srv'.out_chunk_size = srv.out_chunk_size
           /\ \E ms : Answers(ms) /\ outdone' = outdone \o ms /\ out' = out \o Chunks(ms)
           /\ outgot' = outgot /\ pin' = pin
<1>1. PICK c, r, m, whole, n :
         /\ srv' = IF whole = "yes"
                   THEN on_recv_message(response_acknowledgement_message([srv EXCEPT !.cs[c] = Taken(r)], n), m)
                   ELSE [srv EXCEPT !.cs[c] = Taken(r)]
         /\ \E ms : Answers(ms) /\ outdone' = outdone \o ms /\ out' = out \o Chunks(ms)
  <2> DEFINE in == srv.in_chunk_size
             c == net[1].cid
             r == recv_interlaced_message(srv.cs, in, net)
             m == Message(c, r)
             p == [srv EXCEPT !.cs[c] = Taken(r)]
             left == Unread(srv.cs, in, net)
             whole == ChunkError(srv.cs, in, net) = "none" /\ ~ r.open /\ r.body # << >>
             replies(n) == IF whole THEN AckReply(p, n) \o response_ping_message(m) ELSE << >>
  <2>1. PICK n \in GrownTo(nsent - Bytes(left)) :
           /\ srv' = IF whole THEN on_recv_message(response_acknowledgement_message(p, n), m) ELSE p
           /\ outdone' = outdone \o replies(n) /\ out' = out \o Chunks(replies(n))
    BY Zenon DEF ServerRecv
  <2>2. Answers(replies(n))
    <3>1. Answers(AckReply(p, n) \o response_ping_message(m))
      BY AnswersAre
    <3>2. Answers(<< >>)
      BY DEF Answers
    <3> HIDE DEF m, p, whole
    <3> QED
      BY <3>1, <3>2
  <2> HIDE DEF m, p, whole, replies
  <2>3. PICK ok : ok = IF whole THEN "yes" ELSE "no"
    OBVIOUS
  <2>4. srv' = IF ok = "yes" THEN on_recv_message(response_acknowledgement_message(p, n), m) ELSE p
    BY <2>1, <2>3
  <2> QED
    BY <2>1, <2>2, <2>4 DEF p
<1>2. outgot' = outgot /\ pin' = pin
  BY DEF ServerRecv
<1>3. PICK p : p = [srv EXCEPT !.cs[c] = Taken(r)]
  OBVIOUS
<1>4. IsSrv(p) /\ p.out_chunk_size = srv.out_chunk_size
  BY <1>3, TakenKeeps
<1>5. PICK q : q = response_acknowledgement_message(p, n)
  OBVIOUS
<1>6. IsSrv(q) /\ q.out_chunk_size = srv.out_chunk_size
  BY <1>4, <1>5, AckKeeps
<1>7. IsSrv(on_recv_message(q, m)) /\ on_recv_message(q, m).out_chunk_size = srv.out_chunk_size
  BY <1>6, RecvKeeps
<1> QED
  BY <1>1, <1>2, <1>3, <1>4, <1>5, <1>7

-----------------------------------------------------------------------------
OutInv ==
    /\ \E M : outdone \in Seq(M) /\ outgot \in Seq(M)
    /\ IsSrv(srv) /\ srv.out_chunk_size \in Nat \ {0}
    /\ OutIs(outdone, out, pin.cs, pin.size, Len(outgot), srv.out_chunk_size)

NewTx == [fresh |-> TRUE, ts |-> 0, delta |-> 0, len |-> 0, type |-> "none", sid |-> 0,
          left |-> << >>, body |-> << >>]

\* A new reader matches a new writer,
LEMMA MatchNew == Match(SrsChunkStream, NewTx)
<1>1. PICK c, t : c = SrsChunkStream /\ t = NewTx
  OBVIOUS
<1>2. IsStream(c) /\ c.ts = 0 /\ c.sid = 0 /\ c.open = FALSE /\ c.body = << >>
  BY <1>1 DEF SrsChunkStream, IsStream
<1>3. IsTx(t) /\ t.fresh = TRUE /\ t.ts = 0 /\ t.delta = 0 /\ t.len = 0 /\ t.sid = 0 /\ t.left = << >>
  BY <1>1 DEF NewTx, IsTx
<1>4. 0 \in 0 .. TsMod - 1
  BY ChunkAssumption DEF ChunkAssumption
<1>5. TxOK(t)
  BY <1>3, <1>4 DEF TxOK
<1>6. c.open = (t.left # << >>)
  BY <1>2, <1>3
<1>7. Match(c, t)
  BY <1>2, <1>3, <1>5, <1>6 DEF Match
<1> QED
  BY <1>1, <1>7

\* also for all chunk streams together.
LEMMA AtNew ==
    ASSUME NEW cs, cs = [c \in Cids |-> SrsChunkStream],
           NEW b, b = [tx |-> [c \in Cids |-> NewTx], size |-> MinChunk, n |-> 0]
    PROVE  At(cs, MinChunk, 0, b)
<1>1. MinChunk \in Nat \ {0}
  BY ChunkAssumption DEF ChunkAssumption
<1>2. \A c \in Cids : Match(cs[c], b.tx[c])
  BY MatchNew
<1> QED
  BY <1>1, <1>2 DEF At

\* The output at first,
LEMMA OutInit == Init => OutInv /\ outdone = << >> /\ outgot = << >>
<1> SUFFICES ASSUME Init PROVE OutInv /\ outdone = << >> /\ outgot = << >>
  OBVIOUS
<1>1. outdone = << >> /\ outgot = << >> /\ out = << >>
  BY DEF Init
<1>2. outdone \in Seq({}) /\ outgot \in Seq({}) /\ Len(outdone) = 0 /\ Len(outgot) = 0
  BY <1>1
<1>3. IsSrv(srv) /\ srv.out_chunk_size = MinChunk
  BY DEF Init, SrsProtocol, IsSrv
<1>4. MinChunk \in Nat \ {0}
  BY ChunkAssumption DEF ChunkAssumption
<1>5. pin.cs = [c \in Cids |-> SrsChunkStream] /\ pin.size = MinChunk
  BY DEF Init
<1>6. PICK b : b = [tx |-> [c \in Cids |-> NewTx], size |-> MinChunk, n |-> 0]
  OBVIOUS
<1>7. Behind(Never, << >>, << >>, pin.cs, MinChunk, 0, b)
  BY <1>5, <1>6, AtNew, BehindStart
<1>8. Idle(b.tx)
  BY <1>6 DEF Idle, NewTx
<1>9. b = [tx |-> b.tx, size |-> MinChunk, n |-> 0]
  BY <1>6
<1>10. IdleBehind(Never, << >>, << >>, pin.cs, MinChunk, 0, MinChunk, 0)
  BY ONLY <1>7, <1>8, <1>9, Zenon DEF IdleBehind
<1>11. OutIs(outdone, out, pin.cs, pin.size, Len(outgot), srv.out_chunk_size)
  BY ONLY <1>1, <1>2, <1>3, <1>5, <1>10 DEF OutIs
<1> QED
  BY <1>1, <1>2, <1>3, <1>4, <1>11 DEF OutInv

\* when nothing of it changes,
LEMMA OutSame ==
    ASSUME OutInv, UNCHANGED <<outdone, outgot, out, pin, srv>>
    PROVE  OutInv'
  BY DEF OutInv

\* when the peer reads a chunk,
LEMMA OutPeerRecv ==
    ASSUME OutInv, PeerRecv
    PROVE  OutInv' /\ (Out!Next \/ UNCHANGED <<outdone, outgot>>)
<1>1. PICK M : outdone \in Seq(M) /\ outgot \in Seq(M)
  BY DEF OutInv
<1>2. PICK c, r : c = out[1].cid /\ r = recv_interlaced_message(pin.cs, pin.size, out)
  OBVIOUS
<1>3. /\ out # << >> /\ out' = Unread(pin.cs, pin.size, out)
      /\ outgot' = IF r.open THEN outgot ELSE Append(outgot, Message(c, r))
      /\ pin'.cs = [pin.cs EXCEPT ![c] = Taken(r)]
      /\ pin'.size = IF ~ r.open /\ r.type = "chunk" THEN r.body[1] ELSE pin.size
      /\ outdone' = outdone /\ srv' = srv /\ ~ Misled(pin.cs, out)
  BY <1>2 DEF PeerRecv, ChunkThere
<1>4. PICK s, l, k : s = srv.out_chunk_size /\ l = Len(outgot) /\ k = Len(outdone)
  OBVIOUS
<1>5. PICK p : /\ Behind(Never, outdone, out, pin.cs, pin.size, l, p)
               /\ p = [tx |-> p.tx, size |-> s, n |-> k] /\ Idle(p.tx)
  BY <1>4 DEF OutInv, OutIs, IdleBehind
<1>6. ReadsOne(Never, outdone, out, pin.cs, pin.size, l, p)
  BY <1>3, <1>5, BehindRead, Zenon
<1>7. PICK j : j = IF r.open \/ r.body = << >> THEN l ELSE l + 1
  OBVIOUS
<1>8. /\ r.open \in BOOLEAN
      /\ Behind(Never, outdone, out', pin'.cs, pin'.size, j, p)
      /\ ~ r.open /\ r.body # << >> => j <= Len(outdone) /\ outdone[j] = Message(c, r)
      /\ ~ r.open => r.body # << >>
  BY ONLY <1>2, <1>3, <1>6, <1>7 DEF ReadsOne, Never
<1>9. l \in Nat
  BY <1>1, <1>4
<1>10. /\ j = Len(outgot') /\ \E T : outdone' \in Seq(T) /\ outgot' \in Seq(T)
       /\ Out!Next \/ UNCHANGED <<outdone, outgot>>
  <2>1. CASE r.open
    BY <1>1, <1>3, <1>4, <1>7, <2>1
  <2>2. CASE ~ r.open
    <3>1. j = l + 1 /\ j <= Len(outdone) /\ outdone[j] = Message(c, r)
      BY <1>7, <1>8, <2>2
    <3>2. outgot' = Append(outgot, outdone[Len(outgot) + 1]) /\ Len(outgot) < Len(outdone)
      BY <1>3, <1>4, <1>9, <2>2, <3>1, <1>1
    <3>3. Out!Deliver
      BY <1>3, <3>2 DEF Out!Deliver
    <3>4. outdone[l + 1] \in M
      BY <1>1, <1>9, <3>1
    <3>5. outgot' \in Seq(M) /\ Len(outgot') = l + 1
      BY <1>1, <1>4, <3>2, <3>4
    <3> QED
      BY <1>1, <1>3, <3>1, <3>3, <3>5 DEF Out!Next
  <2> QED
    BY <2>1, <2>2
<1>11. OutIs(outdone', out', pin'.cs, pin'.size, Len(outgot'), srv'.out_chunk_size)
  <2>1. IdleBehind(Never, outdone, out', pin'.cs, pin'.size, j, s, k)
    BY ONLY <1>5, <1>8, Zenon DEF IdleBehind
  <2> QED
    BY ONLY <1>3, <1>4, <1>10, <2>1 DEF OutIs
<1> QED
  BY <1>3, <1>10, <1>11 DEF OutInv

\* when the server answers what it reads,
LEMMA OutServerRecv ==
    ASSUME OutInv, ServerRecv
    PROVE  OutInv' /\ (Out!Next \/ UNCHANGED <<outdone, outgot>>)
<1>1. PICK M : outdone \in Seq(M) /\ outgot \in Seq(M)
  BY DEF OutInv
<1>2. /\ IsSrv(srv') /\ srv'.out_chunk_size = srv.out_chunk_size
      /\ \E ms : Answers(ms) /\ outdone' = outdone \o ms /\ out' = out \o Chunks(ms)
      /\ outgot' = outgot /\ pin' = pin
  BY RecvShape DEF OutInv
<1>3. PICK ms : Answers(ms) /\ outdone' = outdone \o ms /\ out' = out \o Chunks(ms)
  BY <1>2
<1>4. /\ OutIs(outdone', out', pin.cs, pin.size, Len(outgot), srv.out_chunk_size)
      /\ \E T : outdone' \in Seq(T) /\ M \subseteq T
      /\ outdone' = outdone \/ IsStrictPrefix(outdone, outdone')
  <2>1. srv.out_chunk_size \in Nat \ {0} /\ OutIs(outdone, out, pin.cs, pin.size, Len(outgot), srv.out_chunk_size)
    BY DEF OutInv
  <2>2. /\ OutIs(outdone \o ms, out \o Chunks(ms), pin.cs, pin.size, Len(outgot), srv.out_chunk_size)
        /\ \E T : outdone \o ms \in Seq(T) /\ M \subseteq T
        /\ outdone \o ms = outdone \/ IsStrictPrefix(outdone, outdone \o ms)
    BY ONLY <1>1, <1>3, <2>1, SendAnswers
  <2> QED
    BY ONLY <1>3, <2>2
<1>5. \E T : outdone' \in Seq(T) /\ outgot' \in Seq(T)
  <2>1. PICK T : outdone' \in Seq(T) /\ M \subseteq T
    BY <1>4
  <2>2. outgot \in Seq(T)
    BY ONLY <1>1, <2>1, SeqWider
  <2> QED
    BY <1>2, <2>1, <2>2
<1>6. OutInv'
  <2>1. OutIs(outdone', out', pin'.cs, pin'.size, Len(outgot'), srv'.out_chunk_size)
    BY ONLY <1>2, <1>4
  <2> QED
    BY <1>2, <1>5, <2>1 DEF OutInv
<1> QED
  <2>1. IsStrictPrefix(outdone, outdone') => Out!Send
    BY <1>2 DEF Out!Send, Out!IsStrictPrefix, Out!IsPrefix, IsStrictPrefix, IsPrefix
  <2> QED
    BY ONLY <1>2, <1>4, <1>6, <2>1 DEF Out!Next

\* when it sends a message of its own,
LEMMA OutServerSend ==
    ASSUME OutInv, NEW x \in SrvKinds, ServerSend(x)
    PROVE  OutInv' /\ Out!Next
<1>1. PICK M : outdone \in Seq(M) /\ outgot \in Seq(M)
  BY DEF OutInv
<1>2. PICK m : m = [cid |-> x.cid, type |-> x.type, ts |-> x.ts, sid |-> 1,
                    body |-> [i \in 1 .. x.len |-> x.val]]
  OBVIOUS
<1>3. /\ out' = out \o do_send_messages(m, srv.out_chunk_size)
      /\ outdone' = Append(outdone, m) /\ srv' = on_send_packet(srv, m)
      /\ outgot' = outgot /\ pin' = pin
  BY <1>2 DEF ServerSend
<1>4. Sendable(m)
  BY <1>2, ServerSendable
<1>5. PICK s \in Nat \ {0} : s = srv.out_chunk_size
  BY DEF OutInv
<1>6. /\ OutIs(outdone', out', pin.cs, pin.size, Len(outgot),
               IF m.type = "chunk" THEN m.body[1] ELSE s)
      /\ outdone' \in Seq(M \cup {m})
  <2>1. OutIs(outdone, out, pin.cs, pin.size, Len(outgot), s)
    BY <1>5 DEF OutInv
  <2>2. /\ OutIs(Append(outdone, m), out \o do_send_messages(m, s), pin.cs, pin.size, Len(outgot),
                 IF m.type = "chunk" THEN m.body[1] ELSE s)
        /\ Append(outdone, m) \in Seq(M \cup {m})
    BY ONLY <1>1, <1>4, <2>1, s \in Nat \ {0}, SendOne
  <2> QED
    BY ONLY <1>3, <1>5, <2>2
<1>7. /\ IsSrv(srv') /\ srv'.out_chunk_size = IF m.type = "chunk" THEN m.body[1] ELSE s
  BY <1>3, <1>5, SendKeeps DEF OutInv
<1>8. srv'.out_chunk_size \in Nat \ {0}
  BY <1>4, <1>7 DEF Sendable
<1>9. outgot \in Seq(M \cup {m})
  <2>1. M \subseteq M \cup {m}
    OBVIOUS
  <2> QED
    BY ONLY <1>1, <2>1, SeqWider
<1>10. OutIs(outdone', out', pin'.cs, pin'.size, Len(outgot'), srv'.out_chunk_size)
  BY ONLY <1>3, <1>6, <1>7
<1>11. IsStrictPrefix(outdone, outdone')
  BY <1>1, <1>3, <1>6 DEF IsStrictPrefix, IsPrefix
<1>12. Out!Next
  <2>1. IsStrictPrefix(outdone, outdone') => Out!Send
    BY <1>3 DEF Out!Send, Out!IsStrictPrefix, Out!IsPrefix, IsStrictPrefix, IsPrefix
  <2> QED
    BY ONLY <1>11, <2>1 DEF Out!Next
<1> QED
  BY <1>3, <1>6, <1>7, <1>8, <1>9, <1>10, <1>12 DEF OutInv

\* and in every step.
LEMMA OutStep == OutInv /\ [Next]_vars => OutInv' /\ [Out!Next]_<<outdone, outgot>>
<1> SUFFICES ASSUME OutInv, [Next]_vars
             PROVE  OutInv' /\ (Out!Next \/ UNCHANGED <<outdone, outgot>>)
  OBVIOUS
<1>1. ASSUME NEW k \in Kinds, NEW c \in k.cids, NEW fmt \in k.fmts, NEW d \in k.deltas,
             PeerBegin(c, fmt, k, d)
      PROVE  OutInv' /\ UNCHANGED <<outdone, outgot>>
  BY <1>1, OutSame DEF PeerBegin, Wrote, Write
<1>2. ASSUME NEW c \in Cids, PeerContinue(c)
      PROVE  OutInv' /\ UNCHANGED <<outdone, outgot>>
  BY <1>2, OutSame DEF PeerContinue
<1>3. CASE UNCHANGED vars
  BY <1>3, OutSame DEF vars
<1>4. CASE ServerMisled
  BY <1>4, OutSame DEF ServerMisled
<1> QED
  BY <1>1, <1>2, <1>3, <1>4, OutPeerRecv, OutServerRecv, OutServerSend DEF Next

\* What do_send_messages cuts a message into, with the chunk size in force when it does,
\* is read back as that message: the peer gets what the server sent, whole and in order.
THEOREM ServerToPeerHolds == Spec => ServerToPeer
<1>1. Init => OutInv /\ Out!Init
  BY OutInit DEF Out!Init
<1> QED
  BY <1>1, OutStep, PTL DEF Spec, ServerToPeer, Out!Spec

-----------------------------------------------------------------------------
(* From the peer to the server.                                               *)

\* The peer may send a message without a payload, and what it repeats is its style.
Maybe == [empty |-> TRUE, omits |-> style # "every"]

NetIs == Behind(Maybe, done, net, srv.cs, srv.in_chunk_size, Len(got),
                [tx |-> tx, size |-> psize, n |-> Len(done)])

\* The peer's writer: a message that changes the chunk size is one chunk.
PeerOK ==
    /\ DOMAIN tx = Cids /\ psize \in Nat \ {0}
    /\ \A c \in Cids : /\ TxOK(tx[c]) /\ tx[c].fresh \in BOOLEAN
                       /\ tx[c].type = "chunk" => tx[c].left = << >>

NetInv ==
    /\ \E M : done \in Seq(M) /\ got \in Seq(M)
    /\ IsSrv(srv) /\ PeerOK
    /\ err = "none" => NetIs

\* The order of its arguments does not matter to smaller.
LEMMA SmallerSym ==
    ASSUME NEW a \in Int, NEW b \in Int
    PROVE  smaller(a, b) = smaller(b, a)
  BY DEF smaller

\* The fields of the peer's writer.
LEMMA TxFields ==
    ASSUME NEW t, IsTx(t)
    PROVE  DOMAIN t = {"fresh", "ts", "delta", "len", "type", "sid", "left", "body"}
  BY DEF IsTx

\* What a chunk takes of a payload, and what it leaves.
LEMMA UniformTail ==
    ASSUME NEW v, NEW n \in Nat, NEW a \in 0 .. n
    PROVE  SubSeq(Uniform(v, n), a + 1, n) = Uniform(v, n - a) /\ SubSeq(Uniform(v, n), 1, a) = Uniform(v, a)
<1>1. SubSeq(Uniform(v, n), a + 1, n) = Uniform(v, n - (a + 1) + 1)
  <2>1. a + 1 \in 1 .. n + 1 /\ n \in (a + 1) - 1 .. n
    OBVIOUS
  <2> QED
    BY ONLY <2>1, n \in Nat, UniformPart
<1>2. n - (a + 1) + 1 = n - a
  OBVIOUS
<1>3. SubSeq(Uniform(v, n), 1, a) = Uniform(v, a - 1 + 1)
  <2>1. 1 \in 1 .. n + 1 /\ a \in 1 - 1 .. n
    OBVIOUS
  <2> QED
    BY ONLY <2>1, n \in Nat, UniformPart
<1>4. a - 1 + 1 = a
  OBVIOUS
<1> QED
  BY ONLY <1>1, <1>2, <1>3, <1>4

\* The tokens of a chunk are some.
LEMMA ChunkSeq ==
    ASSUME NEW h, NEW d, NEW x, x = Extended(d) \/ x = << >>, NEW b, NEW n \in Nat
    PROVE  \E S : (<<h>> \o x) \o Uniform(b, n) \in Seq(S)
<1>1. PICK S : S = {h, ExtOf(d), b}
  OBVIOUS
<1>2. h \in S /\ ExtOf(d) \in S /\ b \in S
  BY <1>1
<1>3. x \in Seq(S) /\ <<h>> \in Seq(S)
  <2>1. Extended(d) \in Seq(S) /\ << >> \in Seq(S)
    BY ONLY <1>2, ExtendedSeq
  <2>2. <<h>> \in Seq(S)
    BY ONLY <1>2
  <2> QED
    BY ONLY <2>1, <2>2, x = Extended(d) \/ x = << >>
<1>4. Uniform(b, n) \in Seq(S)
  BY ONLY <1>2, n \in Nat, UniformSeq, Zenon
<1>5. <<h>> \o x \in Seq(S)
  BY ONLY <1>3
<1>6. (<<h>> \o x) \o Uniform(b, n) \in Seq(S)
  BY ONLY <1>4, <1>5
<1> QED
  BY <1>6

\* What the peer does when it writes a chunk of stream c that leaves its writer with u.
PeerWrites(c, ch, u) ==
    /\ net' = net \o ch /\ tx' = [tx EXCEPT ![c] = u]
    /\ done' = IF u.left = << >> /\ u.body # << >> THEN Append(done, MsgOf(c, u)) ELSE done
    /\ psize' = NextSize(u, psize)

\* Such a step keeps the reader behind the peer, and sends at most one message.
LEMMA PeerStep ==
    ASSUME NetInv, NEW c \in Cids, NEW ch, NEW u, NEW S, ch \in Seq(S), PeerWrites(c, ch, u),
           Starts(c, tx[c], psize, ch, u) \/ GoesOn(c, tx[c], psize, ch, u),
           TxOK(u), u.fresh = FALSE,
           u.type = "chunk" => u.left = << >> /\ u.body # << >> /\ u.body[1] \in Nat \ {0},
           style # "every" \/ Repeats(tx[c], ch), UNCHANGED <<style, srv, err, got>>
    PROVE  NetInv' /\ (In!Next \/ UNCHANGED <<done, got>>)
<1>1. PICK M : done \in Seq(M) /\ got \in Seq(M)
  BY DEF NetInv
<1>2. PICK m : m = MsgOf(c, u)
  OBVIOUS
<1>3. /\ net' = net \o ch /\ tx' = [tx EXCEPT ![c] = u]
      /\ done' = IF u.left = << >> /\ u.body # << >> THEN Append(done, m) ELSE done
      /\ psize' = NextSize(u, psize)
  BY <1>2 DEF PeerWrites
<1>4. PeerOK
  BY DEF NetInv
<1>5. DOMAIN tx' = Cids /\ tx'[c] = u /\ \A k \in Cids \ {c} : tx'[k] = tx[k]
  BY <1>3, <1>4 DEF PeerOK
<1>6. psize' \in Nat \ {0}
  BY <1>3, <1>4 DEF PeerOK, NextSize
<1>7. PeerOK'
  BY <1>4, <1>5, <1>6 DEF PeerOK
<1>8. /\ \E T : done' \in Seq(T) /\ got' \in Seq(T)
      /\ In!Next \/ UNCHANGED <<done, got>>
      /\ Len(done') \in Nat /\ Len(done) \in Nat /\ Len(done) <= Len(done')
      /\ \A i \in 1 .. Len(done) : done'[i] = done[i]
      /\ IF u.left = << >> /\ u.body # << >>
         THEN Len(done') = Len(done) + 1 /\ done'[Len(done')] = m ELSE Len(done') = Len(done)
  <2>1. CASE u.left = << >> /\ u.body # << >>
    <3>1. PICK T : T = M \cup {m}
      OBVIOUS
    <3>2. M \subseteq T /\ m \in T
      BY <3>1
    <3>3. done \in Seq(T) /\ got \in Seq(T)
      BY ONLY <1>1, <3>2, SeqWider
    <3>4. done' = Append(done, m)
      BY <1>3, <2>1
    <3>5. /\ done' \in Seq(T) /\ Len(done') = Len(done) + 1 /\ done'[Len(done) + 1] = m
          /\ \A i \in 1 .. Len(done) : done'[i] = done[i] /\ Len(done) \in Nat
      BY ONLY <3>2, <3>3, <3>4
    <3>6. Len(done) \in Nat
      BY <1>1
    <3>7. IsStrictPrefix(done, done')
      BY ONLY <3>3, <3>5, <3>6 DEF IsStrictPrefix, IsPrefix
    <3>8. In!Send
      BY <3>7 DEF In!Send, In!IsStrictPrefix, In!IsPrefix, IsStrictPrefix, IsPrefix
    <3> QED
      BY <2>1, <3>3, <3>5, <3>6, <3>8 DEF In!Next
  <2>2. CASE ~ (u.left = << >> /\ u.body # << >>)
    <3>1. done' = done /\ got' = got
      BY <1>3, <2>2
    <3>2. Len(done) \in Nat
      BY <1>1
    <3> QED
      BY <1>1, <2>2, <3>1, <3>2
  <2> QED
    BY <2>1, <2>2
<1>9. ASSUME err' = "none"
      PROVE  NetIs'
  <2>1. PICK a : a = [tx |-> tx, size |-> psize, n |-> Len(done)]
    OBVIOUS
  <2>2. PICK b : b = [tx |-> tx', size |-> psize', n |-> Len(done')]
    OBVIOUS
  <2>3. Behind(Maybe, done, net, srv.cs, srv.in_chunk_size, Len(got), a)
    BY <1>9, <2>1 DEF NetInv, NetIs
  <2>4. Behind(Maybe, done', net, srv.cs, srv.in_chunk_size, Len(got), a)
    BY ONLY <1>8, <2>3, BehindMore
  <2>5. a.tx = tx /\ a.size = psize /\ a.n = Len(done) /\ b.tx = tx' /\ b.size = psize' /\ b.n = Len(done')
    BY <2>1, <2>2
  <2>6. LinkOn(c, Maybe, done', a, ch, b, u)
    <3>1. Starts(c, a.tx[c], a.size, ch, u) \/ GoesOn(c, a.tx[c], a.size, ch, u)
      BY <2>5
    <3>2. \A k \in Cids \ {c} : b.tx[k] = a.tx[k]
      BY <1>5, <2>5
    <3>3. b.size = NextSize(u, a.size) /\ b.size \in Nat \ {0} /\ a.n \in Nat
      BY <1>3, <1>6, <1>8, <2>5
    <3>4. u.left = << >> /\ u.body = << >> => Maybe.empty /\ u.type # "chunk"
      BY DEF Maybe
    <3>6. Maybe.omits \/ Repeats(a.tx[c], ch)
      BY <2>5 DEF Maybe
    <3>5. IF u.left = << >> /\ u.body # << >>
          THEN b.n = a.n + 1 /\ b.n <= Len(done') /\ done'[b.n] = MsgOf(c, u) ELSE b.n = a.n
      BY <1>2, <1>8, <2>5
    <3> QED
      BY ONLY <3>1, <3>2, <3>3, <3>4, <3>5, <3>6 DEF LinkOn
  <2>7. Link(Maybe, done', a, ch, b)
    BY <1>5, <2>5, <2>6 DEF Link
  <2>8. Behind(Maybe, done', net \o ch, srv.cs, srv.in_chunk_size, Len(got), b)
    BY <2>4, <2>7, BehindWrite, Zenon
  <2>9. Maybe' = Maybe
    BY DEF Maybe
  <2> QED
    BY <1>3, <2>2, <2>8, <2>9 DEF NetIs
<1> QED
  BY <1>7, <1>8, <1>9 DEF NetInv

\* The peer goes on with a message,
LEMMA PeerContinues ==
    ASSUME NetInv, NEW c \in Cids, PeerContinue(c)
    PROVE  NetInv' /\ (In!Next \/ UNCHANGED <<done, got>>)
<1>1. PICK t : t = tx[c]
  OBVIOUS
<1>2. /\ TxOK(t) /\ t.left # << >> /\ t.type # "chunk" /\ psize \in Nat \ {0}
  BY <1>1 DEF NetInv, PeerOK, PeerContinue
<1>0. PICK v : v = t.body[1]
  OBVIOUS
<1>a. /\ Len(t.left) \in 1 .. t.len /\ t.len \in Nat
      /\ t.left = Uniform(v, Len(t.left)) /\ t.fresh = FALSE /\ t.body = Uniform(v, t.len)
      /\ IsTx(t) /\ t.ts \in 0 .. TsMod - 1 /\ t.delta \in 0 .. TsMod - 1
  BY ONLY <1>0, <1>2 DEF TxOK
<1>b. Len(t.left) \in Nat \ {0}
  BY <1>a
<1>3. PICK l \in Nat \ {0} : /\ l = Len(t.left) /\ t.left = Uniform(v, l)
                             /\ l <= t.len /\ t.fresh = FALSE /\ t.body = Uniform(v, t.len)
                             /\ t.len \in Nat /\ IsTx(t) /\ t.ts \in 0 .. TsMod - 1
                             /\ t.delta \in 0 .. TsMod - 1
  BY <1>0, <1>a, <1>b
<1>4. PICK n : n = smaller(l, psize)
  OBVIOUS
<1>5. n \in 0 .. l /\ n \in Nat /\ n = smaller(psize, l) /\ l - n \in Nat
  BY <1>2, <1>4 DEF smaller
<1>6. PICK u : u = [t EXCEPT !.left = Uniform(v, l - n)]
  OBVIOUS
<1>7. u = [t EXCEPT !.left = SubSeq(@, smaller(psize, Len(@)) + 1, Len(@))]
  <2>1. SubSeq(Uniform(v, l), n + 1, l) = Uniform(v, l - n)
    BY <1>5, UniformTail
  <2>2. SubSeq(t.left, smaller(psize, Len(t.left)) + 1, Len(t.left)) = Uniform(v, l - n)
    BY ONLY <1>3, <1>5, <2>1
  <2>3. u = [t EXCEPT !.left = SubSeq(t.left, smaller(psize, Len(t.left)) + 1, Len(t.left))]
    BY ONLY <1>6, <2>2
  <2> QED
    BY ONLY <2>3
<1>8. PICK h, x : h = HeadToken(3, c, t.delta, Len(t.body), t.type, t.sid) /\ x = Ext3(t)
  OBVIOUS
<1>9. h.fmt = 3 /\ h.cid = c
  BY <1>8 DEF HeadToken
<1>10. x = Extended(t.delta) \/ x = << >>
  BY <1>8 DEF Ext3
<1>11. PICK ch : ch = (<<h>> \o x) \o Uniform(ByteOf(v), n)
  OBVIOUS
<1>12. NextChunk(c) = ch
  <2>0. SubSeq(Uniform(v, l), 1, n) = Uniform(v, n)
    BY <1>5, UniformTail
  <2>1. SubSeq(t.left, 1, n) = Uniform(v, n)
    BY ONLY <1>3, <2>0
  <2>2. Payload(SubSeq(t.left, 1, n)) = Uniform(ByteOf(v), n)
    BY <1>5, <2>1, UniformPayload
  <2>3. Header(3, [cid |-> c, type |-> t.type, sid |-> t.sid, body |-> t.body], t.delta) = h
    BY <1>8 DEF Header, HeadToken, Short
  <2> QED
    BY <1>1, <1>3, <1>5, <1>8, <1>11, <2>2, <2>3 DEF NextChunk
<1>13. GoesOn(c, t, psize, ch, u)
  BY ONLY <1>0, <1>2, <1>3, <1>4, <1>6, <1>9, <1>10, <1>11 DEF GoesOn
<1>14. PICK S : ch \in Seq(S)
  BY <1>5, <1>10, <1>11, ChunkSeq
<1>15. /\ IsTx(u) /\ u.ts = t.ts /\ u.delta = t.delta /\ u.len = t.len /\ u.fresh = FALSE
       /\ u.left = Uniform(v, l - n) /\ u.body = t.body /\ u.type = t.type
  <2>1. DOMAIN t = {"fresh", "ts", "delta", "len", "type", "sid", "left", "body"}
    BY <1>3, TxFields
  <2> QED
    BY ONLY <1>3, <1>6, <2>1 DEF IsTx
<1>16. Len(u.left) = l - n
  BY <1>5, <1>15, UniformLen
<1>17. TxOK(u)
  <2>1. u.left # << >> => l - n >= 1
    BY <1>5, <1>15, UniformEmpty
  <2>2. u.body[1] = v /\ u.body = Uniform(u.body[1], u.len)
    BY ONLY <1>0, <1>3, <1>15
  <2>3. u.left = Uniform(u.body[1], Len(u.left))
    BY ONLY <1>15, <1>16, <2>2
  <2>4. u.left # << >> => Len(u.left) \in 1 .. u.len
    <3>1. u.len \in Nat /\ l - n \in Int /\ l - n <= u.len
      BY <1>3, <1>5, <1>15
    <3> QED
      BY ONLY <1>16, <2>1, <3>1
  <2>5. u.ts \in 0 .. TsMod - 1 /\ u.delta \in 0 .. TsMod - 1 /\ u.len \in Nat
    BY ONLY <1>3, <1>15
  <2> QED
    BY ONLY <1>15, <2>2, <2>3, <2>4, <2>5 DEF TxOK
<1>18. PeerWrites(c, ch, u) /\ UNCHANGED <<style, srv, err, got>>
  BY <1>1, <1>7, <1>12 DEF PeerContinue, Write, Wrote, PeerWrites, MsgOf, NextSize
<1>19. style # "every" \/ Repeats(t, ch)
  <2>1. style = "every" => x = Extended(t.delta)
    BY <1>8 DEF Ext3
  <2> QED
    BY ONLY <1>5, <1>11, <2>1 DEF Repeats
<1> QED
  BY <1>1, <1>2, <1>13, <1>14, <1>15, <1>17, <1>18, <1>19, PeerStep

\* or begins one, with any legal chunk type.
LEMMA PeerBegins ==
    ASSUME NetInv, NEW k \in Kinds, NEW c \in k.cids, NEW fmt \in k.fmts, NEW d \in k.deltas,
           PeerBegin(c, fmt, k, d)
    PROVE  NetInv' /\ (In!Next \/ UNCHANGED <<done, got>>)
<1>0. /\ c \in Cids /\ fmt \in 0 .. 3 /\ d \in 0 .. TsMod - 1 /\ k.len \in Nat
      /\ k.type = "chunk" => k.len = 1 /\ k.val \in Nat \ {0}
  BY ChannelAssumption DEF ChannelAssumption
<1>1. PICK t, v, type : t = tx[c] /\ v = k.val /\ type = k.type
  OBVIOUS
<1>2. PICK l \in Nat : l = k.len
  BY <1>0
<1>3. TxOK(t) /\ psize \in Nat \ {0}
  BY <1>0, <1>1 DEF NetInv, PeerOK
<1>4. /\ IsTx(t) /\ t.ts \in 0 .. TsMod - 1
  BY <1>3 DEF TxOK
<1>5. PICK n : n = smaller(l, psize)
  OBVIOUS
<1>6. n \in 0 .. l /\ n \in Nat /\ n = smaller(psize, l) /\ l - n \in Nat
  BY <1>3, <1>5 DEF smaller
<1>7. PICK body : body = Uniform(v, l)
  OBVIOUS
<1>8. /\ body = [i \in 1 .. k.len |-> k.val] /\ Len(body) = l
      /\ SubSeq(body, n + 1, l) = Uniform(v, l - n) /\ SubSeq(body, 1, n) = Uniform(v, n)
  <2>1. SubSeq(Uniform(v, l), n + 1, l) = Uniform(v, l - n) /\ SubSeq(Uniform(v, l), 1, n) = Uniform(v, n)
    BY <1>6, UniformTail
  <2>2. Len(Uniform(v, l)) = l
    BY UniformLen
  <2> QED
    BY ONLY <1>1, <1>2, <1>7, <2>1, <2>2 DEF Uniform
<1>9. PICK u : u = [t EXCEPT !.fresh = FALSE, !.delta = d, !.len = k.len, !.type = k.type, !.body = body,
                             !.ts = IF fmt = 0 THEN d ELSE (@ + d) % TsMod,
                             !.sid = IF fmt = 0 THEN 1 ELSE @,
                             !.left = SubSeq(body, n + 1, k.len)]
  OBVIOUS
<1>10. u = [fresh |-> FALSE, ts |-> IF fmt = 0 THEN d ELSE (t.ts + d) % TsMod, delta |-> d,
            len |-> l, type |-> type, sid |-> IF fmt = 0 THEN 1 ELSE t.sid,
            left |-> Uniform(v, l - n), body |-> body]
  <2>1. DOMAIN t = {"fresh", "ts", "delta", "len", "type", "sid", "left", "body"}
    BY <1>4, TxFields
  <2>2. u = [t EXCEPT !.fresh = FALSE, !.delta = d, !.len = l, !.type = type, !.body = body,
                      !.ts = IF fmt = 0 THEN d ELSE (@ + d) % TsMod,
                      !.sid = IF fmt = 0 THEN 1 ELSE @,
                      !.left = Uniform(v, l - n)]
    BY ONLY <1>1, <1>2, <1>8, <1>9
  <2> QED
    BY ONLY <1>4, <2>1, <2>2 DEF IsTx
<1>11. PICK sid : sid = u.sid
  OBVIOUS
<1>12. PICK h : h = HeadToken(fmt, c, d, l, type, sid)
  OBVIOUS
<1>13. PICK ch : ch = (<<h>> \o Extended(d)) \o Uniform(ByteOf(v), n)
  OBVIOUS
<1>14. PICK S : ch \in Seq(S)
  BY <1>6, <1>13, ChunkSeq
<1>15. /\ t.left = << >> /\ LegalFmt(t, fmt, k, d)
       /\ Write(<<Header(fmt, [cid |-> c, type |-> k.type, sid |-> u.sid, body |-> body], d)>>
                \o (IF fmt = 3 THEN Ext3(u) ELSE Extended(d)) \o Payload(SubSeq(body, 1, n)))
       /\ Wrote(c, u) /\ UNCHANGED <<style, srv, err, got>>
  BY <1>1, <1>2, <1>6, <1>8, <1>9 DEF PeerBegin
<1>16. fmt >= 2 => t.fresh = FALSE /\ t.len = l /\ t.type = type
  <2>1. fmt >= 2 => ~ t.fresh /\ k.len = t.len /\ k.type = t.type
    BY <1>0, <1>15 DEF LegalFmt
  <2>2. t.fresh \in BOOLEAN
    BY <1>0, <1>1 DEF NetInv, PeerOK
  <2> QED
    BY ONLY <1>1, <1>2, <2>1, <2>2
<1>17. fmt = 3 => t.delta = d /\ Ext3(u) = Extended(d)
  <2>1. fmt = 3 => d = t.delta /\ (d < ExtTs \/ style = "every")
    BY <1>15 DEF LegalFmt
  <2>2. u.delta = d
    BY <1>10
  <2> QED
    BY <2>1, <2>2 DEF Ext3, Extended
<1>18. net' = net \o ch
  <2>1. Payload(SubSeq(body, 1, n)) = Uniform(ByteOf(v), n)
    BY <1>6, <1>8, UniformPayload
  <2>2. Header(fmt, [cid |-> c, type |-> k.type, sid |-> u.sid, body |-> body], d) = h
    BY <1>1, <1>8, <1>11, <1>12 DEF Header, HeadToken, Short
  <2>3. (IF fmt = 3 THEN Ext3(u) ELSE Extended(d)) = Extended(d)
    BY <1>17
  <2> QED
    BY ONLY <1>13, <1>15, <2>1, <2>2, <2>3 DEF Write
<1>19. PeerWrites(c, ch, u) /\ UNCHANGED <<style, srv, err, got>>
  BY <1>15, <1>18 DEF Wrote, PeerWrites, MsgOf, NextSize
<1>20. Starts(c, t, psize, ch, u)
  <2>1. sid = IF fmt = 0 THEN 1 ELSE t.sid
    BY <1>10, <1>11
  <2>2. u = [fresh |-> FALSE, ts |-> IF fmt = 0 THEN d ELSE (t.ts + d) % TsMod, delta |-> d,
             len |-> l, type |-> type, sid |-> IF fmt = 0 THEN sid ELSE t.sid,
             left |-> Uniform(v, l - smaller(l, psize)), body |-> Uniform(v, l)]
    BY ONLY <1>5, <1>7, <1>10, <2>1
  <2>3. StartsAs(c, t, psize, ch, u, fmt, d, l, type, v, sid)
    BY ONLY <1>5, <1>12, <1>13, <1>15, <1>16, <1>17, <2>2 DEF StartsAs
  <2> QED
    BY <1>0, <2>3 DEF Starts
<1>21. /\ u.fresh = FALSE /\ u.ts \in 0 .. TsMod - 1 /\ u.delta = d /\ u.len = l /\ u.type = type
       /\ u.left = Uniform(v, l - n) /\ u.body = body /\ IsTx(u)
  <2>1. (t.ts + d) % TsMod \in 0 .. TsMod - 1
    <3>1. t.ts + d \in Int
      BY <1>0, <1>4
    <3> QED
      BY ONLY <3>1, ModRange
  <2>2. (IF fmt = 0 THEN d ELSE (t.ts + d) % TsMod) \in 0 .. TsMod - 1
    BY <1>0, <2>1
  <2> QED
    BY ONLY <1>10, <2>2 DEF IsTx
<1>22. u.left # << >> => u.body[1] = v /\ Len(u.left) \in 1 .. l
  <2>1. Len(u.left) = l - n /\ (u.left # << >> => l - n # 0)
    BY <1>6, <1>21, UniformLen, UniformEmpty
  <2>2. l # 0 => Uniform(v, l)[1] = v
    BY UniformLen
  <2> QED
    BY <1>6, <1>7, <1>21, <2>1, <2>2
<1>23. TxOK(u)
  <2>1. u.left # << >> => u.left = Uniform(u.body[1], Len(u.left)) /\ u.body = Uniform(u.body[1], u.len)
    <3>1. Len(u.left) = l - n
      BY <1>6, <1>21, UniformLen
    <3> QED
      BY ONLY <1>7, <1>21, <1>22, <3>1
  <2> QED
    BY <1>0, <1>21, <1>22, <2>1 DEF TxOK
<1>24. u.type = "chunk" => u.left = << >> /\ u.body # << >> /\ u.body[1] \in Nat \ {0}
  <2> SUFFICES ASSUME type = "chunk" PROVE u.left = << >> /\ u.body # << >> /\ u.body[1] \in Nat \ {0}
    BY <1>21
  <2>1. l = 1 /\ v \in Nat \ {0}
    BY <1>0, <1>1, <1>2
  <2>2. l - n = 0
    BY <1>3, <1>5, <2>1 DEF smaller
  <2>3. u.left = << >>
    BY <1>21, <2>2, UniformEmpty
  <2>4. u.body = Uniform(v, 1) /\ Uniform(v, 1)[1] = v /\ Uniform(v, 1) # << >>
    BY <1>7, <1>21, <2>1, UniformLen, UniformEmpty
  <2> QED
    BY <2>1, <2>3, <2>4
<1>25. Repeats(tx[c], ch)
  BY <1>1, <1>15 DEF Repeats
<1> QED
  BY <1>0, <1>1, <1>14, <1>19, <1>20, <1>21, <1>23, <1>24, <1>25, PeerStep

\* What the server does with the chunk streams and the chunk size of its input.
RecvIs(c, r) ==
    /\ err = "none" /\ net # << >> /\ net' = Unread(srv.cs, srv.in_chunk_size, net)
    /\ srv'.cs = [srv.cs EXCEPT ![c] = Taken(r)]
    /\ \/ err' # "none" /\ got' = got
       \/ /\ err' = "none" /\ ~ r.open /\ r.body # << >> /\ got' = Append(got, Message(c, r))
          /\ srv'.in_chunk_size = IF r.type = "chunk" THEN r.body[1] ELSE srv.in_chunk_size
       \/ /\ err' = "none" /\ ~ (~ r.open /\ r.body # << >>) /\ got' = got
          /\ srv'.in_chunk_size = srv.in_chunk_size
    /\ ChunkError(srv.cs, srv.in_chunk_size, net) = "none" =>
          err' = IF ~ r.open /\ r.body # << >> THEN RecvError(Message(c, r)) ELSE "none"
    /\ ~ Misled(srv.cs, net) /\ UNCHANGED <<style, tx, psize, done>>

\* What a chunk read does to the input.
LEMMA RecvInput ==
    ASSUME IsSrv(srv), ServerRecv,
           NEW c, c = net[1].cid, NEW r, r = recv_interlaced_message(srv.cs, srv.in_chunk_size, net)
    PROVE  RecvIs(c, r)
<1> DEFINE in == srv.in_chunk_size
           m == Message(c, r)
           p == [srv EXCEPT !.cs[c] = Taken(r)]
           left == Unread(srv.cs, in, net)
           broken == ChunkError(srv.cs, in, net)
           whole == broken = "none" /\ ~ r.open /\ r.body # << >>
<1>1. /\ err = "none" /\ net # << >> /\ net' = left
      /\ err' = IF broken # "none" THEN broken ELSE IF whole THEN RecvError(m) ELSE "none"
      /\ \E n : srv' = IF whole THEN on_recv_message(response_acknowledgement_message(p, n), m) ELSE p
      /\ got' = IF whole /\ err' = "none" THEN Append(got, m) ELSE got
      /\ ~ Misled(srv.cs, net) /\ UNCHANGED <<style, tx, psize, done>>
  BY Zenon DEF ServerRecv, ChunkThere
<1>2. PICK n : srv' = IF whole THEN on_recv_message(response_acknowledgement_message(p, n), m) ELSE p
  BY <1>1
<1>3. PICK p1 : p1 = p
  OBVIOUS
<1>4. IsSrv(p1) /\ p1.cs = [srv.cs EXCEPT ![c] = Taken(r)] /\ p1.in_chunk_size = in
  BY <1>3, TakenKeeps
<1>5. PICK q : q = response_acknowledgement_message(p1, n)
  OBVIOUS
<1>6. IsSrv(q) /\ q.cs = p1.cs /\ q.in_chunk_size = in
  BY <1>4, <1>5, AckKeeps
<1>7. PICK m1 : m1 = m
  OBVIOUS
<1>8. m1.type = r.type /\ m1.body = r.body
  BY <1>7 DEF Message
<1>9. PICK z : z = on_recv_message(q, m1)
  OBVIOUS
<1>10. z.cs = p1.cs /\ z.in_chunk_size = IF r.type = "chunk" THEN r.body[1] ELSE in
  <2>1. z.cs = q.cs /\ z.in_chunk_size = IF m1.type = "chunk" THEN m1.body[1] ELSE q.in_chunk_size
    BY ONLY <1>6, <1>9, RecvKeeps
  <2> QED
    BY ONLY <1>6, <1>8, <2>1
<1>11. srv' = IF whole THEN z ELSE p1
  BY ONLY <1>2, <1>3, <1>5, <1>7, <1>9
<1> HIDE DEF m, p
<1>12. CASE whole
  BY ONLY <1>1, <1>4, <1>10, <1>11, <1>12 DEF RecvIs, m
<1>13. CASE ~ whole
  <2>1. srv' = p1 /\ got' = got
    BY ONLY <1>1, <1>11, <1>13
  <2>2. err' = "none" => broken = "none"
    BY ONLY <1>1
  <2>3. err' = "none" => ~ (~ r.open /\ r.body # << >>)
    BY ONLY <1>13, <2>2
  <2> QED
    <3>1. broken = "none" => err' = "none" /\ ~ (~ r.open /\ r.body # << >>)
      BY ONLY <1>1, <1>13
    <3>2. broken # "none" => err' # "none"
      BY ONLY <1>1
    <3> QED
      BY ONLY <1>1, <1>4, <2>1, <2>3, <3>1, <3>2 DEF RecvIs
<1> QED
  BY ONLY <1>12, <1>13

\* The server reads a chunk: it delivers at most the next message of the peer.
LEMMA NetServerRecv ==
    ASSUME NetInv, ServerRecv
    PROVE  NetInv' /\ (In!Next \/ UNCHANGED <<done, got>>)
<1>1. PICK M : done \in Seq(M) /\ got \in Seq(M)
  BY DEF NetInv
<1>2. PICK c, r : c = net[1].cid /\ r = recv_interlaced_message(srv.cs, srv.in_chunk_size, net)
  OBVIOUS
<1>3. RecvIs(c, r)
  BY <1>2, RecvInput DEF NetInv
<1>4. PICK b : b = [tx |-> tx, size |-> psize, n |-> Len(done)]
  OBVIOUS
<1>5. PICK cs, size, l : cs = srv.cs /\ size = srv.in_chunk_size /\ l = Len(got)
  OBVIOUS
<1>6. Behind(Maybe, done, net, cs, size, l, b)
  BY <1>3, <1>4, <1>5 DEF NetInv, NetIs, RecvIs
<1>7. ReadsOne(Maybe, done, net, cs, size, l, b)
  <2>1. net # << >> /\ ~ Misled(cs, net)
    BY <1>3, <1>5 DEF RecvIs
  <2> QED
    BY ONLY <1>6, <2>1, BehindRead, Zenon
<1>8. PICK j : j = IF r.open \/ r.body = << >> THEN l ELSE l + 1
  OBVIOUS
<1>9. /\ r.open \in BOOLEAN
      /\ Behind(Maybe, done, Unread(cs, size, net), [cs EXCEPT ![c] = Taken(r)],
                IF ~ r.open /\ r.type = "chunk" THEN r.body[1] ELSE size, j, b)
      /\ ~ r.open /\ r.body # << >> => j <= Len(done) /\ done[j] = Message(c, r)
      /\ ~ r.open /\ r.body = << >> => r.type # "chunk"
  BY ONLY <1>2, <1>5, <1>7, <1>8 DEF ReadsOne
<1>10. IsSrv(srv') /\ PeerOK'
  BY <1>3, RecvShape DEF NetInv, PeerOK, RecvIs
<1>11. l \in Nat
  BY <1>1, <1>5
<1>12. /\ \E T : done' \in Seq(T) /\ got' \in Seq(T)
       /\ In!Next \/ UNCHANGED <<done, got>>
       /\ err' = "none" => j = Len(got')
  <2>1. CASE got' = got
    <3>1. err' = "none" => j = l
      BY <1>1, <1>3, <1>8, <1>5, <1>9, <1>11, <2>1 DEF RecvIs
    <3> QED
      BY <1>1, <1>3, <1>5, <2>1, <3>1 DEF RecvIs
  <2>2. CASE got' # got
    <3>1. ~ r.open /\ r.body # << >> /\ got' = Append(got, Message(c, r)) /\ done' = done
      BY <1>3, <2>2 DEF RecvIs
    <3>2. j = l + 1 /\ j <= Len(done) /\ done[j] = Message(c, r)
      BY <1>8, <1>9, <3>1
    <3>3. got' = Append(got, done[Len(got) + 1]) /\ Len(got) < Len(done)
      BY <1>1, <1>5, <1>11, <3>1, <3>2
    <3>4. In!Deliver
      BY <3>1, <3>3 DEF In!Deliver
    <3>5. done[l + 1] \in M
      BY <1>1, <1>11, <3>2
    <3>6. got' \in Seq(M) /\ Len(got') = l + 1
      BY <1>1, <1>5, <3>3, <3>5
    <3> QED
      BY <1>1, <3>1, <3>2, <3>4, <3>6 DEF In!Next
  <2> QED
    BY <2>1, <2>2
<1>13. ASSUME err' = "none"
       PROVE  NetIs'
  <2>1. /\ net' = Unread(cs, size, net) /\ srv'.cs = [cs EXCEPT ![c] = Taken(r)]
        /\ UNCHANGED <<tx, psize, done>> /\ Maybe' = Maybe
    BY <1>3, <1>5 DEF RecvIs, Maybe
  <2>2. srv'.in_chunk_size = IF ~ r.open /\ r.type = "chunk" THEN r.body[1] ELSE size
    <3>1. \/ /\ ~ r.open /\ r.body # << >>
             /\ srv'.in_chunk_size = IF r.type = "chunk" THEN r.body[1] ELSE size
          \/ ~ (~ r.open /\ r.body # << >>) /\ srv'.in_chunk_size = size
      BY <1>3, <1>5, <1>13 DEF RecvIs
    <3> QED
      BY ONLY <1>9, <3>1
  <2>3. Behind(Maybe, done', net', srv'.cs, srv'.in_chunk_size, Len(got'), b)
    BY ONLY <1>9, <1>12, <1>13, <2>1, <2>2
  <2> QED
    BY ONLY <1>4, <2>1, <2>3 DEF NetIs
<1> QED
  BY <1>10, <1>12, <1>13 DEF NetInv

\* The input at first,
LEMMA NetInit == Init => NetInv /\ done = << >> /\ got = << >>
<1> SUFFICES ASSUME Init PROVE NetInv /\ done = << >> /\ got = << >>
  OBVIOUS
<1>1. /\ done = << >> /\ got = << >> /\ net = << >> /\ psize = MinChunk
      /\ tx = [c \in Cids |-> NewTx]
  BY DEF Init, NewTx
<1>2. done \in Seq({}) /\ got \in Seq({}) /\ Len(done) = 0 /\ Len(got) = 0
  BY <1>1
<1>3. /\ IsSrv(srv) /\ srv.in_chunk_size = MinChunk
      /\ srv.cs = [c \in Cids |-> SrsChunkStream]
  BY DEF Init, SrsProtocol, IsSrv
<1>4. PICK t : t = NewTx
  OBVIOUS
<1>5. TxOK(t) /\ t.fresh \in BOOLEAN /\ (t.type = "chunk" => t.left = << >>)
  BY <1>4, MatchNew DEF Match, NewTx
<1>6. PeerOK
  <2>1. MinChunk \in Nat \ {0}
    BY ChunkAssumption DEF ChunkAssumption
  <2> QED
    BY <1>1, <1>4, <1>5, <2>1 DEF PeerOK
<1>7. PICK b : b = [tx |-> [c \in Cids |-> NewTx], size |-> MinChunk, n |-> 0]
  OBVIOUS
<1>8. Behind(Maybe, << >>, << >>, srv.cs, MinChunk, 0, b)
  BY <1>3, <1>7, AtNew, BehindStart
<1>9. NetIs
  BY ONLY <1>1, <1>2, <1>3, <1>7, <1>8 DEF NetIs
<1> QED
  BY <1>1, <1>2, <1>3, <1>6, <1>9 DEF NetInv

\* when nothing of it changes,
LEMMA NetSame ==
    ASSUME NetInv, UNCHANGED <<style, tx, psize, net, err, done, got>>, IsSrv(srv'),
           srv'.cs = srv.cs, srv'.in_chunk_size = srv.in_chunk_size
    PROVE  NetInv'
  BY DEF NetInv, NetIs, PeerOK, Maybe

\* and in every step.
LEMMA NetStep == NetInv /\ [Next]_vars => NetInv' /\ [In!Next]_<<done, got>>
<1> SUFFICES ASSUME NetInv, [Next]_vars
             PROVE  NetInv' /\ (In!Next \/ UNCHANGED <<done, got>>)
  OBVIOUS
<1>0. IsSrv(srv)
  BY DEF NetInv
<1>1. CASE PeerRecv
  BY <1>0, <1>1, NetSame DEF PeerRecv
<1>2. ASSUME NEW k \in SrvKinds, ServerSend(k)
      PROVE  NetInv' /\ UNCHANGED <<done, got>>
  <2>1. PICK m : srv' = on_send_packet(srv, m)
    BY <1>2 DEF ServerSend
  <2>2. IsSrv(srv') /\ srv'.cs = srv.cs /\ srv'.in_chunk_size = srv.in_chunk_size
    BY <1>0, <2>1, SendKeeps
  <2>3. UNCHANGED <<style, tx, psize, net, err, done, got>>
    BY <1>2 DEF ServerSend
  <2> QED
    BY <2>2, <2>3, NetSame
<1>3. CASE UNCHANGED vars
  BY <1>0, <1>3, NetSame DEF vars
<1>4. CASE ServerMisled
  BY <1>4 DEF ServerMisled, NetInv, PeerOK
<1> QED
  BY <1>1, <1>2, <1>3, <1>4, PeerBegins, PeerContinues, NetServerRecv DEF Next

\* The server's reader inverts any conforming writer: recv_message returns the messages
\* that the peer wrote, whole and in order, for all chunk types, interleavings and
\* chunk sizes the peer may use (recv_interlaced_message, read_message_header), until
\* four bytes of payload are taken for a timestamp that they are equal to.
THEOREM PeerToServerHolds == Spec => PeerToServer
<1>1. Init => NetInv /\ In!Init
  BY NetInit DEF In!Init
<1> QED
  BY <1>1, NetStep, PTL DEF Spec, PeerToServer, In!Spec

-----------------------------------------------------------------------------
(* With nothing on the way, the reader is where its writer is.                *)

\* No chunk is empty: a reader with nothing on the way is at its writer's position.
LEMMA BehindEmpty ==
    ASSUME NEW may, NEW dn, NEW in, NEW cs, NEW size, NEW n, NEW b,
           Behind(may, dn, in, cs, size, n, b), in = << >>
    PROVE  At(cs, size, n, b)
<1> PICK S, e, w : Trail(may, dn, in, cs, size, n, b, S, e, w)
  BY DEF Behind
<1>1. e \in Seq(Seq(S)) /\ in = FlattenSeq(e) /\ At(cs, size, n, w[1]) /\ w[Len(e) + 1] = b
  BY DEF Trail
<1>2. e = << >>
  <2> SUFFICES ASSUME e # << >> PROVE FALSE
    OBVIOUS
  <2>1. /\ Tail(e) \in Seq(Seq(S)) /\ 1 \in 1 .. Len(e) /\ 1 + 1 = 2
    BY <1>1
  <2>2. PICK rest \in Seq(S) : rest = FlattenSeq(Tail(e))
    BY <2>1, FlatType
  <2>3. in = e[1] \o rest
    BY <1>1, <2>2, FlatHead
  <2>4. PICK c \in Cids : LinkOn(c, may, dn, w[1], e[1], w[2], w[2].tx[c])
    BY <2>1 DEF Trail, Link
  <2>5. PICK u : u = w[2].tx[c]
    OBVIOUS
  <2>6. Match(cs[c], w[1].tx[c]) /\ w[1].size = size /\ size \in Nat \ {0}
    BY <1>1 DEF At
  <2>7. Starts(c, w[1].tx[c], size, e[1], u) \/ GoesOn(c, w[1].tx[c], size, e[1], u)
    BY <2>4, <2>5, <2>6 DEF LinkOn
  <2>8. CASE Starts(c, w[1].tx[c], size, e[1], u)
    <3>1. Reads(cs, size, e[1] \o rest, rest, c, u)
      BY ONLY <2>6, <2>8, rest \in Seq(S), ReadStart, Zenon
    <3> QED
      BY ONLY <2>3, <3>1, in = << >> DEF Reads
  <2>9. CASE GoesOn(c, w[1].tx[c], size, e[1], u)
    <3>1. PICK t, ch : t = w[1].tx[c] /\ ch = e[1]
      OBVIOUS
    <3>2. TxOK(t)
      BY ONLY <2>6, <3>1 DEF Match
    <3>3. ch \o rest # << >>
      BY ONLY <2>6, <2>9, <3>1, <3>2, rest \in Seq(S), GoesFront
    <3> QED
      BY ONLY <2>3, <3>1, <3>3, in = << >>
  <2> QED
    BY <2>7, <2>8, <2>9
<1>3. Len(e) + 1 = 1
  BY <1>2
<1> QED
  BY <1>1, <1>3

\* The chunk sizes of the two ends agree whenever nothing is on the way, whichever chunk
\* size messages have been sent (on_recv_message, on_send_packet), until payload is taken
\* for a timestamp.
THEOREM ChunkSizesAgree == Spec => []ChunkSizeAgreed
<1>1. Init => NetInv /\ OutInv
  BY NetInit, OutInit
<1>2. NetInv /\ OutInv => ChunkSizeAgreed
  <2> SUFFICES ASSUME NetInv, OutInv, err = "none" PROVE ChunkSizeAgreed
    BY DEF ChunkSizeAgreed
  <2>1. ASSUME net = << >> PROVE srv.in_chunk_size = psize
    <3>1. PICK b : b = [tx |-> tx, size |-> psize, n |-> Len(done)]
      OBVIOUS
    <3>2. Behind(Maybe, done, net, srv.cs, srv.in_chunk_size, Len(got), b)
      BY <3>1 DEF NetInv, NetIs
    <3>3. At(srv.cs, srv.in_chunk_size, Len(got), b)
      BY <2>1, <3>2, BehindEmpty
    <3> QED
      BY <3>1, <3>3 DEF At
  <2>2. ASSUME out = << >> PROVE srv.out_chunk_size = pin.size
    <3>1. PICK b : /\ Behind(Never, outdone, out, pin.cs, pin.size, Len(outgot), b)
                   /\ b = [tx |-> b.tx, size |-> srv.out_chunk_size, n |-> Len(outdone)]
      BY DEF OutInv, OutIs, IdleBehind
    <3>2. At(pin.cs, pin.size, Len(outgot), b)
      BY <2>2, <3>1, BehindEmpty
    <3> QED
      BY <3>1, <3>2 DEF At
  <2> QED
    BY <2>1, <2>2 DEF ChunkSizeAgreed
<1> QED
  BY <1>1, <1>2, NetStep, OutStep, PTL DEF Spec

-----------------------------------------------------------------------------
(* The reader never fails.                                                    *)

\* No peer announces a chunk size above the server's receive buffer.
ChunksFit ==
    /\ MinChunk <= BufSize
    /\ \A k \in Kinds : k.type = "chunk" => k.val <= BufSize

ErrInv ==
    /\ NetInv /\ Unfailing /\ (err = "misled" => style # "every")
    /\ \A i \in 1 .. Len(done) : done[i].type = "chunk" => done[i].body[1] \in 0 .. BufSize
    /\ err = "none" => srv.in_chunk_size <= BufSize

\* The messages written only become more.
LEMMA DoneGrows ==
    ASSUME NetInv, NEW m, done' = done \/ done' = Append(done, m)
    PROVE  /\ Conforming' => Conforming
           /\ \A i \in 1 .. Len(done') : done'[i] = m \/ (i \in 1 .. Len(done) /\ done'[i] = done[i])
<1>1. PICK M : done \in Seq(M)
  BY DEF NetInv
<1>2. CASE done' = done
  BY <1>2 DEF Conforming
<1>3. CASE done' = Append(done, m)
  <2>1. done \in Seq(M \cup {m})
    <3>1. M \subseteq M \cup {m}
      OBVIOUS
    <3> QED
      BY ONLY <1>1, <3>1, SeqWider
  <2>2. /\ Len(done') = Len(done) + 1 /\ done'[Len(done) + 1] = m /\ Len(done) \in Nat
        /\ \A i \in 1 .. Len(done) : done'[i] = done[i]
    BY ONLY <1>3, <2>1
  <2> QED
    BY <2>2 DEF Conforming
<1> QED
  BY <1>2, <1>3

\* A message that the peer has written leaves the reader's state alone.
LEMMA ErrWrite ==
    ASSUME ErrInv, NetInv', NEW m, done' = done \/ done' = Append(done, m),
           m.type = "chunk" => m.body[1] \in 0 .. BufSize, UNCHANGED <<style, err, srv>>
    PROVE  ErrInv'
<1>1. /\ Conforming' => Conforming
      /\ \A i \in 1 .. Len(done') : done'[i] = m \/ (i \in 1 .. Len(done) /\ done'[i] = done[i])
  BY DoneGrows DEF ErrInv
<1>2. Unfailing'
  BY <1>1 DEF ErrInv, Unfailing
<1> QED
  BY <1>1, <1>2 DEF ErrInv

\* A chunk that is read is legal, fits the buffer, and so does the chunk size it may bring.
LEMMA ErrRead ==
    ASSUME ErrInv, ServerRecv, ChunksFit
    PROVE  ErrInv'
<1>1. NetInv'
  BY NetServerRecv DEF ErrInv
<1>2. PICK c, r : c = net[1].cid /\ r = recv_interlaced_message(srv.cs, srv.in_chunk_size, net)
  OBVIOUS
<1>3. RecvIs(c, r)
  BY <1>2, RecvInput DEF ErrInv, NetInv
<1>4. PICK b, cs, size, l :
         /\ b = [tx |-> tx, size |-> psize, n |-> Len(done)]
         /\ cs = srv.cs /\ size = srv.in_chunk_size /\ l = Len(got)
  OBVIOUS
<1>5. err = "none" /\ net # << >> /\ ~ Misled(cs, net) /\ done' = done /\ style' = style
  BY <1>3, <1>4 DEF RecvIs
<1>6. Behind(Maybe, done, net, cs, size, l, b)
  BY <1>4, <1>5 DEF ErrInv, NetInv, NetIs
<1>7. ReadsOne(Maybe, done, net, cs, size, l, b)
  BY ONLY <1>5, <1>6, BehindRead, Zenon
<1>8. PICK j : j = IF r.open \/ r.body = << >> THEN l ELSE l + 1
  OBVIOUS
<1>9. /\ ~ r.open /\ r.body # << >> => j <= Len(done) /\ done[j] = Message(c, r)
      /\ ~ IllegalStart(cs[c], net[1]) /\ PayloadSize(Parsed(cs, net), size) \in {z \in Int : z <= size}
      /\ size \in Nat
  <2>1. /\ ~ r.open /\ r.body # << >> => j <= Len(done) /\ done[j] = Message(c, r)
        /\ ~ IllegalStart(cs[c], net[1]) /\ PayloadSize(Parsed(cs, net), size) \in {z \in Int : z <= size}
    BY ONLY <1>2, <1>4, <1>7, <1>8 DEF ReadsOne
  <2>2. PICK S, e, w : Trail(Maybe, done, net, cs, size, l, b, S, e, w)
    BY <1>6 DEF Behind
  <2>3. size \in Nat
    BY <2>2 DEF Trail, At
  <2> QED
    BY <2>1, <2>3
<1>10. PICK p : p = PayloadSize(Parsed(cs, net), size)
  OBVIOUS
<1>11. ChunkError(cs, size, net) = "none"
  <2>1. size <= BufSize /\ BufSize \in Nat
    BY <1>4, <1>5, ChunkAssumption DEF ErrInv, ChunkAssumption
  <2>2. ~ (p > BufSize)
    BY ONLY <1>9, <1>10, <2>1
  <2> QED
    BY <1>2, <1>9, <1>10, <2>2 DEF ChunkError
<1>12. err' = IF ~ r.open /\ r.body # << >> THEN RecvError(Message(c, r)) ELSE "none"
  BY <1>3, <1>4, <1>11 DEF RecvIs
<1>13. CASE ~ r.open /\ r.body # << >>
  <2>1. j \in 1 .. Len(done) /\ done[j] = Message(c, r)
    <3>1. PICK M : done \in Seq(M) /\ got \in Seq(M)
      BY DEF ErrInv, NetInv
    <3>2. j = l + 1 /\ l \in Nat /\ Len(done) \in Nat
      BY <1>4, <1>8, <1>13, <3>1
    <3> QED
      BY <1>9, <1>13, <3>2
  <2>2. Message(c, r).type = r.type /\ Message(c, r).body = r.body
    BY DEF Message
  <2>3. r.type = "chunk" => r.body[1] \in 0 .. BufSize
    BY <2>1, <2>2 DEF ErrInv
  <2>4. Conforming => err' = "none"
    <3>1. Conforming => (r.type = "chunk" => r.body[1] >= MinChunk)
      BY <2>1, <2>2 DEF Conforming
    <3>2. MinChunk \in Nat /\ BufSize \in Nat
      BY ChunkAssumption DEF ChunkAssumption
    <3>3. Conforming => ~ (r.type = "chunk" /\ r.body[1] < MinChunk)
      BY ONLY <2>3, <3>1, <3>2
    <3>4. err' = RecvError(Message(c, r))
      BY ONLY <1>12, <1>13
    <3> QED
      BY ONLY <2>2, <3>3, <3>4 DEF RecvError
  <2>5. err' = "none" => srv'.in_chunk_size <= BufSize
    <3>1. r.type = "chunk" => r.body[1] <= BufSize
      BY ONLY <2>3, ChunkAssumption DEF ChunkAssumption
    <3> QED
      BY <1>3, <1>5, <1>13, <3>1 DEF RecvIs, ErrInv
  <2>6. err' # "misled"
    BY ONLY <1>12, <1>13 DEF RecvError
  <2> QED
    BY <1>1, <1>5, <2>4, <2>5, <2>6 DEF ErrInv, Unfailing, Conforming
<1>14. CASE ~ (~ r.open /\ r.body # << >>)
  <2>1. err' = "none"
    BY <1>12, <1>14
  <2>2. srv'.in_chunk_size = srv.in_chunk_size
    BY <1>3, <1>14, <2>1 DEF RecvIs
  <2> QED
    BY <1>1, <1>5, <2>1, <2>2 DEF ErrInv, Unfailing, Conforming
<1> QED
  BY <1>13, <1>14

\* A reader of a conforming peer finds no illegal chunk, no chunk larger than its buffer
\* and no illegal chunk size, whatever chunk types the peer chooses and however it
\* interleaves its messages, and takes no payload for a timestamp unless the peer omits
\* timestamps (read_message_header, read_message_payload, on_recv_message).
THEOREM ReaderNeverFails ==
    ASSUME ChunksFit
    PROVE  Spec => []NoError
<1>1. Init => ErrInv
  <2> SUFFICES ASSUME Init PROVE ErrInv
    OBVIOUS
  <2>1. NetInv /\ done = << >>
    BY NetInit
  <2>2. err = "none" /\ srv.in_chunk_size = MinChunk
    BY DEF Init, SrsProtocol
  <2> QED
    BY <2>1, <2>2 DEF ErrInv, Unfailing, ChunksFit
<1>2. ErrInv /\ [Next]_vars => ErrInv'
  <2> SUFFICES ASSUME ErrInv, [Next]_vars PROVE ErrInv'
    OBVIOUS
  <2>0. NetInv'
    BY NetStep DEF ErrInv
  <2>1. ASSUME NEW k \in Kinds, NEW c \in k.cids, NEW fmt \in k.fmts, NEW d \in k.deltas,
               PeerBegin(c, fmt, k, d)
        PROVE  ErrInv'
    <3>1. PICK u : Wrote(c, u) /\ u.type = k.type /\ u.body = [i \in 1 .. k.len |-> k.val]
      <4>0. c \in Cids
        BY ChannelAssumption DEF ChannelAssumption
      <4>1. IsTx(tx[c])
        BY <4>0 DEF ErrInv, NetInv, PeerOK, TxOK
      <4>2. DOMAIN tx[c] = {"fresh", "ts", "delta", "len", "type", "sid", "left", "body"}
        BY <4>1, TxFields
      <4>3. PICK t, body, n :
              t = tx[c] /\ body = [i \in 1 .. k.len |-> k.val] /\ n = smaller(psize, k.len)
        OBVIOUS
      <4>4. PICK u : u = [t EXCEPT !.fresh = FALSE, !.delta = d, !.len = k.len, !.type = k.type, !.body = body,
                             !.ts = IF fmt = 0 THEN d ELSE (@ + d) % TsMod,
                             !.sid = IF fmt = 0 THEN 1 ELSE @,
                             !.left = SubSeq(body, n + 1, k.len)]
        OBVIOUS
      <4>5. Wrote(c, u)
        BY <2>1, <4>3, <4>4 DEF PeerBegin
      <4>6. u.type = k.type /\ u.body = body
        BY ONLY <4>2, <4>3, <4>4
      <4> QED
        BY <4>3, <4>5, <4>6
    <3>2. PICK m : m = [cid |-> c, type |-> u.type, ts |-> u.ts, sid |-> u.sid, body |-> u.body]
      OBVIOUS
    <3>3. done' = done \/ done' = Append(done, m)
      BY <3>1, <3>2 DEF Wrote
    <3>4. m.type = "chunk" => m.body[1] \in 0 .. BufSize
      <4>1. k.type = "chunk" => k.len = 1 /\ k.val \in 0 .. BufSize
        BY ChunkAssumption, ChannelAssumption DEF ChunkAssumption, ChannelAssumption, ChunksFit
      <4> QED
        BY <3>1, <3>2, <4>1
    <3>5. UNCHANGED <<style, err, srv>>
      BY <2>1 DEF PeerBegin
    <3> QED
      BY <2>0, <3>3, <3>4, <3>5, ErrWrite
  <2>2. ASSUME NEW c \in Cids, PeerContinue(c)
        PROVE  ErrInv'
    <3>1. PICK u : Wrote(c, u) /\ u.type = tx[c].type
      <4>1. IsTx(tx[c])
        BY DEF ErrInv, NetInv, PeerOK, TxOK
      <4>2. DOMAIN tx[c] = {"fresh", "ts", "delta", "len", "type", "sid", "left", "body"}
        BY <4>1, TxFields
      <4> QED
        BY <2>2, <4>2 DEF PeerContinue
    <3>2. PICK m : m = [cid |-> c, type |-> u.type, ts |-> u.ts, sid |-> u.sid, body |-> u.body]
      OBVIOUS
    <3>3. done' = done \/ done' = Append(done, m)
      BY <3>1, <3>2 DEF Wrote
    <3>4. m.type # "chunk"
      BY <2>2, <3>1, <3>2 DEF ErrInv, NetInv, PeerOK, PeerContinue
    <3>5. UNCHANGED <<style, err, srv>>
      BY <2>2 DEF PeerContinue
    <3> QED
      BY <2>0, <3>3, <3>4, <3>5, ErrWrite
  <2>3. CASE PeerRecv
    BY <2>0, <2>3 DEF PeerRecv, ErrInv, Unfailing, Conforming
  <2>4. ASSUME NEW k \in SrvKinds, ServerSend(k)
        PROVE  ErrInv'
    <3>1. PICK m : srv' = on_send_packet(srv, m)
      BY <2>4 DEF ServerSend
    <3>2. srv'.in_chunk_size = srv.in_chunk_size
      BY <3>1, SendKeeps DEF ErrInv, NetInv
    <3>3. UNCHANGED <<style, done, err>>
      BY <2>4 DEF ServerSend
    <3> QED
      BY <2>0, <3>2, <3>3 DEF ErrInv, Unfailing, Conforming
  <2>5. CASE UNCHANGED vars
    BY <2>0, <2>5 DEF vars, ErrInv, Unfailing, Conforming
  <2>6. CASE ServerMisled
    <3>1. err = "none" /\ net # << >> /\ Misled(srv.cs, net)
      BY <2>6 DEF ServerMisled, ChunkThere
    <3>2. PICK b : b = [tx |-> tx, size |-> psize, n |-> Len(done)]
      OBVIOUS
    <3>3. Behind(Maybe, done, net, srv.cs, srv.in_chunk_size, Len(got), b)
      BY <3>1, <3>2 DEF ErrInv, NetInv, NetIs
    <3>4. Maybe.omits
      BY ONLY <3>1, <3>3, BehindRight
    <3>5. style # "every"
      BY ONLY <3>4 DEF Maybe
    <3>6. err' = "misled" /\ UNCHANGED <<style, done, srv>>
      BY <2>6 DEF ServerMisled
    <3> QED
      BY <2>0, <3>5, <3>6 DEF ErrInv, Unfailing, Conforming
  <2> QED
    BY <2>1, <2>2, <2>3, <2>4, <2>5, <2>6, ErrRead DEF Next
<1>3. ErrInv /\ OutInv => NoError
  <2> SUFFICES ASSUME ErrInv, OutInv PROVE NoError
    OBVIOUS
  <2>1. PICK p : Behind(Never, outdone, out, pin.cs, pin.size, Len(outgot), p)
    BY DEF OutInv, OutIs, IdleBehind
  <2>2. ~ Never.omits
    BY DEF Never
  <2>3. out # << >> => ~ Misled(pin.cs, out)
    BY ONLY <2>1, <2>2, BehindRight
  <2> QED
    BY <2>3 DEF ErrInv, NoError
<1>4. Init => OutInv
  BY OutInit
<1> QED
  BY <1>1, <1>2, <1>3, <1>4, OutStep, PTL DEF Spec

-----------------------------------------------------------------------------
(* The bytes of a stream are the sum of those of its tokens.                  *)

ByteStep(s, f, i) == IF i = 0 THEN 0 ELSE f[i - 1] + TokenSize(s[i])

\* The recursive function of Bytes exists.
LEMMA ByteExists ==
    ASSUME NEW s, NEW l \in Nat
    PROVE  \E f : f = [i \in 0 .. l |-> ByteStep(s, f, i)]
<1> DEFINE Def(k) == \E f : f = [i \in 0 .. k |-> ByteStep(s, f, i)]
           T == {k \in Nat : ~ Def(k)}
<1>1. Def(0)
  <2> DEFINE f == [i \in 0 .. 0 |-> 0]
  <2>1. f = [i \in 0 .. 0 |-> ByteStep(s, f, i)]
    BY DEF ByteStep
  <2> QED
    BY <2>1
<1>2. ASSUME NEW k \in Nat, Def(k)
      PROVE  Def(k + 1)
  <2>1. PICK g : g = [i \in 0 .. k |-> ByteStep(s, g, i)]
    BY <1>2
  <2> DEFINE f == [i \in 0 .. k + 1 |-> IF i = k + 1 THEN ByteStep(s, g, i) ELSE g[i]]
  <2>2. \A i \in 0 .. k : f[i] = g[i] /\ g[i] = ByteStep(s, g, i)
    <3>1. \A i \in 0 .. k : i \in 0 .. k + 1 /\ i # k + 1
      OBVIOUS
    <3> QED
      BY <2>1, <3>1
  <2>3. f[k + 1] = ByteStep(s, g, k + 1)
    OBVIOUS
  <2>4. ASSUME NEW i \in 0 .. k + 1
        PROVE  f[i] = ByteStep(s, f, i)
    <3>1. i # 0 => i - 1 \in 0 .. k
      OBVIOUS
    <3>2. i # 0 => f[i - 1] = g[i - 1]
      BY <2>2, <3>1
    <3> HIDE DEF f
    <3>3. ByteStep(s, f, i) = ByteStep(s, g, i)
      BY <3>2 DEF ByteStep
    <3>4. i = k + 1 \/ i \in 0 .. k
      OBVIOUS
    <3> QED
      BY <2>2, <2>3, <3>3, <3>4
  <2>5. DOMAIN f = 0 .. k + 1 /\ f = [i \in DOMAIN f |-> f[i]]
    OBVIOUS
  <2> HIDE DEF f
  <2>6. f = [i \in 0 .. k + 1 |-> ByteStep(s, f, i)]
    BY <2>4, <2>5
  <2> QED
    BY <2>6
<1> HIDE DEF Def
<1>3. T = {}
  <2> SUFFICES ASSUME T # {} PROVE FALSE
    OBVIOUS
  <2>1. PICK k \in T : \A y \in T : k <= y
    BY NatMin
  <2>2. k \in Nat /\ k # 0 /\ ~ Def(k)
    BY <1>1
  <2>3. k - 1 \in Nat /\ k - 1 \notin T /\ (k - 1) + 1 = k
    BY <2>1, <2>2
  <2> QED
    BY <1>2, <2>2, <2>3
<1>4. Def(l)
  BY <1>3
<1> QED
  BY <1>4 DEF Def

\* Bytes by the equation of that function.
LEMMA ByteUnfold ==
    ASSUME NEW s, NEW l \in Nat, Len(s) = l
    PROVE  \E f : Bytes(s) = f[l] /\ f = [i \in 0 .. l |-> ByteStep(s, f, i)]
<1> DEFINE f == CHOOSE f : f = [i \in 0 .. l |-> ByteStep(s, f, i)]
<1>1. Bytes(s) = f[l]
  BY SMT DEF Bytes, ByteStep
<1>2. f = [i \in 0 .. l |-> ByteStep(s, f, i)]
  BY ByteExists, Zenon
<1> QED
  BY <1>1, <1>2

\* Nothing has no bytes,
LEMMA BytesEmpty == Bytes(<< >>) = 0
<1>1. Len(<< >>) = 0 /\ 0 \in Nat
  OBVIOUS
<1>2. PICK f : Bytes(<< >>) = f[0] /\ f = [i \in 0 .. 0 |-> ByteStep(<< >>, f, i)]
  BY ONLY <1>1, ByteUnfold
<1> QED
  BY <1>2 DEF ByteStep

\* one more token adds its size,
LEMMA BytesAppend ==
    ASSUME NEW S, NEW s \in Seq(S), NEW x \in S
    PROVE  Bytes(Append(s, x)) = Bytes(s) + TokenSize(x)
<1> DEFINE more == Append(s, x)
<1> PICK l \in Nat : l = Len(s) /\ DOMAIN s = 1 .. l
  OBVIOUS
<1>1. /\ Len(more) = l + 1 /\ more[l + 1] = x /\ l + 1 \in Nat
      /\ \A i \in 1 .. l : more[i] = s[i]
  OBVIOUS
<1> HIDE DEF more
<1>2. PICK f : Bytes(s) = f[l] /\ f = [i \in 0 .. l |-> ByteStep(s, f, i)]
  BY ByteUnfold
<1>3. PICK g : Bytes(more) = g[l + 1] /\ g = [i \in 0 .. l + 1 |-> ByteStep(more, g, i)]
  BY ONLY <1>1, ByteUnfold
<1> DEFINE T == {n \in 0 .. l : f[n] # g[n]}
<1>4. T = {}
  <2> SUFFICES ASSUME T # {} PROVE FALSE
    OBVIOUS
  <2>1. PICK n \in T : \A y \in T : n <= y
    <3>1. T \subseteq Nat
      OBVIOUS
    <3> QED
      BY <3>1, NatMin
  <2>2. n \in 0 .. l /\ n \in 0 .. l + 1 /\ f[n] # g[n]
    OBVIOUS
  <2>3. f[n] = ByteStep(s, f, n) /\ g[n] = ByteStep(more, g, n)
    BY <1>2, <1>3, <2>2
  <2>4. n # 0
    BY <2>2, <2>3 DEF ByteStep
  <2>5. more[n] = s[n]
    BY <1>1, <2>2, <2>4
  <2>6. n - 1 \in 0 .. l /\ n - 1 \notin T
    BY <2>1, <2>2, <2>4
  <2>7. f[n - 1] = g[n - 1]
    BY <2>6
  <2> QED
    BY <2>2, <2>3, <2>4, <2>5, <2>7 DEF ByteStep
<1>5. f[l] = g[l]
  BY <1>4
<1>6. g[l + 1] = ByteStep(more, g, l + 1)
  BY <1>3
<1>7. l + 1 # 0 /\ (l + 1) - 1 = l
  OBVIOUS
<1>8. g[l + 1] = g[l] + TokenSize(x)
  BY ONLY <1>1, <1>6, <1>7 DEF ByteStep
<1> QED
  BY <1>2, <1>3, <1>5, <1>8 DEF more

\* A stream whose tokens have a size.
Sized(s) == \E S : s \in Seq(S) /\ \A x \in S : TokenSize(x) \in Nat

\* bytes are counted in naturals,
LEMMA BytesNat ==
    ASSUME NEW S, \A x \in S : TokenSize(x) \in Nat, NEW s \in Seq(S)
    PROVE  Bytes(s) \in Nat
<1> DEFINE T == {k \in Nat : \E d \in Seq(S) : Len(d) = k /\ Bytes(d) \notin Nat}
<1>1. T = {}
  <2> SUFFICES ASSUME T # {} PROVE FALSE
    OBVIOUS
  <2>1. PICK k \in T : \A y \in T : k <= y
    <3>1. T \subseteq Nat
      OBVIOUS
    <3> QED
      BY <3>1, NatMin
  <2>2. PICK d \in Seq(S) : Len(d) = k /\ Bytes(d) \notin Nat
    OBVIOUS
  <2>3. d # << >>
    BY <2>2, BytesEmpty
  <2>4. PICK f \in Seq(S), x \in S : d = Append(f, x) /\ Len(f) = Len(d) - 1
    <3> HIDE DEF T
    <3> QED
      BY ONLY d \in Seq(S), <2>3, SplitLast
  <2>5. Len(f) \in Nat /\ Len(f) \notin T
    BY <2>1, <2>2, <2>4
  <2>6. Bytes(f) \in Nat
    BY <2>4, <2>5
  <2>7. Bytes(d) = Bytes(f) + TokenSize(x)
    BY ONLY <2>4, BytesAppend
  <2> QED
    BY <2>2, <2>6, <2>7
<1>2. Len(s) \in Nat /\ Len(s) \notin T
  BY <1>1
<1> QED
  BY <1>2

\* and those of two streams add up.
LEMMA BytesConcat ==
    ASSUME NEW S, \A x \in S : TokenSize(x) \in Nat, NEW a \in Seq(S), NEW b \in Seq(S)
    PROVE  Bytes(a \o b) = Bytes(a) + Bytes(b)
<1> DEFINE Adds(d) == Bytes(a \o d) = Bytes(a) + Bytes(d)
<1> DEFINE T == {k \in Nat : \E d \in Seq(S) : Len(d) = k /\ ~ Adds(d)}
<1>0. Bytes(a) \in Nat
  BY BytesNat
<1>a. Adds(<< >>)
  BY <1>0, BytesEmpty
<1>b. ASSUME NEW g \in Seq(S), NEW y \in S, Adds(g)
      PROVE  Adds(Append(g, y))
  <2>1. a \o Append(g, y) = Append(a \o g, y) /\ a \o g \in Seq(S)
    OBVIOUS
  <2>2. Bytes(Append(a \o g, y)) = Bytes(a \o g) + TokenSize(y)
    BY ONLY <2>1, y \in S, BytesAppend
  <2>3. Bytes(Append(g, y)) = Bytes(g) + TokenSize(y)
    BY BytesAppend
  <2>4. Bytes(g) \in Nat /\ TokenSize(y) \in Nat
    BY BytesNat
  <2>5. Bytes(a \o g) = Bytes(a) + Bytes(g)
    BY <1>b
  <2>6. Bytes(a \o Append(g, y)) = Bytes(a) + Bytes(Append(g, y))
    BY ONLY <1>0, <2>1, <2>2, <2>3, <2>4, <2>5
  <2> QED
    BY <2>6
<1> HIDE DEF Adds
<1>1. T = {}
  <2> SUFFICES ASSUME T # {} PROVE FALSE
    OBVIOUS
  <2>1. PICK k \in T : \A y \in T : k <= y
    <3>1. T \subseteq Nat
      OBVIOUS
    <3> QED
      BY <3>1, NatMin
  <2>2. PICK d \in Seq(S) : Len(d) = k /\ ~ Adds(d)
    OBVIOUS
  <2>3. d # << >>
    BY <1>a, <2>2
  <2>4. PICK g \in Seq(S), y \in S : d = Append(g, y) /\ Len(g) = Len(d) - 1
    <3> HIDE DEF T
    <3> QED
      BY ONLY d \in Seq(S), <2>3, SplitLast
  <2>5. Len(g) \in Nat /\ Len(g) \notin T
    BY <2>1, <2>2, <2>4
  <2>6. Adds(g)
    BY <2>5
  <2> QED
    BY <1>b, <2>2, <2>4, <2>6
<1>2. Len(b) \in Nat /\ Len(b) \notin T
  BY <1>1
<1>3. Adds(b)
  BY <1>2
<1> QED
  BY <1>3 DEF Adds

\* A chunk of the peer has a size.
LEMMA ChunkSized ==
    ASSUME NEW h, h.k = "head", h.fmt \in 0 .. 3, NEW d, NEW x, x = Extended(d) \/ x = << >>,
           NEW v, NEW n \in Nat
    PROVE  Sized((<<h>> \o x) \o Payload(Uniform(v, n)))
<1>1. PICK S, b : S = {h, ExtOf(d), b} /\ b = ByteOf(v)
  OBVIOUS
<1>2. h \in S /\ ExtOf(d) \in S /\ b \in S
  BY <1>1
<1>3. x \in Seq(S) /\ <<h>> \in Seq(S)
  <2>1. Extended(d) \in Seq(S) /\ << >> \in Seq(S)
    BY ONLY <1>2, ExtendedSeq
  <2>2. <<h>> \in Seq(S)
    BY ONLY <1>2
  <2> QED
    BY ONLY <2>1, <2>2, x = Extended(d) \/ x = << >>
<1>4. Uniform(b, n) \in Seq(S)
  BY ONLY <1>2, n \in Nat, UniformSeq, Zenon
<1>5. <<h>> \o x \in Seq(S)
  BY ONLY <1>3
<1>6. (<<h>> \o x) \o Uniform(b, n) \in Seq(S)
  BY ONLY <1>4, <1>5
<1>7. TokenSize(h) \in Nat
  BY DEF TokenSize, mh_sizes
<1>8. TokenSize(ExtOf(d)) = 4 /\ TokenSize(b) = 1
  BY <1>1 DEF TokenSize, ExtOf, ByteOf
<1>9. \A y \in S : TokenSize(y) \in Nat
  BY <1>1, <1>7, <1>8
<1>10. Payload(Uniform(v, n)) = Uniform(b, n)
  BY <1>1, UniformPayload
<1> QED
  BY <1>6, <1>9, <1>10 DEF Sized

\* The peer begins a message with a chunk of a size,
LEMMA BeginSized ==
    ASSUME NetInv, NEW k \in Kinds, NEW c \in k.cids, NEW fmt \in k.fmts, NEW d \in k.deltas,
           PeerBegin(c, fmt, k, d)
    PROVE  \E ch : Sized(ch) /\ Write(ch)
<1>0. c \in Cids /\ fmt \in 0 .. 3 /\ k.len \in Nat
  BY ChannelAssumption DEF ChannelAssumption
<1>1. PICK l, v, n : l \in Nat /\ l = k.len /\ v = k.val /\ n = smaller(psize, l)
  BY <1>0
<1>2. n \in 0 .. l /\ n \in Nat
  BY <1>1 DEF NetInv, PeerOK, smaller
<1>3. PICK u, h, x, b :
        /\ h.k = "head" /\ h.fmt = fmt
        /\ x = IF fmt = 3 THEN Ext3(u) ELSE Extended(d)
        /\ b = SubSeq([i \in 1 .. k.len |-> k.val], 1, n)
        /\ Write((<<h>> \o x) \o Payload(b))
  <2>1. PICK w, m, y, p, g :
           /\ g = Header(fmt, m, d) /\ y = (IF fmt = 3 THEN Ext3(w) ELSE Extended(d))
           /\ p = SubSeq([i \in 1 .. k.len |-> k.val], 1, smaller(psize, k.len))
           /\ Write(<<g>> \o y \o Payload(p))
    BY Zenon DEF PeerBegin
  <2>2. g.k = "head" /\ g.fmt = fmt
    BY <2>1 DEF Header
  <2>3. p = SubSeq([i \in 1 .. k.len |-> k.val], 1, n)
    BY ONLY <1>1, <2>1
  <2> QED
    BY ONLY <2>1, <2>2, <2>3
<1>4. \E y : x = Extended(y) \/ x = << >>
  BY <1>3 DEF Ext3
<1>5. b = Uniform(v, n)
  <2>1. SubSeq(Uniform(v, l), 1, n) = Uniform(v, n)
    BY <1>1, <1>2, UniformTail
  <2> QED
    BY ONLY <1>1, <1>3, <2>1 DEF Uniform
<1>6. Sized((<<h>> \o x) \o Payload(Uniform(v, n)))
  BY ONLY <1>0, <1>2, <1>3, <1>4, ChunkSized
<1> QED
  BY <1>3, <1>5, <1>6

\* and goes on with one.
LEMMA ContinueSized ==
    ASSUME NetInv, NEW c \in Cids, PeerContinue(c)
    PROVE  \E ch : Sized(ch) /\ Write(ch)
<1>1. PICK t, v, l : t = tx[c] /\ v = t.body[1] /\ l = Len(t.left)
  OBVIOUS
<1>2. TxOK(t) /\ t.left # << >> /\ psize \in Nat \ {0}
  BY <1>1 DEF NetInv, PeerOK, PeerContinue
<1>3. l \in Nat /\ t.left = Uniform(v, l)
  BY ONLY <1>1, <1>2 DEF TxOK
<1>4. PICK n : n = smaller(psize, l)
  OBVIOUS
<1>5. n \in 0 .. l /\ n \in Nat
  BY <1>2, <1>3, <1>4 DEF smaller
<1>6. SubSeq(t.left, 1, n) = Uniform(v, n)
  <2>1. SubSeq(Uniform(v, l), 1, n) = Uniform(v, n)
    BY <1>3, <1>5, UniformTail
  <2> QED
    BY ONLY <1>3, <2>1
<1>7. PICK h, x, p : /\ h.k = "head" /\ h.fmt = 3 /\ x = Ext3(t) /\ p = SubSeq(t.left, 1, n)
                     /\ NextChunk(c) = (<<h>> \o x) \o Payload(p)
  <2>1. PICK m, g : /\ g = Header(3, m, t.delta)
                    /\ NextChunk(c) = <<g>> \o Ext3(t) \o Payload(SubSeq(t.left, 1, smaller(psize, l)))
    BY <1>1, Zenon DEF NextChunk
  <2>2. g.k = "head" /\ g.fmt = 3
    BY <2>1 DEF Header
  <2> QED
    BY ONLY <1>4, <2>1, <2>2
<1>8. \E y : x = Extended(y) \/ x = << >>
  BY <1>7 DEF Ext3
<1>9. Sized((<<h>> \o x) \o Payload(Uniform(v, n)))
  <2>1. h.fmt \in 0 .. 3
    BY <1>7
  <2> QED
    BY ONLY <1>5, <1>7, <1>8, <2>1, ChunkSized
<1>10. Write(NextChunk(c))
  BY DEF PeerContinue
<1>11. NextChunk(c) = (<<h>> \o x) \o Payload(Uniform(v, n))
  BY ONLY <1>6, <1>7
<1> QED
  BY <1>9, <1>10, <1>11

\* The bytes on the way, of which the writer has written n.
Under(s, n) == Sized(s) /\ n \in Nat /\ Bytes(s) \in 0 .. n

\* Writing a chunk counts its bytes,
LEMMA UnderWrite ==
    ASSUME Under(net, nsent), NEW ch, Sized(ch), Write(ch)
    PROVE  Under(net', nsent') /\ nsent' - Bytes(net') = nsent - Bytes(net) /\ nsent <= nsent'
<1>1. PICK S : net \in Seq(S) /\ \A x \in S : TokenSize(x) \in Nat
  BY DEF Under, Sized
<1>2. PICK T : ch \in Seq(T) /\ \A x \in T : TokenSize(x) \in Nat
  BY DEF Sized
<1>3. PICK U : U = S \cup T
  OBVIOUS
<1>4. S \subseteq U /\ T \subseteq U /\ \A x \in U : TokenSize(x) \in Nat
  BY <1>1, <1>2, <1>3
<1>5. net \in Seq(U) /\ ch \in Seq(U)
  BY ONLY <1>1, <1>2, <1>4, SeqWider
<1>6. net \o ch \in Seq(U)
  BY ONLY <1>5
<1>7. Bytes(net \o ch) = Bytes(net) + Bytes(ch) /\ Bytes(ch) \in Nat
  BY ONLY <1>4, <1>5, BytesConcat, BytesNat
<1>8. net' = net \o ch /\ nsent' = nsent + Bytes(ch) /\ Bytes(net) \in 0 .. nsent /\ nsent \in Nat
  BY DEF Write, Under
<1>9. Sized(net')
  BY ONLY <1>4, <1>6, <1>8 DEF Sized
<1>10. Bytes(net') = Bytes(net) + Bytes(ch)
  BY ONLY <1>7, <1>8
<1>11. /\ nsent' \in Nat /\ Bytes(net') \in 0 .. nsent' /\ nsent <= nsent'
       /\ nsent' - Bytes(net') = nsent - Bytes(net)
  BY ONLY <1>7, <1>8, <1>10
<1> QED
  BY <1>9, <1>11 DEF Under

\* and what a chunk leaves of a stream is the end of it.
ReadsFront(cs, size, in) ==
    \E S : \E x \in Seq(S), rest \in Seq(S) : \E c \in Cids : \E t, u :
       /\ in = x \o rest /\ Reads(cs, size, in, rest, c, u)
       /\ TxOK(t) /\ (Starts(c, t, size, x, u) \/ GoesOn(c, t, size, x, u))

\* The first chunk on the way, as it is read,
LEMMA BehindReads ==
    ASSUME NEW may, NEW dn, NEW in, NEW cs, NEW size, NEW n, NEW b,
           Behind(may, dn, in, cs, size, n, b), in # << >>, ~ Misled(cs, in)
    PROVE  ReadsFront(cs, size, in)
<1> PICK S, e, w : Trail(may, dn, in, cs, size, n, b, S, e, w)
  BY DEF Behind
<1>1. e \in Seq(Seq(S)) /\ in = FlattenSeq(e) /\ At(cs, size, n, w[1])
  BY DEF Trail
<1>2. e # << >>
  BY <1>1, FlatEmpty
<1>3. /\ Tail(e) \in Seq(Seq(S)) /\ 1 \in 1 .. Len(e) /\ 1 + 1 = 2 /\ e[1] \in Seq(S)
  BY <1>1, <1>2
<1>4. PICK rest \in Seq(S) : rest = FlattenSeq(Tail(e))
  BY <1>3, FlatType
<1>5. in = e[1] \o rest
  BY <1>1, <1>2, <1>4, FlatHead
<1>6. PICK c \in Cids : LinkOn(c, may, dn, w[1], e[1], w[2], w[2].tx[c])
  BY <1>3 DEF Trail, Link
<1>7. PICK t, u : t = w[1].tx[c] /\ u = w[2].tx[c]
  OBVIOUS
<1>8. Match(cs[c], t) /\ w[1].size = size /\ size \in Nat \ {0}
  BY <1>1, <1>7 DEF At
<1>9. Starts(c, t, size, e[1], u) \/ GoesOn(c, t, size, e[1], u)
  BY <1>6, <1>7, <1>8 DEF LinkOn
<1>10. Reads(cs, size, e[1] \o rest, rest, c, u)
  <2>1. CASE Starts(c, t, size, e[1], u)
    BY ONLY <1>8, <2>1, rest \in Seq(S), ReadStart, Zenon
  <2>2. CASE GoesOn(c, t, size, e[1], u)
    BY ONLY <1>5, <1>8, <2>2, rest \in Seq(S), ~ Misled(cs, in), ReadOn, Zenon
  <2> QED
    BY <1>9, <2>1, <2>2
<1>11. Reads(cs, size, in, rest, c, u)
  BY ONLY <1>5, <1>10
<1>12. TxOK(t)
  BY ONLY <1>8 DEF Match
<1> QED
  BY ONLY <1>3, <1>4, <1>5, <1>9, <1>11, <1>12, c \in Cids DEF ReadsFront

\* and what it leaves.
LEMMA BehindLeft ==
    ASSUME NEW may, NEW dn, NEW in, NEW cs, NEW size, NEW n, NEW b,
           Behind(may, dn, in, cs, size, n, b), in # << >>, ~ Misled(cs, in)
    PROVE  \E S : \E x \in Seq(S), rest \in Seq(S) : in = x \o rest /\ Unread(cs, size, in) = rest
<1>1. PICK S : \E x \in Seq(S), rest \in Seq(S) : \E c, u : in = x \o rest /\ Reads(cs, size, in, rest, c, u)
  <2>1. ReadsFront(cs, size, in)
    BY BehindReads
  <2> QED
    BY ONLY <2>1 DEF ReadsFront
<1>2. PICK x \in Seq(S), rest \in Seq(S) : \E c, u : in = x \o rest /\ Reads(cs, size, in, rest, c, u)
  BY <1>1
<1>3. in = x \o rest /\ Unread(cs, size, in) = rest
  BY <1>2 DEF Reads
<1> QED
  BY <1>3

\* The end of a stream has no more bytes than the stream.
LEMMA UnderRead ==
    ASSUME Under(net, nsent), NEW S, NEW x \in Seq(S), NEW rest \in Seq(S), net = x \o rest
    PROVE  Under(rest, nsent) /\ Bytes(rest) <= Bytes(net)
<1>1. PICK T : net \in Seq(T) /\ \A y \in T : TokenSize(y) \in Nat
  BY DEF Under, Sized
<1>2. x \in Seq(T) /\ rest \in Seq(T)
  <2>1. /\ Len(net) = Len(x) + Len(rest) /\ Len(x) \in Nat /\ Len(rest) \in Nat
        /\ \A i \in 1 .. Len(x) : net[i] = x[i]
        /\ \A i \in 1 .. Len(rest) : net[Len(x) + i] = rest[i]
    OBVIOUS
  <2>2. \A i \in 1 .. Len(net) : net[i] \in T
    BY <1>1
  <2>3. \A i \in 1 .. Len(x) : x[i] \in T
    BY <2>1, <2>2
  <2>4. \A i \in 1 .. Len(rest) : rest[i] \in T
    <3>1. \A i \in 1 .. Len(rest) : Len(x) + i \in 1 .. Len(net)
      BY <2>1
    <3> QED
      BY <2>1, <2>2, <3>1
  <2>5. x = [i \in 1 .. Len(x) |-> x[i]] /\ rest = [i \in 1 .. Len(rest) |-> rest[i]]
    OBVIOUS
  <2>6. x \in Seq(T)
    BY <2>1, <2>3
  <2>7. rest \in Seq(T)
    BY <2>1, <2>4
  <2> QED
    BY <2>6, <2>7
<1>3. Bytes(x \o rest) = Bytes(x) + Bytes(rest) /\ Bytes(x) \in Nat /\ Bytes(rest) \in Nat
  BY ONLY <1>1, <1>2, BytesConcat, BytesNat
<1>4. Bytes(net) = Bytes(x) + Bytes(rest) /\ Bytes(net) \in 0 .. nsent /\ nsent \in Nat
  BY <1>3 DEF Under
<1>5. Bytes(rest) \in 0 .. nsent /\ Bytes(rest) <= Bytes(net)
  BY ONLY <1>3, <1>4
<1>6. Sized(rest)
  BY ONLY <1>1, <1>2 DEF Sized
<1> QED
  BY <1>4, <1>5, <1>6 DEF Under

-----------------------------------------------------------------------------
(* The fields and counters are in range, also once the server has given up.   *)

\* What the reader knows while it is behind a writer.
LEMMA BehindTyped ==
    ASSUME NEW may, NEW dn, NEW in, NEW cs, NEW size, NEW n, NEW b,
           Behind(may, dn, in, cs, size, n, b)
    PROVE  /\ size \in Nat \ {0}
           /\ \A c \in Cids : cs[c].ts \in 0 .. TsMod - 1 /\ cs[c].open \in BOOLEAN
<1>1. PICK a : At(cs, size, n, a)
  BY DEF Behind, Trail
<1>2. ASSUME NEW c \in Cids
      PROVE  cs[c].ts \in 0 .. TsMod - 1 /\ cs[c].open \in BOOLEAN
  <2>1. Match(cs[c], a.tx[c])
    BY <1>1 DEF At
  <2> QED
    BY ONLY <2>1 DEF Match, TxOK
<1> QED
  BY <1>1, <1>2 DEF At

\* A chunk leaves the server's record as it is, but for the chunk stream, unless it
\* completes a message: then that is acknowledged and taken.
LEMMA RecvServer ==
    ASSUME IsSrv(srv), ServerRecv,
           NEW c, c = net[1].cid, NEW r, r = recv_interlaced_message(srv.cs, srv.in_chunk_size, net),
           NEW p, p = [srv EXCEPT !.cs[c] = Taken(r)]
    PROVE  /\ err' \in {"none", "start", "overflow", "chunk_size"}
           /\ net' = Unread(srv.cs, srv.in_chunk_size, net)
           /\ rbytes' \in GrownTo(nsent - Bytes(net')) /\ nsent' = nsent
           /\ \/ /\ ~ r.open /\ r.body # << >>
                 /\ srv' = on_recv_message(response_acknowledgement_message(p, rbytes'), Message(c, r))
                 /\ err' = "none" => got' = Append(got, Message(c, r))
              \/ srv' = p /\ (err' = "none" => ~ (~ r.open /\ r.body # << >>))
<1> DEFINE in == srv.in_chunk_size
           m == Message(c, r)
           left == Unread(srv.cs, in, net)
           broken == ChunkError(srv.cs, in, net)
           whole == broken = "none" /\ ~ r.open /\ r.body # << >>
<1>1. /\ net' = left /\ nsent' = nsent
      /\ err' = IF broken # "none" THEN broken ELSE IF whole THEN RecvError(m) ELSE "none"
      /\ \E n \in GrownTo(nsent - Bytes(left)) :
            /\ rbytes' = n
            /\ srv' = IF whole THEN on_recv_message(response_acknowledgement_message(p, n), m) ELSE p
      /\ got' = IF whole /\ err' = "none" THEN Append(got, m) ELSE got
  BY Zenon DEF ServerRecv
<1>2. /\ rbytes' \in GrownTo(nsent - Bytes(left))
      /\ srv' = IF whole THEN on_recv_message(response_acknowledgement_message(p, rbytes'), m) ELSE p
  BY ONLY <1>1
<1>3. broken \in {"none", "start", "overflow"} /\ RecvError(m) \in {"none", "chunk_size"}
  BY DEF ChunkError, RecvError
<1> HIDE DEF m
<1>4. err' \in {"none", "start", "overflow", "chunk_size"}
  BY ONLY <1>1, <1>3
<1>5. CASE whole
  BY ONLY <1>1, <1>2, <1>4, <1>5 DEF m
<1>6. CASE ~ whole
  <2>1. err' = "none" => broken = "none"
    BY ONLY <1>1
  <2> QED
    BY ONLY <1>1, <1>2, <1>4, <1>6, <2>1
<1> QED
  BY <1>5, <1>6

\* The server never has taken more bytes than were written.
LEMMA GrowsTo ==
    ASSUME rbytes \in 0 .. nsent, nsent \in Nat, NEW used \in 0 .. nsent, NEW n \in GrownTo(used)
    PROVE  n \in used .. nsent
  BY DEF GrownTo

TypeInv == NetInv /\ OutInv /\ Under(net, nsent) /\ TypeOK

\* A chunk that is read keeps the types and leaves no byte taken that was not written,
LEMMA TypeRead ==
    ASSUME TypeInv, ServerRecv
    PROVE  Under(net', nsent') /\ TypeOK' /\ rbytes' \in (nsent' - Bytes(net')) .. nsent'
<1>1. PICK c, r, p : /\ c = net[1].cid /\ r = recv_interlaced_message(srv.cs, srv.in_chunk_size, net)
                     /\ p = [srv EXCEPT !.cs[c] = Taken(r)]
  OBVIOUS
<1>2. IsSrv(srv) /\ OutInv /\ NetInv
  BY DEF TypeInv, NetInv
<1>3. /\ err' \in {"none", "start", "overflow", "chunk_size"}
      /\ net' = Unread(srv.cs, srv.in_chunk_size, net)
      /\ rbytes' \in GrownTo(nsent - Bytes(net')) /\ nsent' = nsent
      /\ \/ ~ r.open /\ srv' = on_recv_message(response_acknowledgement_message(p, rbytes'), Message(c, r))
         \/ srv' = p
  BY <1>1, <1>2, RecvServer
<1>4. err = "none" /\ net # << >> /\ ~ Misled(srv.cs, net)
  BY DEF ServerRecv, ChunkThere
<1>5. PICK b, cs, size, l :
         /\ b = [tx |-> tx, size |-> psize, n |-> Len(done)]
         /\ cs = srv.cs /\ size = srv.in_chunk_size /\ l = Len(got)
  OBVIOUS
<1>6. Behind(Maybe, done, net, cs, size, l, b)
  BY <1>2, <1>4, <1>5 DEF NetInv, NetIs
<1>7. Under(net', nsent') /\ Bytes(net') \in 0 .. nsent
  <2>0. net # << >> /\ ~ Misled(cs, net)
    BY ONLY <1>4, <1>5
  <2>1. PICK S : \E x \in Seq(S), rest \in Seq(S) : net = x \o rest /\ Unread(cs, size, net) = rest
    BY ONLY <1>6, <2>0, BehindLeft
  <2>2. PICK x \in Seq(S), rest \in Seq(S) : net = x \o rest /\ Unread(cs, size, net) = rest
    BY <2>1
  <2>3. Under(net, nsent)
    BY DEF TypeInv
  <2>4. Under(rest, nsent)
    BY <2>2, <2>3, UnderRead
  <2>5. net' = rest
    BY <1>3, <1>5, <2>2
  <2> QED
    BY ONLY <1>3, <2>4, <2>5 DEF Under
<1>8. rbytes' \in (nsent - Bytes(net')) .. nsent /\ rbytes' \in 0 .. nsent
  <2>1. rbytes \in 0 .. nsent /\ nsent \in Nat
    BY DEF TypeInv, TypeOK, Under
  <2>2. nsent - Bytes(net') \in 0 .. nsent
    BY ONLY <1>7, <2>1
  <2>3. rbytes' \in (nsent - Bytes(net')) .. nsent
    BY <1>3, <2>1, <2>2, GrowsTo
  <2> QED
    BY ONLY <2>1, <2>2, <2>3
<1>9. IsSrv(p) /\ p.cs = [cs EXCEPT ![c] = Taken(r)] /\ p.in_chunk_size = size
  <2>1. /\ IsSrv(p) /\ p.out_chunk_size = srv.out_chunk_size
        /\ p.cs = [srv.cs EXCEPT ![c] = Taken(r)] /\ p.in_chunk_size = srv.in_chunk_size
    BY ONLY <1>1, <1>2, TakenKeeps
  <2> QED
    BY ONLY <1>5, <2>1
<1>10. /\ srv'.cs = p.cs
       /\ \/ srv'.in_chunk_size = size
          \/ ~ r.open /\ r.type = "chunk" /\ srv'.in_chunk_size = r.body[1]
  <2>1. CASE srv' = p
    BY <1>9, <2>1
  <2>2. CASE ~ r.open /\ srv' = on_recv_message(response_acknowledgement_message(p, rbytes'), Message(c, r))
    <3>1. PICK q, m : q = response_acknowledgement_message(p, rbytes') /\ m = Message(c, r)
      OBVIOUS
    <3>2. IsSrv(q) /\ q.cs = p.cs /\ q.in_chunk_size = size
      BY <1>9, <3>1, AckKeeps
    <3>3. m.type = r.type /\ m.body = r.body
      BY <3>1 DEF Message
    <3>4. PICK z : z = on_recv_message(q, m)
      OBVIOUS
    <3>5. z.cs = q.cs /\ z.in_chunk_size = IF m.type = "chunk" THEN m.body[1] ELSE q.in_chunk_size
      BY ONLY <3>2, <3>4, RecvKeeps
    <3> QED
      BY ONLY <2>2, <3>1, <3>2, <3>3, <3>4, <3>5
  <2> QED
    BY <1>3, <2>1, <2>2
<1>11. /\ srv'.in_chunk_size \in Nat
       /\ \A k \in Cids : srv'.cs[k].ts \in 0 .. TsMod - 1 /\ srv'.cs[k].open \in BOOLEAN
  <2>1. ReadsOne(Maybe, done, net, cs, size, l, b)
    BY ONLY <1>4, <1>5, <1>6, BehindRead, Zenon
  <2>2. PICK k, z : /\ z = IF ~ r.open /\ r.type = "chunk" THEN r.body[1] ELSE size
                    /\ Behind(Maybe, done, Unread(cs, size, net), [cs EXCEPT ![c] = Taken(r)], z, k, b)
    BY ONLY <1>1, <1>5, <2>1 DEF ReadsOne
  <2>3. PICK ncs : ncs = [cs EXCEPT ![c] = Taken(r)]
    OBVIOUS
  <2>4. /\ z \in Nat \ {0}
        /\ \A h \in Cids : ncs[h].ts \in 0 .. TsMod - 1 /\ ncs[h].open \in BOOLEAN
    BY ONLY <2>2, <2>3, BehindTyped
  <2>5. size \in Nat \ {0}
    BY ONLY <1>6, BehindTyped
  <2>6. srv'.in_chunk_size \in Nat
    BY ONLY <1>10, <2>2, <2>4, <2>5
  <2> QED
    BY ONLY <1>9, <1>10, <2>3, <2>4, <2>6
<1>12. srv'.out_chunk_size \in Nat \ {0}
  BY <1>2, RecvShape DEF OutInv
<1>13. rbytes' \in 0 .. nsent'
  BY <1>3, <1>8
<1>14. TypeOK'
  BY ONLY <1>3, <1>11, <1>12, <1>13 DEF TypeOK
<1> QED
  BY <1>3, <1>7, <1>8, <1>14

\* and so does one that is written.
LEMMA TypeWrite ==
    ASSUME TypeInv, NEW ch, Sized(ch), Write(ch), OutInv', UNCHANGED <<srv, rbytes, err>>
    PROVE  Under(net', nsent') /\ TypeOK' /\ nsent' - Bytes(net') = nsent - Bytes(net)
<1>1. Under(net, nsent)
  BY DEF TypeInv
<1>2. Under(net', nsent') /\ nsent' - Bytes(net') = nsent - Bytes(net) /\ nsent <= nsent'
  BY ONLY <1>1, Sized(ch), Write(ch), UnderWrite
<1>3. rbytes' \in 0 .. nsent'
  <2>1. rbytes' \in 0 .. nsent /\ nsent \in Nat /\ nsent' \in Nat
    BY <1>2 DEF TypeInv, TypeOK, Under
  <2> QED
    BY ONLY <1>2, <2>1
<1> QED
  BY <1>2, <1>3 DEF TypeInv, TypeOK

\* Every step keeps the types,
LEMMA TypeStep == TypeInv /\ [Next]_vars => TypeInv'
<1> SUFFICES ASSUME TypeInv, [Next]_vars PROVE Under(net', nsent') /\ TypeOK'
  BY NetStep, OutStep DEF TypeInv
<1>0. NetInv /\ OutInv' /\ IsSrv(srv)
  BY OutStep DEF TypeInv, NetInv
<1>1. ASSUME NEW k \in Kinds, NEW c \in k.cids, NEW fmt \in k.fmts, NEW d \in k.deltas,
             PeerBegin(c, fmt, k, d)
      PROVE  Under(net', nsent') /\ TypeOK'
  <2>1. PICK ch : Sized(ch) /\ Write(ch)
    BY <1>0, <1>1, BeginSized
  <2>2. UNCHANGED <<srv, rbytes, err>>
    BY <1>1 DEF PeerBegin
  <2> QED
    BY <1>0, <2>1, <2>2, TypeWrite
<1>2. ASSUME NEW c \in Cids, PeerContinue(c)
      PROVE  Under(net', nsent') /\ TypeOK'
  <2>1. PICK ch : Sized(ch) /\ Write(ch)
    BY <1>0, <1>2, ContinueSized
  <2>2. UNCHANGED <<srv, rbytes, err>>
    BY <1>2 DEF PeerContinue
  <2> QED
    BY <1>0, <2>1, <2>2, TypeWrite
<1>3. CASE PeerRecv
  BY <1>3 DEF PeerRecv, TypeInv, TypeOK
<1>4. CASE ServerRecv
  BY <1>4, TypeRead
<1>5. ASSUME NEW k \in SrvKinds, ServerSend(k)
      PROVE  Under(net', nsent') /\ TypeOK'
  <2>1. PICK m : srv' = on_send_packet(srv, m)
    BY <1>5 DEF ServerSend
  <2>2. srv'.cs = srv.cs /\ srv'.in_chunk_size = srv.in_chunk_size
    BY <1>0, <2>1, SendKeeps
  <2>3. UNCHANGED <<net, nsent, rbytes, err>>
    BY <1>5 DEF ServerSend
  <2>4. srv'.out_chunk_size \in Nat \ {0}
    BY <1>0 DEF OutInv
  <2> QED
    BY <2>2, <2>3, <2>4 DEF TypeInv, TypeOK
<1>6. CASE UNCHANGED vars
  BY <1>6 DEF vars, TypeInv, TypeOK
<1>7. CASE ServerMisled
  BY <1>7 DEF ServerMisled, TypeInv, TypeOK
<1> QED
  BY <1>1, <1>2, <1>3, <1>4, <1>5, <1>6, <1>7 DEF Next

\* which hold at first.
LEMMA TypeInit == Init => TypeInv
<1> SUFFICES ASSUME Init PROVE TypeInv
  OBVIOUS
<1>1. NetInv /\ OutInv
  BY NetInit, OutInit
<1>2. net = << >> /\ nsent = 0 /\ rbytes = 0 /\ err = "none" /\ srv = SrsProtocol
  BY DEF Init
<1>3. Under(net, nsent)
  <2>1. PICK S, s : S = {} /\ s = << >>
    OBVIOUS
  <2>2. s \in Seq(S) /\ \A x \in S : TokenSize(x) \in Nat
    BY <2>1
  <2>3. Sized(s)
    BY ONLY <2>2 DEF Sized
  <2> QED
    BY <1>2, <2>1, <2>3, BytesEmpty DEF Under
<1>4. \A c \in Cids : srv.cs[c].ts = 0 /\ srv.cs[c].open = FALSE
  BY <1>2 DEF SrsProtocol, SrsChunkStream
<1>5. srv.in_chunk_size = MinChunk /\ srv.out_chunk_size = MinChunk
  BY <1>2 DEF SrsProtocol
<1>6. MinChunk \in Nat \ {0} /\ 0 \in 0 .. TsMod - 1
  BY ChunkAssumption DEF ChunkAssumption
<1>7. TypeOK
  <2>1. rbytes \in 0 .. nsent
    BY <1>2
  <2>2. \A c \in Cids : srv.cs[c].ts \in 0 .. TsMod - 1 /\ srv.cs[c].open \in BOOLEAN
    BY <1>4, <1>6
  <2> QED
    BY ONLY <1>2, <1>5, <1>6, <2>1, <2>2 DEF TypeOK
<1> QED
  BY <1>1, <1>3, <1>7 DEF TypeInv

\* The reader's fields stay in range, and the server never counts more bytes than the
\* peer has written (SrsChunkStream, SrsProtocol, SrsFastStream::grow).
THEOREM TypeCorrect == Spec => []TypeOK
<1>1. TypeInv => TypeOK
  BY DEF TypeInv
<1> QED
  BY <1>1, TypeInit, TypeStep, PTL DEF Spec

-----------------------------------------------------------------------------
(* No acknowledgement is owed between messages.                               *)

\* The windows that are asked for are not 1, of which half is nothing.
WindowsFit == \A k \in Kinds : k.type = "winack" => k.val \in Nat \ {1}
Asks(x) == x.type = "winack" => x.body[1] \in Nat \ {1}

AckInv ==
    /\ TypeInv /\ AckPaid
    /\ \A c \in Cids : Asks(tx[c])
    /\ \A i \in 1 .. Len(done) : Asks(done[i])
    /\ srv.window \in Nat \ {1} /\ srv.nb_recv_bytes \in Nat

\* Nothing but a message read changes the window and the bytes acknowledged.
LEMMA SendCounts ==
    ASSUME NEW p, IsSrv(p), NEW m
    PROVE  /\ on_send_packet(p, m).window = p.window
           /\ on_send_packet(p, m).nb_recv_bytes = p.nb_recv_bytes
<1>1. DOMAIN p = {"cs", "in_chunk_size", "out_chunk_size", "window", "nb_recv_bytes",
                  "sequence_number", "out_window", "in_buffer_length"}
  BY SrvFields
<1>2. PICK q, v : q = on_send_packet(p, m) /\ v = m.body[1]
  OBVIOUS
<1>3. q = p \/ q = [p EXCEPT !.out_chunk_size = v] \/ q = [p EXCEPT !.out_window = v]
  BY ONLY <1>2 DEF on_send_packet
<1>4. q.window = p.window /\ q.nb_recv_bytes = p.nb_recv_bytes
  BY ONLY <1>1, <1>3
<1> QED
  BY <1>2, <1>4

\* Storing a chunk stream does not,
LEMMA TakenCounts ==
    ASSUME NEW p, IsSrv(p), NEW c, NEW t, NEW q, q = [p EXCEPT !.cs[c] = t]
    PROVE  q.window = p.window /\ q.nb_recv_bytes = p.nb_recv_bytes
<1>1. DOMAIN p = {"cs", "in_chunk_size", "out_chunk_size", "window", "nb_recv_bytes",
                  "sequence_number", "out_window", "in_buffer_length"}
  BY SrvFields
<1>2. PICK d : d = [p.cs EXCEPT ![c] = t]
  OBVIOUS
<1>3. q = [p EXCEPT !.cs = d]
  BY <1>2
<1> QED
  BY ONLY <1>1, <1>3

\* An acknowledgement that is due is for all the bytes taken.
LEMMA AckCounts ==
    ASSUME NEW p, IsSrv(p), NEW n, NEW q, q = response_acknowledgement_message(p, n)
    PROVE  /\ q.window = p.window
           /\ q.nb_recv_bytes = IF AckDue(p, n) THEN n ELSE p.nb_recv_bytes
<1>1. DOMAIN p = {"cs", "in_chunk_size", "out_chunk_size", "window", "nb_recv_bytes",
                  "sequence_number", "out_window", "in_buffer_length"}
  BY SrvFields
<1>2. PICK y : Acknowledged(p, n) = [p EXCEPT !.nb_recv_bytes = n, !.sequence_number = y]
  BY DEF Acknowledged
<1>3. PICK x : x = [p EXCEPT !.nb_recv_bytes = n, !.sequence_number = y]
  OBVIOUS
<1>4. x.window = p.window /\ x.nb_recv_bytes = n
  BY ONLY <1>1, <1>3
<1>5. q = IF AckDue(p, n) THEN x ELSE p
  BY <1>2, <1>3 DEF response_acknowledgement_message
<1> QED
  BY ONLY <1>4, <1>5

\* and a message that is taken changes the window at most.
LEMMA RecvCounts ==
    ASSUME NEW p, IsSrv(p), NEW m, NEW q, q = on_recv_message(p, m)
    PROVE  /\ q.nb_recv_bytes = p.nb_recv_bytes
           /\ q.window = p.window \/ (m.type = "winack" /\ q.window = m.body[1])
<1>1. DOMAIN p = {"cs", "in_chunk_size", "out_chunk_size", "window", "nb_recv_bytes",
                  "sequence_number", "out_window", "in_buffer_length"}
  BY SrvFields
<1>2. PICK v : v = m.body[1]
  OBVIOUS
<1>3. \/ m.type = "winack" /\ q = [p EXCEPT !.window = v]
      \/ q = p \/ q = [p EXCEPT !.in_chunk_size = v] \/ q = [p EXCEPT !.in_buffer_length = v]
  BY ONLY <1>2, q = on_recv_message(p, m) DEF on_recv_message
<1>4. /\ q.nb_recv_bytes = p.nb_recv_bytes
      /\ q.window = p.window \/ (m.type = "winack" /\ q.window = v)
  BY ONLY <1>1, <1>3
<1> QED
  BY <1>2, <1>4

\* A message without payload leaves its chunk stream at the length 0 it announced.
LEMMA EmptyRead ==
    ASSUME NEW may, NEW dn, NEW in, NEW cs, NEW size, NEW n, NEW b,
           Behind(may, dn, in, cs, size, n, b), in # << >>, ~ Misled(cs, in),
           NEW r, r = recv_interlaced_message(cs, size, in), ~ r.open, r.body = << >>
    PROVE  Taken(r).count > 0 /\ Taken(r).len = 0
<1>1. PICK S : \E x \in Seq(S), rest \in Seq(S) : \E c \in Cids : \E t, u :
              /\ in = x \o rest /\ Reads(cs, size, in, rest, c, u)
              /\ TxOK(t) /\ (Starts(c, t, size, x, u) \/ GoesOn(c, t, size, x, u))
  <2>1. ReadsFront(cs, size, in)
    BY BehindReads
  <2> QED
    BY ONLY <2>1 DEF ReadsFront
<1>2. PICK x, rest, c, t, u :
              /\ Reads(cs, size, in, rest, c, u)
              /\ TxOK(t) /\ (Starts(c, t, size, x, u) \/ GoesOn(c, t, size, x, u))
  BY <1>1
<1>3. /\ Match(Taken(r), u) /\ r.open = (u.left # << >>)
      /\ u.left = << >> => r.body = u.body
  BY ONLY <1>2, r = recv_interlaced_message(cs, size, in) DEF Reads
<1>4. u.left = << >> /\ u.body = << >>
  BY ONLY <1>3, ~ r.open, r.body = << >>
<1>5. u.len = 0 /\ u.fresh = FALSE
  <2>1. CASE Starts(c, t, size, x, u)
    <3>1. PICK len, v : len \in Nat /\ u.fresh = FALSE /\ u.len = len /\ u.body = Uniform(v, len)
      BY ONLY <2>1 DEF Starts, StartsAs
    <3>2. len = 0
      BY ONLY <1>4, <3>1, UniformEmpty
    <3> QED
      BY ONLY <3>1, <3>2
  <2>2. CASE GoesOn(c, t, size, x, u)
    <3>1. t.left # << >>
      BY ONLY <2>2 DEF GoesOn
    <3>2. PICK w : u = [t EXCEPT !.left = w]
      BY ONLY <2>2 DEF GoesOn
    <3>3. DOMAIN t = {"fresh", "ts", "delta", "len", "type", "sid", "left", "body"}
      BY ONLY <1>2, TxFields DEF TxOK
    <3>4. u.body = t.body
      BY ONLY <3>2, <3>3
    <3>5. PICK v : t.len \in Nat /\ t.len # 0 /\ t.body = Uniform(v, t.len)
      BY ONLY <1>2, <3>1 DEF TxOK
    <3>6. t.len = 0
      BY ONLY <1>4, <3>4, <3>5, UniformEmpty
    <3> QED
      BY ONLY <3>5, <3>6
  <2> QED
    BY <1>2, <2>1, <2>2
<1>6. IsStream(Taken(r)) /\ Knows(Taken(r), u.len, u.type, u.delta)
  BY ONLY <1>3, <1>5 DEF Match
<1>7. Taken(r).count \in Nat /\ Taken(r).count # 0 /\ Taken(r).len = 0
  BY ONLY <1>5, <1>6 DEF IsStream, Knows
<1> QED
  BY <1>7

\* Whatever a chunk is part of, it settles what the server owes.
LEMMA AckRead ==
    ASSUME AckInv, ServerRecv
    PROVE  /\ srv'.window \in Nat \ {1} /\ srv'.nb_recv_bytes \in Nat
           /\ AckPaid'
<1>1. PICK c, r, p, n : /\ c = net[1].cid /\ r = recv_interlaced_message(srv.cs, srv.in_chunk_size, net)
                        /\ p = [srv EXCEPT !.cs[c] = Taken(r)] /\ n = rbytes'
  OBVIOUS
<1>2. IsSrv(srv) /\ NetInv /\ TypeInv
  BY DEF AckInv, TypeInv, NetInv
<1>3. \/ /\ ~ r.open /\ r.body # << >>
         /\ srv' = on_recv_message(response_acknowledgement_message(p, n), Message(c, r))
         /\ err' = "none" => got' = Append(got, Message(c, r))
      \/ srv' = p /\ (err' = "none" => ~ (~ r.open /\ r.body # << >>))
  BY <1>1, <1>2, RecvServer
<1>4. PICK used : used = nsent' - Bytes(net')
  OBVIOUS
<1>5. used \in Int /\ n \in Nat /\ used <= n
  <2>1. Under(net', nsent') /\ rbytes' \in (nsent' - Bytes(net')) .. nsent'
    BY <1>2, TypeRead
  <2>2. nsent' \in Nat /\ Bytes(net') \in 0 .. nsent'
    BY <2>1 DEF Under
  <2> QED
    BY ONLY <1>1, <1>4, <2>1, <2>2
<1>6. err = "none" /\ net # << >> /\ ~ Misled(srv.cs, net)
  BY DEF ServerRecv, ChunkThere
<1>7. PICK b, cs, size, l :
         /\ b = [tx |-> tx, size |-> psize, n |-> Len(done)]
         /\ cs = srv.cs /\ size = srv.in_chunk_size /\ l = Len(got)
  OBVIOUS
<1>8. Behind(Maybe, done, net, cs, size, l, b)
  BY <1>2, <1>6, <1>7 DEF NetInv, NetIs
<1>9. ReadsOne(Maybe, done, net, cs, size, l, b)
  BY ONLY <1>6, <1>7, <1>8, BehindRead, Zenon
<1>10. /\ IsSrv(p) /\ p.cs = [cs EXCEPT ![c] = Taken(r)]
       /\ p.window = srv.window /\ p.nb_recv_bytes = srv.nb_recv_bytes
  <2>1. IsSrv(p) /\ p.cs = [srv.cs EXCEPT ![c] = Taken(r)]
    BY ONLY <1>1, <1>2, TakenKeeps
  <2>2. p.window = srv.window /\ p.nb_recv_bytes = srv.nb_recv_bytes
    BY <1>1, <1>2, TakenCounts
  <2> QED
    BY ONLY <1>7, <2>1, <2>2
<1>11. c \in Cids /\ DOMAIN cs = Cids
  <2>1. c \in Cids
    BY ONLY <1>1, <1>9 DEF ReadsOne
  <2>2. PICK a : At(cs, size, l, a)
    BY ONLY <1>8 DEF Behind, Trail
  <2> QED
    BY ONLY <2>1, <2>2 DEF At
<1>12. srv.window \in Nat \ {1} /\ srv.nb_recv_bytes \in Nat
  BY DEF AckInv
<1>13. CASE srv' = p /\ (err' = "none" => ~ (~ r.open /\ r.body # << >>))
  <2>1. srv'.cs[c] = Taken(r)
    BY ONLY <1>10, <1>11, <1>13
  <2>2. r.open => Taken(r).open
    BY DEF Taken
  <2>3. ~ r.open /\ r.body = << >> => Taken(r).count > 0 /\ Taken(r).len = 0
    BY <1>1, <1>6, <1>7, <1>8, EmptyRead
  <2>4. AckPaid'
    BY <1>11, <1>13, <2>1, <2>2, <2>3 DEF AckPaid
  <2> QED
    BY <1>10, <1>12, <1>13, <2>4
<1>14. CASE /\ ~ r.open /\ r.body # << >>
            /\ srv' = on_recv_message(response_acknowledgement_message(p, n), Message(c, r))
            /\ err' = "none" => got' = Append(got, Message(c, r))
  <2>1. PICK q, m, z : /\ q = response_acknowledgement_message(p, n) /\ m = Message(c, r)
                       /\ z = on_recv_message(q, m)
    OBVIOUS
  <2>2. srv' = z
    BY ONLY <1>14, <2>1
  <2>3. IsSrv(q) /\ q.window = p.window /\ q.nb_recv_bytes = IF AckDue(p, n) THEN n ELSE p.nb_recv_bytes
    BY <1>10, <2>1, AckKeeps, AckCounts
  <2>4. z.nb_recv_bytes = q.nb_recv_bytes /\ (z.window = q.window \/ (m.type = "winack" /\ z.window = m.body[1]))
    BY <2>1, <2>3, RecvCounts
  <2>5. m.type = "winack" => m.body[1] \in Nat \ {1}
    <3>1. PICK j : j = l + 1
      OBVIOUS
    <3>2. j <= Len(done) /\ done[j] = m
      BY ONLY <1>1, <1>7, <1>9, <1>14, <2>1, <3>1 DEF ReadsOne
    <3>3. PICK M : done \in Seq(M) /\ got \in Seq(M)
      BY <1>2 DEF NetInv
    <3>4. j \in 1 .. Len(done)
      BY <1>7, <3>1, <3>2, <3>3
    <3> QED
      BY <3>2, <3>4 DEF AckInv, Asks
  <2>6. z.window \in Nat \ {1} /\ z.nb_recv_bytes \in Nat
    BY ONLY <1>5, <1>10, <1>12, <2>3, <2>4, <2>5
  <2>7. m.type # "winack" => ~ AckDue(z, used)
    <3>1. PICK w, nb, half : w = srv.window /\ nb = srv.nb_recv_bytes /\ half = w \div 2
      OBVIOUS
    <3>2. w \in Nat /\ nb \in Nat /\ half \in Int /\ (w > 0 => half >= 1)
      BY ONLY <1>12, <3>1
    <3>3. AckDue(p, n) <=> (w > 0 /\ n - nb >= half)
      BY ONLY <1>10, <3>1 DEF AckDue
    <3>4. m.type # "winack" =>
             /\ z.window = w /\ z.nb_recv_bytes = IF w > 0 /\ n - nb >= half THEN n ELSE nb
      BY ONLY <1>10, <2>3, <2>4, <3>1, <3>3
    <3>5. ~ (w > 0 /\ used - (IF w > 0 /\ n - nb >= half THEN n ELSE nb) >= half)
      BY ONLY <1>5, <3>2
    <3> QED
      BY ONLY <3>1, <3>4, <3>5 DEF AckDue
  <2>8. err' = "none" => got' # << >> /\ got'[Len(got')] = m
    <3>1. PICK M : got \in Seq(M)
      BY <1>2 DEF NetInv
    <3>2. got \in Seq(M \cup {m}) /\ m \in M \cup {m}
      BY <3>1
    <3> QED
      BY ONLY <1>14, <2>1, <3>2
  <2>9. AckPaid'
    BY <1>4, <2>2, <2>7, <2>8 DEF AckPaid
  <2> QED
    BY <2>2, <2>6, <2>9
<1> QED
  BY <1>3, <1>13, <1>14

\* A message of the peer asks for the window it was made with.
LEMMA AckWrite ==
    ASSUME AckInv, TypeInv', NEW ch, Sized(ch), Write(ch), UNCHANGED <<srv, rbytes, err, got>>,
           NEW c \in Cids, NEW u, Asks(u), Wrote(c, u)
    PROVE  AckInv'
<1>1. nsent' - Bytes(net') = nsent - Bytes(net)
  BY TypeWrite DEF AckInv, TypeInv
<1>2. AckPaid'
  BY <1>1 DEF AckInv, AckPaid
<1>3. PICK m : m = [cid |-> c, type |-> u.type, ts |-> u.ts, sid |-> u.sid, body |-> u.body]
  OBVIOUS
<1>4. (done' = done \/ done' = Append(done, m)) /\ tx' = [tx EXCEPT ![c] = u]
  BY <1>3 DEF Wrote
<1>5. \A i \in 1 .. Len(done') : done'[i] = m \/ (i \in 1 .. Len(done) /\ done'[i] = done[i])
  BY <1>4, DoneGrows DEF AckInv, TypeInv
<1>6. Asks(m)
  BY <1>3 DEF Asks
<1>7. \A i \in 1 .. Len(done') : Asks(done'[i])
  BY <1>5, <1>6 DEF AckInv
<1>8. \A k \in Cids : Asks(tx'[k])
  <2>1. DOMAIN tx = Cids /\ \A k \in Cids : Asks(tx[k])
    BY DEF AckInv, TypeInv, NetInv, PeerOK
  <2> QED
    BY ONLY <1>4, <2>1, Asks(u)
<1> QED
  BY <1>2, <1>7, <1>8 DEF AckInv

\* The peer begins a message,
LEMMA AckBegin ==
    ASSUME AckInv, TypeInv', WindowsFit,
           NEW k \in Kinds, NEW c \in k.cids, NEW fmt \in k.fmts, NEW d \in k.deltas,
           PeerBegin(c, fmt, k, d)
    PROVE  AckInv'
<1>0. c \in Cids /\ NetInv
  BY ChannelAssumption DEF ChannelAssumption, AckInv, TypeInv
<1>1. IsTx(tx[c])
  BY <1>0 DEF NetInv, PeerOK, TxOK
<1>2. DOMAIN tx[c] = {"fresh", "ts", "delta", "len", "type", "sid", "left", "body"}
  BY <1>1, TxFields
<1>3. PICK t, body, n :
        t = tx[c] /\ body = [i \in 1 .. k.len |-> k.val] /\ n = smaller(psize, k.len)
  OBVIOUS
<1>4. PICK u : u = [t EXCEPT !.fresh = FALSE, !.delta = d, !.len = k.len, !.type = k.type, !.body = body,
                       !.ts = IF fmt = 0 THEN d ELSE (@ + d) % TsMod,
                       !.sid = IF fmt = 0 THEN 1 ELSE @,
                       !.left = SubSeq(body, n + 1, k.len)]
  OBVIOUS
<1>5. Wrote(c, u) /\ UNCHANGED <<srv, rbytes, err, got>>
  BY <1>3, <1>4 DEF PeerBegin
<1>6. u.type = k.type /\ u.body = body
  BY ONLY <1>2, <1>3, <1>4
<1>7. Asks(u)
  <2>1. k.type = "winack" => k.len = 1 /\ k.val \in Nat \ {1}
    BY ChannelAssumption DEF ChannelAssumption, WindowsFit
  <2> QED
    BY ONLY <1>3, <1>6, <2>1 DEF Asks
<1>8. PICK ch : Sized(ch) /\ Write(ch)
  BY <1>0, BeginSized
<1> QED
  BY <1>0, <1>5, <1>7, <1>8, AckWrite

\* or goes on with one.
LEMMA AckContinue ==
    ASSUME AckInv, TypeInv', NEW c \in Cids, PeerContinue(c)
    PROVE  AckInv'
<1>0. NetInv
  BY DEF AckInv, TypeInv
<1>1. IsTx(tx[c])
  BY <1>0 DEF NetInv, PeerOK, TxOK
<1>2. DOMAIN tx[c] = {"fresh", "ts", "delta", "len", "type", "sid", "left", "body"}
  BY <1>1, TxFields
<1>3. PICK u : /\ u = [tx[c] EXCEPT !.left = SubSeq(@, smaller(psize, Len(@)) + 1, Len(@))]
               /\ Wrote(c, u)
  BY DEF PeerContinue
<1>4. u.type = tx[c].type /\ u.body = tx[c].body
  BY ONLY <1>2, <1>3
<1>5. Asks(u)
  BY <1>4 DEF AckInv, Asks
<1>6. PICK ch : Sized(ch) /\ Write(ch)
  BY <1>0, ContinueSized
<1>7. UNCHANGED <<srv, rbytes, err, got>>
  BY DEF PeerContinue
<1> QED
  BY <1>3, <1>5, <1>6, <1>7, AckWrite

\* Between messages the server owes no acknowledgement, for all windows but 1, of which
\* half is 0 bytes (response_acknowledgement_message).
THEOREM NothingOwed ==
    ASSUME WindowsFit
    PROVE  Spec => []AckPaid
<1>1. Init => AckInv
  <2> SUFFICES ASSUME Init PROVE AckInv
    OBVIOUS
  <2>1. /\ srv = SrsProtocol /\ done = << >>
        /\ \A c \in Cids : tx[c].type = "none"
    BY DEF Init
  <2>2. srv.window = 0 /\ srv.nb_recv_bytes = 0
    BY <2>1 DEF SrsProtocol
  <2>3. AckPaid
    BY <2>2 DEF AckPaid, AckDue
  <2>4. \A c \in Cids : Asks(tx[c])
    BY <2>1 DEF Asks
  <2>5. \A i \in 1 .. Len(done) : Asks(done[i])
    BY <2>1
  <2> QED
    BY <2>2, <2>3, <2>4, <2>5, TypeInit DEF AckInv
<1>2. AckInv /\ [Next]_vars => AckInv'
  <2> SUFFICES ASSUME AckInv, [Next]_vars PROVE AckInv'
    OBVIOUS
  <2>0. TypeInv' /\ IsSrv(srv)
    BY TypeStep DEF AckInv, TypeInv, NetInv
  <2>1. CASE PeerRecv
    BY <2>0, <2>1 DEF PeerRecv, AckInv, AckPaid
  <2>2. CASE ServerRecv
    <3>1. tx' = tx /\ done' = done
      BY <2>2 DEF ServerRecv
    <3> QED
      BY <2>0, <2>2, <3>1, AckRead DEF AckInv
  <2>3. ASSUME NEW k \in SrvKinds, ServerSend(k)
        PROVE  AckInv'
    <3>1. PICK m : srv' = on_send_packet(srv, m)
      BY <2>3 DEF ServerSend
    <3>2. srv'.window = srv.window /\ srv'.nb_recv_bytes = srv.nb_recv_bytes /\ srv'.cs = srv.cs
      BY <2>0, <3>1, SendCounts, SendKeeps
    <3>3. UNCHANGED <<tx, done, net, nsent, err, got>>
      BY <2>3 DEF ServerSend
    <3>4. AckPaid'
      BY <3>2, <3>3 DEF AckInv, AckPaid, AckDue
    <3> QED
      BY <2>0, <3>2, <3>3, <3>4 DEF AckInv
  <2>4. CASE UNCHANGED vars
    BY <2>0, <2>4 DEF vars, AckInv, AckPaid
  <2>5. CASE ServerMisled
    BY <2>0, <2>5 DEF ServerMisled, AckInv, AckPaid
  <2> QED
    BY <2>0, <2>1, <2>2, <2>3, <2>4, <2>5, AckBegin, AckContinue DEF Next
<1>3. AckInv => AckPaid
  BY DEF AckInv
<1> QED
  BY <1>1, <1>2, <1>3, PTL DEF Spec
=============================================================================
