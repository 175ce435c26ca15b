------------------------- MODULE ConnectionsProofs -------------------------
(***************************************************************************)
(* Proofs about the threads of SrsServer and the objects they share, for    *)
(* any set of clients: the connections are owned by exactly one list at a   *)
(* time, and freeing them follows the abstract life cycle of Resource.      *)
(***************************************************************************)
EXTENDS Connections, FiniteSetTheorems, TLAPS

Threads == Listeners \cup {"reaper"} \cup Conns
Coroutines ==
    [started : BOOLEAN, interrupted : BOOLEAN, disposed : BOOLEAN, cycle_done : BOOLEAN,
     err : {NoError, "dummy", "create", "interrupted", "terminated"}, locked : BOOLEAN,
     run : {"none", "in", "out"}]

Making == {"initialize", "listen_rtmp", "listen_http"}
ListenersRun == Making \cup {"up", "stop_rtmp", "join_rtmp", "stop_http", "join_http"}
Disposing == {"free_conns", "clear_again", "free_again", "done"}
MainPc == ListenersRun \cup {"stop_reaper", "join_reaper", "clear", "free"} \cup Disposing

ThreadType ==
    /\ co \in [Threads -> Coroutines]
    /\ pc \in [Conns -> {"none", "run", "remove", "leave", "exit", "out"}]
    /\ lpc \in [Listeners -> {"none", "pull", "poll", "add", "start", "started", "exit", "out"}]
    /\ rpc \in {"none", "pull", "wait", "clear", "free", "exit", "out"}
    /\ mpc \in MainPc
ObjectType ==
    /\ obj \in [Conns -> {"none", "live", "freed"}]
    /\ fd \in [Conns -> {"none", "open", "shut", "closed"}]
    /\ lconn \in [Listeners -> Conns \cup {"none"}]
    /\ lfd \in [Listeners -> {"none", "open", "closed"}]
    /\ disposing_ \in BOOLEAN
    /\ deleting \in [Freers -> BOOLEAN]
ListType ==
    /\ conns_ \in Seq(Conns) /\ zombies_ \in Seq(Conns)
    /\ copy \in [Freers -> Seq(Conns)]
TypeOK == ThreadType /\ ObjectType /\ ListType

(* No list names a connection twice.                                          *)
Distinct(s) == \A i, j \in 1..Len(s) : s[i] = s[j] => i = j
ListsDistinct ==
    /\ Distinct(conns_) /\ Distinct(zombies_)
    /\ \A t \in Freers : Distinct(copy[t])

(* A thread that runs was created and can be joined, and after its join in    *)
(* ~SrsServer it does not run.                                                *)
Runs(p) == p \notin {"none", "out"}
JoinedBy(l) == IF l = "rtmp" THEN {"stop_http", "join_http"} ELSE {}
ListenerControl ==
    \A l \in Listeners :
        /\ Runs(lpc[l]) => co[l].started /\ co[l].run = "in"
        /\ Runs(lpc[l]) => mpc \in (ListenersRun \ JoinedBy(l)) \ {"initialize", "listen_rtmp", ListenAt[l]}
        /\ lfd[l] = "open" => mpc \in (ListenersRun \ JoinedBy(l))
        /\ lpc[l] \in {"add", "start", "started"} <=> lconn[l] # "none"
        /\ \A k \in Listeners : k # l /\ lconn[l] # "none" => lconn[k] # lconn[l]
ReaperControl ==
    /\ Runs(rpc) => co["reaper"].started /\ co["reaper"].run = "in"
    /\ Runs(rpc) => mpc \in (ListenersRun \cup {"stop_reaper", "join_reaper"}) \ {"initialize"}
    /\ rpc # "free" => copy["reaper"] = << >>
MainControl ==
    /\ disposing_ <=> mpc \in Disposing
    /\ mpc \notin {"free", "free_conns", "free_again"} => copy["main"] = << >>
    /\ mpc \in {"free_again", "done"} => zombies_ = << >>
    /\ \A t \in Freers : deleting[t] => copy[t] # << >>
Control == ListenerControl /\ ReaperControl /\ MainControl

(* What the state of a connection says about its thread and its socket.       *)
Working(c, p) == \E l \in Listeners : lpc[l] = p /\ lconn[l] = c
Ending(c) == ~ pc[c] \in {"run", "remove"} /\ \A l \in Listeners : lconn[l] # c
ConnState(c) ==
    /\ obj[c] = "none" => pc[c] = "none" /\ fd[c] \in {"none", "closed"}
                          /\ \A l \in Listeners : lconn[l] # c
    /\ obj[c] = "live" => fd[c] \in {"open", "shut"}
    /\ obj[c] = "freed" => fd[c] = "closed" /\ ~ Runs(pc[c])
                           /\ \A l \in Listeners : lconn[l] # c
    /\ Runs(pc[c]) => co[c].run = "in" /\ (co[c].started \/ co[c].locked)
    /\ co[c].locked <=> Working(c, "started")
    /\ co[c].locked => pc[c] = "run"
    /\ Working(c, "add") \/ Working(c, "start") => pc[c] = "none"
ConnStates == \A c \in Conns : ConnState(c)

(* Which list may hold a connection, and when.                                *)
Places(c) ==
    /\ In(c, conns_) <=> pc[c] \in {"run", "remove"} \/ Working(c, "start")
    /\ In(c, zombies_) => Ending(c)
    /\ In(c, copy["reaper"]) => Ending(c)
    /\ In(c, copy["main"]) => Ending(c) \/ mpc = "free_conns"
    /\ disposing_ /\ In(c, conns_) => In(c, copy["main"])
    /\ In(c, conns_) \/ In(c, zombies_) \/ In(c, copy["reaper"]) \/ In(c, copy["main"])
          => obj[c] = "live"
    /\ obj[c] = "live" => \/ Working(c, "add") \/ In(c, zombies_)
                          \/ In(c, copy["reaper"]) \/ In(c, copy["main"])
                          \/ In(c, conns_) /\ ~ disposing_
    /\ In(c, zombies_) => ~ In(c, copy["reaper"]) /\ ~ In(c, copy["main"])
    /\ In(c, copy["reaper"]) => ~ In(c, copy["main"])
Owned == \A c \in Conns : Places(c)

IInv == TypeOK /\ ListsDistinct /\ Control /\ ConnStates /\ Owned

-----------------------------------------------------------------------------
(* The lists.                                                                 *)

\* Nothing is on an empty list.
LEMMA InEmpty == Distinct(<< >>) /\ \A c : ~ In(c, << >>)
  BY DEF Distinct, In

\* vector::push_back, for what is not on the list yet.
LEMMA InAppend ==
    ASSUME NEW S, NEW s \in Seq(S), NEW c \in S
    PROVE  /\ Append(s, c) \in Seq(S)
           /\ \A x : In(x, Append(s, c)) <=> In(x, s) \/ x = c
           /\ Distinct(s) /\ ~ In(c, s) => Distinct(Append(s, c))
  BY DEF Distinct, In

\* Freeing the first of a list leaves the others.
LEMMA InTail ==
    ASSUME NEW S, NEW s \in Seq(S), s # << >>, Distinct(s)
    PROVE  /\ Head(s) \in S /\ In(Head(s), s)
           /\ Tail(s) \in Seq(S) /\ Distinct(Tail(s))
           /\ \A x : In(x, Tail(s)) <=> In(x, s) /\ x # Head(s)
  <1>1. Len(s) \in Nat \ {0} /\ Head(s) = s[1] /\ Head(s) \in S
    OBVIOUS
  <1>2. Len(Tail(s)) = Len(s) - 1 /\ \A i \in 1..Len(s)-1 : Tail(s)[i] = s[i + 1]
    OBVIOUS
  <1>3. Tail(s) \in Seq(S)
    OBVIOUS
  <1>4. Distinct(Tail(s))
    BY <1>1, <1>2 DEF Distinct
  <1>5. ASSUME NEW x PROVE In(x, Tail(s)) <=> In(x, s) /\ x # Head(s)
    <2>1. ASSUME In(x, Tail(s)) PROVE In(x, s) /\ x # Head(s)
      BY <1>1, <1>2, <2>1 DEF In, Distinct
    <2>2. ASSUME In(x, s), x # Head(s) PROVE In(x, Tail(s))
      <3>1. PICK i \in 1..Len(s) : s[i] = x
        BY <2>2 DEF In
      <3>2. i - 1 \in 1..Len(s)-1 /\ Tail(s)[i - 1] = x
        BY <1>1, <1>2, <2>2, <3>1
      <3> QED
        BY <1>2, <3>2 DEF In
    <2> QED
      BY <2>1, <2>2
  <1> QED
    BY <1>1, <1>3, <1>4, <1>5 DEF In

\* vector::erase of what find() found: that one is gone, the others stay.
LEMMA InWithout ==
    ASSUME NEW S, NEW s \in Seq(S), Distinct(s), NEW c
    PROVE  /\ Without(s, c) \in Seq(S) /\ Distinct(Without(s, c))
           /\ \A x : In(x, Without(s, c)) <=> In(x, s) /\ x # c
  <1>1. CASE ~ In(c, s)
    BY <1>1 DEF Without, In
  <1>2. CASE In(c, s)
    <2> DEFINE i == CHOOSE i \in 1..Len(s) : IsFirst(s, c, i)
               w == erase(s, i)
    <2>1. \E j \in 1..Len(s) : IsFirst(s, c, j)
      BY <1>2 DEF In, Distinct, IsFirst
    <2>2. i \in 1..Len(s) /\ s[i] = c
      BY <2>1 DEF IsFirst
    <2> HIDE DEF i
    <2> DEFINE p == SubSeq(s, 1, i - 1)
               q == SubSeq(s, i + 1, Len(s))
    <2>3. p \in Seq(S) /\ Len(p) = i - 1 /\ \A k \in 1..i-1 : p[k] = s[k]
      BY <2>2
    <2>4. q \in Seq(S) /\ Len(q) = Len(s) - i /\ \A k \in 1..Len(s)-i : q[k] = s[i + k]
      BY <2>2
    <2>5. w = p \o q
      BY DEF erase
    <2> HIDE DEF p, q, w
    <2>6. w \in Seq(S) /\ Len(w) = Len(s) - 1
      BY <2>2, <2>3, <2>4, <2>5
    <2>7. \A k \in 1..Len(w) : w[k] = IF k <= Len(p) THEN p[k] ELSE q[k - Len(p)]
      BY <2>3, <2>4, <2>5
    <2>8. \A k \in 1..Len(w) : w[k] = IF k < i THEN s[k] ELSE s[k + 1]
      BY <2>2, <2>3, <2>4, <2>6, <2>7
    <2>9. Without(s, c) = w
      BY <1>2 DEF Without, i, w
    <2>10. Distinct(w)
      <3>1. \A j, k \in 1..Len(s) : s[j] = s[k] => j = k
        BY DEF Distinct
      <3>2. Len(s) \in Nat /\ i \in 1..Len(s) /\ Len(w) = Len(s) - 1
        BY <2>2, <2>6
      <3>3. ASSUME NEW j \in 1..Len(w), NEW k \in 1..Len(w), w[j] = w[k] PROVE j = k
        <4>1. j \in 1..Len(s)-1 /\ k \in 1..Len(s)-1
          BY <3>2
        <4>2. PICK a \in 1..Len(s) : /\ a = IF j < i THEN j ELSE j + 1
                                     /\ w[j] = s[a]
          BY <2>8, <3>2, <4>1
        <4>3. PICK b \in 1..Len(s) : /\ b = IF k < i THEN k ELSE k + 1
                                     /\ w[k] = s[b]
          BY <2>8, <3>2, <4>1
        <4>4. a = b
          BY <3>1, <3>3, <4>2, <4>3
        <4> QED
          BY <3>2, <4>1, <4>2, <4>3, <4>4
      <3> QED
        BY <3>3 DEF Distinct
    <2>11. ASSUME NEW x PROVE In(x, w) <=> In(x, s) /\ x # c
      <3>1. ASSUME In(x, w) PROVE In(x, s) /\ x # c
        <4>1. PICK k \in 1..Len(w) : w[k] = x
          BY <3>1 DEF In
        <4>2. PICK j \in 1..Len(s) : s[j] = x /\ j # i
          BY <2>2, <2>6, <2>8, <4>1
        <4> QED
          BY <2>2, <4>2 DEF In, Distinct
      <3>2. ASSUME In(x, s), x # c PROVE In(x, w)
        <4>1. PICK k \in 1..Len(s) : s[k] = x
          BY <3>2 DEF In
        <4>2. CASE k < i
          BY <2>2, <2>6, <2>8, <4>1, <4>2 DEF In
        <4>3. CASE k > i
          <5>1. k - 1 \in 1..Len(w) /\ w[k - 1] = x
            BY <2>2, <2>6, <2>8, <4>1, <4>3
          <5> QED
            BY <5>1 DEF In
        <4> QED
          BY <2>2, <3>2, <4>1, <4>2, <4>3
      <3> QED
        BY <3>1, <3>2
    <2> QED
      BY <2>6, <2>9, <2>10, <2>11
  <1> QED
    BY <1>1, <1>2

-----------------------------------------------------------------------------
\* The operations of SrsSTCoroutine keep its type.
LEMMA CoroutineType ==
    /\ SrsSTCoroutine \in Coroutines /\ SrsDummyCoroutine \in Coroutines
    /\ \A t, ok : Run(t, ok) \in Coroutines
    /\ \A t \in Coroutines :
          /\ pthread_create(t) \in Coroutines /\ start(t) \in Coroutines
          /\ start_failed(t) \in Coroutines /\ terminated(t) \in Coroutines
          /\ interrupt(t) \in Coroutines /\ dispose(t) \in Coroutines
          /\ cycle(t, NoError) \in Coroutines /\ pfn(t, NoError) \in Coroutines
          /\ pfn(t, pull(t)) \in Coroutines
  <1> USE DEF Coroutines
  <1>1. SrsSTCoroutine \in Coroutines /\ SrsDummyCoroutine \in Coroutines
    BY DEF SrsSTCoroutine, SrsDummyCoroutine
  <1>2. ASSUME NEW t, NEW ok PROVE Run(t, ok) \in Coroutines
    BY DEF Run, SrsSTCoroutine, start, pthread_create, start_failed
  <1>3. ASSUME NEW t \in Coroutines
        PROVE  /\ pthread_create(t) \in Coroutines /\ start(t) \in Coroutines
               /\ start_failed(t) \in Coroutines /\ terminated(t) \in Coroutines
               /\ cycle(t, NoError) \in Coroutines /\ pfn(t, NoError) \in Coroutines
               /\ pfn(t, pull(t)) \in Coroutines
    BY DEF pthread_create, start, start_failed, terminated, cycle, pfn, pull, FirstError
  <1>4. ASSUME NEW t \in Coroutines PROVE interrupt(t) \in Coroutines
    BY DEF interrupt, FirstError
  <1>5. ASSUME NEW t \in Coroutines PROVE dispose(t) \in Coroutines
    <2>1. [t EXCEPT !.disposed = TRUE] \in Coroutines
      OBVIOUS
    <2> QED
      BY <1>4, <2>1 DEF dispose
  <1> QED
    BY <1>1, <1>2, <1>3, <1>4, <1>5

\* What the operations leave of the flags that joining a thread looks at.
LEMMA CoroutineFlags ==
    /\ ~ SrsSTCoroutine.locked /\ ~ SrsDummyCoroutine.locked
    /\ \A t, ok : LET r == Run(t, ok) IN ~ r.locked /\ (ok => r.started /\ r.run = "in")
    /\ \A t \in Coroutines :
          /\ pthread_create(t).run = "in" /\ pthread_create(t).locked
          /\ pthread_create(t).started = t.started
          /\ start(t).started /\ ~ start(t).locked /\ start(t).run = t.run
          /\ \A u \in {start_failed(t), terminated(t), interrupt(t), dispose(t), cycle(t, NoError)} :
                u.started = t.started /\ u.locked = t.locked /\ u.run = t.run
          /\ \A e : pfn(t, e).started = t.started /\ pfn(t, e).locked = t.locked
                    /\ pfn(t, e).run = "out"
  <1> USE DEF Coroutines
  <1>1. ~ SrsSTCoroutine.locked /\ ~ SrsDummyCoroutine.locked
    BY DEF SrsSTCoroutine, SrsDummyCoroutine
  <1>2. ASSUME NEW t, NEW ok
        PROVE LET r == Run(t, ok) IN ~ r.locked /\ (ok => r.started /\ r.run = "in")
    BY DEF Run, SrsSTCoroutine, start, pthread_create, start_failed
  <1>3. ASSUME NEW t \in Coroutines
        PROVE  /\ pthread_create(t).run = "in" /\ pthread_create(t).locked
               /\ pthread_create(t).started = t.started
               /\ start(t).started /\ ~ start(t).locked /\ start(t).run = t.run
    BY DEF pthread_create, start
  <1>4. ASSUME NEW t \in Coroutines,
               NEW u \in {start_failed(t), terminated(t), interrupt(t), dispose(t), cycle(t, NoError)}
        PROVE  u.started = t.started /\ u.locked = t.locked /\ u.run = t.run
    BY <1>4 DEF start_failed, terminated, interrupt, dispose, cycle
  <1>5. ASSUME NEW t \in Coroutines, NEW e
        PROVE  pfn(t, e).started = t.started /\ pfn(t, e).locked = t.locked /\ pfn(t, e).run = "out"
    BY DEF pfn
  <1> QED
    BY <1>1, <1>2, <1>3, <1>4, <1>5

\* SrsResourceManager::remove: off conns_, and on zombies_ unless the manager is
\* being destroyed.
LEMMA RemoveLists ==
    ASSUME TypeOK, ListsDistinct, NEW c \in Conns
    PROVE  /\ removed(c) \in Seq(Conns) /\ Distinct(removed(c))
           /\ zombied(c) \in Seq(Conns) /\ Distinct(zombied(c))
           /\ \A x : In(x, removed(c)) <=> In(x, conns_) /\ x # c
           /\ \A x : In(x, zombied(c)) <=> In(x, zombies_) \/ (x = c /\ ~ disposing_)
           /\ disposing_ => zombied(c) = zombies_
  <1>1. /\ removed(c) \in Seq(Conns) /\ Distinct(removed(c))
        /\ \A x : In(x, removed(c)) <=> In(x, conns_) /\ x # c
    BY InWithout DEF TypeOK, ListType, ListsDistinct, removed
  <1>2. /\ zombied(c) \in Seq(Conns) /\ Distinct(zombied(c))
        /\ \A x : In(x, zombied(c)) <=> In(x, zombies_) \/ (x = c /\ ~ disposing_)
        /\ disposing_ => zombied(c) = zombies_
    <2>1. zombies_ \in Seq(Conns) /\ Distinct(zombies_)
      BY DEF TypeOK, ListType, ListsDistinct
    <2>2. CASE disposing_
      BY <2>1, <2>2 DEF zombied
    <2>3. CASE ~ disposing_ /\ In(c, zombies_)
      BY <2>1, <2>3 DEF zombied
    <2>4. CASE ~ disposing_ /\ ~ In(c, zombies_)
      BY <2>1, <2>4, InAppend DEF zombied
    <2> QED
      BY <2>2, <2>4, <2>3
  <1> QED
    BY <1>1, <1>2

\* Making the server: nothing is on a list yet that could change hands.
LEMMA MakingKeeps ==
    ASSUME IInv, NEW ok \in BOOLEAN, NEW thread \in BOOLEAN, NEW l \in Listeners,
           Initialize(ok) \/ Listen(l, ok, thread)
    PROVE  IInv'
  <1> USE ConnsAssumption, InEmpty, CoroutineFlags
      DEF IInv, TypeOK, ThreadType, ObjectType, ListType, Threads, MainPc, Making,
          ListenersRun, Disposing, Listeners, Freers, Runs, JoinedBy, ListenAt
  <1>1. CASE Initialize(ok)
    <2> USE <1>1 DEF Initialize
    <2>1. Run("reaper", ok) \in Coroutines
      BY CoroutineType
    <2>2. TypeOK'
      BY <2>1
    <2>3. ListsDistinct'
      BY <2>1 DEF ListsDistinct
    <2>4. Control'
      BY <2>1, <2>2 DEF Control, ListenerControl, ReaperControl, MainControl, ConnStates, ConnState
    <2>5. ConnStates'
      BY <2>1, <2>2 DEF Control, ListenerControl, MainControl, ConnStates, ConnState, Working,
             Owned, Places, Ending
    <2>6. Owned'
      BY <2>1, <2>2 DEF Control, ListenerControl, ReaperControl, MainControl, ConnStates, ConnState,
             Working, Owned, Places, Ending
    <2> QED
      BY <2>2, <2>3, <2>4, <2>5, <2>6
  <1>2. CASE Listen(l, ok, thread)
    <2> USE <1>2 DEF Listen
    <2>1. Run(l, thread) \in Coroutines
      BY CoroutineType
    <2>2. TypeOK'
      BY <2>1
    <2>3. ListsDistinct'
      BY <2>1 DEF ListsDistinct
    <2>4. Control'
      BY <2>1, <2>2 DEF Control, ListenerControl, ReaperControl, MainControl, ConnStates, ConnState
    <2>5. ConnStates'
      BY <2>1, <2>2 DEF Control, ListenerControl, MainControl, ConnStates, ConnState, Working,
             Owned, Places, Ending
    <2>6. Owned'
      BY <2>1, <2>2 DEF Control, ListenerControl, ReaperControl, MainControl, ConnStates, ConnState,
             Working, Owned, Places, Ending
    <2> QED
      BY <2>2, <2>3, <2>4, <2>5, <2>6
  <1> QED
    BY <1>1, <1>2

\* A new connection is known to its listener alone.
LEMMA AcceptKeeps ==
    ASSUME IInv, NEW l \in Listeners, NEW d \in Conns,
           AcceptDropped(l, d) \/ Accept(l, d)
    PROVE  IInv'
  <1> USE ConnsAssumption, InEmpty, CoroutineFlags
      DEF IInv, TypeOK, ThreadType, ObjectType, ListType, Threads, MainPc, Making,
          ListenersRun, Disposing, Listeners, Freers, Runs, JoinedBy, ListenAt
  <1>1. CASE AcceptDropped(l, d)
    <2> USE <1>1 DEF AcceptDropped, AtListener
    <2>1. TypeOK'
      OBVIOUS
    <2>2. ListsDistinct'
      BY DEF ListsDistinct
    <2>3. Control'
      BY <2>1 DEF Control, ListenerControl, ReaperControl, MainControl, ConnStates, ConnState
    <2>4. ConnStates'
      BY <2>1 DEF Control, ListenerControl, MainControl, ConnStates, ConnState, Working,
             Owned, Places, Ending
    <2>5. Owned'
      BY <2>1 DEF Control, ListenerControl, ReaperControl, MainControl, ConnStates, ConnState,
             Working, Owned, Places, Ending
    <2> QED
      BY <2>1, <2>2, <2>3, <2>4, <2>5
  <1>2. CASE Accept(l, d)
    <2> USE <1>2 DEF Accept, AtListener
    <2>1. SrsSTCoroutine \in Coroutines
      BY CoroutineType
    <2>2. TypeOK'
      BY <2>1
    <2>3. ListsDistinct'
      BY <2>1 DEF ListsDistinct
    <2>4. Control'
      BY <2>1, <2>2 DEF Control, ListenerControl, ReaperControl, MainControl, ConnStates, ConnState
    <2>5. ConnStates'
      BY <2>1, <2>2 DEF Control, ListenerControl, MainControl, ConnStates, ConnState, Working,
             Owned, Places, Ending
    <2>6. Owned'
      BY <2>1, <2>2 DEF Control, ListenerControl, ReaperControl, MainControl, ConnStates, ConnState,
             Working, Owned, Places, Ending
    <2> QED
      BY <2>2, <2>3, <2>4, <2>5, <2>6
  <1> QED
    BY <1>1, <1>2

\* A listener hands each connection to conns_ before it starts its thread, and to
\* zombies_ when there is no thread (SrsServer::do_on_tcp_client).
LEMMA ListenerKeeps ==
    ASSUME IInv, NEW l \in Listeners, ListenerStep(l)
    PROVE  IInv'
  <1> USE ConnsAssumption, InEmpty, CoroutineFlags
      DEF IInv, TypeOK, ThreadType, ObjectType, ListType, Threads, MainPc, Making,
          ListenersRun, Disposing, Listeners, Freers, Runs, JoinedBy, ListenAt
  <1>1. CASE ListenerPull(l)
    <2> USE <1>1 DEF ListenerPull, AtListener
    <2>1. TypeOK'
      OBVIOUS
    <2>2. ListsDistinct'
      BY DEF ListsDistinct
    <2>3. Control'
      BY <2>1 DEF Control, ListenerControl, ReaperControl, MainControl, ConnStates, ConnState
    <2>4. ConnStates'
      BY <2>1 DEF Control, ListenerControl, MainControl, ConnStates, ConnState, Working,
             Owned, Places, Ending
    <2>5. Owned'
      BY <2>1 DEF Control, ListenerControl, ReaperControl, MainControl, ConnStates, ConnState,
             Working, Owned, Places, Ending
    <2> QED
      BY <2>1, <2>2, <2>3, <2>4, <2>5
  <1>2. CASE PollTimeout(l)
    <2> USE <1>2 DEF PollTimeout, AtListener
    <2>1. TypeOK'
      OBVIOUS
    <2>2. ListsDistinct'
      BY DEF ListsDistinct
    <2>3. Control'
      BY <2>1 DEF Control, ListenerControl, ReaperControl, MainControl, ConnStates, ConnState
    <2>4. ConnStates'
      BY <2>1 DEF Control, ListenerControl, MainControl, ConnStates, ConnState, Working,
             Owned, Places, Ending
    <2>5. Owned'
      BY <2>1 DEF Control, ListenerControl, ReaperControl, MainControl, ConnStates, ConnState,
             Working, Owned, Places, Ending
    <2> QED
      BY <2>1, <2>2, <2>3, <2>4, <2>5
  <1>3. CASE Add(l)
    <2> USE <1>3 DEF Add, AtListener
    <2>1. lconn[l] \in Conns
      BY DEF Control, ListenerControl
    <2>2. pc[lconn[l]] = "none" /\ ~ Working(lconn[l], "start")
      BY <2>1 DEF Control, ListenerControl, ConnStates, ConnState, Working
    <2>3. ~ In(lconn[l], conns_)
      BY <2>1, <2>2 DEF Owned, Places
    <2>4. /\ conns_' \in Seq(Conns) /\ Distinct(conns_')
          /\ \A x : In(x, conns_') <=> In(x, conns_) \/ x = lconn[l]
      BY <2>1, <2>3, InAppend DEF ListsDistinct
    <2>5. TypeOK'
      BY <2>1, <2>4
    <2>6. ListsDistinct'
      BY <2>1, <2>4 DEF ListsDistinct
    <2>7. Control'
      BY <2>1, <2>4, <2>5 DEF Control, ListenerControl, ReaperControl, MainControl, ConnStates, ConnState
    <2>8. ConnStates'
      BY <2>1, <2>4, <2>5 DEF Control, ListenerControl, MainControl, ConnStates, ConnState, Working,
             Owned, Places, Ending
    <2>9. Owned'
      BY <2>1, <2>4, <2>5 DEF Control, ListenerControl, ReaperControl, MainControl, ConnStates, ConnState,
             Working, Owned, Places, Ending
    <2> QED
      BY <2>5, <2>6, <2>7, <2>8, <2>9
  <1>4. CASE StartConn(l)
    <2> USE <1>4 DEF StartConn, AtListener, Unlocked
    <2>1. lconn[l] \in Conns /\ co[lconn[l]] \in Coroutines
      BY DEF Control, ListenerControl
    <2>2. lconn[l] \in Conns /\ pthread_create(co[lconn[l]]) \in Coroutines
      BY <2>1, CoroutineType
    <2>3. TypeOK'
      BY <2>2
    <2>4. ListsDistinct'
      BY <2>2 DEF ListsDistinct
    <2>5. Control'
      BY <2>2, <2>3 DEF Control, ListenerControl, ReaperControl, MainControl, ConnStates, ConnState
    <2>6. ConnStates'
      BY <2>2, <2>3 DEF Control, ListenerControl, MainControl, ConnStates, ConnState, Working,
             Owned, Places, Ending
    <2>7. Owned'
      BY <2>2, <2>3 DEF Control, ListenerControl, ReaperControl, MainControl, ConnStates, ConnState,
             Working, Owned, Places, Ending
    <2> QED
      BY <2>3, <2>4, <2>5, <2>6, <2>7
  <1>5. CASE StartedConn(l)
    <2> USE <1>5 DEF StartedConn, AtListener
    <2>1. lconn[l] \in Conns /\ co[lconn[l]] \in Coroutines
      BY DEF Control, ListenerControl
    <2>2. lconn[l] \in Conns /\ start(co[lconn[l]]) \in Coroutines
      BY <2>1, CoroutineType
    <2>3. TypeOK'
      BY <2>2
    <2>4. ListsDistinct'
      BY <2>2 DEF ListsDistinct
    <2>5. Control'
      BY <2>2, <2>3 DEF Control, ListenerControl, ReaperControl, MainControl, ConnStates, ConnState
    <2>6. ConnStates'
      BY <2>2, <2>3 DEF Control, ListenerControl, MainControl, ConnStates, ConnState, Working,
             Owned, Places, Ending
    <2>7. Owned'
      BY <2>2, <2>3 DEF Control, ListenerControl, ReaperControl, MainControl, ConnStates, ConnState,
             Working, Owned, Places, Ending
    <2> QED
      BY <2>3, <2>4, <2>5, <2>6, <2>7
  <1>6. CASE StartConnFailed(l)
    <2> USE <1>6 DEF StartConnFailed, AtListener
    <2>1. lconn[l] \in Conns /\ co[lconn[l]] \in Coroutines
      BY DEF Control, ListenerControl
    <2>2. lconn[l] \in Conns /\ start_failed(co[lconn[l]]) \in Coroutines
      BY <2>1, CoroutineType
    <2>3. /\ conns_' \in Seq(Conns) /\ Distinct(conns_')
          /\ zombies_' \in Seq(Conns) /\ Distinct(zombies_')
          /\ \A x : In(x, conns_') <=> In(x, conns_) /\ x # lconn[l]
          /\ \A x : In(x, zombies_') <=> In(x, zombies_) \/ (x = lconn[l] /\ ~ disposing_)
      BY <2>2, RemoveLists
    <2>4. TypeOK'
      BY <2>2, <2>3
    <2>5. ListsDistinct'
      BY <2>2, <2>3 DEF ListsDistinct
    <2>6. Control'
      <3>1. ListenerControl'
        BY <2>2 DEF Control, ListenerControl
      <3>2. ReaperControl'
        BY <2>2 DEF Control, ReaperControl
      <3>3. MainControl'
        <4>1. mpc \notin Disposing
          BY DEF Control, ListenerControl
        <4>2. /\ disposing_' = disposing_ /\ mpc' = mpc
              /\ copy' = copy /\ deleting' = deleting
          OBVIOUS
        <4>3. MainControl
          BY DEF Control
        <4> QED
          BY ONLY <4>1, <4>2, <4>3 DEF MainControl, Disposing
      <3> QED
        BY <3>1, <3>2, <3>3 DEF Control
    <2>7. ConnStates'
      BY <2>2, <2>3, <2>4 DEF Control, ListenerControl, MainControl, ConnStates, ConnState, Working,
             Owned, Places, Ending
    <2>8. Owned'
      BY <2>2, <2>3, <2>4 DEF Control, ListenerControl, ReaperControl, MainControl, ConnStates, ConnState,
             Working, Owned, Places, Ending
    <2> QED
      BY <2>4, <2>5, <2>6, <2>7, <2>8
  <1>7. CASE ListenerExit(l)
    <2> USE <1>7 DEF ListenerExit, AtListener
    <2>1. co[l] \in Coroutines
      OBVIOUS
    <2>2. pfn(co[l], pull(co[l])) \in Coroutines
      BY <2>1, CoroutineType
    <2>3. TypeOK'
      BY <2>2
    <2>4. ListsDistinct'
      BY <2>2 DEF ListsDistinct
    <2>5. Control'
      BY <2>2, <2>3 DEF Control, ListenerControl, ReaperControl, MainControl, ConnStates, ConnState
    <2>6. ConnStates'
      BY <2>2, <2>3 DEF Control, ListenerControl, MainControl, ConnStates, ConnState, Working,
             Owned, Places, Ending
    <2>7. Owned'
      BY <2>2, <2>3 DEF Control, ListenerControl, ReaperControl, MainControl, ConnStates, ConnState,
             Working, Owned, Places, Ending
    <2> QED
      BY <2>3, <2>4, <2>5, <2>6, <2>7
  <1> QED
    BY <1>1, <1>2, <1>3, <1>4, <1>5, <1>6, <1>7 DEF ListenerStep

\* A connection's thread hands itself over with SrsResourceManager::remove.
LEMMA ConnKeeps ==
    ASSUME IInv, NEW d \in Conns, ConnEnds(d) \/ ConnStep(d)
    PROVE  IInv'
  <1> USE ConnsAssumption, InEmpty, CoroutineFlags
      DEF IInv, TypeOK, ThreadType, ObjectType, ListType, Threads, MainPc, Making,
          ListenersRun, Disposing, Listeners, Freers, Runs, JoinedBy, ListenAt
  <1>1. CASE ConnEnds(d)
    <2> USE <1>1 DEF ConnEnds, AtConn, Unlocked
    <2>1. TypeOK'
      OBVIOUS
    <2>2. ListsDistinct'
      BY DEF ListsDistinct
    <2>3. Control'
      BY <2>1 DEF Control, ListenerControl, ReaperControl, MainControl, ConnStates, ConnState
    <2>4. ConnStates'
      BY <2>1 DEF Control, ListenerControl, MainControl, ConnStates, ConnState, Working,
             Owned, Places, Ending
    <2>5. Owned'
      BY <2>1 DEF Control, ListenerControl, ReaperControl, MainControl, ConnStates, ConnState,
             Working, Owned, Places, Ending
    <2> QED
      BY <2>1, <2>2, <2>3, <2>4, <2>5
  <1>2. CASE ConnRemove(d)
    <2> USE <1>2 DEF ConnRemove, AtConn
    <2>1. /\ conns_' \in Seq(Conns) /\ Distinct(conns_')
          /\ zombies_' \in Seq(Conns) /\ Distinct(zombies_')
          /\ \A x : In(x, conns_') <=> In(x, conns_) /\ x # d
          /\ \A x : In(x, zombies_') <=> In(x, zombies_) \/ (x = d /\ ~ disposing_)
          /\ disposing_ => zombies_' = zombies_
      BY RemoveLists
    <2>2. ~ In(d, zombies_) /\ Ending(d)' /\ In(d, conns_) /\ obj[d] = "live"
      BY DEF Owned, Places, Ending, ConnStates, ConnState, Working, Control, ListenerControl
    <2>3. TypeOK'
      BY <2>1, <2>2
    <2>4. ListsDistinct'
      BY <2>1, <2>2 DEF ListsDistinct
    <2>5. Control'
      BY <2>1, <2>2, <2>3 DEF Control, ListenerControl, ReaperControl, MainControl, ConnStates, ConnState
    <2>6. ConnStates'
      BY <2>1, <2>2, <2>3 DEF Control, ListenerControl, MainControl, ConnStates, ConnState, Working,
             Owned, Places, Ending
    <2>7. Owned'
      BY <2>1, <2>2, <2>3 DEF Control, ListenerControl, ReaperControl, MainControl, ConnStates, ConnState,
             Working, Owned, Places, Ending
    <2> QED
      BY <2>3, <2>4, <2>5, <2>6, <2>7
  <1>3. CASE ConnDone(d)
    <2> USE <1>3 DEF ConnDone, AtConn, Unlocked
    <2>1. cycle(co[d], NoError) \in Coroutines
      BY CoroutineType
    <2>2. TypeOK'
      BY <2>1
    <2>3. ListsDistinct'
      BY <2>1 DEF ListsDistinct
    <2>4. Control'
      BY <2>1, <2>2 DEF Control, ListenerControl, ReaperControl, MainControl, ConnStates, ConnState
    <2>5. ConnStates'
      BY <2>1, <2>2 DEF Control, ListenerControl, MainControl, ConnStates, ConnState, Working,
             Owned, Places, Ending
    <2>6. Owned'
      BY <2>1, <2>2 DEF Control, ListenerControl, ReaperControl, MainControl, ConnStates, ConnState,
             Working, Owned, Places, Ending
    <2> QED
      BY <2>2, <2>3, <2>4, <2>5, <2>6
  <1>4. CASE ConnExit(d)
    <2> USE <1>4 DEF ConnExit, AtConn, Unlocked
    <2>1. pfn(co[d], NoError) \in Coroutines
      BY CoroutineType
    <2>2. TypeOK'
      BY <2>1
    <2>3. ListsDistinct'
      BY <2>1 DEF ListsDistinct
    <2>4. Control'
      BY <2>1, <2>2 DEF Control, ListenerControl, ReaperControl, MainControl, ConnStates, ConnState
    <2>5. ConnStates'
      BY <2>1, <2>2 DEF Control, ListenerControl, MainControl, ConnStates, ConnState, Working,
             Owned, Places, Ending
    <2>6. Owned'
      BY <2>1, <2>2 DEF Control, ListenerControl, ReaperControl, MainControl, ConnStates, ConnState,
             Working, Owned, Places, Ending
    <2> QED
      BY <2>2, <2>3, <2>4, <2>5, <2>6
  <1> QED
    BY <1>1, <1>2, <1>3, <1>4 DEF ConnStep

\* Freeing a connection: its thread has ended when the join returns, and the list
\* that held it forgets it.
LEMMA DeleteKeeps ==
    ASSUME IInv, NEW t \in Freers, DeleteStep(t)
    PROVE  IInv'
  <1> USE ConnsAssumption, InEmpty, CoroutineFlags
      DEF IInv, TypeOK, ThreadType, ObjectType, ListType, Threads, MainPc, Making,
          ListenersRun, Disposing, Listeners, Freers, Runs, JoinedBy, ListenAt
  <1>1. CASE DeleteBegin(t)
    <2> USE <1>1 DEF DeleteBegin, Unlocked
    <2>1. Head(copy[t]) \in Conns /\ In(Head(copy[t]), copy[t])
      BY InTail DEF ListsDistinct
    <2>2. co[Head(copy[t])] \in Coroutines
      BY <2>1
    <2>3. /\ Head(copy[t]) \in Conns /\ In(Head(copy[t]), copy[t])
          /\ interrupt(co[Head(copy[t])]) \in Coroutines
          /\ dispose(interrupt(co[Head(copy[t])])) \in Coroutines
      BY <2>1, <2>2, CoroutineType
    <2>4. TypeOK'
      BY <2>3
    <2>5. ListsDistinct'
      BY <2>3 DEF ListsDistinct
    <2>6. Control'
      <3>1. ListenerControl'
        BY <2>3 DEF Control, ListenerControl
      <3>2. ReaperControl'
        BY <2>3 DEF Control, ReaperControl
      <3>3. MainControl'
        BY <2>3 DEF Control, MainControl
      <3> QED
        BY <3>1, <3>2, <3>3 DEF Control
    <2>7. ConnStates'
      <3>1. ASSUME NEW x \in Conns, x # Head(copy[t]) PROVE ConnState(x)'
        <4>1. /\ obj' = obj /\ fd'[x] = fd[x] /\ co'[x] = co[x]
              /\ pc' = pc /\ lpc' = lpc /\ lconn' = lconn
          BY <2>3, <3>1
        <4>2. ConnState(x)
          BY DEF ConnStates
        <4> QED
          BY ONLY <4>1, <4>2 DEF ConnState, Working, Runs, Listeners
      <3>2. PICK c \in Conns : c = Head(copy[t])
        BY <2>1
      <3>3. ConnState(c)'
        <4>1. /\ obj' = obj /\ fd'[c] = "shut" /\ co'[c] = dispose(interrupt(co[c]))
              /\ pc' = pc /\ lpc' = lpc /\ lconn' = lconn
          BY <2>3, <3>2
        <4>2. obj[c] = "live"
          <5>1. Places(c) /\ In(c, copy[t])
            BY <2>1, <3>2 DEF Owned
          <5>2. t \in {"reaper", "main"}
            OBVIOUS
          <5> QED
            BY ONLY <5>1, <5>2 DEF Places
        <4>3. ConnState(c) /\ co[c] \in Coroutines
          BY DEF ConnStates
        <4>4. /\ co'[c].locked = co[c].locked /\ co'[c].started = co[c].started
              /\ co'[c].run = co[c].run
          <5>1. interrupt(co[c]) \in Coroutines
            BY <2>3, <3>2
          <5>2. \A u \in Coroutines :
                   /\ interrupt(u).locked = u.locked /\ dispose(u).locked = u.locked
                   /\ interrupt(u).started = u.started /\ dispose(u).started = u.started
                   /\ interrupt(u).run = u.run /\ dispose(u).run = u.run
            BY ONLY CoroutineFlags
          <5> QED
            BY ONLY <4>1, <4>3, <5>1, <5>2
        <4> QED
          BY ONLY <4>1, <4>2, <4>3, <4>4 DEF ConnState, Working
      <3> QED
        BY <3>1, <3>2, <3>3 DEF ConnStates
    <2>8. Owned'
      BY <2>3, <2>4 DEF Control, ListenerControl, ReaperControl, MainControl, ConnStates, ConnState,
             Working, Owned, Places, Ending
    <2> QED
      BY <2>4, <2>5, <2>6, <2>7, <2>8
  <1>2. CASE DeleteEnd(t)
    <2> USE <1>2 DEF DeleteEnd, Unlocked, joined
    <2>1. Head(copy[t]) \in Conns /\ In(Head(copy[t]), copy[t])
      BY InTail DEF ListsDistinct, Control, MainControl
    <2>2. co[Head(copy[t])] \in Coroutines
      BY <2>1
    <2>3. /\ Head(copy[t]) \in Conns /\ In(Head(copy[t]), copy[t])
          /\ terminated(co[Head(copy[t])]) \in Coroutines
      BY <2>1, <2>2, CoroutineType
    <2>4. /\ copy'[t] \in Seq(Conns) /\ Distinct(copy'[t])
          /\ \A x : In(x, copy'[t]) <=> In(x, copy[t]) /\ x # Head(copy[t])
          /\ \A u \in Freers : u # t => copy'[u] = copy[u]
      BY InTail DEF ListsDistinct, Control, MainControl
    <2>5. ~ Runs(pc[Head(copy[t])]) /\ \A m \in Listeners : lconn[m] # Head(copy[t])
      BY <2>3 DEF ConnStates, ConnState, Owned, Places, Ending, Control, ListenerControl
    <2>6. /\ ~ In(Head(copy[t]), zombies_) /\ ~ In(Head(copy[t]), conns_)
          /\ \A u \in Freers : ~ In(Head(copy[t]), copy'[u])
      <3> DEFINE c == Head(copy[t])
      <3>1. c \in Conns /\ In(c, copy[t]) /\ Places(c)
        BY <2>3 DEF Owned
      <3>2. t \in {"reaper", "main"}
        OBVIOUS
      <3> HIDE DEF c
      <3>3. ~ Runs(pc[c]) /\ \A m \in Listeners : lconn[m] # c
        BY <2>5, Zenon DEF c
      <3>4. /\ ~ In(c, zombies_) /\ ~ In(c, conns_)
            /\ t = "reaper" => ~ In(c, copy["main"])
            /\ t = "main" => ~ In(c, copy["reaper"])
        BY ONLY <3>1, <3>2, <3>3 DEF Places, Working, Runs
      <3>5. /\ ~ In(c, copy'[t])
            /\ \A u \in Freers : u # t => copy'[u] = copy[u]
        BY <2>4, Zenon DEF c
      <3>6. \A u \in Freers : ~ In(c, copy'[u])
        BY ONLY <3>2, <3>4, <3>5 DEF Freers
      <3> QED
        BY <3>4, <3>6, Zenon DEF c
    <2>7. TypeOK'
      BY <2>3, <2>4, <2>5, <2>6
    <2>8. ListsDistinct'
      BY <2>3, <2>4, <2>5, <2>6 DEF ListsDistinct
    <2>9. Control'
      <3>1. ListenerControl'
        BY <2>3 DEF Control, ListenerControl
      <3>2. ReaperControl'
        BY <2>3, <2>4 DEF Control, ReaperControl, MainControl
      <3>3. MainControl'
        BY <2>3, <2>4 DEF Control, MainControl
      <3> QED
        BY <3>1, <3>2, <3>3 DEF Control
    <2>10. ConnStates'
      <3>1. ASSUME NEW x \in Conns, x # Head(copy[t]) PROVE ConnState(x)'
        <4>1. /\ obj'[x] = obj[x] /\ fd'[x] = fd[x] /\ co'[x] = co[x]
              /\ pc' = pc /\ lpc' = lpc /\ lconn' = lconn
          BY <2>3, <3>1
        <4>2. ConnState(x)
          BY DEF ConnStates
        <4> QED
          BY ONLY <4>1, <4>2 DEF ConnState, Working, Runs, Listeners
      <3>2. PICK c \in Conns : c = Head(copy[t])
        BY <2>1
      <3>3. ConnState(c)'
        <4>1. /\ obj'[c] = "freed" /\ fd'[c] = "closed" /\ co'[c] = terminated(co[c])
              /\ pc' = pc /\ lpc' = lpc /\ lconn' = lconn
          BY <2>3, <3>2
        <4>2. ~ Runs(pc[c]) /\ \A m \in Listeners : lconn[m] # c
          BY ONLY <2>5, <3>2, Zenon
        <4>3. ConnState(c) /\ co[c] \in Coroutines
          BY DEF ConnStates
        <4>4. co'[c].locked = co[c].locked
          BY ONLY <4>1, <4>3 DEF terminated, Coroutines
        <4> QED
          BY ONLY <4>1, <4>2, <4>3, <4>4 DEF ConnState, Working
      <3> QED
        BY <3>1, <3>2, <3>3 DEF ConnStates
    <2>11. Owned'
      BY <2>3, <2>4, <2>5, <2>6, <2>7 DEF Control, ListenerControl, ReaperControl, MainControl, ConnStates, ConnState,
             Working, Owned, Places, Ending
    <2> QED
      BY <2>7, <2>8, <2>9, <2>10, <2>11
  <1> QED
    BY <1>1, <1>2 DEF DeleteStep

\* The manager's thread takes what has ended.
LEMMA ReaperKeeps ==
    ASSUME IInv, ReaperStep
    PROVE  IInv'
  <1> USE ConnsAssumption, InEmpty, CoroutineFlags
      DEF IInv, TypeOK, ThreadType, ObjectType, ListType, Threads, MainPc, Making,
          ListenersRun, Disposing, Listeners, Freers, Runs, JoinedBy, ListenAt
  <1>1. CASE ReaperPull
    <2> USE <1>1 DEF ReaperPull
    <2>1. TypeOK'
      OBVIOUS
    <2>2. ListsDistinct'
      BY DEF ListsDistinct
    <2>3. Control'
      BY <2>1 DEF Control, ListenerControl, ReaperControl, MainControl, ConnStates, ConnState
    <2>4. ConnStates'
      BY <2>1 DEF Control, ListenerControl, MainControl, ConnStates, ConnState, Working,
             Owned, Places, Ending
    <2>5. Owned'
      BY <2>1 DEF Control, ListenerControl, ReaperControl, MainControl, ConnStates, ConnState,
             Working, Owned, Places, Ending
    <2> QED
      BY <2>1, <2>2, <2>3, <2>4, <2>5
  <1>2. CASE ReaperWake
    <2> USE <1>2 DEF ReaperWake
    <2>1. TypeOK'
      OBVIOUS
    <2>2. ListsDistinct'
      BY DEF ListsDistinct
    <2>3. Control'
      BY <2>1 DEF Control, ListenerControl, ReaperControl, MainControl, ConnStates, ConnState
    <2>4. ConnStates'
      BY <2>1 DEF Control, ListenerControl, MainControl, ConnStates, ConnState, Working,
             Owned, Places, Ending
    <2>5. Owned'
      BY <2>1 DEF Control, ListenerControl, ReaperControl, MainControl, ConnStates, ConnState,
             Working, Owned, Places, Ending
    <2> QED
      BY <2>1, <2>2, <2>3, <2>4, <2>5
  <1>3. CASE ReaperClear
    <2> USE <1>3 DEF ReaperClear, Cleared
    <2>1. TypeOK'
      OBVIOUS
    <2>2. ListsDistinct'
      BY DEF ListsDistinct
    <2>3. Control'
      BY <2>1 DEF Control, ListenerControl, ReaperControl, MainControl, ConnStates, ConnState
    <2>4. ConnStates'
      BY <2>1 DEF Control, ListenerControl, MainControl, ConnStates, ConnState, Working,
             Owned, Places, Ending
    <2>5. Owned'
      BY <2>1 DEF Control, ListenerControl, ReaperControl, MainControl, ConnStates, ConnState,
             Working, Owned, Places, Ending
    <2> QED
      BY <2>1, <2>2, <2>3, <2>4, <2>5
  <1>4. CASE ReaperCleared
    <2> USE <1>4 DEF ReaperCleared
    <2>1. TypeOK'
      OBVIOUS
    <2>2. ListsDistinct'
      BY DEF ListsDistinct
    <2>3. Control'
      BY <2>1 DEF Control, ListenerControl, ReaperControl, MainControl, ConnStates, ConnState
    <2>4. ConnStates'
      BY <2>1 DEF Control, ListenerControl, MainControl, ConnStates, ConnState, Working,
             Owned, Places, Ending
    <2>5. Owned'
      BY <2>1 DEF Control, ListenerControl, ReaperControl, MainControl, ConnStates, ConnState,
             Working, Owned, Places, Ending
    <2> QED
      BY <2>1, <2>2, <2>3, <2>4, <2>5
  <1>5. CASE ReaperExit
    <2> USE <1>5 DEF ReaperExit
    <2>1. pfn(co["reaper"], pull(co["reaper"])) \in Coroutines
      BY CoroutineType
    <2>2. TypeOK'
      BY <2>1
    <2>3. ListsDistinct'
      BY <2>1 DEF ListsDistinct
    <2>4. Control'
      BY <2>1, <2>2 DEF Control, ListenerControl, ReaperControl, MainControl, ConnStates, ConnState
    <2>5. ConnStates'
      BY <2>1, <2>2 DEF Control, ListenerControl, MainControl, ConnStates, ConnState, Working,
             Owned, Places, Ending
    <2>6. Owned'
      BY <2>1, <2>2 DEF Control, ListenerControl, ReaperControl, MainControl, ConnStates, ConnState,
             Working, Owned, Places, Ending
    <2> QED
      BY <2>2, <2>3, <2>4, <2>5, <2>6
  <1> QED
    BY <1>1, <1>2, <1>3, <1>4, <1>5 DEF ReaperStep

\* ~SrsServer: the listeners and the manager's thread are gone before the lists are
\* emptied, and what the threads of the connections still do is foreseen.
LEMMA MainKeeps ==
    ASSUME IInv, Destroy \/ DestroyStep
    PROVE  IInv'
  <1> USE ConnsAssumption, InEmpty, CoroutineFlags
      DEF IInv, TypeOK, ThreadType, ObjectType, ListType, Threads, MainPc, Making,
          ListenersRun, Disposing, Listeners, Freers, Runs, JoinedBy, ListenAt
  <1>1. CASE Destroy
    <2> USE <1>1 DEF Destroy
    <2>1. TypeOK'
      OBVIOUS
    <2>2. ListsDistinct'
      BY DEF ListsDistinct
    <2>3. Control'
      BY <2>1 DEF Control, ListenerControl, ReaperControl, MainControl, ConnStates, ConnState
    <2>4. ConnStates'
      BY <2>1 DEF Control, ListenerControl, MainControl, ConnStates, ConnState, Working,
             Owned, Places, Ending
    <2>5. Owned'
      BY <2>1 DEF Control, ListenerControl, ReaperControl, MainControl, ConnStates, ConnState,
             Working, Owned, Places, Ending
    <2> QED
      BY <2>1, <2>2, <2>3, <2>4, <2>5
  <1>2. ASSUME NEW t \in DOMAIN After, StopThread(t) PROVE IInv'
    <2> USE <1>2 DEF StopThread, StopAt, JoinAt, After
    <2>1. co[t] \in Coroutines
      OBVIOUS
    <2>2. dispose(co[t]) \in Coroutines
      BY <2>1, CoroutineType
    <2>3. TypeOK'
      BY <2>2
    <2>4. ListsDistinct'
      BY <2>2 DEF ListsDistinct
    <2>5. Control'
      BY <2>2, <2>3 DEF Control, ListenerControl, ReaperControl, MainControl, ConnStates, ConnState
    <2>6. ConnStates'
      BY <2>2, <2>3 DEF Control, ListenerControl, MainControl, ConnStates, ConnState, Working,
             Owned, Places, Ending
    <2>7. Owned'
      BY <2>2, <2>3 DEF Control, ListenerControl, ReaperControl, MainControl, ConnStates, ConnState,
             Working, Owned, Places, Ending
    <2> QED
      BY <2>3, <2>4, <2>5, <2>6, <2>7
  <1>3. ASSUME NEW t \in DOMAIN After, JoinThread(t) PROVE IInv'
    <2> USE <1>3 DEF JoinThread, JoinAt, After, joined
    <2>1. co[t] \in Coroutines
      OBVIOUS
    <2>2. terminated(co[t]) \in Coroutines
      BY <2>1, CoroutineType
    <2>3. TypeOK'
      BY <2>2
    <2>4. ListsDistinct'
      BY <2>2 DEF ListsDistinct
    <2>5. Control'
      BY <2>2, <2>3 DEF Control, ListenerControl, ReaperControl, MainControl, ConnStates, ConnState
    <2>6. ConnStates'
      BY <2>2, <2>3 DEF Control, ListenerControl, MainControl, ConnStates, ConnState, Working,
             Owned, Places, Ending
    <2>7. Owned'
      BY <2>2, <2>3 DEF Control, ListenerControl, ReaperControl, MainControl, ConnStates, ConnState,
             Working, Owned, Places, Ending
    <2> QED
      BY <2>3, <2>4, <2>5, <2>6, <2>7
  <1>4. CASE MainClear
    <2> USE <1>4 DEF MainClear, Cleared
    <2>1. TypeOK'
      OBVIOUS
    <2>2. ListsDistinct'
      BY DEF ListsDistinct
    <2>3. Control'
      BY <2>1 DEF Control, ListenerControl, ReaperControl, MainControl, ConnStates, ConnState
    <2>4. ConnStates'
      BY <2>1 DEF Control, ListenerControl, MainControl, ConnStates, ConnState, Working,
             Owned, Places, Ending
    <2>5. Owned'
      BY <2>1 DEF Control, ListenerControl, ReaperControl, MainControl, ConnStates, ConnState,
             Working, Owned, Places, Ending
    <2> QED
      BY <2>1, <2>2, <2>3, <2>4, <2>5
  <1>5. CASE Dispose
    <2> USE <1>5 DEF Dispose
    <2>1. TypeOK'
      OBVIOUS
    <2>2. ListsDistinct'
      BY DEF ListsDistinct
    <2>3. Control'
      BY <2>1 DEF Control, ListenerControl, ReaperControl, MainControl, ConnStates, ConnState
    <2>4. ConnStates'
      BY <2>1 DEF Control, ListenerControl, MainControl, ConnStates, ConnState, Working,
             Owned, Places, Ending
    <2>5. Owned'
      BY <2>1 DEF Control, ListenerControl, ReaperControl, MainControl, ConnStates, ConnState,
             Working, Owned, Places, Ending
    <2> QED
      BY <2>1, <2>2, <2>3, <2>4, <2>5
  <1>6. CASE Freed
    <2> USE <1>6 DEF Freed
    <2>1. TypeOK'
      OBVIOUS
    <2>2. ListsDistinct'
      BY DEF ListsDistinct
    <2>3. Control'
      BY <2>1 DEF Control, ListenerControl, ReaperControl, MainControl, ConnStates, ConnState
    <2>4. ConnStates'
      BY <2>1 DEF Control, ListenerControl, MainControl, ConnStates, ConnState, Working,
             Owned, Places, Ending
    <2>5. Owned'
      BY <2>1 DEF Control, ListenerControl, ReaperControl, MainControl, ConnStates, ConnState,
             Working, Owned, Places, Ending
    <2> QED
      BY <2>1, <2>2, <2>3, <2>4, <2>5
  <1> QED
    BY <1>1, <1>2, <1>3, <1>4, <1>5, <1>6 DEF DestroyStep

-----------------------------------------------------------------------------
\* The server starts in the invariant.
LEMMA InitKeeps == Init => IInv
  <1> SUFFICES ASSUME Init PROVE IInv
    OBVIOUS
  <1> USE ConnsAssumption, InEmpty, CoroutineFlags
      DEF Init, TypeOK, ThreadType, ObjectType, ListType, Threads, MainPc, Making,
          ListenersRun, Disposing, Listeners, Freers, Runs, JoinedBy, ListenAt
  <1>1. TypeOK
    <2>1. SrsDummyCoroutine \in Coroutines
      BY CoroutineType
    <2>2. ThreadType
      BY <2>1
    <2>3. ObjectType
      OBVIOUS
    <2>4. << >> \in Seq(Conns)
      OBVIOUS
    <2>5. ListType
      BY <2>4
    <2> QED
      BY <2>2, <2>3, <2>5
  <1>2. ListsDistinct
    BY DEF ListsDistinct
  <1>3. Control
    BY DEF Control, ListenerControl, ReaperControl, MainControl
  <1>4. ConnStates
    BY DEF ConnStates, ConnState, Working
  <1>5. Owned
    BY DEF Owned, Places, Working
  <1> QED
    BY <1>1, <1>2, <1>3, <1>4, <1>5 DEF IInv

\* Every step of every thread keeps it.
LEMMA NextKeeps == IInv /\ [Next]_vars => IInv'
  <1> SUFFICES ASSUME IInv, [Next]_vars PROVE IInv'
    OBVIOUS
  <1>1. ASSUME NEW ok \in BOOLEAN, Initialize(ok) PROVE IInv'
    BY <1>1, MakingKeeps DEF Listeners
  <1>2. ASSUME NEW l \in Listeners, NEW socket \in BOOLEAN, NEW thread \in BOOLEAN,
               Listen(l, socket, thread)
        PROVE  IInv'
    BY <1>2, MakingKeeps
  <1>3. ASSUME NEW l \in Listeners, ListenerStep(l) PROVE IInv'
    BY <1>3, ListenerKeeps
  <1>4. ASSUME NEW l \in Listeners, NEW c \in Conns, AcceptDropped(l, c) \/ Accept(l, c)
        PROVE  IInv'
    BY <1>4, AcceptKeeps
  <1>5. ASSUME NEW c \in Conns, ConnEnds(c) \/ ConnStep(c) PROVE IInv'
    BY <1>5, ConnKeeps
  <1>6. ASSUME NEW t \in Freers, DeleteStep(t) PROVE IInv'
    BY <1>6, DeleteKeeps
  <1>7. CASE ReaperStep
    BY <1>7, ReaperKeeps
  <1>8. CASE Destroy \/ DestroyStep
    BY <1>8, MainKeeps
  <1>9. CASE (\E cs \in SUBSET Conns : Block(cs)) \/ Gone \/ UNCHANGED vars
    <2>1. UNCHANGED <<co, obj, fd, pc, lpc, lconn, lfd, rpc, mpc, conns_, zombies_, disposing_,
                      copy, deleting>>
      BY <1>9 DEF Block, Gone, vars
    <2>2. TypeOK' /\ ListsDistinct' /\ Control'
      BY <2>1 DEF IInv, TypeOK, ThreadType, ObjectType, ListType, ListsDistinct,
                  Control, ListenerControl, ReaperControl, MainControl
    <2>3. ConnStates' /\ Owned'
      BY <2>1 DEF IInv, ConnStates, ConnState, Owned, Places, Ending, Working
    <2> QED
      BY <2>2, <2>3 DEF IInv
  <1> QED
    BY <1>1, <1>2, <1>3, <1>4, <1>5, <1>6, <1>7, <1>8, <1>9 DEF Next

\* For any set of clients, every state of the server satisfies the invariant.
THEOREM Inductive == Spec => []IInv
  BY InitKeeps, NextKeeps, PTL DEF Spec

\* The coroutines, objects, sockets and lists keep their types.
THEOREM TypeCorrect == Spec => []TypeOK
  <1>1. IInv => TypeOK
    BY DEF IInv
  <1> QED
    BY <1>1, Inductive, PTL

-----------------------------------------------------------------------------
\* A connection has at most one place from which it is freed, and has one exactly
\* while it lives.
LEMMA HoldersCounted ==
    ASSUME IInv, NEW c \in Conns
    PROVE  Cardinality(Holders(c)) = IF obj[c] = "live" THEN 1 ELSE 0
  <1> USE DEF IInv, TypeOK, ThreadType, ObjectType, Listeners, Freers, ListenersRun, Making,
              Disposing, JoinedBy, Runs, ListenAt
  <1>1. CASE obj[c] # "live"
    <2>1. Holders(c) = {}
      BY <1>1 DEF Holders, Owned, Places, ConnStates, ConnState, Control, ListenerControl
    <2> QED
      BY <1>1, <2>1, FS_EmptySet
  <1>2. CASE obj[c] = "live"
    <2>1. \E h : Holders(c) = {h}
      <3>1. CASE Working(c, "add")
        <4>1. PICK l \in Listeners : lpc[l] = "add" /\ lconn[l] = c
          BY <3>1 DEF Working
        <4>2. ~ In(c, zombies_) /\ ~ In(c, copy["reaper"]) /\ ~ In(c, copy["main"])
          BY <4>1 DEF Owned, Places, Ending, Control, ListenerControl
        <4>3. ~ In(c, conns_)
          BY <3>1, <4>1 DEF Owned, Places, ConnStates, ConnState, Working, Control, ListenerControl
        <4>4. Holders(c) = {l}
          BY <4>1, <4>2, <4>3 DEF Holders, Control, ListenerControl
        <4> QED
          BY <4>4
      <3>2. CASE In(c, zombies_)
        <4>1. Holders(c) = {"zombies_"}
          BY <3>2 DEF Holders, Owned, Places, Ending, Working
        <4> QED
          BY <4>1
      <3>3. CASE In(c, copy["reaper"])
        <4>1. Holders(c) = {"reaper"}
          BY <3>3 DEF Holders, Owned, Places, Ending, Working
        <4> QED
          BY <4>1
      <3>4. CASE In(c, copy["main"])
        <4>1. Holders(c) = {"main"}
          BY <3>4 DEF Holders, Owned, Places, Ending, Working, Control, MainControl, ListenerControl
        <4> QED
          BY <4>1
      <3>5. CASE In(c, conns_) /\ ~ disposing_
        <4>1. ~ In(c, zombies_) /\ ~ In(c, copy["reaper"]) /\ ~ In(c, copy["main"])
          BY <3>5 DEF Owned, Places, Ending, Working, Control, MainControl
        <4>2. ~ Working(c, "add")
          BY <3>5 DEF Owned, Places, ConnStates, ConnState, Working, Control, ListenerControl
        <4>3. Holders(c) = {"conns_"}
          BY <3>5, <4>1, <4>2 DEF Holders, Working
        <4> QED
          BY <4>3
      <3> QED
        BY <1>2, <3>1, <3>2, <3>3, <3>4, <3>5 DEF Owned, Places
    <2>2. PICK h : Holders(c) = {h}
      BY <2>1
    <2> QED
      BY <1>2, <2>2, FS_Singleton
  <1> QED
    BY <1>1, <1>2

\* For any set of clients, a live connection is on exactly one list, no list holds a
\* freed one, and nothing is left when the server is gone (~SrsServer,
\* SrsResourceManager::remove and clear).
THEOREM NothingIsLost == Spec => []NothingLost
  <1>1. IInv => OneOwner
    BY HoldersCounted DEF OneOwner
  <1>2. IInv => NothingLeft
    <2> SUFFICES ASSUME IInv, mpc = "done"
                 PROVE  /\ \A c \in Conns : obj[c] # "live" /\ fd[c] \in {"none", "closed"}
                        /\ \A l \in Listeners : lfd[l] # "open"
      BY DEF NothingLeft
    <2> USE DEF IInv, Control, ListenersRun, Making, Disposing, Runs, JoinedBy, Listeners
    <2>1. \A l \in Listeners : lfd[l] # "open" /\ ~ Runs(lpc[l])
      BY DEF ListenerControl
    <2>2. /\ zombies_ = << >> /\ copy["main"] = << >> /\ disposing_
          /\ copy["reaper"] = << >>
      BY DEF MainControl, ReaperControl
    <2>3. ASSUME NEW c \in Conns PROVE obj[c] # "live"
      BY <2>1, <2>2, InEmpty DEF Owned, Places, Working
    <2>4. ASSUME NEW c \in Conns PROVE fd[c] \in {"none", "closed"}
      BY <2>3 DEF ConnStates, ConnState, TypeOK, ObjectType
    <2> QED
      BY <2>1, <2>3, <2>4
  <1> QED
    BY <1>1, <1>2, Inductive, PTL DEF NothingLost

-----------------------------------------------------------------------------
(* The life cycle that Resource promises, read off the detailed state.        *)
Inside == [c \in Conns |-> pc[c] \notin {"none", "out"}]
Accepting == mpc \in {"initialize", "listen_rtmp", "listen_http", "up",
                      "stop_rtmp", "join_rtmp", "stop_http", "join_http"}

\* A step that makes, frees, enters or leaves no connection and does not end the
\* listeners is invisible.
LEMMA Invisible ==
    ASSUME UNCHANGED <<obj, pc>>, Accepting' = Accepting
    PROVE  UNCHANGED <<obj, Inside, Accepting>>
  BY DEF Inside

\* The listeners' steps: a connection is made and its thread enters it while the
\* server accepts clients.
LEMMA ListenerRefines ==
    ASSUME IInv, NEW l \in Listeners, ListenerStep(l) \/ \E d \in Conns : AcceptDropped(l, d) \/ Accept(l, d)
    PROVE  Res!Next \/ UNCHANGED <<obj, Inside, Accepting>>
  <1> USE DEF AtListener
  <1>1. CASE \/ ListenerPull(l) \/ PollTimeout(l) \/ Add(l) \/ StartedConn(l)
             \/ StartConnFailed(l) \/ ListenerExit(l)
    BY <1>1, Invisible
    DEF Accepting, ListenerPull, PollTimeout, Add, StartedConn, StartConnFailed, ListenerExit
  <1>2. CASE StartConn(l)
    <2>1. PICK c \in Conns : c = lconn[l]
      BY <1>2 DEF StartConn, IInv, Control, ListenerControl, TypeOK, ObjectType
    <2>2. Accepting /\ obj[c] = "live" /\ pc[c] = "none"
      BY <1>2, <2>1
      DEF StartConn, IInv, Control, ListenerControl, ConnStates, ConnState, Working, Owned, Places,
          Accepting, ListenersRun, Making, JoinedBy, Runs, Listeners, TypeOK, ObjectType
    <2>3. /\ Inside' = [Inside EXCEPT ![c] = TRUE] /\ ~ Inside[c]
          /\ UNCHANGED <<obj, Accepting>>
      BY <1>2, <2>1, <2>2 DEF StartConn, Inside, Accepting, IInv, TypeOK, ThreadType
    <2>4. Res!Enter(c)
      BY <2>1, <2>2, <2>3 DEF Res!Enter, Inside, Accepting
    <2> QED
      BY <2>4 DEF Res!Next
  <1>3. ASSUME NEW d \in Conns, AcceptDropped(l, d) PROVE UNCHANGED <<obj, Inside, Accepting>>
    BY <1>3, Invisible DEF AcceptDropped, Accepting
  <1>4. ASSUME NEW d \in Conns, Accept(l, d) PROVE Res!Next
    <2>1. Accepting /\ obj[d] = "none"
      BY <1>4
      DEF Accept, IInv, Control, ListenerControl, ConnStates, ConnState, Accepting, ListenersRun,
          Making, JoinedBy, Runs, Listeners, TypeOK, ObjectType
    <2>2. obj' = [obj EXCEPT ![d] = "live"] /\ UNCHANGED <<Inside, Accepting>>
      BY <1>4 DEF Accept, Inside, Accepting
    <2>3. Res!Make(d)
      BY <2>1, <2>2 DEF Res!Make, Inside, Accepting
    <2> QED
      BY <2>3 DEF Res!Next
  <1> QED
    BY <1>1, <1>2, <1>3, <1>4 DEF ListenerStep

\* A connection's thread leaves it with its last step, while the object lives.
LEMMA ConnRefines ==
    ASSUME IInv, NEW c \in Conns, ConnEnds(c) \/ ConnStep(c)
    PROVE  Res!Next \/ UNCHANGED <<obj, Inside, Accepting>>
  <1> USE DEF AtConn
  <1>1. CASE ConnEnds(c) \/ ConnRemove(c) \/ ConnDone(c)
    <2>1. UNCHANGED <<obj, mpc>> /\ \A d \in Conns : pc'[d] \in {"none", "out"} <=> pc[d] \in {"none", "out"}
      BY <1>1 DEF ConnEnds, ConnRemove, ConnDone, IInv, TypeOK, ThreadType
    <2> QED
      BY <2>1 DEF Inside, Accepting
  <1>2. CASE ConnExit(c)
    <2>1. obj[c] = "live"
      BY <1>2 DEF ConnExit, IInv, ConnStates, ConnState, Runs, TypeOK, ObjectType
    <2>2. /\ Inside' = [Inside EXCEPT ![c] = FALSE] /\ Inside[c]
          /\ UNCHANGED <<obj, Accepting>>
      BY <1>2 DEF ConnExit, Inside, Accepting, IInv, TypeOK, ThreadType
    <2>3. Res!Leave(c)
      BY <2>1, <2>2 DEF Res!Leave, Inside, Accepting
    <2> QED
      BY <2>3 DEF Res!Next
  <1> QED
    BY <1>1, <1>2 DEF ConnStep

\* The object is freed when its thread is out of it, and lives until then.
LEMMA DeleteRefines ==
    ASSUME IInv, NEW t \in Freers, DeleteStep(t)
    PROVE  Res!Next \/ UNCHANGED <<obj, Inside, Accepting>>
  <1>1. CASE DeleteBegin(t)
    BY <1>1, Invisible DEF DeleteBegin, Accepting
  <1>2. CASE DeleteEnd(t)
    <2> DEFINE c == Head(copy[t])
    <2>1. copy[t] \in Seq(Conns) /\ copy[t] # << >> /\ Distinct(copy[t])
      BY <1>2 DEF DeleteEnd, IInv, TypeOK, ListType, ListsDistinct, Control, MainControl
    <2>2. c \in Conns /\ In(c, copy[t])
      BY <2>1, InTail
    <2> HIDE DEF c
    <2>3. obj[c] = "live"
      BY <2>2 DEF IInv, Owned, Places, Freers
    <2>4. ~ Runs(pc[c])
      BY <1>2, <2>2 DEF DeleteEnd, c, joined, Unlocked, IInv, ConnStates, ConnState
    <2>5. obj' = [obj EXCEPT ![c] = "freed"] /\ UNCHANGED <<Inside, Accepting>> /\ ~ Inside[c]
      BY <1>2, <2>2, <2>4 DEF DeleteEnd, c, Inside, Accepting, Runs
    <2>6. Res!Free(c)
      BY <2>2, <2>3, <2>5 DEF Res!Free, Inside, Accepting
    <2> QED
      BY <2>2, <2>6 DEF Res!Next
  <1> QED
    BY <1>1, <1>2 DEF DeleteStep

\* The server stops to accept clients when its last listener was joined.
LEMMA MainRefines ==
    ASSUME IInv, Destroy \/ DestroyStep
    PROVE  Res!Next \/ UNCHANGED <<obj, Inside, Accepting>>
  <1>1. CASE Destroy \/ MainClear \/ Dispose \/ Freed
    BY <1>1, Invisible DEF Destroy, MainClear, Dispose, Freed, Accepting
  <1>2. ASSUME NEW t \in DOMAIN After, StopThread(t) PROVE UNCHANGED <<obj, Inside, Accepting>>
    BY <1>2, Invisible DEF StopThread, Accepting, After, StopAt, JoinAt
  <1>3. ASSUME NEW t \in DOMAIN After, JoinThread(t)
        PROVE  Res!Close \/ UNCHANGED <<obj, Inside, Accepting>>
    <2>1. CASE t = "http"
      <3>1. Accepting /\ Accepting' = FALSE /\ UNCHANGED <<obj, Inside>>
        BY <1>3, <2>1 DEF JoinThread, JoinAt, After, Accepting, Inside
      <3> QED
        BY <3>1 DEF Res!Close, Accepting, Inside
    <2>2. CASE t # "http"
      BY <1>3, <2>2, Invisible DEF JoinThread, Accepting, After, JoinAt
    <2> QED
      BY <2>1, <2>2
  <1> QED
    BY <1>1, <1>2, <1>3 DEF DestroyStep, Res!Next

\* For any set of clients the threads implement Resource: no connection is freed while
\* its thread is inside it, none is freed twice, none is used after that, and none is
\* made once the listeners were joined (SrsSTCoroutine::start and stop, ~SrsRtmpConn,
\* ~SrsHttpConn, ~SrsServer).
THEOREM FreesSafely == Spec => FreedSafely
  <1>1. Init => Res!Init
    BY DEF Init, Res!Init
  <1>2. IInv /\ [Next]_vars => [Res!Next]_<<obj, Inside, Accepting>>
    <2> SUFFICES ASSUME IInv, [Next]_vars
                 PROVE  Res!Next \/ UNCHANGED <<obj, Inside, Accepting>>
      OBVIOUS
    <2>1. ASSUME NEW ok \in BOOLEAN, Initialize(ok) PROVE UNCHANGED <<obj, Inside, Accepting>>
      BY <2>1, Invisible DEF Initialize, Accepting
    <2>2. ASSUME NEW l \in Listeners, NEW socket \in BOOLEAN, NEW thread \in BOOLEAN,
                 Listen(l, socket, thread)
          PROVE  UNCHANGED <<obj, Inside, Accepting>>
      BY <2>2, Invisible DEF Listen, Accepting, ListenAt, Listeners
    <2>3. CASE ReaperStep
      BY <2>3, Invisible
      DEF ReaperStep, ReaperPull, ReaperWake, ReaperClear, ReaperCleared, ReaperExit, Accepting
    <2>4. CASE (\E cs \in SUBSET Conns : Block(cs)) \/ Gone \/ UNCHANGED vars
      BY <2>4, Invisible DEF Block, Gone, vars, Accepting
    <2> QED
      BY <2>1, <2>2, <2>3, <2>4, ListenerRefines, ConnRefines, DeleteRefines, MainRefines DEF Next
  <1> QED
    BY <1>1, <1>2, Inductive, PTL DEF Spec, FreedSafely, Res!Spec, Inside, Accepting

=============================================================================
