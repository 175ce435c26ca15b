---------------------------- MODULE Connections ----------------------------
(* The threads of SrsServer and who frees a connection: two listeners accept  *)
(* clients and start a thread for each, a connection's thread hands itself to *)
(* SrsResourceManager when it ends, the manager's thread frees what it finds, *)
(* and ~SrsServer frees the rest while all of them still run.                 *)
EXTENDS Naturals, Sequences, FiniteSets, Coroutine

CONSTANT Conns        \* the clients that may connect

ASSUME ConnsAssumption == Conns \cap {"rtmp", "http", "reaper", "none"} = {}

Listeners == {"rtmp", "http"}
Freers == {"reaper", "main"}

VARIABLES co,         \* the coroutine of every listener, of the manager, of every connection
          obj, fd,    \* connection objects and their sockets
          pc,         \* threads of connections
          stuck,      \* those that wait for locks of a source for good
          lpc, lconn, \* threads of listeners, and the connection each works on
          lfd,        \* listening sockets
          rpc,        \* the manager's thread
          mpc,        \* the thread that makes and destroys the server
          conns_, zombies_, disposing_,
          copy,       \* what a thread is about to free
          deleting    \* whether it waits for the thread of the first of them
vars == <<co, obj, fd, pc, lpc, lconn, lfd, rpc, mpc, conns_, zombies_, disposing_, copy, deleting,
          stuck>>

Init ==
    /\ co = [t \in Listeners \cup {"reaper"} \cup Conns |-> SrsDummyCoroutine]
    /\ obj = [c \in Conns |-> "none"] /\ fd = [c \in Conns |-> "none"]
    /\ pc = [c \in Conns |-> "none"] /\ stuck = {}
    /\ lpc = [l \in Listeners |-> "none"] /\ lconn = [l \in Listeners |-> "none"]
    /\ lfd = [l \in Listeners |-> "none"]
    /\ rpc = "none" /\ mpc = "initialize"
    /\ conns_ = << >> /\ zombies_ = << >> /\ disposing_ = FALSE
    /\ copy = [t \in Freers |-> << >>] /\ deleting = [t \in Freers |-> FALSE]

In(c, s) == \E i \in 1..Len(s) : s[i] = c
IsFirst(s, c, i) == s[i] = c /\ \A j \in 1..i-1 : s[j] # c
erase(s, i) == SubSeq(s, 1, i - 1) \o SubSeq(s, i + 1, Len(s))
Without(s, c) == IF In(c, s) THEN erase(s, CHOOSE i \in 1..Len(s) : IsFirst(s, c, i)) ELSE s
Unlocked(t) == ~ co[t].locked

-----------------------------------------------------------------------------
(* Making the server.  When a step fails the server stays as it is until it   *)
(* is destroyed.                                                              *)

Run(t, ok) == IF ok THEN start(pthread_create(SrsSTCoroutine)) ELSE start_failed(SrsSTCoroutine)

Initialize(ok) ==
    /\ mpc = "initialize"
    /\ co' = [co EXCEPT !["reaper"] = Run("reaper", ok)]
    /\ rpc' = IF ok THEN "pull" ELSE "none"
    /\ mpc' = IF ok THEN "listen_rtmp" ELSE "up"
    /\ UNCHANGED <<obj, fd, pc, lpc, lconn, lfd, conns_, zombies_, disposing_, copy, deleting, stuck>>

ListenAt == [rtmp |-> "listen_rtmp", http |-> "listen_http"]

(* listen fails for want of the port or for want of a thread.                 *)
Listen(l, socket, thread) ==
    /\ mpc = ListenAt[l]
    /\ lfd' = [lfd EXCEPT ![l] = IF socket THEN "open" ELSE "none"]
    /\ co' = IF socket THEN [co EXCEPT ![l] = Run(l, thread)] ELSE co
    /\ lpc' = [lpc EXCEPT ![l] = IF socket /\ thread THEN "pull" ELSE "none"]
    /\ mpc' = IF socket /\ thread /\ l = "rtmp" THEN "listen_http" ELSE "up"
    /\ UNCHANGED <<obj, fd, pc, lconn, rpc, conns_, zombies_, disposing_, copy, deleting, stuck>>

-----------------------------------------------------------------------------
(* A listener's thread: SrsTcpListener::cycle, do_cycle, on_tcp_client.       *)

AtListener(l, from, to) == lpc[l] = from /\ lpc' = [lpc EXCEPT ![l] = to]

ListenerPull(l) ==
    /\ AtListener(l, "pull", IF pull(co[l]) = NoError THEN "poll" ELSE "exit")
    /\ UNCHANGED <<co, obj, fd, pc, lconn, lfd, rpc, mpc, conns_, zombies_, disposing_, copy, deleting, stuck>>

(* poll gives up after 100 ms; it and accept may also fail.                   *)
PollTimeout(l) ==
    /\ AtListener(l, "poll", "pull")
    /\ UNCHANGED <<co, obj, fd, pc, lconn, lfd, rpc, mpc, conns_, zombies_, disposing_, copy, deleting, stuck>>

(* A client without an address, or whose socket cannot be set up, is closed.  *)
AcceptDropped(l, c) ==
    /\ AtListener(l, "poll", "pull")
    /\ fd[c] = "none"
    /\ fd' = [fd EXCEPT ![c] = "closed"]
    /\ UNCHANGED <<co, obj, pc, lconn, lfd, rpc, mpc, conns_, zombies_, disposing_, copy, deleting, stuck>>

Accept(l, c) ==
    /\ AtListener(l, "poll", "add")
    /\ fd[c] = "none"
    /\ fd' = [fd EXCEPT ![c] = "open"]
    /\ obj' = [obj EXCEPT ![c] = "live"]
    /\ co' = [co EXCEPT ![c] = SrsSTCoroutine]
    /\ lconn' = [lconn EXCEPT ![l] = c]
    /\ UNCHANGED <<pc, lfd, rpc, mpc, conns_, zombies_, disposing_, copy, deleting, stuck>>

Add(l) ==
    /\ AtListener(l, "add", "start")
    /\ conns_' = IF In(lconn[l], conns_) THEN conns_ ELSE Append(conns_, lconn[l])
    /\ UNCHANGED <<co, obj, fd, pc, lconn, lfd, rpc, mpc, zombies_, disposing_, copy, deleting, stuck>>

StartConn(l) ==
    LET c == lconn[l] IN
    /\ AtListener(l, "start", "started")
    /\ Unlocked(c)
    /\ co' = [co EXCEPT ![c] = pthread_create(@)]
    /\ pc' = [pc EXCEPT ![c] = "run"]
    /\ UNCHANGED <<obj, fd, lconn, lfd, rpc, mpc, conns_, zombies_, disposing_, copy, deleting, stuck>>

StartedConn(l) ==
    /\ AtListener(l, "started", "pull")
    /\ co' = [co EXCEPT ![lconn[l]] = start(@)]
    /\ lconn' = [lconn EXCEPT ![l] = "none"]
    /\ UNCHANGED <<obj, fd, pc, lfd, rpc, mpc, conns_, zombies_, disposing_, copy, deleting, stuck>>

(* SrsResourceManager::remove.                                                *)
removed(c) == Without(conns_, c)
zombied(c) == IF disposing_ \/ In(c, zombies_) THEN zombies_ ELSE Append(zombies_, c)

StartConnFailed(l) ==
    LET c == lconn[l] IN
    /\ AtListener(l, "start", "pull")
    /\ co' = [co EXCEPT ![c] = start_failed(@)]
    /\ conns_' = removed(c) /\ zombies_' = zombied(c)
    /\ lconn' = [lconn EXCEPT ![l] = "none"]
    /\ UNCHANGED <<obj, fd, pc, lfd, rpc, mpc, disposing_, copy, deleting, stuck>>

ListenerExit(l) ==
    /\ AtListener(l, "exit", "out")
    /\ co' = [co EXCEPT ![l] = pfn(@, pull(@))]
    /\ UNCHANGED <<obj, fd, pc, lconn, lfd, rpc, mpc, conns_, zombies_, disposing_, copy, deleting, stuck>>

-----------------------------------------------------------------------------
(* A connection's thread.  do_cycle ends when the client leaves or fails, and *)
(* soon after it was interrupted and its socket was shut down.                *)

AtConn(c, from, to) == pc[c] = from /\ pc' = [pc EXCEPT ![c] = to]

Stopping(c) == co[c].interrupted \/ fd[c] = "shut"

ConnEnds(c) ==
    /\ c \notin stuck
    /\ Unlocked(c)
    /\ AtConn(c, "run", "remove")
    /\ UNCHANGED <<co, obj, fd, lpc, lconn, lfd, rpc, mpc, conns_, zombies_, disposing_, copy, deleting, stuck>>

(* A publisher in its fan-out and a player in dump_packets that wait for each *)
(* other's lock (LiveSource!CircularWait), and whoever comes to the source     *)
(* after them.  No interruption wakes a thread that waits for a mutex.        *)
Block(cs) ==
    /\ \A c \in cs : pc[c] = "run"
    /\ Cardinality(stuck \cup cs) > 1
    /\ stuck' = stuck \cup cs
    /\ UNCHANGED <<co, obj, fd, pc, lpc, lconn, lfd, rpc, mpc, conns_, zombies_, disposing_, copy,
                   deleting>>

ConnRemove(c) ==
    /\ AtConn(c, "remove", "leave")
    /\ conns_' = removed(c) /\ zombies_' = zombied(c)
    /\ UNCHANGED <<co, obj, fd, lpc, lconn, lfd, rpc, mpc, disposing_, copy, deleting, stuck>>

(* The errors of do_cycle are logged: cycle returns success.                  *)
ConnDone(c) ==
    /\ Unlocked(c)
    /\ AtConn(c, "leave", "exit")
    /\ co' = [co EXCEPT ![c] = cycle(@, NoError)]
    /\ UNCHANGED <<obj, fd, lpc, lconn, lfd, rpc, mpc, conns_, zombies_, disposing_, copy, deleting, stuck>>

ConnExit(c) ==
    /\ Unlocked(c)
    /\ AtConn(c, "exit", "out")
    /\ co' = [co EXCEPT ![c] = pfn(@, NoError)]
    /\ UNCHANGED <<obj, fd, lpc, lconn, lfd, rpc, mpc, conns_, zombies_, disposing_, copy, deleting, stuck>>

-----------------------------------------------------------------------------
(* Freeing: ~SrsRtmpConn and ~SrsHttpConn interrupt the thread, shut the      *)
(* socket down so that it wakes up, join it and close the socket.             *)

DeleteBegin(t) ==
    LET c == Head(copy[t]) IN
    /\ copy[t] # << >> /\ ~ deleting[t]
    /\ Unlocked(c)
    /\ co' = [co EXCEPT ![c] = dispose(interrupt(@))]
    /\ fd' = [fd EXCEPT ![c] = "shut"]
    /\ deleting' = [deleting EXCEPT ![t] = TRUE]
    /\ UNCHANGED <<obj, pc, lpc, lconn, lfd, rpc, mpc, conns_, zombies_, disposing_, copy, stuck>>

DeleteEnd(t) ==
    LET c == Head(copy[t]) IN
    /\ deleting[t]
    /\ joined(co[c]) /\ Unlocked(c)
    /\ co' = [co EXCEPT ![c] = terminated(@)]
    /\ obj' = [obj EXCEPT ![c] = "freed"]
    /\ fd' = [fd EXCEPT ![c] = "closed"]
    /\ copy' = [copy EXCEPT ![t] = Tail(@)]
    /\ deleting' = [deleting EXCEPT ![t] = FALSE]
    /\ UNCHANGED <<pc, lpc, lconn, lfd, rpc, mpc, conns_, zombies_, disposing_, stuck>>

\* Mutant of Cleared: one connection of those that ended is taken, the rest forgotten.
Cleared_One(t) ==
    /\ copy' = [copy EXCEPT ![t] = IF zombies_ = << >> THEN << >> ELSE <<Head(zombies_)>>]
    /\ zombies_' = << >>

(* SrsResourceManager::clear takes all that ended, under the lock.            *)
Cleared(t) ==
    /\ copy' = [copy EXCEPT ![t] = zombies_]
    /\ zombies_' = << >>

-----------------------------------------------------------------------------
(* The manager's thread.                                                      *)

ReaperPull ==
    /\ rpc = "pull"
    /\ rpc' = IF pull(co["reaper"]) = NoError THEN "wait" ELSE "exit"
    /\ UNCHANGED <<co, obj, fd, pc, lpc, lconn, lfd, mpc, conns_, zombies_, disposing_, copy, deleting, stuck>>

(* It is notified, or 100 ms have passed.                                     *)
ReaperWake ==
    /\ rpc = "wait" /\ rpc' = "clear"
    /\ UNCHANGED <<co, obj, fd, pc, lpc, lconn, lfd, mpc, conns_, zombies_, disposing_, copy, deleting, stuck>>

ReaperClear ==
    /\ rpc = "clear" /\ rpc' = "free"
    /\ Cleared("reaper")
    /\ UNCHANGED <<co, obj, fd, pc, lpc, lconn, lfd, mpc, conns_, disposing_, deleting, stuck>>

ReaperCleared ==
    /\ rpc = "free" /\ copy["reaper"] = << >> /\ rpc' = "pull"
    /\ UNCHANGED <<co, obj, fd, pc, lpc, lconn, lfd, mpc, conns_, zombies_, disposing_, copy, deleting, stuck>>

ReaperExit ==
    /\ rpc = "exit" /\ rpc' = "out"
    /\ co' = [co EXCEPT !["reaper"] = pfn(@, pull(@))]
    /\ UNCHANGED <<obj, fd, pc, lpc, lconn, lfd, mpc, conns_, zombies_, disposing_, copy, deleting, stuck>>

-----------------------------------------------------------------------------
(* ~SrsServer: the listeners first, then ~SrsResourceManager.                 *)

Destroy ==
    /\ mpc = "up" /\ mpc' = "stop_rtmp"
    /\ UNCHANGED <<co, obj, fd, pc, lpc, lconn, lfd, rpc, conns_, zombies_, disposing_, copy, deleting, stuck>>

StopAt == [rtmp |-> "stop_rtmp", http |-> "stop_http", reaper |-> "stop_reaper"]
JoinAt == [rtmp |-> "join_rtmp", http |-> "join_http", reaper |-> "join_reaper"]
After == [rtmp |-> "stop_http", http |-> "stop_reaper", reaper |-> "clear"]

StopThread(t) ==
    /\ mpc = StopAt[t] /\ mpc' = JoinAt[t]
    /\ co' = [co EXCEPT ![t] = dispose(@)]
    /\ UNCHANGED <<obj, fd, pc, lpc, lconn, lfd, rpc, conns_, zombies_, disposing_, copy, deleting, stuck>>

(* A listener's socket is closed when its thread is gone.                     *)
JoinThread(t) ==
    /\ mpc = JoinAt[t] /\ mpc' = After[t]
    /\ joined(co[t])
    /\ co' = [co EXCEPT ![t] = terminated(@)]
    /\ lfd' = IF t \in Listeners /\ lfd[t] = "open" THEN [lfd EXCEPT ![t] = "closed"] ELSE lfd
    /\ UNCHANGED <<obj, fd, pc, lpc, lconn, rpc, conns_, zombies_, disposing_, copy, deleting, stuck>>

MainClear ==
    /\ mpc \in {"clear", "clear_again"}
    /\ mpc' = IF mpc = "clear" THEN "free" ELSE "free_again"
    /\ Cleared("main")
    /\ UNCHANGED <<co, obj, fd, pc, lpc, lconn, lfd, rpc, conns_, disposing_, deleting, stuck>>

Dispose ==
    /\ mpc = "free" /\ copy["main"] = << >>
    /\ mpc' = "free_conns"
    /\ disposing_' = TRUE
    /\ copy' = [copy EXCEPT !["main"] = conns_]
    /\ UNCHANGED <<co, obj, fd, pc, lpc, lconn, lfd, rpc, conns_, zombies_, deleting, stuck>>

\* Mutant of Freed: what ended just before disposing_ was set is not looked for.
Freed_Once ==
    /\ mpc \in {"free_conns", "free_again"} /\ copy["main"] = << >>
    /\ mpc' = "done"
    /\ UNCHANGED <<co, obj, fd, pc, lpc, lconn, lfd, rpc, conns_, zombies_, disposing_, copy, deleting, stuck>>

Freed ==
    /\ mpc \in {"free_conns", "free_again"} /\ copy["main"] = << >>
    /\ mpc' = IF mpc = "free_conns" THEN "clear_again" ELSE "done"
    /\ UNCHANGED <<co, obj, fd, pc, lpc, lconn, lfd, rpc, conns_, zombies_, disposing_, copy, deleting, stuck>>

(* The destructor joins the thread of a connection that never ends.           *)
Hanging == deleting["main"] /\ Head(copy["main"]) \in stuck

(* The server is gone, or hangs for good.                                     *)
Gone == (mpc = "done" \/ Hanging) /\ UNCHANGED vars

-----------------------------------------------------------------------------
ListenerStep(l) ==
    \/ ListenerPull(l) \/ PollTimeout(l) \/ Add(l)
    \/ StartConn(l) \/ StartedConn(l) \/ StartConnFailed(l) \/ ListenerExit(l)
ConnStep(c) == ConnRemove(c) \/ ConnDone(c) \/ ConnExit(c)
DeleteStep(t) == DeleteBegin(t) \/ DeleteEnd(t)
ReaperStep == ReaperPull \/ ReaperWake \/ ReaperClear \/ ReaperCleared \/ ReaperExit
DestroyStep ==
    \/ \E t \in DOMAIN After : StopThread(t) \/ JoinThread(t)
    \/ MainClear \/ Dispose \/ Freed

Next ==
    \/ \E ok \in BOOLEAN : Initialize(ok)
    \/ \E l \in Listeners, socket, thread \in BOOLEAN : Listen(l, socket, thread)
    \/ \E l \in Listeners : ListenerStep(l) \/ \E c \in Conns : AcceptDropped(l, c) \/ Accept(l, c)
    \/ \E c \in Conns : ConnEnds(c) \/ ConnStep(c)
    \/ \E cs \in SUBSET Conns : Block(cs)
    \/ \E t \in Freers : DeleteStep(t)
    \/ ReaperStep \/ Destroy \/ DestroyStep \/ Gone

(* Threads go on: every wait in this code has a timeout, and a thread whose   *)
(* socket was shut down or that was interrupted leaves do_cycle, unless it     *)
(* waits for a lock of a source for good.  Nothing says when clients come and *)
(* go or that the server is destroyed.                                        *)
Fairness ==
    /\ \A l \in Listeners : WF_vars(ListenerStep(l))
    /\ \A c \in Conns : WF_vars(ConnStep(c)) /\ WF_vars(Stopping(c) /\ ConnEnds(c))
    /\ \A t \in Freers : WF_vars(DeleteStep(t))
    /\ WF_vars(ReaperStep) /\ WF_vars(DestroyStep)

Spec == Init /\ [][Next]_vars
FairSpec == Spec /\ Fairness
-----------------------------------------------------------------------------
(* The detailed threads implement Resource: no connection is freed while its  *)
(* thread is inside it, none is freed twice or used again, and none is made   *)
(* after the listeners were joined.                                           *)
Res == INSTANCE Resource
         WITH life <- obj,
              inside <- [c \in Conns |-> pc[c] \notin {"none", "out"}],
              accepting <- mpc \in {"initialize", "listen_rtmp", "listen_http", "up",
                                    "stop_rtmp", "join_rtmp", "stop_http", "join_http"}
FreedSafely == Res!Spec

(* A live connection is on exactly one list from which it will be freed, and  *)
(* no list holds one that was freed.  While ~SrsResourceManager frees the     *)
(* connections it copied, they leave conns_ whenever their threads end.       *)
Holders(c) ==
    {t \in Freers : In(c, copy[t])}
    \cup {l \in Listeners : lpc[l] = "add" /\ lconn[l] = c}
    \cup (IF In(c, zombies_) THEN {"zombies_"} ELSE {})
    \cup (IF In(c, conns_) /\ ~ disposing_ THEN {"conns_"} ELSE {})
OneOwner == \A c \in Conns : Cardinality(Holders(c)) = IF obj[c] = "live" THEN 1 ELSE 0

(* When the server is gone, so is every connection it accepted, with its      *)
(* socket.                                                                    *)
NothingLeft ==
    mpc = "done" => /\ \A c \in Conns : obj[c] # "live" /\ fd[c] \in {"none", "closed"}
                    /\ \A l \in Listeners : lfd[l] # "open"

(* Nothing is lost or owned twice on the way there.                           *)
NothingLost == OneOwner /\ NothingLeft

(* A connection that has ended, or could not be started, is freed, also while *)
(* the server keeps running, whatever other connections wait for, unless its  *)
(* destructor hangs.                                                          *)
Reaped == \A c \in Conns : In(c, zombies_) ~> (obj[c] = "freed" \/ Hanging)

(* Destroying the server ends, unless connections are in the circular wait of *)
(* source and consumer: no other two threads wait for each other.             *)
Destroyed == (mpc = "stop_rtmp") ~> (mpc = "done" \/ Hanging)
=============================================================================
