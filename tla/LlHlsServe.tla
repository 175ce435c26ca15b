----------------------------- MODULE LlHlsServe -----------------------------
(***************************************************************************)
(* The HTTP connections that read an LL-HLS storage (SrsHttpConn), one      *)
(* thread per connection, next to the writer of module LlHlsWindow.  Each   *)
(* call of the storage is one step, because each takes and releases the     *)
(* mutex of the storage by itself; between two calls the window may move    *)
(* and the stream may stop or start.                                        *)
(*                                                                          *)
(* wait_for() is one step as well: it may return at any time, for the 100ms *)
(* of a slice may be over, and its value is computed when it returns.       *)
(***************************************************************************)
EXTENDS LlHlsWindow

CONSTANTS Clients,                  \* HTTP connections
          SRS_HTTP_MSN_AHEAD_MAX,   \* 2 in the program
          HoldSlices,               \* SRS_HTTP_HOLD_TIMEOUT / 100ms (60)
          AskedMsn, AskedPsn        \* sequence numbers clients ask for

ASSUME LlHlsServeAssumption ==
    /\ SRS_HTTP_MSN_AHEAD_MAX \in Nat \ {0} /\ HoldSlices \in Nat
    /\ AskedMsn \subseteq Nat /\ AskedPsn \subseteq Nat

VARIABLES pc,
          req,        \* the request a thread serves
          slices,     \* slices of its hold that are over
          held,       \* how the hold ended
          answer,     \* status and body of the answer
          hinted,     \* history: the request was for the part hinted at the time
          stopped     \* history: the stream stopped since the request came

cvars == <<pc, req, slices, held, answer, hinted, stopped>>
vars  == <<wvars, cvars>>

\* psn = -1 stands for a request that names no part.
Requests ==
    [kind : {"playlist"}, msn : AskedMsn, psn : AskedPsn \cup {-1}]
      \cup [kind : {"playlist"}, msn : {-1}, psn : {-1}]
      \cup [kind : {"part"}, msn : AskedMsn, psn : AskedPsn]
      \cup [kind : {"segment"}, msn : AskedMsn, psn : {-1}]
      \cup [kind : {"init"}, msn : {-1}, psn : {-1}]

NoRequest == [kind |-> "none", msn |-> -1, psn |-> -1]

NoAnswer == [status |-> 0, body |-> {}]

Init ==
    /\ WindowInit
    /\ pc = [c \in Clients |-> "idle"]
    /\ req = [c \in Clients |-> NoRequest]
    /\ slices = [c \in Clients |-> 0]
    /\ held = [c \in Clients |-> "no"]
    /\ answer = [c \in Clients |-> NoAnswer]
    /\ hinted = [c \in Clients |-> FALSE]
    /\ stopped = [c \in Clients |-> FALSE]

Goto(c, label) == pc' = [pc EXCEPT ![c] = label]

Reply(c, status, body) ==
    /\ answer' = [answer EXCEPT ![c] = [status |-> status, body |-> body]]
    /\ Goto(c, "answered")

\* do_cycle and serve_llhls: a request is read and routed.  A playlist request
\* that names a segment goes through the hold; a part is looked up first.
Request(c, r) ==
    /\ pc[c] = "idle"
    /\ req' = [req EXCEPT ![c] = r]
    /\ slices' = [slices EXCEPT ![c] = 0]
    /\ held' = [held EXCEPT ![c] = "no"]
    /\ hinted' = [hinted EXCEPT ![c] = r.kind = "part" /\ <<r.msn, r.psn>> \in storage.playlist.hint]
    /\ stopped' = [stopped EXCEPT ![c] = FALSE]
    /\ Goto(c, CASE r.kind = "playlist" /\ r.msn >= 0 -> "ahead"
                 [] r.kind = "part" -> "lookup"
                 [] OTHER -> "get")
    /\ UNCHANGED <<wvars, answer>>

\* serve_part: the part is there.
LookupHit(c) ==
    LET found == get_part(storage, req[c].msn, req[c].psn)
    IN  /\ pc[c] = "lookup"
        /\ found # {}
        /\ Reply(c, 200, found)
        /\ UNCHANGED <<wvars, req, slices, held, hinted, stopped>>

LookupMiss(c) ==
    /\ pc[c] = "lookup"
    /\ get_part(storage, req[c].msn, req[c].psn) = {}
    /\ Goto(c, "ahead")
    /\ UNCHANGED <<wvars, req, slices, held, answer, hinted, stopped>>

\* serve_playlist and serve_part refuse what is too far in the future.
TooFarAhead(c) ==
    /\ pc[c] = "ahead"
    /\ req[c].msn > storage.latest_msn + SRS_HTTP_MSN_AHEAD_MAX
    /\ Reply(c, IF req[c].kind = "playlist" THEN 400 ELSE 404, {})
    /\ UNCHANGED <<wvars, req, slices, held, hinted, stopped>>

BeginHold(c) ==
    /\ pc[c] = "ahead"
    /\ req[c].msn <= storage.latest_msn + SRS_HTTP_MSN_AHEAD_MAX
    /\ Goto(c, "hold")
    /\ UNCHANGED <<wvars, req, slices, held, answer, hinted, stopped>>

\* hold(): one slice of wait_for() after which there is nothing to wait for.
HoldReached(c) ==
    /\ pc[c] = "hold"
    /\ slices[c] < HoldSlices
    /\ reached(storage, req[c].msn, req[c].psn)
    /\ held' = [held EXCEPT ![c] = "reached"]
    /\ Goto(c, "get")
    /\ UNCHANGED <<wvars, req, slices, answer, hinted, stopped>>

\* Mutant of HoldSlice: the time of the slices is not added up.
HoldSlice_NoCount(c) ==
    /\ pc[c] = "hold"
    /\ slices[c] < HoldSlices
    /\ ~reached(storage, req[c].msn, req[c].psn)
    /\ Goto(c, "active")
    /\ UNCHANGED <<wvars, req, slices, held, answer, hinted, stopped>>

\* A slice that is over without it.
HoldSlice(c) ==
    /\ pc[c] = "hold"
    /\ slices[c] < HoldSlices
    /\ ~reached(storage, req[c].msn, req[c].psn)
    /\ slices' = [slices EXCEPT ![c] = @ + 1]
    /\ Goto(c, "active")
    /\ UNCHANGED <<wvars, req, held, answer, hinted, stopped>>

\* active() between two slices: a stream that stopped ends the hold.
HoldActive(c) ==
    /\ pc[c] = "active"
    /\ held' = [held EXCEPT ![c] = IF storage.active THEN @ ELSE "stopped"]
    /\ Goto(c, IF storage.active THEN "hold" ELSE "get")
    /\ UNCHANGED <<wvars, req, slices, answer, hinted, stopped>>

HoldTimeout(c) ==
    /\ pc[c] = "hold"
    /\ slices[c] = HoldSlices
    /\ held' = [held EXCEPT ![c] = "timeout"]
    /\ Goto(c, "get")
    /\ UNCHANGED <<wvars, req, slices, answer, hinted, stopped>>

\* What the last call of the storage finds for a request.
Fetched(r) ==
    CASE r.kind = "playlist" -> get_playlist(storage)
      [] r.kind = "part"     -> get_part(storage, r.msn, r.psn)
      [] r.kind = "segment"  -> get_segment(storage, r.msn)
      [] r.kind = "init"     -> get_init(storage)

Get(c) ==
    /\ pc[c] = "get"
    /\ Reply(c, IF Fetched(req[c]) = {} THEN 404 ELSE 200, Fetched(req[c]))
    /\ UNCHANGED <<wvars, req, slices, held, hinted, stopped>>

\* The answer is written (or the client is gone) and the next request is awaited.
Done(c) ==
    /\ pc[c] = "answered"
    /\ req' = [req EXCEPT ![c] = NoRequest]
    /\ slices' = [slices EXCEPT ![c] = 0]
    /\ held' = [held EXCEPT ![c] = "no"]
    /\ answer' = [answer EXCEPT ![c] = NoAnswer]
    /\ hinted' = [hinted EXCEPT ![c] = FALSE]
    /\ stopped' = [stopped EXCEPT ![c] = FALSE]
    /\ Goto(c, "idle")
    /\ UNCHANGED wvars

\* pull() between two slices: the server stops the connection.
Interrupt(c) ==
    /\ pc[c] = "hold"
    /\ slices[c] < HoldSlices
    /\ Reply(c, 0, {})
    /\ UNCHANGED <<wvars, req, slices, held, hinted, stopped>>

Serve(c) ==
    \/ LookupHit(c) \/ LookupMiss(c)
    \/ TooFarAhead(c) \/ BeginHold(c)
    \/ HoldReached(c) \/ HoldSlice(c) \/ HoldActive(c) \/ HoldTimeout(c)
    \/ Get(c)

WriteStep ==
    /\ Write
    /\ stopped' = [c \in Clients |->
          stopped[c] \/ (req[c] # NoRequest /\ storage.active /\ ~storage'.active)]
    /\ UNCHANGED <<pc, req, slices, held, answer, hinted>>

Next ==
    \/ WriteStep
    \/ \E c \in Clients :
          (\E r \in Requests : Request(c, r)) \/ Serve(c) \/ Done(c) \/ Interrupt(c)

Spec == Init /\ [][Next]_vars

\* A thread that serves a request goes on: no call waits longer than a slice.
FairSpec == Spec /\ \A c \in Clients : WF_vars(Serve(c))

-----------------------------------------------------------------------------

\* Playlist q names part <<msn, psn>> or a later one.
Covers(q, msn, psn) ==
    \E p \in q.parts : p[1] > msn \/ (p[1] = msn /\ p[2] >= psn)

\* Blocking reload: a playlist that was held until the part was there names that
\* part or a later one, whatever happened between wait_for and get_playlist
\* (the promise of srs_app_llhls.hpp that a woken thread reads the new part).
FreshReload ==
    \A c \in Clients :
        answer[c].status = 200 /\ req[c].kind = "playlist" /\ held[c] = "reached"
          => \A q \in answer[c].body : Covers(q, req[c].msn, req[c].psn)

\* A client that asks for the hinted part gets it, unless the stream stopped, the
\* hold ran out, or the thread was so late that the part had already expired.
HintServed ==
    \A c \in Clients :
        hinted[c] /\ answer[c].status = 404
          => stopped[c] \/ held[c] = "timeout" \/ req[c].msn < FirstSeg(storage).msn

\* What is sent under a name is what was published under it: a thread never
\* answers with the part of a neighbour, however the window moved meanwhile.
RightPart ==
    \A c \in Clients :
        answer[c].status = 200 /\ req[c].kind = "part"
          => \A p \in answer[c].body :
                [msn |-> req[c].msn, psn |-> req[c].psn, id |-> p.id] \in published

\* Every request is answered, also by a stream that stalls or stops.
Answered ==
    \A c \in Clients : req[c] # NoRequest ~> pc[c] \in {"answered", "idle"}
=============================================================================
