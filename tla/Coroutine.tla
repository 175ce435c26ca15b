----------------------------- MODULE Coroutine -----------------------------
(* SrsSTCoroutine: a joinable thread with a flag that asks it to end.  Every  *)
(* operation works under the coroutine's own mutex; only pthread_create in    *)
(* start is seen by others while the mutex is held.                           *)

CONSTANT NoError

(* run is the pthread: not created, inside pfn, or ended.                     *)
SrsSTCoroutine ==
    [started |-> FALSE, interrupted |-> FALSE, disposed |-> FALSE, cycle_done |-> FALSE,
     err |-> NoError, locked |-> FALSE, run |-> "none"]

(* Stands in for a coroutine until the real one is made.                      *)
SrsDummyCoroutine == [SrsSTCoroutine EXCEPT !.err = "dummy"]

pull(t) == t.err

FirstError(t, e) == IF t.err = NoError THEN e ELSE t.err

\* Mutant of pthread_create: the mutex is released before started is set.
pthread_create_Unlocked(t) == [t EXCEPT !.run = "in"]

(* start: the thread runs from here on, the mutex is still held.              *)
pthread_create(t) == [t EXCEPT !.run = "in", !.locked = TRUE]
start(t) == [t EXCEPT !.started = TRUE, !.locked = FALSE]
start_failed(t) == [t EXCEPT !.err = "create"]

\* Mutant of interrupt: the thread is not told.
interrupt_Silent(t) ==
    IF ~ t.started \/ t.interrupted \/ t.cycle_done THEN t ELSE [t EXCEPT !.interrupted = TRUE]

interrupt(t) ==
    IF ~ t.started \/ t.interrupted \/ t.cycle_done THEN t
    ELSE [t EXCEPT !.interrupted = TRUE, !.err = FirstError(t, "interrupted")]

(* stop: its first half asks the thread to end, then it joins, then it leaves *)
(* an error behind if the thread did not end by itself.                       *)
dispose(t) == IF t.disposed THEN t ELSE interrupt([t EXCEPT !.disposed = TRUE])
joined(t) == t.started => t.run = "out"
terminated(t) == IF t.cycle_done THEN t ELSE [t EXCEPT !.err = FirstError(t, "terminated")]

(* cycle and pfn in the thread itself, once the handler's cycle has returned. *)
cycle(t, err) == IF err = NoError THEN [t EXCEPT !.cycle_done = TRUE] ELSE t
pfn(t, err) == [t EXCEPT !.err = FirstError(t, err), !.run = "out"]
=============================================================================
