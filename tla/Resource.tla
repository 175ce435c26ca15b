------------------------------ MODULE Resource ------------------------------
(* What the server promises about the objects of its connections: an object   *)
(* is made while the server accepts clients, is freed once and for all, and   *)
(* is never freed while a thread is inside it.                                *)
CONSTANT Conns

VARIABLES life,       \* "none", "live" or "freed", for each connection
          inside,     \* whether its own thread runs
          accepting

Init ==
    /\ life = [c \in Conns |-> "none"]
    /\ inside = [c \in Conns |-> FALSE]
    /\ accepting = TRUE

Make(c) ==
    /\ accepting /\ life[c] = "none"
    /\ life' = [life EXCEPT ![c] = "live"]
    /\ UNCHANGED <<inside, accepting>>

Enter(c) ==
    /\ accepting /\ life[c] = "live" /\ ~ inside[c]
    /\ inside' = [inside EXCEPT ![c] = TRUE]
    /\ UNCHANGED <<life, accepting>>

Leave(c) ==
    /\ life[c] = "live" /\ inside[c]
    /\ inside' = [inside EXCEPT ![c] = FALSE]
    /\ UNCHANGED <<life, accepting>>

Free(c) ==
    /\ life[c] = "live" /\ ~ inside[c]
    /\ life' = [life EXCEPT ![c] = "freed"]
    /\ UNCHANGED <<inside, accepting>>

Close == accepting /\ accepting' = FALSE /\ UNCHANGED <<life, inside>>

Next == Close \/ \E c \in Conns : Make(c) \/ Enter(c) \/ Leave(c) \/ Free(c)
Spec == Init /\ [][Next]_<<life, inside, accepting>>
=============================================================================
