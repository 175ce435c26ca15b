--------------------------- MODULE MessageChannel ---------------------------
(* What a chunk stream promises to the layer above it: messages come out as   *)
(* they went in, each once and in the order in which their last chunk was     *)
(* written.                                                                   *)
EXTENDS Integers, Sequences, SequencesExt

VARIABLES sent, got

Init == sent = <<>> /\ got = <<>>

(* One step of the writer may send several messages.                          *)
Send ==
    /\ IsStrictPrefix(sent, sent')
    /\ got' = got

Deliver ==
    /\ Len(got) < Len(sent)
    /\ got' = Append(got, sent[Len(got) + 1])
    /\ sent' = sent

Next == Send \/ Deliver
Spec == Init /\ [][Next]_<<sent, got>>
=============================================================================
