--------------------------- MODULE MCRtmpSession ---------------------------
(* One peer of any kind, and when it publishes another one that publishes the *)
(* same stream.                                                               *)
EXTENDS RtmpSession, RtmpPeers

CONSTANTS c1, c2

Publishers == {"republisher", "flash"}
MCScripts ==
    {(c1 :> s) @@ (c2 :> "silent") : s \in DOMAIN PeerScript \ {"silent"}}
        \cup {(c1 :> s) @@ (c2 :> "flash") : s \in Publishers}
MCScript == PeerScript
MCConforming == ConformingPeers
MCNoise == Harmless
MCdecode_message == Decoding
MCPolitenessOf == (c1 :> BOOLEAN) @@ (c2 :> {TRUE})

-----------------------------------------------------------------------------
(* Classes the stack only writes.                                             *)
WriteOnly == {"none", "OnStatusCall", "SampleAccess", "SetPeerBandwidth"}

Faithful(m, requests) ==
    /\ m.packet.class # "none" /\ m = to_msg(m.packet)
          => BytesOf(m.payload) = get_size(m.packet)
    /\ m.packet.class \notin WriteOnly =>
          do_decode_message(m, requests) = [ok |-> TRUE, packet |-> m.packet]

ShortNames(m) == \A i \in DOMAIN m.payload : m.payload[i].bytes <= Int16Max

(* What is sent is what is read, in both directions: every packet under way   *)
(* fills exactly the bytes it reserved and is decoded to itself, whichever    *)
(* optional fields it has, nested objects and answers that are told apart by  *)
(* the request they belong to included (strings of at most 32767 bytes).  A   *)
(* field that is missing, or empty where that means the same, has its default.*)
DecodedAsSent ==
    \A c \in Conns :
        /\ \A i \in DOMAIN inq[c] : ShortNames(inq[c][i]) => Faithful(inq[c][i], {})
        /\ \A i \in DOMAIN outq[c] : outq[c][i] # S0S1S2 => Faithful(to_msg(outq[c][i]), asked[c])
=============================================================================
