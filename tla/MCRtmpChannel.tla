--------------------------- MODULE MCRtmpChannel ---------------------------
EXTENDS RtmpChannel

Media(c, val, n, fmts, deltas) ==
    [cids |-> {c}, type |-> "av", val |-> val, len |-> n, fmts |-> fmts, deltas |-> deltas]
Ctl(type, val) == [cids |-> {2}, type |-> type, val |-> val, len |-> 1, fmts |-> {0}, deltas |-> {0}]
MCKinds == {Media(3, 1, 3, 0..3, {3, 6}), Media(4, 6, 3, {1}, {6}), Media(3, 1, 0, {1}, {3}),
            Ctl("chunk", 3), Ctl("chunk", 1), Ctl("winack", 48), Ctl("ping", 7)}
(* Four bytes read as the number in the first of them: payload of 6 as the    *)
(* timestamp 6, which is sent, and payload of 1 as none that is.              *)
MCFourBytes(rest) == rest[1].val
MCSrvKinds == {[cid |-> 3, type |-> "av", val |-> 5, len |-> 3, ts |-> 6],
               [cid |-> 2, type |-> "chunk", val |-> 4, len |-> 1, ts |-> 0]}
=============================================================================
