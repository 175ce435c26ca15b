----------------------------- MODULE RtmpValues -----------------------------
(* What the AMF0 codec, the packets and the server share: an AMF0 value of    *)
(* any type is                                                                *)
(*   [type, n (a number or a boolean), s (a string), props (of an object or   *)
(*   an ECMA array: a sequence of keys and values)],                          *)
(* and a packet its class, its command name, its transaction id and its other *)
(* fields, AMF0 values in the order they are written (of a control packet     *)
(* numbers).                                                                  *)
EXTENDS Integers, Sequences

Value(type, n, s, props) == [type |-> type, n |-> n, s |-> s, props |-> props]
Str(s)        == Value("string", 0, s, << >>)
Number(n)     == Value("number", n, "", << >>)
Boolean(b)    == Value("boolean", IF b THEN 1 ELSE 0, "", << >>)
Null          == Value("null", 0, "", << >>)
Undefined     == Value("undefined", 0, "", << >>)
Object(props) == Value("object", 0, "", props)
EcmaArray(props) == Value("ecma_array", 0, "", props)
ObjectEOF     == Value("object_eof", 0, "", << >>)

(* Lookup in an SrsUnSortedHashtable: at most one value.                      *)
get_property(props, key) == {props[i][2] : i \in {j \in DOMAIN props : props[j][1] = key}}

ensure_property_string(props, key) == {v \in get_property(props, key) : v.type = "string"}

Packet(class, name, tid, fields) ==
    [class |-> class, name |-> name, tid |-> tid, fields |-> fields]

NoPacket == Packet("none", "", 0, << >>)      \* a message that is dropped
=============================================================================
