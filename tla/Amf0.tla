-------------------------------- MODULE Amf0 --------------------------------
(* AMF0 on a buffer.  A buffer is a sequence of fields, each with the bytes   *)
(* it takes: what a reader does depends on the kinds and lengths of the       *)
(* fields in front of it.                                                     *)
EXTENDS RtmpValues, SequencesExt

CONSTANT Int16Max        \* 32767, the largest length a reader accepts

ASSUME Amf0Assumption == Int16Max \in Nat

Field(kind, n, s, bytes) == [kind |-> kind, n |-> n, s |-> s, bytes |-> bytes]
Marker(type) == Field("marker", 0, type, 1)
Int8(n)  == Field("int8", n, "", 1)
Int16(n) == Field("int16", n, "", 2)
Int32(n) == Field("int32", n, "", 4)
Double(n) == Field("double", n, "", 8)
Bytes(s) == Field("bytes", 0, s, Len(s))

BytesOf(fields) == FoldSeq(LAMBDA f, sum : f.bytes + sum, 0, fields)

-----------------------------------------------------------------------------
(* SrsUnSortedHashtable: a property that is set again moves to the end.       *)

set(props, key, value) == Append(SelectSeq(props, LAMBDA p : p[1] # key), <<key, value>>)

copy(props, into) == FoldLeft(LAMBDA acc, p : set(acc, p[1], p[2]), into, props)

-----------------------------------------------------------------------------
(* Writing, and the sizes the writer reserves (SrsAmf0Size, total_size).      *)

(* The length is cut to 16 bits with a sign.                                  *)
Cut16(n) == ((n + Int16Max + 1) % (2 * (Int16Max + 1))) - (Int16Max + 1)

write_utf8(s) == IF s = "" THEN <<Int16(0)>> ELSE <<Int16(Cut16(Len(s))), Bytes(s)>>

RECURSIVE write_any(_)

WriteProperties(props) ==
    FlattenSeq([i \in DOMAIN props |-> write_utf8(props[i][1]) \o write_any(props[i][2])])
        \o <<Int16(0), Marker("object_eof")>>

(* write of each type; an array is written with the count it was read with,   *)
(* 0 for one that was made here.                                              *)
write_any(v) ==
    CASE v.type = "string"     -> <<Marker("string")>> \o write_utf8(v.s)
      [] v.type = "number"     -> <<Marker("number"), Double(v.n)>>
      [] v.type = "boolean"    -> <<Marker("boolean"), Int8(v.n)>>
      [] v.type = "object"     -> <<Marker("object")>> \o WriteProperties(v.props)
      [] v.type = "ecma_array" -> <<Marker("ecma_array"), Int32(v.n)>> \o WriteProperties(v.props)
      [] v.type = "object_eof" -> <<Int16(0), Marker("object_eof")>>
      [] OTHER                 -> <<Marker(v.type)>>

utf8_size(s) == 2 + Len(s)

RECURSIVE total_size(_)

PropertiesSize(props) ==
    FoldSeq(LAMBDA p, sum : utf8_size(p[1]) + total_size(p[2]) + sum, 0, props) + 3

total_size(v) ==
    CASE v.type = "string"     -> 1 + utf8_size(v.s)
      [] v.type = "number"     -> 1 + 8
      [] v.type = "boolean"    -> 1 + 1
      [] v.type = "object"     -> 1 + PropertiesSize(v.props)
      [] v.type = "ecma_array" -> 1 + 4 + PropertiesSize(v.props)
      [] v.type = "object_eof" -> 2 + 1
      [] OTHER                 -> 1

-----------------------------------------------------------------------------
(* Reading: whether it succeeded, the value, and what is left of the buffer.  *)

Got(v, rest) == [ok |-> TRUE, v |-> v, rest |-> rest]
Bad(rest) == [ok |-> FALSE, v |-> Null, rest |-> rest]

Starts(b, kinds) == Len(b) >= Len(kinds) /\ \A i \in DOMAIN kinds : b[i].kind = kinds[i]

(* With an empty or negative length nothing is skipped, and the string of the *)
(* caller is left as it was: it reads "" here, and KeptIfEmpty says what a     *)
(* caller has whose string was not empty before.                              *)
read_utf8(b) ==
    CASE ~ Starts(b, <<"int16">>) -> Bad(b)
      [] Starts(b, <<"int16">>) /\ b[1].n <= 0 -> Got(Str(""), Tail(b))
      [] Starts(b, <<"int16", "bytes">>) /\ b[1].n = b[2].bytes -> Got(Str(b[2].s), SubSeq(b, 3, Len(b)))
      [] OTHER -> Bad(b)

KeptIfEmpty(v, before) == IF v.s = "" THEN before ELSE v

is_object_eof(b) == Starts(b, <<"int16", "marker">>) /\ b[1].n = 0 /\ b[2].s = "object_eof"

Scalars == {"string", "number", "boolean", "null", "undefined"}

(* read_string, read_number, read_boolean, read_null, read_undefined.         *)
read_scalar(b, type) ==
    LET rest == Tail(b)
    IN  CASE ~ Starts(b, <<"marker">>) \/ b[1].s # type -> Bad(b)
          [] Starts(b, <<"marker">>) /\ b[1].s = type /\ type = "string" -> read_utf8(rest)
          [] Starts(b, <<"marker", "double">>) /\ b[1].s = type /\ type = "number" ->
                Got(Number(b[2].n), Tail(rest))
          [] Starts(b, <<"marker", "int8">>) /\ b[1].s = type /\ type = "boolean" ->
                Got(Boolean(b[2].n # 0), Tail(rest))
          [] Starts(b, <<"marker">>) /\ b[1].s = type /\ type \in {"null", "undefined"} ->
                Got(Value(type, 0, "", << >>), rest)
          [] OTHER -> Bad(b)

RECURSIVE read_any(_)

(* The properties up to the end mark; the end of the buffer ends them too.    *)
RECURSIVE ReadProperties(_, _)
ReadProperties(b, acc) ==
    LET key   == read_utf8(b)
        value == read_any(key.rest)
    IN  CASE b = << >> -> Got(Object(acc), b)
          [] b # << >> /\ is_object_eof(b) -> Got(Object(acc), SubSeq(b, 3, Len(b)))
          [] b # << >> /\ ~ is_object_eof(b) /\ (~ key.ok \/ ~ value.ok) -> Bad(b)
          [] OTHER -> ReadProperties(value.rest, set(acc, key.v.s, value.v))

read_object(b) ==
    IF Starts(b, <<"marker">>) /\ b[1].s = "object" THEN ReadProperties(Tail(b), << >>) ELSE Bad(b)

read_ecma_array(b) ==
    LET r == ReadProperties(SubSeq(b, 3, Len(b)), << >>)
    IN  IF Starts(b, <<"marker", "int32">>) /\ b[1].s = "ecma_array"
        THEN [r EXCEPT !.v = Value("ecma_array", b[2].n, "", r.v.props)]
        ELSE Bad(b)

(* srs_amf0_read_any: SrsAmf0Any::discovery, and read of the type it found.   *)
read_any(b) ==
    CASE is_object_eof(b) -> Got(ObjectEOF, SubSeq(b, 3, Len(b)))
      [] ~ is_object_eof(b) /\ ~ Starts(b, <<"marker">>) -> Bad(b)
      [] Starts(b, <<"marker">>) /\ b[1].s \in Scalars -> read_scalar(b, b[1].s)
      [] Starts(b, <<"marker">>) /\ b[1].s = "object" -> read_object(b)
      [] Starts(b, <<"marker">>) /\ b[1].s = "ecma_array" -> read_ecma_array(b)
      [] OTHER -> Bad(b)
=============================================================================
