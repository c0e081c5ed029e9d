-------------------------------- MODULE Xdr --------------------------------
(***************************************************************************)
(* The XDR coding of messages (xdr/encoder.go, xdr/decoder.go, xdr/pad.go) *)
(* over the types that the messages of msg/ are made of.                   *)
(*                                                                         *)
(* A type is a record with its kind k: the length n of a byte array, the   *)
(* element e of a slice or pointer, the fields f of a struct or union.  A  *)
(* uint64 is a pair of words, a pointer a sequence of at most one value, a *)
(* union its mode and the value of the field that the mode selects.        *)
(***************************************************************************)
EXTENDS Integers, Sequences

Pad(size) == IF size % 4 # 0 THEN 4 - (size % 4) ELSE 0

Zeros(n) == [j \in 1..n |-> 0]

----------------------------------------------------------------------------
(* Encoder *)

Uint32(v) ==
  <<v \div 16777216, (v \div 65536) % 256, (v \div 256) % 256, v % 256>>

Uint64(v) == Uint32(v[1]) \o Uint32(v[2])

Bool(v) == Uint32(IF v THEN 1 ELSE 0)

ByteArray(v) == v \o Zeros(Pad(Len(v)))

\* String and Bytes: a length, the bytes, and zeros up to a whole word.
Bytes(v) == Uint32(Len(v)) \o ByteArray(v)

RECURSIVE Encode(_, _)
RECURSIVE EncodeAll(_, _)

EncodeAll(types, v) ==
  IF v = <<>> THEN <<>>
  ELSE Encode(Head(types), Head(v)) \o EncodeAll(Tail(types), Tail(v))

EncodeUnion(t, v) == Uint32(v[1]) \o Encode(t.f[v[1] + 1], v[2])

Encode(t, v) ==
  CASE t.k = "bool" -> Bool(v)
    [] t.k = "uint32" -> Uint32(v)
    [] t.k = "uint64" -> Uint64(v)
    [] t.k = "bytes" -> Bytes(v)
    [] t.k = "array" -> ByteArray(v)
    [] t.k = "slice" -> Uint32(Len(v)) \o EncodeAll([j \in 1..Len(v) |-> t.e], v)
    [] t.k = "ptr" -> IF v = <<>> THEN Bool(FALSE)
                      ELSE Bool(TRUE) \o Encode(t.e, v[1])
    [] t.k = "struct" -> EncodeAll(t.f, v)
    [] t.k = "union" -> EncodeUnion(t, v)

(* Messages are passed by pointer.  A pointer to a message has the coding  *)
(* methods of the message and is coded as what it points to; anywhere else *)
(* a pointer is a flag and perhaps a value.                                *)
EncodeMessage(t, v) == IF t.k = "ptr" THEN Encode(t.e, v[1]) ELSE Encode(t, v)

----------------------------------------------------------------------------
(* Decoder: what was read, and the bytes that are left *)

(* Nothing was read.  "refused" is an error of the decoder.  "short": it    *)
(* asks its reader for bytes after the last one.  A bufio.Reader, for the   *)
(* header of a call, and a bytes.Buffer, for credentials and attributes,    *)
(* answer with an error.  A bufpool.Buf, for everything else of a compound, *)
(* answers with no bytes and no error: io.ReadFull asks for ever and the    *)
(* decoder does not return.                                                 *)
Failed(why) == [ok |-> FALSE, v |-> why, rest |-> <<>>]

Read(v, rest) == [ok |-> TRUE, v |-> v, rest |-> rest]

Skip(s, n) == SubSeq(s, n + 1, Len(s))

ReadUint32(s) ==
  IF Len(s) < 4 THEN Failed("short")
  ELSE Read(s[1] * 16777216 + s[2] * 65536 + s[3] * 256 + s[4], Skip(s, 4))

\* Both read the padding together with the bytes.
ReadByteArray(s, n) ==
  IF Len(s) < n + Pad(n) THEN Failed("short")
  ELSE Read(SubSeq(s, 1, n), Skip(s, n + Pad(n)))

ReadBytes(s) ==
  LET size == ReadUint32(s) IN
  IF ~size.ok THEN size ELSE ReadByteArray(size.rest, size.v)

\* Goes on with op if d was read.
Then(d, Op(_, _)) == IF d.ok THEN Op(d.v, d.rest) ELSE d

RECURSIVE Decode(_, _)
RECURSIVE DecodeAll(_, _)

DecodeAll(types, s) ==
  IF types = <<>> THEN Read(<<>>, s)
  ELSE Then(Decode(Head(types), s),
         LAMBDA v, r : Then(DecodeAll(Tail(types), r),
           LAMBDA w, q : Read(<<v>> \o w, q)))

\* A union whose mode selects no field is an error.
DecodeUnion(t, mode, s) ==
  IF mode + 1 > Len(t.f) THEN Failed("refused")
  ELSE Then(Decode(t.f[mode + 1], s), LAMBDA v, r : Read(<<mode, v>>, r))

DecodeSlice(t, n, s) == DecodeAll([j \in 1..n |-> t.e], s)

Decode(t, s) ==
  CASE t.k = "bool" -> Then(ReadUint32(s), LAMBDA v, r : Read(v # 0, r))
    [] t.k = "uint32" -> ReadUint32(s)
    [] t.k = "uint64" -> DecodeAll(<<[k |-> "uint32"], [k |-> "uint32"]>>, s)
    [] t.k = "bytes" -> ReadBytes(s)
    [] t.k = "array" -> ReadByteArray(s, t.n)
    [] t.k = "slice" -> Then(ReadUint32(s), LAMBDA n, r : DecodeSlice(t, n, r))
    [] t.k = "ptr" -> Then(ReadUint32(s),
                        LAMBDA v, r : IF v = 0 THEN Read(<<>>, r)
                                      ELSE Then(Decode(t.e, r),
                                             LAMBDA w, q : Read(<<w>>, q)))
    [] t.k = "struct" -> DecodeAll(t.f, s)
    [] t.k = "union" -> Then(ReadUint32(s), LAMBDA m, r : DecodeUnion(t, m, r))

\* The target is a pointer as well.
DecodeMessage(t, s) ==
  IF t.k = "ptr" THEN Then(Decode(t.e, s), LAMBDA v, r : Read(<<v>>, r))
  ELSE Failed("refused")

----------------------------------------------------------------------------
(* Facts about the coding, which TLC evaluates *)

TBool == [k |-> "bool"]
TUint32 == [k |-> "uint32"]
TUint64 == [k |-> "uint64"]
TBytes == [k |-> "bytes"]
TSession == [k |-> "array", n |-> 5]
TSlice(e) == [k |-> "slice", e |-> e]
TPtr(e) == [k |-> "ptr", e |-> e]
TStruct(f) == [k |-> "struct", f |-> f]
TUnion(f) == [k |-> "union", f |-> f]

(* Values of a type: lengths on both sides of a word, no more than two     *)
(* elements, pointers that are nil and that are not.                       *)
RECURSIVE Sample(_)
RECURSIVE SampleAll(_)

SampleAll(types) ==
  IF types = <<>> THEN {<<>>}
  ELSE {<<v>> \o w : v \in Sample(Head(types)), w \in SampleAll(Tail(types))}

Sample(t) ==
  CASE t.k = "bool" -> BOOLEAN
    [] t.k = "uint32" -> {0, 258}
    [] t.k = "uint64" -> {<<0, 1>>, <<7, 0>>}
    [] t.k = "bytes" -> {<<>>, <<0, 9>>, <<1, 2, 3, 4>>}
    [] t.k = "array" -> {[j \in 1..t.n |-> j]}
    [] t.k = "slice" -> UNION {SampleAll([j \in 1..n |-> t.e]) : n \in 0..2}
    [] t.k = "ptr" -> {<<>>} \cup {<<v>> : v \in Sample(t.e)}
    [] t.k = "struct" -> SampleAll(t.f)
    [] t.k = "union" -> UNION {{<<m, v>> : v \in Sample(t.f[m + 1])} : m \in 0..(Len(t.f) - 1)}

(* The shapes of the messages: a call with its credentials, a list linked  *)
(* by pointers as the entries of READDIR are, arrays of operations, a      *)
(* status with a result, a session id.                                     *)
Shapes ==
  {TStruct(<<TUint32, TBytes, TSlice(TUint32)>>),
   TPtr(TStruct(<<TUint64, TBytes, TPtr(TStruct(<<TUint64, TBytes, TPtr(TBool)>>))>>)),
   TSlice(TStruct(<<TUint32, TBytes>>)),
   TUnion(<<TStruct(<<TBool, TBytes>>), TUint64, TStruct(<<>>)>>),
   TStruct(<<TSession, TUint32, TBool>>),
   TSlice(TBytes)}

(* What was encoded is decoded to the same value, from just as many bytes, *)
(* a multiple of four: what follows in the stream is left alone.           *)
ASSUME RoundTrip ==
  \A t \in Shapes : \A v \in Sample(t) :
    /\ Len(Encode(t, v)) % 4 = 0
    /\ Decode(t, Encode(t, v) \o <<1, 1, 1, 1>>) = Read(v, <<1, 1, 1, 1>>)
    /\ DecodeMessage(TPtr(t), EncodeMessage(TPtr(t), <<v>>)) = Read(<<v>>, <<>>)

(* A message that was cut short is never taken for a message: wherever it   *)
(* was cut, the decoder asks for bytes after its end.  What becomes of that *)
(* is up to the reader: Hangs of Conn and of Compound, ReceiveFails of Conn.*)
ASSUME TruncationIsShort ==
  \A t \in Shapes : \A v \in Sample(t) :
    \A n \in 0..(Len(Encode(t, v)) - 1) :
      Decode(t, SubSeq(Encode(t, v), 1, n)) = Failed("short")

============================================================================
