------------------------------- MODULE Attrs -------------------------------
(***************************************************************************)
(* The attribute lists of GETATTR, READDIR, VERIFY, SETATTR, OPEN and      *)
(* CREATE (attrs.go, bitmap4.go), and the change attribute with the clock  *)
(* that drives it (clock/clock.go).                                        *)
(*                                                                         *)
(* A list is a bitmap and the values of its attributes, one after the      *)
(* other and without lengths, so both sides must agree on the width of     *)
(* each.  A value is abstracted to the words it takes on the wire: word j  *)
(* of attribute a is <<a, j>>.                                             *)
(***************************************************************************)
EXTENDS Integers, Sequences, FiniteSets

LOCAL INSTANCE SequencesExt

(* The attributes that the server knows, with the types that the constants *)
(* are declared with, except the four of POSIX ACLs, which it does not     *)
(* offer.  48 is the time of access to set, which only clients know.       *)
Typed ==
  [bitmap |-> {0, 75},
   word   |-> {1, 2, 5, 6, 7, 9, 10, 11, 13, 16, 17, 18, 29, 33, 34, 35, 82},
   uint64 |-> {3, 4, 20, 30, 31, 45, 55},
   fsid   |-> {8},
   acl    |-> {12},
   opaque |-> {19, 36, 37},
   pair   |-> {41},
   time   |-> {47, 52, 53},
   settime |-> {48, 54}]

A_size == 4
A_mode == 33
A_owner == 36
A_owner_group == 37
A_time_modify_set == 54

Known == UNION {Typed[t] : t \in DOMAIN Typed}

AttrsSupported == Known \ {48, 54}

(* Words of a value of each type: of the opaque ones, a length and a       *)
(* handle of up to eight bytes or a number of up to eight digits; of an    *)
(* acl, a length and three entries; of a time to set, the client's time.   *)
Width(a) ==
  CASE a \in Typed.word -> 1
    [] a \in Typed.uint64 \cup Typed.pair -> 2
    [] a \in Typed.time \cup Typed.opaque -> 3
    [] a \in Typed.fsid \cup Typed.bitmap \cup Typed.settime -> 4
    [] a \in Typed.acl -> 20

Value(a) == [j \in 1..Width(a) |-> <<a, j>>]

Ascending(S) ==
  [j \in 1..Cardinality(S) |-> CHOOSE a \in S : Cardinality({b \in S : b < a}) = j - 1]

Concat(S, Val(_)) == FlattenSeq([j \in 1..Cardinality(S) |-> Val(Ascending(S)[j])])

----------------------------------------------------------------------------
(* Bitmaps, as sequences of sets of bit numbers 0..Bits-1 *)

Bits == 32

\* How many words hold the bits up to the highest key of the map.
MaxKey(keys) == IF keys = {} THEN 0 ELSE CHOOSE k \in keys : \A m \in keys : m <= k

BitmapSize(keys) ==
  MaxKey(keys) \div Bits + (IF MaxKey(keys) % Bits > 0 THEN 1 ELSE 0)

(* A map with these keys, of which those in on are true.  A bit past the   *)
(* last word is an index out of range.                                     *)
bitmap4Encode(keys, on) ==
  [i \in 1..BitmapSize(keys) |-> {k % Bits : k \in {m \in on : m \div Bits = i - 1}}]

EncodePanics(keys, on) == \E k \in on : k \div Bits >= BitmapSize(keys)

DecodedKeys(nums) == 0..(Bits * Len(nums) - 1)

bitmap4Decode(nums) == {k \in DecodedKeys(nums) : k % Bits \in nums[k \div Bits + 1]}

----------------------------------------------------------------------------
(* fileInfoToAttrs *)

(* The words that each case of the switch writes.  The bitmaps are those   *)
(* of the supported attributes, with their length.                         *)
Written(a) ==
  CASE a \in {0, 75} -> 1 + BitmapSize(AttrsSupported)
    [] a \in {1, 2, 5, 6, 7, 9, 10, 11, 13, 16, 17, 18, 29, 33, 34, 35, 82} -> 1
    [] a \in {3, 4, 20, 30, 31, 41, 45, 55} -> 2
    [] a \in {19, 36, 37, 47, 52, 53} -> 3
    [] a = 8 -> 4
    [] a = 12 -> 1 + (3 + 1 + 2) + (3 + 1 + 2) + (3 + 1 + 3)

WrittenValue(a) == [j \in 1..Written(a) |-> <<a, j>>]

\* The reply to a request with this bitmap.
fileInfoToAttrs(request) ==
  LET returned == bitmap4Decode(request) \cap AttrsSupported IN
  [mask |-> bitmap4Encode(DecodedKeys(request), returned),
   vals |-> Concat(returned, WrittenValue)]

----------------------------------------------------------------------------
(* decodeFAttrs4 *)

(* The words that each case of the switch reads; an attribute without a    *)
(* case reads none.  A value whose length comes first is read as far as    *)
(* that length says, which is its own if the length is its own.  A time to *)
(* set is read as how, and then as a pointer to a time: the first word of  *)
(* the seconds, which is 0, is taken for a flag that there is none.        *)
Reads(a) ==
  CASE a \in {1, 2, 5, 6, 7, 9, 10, 11, 13, 33, 35, 82} -> 1
    [] a \in {3, 4, 20, 41, 45, 55, A_time_modify_set} -> 2
    [] a \in {47, 52, 53} -> 3
    [] a = 8 -> 4
    [] a \in {0, 12, 19, 36, 37, 75} -> Width(a)
    [] OTHER -> 0

Reader(s, a) ==
  LET n == Reads(a) IN
  IF s.failed \/ n > Len(s.rest) THEN [s EXCEPT !.failed = TRUE]
  ELSE [s EXCEPT !.rest = SubSeq(@, n + 1, Len(@)),
                 !.got = @ \cup {<<a, SubSeq(s.rest, 1, n)>>}]

decodeFAttrs4(attr) ==
  FoldLeft(Reader, [rest |-> attr.vals, got |-> {}, failed |-> FALSE],
           Ascending(bitmap4Decode(attr.mask)))

----------------------------------------------------------------------------
(* The change attribute.  Time is in half seconds, so that two instants    *)
(* may fall in one second.                                                 *)

Second == 2

MustIncrement(now, prev) == IF now < prev THEN now + Second ELSE now

Unix(t) == t \div Second

\* Seconds times 2^32 - 1, plus the user and the session.
ChangeId(mtime, uid, session, max) == Unix(mtime) * max + uid + session

----------------------------------------------------------------------------
(* Facts about the codes, which TLC evaluates *)

Word(S) == bitmap4Encode(0..95, S)

\* Bitmaps of three words with up to two attributes, supported or not.
SmallRequests == {Word({a, b}) : a, b \in AttrsSupported \cup {32, 95}}

\* What a client sends: the values of S as their types have them.
Sent(S) == [mask |-> Word(S), vals |-> Concat(S, Value)]

(* A client that reads a reply with the declared types finds the supported *)
(* attributes that it asked for, in ascending order, and nothing else; the *)
(* mask says which, in as many words as the request had.                   *)
ASSUME ReplyIsReadable ==
  \A r \in SmallRequests :
    LET reply == fileInfoToAttrs(r)
        returned == bitmap4Decode(r) \cap AttrsSupported IN
    /\ bitmap4Decode(reply.mask) = returned
    /\ Len(reply.mask) = Len(r)
    /\ ~EncodePanics(DecodedKeys(r), returned)
    /\ reply.vals = Concat(returned, Value)

(* The size, mode, owner and group of a SETATTR are decoded as they were   *)
(* sent, whatever other settable attributes come with them: the times,     *)
(* which are misread, come after them, and do not make the decoder fail.   *)
ASSUME SetAttrIsDecoded ==
  \A S \in SUBSET {A_size, 12, A_mode, A_owner, A_owner_group, 48, A_time_modify_set} :
    LET d == decodeFAttrs4(Sent(S)) IN
    /\ ~d.failed
    /\ \A a \in S \ {48, A_time_modify_set} : <<a, Value(a)>> \in d.got

(* The server cannot decode every reply of its own: what follows one of    *)
(* the attributes without a case is read from the wrong words, and nothing *)
(* else is.                                                                *)
ASSUME MisreadAfterSkipped ==
  \A a, b \in AttrsSupported :
    LET d == decodeFAttrs4(Sent({a, b})) IN
    a < b /\ Reads(b) > 0 =>
      (<<b, Value(b)>> \in d.got <=> Reads(a) > 0)

(* The change attribute stays the same over a change exactly when the      *)
(* clock is in the second of the previous change, or in the one before and *)
(* behind it.                                                              *)
ASSUME ChangeIdRepeats ==
  \A now, prev \in 0..9 :
    ChangeId(MustIncrement(now, prev), 1, 1, 7) = ChangeId(prev, 1, 1, 7) <=>
      IF now < prev THEN Unix(now) + 1 = Unix(prev) ELSE Unix(now) = Unix(prev)

============================================================================
