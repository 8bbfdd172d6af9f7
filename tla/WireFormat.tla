----------------------------- MODULE WireFormat -----------------------------
(***************************************************************************)
(* The encoding every message of pkg/pb goes through: what the generated   *)
(* MarshalTo and Unmarshal methods do, read as an interpreter of one table  *)
(* per method (modules Errorpb, Metapb, Mraft, Pdpb, Querypb, Raftcmdpb).  *)
(*                                                                         *)
(* A message is a function from field names to the sequence of the items   *)
(* the field holds: a plain Go field always holds one, a pointer or a byte *)
(* slice none (nil) or one, a repeated field any number.  An item is a     *)
(* number or a message.  On the wire a message is a sequence of tokens, one *)
(* for each item that is written; varints, lengths and byte counts inside  *)
(* a token are left out.                                                   *)
(***************************************************************************)
EXTENDS Naturals, Sequences, SequencesExt

\* Wire types: varint, eight bytes, length-delimited.
V == 0
F == 1
B == 2

\* The field that keeps the tokens a decoder did not know.
XXX == "XXX_unrecognized"

(***************************************************************************)
(* Rows of a MarshalTo table: a field that is written always, when it is   *)
(* not nil, once for each element, or with an error when it is nil; a row *)
(* with a table writes messages.                                           *)
(***************************************************************************)
Row(how, name, num, wt, table) ==
  [how |-> how, name |-> name, num |-> num, wt |-> wt, table |-> table]

Put(name, num, wt)        == Row("always", name, num, wt, <<>>)
PutSome(name, num, wt)    == Row("some", name, num, wt, <<>>)
PutEach(name, num, wt)    == Row("each", name, num, wt, <<>>)
PutNeeded(name, num, wt)  == Row("needed", name, num, wt, <<>>)
PutMsg(name, num, t)      == Row("always", name, num, B, <<t>>)
PutSomeMsg(name, num, t)  == Row("some", name, num, B, <<t>>)
PutEachMsg(name, num, t)  == Row("each", name, num, B, <<t>>)

\* Rows of a Size table: the constant is the number of bytes of the key.
Sz(name, key, wt)         == Row("always", name, key, wt, <<>>)
SzSome(name, key, wt)     == Row("some", name, key, wt, <<>>)
SzEach(name, key, wt)     == Row("each", name, key, wt, <<>>)
SzNeeded(name, key, wt)   == Row("needed", name, key, wt, <<>>)
SzMsg(name, key, t)       == Row("always", name, key, B, <<t>>)
SzSomeMsg(name, key, t)   == Row("some", name, key, B, <<t>>)
SzEachMsg(name, key, t)   == Row("each", name, key, B, <<t>>)

(***************************************************************************)
(* Rows of an Unmarshal table: a case of the switch on the field number.   *)
(* Take and TakeSome overwrite the field (TakeSome through a pointer or a  *)
(* byte slice that starts as nil), TakeEach appends; the Msg forms decode  *)
(* into the message the field already holds, TakeSomeMsg allocating it     *)
(* first when it is nil, TakeEachMsg into a new element.                   *)
(***************************************************************************)
Take(name, num, wt)       == Row("always", name, num, wt, <<>>)
TakeSome(name, num, wt)   == Row("some", name, num, wt, <<>>)
TakeEach(name, num, wt)   == Row("each", name, num, wt, <<>>)
TakeNeeded(name, num, wt) == Row("needed", name, num, wt, <<>>)
TakeMsg(name, num, t)     == Row("always", name, num, B, <<t>>)
TakeSomeMsg(name, num, t) == Row("some", name, num, B, <<t>>)
TakeEachMsg(name, num, t) == Row("each", name, num, B, <<t>>)

Fields(t) == {t[i].name : i \in DOMAIN t}
RowOf(t, f) == t[CHOOSE i \in DOMAIN t : t[i].name = f]

-----------------------------------------------------------------------------
RECURSIVE Reset(_)

\* The zero message: what new(T) is, and what m.Reset() leaves.
Reset(t) ==
  [f \in Fields(t) \cup {XXX} |->
     IF f = XXX \/ RowOf(t, f).how # "always" THEN <<>>
     ELSE IF RowOf(t, f).table = <<>> THEN <<0>>
     ELSE <<Reset(RowOf(t, f).table[1])>>]

\* sov: the bytes of a varint.  A number stands for its value as a varint and
\* for its length as a byte slice.
Sov(x) == IF x < 128 THEN 1 ELSE 2
Payload(wt, x) == CASE wt = V -> Sov(x) [] wt = F -> 8 [] wt = B -> Sov(x) + x

Total(n, Of(_)) == LET sum[k \in 0..n] == IF k = 0 THEN 0 ELSE sum[k - 1] + Of(k) IN sum[n]
Bytes(tokens) == Total(Len(tokens), LAMBDA k : tokens[k].len)

RECURSIVE MarshalTo(_, _)

\* The tokens of the rows in order, then the unknown ones the message carries.
MarshalTo(t, m) ==
  LET Token(row, item, x) ==
        [num |-> row.num, wt |-> row.wt, item |-> item,
         len |-> Sov(row.num * 8) + Payload(row.wt, x)]
      Encode(row, item) ==
        IF row.table = <<>> THEN Token(row, item, item)
        ELSE LET body == MarshalTo(row.table[1], item) IN Token(row, body, Bytes(body))
      Written(row) == [k \in DOMAIN m[row.name] |-> Encode(row, m[row.name][k])]
  IN  FlattenSeq([i \in DOMAIN t |-> Written(t[i])]) \o m[XXX]

RECURSIVE Size(_, _)

\* The bytes that Size counts, and that the encoder announces and allocates.
Size(t, m) ==
  LET Item(row, item) ==
        row.num + Payload(row.wt, IF row.table = <<>> THEN item ELSE Size(row.table[1], item))
      OfRow(row) == Total(Len(m[row.name]), LAMBDA k : Item(row, m[row.name][k]))
  IN  Total(Len(t), LAMBDA i : OfRow(t[i])) + Bytes(m[XXX])

RECURSIVE WellTyped(_, _)

\* No "wrong wireType for field" and no required field missing.
WellTyped(t, tokens) ==
  /\ \A k \in DOMAIN tokens : \A i \in DOMAIN t :
       t[i].num = tokens[k].num =>
         /\ t[i].wt = tokens[k].wt
         /\ t[i].table # <<>> => WellTyped(t[i].table[1], tokens[k].item)
  /\ \A i \in DOMAIN t : t[i].how = "needed" => \E k \in DOMAIN tokens : tokens[k].num = t[i].num

RECURSIVE Unmarshal(_, _, _)

\* Decoding merges the tokens, in order, into whatever `m` already holds: the
\* last item of a scalar field wins, a message field takes all its tokens.
Unmarshal(t, m, tokens) ==
  [f \in Fields(t) \cup {XXX} |->
     IF f = XXX
     THEN m[XXX] \o SelectSeq(tokens, LAMBDA tok : \A i \in DOMAIN t : t[i].num # tok.num)
     ELSE LET row == RowOf(t, f)
              got == SelectSeq(tokens, LAMBDA tok : tok.num = row.num)
              items == [k \in DOMAIN got |-> got[k].item]
              Into(base, body) == Unmarshal(row.table[1], base, body)
              New(body) == IF row.table = <<>> THEN body ELSE Into(Reset(row.table[1]), body)
          IN  IF got = <<>> THEN m[f]
              ELSE IF row.how = "each" THEN m[f] \o [k \in DOMAIN items |-> New(items[k])]
              ELSE IF row.table = <<>> THEN <<Last(items)>>
              ELSE IF m[f] = <<>> THEN <<New(FlattenSeq(items))>>
              ELSE <<Into(m[f][1], FlattenSeq(items))>>]

-----------------------------------------------------------------------------
(***************************************************************************)
(* Messages to send: the least one, one with every field set, one with     *)
(* each field alone, and one whose optional fields are present but zero    *)
(* (the empty byte slice, which is not nil).                               *)
(***************************************************************************)
RECURSIVE Least(_)
Least(t) ==
  [f \in Fields(t) \cup {XXX} |->
     IF f = XXX \/ RowOf(t, f).how \in {"some", "each"} THEN <<>>
     ELSE IF RowOf(t, f).table = <<>> THEN <<0>>
     ELSE <<Least(RowOf(t, f).table[1])>>]

RECURSIVE Full(_)
Full(t) ==
  [f \in Fields(t) \cup {XXX} |->
     IF f = XXX THEN <<>>
     ELSE LET row == RowOf(t, f)
              One(k) == IF row.table = <<>> THEN k
                        ELSE IF k = 1 THEN Full(row.table[1]) ELSE Least(row.table[1])
          IN  IF row.how = "each" THEN <<One(1), One(2)>> ELSE <<One(1)>>]

Present(t) ==
  [f \in Fields(t) \cup {XXX} |->
     IF f # XXX /\ RowOf(t, f).how = "some" /\ RowOf(t, f).table = <<>> THEN <<0>>
     ELSE Least(t)[f]]

Samples(t) ==
  {Least(t), Full(t), Present(t)}
    \cup {[Least(t) EXCEPT ![f] = Full(t)[f]] : f \in Fields(t)}
=============================================================================
