-------------------------------- MODULE Wire --------------------------------
(***************************************************************************)
(* The Go node's encoding of primitives (Blockchain/blockchain.go): one    *)
(* side appends values to a stream and the other reads them back in the    *)
(* same order from the bytes that have arrived, which may end anywhere,    *)
(* because the stream does or because the writer failed.                   *)
(* Byte values and limits are constants; a byte carries one bit less than  *)
(* it has in a variable-length integer.                                    *)
(***************************************************************************)
EXTENDS Integers, Sequences, SequencesExt

CONSTANTS
  Half,             \* 128: bytes from here on have more to follow
  MaxInt32, MaxInt64, MaxUint64,
  BufLen,           \* 9, the length of the pooled buffers
  Values,           \* what is written: records of kind and value
  MaxSent           \* bound

ASSUME WireAssumption ==
  /\ Half \in Nat \ {0, 1} /\ BufLen \in Nat
  /\ MaxInt32 \in Nat /\ MaxInt64 \in MaxInt32..MaxUint64

VARIABLES
  buf,   \* bytes written and not read
  sent,  \* values written and not read
  got,   \* the last read: its kind, error and value
  state  \* whole, or cut: bytes are missing

wireVars == <<buf, sent, got, state>>
-----------------------------------------------------------------------------
(* encoding/binary.                                                        *)
Groups(n) == CHOOSE k \in 1..n + 1 :
  Half^k > n /\ \A j \in 1..k - 1 : Half^j <= n

PutUvarint(n) == [i \in 1..Groups(n) |->
  ((n \div Half^(i - 1)) % Half) + IF i < Groups(n) THEN Half ELSE 0]

Got(err, value, rest) == [err |-> err, value |-> value, rest |-> rest]

ReadUvarint(b) ==
  LET ends == {i \in DOMAIN b : b[i] < Half}
      n == CHOOSE i \in ends : \A j \in ends : i <= j
      val == FoldRight(LAMBDA byte, v : (byte % Half) + Half * v,
                       SubSeq(b, 1, n), 0)
  IN IF ends = {} THEN Got("EOF", 0, << >>)
     ELSE Got(IF n > Groups(MaxUint64) \/ val > MaxUint64 THEN "overflow"
              ELSE "nil", val, SubSeq(b, n + 1, Len(b)))
-----------------------------------------------------------------------------
(* Reading.                                                                *)

ReadVarint(b, max) ==
  LET r == ReadUvarint(b)
  IN IF r.err = "nil" /\ r.value > max THEN [r EXCEPT !.err = "ErrRange"]
     ELSE r

ReadVarint31(b) == ReadVarint(b, MaxInt32)
ReadVarint63(b) == ReadVarint(b, MaxInt64)

(* What a reader makes of the value it needs first; it passes an error on. *)
Then(r, Continue(_, _)) ==
  IF r.err = "nil" THEN Continue(r.value, r.rest)
                   ELSE Got(r.err, << >>, r.rest)

Take(n, b) == Got("nil", SubSeq(b, 1, n), SubSeq(b, n + 1, Len(b)))

(* Mutant: a string is as long as the bytes that are there.                *)
ReadVarstr31Short(b) ==
  Then(ReadVarint31(b),
       LAMBDA l, rest : Take(IF l > Len(rest) THEN Len(rest) ELSE l, rest))

ReadVarstr31(b) ==
  Then(ReadVarint31(b),
       LAMBDA l, rest : IF l > Len(rest)
                        THEN Got("ErrUnexpectedEOF", << >>, rest)
                        ELSE Take(l, rest))

(* One turn of the loop: a string that failed is in the result too.        *)
ReadNext(r) ==
  LET added(s) == [s EXCEPT !.value = Append(r.value, @)]
  IN  IF r.err = "nil" THEN added(ReadVarstr31(r.rest)) ELSE r

(* The count has gone down with the strings, so the other error replaces   *)
(* the string's only when more are missing than were read.                 *)
Counted(all, nelts) ==
  IF Len(all.value) < nelts - Len(all.value)
  THEN [all EXCEPT !.err = "ErrUnexpectedEOF"] ELSE all

ReadVarstrList(b) ==
  LET Loop(nelts, rest) ==
        FoldLeft(LAMBDA r, turn : ReadNext(r), Got("nil", << >>, rest),
                 [turn \in 1..nelts |-> turn])
  IN  Then(ReadVarint31(b),
           LAMBDA nelts, rest : Counted(Loop(nelts, rest), nelts))

(* The caller's function reads a string; a newer writer's suffix remains.  *)
ReadExtensibleString(b) ==
  LET Called(f, rest) ==
        IF f.err = "nil"
        THEN Got("nil", [string |-> f.value, suffix |-> f.rest], rest)
        ELSE Got(f.err, << >>, rest)
  IN  Then(ReadVarstr31(b), LAMBDA s, rest : Called(ReadVarstr31(s), rest))

Read(kind, b) ==
  CASE kind = "varint31" -> ReadVarint31(b)
    [] kind = "varint63" -> ReadVarint63(b)
    [] kind = "varstr" -> ReadVarstr31(b)
    [] kind = "list" -> ReadVarstrList(b)
    [] kind = "extensible" -> ReadExtensibleString(b)
-----------------------------------------------------------------------------
(* Writing: the bytes that are handed to the writer, and the error.        *)

Wrote(err, bytes) == [err |-> err, bytes |-> bytes]

(* Mutant: integers are not compared with their maximum.                   *)
WriteVarintAny(n, max) ==
  IF Groups(n) > BufLen THEN Wrote("panic", << >>)
  ELSE Wrote("nil", PutUvarint(n))

WriteVarint(n, max) ==
  IF n > max THEN Wrote("ErrRange", << >>)
  ELSE IF Groups(n) > BufLen THEN Wrote("panic", << >>)
  ELSE Wrote("nil", PutUvarint(n))

(* What is written after w, if w could be written.                         *)
And(w, v) == IF w.err # "nil" THEN w ELSE Wrote(v.err, w.bytes \o v.bytes)

WriteVarstr31(s) == And(WriteVarint(Len(s), MaxInt32), Wrote("nil", s))

(* What was written of the list before a string's error stays written.     *)
WriteVarstrList(l) ==
  FoldLeft(LAMBDA w, s : And(w, WriteVarstr31(s)),
           WriteVarint(Len(l), MaxInt32), l)

(* Mutant: the suffix goes after the string that counts it.                *)
WriteExtensibleStringOutside(v) ==
  LET Outside(f) == And(WriteVarstr31(f.bytes), Wrote("nil", v.suffix))
  IN  Outside(WriteVarstr31(v.string))

(* The caller's function writes a string.                                  *)
WriteExtensibleString(v) ==
  LET Around(f) == IF f.err # "nil" THEN Wrote(f.err, << >>)
                   ELSE WriteVarstr31(f.bytes \o v.suffix)
  IN  Around(WriteVarstr31(v.string))

Write(v) ==
  CASE v.kind = "varint31" -> WriteVarint(v.value, MaxInt32)
    [] v.kind = "varint63" -> WriteVarint(v.value, MaxInt64)
    [] v.kind = "varstr" -> WriteVarstr31(v.value)
    [] v.kind = "list" -> WriteVarstrList(v.value)
    [] v.kind = "extensible" -> WriteExtensibleString(v.value)
-----------------------------------------------------------------------------
WireInit ==
  /\ buf = << >> /\ sent = << >>
  /\ got = <<"none", "nil", 0>>
  /\ state = "whole"

(* A value refused before its first byte leaves the stream as it was.      *)
Put(v, w) ==
  \/ w.err = "nil" /\ buf' = buf \o w.bytes /\ sent' = Append(sent, v)
     /\ UNCHANGED state
  \/ w.err # "nil" /\ w.bytes = << >> /\ UNCHANGED <<buf, sent, state>>

(* The writer's error after any of the bytes, or one of the encoding after *)
(* some of them: those stay in the stream, and nothing more is sent.       *)
PutPart(v, w) == \E n \in 0..Len(w.bytes) :
  /\ n = Len(w.bytes) => w.bytes # << >>
  /\ buf' = buf \o SubSeq(w.bytes, 1, n)
  /\ sent' = Append(sent, v)
  /\ state' = "cut"

Send == \E v \in Values :
  /\ state = "whole" /\ Len(sent) < MaxSent
  /\ Put(v, Write(v)) \/ PutPart(v, Write(v))
  /\ UNCHANGED got

(* The stream ends early.                                                  *)
Cut == \E n \in 0..Len(buf) - 1 :
  /\ state = "whole"
  /\ buf' = SubSeq(buf, 1, n)
  /\ state' = "cut"
  /\ UNCHANGED <<sent, got>>

(* A reader stops at the first error.                                      *)
Accept(r) == got' = <<Head(sent).kind, r.err, r.value>> /\ buf' = r.rest

Receive ==
  /\ sent # << >> /\ got[2] = "nil"
  /\ Accept(Read(Head(sent).kind, buf))
  /\ sent' = Tail(sent)
  /\ UNCHANGED state

WireNext == Send \/ Cut \/ Receive
-----------------------------------------------------------------------------
WireTypeOK ==
  /\ state \in {"whole", "cut"}
  /\ \A i \in DOMAIN buf : buf[i] \in 0..2 * Half - 1
  /\ sent \in Seq(Values)

(* Values arrive as they were written, in order; from a stream that was    *)
(* cut, or a writer that failed, as they were or as an error, never as     *)
(* other values.                                                           *)
ValuesArrive ==
  [][Len(sent') < Len(sent) =>
       \/ got'[2] = "nil" /\ got'[3] = Head(sent).value
       \/ got'[2] # "nil" /\ state = "cut"]_wireVars

(* When all values have been read, no bytes are left over.                 *)
NothingLeftOver ==
  state = "whole" /\ sent = << >> /\ got[2] = "nil" => buf = << >>

(* The pooled buffer of 9 bytes holds every integer that passes the check. *)
VarintsFit ==
  buf = << >> /\ state = "whole" => \A v \in Values : Write(v).err # "panic"

(* Reading undoes writing, to the last byte.                               *)
ReadingUndoesWriting ==
  [](WireTypeOK /\ NothingLeftOver /\ VarintsFit) /\ ValuesArrive
=============================================================================
