------------------------------- MODULE Script -------------------------------
(***************************************************************************)
(* CScript and CScriptNum (chainx-ui.id/script.h): a script is a sequence  *)
(* of bytes that grows by pushes, is read instruction by instruction and   *)
(* has occurrences of another script deleted.  Its start is any bytes, for *)
(* scripts arrive in transactions.  The number of byte values and the      *)
(* first opcodes are constants, so that the limits of every form of push   *)
(* lie within short scripts.                                               *)
(***************************************************************************)
EXTENDS Integers, Sequences, FiniteSets, SequencesExt

CONSTANTS
  Radix,        \* byte values: 256
  OP_PUSHDATA1, \* 76; shorter pushes are the opcode of their length
  MaxSmall,     \* 16, the largest number with an opcode
  MaxNumSize,   \* nDefaultMaxNumSize: 4
  Starts,       \* scripts from outside
  Ints, Opcodes, Datas, Scripts, \* what may be pushed or deleted
  MaxLen        \* bound: only scripts up to this length grow

OP_PUSHDATA2 == OP_PUSHDATA1 + 1
OP_PUSHDATA4 == OP_PUSHDATA1 + 2
OP_1NEGATE == OP_PUSHDATA1 + 3
OP_1 == OP_PUSHDATA1 + 5    \* after OP_RESERVED
Sign == Radix \div 2        \* the sign bit of a byte

ASSUME ScriptAssumption ==
  /\ Radix \in Nat /\ OP_PUSHDATA1 \in Nat \ {0} /\ MaxSmall \in Nat
  /\ Sign * 2 = Radix /\ MaxSmall < Sign
  /\ OP_1 + MaxSmall < Radix
  /\ MaxNumSize \in Nat

VARIABLE script

ScriptTypeOK == \A i \in DOMAIN script : script[i] \in 0..Radix - 1
-----------------------------------------------------------------------------
(* Numbers, low byte first.                                                *)

LE(v) == FoldRight(LAMBDA byte, n : byte + Radix * n, v, 0)

WriteLE(n, width) == [i \in 1..width |-> (n \div Radix^(i - 1)) % Radix]

(* Mutant: a set sign bit of a positive number is not set off.             *)
serializeUnpadded(value) ==
  LET abs == IF value < 0 THEN -value ELSE value
      width == CHOOSE k \in 1..abs + 1 :
                 Radix^k > abs /\ \A j \in 1..k - 1 : Radix^j <= abs
      result == WriteLE(abs, width)
  IN IF value = 0 THEN << >>
     ELSE IF value < 0
       THEN WriteLE(abs + Sign * Radix^(width - 1), width)
     ELSE result

serialize(value) ==
  LET abs == IF value < 0 THEN -value ELSE value
      width == CHOOSE k \in 1..abs + 1 :
                 Radix^k > abs /\ \A j \in 1..k - 1 : Radix^j <= abs
      result == WriteLE(abs, width)
  IN IF value = 0 THEN << >>
     ELSE IF result[width] >= Sign
       THEN Append(result, IF value < 0 THEN Sign ELSE 0)
     ELSE IF value < 0
       THEN WriteLE(abs + Sign * Radix^(width - 1), width)
     ELSE result

set_vch(v) ==
  IF v # << >> /\ Last(v) >= Sign THEN -(LE(v) - Sign * Radix^(Len(v) - 1))
  ELSE LE(v)

(* What the constructor of CScriptNum throws on.                           *)
Overflows(v) == Len(v) > MaxNumSize

(* Mutant: the exception for a sign bit in the byte before is missing.     *)
NotMinimalEver(v) == v # << >> /\ Last(v) % Sign = 0

NotMinimal(v) ==
  /\ v # << >>
  /\ Last(v) % Sign = 0
  /\ Len(v) <= 1 \/ v[Len(v) - 1] < Sign

DecodeOP_N(opcode) == IF opcode = 0 THEN 0 ELSE opcode - (OP_1 - 1)
-----------------------------------------------------------------------------
(* Reading.                                                                *)

(* GetOp2: the instruction at pc, if all of it is there.                   *)
GetOp(s, pc) ==
  LET opcode == s[pc]
      width == CASE opcode = OP_PUSHDATA1 -> 1
                 [] opcode = OP_PUSHDATA2 -> 2
                 [] opcode = OP_PUSHDATA4 -> 4
                 [] OTHER -> 0
      from == pc + 1 + width
      nSize == IF opcode < OP_PUSHDATA1 THEN opcode
               ELSE LE(SubSeq(s, pc + 1, pc + width))
      pushes == opcode <= OP_PUSHDATA4
      ok == pushes => from - 1 <= Len(s) /\ nSize <= Len(s) + 1 - from
      next == IF pushes /\ ok THEN from + nSize ELSE from
  IN [ok |-> ok, next |-> next,
      item |-> [opcode |-> opcode, data |-> SubSeq(s, from, next - 1)]]

(* A loop of GetOp: the instructions, and what is left at the end or at    *)
(* one that is not complete.                                               *)
Instructions(s) ==
  LET From[pc \in 1..Len(s) + 1] ==
        IF pc <= Len(s) /\ GetOp(s, pc).ok
        THEN LET rest == From[GetOp(s, pc).next]
             IN [rest EXCEPT !.items = <<GetOp(s, pc).item>> \o @]
        ELSE [items |-> << >>, tail |-> SubSeq(s, pc, Len(s))]
  IN From[1]

Items(s) == Instructions(s).items
Rest(s) == Instructions(s).tail
Whole(s) == Rest(s) = << >>

Find(s, op) ==
  Cardinality({i \in DOMAIN Items(s) : Items(s)[i].opcode = op})
-----------------------------------------------------------------------------
(* Writing.                                                                *)

(* Mutant: the length of OP_PUSHDATA1's code is pushed without it.         *)
PushOfOneMore(b) ==
  (IF Len(b) <= OP_PUSHDATA1 THEN <<Len(b)>>
   ELSE IF Len(b) < Radix THEN <<OP_PUSHDATA1, Len(b)>>
   ELSE <<OP_PUSHDATA2>> \o WriteLE(Len(b), 2))
  \o b

PushOf(b) ==
  (IF Len(b) < OP_PUSHDATA1 THEN <<Len(b)>>
   ELSE IF Len(b) < Radix THEN <<OP_PUSHDATA1, Len(b)>>
   ELSE IF Len(b) < Radix^2 THEN <<OP_PUSHDATA2>> \o WriteLE(Len(b), 2)
   ELSE <<OP_PUSHDATA4>> \o WriteLE(Len(b), 4))
  \o b

IntOf(n) ==
  IF n = -1 \/ n \in 1..MaxSmall THEN <<n + (OP_1 - 1)>>
  ELSE IF n = 0 THEN <<0>>
  ELSE PushOf(serialize(n))

(* Mutant: of occurrences in a row one is deleted.                         *)
WithoutOne(s, b) ==
  LET At(pc) == pc + Len(b) - 1 <= Len(s) /\ SubSeq(s, pc, pc + Len(b) - 1) = b
      From[pc \in 1..Len(s) + 1] ==
        LET pc2 == IF At(pc) THEN pc + Len(b) ELSE pc
        IN IF pc2 > Len(s) \/ ~GetOp(s, pc2).ok THEN SubSeq(s, pc2, Len(s))
           ELSE LET next == GetOp(s, pc2).next
                IN SubSeq(s, pc2, next - 1) \o From[next]
  IN IF b = << >> THEN s ELSE From[1]

(* FindAndDelete's loop: at each instruction, and after each deletion.     *)
Without(s, b) ==
  LET At(pc) == SubSeq(s, pc, pc + Len(b) - 1) = b
      Skip[pc \in 1..Len(s) + 1] ==
        IF pc + Len(b) - 1 <= Len(s) /\ At(pc) THEN Skip[pc + Len(b)] ELSE pc
      From[pc \in 1..Len(s) + 1] ==
        LET pc2 == Skip[pc]
        IN IF pc2 > Len(s) \/ ~GetOp(s, pc2).ok THEN SubSeq(s, pc2, Len(s))
           ELSE LET next == GetOp(s, pc2).next
                IN SubSeq(s, pc2, next - 1) \o From[next]
  IN IF b = << >> THEN s ELSE From[1]

ScriptInit == script \in Starts

Insert(bytes) == Len(script) <= MaxLen /\ script' = script \o bytes

PushInt(n) == Insert(IntOf(n))
PushScriptNum(n) == Insert(PushOf(serialize(n)))
PushOpcode(op) == Insert(<<op>>)
PushData(b) == Insert(PushOf(b))
Concatenate(b) == Insert(b)
FindAndDelete(b) == script' = Without(script, b)
Clear == script' = << >>

ScriptNext ==
  \/ \E n \in Ints : PushInt(n) \/ PushScriptNum(n)
  \/ \E op \in Opcodes : PushOpcode(op)
  \/ \E b \in Datas : PushData(b)
  \/ \E b \in Scripts : Concatenate(b) \/ FindAndDelete(b)
  \/ Clear
-----------------------------------------------------------------------------
(* The number that an instruction puts on the stack.                       *)
Number(item) ==
  IF item.opcode <= OP_PUSHDATA4 THEN set_vch(item.data)
  ELSE DecodeOP_N(item.opcode)

(* interpreter.h:48-53: an opcode where there is one for the data, and the *)
(* shortest form of push otherwise.                                        *)
Shortest(item) ==
  LET b == item.data
  IN item.opcode <= OP_PUSHDATA4 =>
       /\ Len(b) = 1 => b[1] # Sign + 1 /\ b[1] \notin 1..MaxSmall
       /\ item.opcode = CASE Len(b) < OP_PUSHDATA1 -> Len(b)
                          [] Len(b) \in OP_PUSHDATA1..Radix - 1 -> OP_PUSHDATA1
                          [] Len(b) \in Radix..Radix^2 - 1 -> OP_PUSHDATA2
                          [] OTHER -> OP_PUSHDATA4

(* A number pushed onto a script that reads to its end reads back as the   *)
(* last instruction with its value, and in the shortest form when it was   *)
(* pushed as an integer; a CScriptNum is data, minimal but never an opcode. *)
NumbersReadBack ==
  [][script' # script => \A n \in Ints :
       (PushInt(n) \/ PushScriptNum(n)) /\ Whole(script) =>
         LET item == Last(Items(script'))
         IN /\ Whole(script')
            /\ Front(Items(script')) = Items(script)
            /\ Number(item) = n
            /\ PushInt(n) => Shortest(item)
            /\ PushScriptNum(n) => ~NotMinimal(item.data)]_script

(* Data pushed in any of the four forms reads back as it was.              *)
DataReadsBack ==
  [][script' # script => \A b \in Datas : PushData(b) /\ Whole(script) =>
       /\ Whole(script')
       /\ Front(Items(script')) = Items(script)
       /\ Last(Items(script')).data = b]_script

(* Each number has one form that CScriptNum accepts as minimal: of the     *)
(* data that a script can hold, the one that serialize makes.              *)
NumbersHaveOneForm ==
  \A v \in {item.data : item \in Range(Items(script))} :
    ~Overflows(v) => (~NotMinimal(v) <=> serialize(set_vch(v)) = v)

(* FindAndDelete of one instruction (a signature in CHECKSIG) takes all of *)
(* its occurrences that are instructions, no bytes within other data, and  *)
(* leaves the rest in order, an incomplete end too.                        *)
DeletesInstructions ==
  [][script # << >> => \A b \in Scripts :
       FindAndDelete(b) /\ Whole(b) /\ Len(Items(b)) = 1 =>
         LET other(item) == item # Items(b)[1]
         IN /\ Items(script') = SelectSeq(Items(script), other)
            /\ Rest(script') = Rest(script)]_script

(* What is put into a script is what is read from it, through any sequence *)
(* of insertions and deletions.                                            *)
ScriptsReadBack ==
  /\ [](ScriptTypeOK /\ NumbersHaveOneForm)
  /\ NumbersReadBack
  /\ DataReadsBack
  /\ DeletesInstructions
=============================================================================
