-------------------------------- MODULE Values --------------------------------
(***************************************************************************)
(* The values the guest's registers hold when a translation is run on the   *)
(* side of the guest and on the side of the host: numbers modulo P, which   *)
(* is 2^64 in the machines, with a lower half modulo Half, which is 2^32.   *)
(* Bytes, 16-bit words and signs are what they are.  ADD and SUB compute,   *)
(* every other operation and memory is a function of which only is known    *)
(* that the same arguments of the same width give the same result.          *)
(***************************************************************************)
EXTENDS Integers

CONSTANTS P, Half,
          FsBase,     \* the base of the segment FS
          NextIp      \* the guest's address behind the instruction
ASSUME ValuesAssumption ==
  /\ P \in Nat /\ Half \in Nat /\ Half > 65535 /\ P > Half /\ P % Half = 0
  /\ FsBase \in Int /\ NextIp \in Int

\* how many values there are of a width
Count(width) == CASE width = 8 -> 256 [] width = 16 -> 65536 [] width = 32 -> Half [] OTHER -> P
At(width, v) == v % Count(width)
\* the number a sign bit makes of the bits below it
Signed(width, v) ==
  LET low == At(width, v) IN IF 2 * low < Count(width) THEN low ELSE low - Count(width)
\* a register of which the bits below are replaced
Merge(old, width, v) == old - At(width, old) + At(width, v)

Key == [op \in {"AND", "ORR", "EOR", "LSL", "LSR", "ASR", "SMULL", "SDIV", "FMUL", "FDIV",
                "FADD", "FSUB", "FCVTZS", "SCVTF", "FCVT", "FCVTU", "CSEL_HI", "CSEL_MI",
                "CSET_NE", "CSET_HS", "CSET_EQ", "CSET_LO", "LD", "HIGH", "MUL"} |->
  CASE op = "AND" -> 1 [] op = "ORR" -> 2 [] op = "EOR" -> 3 [] op = "LSL" -> 4
    [] op = "LSR" -> 5 [] op = "ASR" -> 6 [] op = "SMULL" -> 7 [] op = "SDIV" -> 8
    [] op = "FMUL" -> 9 [] op = "FDIV" -> 10 [] op = "FADD" -> 11 [] op = "FSUB" -> 12
    [] op = "FCVTZS" -> 13 [] op = "SCVTF" -> 14 [] op = "FCVT" -> 15 [] op = "FCVTU" -> 16
    [] op = "CSEL_HI" -> 17 [] op = "CSEL_MI" -> 18 [] op = "CSET_NE" -> 19
    [] op = "CSET_HS" -> 20 [] op = "CSET_EQ" -> 21 [] op = "CSET_LO" -> 22
    [] op = "LD" -> 23 [] op = "HIGH" -> 24 [] op = "MUL" -> 25]
Commutes == {"AND", "ORR", "EOR", "SMULL", "MUL"}

\* reduced by a prime first: else the low bits would depend on low bits only
Hash(op, width, x, y) ==
  (((Key[op] * 64 + width) * 7919 + x * 211 + (IF op \in Commutes THEN y * 211 ELSE y * 1009))
    % 1000003) % P
Op(op, x, y) ==
  CASE op = "ADD" -> (x + y) % P
    [] op = "SUB" -> (x - y) % P
    [] op = "LSL" /\ y < 4 -> (x * 2^y) % P
    [] OTHER -> Hash(op, 64, x, y)
\* the low bits of a sum depend on no other bits; elsewhere operands are cut first
OpAt(width, op, x, y) ==
  At(width, IF width = 64 \/ op \in {"ADD", "SUB"} THEN Op(op, x, y)
            ELSE Hash(op, width, At(width, x), At(width, y)))
Load(address) == Hash("LD", 64, address % P, 0)
===============================================================================
