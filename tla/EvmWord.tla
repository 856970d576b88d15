------------------------------- MODULE EvmWord ------------------------------
(***************************************************************************)
(* The arithmetic of LEVM on words, as the handlers of arithmetic.rs and   *)
(* bitwise_comparison.rs compute it, and what each result should be.  A    *)
(* word has ByteBits * WordBytes bits; the code's constants 255, 256, 31,  *)
(* 8 and 7 are written in terms of these.                                  *)
(***************************************************************************)
EXTENDS EvmGas, Bitwise, TLC

WordBits == ByteBits * WordBytes
Modulus == 2^WordBits
Word == 0 .. Modulus - 1
MaxWord == Modulus - 1

Bit(v, i) == (v \div 2^i) % 2 = 1
Complement(v) == MaxWord - v
-----------------------------------------------------------------------------
(* The helpers of the two files.                                           *)

IsNegative(v) == Bit(v, WordBits - 1)

Negate(v) == (Complement(v) + 1) % Modulus

Abs(v) == IF IsNegative(v) THEN Negate(v) ELSE v

FromBool(b) == IF b THEN 1 ELSE 0

\* One doubling per position; a doubling that would overflow first drops
\* the most significant bit.
CheckedShiftLeft(value, shift) ==
    LET shifted[n \in 0 .. shift] ==
            IF n = 0 THEN value
            ELSE LET r == shifted[n - 1]
                 IN  IF 2 * r <= MaxWord THEN 2 * r ELSE 2 * (r - 2^(WordBits - 1))
    IN  shifted[shift]

CheckedShiftRight(value, shift) ==
    LET shifted[n \in 0 .. shift] == IF n = 0 THEN value ELSE shifted[n - 1] \div 2
    IN  shifted[shift]

ArithmeticShiftRight(value, shift) ==
    IF IsNegative(value)
    THEN CheckedShiftRight(value, shift) | CheckedShiftLeft(MaxWord, WordBits - shift)
    ELSE CheckedShiftRight(value, shift)

\* U256::overflowing_pow: the product, wrapped at every factor.
OverflowingPow(base, exponent) ==
    LET power[n \in 0 .. exponent] == IF n = 0 THEN 1 ELSE (power[n - 1] * base) % Modulus
    IN  power[exponent]
-----------------------------------------------------------------------------
(* The handlers: the first operand is the top of the stack.                *)

Sdiv(a, b) ==
    IF a = 0 \/ b = 0 THEN 0
    ELSE LET quotient == Abs(a) \div Abs(b)
         IN  IF IsNegative(a) # IsNegative(b) THEN Negate(quotient) ELSE quotient

Smod(a, b) ==
    IF a = 0 \/ b = 0 THEN 0
    ELSE LET remainder == Abs(a) % Abs(b)
         IN  IF IsNegative(a) THEN Negate(remainder) ELSE remainder

SignExtend(bytes, v) ==
    IF bytes > WordBytes - 1 THEN v
    ELSE LET index == ByteBits * bytes + ByteBits - 1
             mask == CheckedShiftLeft(1, index) - 1
         IN  IF CheckedShiftRight(v, index) % 2 = 0 THEN v & mask ELSE v | Complement(mask)

Slt(a, b) == FromBool(IF IsNegative(a) = IsNegative(b) THEN a < b ELSE IsNegative(a))

Sgt(a, b) == FromBool(IF IsNegative(a) = IsNegative(b) THEN a > b ELSE IsNegative(b))

ByteOf(i, v) == IF i < WordBytes THEN (v \div 2^(ByteBits * (WordBytes - i - 1))) % 2^ByteBits ELSE 0

Sar(shift, v) ==
    IF shift < WordBits THEN ArithmeticShiftRight(v, shift)
    ELSE IF IsNegative(v) THEN MaxWord ELSE 0

\* The arithmetic handlers of two operands ...
Arithmetic(op, a, b) ==
    CASE op = "ADD" -> (a + b) % Modulus
      [] op = "SUB" -> (a - b) % Modulus
      [] op = "MUL" -> (a * b) % Modulus
      [] op = "DIV" -> IF b = 0 THEN 0 ELSE a \div b
      [] op = "SDIV" -> Sdiv(a, b)
      [] op = "MOD" -> IF b = 0 THEN 0 ELSE a % b
      [] op = "SMOD" -> Smod(a, b)
      [] op = "EXP" -> OverflowingPow(a, b)
      [] op = "SIGNEXTEND" -> SignExtend(a, b)

\* ... and those that compare or work on bits
BitLogic(op, a, b) ==
    CASE op = "LT" -> FromBool(a < b)
      [] op = "GT" -> FromBool(a > b)
      [] op = "SLT" -> Slt(a, b)
      [] op = "SGT" -> Sgt(a, b)
      [] op = "EQ" -> FromBool(a = b)
      [] op = "AND" -> a & b
      [] op = "OR" -> a | b
      [] op = "XOR" -> a ^^ b
      [] op = "BYTE" -> ByteOf(a, b)
      [] op = "SHL" -> IF a < WordBits THEN CheckedShiftLeft(b, a) ELSE 0
      [] op = "SHR" -> IF a < WordBits THEN CheckedShiftRight(b, a) ELSE 0
      [] op = "SAR" -> Sar(a, b)

ArithmeticOps == {"ADD", "SUB", "MUL", "DIV", "SDIV", "MOD", "SMOD", "EXP", "SIGNEXTEND"}

Binary(op, a, b) == IF op \in ArithmeticOps THEN Arithmetic(op, a, b) ELSE BitLogic(op, a, b)

BinaryCost ==
    [op \in {"ADD", "SUB", "LT", "GT", "SLT", "SGT", "EQ", "AND", "OR", "XOR",
             "BYTE", "SHL", "SHR", "SAR"} |-> 3]
    @@ [op \in {"MUL", "DIV", "SDIV", "MOD", "SMOD", "SIGNEXTEND"} |-> 5]

Unary(op, a) == IF op = "ISZERO" THEN FromBool(a = 0) ELSE Complement(a)

\* ADDMOD and MULMOD compute in twice the width.
Ternary(op, a, b, n) ==
    IF n = 0 THEN 0 ELSE IF op = "ADDMOD" THEN (a + b) % n ELSE (a * b) % n
-----------------------------------------------------------------------------
(* What the results should be, by the integers the words stand for.        *)

Signed(v) == IF v < 2^(WordBits - 1) THEN v ELSE v - Modulus
Unsigned(i) == i % Modulus
Sign(i) == IF i < 0 THEN -1 ELSE 1
Magnitude(i) == i * Sign(i)

\* Division that rounds towards zero.
Quotient(i, j) == Sign(i) * Sign(j) * (Magnitude(i) \div Magnitude(j))

\* The bits of a result, one by one.
BitsAre(result, Expected(_)) == \A n \in 0 .. WordBits - 1 : Bit(result, n) = Expected(n)

\* What each handler with sign, bit or byte manipulation should return.
BinaryRight(op, a, b, result) ==
    LET i == Signed(a)
        j == Signed(b)
        width == ByteBits * (a + 1)
        low == b % 2^width
    IN  /\ op = "SDIV" => result = IF b = 0 THEN 0 ELSE Unsigned(Quotient(i, j))
        /\ op = "SMOD" => result = IF b = 0 THEN 0 ELSE Unsigned(i - j * Quotient(i, j))
        /\ op = "SLT" => result = FromBool(i < j)
        /\ op = "SGT" => result = FromBool(i > j)
        /\ op = "SIGNEXTEND" =>
              IF a >= WordBytes THEN result = b
              ELSE Signed(result) = IF low < 2^(width - 1) THEN low ELSE low - 2^width
        /\ op = "BYTE" =>
              BitsAre(result, LAMBDA n : n < ByteBits /\ a < WordBytes
                                         /\ Bit(b, ByteBits * (WordBytes - 1 - a) + n))
        /\ op = "SHL" => BitsAre(result, LAMBDA n : n >= a /\ Bit(b, n - a))
        /\ op = "SHR" => BitsAre(result, LAMBDA n : n + a < WordBits /\ Bit(b, n + a))
        /\ op = "SAR" =>
              BitsAre(result, LAMBDA n : Bit(b, IF n + a < WordBits THEN n + a ELSE WordBits - 1))
=============================================================================
