------------------------------- MODULE EvmGas -------------------------------
(***************************************************************************)
(* The gas schedule of LEVM: crates/vm/levm/src/gas_cost.rs and the costs  *)
(* of memory.rs, as operators.  The numbers are the ones of the code.  The *)
(* width of a word is a parameter, so that the interpreter can be checked  *)
(* on small words.  The checked u64 operations of the code return an error *)
(* beyond 2^64; no gas amount below a block's gas limit comes near it.     *)
(***************************************************************************)
EXTENDS Integers, Sequences

CONSTANTS
    ByteBits,    \* bits of a byte: 8 in the code
    WordBytes    \* bytes of a word, WORD_SIZE: 32 in the code

ASSUME WidthAssumption == ByteBits \in Nat \ {0} /\ WordBytes \in Nat \ {0}

Larger(a, b) == IF a > b THEN a ELSE b
Smaller(a, b) == IF a < b THEN a ELSE b
-----------------------------------------------------------------------------
(* Memory: a size in bytes is rounded up to words.                         *)

WordsOf(size) == (size + WordBytes - 1) \div WordBytes

RoundUp(size) == WordBytes * WordsOf(size)

MemoryCost(size) == (WordsOf(size) * WordsOf(size)) \div 512 + 3 * WordsOf(size)

\* Only the additional bytes are paid for.
ExpansionCost(new, current) ==
    IF new <= current THEN 0 ELSE MemoryCost(new) - MemoryCost(current)

\* A range of size zero needs no memory, wherever it begins.
MemorySizeFor(offset, size) == IF size = 0 THEN 0 ELSE RoundUp(offset + size)
-----------------------------------------------------------------------------
(* The operations with a dynamic cost.                                     *)

CopyBehavior(new, current, size, base, static) ==
    static + base * WordsOf(size) + ExpansionCost(new, current)

CopyCost(new, current, size) == CopyBehavior(new, current, size, 3, 3)

KeccakCost(new, current, size) == CopyBehavior(new, current, size, 6, 30)

McopyCost(new, current, size) == 3 + 3 * WordsOf(size) + ExpansionCost(new, current)

MemExpansionBehavior(new, current) == 3 + ExpansionCost(new, current)

LogCost(new, current, size, topics) ==
    375 * topics + 375 + 8 * size + ExpansionCost(new, current)

\* The number of bits of a value, and the cost of EXP by the exponent's bytes.
BitsOf(v) == IF v = 0 THEN 0 ELSE CHOOSE n \in 1 .. ByteBits * WordBytes : 2^(n - 1) <= v /\ v < 2^n

ExpCost(exponent) == 10 + 50 * ((BitsOf(exponent) + ByteBits - 1) \div ByteBits)
-----------------------------------------------------------------------------
(* Accounts and storage, warm or cold.                                     *)

AddressAccessCost(cold) == IF cold THEN 2600 ELSE 100

SloadCost(cold) == IF cold THEN 2100 ELSE 100

SSTORE_STIPEND == 2300

SstoreCost(original, current, new, cold) ==
    (IF new # current /\ current = original
     THEN IF original = 0 THEN 20000 ELSE 2900
     ELSE 100)
    + (IF cold THEN 2100 ELSE 0)

CALL_POSITIVE_VALUE_STIPEND == 2300

PositiveValueCost(value) == IF value = 0 THEN 0 ELSE 9000 - CALL_POSITIVE_VALUE_STIPEND

CallCost(expansion, cold, empty, value) ==
    expansion + AddressAccessCost(cold) + PositiveValueCost(value)
    + (IF empty /\ value # 0 THEN 25000 ELSE 0)

CallcodeCost(expansion, cold, value) ==
    expansion + AddressAccessCost(cold) + PositiveValueCost(value)

\* DELEGATECALL and STATICCALL
PlainCallCost(expansion, cold) == expansion + AddressAccessCost(cold)

\* CREATE, and CREATE2 which also hashes the init code
CREATE_BASE_COST == 32000

GasCreate(expansion, size, isCreate2) ==
    expansion + 2 * WordsOf(size) + CREATE_BASE_COST
    + (IF isCreate2 THEN 6 * WordsOf(size) ELSE 0)

SelfdestructCost(cold, empty, balance) ==
    5000 + (IF cold THEN 2600 ELSE 0) + (IF empty /\ balance > 0 THEN 25000 ELSE 0)

CODE_DEPOSIT_COST == 200

\* All but one 64th of the gas that is left.
MaxMessageCallGas(remaining) == remaining - remaining \div 64
-----------------------------------------------------------------------------
(* Transactions and precompiles.                                           *)

TX_BASE_COST == 21000

TxCalldata(zeros, nonzeros) == 4 * zeros + 16 * nonzeros

AccessListCost(addresses, keys) == 2400 * addresses + 1900 * keys

PrecompileCost(size, static, base) == static + base * WordsOf(size)

\* factor * e^(numerator / denominator), by its Taylor series on integers:
\* the sum grows until a term is zero.
FakeExponential(factor, numerator, denominator) ==
    LET term[i \in Nat] ==
            IF i = 0 THEN factor * denominator
            ELSE (term[i - 1] * numerator) \div (denominator * i)
        sum[i \in Nat] ==
            IF term[i] = 0 THEN 0 ELSE term[i] + sum[i + 1]
    IN  sum[0] \div denominator
=============================================================================
