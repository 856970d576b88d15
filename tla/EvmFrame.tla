------------------------------ MODULE EvmFrame ------------------------------
(***************************************************************************)
(* One call frame of LEVM executing bytecode: VM::execute (vm.rs) with the *)
(* handlers that act on the frame alone, on its stack, memory, program     *)
(* counter and gas.  A byte of code is a record: what it is as an opcode   *)
(* (op, and n for the families PUSHn, DUPn, SWAPn, LOGn) and its value v   *)
(* when it is read as data.  A handler that returns an error consumes all  *)
(* gas and ends the frame, so a handler is its effect when every check     *)
(* passes, and a failure otherwise.  The stack grows at its head.          *)
(***************************************************************************)
EXTENDS EvmWord

CONSTANTS
    Programs,       \* the frames that may be executed: [code, calldata, gas, static]
    STACK_LIMIT,    \* 1024 in the code
    MaxUsize,       \* the largest usize; words may be larger
    Environment,    \* the words of the block and of the transaction, by opcode
    BlobHashes,     \* tx_blob_hashes, a sequence of words
    ExcessBlobGas, BlobFraction,  \* the block's excess blob gas, BLOB_BASE_FEE_UPDATE_FRACTION
    BlockWindow,    \* LAST_AVAILABLE_BLOCK_LIMIT: 256 in the code
    SubOutputs      \* outputs that a sub-context may return

ASSUME FrameAssumption ==
    /\ STACK_LIMIT \in Nat /\ MaxUsize \in Nat /\ BlockWindow \in Nat
    /\ \A v \in {Environment[op] : op \in DOMAIN Environment} : v \in Word

VARIABLES
    frame,     \* the CallFrame
    decoded,   \* positions of the code that were read as push data
    executed   \* positions of the code that were executed as opcodes

frameVars == <<frame, decoded, executed>>

Drop(s, n) == SubSeq(s, n + 1, Len(s))
Arg(f, i) == f.stack[i]

\* A scan that does not skip push data.
ValidJumpDestinationsAll(code) == {pc \in 0 .. Len(code) - 1 : code[pc + 1].op = "JUMPDEST"}

\* get_valid_jump_destinations: a scan that skips the data of every PUSH.
ValidJumpDestinations(code) ==
    LET scan[pc \in 0 .. Len(code) + WordBytes] ==
            IF pc >= Len(code) THEN {}
            ELSE LET b == code[pc + 1]
                 IN  (IF b.op = "JUMPDEST" THEN {pc} ELSE {})
                     \cup scan[pc + 1 + IF b.op = "PUSH" THEN b.n ELSE 0]
    IN  scan[0]

FrameOf(p) ==
    [code |-> p.code, calldata |-> p.calldata, gasLimit |-> p.gas, isStatic |-> p.static,
     pc |-> 0, gasUsed |-> 0, stack |-> <<>>, memory |-> <<>>, output |-> <<>>,
     subReturn |-> <<>>, logs |-> 0, at |-> "running",
     jumps |-> ValidJumpDestinations(p.code)]

\* CallFrame::next_opcode: beyond the end of the code is a STOP.
NextOpcode(f) == IF f.pc < Len(f.code) THEN f.code[f.pc + 1] ELSE [op |-> "STOP", n |-> 0, v |-> 0]
-----------------------------------------------------------------------------
(* Gas, stack and memory.                                                  *)

\* increase_consumed_gas
Affords(f, cost) == f.gasUsed + cost <= f.gasLimit
Spent(f, cost) == f.gasUsed + cost

\* An error other than a REVERT consumes all the gas.
Fail(f) == [f EXCEPT !.at = "failed", !.gasUsed = f.gasLimit]

\* A handler that pops n words, costs gas and pushes words.
Performed(f, n, cost, pushed) ==
    IF Len(f.stack) >= n /\ Affords(f, cost) /\ Len(f.stack) - n + Len(pushed) <= STACK_LIMIT
    THEN [f EXCEPT !.stack = pushed \o Drop(f.stack, n), !.gasUsed = Spent(f, cost), !.pc = @ + 1]
    ELSE Fail(f)

\* calculate_memory_size fails on an offset or an end that is no usize.
SizeFits(offset, size) == size = 0 \/ offset + size <= MaxUsize

\* try_resize
Resize(memory, size) ==
    IF size <= Len(memory) THEN memory
    ELSE memory \o [i \in 1 .. RoundUp(size) - Len(memory) |-> 0]

\* A byte of a source that ends reads as zero.
ByteAt(s, i) == IF i < Len(s) THEN s[i + 1] ELSE 0

Slice(s, offset, size) == [i \in 1 .. size |-> ByteAt(s, offset + i - 1)]

\* try_store_data: grows the memory to the end of the data, whatever its length.
StoreData(memory, offset, data) ==
    LET grown == Resize(memory, offset + Len(data))
    IN  [i \in 1 .. Len(grown) |->
            IF i > offset /\ i <= offset + Len(data) THEN data[i - offset] ELSE grown[i]]

\* try_store_range: nothing for an empty range; a short output fills its start.
StoreRange(memory, offset, size, data) ==
    IF size = 0 THEN memory
    ELSE StoreData(Resize(memory, offset + size), offset, SubSeq(data, 1, Smaller(size, Len(data))))

\* A copy without the temporary buffer: a byte may be read after it was written.
CopyWithinForward(memory, from, to, size) ==
    LET copied[n \in 0 .. size] ==
            IF n = 0 THEN Resize(memory, to + size)
            ELSE StoreData(copied[n - 1], to + n - 1, <<ByteAt(copied[n - 1], from + n - 1)>>)
    IN  IF size = 0 THEN memory ELSE copied[size]

\* try_copy_within: room is made for the destination only.
CopyWithin(memory, from, to, size) ==
    IF size = 0 THEN memory
    ELSE LET grown == Resize(memory, to + size) IN StoreData(grown, to, Slice(grown, from, size))

\* to_big_endian, from_big_endian
BytesOf(v) == [i \in 1 .. WordBytes |-> ByteOf(i - 1, v)]
WordOf(bytes) ==
    LET value[i \in 0 .. Len(bytes)] == IF i = 0 THEN 0 ELSE value[i - 1] * 2^ByteBits + bytes[i]
    IN  value[Len(bytes)]

\* The effect of a handler on memory, on the result of Performed.
OnMemory(f, memory) == IF f.at = "failed" THEN f ELSE [f EXCEPT !.memory = memory]

\* A stand-in for the hash function.
Keccak(bytes) == (WordOf(SubSeq(bytes, 1, Smaller(Len(bytes), 1))) + Len(bytes)) % Modulus
-----------------------------------------------------------------------------
(* The step of execute's loop: the opcode at pc, by its handler.           *)

AtOpcode(op) == frame.at = "running" /\ NextOpcode(frame).op = op

\* The frame becomes g; the positions read are remembered.
Becomes(g) ==
    /\ frame' = g
    /\ executed' = executed \cup {frame.pc}
    /\ decoded' = decoded \cup
          (IF NextOpcode(frame).op = "PUSH" THEN frame.pc + 1 .. frame.pc + NextOpcode(frame).n ELSE {})

OpBinary ==
    \E op \in DOMAIN BinaryCost :
        AtOpcode(op) /\ Becomes(Performed(frame, 2, BinaryCost[op], <<Binary(op, Arg(frame, 1), Arg(frame, 2))>>))

OpExp ==
    AtOpcode("EXP") /\ Becomes(Performed(frame, 2, ExpCost(Arg(frame, 2)), <<Binary("EXP", Arg(frame, 1), Arg(frame, 2))>>))

OpUnary ==
    \E op \in {"ISZERO", "NOT"} : AtOpcode(op) /\ Becomes(Performed(frame, 1, 3, <<Unary(op, Arg(frame, 1))>>))

OpTernary ==
    \E op \in {"ADDMOD", "MULMOD"} :
        AtOpcode(op) /\ Becomes(Performed(frame, 3, 8, <<Ternary(op, Arg(frame, 1), Arg(frame, 2), Arg(frame, 3))>>))

OpPop == AtOpcode("POP") /\ Becomes(Performed(frame, 1, 2, <<>>))

\* The bytes after the opcode, as far as the code goes, are the leading bytes of the operand.
OpPush ==
    /\ AtOpcode("PUSH")
    /\ LET n == NextOpcode(frame).n
           data == [i \in 1 .. n |-> IF frame.pc + i < Len(frame.code) THEN frame.code[frame.pc + i + 1].v ELSE 0]
           g == Performed(frame, 0, IF n = 0 THEN 2 ELSE 3, <<WordOf(data)>>)
       IN  Becomes([g EXCEPT !.pc = @ + (IF g.at = "running" THEN n ELSE 0)])

OpDup ==
    /\ AtOpcode("DUP")
    /\ LET n == NextOpcode(frame).n
       IN  Becomes(IF Len(frame.stack) < n THEN Fail(frame) ELSE Performed(frame, 0, 3, <<Arg(frame, n)>>))

\* The stack with its top and the n-th word below exchanged.
Exchanged(stack, n) == [i \in 1 .. Len(stack) |->
    IF i = 1 THEN stack[n + 1] ELSE IF i = n + 1 THEN stack[1] ELSE stack[i]]

OpSwap ==
    /\ AtOpcode("SWAP")
    /\ LET n == NextOpcode(frame).n
       IN  Becomes(IF Len(frame.stack) < n + 1 THEN Fail(frame)
                   ELSE Performed(frame, Len(frame.stack), 3, Exchanged(frame.stack, n)))

OpJumpdest == AtOpcode("JUMPDEST") /\ Becomes(Performed(frame, 0, 1, <<>>))

\* VM::jump, on the frame after the operands were popped and the gas charged
Jump(g, target) ==
    IF g.at = "failed" THEN g
    ELSE IF target \in g.jumps THEN [g EXCEPT !.pc = target] ELSE Fail(g)

OpJump == AtOpcode("JUMP") /\ Becomes(Jump(Performed(frame, 1, 8, <<>>), Arg(frame, 1)))

OpJumpi ==
    /\ AtOpcode("JUMPI")
    /\ LET g == Performed(frame, 2, 10, <<>>)
       IN  Becomes(IF g.at = "failed" \/ Arg(frame, 2) = 0 THEN g ELSE Jump(g, Arg(frame, 1)))

\* Opcodes that push a word of the frame, the block or the transaction
FrameWord(f, op) ==
    CASE op = "PC" -> f.pc
      [] op = "MSIZE" -> Len(f.memory)
      [] op = "GAS" -> f.gasLimit - f.gasUsed - 2
      [] op = "CODESIZE" -> Len(f.code)
      [] op = "CALLDATASIZE" -> Len(f.calldata)
      [] op = "RETURNDATASIZE" -> Len(f.subReturn)
      [] op = "BLOBBASEFEE" -> FakeExponential(1, ExcessBlobGas, BlobFraction)
      [] OTHER -> Environment[op]

OpWord ==
    \E op \in {"PC", "MSIZE", "GAS", "CODESIZE", "CALLDATASIZE", "RETURNDATASIZE", "BLOBBASEFEE"} \cup DOMAIN Environment :
        AtOpcode(op) /\ Becomes(Performed(frame, 0, 2, <<FrameWord(frame, op)>>))
-----------------------------------------------------------------------------
(* The handlers that read or write memory.                                 *)

\* A handler that pops n words and needs memory for some ranges: it fails
\* when a range does not fit, and else leaves the memory given.
InMemory(f, n, fits, cost, pushed, memory) ==
    IF Len(f.stack) >= n /\ fits THEN OnMemory(Performed(f, n, cost, pushed), memory) ELSE Fail(f)

MemoryLen == Len(frame.memory)
SizeOf(offset, size) == MemorySizeFor(offset, size)

OpMload ==
    /\ AtOpcode("MLOAD")
    /\ LET offset == Arg(frame, 1)
           grown == Resize(frame.memory, offset + WordBytes)
       IN  Becomes(InMemory(frame, 1, SizeFits(offset, WordBytes),
                            MemExpansionBehavior(SizeOf(offset, WordBytes), MemoryLen),
                            <<WordOf(Slice(grown, offset, WordBytes))>>, grown))

\* MSTORE stores the word, MSTORE8 its last byte.
Stored(op, v) == IF op = "MSTORE" THEN BytesOf(v) ELSE <<BytesOf(v)[WordBytes]>>

OpMstore ==
    \E op \in {"MSTORE", "MSTORE8"} :
        /\ AtOpcode(op)
        /\ LET offset == Arg(frame, 1)
               data == Stored(op, Arg(frame, 2))
           IN  Becomes(InMemory(frame, 2, SizeFits(offset, Len(data)),
                                MemExpansionBehavior(SizeOf(offset, Len(data)), MemoryLen),
                                <<>>, StoreData(frame.memory, offset, data)))

\* The larger of the two ranges is paid for.
OpMcopy ==
    /\ AtOpcode("MCOPY")
    /\ LET to == Arg(frame, 1)
           from == Arg(frame, 2)
           size == Arg(frame, 3)
           new == Larger(SizeOf(to, size), SizeOf(from, size))
       IN  Becomes(InMemory(frame, 3, size <= MaxUsize /\ SizeFits(to, size) /\ SizeFits(from, size),
                            McopyCost(new, MemoryLen, size), <<>>,
                            CopyWithin(frame.memory, from, to, size)))

OpKeccak256 ==
    /\ AtOpcode("KECCAK256")
    /\ LET offset == Arg(frame, 1)
           size == Arg(frame, 2)
           grown == IF size = 0 THEN frame.memory ELSE Resize(frame.memory, offset + size)
       IN  Becomes(InMemory(frame, 2, SizeFits(offset, size),
                            KeccakCost(SizeOf(offset, size), MemoryLen, size),
                            <<Keccak(Slice(grown, offset, size))>>, grown))

FrameLog ==
    /\ AtOpcode("LOG")
    /\ LET offset == Arg(frame, 1)
           size == Arg(frame, 2)
           topics == NextOpcode(frame).n
           g == InMemory(frame, 2 + topics, SizeFits(offset, size),
                         LogCost(SizeOf(offset, size), MemoryLen, size, topics), <<>>,
                         IF size = 0 THEN frame.memory ELSE Resize(frame.memory, offset + size))
       IN  Becomes(IF frame.isStatic \/ g.at = "failed" THEN Fail(frame) ELSE [g EXCEPT !.logs = @ + 1])

OpCalldataload ==
    /\ AtOpcode("CALLDATALOAD")
    /\ Becomes(Performed(frame, 1, 3, <<IF Arg(frame, 1) > Len(frame.calldata) THEN 0
                                      ELSE WordOf(Slice(frame.calldata, Arg(frame, 1), WordBytes))>>))

\* CALLDATACOPY and CODECOPY
Source(f, op) == IF op = "CALLDATACOPY" THEN f.calldata ELSE [i \in DOMAIN f.code |-> f.code[i].v]

OpCopy ==
    \E op \in {"CALLDATACOPY", "CODECOPY"} :
        /\ AtOpcode(op)
        /\ LET to == Arg(frame, 1)
               from == Arg(frame, 2)
               size == Arg(frame, 3)
           IN  Becomes(InMemory(frame, 3, SizeFits(to, size),
                                CopyCost(SizeOf(to, size), MemoryLen, size), <<>>,
                                IF size = 0 THEN frame.memory
                                ELSE StoreData(frame.memory, to, Slice(Source(frame, op), from, size))))

\* The copy is skipped when offset and size are both zero; a copy of size
\* zero from another offset goes through try_store_data.
OpReturndatacopy ==
    /\ AtOpcode("RETURNDATACOPY")
    /\ LET to == Arg(frame, 1)
           from == Arg(frame, 2)
           size == Arg(frame, 3)
           skipped == size = 0 /\ from = 0
           within == from + size <= Len(frame.subReturn) /\ to + size <= MaxUsize
       IN  Becomes(InMemory(frame, 3, SizeFits(to, size) /\ (skipped \/ within),
                            CopyCost(SizeOf(to, size), MemoryLen, size), <<>>,
                            IF skipped THEN frame.memory
                            ELSE StoreData(frame.memory, to, Slice(frame.subReturn, from, size))))
-----------------------------------------------------------------------------
(* Block and blob hashes.                                                  *)

\* The store's hash of a block, as a word.
BlockHash(number) == (number + 7) % Modulus

OpBlockhash ==
    /\ AtOpcode("BLOCKHASH")
    /\ LET number == Arg(frame, 1)
           current == Environment["NUMBER"]
       IN  Becomes(Performed(frame, 1, 20,
                     <<IF number < current - BlockWindow \/ number >= current THEN 0 ELSE BlockHash(number)>>))

\* An index just past the last hash passes the check and is an internal error.
OpBlobhash ==
    /\ AtOpcode("BLOBHASH")
    /\ LET index == Arg(frame, 1)
           g == Performed(frame, 1, 3, <<IF index > Len(BlobHashes) THEN 0 ELSE BlobHashes[index + 1]>>)
       IN  Becomes(IF Len(frame.stack) > 0 /\ Affords(frame, 3) /\ index = Len(BlobHashes)
                   THEN [frame EXCEPT !.at = "internal"] ELSE g)
-----------------------------------------------------------------------------
(* Sub-contexts, as STATICCALL to a warm address: what the caller does with *)
(* its memory and gas.  What the sub-context does is in module Levm.       *)

\* The frame after a sub-context that used gas, returned an output and a flag.
CallReturned(f, argsEnd, ret, retSize, used, output, success) ==
    [f EXCEPT !.gasUsed = Spent(f, used), !.subReturn = output, !.stack = <<success>> \o @,
              !.memory = StoreRange(Resize(@, argsEnd), ret, retSize, output)]

FrameStaticcall ==
    /\ AtOpcode("STATICCALL")
    /\ LET args == Arg(frame, 3)
           argsSize == Arg(frame, 4)
           ret == Arg(frame, 5)
           retSize == Arg(frame, 6)
           new == Larger(SizeOf(args, argsSize), SizeOf(ret, retSize))
           g == InMemory(frame, 6, SizeFits(args, argsSize) /\ SizeFits(ret, retSize),
                         PlainCallCost(ExpansionCost(new, MemoryLen), FALSE), <<>>, frame.memory)
           limit == Smaller(Arg(frame, 1), MaxMessageCallGas(g.gasLimit - g.gasUsed))
       IN  IF g.at = "failed" THEN Becomes(g)
           ELSE \E used \in {0, limit}, output \in SubOutputs, success \in {0, 1} :
                  Becomes(CallReturned(g, IF argsSize = 0 THEN 0 ELSE args + argsSize, ret, retSize,
                                    used, output, success))
-----------------------------------------------------------------------------
(* The ends of a frame.                                                    *)

\* RETURN of nothing checks nothing else; REVERT keeps the gas that is left.
Halted(f, at) ==
    LET offset == Arg(f, 1)
        size == Arg(f, 2)
        grown == IF size = 0 THEN f.memory ELSE Resize(f.memory, offset + size)
        g == InMemory(f, 2, SizeFits(offset, size), ExpansionCost(SizeOf(offset, size), Len(f.memory)), <<>>, grown)
    IN  IF g.at = "failed" THEN g
        ELSE [g EXCEPT !.at = at, !.output = Slice(grown, offset, size)]

OpReturn == AtOpcode("RETURN") /\ Becomes(Halted(frame, "stopped"))
FrameRevert == AtOpcode("REVERT") /\ Becomes(Halted(frame, "reverted"))
FrameStop == AtOpcode("STOP") /\ Becomes([frame EXCEPT !.at = "stopped"])

\* INVALID, and a byte that is no opcode
FrameInvalid == AtOpcode("INVALID") /\ Becomes(Fail(frame))
-----------------------------------------------------------------------------
FrameInit ==
    /\ \E p \in Programs : frame = FrameOf(p)
    /\ decoded = {} /\ executed = {}

FrameNext ==
    \/ OpBinary \/ OpExp \/ OpUnary \/ OpTernary
    \/ OpPop \/ OpPush \/ OpDup \/ OpSwap
    \/ OpJumpdest \/ OpJump \/ OpJumpi \/ OpWord
    \/ OpMload \/ OpMstore \/ OpMcopy \/ OpKeccak256 \/ FrameLog
    \/ OpCalldataload \/ OpCopy \/ OpReturndatacopy
    \/ OpBlockhash \/ OpBlobhash \/ FrameStaticcall
    \/ OpReturn \/ FrameRevert \/ FrameStop \/ FrameInvalid

FrameSpec == FrameInit /\ [][FrameNext]_frameVars
-----------------------------------------------------------------------------
(* Type invariant: the stack holds words and stays within its limit, the   *)
(* memory holds whole words, and a frame never uses more gas than it has.  *)
FrameTypeOK ==
    /\ frame.at \in {"running", "stopped", "reverted", "failed", "internal"}
    /\ frame.stack \in Seq(Word) /\ Len(frame.stack) <= STACK_LIMIT
    /\ \A i \in DOMAIN frame.memory : frame.memory[i] \in 0 .. 2^ByteBits - 1
    /\ Len(frame.memory) % WordBytes = 0
    /\ frame.gasUsed \in 0 .. frame.gasLimit

(* No byte is both executed as an opcode and read as push data: the scan   *)
(* of get_valid_jump_destinations and the jumps and pushes of the run      *)
(* agree on where instructions begin, however the frame jumps.             *)
NoDataExecuted == executed \cap decoded = {}

(* What holds in every state of a frame: its types and bounds, and that it *)
(* executes no push data.                                                  *)
FrameSound == FrameTypeOK /\ NoDataExecuted

(* A step that ran a handler of arithmetic.rs or bitwise_comparison.rs     *)
(* leaves the word that the integers behind the operands call for.         *)
WordsRight ==
    \A op \in DOMAIN BinaryCost :
       AtOpcode(op) /\ frame'.at = "running"
         => BinaryRight(op, Arg(frame, 1), Arg(frame, 2), frame'.stack[1])

(* Memory only grows, and growing costs at least the difference of the     *)
(* costs of the two sizes ("only the additional bytes of memory must be    *)
(* paid for", memory.rs), except in a RETURNDATACOPY of size zero.         *)
MemoryPaid ==
    /\ Len(frame'.memory) >= Len(frame.memory)
    /\ ~(AtOpcode("RETURNDATACOPY") /\ frame.stack[3] = 0)
         => frame'.gasUsed - frame.gasUsed >= MemoryCost(Len(frame'.memory)) - MemoryCost(Len(frame.memory))

(* The same without the exception.                                         *)
MemoryAlwaysPaid ==
    [][frame'.gasUsed - frame.gasUsed >= MemoryCost(Len(frame'.memory)) - MemoryCost(Len(frame.memory))]_frameVars

\* The bytes that the step's copy leaves at a destination, by its source.
CopiedFrom(op) ==
    CASE op = "MCOPY" -> frame.memory
      [] op = "RETURNDATACOPY" -> frame.subReturn
      [] OTHER -> Source(frame, op)

(* A copy leaves at its destination the bytes its source had before the    *)
(* step, zeros past the source's end, and no other byte changes: also when *)
(* the ranges of an MCOPY overlap.                                         *)
CopiesRight ==
    \A op \in {"MCOPY", "CALLDATACOPY", "CODECOPY", "RETURNDATACOPY"} :
       AtOpcode(op) /\ frame'.at = "running"
         => \A i \in 0 .. Len(frame'.memory) - 1 :
              ByteAt(frame'.memory, i) =
                IF i \in Arg(frame, 1) .. Arg(frame, 1) + Arg(frame, 3) - 1
                THEN ByteAt(CopiedFrom(op), Arg(frame, 2) + i - Arg(frame, 1))
                ELSE ByteAt(frame.memory, i)

(* Every handler of a frame does its part: the words, the memory it pays   *)
(* for, and the bytes it copies.                                           *)
OpcodesRight == [][WordsRight /\ MemoryPaid /\ CopiesRight]_frameVars

(* op_blobhash says of its lookup "This should never fail because we check *)
(* if the index fits above".                                               *)
LookupsSucceed == frame.at # "internal"

==============================================================================
