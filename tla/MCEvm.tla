-------------------------------- MODULE MCEvm -------------------------------
(***************************************************************************)
(* LEVM for TLC.  A behaviour is of one frame that runs a program, on      *)
(* words of two bytes of four bits, or of a transaction: part tells which. *)
(***************************************************************************)
EXTENDS EvmFrame, Levm

VARIABLE part
-----------------------------------------------------------------------------
(* Families of programs for a frame.                                       *)

Op(name) == [op |-> name, n |-> 0, v |-> 0]
OpN(name, n) == [op |-> name, n |-> n, v |-> 0]

\* A byte of data; two of the values are those of opcodes.
Data(v) ==
    IF v = 11 THEN [op |-> "JUMPDEST", n |-> 0, v |-> v]
    ELSE IF v = 6 THEN [op |-> "PUSH", n |-> 1, v |-> v]
    ELSE [op |-> "INVALID", n |-> 0, v |-> v]

Push(word) == <<OpN("PUSH", 2), Data(word \div 16), Data(word % 16)>>
PushByte(v) == <<OpN("PUSH", 1), Data(v)>>

Program(code, gas) == [code |-> code, calldata |-> <<1, 2, 3>>, gas |-> gas, static |-> FALSE]

\* Words at the boundaries of bytes and signs.
Edges == {0, 1, 2, 3, 7, 8, 15, 16, 127, 128, 129, 240, 255}

Calculations ==
    {Program(Push(b) \o Push(a) \o <<Op(op)>>, 255) : a \in Edges, b \in Edges, op \in DOMAIN BinaryCost}
    \cup {Program(Push(b) \o Push(a) \o <<Op("EXP")>>, gas) : a \in {0, 2, 3}, b \in {0, 1, 5, 16}, gas \in {60, 255}}
    \cup {Program(Push(a) \o <<Op(op)>>, 255) : a \in Edges, op \in {"ISZERO", "NOT"}}
    \cup {Program(Push(n) \o Push(b) \o Push(a) \o <<Op(op)>>, 255) :
            a \in {0, 1, 255}, b \in {0, 2, 255}, n \in {0, 1, 7}, op \in {"ADDMOD", "MULMOD"}}

\* Jumps to every place of a short code, data that looks like a destination included.
Alphabet == {Data(11), Data(3), Data(4), OpN("PUSH", 1), Op("JUMP"), Op("JUMPI")}
Jumping ==
    {Program(<<OpN("PUSH", 1), a, OpN("PUSH", 1), b, c, d, Op("JUMPDEST"), OpN("PUSH", 2), Data(0)>>, 60) :
        a \in {Data(4), Data(5), Data(6), Data(11)}, b \in {Data(0), Data(1), Data(4), Data(6)},
        c \in Alphabet, d \in Alphabet}

\* Loops, and the families of stack opcodes.
Stacks ==
    {Program(<<Op("JUMPDEST"), OpN("PUSH", n)>> \o [i \in 1 .. n |-> Data(0)] \o <<Op("JUMP")>>, gas) :
        n \in {0, 1}, gas \in {5, 60, 200}}
    \cup {Program(<<Op("JUMPDEST"), Op("PC"), Op("GAS"), OpN("DUP", n), OpN("SWAP", m), Op("POP"), Op(w),
                    OpN("PUSH", 0), Op("JUMP")>>, 200) :
            n \in {1, 2, 3}, m \in {1, 2, 3}, w \in {"MSIZE", "CODESIZE", "RETURNDATASIZE", "NUMBER", "BLOBBASEFEE", "INVALID"}}
    \cup {Program(Push(a) \o <<Op(op)>>, 40) : a \in {0, 1, 2, 3, 4, 9, 10, 11}, op \in {"BLOCKHASH", "CALLDATALOAD", "POP"}}
    \cup {Program(Push(a) \o <<Op("BLOBHASH")>>, 40) : a \in {0, 2, 3}}

Offsets == {0, 1, 2, 5, 61, 64, 255}
CopySizes == {0, 1, 2, 3, 4}

\* Memory that is written, then copied, hashed, logged, returned or read.
Written == Push(18) \o Push(1) \o <<Op("MSTORE")>>
Memories ==
    {Program(Push(7) \o Push(a) \o <<Op(op)>> \o Push(b) \o <<Op("MLOAD"), Op("MSIZE")>>, gas) :
        a \in Offsets, b \in Offsets, op \in {"MSTORE", "MSTORE8"}, gas \in {30, 250}}
    \cup {Program(Written \o Push(size) \o Push(from) \o Push(to) \o <<Op(op), Op("MSIZE")>>, gas) :
        to \in Offsets, from \in Offsets, size \in CopySizes, op \in {"MCOPY", "CALLDATACOPY", "CODECOPY"}, gas \in {40, 250}}
    \cup {Program(Written \o Push(size) \o Push(from) \o <<Op(op)>>, gas) :
        from \in Offsets, size \in CopySizes, op \in {"KECCAK256", "RETURN", "REVERT"}, gas \in {30, 250}}
    \cup {[Program(Written \o Push(9) \o Push(size) \o Push(from) \o <<OpN("LOG", n)>>, 1300) EXCEPT !.static = s] :
        from \in Offsets, size \in {0, 3}, n \in {0, 1}, s \in BOOLEAN}

\* A call, and a copy of what it returned.
Subcalls ==
    {Program(Push(retSize) \o Push(ret) \o Push(argsSize) \o Push(args) \o Push(0) \o Push(gas) \o <<Op("STATICCALL")>>
             \o Push(size) \o Push(from) \o Push(to) \o <<Op("RETURNDATACOPY"), Op("MSIZE")>>, 250) :
        retSize \in {0, 2}, ret \in {0, 3}, argsSize \in {0, 3}, args \in {2, 255}, gas \in {10, 255},
        size \in {0, 2}, from \in {0, 1}, to \in {0, 6, 255}}

MCPrograms == Calculations \cup Jumping \cup Stacks \cup Memories \cup Subcalls
MCEnvironment == [NUMBER |-> 10, COINBASE |-> 77, CALLER |-> 66]
MCBlobHashes == <<21, 22>>
MCSubOutputs == {<<>>, <<9, 8, 7>>}
-----------------------------------------------------------------------------
(* For a transaction: two senders, of which "t" would create its contract  *)
(* where "a" is; a coinbase, a contract "a" with a slot, a precompile "p", *)
(* and the addresses of the accounts that may be created.                  *)

MCAddress == {"s", "t", "c", "a", "p", "n", "m", "a1", "a2", "n1", "n2", "m1", "m2", "y", "z"}

\* No two creations within the bounds have the same address.
MCCreateAddress(x, nonce) ==
    CASE x = "s" -> "n"
      [] x = "t" -> "a"
      [] x = "a" /\ nonce < 3 -> IF nonce = 1 THEN "a1" ELSE "a2"
      [] x = "n" /\ nonce < 3 -> IF nonce = 1 THEN "n1" ELSE "n2"
      [] x = "m" /\ nonce < 3 -> IF nonce = 1 THEN "m1" ELSE "m2"
      [] x = "z" \/ nonce = 2 -> "y"
      [] OTHER -> "z"

MCCreate2Address(x) == IF x = "a" THEN "m" ELSE IF x = "n" THEN "n2" ELSE "y"

Nobody == [balance |-> 0, nonce |-> 0, code |-> "none", storage |-> [k \in {"k"} |-> 0]]

Base ==
    [x \in MCAddress |->
        CASE x \in {"s", "t"} -> [Nobody EXCEPT !.balance = 2000000]
          [] x = "a" -> [balance |-> 2, nonce |-> 1, code |-> "some", storage |-> [k \in {"k"} |-> 1]]
          [] OTHER -> Nobody]

\* The address of the next contract of the sender holds ether.
Funded == [Base EXCEPT !["n"].balance = 3]

Call == [type |-> "legacy", from |-> "s", to |-> "a", isCreate |-> FALSE, value |-> 1, gas |-> 200000,
         price |-> 3, maxFee |-> 3, priority |-> 1, blobs |-> 0, maxBlobFee |-> 0, validHashes |-> TRUE,
         zeros |-> 0, nonzeros |-> 0, accessList |-> {}, ops |-> {}]
Create == [Call EXCEPT !.isCreate = TRUE, !.nonzeros = 32]
Dynamic == [Call EXCEPT !.type = "dynamic"]
Blob == [Call EXCEPT !.type = "blob", !.blobs = 1, !.maxBlobFee = 1]

Calls == {"CALL", "CALLCODE", "DELEGATECALL", "STATICCALL"}

Scenarios ==
    {[Call EXCEPT !.ops = {"CALL", "SSTORE", "SLOAD"}],
     [Call EXCEPT !.ops = {"DELEGATECALL", "STATICCALL", "CALLCODE", "SSTORE"}],
     [Call EXCEPT !.ops = {"CALL", "CREATE", "SELFDESTRUCT"}],
     [Call EXCEPT !.ops = {"CALL", "DELEGATECALL", "TSTORE", "LOG"}],
     [Call EXCEPT !.ops = {"STATICCALL", "LOG", "TSTORE", "CREATE"}],
     [Dynamic EXCEPT !.ops = {"STATICCALL", "CALLCODE", "CALL", "SELFDESTRUCT"}],
     [Create EXCEPT !.ops = {"CREATE", "SSTORE", "CALL"}],
     [Create EXCEPT !.ops = {"SELFDESTRUCT", "CALL", "LOG"}],
     [Create EXCEPT !.ops = {"COMPUTE", "CREATE"}, !.gas = 90000],
     [Call EXCEPT !.ops = {"BALANCE", "COMPUTE", "SSTORE"}, !.accessList = {<<"a", "k">>}, !.gas = 40000],
     [Blob EXCEPT !.ops = {"SSTORE"}],
     [Create EXCEPT !.from = "t"],
     [Call EXCEPT !.to = "p", !.gas = 22000]}

\* One transaction for each check that may fail.
Invalid ==
    {[Call EXCEPT !.value = 2000000], [Call EXCEPT !.price = 1], [Create EXCEPT !.zeros = 49152],
     [Call EXCEPT !.gas = 20000], [Dynamic EXCEPT !.priority = 4], [Call EXCEPT !.from = "a", !.gas = 0],
     [Call EXCEPT !.gas = 400000], [Blob EXCEPT !.maxBlobFee = 0], [Blob EXCEPT !.blobs = 0],
     [Blob EXCEPT !.validHashes = FALSE], [Blob EXCEPT !.blobs = 7], [Blob EXCEPT !.isCreate = TRUE]}

MCTxs == Scenarios \cup Invalid
MCDatabases == {Base}
MCFunded == {Funded}
MCOutputs == {[size |-> 0, prefix |-> FALSE], [size |-> 32, prefix |-> FALSE], [size |-> 32, prefix |-> TRUE],
              [size |-> 24577, prefix |-> FALSE], [size |-> 900, prefix |-> FALSE]}
-----------------------------------------------------------------------------
\* The part that is not at work is in one fixed state.
FrameIdle == frame = [FrameOf(Program(<<>>, 0)) EXCEPT !.at = "stopped"] /\ decoded = {} /\ executed = {}
TxIdle ==
    /\ db = Base /\ after = Base
    /\ tx = NoTx /\ phase = "idle" /\ world = NoWorld /\ frames = <<>>
    /\ report = NoReport /\ steps = 0 /\ undone = {} /\ done = {}

MCInit ==
    \/ part = "frame" /\ FrameInit /\ TxIdle
    \/ part = "transaction" /\ TxInit /\ FrameIdle
MCNext ==
    /\ UNCHANGED part
    /\ \/ part = "frame" /\ FrameNext /\ UNCHANGED txVars
       \/ part = "transaction" /\ TxNext /\ UNCHANGED frameVars
MCSpec == MCInit /\ [][MCNext]_<<part, frameVars, txVars>>
=============================================================================
