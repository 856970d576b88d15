-------------------------------- MODULE Levm --------------------------------
(***************************************************************************)
(* A transaction executed by LEVM (crates/vm/levm/src/vm.rs, the handlers  *)
(* of opcode_handlers/system.rs and the ones that touch accounts), and the *)
(* block that executes it (execute_block of crates/vm/vm.rs, feature       *)
(* levm).  The Rust recursion VM::execute -> opcode -> generic_call ->     *)
(* VM::execute is the sequence frames, the running frame last.  What the   *)
(* contracts' code does is a choice: any opcode of tx.ops, with operands   *)
(* from small sets.  The opcodes that act on one frame are in EvmFrame.    *)
(*                                                                         *)
(* The accounts, the substate, the refund counter and the transient        *)
(* storage are one record, world: what execute backs up and restore_state  *)
(* puts back.  An error raised by a check is the end of the frame, so a    *)
(* check that fails has the effect of FrameFails.                          *)
(***************************************************************************)
EXTENDS Integers, Sequences, FiniteSets, FiniteSetsExt

\* The gas schedule, on the words of the code.
LOCAL INSTANCE EvmGas WITH ByteBits <- 8, WordBytes <- 32

CONSTANTS
    Address, Key,            \* addresses, storage keys
    Precompiles,             \* addresses of precompiled contracts
    PrecompileCosts,         \* what a precompile costs on some calldata
    Databases,               \* the accounts of the parent block
    Txs,                     \* the transactions that a block may hold
    CreateAddress(_, _),     \* calculate_create_address(sender, nonce)
    Create2Address(_),       \* calculate_create2_address(deployer), of one salt and init code
    Coinbase, BaseFee, BlockGasLimit,
    Callees,                 \* the addresses that contracts name
    Values, Gases, Sizes,    \* operands: ether, gas for a call, sizes of memory ranges
    Words,                   \* values of a storage slot
    Outputs,                 \* what init code returns: [size, prefix]
    MaxDepth,                \* 1024 in the code
    MaxNonce,                \* u64::MAX in the code
    EarlyFunding,            \* may ether reach an address before an account is created there?
    MaxSteps, MaxTxs         \* bounds: opcodes of a transaction, transactions of a block

ASSUME LevmAssumption ==
    /\ Precompiles \subseteq Address /\ Coinbase \in Address
    /\ EarlyFunding \in BOOLEAN /\ MaxSteps \in Nat /\ MaxTxs \in Nat

VARIABLES
    db,        \* the accounts of the store, at the parent block
    after,     \* the same with the account updates of the transactions so far
    tx,        \* the transaction that runs
    phase,     \* where transact is
    world,     \* [cache, touched, slots, created, destroyed, refunded, transient]
    frames,    \* the call frames, the running one last
    report,    \* the TransactionReport: [ok, gasUsed, refunded, logs]
    steps,     \* opcodes executed by the transaction
    undone,    \* history: the logs of the frames that failed
    done       \* history: the transactions that were executed

txVars == <<db, after, tx, phase, world, frames, report, steps, undone, done>>
-----------------------------------------------------------------------------
(* Accounts: the cache over the database.                                  *)

\* An account as the cache holds it: the slots that were accessed.
FromDb(a) == [balance |-> db[a].balance, nonce |-> db[a].nonce, code |-> db[a].code, slots |-> <<>>]

Account(w, a) == IF a \in DOMAIN w.cache THEN w.cache[a] ELSE FromDb(a)

InsertAccount(w, a, account) ==
    [w EXCEPT !.cache = [x \in DOMAIN w.cache \cup {a} |-> IF x = a THEN account ELSE w.cache[x]]]

RemoveAccount(w, a) ==
    [w EXCEPT !.cache = [x \in DOMAIN w.cache \ {a} |-> w.cache[x]]]

IncreaseBalance(w, a, n) ==
    InsertAccount(w, a, [Account(w, a) EXCEPT !.balance = @ + n])

DecreaseBalance(w, a, n) ==
    InsertAccount(w, a, [Account(w, a) EXCEPT !.balance = @ - n])

IncrementNonce(w, a) ==
    InsertAccount(w, a, [Account(w, a) EXCEPT !.nonce = @ + 1])

Transfer(w, from, to, n) == IncreaseBalance(DecreaseBalance(w, from, n), to, n)

HasCode(account) == account.code # "none"
HasCodeOrNonce(account) == HasCode(account) \/ account.nonce # 0
IsEmpty(account) == account.balance = 0 /\ account.nonce = 0 /\ ~HasCode(account)

\* get_account caches what it reads.
GetAccount(w, a) == InsertAccount(w, a, Account(w, a))

\* access_account: the address becomes warm.
AccessAccount(w, a) == [w EXCEPT !.touched = @ \cup {a}]
IsCold(w, a) == a \notin w.touched

\* access_storage_slot: the slot becomes warm, and is cached with its account.
Slot(w, a, k) ==
    IF k \in DOMAIN Account(w, a).slots THEN Account(w, a).slots[k]
    ELSE [original |-> db[a].storage[k], current |-> db[a].storage[k]]

PutSlot(w, a, k, slot) ==
    InsertAccount(w, a,
        [Account(w, a) EXCEPT !.slots =
            [x \in DOMAIN Account(w, a).slots \cup {k} |->
                IF x = k THEN slot ELSE Account(w, a).slots[x]]])

AccessSlot(w, a, k) ==
    PutSlot([w EXCEPT !.slots = @ \cup {<<a, k>>}], a, k, Slot(w, a, k))
-----------------------------------------------------------------------------
(* Call frames and their gas.                                              *)

Top == frames[Len(frames)]
Below == SubSeq(frames, 1, Len(frames) - 1)

Remaining(f) == f.gasLimit - f.gasUsed
CanSpend(f, cost) == f.gasUsed + cost <= f.gasLimit
Spend(f, cost) == [f EXCEPT !.gasUsed = @ + cost]

\* The memory that a range needs, and a frame whose memory holds it.
MemoryFor(f, size) == Larger(f.memory, MemorySizeFor(0, size))
WithMemory(f, size) == [f EXCEPT !.memory = MemoryFor(f, size)]

\* A frame that DELEGATECALL makes is never static.
NewFrameMayWrite(sender, to, codeAddress, code, value, static, gas, isCreate, moves, backup, before) ==
    [sender |-> sender, to |-> to, codeAddress |-> codeAddress, code |-> code, value |-> value,
     isStatic |-> static /\ moves, gasLimit |-> gas, gasUsed |-> 0, isCreate |-> isCreate, moves |-> moves,
     memory |-> 0, logs |-> <<>>, success |-> TRUE, backup |-> backup, before |-> before]

\* CallFrame::new; success is the word that the last call or creation pushed, backup is what execute saves on entry, before is the world
\* that the caller's opcode found (history).
NewFrame(sender, to, codeAddress, code, value, static, gas, isCreate, moves, backup, before) ==
    [sender |-> sender, to |-> to, codeAddress |-> codeAddress, code |-> code, value |-> value,
     isStatic |-> static, gasLimit |-> gas, gasUsed |-> 0, isCreate |-> isCreate, moves |-> moves,
     memory |-> 0, logs |-> <<>>, success |-> TRUE, backup |-> backup, before |-> before]
-----------------------------------------------------------------------------
(* Before the execution: VM::new and prepare_execution.                    *)

BLOB_GAS_PER_BLOB == 131072
INIT_CODE_MAX_SIZE == 49152
MAX_CODE_SIZE == 24576
MAX_BLOB_COUNT == 6

MaxFee(t) == IF t.type = "legacy" THEN t.price ELSE t.maxFee

\* effective_gas_price
GasPrice(t) == IF t.type = "legacy" THEN t.price ELSE Smaller(t.priority, t.maxFee - BaseFee) + BaseFee

\* get_base_fee_per_blob_gas, of a block without excess blob gas
BlobBaseFee == FakeExponential(1, 0, 3338477)

BlobFee(t) == t.blobs * BLOB_GAS_PER_BLOB * BlobBaseFee
MaxBlobFee(t) == IF t.type = "blob" THEN t.maxBlobFee * t.blobs * BLOB_GAS_PER_BLOB ELSE 0

UpFrontCost(t) == GasPrice(t) * t.gas + t.value + BlobFee(t)

\* add_intrinsic_gas
IntrinsicGas(t) ==
    TxCalldata(t.zeros, t.nonzeros) + TX_BASE_COST
    + (IF t.isCreate THEN CREATE_BASE_COST + 2 * WordsOf(t.zeros + t.nonzeros) ELSE 0)
    + AccessListCost(Cardinality({e[1] : e \in t.accessList}), Cardinality(t.accessList))

\* The numbered checks of prepare_execution, in its order.
Valid(t) ==
    /\ db[t.from].balance >= MaxFee(t) * t.gas + t.value + MaxBlobFee(t)
    /\ db[t.from].balance >= UpFrontCost(t)
    /\ MaxFee(t) >= BaseFee
    /\ t.isCreate => t.zeros + t.nonzeros <= INIT_CODE_MAX_SIZE
    /\ IntrinsicGas(t) <= t.gas
    /\ db[t.from].nonce < MaxNonce
    /\ t.type # "legacy" => t.priority <= t.maxFee
    /\ ~HasCode(db[t.from])
    /\ t.gas <= BlockGasLimit
    /\ t.type = "blob" =>
          /\ t.maxBlobFee >= BlobBaseFee
          /\ t.blobs > 0
          /\ t.validHashes
          /\ t.blobs <= MAX_BLOB_COUNT
          /\ ~t.isCreate

Receiver(t) == IF t.isCreate THEN CreateAddress(t.from, db[t.from].nonce) ELSE t.to

\* VM::new: a fresh cache, and the addresses that are warm from the start.
NewWorld(t) ==
    [cache |-> <<>>,
     touched |-> {t.from, Coinbase, Receiver(t)} \cup Precompiles \cup {e[1] : e \in t.accessList},
     slots |-> t.accessList,
     created |-> IF t.isCreate THEN {Receiver(t)} ELSE {},
     destroyed |-> {}, refunded |-> 0, transient |-> <<>>]

\* The sender pays up front and its nonce grows; the receiver of a call is credited.
Prepared(t) ==
    LET paid == IncrementNonce(DecreaseBalance(NewWorld(t), t.from, UpFrontCost(t)), t.from)
    IN  IF t.isCreate THEN paid ELSE IncreaseBalance(paid, t.to, t.value)

FirstFrame(t, w) ==
    Spend(NewFrame(t.from, Receiver(t), Receiver(t),
                   IF t.isCreate THEN "some" ELSE Account(w, t.to).code,
                   t.value, FALSE, t.gas, t.isCreate, FALSE, w, w),
          IntrinsicGas(t))

NoReport == [ok |-> FALSE, gasUsed |-> 0, refunded |-> 0, logs |-> <<>>]

\* execute_block's .unwrap(): a transaction that fails a check ends the node.
RejectTx ==
    /\ phase = "idle" /\ Cardinality(done) < MaxTxs
    /\ \E t \in Txs \ done : tx' = t /\ ~Valid(t)
    /\ phase' = "panicked"
    /\ UNCHANGED <<db, after, world, frames, report, steps, undone, done>>

Starts(t, w) ==
    /\ tx' = t
    /\ world' = w
    /\ phase' = "executing"
    /\ frames' = <<FirstFrame(t, w)>>
    /\ report' = NoReport
    /\ steps' = 0 /\ undone' = {}
    /\ UNCHANGED <<db, after, done>>

BeginCall ==
    /\ phase = "idle" /\ Cardinality(done) < MaxTxs
    /\ \E t \in Txs \ done : Valid(t) /\ ~t.isCreate /\ Starts(t, Prepared(t))

\* transact: the created account is in the cache before its code runs.
BeginCreate ==
    /\ phase = "idle" /\ Cardinality(done) < MaxTxs
    /\ \E t \in Txs \ done :
          LET new == Account(Prepared(t), Receiver(t))
          IN  /\ Valid(t) /\ t.isCreate /\ ~HasCodeOrNonce(new)
              /\ Starts(t, InsertAccount(Prepared(t), Receiver(t),
                     [balance |-> new.balance + t.value, nonce |-> 1, code |-> "none", slots |-> <<>>]))

\* handle_create_non_empty_account
BeginOccupied ==
    /\ phase = "idle" /\ Cardinality(done) < MaxTxs
    /\ \E t \in Txs \ done :
          /\ Valid(t) /\ t.isCreate /\ HasCodeOrNonce(Account(Prepared(t), Receiver(t)))
          /\ tx' = t
          /\ world' = Prepared(t)
          /\ report' = [NoReport EXCEPT !.gasUsed = t.gas]
    /\ phase' = "executed"
    /\ steps' = 0 /\ undone' = {}
    /\ UNCHANGED <<db, after, frames, done>>

-----------------------------------------------------------------------------
(* The end of a frame: execute returns, and its caller goes on.            *)

LogsOf(f) == {f.logs[i] : i \in 1 .. Len(f.logs)}

\* The rest of generic_call, after execute.
AfterCall(parent, child, ok, used, w) ==
    /\ frames' = Append(SubSeq(Below, 1, Len(Below) - 1),
                        [parent EXCEPT !.gasUsed = @ + used, !.logs = @ \o child.logs,
                                       !.success = ok])
    /\ world' = IF ~ok /\ child.moves THEN Transfer(w, child.to, child.sender, child.value) ELSE w

\* The rest of generic_create: the gas that is left returns; an account that was
\* not deployed leaves the cache.
AfterCreate(parent, child, ok, used, w) ==
    /\ frames' = Append(SubSeq(Below, 1, Len(Below) - 1),
                        [parent EXCEPT !.gasUsed = @ - (child.gasLimit - used), !.logs = @ \o child.logs,
                                       !.success = ok])
    /\ world' = IF ok THEN w
                ELSE [RemoveAccount(IncreaseBalance(w, child.sender, child.value), child.to)
                         EXCEPT !.created = @ \ {child.to}]

\* The frame ends with the world w, and has used that much gas.
Ends(ok, used, w) ==
    /\ undone' = IF ok THEN undone ELSE undone \cup LogsOf(Top)
    /\ IF Len(frames) = 1
       THEN /\ phase' = "executed"
            /\ world' = w
            /\ frames' = <<>>
            /\ report' = [ok |-> ok, gasUsed |-> used, refunded |-> w.refunded, logs |-> Top.logs]
       ELSE /\ UNCHANGED <<phase, report>>
            /\ IF Top.isCreate
               THEN AfterCreate(Below[Len(Below)], Top, ok, used, w)
               ELSE AfterCall(Below[Len(Below)], Top, ok, used, w)
    /\ UNCHANGED <<db, after, tx, steps, done>>

\* A restore_state that forgets the refund counter.
RestoredRefunds(f) == [f.backup EXCEPT !.refunded = world.refunded]

\* restore_state
Restored(f) == f.backup

\* An error other than a revert: all the gas is consumed.
FrameFails == Ends(FALSE, Top.gasLimit, Restored(Top))

Executing == phase = "executing" /\ Top.codeAddress \notin Precompiles
HasOpcodes == Executing /\ HasCode(Top)

OpStop == Executing /\ ~Top.isCreate /\ Ends(TRUE, Top.gasUsed, world)

\* RETURN of init code: the code is deployed unless it is too large, begins with
\* 0xef or cannot be paid for.
OpReturnCode ==
    /\ Executing /\ Top.isCreate
    /\ \E output \in {o \in Outputs : HasCode(Top) \/ o.size = 0} :
          LET cost == CODE_DEPOSIT_COST * output.size
              deployed == [Account(world, Top.to) EXCEPT !.code = IF output.size = 0 THEN "none" ELSE "some"]
          IN  IF output.size <= MAX_CODE_SIZE /\ ~output.prefix /\ CanSpend(Top, cost)
              THEN Ends(TRUE, Top.gasUsed + cost, InsertAccount(world, Top.to, deployed))
              ELSE FrameFails

OpRevert == HasOpcodes /\ Ends(FALSE, Top.gasUsed, Restored(Top))

\* INVALID, an unknown opcode, and every check of EvmFrame that fails
OpInvalid == HasOpcodes /\ FrameFails

\* execute_precompile: the cost is compared with the gas limit of the frame.
RunPrecompile ==
    /\ phase = "executing" /\ Top.codeAddress \in Precompiles
    /\ \E cost \in PrecompileCosts :
          IF Top.gasLimit < cost THEN FrameFails ELSE Ends(TRUE, Top.gasUsed + cost, world)

\* An error that parses no input
PrecompileErrs ==
    /\ phase = "executing" /\ Top.codeAddress \in Precompiles
    /\ FrameFails
-----------------------------------------------------------------------------
(* Opcodes of the running frame.                                           *)

Running(op) == HasOpcodes /\ op \in tx.ops /\ steps < MaxSteps

\* The frame becomes f and pays for the opcode, and the world becomes w.
Handled(allowed, f, cost, w) ==
    IF allowed /\ CanSpend(f, cost)
    THEN /\ frames' = Append(Below, Spend(f, cost))
         /\ world' = w
         /\ steps' = steps + 1
         /\ UNCHANGED <<db, after, tx, phase, report, undone, done>>
    ELSE FrameFails

\* Any opcode that only costs gas.
OpCompute == Running("COMPUTE") /\ \E gas \in Gases : Handled(TRUE, Top, gas, world)

\* BALANCE, EXTCODESIZE, EXTCODECOPY, EXTCODEHASH
OpAccess ==
    /\ Running("BALANCE")
    /\ \E a \in Callees : Handled(TRUE, Top, AddressAccessCost(IsCold(world, a)), AccessAccount(world, a))

OpSload ==
    /\ Running("SLOAD")
    /\ \E k \in Key :
          Handled(TRUE, Top, SloadCost(<<Top.to, k>> \notin world.slots), AccessSlot(world, Top.to, k))

\* The refund counter after a slot is written.
SstoreRefunds(slot, new, refunded) ==
    IF new = slot.current THEN refunded
    ELSE IF slot.current = slot.original
         THEN IF slot.original # 0 /\ new = 0 THEN refunded + 4800 ELSE refunded
    ELSE IF slot.original # 0
         THEN IF slot.current = 0 THEN refunded - 4800
              ELSE IF new = 0 THEN refunded + 4800 ELSE refunded
    ELSE IF new = slot.original THEN refunded + 19900 ELSE refunded

OpSstore ==
    /\ Running("SSTORE")
    /\ \E k \in Key, new \in Words :
          LET slot == Slot(world, Top.to, k)
              refunded == SstoreRefunds(slot, new, world.refunded)
          IN  Handled(~Top.isStatic /\ Remaining(Top) > SSTORE_STIPEND /\ refunded >= 0,
                      Top,
                      SstoreCost(slot.original, slot.current, new, <<Top.to, k>> \notin world.slots),
                      [PutSlot(AccessSlot(world, Top.to, k), Top.to, k, [slot EXCEPT !.current = new])
                          EXCEPT !.refunded = refunded])

\* TSTORE: the key is the caller's address with the slot's key.
OpTstore ==
    /\ Running("TSTORE")
    /\ \E k \in Key, new \in Words :
          Handled(~Top.isStatic, Top, 100,
                  [world EXCEPT !.transient =
                      [x \in DOMAIN @ \cup {<<Top.sender, k>>} |->
                          IF x = <<Top.sender, k>> THEN new ELSE @[x]]])

\* A log is known by the step that emitted it.
OpLog ==
    /\ Running("LOG")
    /\ \E size \in Sizes :
          Handled(~Top.isStatic,
                  [WithMemory(Top, size) EXCEPT !.logs = Append(@, steps)],
                  LogCost(MemoryFor(Top, size), Top.memory, size, 1), world)

\* SELFDESTRUCT
OpSelfdestruct ==
    /\ Running("SELFDESTRUCT")
    /\ \E target \in Callees :
          LET self == Account(world, Top.to)
              cost == SelfdestructCost(IsCold(world, target), IsEmpty(Account(world, target)), self.balance)
              moved == DecreaseBalance(IncreaseBalance(AccessAccount(AccessAccount(world, target), Top.to),
                                                       target, self.balance), Top.to, self.balance)
          IN  /\ EarlyFunding \/ HasCodeOrNonce(Account(world, target)) \/ target = Coinbase
              /\ IF ~Top.isStatic /\ CanSpend(Top, cost)
                 THEN Ends(TRUE, Top.gasUsed + cost,
                           IF Top.to \in world.created
                           THEN [moved EXCEPT !.destroyed = @ \cup {Top.to}] ELSE moved)
                 ELSE FrameFails

-----------------------------------------------------------------------------
(* Calls and creations: a frame above the running one.                     *)

\* Ether reaches an address that holds no account only if EarlyFunding.
MayReceive(a, value) ==
    EarlyFunding \/ value = 0 \/ a \in Precompiles \cup {Coinbase} \/ HasCodeOrNonce(Account(world, a))

\* generic_call, by a frame that has paid cost for the opcode
GenericCall(cost, size, gas, value, sender, to, codeAddress, moves, static, w) ==
    LET caller == [Spend(Top, cost) EXCEPT !.success = FALSE]
        entered == AccessAccount(AccessAccount(w, sender), codeAddress)
        limit == Smaller(gas, MaxMessageCallGas(Remaining(caller)))
        moved == IF moves THEN Transfer(entered, sender, to, value) ELSE entered
    IN  /\ steps' = steps + 1
        /\ IF (moves /\ Account(w, sender).balance < value) \/ Len(frames) > MaxDepth
           THEN /\ frames' = Append(Below, caller)
                /\ world' = AccessAccount(w, sender)
           ELSE /\ frames' = Append(Append(Below, WithMemory(caller, size)),
                       NewFrame(sender, to, codeAddress, Account(w, codeAddress).code, value, static,
                                limit, FALSE, moves, moved, world))
                /\ world' = moved
        /\ UNCHANGED <<db, after, tx, phase, report, undone, done>>

Expansion(f, size) == ExpansionCost(MemoryFor(f, size), f.memory)

OpCall ==
    /\ Running("CALL")
    /\ \E callee \in Callees, value \in Values, gas \in Gases, size \in Sizes :
          LET cost == CallCost(Expansion(Top, size), IsCold(world, callee),
                               IsEmpty(Account(world, callee)), value)
          IN  /\ MayReceive(callee, value)
              /\ IF (Top.isStatic /\ value # 0) \/ ~CanSpend(Top, cost)
                 THEN FrameFails
                 ELSE GenericCall(cost, size,
                                  IF value = 0 THEN gas ELSE gas + CALL_POSITIVE_VALUE_STIPEND,
                                  value, Top.to, callee, callee, TRUE, Top.isStatic,
                                  AccessAccount(world, callee))

OpCallcode ==
    /\ Running("CALLCODE")
    /\ \E callee \in Callees, value \in Values, gas \in Gases, size \in Sizes :
          LET cost == CallcodeCost(Expansion(Top, size), IsCold(world, callee), value)
          IN  IF ~CanSpend(Top, cost) THEN FrameFails
              ELSE GenericCall(cost, size,
                               IF value = 0 THEN gas ELSE gas + CALL_POSITIVE_VALUE_STIPEND,
                               value, Top.to, Top.to, callee, TRUE, Top.isStatic,
                               AccessAccount(world, callee))

OpDelegatecall ==
    /\ Running("DELEGATECALL")
    /\ \E callee \in Callees, gas \in Gases, size \in Sizes :
          LET cost == PlainCallCost(Expansion(Top, size), IsCold(world, callee))
          IN  IF ~CanSpend(Top, cost) THEN FrameFails
              ELSE GenericCall(cost, size, gas, Top.value, Top.sender, Top.to, callee, FALSE,
                               Top.isStatic, AccessAccount(world, callee))

OpStaticcall ==
    /\ Running("STATICCALL")
    /\ \E callee \in Callees, gas \in Gases, size \in Sizes :
          LET cost == PlainCallCost(Expansion(Top, size), IsCold(world, callee))
          IN  IF ~CanSpend(Top, cost) THEN FrameFails
              ELSE GenericCall(cost, size, gas, 0, Top.to, callee, callee, TRUE, TRUE,
                               AccessAccount(world, callee))

\* generic_create, by a frame that has paid cost for the opcode
GenericCreate(cost, size, value, new) ==
    LET paid == [WithMemory(Spend(Top, cost), size) EXCEPT !.success = FALSE]
        reserved == MaxMessageCallGas(Remaining(paid))
        deployer == Account(world, Top.to)
        touched == AccessAccount(AccessAccount(world, Top.to), new)
        account == [balance |-> value + Account(world, new).balance, nonce |-> 1,
                    code |-> "none", slots |-> <<>>]
        created == [DecreaseBalance(IncrementNonce(InsertAccount(touched, new, account), Top.to),
                                    Top.to, value) EXCEPT !.created = @ \cup {new}]
    IN  /\ steps' = steps + 1
        /\ IF deployer.balance < value \/ Len(frames) > MaxDepth \/ deployer.nonce = MaxNonce
           THEN frames' = Append(Below, paid) /\ world' = touched
           ELSE IF HasCodeOrNonce(Account(world, new))
           THEN /\ frames' = Append(Below, Spend(paid, reserved))
                /\ world' = IncrementNonce(GetAccount(touched, new), Top.to)
           ELSE /\ frames' = Append(Append(Below, Spend(paid, reserved)),
                       NewFrame(Top.to, new, new, IF size = 0 THEN "none" ELSE "some", value, FALSE,
                                reserved, TRUE, FALSE, created, IncrementNonce(world, Top.to)))
                /\ world' = created
        /\ UNCHANGED <<db, after, tx, phase, report, undone, done>>

\* CREATE and CREATE2
OpCreate ==
    /\ Running("CREATE")
    /\ \E value \in Values, size \in Sizes, is2 \in BOOLEAN :
          LET cost == GasCreate(Expansion(Top, size), size, is2)
              new == IF is2 THEN Create2Address(Top.to)
                     ELSE CreateAddress(Top.to, Account(world, Top.to).nonce)
          IN  IF CanSpend(Top, cost) /\ ~Top.isStatic /\ size <= INIT_CODE_MAX_SIZE
              THEN GenericCreate(cost, size, value, new)
              ELSE FrameFails
-----------------------------------------------------------------------------
(* After the execution.                                                    *)

\* A failed transaction undoes the transfer of its value; the receiver leaves the cache.
Undone(w) ==
    IF report.ok THEN w ELSE IncreaseBalance(RemoveAccount(w, Receiver(tx)), tx.from, tx.value)

Refund == Smaller(report.refunded, report.gasUsed \div 5)

PayCoinbase(w, fee) == IF fee = 0 THEN w ELSE IncreaseBalance(w, Coinbase, fee)

\* The coinbase is paid for the refunded gas too.
SettledGross(w) ==
    LET returned == IncreaseBalance(w, tx.from, GasPrice(tx) * (tx.gas - report.gasUsed + Refund))
        paid == PayCoinbase(returned, (GasPrice(tx) - BaseFee) * report.gasUsed)
    IN  [paid EXCEPT !.cache = [a \in DOMAIN paid.cache \ paid.destroyed |-> paid.cache[a]]]

\* post_execution_changes
Settled(w) ==
    LET returned == IncreaseBalance(w, tx.from, GasPrice(tx) * (tx.gas - report.gasUsed + Refund))
        paid == PayCoinbase(returned, (GasPrice(tx) - BaseFee) * (report.gasUsed - Refund))
    IN  [paid EXCEPT !.cache = [a \in DOMAIN paid.cache \ paid.destroyed |-> paid.cache[a]]]

\* The account updates that execute_block makes of the new state, applied to the store.
Updated(accounts, w) ==
    [a \in Address |->
        IF a \notin DOMAIN w.cache THEN accounts[a]
        ELSE [balance |-> w.cache[a].balance, nonce |-> w.cache[a].nonce, code |-> w.cache[a].code,
              storage |-> [k \in Key |-> IF k \in DOMAIN w.cache[a].slots THEN w.cache[a].slots[k].current
                                         ELSE accounts[a].storage[k]]]]

Finish ==
    /\ phase = "executed" /\ report.gasUsed <= tx.gas
    /\ world' = Settled(Undone(world))
    /\ report' = [report EXCEPT !.refunded = Refund]
    /\ after' = Updated(after, world')
    /\ done' = done \cup {tx}
    /\ phase' = "idle"
    /\ UNCHANGED <<db, tx, frames, steps, undone>>

\* More gas was used than there is: an internal error, and execute_block's .unwrap().
FinishFails ==
    /\ phase = "executed" /\ report.gasUsed > tx.gas
    /\ phase' = "panicked"
    /\ UNCHANGED <<db, after, tx, world, frames, report, steps, undone, done>>
-----------------------------------------------------------------------------
NoTx == CHOOSE t \in Txs : TRUE

NoWorld == [cache |-> <<>>, touched |-> {}, slots |-> {}, created |-> {}, destroyed |-> {},
            refunded |-> 0, transient |-> <<>>]

TxInit ==
    /\ db \in Databases
    /\ after = db
    /\ tx = NoTx /\ phase = "idle" /\ world = NoWorld /\ frames = <<>>
    /\ report = NoReport /\ steps = 0 /\ undone = {} /\ done = {}

Opcode ==
    \/ OpStop \/ OpReturnCode \/ OpRevert \/ OpInvalid \/ RunPrecompile \/ PrecompileErrs
    \/ OpCompute \/ OpAccess \/ OpSload \/ OpSstore \/ OpTstore \/ OpLog \/ OpSelfdestruct
    \/ OpCall \/ OpCallcode \/ OpDelegatecall \/ OpStaticcall \/ OpCreate

TxNext == RejectTx \/ BeginCall \/ BeginCreate \/ BeginOccupied \/ Opcode \/ Finish \/ FinishFails

TxSpec == TxInit /\ [][TxNext]_txVars

-----------------------------------------------------------------------------
(* Properties.                                                             *)

\* The accounts as the contracts see them.
View(w) ==
    [a \in Address |->
        [balance |-> Account(w, a).balance, nonce |-> Account(w, a).nonce, code |-> Account(w, a).code,
         storage |-> [k \in Key |-> Slot(w, a, k).current]]]

Visible(w) == <<View(w), w.refunded, w.transient, w.created, w.destroyed>>

Total(accounts) == MapThenSumSet(LAMBDA a : accounts[a].balance, Address)

\* What the sender has paid and nobody has received yet.
Prepaid == GasPrice(tx) * tx.gas + BlobFee(tx)

\* The parts of the state have their types; a frame has used no more gas than its limit.
TypeOK ==
    /\ phase \in {"idle", "executing", "executed", "panicked"}
    /\ DOMAIN world.cache \subseteq Address /\ world.touched \subseteq Address
    /\ world.created \subseteq Address /\ world.destroyed \subseteq world.created
    /\ \A i \in 1 .. Len(frames) : 0 <= frames[i].gasUsed /\ frames[i].gasUsed <= frames[i].gasLimit
    /\ (frames # <<>>) = (phase = "executing")
    /\ steps \in 0 .. MaxSteps

\* The gas of a sub-context comes out of its caller's: a caller that goes on after its
\* child has used all its gas is still within its own limit (63/64 cap of
\* max_message_call_gas, stipend included; the reservation of generic_create).
GasNested ==
    \A i \in 1 .. Len(frames) - 1 :
        LET child == frames[i + 1]
        IN  IF child.isCreate THEN child.gasLimit <= frames[i].gasUsed
            ELSE frames[i].gasUsed + child.gasLimit <= frames[i].gasLimit

\* A call or a creation that pushes 0 has changed nothing that a contract can see: not the
\* accounts, the refunds, the transient storage or the sets of created and destroyed
\* accounts.  A failed transaction changes only the sender and the coinbase.
RevertUndoes ==
    /\ (/\ frames' # <<>> /\ Len(frames') = Len(frames) - 1
        /\ ~frames'[Len(frames')].success) => Visible(world') = Visible(Top.before)
    /\ (phase = "executed" /\ phase' = "idle" /\ ~report.ok) =>
           \A a \in Address \ {tx.from, Coinbase} : after'[a] = after[a]

\* While a static frame runs nothing changes: no account, slot, transient slot or log,
\* whatever it calls with CALL, CALLCODE or DELEGATECALL.
StaticKeepsState ==
    frames # <<>> /\ Top.isStatic =>
       /\ View(world') = View(world) /\ world'.transient = world.transient
       /\ world'.created = world.created /\ world'.destroyed = world.destroyed
       /\ frames' # <<>> => LogsOf(frames'[Len(frames')]) \subseteq
              UNION {LogsOf(frames[i]) : i \in 1 .. Len(frames)}

\* A call is cut off from its caller: it leaves nothing when it fails, and nothing at all
\* when it is static.
CallsIsolated == [][RevertUndoes /\ StaticKeepsState]_txVars

\* The refund counter covers what may be taken back: 4800 for every slot that was cleared.
\* So op_sstore's checked_sub never fails, in any order of writes, calls and reverts.
RefundsCovered ==
    world.refunded >=
        4800 * Cardinality({<<a, k>> \in Address \X Key :
                  Slot(world, a, k).original # 0 /\ Slot(world, a, k).current = 0})

\* During the execution no ether appears or vanishes.
EtherKept == phase = "executing" => Total(View(world)) + Prepaid = Total(db)

\* After it, what is gone is the base fee of the gas used, the blob fee, and the balance of
\* the contracts that were destroyed.
FeesSettled ==
    phase = "executed" /\ phase' = "idle" =>
       Total(after') = Total(after) - BaseFee * (report'.gasUsed - report'.refunded) - BlobFee(tx)
                       - MapThenSumSet(LAMBDA a : Account(world, a).balance, world.destroyed)

\* Every executed transaction increases its sender's nonce by one, failed or not.
NonceOnce ==
    phase = "executed" /\ phase' = "idle" => after'[tx.from].nonce = after[tx.from].nonce + 1

\* A transaction that is over has been paid for, once.
TxSettles == [][FeesSettled /\ NonceOnce]_txVars

\* The logs of a receipt are in the order in which they were emitted, each once.
LogsInOrder == \A i, j \in 1 .. Len(report.logs) : i < j => report.logs[i] < report.logs[j]

\* What holds while a transaction runs: its types, gas that nests, refunds that can be taken
\* back, ether that stays the same, and logs in order.
ExecutionSound == TypeOK /\ GasNested /\ RefundsCovered /\ EtherKept /\ LogsInOrder

\* No log of a frame that failed is in the receipt.  (Does not hold: generic_call and
\* generic_create extend the caller's logs whatever the result.)
LogsOfSuccess == \A i \in 1 .. Len(report.logs) : report.logs[i] \notin undone

\* A valid transaction is executed to its end.  (Does not hold: a transaction to a precompile
\* may use more gas than its limit.)
ValidTxEnds == phase = "panicked" => ~Valid(tx)

==============================================================================
