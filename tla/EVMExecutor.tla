---------------------------- MODULE EVMExecutor ----------------------------
(* The contract executor (src/evm/EVMExecutor.cpp) with its stack and its  *)
(* storage.  One executor serves many calls: its stack, its storage and    *)
(* its balances outlive each of them, whether it succeeds or fails.        *)
(*                                                                         *)
(* A program is a sequence of instructions, a PUSHn with its bytes being   *)
(* one.  Most opcodes only pay for themselves; JUMP, JUMPI, RETURN and     *)
(* REVERT do not change the control flow.                                  *)
EXTENDS Integers, Sequences

CONSTANTS
  Contracts,     \* contract addresses
  Accounts,      \* account names
  Words,         \* uint256_t values that programs push
  Programs,      \* the code of the calls
  Limits,        \* the gas limits of the calls
  Values,        \* the values of transactions
  StackLimit,    \* 1024
  W,             \* 2^64
  MaxCalls       \* bound: calls of execute_contract and execute

\* Gas by opcode, for one opcode of each case of the switch; "PUSH_CUT" is a
\* PUSHn whose bytes run past the end of the code.
Gas == [STOP |-> 0, ADD |-> 3, MUL |-> 5, ADDMOD |-> 8, SHA3 |-> 30, ADDRESS |-> 2,
        BALANCE |-> 100, MSTORE |-> 3, SLOAD |-> 100, SSTORE |-> 20000, JUMP |-> 8,
        JUMPI |-> 10, JUMPDEST |-> 1, CREATE |-> 32000, CALL |-> 100, RETURN |-> 0,
        SELFDESTRUCT |-> 5000, PUSH0 |-> 2, PUSH1 |-> 3, PUSH_CUT |-> 3]

Opcodes == DOMAIN Gas \cup {"UNKNOWN"}
Instruction == [op : Opcodes, arg : Words]

ASSUME EVMAssumption ==
  /\ 0 \in Words /\ Words \subseteq Nat
  /\ Programs \subseteq Seq(Instruction)
  /\ Limits \subseteq Nat /\ Values \subseteq Nat
  /\ StackLimit \in Nat /\ MaxCalls \in Nat
  /\ W \in Nat \ {0}

VARIABLES
  stack_, storage_,
  gas_used_, gas_limit_,
  balances,      \* impl_->balances
  call,          \* the call being executed: contract, code, pc, and as history the
                 \* depth of the stack and the storage when it began
  result,        \* the result of the last call
  calls

vars == <<stack_, storage_, gas_used_, gas_limit_, balances, call, result, calls>>

Idle == [running |-> "no"]
Running == [running : {"yes"}, address : Contracts, code : Programs, pc : Nat \ {0}, depth : Nat,
            storage : [Contracts -> [Words -> Words]]]
NoResult == "none"

Init ==
  /\ stack_ = <<>>
  /\ storage_ = [c \in Contracts |-> [k \in Words |-> 0]]
  /\ gas_used_ = 0 /\ gas_limit_ = 0
  /\ balances = [a \in Accounts |-> 0]
  /\ call = Idle
  /\ result = NoResult
  /\ calls = 0

-----------------------------------------------------------------------------
(* execute_contract: the call, the loop over the code, the return *)

execute_contract(c, code, limit) ==
  /\ call = Idle /\ calls < MaxCalls
  /\ calls' = calls + 1
  /\ gas_used_' = 0 /\ gas_limit_' = limit
  /\ call' = [running |-> "yes", address |-> c, code |-> code, pc |-> 1,
              depth |-> Len(stack_), storage |-> storage_]
  /\ UNCHANGED <<stack_, storage_, balances, result>>

Fetched(ops) == call # Idle /\ call.pc <= Len(call.code) /\ call.code[call.pc].op \in ops

Return(success) ==
  /\ call' = Idle
  /\ result' = IF success THEN "success" ELSE "failure"

Advance == [running |-> "yes", address |-> call.address, code |-> call.code,
               pc |-> call.pc + 1, depth |-> call.depth, storage |-> call.storage]

\* Mutant: the last unit of gas cannot be spent.
below_limit(g) == gas_used_ + g < gas_limit_

\* require_gas throws unless this holds.  The uint64_t sum does not wrap: that
\* would take a program of more than 2^49 bytes.
affordable(g) == gas_used_ + g <= gas_limit_

\* Mutant: the gas is added first, and tested then.
charged_first(g) == gas_used_ + g

\* The gas used when require_gas returns or throws.
charged(g) == IF affordable(g) THEN gas_used_ + g ELSE gas_used_

cost == Gas[call.code[call.pc].op]

\* require_gas throws: the gas charged so far stays, and so do all effects.
OutOfGas ==
  /\ Fetched(DOMAIN Gas) /\ ~affordable(cost)
  /\ gas_used_' = charged(cost)
  /\ Return(FALSE)
  /\ UNCHANGED <<stack_, storage_>>

Charge(ops) ==
  /\ Fetched(ops) /\ affordable(cost)
  /\ gas_used_' = charged(cost)

\* The exception of a stack operation or of a cut-off PUSHn, after the charge.
Throw == Return(FALSE) /\ UNCHANGED <<stack_, storage_>>

Stop == Charge({"STOP"}) /\ Return(TRUE) /\ UNCHANGED <<stack_, storage_>>

Plain == DOMAIN Gas \ {"STOP", "SLOAD", "SSTORE", "PUSH0", "PUSH1", "PUSH_CUT"}

PayOnly ==
  /\ Charge(Plain)
  /\ call' = Advance
  /\ UNCHANGED <<stack_, storage_, result>>

room == Len(stack_) < StackLimit

Push ==
  /\ Charge({"PUSH0", "PUSH1", "PUSH_CUT"})
  /\ IF ~room \/ call.code[call.pc].op = "PUSH_CUT"
       THEN Throw
       ELSE /\ stack_' = Append(stack_, IF call.code[call.pc].op = "PUSH0" THEN 0
                                                 ELSE call.code[call.pc].arg)
            /\ call' = Advance
            /\ UNCHANGED <<storage_, result>>

\* pop then push: there is room again.
top == stack_[Len(stack_)]
below(n) == SubSeq(stack_, 1, Len(stack_) - n)

Sload ==
  /\ Charge({"SLOAD"})
  /\ IF stack_ = <<>>
       THEN Throw
       ELSE /\ stack_' = Append(below(1), storage_[call.address][top])
            /\ call' = Advance
            /\ UNCHANGED <<storage_, result>>

store(c, k, v) == [storage_ EXCEPT ![c] = [storage_[c] EXCEPT ![k] = v]]

\* The value is popped, then the key; when the key is missing the value is gone.
Sstore ==
  /\ Charge({"SSTORE"})
  /\ IF Len(stack_) < 2
       THEN /\ Return(FALSE)
            /\ stack_' = <<>>
            /\ UNCHANGED storage_
       ELSE /\ storage_' = store(call.address, stack_[Len(stack_) - 1], top)
            /\ stack_' = below(2)
            /\ call' = Advance
            /\ UNCHANGED result

Unknown ==
  /\ Fetched({"UNKNOWN"})
  /\ Return(FALSE)
  /\ UNCHANGED <<stack_, storage_, gas_used_>>

EndOfCode ==
  /\ call # Idle /\ call.pc > Len(call.code)
  /\ Return(TRUE)
  /\ UNCHANGED <<stack_, storage_, gas_used_>>

Step ==
  /\ \/ OutOfGas \/ Stop \/ PayOnly \/ Push \/ Sload \/ Sstore \/ Unknown \/ EndOfCode
  /\ UNCHANGED <<gas_limit_, balances, calls>>

-----------------------------------------------------------------------------
covered(a, v) == balances[a] >= v

\* execute: a transfer between balances of the executor, in uint64_t.
execute(from, to, value) ==
  /\ call = Idle /\ calls < MaxCalls
  /\ calls' = calls + 1
  /\ IF covered(from, value)
       THEN LET debited == [balances EXCEPT ![from] = (@ + W - value) % W]
            IN  balances' = [debited EXCEPT ![to] = (@ + value) % W]
       ELSE UNCHANGED balances
  /\ result' = IF covered(from, value) THEN "success" ELSE "failure"
  /\ UNCHANGED <<stack_, storage_, gas_used_, gas_limit_, call>>

Next ==
  \/ \E c \in Contracts, code \in Programs, limit \in Limits : execute_contract(c, code, limit)
  \/ Step
  \/ \E from, to \in Accounts, v \in Values : execute(from, to, v)

Spec == Init /\ [][Next]_vars

-----------------------------------------------------------------------------
(* Properties *)

\* The type of the state; the stack never holds more than its limit.
TypeOK ==
  /\ stack_ \in Seq(Words) /\ Len(stack_) <= StackLimit
  /\ storage_ \in [Contracts -> [Words -> Words]]
  /\ gas_used_ \in Nat /\ gas_limit_ \in Nat
  /\ balances \in [Accounts -> 0 .. W - 1]
  /\ call \in Running \cup {Idle}
  /\ result \in {NoResult, "success", "failure"}

\* A call never uses more gas than its own limit, also when it fails and
\* whatever the calls before it used.
GasWithinLimit == gas_used_ <= gas_limit_

Pops(op) == CASE op = "SLOAD" -> 1 [] op = "SSTORE" -> 2 [] OTHER -> 0
Pushes(op) == IF op \in {"SLOAD", "PUSH0", "PUSH1"} THEN 1 ELSE 0

\* What the next instruction makes of the gas, the depth and the storage reached
\* before it.
After(before, op, limit) ==
  LET paid == before.gas + (IF op \in DOMAIN Gas THEN Gas[op] ELSE 0)
      left == before.depth + Pushes(op) - Pops(op)
      fail == \/ op \in {"UNKNOWN", "PUSH_CUT"}
              \/ paid > limit
              \/ before.depth < Pops(op)
              \/ left > StackLimit
  IN  IF before.done \/ before.fail THEN before
      ELSE [gas |-> IF paid > limit THEN before.gas ELSE paid,
            depth |-> IF ~fail THEN left
                      ELSE IF op = "SSTORE" /\ ~(paid > limit) THEN 0 ELSE before.depth,
            stored |-> before.stored \/ (op = "SSTORE" /\ ~fail),
            done |-> op = "STOP",
            fail |-> fail]

Entered(depth) == [gas |-> 0, depth |-> depth, stored |-> FALSE, done |-> FALSE, fail |-> FALSE]

\* A static reading of the first n instructions.
Reached(code, limit, depth, n) ==
  LET ok[i \in 0 .. Len(code)] ==
        IF i = 0 THEN Entered(depth) ELSE After(ok[i - 1], code[i].op, limit)
  IN  ok[n]

\* How a call ends, and what it leaves behind, follows from the program, the gas
\* limit and the depth of the stack at the start alone.  It succeeds exactly when
\* each instruction up to the first STOP is known and complete, can be paid for,
\* finds its operands, and leaves no more than the stack may hold.  A call that
\* fails has spent the gas and left the items that the instructions before the
\* failing one account for (with an SSTORE that found one operand, none), and the
\* storage is changed only if one of them was an SSTORE, and for its own contract
\* only.  The depth matters because calls inherit the stack of the calls before
\* them, the failed ones included.
OutcomeDetermined ==
  [][call # Idle /\ call' = Idle =>
       LET end == Reached(call.code, gas_limit_, call.depth, Len(call.code))
       IN  /\ result' = IF end.fail THEN "failure" ELSE "success"
           /\ gas_used_' = end.gas /\ Len(stack_') = end.depth
           /\ \A c \in Contracts :
                storage_'[c] # call.storage[c] => end.stored /\ c = call.address]_vars

\* No transaction creates money: no executor ever credits an account that was
\* not debited, and all of them start with nothing.
NoMoney == \A a \in Accounts : balances[a] = 0
=============================================================================
