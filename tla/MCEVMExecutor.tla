--------------------------- MODULE MCEVMExecutor ---------------------------
(* Programs that meet every case of the executor's switch, on a stack of   *)
(* two or three items.                                                     *)
EXTENDS EVMExecutor

I(op) == [op |-> op, arg |-> 0]
PushWord(w) == [op |-> "PUSH1", arg |-> w]

\* Store, load back and pay; leave items behind; fail in each possible way,
\* also after a store; stop before the end; spend on every plain opcode.
MCPrograms ==
  { <<PushWord(0), PushWord(1), I("SSTORE")>>,
    <<PushWord(1), PushWord(1), I("SSTORE"), I("UNKNOWN")>>,
    <<PushWord(1), I("SLOAD")>>,
    <<I("PUSH0"), I("STOP"), I("SSTORE")>>,
    <<I("SSTORE")>>, <<I("SLOAD")>>, <<I("PUSH_CUT")>>,
    <<I("JUMPDEST"), I("JUMP"), I("JUMPI"), I("RETURN")>>,
    <<I("ADD"), I("MUL"), I("ADDMOD"), I("SHA3"), I("ADDRESS"), I("BALANCE"), I("MSTORE")>>,
    <<I("CALL"), I("SELFDESTRUCT"), I("CREATE")>> }
=============================================================================
