---------------------------- MODULE StateManager ----------------------------
(***************************************************************************)
(* The rollup's account state, src/rollup/StateManager.cpp, called by      *)
(* several threads.  Every method takes mutex_, a std::shared_mutex, and   *)
(* several of them call another method that takes it AGAIN on the same     *)
(* thread.  The standard leaves that undefined; what happens depends on    *)
(* the library the build links:                                            *)
(*   "libstdc++" (Linux): a thread that holds the lock exclusively and     *)
(*     locks it again gets a system_error; readers are preferred;          *)
(*   "libc++" (macOS): the thread blocks, on itself; a waiting writer      *)
(*     keeps out every new reader.                                         *)
(* The statements of apply_transaction and revert_transaction after their  *)
(* first get_account are therefore reached in neither build.               *)
(*                                                                         *)
(* uint64_t is 0..W-1 with wrapping arithmetic.  A storage map is the      *)
(* sequence of its keys in iteration order: an unordered_map of either     *)
(* library puts a key of a new bucket in front.  A state root is the       *)
(* injective image of what calculate_state_root feeds to BLAKE3.           *)
(***************************************************************************)
EXTENDS Integers, Sequences, SequencesExt, TLC

CONSTANTS
  Clients, Addresses, Keys,
  Transactions,             \* the transactions clients may present
  W,                        \* 2^64
  MAX_HISTORY_PER_ACCOUNT,  \* 1000
  Builds,                   \* the libraries to consider: "libstdc++", "libc++"
  MaxTxs,                   \* bound: transactions in one call of apply_transactions
  MaxCalls                  \* bound: calls that can change something

ASSUME StateManagerAssumption ==
  /\ W \in Nat \ {0} /\ MAX_HISTORY_PER_ACCOUNT \in Nat /\ MaxTxs \in Nat /\ MaxCalls \in Nat
  /\ Builds \subseteq {"libstdc++", "libc++"}
  /\ \A tx \in Transactions : tx.sender \in Addresses

VARIABLES
  build,           \* the library this build links
  accounts,        \* Impl::accounts
  current_root,    \* Impl::current_state_root
  previous_root,   \* Impl::previous_state_root
  history,         \* Impl::history
  pc, op, valid,   \* each client's position, its call, its valid_txs
  result,          \* what each client's last call returned
  calls,           \* calls begun, other than verify_transaction
  recorded         \* history variable: all transactions ever recorded

vars == <<build, accounts, current_root, previous_root, history, pc, op, valid, result,
          calls, recorded>>
ledger == <<build, accounts, current_root, previous_root, history, recorded>>

uint64 == 0 .. W - 1
Account == [balance : uint64, nonce : uint64, code : BOOLEAN, storage : Seq(Keys)]
NewAccount(b) == [balance |-> b, nonce |-> 0, code |-> FALSE, storage |-> <<>>]

\* Accounts are sorted by address; an account is serialized field by field,
\* its storage in iteration order.
calculate_state_root(accts) == accts

NoCall == [name |-> "none"]

Init ==
  /\ build \in Builds
  /\ accounts = <<>>
  /\ current_root = calculate_state_root(<<>>)
  /\ previous_root = current_root
  /\ history = [a \in Addresses |-> <<>>]
  /\ pc = [c \in Clients |-> "idle"]
  /\ op = [c \in Clients |-> NoCall]
  /\ valid = [c \in Clients |-> <<>>]
  /\ result = [c \in Clients |-> "none"]
  /\ calls = 0
  /\ recorded = [a \in Addresses |-> <<>>]

-----------------------------------------------------------------------------
(* mutex_ *)

ReadOps == {"verify_transaction", "apply_transactions"}

readers == {c \in Clients : pc[c] \in {"inner", "nested"}}
stuck == {c \in Clients : pc[c] = "stuck"}

\* Mutant: writers look only for readers.
no_writer_check == readers = {}

free_for_writer == readers \cup stuck = {}

\* Mutant: a lock under which a waiting writer keeps readers out.
writer_preferred == stuck = {} /\ \A c \in Clients : pc[c] # "queued"

free_for_reader ==
  /\ stuck = {}
  /\ build = "libc++" => \A c \in Clients : pc[c] # "queued"

Calls ==
       [name : {"add_account", "set_balance", "set_nonce"}, addr : Addresses, arg : uint64]
  \cup [name : {"set_storage"}, addr : Addresses, arg : Keys]
  \cup [name : {"set_code"}, addr : Addresses]
  \cup [name : {"commit_state", "rollback_state"}]
  \cup [name : {"record_transaction"}, addr : Addresses, tx : Transactions]
  \cup [name : {"verify_transaction", "apply_transaction", "revert_transaction"},
        tx : Transactions]
  \cup [name : {"apply_transactions"}, txs : SeqOf(Transactions, MaxTxs)]

Call(c, call) ==
  /\ pc[c] = "idle"
  /\ \/ call.name = "verify_transaction" /\ UNCHANGED calls
     \/ call.name # "verify_transaction" /\ calls < MaxCalls /\ calls' = calls + 1
  /\ op' = [op EXCEPT ![c] = call]
  /\ pc' = [pc EXCEPT ![c] = "enter"]
  /\ result' = [result EXCEPT ![c] = "none"]
  /\ UNCHANGED <<ledger, valid>>

\* A writer that finds readers inside announces itself and waits.
QueueWriter(c) ==
  /\ pc[c] = "write" \/ (pc[c] = "enter" /\ op[c].name \notin ReadOps)
  /\ readers # {}
  /\ pc' = [pc EXCEPT ![c] = "queued"]
  /\ UNCHANGED <<ledger, op, valid, result, calls>>

Exclusive(c, names) ==
  /\ op[c].name \in names
  /\ pc[c] \in {"enter", "queued", "write"}
  /\ free_for_writer

Return(c, r) ==
  /\ pc' = [pc EXCEPT ![c] = "idle"]
  /\ result' = [result EXCEPT ![c] = r]
  /\ op' = [op EXCEPT ![c] = NoCall]
  /\ valid' = [valid EXCEPT ![c] = <<>>]
  /\ UNCHANGED calls

-----------------------------------------------------------------------------
(* The single-lock modifications *)

add_account(c) ==
  /\ Exclusive(c, {"add_account"})
  /\ accounts' = (op[c].addr :> NewAccount(op[c].arg)) @@ accounts
  /\ Return(c, "true")
  /\ UNCHANGED <<build, current_root, previous_root, history, recorded>>

\* storage[key] = value
set_key(storage, k) == IF k \in ToSet(storage) THEN storage ELSE <<k>> \o storage

Updated(acct, call) ==
  CASE call.name = "set_balance" -> [acct EXCEPT !.balance = call.arg]
    [] call.name = "set_nonce"   -> [acct EXCEPT !.nonce = call.arg]
    [] call.name = "set_storage" -> [acct EXCEPT !.storage = set_key(@, call.arg)]
    [] call.name = "set_code"    -> [acct EXCEPT !.code = TRUE]

set_account(c) ==
  /\ Exclusive(c, {"set_balance", "set_nonce", "set_storage", "set_code"})
  /\ IF op[c].addr \in DOMAIN accounts
       THEN /\ accounts' = [accounts EXCEPT ![op[c].addr] = Updated(@, op[c])]
            /\ Return(c, "true")
       ELSE UNCHANGED accounts /\ Return(c, "false")
  /\ UNCHANGED <<build, current_root, previous_root, history, recorded>>

commit_state(c) ==
  /\ Exclusive(c, {"commit_state"})
  /\ previous_root' = current_root
  /\ current_root' = calculate_state_root(accounts)
  /\ Return(c, "true")
  /\ UNCHANGED <<build, accounts, history, recorded>>

rollback_state(c) ==
  /\ Exclusive(c, {"rollback_state"})
  /\ current_root' = previous_root
  /\ Return(c, "true")
  /\ UNCHANGED <<build, accounts, previous_root, history, recorded>>

\* Mutant: the newest entry is dropped when the history is full.
drop_newest(h, tx) == IF Len(h) >= MAX_HISTORY_PER_ACCOUNT THEN h ELSE Append(h, tx)

push_bounded(h, tx) ==
  IF Len(h) + 1 > MAX_HISTORY_PER_ACCOUNT THEN Tail(Append(h, tx)) ELSE Append(h, tx)

record_transaction(c) ==
  /\ Exclusive(c, {"record_transaction"})
  /\ history' = [history EXCEPT ![op[c].addr] = push_bounded(@, op[c].tx)]
  /\ recorded' = [recorded EXCEPT ![op[c].addr] = Append(@, op[c].tx)]
  /\ Return(c, "true")
  /\ UNCHANGED <<build, accounts, current_root, previous_root>>

-----------------------------------------------------------------------------
(* The operations that lock twice *)

total_cost(tx) == (tx.amount + tx.gas) % W

verifies(accts, tx) ==
  /\ tx.sender \in DOMAIN accts
  /\ tx.nonce = (accts[tx.sender].nonce + 1) % W
  /\ accts[tx.sender].balance >= total_cost(tx)
  /\ tx.signed

\* The outer shared lock of verify_transaction and apply_transactions.
LockShared(c) ==
  /\ pc[c] = "enter" /\ op[c].name \in ReadOps
  /\ free_for_reader
  /\ pc' = [pc EXCEPT ![c] = "inner"]
  /\ UNCHANGED <<ledger, op, valid, result, calls>>

\* get_account inside it takes the shared lock once more.
verify_transaction(c) ==
  /\ pc[c] = "inner" /\ op[c].name = "verify_transaction"
  /\ free_for_reader
  /\ Return(c, IF verifies(accounts, op[c].tx) THEN "true" ELSE "false")
  /\ UNCHANGED ledger

\* apply_transactions calls verify_transaction for each transaction, inside its
\* own shared lock: two more shared locks, one after the other, each of which
\* waits for what may have queued in between.
LockNested(c) ==
  /\ pc[c] = "inner" /\ op[c].name = "apply_transactions"
  /\ Len(valid[c]) < Len(op[c].txs)
  /\ free_for_reader
  /\ pc' = [pc EXCEPT ![c] = "nested"]
  /\ UNCHANGED <<ledger, op, valid, result, calls>>

VerifyNext(c) ==
  /\ pc[c] = "nested"
  /\ free_for_reader
  /\ valid' = [valid EXCEPT ![c] = Append(@, verifies(accounts, op[c].txs[Len(@) + 1]))]
  /\ pc' = [pc EXCEPT ![c] = "inner"]
  /\ UNCHANGED <<ledger, op, result, calls>>

\* It releases the shared lock, and only then asks for the exclusive one.
UnlockShared(c) ==
  /\ pc[c] = "inner" /\ op[c].name = "apply_transactions"
  /\ Len(valid[c]) = Len(op[c].txs)
  /\ pc' = [pc EXCEPT ![c] = "write"]
  /\ UNCHANGED <<ledger, op, valid, result, calls>>

\* Locking mutex_ again on the thread that holds it exclusively.
Relock(c) ==
  \/ build = "libstdc++" /\ Return(c, "throw")
  \/ /\ build = "libc++"
     /\ pc' = [pc EXCEPT ![c] = "stuck"]
     /\ UNCHANGED <<op, valid, result, calls>>

\* apply_transaction takes the exclusive lock for the second time; with no
\* valid transaction it is not called.
apply_transactions(c) ==
  /\ Exclusive(c, {"apply_transactions"}) /\ pc[c] # "enter"
  /\ previous_root' = current_root
  /\ IF TRUE \notin Range(valid[c]) THEN Return(c, "true") ELSE Relock(c)
  /\ UNCHANGED <<build, accounts, current_root, history, recorded>>

\* The exclusive lock, then get_account's shared lock.
apply_transaction(c) ==
  /\ Exclusive(c, {"apply_transaction"})
  /\ Relock(c)
  /\ UNCHANGED ledger

revert_transaction(c) ==
  /\ Exclusive(c, {"revert_transaction"})
  /\ Relock(c)
  /\ UNCHANGED ledger

-----------------------------------------------------------------------------

Step(c) ==
  \/ QueueWriter(c) \/ LockShared(c) \/ LockNested(c) \/ VerifyNext(c) \/ UnlockShared(c)
  \/ add_account(c) \/ set_account(c) \/ commit_state(c) \/ rollback_state(c)
  \/ record_transaction(c) \/ verify_transaction(c)
  \/ apply_transactions(c) \/ apply_transaction(c) \/ revert_transaction(c)

Next == \E c \in Clients : Step(c) \/ \E call \in Calls : Call(c, call)

Spec == Init /\ [][Next]_vars

\* A thread inside a call is scheduled; no client is obliged to call.
FairSpec == Spec /\ \A c \in Clients : WF_vars(Step(c))

-----------------------------------------------------------------------------
(* Properties *)

\* The history of an account is the most recent MAX_HISTORY_PER_ACCOUNT
\* transactions recorded for it, oldest first.
HistoryIsRecentSuffix ==
  \A a \in Addresses :
    LET dropped == Len(recorded[a]) - Len(history[a]) IN
    /\ Len(history[a]) <= MAX_HISTORY_PER_ACCOUNT /\ dropped >= 0
    /\ dropped > 0 => Len(history[a]) = MAX_HISTORY_PER_ACCOUNT
    /\ \A i \in 1 .. Len(history[a]) : history[a][i] = recorded[a][dropped + i]

\* The readers that will ask for the shared lock again before they release it.
nesting ==
  {c \in readers : op[c].name = "apply_transactions" => pc[c] = "nested" \/ Len(valid[c]) # Len(op[c].txs)}

\* In the macOS build: a thread has relocked mutex_, or a reader will wait for
\* the writer that waits for it.
Wedged ==
  \/ stuck # {}
  \/ build = "libc++" /\ nesting # {} /\ \E c \in Clients : pc[c] = "queued"

\* Both ways of locking twice last for good: from then on no account, root or
\* history changes any more.
WedgedForGood == [][Wedged => UNCHANGED ledger /\ Wedged']_vars

\* In the Linux build the only call that may never return is one that waits for
\* the exclusive lock while other threads verify again and again: nested shared
\* locks never wait for the writer that waits for them, relocking throws, and
\* the readers themselves always come back.
OnlyReadersStarve ==
  \A c \in Clients :
    \/ build = "libc++"
    \/ []<>(pc[c] = "idle")
    \/ /\ <>[](pc[c] = "queued")
       /\ \E d \in Clients \ {c} : []<>(d \in readers) /\ []<>(pc[d] = "idle")
=============================================================================
