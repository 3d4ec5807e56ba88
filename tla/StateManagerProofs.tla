------------------------- MODULE StateManagerProofs -------------------------
(***************************************************************************)
(* The lock discipline and the histories of the state manager, for any     *)
(* clients, accounts and transactions: what locks mutex_ twice in the      *)
(* macOS build locks it for good, and a history is the recent suffix.      *)
(***************************************************************************)
EXTENDS StateManager, TLAPS

Positions == {"idle", "enter", "queued", "inner", "nested", "write", "stuck"}
Placed == pc \in [Clients -> Positions]

\* The operations that need mutex_, which a reader or a stuck thread keeps.
Modifies(c) ==
  \/ add_account(c) \/ set_account(c) \/ commit_state(c) \/ rollback_state(c)
  \/ record_transaction(c) \/ apply_transactions(c) \/ apply_transaction(c)
  \/ revert_transaction(c)
Verifies(c) == LockShared(c) \/ verify_transaction(c) \/ LockNested(c) \/ VerifyNext(c)

\* A client stays at one of the positions of the model.
LEMMA PlacedStep == Placed /\ [Next]_vars => Placed'
<1> SUFFICES ASSUME Placed, [Next]_vars PROVE Placed'
  OBVIOUS
<1>1. CASE UNCHANGED vars
  BY <1>1 DEF vars, Placed
<1>2. ASSUME NEW c \in Clients, NEW call \in Calls, Call(c, call) PROVE Placed'
  BY <1>2 DEF Call, Placed, Positions
<1>3. ASSUME NEW c \in Clients, Step(c) PROVE Placed'
  <2>1. ASSUME NEW r, Return(c, r) PROVE Placed'
    BY <2>1 DEF Return, Placed, Positions
  <2>2. ASSUME Relock(c) PROVE Placed'
    BY <2>1, <2>2, SMTT(30) DEF Relock, Placed, Positions
  <2>3. CASE QueueWriter(c) \/ LockShared(c) \/ LockNested(c) \/ VerifyNext(c) \/ UnlockShared(c)
    BY <2>3, SMTT(30) DEF QueueWriter, LockShared, LockNested, VerifyNext, UnlockShared, Placed, Positions
  <2>4. CASE add_account(c) \/ set_account(c) \/ commit_state(c) \/ rollback_state(c)
             \/ record_transaction(c) \/ verify_transaction(c)
    BY <2>1, <2>4 DEF add_account, set_account, commit_state, rollback_state,
                      record_transaction, verify_transaction
  <2>5. CASE apply_transactions(c) \/ apply_transaction(c) \/ revert_transaction(c)
    BY <2>1, <2>2, <2>5, ZenonT(30) DEF apply_transactions, apply_transaction, revert_transaction
  <2> QED BY <1>3, <2>3, <2>4, <2>5, ZenonT(30) DEF Step
<1> QED BY <1>1, <1>2, <1>3, SMTT(30) DEF Next

\* The steps by kind.
LEMMA StepKinds ==
  ASSUME NEW c \in Clients, Step(c)
  PROVE  \/ QueueWriter(c) \/ UnlockShared(c)
         \/ Verifies(c) /\ free_for_reader /\ UNCHANGED ledger
         \/ Modifies(c) /\ free_for_writer
  BY DEF Step, Verifies, Modifies, LockShared, verify_transaction, LockNested, VerifyNext,
         add_account, set_account, commit_state, rollback_state, record_transaction, apply_transactions, apply_transaction,
         revert_transaction, Exclusive

\* Once a thread of the macOS build waits for itself, or a reader and a writer
\* for each other, no step changes an account, a root or a history any more.
THEOREM WedgeIsForGood == Spec => WedgedForGood
<1>1. Init => Placed
  BY DEF Init, Placed, Positions
<1>2. Placed /\ [Next]_vars => [Wedged => UNCHANGED ledger /\ Wedged']_vars
  <2> SUFFICES ASSUME Placed, Next, Wedged PROVE UNCHANGED ledger /\ Wedged'
    OBVIOUS
  <2>1. ~free_for_writer /\ ~free_for_reader
    BY DEF Wedged, free_for_writer, free_for_reader, nesting
  <2>2. PICK c \in Clients : QueueWriter(c) \/ UnlockShared(c) \/ \E call \in Calls : Call(c, call)
    BY <2>1, StepKinds DEF Next
  <2>3. /\ UNCHANGED ledger
        /\ c \notin nesting /\ pc[c] \notin {"stuck", "queued"}
        /\ \A d \in Clients \ {c} : pc'[d] = pc[d] /\ op'[d] = op[d] /\ valid'[d] = valid[d]
    <3>1. CASE QueueWriter(c)
      BY <3>1 DEF QueueWriter, nesting, readers
    <3>2. CASE UnlockShared(c)
      BY <3>2 DEF UnlockShared, nesting
    <3>3. CASE \E call \in Calls : Call(c, call)
      BY <3>3 DEF Call, nesting, readers
    <3> QED BY <2>2, <3>1, <3>2, <3>3
  <2>4. stuck \subseteq stuck' /\ build' = build
    BY <2>3 DEF stuck, ledger
  <2>5. nesting \subseteq nesting'
    <3> SUFFICES ASSUME NEW d \in nesting PROVE d \in nesting'
      OBVIOUS
    <3>1. d \in Clients \ {c}
      BY <2>3 DEF nesting, readers
    <3> QED BY <2>3, <3>1 DEF nesting, readers
  <2>6. (\E d \in Clients : pc[d] = "queued") => \E d \in Clients : pc'[d] = "queued"
    BY <2>3
  <2> QED BY <2>3, <2>4, <2>5, <2>6, SMTT(30) DEF Wedged
<1> QED BY <1>1, <1>2, PlacedStep, PTL DEF Spec, WedgedForGood

\* What one account's history and record have to do with each other.
RecentSuffix(h, r) ==
  /\ Len(h) <= MAX_HISTORY_PER_ACCOUNT /\ Len(r) - Len(h) >= 0
  /\ Len(r) - Len(h) > 0 => Len(h) = MAX_HISTORY_PER_ACCOUNT
  /\ \A i \in 1 .. Len(h) : h[i] = r[Len(r) - Len(h) + i]

HistoryTypes ==
  /\ op \in [Clients -> Calls \cup {NoCall}]
  /\ history \in [Addresses -> Seq(Transactions)]
  /\ recorded \in [Addresses -> Seq(Transactions)]

HistoryInv == HistoryTypes /\ \A a \in Addresses : RecentSuffix(history[a], recorded[a])

\* push_back and the pop_front that keeps the bound leave the recent suffix.
LEMMA PushKeepsSuffix ==
  ASSUME NEW h \in Seq(Transactions), NEW r \in Seq(Transactions), NEW tx \in Transactions,
         RecentSuffix(h, r)
  PROVE  push_bounded(h, tx) \in Seq(Transactions) /\ RecentSuffix(push_bounded(h, tx), Append(r, tx))
<1> DEFINE g == Append(h, tx)  s == Append(r, tx)
<1>0. MAX_HISTORY_PER_ACCOUNT \in Nat /\ Len(h) \in Nat /\ Len(r) \in Nat
  BY StateManagerAssumption
<1>1. /\ g \in Seq(Transactions) /\ Len(g) = Len(h) + 1 /\ Len(s) = Len(r) + 1
      /\ \A i \in 1 .. Len(g) : g[i] = s[Len(s) - Len(g) + i]
  BY <1>0 DEF RecentSuffix
<1>2. CASE Len(h) + 1 > MAX_HISTORY_PER_ACCOUNT
  <2>1. push_bounded(h, tx) = Tail(g)
    BY <1>2 DEF push_bounded
  <2>2. Tail(g) \in Seq(Transactions) /\ Len(Tail(g)) = Len(h) /\ \A i \in 1 .. Len(h) : Tail(g)[i] = g[i + 1]
    BY <1>0, <1>1
  <2>3. Len(h) = MAX_HISTORY_PER_ACCOUNT
    BY <1>0, <1>2 DEF RecentSuffix
  <2> HIDE DEF g, s
  <2>4. \A i \in 1 .. Len(h) : Tail(g)[i] = s[Len(s) - Len(h) + i]
    <3> SUFFICES ASSUME NEW i \in 1 .. Len(h) PROVE Tail(g)[i] = s[Len(s) - Len(h) + i]
      BY Zenon
    <3>1. i + 1 \in 1 .. Len(g) /\ Len(s) - Len(g) + (i + 1) = Len(s) - Len(h) + i
      BY <1>0, <1>1
    <3>2. g[i + 1] = s[Len(s) - Len(g) + (i + 1)]
      BY <1>1, <3>1
    <3> QED BY <2>2, <3>1, <3>2, Zenon
  <2>5. Len(r) - Len(h) >= 0
    BY DEF RecentSuffix
  <2> DEFINE t == Tail(g)
  <2>6. t \in Seq(Transactions) /\ Len(t) = Len(h) /\ \A i \in 1 .. Len(h) : t[i] = s[Len(s) - Len(h) + i]
    BY <2>2, <2>4, SMTT(30)
  <2> HIDE DEF t
  <2>7. RecentSuffix(t, s)
    <3>1. Len(h) <= MAX_HISTORY_PER_ACCOUNT /\ Len(s) - Len(h) >= 0
      BY <1>0, <1>1, <2>3, <2>5
    <3> QED BY <2>3, <2>6, <3>1, Zenon DEF RecentSuffix
  <2> QED BY <2>1, <2>6, <2>7, Zenon DEF s, t
<1>3. CASE ~(Len(h) + 1 > MAX_HISTORY_PER_ACCOUNT)
  <2>1. push_bounded(h, tx) = g
    BY <1>3 DEF push_bounded
  <2>2. Len(r) = Len(h)
    BY <1>0, <1>3 DEF RecentSuffix
  <2> HIDE DEF g, s
  <2>3. RecentSuffix(g, s)
    <3>1. Len(g) <= MAX_HISTORY_PER_ACCOUNT /\ Len(s) - Len(g) >= 0 /\ ~(Len(s) - Len(g) > 0)
      BY <1>0, <1>1, <1>3, <2>2
    <3> QED BY <1>1, <3>1, Zenon DEF RecentSuffix
  <2> QED BY <1>1, <2>1, <2>3, Zenon DEF s
<1> QED BY <1>2, <1>3

\* Recording a transaction is the only step that touches a history.
LEMMA HistoryStep == HistoryInv /\ [Next]_vars => HistoryInv'
<1> SUFFICES ASSUME HistoryInv, [Next]_vars PROVE HistoryInv'
  OBVIOUS
<1>1. CASE UNCHANGED vars
  BY <1>1 DEF vars, HistoryInv, HistoryTypes
<1>2. ASSUME UNCHANGED <<history, recorded>>, op' \in [Clients -> Calls \cup {NoCall}] PROVE HistoryInv'
  BY <1>2 DEF HistoryInv, HistoryTypes
<1>3. ASSUME NEW c \in Clients, NEW call \in Calls, Call(c, call) PROVE HistoryInv'
  <2>1. op' \in [Clients -> Calls \cup {NoCall}]
    BY <1>3 DEF Call, HistoryInv, HistoryTypes
  <2> QED BY <1>2, <1>3, <2>1, SMTT(30) DEF Call, ledger
<1>4. ASSUME NEW c \in Clients, Step(c) PROVE HistoryInv'
  <2>1. op' \in [Clients -> Calls \cup {NoCall}]
    <3>1. op' = op \/ op' = [op EXCEPT ![c] = NoCall]
      BY <1>4 DEF Step, QueueWriter, LockShared, LockNested, VerifyNext, UnlockShared, add_account,
                  set_account, commit_state, rollback_state, record_transaction, verify_transaction, apply_transactions,
                  apply_transaction, revert_transaction, Relock, Return
    <3> QED BY <3>1, Zenon DEF HistoryInv, HistoryTypes
  <2>2. CASE record_transaction(c)
    <3> DEFINE a == op[c].addr  tx == op[c].tx
    <3>1. a \in Addresses /\ tx \in Transactions
      BY <2>2, SMTT(30) DEF record_transaction, Exclusive, HistoryInv, HistoryTypes, Calls, NoCall
    <3>2. /\ history' = [history EXCEPT ![a] = push_bounded(history[a], tx)]
          /\ recorded' = [recorded EXCEPT ![a] = Append(recorded[a], tx)]
      BY <2>2 DEF record_transaction
    <3> HIDE DEF a, tx
    <3>3. /\ push_bounded(history[a], tx) \in Seq(Transactions)
          /\ RecentSuffix(push_bounded(history[a], tx), Append(recorded[a], tx))
      BY <3>1, PushKeepsSuffix, SMTT(30) DEF HistoryInv, HistoryTypes
    <3>4. HistoryTypes'
      BY <2>1, <3>1, <3>2, <3>3, SMTT(30) DEF HistoryInv, HistoryTypes
    <3>5. \A b \in Addresses : RecentSuffix(history'[b], recorded'[b])
      BY <3>1, <3>2, <3>3, SMTT(30) DEF HistoryInv, HistoryTypes
    <3> QED BY <3>4, <3>5, SMTT(30) DEF HistoryInv
  <2>3. CASE ~record_transaction(c)
    <3>1. UNCHANGED <<history, recorded>>
      BY <1>4, <2>3 DEF Step, ledger, QueueWriter, LockShared, LockNested, VerifyNext, UnlockShared,
                        add_account, set_account, commit_state, rollback_state, verify_transaction, apply_transactions,
                        apply_transaction, revert_transaction
    <3> QED BY <1>2, <2>1, <3>1, ZenonT(30)
  <2> QED BY <2>2, <2>3, SMTT(30)
<1> QED BY <1>1, <1>3, <1>4 DEF Next

\* For every bound and any sequence of records by any clients, the history of
\* an account is the most recent transactions recorded for it, oldest first.
THEOREM HistoryIsRecent == Spec => []HistoryIsRecentSuffix
<1>1. Init => HistoryInv
  BY StateManagerAssumption DEF Init, HistoryInv, HistoryTypes, RecentSuffix
<1>2. HistoryInv => HistoryIsRecentSuffix
  BY Zenon DEF HistoryInv, RecentSuffix, HistoryIsRecentSuffix
<1> QED BY <1>1, <1>2, HistoryStep, PTL DEF Spec
=============================================================================
