------------------------------- MODULE POBPC -------------------------------
(* Proof of batch proof consensus (src/consensus/POBPC.cpp): transactions  *)
(* wait in a bounded pool, a batch proof empties the pool, registered      *)
(* witnesses vote on the proof, and a proof with enough signatures has     *)
(* reached consensus. A witness's reliability is a moving average of its   *)
(* valid and invalid votes.                                                *)
(*                                                                         *)
(* The average is kept in units of 1/Scale: Scale is a power of ten, so as *)
(* many updates as it has zeros divide without a remainder, and later ones *)
(* are cut off downwards: a score is never above the average it stands for.*)
(*                                                                         *)
(* The caller keeps the proofs. submitWitnessVote takes its proof by const *)
(* reference and appends to it, which no compiler accepts; the model does  *)
(* what the statement asks for and changes the caller's proof.             *)
EXTENDS Integers, SequencesExt

CONSTANTS
  Nodes,             \* node ids that may register as witnesses
  Transactions,      \* transactions that may be submitted
  max_transactions,  \* config_.max_transactions
  witness_count,     \* config_.witness_count
  MaxAdds,           \* bound: addTransaction calls
  MaxBatches,        \* bound: generateBatchProof calls
  MaxVotes           \* bound: submitWitnessVote calls

ASSUME POBPCAssumption ==
  /\ {max_transactions, MaxAdds, MaxBatches, MaxVotes} \subseteq Nat
  /\ witness_count \in Nat \ {0}

Scale == 100000000
Threshold == 67         \* config_.consensus_threshold, in hundredths

VARIABLES
  pending_transactions,
  witnesses,     \* the reliability score of each registered node
  proofs,        \* the batch proofs handed out: transactions and signatures
  selected,      \* the result of the last selectWitnesses
  accepted,      \* history: the transactions addTransaction took, in order
  failures,      \* history: invalid votes of each node
  verified,      \* history: how many votes on each proof came from a registered
                 \* witness with a signature of this proof
  votes          \* submitWitnessVote calls so far

consensus_vars == <<pending_transactions, witnesses, proofs, selected, accepted, failures, verified,
                    votes>>

ConsensusInit ==
  /\ pending_transactions = <<>>
  /\ witnesses = <<>>
  /\ proofs = <<>>
  /\ selected = {}
  /\ accepted = <<>>
  /\ failures = [n \in Nodes |-> 0]
  /\ verified = <<>>
  /\ votes = 0

-----------------------------------------------------------------------------
full == Len(pending_transactions) >= max_transactions

addTransaction(tx) ==
  /\ Len(accepted) < MaxAdds
  /\ ~full
  /\ pending_transactions' = Append(pending_transactions, tx)
  /\ accepted' = Append(accepted, tx)
  /\ UNCHANGED <<witnesses, proofs, selected, failures, verified, votes>>

\* Mutant: the pool keeps its transactions for the next batch.
kept == pending_transactions
cleared == <<>>

\* The hash and the proof are computed over the transactions of the pool. An
\* empty pool gives a proof too.
generateBatchProof ==
  /\ Len(proofs) < MaxBatches
  /\ proofs' = Append(proofs, [transactions |-> pending_transactions, witness_signatures |-> <<>>])
  /\ pending_transactions' = cleared
  /\ verified' = Append(verified, 0)
  /\ UNCHANGED <<witnesses, selected, accepted, failures, votes>>

\* Registering again overwrites the entry and forgets the reliability.
registerWitness(n) ==
  /\ witnesses' = [m \in DOMAIN witnesses \cup {n} |-> IF m = n THEN Scale ELSE witnesses[m]]
  /\ UNCHANGED <<pending_transactions, proofs, selected, accepted, failures, verified, votes>>

\* The reliable witnesses decide how many are selected, not which.
reliable == {n \in DOMAIN witnesses : 2 * witnesses[n] >= Scale}

selectWitnesses ==
  /\ \E s \in SUBSET DOMAIN witnesses :
       /\ Cardinality(s) = Min({witness_count, Cardinality(reliable)})
       /\ selected' = s
  /\ UNCHANGED <<pending_transactions, witnesses, proofs, accepted, failures, verified, votes>>

\* Mutant: a failed vote costs twice the learning rate.
double_rate(score, valid) == (8 * score + (IF valid THEN 2 * Scale ELSE 0)) \div 10
updateWitnessReliability(score, valid) == (9 * (score \div 10)) + (IF valid THEN Scale \div 10 ELSE 0)

\* Mutant: the signature is looked for, not verified.
any_signature(n, signed) == n \in DOMAIN witnesses
verifyWitnessSignature(n, signed) == n \in DOMAIN witnesses /\ signed

\* The vote of n on the i-th proof, with a signature of this proof or another
\* one. A vote of an unknown node is refused. Nothing asks whether the witness
\* has voted on this proof before, or whether it was selected.
submitWitnessVote(n, signed, i) ==
  LET valid == verifyWitnessSignature(n, signed) IN
  /\ votes < MaxVotes
  /\ votes' = votes + 1
  /\ IF n \in DOMAIN witnesses
     THEN /\ proofs' = [proofs EXCEPT ![i].witness_signatures = IF valid THEN Append(@, n) ELSE @]
          /\ witnesses' = [witnesses EXCEPT ![n] = updateWitnessReliability(@, valid)]
          /\ failures' = IF valid THEN failures ELSE [failures EXCEPT ![n] = @ + 1]
     ELSE UNCHANGED <<proofs, witnesses, failures>>
  /\ verified' = IF n \in DOMAIN witnesses /\ signed THEN [verified EXCEPT ![i] = @ + 1] ELSE verified
  /\ UNCHANGED <<pending_transactions, selected, accepted>>

\* The number of signatures over the number of witnesses wanted.
hasReachedConsensus(p) ==
  /\ p.witness_signatures # <<>>
  /\ 100 * Len(p.witness_signatures) >= Threshold * witness_count

ConsensusNext ==
  \/ \E tx \in Transactions : addTransaction(tx)
  \/ generateBatchProof \/ selectWitnesses
  \/ \E n \in Nodes :
       \/ registerWitness(n)
       \/ \E i \in DOMAIN proofs, signed \in BOOLEAN : submitWitnessVote(n, signed, i)

ConsensusSpec == ConsensusInit /\ [][ConsensusNext]_consensus_vars

-----------------------------------------------------------------------------

\* Every accepted transaction is in exactly one batch or still in the pool,
\* in the order of acceptance, whatever was rejected at the limit between.
TransactionsConserved ==
  FlattenSeq([i \in DOMAIN proofs |-> proofs[i].transactions]) \o pending_transactions = accepted

\* A witness falls under the reliability threshold only after seven invalid
\* votes: valid votes and repeated registration only postpone it. (Being under
\* it lowers the number selectWitnesses selects, and bars nobody.)
ExclusionNeedsSevenFailures ==
  \A n \in DOMAIN witnesses : n \notin reliable => failures[n] >= 7

\* A proof reaches consensus only with a quorum of votes of registered witnesses
\* whose signatures are signatures of this very proof: votes of unknown nodes,
\* votes that do not verify and votes on other proofs never count.
ConsensusNeedsValidVotes ==
  \A i \in DOMAIN proofs :
    hasReachedConsensus(proofs[i]) => 100 * verified[i] >= Threshold * witness_count

\* Consensus is an agreement of two thirds of the witnesses.
TwoThirdsOfWitnesses ==
  \A i \in DOMAIN proofs :
    hasReachedConsensus(proofs[i]) =>
      3 * Cardinality(Range(proofs[i].witness_signatures)) >= 2 * witness_count
=============================================================================
