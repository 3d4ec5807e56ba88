-------------------------- MODULE ConsensusProofs ---------------------------
(***************************************************************************)
(* The batches and the votes of POBPC, for any constants.                  *)
(*                                                                         *)
(* The batches are concatenations of sequences of any size, which the      *)
(* properties write with FlattenSeq. The first section proves what it      *)
(* computes, by an induction that is stated over sets.                     *)
(***************************************************************************)
EXTENDS POBPC, FiniteSetTheorems, SequenceTheorems, TLAPS

\* Induction over the natural numbers, for a set instead of a predicate: if m
\* were left out, adding one would map the members up to m into themselves
\* without 0, and a finite set has no injection into a smaller one.
LEMMA SetInduction ==
  ASSUME NEW S, 0 \in S, \A n \in Nat : n \in S => n + 1 \in S
  PROVE  \A m \in Nat : m \in S
<1> SUFFICES ASSUME NEW m \in Nat, m \notin S PROVE FALSE
  OBVIOUS
<1> DEFINE T == {x \in 0..m : x \in S}
           f == [x \in T |-> x + 1]
<1>1. IsFiniteSet(T)
  <2>1. IsFiniteSet(0..m) /\ T \in SUBSET (0..m)
    BY FS_Interval
  <2> QED BY <2>1, FS_Subset, ZenonT(30)
<1>2. \A x \in T : x + 1 \in T \ {0}
  OBVIOUS
<1>3. f \in Injection(T, T \ {0})
  BY <1>2 DEF Injection, IsInjective
<1>4. IsFiniteSet(T \ {0}) /\ Cardinality(T \ {0}) = Cardinality(T) - 1
  BY <1>1, FS_RemoveElement, 0 \in T, Zenon
<1>5. Cardinality(T) <= Cardinality(T \ {0})
  BY <1>3, <1>4, FS_Injection, ZenonT(30)
<1> QED BY <1>1, <1>4, <1>5, FS_CardinalityType

-----------------------------------------------------------------------------
(* Concatenations.  Flattens says that g is the function FlattenSeq         *)
(* recurses with, on the first n of the sequences.                          *)
Flattens(ss, n, g) == g = [i \in 1..n |-> IF i = 1 THEN ss[i] ELSE g[i - 1] \o ss[i]]

\* A concatenation is the value of the function that FlattenSeq chooses.
LEMMA FlattenDef ==
  ASSUME NEW ss, Len(ss) # 0
  PROVE  FlattenSeq(ss) = (CHOOSE g : Flattens(ss, Len(ss), g))[Len(ss)]
  BY DEF FlattenSeq, Flattens

\* What that function is at each place.
LEMMA FlattensAt ==
  ASSUME NEW ss, NEW n, NEW g, Flattens(ss, n, g), NEW i \in 1..n
  PROVE  g[i] = IF i = 1 THEN ss[i] ELSE g[i - 1] \o ss[i]
  BY Zenon DEF Flattens

\* The function exists for every length.
LEMMA FlattensExist ==
  ASSUME NEW ss, NEW n \in Nat
  PROVE  \E g : Flattens(ss, n, g)
<1> DEFINE B == {k \in Nat : \E g : Flattens(ss, k, g)}
<1>1. 0 \in B
  <2> DEFINE g == [i \in 1..0 |-> ss]
  <2>1. Flattens(ss, 0, g)
    BY DEF Flattens
  <2> QED BY <2>1, Zenon
<1>2. ASSUME NEW k \in Nat, k \in B PROVE k + 1 \in B
  <2>1. PICK g : Flattens(ss, k, g)
    BY <1>2, Zenon
  <2> DEFINE d == [i \in 1..(k + 1) |-> IF i = 1 THEN ss[i] ELSE g[i - 1] \o ss[i]]
  <2>2. \A i \in 1..k : i \in 1..(k + 1) /\ d[i] = g[i]
    <3> TAKE i \in 1..k
    <3>1. g[i] = IF i = 1 THEN ss[i] ELSE g[i - 1] \o ss[i]
      BY <2>1, FlattensAt
    <3>2. i \in 1..(k + 1)
      OBVIOUS
    <3>3. d[i] = IF i = 1 THEN ss[i] ELSE g[i - 1] \o ss[i]
      BY <3>2, Zenon
    <3> QED BY <3>1, <3>2, <3>3, ZenonT(30)
  <2>3. \A i \in 1..(k + 1) : i # 1 => i - 1 \in 1..k
    OBVIOUS
  <2>4. \A i \in 1..(k + 1) : d[i] = IF i = 1 THEN ss[i] ELSE d[i - 1] \o ss[i]
    BY <2>2, <2>3, Zenon
  <2>5. Flattens(ss, k + 1, d)
    <3>1. d = [i \in 1..(k + 1) |-> d[i]]
      OBVIOUS
    <3> HIDE DEF d
    <3> QED BY <2>4, <3>1, Zenon DEF Flattens
  <2> QED BY <2>5
<1> HIDE DEF B
<1>3. n \in B
  BY <1>1, <1>2, SetInduction, ZenonT(30)
<1> QED BY <1>3, ZenonT(30) DEF B

\* So a concatenation is the value of a function that recurses as it should.
LEMMA FlattenOf ==
  ASSUME NEW ss, Len(ss) \in Nat \ {0}
  PROVE  \E g : Flattens(ss, Len(ss), g) /\ FlattenSeq(ss) = g[Len(ss)]
<1> DEFINE g == CHOOSE g : Flattens(ss, Len(ss), g)
<1>1. Flattens(ss, Len(ss), g)
  BY FlattensExist, Zenon
<1> QED BY <1>1, FlattenDef, ZenonT(30)

\* Two such functions agree as far as the sequences do.
LEMMA FlattensAgree ==
  ASSUME NEW ss, NEW n \in Nat, NEW g, Flattens(ss, n, g),
         NEW rr, NEW m \in Nat, NEW d, Flattens(rr, m, d),
         NEW k \in Nat, k # 0, k <= n, k <= m, \A i \in 1..k : ss[i] = rr[i]
  PROVE  g[k] = d[k]
<1> DEFINE B == {j \in Nat : j \in 1..k => g[j] = d[j]}
<1>1. 0 \in B
  OBVIOUS
<1>2. ASSUME NEW j \in Nat, j \in B PROVE j + 1 \in B
  <2> SUFFICES ASSUME j + 1 \in 1..k PROVE g[j + 1] = d[j + 1]
    OBVIOUS
  <2>1. j + 1 \in 1..n /\ j + 1 \in 1..m /\ ss[j + 1] = rr[j + 1]
    OBVIOUS
  <2>2. CASE j = 0
    BY <2>1, <2>2 DEF Flattens
  <2>3. CASE j # 0
    <3>1. g[j] = d[j]
      BY <1>2, <2>3
    <3>2. g[j + 1] = g[j] \o ss[j + 1] /\ d[j + 1] = d[j] \o rr[j + 1]
      <4>1. (j + 1) - 1 = j /\ j + 1 # 1
        BY <2>3
      <4>2. g[j + 1] = IF j + 1 = 1 THEN ss[j + 1] ELSE g[(j + 1) - 1] \o ss[j + 1]
        BY <2>1, FlattensAt
      <4>3. d[j + 1] = IF j + 1 = 1 THEN rr[j + 1] ELSE d[(j + 1) - 1] \o rr[j + 1]
        BY <2>1, FlattensAt
      <4> HIDE DEF B
      <4> QED BY <4>1, <4>2, <4>3, ZenonT(30)
    <3> QED BY <2>1, <3>1, <3>2, ZenonT(30)
  <2> QED BY <2>2, <2>3, ZenonT(30)
<1> HIDE DEF B
<1>3. k \in B
  BY <1>1, <1>2, SetInduction, ZenonT(30)
<1> QED BY <1>3 DEF B

\* Concatenating sequences over S gives one over S, place by place.
LEMMA FlattensType ==
  ASSUME NEW S, NEW ss \in Seq(Seq(S)), NEW g, Flattens(ss, Len(ss), g), ss # <<>>
  PROVE  g[Len(ss)] \in Seq(S)
<1> DEFINE B == {j \in Nat : j \in 1..Len(ss) => g[j] \in Seq(S)}
<1>0. Len(ss) \in Nat /\ Len(ss) \in 1..Len(ss) /\ \A i \in 1..Len(ss) : ss[i] \in Seq(S)
  OBVIOUS
<1>1. 0 \in B
  OBVIOUS
<1>2. ASSUME NEW j \in Nat, j \in B PROVE j + 1 \in B
  <2> SUFFICES ASSUME j + 1 \in 1..Len(ss) PROVE g[j + 1] \in Seq(S)
    OBVIOUS
  <2>1. ss[j + 1] \in Seq(S)
    BY <1>0, Zenon
  <2>2. CASE j = 0
    BY <1>0, <2>1, <2>2 DEF Flattens
  <2>3. CASE j # 0
    <3>1. g[j] \in Seq(S)
      BY <1>0, <1>2, <2>3
    <3>2. g[j + 1] = g[j] \o ss[j + 1]
      <4>1. (j + 1) - 1 = j /\ j + 1 # 1
        BY <2>3
      <4> QED BY <4>1, Zenon DEF Flattens
    <3> HIDE DEF B
    <3> QED BY <2>1, <3>1, <3>2
  <2> QED BY <2>2, <2>3, ZenonT(30)
<1> HIDE DEF B
<1>3. Len(ss) \in B
  BY <1>0, <1>1, <1>2, SetInduction, ZenonT(30)
<1> QED BY <1>0, <1>3, ZenonT(30) DEF B

\* Concatenating sequences over S gives one over S.
LEMMA FlattenType ==
  ASSUME NEW S, NEW ss \in Seq(Seq(S))
  PROVE  FlattenSeq(ss) \in Seq(S)
<1>1. CASE ss = <<>>
  <2>1. Len(ss) = 0
    BY <1>1, Zenon
  <2>2. FlattenSeq(ss) = <<>>
    BY <1>1, <2>1, Zenon DEF FlattenSeq
  <2> QED BY <2>2
<1>2. CASE ss # <<>>
  <2>1. Len(ss) \in Nat \ {0}
    BY <1>2
  <2>2. PICK g : Flattens(ss, Len(ss), g) /\ FlattenSeq(ss) = g[Len(ss)]
    BY <2>1, FlattenOf, Zenon
  <2> QED BY <1>2, <2>2, FlattensType, ZenonT(30)
<1> QED BY <1>1, <1>2, Zenon

\* A sequence appended to the list is appended to the concatenation.
LEMMA FlattenAppend ==
  ASSUME NEW S, NEW ss \in Seq(Seq(S)), NEW s \in Seq(S)
  PROVE  FlattenSeq(Append(ss, s)) = FlattenSeq(ss) \o s
<1> DEFINE rr == Append(ss, s)
           n == Len(ss)
<1>0. /\ n \in Nat /\ rr \in Seq(Seq(S)) /\ Len(rr) = n + 1 /\ rr[n + 1] = s
      /\ \A i \in 1..n : rr[i] = ss[i]
  OBVIOUS
<1> HIDE DEF rr
<1>1. PICK d : Flattens(rr, n + 1, d) /\ FlattenSeq(rr) = d[n + 1]
  <2>1. Len(rr) \in Nat \ {0}
    BY <1>0
  <2> QED BY <1>0, <2>1, FlattenOf, ZenonT(30)
<1>2. CASE n = 0
  <2>1. FlattenSeq(ss) = <<>>
    <3>1. ss = <<>>
      BY <1>2
    <3> QED BY <1>2, <3>1, ZenonT(30) DEF FlattenSeq
  <2>2. d[1] = rr[1]
    BY <1>1, <1>2 DEF Flattens
  <2>3. <<>> \o s = s
    OBVIOUS
  <2>4. FlattenSeq(rr) = s
    BY <1>0, <1>1, <1>2, <2>2
  <2> QED BY <2>1, <2>3, <2>4, ZenonT(30) DEF rr
<1>3. CASE n # 0
  <2>1. PICK g : Flattens(ss, n, g) /\ FlattenSeq(ss) = g[n]
    BY <1>0, <1>3, FlattenOf, ZenonT(30)
  <2>2. g[n] = d[n]
    <3>1. n + 1 \in Nat /\ n <= n /\ n <= n + 1 /\ \A i \in 1..n : ss[i] = rr[i]
      BY <1>0
    <3> HIDE DEF n
    <3> QED BY <1>0, <1>1, <1>3, <2>1, <3>1, FlattensAgree, SMTT(30)
  <2>3. d[n + 1] = d[n] \o rr[n + 1]
    <3>1. (n + 1) - 1 = n /\ n + 1 # 1 /\ n + 1 \in 1..(n + 1)
      BY <1>0, <1>3
    <3> HIDE DEF n
    <3> QED BY <1>1, <3>1, Zenon DEF Flattens
  <2> QED BY <1>0, <1>1, <2>1, <2>2, <2>3, ZenonT(30) DEF rr
<1> QED BY <1>2, <1>3, Zenon

\* Appending to the second of two sequences appends to both.
LEMMA ConcatAppend ==
  ASSUME NEW S, NEW s \in Seq(S), NEW t \in Seq(S), NEW e \in S
  PROVE  s \o Append(t, e) = Append(s \o t, e)
<1>1. /\ Append(t, e) \in Seq(S) /\ s \o t \in Seq(S) /\ Append(s \o t, e) \in Seq(S)
      /\ s \o Append(t, e) \in Seq(S)
  OBVIOUS
<1>2. Len(s \o Append(t, e)) = Len(Append(s \o t, e))
  OBVIOUS
<1>3. \A i \in 1..Len(s \o Append(t, e)) : (s \o Append(t, e))[i] = Append(s \o t, e)[i]
  OBVIOUS
<1> QED BY <1>1, <1>2, <1>3, SeqEqual, ZenonT(30)

-----------------------------------------------------------------------------
(* Batch proof consensus.  The score of a witness says nothing of the past  *)
(* by itself: Scored gives, for each number of invalid votes, a floor the   *)
(* score is not under.  An invalid vote takes a tenth off the floor; a      *)
(* valid one, or registering again, can only lift the score, since no floor *)
(* is above Scale.                                                          *)

\* Scale times (9/10)^f, for the votes that leave a witness reliable.
Floor == [f \in 0..6 |->
  CASE f = 0 -> 100000000 [] f = 1 -> 90000000 [] f = 2 -> 81000000 [] f = 3 -> 72900000
    [] f = 4 -> 65610000 [] f = 5 -> 59049000 [] f = 6 -> 53144100]

Scored ==
  /\ failures \in [Nodes -> Nat]
  /\ DOMAIN witnesses \subseteq Nodes
  /\ witnesses \in [DOMAIN witnesses -> Nat]
  /\ \A n \in DOMAIN witnesses : failures[n] \in 0..6 => witnesses[n] >= Floor[failures[n]]

\* The floors: each is nine tenths of the one before, and a witness at the last
\* one is still reliable.
LEMMA Floors ==
  /\ Floor[0] = 100000000 /\ Floor[1] = 90000000 /\ Floor[2] = 81000000 /\ Floor[3] = 72900000
  /\ Floor[4] = 65610000 /\ Floor[5] = 59049000 /\ Floor[6] = 53144100
  BY DEF Floor

\* An invalid vote takes a score from above one floor to above the next.
LEMMA FailureLowers ==
  ASSUME NEW s \in Nat, NEW f \in 0..5, s >= Floor[f]
  PROVE  updateWitnessReliability(s, FALSE) >= Floor[f + 1]
<1>1. f = 0 \/ f = 1 \/ f = 2 \/ f = 3 \/ f = 4 \/ f = 5
  OBVIOUS
<1>2. CASE f = 0
  BY <1>2, Floors DEF updateWitnessReliability, Scale
<1>3. CASE f = 1
  BY <1>3, Floors DEF updateWitnessReliability, Scale
<1>4. CASE f = 2
  BY <1>4, Floors DEF updateWitnessReliability, Scale
<1>5. CASE f = 3
  BY <1>5, Floors DEF updateWitnessReliability, Scale
<1>6. CASE f = 4
  BY <1>6, Floors DEF updateWitnessReliability, Scale
<1>7. CASE f = 5
  BY <1>7, Floors DEF updateWitnessReliability, Scale
<1> QED BY <1>1, <1>2, <1>3, <1>4, <1>5, <1>6, <1>7, ZenonT(30)

\* A valid vote keeps a score above its floor.
LEMMA SuccessKeeps ==
  ASSUME NEW s \in Nat, NEW f \in 0..6, s >= Floor[f]
  PROVE  updateWitnessReliability(s, TRUE) >= Floor[f]
<1>1. f = 0 \/ f = 1 \/ f = 2 \/ f = 3 \/ f = 4 \/ f = 5 \/ f = 6
  OBVIOUS
<1>2. CASE f = 0
  BY <1>2, Floors DEF updateWitnessReliability, Scale
<1>3. CASE f = 1
  BY <1>3, Floors DEF updateWitnessReliability, Scale
<1>4. CASE f = 2
  BY <1>4, Floors DEF updateWitnessReliability, Scale
<1>5. CASE f = 3
  BY <1>5, Floors DEF updateWitnessReliability, Scale
<1>6. CASE f = 4
  BY <1>6, Floors DEF updateWitnessReliability, Scale
<1>7. CASE f = 5
  BY <1>7, Floors DEF updateWitnessReliability, Scale
<1>8. CASE f = 6
  BY <1>8, Floors DEF updateWitnessReliability, Scale
<1> QED BY <1>1, <1>2, <1>3, <1>4, <1>5, <1>6, <1>7, <1>8, ZenonT(30)

\* No floor is above the score of a new witness.
LEMMA FloorsUnderScale == \A f \in 0..6 : Scale >= Floor[f]
<1> SUFFICES ASSUME NEW f \in 0..6 PROVE Scale >= Floor[f]
  OBVIOUS
<1>1. f = 0 \/ f = 1 \/ f = 2 \/ f = 3 \/ f = 4 \/ f = 5 \/ f = 6
  OBVIOUS
<1> QED BY <1>1, Floors DEF Scale

\* A score is a natural number.
LEMMA ScoreType ==
  ASSUME NEW s \in Nat, NEW valid \in BOOLEAN
  PROVE  updateWitnessReliability(s, valid) \in Nat
  BY DEF updateWitnessReliability, Scale

\* Votes and registrations leave every witness above its floor.
LEMMA ScoredStep == Scored /\ [ConsensusNext]_consensus_vars => Scored'
<1> SUFFICES ASSUME Scored, [ConsensusNext]_consensus_vars PROVE Scored'
  OBVIOUS
<1>1. ASSUME UNCHANGED <<witnesses, failures>> PROVE Scored'
  BY <1>1 DEF Scored
<1>2. ASSUME NEW n \in Nodes, registerWitness(n) PROVE Scored'
  <2>1. UNCHANGED failures
    BY <1>2 DEF registerWitness
  <2>2. /\ DOMAIN witnesses' = DOMAIN witnesses \cup {n}
        /\ \A m \in DOMAIN witnesses' : witnesses'[m] = IF m = n THEN Scale ELSE witnesses[m]
        /\ witnesses' \in [DOMAIN witnesses' -> Nat]
    BY <1>2 DEF registerWitness, Scored, Scale
  <2> QED BY <2>1, <2>2, FloorsUnderScale DEF Scored
<1>3. ASSUME NEW n \in Nodes, NEW i \in DOMAIN proofs, NEW signed \in BOOLEAN, submitWitnessVote(n, signed, i)
      PROVE  Scored'
  <2>1. CASE n \notin DOMAIN witnesses
    BY <1>1, <1>3, <2>1 DEF submitWitnessVote
  <2>2. CASE n \in DOMAIN witnesses
    <3> DEFINE s == updateWitnessReliability(witnesses[n], signed)
    <3>0. verifyWitnessSignature(n, signed) = signed
      BY <2>2 DEF verifyWitnessSignature
    <3>1. s \in Nat
      BY <2>2, ScoreType DEF Scored
    <3>2. witnesses' = [witnesses EXCEPT ![n] = s]
      BY <1>3, <2>2, <3>0 DEF submitWitnessVote
    <3>3. failures' = IF signed THEN failures ELSE [failures EXCEPT ![n] = failures[n] + 1]
      BY <1>3, <2>2, <3>0 DEF submitWitnessVote
    <3>4. failures'[n] \in 0..6 => s >= Floor[failures'[n]]
      <4>1. failures[n] \in Nat /\ witnesses[n] \in Nat
        BY <2>2 DEF Scored
      <4>2. CASE signed
        BY <2>2, <3>3, <4>1, <4>2, SuccessKeeps, ZenonT(30) DEF Scored
      <4>3. CASE signed = FALSE
        <5>1. failures'[n] = failures[n] + 1
          BY <3>3, <4>3 DEF Scored
        <5>2. failures'[n] \in 0..6 => failures[n] \in 0..5 /\ witnesses[n] >= Floor[failures[n]]
          BY <2>2, <4>1, <5>1 DEF Scored
        <5> QED BY <4>1, <4>3, <5>1, <5>2, FailureLowers, ZenonT(30)
      <4> QED BY <4>2, <4>3, Zenon
    <3> HIDE DEF s
    <3>5. failures' \in [Nodes -> Nat] /\ \A m \in Nodes : m # n => failures'[m] = failures[m]
      BY <3>3 DEF Scored
    <3>6. /\ DOMAIN witnesses' = DOMAIN witnesses /\ witnesses' \in [DOMAIN witnesses' -> Nat]
          /\ witnesses'[n] = s
          /\ \A m \in DOMAIN witnesses : m # n => witnesses'[m] = witnesses[m]
      BY <2>2, <3>1, <3>2 DEF Scored
    <3> QED BY <3>4, <3>5, <3>6 DEF Scored
  <2> QED BY <2>1, <2>2
<1>4. CASE UNCHANGED consensus_vars
  BY <1>1, <1>4 DEF consensus_vars
<1>5. CASE generateBatchProof \/ selectWitnesses \/ \E tx \in Transactions : addTransaction(tx)
  BY <1>1, <1>5 DEF generateBatchProof, selectWitnesses, addTransaction
<1> QED BY <1>2, <1>3, <1>4, <1>5 DEF ConsensusNext

\* A witness falls under the reliability threshold only after seven votes that
\* did not verify.
THEOREM SevenFailuresExclude == ConsensusSpec => []ExclusionNeedsSevenFailures
<1>1. ConsensusInit => Scored
  BY DEF ConsensusInit, Scored
<1>2. Scored => ExclusionNeedsSevenFailures
  <2> SUFFICES ASSUME Scored, NEW n \in DOMAIN witnesses, n \notin reliable, failures[n] \in 0..6
               PROVE  FALSE
    BY DEF ExclusionNeedsSevenFailures, Scored
  <2>1. witnesses[n] \in Nat /\ witnesses[n] >= Floor[failures[n]]
    BY DEF Scored
  <2>2. \A f \in 0..6 : 2 * Floor[f] >= Scale /\ Floor[f] \in Nat
    <3> SUFFICES ASSUME NEW f \in 0..6 PROVE 2 * Floor[f] >= Scale /\ Floor[f] \in Nat
      OBVIOUS
    <3>1. f = 0 \/ f = 1 \/ f = 2 \/ f = 3 \/ f = 4 \/ f = 5 \/ f = 6
      OBVIOUS
    <3> QED BY <3>1, Floors DEF Scale
  <2>3. 2 * witnesses[n] >= Scale
    BY <2>1, <2>2 DEF Scale
  <2> QED BY <2>3 DEF reliable
<1> QED BY <1>1, <1>2, ScoredStep, PTL DEF ConsensusSpec

\* What the batches hold, and that a proof carries one signature for each vote
\* on it that a registered witness signed.
Counted ==
  /\ pending_transactions \in Seq(Transactions)
  /\ accepted \in Seq(Transactions)
  /\ proofs \in Seq([transactions : Seq(Transactions), witness_signatures : Seq(Nodes)])
  /\ verified \in Seq(Nat) /\ Len(verified) = Len(proofs)
  /\ TransactionsConserved
  /\ \A i \in DOMAIN proofs : verified[i] = Len(proofs[i].witness_signatures)

\* The transactions of each batch, as TransactionsConserved writes them.
Batches == [i \in DOMAIN proofs |-> proofs[i].transactions]

\* They are sequences of transactions.
LEMMA CountedTypes ==
  ASSUME Counted
  PROVE  Batches \in Seq(Seq(Transactions))
<1>1. Batches \in Seq(Seq(Transactions))
  <2> DEFINE n == Len(proofs)
             P == [transactions : Seq(Transactions), witness_signatures : Seq(Nodes)]
  <2>0. proofs \in Seq(P) /\ \A p \in P : p.transactions \in Seq(Transactions)
    BY DEF Counted
  <2> HIDE DEF P
  <2>1. n \in Nat /\ DOMAIN proofs = 1..n /\ \A i \in 1..n : proofs[i].transactions \in Seq(Transactions)
    BY <2>0
  <2> HIDE DEF n
  <2>2. Batches \in [1..n -> Seq(Transactions)]
    BY <2>1 DEF Batches
  <2> QED BY <2>1, <2>2, SeqDef
<1> QED BY <1>1

\* An accepted transaction goes to the end of the pool.
LEMMA CountedAdd ==
  ASSUME Counted, NEW tx \in Transactions, addTransaction(tx)
  PROVE  Counted'
<1> DEFINE b == FlattenSeq(Batches)
<1>1. UNCHANGED <<proofs, verified>>
  BY DEF addTransaction
<1>2. /\ pending_transactions' = Append(pending_transactions, tx)
      /\ accepted' = Append(accepted, tx)
  BY DEF addTransaction
<1>3. pending_transactions' \in Seq(Transactions) /\ accepted' \in Seq(Transactions)
  BY <1>2 DEF Counted
<1>4. TransactionsConserved'
  <2>1. b \in Seq(Transactions)
    BY CountedTypes, FlattenType
  <2>2. b \o pending_transactions = accepted /\ pending_transactions \in Seq(Transactions)
    BY DEF Counted, TransactionsConserved, Batches
  <2> HIDE DEF b
  <2>3. b \o Append(pending_transactions, tx) = Append(b \o pending_transactions, tx)
    <3>1. pending_transactions \in Seq(Transactions)
      BY <2>2
    <3> QED BY <2>1, <3>1, ConcatAppend
  <2>4. b \o pending_transactions' = accepted'
    BY <1>2, <2>2, <2>3
  <2> QED BY <1>1, <2>4 DEF TransactionsConserved, Batches, b
<1> QED BY <1>1, <1>3, <1>4 DEF Counted

\* A batch takes the whole pool and has no signatures yet.
LEMMA CountedBatch ==
  ASSUME Counted, generateBatchProof
  PROVE  Counted'
<1> DEFINE p == [transactions |-> pending_transactions, witness_signatures |-> <<>>]
           n == Len(proofs)
<1>1. /\ proofs' = Append(proofs, p)
      /\ pending_transactions' = <<>>
      /\ verified' = Append(verified, 0)
      /\ UNCHANGED accepted
  BY DEF generateBatchProof, cleared
<1>2. /\ p \in [transactions : Seq(Transactions), witness_signatures : Seq(Nodes)]
      /\ p.transactions = pending_transactions /\ Len(p.witness_signatures) = 0
  BY DEF Counted
<1> HIDE DEF p
<1>3. /\ proofs' \in Seq([transactions : Seq(Transactions), witness_signatures : Seq(Nodes)])
      /\ DOMAIN proofs' = 1..(n + 1) /\ DOMAIN proofs = 1..n /\ n \in Nat
      /\ proofs'[n + 1] = p /\ \A i \in 1..n : proofs'[i] = proofs[i]
  BY <1>1, <1>2 DEF Counted
<1>4. TransactionsConserved'
  <2>1. Batches \in Seq(Seq(Transactions)) /\ pending_transactions \in Seq(Transactions)
    BY CountedTypes DEF Counted
  <2>2. Batches' = Append(Batches, pending_transactions)
    <3>1. Batches = [i \in 1..n |-> proofs[i].transactions] /\ Len(Batches) = n
      BY <1>3, <2>1 DEF Batches
    <3>2. Batches' = [i \in 1..(n + 1) |-> proofs'[i].transactions]
      BY <1>3 DEF Batches
    <3>3. \A i \in 1..(n + 1) : i \notin 1..n => i = n + 1
      BY <1>3
    <3>4. \A i \in 1..(n + 1) : Batches'[i] = IF i = n + 1 THEN pending_transactions ELSE Batches[i]
      BY <1>2, <1>3, <3>1, <3>2, <3>3, ZenonT(30)
    <3> DEFINE a == Append(Batches, pending_transactions)
    <3>5. /\ a \in Seq(Seq(Transactions)) /\ Len(a) = n + 1
          /\ \A i \in 1..(n + 1) : a[i] = IF i = n + 1 THEN pending_transactions ELSE Batches[i]
      BY <1>3, <2>1, <3>1, AppendProperties
    <3>6. Batches' \in Seq(Seq(Transactions)) /\ Len(Batches') = n + 1
      <4>0. \A i \in 1..n : Batches[i] \in Seq(Transactions)
        BY <2>1, <3>1, ElementOfSeq
      <4>1. \A i \in 1..(n + 1) : Batches'[i] \in Seq(Transactions)
        BY <2>1, <3>3, <3>4, <4>0, SMTT(30)
      <4>2. Batches' \in [1..(n + 1) -> Seq(Transactions)]
        BY <3>2, <4>1
      <4> HIDE DEF n
      <4>3. n + 1 \in Nat
        BY <1>3
      <4> QED BY <4>2, <4>3, SeqDef
    <3> HIDE DEF a
    <3>7. Batches' = a
      BY <3>4, <3>5, <3>6, SeqEqual, ZenonT(30)
    <3> QED BY <3>7 DEF a
  <2>3. FlattenSeq(Batches') = FlattenSeq(Batches) \o pending_transactions
    BY <2>1, <2>2, FlattenAppend
  <2>4. FlattenSeq(Batches) \o pending_transactions = accepted /\ accepted \in Seq(Transactions)
    BY DEF Counted, TransactionsConserved, Batches
  <2>5. FlattenSeq(Batches') \o <<>> = accepted
    BY <2>3, <2>4
  <2> QED BY <1>1, <2>5 DEF TransactionsConserved, Batches
<1>5. /\ verified' \in Seq(Nat) /\ Len(verified') = n + 1 /\ Len(proofs') = n + 1
      /\ verified'[n + 1] = 0 /\ \A i \in 1..n : verified'[i] = verified[i]
  <2>1. verified \in Seq(Nat) /\ Len(verified) = n /\ n \in Nat
    BY <1>3 DEF Counted
  <2>2. Len(proofs') = n + 1
    BY <1>3
  <2> HIDE DEF n
  <2> QED BY <1>1, <2>1, <2>2
<1>6. \A i \in DOMAIN proofs' : verified'[i] = Len(proofs'[i].witness_signatures)
  <2> SUFFICES ASSUME NEW i \in 1..(n + 1)
               PROVE  verified'[i] = Len(proofs'[i].witness_signatures)
    BY <1>3
  <2>1. CASE i \in 1..n
    BY <1>3, <1>5, <2>1, Zenon DEF Counted
  <2>2. CASE i = n + 1
    BY <1>2, <1>3, <1>5, <2>2
  <2> QED BY <1>3, <2>1, <2>2
<1>7. pending_transactions' \in Seq(Transactions) /\ accepted' \in Seq(Transactions)
  BY <1>1 DEF Counted
<1> HIDE DEF n
<1> QED BY <1>3, <1>4, <1>5, <1>6, <1>7, ZenonT(30) DEF Counted

\* A vote adds a signature to one proof exactly when it is one of a registered
\* witness that signed this proof.
LEMMA CountedVote ==
  ASSUME Counted, NEW n \in Nodes, NEW i \in DOMAIN proofs, NEW signed \in BOOLEAN,
         submitWitnessVote(n, signed, i)
  PROVE  Counted'
<1> DEFINE P == [transactions : Seq(Transactions), witness_signatures : Seq(Nodes)]
           signatures == proofs[i].witness_signatures
           q == [proofs[i] EXCEPT !.witness_signatures = Append(signatures, n)]
           valid == n \in DOMAIN witnesses /\ signed
<1>0. UNCHANGED <<pending_transactions, accepted>>
  BY DEF submitWitnessVote
<1>1. CASE ~valid
  <2>1. verified' = verified
    BY <1>1 DEF submitWitnessVote
  <2>2. proofs[i] \in P
    <3>1. proofs \in Seq(P) /\ i \in 1..Len(proofs)
      BY DEF Counted
    <3> QED BY <3>1, ElementOfSeq, Zenon
  <2>3. proofs' = proofs
    <3> DEFINE r == [proofs[i] EXCEPT !.witness_signatures = @]
    <3>1. r = proofs[i]
      BY <2>2, Zenon
    <3>2. n \in DOMAIN witnesses => proofs' = [proofs EXCEPT ![i] = r]
      BY <1>1, Zenon DEF submitWitnessVote, verifyWitnessSignature
    <3> HIDE DEF r
    <3>3. \E K : proofs \in Seq(K)
      BY DEF Counted
    <3>4. [proofs EXCEPT ![i] = proofs[i]] = proofs
      BY <3>3
    <3>5. n \notin DOMAIN witnesses => proofs' = proofs
      BY DEF submitWitnessVote
    <3> QED BY <3>1, <3>2, <3>4, <3>5
  <2> QED BY <1>0, <2>1, <2>3, ZenonT(30) DEF Counted, TransactionsConserved
<1>2. CASE valid
  <2>1. /\ proofs' = [proofs EXCEPT ![i] = q]
        /\ verified' = [verified EXCEPT ![i] = verified[i] + 1]
    BY <1>2 DEF submitWitnessVote, verifyWitnessSignature
  <2>2. proofs[i] \in P /\ proofs \in Seq(P) /\ signatures \in Seq(Nodes)
    <3> HIDE DEF q
    <3>1. proofs \in Seq(P) /\ i \in 1..Len(proofs)
      BY DEF Counted
    <3>2. proofs[i] \in P
      BY <3>1, ElementOfSeq, Zenon
    <3> QED BY <3>1, <3>2
  <2>3. Append(signatures, n) \in Seq(Nodes) /\ Len(Append(signatures, n)) = Len(signatures) + 1
    BY <2>2
  <2>4. q \in P /\ q.transactions = proofs[i].transactions
        /\ q.witness_signatures = Append(signatures, n)
    BY <2>2, <2>3, Zenon
  <2> HIDE DEF q, P
  <2>5. /\ proofs' \in Seq(P) /\ DOMAIN proofs' = DOMAIN proofs /\ Len(proofs') = Len(proofs)
        /\ proofs'[i] = q /\ \A j \in DOMAIN proofs : j # i => proofs'[j] = proofs[j]
    BY <2>1, <2>2, <2>4
  <2>6. TransactionsConserved'
    <3>1. Batches' = Batches
      BY <2>4, <2>5 DEF Batches
    <3> QED BY <1>0, <3>1, Zenon DEF Counted, TransactionsConserved, Batches
  <2>7. /\ verified' \in Seq(Nat) /\ Len(verified') = Len(proofs)
        /\ verified'[i] = verified[i] + 1
        /\ \A j \in DOMAIN proofs : j # i => verified'[j] = verified[j]
    <3>1. /\ verified \in Seq(Nat) /\ Len(verified) = Len(proofs)
          /\ DOMAIN proofs = 1..Len(proofs) /\ DOMAIN verified = DOMAIN proofs
      BY <2>2 DEF Counted
    <3>2. verified[i] \in Nat
      BY <3>1
    <3> QED BY <2>1, <3>1, <3>2
  <2>8. \A j \in DOMAIN proofs' : verified'[j] = Len(proofs'[j].witness_signatures)
    <3> SUFFICES ASSUME NEW j \in DOMAIN proofs PROVE verified'[j] = Len(proofs'[j].witness_signatures)
      BY <2>5
    <3>1. verified[j] = Len(proofs[j].witness_signatures)
      BY DEF Counted
    <3>2. CASE j = i
      BY <2>3, <2>4, <2>5, <2>7, <3>1, <3>2
    <3>3. CASE j # i
      BY <2>5, <2>7, <3>1, <3>3
    <3> QED BY <3>2, <3>3
  <2>9. pending_transactions' \in Seq(Transactions) /\ accepted' \in Seq(Transactions)
    BY <1>0 DEF Counted
  <2> QED BY <2>5, <2>6, <2>7, <2>8, <2>9, ZenonT(30) DEF Counted, P
<1> QED BY <1>1, <1>2

\* Every call keeps the counts.
LEMMA CountedStep == Counted /\ [ConsensusNext]_consensus_vars => Counted'
<1> SUFFICES ASSUME Counted, [ConsensusNext]_consensus_vars PROVE Counted'
  OBVIOUS
<1>1. ASSUME UNCHANGED <<pending_transactions, accepted, proofs, verified>> PROVE Counted'
  BY <1>1 DEF Counted, TransactionsConserved
<1>2. CASE UNCHANGED consensus_vars
  BY <1>1, <1>2 DEF consensus_vars
<1>3. CASE selectWitnesses \/ \E n \in Nodes : registerWitness(n)
  BY <1>1, <1>3, Zenon DEF selectWitnesses, registerWitness
<1> QED BY <1>2, <1>3, CountedAdd, CountedBatch, CountedVote, SMTT(30) DEF ConsensusNext

\* The counts agree from the start on.
LEMMA CountedAlways == ConsensusSpec => []Counted
<1>1. ConsensusInit => Counted
  <2> SUFFICES ASSUME ConsensusInit PROVE Counted
    OBVIOUS
  <2>1. /\ pending_transactions = <<>> /\ accepted = <<>> /\ proofs = <<>> /\ verified = <<>>
    BY DEF ConsensusInit
  <2>2. TransactionsConserved
    <3>1. [i \in DOMAIN proofs |-> proofs[i].transactions] = <<>>
      BY <2>1
    <3>2. FlattenSeq(<<>>) = <<>>
      BY DEF FlattenSeq
    <3> QED BY <2>1, <3>1, <3>2 DEF TransactionsConserved
  <2> QED BY <2>1, <2>2 DEF Counted
<1> QED BY <1>1, CountedStep, PTL DEF ConsensusSpec

\* Every accepted transaction is in exactly one batch or still in the pool, in
\* the order addTransaction took them, for a pool and batches of any size.
THEOREM NothingLostInBatches == ConsensusSpec => []TransactionsConserved
<1>1. Counted => TransactionsConserved
  BY DEF Counted
<1> QED BY <1>1, CountedAlways, PTL

\* A proof that hasReachedConsensus accepts had its quorum of votes of registered
\* witnesses that signed this proof: no vote of an unknown node, on another proof
\* or with a signature that does not verify is among those it counts.
THEOREM QuorumOfValidVotes == ConsensusSpec => []ConsensusNeedsValidVotes
<1>1. Counted => ConsensusNeedsValidVotes
  <2> SUFFICES ASSUME Counted, NEW i \in DOMAIN proofs, hasReachedConsensus(proofs[i])
               PROVE  100 * verified[i] >= Threshold * witness_count
    BY Zenon DEF ConsensusNeedsValidVotes
  <2>1. verified[i] = Len(proofs[i].witness_signatures)
    BY DEF Counted
  <2> QED BY <2>1 DEF hasReachedConsensus
<1> QED BY <1>1, CountedAlways, PTL
=============================================================================
