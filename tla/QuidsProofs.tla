---------------------------- MODULE QuidsProofs -----------------------------
(***************************************************************************)
(* The token contract Quids and its bridge, for any chains, accounts and   *)
(* amounts.  The first section proves what MapThenSumSet computes, with    *)
(* the induction of ConsensusProofs: conservation adds up the supplies of  *)
(* the chains and the amounts in flight.                                   *)
(***************************************************************************)
EXTENDS Quids, ConsensusProofs

-----------------------------------------------------------------------------
(* Sums.  MapThenSumSet removes a chosen element at a time; Sums says that *)
(* g is the function it recurses with.                                     *)

\* The sum of f over S, as the properties write it.
Total(f, S) == MapThenSumSet(LAMBDA x : f[x], S)

Pick(s) == CHOOSE x \in s : TRUE

Sums(f, D, g) == g = [s \in D |-> IF s = {} THEN 0 ELSE f[Pick(s)] + g[s \ {Pick(s)}]]

\* A total is the value of the function that MapThenSumSet chooses.
LEMMA TotalDef == ASSUME NEW f, NEW S PROVE Total(f, S) = (CHOOSE g : Sums(f, SUBSET S, g))[S]
  BY DEF Total, MapThenSumSet, MapThenFoldSet, Sums, Pick

\* The chosen element is one.
LEMMA PickMember == ASSUME NEW s, s # {} PROVE Pick(s) \in s
  BY DEF Pick

\* Taking one element away leaves one less.
LEMMA Smaller ==
  ASSUME NEW U, IsFiniteSet(U), NEW k \in Nat, NEW s \in SUBSET U, Cardinality(s) <= k + 1, NEW x \in s
  PROVE  s \ {x} \in SUBSET U /\ Cardinality(s \ {x}) <= k
<1>1. IsFiniteSet(s)
  BY FS_Subset, Zenon
<1>2. Cardinality(s \ {x}) = Cardinality(s) - 1 /\ Cardinality(s) \in Nat
  BY <1>1, FS_RemoveElement, FS_CardinalityType, ZenonT(30)
<1> QED BY <1>2

\* The subsets of U with at most k elements.
Small(U, k) == {s \in SUBSET U : Cardinality(s) <= k}

\* The function exists: on the subsets of size k it is built from the one of
\* the subsets of size k - 1.
LEMMA SumsExist ==
  ASSUME NEW f, NEW U, IsFiniteSet(U)
  PROVE  \E g : Sums(f, SUBSET U, g)
<1> DEFINE B == {k \in Nat : \E g : Sums(f, Small(U, k), g)}
<1>1. 0 \in B
  <2>1. \A s \in Small(U, 0) : s = {}
    <3> SUFFICES ASSUME NEW s \in SUBSET U, Cardinality(s) <= 0 PROVE s = {}
      BY DEF Small
    <3>1. IsFiniteSet(s)
      BY FS_Subset, Zenon
    <3>2. Cardinality(s) = 0
      BY <3>1, FS_CardinalityType
    <3> QED BY <3>1, <3>2, FS_EmptySet, ZenonT(30)
  <2> DEFINE g == [s \in Small(U, 0) |-> 0]
  <2>2. Sums(f, Small(U, 0), g)
    BY <2>1, Zenon DEF Sums
  <2> QED BY <2>2, Zenon
<1>2. ASSUME NEW k \in Nat, k \in B PROVE k + 1 \in B
  <2>1. PICK g : Sums(f, Small(U, k), g)
    BY <1>2
  <2> DEFINE d == [s \in Small(U, k + 1) |-> IF s = {} THEN 0 ELSE f[Pick(s)] + g[s \ {Pick(s)}]]
  <2>2. ASSUME NEW s \in Small(U, k) PROVE s \in Small(U, k + 1) /\ d[s] = g[s]
    <3>1. s \in SUBSET U /\ Cardinality(s) <= k
      BY <2>2 DEF Small
    <3>2. Cardinality(s) \in Nat
      BY <3>1, FS_Subset, FS_CardinalityType, ZenonT(30)
    <3>3. s \in Small(U, k + 1)
      BY <3>1, <3>2 DEF Small
    <3> QED BY <2>1, <3>3, Zenon DEF Sums
  <2>3. ASSUME NEW s \in Small(U, k + 1), s # {} PROVE s \ {Pick(s)} \in Small(U, k)
    BY <2>3, PickMember, Smaller, ZenonT(30) DEF Small
  <2>4. \A s \in Small(U, k + 1) : d[s] = IF s = {} THEN 0 ELSE f[Pick(s)] + d[s \ {Pick(s)}]
    BY <2>2, <2>3, Zenon
  <2>5. Sums(f, Small(U, k + 1), d)
    <3>1. d = [s \in Small(U, k + 1) |-> d[s]]
      OBVIOUS
    <3> HIDE DEF d
    <3> QED BY <2>4, <3>1, Zenon DEF Sums
  <2> QED BY <2>5
<1> HIDE DEF B
<1>3. Cardinality(U) \in Nat /\ Cardinality(U) \in B
  BY <1>1, <1>2, SetInduction, FS_CardinalityType, ZenonT(30)
<1>4. Small(U, Cardinality(U)) = SUBSET U
  BY FS_Subset, Zenon DEF Small
<1> QED BY <1>3, <1>4, Zenon DEF B

Adds(f, U, g) == Sums(f, SUBSET U, g)

\* So a total is the value of a function that recurses as it should.
LEMMA TotalSums ==
  ASSUME NEW f, NEW U, IsFiniteSet(U)
  PROVE  \E g : Adds(f, U, g) /\ Total(f, U) = g[U]
<1> DEFINE g == CHOOSE g : Adds(f, U, g)
<1>1. Adds(f, U, g)
  BY SumsExist, Zenon DEF Adds
<1> QED BY <1>1, TotalDef, Zenon DEF Adds

\* Two such functions agree on a set on which the summands agree.
LEMMA SumsAgree ==
  ASSUME NEW f, NEW U, NEW g, Adds(f, U, g),
         NEW h, NEW V, NEW d, Adds(h, V, d),
         NEW T, IsFiniteSet(T), T \subseteq U, T \subseteq V, \A x \in T : f[x] = h[x]
  PROVE  g[T] = d[T]
<1> DEFINE B == {k \in Nat : \A s \in SUBSET T : Cardinality(s) <= k => g[s] = d[s]}
<1>0. g[{}] = 0 /\ d[{}] = 0
  BY DEF Adds, Sums
<1>1. 0 \in B
  <2> SUFFICES ASSUME NEW s \in SUBSET T, Cardinality(s) <= 0 PROVE g[s] = d[s]
    OBVIOUS
  <2>1. IsFiniteSet(s)
    BY FS_Subset, Zenon
  <2>2. Cardinality(s) = 0
    BY <2>1, FS_CardinalityType
  <2>3. s = {}
    BY <2>1, <2>2, FS_EmptySet, ZenonT(30)
  <2> QED BY <1>0, <2>3, Zenon
<1>2. ASSUME NEW k \in Nat, k \in B PROVE k + 1 \in B
  <2> SUFFICES ASSUME NEW s \in SUBSET T, Cardinality(s) <= k + 1, s # {} PROVE g[s] = d[s]
    BY <1>0
  <2>1. Pick(s) \in s
    BY PickMember, Zenon
  <2> DEFINE r == s \ {Pick(s)}
  <2>2. r \in SUBSET T /\ Cardinality(r) <= k
    BY <2>1, Smaller, Zenon
  <2>3. g[r] = d[r]
    BY <1>2, <2>2, Zenon
  <2>4. g[s] = f[Pick(s)] + g[r] /\ d[s] = h[Pick(s)] + d[r]
    BY Zenon DEF Adds, Sums
  <2> QED BY <2>1, <2>3, <2>4, ZenonT(30)
<1> HIDE DEF B
<1>3. Cardinality(T) \in Nat /\ Cardinality(T) \in B
  BY <1>1, <1>2, SetInduction, FS_CardinalityType, ZenonT(30)
<1> QED BY <1>3 DEF B

\* The sum of integers does not depend on which element is taken first.
LEMMA SumsPull ==
  ASSUME NEW f, NEW U, IsFiniteSet(U), \A x \in U : f[x] \in Int, NEW g, Adds(f, U, g)
  PROVE  g[U] \in Int /\ \A x \in U : g[U] = f[x] + g[U \ {x}]
<1> DEFINE Pulls(s) == g[s] \in Int /\ \A x \in s : g[s] = f[x] + g[s \ {x}]
           B == {k \in Nat : \A s \in SUBSET U : Cardinality(s) <= k => Pulls(s)}
<1>0. Pulls({})
  BY DEF Adds, Sums
<1>1. 0 \in B
  <2> SUFFICES ASSUME NEW s \in SUBSET U, Cardinality(s) <= 0 PROVE Pulls(s)
    OBVIOUS
  <2>1. IsFiniteSet(s)
    BY FS_Subset, Zenon
  <2>2. Cardinality(s) = 0
    BY <2>1, FS_CardinalityType
  <2>3. s = {}
    BY <2>1, <2>2, FS_EmptySet, ZenonT(30)
  <2> QED BY <1>0, <2>3, Zenon
<1>2. ASSUME NEW k \in Nat, k \in B PROVE k + 1 \in B
  <2> SUFFICES ASSUME NEW s \in SUBSET U, Cardinality(s) <= k + 1, s # {} PROVE Pulls(s)
    <3> HIDE DEF Pulls
    <3> QED BY <1>0
  <2> DEFINE p == Pick(s)
  <2>1. p \in s /\ f[p] \in Int
    BY PickMember, Zenon
  <2>2. \A x \in s : s \ {x} \in SUBSET U /\ Cardinality(s \ {x}) <= k
    BY Smaller, Zenon
  <2>3. \A x \in s : Pulls(s \ {x})
    BY <1>2, <2>2, Zenon
  <2>4. g[s] = f[p] + g[s \ {p}]
    BY Zenon DEF Adds, Sums
  <2> HIDE DEF p
  <2>5. g[s] \in Int
    <3>1. g[s \ {p}] \in Int
      BY <2>1, <2>3, Zenon
    <3> HIDE DEF Pulls, B
    <3> QED BY <2>1, <2>4, <3>1
  <2>6. ASSUME NEW x \in s PROVE g[s] = f[x] + g[s \ {x}]
    <3>1. CASE x = p
      BY <2>4, <3>1, ZenonT(30)
    <3>2. CASE x # p
      <4> DEFINE r == (s \ {p}) \ {x}
      <4>1. r = (s \ {x}) \ {p}
        BY Zenon
      <4>2. g[s \ {p}] = f[x] + g[r] /\ x \in s \ {p}
        BY <2>1, <2>3, <3>2, Zenon
      <4>3. g[s \ {x}] = f[p] + g[r]
        BY <2>1, <2>3, <3>2, <4>1, Zenon
      <4>4. r = (s \ {p}) \ {x} /\ g[s \ {p}] \in Int /\ g[s \ {x}] \in Int /\ f[x] \in Int
        BY <2>1, <2>3, Zenon
      <4>5. g[r] \in Int
        <5>1. r \in SUBSET U /\ Cardinality(s \ {p}) <= k + 1 /\ s \ {p} \in SUBSET U
          BY <2>1, <2>2, FS_Subset, FS_CardinalityType
        <5>2. Cardinality(r) <= k
          BY <4>2, <5>1, Smaller
        <5> QED BY <1>2, <5>1, <5>2, ZenonT(30)
      <4> HIDE DEF r
      <4> QED BY <2>1, <2>4, <4>2, <4>3, <4>4, <4>5
    <3> QED BY <3>1, <3>2, Zenon
  <2> QED BY <2>5, <2>6, Zenon
<1>3. Cardinality(U) \in Nat /\ Cardinality(U) \in B
  <2> HIDE DEF B
  <2> QED BY <1>1, <1>2, SetInduction, FS_CardinalityType, Zenon
<1>4. U \in SUBSET U /\ Cardinality(U) <= Cardinality(U)
  BY <1>3
<1>5. Pulls(U)
  <2> HIDE DEF Pulls
  <2> QED BY <1>3, <1>4, ZenonT(30)
<1> QED BY <1>5, Zenon

\* The total over no elements.
LEMMA TotalEmpty == ASSUME NEW f PROVE Total(f, {}) = 0
<1>1. PICK g : Adds(f, {}, g) /\ Total(f, {}) = g[{}]
  BY TotalSums, FS_EmptySet, Zenon
<1> QED BY <1>1, ZenonT(30) DEF Adds, Sums

\* A total of integers is one.
LEMMA TotalType ==
  ASSUME NEW f, NEW U, IsFiniteSet(U), \A x \in U : f[x] \in Int
  PROVE  Total(f, U) \in Int
<1>1. PICK g : Adds(f, U, g) /\ Total(f, U) = g[U]
  BY TotalSums, Zenon
<1> QED BY <1>1, SumsPull

\* Only the values on the set matter.
LEMMA TotalSame ==
  ASSUME NEW f, NEW h, NEW U, IsFiniteSet(U), \A x \in U : f[x] = h[x]
  PROVE  Total(f, U) = Total(h, U)
<1>1. PICK g : Adds(f, U, g) /\ Total(f, U) = g[U]
  BY TotalSums, Zenon
<1>2. PICK d : Adds(h, U, d) /\ Total(h, U) = d[U]
  BY TotalSums, Zenon
<1>3. g[U] = d[U]
  BY <1>1, <1>2, SumsAgree
<1> QED BY <1>1, <1>2, <1>3, Zenon

\* Taking an element away.
LEMMA TotalRemove ==
  ASSUME NEW f, NEW U, IsFiniteSet(U), \A x \in U : f[x] \in Int, NEW x \in U
  PROVE  Total(f, U) = f[x] + Total(f, U \ {x})
<1>0. IsFiniteSet(U \ {x})
  BY FS_RemoveElement, Zenon
<1>1. PICK g : Adds(f, U, g) /\ Total(f, U) = g[U]
  BY TotalSums, Zenon
<1>2. PICK d : Adds(f, U \ {x}, d) /\ Total(f, U \ {x}) = d[U \ {x}]
  BY <1>0, TotalSums, Zenon
<1>3. g[U \ {x}] = d[U \ {x}]
  BY <1>0, <1>1, <1>2, SumsAgree
<1>4. g[U] = f[x] + g[U \ {x}]
  BY <1>1, SumsPull
<1> QED BY <1>1, <1>2, <1>3, <1>4, Zenon

\* A total of zeros, by induction on the size of the set.
LEMMA TotalZero ==
  ASSUME NEW f, NEW U, IsFiniteSet(U), \A x \in U : f[x] = 0
  PROVE  Total(f, U) = 0
<1> DEFINE B == {k \in Nat : \A s \in SUBSET U : Cardinality(s) <= k => Total(f, s) = 0}
<1>1. 0 \in B
  <2> SUFFICES ASSUME NEW s \in SUBSET U, Cardinality(s) <= 0 PROVE Total(f, s) = 0
    OBVIOUS
  <2>1. IsFiniteSet(s)
    BY FS_Subset, Zenon
  <2>2. Cardinality(s) = 0
    BY <2>1, FS_CardinalityType
  <2>3. s = {}
    BY <2>1, <2>2, FS_EmptySet, ZenonT(30)
  <2> QED BY <2>3, TotalEmpty, Zenon
<1>2. ASSUME NEW k \in Nat, k \in B PROVE k + 1 \in B
  <2> SUFFICES ASSUME NEW s \in SUBSET U, Cardinality(s) <= k + 1, s # {} PROVE Total(f, s) = 0
    BY TotalEmpty
  <2>1. PICK x \in s : TRUE
    OBVIOUS
  <2>2. s \ {x} \in SUBSET U /\ Cardinality(s \ {x}) <= k
    BY <2>1, Smaller, Zenon
  <2>3. Total(f, s \ {x}) = 0
    BY <1>2, <2>2, Zenon
  <2>4. IsFiniteSet(s) /\ \A y \in s : f[y] \in Int
    BY FS_Subset
  <2>5. Total(f, s) = f[x] + Total(f, s \ {x}) /\ f[x] = 0
    BY <2>1, <2>4, TotalRemove
  <2> HIDE DEF B
  <2> QED BY <2>3, <2>5
<1> HIDE DEF B
<1>3. Cardinality(U) \in Nat /\ Cardinality(U) \in B
  BY <1>1, <1>2, SetInduction, FS_CardinalityType, ZenonT(30)
<1>4. U \in SUBSET U /\ Cardinality(U) <= Cardinality(U)
  BY <1>3
<1> QED BY <1>3, <1>4, Zenon DEF B

\* Changing the value of one element.
LEMMA TotalChange ==
  ASSUME NEW U, IsFiniteSet(U), NEW f \in [U -> Int], NEW h \in [U -> Int],
         NEW x \in U, \A y \in U \ {x} : h[y] = f[y]
  PROVE  Total(h, U) = Total(f, U) + (h[x] - f[x])
<1>0. IsFiniteSet(U \ {x})
  BY FS_RemoveElement, Zenon
<1>1. Total(f, U \ {x}) = Total(h, U \ {x})
  BY <1>0, TotalSame
<1>2. Total(f, U \ {x}) \in Int
  BY <1>0, TotalType, Zenon
<1>3. Total(f, U) = f[x] + Total(f, U \ {x}) /\ Total(h, U) = h[x] + Total(h, U \ {x})
  BY TotalRemove
<1>4. f[x] \in Int /\ h[x] \in Int
  BY Zenon
<1> HIDE DEF Total
<1> QED BY <1>1, <1>2, <1>3, <1>4

-----------------------------------------------------------------------------
(* The token contract: the bridge discipline.                               *)

\* A deployment has handed out every nonce up to its counter and none above.
NoncesIssued == \A m \in sent : m.nonce <= nonce[<<m.source, m.target>>]

\* Two transfers over one bridge never share a nonce.
NoncesDistinct ==
  \A m, k \in sent :
    m.source = k.source /\ m.target = k.target /\ m.nonce = k.nonce => m = k

\* A minted transfer was announced and its nonce is marked at the target.
ReceiptsMarked ==
  \A r \in receipts :
    r[1] \in sent /\ r[1].nonce \in processedNonces[<<r[1].target, r[1].source>>]

\* Every marked nonce is that of a minted transfer.
MarksHaveReceipts ==
  \A c, d \in Chains : \A n \in processedNonces[<<c, d>>] :
    \E r \in receipts : r[1].source = d /\ r[1].target = c /\ r[1].nonce = n

BridgeInv ==
  /\ TypeOK
  /\ NoncesIssued /\ NoncesDistinct
  /\ ReceiptsMarked /\ MarksHaveReceipts
  /\ MintedAtMostOnce

\* The bridge discipline holds before the first call.
LEMMA InitBridgeInv == Init => BridgeInv
  BY QuidsAssumption DEF Init, BridgeInv, TypeOK, NoncesIssued, NoncesDistinct, ReceiptsMarked,
     MarksHaveReceipts, MintedAtMostOnce

\* A minting call keeps the balances and the supply well typed.
LEMMA MintType ==
  ASSUME TypeOK, NEW c \in Chains, NEW to \in Accounts, NEW amount \in Nat, _mint(c, to, amount)
  PROVE  balances' \in [Chains \X Accounts -> Nat] /\ totalSupply' \in [Chains -> Int]
  BY DEF TypeOK, _mint

\* A burning call never takes a balance below zero.
LEMMA BurnType ==
  ASSUME TypeOK, NEW c \in Chains, NEW from \in Accounts, NEW amount \in Nat,
         _burn(c, from, amount)
  PROVE  balances' \in [Chains \X Accounts -> Nat] /\ totalSupply' \in [Chains -> Int]
  BY DEF TypeOK, _burn

\* A call that leaves the bridge variables alone keeps the bridge discipline.
LEMMA BridgeUntouched ==
  ASSUME BridgeInv, TypeOK', UNCHANGED <<nonce, processedNonces, sent, receipts>>
  PROVE  BridgeInv'
  BY DEF BridgeInv, NoncesIssued, NoncesDistinct, ReceiptsMarked, MarksHaveReceipts,
     MintedAtMostOnce

\* qMint leaves the bridge alone.
LEMMA qMintInv ==
  ASSUME BridgeInv, NEW c \in Chains, NEW a \in Accounts, NEW n \in Amounts,
         NEW sig \in Signatures, qMint(c, a, n, sig)
  PROVE  BridgeInv'
  <1>1. n \in Nat /\ TypeOK
    BY QuidsAssumption DEF BridgeInv
  <1>2. balances' \in [Chains \X Accounts -> Nat] /\ totalSupply' \in [Chains -> Int]
    BY <1>1, MintType, Zenon DEF qMint
  <1>3. qSignatureUsed' \in [Chains -> SUBSET Signatures] /\ minted' \in Nat
    BY <1>1 DEF qMint, consume, TypeOK
  <1>4. TypeOK'
    BY <1>1, <1>2, <1>3 DEF qMint, TypeOK
  <1> QED BY <1>4, BridgeUntouched DEF qMint

\* bridgeTo assigns a nonce no earlier transfer over the bridge has.
LEMMA bridgeToInv ==
  ASSUME BridgeInv, NEW c \in Chains, NEW a \in Accounts, NEW n \in Amounts,
         NEW d \in Chains, NEW b \in Recipients, bridgeTo(c, a, d, b, n)
  PROVE  BridgeInv'
  <1> DEFINE m == [source |-> c, target |-> d, to |-> b, amount |-> n,
                   nonce |-> nonce[<<c, d>>] + 1]
  <1>1. n \in Nat /\ TypeOK
    BY QuidsAssumption DEF BridgeInv
  <1>2. balances' \in [Chains \X Accounts -> Nat] /\ totalSupply' \in [Chains -> Int]
    BY <1>1, BurnType, ZenonT(30) DEF bridgeTo
  <1>3. /\ sent' = sent \cup {m}
        /\ nonce' = [nonce EXCEPT ![<<c, d>>] = @ + 1]
        /\ totalLocked' = [totalLocked EXCEPT ![<<c, d>>] = @ + n]
        /\ UNCHANGED <<paused, qSignatureUsed, processedNonces, bridgeLimits, receipts, minted>>
    BY DEF bridgeTo
  <1>4. m \in Transfer /\ nonce[<<c, d>>] \in Nat /\ totalLocked[<<c, d>>] \in Nat
    BY <1>1 DEF TypeOK, Transfer
  <1>10. nonce' \in [Chains \X Chains -> Nat] /\ totalLocked' \in [Chains \X Chains -> Nat]
    BY <1>1, <1>3, <1>4 DEF TypeOK
  <1>11. sent' \subseteq Transfer
    BY <1>1, <1>3, <1>4, ZenonT(30) DEF TypeOK
  <1>5. TypeOK'
    BY <1>1, <1>2, <1>3, <1>10, <1>11, ZenonT(30) DEF TypeOK
  <1>6. /\ m.source = c /\ m.target = d /\ m.nonce = nonce[<<c, d>>] + 1
        /\ \A k \in sent : k.source \in Chains /\ k.target \in Chains /\ k.nonce \in Nat
    BY <1>1 DEF TypeOK, Transfer
  <1> HIDE DEF m
  <1>7. NoncesIssued'
    <2> SUFFICES ASSUME NEW k \in sent' PROVE k.nonce <= nonce'[<<k.source, k.target>>]
      BY Zenon DEF NoncesIssued
    <2>1. CASE k = m
      BY <2>1, <1>1, <1>3, <1>4, <1>6, SMTT(30) DEF TypeOK
    <2>2. CASE k \in sent
      <3>1. k.nonce <= nonce[<<k.source, k.target>>] /\ nonce[<<k.source, k.target>>] \in Nat
        BY <2>2, <1>1, <1>6, ZenonT(30) DEF BridgeInv, NoncesIssued, TypeOK
      <3>2. nonce'[<<k.source, k.target>>] >= nonce[<<k.source, k.target>>]
        <4>1. <<k.source, k.target>> \in Chains \X Chains
          BY <2>2, <1>6
        <4>2. \A q \in Chains \X Chains : nonce[q] \in Nat /\ nonce'[q] >= nonce[q]
          <5> SUFFICES ASSUME NEW q \in Chains \X Chains
                       PROVE  nonce[q] \in Nat /\ nonce'[q] >= nonce[q]
            OBVIOUS
          <5>1. nonce[q] \in Nat /\ nonce \in [Chains \X Chains -> Nat]
            BY <1>1 DEF TypeOK
          <5>2. nonce'[q] = IF q = <<c, d>> THEN nonce[q] + 1 ELSE nonce[q]
            BY <1>3, <5>1
          <5> QED BY <5>1, <5>2
        <4> QED BY <4>1, <4>2
      <3> QED BY <3>1, <3>2, <2>2, <1>1, <1>5, <1>6, SMTT(30) DEF TypeOK
    <2> QED BY <2>1, <2>2, <1>3
  <1>8. NoncesDistinct'
    <2>1. \A k \in sent : k.source = c /\ k.target = d => k.nonce # m.nonce
      BY <1>4, <1>6 DEF BridgeInv, NoncesIssued
    <2> QED BY <2>1, <1>3, <1>6, ZenonT(30) DEF BridgeInv, NoncesDistinct
  <1>9. ReceiptsMarked' /\ MarksHaveReceipts' /\ MintedAtMostOnce'
    BY <1>3 DEF BridgeInv, ReceiptsMarked, MarksHaveReceipts, MintedAtMostOnce
  <1> QED BY <1>5, <1>7, <1>8, <1>9, ZenonT(30) DEF BridgeInv

\* bridgeReceive marks the nonce of the transfer it mints, and no other.
LEMMA bridgeReceiveInv ==
  ASSUME BridgeInv, NEW c \in Chains, NEW m \in sent, NEW sig \in Signatures,
         m.target = c, bridgeReceive(c, m, sig)
  PROVE  BridgeInv'
  <1> DEFINE p == <<c, m.source>>
  <1>1. /\ TypeOK
        /\ m \in Transfer /\ m.source \in Chains /\ m.to \in Accounts
        /\ m.amount \in Nat /\ m.nonce \in Nat
    <2>1. TypeOK /\ m \in Transfer /\ m.to # Zero
      BY Zenon DEF BridgeInv, TypeOK, bridgeReceive, _mint
    <2> QED BY <2>1, QuidsAssumption, Zenon DEF Transfer, Recipients
  <1>2. balances' \in [Chains \X Accounts -> Nat] /\ totalSupply' \in [Chains -> Int]
    BY <1>1, MintType, ZenonT(30) DEF bridgeReceive
  <1>3. /\ receipts' = receipts \cup {<<m, sig>>}
        /\ processedNonces' = [processedNonces EXCEPT ![p] = @ \cup {m.nonce}]
        /\ qSignatureUsed' = [qSignatureUsed EXCEPT ![c] = @ \cup {sig}]
        /\ UNCHANGED <<paused, nonce, totalLocked, bridgeLimits, sent, minted>>
        /\ m.nonce \notin processedNonces[p]
    BY DEF bridgeReceive, consume, mark, bridge_of
  <1>4. p \in Chains \X Chains
    BY <1>1
  <1> HIDE DEF p
  <1>5. TypeOK'
    BY <1>1, <1>2, <1>3, <1>4, SMTT(30) DEF TypeOK
  <1>6. NoncesIssued' /\ NoncesDistinct'
    BY <1>3 DEF BridgeInv, NoncesIssued, NoncesDistinct
  <1>7. \A q \in Chains \X Chains :
           /\ processedNonces[q] \subseteq processedNonces'[q]
           /\ q # p => processedNonces'[q] = processedNonces[q]
    BY <1>1, <1>3, <1>4, ZenonT(30) DEF TypeOK
  <1>8. processedNonces'[p] = processedNonces[p] \cup {m.nonce}
    BY <1>1, <1>3, <1>4, ZenonT(30) DEF TypeOK
  <1>9. ReceiptsMarked'
    <2> SUFFICES ASSUME NEW r \in receipts'
                 PROVE  r[1] \in sent /\ r[1].nonce \in processedNonces'[<<r[1].target, r[1].source>>]
      BY <1>3, Zenon DEF ReceiptsMarked
    <2>1. CASE r = <<m, sig>>
      BY <2>1, <1>8 DEF p
    <2>2. CASE r \in receipts
      <3>1. r[1] \in sent /\ r[1].nonce \in processedNonces[<<r[1].target, r[1].source>>]
        BY <2>2 DEF BridgeInv, ReceiptsMarked
      <3>2. <<r[1].target, r[1].source>> \in Chains \X Chains
        BY <3>1, <1>1 DEF TypeOK, Transfer
      <3> QED BY <3>1, <3>2, <1>7, ZenonT(30)
    <2> QED BY <2>1, <2>2, <1>3
  <1>10. MarksHaveReceipts'
    <2> SUFFICES ASSUME NEW e \in Chains, NEW d \in Chains, NEW n \in processedNonces'[<<e, d>>]
                 PROVE  \E r \in receipts' : r[1].source = d /\ r[1].target = e /\ r[1].nonce = n
      BY DEF MarksHaveReceipts
    <2>1. CASE n \in processedNonces[<<e, d>>]
      BY <2>1, <1>3 DEF BridgeInv, MarksHaveReceipts
    <2>2. CASE n \notin processedNonces[<<e, d>>]
      <3>1. <<e, d>> = p /\ n = m.nonce
        BY <2>2, <1>7, <1>8, ZenonT(30)
      <3>2. e = c /\ d = m.source
        BY <3>1 DEF p
      <3>3. <<m, sig>> \in receipts' /\ <<m, sig>>[1] = m
        BY <1>3
      <3> QED BY <3>1, <3>2, <3>3, Zenon
    <2> QED BY <2>1, <2>2
  <1>11. MintedAtMostOnce'
    <2>1. \A r \in receipts : r[1] # m
      BY <1>3 DEF BridgeInv, ReceiptsMarked, p
    <2>2. <<m, sig>>[1] = m
      OBVIOUS
    <2> QED BY <2>1, <2>2, <1>3, ZenonT(30) DEF BridgeInv, MintedAtMostOnce
  <1> QED BY <1>5, <1>6, <1>9, <1>10, <1>11, ZenonT(30) DEF BridgeInv

\* Limits and ERC20 transfers leave the bridge alone.
LEMMA OtherCallsInv ==
  ASSUME BridgeInv, NEW c \in Chains, NEW a \in Accounts, NEW n \in Amounts,
         \/ \E d \in Chains : setBridgeLimit(c, a, d, n)
         \/ \E b \in Accounts : transfer(c, a, b, n)
  PROVE  BridgeInv'
  <1>1. n \in Nat /\ TypeOK
    BY QuidsAssumption DEF BridgeInv
  <1>2. CASE \E d \in Chains : setBridgeLimit(c, a, d, n)
    BY <1>1, <1>2, BridgeUntouched, ZenonT(30) DEF setBridgeLimit, TypeOK, history
  <1>3. CASE \E b \in Accounts : transfer(c, a, b, n)
    <2> PICK b \in Accounts : transfer(c, a, b, n)
      BY <1>3
    <2> DEFINE debited == [balances EXCEPT ![<<c, a>>] = @ - n]
    <2>3. debited \in [Chains \X Accounts -> Nat]
      <3>1. balances[<<c, a>>] - n \in Nat
        BY <1>1 DEF transfer, TypeOK
      <3> QED BY <1>1, <3>1, ZenonT(30) DEF TypeOK
    <2>4. balances' = [debited EXCEPT ![<<c, b>>] = @ + n]
      BY DEF transfer
    <2>1. balances' \in [Chains \X Accounts -> Nat]
      <3> HIDE DEF debited
      <3> QED BY <1>1, <2>3, <2>4, SMTT(30)
    <2>2. TypeOK'
      BY <1>1, <2>1, ZenonT(30) DEF transfer, TypeOK, history
    <2> QED BY <2>2, BridgeUntouched DEF transfer, history
  <1> QED BY <1>2, <1>3

\* Every call keeps the bridge discipline.
LEMMA NextBridgeInv == BridgeInv /\ [Next]_vars => BridgeInv'
  <1> SUFFICES ASSUME BridgeInv, [Next]_vars PROVE BridgeInv'
    BY ZenonT(30)
  <1>1. CASE UNCHANGED vars
    BY <1>1, BridgeUntouched DEF BridgeInv, TypeOK, vars, contract, history
  <1>2. CASE Next
    <2> PICK c \in Chains :
          \/ pause(c) \/ unpause(c)
          \/ \E m \in sent, sig \in Signatures : m.target = c /\ bridgeReceive(c, m, sig)
          \/ \E a \in Accounts, n \in Amounts :
               \/ \E sig \in Signatures : qMint(c, a, n, sig)
               \/ \E d \in Chains : setBridgeLimit(c, a, d, n)
               \/ \E d \in Chains, b \in Recipients : bridgeTo(c, a, d, b, n)
               \/ \E b \in Accounts : transfer(c, a, b, n)
      BY <1>2 DEF Next
    <2>1. CASE pause(c) \/ unpause(c)
      BY <2>1, BridgeUntouched, ZenonT(30) DEF pause, unpause, BridgeInv, TypeOK, history
    <2>2. CASE \E m \in sent, sig \in Signatures : m.target = c /\ bridgeReceive(c, m, sig)
      BY <2>2, bridgeReceiveInv, ZenonT(30)
    <2>3. CASE \E a \in Accounts, n \in Amounts :
               \/ \E sig \in Signatures : qMint(c, a, n, sig)
               \/ \E d \in Chains : setBridgeLimit(c, a, d, n)
               \/ \E d \in Chains, b \in Recipients : bridgeTo(c, a, d, b, n)
               \/ \E b \in Accounts : transfer(c, a, b, n)
      BY <2>3, qMintInv, OtherCallsInv, bridgeToInv, ZenonT(30)
    <2> QED BY <2>1, <2>2, <2>3, ZenonT(30)
  <1> QED BY <1>1, <1>2

\* The bridge discipline always holds.
LEMMA BridgeInvariance == Spec => []BridgeInv
  BY InitBridgeInv, NextBridgeInv, PTL DEF Spec

\* However often the relayer repeats bridgeReceive, a transfer announced by
\* bridgeTo is minted at most once, and nothing else is minted by it.
THEOREM BridgeMintsOnce == Spec => []MintedAtMostOnce
  <1>1. BridgeInv => MintedAtMostOnce
    BY ZenonT(30) DEF BridgeInv
  <1> QED BY <1>1, BridgeInvariance, PTL

\* The target refuses a nonce only because the transfer that carries it was
\* minted: with distinct nonces no transfer is stranded by another.
THEOREM RefusedMeansMinted == Spec => []RefusedOnlyIfMinted
  <1>1. BridgeInv => RefusedOnlyIfMinted
    <2> SUFFICES ASSUME BridgeInv, NEW m \in sent,
                        m.nonce \in processedNonces[<<m.target, m.source>>]
                 PROVE  \E sig \in Signatures : <<m, sig>> \in receipts
      BY DEF RefusedOnlyIfMinted
    <2>1. m.source \in Chains /\ m.target \in Chains
      BY DEF BridgeInv, TypeOK, Transfer
    <2>2. PICK r \in receipts : r[1].source = m.source /\ r[1].target = m.target
                                /\ r[1].nonce = m.nonce
      BY <2>1 DEF BridgeInv, MarksHaveReceipts
    <2>3. r[1] = m
      BY <2>2 DEF BridgeInv, ReceiptsMarked, NoncesDistinct
    <2>4. r = <<r[1], r[2]>> /\ r[2] \in Signatures
      BY DEF BridgeInv, TypeOK
    <2> QED BY <2>3, <2>4
  <1> QED BY <1>1, BridgeInvariance, PTL

\* No step changes a balance, the supply, a signature or a nonce of a paused
\* deployment: every path that touches them passes whenNotPaused.
THEOREM PausedChainsFrozen == Spec => PauseFreezes
  <1>1. BridgeInv /\ [Next]_vars =>
          [\A c \in paused :
             /\ totalSupply'[c] = totalSupply[c]
             /\ \A a \in Accounts : balances'[<<c, a>>] = balances[<<c, a>>]
             /\ qSignatureUsed'[c] = qSignatureUsed[c]
             /\ \A d \in Chains : processedNonces'[<<c, d>>] = processedNonces[<<c, d>>]]_vars
    <2> SUFFICES ASSUME BridgeInv, Next, NEW c \in paused
                 PROVE  /\ totalSupply'[c] = totalSupply[c]
                        /\ \A a \in Accounts : balances'[<<c, a>>] = balances[<<c, a>>]
                        /\ qSignatureUsed'[c] = qSignatureUsed[c]
                        /\ \A d \in Chains : processedNonces'[<<c, d>>] = processedNonces[<<c, d>>]
      OBVIOUS
    <2> PICK e \in Chains :
          \/ pause(e) \/ unpause(e)
          \/ \E m \in sent, sig \in Signatures : m.target = e /\ bridgeReceive(e, m, sig)
          \/ \E a \in Accounts, n \in Amounts :
               \/ \E sig \in Signatures : qMint(e, a, n, sig)
               \/ \E d \in Chains : setBridgeLimit(e, a, d, n)
               \/ \E d \in Chains, b \in Recipients : bridgeTo(e, a, d, b, n)
               \/ \E b \in Accounts : transfer(e, a, b, n)
      BY DEF Next
    <2>1. TypeOK /\ c \in Chains
      BY Zenon DEF BridgeInv, TypeOK
    <2>2. CASE pause(e) \/ unpause(e)
      BY <2>2, Zenon DEF pause, unpause
    <2>3. CASE \E m \in sent, sig \in Signatures : m.target = e /\ bridgeReceive(e, m, sig)
      <3>1. PICK m \in sent, sig \in Signatures : m.target = e /\ bridgeReceive(e, m, sig)
        BY <2>3, Zenon
      <3>2. e # c
        BY <3>1, Zenon DEF bridgeReceive, whenNotPaused
      <3>3. totalSupply'[c] = totalSupply[c] /\ \A a \in Accounts : balances'[<<c, a>>] = balances[<<c, a>>]
        BY <2>1, <3>1, <3>2, ZenonT(30) DEF bridgeReceive, _mint, TypeOK
      <3>4. qSignatureUsed'[c] = qSignatureUsed[c]
        BY <2>1, <3>1, <3>2, ZenonT(30) DEF bridgeReceive, consume, TypeOK
      <3>5. \A d \in Chains : processedNonces'[<<c, d>>] = processedNonces[<<c, d>>]
        BY <2>1, <3>1, <3>2, ZenonT(30) DEF bridgeReceive, bridge_of, mark, TypeOK
      <3> QED BY <3>3, <3>4, <3>5, Zenon
    <2>4. ASSUME NEW a \in Accounts, NEW n \in Amounts, NEW sig \in Signatures, qMint(e, a, n, sig)
          PROVE  e # c /\ UNCHANGED processedNonces
                 /\ totalSupply'[c] = totalSupply[c] /\ qSignatureUsed'[c] = qSignatureUsed[c]
                 /\ \A b \in Accounts : balances'[<<c, b>>] = balances[<<c, b>>]
      BY <2>1, <2>4 DEF qMint, _mint, whenNotPaused, consume, TypeOK
    <2>5. ASSUME NEW a \in Accounts, NEW n \in Amounts, NEW d \in Chains, NEW b \in Recipients,
                 bridgeTo(e, a, d, b, n)
          PROVE  UNCHANGED <<processedNonces, qSignatureUsed>>
                 /\ totalSupply'[c] = totalSupply[c]
                 /\ \A f \in Accounts : balances'[<<c, f>>] = balances[<<c, f>>]
      BY <2>1, <2>5, ZenonT(30) DEF bridgeTo, _burn, whenNotPaused, TypeOK
    <2>6. ASSUME NEW a \in Accounts, NEW n \in Amounts, NEW b \in Accounts, transfer(e, a, b, n)
          PROVE  UNCHANGED <<processedNonces, qSignatureUsed, totalSupply>>
                 /\ \A f \in Accounts : balances'[<<c, f>>] = balances[<<c, f>>]
      BY <2>1, <2>6, ZenonT(30) DEF transfer, whenNotPaused, TypeOK
    <2>7. ASSUME NEW a \in Accounts, NEW n \in Amounts, NEW d \in Chains,
                 setBridgeLimit(e, a, d, n)
          PROVE  UNCHANGED <<processedNonces, qSignatureUsed, totalSupply, balances>>
      BY <2>7 DEF setBridgeLimit
    <2> QED BY <2>2, <2>3, <2>4, <2>5, <2>6, <2>7, ZenonT(30)
  <1> QED BY <1>1, BridgeInvariance, PTL DEF Spec, PauseFreezes

\* The supply of a chain grows only in a call that consumes a valid signature
\* the chain had not seen, qMint or bridgeReceive.
THEOREM SignaturesMint == Spec => SupplyGrowsBySignature
  <1> DEFINE Fresh(c) == \E sig \in Valid : sig \notin qSignatureUsed[c] /\ sig \in qSignatureUsed'[c]
  <1>1. BridgeInv /\ [Next]_vars =>
          [\A c \in Chains : totalSupply'[c] > totalSupply[c] => Fresh(c)]_vars
    <2> SUFFICES ASSUME BridgeInv, Next, NEW c \in Chains, totalSupply'[c] > totalSupply[c]
                 PROVE  Fresh(c)
      OBVIOUS
    <2>1. TypeOK /\ totalSupply[c] \in Int /\ Amounts \subseteq Nat
      BY QuidsAssumption DEF BridgeInv, TypeOK
    <2>2. totalSupply' # totalSupply
      BY <2>1
    <2>3. ASSUME NEW e \in Chains, NEW sig, sig \notin qSignatureUsed[e], verifyQSignature(sig),
                 qSignatureUsed' = consume(e, sig), NEW to, NEW n, _mint(e, to, n)
          PROVE  Fresh(c)
      <3>1. e = c
        BY <2>1, <2>3 DEF _mint, TypeOK
      <3>2. sig \in qSignatureUsed'[c] /\ sig \in Valid
        BY <2>1, <2>3, <3>1, Zenon DEF consume, verifyQSignature, TypeOK
      <3> QED BY <2>3, <3>1, <3>2
    <2>4. ASSUME NEW e \in Chains, NEW a, NEW d, NEW b, NEW n \in Amounts, bridgeTo(e, a, d, b, n)
          PROVE  FALSE
      <3>1. totalSupply' = [totalSupply EXCEPT ![e] = @ - n] /\ n \in Nat
        BY <2>1, <2>4, ZenonT(30) DEF bridgeTo, _burn
      <3> QED BY <2>1, <3>1, SMTT(30) DEF TypeOK
    <2>5. ASSUME NEW e \in Chains, NEW m, NEW sig, bridgeReceive(e, m, sig)
          PROVE  Fresh(c)
      BY <2>3, <2>5, ZenonT(30) DEF bridgeReceive
    <2>6. ASSUME NEW e \in Chains, NEW a, NEW n, NEW sig, qMint(e, a, n, sig)
          PROVE  Fresh(c)
      BY <2>3, <2>6 DEF qMint
    <2> HIDE DEF Fresh
    <2> QED BY <2>2, <2>4, <2>5, <2>6, ZenonT(30) DEF Next, pause, unpause, setBridgeLimit, transfer
  <1>2. SupplyGrowsBySignature <=> [][\A c \in Chains : totalSupply'[c] > totalSupply[c] => Fresh(c)]_vars
    BY PTL DEF SupplyGrowsBySignature
  <1> QED BY <1>1, <1>2, BridgeInvariance, PTL DEF Spec

-----------------------------------------------------------------------------
(* The token contract: conservation across the chains.                      *)

\* The tokens carried by a set of transfers.
Carried(T) == Total([m \in T |-> m.amount], T)

\* BridgeConserves says the same of MapThenSumSet.
LEMMA CarriedIsSum ==
  ASSUME NEW T, IsFiniteSet(T)
  PROVE  MapThenSumSet(LAMBDA m : m.amount, T) = Carried(T)
  <1> DEFINE f == [m \in T |-> m.amount]
             R(g) == g = [s \in SUBSET T |->
                            IF s = {} THEN 0 ELSE Pick(s).amount + g[s \ {Pick(s)}]]
             d == CHOOSE g : R(g)
  <1>1. MapThenSumSet(LAMBDA m : m.amount, T) = d[T]
    BY DEF MapThenSumSet, MapThenFoldSet, Pick
  <1>2. \A s \in SUBSET T : s # {} => f[Pick(s)] = Pick(s).amount
    BY PickMember
  <1>3. ASSUME NEW g PROVE R(g) <=> Adds(f, T, g)
    <2> HIDE DEF f
    <2>1. [s \in SUBSET T |-> IF s = {} THEN 0 ELSE Pick(s).amount + g[s \ {Pick(s)}]]
            = [s \in SUBSET T |-> IF s = {} THEN 0 ELSE f[Pick(s)] + g[s \ {Pick(s)}]]
      BY <1>2
    <2> QED BY <2>1 DEF Adds, Sums
  <1> HIDE DEF f, R
  <1>4. PICK g : Adds(f, T, g) /\ Total(f, T) = g[T]
    BY TotalSums
  <1>5. R(d)
    BY <1>3, <1>4
  <1>6. Adds(f, T, d)
    BY <1>3, <1>5
  <1> HIDE DEF d
  <1>7. g[T] = d[T]
    BY <1>4, <1>6, SumsAgree
  <1> QED BY <1>1, <1>4, <1>7 DEF Carried, f

\* One more transfer carries its amount more.
LEMMA CarriedAdd ==
  ASSUME NEW T, IsFiniteSet(T), \A k \in T : k.amount \in Int, NEW m, m.amount \in Int, m \notin T
  PROVE  Carried(T \cup {m}) = Carried(T) + m.amount /\ Carried(T) \in Int
  <1> DEFINE U == T \cup {m}
             f == [k \in U |-> k.amount]
             h == [k \in T |-> k.amount]
  <1>1. IsFiniteSet(U) /\ m \in U /\ U \ {m} = T
    BY FS_AddElement
  <1>2. (\A k \in U : f[k] \in Int) /\ f[m] = m.amount /\ \A k \in T : f[k] = h[k] /\ h[k] \in Int
    OBVIOUS
  <1> HIDE DEF U, f, h
  <1>3. Total(f, U) = f[m] + Total(f, T)
    BY <1>1, <1>2, TotalRemove
  <1>4. Total(f, T) = Total(h, T) /\ Total(h, T) \in Int
    BY <1>2, TotalSame, TotalType, ZenonT(30)
  <1>5. Total(f, U) = Total(h, T) + m.amount
    BY <1>2, <1>3, <1>4
  <1> QED BY <1>4, <1>5 DEF Carried, U, f, h

Conserved ==
  /\ IsFiniteSet(sent)
  /\ Total(totalSupply, Chains) + Carried(InFlight) = minted

\* Both sums are over finite sets of integers.
LEMMA ConservedTypes ==
  ASSUME BridgeInv, Conserved
  PROVE  /\ totalSupply \in [Chains -> Int] /\ Total(totalSupply, Chains) \in Int
         /\ IsFiniteSet(InFlight) /\ \A m \in InFlight : m.amount \in Int
         /\ Carried(InFlight) \in Int
         /\ minted \in Int
  <1>1. totalSupply \in [Chains -> Int] /\ minted \in Int /\ sent \subseteq Transfer
    BY DEF BridgeInv, TypeOK
  <1>2. Total(totalSupply, Chains) \in Int
    BY <1>1, TotalType, QuidsAssumption
  <1>3. IsFiniteSet(InFlight)
    <2>1. InFlight \in SUBSET sent
      BY DEF InFlight
    <2> QED BY <2>1, FS_Subset DEF Conserved
  <1>4. \A m \in InFlight : m.amount \in Int
    <2>1. \A m \in Transfer : m.amount \in Amounts
      BY DEF Transfer
    <2>2. \A m \in InFlight : m \in Transfer
      BY <1>1 DEF InFlight
    <2>3. \A n \in Amounts : n \in Int
      BY QuidsAssumption
    <2> QED BY <2>1, <2>2, <2>3
  <1>5. Carried(InFlight) \in Int
    <2> DEFINE f == [m \in InFlight |-> m.amount]
    <2>1. \A m \in InFlight : f[m] \in Int
      BY <1>4
    <2> HIDE DEF f
    <2>2. Total(f, InFlight) \in Int
      BY <1>3, <2>1, TotalType, ZenonT(30)
    <2> QED BY <2>2 DEF Carried, f
  <1> QED BY <1>1, <1>2, <1>3, <1>4, <1>5, ZenonT(30)

\* A change of one chain's supply is a change of the sum.
LEMMA SupplyChange ==
  ASSUME BridgeInv, Conserved, NEW c \in Chains, NEW k \in Int,
         totalSupply' = [totalSupply EXCEPT ![c] = k]
  PROVE  Total(totalSupply', Chains) = Total(totalSupply, Chains) + (k - totalSupply[c])
  <1>1. totalSupply \in [Chains -> Int]
    BY ConservedTypes
  <1>2. /\ totalSupply' \in [Chains -> Int] /\ totalSupply'[c] = k
        /\ \A d \in Chains \ {c} : totalSupply'[d] = totalSupply[d]
    BY <1>1
  <1>3. Total(totalSupply', Chains)
          = Total(totalSupply, Chains) + (totalSupply'[c] - totalSupply[c])
    <2>1. IsFiniteSet(Chains)
      BY QuidsAssumption
    <2> DEFINE h == totalSupply'
    <2>2. h \in [Chains -> Int] /\ \A d \in Chains \ {c} : h[d] = totalSupply[d]
      BY <1>2
    <2> HIDE DEF h
    <2>3. Total(h, Chains) = Total(totalSupply, Chains) + (h[c] - totalSupply[c])
      BY <1>1, <2>1, <2>2, TotalChange, SMTT(30)
    <2> QED BY <2>3 DEF h
  <1> QED BY <1>2, <1>3

\* A call that leaves the sums alone.
LEMMA ConservedUntouched ==
  ASSUME Conserved, UNCHANGED <<totalSupply, sent, receipts, minted>>
  PROVE  Conserved'
  BY DEF Conserved, InFlight

\* What qMint adds to a supply it adds to the tokens created.
LEMMA qMintConserves ==
  ASSUME BridgeInv, Conserved, NEW c \in Chains, NEW a \in Accounts, NEW n \in Amounts,
         NEW sig \in Signatures, qMint(c, a, n, sig)
  PROVE  Conserved'
  <1>1. n \in Int
    BY QuidsAssumption, SMTT(30)
  <1>2. /\ totalSupply' = [totalSupply EXCEPT ![c] = @ + n]
        /\ minted' = minted + n
        /\ sent' = sent /\ InFlight' = InFlight
    BY DEF qMint, _mint, InFlight
  <1>3. Total(totalSupply', Chains) = Total(totalSupply, Chains) + n
    <2> DEFINE k == totalSupply[c] + n
    <2>1. totalSupply[c] \in Int /\ Total(totalSupply, Chains) \in Int
      BY ConservedTypes
    <2>2. k \in Int /\ totalSupply' = [totalSupply EXCEPT ![c] = k] /\ k - totalSupply[c] = n
      BY <1>1, <1>2, <2>1, SMTT(30)
    <2> HIDE DEF k
    <2> QED BY <2>1, <2>2, SupplyChange, ZenonT(30)
  <1>4. Total(totalSupply', Chains) + Carried(InFlight') = minted'
    BY <1>1, <1>2, <1>3, ConservedTypes, SMTT(30) DEF Conserved
  <1> QED BY <1>2, <1>4 DEF Conserved

\* What bridgeTo burns is in flight: its nonce is new, so the transfer is too.
LEMMA bridgeToConserves ==
  ASSUME BridgeInv, Conserved, NEW c \in Chains, NEW a \in Accounts, NEW n \in Amounts,
         NEW d \in Chains, NEW b \in Recipients, bridgeTo(c, a, d, b, n)
  PROVE  Conserved'
  <1> DEFINE m == [source |-> c, target |-> d, to |-> b, amount |-> n,
                   nonce |-> nonce[<<c, d>>] + 1]
  <1>1. n \in Nat /\ nonce[<<c, d>>] \in Nat
    BY QuidsAssumption, ZenonT(30) DEF BridgeInv, TypeOK
  <1>2. /\ totalSupply' = [totalSupply EXCEPT ![c] = @ - n]
        /\ sent' = sent \cup {m}
        /\ receipts' = receipts /\ minted' = minted
    BY ZenonT(30) DEF bridgeTo, _burn
  <1>3. m.amount = n /\ m.source = c /\ m.target = d /\ m.nonce = nonce[<<c, d>>] + 1
    OBVIOUS
  <1> HIDE DEF m
  <1>4. m \notin sent
    BY <1>1, <1>3 DEF BridgeInv, NoncesIssued
  <1>5. InFlight' = InFlight \cup {m} /\ m \notin InFlight
    BY <1>2, <1>4, ZenonT(30) DEF InFlight, BridgeInv, ReceiptsMarked
  <1>6. IsFiniteSet(sent')
    BY <1>2, FS_AddElement, ZenonT(30) DEF Conserved
  <1>7. Carried(InFlight \cup {m}) = Carried(InFlight) + n
    BY <1>1, <1>3, <1>5, ConservedTypes, CarriedAdd, SMTT(30)
  <1>8. Total(totalSupply', Chains) = Total(totalSupply, Chains) - n
    <2> DEFINE k == totalSupply[c] - n
    <2>1. totalSupply[c] \in Int /\ Total(totalSupply, Chains) \in Int
      BY ConservedTypes, ZenonT(30)
    <2>2. k \in Int /\ totalSupply' = [totalSupply EXCEPT ![c] = k] /\ k - totalSupply[c] = 0 - n
      BY <1>1, <1>2, <2>1
    <2> HIDE DEF k
    <2>3. Total(totalSupply', Chains) = Total(totalSupply, Chains) + (k - totalSupply[c])
      BY <2>2, SupplyChange, ZenonT(30)
    <2> QED BY <1>1, <2>1, <2>2, <2>3, SMTT(30)
  <1>9. Total(totalSupply', Chains) + Carried(InFlight') = minted'
    BY <1>1, <1>2, <1>5, <1>7, <1>8, ConservedTypes, SMTT(30) DEF Conserved
  <1> QED BY <1>6, <1>9, ZenonT(30) DEF Conserved

\* What bridgeReceive mints was in flight and is no longer.
LEMMA bridgeReceiveConserves ==
  ASSUME BridgeInv, Conserved, NEW c \in Chains, NEW m \in sent, NEW sig \in Signatures,
         m.target = c, bridgeReceive(c, m, sig)
  PROVE  Conserved'
  <1> DEFINE T == InFlight \ {m}
  <1>1. m.amount \in Nat
    BY QuidsAssumption, ZenonT(30) DEF BridgeInv, TypeOK, Transfer
  <1>2. /\ totalSupply' = [totalSupply EXCEPT ![c] = @ + m.amount]
        /\ receipts' = receipts \cup {<<m, sig>>}
        /\ sent' = sent /\ minted' = minted
        /\ m.nonce \notin processedNonces[<<c, m.source>>]
    BY DEF bridgeReceive, _mint
  <1>3. m \in InFlight
    BY <1>2 DEF InFlight, BridgeInv, ReceiptsMarked
  <1>4. InFlight' = T
    <2>1. <<m, sig>>[1] = m
      OBVIOUS
    <2> QED BY <1>2, <2>1, ZenonT(30) DEF InFlight
  <1>5. InFlight = T \cup {m} /\ m \notin T /\ T \in SUBSET InFlight
    BY <1>3
  <1> HIDE DEF T
  <1>6. IsFiniteSet(T) /\ \A k \in T : k.amount \in Int
    BY <1>5, ConservedTypes, FS_Subset, ZenonT(30)
  <1>7. Carried(T \cup {m}) = Carried(T) + m.amount /\ Carried(T) \in Int
    BY <1>1, <1>5, <1>6, CarriedAdd, SMTT(30)
  <1>8. Total(totalSupply', Chains) = Total(totalSupply, Chains) + m.amount
    <2> DEFINE k == totalSupply[c] + m.amount
    <2>1. totalSupply[c] \in Int /\ Total(totalSupply, Chains) \in Int
      BY ConservedTypes, ZenonT(30)
    <2>2. k \in Int /\ totalSupply' = [totalSupply EXCEPT ![c] = k] /\ k - totalSupply[c] = m.amount
      BY <1>1, <1>2, <2>1, SMTT(30)
    <2> HIDE DEF k
    <2> QED BY <2>1, <2>2, SupplyChange, ZenonT(30)
  <1>9. Total(totalSupply', Chains) + Carried(InFlight') = minted'
    BY <1>1, <1>2, <1>4, <1>5, <1>7, <1>8, ConservedTypes, SMTT(30) DEF Conserved
  <1> QED BY <1>2, <1>9 DEF Conserved

\* Every call conserves the tokens.
LEMMA ConservedStep == BridgeInv /\ Conserved /\ [Next]_vars => Conserved'
  <1> SUFFICES ASSUME BridgeInv, Conserved, [Next]_vars PROVE Conserved'
    OBVIOUS
  <1>1. CASE UNCHANGED vars
    BY <1>1, ConservedUntouched, ZenonT(30) DEF vars, contract, history
  <1>2. ASSUME NEW c \in Chains, pause(c) \/ unpause(c)
        PROVE  Conserved'
    BY <1>2, ConservedUntouched DEF pause, unpause, history
  <1>3. ASSUME NEW c \in Chains, NEW a \in Accounts, NEW n \in Amounts,
               \/ \E d \in Chains : setBridgeLimit(c, a, d, n)
               \/ \E b \in Accounts : transfer(c, a, b, n)
        PROVE  Conserved'
    BY <1>3, ConservedUntouched, ZenonT(30) DEF setBridgeLimit, transfer, history
  <1> QED BY <1>1, <1>2, <1>3, qMintConserves, bridgeToConserves, bridgeReceiveConserves, ZenonT(30) DEF Next

\* Across any number of chains the bridge neither creates nor destroys tokens:
\* what circulates plus what bridgeTo burned and bridgeReceive has not minted
\* is what qMint created.
THEOREM TokensConserved == Spec => []BridgeConserves
  <1>1. Init => Conserved
    <2> SUFFICES ASSUME Init PROVE Conserved
      OBVIOUS
    <2>1. sent = {} /\ InFlight = {} /\ minted = 0 /\ totalSupply = [c \in Chains |-> 0]
      BY DEF Init, InFlight
    <2>2. Total(totalSupply, Chains) = 0
      BY <2>1, TotalZero, QuidsAssumption
    <2>3. Carried(InFlight) = 0
      BY <2>1, TotalEmpty DEF Carried
    <2> QED BY <2>1, <2>2, <2>3, FS_EmptySet, SMTT(30) DEF Conserved
  <1>2. BridgeInv /\ Conserved => BridgeConserves
    <2> SUFFICES ASSUME BridgeInv, Conserved PROVE BridgeConserves
      OBVIOUS
    <2>1. IsFiniteSet(InFlight)
      BY ConservedTypes
    <2>2. MapThenSumSet(LAMBDA m : m.amount, InFlight) = Carried(InFlight)
      BY <2>1, CarriedIsSum
    <2>3. MapThenSumSet(LAMBDA c : totalSupply[c], Chains) = Total(totalSupply, Chains)
      BY DEF Total
    <2> QED BY <2>2, <2>3 DEF Conserved, BridgeConserves
  <1> QED BY <1>1, <1>2, ConservedStep, BridgeInvariance, PTL DEF Spec
=============================================================================
