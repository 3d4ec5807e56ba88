------------------------------- MODULE Quids -------------------------------
(* The Quids token contract (contracts/Quids.sol) deployed once on each of *)
(* several chains, and the relayer that carries bridged tokens from one    *)
(* deployment to another.                                                  *)
(*                                                                         *)
(* A transaction of a chain is atomic and a failed require reverts it, so  *)
(* each external function is one action guarded by its requires and        *)
(* modifiers. Role checks are left out: the callers are the role holders.  *)
(* The relayer (a holder of BRIDGE_ROLE, not part of the repository) calls *)
(* bridgeReceive for transfers that were bridged, in any order and as      *)
(* often as it likes, under whatever signatures it holds.  TokensBridged   *)
(* does not carry the nonce that bridgeReceive asks for: the relayer is    *)
(* taken to know it, from chainBridges or by counting the events.          *)
EXTENDS Integers, FiniteSetsExt

CONSTANTS
  Chains,       \* chain ids with a deployment
  Accounts,     \* addresses
  Zero,         \* the zero address
  Signatures,   \* byte strings offered as qSignature
  Valid,        \* the ones verifyQSignature accepts
  Amounts,      \* amounts offered to mint, bridge, transfer and limit calls
  MaxTransfers  \* bound: transfers bridged

ASSUME QuidsAssumption ==
  /\ IsFiniteSet(Chains)
  /\ Zero \notin Accounts
  /\ Valid \subseteq Signatures
  /\ Amounts \subseteq Nat
  /\ MaxTransfers \in Nat

VARIABLES
  balances,         \* ERC20: the balance of an account on a chain
  totalSupply,      \* ERC20: the supply of a chain
  paused,           \* Pausable: the chains whose deployment is paused
  qSignatureUsed,   \* the signatures each deployment has consumed
  nonce,            \* chainBridges[target].nonce of a deployment
  totalLocked,      \* chainBridges[target].totalLocked
  processedNonces,  \* chainBridges[source].processedNonces
  bridgeLimits,     \* chainBridges[target].bridgeLimits
  sent,             \* history: every transfer bridgeTo has announced
  receipts,         \* history: the transfers minted, with the signature each mint used
  minted            \* history: the tokens created by qMint

contract == <<balances, totalSupply, paused, qSignatureUsed, nonce, totalLocked,
              processedNonces, bridgeLimits>>
history == <<sent, receipts, minted>>
vars == <<contract, history>>

Recipients == Accounts \cup {Zero}

\* What a TokensBridged event of bridgeTo announces, with the nonce that the
\* source gave it.
Transfer == [source : Chains, target : Chains, to : Recipients, amount : Amounts, nonce : Nat]

Init ==
  /\ balances = [p \in Chains \X Accounts |-> 0]
  /\ totalSupply = [c \in Chains |-> 0]
  /\ paused = {}
  /\ qSignatureUsed = [c \in Chains |-> {}]
  /\ nonce = [p \in Chains \X Chains |-> 0]
  /\ totalLocked = [p \in Chains \X Chains |-> 0]
  /\ processedNonces = [p \in Chains \X Chains |-> {}]
  /\ bridgeLimits = [p \in Chains \X Chains \X Accounts |-> 0]
  /\ sent = {}
  /\ receipts = {}
  /\ minted = 0

-----------------------------------------------------------------------------
whenNotPaused(c) == c \notin paused

verifyQSignature(sig) == sig \in Valid

\* Mutant: the signature is checked but never marked as used.
forgets(c, sig) == qSignatureUsed
consume(c, sig) == [qSignatureUsed EXCEPT ![c] = @ \cup {sig}]

\* ERC20._mint, which refuses the zero address and calls _beforeTokenTransfer.
_mint(c, to, amount) ==
  /\ to # Zero
  /\ whenNotPaused(c)
  /\ totalSupply' = [totalSupply EXCEPT ![c] = @ + amount]
  /\ balances' = [balances EXCEPT ![<<c, to>>] = @ + amount]

\* Mutant: the tokens are only counted as locked, not burned.
lock_only(c, from, amount) ==
  whenNotPaused(c) /\ balances[<<c, from>>] >= amount /\ UNCHANGED <<totalSupply, balances>>
\* ERC20._burn, which calls _beforeTokenTransfer.
_burn(c, from, amount) ==
  /\ whenNotPaused(c)
  /\ balances[<<c, from>>] >= amount
  /\ totalSupply' = [totalSupply EXCEPT ![c] = @ - amount]
  /\ balances' = [balances EXCEPT ![<<c, from>>] = @ - amount]

qMint(c, to, amount, sig) ==
  /\ whenNotPaused(c)
  /\ sig \notin qSignatureUsed[c]
  /\ verifyQSignature(sig)
  /\ qSignatureUsed' = consume(c, sig)
  /\ _mint(c, to, amount)
  /\ minted' = minted + amount
  /\ UNCHANGED <<paused, nonce, totalLocked, processedNonces, bridgeLimits, sent, receipts>>

\* The recipient is not looked at, so the zero address is announced too.
bridgeTo(c, from, target, to, amount) ==
  LET bridge == <<c, target>>
  IN  /\ Cardinality(sent) < MaxTransfers
      /\ whenNotPaused(c)
      /\ amount > 0
      /\ amount <= bridgeLimits[<<c, target, from>>]
      /\ nonce' = [nonce EXCEPT ![bridge] = @ + 1]
      /\ totalLocked' = [totalLocked EXCEPT ![bridge] = @ + amount]
      /\ _burn(c, from, amount)
      /\ sent' = sent \cup {[source |-> c, target |-> target, to |-> to, amount |-> amount,
                             nonce |-> nonce[bridge] + 1]}
      /\ UNCHANGED <<paused, qSignatureUsed, processedNonces, bridgeLimits, receipts, minted>>

\* Mutant: the nonce is recorded under the wrong bridge.
mark_target(c, source) == <<c, c>>
bridge_of(c, source) == <<c, source>>

\* Mutant: a high-water mark instead of a set of nonces.
mark_upto(nonces, n) == nonces \cup 1..n
mark(nonces, n) == nonces \cup {n}

bridgeReceive(c, m, sig) ==
  /\ whenNotPaused(c)
  /\ m.nonce \notin processedNonces[<<c, m.source>>]
  /\ sig \notin qSignatureUsed[c]
  /\ verifyQSignature(sig)
  /\ processedNonces' = [processedNonces EXCEPT ![bridge_of(c, m.source)] = mark(@, m.nonce)]
  /\ qSignatureUsed' = consume(c, sig)
  /\ _mint(c, m.to, m.amount)
  /\ receipts' = receipts \cup {<<m, sig>>}
  /\ UNCHANGED <<paused, nonce, totalLocked, bridgeLimits, sent, minted>>

setBridgeLimit(c, account, target, limit) ==
  /\ bridgeLimits' = [bridgeLimits EXCEPT ![<<c, target, account>>] = limit]
  /\ UNCHANGED <<balances, totalSupply, paused, qSignatureUsed, nonce, totalLocked,
                 processedNonces, history>>

\* Pausable._pause and _unpause require the opposite state.
pause(c) ==
  /\ c \notin paused
  /\ paused' = paused \cup {c}
  /\ UNCHANGED <<balances, totalSupply, qSignatureUsed, nonce, totalLocked, processedNonces,
                 bridgeLimits, history>>

unpause(c) ==
  /\ c \in paused
  /\ paused' = paused \ {c}
  /\ UNCHANGED <<balances, totalSupply, qSignatureUsed, nonce, totalLocked, processedNonces,
                 bridgeLimits, history>>

\* ERC20.transfer, which reverts for the zero address and is stopped by
\* _beforeTokenTransfer while paused.
transfer(c, from, to, amount) ==
  /\ whenNotPaused(c)
  /\ balances[<<c, from>>] >= amount
  /\ LET debited == [balances EXCEPT ![<<c, from>>] = @ - amount]
     IN  balances' = [debited EXCEPT ![<<c, to>>] = @ + amount]
  /\ UNCHANGED <<totalSupply, paused, qSignatureUsed, nonce, totalLocked, processedNonces,
                 bridgeLimits, history>>

Next ==
  \E c \in Chains :
    \/ pause(c) \/ unpause(c)
    \/ \E m \in sent, sig \in Signatures : m.target = c /\ bridgeReceive(c, m, sig)
    \/ \E a \in Accounts, n \in Amounts :
         \/ \E sig \in Signatures : qMint(c, a, n, sig)
         \/ \E d \in Chains : setBridgeLimit(c, a, d, n)
         \/ \E d \in Chains, b \in Recipients : bridgeTo(c, a, d, b, n)
         \/ \E b \in Accounts : transfer(c, a, b, n)

Spec == Init /\ [][Next]_vars

-----------------------------------------------------------------------------
\* The type of the state of every deployment.
TypeOK ==
  /\ balances \in [Chains \X Accounts -> Nat]
  /\ totalSupply \in [Chains -> Int]
  /\ paused \subseteq Chains
  /\ qSignatureUsed \in [Chains -> SUBSET Signatures]
  /\ nonce \in [Chains \X Chains -> Nat]
  /\ totalLocked \in [Chains \X Chains -> Nat]
  /\ processedNonces \in [Chains \X Chains -> SUBSET Nat]
  /\ bridgeLimits \in [Chains \X Chains \X Accounts -> Nat]
  /\ sent \subseteq Transfer
  /\ receipts \subseteq Transfer \X Signatures
  /\ minted \in Nat

\* However often the relayer repeats bridgeReceive, and with however many
\* fresh signatures, a transfer announced by bridgeTo is minted at most once,
\* and one that was never announced is not minted.
MintedAtMostOnce ==
  \A r \in receipts : r[1] \in sent /\ \A q \in receipts : q[1] = r[1] => q = r

\* The target refuses a nonce only because the very transfer that carries it was
\* minted, never because another one used it up.  (One to the zero address,
\* which bridgeTo lets pass, is refused by _mint and stays in flight for ever.)
RefusedOnlyIfMinted ==
  \A m \in sent :
    m.nonce \in processedNonces[<<m.target, m.source>>] => \E sig \in Signatures : <<m, sig>> \in receipts

\* The transfers that have left their source and have not been received.
InFlight == sent \ {r[1] : r \in receipts}

\* Across all chains tokens are neither created nor destroyed by the bridge:
\* what circulates anywhere plus what is in flight is what qMint created.
BridgeConserves ==
  MapThenSumSet(LAMBDA c : totalSupply[c], Chains)
    + MapThenSumSet(LAMBDA m : m.amount, InFlight) = minted

\* While a deployment is paused no balance and no supply of it changes, by a
\* mint, a bridge call in either direction or an ERC20 transfer, and no
\* signature or nonce is consumed.
PauseFreezes ==
  [][\A c \in paused :
       /\ totalSupply'[c] = totalSupply[c]
       /\ \A a \in Accounts : balances'[<<c, a>>] = balances[<<c, a>>]
       /\ qSignatureUsed'[c] = qSignatureUsed[c]
       /\ \A d \in Chains : processedNonces'[<<c, d>>] = processedNonces[<<c, d>>]]_vars

\* Every increase of a chain's supply consumes a valid signature that this
\* chain had not seen: a signature is never good for two mints on one chain.
SupplyGrowsBySignature ==
  [][\A c \in Chains :
       totalSupply'[c] > totalSupply[c] =>
         \E sig \in Valid : sig \notin qSignatureUsed[c] /\ sig \in qSignatureUsed'[c]]_vars
=============================================================================
