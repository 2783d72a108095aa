---------------------------- MODULE KeyResolver -----------------------------
(***************************************************************************)
(* Which key a credential is checked with: ctxResolver.PublicKeys and      *)
(* AccountPubKey (internal/delegated/resolver.go), called by the svpdt     *)
(* library once per token while verifyProof checks a chain.  The agent     *)
(* registry is asked first and the issuer's account second; these are      *)
(* separate queries, to a chain on which agents register, deregister and   *)
(* accounts publish their key meanwhile, and each of them can fail.  The   *)
(* resolver keeps no state of its own, so verifications do not meet: the   *)
(* module follows one of them against a changing chain.                    *)
(***************************************************************************)
EXTENDS Naturals, Sequences

CONSTANTS
    Issuers,      \* names a token may carry as its issuer
    IsDID,        \* IsDID[d]: d has the DID prefix
    Keys,
    AccountKey,   \* AccountKey[d]: the one key that hashes to d's address
    NoKey,
    Proofs,       \* the chains clients present: <<[issuer, signedBy], ...>>
    MaxChanges    \* bound: transactions on the chain

ASSUME ResolverAssumption ==
    /\ IsDID \in [Issuers -> BOOLEAN]
    /\ AccountKey \in [Issuers -> Keys]
    /\ NoKey \notin Keys
    /\ Proofs \subseteq Seq([issuer : Issuers, signedBy : Keys]) \ {<< >>}
    /\ MaxChanges \in Nat

VARIABLES
    auth,         \* whether the resolver was given an account querier
    registry,     \* registry[d]: the registered key, or NoKey
    accounts,     \* accounts[d]: what the account of d has published
    changes,
    proof,        \* the chain that is being verified
    pc,
    tok,          \* the token that is being checked
    failed,       \* history: issuers whose registry query failed
    broken,       \* history: some query failed
    unregistered, \* history: issuers not registered at some instant of it
    wasKey,       \* history: wasKey[d], keys registered for d at some instant
    always        \* history: always[d], keys the chain's own rule took for d
                  \* at every instant

history == <<failed, broken, unregistered, wasKey, always>>
chainState == <<registry, accounts, changes>>
vars == <<auth, chainState, proof, pc, tok, history>>

\* "odd" is a key that is neither secp256k1 nor ethsecp256k1.
AccountKinds == {"none", "unsigned", "odd", "published"}

TypeOK ==
    /\ auth \in BOOLEAN
    /\ registry \in [Issuers -> Keys \cup {NoKey}]
    /\ accounts \in [Issuers -> AccountKinds]
    /\ changes \in 0 .. MaxChanges
    /\ proof \in Proofs
    /\ pc \in {"idle", "registry", "account", "verified", "refused"}
    /\ tok \in 1 .. Len(proof)
    /\ failed \subseteq Issuers
    /\ broken \in BOOLEAN
    /\ unregistered \subseteq Issuers
    /\ wasKey \in [Issuers -> SUBSET Keys]
    /\ always \in [Issuers -> SUBSET Keys]

Registered(reg, d) == {reg[d]} \ {NoKey}
Published(acc, d) == IF acc[d] = "published" THEN {AccountKey[d]} ELSE {}

(* The rule the resolver mirrors: the registered key is the single         *)
(* acceptable one, and the account key counts for the unregistered only.   *)
Acceptable(reg, acc, d) ==
    IF reg[d] # NoKey THEN Registered(reg, d) ELSE Published(acc, d)

\* Only DIDs are registered and have accounts.
Init ==
    /\ auth \in BOOLEAN
    /\ registry \in {f \in [Issuers -> Keys \cup {NoKey}] : \A d \in Issuers : IsDID[d] \/ f[d] = NoKey}
    /\ accounts \in {f \in [Issuers -> AccountKinds] : \A d \in Issuers : IsDID[d] \/ f[d] = "none"}
    /\ changes = 0
    /\ proof \in Proofs
    /\ pc = "idle"
    /\ tok = 1
    /\ failed = {}
    /\ broken = FALSE
    /\ unregistered = {}
    /\ wasKey = [d \in Issuers |-> {}]
    /\ always = [d \in Issuers |-> {}]

-----------------------------------------------------------------------------
(* VerifyChain asks for the keys of one token after the other.             *)

Issuer == proof[tok].issuer

Goto(label) == pc' = label /\ UNCHANGED tok

\* Wrong on purpose: the loop over the tokens goes one too far.
CheckSignature_offByOne(key) ==
    IF key # proof[tok].signedBy
    THEN Goto("refused")
    ELSE IF tok > Len(proof)
         THEN Goto("verified")
         ELSE pc' = "registry" /\ tok' = tok + 1

(* The resolver answers key: the token verifies if key signed it, and the  *)
(* next one is looked up.                                                  *)
CheckSignature(key) ==
    IF key # proof[tok].signedBy
    THEN Goto("refused")
    ELSE IF tok = Len(proof)
         THEN Goto("verified")
         ELSE pc' = "registry" /\ tok' = tok + 1

verifyProof ==
    /\ pc = "idle"
    /\ Goto("registry")
    /\ unregistered' = {d \in Issuers : registry[d] = NoKey}
    /\ wasKey' = [d \in Issuers |-> Registered(registry, d)]
    /\ always' = [d \in Issuers |-> Acceptable(registry, accounts, d)]
    /\ UNCHANGED <<auth, chainState, proof, failed, broken>>

\* Wrong on purpose: the fallback is for the first token of a chain only.
FallsBack_rootOnly == auth /\ IsDID[Issuer] /\ tok = 1

FallsBack == auth /\ IsDID[Issuer]

FallBack == Goto(IF FallsBack THEN "account" ELSE "refused")

\* Wrong on purpose: the account key is tried when the registered one fails.
RegistryAnswers_tryBoth ==
    /\ pc = "registry"
    /\ IF registry[Issuer] = proof[tok].signedBy
       THEN CheckSignature(registry[Issuer])
       ELSE FallBack
    /\ UNCHANGED <<auth, chainState, proof, history>>

RegistryAnswers ==
    /\ pc = "registry"
    /\ IF registry[Issuer] # NoKey
       THEN CheckSignature(registry[Issuer])
       ELSE FallBack
    /\ UNCHANGED <<auth, chainState, proof, history>>

\* A query error is taken like an answer that names no agent.
RegistryFails ==
    /\ pc = "registry"
    /\ FallBack
    /\ failed' = failed \cup {Issuer}
    /\ broken' = TRUE
    /\ UNCHANGED <<auth, chainState, proof, unregistered, wasKey, always>>

(* NoKey is an error: no account, none published, or another key type.     *)
(* That a published key hashes to its address is the chain's guarantee.    *)
AccountPubKey(d) == IF accounts[d] = "published" THEN AccountKey[d] ELSE NoKey

AccountAnswers ==
    /\ pc = "account"
    /\ IF AccountPubKey(Issuer) # NoKey
       THEN CheckSignature(AccountPubKey(Issuer))
       ELSE Goto("refused")
    /\ UNCHANGED <<auth, chainState, proof, history>>

AccountFails ==
    /\ pc = "account"
    /\ Goto("refused")
    /\ broken' = TRUE
    /\ UNCHANGED <<auth, chainState, proof, failed, unregistered, wasKey, always>>

PublicKeys == RegistryAnswers \/ RegistryFails \/ AccountAnswers \/ AccountFails

-----------------------------------------------------------------------------
(* The chain; a change during the verification enters its history.         *)

Change(reg, acc) ==
    /\ changes < MaxChanges
    /\ changes' = changes + 1
    /\ registry' = reg
    /\ accounts' = acc
    /\ IF pc \in {"registry", "account"}
       THEN /\ unregistered' = unregistered \cup {d \in Issuers : reg[d] = NoKey}
            /\ wasKey' = [d \in Issuers |-> wasKey[d] \cup Registered(reg, d)]
            /\ always' = [d \in Issuers |-> always[d] \cap Acceptable(reg, acc, d)]
       ELSE UNCHANGED <<unregistered, wasKey, always>>
    /\ UNCHANGED <<auth, proof, pc, tok, failed, broken>>

Register(d, k) ==
    /\ IsDID[d] /\ registry[d] = NoKey
    /\ Change([registry EXCEPT ![d] = k], accounts)

Deregister(d) == registry[d] # NoKey /\ Change([registry EXCEPT ![d] = NoKey], accounts)

\* The account of d signs its first transaction.
Publish(d) == accounts[d] = "unsigned" /\ Change(registry, [accounts EXCEPT ![d] = "published"])

Done == pc \in {"verified", "refused"} /\ UNCHANGED vars

Next ==
    \/ verifyProof
    \/ PublicKeys
    \/ \E d \in Issuers : Deregister(d) \/ Publish(d) \/ \E k \in Keys : Register(d, k)
    \/ Done

Spec == Init /\ [][Next]_vars

-----------------------------------------------------------------------------
(* Properties.                                                             *)

Tokens == {proof[i] : i \in 1 .. Len(proof)}

(* A verified chain is signed with keys of its own time: for each token,   *)
(* the key was its issuer's registered key at some instant of the          *)
(* verification, or it is the issuer's account key and the issuer was      *)
(* unregistered at some such instant or could not be looked up.  A key     *)
(* withdrawn before the verification began never verifies.                 *)
KeysOfItsTime ==
    pc = "verified" => \A t \in Tokens :
        \/ t.signedBy \in wasKey[t.issuer]
        \/ /\ t.signedBy \in Published(accounts, t.issuer)
           /\ t.issuer \in unregistered \cup failed

(* The preflight is never stricter than the chain: when every query was    *)
(* answered and every token was signed by the key the chain's rule took    *)
(* for its issuer all along, the proof is not refused.                     *)
NoSpuriousRefusal ==
    pc = "refused" /\ ~broken /\ auth =>
        \E t \in Tokens : t.signedBy \notin always[t.issuer]
=============================================================================
