-------------------------- MODULE KeyResolverProofs -------------------------
(***************************************************************************)
(* Key resolution against a changing chain, for any issuers, keys, chains  *)
(* of any length and any number of changes: a verified chain was signed    *)
(* with keys of its own time, and the preflight refuses nothing the chain  *)
(* would have taken all along.                                             *)
(*                                                                         *)
(* An answer is about the instant of its query, the properties about the   *)
(* whole verification.  The invariant ties the two: while it runs, its     *)
(* history covers what the chain says now (CoverInv), every token behind   *)
(* the current one is vouched for (CheckedInv), and between the two        *)
(* queries for one issuer the first one's answer stays on record           *)
(* (FallbackInv).                                                          *)
(***************************************************************************)
EXTENDS KeyResolver, TLAPS

\* Names that are no DID are unknown to the chain.
NamesInv == \A d \in Issuers : ~IsDID[d] => registry[d] = NoKey /\ accounts[d] = "none"

\* The history of a verification includes the present.
CoverInv ==
    pc \in {"registry", "account"} => \A d \in Issuers :
        /\ registry[d] = NoKey => d \in unregistered
        /\ Registered(registry, d) \subseteq wasKey[d]
        /\ always[d] \subseteq Acceptable(registry, accounts, d)

\* The key of token t was its issuer's at some time of the verification.
Vouched(t) ==
    \/ t.signedBy \in wasKey[t.issuer]
    \/ /\ t.signedBy \in Published(accounts, t.issuer)
       /\ t.issuer \in unregistered \cup failed

\* The tokens that are done with are vouched for.
CheckedInv ==
    /\ pc = "idle" => tok = 1
    /\ pc = "verified" => tok = Len(proof) /\ Vouched(proof[tok])
    /\ \A i \in 1 .. Len(proof) : i < tok => Vouched(proof[i])

\* Why the account is being asked, and what that leaves the chain's rule.
FallbackInv ==
    pc = "account" =>
        /\ Issuer \in unregistered \cup failed
        /\ ~broken => always[Issuer] \subseteq Published(accounts, Issuer)

IInv == TypeOK /\ NamesInv /\ CoverInv /\ CheckedInv /\ FallbackInv /\ NoSpuriousRefusal

-----------------------------------------------------------------------------

(* The token being checked is a token of the presented chain.              *)
LEMMA TokenFacts ==
    ASSUME TypeOK
    PROVE  /\ Len(proof) \in Nat \ {0}
           /\ tok \in 1 .. Len(proof)
           /\ \A i \in 1 .. Len(proof) : proof[i].issuer \in Issuers /\ proof[i].signedBy \in Keys
           /\ Issuer \in Issuers
<1> DEFINE Token == [issuer : Issuers, signedBy : Keys]
<1>1. proof \in Seq(Token) /\ proof # << >>
  BY ResolverAssumption DEF TypeOK
<1> HIDE DEF Token
<1>2. Len(proof) \in Nat \ {0} /\ tok \in 1 .. Len(proof)
  BY <1>1 DEF TypeOK
<1>3. \A i \in 1 .. Len(proof) : proof[i] \in Token
  BY <1>1
<1> QED
  BY <1>2, <1>3 DEF Issuer, Token

(* The verification starts with an empty history.                          *)
LEMMA InitIInv == Init => IInv
<1> SUFFICES ASSUME Init PROVE IInv
  OBVIOUS
<1>1. proof \in Seq([issuer : Issuers, signedBy : Keys]) /\ proof # << >>
  BY ResolverAssumption DEF Init
<1>2. Len(proof) \in Nat \ {0}
  BY <1>1
<1>3. TypeOK
  <2>1. wasKey \in [Issuers -> SUBSET Keys] /\ always \in [Issuers -> SUBSET Keys]
    BY DEF Init
  <2>2. changes \in 0 .. MaxChanges /\ tok \in 1 .. Len(proof)
    BY <1>2, ResolverAssumption DEF Init
  <2>3. /\ registry \in [Issuers -> Keys \cup {NoKey}]
        /\ accounts \in [Issuers -> AccountKinds]
    BY DEF Init
  <2> QED
    BY <2>1, <2>2, <2>3 DEF Init, TypeOK
<1>4. NamesInv
  BY DEF Init, NamesInv
<1>5. CheckedInv
  BY <1>2 DEF Init, CheckedInv
<1> QED
  BY <1>3, <1>4, <1>5 DEF Init, IInv, CoverInv, FallbackInv, NoSpuriousRefusal

(* What a signature check does to the control state.                       *)
LEMMA CheckStep ==
    ASSUME TypeOK, NEW key, CheckSignature(key)
    PROVE  /\ pc' \in {"registry", "verified", "refused"}
           /\ tok' \in 1 .. Len(proof)
           /\ pc' = "refused" => key # proof[tok].signedBy /\ tok' = tok
           /\ pc' = "registry" => key = proof[tok].signedBy /\ tok' = tok + 1
           /\ pc' = "verified" => key = proof[tok].signedBy /\ tok' = tok /\ tok = Len(proof)
BY TokenFacts DEF CheckSignature, Goto, TypeOK

(* A change of the chain: one registration, deregistration or first        *)
(* transaction; names that are no DID stay unknown, and a published key    *)
(* stays published.                                                        *)
LEMMA ChangeFacts ==
    ASSUME TypeOK, NamesInv, NEW d \in Issuers,
           Deregister(d) \/ Publish(d) \/ \E k \in Keys : Register(d, k)
    PROVE  /\ Change(registry', accounts')
           /\ registry' \in [Issuers -> Keys \cup {NoKey}]
           /\ accounts' \in [Issuers -> AccountKinds]
           /\ NamesInv'
           /\ \A e \in Issuers : Published(accounts, e) \subseteq Published(accounts', e)
<1>1. ASSUME NEW k \in Keys, Register(d, k)
      PROVE  /\ registry' = [registry EXCEPT ![d] = k] /\ accounts' = accounts
             /\ IsDID[d] /\ Change(registry', accounts')
  BY <1>1 DEF Register, Change
<1>2. ASSUME Deregister(d)
      PROVE  /\ registry' = [registry EXCEPT ![d] = NoKey] /\ accounts' = accounts
             /\ Change(registry', accounts')
  BY <1>2 DEF Deregister, Change
<1>3. ASSUME Publish(d)
      PROVE  /\ registry' = registry /\ accounts' = [accounts EXCEPT ![d] = "published"]
             /\ accounts[d] = "unsigned" /\ Change(registry', accounts')
  BY <1>3 DEF Publish, Change
<1>4. CASE \E k \in Keys : Register(d, k)
  BY <1>1, <1>4 DEF TypeOK, NamesInv, Published
<1>5. CASE Deregister(d)
  BY <1>2, <1>5 DEF TypeOK, NamesInv, Published
<1>6. CASE Publish(d)
  BY <1>3, <1>6 DEF TypeOK, NamesInv, Published, AccountKinds
<1> QED
  BY <1>4, <1>5, <1>6

(* Every step is one of these.                                             *)
LEMMA Steps ==
    ASSUME [Next]_vars
    PROVE  \/ verifyProof
           \/ RegistryAnswers \/ RegistryFails \/ AccountAnswers \/ AccountFails
           \/ \E d \in Issuers : Deregister(d) \/ Publish(d) \/ \E k \in Keys : Register(d, k)
           \/ UNCHANGED vars
BY DEF Next, PublicKeys, Done

(* No step leaves the types of the variables.                              *)
LEMMA TypeStep == ASSUME TypeOK, NamesInv, [Next]_vars PROVE TypeOK'
<1> USE ResolverAssumption
<1>0. \A reg \in [Issuers -> Keys \cup {NoKey}], acc \in [Issuers -> AccountKinds], d \in Issuers :
        Registered(reg, d) \subseteq Keys /\ Acceptable(reg, acc, d) \subseteq Keys
  BY DEF Registered, Acceptable, Published
<1>1. CASE verifyProof
  <2>1. /\ unregistered' \subseteq Issuers
        /\ wasKey' \in [Issuers -> SUBSET Keys]
        /\ always' \in [Issuers -> SUBSET Keys]
    BY <1>0, <1>1 DEF verifyProof, TypeOK
  <2> QED
    BY <1>1, <2>1 DEF verifyProof, Goto, chainState, TypeOK
<1>2. CASE RegistryAnswers
  <2>1. pc' \in {"registry", "account", "verified", "refused"} /\ tok' \in 1 .. Len(proof)
    BY <1>2, CheckStep DEF RegistryAnswers, FallBack, Goto, TypeOK
  <2> QED
    BY <1>2, <2>1 DEF RegistryAnswers, chainState, history, TypeOK
<1>3. CASE RegistryFails
  BY <1>3, TokenFacts DEF RegistryFails, FallBack, Goto, chainState, TypeOK
<1>4. CASE AccountAnswers
  <2>1. pc' \in {"registry", "account", "verified", "refused"} /\ tok' \in 1 .. Len(proof)
    BY <1>4, CheckStep DEF AccountAnswers, Goto, TypeOK
  <2> QED
    BY <1>4, <2>1 DEF AccountAnswers, chainState, history, TypeOK
<1>5. CASE AccountFails
  BY <1>5 DEF AccountFails, Goto, chainState, TypeOK
<1>6. ASSUME NEW d \in Issuers, Deregister(d) \/ Publish(d) \/ \E k \in Keys : Register(d, k)
      PROVE  TypeOK'
  <2>1. Change(registry', accounts') /\ registry' \in [Issuers -> Keys \cup {NoKey}]
        /\ accounts' \in [Issuers -> AccountKinds]
    BY <1>6, ChangeFacts
  <2>2. /\ unregistered' \subseteq Issuers
        /\ wasKey' \in [Issuers -> SUBSET Keys]
        /\ always' \in [Issuers -> SUBSET Keys]
    BY <1>0, <2>1 DEF Change, TypeOK
  <2> QED
    BY <2>1, <2>2 DEF Change, TypeOK
<1>7. CASE UNCHANGED vars
  BY <1>7 DEF vars, chainState, history, TypeOK
<1> QED
  BY <1>1, <1>2, <1>3, <1>4, <1>5, <1>6, <1>7, Steps

(* A running or finished verification only adds to what it has seen, and   *)
(* only takes from what held all along; what it verifies stays the same.   *)
LEMMA HistoryStep ==
    ASSUME TypeOK, NamesInv, [Next]_vars, pc # "idle"
    PROVE  /\ proof' = proof /\ auth' = auth
           /\ unregistered \subseteq unregistered' /\ failed \subseteq failed'
           /\ broken => broken'
           /\ \A d \in Issuers : /\ wasKey[d] \subseteq wasKey'[d]
                                 /\ always'[d] \subseteq always[d]
                                 /\ Published(accounts, d) \subseteq Published(accounts', d)
<1>1. CASE verifyProof
  BY <1>1 DEF verifyProof
<1>2. CASE RegistryAnswers \/ AccountAnswers \/ UNCHANGED vars
  BY <1>2 DEF RegistryAnswers, AccountAnswers, vars, chainState, history
<1>3. CASE RegistryFails \/ AccountFails
  BY <1>3 DEF RegistryFails, AccountFails, chainState, TypeOK
<1>4. ASSUME NEW d \in Issuers, Deregister(d) \/ Publish(d) \/ \E k \in Keys : Register(d, k)
      PROVE  /\ proof' = proof /\ auth' = auth
             /\ unregistered \subseteq unregistered' /\ failed \subseteq failed'
             /\ broken => broken'
             /\ \A e \in Issuers : /\ wasKey[e] \subseteq wasKey'[e]
                                   /\ always'[e] \subseteq always[e]
                                   /\ Published(accounts, e) \subseteq Published(accounts', e)
  <2>1. Change(registry', accounts')
        /\ \A e \in Issuers : Published(accounts, e) \subseteq Published(accounts', e)
    BY <1>4, ChangeFacts
  <2>2. CASE pc \in {"registry", "account"}
    BY <2>1, <2>2 DEF Change, TypeOK
  <2>3. CASE pc \notin {"registry", "account"}
    BY <2>1, <2>3 DEF Change
  <2> QED
    BY <2>2, <2>3
<1> QED
  BY <1>1, <1>2, <1>3, <1>4, Steps

(* Once vouched for, a token stays so.                                     *)
LEMMA VouchedStep ==
    ASSUME TypeOK, NamesInv, [Next]_vars, pc # "idle",
           NEW i \in 1 .. Len(proof), Vouched(proof[i])
    PROVE  Vouched(proof[i])'
<1>1. proof[i].issuer \in Issuers
  BY TokenFacts
<1>2. proof'[i] = proof[i]
  BY HistoryStep
<1> QED
  BY <1>1, <1>2, HistoryStep DEF Vouched

(* The chain never learns of a name that is no DID.                        *)
LEMMA NamesStep == ASSUME TypeOK, NamesInv, [Next]_vars PROVE NamesInv'
<1>1. CASE UNCHANGED <<registry, accounts>>
  BY <1>1 DEF NamesInv
<1>2. CASE \E d \in Issuers : Deregister(d) \/ Publish(d) \/ \E k \in Keys : Register(d, k)
  BY <1>2, ChangeFacts
<1> QED
  BY <1>1, <1>2, Steps DEF verifyProof, RegistryAnswers, RegistryFails, AccountAnswers,
                           AccountFails, vars, chainState

(* The history goes on covering the present: verifyProof starts it with    *)
(* what the chain says, and every change of the chain enters it.           *)
LEMMA CoverStep == ASSUME TypeOK, NamesInv, CoverInv, [Next]_vars PROVE CoverInv'
<1>1. CASE verifyProof
  BY <1>1 DEF verifyProof, chainState, CoverInv, Registered, Acceptable
<1>2. CASE \/ RegistryAnswers \/ RegistryFails \/ AccountAnswers \/ AccountFails
           \/ UNCHANGED vars
  <2>1. /\ UNCHANGED <<registry, accounts, unregistered, wasKey, always>>
        /\ pc \in {"registry", "account"} \/ UNCHANGED pc
    BY <1>2 DEF RegistryAnswers, RegistryFails, AccountAnswers, AccountFails, vars, chainState, history
  <2> QED
    BY <2>1 DEF CoverInv, Registered, Acceptable, Published
<1>3. ASSUME NEW d \in Issuers, Deregister(d) \/ Publish(d) \/ \E k \in Keys : Register(d, k)
      PROVE  CoverInv'
  <2>1. Change(registry', accounts')
    BY <1>3, ChangeFacts
  <2>2. SUFFICES ASSUME pc \in {"registry", "account"}, NEW e \in Issuers
                 PROVE  /\ registry'[e] = NoKey => e \in unregistered'
                        /\ Registered(registry', e) \subseteq wasKey'[e]
                        /\ always'[e] \subseteq Acceptable(registry', accounts', e)
    BY <2>1 DEF CoverInv, Change
  <2> QED
    BY <2>1, <2>2 DEF Change
<1> QED
  BY <1>1, <1>2, <1>3, Steps

(* A token is passed only with the key the chain gave for its issuer, the  *)
(* registered one or, for want of it, the published one.                   *)
LEMMA CheckedStep ==
    ASSUME TypeOK, NamesInv, CoverInv, CheckedInv, FallbackInv, [Next]_vars
    PROVE  CheckedInv'
<1>0. Len(proof) \in Nat \ {0} /\ tok \in 1 .. Len(proof) /\ Issuer \in Issuers
      /\ Issuer = proof[tok].issuer
  BY TokenFacts DEF Issuer
<1>1. CASE pc = "idle"
  <2>1. tok' = 1 /\ pc' \in {"idle", "registry"}
    <3>1. CASE verifyProof
      BY <1>1, <3>1 DEF verifyProof, Goto, CheckedInv
    <3>2. CASE \E d \in Issuers : Deregister(d) \/ Publish(d) \/ \E k \in Keys : Register(d, k)
      BY <1>1, <3>2, ChangeFacts DEF Change, CheckedInv
    <3>3. CASE UNCHANGED vars
      BY <1>1, <3>3 DEF vars, CheckedInv
    <3> QED
      BY <1>1, <3>1, <3>2, <3>3, Steps DEF RegistryAnswers, RegistryFails, AccountAnswers, AccountFails
  <2>2. proof' \in Proofs
    BY TypeStep DEF TypeOK
  <2>3. \A i \in 1 .. Len(proof') : ~(i < tok')
    BY <2>1, <2>2, ResolverAssumption
  <2> QED
    BY <2>1, <2>3 DEF CheckedInv
<1>2. CASE pc # "idle"
  <2>1. proof' = proof /\ \A i \in 1 .. Len(proof) : Vouched(proof[i]) => Vouched(proof[i])'
    BY <1>2, HistoryStep, VouchedStep
  <2>2. ASSUME UNCHANGED tok, pc' # "idle", pc' = "verified" => pc = "verified"
        PROVE  CheckedInv'
    BY <1>0, <2>1, <2>2 DEF CheckedInv
  <2>3. ASSUME NEW key, CheckSignature(key), key = proof[tok].signedBy => Vouched(proof[tok])
        PROVE  CheckedInv'
    <3>1. CASE pc' = "refused"
      BY <2>2, <2>3, <3>1, CheckStep
    <3>2. CASE pc' = "verified"
      BY <1>0, <2>1, <2>3, <3>2, CheckStep DEF CheckedInv
    <3>3. CASE pc' = "registry"
      <4>1. tok' = tok + 1 /\ Vouched(proof[tok])
        BY <2>3, <3>3, CheckStep
      <4>2. \A i \in 1 .. Len(proof) : i < tok' => i < tok \/ i = tok
        BY <1>0, <4>1
      <4>3. \A i \in 1 .. Len(proof) : i < tok' => Vouched(proof[i])'
        BY <2>1, <4>1, <4>2 DEF CheckedInv
      <4> QED
        BY <2>1, <3>3, <4>3 DEF CheckedInv
    <3> QED
      BY <2>3, <3>1, <3>2, <3>3, CheckStep
  <2>4. CASE RegistryAnswers
    <3>1. CASE registry[Issuer] # NoKey
      <4>1. registry[Issuer] \in wasKey[Issuer]
        BY <1>0, <2>4, <3>1 DEF RegistryAnswers, CoverInv, Registered
      <4>2. CheckSignature(registry[Issuer])
        BY <2>4, <3>1 DEF RegistryAnswers
      <4>3. registry[Issuer] = proof[tok].signedBy => Vouched(proof[tok])
        BY <1>0, <4>1 DEF Vouched
      <4> QED
        BY <2>3, <4>2, <4>3
    <3>2. CASE registry[Issuer] = NoKey
      BY <2>2, <2>4, <3>2 DEF RegistryAnswers, FallBack, Goto
    <3> QED
      BY <3>1, <3>2
  <2>5. CASE RegistryFails \/ AccountFails
    BY <2>2, <2>5 DEF RegistryFails, AccountFails, FallBack, Goto
  <2>6. CASE AccountAnswers
    <3>1. CASE AccountPubKey(Issuer) # NoKey
      <4>1. AccountPubKey(Issuer) \in Published(accounts, Issuer)
        BY <3>1 DEF AccountPubKey, Published
      <4>2. Issuer \in unregistered \cup failed
        BY <2>6 DEF AccountAnswers, FallbackInv
      <4>3. CheckSignature(AccountPubKey(Issuer))
        BY <2>6, <3>1 DEF AccountAnswers
      <4>4. AccountPubKey(Issuer) = proof[tok].signedBy => Vouched(proof[tok])
        BY <1>0, <4>1, <4>2 DEF Vouched
      <4> QED
        BY <2>3, <4>3, <4>4
    <3>2. CASE AccountPubKey(Issuer) = NoKey
      BY <2>2, <2>6, <3>2 DEF AccountAnswers, Goto
    <3> QED
      BY <3>1, <3>2
  <2>7. CASE \E d \in Issuers : Deregister(d) \/ Publish(d) \/ \E k \in Keys : Register(d, k)
    BY <1>2, <2>2, <2>7, ChangeFacts DEF Change
  <2>8. CASE UNCHANGED vars
    BY <1>2, <2>2, <2>8 DEF vars
  <2> QED
    BY <1>2, <2>4, <2>5, <2>6, <2>7, <2>8, Steps DEF verifyProof
<1> QED
  BY <1>1, <1>2

(* The account is asked of an issuer the registry did not name; if it      *)
(* answered so, its account key is all the chain's rule leaves.            *)
LEMMA FallbackStep ==
    ASSUME TypeOK, NamesInv, CoverInv, FallbackInv, [Next]_vars
    PROVE  FallbackInv'
<1>0. Issuer \in Issuers
  BY TokenFacts
<1> SUFFICES ASSUME pc' = "account"
             PROVE  /\ Issuer' \in unregistered' \cup failed'
                    /\ ~broken' => always'[Issuer'] \subseteq Published(accounts', Issuer')
  BY DEF FallbackInv
<1>1. CASE verifyProof
  BY <1>1 DEF verifyProof, Goto
<1>2. CASE RegistryAnswers
  <2>1. registry[Issuer] = NoKey /\ UNCHANGED <<tok, proof, accounts, history>>
    BY <1>2, CheckStep DEF RegistryAnswers, FallBack, Goto, chainState
  <2>2. Issuer \in unregistered /\ always[Issuer] \subseteq Published(accounts, Issuer)
    BY <1>0, <1>2, <2>1 DEF RegistryAnswers, CoverInv, Acceptable
  <2> QED
    BY <2>1, <2>2 DEF Issuer, history, Published
<1>3. CASE RegistryFails
  BY <1>3 DEF RegistryFails, FallBack, Goto, Issuer
<1>4. CASE AccountAnswers
  BY <1>4, CheckStep DEF AccountAnswers, Goto
<1>5. CASE AccountFails
  BY <1>5 DEF AccountFails, Goto
<1>6. CASE \/ \E d \in Issuers : Deregister(d) \/ Publish(d) \/ \E k \in Keys : Register(d, k)
           \/ UNCHANGED vars
  <2>1. UNCHANGED <<pc, tok, proof, broken, failed>>
    BY <1>6, ChangeFacts DEF Change, vars, history
  <2>2. pc = "account" /\ Issuer' = Issuer
    BY <2>1 DEF Issuer
  <2> QED
    BY <1>0, <2>1, <2>2, HistoryStep DEF FallbackInv
<1> QED
  BY <1>1, <1>2, <1>3, <1>4, <1>5, <1>6, Steps

(* A refusal after answers only is one the chain would have made at some   *)
(* instant too.                                                            *)
LEMMA RefusalStep == ASSUME IInv, [Next]_vars PROVE NoSpuriousRefusal'
<1>0. /\ TypeOK /\ NamesInv /\ CoverInv /\ FallbackInv /\ NoSpuriousRefusal
      /\ Issuer \in Issuers /\ Issuer = proof[tok].issuer /\ proof[tok] \in Tokens
  BY TokenFacts DEF IInv, Issuer, Tokens
<1>1. SUFFICES ASSUME pc' = "refused", ~broken', auth'
               PROVE  \E t \in Tokens' : t.signedBy \notin always'[t.issuer]
  BY DEF NoSpuriousRefusal
<1>2. ASSUME UNCHANGED <<proof, always>>, proof[tok].signedBy \notin always[Issuer]
      PROVE  \E t \in Tokens' : t.signedBy \notin always'[t.issuer]
  BY <1>0, <1>2 DEF Tokens
<1>3. CASE verifyProof
  BY <1>1, <1>3 DEF verifyProof, Goto
<1>4. CASE RegistryAnswers
  <2>1. UNCHANGED <<proof, always, auth>> /\ pc = "registry"
    BY <1>4 DEF RegistryAnswers, history
  <2>2. always[Issuer] \subseteq Acceptable(registry, accounts, Issuer)
    BY <1>0, <2>1 DEF CoverInv
  <2>3. CASE registry[Issuer] # NoKey
    <3>1. registry[Issuer] # proof[tok].signedBy
      BY <1>0, <1>1, <1>4, <2>3, CheckStep DEF RegistryAnswers
    <3> QED
      BY <1>2, <2>1, <2>2, <2>3, <3>1 DEF Acceptable, Registered
  <2>4. CASE registry[Issuer] = NoKey
    <3>1. ~IsDID[Issuer]
      BY <1>1, <1>4, <2>1, <2>4 DEF RegistryAnswers, FallBack, FallsBack, Goto
    <3>2. Published(accounts, Issuer) = {}
      BY <1>0, <3>1 DEF NamesInv, Published
    <3> QED
      BY <1>2, <2>1, <2>2, <2>4, <3>2 DEF Acceptable
  <2> QED
    BY <2>3, <2>4
<1>5. CASE RegistryFails \/ AccountFails
  BY <1>1, <1>5 DEF RegistryFails, AccountFails
<1>6. CASE AccountAnswers
  <2>1. UNCHANGED <<proof, always, auth, broken>> /\ pc = "account"
    BY <1>6 DEF AccountAnswers, history
  <2>2. always[Issuer] \subseteq Published(accounts, Issuer)
    BY <1>0, <1>1, <2>1 DEF FallbackInv
  <2>3. AccountPubKey(Issuer) # NoKey => AccountPubKey(Issuer) # proof[tok].signedBy
    BY <1>0, <1>1, <1>6, CheckStep DEF AccountAnswers
  <2>4. proof[tok].signedBy \notin Published(accounts, Issuer)
    BY <1>0, <2>3, ResolverAssumption DEF AccountPubKey, Published
  <2> QED
    BY <1>2, <2>1, <2>2, <2>4
<1>7. CASE \/ \E d \in Issuers : Deregister(d) \/ Publish(d) \/ \E k \in Keys : Register(d, k)
           \/ UNCHANGED vars
  <2>1. UNCHANGED <<pc, proof, broken, auth>>
    BY <1>0, <1>7, ChangeFacts DEF Change, vars, history
  <2>2. PICK t \in Tokens : t.signedBy \notin always[t.issuer]
    BY <1>0, <1>1, <2>1 DEF NoSpuriousRefusal
  <2>3. t.issuer \in Issuers
    BY <1>0, <2>2, TokenFacts DEF Tokens
  <2>4. always'[t.issuer] \subseteq always[t.issuer]
    BY <1>0, <1>1, <2>1, <2>3, HistoryStep
  <2> QED
    BY <2>1, <2>2, <2>4 DEF Tokens
<1> QED
  BY <1>3, <1>4, <1>5, <1>6, <1>7, Steps

(* The invariant holds for ever.                                           *)
LEMMA Inductive == Spec => []IInv
<1>1. IInv /\ [Next]_vars => IInv'
  BY TypeStep, NamesStep, CoverStep, CheckedStep, FallbackStep, RefusalStep DEF IInv
<1> QED
  BY <1>1, InitIInv, PTL DEF Spec

-----------------------------------------------------------------------------

(* Every variable keeps its type; tok stays a position of the presented    *)
(* chain, so no token is looked up that is not there.                      *)
THEOREM TypeCorrect == Spec => []TypeOK
<1>1. IInv => TypeOK
  BY DEF IInv
<1> QED
  BY <1>1, Inductive, PTL

(* verifyProof accepts a chain of any length only if each of its keys was  *)
(* its issuer's at some instant of the verification, however the registry  *)
(* changed between the queries (KeysOfItsTime).                            *)
THEOREM VerifiedKeysAreCurrent == Spec => []KeysOfItsTime
<1>1. IInv => KeysOfItsTime
  <2> SUFFICES ASSUME IInv, pc = "verified", NEW i \in 1 .. Len(proof) PROVE Vouched(proof[i])
    BY DEF KeysOfItsTime, Tokens, Vouched
  <2>1. tok = Len(proof) /\ Vouched(proof[tok]) /\ Len(proof) \in Nat
    BY TokenFacts DEF IInv, CheckedInv
  <2>2. i < tok \/ i = tok
    BY <2>1
  <2> QED
    BY <2>1, <2>2 DEF IInv, CheckedInv
<1> QED
  BY <1>1, Inductive, PTL

(* The preflight is never stricter than the chain: a chain whose tokens    *)
(* were signed with the keys the chain's rule took all along is refused    *)
(* only if a query failed (NoSpuriousRefusal).                             *)
THEOREM PreflightIsNotStricter == Spec => []NoSpuriousRefusal
<1>1. IInv => NoSpuriousRefusal
  BY DEF IInv
<1> QED
  BY <1>1, Inductive, PTL
=============================================================================
