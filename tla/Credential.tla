----------------------------- MODULE Credential -----------------------------
(***************************************************************************)
(* SVP-DT delegation credentials as this agent reads and mints them.       *)
(*                                                                         *)
(* A credential chain is a sequence of tokens, root-issued first.  What    *)
(* the service does with one is translated from internal/delegated         *)
(* (verifyProof, checkRedelegationTargets, preflight) and                  *)
(* internal/intermediary (narrow).  The credential library itself is not   *)
(* in the repository: VerifyChain and Attenuate are modelled from the      *)
(* options the code passes them and from what its comments and tests say   *)
(* they check.  A token is signed by its issuer and names its parent by    *)
(* hash, so signatures and linkage become: the issuer of a token is the    *)
(* audience of the token before it.                                        *)
(***************************************************************************)
EXTENDS Naturals, Sequences, FiniteSets

CONSTANTS
    DIDs,               \* agent identities, in canonical form
    RawDIDs,            \* strings a request may carry as downstream_did
    TrimSpace,          \* strings.TrimSpace on RawDIDs; NoDID is ""
    NoDID,
    Principals,
    Actions,            \* caveat actions
    RecordSpend,        \* "settlement.record_spend"
    Subaccounts,        \* subaccount numbers
    Settlements,        \* escrow orders
    NoSettlement,       \* the empty settlement caveat
    MaxDelegationDepth, \* x/agentwallet params.MaxDelegationDepth
    MaxTokenTtlSeconds  \* x/agentwallet params.MaxTokenTtlSeconds

ASSUME DIDAssumption ==
    /\ DIDs \subseteq RawDIDs
    /\ NoDID \notin DIDs
    /\ TrimSpace \in [RawDIDs -> DIDs \cup {NoDID}]
    /\ \A d \in DIDs : TrimSpace[d] = d

ASSUME CeilingAssumption ==
    /\ MaxDelegationDepth \in Nat
    /\ MaxTokenTtlSeconds \in Nat

ASSUME SettlementAssumption ==
    /\ NoSettlement \notin Settlements
    /\ RecordSpend \in Actions
    /\ 0 \in Subaccounts

-----------------------------------------------------------------------------
(* The library's data types.                                               *)

\* svpdt.OptionalStringSet: the zero value is the unconstrained form.
OptionalStringSet == [constrained : BOOLEAN, set : SUBSET RawDIDs]

ConstrainedTo(S) == [constrained |-> TRUE, set |-> S]

Allows(oss, s) == oss.constrained => s \in oss.set

Caveats == [principal    : Principals,
            actions      : SUBSET Actions,
            subaccounts  : SUBSET Subaccounts,
            budget       : Nat,
            svcBudget    : Nat,
            settlement   : Settlements \cup {NoSettlement},
            redelegable  : BOOLEAN,
            redelegateTo : OptionalStringSet,
            maxDepth     : Nat,
            notBefore    : Nat,
            expires      : Nat]

Token == [issuer : DIDs, audience : DIDs, caveats : Caveats]

Leaf(chain) == chain[Len(chain)]

(* c grants nothing p does not.  Identity of the principal and of the      *)
(* settlement binding is part of the order: neither may change on the way. *)
Narrower(c, p) ==
    /\ c.principal = p.principal
    /\ c.settlement = p.settlement
    /\ c.actions \subseteq p.actions
    /\ c.subaccounts \subseteq p.subaccounts
    /\ c.budget <= p.budget
    /\ c.svcBudget <= p.svcBudget
    /\ c.redelegable => p.redelegable
    /\ p.redelegateTo.constrained =>
          /\ c.redelegateTo.constrained
          /\ c.redelegateTo.set \subseteq p.redelegateTo.set
    /\ c.maxDepth <= p.maxDepth
    /\ p.notBefore <= c.notBefore
    /\ c.expires <= p.expires

LiveAt(c, now) == c.notBefore <= now /\ now < c.expires

-----------------------------------------------------------------------------
(* svpdt.VerifyChain, with the options verifyProof passes.  It does NOT    *)
(* look at redelegate_to: reads_test.go documents that a child addressed   *)
(* outside its parent's targets passes.  Nor is it assumed to look at      *)
(* redelegable.  A token's max_depth is the number of tokens a chain that  *)
(* holds it may have: the tests sign a lone token with 1, a pair whose     *)
(* child says 2, and attenuate a child that inherits its parent's.         *)
VerifyChain(chain, now, audience) ==
    /\ Len(chain) <= MaxDelegationDepth
    /\ Leaf(chain).audience = audience
    /\ \A i \in 1 .. Len(chain) :
          /\ Len(chain) <= chain[i].caveats.maxDepth
          /\ LiveAt(chain[i].caveats, now)
          /\ chain[i].caveats.expires <= chain[i].caveats.notBefore + MaxTokenTtlSeconds
          /\ i > 1 => chain[i].issuer = chain[i-1].audience
          /\ \A j \in 1 .. i : Narrower(chain[i].caveats, chain[j].caveats)

checkRedelegationTargets(chain) ==
    \A i \in 2 .. Len(chain) :
        Allows(chain[i-1].caveats.redelegateTo, chain[i].audience)

verifyProof(proof, now, agentID) ==
    /\ proof # << >>
    /\ VerifyChain(proof, now, agentID)
    /\ checkRedelegationTargets(proof)

\* Verified.Effective of a monotone chain is what its leaf grants.
Effective(chain) == Leaf(chain).caveats

preflight(chain, action, subaccount) ==
    /\ action \in Effective(chain).actions
    /\ subaccount \in Effective(chain).subaccounts

-----------------------------------------------------------------------------
(* A coin a request may or may not carry, and that may fail to parse.      *)
CoinArg == [given : BOOLEAN, valid : BOOLEAN, amount : Nat]

NarrowSpec == [actions     : SUBSET Actions,      \* {} inherits
               subaccounts : SUBSET Subaccounts,  \* {} inherits
               budget      : CoinArg,
               svcBudget   : CoinArg,
               ttl         : Nat]                 \* 0 inherits

narrowable(spec) ==
    /\ spec.budget.given => spec.budget.valid
    /\ spec.svcBudget.given => spec.svcBudget.valid

\* Wrong on purpose: the child keeps its parent's targets.
narrow_keepsTargets(parent, spec, now) ==
    [parent EXCEPT
        !.redelegable  = FALSE,
        !.actions      = IF spec.actions # {} THEN spec.actions ELSE @]

\* Wrong on purpose: the requested lifetime is taken off the parent's.
narrow_offExpiry(parent, spec, now) ==
    [parent EXCEPT
        !.redelegable  = FALSE,
        !.redelegateTo = ConstrainedTo({}),
        !.expires      = @ - spec.ttl]

narrow(parent, spec, now) ==
    [parent EXCEPT
        !.redelegable  = FALSE,
        !.redelegateTo = ConstrainedTo({}),
        !.actions      = IF spec.actions # {} THEN spec.actions ELSE @,
        !.subaccounts  = IF spec.subaccounts # {} THEN spec.subaccounts ELSE @,
        !.budget       = IF spec.budget.given THEN spec.budget.amount ELSE @,
        !.svcBudget    = IF spec.svcBudget.given THEN spec.svcBudget.amount ELSE @,
        !.expires      = IF spec.ttl > 0 /\ now + spec.ttl < @
                         THEN now + spec.ttl ELSE @]

(* svpdt.Attenuate: signs a child of parent unless that would widen it or  *)
(* address it outside the parent's targets.                                *)
Attenuable(parent, issuer, audience, caveats) ==
    /\ issuer = parent.audience
    /\ parent.caveats.redelegable
    /\ Allows(parent.caveats.redelegateTo, audience)
    /\ Narrower(caveats, parent.caveats)

Attenuate(issuer, audience, caveats) ==
    [issuer |-> issuer, audience |-> audience, caveats |-> caveats]
=============================================================================
