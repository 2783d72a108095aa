----------------------------- MODULE AgentChain -----------------------------
(***************************************************************************)
(* Caller-signed operations on the agent chain (internal/agentchain): the  *)
(* queries, the build operations that answer an unsigned transaction, and  *)
(* BroadcastSignedTx that lands what the caller signed, behind the tenant  *)
(* check every one of them runs.  Tenants come from two populations        *)
(* (internal/wire: bearer-minted and delegated-read ones).                 *)
(*                                                                         *)
(* One operation is built, signed by its client elsewhere, and broadcast,  *)
(* through the tenant it was built under or another; a client whose        *)
(* broadcast ended in an error sends the same bytes again.  Operations of  *)
(* one account run concurrently.  The chain and the client are environment. *)
(***************************************************************************)
EXTENDS Naturals, FiniteSets

CONSTANTS
    Ops,          \* operations in progress
    Requests,     \* what clients ask for
    Accounts,     \* addresses
    NoAccount,    \* a transaction that names no single signer
    BearerIds,    \* tenant ids of auth.DynamicTenantStore ("auto-...")
    ReadIds,      \* tenant ids of ReadTenantSource ("svpdt-...")
    NoTenant,     \* the request context carries no tenant
    Unknown,      \* an id no source answers for
    MaxSends      \* bound: broadcasts of one transaction

TenantIds == BearerIds \cup ReadIds

(* The arguments each build operation parses, and fails on: x/agent ...    *)
RegistryArgs ==
    [build_register_agent   |-> {"operator", "public_key", "capability_hash", "pricing", "coin"},
     build_update_agent     |-> {"capability_hash", "pricing"},
     build_deposit_bond     |-> {"coin"},
     build_withdraw_bond    |-> {"coin"},
     build_deregister_agent |-> {}]

\* ... and x/agentwallet.
DelegationArgs ==
    [build_create_delegation |-> {"limits"},
     build_update_delegation |-> {"root_id", "limits"},
     build_pause_delegation  |-> {"root_id"},
     build_resume_delegation |-> {"root_id"},
     build_revoke_delegation |-> {"root_id"},
     build_revoke_token      |-> {"root_id", "token_hash"}]

\* The queries by root id parse it; the others take their arguments as given.
QueryArgs ==
    [get_agent |-> {}, get_agent_by_operator |-> {}, list_agents |-> {}, get_agents_by_owner |-> {},
     get_agents_by_capability |-> {}, get_agent_params |-> {},
     get_delegation |-> {"root_id"}, get_delegations_by_delegator |-> {},
     get_delegation_epoch |-> {"root_id"}, get_delegation_spend |-> {"root_id"},
     get_agentwallet_params |-> {}]

Builds == DOMAIN RegistryArgs \cup DOMAIN DelegationArgs
Queries == DOMAIN QueryArgs

Args(tool) ==
    IF tool \in DOMAIN RegistryArgs THEN RegistryArgs[tool]
    ELSE IF tool \in DOMAIN DelegationArgs THEN DelegationArgs[tool] ELSE QueryArgs[tool]

ArgNames == UNION {Args(tool) : tool \in Builds \cup Queries}

(* bad: the arguments that do not parse.  valid: ValidateBasic.  via: the  *)
(* tenant that presents the signed transaction.  declared: the account of  *)
(* the public key its AuthInfo declares.  signer: the account whose key    *)
(* made the signature, which need be neither.                              *)
Request == [tool     : Builds \cup Queries,
            tenant   : TenantIds \cup {NoTenant, Unknown},
            bad      : SUBSET ArgNames,
            valid    : BOOLEAN,
            via      : TenantIds \cup {NoTenant, Unknown},
            declared : Accounts \cup {NoAccount},
            signer   : Accounts]

CONSTANT Owner    \* Owner[t]: the account a tenant was issued to

ASSUME AgentChainAssumption ==
    /\ Requests \subseteq Request
    /\ Owner \in [TenantIds -> Accounts]
    /\ BearerIds \cap ReadIds = {}
    /\ {NoTenant, Unknown} \cap TenantIds = {}
    /\ NoAccount \notin Accounts
    /\ MaxSends \in Nat \ {0}

VARIABLES
    req,
    pc,
    bearers,   \* bearers[id]: "live", "killed", "gone"
    readers,   \* readers[id]: "live" or "gone"; they have no kill switch
    owner,     \* owner[o]: what authorize returned
    seq,       \* seq[o]: the sequence in the payload of o
    sends,     \* how often o was broadcast
    doubt,     \* history: a broadcast of o ended in an error
    rival,     \* history: another transaction of the account was on its way
               \* when that of o was assembled, or came in later
    outcome,
    wire,      \* <<o, n>>: the n-th broadcast of o is on its way
    verdict,   \* verdict[o]: CheckTx's answer to the broadcast o waits for
    mempool,
    mined,
    checkSeq, committed   \* the accounts' sequences, as in OperatorTx

tenantVars == <<bearers, readers>>
callVars == <<req, owner, seq, sends, doubt>>
chainVars == <<wire, verdict, mempool, mined, checkSeq, committed>>
vars == <<tenantVars, callVars, pc, rival, outcome, chainVars>>

NoOwner == NoAccount

TypeOK ==
    /\ req \in [Ops -> Requests]
    /\ pc \in [Ops -> {"idle", "building", "built", "signed", "cleared", "sent", "ended"}]
    /\ bearers \in [BearerIds -> {"live", "killed", "gone"}]
    /\ readers \in [ReadIds -> {"live", "gone"}]
    /\ owner \in [Ops -> Accounts \cup {NoOwner}]
    /\ seq \in [Ops -> Nat]
    /\ sends \in [Ops -> 0 .. MaxSends]
    /\ doubt \in [Ops -> BOOLEAN]
    /\ rival \in [Ops -> BOOLEAN]
    /\ outcome \in [Ops -> {"none", "denied", "answered", "error", "ok", "badSequence", "refused"}]
    /\ wire \subseteq Ops \X (1 .. MaxSends)
    /\ verdict \in [Ops -> {"none", "ok", "badSequence", "refused"}]
    /\ mempool \subseteq Ops /\ mined \subseteq Ops
    /\ checkSeq \in [Accounts -> Nat]
    /\ committed \in [Accounts -> Nat]

Init ==
    /\ req \in [Ops -> Requests]
    /\ pc = [o \in Ops |-> "idle"]
    /\ bearers = [id \in BearerIds |-> "live"]
    /\ readers = [id \in ReadIds |-> "live"]
    /\ owner = [o \in Ops |-> NoOwner]
    /\ seq = [o \in Ops |-> 0]
    /\ sends = [o \in Ops |-> 0]
    /\ doubt = [o \in Ops |-> FALSE]
    /\ rival = [o \in Ops |-> FALSE]
    /\ outcome = [o \in Ops |-> "none"]
    /\ wire = {}
    /\ verdict = [o \in Ops |-> "none"]
    /\ mempool = {} /\ mined = {}
    /\ checkSeq = [a \in Accounts |-> 0]
    /\ committed = [a \in Accounts |-> 0]

-----------------------------------------------------------------------------
(* The policy engine's dynamic tenants.                                    *)

\* Wrong on purpose: the policy carries the tenant's id for its owner.
LookupTenantPolicy_idAsOwner(id) ==
    [ok         |-> \/ id \in BearerIds /\ bearers[id] # "gone"
                    \/ id \in ReadIds /\ readers[id] = "live",
     owner      |-> id,
     killSwitch |-> id \in BearerIds /\ bearers[id] = "killed"]

(* The first source that answers wins; the prefixes keep the ids apart.    *)
LookupTenantPolicy(id) ==
    IF id \in BearerIds /\ bearers[id] # "gone"
    THEN [ok |-> TRUE, owner |-> Owner[id], killSwitch |-> bearers[id] = "killed"]
    ELSE IF id \in ReadIds /\ readers[id] = "live"
    THEN [ok |-> TRUE, owner |-> Owner[id], killSwitch |-> FALSE]
    ELSE [ok |-> FALSE, owner |-> NoOwner, killSwitch |-> FALSE]

authorize(id) ==
    /\ id # NoTenant
    /\ LookupTenantPolicy(id).ok /\ ~LookupTenantPolicy(id).killSwitch

-----------------------------------------------------------------------------
(* Queries and build operations.                                           *)

Goto(o, label) == pc' = [pc EXCEPT ![o] = label]

End(o, result) ==
    /\ Goto(o, "ended")
    /\ outcome' = [outcome EXCEPT ![o] = result]

\* The prelude and the argument checks of every query and build operation.
Begin(o) ==
    /\ pc[o] = "idle"
    /\ authorize(req[o].tenant)
    /\ Args(req[o].tool) \cap req[o].bad = {}
    /\ owner' = [owner EXCEPT ![o] = LookupTenantPolicy(req[o].tenant).owner]
    /\ Goto(o, "building")
    /\ UNCHANGED <<tenantVars, req, seq, sends, doubt, rival, outcome, chainVars>>

BeginDenied(o) ==
    /\ pc[o] = "idle"
    /\ ~authorize(req[o].tenant) \/ Args(req[o].tool) \cap req[o].bad # {}
    /\ End(o, "denied")
    /\ UNCHANGED <<tenantVars, callVars, rival, chainVars>>

\* A query is forwarded, and the chain's answer or error returned verbatim.
Query(o) ==
    /\ pc[o] = "building" /\ req[o].tool \in Queries
    /\ \E result \in {"answered", "error"} : End(o, result)
    /\ UNCHANGED <<tenantVars, callVars, rival, chainVars>>

OnItsWay(o) == o \in mempool \/ \E n \in 1 .. MaxSends : <<o, n>> \in wire

(* What the chain's ante handler asks of a transaction beside its fee and  *)
(* its sequence: the declared key is its message's signer's, and made the  *)
(* signature.                                                              *)
Authentic(o) == req[o].declared = owner[o] /\ req[o].signer = owner[o]

Rivals(o) == {d \in Ops \ {o} : OnItsWay(d) /\ Authentic(d) /\ owner[d] = owner[o]}

\* Wrong on purpose: the sequence after the next one.
assemble_skips(o) ==
    /\ pc[o] = "building" /\ req[o].tool \in Builds
    /\ req[o].valid
    /\ seq' = [seq EXCEPT ![o] = committed[owner[o]] + 1]
    /\ rival' = [rival EXCEPT ![o] = Rivals(o) # {}]
    /\ Goto(o, "built")
    /\ UNCHANGED <<tenantVars, req, owner, sends, doubt, outcome, chainVars>>

(* assemble: ValidateBasic, the account's committed sequence, the payload. *)
(* The owner is the message's signer and the payload's.                    *)
assemble(o) ==
    /\ pc[o] = "building" /\ req[o].tool \in Builds
    /\ req[o].valid
    /\ seq' = [seq EXCEPT ![o] = committed[owner[o]]]
    /\ rival' = [rival EXCEPT ![o] = Rivals(o) # {}]
    /\ Goto(o, "built")
    /\ UNCHANGED <<tenantVars, req, owner, sends, doubt, outcome, chainVars>>

AssembleError(o) ==
    /\ pc[o] = "building" /\ req[o].tool \in Builds
    /\ End(o, "error")
    /\ UNCHANGED <<tenantVars, callVars, rival, chainVars>>

\* The client signs the payload, with the key it has, and declares a key.
Sign(o) ==
    /\ pc[o] = "built"
    /\ Goto(o, "signed")
    /\ UNCHANGED <<tenantVars, callVars, rival, outcome, chainVars>>

-----------------------------------------------------------------------------
(* BroadcastSignedTx.                                                      *)

\* Wrong on purpose: any single declared key will do.
signerPinned_any(o) == req[o].declared # NoAccount

(* signerAddress answers an error (NoAccount) or the address of the one    *)
(* public key AuthInfo declares, which must be the tenant's owner.  The    *)
(* signature is not looked at: that is the chain's.                        *)
signerPinned(o) == req[o].declared = LookupTenantPolicy(req[o].via).owner

BroadcastCleared(o) ==
    /\ pc[o] = "signed"
    /\ authorize(req[o].via)
    /\ signerPinned(o)
    /\ Goto(o, "cleared")
    /\ UNCHANGED <<tenantVars, callVars, rival, outcome, chainVars>>

BroadcastDenied(o) ==
    /\ pc[o] = "signed"
    /\ ~(authorize(req[o].via) /\ signerPinned(o))
    /\ End(o, "denied")
    /\ UNCHANGED <<tenantVars, callVars, rival, chainVars>>

BroadcastSync(o) ==
    /\ pc[o] = "cleared"
    /\ Goto(o, "sent")
    /\ sends' = [sends EXCEPT ![o] = @ + 1]
    /\ wire' = wire \cup {<<o, sends[o] + 1>>}
    /\ verdict' = [verdict EXCEPT ![o] = "none"]
    /\ UNCHANGED <<tenantVars, req, owner, seq, doubt, rival, outcome, mempool, mined, checkSeq, committed>>

BroadcastReply(o) ==
    /\ pc[o] = "sent" /\ verdict[o] # "none"
    /\ End(o, verdict[o])
    /\ UNCHANGED <<tenantVars, callVars, rival, chainVars>>

\* Wrong on purpose: an error is reported as a refusal.
BroadcastError_asRefusal(o) ==
    /\ pc[o] = "sent"
    /\ End(o, "refused")
    /\ UNCHANGED <<tenantVars, callVars, rival, chainVars>>

\* The request or its answer was lost or timed out.
BroadcastError(o) ==
    /\ pc[o] = "sent"
    /\ End(o, "error")
    /\ doubt' = [doubt EXCEPT ![o] = TRUE]
    /\ UNCHANGED <<tenantVars, req, owner, seq, sends, rival, chainVars>>

\* The client sends the same bytes again.
Retry(o) ==
    /\ outcome[o] = "error" /\ sends[o] \in 1 .. MaxSends - 1
    /\ Goto(o, "signed")
    /\ outcome' = [outcome EXCEPT ![o] = "none"]
    /\ UNCHANGED <<tenantVars, callVars, rival, chainVars>>

-----------------------------------------------------------------------------
(* The chain.  The account it judges is that of the message's signer, the  *)
(* owner the payload was built for.  Its answer to a broadcast reaches o   *)
(* only while o waits for that broadcast.                                  *)

Answered(o, n, v) ==
    verdict' = IF pc[o] = "sent" /\ n = sends[o] THEN [verdict EXCEPT ![o] = v] ELSE verdict

CheckTx(o, n) ==
    LET a == owner[o] IN
    /\ <<o, n>> \in wire
    /\ Authentic(o)
    /\ o \notin mempool \cup mined /\ seq[o] = checkSeq[a]
    /\ wire' = wire \ {<<o, n>>}
    /\ mempool' = mempool \cup {o}
    /\ checkSeq' = [checkSeq EXCEPT ![a] = @ + 1]
    /\ rival' = [d \in Ops |-> rival[d] \/ (d # o /\ owner[d] = a /\ pc[d] # "building")]
    /\ Answered(o, n, "ok")
    /\ UNCHANGED <<tenantVars, callVars, pc, outcome, mined, committed>>

(* A foreign public key is refused before the sequence is compared, a      *)
(* foreign signature after; a sound transaction may still fail for its fee. *)
CheckTxFails(o, n) ==
    /\ <<o, n>> \in wire
    /\ wire' = wire \ {<<o, n>>}
    /\ Answered(o, n, IF req[o].declared # owner[o] \/ seq[o] = checkSeq[owner[o]]
                      THEN "refused" ELSE "badSequence")
    /\ UNCHANGED <<tenantVars, callVars, pc, rival, outcome, mempool, mined, checkSeq, committed>>

Lose(o, n) ==
    /\ <<o, n>> \in wire
    /\ wire' = wire \ {<<o, n>>}
    /\ UNCHANGED <<tenantVars, callVars, pc, rival, outcome, verdict, mempool, mined, checkSeq, committed>>

Mine(o) ==
    LET a == owner[o] IN
    /\ o \in mempool /\ seq[o] = committed[a]
    /\ mempool' = mempool \ {o}
    /\ mined' = mined \cup {o}
    /\ committed' = [committed EXCEPT ![a] = @ + 1]
    /\ UNCHANGED <<tenantVars, callVars, pc, rival, outcome, wire, verdict, checkSeq>>

(* The administrator kills a tenant, a bearer or a read credential expires. *)
TenantEnds(id) ==
    /\ \/ /\ id \in BearerIds /\ bearers[id] # "gone"
          /\ \E s \in {"killed", "gone"} \ {bearers[id]} : bearers' = [bearers EXCEPT ![id] = s]
          /\ UNCHANGED readers
       \/ /\ id \in ReadIds /\ readers[id] = "live"
          /\ readers' = [readers EXCEPT ![id] = "gone"]
          /\ UNCHANGED bearers
    /\ UNCHANGED <<callVars, pc, rival, outcome, chainVars>>

Serve(o) ==
    \/ Begin(o) \/ BeginDenied(o) \/ Query(o) \/ assemble(o) \/ AssembleError(o)
    \/ BroadcastCleared(o) \/ BroadcastDenied(o)
    \/ BroadcastSync(o) \/ BroadcastReply(o) \/ BroadcastError(o)

Done ==
    /\ \A o \in Ops : pc[o] = "ended"
    /\ wire = {} /\ mempool = {}
    /\ UNCHANGED vars

Next ==
    \/ \E o \in Ops : Serve(o) \/ Sign(o) \/ Retry(o) \/ Mine(o)
    \/ \E o \in Ops, n \in 1 .. MaxSends : CheckTx(o, n) \/ CheckTxFails(o, n) \/ Lose(o, n)
    \/ \E id \in TenantIds : TenantEnds(id)
    \/ Done

Spec == Init /\ [][Next]_vars

-----------------------------------------------------------------------------
(* Properties.                                                             *)

Landing(o) == OnItsWay(o) \/ o \in mined

(* The comment on the pin in BroadcastSignedTx: "a tenant may only land    *)
(* txs signed by its own owner key".  What the chain has taken was signed  *)
(* with the key of the account that the presenting tenant was issued to,   *)
(* and acts for that account, whichever tenant it was built under, whoever *)
(* signed it and whatever it declares.                                     *)
TenantLandsOwn ==
    \A o \in mempool \cup mined :
        /\ req[o].via \in TenantIds
        /\ Owner[req[o].via] = req[o].signer
        /\ Owner[req[o].via] = owner[o]

(* A refusal can be relied on, unless the client was left in doubt before: *)
(* a transaction whose broadcast is answered with a CheckTx code, and of   *)
(* which no earlier broadcast ended in an error, never lands.              *)
RefusalIsFinal ==
    \A o \in Ops : outcome[o] \in {"refused", "badSequence"} /\ ~doubt[o] => ~Landing(o)

(* A caller that builds one transaction at a time is never refused for its *)
(* sequence: such a refusal means that another transaction of the account  *)
(* was on its way when this one was built or came in before it, or that    *)
(* this one was already sent.                                              *)
BadSequenceExplained ==
    \A o \in Ops : outcome[o] = "badSequence" => rival[o] \/ doubt[o]
=============================================================================
