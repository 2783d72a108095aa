--------------------------- MODULE DelegatedRead ----------------------------
(***************************************************************************)
(* Delegated reads: AuthorizeRead (internal/delegated/reads.go) and the    *)
(* table of synthetic tenants behind it (read_tenants.go), for concurrent  *)
(* calls.  A call's credential is verified, then the read authorized and   *)
(* admitted as a tenant, and its tool handler looks that tenant up again;  *)
(* these hold no common lock, so the clock, queries to the chain, other    *)
(* admissions and their sweeps fall in between.                            *)
(*                                                                         *)
(* What the heartbeat answers is left open here (module RootState).  The   *)
(* tool handler is not in this repository: its checks on the tenant are    *)
(* the ones the comments of reads.go rely on.                              *)
(***************************************************************************)
EXTENDS Integers, FiniteSets, Functions

CONSTANTS
    Calls,
    Requests,        \* the calls clients may make
    Principals,
    NoOwner,         \* the owner argument is absent, null or ""
    Subaccounts,
    Ids,             \* tenant ids: "svpdt-" and 8 bytes of the chain hash
    maxReadTenants,
    MaxTime          \* bound: last instant of the clock

(* proofOk folds verifyProof short of expiry, grantsQuery the action check, *)
(* delegable ReadSpecFor.  id is derived from the credential's hash: two    *)
(* requests with one credential share it.  sub is 0 when it is absent.      *)
Request == [proofOk       : BOOLEAN,
            grantsQuery   : BOOLEAN,
            delegable     : BOOLEAN,
            hasSubaccount : BOOLEAN,
            id            : Ids,
            principal     : Principals,
            subaccounts   : SUBSET Subaccounts,
            leafExp       : Nat,
            owner         : Principals \cup {NoOwner},
            sub           : Subaccounts]

ASSUME ReadAssumption ==
    /\ Requests \subseteq Request
    /\ NoOwner \notin Principals
    /\ maxReadTenants \in Nat \ {0}
    /\ MaxTime \in Nat

(* Eight bytes of SHA-256 tell credentials apart: requests under one id    *)
(* come with one credential.                                               *)
ASSUME IdAssumption ==
    \A r, s \in Requests : r.id = s.id =>
        r.principal = s.principal /\ r.subaccounts = s.subaccounts /\ r.leafExp = s.leafExp

VARIABLES
    now,
    req,
    pc,
    args,      \* args[c]: the owner AuthorizeRead pinned the call to
    byID,      \* the tenant table, a function on the ids it holds
    full,      \* history: the table refused to grow for c
    servedAt   \* history: when the data of c was read

vars == <<now, req, pc, args, byID, full, servedAt>>

readTenant == [owner : Principals, subaccounts : SUBSET Subaccounts, expires : Nat]

Pcs == {"idle", "verified", "authorized", "admitted", "served", "unknownTenant", "refused"}

TypeOK ==
    /\ now \in 0 .. MaxTime
    /\ req \in [Calls -> Requests]
    /\ pc \in [Calls -> Pcs]
    /\ args \in [Calls -> Principals \cup {NoOwner}]
    /\ DOMAIN byID \subseteq Ids
    /\ \A id \in DOMAIN byID : byID[id] \in readTenant
    /\ full \in [Calls -> BOOLEAN]
    /\ servedAt \in [Calls -> Nat]

Init ==
    /\ now = 0
    /\ req \in [Calls -> Requests]
    /\ pc = [c \in Calls |-> "idle"]
    /\ args = [c \in Calls |-> NoOwner]
    /\ byID = [id \in {} |-> 0]
    /\ full = [c \in Calls |-> FALSE]
    /\ servedAt = [c \in Calls |-> 0]

-----------------------------------------------------------------------------
(* AuthorizeRead.                                                          *)

pinArgsToPrincipal(r) ==
    [ok    |-> /\ r.owner \in {NoOwner, r.principal}
               /\ r.hasSubaccount => r.sub \in r.subaccounts,
     owner |-> r.principal]

(* verifyProof: the clock is read once, before the keys are looked up.     *)
VerifyProof(c) ==
    /\ pc[c] = "idle"
    /\ req[c].delegable /\ req[c].proofOk /\ now < req[c].leafExp
    /\ pc' = [pc EXCEPT ![c] = "verified"]
    /\ UNCHANGED <<now, req, args, byID, full, servedAt>>

\* The rest of AuthorizeRead, once the chain has answered for the root.
AuthorizeRead(c) ==
    /\ pc[c] = "verified"
    /\ req[c].grantsQuery
    /\ pinArgsToPrincipal(req[c]).ok
    /\ pc' = [pc EXCEPT ![c] = "authorized"]
    /\ args' = [args EXCEPT ![c] = pinArgsToPrincipal(req[c]).owner]
    /\ UNCHANGED <<now, req, byID, full, servedAt>>

\* One of the checks failed, or the root is paused, moved on or unreadable.
RefuseRead(c) ==
    /\ pc[c] \in {"idle", "verified"}
    /\ pc' = [pc EXCEPT ![c] = "refused"]
    /\ UNCHANGED <<now, req, args, byID, full, servedAt>>

-----------------------------------------------------------------------------
(* ReadTenantSource; mu is held over each operation.                       *)

\* Wrong on purpose: a full table is emptied.
sweepLocked_clears(table) ==
    Restrict(table, {id \in DOMAIN table :
        now < table[id].expires /\ Cardinality(DOMAIN table) < maxReadTenants})

sweepLocked(table) ==
    Restrict(table, {id \in DOMAIN table : now < table[id].expires})

\* Wrong on purpose: the cap is compared after the fact.
Grows_offByOne(table, id) == id \in DOMAIN table \/ Cardinality(DOMAIN table) <= maxReadTenants

\* A known tenant is replaced; a new one needs room.
Grows(table, id) == id \in DOMAIN table \/ Cardinality(DOMAIN table) < maxReadTenants

\* Wrong on purpose: the tenant belongs to whom the arguments name.
Entry_fromArgs(r) == [owner |-> r.owner, subaccounts |-> r.subaccounts, expires |-> r.leafExp]

Entry(r) == [owner |-> r.principal, subaccounts |-> r.subaccounts, expires |-> r.leafExp]

(* The entry is stored, or the table refuses to grow; the caller gets the  *)
(* same TenantContext either way.                                          *)
Admit(c) ==
    LET swept == sweepLocked(byID)
        id    == req[c].id
        room  == Grows(swept, id)
    IN  /\ pc[c] = "authorized"
        /\ byID' = IF room
                   THEN [i \in DOMAIN swept \cup {id} |-> IF i = id THEN Entry(req[c]) ELSE swept[i]]
                   ELSE swept
        /\ full' = [full EXCEPT ![c] = ~room]
        /\ pc' = [pc EXCEPT ![c] = "admitted"]
        /\ UNCHANGED <<now, req, args, servedAt>>

\* Wrong on purpose: expiry is left to the sweep.
LookupTenantPolicy_unswept(id) == id \in DOMAIN byID

\* Wrong on purpose: a credential in its last second is taken for expired.
LookupTenantPolicy_early(id) == id \in DOMAIN byID /\ now + 1 < byID[id].expires

LookupTenantPolicy(id) == id \in DOMAIN byID /\ now < byID[id].expires

-----------------------------------------------------------------------------
(* The tool handler: it resolves its tenant, checks the owner and the      *)
(* subaccount against the tenant's policy, and reads.                      *)

Handle(c) ==
    LET r       == req[c]
        tenant  == byID[r.id]
        allowed == /\ tenant.owner = args[c]
                   /\ r.hasSubaccount => r.sub \in tenant.subaccounts
    IN  /\ pc[c] = "admitted"
        /\ LookupTenantPolicy(r.id)
        /\ pc' = [pc EXCEPT ![c] = IF allowed THEN "served" ELSE "refused"]
        /\ servedAt' = [servedAt EXCEPT ![c] = IF allowed THEN now ELSE @]
        /\ UNCHANGED <<now, req, args, byID, full>>

UnknownTenant(c) ==
    /\ pc[c] = "admitted"
    /\ ~LookupTenantPolicy(req[c].id)
    /\ pc' = [pc EXCEPT ![c] = "unknownTenant"]
    /\ UNCHANGED <<now, req, args, byID, full, servedAt>>

Tick ==
    /\ now < MaxTime
    /\ now' = now + 1
    /\ UNCHANGED <<req, pc, args, byID, full, servedAt>>

Done ==
    /\ now = MaxTime
    /\ \A c \in Calls : pc[c] \in {"served", "unknownTenant", "refused"}
    /\ UNCHANGED vars

Next ==
    \/ \E c \in Calls :
          VerifyProof(c) \/ AuthorizeRead(c) \/ RefuseRead(c) \/ Admit(c) \/ Handle(c) \/ UnknownTenant(c)
    \/ Tick
    \/ Done

Spec == Init /\ [][Next]_vars

-----------------------------------------------------------------------------
(* Properties.                                                             *)

(* What is read is the principal's, inside the subaccounts the credential  *)
(* grants, and the credential has not expired by then: the tenant lookup   *)
(* catches what ran out after AuthorizeRead looked.                        *)
ServedWithinGrant ==
    \A c \in Calls : pc[c] = "served" =>
        /\ args[c] = req[c].principal
        /\ req[c].hasSubaccount => req[c].sub \in req[c].subaccounts
        /\ servedAt[c] < req[c].leafExp

(* "refusing new admissions is the right failure mode": however many       *)
(* credentials are admitted at once, the table keeps to its bound.         *)
TableBounded == Cardinality(DOMAIN byID) <= maxReadTenants

(* An authorized call that meets unknown-tenant met it for one of the two  *)
(* reasons the code accepts, never because another admission swept or      *)
(* displaced its tenant: its credential has expired, or the table was full *)
(* when it was admitted.                                                   *)
UnknownTenantExplained ==
    \A c \in Calls : pc[c] = "unknownTenant" => full[c] \/ req[c].leafExp <= now

(* A tenant that has not expired stays in the table, and stays the same    *)
(* owner's: a flood of new credentials displaces nobody.                   *)
NoEviction ==
    [][\A id \in DOMAIN byID : now < byID[id].expires =>
          id \in DOMAIN byID' /\ byID'[id].owner = byID[id].owner]_vars
=============================================================================
