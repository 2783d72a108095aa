------------------------ MODULE DelegatedReadProofs -------------------------
(***************************************************************************)
(* Delegated reads for any number of calls, credentials and tenants: what  *)
(* is served is inside its grant, the table keeps to its cap and displaces *)
(* nobody, and an unknown tenant has one of the two reasons the code       *)
(* accepts.                                                                *)
(*                                                                         *)
(* Between its admission and its lookup a call holds nothing: what makes   *)
(* the table answer for this very credential is that every entry is what   *)
(* any request under its id would have stored (TableInv), which rests on   *)
(* IdAssumption; the cap and the pinning do not.                           *)
(***************************************************************************)
EXTENDS DelegatedRead, FiniteSetTheorems, TLAPS

InScope(c) ==
    /\ args[c] = req[c].principal
    /\ req[c].hasSubaccount => req[c].sub \in req[c].subaccounts

\* From its authorization on, a call is pinned to what its credential grants.
PinnedInv == \A c \in Calls : pc[c] \in {"authorized", "admitted", "served"} => InScope(c)

\* The table holds finitely many tenants, and no more than its cap.
CapInv == IsFiniteSet(DOMAIN byID) /\ TableBounded

\* An entry is the one that any request under its id would store.
TableInv ==
    \A id \in DOMAIN byID :
        \E r \in Requests : r.id = id /\ byID[id] = Entry(r)

\* An admitted tenant stays until its credential expires.
AdmittedInv ==
    \A c \in Calls : pc[c] = "admitted" /\ ~full[c] =>
        req[c].id \in DOMAIN byID \/ req[c].leafExp <= now

ServedInv == \A c \in Calls : pc[c] = "served" => servedAt[c] < req[c].leafExp

Capped == TypeOK /\ PinnedInv /\ CapInv

IInv == Capped /\ TableInv /\ AdmittedInv /\ ServedInv /\ UnknownTenantExplained

-----------------------------------------------------------------------------

(* What the sweep at the start of an admission leaves.                     *)
LEMMA Swept ==
    /\ DOMAIN sweepLocked(byID) = {id \in DOMAIN byID : now < byID[id].expires}
    /\ \A id \in DOMAIN sweepLocked(byID) : sweepLocked(byID)[id] = byID[id]
BY DEF sweepLocked, Restrict

(* What an admission leaves in the table: its own entry if there was room, *)
(* and every other that has not expired.                                   *)
LEMMA Admitted ==
    ASSUME TypeOK, NEW c \in Calls, Admit(c)
    PROVE  LET kept == {id \in DOMAIN byID : now < byID[id].expires}
           IN  \/ /\ DOMAIN byID' = kept \cup {req[c].id}
                  /\ \A id \in DOMAIN byID' :
                        byID'[id] = IF id = req[c].id THEN Entry(req[c]) ELSE byID[id]
                  /\ req[c].id \in kept \/ Cardinality(kept) < maxReadTenants
                  /\ full'[c] = FALSE
               \/ /\ DOMAIN byID' = kept
                  /\ \A id \in DOMAIN byID' : byID'[id] = byID[id]
                  /\ full'[c] = TRUE
<1> DEFINE kept == {id \in DOMAIN byID : now < byID[id].expires}
           swept == sweepLocked(byID)
           room == Grows(swept, req[c].id)
<1>1. DOMAIN swept = kept /\ \A id \in kept : swept[id] = byID[id]
  BY Swept
<1>2. /\ byID' = IF room
                 THEN [i \in DOMAIN swept \cup {req[c].id} |->
                          IF i = req[c].id THEN Entry(req[c]) ELSE swept[i]]
                 ELSE swept
      /\ full' = [full EXCEPT ![c] = ~room]
  BY DEF Admit
<1>3. room <=> (req[c].id \in kept \/ Cardinality(kept) < maxReadTenants)
  BY <1>1 DEF Grows
<1>4. full'[c] = ~room
  BY <1>2 DEF TypeOK
<1> HIDE DEF kept, swept, room
<1>5. CASE room
  <2>1. DOMAIN byID' = kept \cup {req[c].id}
    BY <1>1, <1>2, <1>5
  <2>2. \A id \in DOMAIN byID' : byID'[id] = IF id = req[c].id THEN Entry(req[c]) ELSE byID[id]
    BY <1>1, <1>2, <1>5
  <2>3. full'[c] = FALSE
    BY <1>4, <1>5
  <2> QED
    BY <1>3, <1>5, <2>1, <2>2, <2>3 DEF kept
<1>6. CASE ~room
  <2>1. byID' = swept
    BY <1>2, <1>6
  <2>2. full'[c] = TRUE
    BY <1>4, <1>6
  <2> QED
    BY <1>1, <2>1, <2>2 DEF kept
<1> QED
  BY <1>5, <1>6

(* A request's entry is a tenant.                                          *)
LEMMA EntryType == ASSUME NEW r \in Requests PROVE Entry(r) \in readTenant /\ r.id \in Ids
BY ReadAssumption DEF Entry, readTenant, Request

(* No step leaves the types of the variables.                              *)
LEMMA TypeStep == ASSUME TypeOK, [Next]_vars PROVE TypeOK'
<1>0. \A c \in Calls : req[c] \in Requests /\ req[c] \in Request
  BY ReadAssumption DEF TypeOK
<1>1. ASSUME NEW c \in Calls, VerifyProof(c) \/ RefuseRead(c) \/ UnknownTenant(c) PROVE TypeOK'
  BY <1>1 DEF VerifyProof, RefuseRead, UnknownTenant, TypeOK, Pcs
<1>2. ASSUME NEW c \in Calls, AuthorizeRead(c) PROVE TypeOK'
  <2>1. pinArgsToPrincipal(req[c]).owner \in Principals
    BY <1>0 DEF pinArgsToPrincipal, Request
  <2> QED
    BY <1>2, <2>1 DEF AuthorizeRead, TypeOK, Pcs
<1>3. ASSUME NEW c \in Calls, Admit(c) PROVE TypeOK'
  <2>1. /\ DOMAIN byID \subseteq Ids /\ \A id \in DOMAIN byID : byID[id] \in readTenant
    BY DEF TypeOK
  <2>2. Entry(req[c]) \in readTenant /\ req[c].id \in Ids
    BY <1>0, EntryType
  <2>3. DOMAIN byID' \subseteq Ids /\ \A id \in DOMAIN byID' : byID'[id] \in readTenant
    BY <1>3, <2>1, <2>2, Admitted
  <2>4. full' \in [Calls -> BOOLEAN]
    BY <1>3 DEF Admit, TypeOK
  <2>5. pc' \in [Calls -> Pcs]
    BY <1>3 DEF Admit, TypeOK, Pcs
  <2> QED
    BY <1>3, <2>3, <2>4, <2>5 DEF Admit, TypeOK
<1>4. ASSUME NEW c \in Calls, Handle(c) PROVE TypeOK'
  <2>1. now \in Nat
    BY ReadAssumption DEF TypeOK
  <2> QED
    BY <1>4, <2>1 DEF Handle, TypeOK, Pcs
<1>5. ASSUME Tick PROVE TypeOK'
  BY <1>5, ReadAssumption DEF Tick, TypeOK
<1>6. ASSUME UNCHANGED vars PROVE TypeOK'
  BY <1>6 DEF vars, TypeOK
<1> QED
  BY <1>1, <1>2, <1>3, <1>4, <1>5, <1>6 DEF Next, Done

(* Nothing unpins a call.                                                  *)
LEMMA PinnedStep == ASSUME TypeOK, PinnedInv, [Next]_vars PROVE PinnedInv'
<1> DEFINE Pinned == {"authorized", "admitted", "served"}
<1>1. ASSUME NEW c \in Calls, AuthorizeRead(c) PROVE PinnedInv'
  <2>1. /\ \A d \in Calls : d # c => pc'[d] = pc[d] /\ args'[d] = args[d]
        /\ args'[c] = pinArgsToPrincipal(req[c]).owner /\ req' = req
    BY <1>1 DEF AuthorizeRead, TypeOK
  <2>2. InScope(c)'
    BY <1>1, <2>1 DEF AuthorizeRead, pinArgsToPrincipal, InScope
  <2> QED
    BY <2>1, <2>2 DEF PinnedInv, InScope
<1>2. ASSUME UNCHANGED <<req, args>>, \A d \in Calls : pc'[d] \in Pinned => pc[d] \in Pinned
      PROVE  PinnedInv'
  BY <1>2 DEF PinnedInv, InScope
<1>3. ASSUME NEW c \in Calls, VerifyProof(c) \/ RefuseRead(c) \/ Admit(c) \/ Handle(c) \/ UnknownTenant(c)
      PROVE  PinnedInv'
  <2>1. UNCHANGED <<req, args>> /\ \A d \in Calls : pc'[d] \in Pinned => pc[d] \in Pinned
    BY <1>3 DEF VerifyProof, RefuseRead, Admit, Handle, UnknownTenant, TypeOK
  <2> QED
    BY <1>2, <2>1
<1>4. ASSUME Tick \/ UNCHANGED vars PROVE PinnedInv'
  BY <1>2, <1>4 DEF Tick, vars
<1> QED
  BY <1>1, <1>3, <1>4 DEF Next, Done

(* An admission replaces an entry or meets a table with room.              *)
LEMMA CapStep == ASSUME TypeOK, CapInv, [Next]_vars PROVE CapInv'
<1>0. maxReadTenants \in Nat
  BY ReadAssumption
<1>1. ASSUME NEW c \in Calls, Admit(c) PROVE CapInv'
  <2> DEFINE kept == {id \in DOMAIN byID : now < byID[id].expires}
  <2>1. /\ IsFiniteSet(kept) /\ Cardinality(kept) \in Nat
        /\ Cardinality(kept) <= Cardinality(DOMAIN byID) /\ Cardinality(DOMAIN byID) \in Nat
    <3>1. kept \in SUBSET DOMAIN byID /\ IsFiniteSet(DOMAIN byID)
      BY DEF CapInv
    <3> QED
      BY <3>1, FS_Subset, FS_CardinalityType
  <2>2. Cardinality(kept) <= maxReadTenants
    BY <1>0, <2>1 DEF CapInv, TableBounded
  <2>3. \/ /\ DOMAIN byID' = kept \cup {req[c].id}
           /\ req[c].id \in kept \/ Cardinality(kept) < maxReadTenants
        \/ DOMAIN byID' = kept
    BY <1>1, Admitted
  <2> HIDE DEF kept
  <2>4. IsFiniteSet(DOMAIN byID') /\ Cardinality(DOMAIN byID') <= maxReadTenants
    BY <1>0, <2>1, <2>2, <2>3, FS_AddElement
  <2> QED
    BY <2>4 DEF CapInv, TableBounded
<1>2. ASSUME UNCHANGED byID PROVE CapInv'
  BY <1>2 DEF CapInv, TableBounded
<1> QED
  BY <1>1, <1>2 DEF Next, VerifyProof, AuthorizeRead, RefuseRead, Handle, UnknownTenant, Tick, Done, vars

(* Types, pinning and the cap, whatever the ids are.                       *)
LEMMA CappedInductive ==
    /\ Init => Capped
    /\ Capped /\ [Next]_vars => Capped'
<1>1. ASSUME Init PROVE Capped
  <2>1. DOMAIN byID = {}
    BY <1>1 DEF Init
  <2>2. CapInv
    BY <2>1, FS_EmptySet, ReadAssumption DEF CapInv, TableBounded
  <2>3. TypeOK
    BY <1>1, <2>1, ReadAssumption DEF Init, TypeOK, Pcs
  <2>4. PinnedInv
    BY <1>1 DEF Init, PinnedInv
  <2> QED
    BY <2>2, <2>3, <2>4 DEF Capped
<1>2. ASSUME Capped, [Next]_vars PROVE Capped'
  BY <1>2, TypeStep, PinnedStep, CapStep DEF Capped
<1> QED
  BY <1>1, <1>2

(* The variables keep their types.                                         *)
THEOREM TypeCorrect == Spec => []TypeOK
<1>1. Capped => TypeOK
  BY DEF Capped
<1> QED
  BY <1>1, CappedInductive, PTL DEF Spec

(* read_tenants.go: however many credentials are admitted at once, the     *)
(* table never holds more than maxReadTenants.                             *)
THEOREM TableIsBounded == Spec => []TableBounded
<1>1. Capped => TableBounded
  BY DEF Capped, CapInv
<1> QED
  BY <1>1, CappedInductive, PTL DEF Spec

(* reads.go: even when two credentials share an id, a call reads what its  *)
(* own principal and subaccounts allow, no more.                           *)
THEOREM AlwaysInScope == Spec => [](\A c \in Calls : pc[c] = "served" => InScope(c))
<1>1. Capped => \A c \in Calls : pc[c] = "served" => InScope(c)
  BY DEF Capped, PinnedInv
<1> QED
  BY <1>1, CappedInductive, PTL DEF Spec

-----------------------------------------------------------------------------
(* From here on ids tell credentials apart.                                *)

(* The entry under a request's id is its own.                              *)
LEMMA OwnEntry ==
    ASSUME TypeOK, TableInv, NEW c \in Calls, req[c].id \in DOMAIN byID
    PROVE  /\ byID[req[c].id] = Entry(req[c])
           /\ byID[req[c].id].expires = req[c].leafExp
<1>1. PICK r \in Requests : r.id = req[c].id /\ byID[req[c].id] = Entry(r)
  BY DEF TableInv
<1>2. req[c] \in Requests
  BY DEF TypeOK
<1>3. r.principal = req[c].principal /\ r.subaccounts = req[c].subaccounts /\ r.leafExp = req[c].leafExp
  BY <1>1, <1>2, IdAssumption
<1> QED
  BY <1>1, <1>3 DEF Entry

(* Every entry comes from a request under its id.                          *)
LEMMA TableStep == ASSUME TypeOK, TableInv, [Next]_vars PROVE TableInv'
<1>1. ASSUME NEW c \in Calls, Admit(c) PROVE TableInv'
  <2>1. req[c] \in Requests
    BY DEF TypeOK
  <2>2. ASSUME NEW id \in DOMAIN byID'
        PROVE  \/ id \in DOMAIN byID /\ byID'[id] = byID[id]
               \/ id = req[c].id /\ byID'[id] = Entry(req[c])
    BY <1>1, <2>2, Admitted
  <2> QED
    BY <2>1, <2>2 DEF TableInv, Entry
<1>2. ASSUME UNCHANGED byID PROVE TableInv'
  BY <1>2 DEF TableInv, Entry
<1> QED
  BY <1>1, <1>2 DEF Next, VerifyProof, AuthorizeRead, RefuseRead, Handle, UnknownTenant, Tick, Done, vars

(* No admission sweeps or displaces a tenant that is alive.                *)
LEMMA AdmittedStep == ASSUME TypeOK, TableInv, AdmittedInv, [Next]_vars PROVE AdmittedInv'
<1>0. now \in Nat /\ \A c \in Calls : req[c].leafExp \in Nat
  BY ReadAssumption DEF TypeOK, Request
<1>1. ASSUME NEW c \in Calls, Admit(c) PROVE AdmittedInv'
  <2>1. /\ \A d \in Calls : d # c => pc'[d] = pc[d] /\ full'[d] = full[d]
        /\ req' = req /\ now' = now
    BY <1>1 DEF Admit, TypeOK
  <2>2. full'[c] \/ req[c].id \in DOMAIN byID'
    BY <1>1, Admitted
  <2>3. ASSUME NEW d \in Calls, req[d].id \in DOMAIN byID, now < req[d].leafExp
        PROVE  req[d].id \in DOMAIN byID'
    <3>1. now < byID[req[d].id].expires
      BY <2>3, OwnEntry
    <3> QED
      BY <1>1, <2>3, <3>1, Admitted
  <2> QED
    BY <1>0, <2>1, <2>2, <2>3 DEF AdmittedInv
<1>2. ASSUME UNCHANGED <<byID, full, req, now>>,
             \A d \in Calls : pc'[d] = "admitted" => pc[d] = "admitted"
      PROVE  AdmittedInv'
  BY <1>2 DEF AdmittedInv
<1>3. ASSUME NEW c \in Calls,
             VerifyProof(c) \/ AuthorizeRead(c) \/ RefuseRead(c) \/ Handle(c) \/ UnknownTenant(c)
      PROVE  AdmittedInv'
  <2>1. /\ UNCHANGED <<byID, full, req, now>>
        /\ \A d \in Calls : pc'[d] = "admitted" => pc[d] = "admitted"
    BY <1>3 DEF VerifyProof, AuthorizeRead, RefuseRead, Handle, UnknownTenant, TypeOK
  <2> QED
    BY <1>2, <2>1
<1>4. ASSUME Tick PROVE AdmittedInv'
  BY <1>0, <1>4 DEF Tick, AdmittedInv
<1>5. ASSUME UNCHANGED vars PROVE AdmittedInv'
  BY <1>2, <1>5 DEF vars
<1> QED
  BY <1>1, <1>3, <1>4, <1>5 DEF Next, Done

(* A read happens before its credential expires.                           *)
LEMMA ServedStep == ASSUME TypeOK, TableInv, ServedInv, [Next]_vars PROVE ServedInv'
<1>1. ASSUME NEW c \in Calls, Handle(c) PROVE ServedInv'
  <2>1. /\ \A d \in Calls : d # c => pc'[d] = pc[d] /\ servedAt'[d] = servedAt[d]
        /\ req' = req
        /\ pc'[c] = "served" => servedAt'[c] = now
    BY <1>1 DEF Handle, TypeOK
  <2>2. now < req[c].leafExp
    BY <1>1, OwnEntry DEF Handle, LookupTenantPolicy
  <2> QED
    BY <2>1, <2>2 DEF ServedInv
<1>2. ASSUME UNCHANGED <<req, servedAt>>, \A d \in Calls : pc'[d] = "served" => pc[d] = "served"
      PROVE  ServedInv'
  BY <1>2 DEF ServedInv
<1>3. ASSUME NEW c \in Calls,
             VerifyProof(c) \/ AuthorizeRead(c) \/ RefuseRead(c) \/ Admit(c) \/ UnknownTenant(c)
      PROVE  ServedInv'
  <2>1. UNCHANGED <<req, servedAt>> /\ \A d \in Calls : pc'[d] = "served" => pc[d] = "served"
    BY <1>3 DEF VerifyProof, AuthorizeRead, RefuseRead, Admit, UnknownTenant, TypeOK
  <2> QED
    BY <1>2, <2>1
<1>4. ASSUME Tick \/ UNCHANGED vars PROVE ServedInv'
  BY <1>2, <1>4 DEF Tick, vars
<1> QED
  BY <1>1, <1>3, <1>4 DEF Next, Done

(* A call that finds no tenant has expired or met a full table.            *)
LEMMA UnknownStep ==
    ASSUME TypeOK, TableInv, AdmittedInv, UnknownTenantExplained, [Next]_vars
    PROVE  UnknownTenantExplained'
<1>0. now \in Nat /\ \A c \in Calls : req[c].leafExp \in Nat
  BY ReadAssumption DEF TypeOK, Request
<1>1. ASSUME NEW c \in Calls, UnknownTenant(c) PROVE UnknownTenantExplained'
  <2>1. /\ \A d \in Calls : d # c => pc'[d] = pc[d]
        /\ UNCHANGED <<req, full, now>> /\ pc[c] = "admitted"
        /\ req[c].id \in DOMAIN byID => ~(now < byID[req[c].id].expires)
    BY <1>1 DEF UnknownTenant, LookupTenantPolicy, TypeOK
  <2>2. full[c] \/ req[c].leafExp <= now
    BY <1>0, <2>1, OwnEntry DEF AdmittedInv
  <2> QED
    BY <2>1, <2>2 DEF UnknownTenantExplained
<1>2. ASSUME UNCHANGED <<req, now>>,
             \A d \in Calls : pc'[d] = "unknownTenant" => pc[d] = "unknownTenant" /\ full'[d] = full[d]
      PROVE  UnknownTenantExplained'
  BY <1>2 DEF UnknownTenantExplained
<1>3. ASSUME NEW c \in Calls,
             VerifyProof(c) \/ AuthorizeRead(c) \/ RefuseRead(c) \/ Admit(c) \/ Handle(c)
      PROVE  UnknownTenantExplained'
  <2>1. /\ UNCHANGED <<req, now>>
        /\ \A d \in Calls : pc'[d] = "unknownTenant" => pc[d] = "unknownTenant" /\ full'[d] = full[d]
    BY <1>3 DEF VerifyProof, AuthorizeRead, RefuseRead, Admit, Handle, TypeOK
  <2> QED
    BY <1>2, <2>1
<1>4. ASSUME Tick PROVE UnknownTenantExplained'
  BY <1>0, <1>4 DEF Tick, UnknownTenantExplained
<1>5. ASSUME UNCHANGED vars PROVE UnknownTenantExplained'
  BY <1>2, <1>5 DEF vars
<1> QED
  BY <1>1, <1>3, <1>4, <1>5 DEF Next, Done

(* The invariant holds at the start and is inductive.                      *)
LEMMA Inductive ==
    /\ Init => IInv
    /\ IInv /\ [Next]_vars => IInv'
<1>1. ASSUME Init PROVE IInv
  <2>1. TableInv /\ AdmittedInv /\ ServedInv /\ UnknownTenantExplained
    BY <1>1 DEF Init, TableInv, AdmittedInv, ServedInv, UnknownTenantExplained
  <2> QED
    BY <1>1, <2>1, CappedInductive DEF IInv
<1>2. ASSUME IInv, [Next]_vars PROVE IInv'
  BY <1>2, CappedInductive, TableStep, AdmittedStep, ServedStep, UnknownStep DEF IInv, Capped
<1> QED
  BY <1>1, <1>2

(* reads.go: what is read is the principal's, inside the subaccounts the   *)
(* credential grants, and before the credential expires, although          *)
(* verification, admission and lookup share no lock.                       *)
THEOREM ServedIsWithinGrant == Spec => []ServedWithinGrant
<1>1. IInv => ServedWithinGrant
  BY DEF IInv, Capped, PinnedInv, InScope, ServedInv, ServedWithinGrant
<1> QED
  BY <1>1, Inductive, PTL DEF Spec

(* read_tenants.go: an authorized call meets unknown-tenant only because   *)
(* its credential expired or the table was full when it was admitted.      *)
THEOREM UnknownTenantIsExplained == Spec => []UnknownTenantExplained
<1>1. IInv => UnknownTenantExplained
  BY DEF IInv
<1> QED
  BY <1>1, Inductive, PTL DEF Spec

(* read_tenants.go Admit: a tenant that has not expired stays, and stays   *)
(* its owner's.                                                            *)
THEOREM NobodyIsEvicted == Spec => NoEviction
<1> DEFINE Keeps == \A id \in DOMAIN byID : now < byID[id].expires =>
                       id \in DOMAIN byID' /\ byID'[id].owner = byID[id].owner
<1>1. ASSUME IInv, [Next]_vars PROVE [Keeps]_vars
  <2>0. TypeOK /\ TableInv
    BY <1>1 DEF IInv, Capped
  <2>1. ASSUME NEW c \in Calls, Admit(c) PROVE Keeps
    <3> SUFFICES ASSUME NEW id \in DOMAIN byID, now < byID[id].expires
                 PROVE  id \in DOMAIN byID' /\ byID'[id].owner = byID[id].owner
      OBVIOUS
    <3>1. id \in DOMAIN byID' /\ (byID'[id] = byID[id] \/ (id = req[c].id /\ byID'[id] = Entry(req[c])))
      BY <2>0, <2>1, Admitted
    <3> QED
      BY <2>0, <3>1, OwnEntry
  <2>2. ASSUME UNCHANGED byID PROVE Keeps
    BY <2>2
  <2> HIDE DEF Keeps
  <2> QED
    BY <1>1, <2>1, <2>2 DEF Next, VerifyProof, AuthorizeRead, RefuseRead, Handle, UnknownTenant, Tick,
                             Done, vars
<1>2. IInv /\ [Next]_vars => [Keeps]_vars
  BY <1>1
<1> QED
  BY <1>2, Inductive, PTL DEF Spec, NoEviction
=============================================================================
