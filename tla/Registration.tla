---------------------------- MODULE Registration ----------------------------
(***************************************************************************)
(* The agent's own record in the chain's registry (internal/delegated:     *)
(* SetCapabilityCard, Identity, SelfRegister, SelfUpdate): it carries the  *)
(* hash of the card a deployment serves, and every deployment serves a     *)
(* card of its own.  A redeploy stops the process; what it broadcast stays *)
(* on its way.                                                             *)
(*                                                                         *)
(* The operator works as the comments tell: it updates after a deploy, and *)
(* otherwise asks agent_identity and does what the answer calls for, from  *)
(* several sessions at once.  A card is its deployment's number.           *)
(***************************************************************************)
EXTENDS Naturals, FiniteSets

CONSTANTS
    Sessions,   \* concurrent callers, authenticated as the operator
    MaxDeploy,  \* bound: the last deployment
    MaxSeq,     \* bound: transactions of the operator
    MaxFaults   \* bound: failed queries, lost requests, calls that time out

ASSUME RegistrationAssumption ==
    /\ MaxDeploy \in Nat \ {0}
    /\ MaxSeq \in Nat
    /\ MaxFaults \in Nat

NoHash == 0   \* no card; in a record, one of before the first deployment
Unlocked == "unlocked"

VARIABLES
    wired,      \* the wiring hands the service the served card
    deploy,     \* the deployment that is running, and the card it serves
    cardHash,
    pc,
    knows,      \* what the session's operator goes by
    tx,         \* tx[s]: the transaction the session signed
    seqMu,
    reply,      \* reply[s]: CheckTx's while s waits for it
    record,     \* the registry's record of the agent
    wire,
    mempool,
    checkSeq, committed,
    faults

callVars == <<pc, tx, seqMu, reply>>
chainVars == <<record, wire, mempool, checkSeq, committed>>
vars == <<wired, deploy, cardHash, callVars, knows, chainVars, faults>>

Hashes == NoHash .. MaxDeploy
Tx == [kind : {"register", "update"}, hash : Hashes, seq : 0 .. MaxSeq]
NoTx == [kind |-> "none", hash |-> NoHash, seq |-> 0]

NoRecord == [owner |-> "none", hash |-> NoHash]
Record == {NoRecord} \cup [owner : {"operator", "other"}, hash : Hashes]

TypeOK ==
    /\ wired \in BOOLEAN
    /\ deploy \in 1 .. MaxDeploy
    /\ cardHash \in Hashes
    /\ pc \in [Sessions -> {"idle", "ready", "locked", "sent"}]
    /\ knows \in [Sessions -> {"nothing", "unregistered", "mismatch"}]
    /\ tx \in [Sessions -> Tx \cup {NoTx}]
    /\ seqMu \in Sessions \cup {Unlocked}
    /\ reply \in [Sessions -> {"none", "ok", "refused"}]
    /\ record \in Record
    /\ wire \subseteq Tx /\ mempool \subseteq Tx
    /\ checkSeq \in 0 .. MaxSeq /\ committed \in 0 .. MaxSeq
    /\ faults \in 0 .. MaxFaults

\* The agent is new, or registered before by itself or by another owner.
Init ==
    /\ wired \in BOOLEAN
    /\ deploy = 1
    /\ cardHash = IF wired THEN 1 ELSE NoHash
    /\ pc = [s \in Sessions |-> "idle"]
    /\ knows = [s \in Sessions |-> "nothing"]
    /\ tx = [s \in Sessions |-> NoTx]
    /\ seqMu = Unlocked
    /\ reply = [s \in Sessions |-> "none"]
    /\ record \in Record /\ record.hash = NoHash
    /\ wire = {} /\ mempool = {}
    /\ checkSeq = 0 /\ committed = 0
    /\ faults = 0

Fault == faults < MaxFaults /\ faults' = faults + 1

Goto(s, label) == pc' = [pc EXCEPT ![s] = label]
Know(s, k) == knows' = [knows EXCEPT ![s] = k]

-----------------------------------------------------------------------------
(* A deployment.                                                           *)

\* Wrong on purpose: the process that is replaced goes on with its calls.
SetCapabilityCard_rolling ==
    /\ deploy < MaxDeploy
    /\ deploy' = deploy + 1
    /\ cardHash' = IF wired THEN deploy + 1 ELSE NoHash
    /\ knows' = [s \in Sessions |-> "mismatch"]
    /\ UNCHANGED <<wired, callVars, chainVars, faults>>

(* The process stops, a new one is wired with its own card; the operator   *)
(* knows that the card has changed.                                        *)
SetCapabilityCard ==
    /\ deploy < MaxDeploy
    /\ deploy' = deploy + 1
    /\ cardHash' = IF wired THEN deploy + 1 ELSE NoHash
    /\ pc' = [s \in Sessions |-> "idle"]
    /\ knows' = [s \in Sessions |-> "mismatch"]
    /\ tx' = [s \in Sessions |-> NoTx]
    /\ seqMu' = Unlocked
    /\ reply' = [s \in Sessions |-> "none"]
    /\ UNCHANGED <<wired, chainVars, faults>>

-----------------------------------------------------------------------------
(* agent_identity.                                                         *)

\* Wrong on purpose: any published hash is taken for the served card's.
IdentityOutput_anyCard(found) ==
    [registered |-> found # NoRecord, matches |-> found # NoRecord /\ cardHash # NoHash]

IdentityOutput(found) ==
    LET registered == found # NoRecord
        matches    == registered /\ cardHash # NoHash /\ found.hash = cardHash
    IN  [registered |-> registered, matches |-> matches]

CallsFor(out) ==
    IF ~out.registered THEN "unregistered" ELSE IF out.matches THEN "nothing" ELSE "mismatch"

\* An error of the query is answered as unregistered.
Identity(s) ==
    /\ pc[s] = "idle" /\ knows[s] = "nothing"
    /\ \E found \in {record, NoRecord} :
          /\ IF found = record THEN UNCHANGED faults ELSE Fault
          /\ Know(s, CallsFor(IdentityOutput(found)))
    /\ UNCHANGED <<wired, deploy, cardHash, callVars, chainVars>>

-----------------------------------------------------------------------------
(* agent_self_register and agent_self_update.                              *)

\* Wrong on purpose: the hash of other bytes than the served ones.
capabilityHash_otherBytes == [ok |-> cardHash # NoHash, hash |-> cardHash + 1]

capabilityHash == [ok |-> cardHash # NoHash, hash |-> cardHash]

Publish(s, kind, hash) ==
    /\ pc[s] = "idle"
    /\ capabilityHash.ok
    /\ Goto(s, "ready")
    /\ tx' = [tx EXCEPT ![s] = [kind |-> kind, hash |-> hash, seq |-> 0]]
    /\ UNCHANGED <<wired, deploy, cardHash, knows, seqMu, reply, chainVars, faults>>

SelfRegister(s) == knows[s] = "unregistered" /\ Publish(s, "register", capabilityHash.hash)

SelfUpdate(s) == knows[s] = "mismatch" /\ Publish(s, "update", capabilityHash.hash)

\* The bond's params query or the message's validation fails, or no card is wired.
Refuse(s) ==
    /\ pc[s] = "idle" /\ knows[s] # "nothing"
    /\ IF capabilityHash.ok THEN Fault ELSE UNCHANGED faults
    /\ Know(s, "nothing")
    /\ UNCHANGED <<wired, deploy, cardHash, callVars, chainVars>>

-----------------------------------------------------------------------------
(* signAndBroadcastOwn, under seqMu.                                       *)

Account(s) ==
    /\ pc[s] = "ready" /\ seqMu = Unlocked
    /\ seqMu' = s
    /\ tx' = [tx EXCEPT ![s].seq = committed]
    /\ Goto(s, "locked")
    /\ UNCHANGED <<wired, deploy, cardHash, knows, reply, chainVars, faults>>

BroadcastSync(s) ==
    /\ pc[s] = "locked"
    /\ wire' = wire \cup {tx[s]}
    /\ reply' = [reply EXCEPT ![s] = "none"]
    /\ Goto(s, "sent")
    /\ UNCHANGED <<wired, deploy, cardHash, knows, tx, seqMu, record, mempool, checkSeq, committed, faults>>

\* The call ends, and with it what the operator went by.
Return(s) ==
    /\ seqMu' = Unlocked
    /\ tx' = [tx EXCEPT ![s] = NoTx]
    /\ reply' = [reply EXCEPT ![s] = "none"]
    /\ Goto(s, "idle")
    /\ Know(s, "nothing")
    /\ UNCHANGED <<wired, deploy, cardHash, chainVars>>

BroadcastReply(s) ==
    /\ pc[s] = "sent" /\ reply[s] # "none"
    /\ Return(s)
    /\ UNCHANGED faults

(* The account query failed, or the broadcast: it was lost, or is too slow *)
(* and still out.                                                          *)
CallError(s) ==
    /\ pc[s] \in {"locked", "sent"}
    /\ IF pc[s] = "sent" /\ reply[s] = "none" /\ tx[s] \notin wire THEN UNCHANGED faults ELSE Fault
    /\ Return(s)

-----------------------------------------------------------------------------
(* The chain.                                                              *)

Answered(t, v) ==
    reply' = [s \in Sessions |-> IF pc[s] = "sent" /\ tx[s] = t THEN v ELSE reply[s]]

CheckTx(t) ==
    /\ t \in wire
    /\ wire' = wire \ {t}
    /\ IF t.seq = checkSeq /\ checkSeq < MaxSeq
       THEN /\ mempool' = mempool \cup {t}
            /\ checkSeq' = checkSeq + 1
            /\ Answered(t, "ok")
       ELSE /\ Answered(t, "refused")
            /\ UNCHANGED <<mempool, checkSeq>>
    /\ UNCHANGED <<wired, deploy, cardHash, pc, knows, tx, seqMu, record, committed, faults>>

\* x/agent: one registration for an operator; only its owner updates it.
Deliver(t) ==
    IF t.kind = "register" /\ record = NoRecord THEN [owner |-> "operator", hash |-> t.hash]
    ELSE IF t.kind = "update" /\ record.owner = "operator" THEN [record EXCEPT !.hash = t.hash]
    ELSE record

Mine(t) ==
    /\ t \in mempool /\ t.seq = committed
    /\ mempool' = mempool \ {t}
    /\ committed' = committed + 1
    /\ record' = Deliver(t)
    /\ UNCHANGED <<wired, deploy, cardHash, callVars, knows, wire, checkSeq, faults>>

Lose(t) ==
    /\ t \in wire
    /\ Fault
    /\ wire' = wire \ {t}
    /\ UNCHANGED <<wired, deploy, cardHash, callVars, knows, record, mempool, checkSeq, committed>>

Call(s) ==
    \/ Identity(s) \/ SelfRegister(s) \/ SelfUpdate(s) \/ Refuse(s)
    \/ Account(s) \/ BroadcastSync(s) \/ BroadcastReply(s) \/ CallError(s)

Next ==
    \/ SetCapabilityCard
    \/ \E s \in Sessions : Call(s)
    \/ \E t \in wire : CheckTx(t) \/ Lose(t)
    \/ \E t \in mempool : Mine(t)

Spec == Init /\ [][Next]_vars

(* The operator keeps working, seqMu is handed to whoever keeps waiting    *)
(* (Go's mutex does not starve), a call times out, and the chain goes on.  *)
Fairness ==
    /\ \A s \in Sessions :
          /\ WF_vars(Identity(s)) /\ WF_vars(SelfRegister(s) \/ SelfUpdate(s))
          /\ SF_vars(Account(s)) /\ WF_vars(BroadcastSync(s))
          /\ WF_vars(BroadcastReply(s)) /\ WF_vars(CallError(s))
    /\ WF_vars(\E t \in wire : CheckTx(t))
    /\ WF_vars(\E t \in mempool : Mine(t))

FairSpec == Spec /\ Fairness

-----------------------------------------------------------------------------
(* Properties.                                                             *)

(* The record never goes back to an older deployment's card, although an   *)
(* update may be broadcast by one deployment and land under the next: both *)
(* sign the committed sequence, so the older one lands first or never.     *)
(* And a service that was never handed its card leaves the record as it is.*)
NoOlderCard ==
    [][/\ record # NoRecord => record'.hash >= record.hash
       /\ ~wired => UNCHANGED record]_vars

(* "when the two differ, verifiers flag the agent as unverified and        *)
(* agent_self_update repairs it": after the last deployment a wired agent  *)
(* is registered and, unless somebody else owns the record, its hash is    *)
(* that of the card being served.                                          *)
Verified == record # NoRecord /\ (record.owner = "operator" => record.hash = deploy)

EventuallyVerified == <>[](wired => Verified)
=============================================================================
