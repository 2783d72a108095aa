----------------------------- MODULE OperatorTx -----------------------------
(***************************************************************************)
(* The operator account's transactions: every operation of                 *)
(* internal/delegated that signs with the operator key (execute and        *)
(* signAndBroadcastOwn), run concurrently, plus the one way another        *)
(* transaction of that account passes through this process                 *)
(* (agentchain.BroadcastSignedTx, for a caller that is the operator).      *)
(*                                                                         *)
(* The chain is environment.  A query is answered from committed state;    *)
(* CheckTx judges a transaction against the state its mempool leads to; a  *)
(* broadcast whose answer was lost may still be delivered afterwards.      *)
(***************************************************************************)
EXTENDS Naturals, FiniteSets

CONSTANTS
    Calls,         \* calls in flight, one goroutine each
    Requests,      \* the requests callers may send
    Principals,    \* authenticated callers
    Operator,      \* cfg.Operator
    Actions,       \* caveat actions
    Subaccounts,
    Settlements,
    NoSettlement,
    Nobody         \* seqMu is free

(* Delegated writes, the operator's own writes, and the caller-signed rail. *)
ActionOf == [execute_place_order           |-> "clob.place_order",
             execute_cancel_order          |-> "clob.cancel_order",
             execute_batch_cancel          |-> "clob.batch_cancel",
             execute_deposit_to_subaccount |-> "sending.deposit_to_subaccount",
             execute_record_spend          |-> "settlement.record_spend"]
Delegated == DOMAIN ActionOf
Own == {"agent_claim", "agent_self_register", "agent_self_update"}
CallerSigned == {"broadcast_agent_chain_tx"}

(* proofOk is verifyProof's answer, actions to settlement what the chain it *)
(* verified grants.  wellFormed folds what the builders, the per-tx limits, *)
(* ValidateBasic, ParseSettlementID and the card wiring check.  shortTerm   *)
(* is false for a cancel that carries stateful order flags.                 *)
Request == [op          : Delegated \cup Own \cup CallerSigned,
            caller      : Principals,
            proofOk     : BOOLEAN,
            actions     : SUBSET Actions,
            subaccounts : SUBSET Subaccounts,
            settlement  : Settlements \cup {NoSettlement},
            names       : Settlements \cup {NoSettlement},
            subaccount  : Subaccounts,
            shortTerm   : BOOLEAN,
            wellFormed  : BOOLEAN]

ASSUME OperatorAssumption ==
    /\ Requests \subseteq Request
    /\ Operator \in Principals
    /\ 0 \in Subaccounts
    /\ NoSettlement \notin Settlements
    /\ Nobody \notin Calls

VARIABLES
    req,        \* req[c]: the request of call c
    pc,
    seqMu,      \* who holds the mutex
    acct,       \* acct[c]: the sequence c read, and signed with
    behind,     \* history: c read it with a transaction still on its way
    outcome,    \* what c returned
    wire,       \* calls whose transaction is between this process and the node
    verdict,    \* verdict[c]: CheckTx on the transaction of c
    mempool,    \* calls whose transaction is admitted and not in a block
    mined,
    checkSeq,   \* the account's sequence in the node's CheckTx state
    committed   \* the account's sequence in the last block

chainVars == <<wire, verdict, mempool, mined, checkSeq, committed>>
vars == <<req, pc, seqMu, acct, behind, outcome, chainVars>>

TypeOK ==
    /\ req \in [Calls -> Requests]
    /\ pc \in [Calls -> {"idle", "ready", "locked", "signing", "sent", "returned"}]
    /\ seqMu \in Calls \cup {Nobody}
    /\ acct \in [Calls -> Nat]
    /\ behind \in [Calls -> BOOLEAN]
    /\ outcome \in [Calls -> {"none", "denied", "error", "ok", "badSequence", "refused"}]
    /\ wire \subseteq Calls
    /\ verdict \in [Calls -> {"none", "ok", "badSequence", "refused"}]
    /\ mempool \subseteq Calls
    /\ mined \subseteq Calls
    /\ checkSeq \in Nat
    /\ committed \in Nat

Init ==
    /\ req \in [Calls -> Requests]
    /\ pc = [c \in Calls |-> "idle"]
    /\ seqMu = Nobody
    /\ acct = [c \in Calls |-> 0]
    /\ behind = [c \in Calls |-> FALSE]
    /\ outcome = [c \in Calls |-> "none"]
    /\ wire = {}
    /\ verdict = [c \in Calls |-> "none"]
    /\ mempool = {}
    /\ mined = {}
    /\ checkSeq = 0
    /\ committed = 0

-----------------------------------------------------------------------------
(* What a call is.                                                         *)

\* The registry pins settlement messages to subaccount 0.
Target(r) == IF r.op = "execute_record_spend" THEN 0 ELSE r.subaccount

preflight(r) == ActionOf[r.op] \in r.actions /\ Target(r) \in r.subaccounts

requireOperator(r) == r.caller = Operator

(* The checks of each handler up to execute or signAndBroadcastOwn.        *)
ExecuteOrder(r) ==
    /\ r.op \in Delegated \ {"execute_record_spend"}
    /\ r.proofOk
    /\ preflight(r)
    /\ r.wellFormed

\* The credential names the order; a caller may repeat it, never change it.
ExecuteRecordSpend(r) ==
    /\ r.op = "execute_record_spend"
    /\ r.proofOk
    /\ preflight(r)
    /\ r.settlement # NoSettlement
    /\ r.names \in {NoSettlement, r.settlement}
    /\ r.wellFormed

Claim(r) == r.op = "agent_claim" /\ requireOperator(r) /\ r.wellFormed

SelfRegister(r) == r.op = "agent_self_register" /\ requireOperator(r) /\ r.wellFormed

SelfUpdate(r) == r.op = "agent_self_update" /\ requireOperator(r) /\ r.wellFormed

\* wellFormed: the transaction is signed by its caller.
BroadcastSignedTx(r) == r.op \in CallerSigned /\ r.wellFormed

Admissible(r) ==
    \/ ExecuteOrder(r) \/ ExecuteRecordSpend(r)
    \/ Claim(r) \/ SelfRegister(r) \/ SelfUpdate(r)
    \/ BroadcastSignedTx(r)

GasFreeFor(r) ==
    \/ r.op \in {"execute_place_order", "execute_batch_cancel"}
    \/ r.op = "execute_cancel_order" /\ r.shortTerm

\* Transactions that consume the operator's sequence on chain ...
Sequenced == {c \in Calls :
    /\ ~GasFreeFor(req[c])
    /\ req[c].op \in CallerSigned => req[c].caller = Operator}

\* ... and those of them signed here, under seqMu.
Serialized == {c \in Sequenced : req[c].op \notin CallerSigned}

(* Some transaction that will consume the sequence has left this process   *)
(* and is not in a block yet.                                              *)
Unmined == (wire \cup mempool) \cap Sequenced

-----------------------------------------------------------------------------
(* The call.                                                               *)

Goto(c, l) == pc' = [pc EXCEPT ![c] = l]

(* Return o; the deferred Unlock runs on every path.                       *)
Return(c, o) ==
    /\ Goto(c, "returned")
    /\ outcome' = [outcome EXCEPT ![c] = o]
    /\ seqMu' = IF seqMu = c THEN Nobody ELSE seqMu

Accept(c) ==
    /\ pc[c] = "idle"
    /\ Admissible(req[c])
    /\ Goto(c, "ready")
    /\ UNCHANGED <<req, seqMu, acct, behind, outcome, chainVars>>

\* A check failed, or a query it needs did.
Deny(c) ==
    /\ pc[c] = "idle"
    /\ Return(c, "denied")
    /\ UNCHANGED <<req, acct, behind, chainVars>>

\* Wrong on purpose: the lock is taken without waiting for it.
Lock_unheld(c) ==
    /\ pc[c] = "ready"
    /\ c \in Serialized
    /\ seqMu' = c
    /\ Goto(c, "locked")
    /\ UNCHANGED <<req, acct, behind, outcome, chainVars>>

\* seqMu.Lock: only the fee-paying transactions signed here.
Lock(c) ==
    /\ pc[c] = "ready"
    /\ c \in Serialized
    /\ seqMu = Nobody
    /\ seqMu' = c
    /\ Goto(c, "locked")
    /\ UNCHANGED <<req, acct, behind, outcome, chainVars>>

\* Wrong on purpose: the sequence of the last transaction, not the next.
Account_lastUsed(c) ==
    /\ pc[c] = IF c \in Serialized THEN "locked" ELSE "ready"
    /\ acct' = [acct EXCEPT ![c] = committed - 1]
    /\ behind' = [behind EXCEPT ![c] = Unmined # {}]
    /\ Goto(c, "signing")
    /\ UNCHANGED <<req, seqMu, outcome, chainVars>>

(* Account: the committed sequence.  For a caller-signed transaction this  *)
(* is assemble's read, some time before its broadcast.                     *)
Account(c) ==
    /\ pc[c] = IF c \in Serialized THEN "locked" ELSE "ready"
    /\ acct' = [acct EXCEPT ![c] = committed]
    /\ behind' = [behind EXCEPT ![c] = Unmined # {}]
    /\ Goto(c, "signing")
    /\ UNCHANGED <<req, seqMu, outcome, chainVars>>

(* The account could not be read, or SignTx failed.                        *)
ExecuteError(c) ==
    /\ pc[c] \in {"ready", "locked", "signing"}
    /\ pc[c] = "ready" => c \notin Serialized
    /\ Return(c, "error")
    /\ UNCHANGED <<req, acct, behind, chainVars>>

(* SignTx and BroadcastSync: the transaction is on its way.                *)
BroadcastSync(c) ==
    /\ pc[c] = "signing"
    /\ Goto(c, "sent")
    /\ wire' = wire \cup {c}
    /\ UNCHANGED <<req, seqMu, acct, behind, outcome, verdict, mempool, mined, checkSeq, committed>>

(* CheckTx's code is the result, whatever it is.                           *)
BroadcastReply(c) ==
    /\ pc[c] = "sent"
    /\ verdict[c] # "none"
    /\ Return(c, verdict[c])
    /\ UNCHANGED <<req, acct, behind, chainVars>>

\* Wrong on purpose: no deferred Unlock on the error path.
BroadcastError_holdsLock(c) ==
    /\ pc[c] = "sent"
    /\ Goto(c, "returned")
    /\ outcome' = [outcome EXCEPT ![c] = "error"]
    /\ UNCHANGED <<req, seqMu, acct, behind, chainVars>>

\* Wrong on purpose: a lost answer is reported as a refusal.
BroadcastError_asRefusal(c) ==
    /\ pc[c] = "sent"
    /\ Return(c, "refused")
    /\ UNCHANGED <<req, acct, behind, chainVars>>

(* The request or its answer was lost, or timed out: the transaction may   *)
(* have been checked, be still on its way, or never arrive.                *)
BroadcastError(c) ==
    /\ pc[c] = "sent"
    /\ Return(c, "error")
    /\ UNCHANGED <<req, acct, behind, chainVars>>

-----------------------------------------------------------------------------
(* The chain.                                                              *)

(* CheckTx: a gas-free transaction skips the sequence, any other must      *)
(* carry the next one.                                                     *)
InOrder(c) == c \in Sequenced => acct[c] = checkSeq

CheckTx(c) ==
    /\ c \in wire
    /\ InOrder(c)
    /\ wire' = wire \ {c}
    /\ verdict' = [verdict EXCEPT ![c] = "ok"]
    /\ mempool' = mempool \cup {c}
    /\ checkSeq' = IF c \in Sequenced THEN checkSeq + 1 ELSE checkSeq
    /\ UNCHANGED <<req, pc, seqMu, acct, behind, outcome, mined, committed>>

(* It is refused for its sequence, or for any other reason (fee, budget,   *)
(* a revoked delegation).                                                  *)
CheckTxFails(c) ==
    /\ c \in wire
    /\ wire' = wire \ {c}
    /\ verdict' = [verdict EXCEPT ![c] = IF InOrder(c) THEN "refused" ELSE "badSequence"]
    /\ UNCHANGED <<req, pc, seqMu, acct, behind, outcome, mempool, mined, checkSeq, committed>>

Lose(c) ==
    /\ c \in wire
    /\ wire' = wire \ {c}
    /\ UNCHANGED <<req, pc, seqMu, acct, behind, outcome, verdict, mempool, mined, checkSeq, committed>>

(* A block takes c from the mempool, in the order of the sequence.         *)
Mine(c) ==
    /\ c \in mempool
    /\ c \in Sequenced => acct[c] = committed
    /\ mempool' = mempool \ {c}
    /\ mined' = mined \cup {c}
    /\ committed' = IF c \in Sequenced THEN committed + 1 ELSE committed
    /\ UNCHANGED <<req, pc, seqMu, acct, behind, outcome, wire, verdict, checkSeq>>

execute(c) ==
    \/ Accept(c) \/ Deny(c) \/ Lock(c) \/ Account(c) \/ ExecuteError(c)
    \/ BroadcastSync(c) \/ BroadcastReply(c) \/ BroadcastError(c)

Done ==
    /\ \A c \in Calls : pc[c] = "returned"
    /\ wire = {} /\ mempool = {}
    /\ UNCHANGED vars

Next ==
    \/ \E c \in Calls : execute(c) \/ CheckTx(c) \/ CheckTxFails(c) \/ Lose(c) \/ Mine(c)
    \/ Done

(* Goroutines are scheduled and requests end; nothing is asked of the      *)
(* chain, which may answer nothing and mine nothing.                       *)
Fairness == \A c \in Calls : WF_vars(execute(c))

Spec == Init /\ [][Next]_vars

FairSpec == Spec /\ Fairness

-----------------------------------------------------------------------------
(* Properties.                                                             *)

(* seqMu does what a lock can do: a transaction signed here is refused for *)
(* its sequence only if another one was already on its way when the        *)
(* account was read, or one signed elsewhere with the same key came in     *)
(* between.  Two calls of this process never sign the same sequence        *)
(* because of each other's timing alone.                                   *)
RefusalHasACause ==
    \A c \in Serialized : outcome[c] = "badSequence" =>
        \/ behind[c]
        \/ \E d \in Calls : req[d].op \in CallerSigned /\ pc[d] \in {"sent", "returned"}

(* What a caller is told is safe to act on: after ok the transaction is    *)
(* admitted, after a refusal (a CheckTx code) it will never land and the   *)
(* call may be repeated, after a denial nothing was signed.  Only an error *)
(* leaves the caller in doubt.                                             *)
OutcomeIsTrue ==
    \A c \in Calls :
        /\ outcome[c] = "ok" => c \in mempool \cup mined
        /\ outcome[c] \in {"badSequence", "refused", "denied"} => c \notin wire \cup mempool \cup mined

(* The comment in execute: "serialize so concurrent executes don't race    *)
(* [the operator's account sequence]".  When every transaction of the      *)
(* account is signed here and every broadcast is answered, no call that    *)
(* takes seqMu is refused for its sequence.                                *)
ExecutesDontRace ==
    (\A d \in Calls : req[d].op \notin CallerSigned /\ outcome[d] # "error") =>
        \A c \in Serialized : outcome[c] # "badSequence"

(* Every call returns, whoever holds the lock and however its broadcast    *)
(* ends.                                                                   *)
EveryCallReturns == \A c \in Calls : pc[c] # "idle" ~> pc[c] = "returned"
=============================================================================
