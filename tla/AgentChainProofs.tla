-------------------------- MODULE AgentChainProofs --------------------------
(***************************************************************************)
(* Caller-signed transactions, for any number of operations, accounts,     *)
(* tenants and retries: what a tenant lands is its owner's, a refusal is   *)
(* final, and a sequence is refused for a cause.                           *)
(*                                                                         *)
(* Nobody holds a lock here: between the account read of assemble and the  *)
(* CheckTx of what was signed lies the client.  The invariant follows one  *)
(* operation over that gap: its sequence stays the account's next as long  *)
(* as no rival was on its way or came in (NextInv), and as long as no      *)
(* broadcast ended in doubt there is one copy of it (OnceInv).             *)
(***************************************************************************)
EXTENDS AgentChain, TLAPS

Begun == {"building", "built", "signed", "cleared", "sent"}

\* What an operation has done by where it is.
CallInv ==
    \A o \in Ops :
        /\ pc[o] \in {"idle", "building", "built"} => sends[o] = 0
        /\ pc[o] \in {"signed", "cleared"} => sends[o] < MaxSends
        /\ pc[o] = "sent" => sends[o] > 0
        /\ (outcome[o] # "none") <=> (pc[o] = "ended")
        /\ outcome[o] = "error" /\ sends[o] > 0 => doubt[o]
        /\ outcome[o] \in {"refused", "badSequence"} => verdict[o] = outcome[o]
        /\ sends[o] = 0 => verdict[o] = "none"

\* Whose an operation is, from the tenant check on, and what it declares, from
\* the pin on.
PinInv ==
    \A o \in Ops :
        /\ pc[o] \in Begun \/ sends[o] > 0 => owner[o] \in Accounts
        /\ pc[o] \in {"cleared", "sent"} \/ sends[o] > 0 =>
              req[o].via \in TenantIds /\ req[o].declared = Owner[req[o].via]

\* The chain took only what is authentic.
TakenInv == \A o \in mempool \cup mined : Authentic(o)

\* Only what was sent is on its way.
SentInv == \A o \in Ops : Landing(o) => sends[o] > 0

\* Without a doubt there was one broadcast, and its verdict tells where the
\* transaction is.
OnceInv ==
    \A o \in Ops : ~doubt[o] =>
        /\ pc[o] \notin {"sent", "ended"} => sends[o] = 0
        /\ \A n \in 1 .. MaxSends : <<o, n>> \in wire =>
              pc[o] = "sent" /\ n = sends[o] /\ verdict[o] = "none" /\ o \notin mempool \cup mined
        /\ verdict[o] \in {"refused", "badSequence"} => o \notin mempool \cup mined

\* Between an account's committed and checked sequence lies the mempool.
SeqInv ==
    /\ \A o \in mempool : seq[o] < checkSeq[owner[o]]
    /\ \A a \in Accounts :
          /\ committed[a] <= checkSeq[a]
          /\ \A n \in Nat : committed[a] <= n /\ n < checkSeq[a] =>
                \E o \in mempool : owner[o] = a /\ seq[o] = n

\* Without a rival or a doubt, what was built is the account's next.
NextInv ==
    \A o \in Ops : pc[o] \in {"built", "signed", "cleared", "sent"} /\ ~rival[o] /\ ~doubt[o] =>
        /\ verdict[o] = "none" => seq[o] = checkSeq[owner[o]]
        /\ verdict[o] # "badSequence"

IInv ==
    TypeOK /\ CallInv /\ PinInv /\ SentInv /\ TakenInv /\ OnceInv /\ SeqInv /\ NextInv
    /\ BadSequenceExplained

-----------------------------------------------------------------------------

(* A tenant that authorize passes is a known one, and its policy names the *)
(* owner it was issued to.                                                 *)
LEMMA Authorized ==
    ASSUME NEW id, authorize(id)
    PROVE  /\ id \in TenantIds
           /\ LookupTenantPolicy(id).owner = Owner[id] /\ Owner[id] \in Accounts
<1>1. LookupTenantPolicy(id).ok /\ ~LookupTenantPolicy(id).killSwitch
  BY DEF authorize
<1>2. CASE id \in BearerIds /\ bearers[id] # "gone"
  <2>1. LookupTenantPolicy(id).owner = Owner[id]
    BY <1>2 DEF LookupTenantPolicy
  <2> QED
    BY <1>1, <1>2, <2>1, AgentChainAssumption DEF TenantIds
<1>3. CASE ~(id \in BearerIds /\ bearers[id] # "gone") /\ id \in ReadIds /\ readers[id] = "live"
  <2>1. LookupTenantPolicy(id).owner = Owner[id]
    BY <1>3 DEF LookupTenantPolicy
  <2> QED
    BY <1>1, <1>3, <2>1, AgentChainAssumption DEF TenantIds
<1>4. CASE /\ ~(id \in BearerIds /\ bearers[id] # "gone")
           /\ ~(id \in ReadIds /\ readers[id] = "live")
  <2>1. LookupTenantPolicy(id).ok = FALSE
    BY <1>4 DEF LookupTenantPolicy
  <2> QED
    BY <1>1, <2>1
<1> QED
  BY <1>2, <1>3, <1>4

(* What is on its way or mined has an account.                             *)
LEMMA OwnAccount ==
    ASSUME PinInv, SentInv, NEW o \in Ops, Landing(o)
    PROVE  owner[o] \in Accounts
BY DEF PinInv, SentInv

(* Once an operation is on its way its owner stays.                        *)
LEMMA SameOwner ==
    ASSUME IInv, [Next]_vars, NEW o \in Ops, pc[o] # "idle" \/ Landing(o)
    PROVE  owner'[o] = owner[o]
<1>1. pc[o] # "idle"
  BY DEF IInv, SentInv, CallInv
<1>2. ASSUME NEW d \in Ops, Begin(d) PROVE owner'[o] = owner[o]
  BY <1>1, <1>2 DEF IInv, TypeOK, Begin
<1> QED
  BY <1>2 DEF Next, vars, callVars, Serve, BeginDenied, Query, assemble, AssembleError, Sign,
              BroadcastCleared, BroadcastDenied, BroadcastSync, BroadcastReply, BroadcastError,
              Retry, CheckTx, CheckTxFails, Lose, Mine, TenantEnds, Done

(* The requests stay.                                                      *)
LEMMA SameRequests == ASSUME [Next]_vars PROVE req' = req
BY DEF Next, vars, callVars, Serve, Begin, BeginDenied, Query, assemble, AssembleError, Sign,
       BroadcastCleared, BroadcastDenied, BroadcastSync, BroadcastReply, BroadcastError, Retry,
       CheckTx, CheckTxFails, Lose, Mine, TenantEnds, Done

(* No step leaves the types of the variables.                              *)
LEMMA TypeStep == ASSUME IInv, [Next]_vars PROVE TypeOK'
<1>0. TypeOK /\ CallInv /\ PinInv /\ SentInv /\ MaxSends \in Nat
  BY AgentChainAssumption DEF IInv
<1> USE DEF Goto, End, tenantVars, callVars, chainVars, NoOwner
<1>1. ASSUME NEW o \in Ops, Begin(o) PROVE TypeOK'
  <2>1. LookupTenantPolicy(req[o].tenant).owner \in Accounts
    BY <1>1, Authorized DEF Begin
  <2> QED
    BY <1>0, <1>1, <2>1 DEF Begin, TypeOK
<1>2. ASSUME NEW o \in Ops, BeginDenied(o) \/ AssembleError(o) \/ BroadcastDenied(o) PROVE TypeOK'
  BY <1>0, <1>2 DEF BeginDenied, AssembleError, BroadcastDenied, TypeOK
<1>3. ASSUME NEW o \in Ops, Query(o) PROVE TypeOK'
  BY <1>0, <1>3 DEF Query, TypeOK
<1>4. ASSUME NEW o \in Ops, assemble(o) PROVE TypeOK'
  <2>1. owner[o] \in Accounts
    BY <1>0, <1>4 DEF assemble, PinInv, Begun
  <2>2. committed[owner[o]] \in Nat
    BY <1>0, <2>1 DEF TypeOK
  <2> QED
    BY <1>0, <1>4, <2>2 DEF assemble, TypeOK
<1>5. ASSUME NEW o \in Ops, Sign(o) \/ Retry(o) PROVE TypeOK'
  BY <1>0, <1>5 DEF Sign, Retry, TypeOK
<1>6. ASSUME NEW o \in Ops, BroadcastCleared(o) PROVE TypeOK'
  BY <1>0, <1>6 DEF BroadcastCleared, TypeOK
<1>7. ASSUME NEW o \in Ops, BroadcastSync(o) PROVE TypeOK'
  <2>1. sends[o] \in 0 .. MaxSends /\ sends[o] < MaxSends
    BY <1>0, <1>7 DEF BroadcastSync, TypeOK, CallInv
  <2>2. sends[o] + 1 \in 1 .. MaxSends
    BY <1>0, <2>1
  <2> QED
    BY <1>0, <1>7, <2>2 DEF BroadcastSync, TypeOK
<1>8. ASSUME NEW o \in Ops, BroadcastReply(o) PROVE TypeOK'
  BY <1>0, <1>8 DEF BroadcastReply, TypeOK
<1>9. ASSUME NEW o \in Ops, BroadcastError(o) PROVE TypeOK'
  BY <1>0, <1>9 DEF BroadcastError, TypeOK
<1>10. ASSUME NEW o \in Ops, NEW n \in 1 .. MaxSends, CheckTx(o, n) PROVE TypeOK'
  <2>1. owner[o] \in Accounts
    BY <1>0, <1>10, OwnAccount DEF CheckTx, Landing, OnItsWay
  <2>2. checkSeq' \in [Accounts -> Nat]
    BY <1>0, <1>10, <2>1 DEF CheckTx, TypeOK
  <2>3. rival' \in [Ops -> BOOLEAN]
    BY <1>0, <1>10 DEF CheckTx, TypeOK
  <2>4. verdict' \in [Ops -> {"none", "ok", "badSequence", "refused"}]
    BY <1>0, <1>10 DEF CheckTx, Answered, TypeOK
  <2> QED
    BY <1>0, <1>10, <2>2, <2>3, <2>4 DEF CheckTx, TypeOK
<1>11. ASSUME NEW o \in Ops, NEW n \in 1 .. MaxSends, CheckTxFails(o, n) PROVE TypeOK'
  <2>1. verdict' \in [Ops -> {"none", "ok", "badSequence", "refused"}]
    BY <1>0, <1>11 DEF CheckTxFails, Answered, TypeOK
  <2> QED
    BY <1>0, <1>11, <2>1 DEF CheckTxFails, TypeOK
<1>12. ASSUME NEW o \in Ops, NEW n \in 1 .. MaxSends, Lose(o, n) PROVE TypeOK'
  BY <1>0, <1>12 DEF Lose, TypeOK
<1>13. ASSUME NEW o \in Ops, Mine(o) PROVE TypeOK'
  <2>1. owner[o] \in Accounts
    BY <1>0, <1>13, OwnAccount DEF Mine, Landing, OnItsWay
  <2> QED
    BY <1>0, <1>13, <2>1 DEF Mine, TypeOK
<1>14. ASSUME NEW id \in TenantIds, TenantEnds(id) PROVE TypeOK'
  BY <1>0, <1>14 DEF TenantEnds, TypeOK
<1>15. ASSUME UNCHANGED vars PROVE TypeOK'
  BY <1>0, <1>15 DEF vars, TypeOK
<1> QED
  BY <1>1, <1>2, <1>3, <1>4, <1>5, <1>6, <1>7, <1>8, <1>9, <1>10, <1>11, <1>12, <1>13, <1>14, <1>15
     DEF Next, Serve, Done

(* An operation's own record stays consistent.                             *)
LEMMA CallStep == ASSUME IInv, [Next]_vars PROVE CallInv'
<1>0. TypeOK /\ CallInv /\ MaxSends \in Nat \ {0} /\ \A o \in Ops : sends[o] \in Nat
  BY AgentChainAssumption DEF IInv, TypeOK
<1> USE DEF Goto, End, tenantVars, callVars, chainVars, CallInv
<1>1. ASSUME NEW o \in Ops, Begin(o) PROVE CallInv'
  BY <1>0, <1>1 DEF Begin, TypeOK
<1>2. ASSUME NEW o \in Ops, BeginDenied(o) \/ AssembleError(o) \/ BroadcastDenied(o) PROVE CallInv'
  BY <1>0, <1>2 DEF BeginDenied, AssembleError, BroadcastDenied, TypeOK
<1>3. ASSUME NEW o \in Ops, Query(o) PROVE CallInv'
  BY <1>0, <1>3 DEF Query, TypeOK
<1>4. ASSUME NEW o \in Ops, assemble(o) PROVE CallInv'
  BY <1>0, <1>4 DEF assemble, TypeOK
<1>5. ASSUME NEW o \in Ops, Sign(o) PROVE CallInv'
  BY <1>0, <1>5 DEF Sign, TypeOK
<1>6. ASSUME NEW o \in Ops, Retry(o) PROVE CallInv'
  BY <1>0, <1>6 DEF Retry, TypeOK
<1>7. ASSUME NEW o \in Ops, BroadcastCleared(o) PROVE CallInv'
  BY <1>0, <1>7 DEF BroadcastCleared, TypeOK
<1>8. ASSUME NEW o \in Ops, BroadcastSync(o) PROVE CallInv'
  BY <1>0, <1>8 DEF BroadcastSync, TypeOK
<1>9. ASSUME NEW o \in Ops, BroadcastReply(o) PROVE CallInv'
  BY <1>0, <1>9 DEF BroadcastReply, TypeOK
<1>10. ASSUME NEW o \in Ops, BroadcastError(o) PROVE CallInv'
  BY <1>0, <1>10 DEF BroadcastError, TypeOK
<1>11. ASSUME NEW o \in Ops, NEW n, NEW v, Answered(o, n, v),
              UNCHANGED <<pc, sends, outcome, doubt>>
       PROVE  CallInv'
  <2>1. \A d \in Ops : verdict'[d] = verdict[d] \/ (d = o /\ pc[o] = "sent")
    BY <1>0, <1>11 DEF Answered, TypeOK
  <2> QED
    BY <1>0, <1>11, <2>1
<1>12. ASSUME NEW o \in Ops, NEW n, CheckTx(o, n) \/ CheckTxFails(o, n) PROVE CallInv'
  <2>1. UNCHANGED <<pc, sends, outcome, doubt>> /\ \E v : Answered(o, n, v)
    BY <1>12 DEF CheckTx, CheckTxFails
  <2> QED
    BY <1>11, <2>1
<1>13. ASSUME UNCHANGED <<pc, sends, outcome, doubt, verdict>> PROVE CallInv'
  BY <1>0, <1>13
<1>14. ASSUME (\E o \in Ops : Mine(o)) \/ (\E o \in Ops, n \in 1 .. MaxSends : Lose(o, n))
              \/ (\E id \in TenantIds : TenantEnds(id)) \/ UNCHANGED vars
       PROVE  UNCHANGED <<pc, sends, outcome, doubt, verdict>>
  BY <1>14 DEF Mine, Lose, TenantEnds, vars
<1> QED
  BY <1>1, <1>2, <1>3, <1>4, <1>5, <1>6, <1>7, <1>8, <1>9, <1>10, <1>12, <1>13, <1>14
     DEF Next, Serve, Done

(* No step changes whose an operation is.                                  *)
LEMMA PinStep == ASSUME IInv, [Next]_vars PROVE PinInv'
<1>0. TypeOK /\ CallInv /\ PinInv /\ req' = req /\ \A o \in Ops : sends[o] \in Nat
  BY SameRequests, AgentChainAssumption DEF IInv, TypeOK
<1> USE DEF Goto, End, tenantVars, callVars, chainVars, Begun
<1>1. ASSUME NEW o \in Ops, Begin(o) PROVE PinInv'
  <2>1. /\ owner'[o] \in Accounts /\ pc'[o] = "building" /\ sends'[o] = 0
        /\ \A d \in Ops : d # o => pc'[d] = pc[d] /\ owner'[d] = owner[d] /\ sends'[d] = sends[d]
    BY <1>0, <1>1, Authorized DEF Begin, TypeOK, CallInv
  <2> QED
    BY <1>0, <2>1 DEF PinInv
<1>2. ASSUME NEW o \in Ops, BroadcastCleared(o) PROVE PinInv'
  <2>1. req[o].via \in TenantIds /\ req[o].declared = Owner[req[o].via]
    BY <1>2, Authorized DEF BroadcastCleared, signerPinned
  <2>2. /\ pc[o] = "signed" /\ UNCHANGED <<owner, sends>>
        /\ \A d \in Ops : pc'[d] = IF d = o THEN "cleared" ELSE pc[d]
    BY <1>0, <1>2 DEF BroadcastCleared, TypeOK
  <2> QED
    BY <1>0, <2>1, <2>2 DEF PinInv
<1>3. ASSUME UNCHANGED owner,
             \A d \in Ops :
                /\ pc'[d] \in Begun => pc[d] \in Begun \/ sends[d] > 0
                /\ pc'[d] \in {"cleared", "sent"} => pc[d] \in {"cleared", "sent"}
                /\ sends'[d] > 0 => sends[d] > 0 \/ pc[d] = "cleared"
      PROVE  PinInv'
  BY <1>0, <1>3 DEF PinInv
<1>4. ASSUME NEW o \in Ops, BeginDenied(o) \/ Query(o) \/ assemble(o) \/ AssembleError(o) \/ Sign(o)
             \/ BroadcastDenied(o) \/ BroadcastReply(o) \/ BroadcastError(o)
      PROVE  PinInv'
  <2>1. /\ UNCHANGED <<owner, sends>>
        /\ \A d \in Ops : pc'[d] \in Begun => pc[d] \in Begun
        /\ \A d \in Ops : pc'[d] \in {"cleared", "sent"} => pc[d] \in {"cleared", "sent"}
    BY <1>0, <1>4 DEF BeginDenied, Query, assemble, AssembleError, Sign, BroadcastDenied,
                      BroadcastReply, BroadcastError, TypeOK
  <2> QED
    BY <1>3, <2>1
<1>5. ASSUME NEW o \in Ops, BroadcastSync(o) \/ Retry(o) PROVE PinInv'
  <2>1. /\ UNCHANGED owner
        /\ \A d \in Ops :
              /\ pc'[d] \in Begun => pc[d] \in Begun \/ sends[d] > 0
              /\ pc'[d] \in {"cleared", "sent"} => pc[d] \in {"cleared", "sent"}
              /\ sends'[d] > 0 => sends[d] > 0 \/ pc[d] = "cleared"
    BY <1>0, <1>5 DEF BroadcastSync, Retry, TypeOK
  <2> QED
    BY <1>3, <2>1
<1>6. ASSUME UNCHANGED <<owner, pc, sends>> PROVE PinInv'
  BY <1>3, <1>6
<1>7. ASSUME (\E o \in Ops : Mine(o))
             \/ (\E o \in Ops, n \in 1 .. MaxSends : CheckTx(o, n) \/ CheckTxFails(o, n) \/ Lose(o, n))
             \/ (\E id \in TenantIds : TenantEnds(id)) \/ UNCHANGED vars
      PROVE  UNCHANGED <<owner, pc, sends>>
  BY <1>7 DEF Mine, CheckTx, CheckTxFails, Lose, TenantEnds, vars
<1> QED
  BY <1>1, <1>2, <1>4, <1>5, <1>6, <1>7 DEF Next, Serve, Done

(* Nothing is on its way that was not sent.                                *)
LEMMA SentStep == ASSUME IInv, [Next]_vars PROVE SentInv'
<1>0. TypeOK /\ SentInv /\ \A o \in Ops : sends[o] \in Nat
  BY AgentChainAssumption DEF IInv, TypeOK
<1> USE DEF SentInv, Landing, OnItsWay, tenantVars, callVars, chainVars
<1>1. ASSUME NEW o \in Ops, BroadcastSync(o) PROVE SentInv'
  BY <1>0, <1>1 DEF BroadcastSync, TypeOK
<1>2. ASSUME NEW o \in Ops, NEW n \in 1 .. MaxSends, CheckTx(o, n) PROVE SentInv'
  BY <1>0, <1>2 DEF CheckTx
<1>3. ASSUME NEW o \in Ops, NEW n \in 1 .. MaxSends, CheckTxFails(o, n) \/ Lose(o, n) PROVE SentInv'
  BY <1>0, <1>3 DEF CheckTxFails, Lose
<1>4. ASSUME NEW o \in Ops, Mine(o) PROVE SentInv'
  BY <1>0, <1>4 DEF Mine
<1>5. ASSUME UNCHANGED <<sends, wire, mempool, mined>> PROVE SentInv'
  BY <1>0, <1>5
<1>6. ASSUME NEW o \in Ops, Begin(o) \/ BeginDenied(o) \/ Query(o) \/ assemble(o) \/ AssembleError(o)
             \/ Sign(o) \/ Retry(o) \/ BroadcastCleared(o) \/ BroadcastDenied(o) \/ BroadcastReply(o)
             \/ BroadcastError(o)
      PROVE  UNCHANGED <<sends, wire, mempool, mined>>
  BY <1>6 DEF Begin, BeginDenied, Query, assemble, AssembleError, Sign, Retry, BroadcastCleared,
              BroadcastDenied, BroadcastReply, BroadcastError
<1>7. ASSUME (\E id \in TenantIds : TenantEnds(id)) \/ UNCHANGED vars
      PROVE  UNCHANGED <<sends, wire, mempool, mined>>
  BY <1>7 DEF TenantEnds, vars
<1> QED
  BY <1>1, <1>2, <1>3, <1>4, <1>5, <1>6, <1>7 DEF Next, Serve, Done

(* Nothing gets into the chain that is not authentic, nor stops being it.  *)
LEMMA TakenStep == ASSUME IInv, [Next]_vars PROVE TakenInv'
<1>0. TypeOK /\ TakenInv /\ req' = req
  BY SameRequests DEF IInv
<1> SUFFICES ASSUME NEW o \in (mempool \cup mined)' PROVE Authentic(o)'
  BY DEF TakenInv
<1> USE DEF tenantVars, callVars, chainVars
<1>1. o \in mempool \cup mined \/ \E n \in 1 .. MaxSends : o \in Ops /\ CheckTx(o, n)
  <2>1. ASSUME NEW d \in Ops, NEW n \in 1 .. MaxSends, CheckTx(d, n)
        PROVE  o \in mempool \cup mined \/ o = d
    BY <2>1 DEF CheckTx
  <2>2. ASSUME NEW d \in Ops, Mine(d) PROVE o \in mempool \cup mined
    BY <2>2 DEF Mine
  <2>3. ASSUME NEW d \in Ops, Serve(d) \/ Sign(d) \/ Retry(d) PROVE o \in mempool \cup mined
    BY <2>3 DEF Serve, Begin, BeginDenied, Query, assemble, AssembleError, Sign, Retry, BroadcastCleared,
                BroadcastDenied, BroadcastSync, BroadcastReply, BroadcastError
  <2>4. ASSUME NEW d \in Ops, NEW n \in 1 .. MaxSends, CheckTxFails(d, n) \/ Lose(d, n)
        PROVE  o \in mempool \cup mined
    BY <2>4 DEF CheckTxFails, Lose
  <2>5. ASSUME (\E id \in TenantIds : TenantEnds(id)) \/ UNCHANGED vars
        PROVE  o \in mempool \cup mined
    BY <2>5 DEF TenantEnds, vars
  <2> QED
    BY <2>1, <2>2, <2>3, <2>4, <2>5 DEF Next, Done
<1>2. o \in Ops /\ Authentic(o) /\ Landing(o)
  BY <1>0, <1>1 DEF TakenInv, TypeOK, CheckTx, Landing, OnItsWay
<1>3. owner'[o] = owner[o]
  BY <1>2, SameOwner
<1> QED
  BY <1>0, <1>2, <1>3 DEF Authentic

(* As long as no broadcast ended in doubt there is one copy, and its       *)
(* verdict tells where it is.                                              *)
LEMMA OnceStep == ASSUME IInv, [Next]_vars PROVE OnceInv'
<1>0. TypeOK /\ CallInv /\ SentInv /\ OnceInv /\ \A o \in Ops : sends[o] \in Nat
  BY AgentChainAssumption DEF IInv, TypeOK
<1> USE DEF OnceInv, Goto, End, tenantVars, callVars, chainVars
<1>1. ASSUME UNCHANGED <<sends, wire, verdict, mempool, mined>>,
             \A d \in Ops : ~doubt'[d] =>
                /\ ~doubt[d]
                /\ pc'[d] \notin {"sent", "ended"} => pc[d] \notin {"sent", "ended"}
                /\ pc[d] = "sent" => pc'[d] = "sent" \/ verdict[d] # "none"
      PROVE  OnceInv'
  BY <1>0, <1>1
<1>2. ASSUME NEW o \in Ops, Begin(o) \/ BeginDenied(o) \/ Query(o) \/ assemble(o) \/ AssembleError(o)
             \/ Sign(o) \/ BroadcastCleared(o) \/ BroadcastDenied(o) \/ BroadcastReply(o)
      PROVE  OnceInv'
  <2>1. /\ UNCHANGED <<sends, wire, verdict, mempool, mined, doubt>>
        /\ \A d \in Ops :
              /\ pc'[d] \notin {"sent", "ended"} => pc[d] \notin {"sent", "ended"}
              /\ pc[d] = "sent" => pc'[d] = "sent" \/ verdict[d] # "none"
    BY <1>0, <1>2 DEF Begin, BeginDenied, Query, assemble, AssembleError, Sign, BroadcastCleared,
                      BroadcastDenied, BroadcastReply, TypeOK
  <2> QED
    BY <1>1, <2>1
<1>3. ASSUME NEW o \in Ops, BroadcastError(o) PROVE OnceInv'
  <2>1. /\ UNCHANGED <<sends, wire, verdict, mempool, mined>> /\ doubt'[o]
        /\ \A d \in Ops : d # o => pc'[d] = pc[d] /\ doubt'[d] = doubt[d]
    BY <1>0, <1>3 DEF BroadcastError, TypeOK
  <2> QED
    BY <1>1, <2>1
<1>4. ASSUME NEW o \in Ops, Retry(o) PROVE OnceInv'
  <2>1. /\ UNCHANGED <<sends, wire, verdict, mempool, mined, doubt>> /\ doubt[o]
        /\ \A d \in Ops : d # o => pc'[d] = pc[d]
    BY <1>0, <1>4 DEF Retry, TypeOK, CallInv
  <2> QED
    BY <1>1, <2>1
<1>5. ASSUME NEW o \in Ops, BroadcastSync(o) PROVE OnceInv'
  <2>1. /\ pc[o] = "cleared" /\ UNCHANGED <<doubt, mempool, mined>>
        /\ wire' = wire \cup {<<o, sends[o] + 1>>}
        /\ pc'[o] = "sent" /\ sends'[o] = sends[o] + 1 /\ verdict'[o] = "none"
        /\ \A d \in Ops : d # o => pc'[d] = pc[d] /\ sends'[d] = sends[d] /\ verdict'[d] = verdict[d]
    BY <1>0, <1>5 DEF BroadcastSync, TypeOK
  <2>2. ~doubt[o] => ~Landing(o)
    BY <1>0, <2>1 DEF SentInv
  <2>3. ~doubt[o] => o \notin mempool \cup mined /\ \A n \in 1 .. MaxSends : <<o, n>> \notin wire
    BY <2>2 DEF Landing, OnItsWay
  <2> QED
    BY <1>0, <2>1, <2>3
<1>6. ASSUME NEW o \in Ops, NEW n \in 1 .. MaxSends, CheckTx(o, n) PROVE OnceInv'
  <2>1. /\ <<o, n>> \in wire /\ wire' = wire \ {<<o, n>>}
        /\ mempool' = mempool \cup {o}
        /\ UNCHANGED <<doubt, pc, sends, mined>>
        /\ \A d \in Ops : d # o => verdict'[d] = verdict[d]
        /\ pc[o] = "sent" /\ n = sends[o] => verdict'[o] = "ok"
    BY <1>0, <1>6 DEF CheckTx, Answered, TypeOK
  <2>2. ~doubt[o] => pc[o] = "sent" /\ n = sends[o]
    BY <1>0, <2>1
  <2> QED
    BY <1>0, <2>1, <2>2
<1>7. ASSUME NEW o \in Ops, NEW n \in 1 .. MaxSends, CheckTxFails(o, n) PROVE OnceInv'
  <2>1. /\ <<o, n>> \in wire /\ wire' = wire \ {<<o, n>>}
        /\ UNCHANGED <<doubt, pc, sends, mempool, mined>>
        /\ \A d \in Ops : d # o => verdict'[d] = verdict[d]
    BY <1>0, <1>7 DEF CheckTxFails, Answered, TypeOK
  <2>2. ~doubt[o] => pc[o] = "sent" /\ n = sends[o] /\ o \notin mempool \cup mined
    BY <1>0, <2>1
  <2> QED
    BY <1>0, <2>1, <2>2
<1>8. ASSUME NEW o \in Ops, NEW n \in 1 .. MaxSends, Lose(o, n) PROVE OnceInv'
  BY <1>0, <1>8 DEF Lose
<1>9. ASSUME NEW o \in Ops, Mine(o) PROVE OnceInv'
  BY <1>0, <1>9 DEF Mine
<1>10. ASSUME NEW id \in TenantIds, TenantEnds(id) PROVE OnceInv'
  BY <1>0, <1>10 DEF TenantEnds
<1>11. ASSUME UNCHANGED vars PROVE OnceInv'
  BY <1>0, <1>11 DEF vars
<1> QED
  BY <1>2, <1>3, <1>4, <1>5, <1>6, <1>7, <1>8, <1>9, <1>10, <1>11 DEF Next, Serve, Done

(* The chain's sequences: what CheckTx admits extends the mempool by the   *)
(* next one, what is mined leaves at its low end.                          *)
LEMMA SeqStep == ASSUME IInv, [Next]_vars PROVE SeqInv'
<1>0. /\ TypeOK /\ CallInv /\ PinInv /\ SentInv /\ SeqInv /\ req' = req
      /\ \A o \in Ops : sends[o] \in Nat /\ seq[o] \in Nat
      /\ \A a \in Accounts : checkSeq[a] \in Nat /\ committed[a] \in Nat
      /\ mempool \subseteq Ops
  BY SameRequests, AgentChainAssumption DEF IInv, TypeOK
<1>1. \A o \in mempool : sends[o] > 0 /\ owner[o] \in Accounts /\ owner'[o] = owner[o]
  BY <1>0, OwnAccount, SameOwner DEF SentInv, Landing, OnItsWay
<1> USE DEF tenantVars, callVars, chainVars
<1>2. ASSUME UNCHANGED <<mempool, checkSeq, committed>>, \A o \in mempool : seq'[o] = seq[o]
      PROVE  SeqInv'
  BY <1>0, <1>1, <1>2 DEF SeqInv
<1>3. ASSUME NEW o \in Ops, assemble(o) PROVE SeqInv'
  <2>1. o \notin mempool
    BY <1>0, <1>1, <1>3 DEF assemble, CallInv
  <2>2. UNCHANGED <<mempool, checkSeq, committed>> /\ \A d \in Ops : d # o => seq'[d] = seq[d]
    BY <1>0, <1>3 DEF assemble, TypeOK
  <2> QED
    BY <1>0, <1>2, <2>1, <2>2
<1>4. ASSUME NEW o \in Ops, NEW n \in 1 .. MaxSends, CheckTx(o, n) PROVE SeqInv'
  <2> DEFINE a == owner[o]
  <2>1. a \in Accounts
    BY <1>0, <1>4, OwnAccount DEF CheckTx, Landing, OnItsWay
  <2>2. /\ seq[o] = checkSeq[a] /\ seq' = seq /\ committed' = committed /\ owner' = owner
        /\ mempool' = mempool \cup {o}
    BY <1>4 DEF CheckTx
  <2>3. \A b \in Accounts : checkSeq'[b] = IF b = a THEN checkSeq[b] + 1 ELSE checkSeq[b]
    BY <1>0, <1>4, <2>1 DEF CheckTx, TypeOK
  <2> HIDE DEF a
  <2>4. \A d \in mempool' : seq'[d] < checkSeq'[owner'[d]]
    <3>1. seq'[o] < checkSeq'[a]
      BY <1>0, <2>1, <2>2, <2>3
    <3>2. ASSUME NEW d \in mempool PROVE seq'[d] < checkSeq'[owner'[d]]
      <4>1. owner[d] \in Accounts /\ seq[d] \in Nat /\ seq[d] < checkSeq[owner[d]]
        BY <1>0, <1>1 DEF SeqInv
      <4> QED
        BY <1>0, <2>2, <2>3, <4>1
    <3> QED
      BY <2>2, <3>1, <3>2 DEF a
  <2>5. ASSUME NEW b \in Accounts
        PROVE  /\ committed'[b] <= checkSeq'[b]
               /\ \A m \in Nat : committed'[b] <= m /\ m < checkSeq'[b] =>
                     \E d \in mempool' : owner'[d] = b /\ seq'[d] = m
    <3>1. /\ committed[b] <= checkSeq[b]
          /\ \A m \in Nat : committed[b] <= m /\ m < checkSeq[b] =>
                \E d \in mempool : owner[d] = b /\ seq[d] = m
      BY <1>0 DEF SeqInv
    <3>2. CASE b # a
      BY <1>0, <2>2, <2>3, <3>1, <3>2
    <3>3. CASE b = a
      <4>1. committed'[b] <= checkSeq'[b]
        BY <1>0, <2>2, <2>3, <3>1, <3>3
      <4>2. ASSUME NEW m \in Nat, committed'[b] <= m, m < checkSeq'[b]
            PROVE  \E d \in mempool' : owner'[d] = b /\ seq'[d] = m
        <5>1. m < checkSeq[b] \/ m = checkSeq[b]
          BY <1>0, <2>3, <3>3, <4>2
        <5>2. CASE m < checkSeq[b]
          BY <2>2, <3>1, <4>2, <5>2
        <5>3. CASE m = checkSeq[b]
          BY <2>2, <3>3, <5>3 DEF a
        <5> QED
          BY <5>1, <5>2, <5>3
      <4> QED
        BY <4>1, <4>2
    <3> QED
      BY <3>2, <3>3
  <2> QED
    BY <1>0, <2>4, <2>5 DEF SeqInv
<1>5. ASSUME NEW o \in Ops, Mine(o) PROVE SeqInv'
  <2> DEFINE a == owner[o]
  <2>1. o \in mempool /\ a \in Accounts
    BY <1>1, <1>5 DEF Mine
  <2>2. /\ seq[o] = committed[a] /\ seq' = seq /\ checkSeq' = checkSeq /\ owner' = owner
        /\ mempool' = mempool \ {o}
    BY <1>5 DEF Mine
  <2>3. \A b \in Accounts : committed'[b] = IF b = a THEN committed[b] + 1 ELSE committed[b]
    BY <1>0, <1>5, <2>1 DEF Mine, TypeOK
  <2>4. seq[o] < checkSeq[a]
    BY <1>0, <2>1 DEF SeqInv
  <2> HIDE DEF a
  <2>5. \A d \in mempool' : seq'[d] < checkSeq'[owner'[d]]
    BY <1>0, <2>2 DEF SeqInv
  <2>6. ASSUME NEW b \in Accounts
        PROVE  /\ committed'[b] <= checkSeq'[b]
               /\ \A m \in Nat : committed'[b] <= m /\ m < checkSeq'[b] =>
                     \E d \in mempool' : owner'[d] = b /\ seq'[d] = m
    <3>1. /\ committed[b] <= checkSeq[b]
          /\ \A m \in Nat : committed[b] <= m /\ m < checkSeq[b] =>
                \E d \in mempool : owner[d] = b /\ seq[d] = m
      BY <1>0 DEF SeqInv
    <3>2. committed'[b] <= checkSeq'[b]
      BY <1>0, <2>2, <2>3, <2>4, <3>1
    <3>3. ASSUME NEW m \in Nat, committed'[b] <= m, m < checkSeq'[b]
          PROVE  \E d \in mempool' : owner'[d] = b /\ seq'[d] = m
      <4>1. committed[b] <= m /\ m < checkSeq[b]
        BY <1>0, <2>2, <2>3, <3>3
      <4>2. PICK d \in mempool : owner[d] = b /\ seq[d] = m
        BY <3>1, <4>1
      <4>3. d # o
        BY <1>0, <2>2, <2>3, <3>3, <4>2 DEF a
      <4> QED
        BY <2>2, <4>2, <4>3
    <3> QED
      BY <3>2, <3>3
  <2> QED
    BY <1>0, <2>5, <2>6 DEF SeqInv
<1>6. ASSUME UNCHANGED <<mempool, checkSeq, committed, seq>> PROVE SeqInv'
  BY <1>2, <1>6
<1>7. ASSUME NEW o \in Ops, Begin(o) \/ BeginDenied(o) \/ Query(o) \/ AssembleError(o) \/ Sign(o)
             \/ Retry(o) \/ BroadcastCleared(o) \/ BroadcastDenied(o) \/ BroadcastSync(o)
             \/ BroadcastReply(o) \/ BroadcastError(o)
      PROVE  UNCHANGED <<mempool, checkSeq, committed, seq>>
  BY <1>7 DEF Begin, BeginDenied, Query, AssembleError, Sign, Retry, BroadcastCleared,
              BroadcastDenied, BroadcastSync, BroadcastReply, BroadcastError
<1>8. ASSUME (\E o \in Ops, n \in 1 .. MaxSends : CheckTxFails(o, n) \/ Lose(o, n))
             \/ (\E id \in TenantIds : TenantEnds(id)) \/ UNCHANGED vars
      PROVE  UNCHANGED <<mempool, checkSeq, committed, seq>>
  BY <1>8 DEF CheckTxFails, Lose, TenantEnds, vars
<1> QED
  BY <1>3, <1>4, <1>5, <1>6, <1>7, <1>8 DEF Next, Serve, Done

(* The account an operation is built for has nothing on its way, or the    *)
(* operation has a rival.                                                  *)
LEMMA QuietAccount ==
    ASSUME IInv, NEW o \in Ops, pc[o] = "building", Rivals(o) = {}
    PROVE  committed[owner[o]] = checkSeq[owner[o]]
<1> DEFINE a == owner[o]
<1>0. TypeOK /\ CallInv /\ SentInv /\ SeqInv /\ TakenInv /\ a \in Accounts
  BY DEF IInv, PinInv, Begun
<1>1. committed[a] \in Nat /\ checkSeq[a] \in Nat /\ committed[a] <= checkSeq[a]
  BY <1>0 DEF TypeOK, SeqInv
<1>2. ASSUME committed[a] < checkSeq[a] PROVE FALSE
  <2>1. PICK d \in mempool : owner[d] = a /\ seq[d] = committed[a]
    BY <1>0, <1>1, <1>2 DEF SeqInv
  <2>2. d \in Ops /\ sends[d] > 0 /\ sends[o] = 0 /\ Authentic(d)
    BY <1>0, <2>1 DEF TypeOK, SentInv, TakenInv, Landing, OnItsWay, CallInv
  <2>3. d # o
    BY <2>2
  <2>4. d \in Rivals(o)
    BY <2>1, <2>2, <2>3 DEF Rivals, OnItsWay
  <2> QED
    BY <2>4
<1> HIDE DEF a
<1>3. committed[a] = checkSeq[a]
  BY <1>1, <1>2
<1> QED
  BY <1>3 DEF a

(* Without a rival or a doubt, what was built stays the account's next.    *)
LEMMA NextStep == ASSUME IInv, [Next]_vars PROVE NextInv'
<1>0. /\ TypeOK /\ CallInv /\ PinInv /\ SentInv /\ OnceInv /\ NextInv /\ req' = req
      /\ \A o \in Ops : sends[o] \in Nat
  BY SameRequests, AgentChainAssumption DEF IInv, TypeOK
<1> DEFINE Built == {"built", "signed", "cleared", "sent"}
<1> USE DEF Goto, End, tenantVars, callVars, chainVars
<1>1. ASSUME UNCHANGED <<seq, verdict, checkSeq>>,
             \A d \in Ops : pc'[d] \in Built /\ ~rival'[d] /\ ~doubt'[d] =>
                pc[d] \in Built /\ ~rival[d] /\ ~doubt[d] /\ owner'[d] = owner[d]
      PROVE  NextInv'
  BY <1>0, <1>1 DEF NextInv
<1>2. ASSUME NEW o \in Ops, Begin(o) PROVE NextInv'
  <2>1. /\ UNCHANGED <<seq, verdict, checkSeq, rival, doubt>> /\ pc'[o] = "building"
        /\ \A d \in Ops : d # o => pc'[d] = pc[d] /\ owner'[d] = owner[d]
    BY <1>0, <1>2 DEF Begin, TypeOK
  <2> QED
    BY <1>1, <2>1
<1>3. ASSUME NEW o \in Ops, BeginDenied(o) \/ Query(o) \/ AssembleError(o) \/ Sign(o)
             \/ BroadcastCleared(o) \/ BroadcastDenied(o) \/ BroadcastReply(o)
      PROVE  NextInv'
  <2>1. /\ UNCHANGED <<seq, verdict, checkSeq, rival, doubt, owner>>
        /\ \A d \in Ops : pc'[d] \in Built => pc[d] \in Built
    BY <1>0, <1>3 DEF BeginDenied, Query, AssembleError, Sign, BroadcastCleared, BroadcastDenied,
                      BroadcastReply, TypeOK
  <2> QED
    BY <1>1, <2>1
<1>4. ASSUME NEW o \in Ops, BroadcastError(o) PROVE NextInv'
  <2>1. /\ UNCHANGED <<seq, verdict, checkSeq, rival, owner>>
        /\ pc'[o] = "ended" /\ \A d \in Ops : d # o => pc'[d] = pc[d] /\ doubt'[d] = doubt[d]
    BY <1>0, <1>4 DEF BroadcastError, TypeOK
  <2> QED
    BY <1>1, <2>1
<1>5. ASSUME NEW o \in Ops, Retry(o) PROVE NextInv'
  <2>1. /\ UNCHANGED <<seq, verdict, checkSeq, rival, owner, doubt>> /\ doubt[o]
        /\ \A d \in Ops : d # o => pc'[d] = pc[d]
    BY <1>0, <1>5 DEF Retry, TypeOK, CallInv
  <2> QED
    BY <1>1, <2>1
<1>6. ASSUME NEW o \in Ops, assemble(o) PROVE NextInv'
  <2>1. /\ pc[o] = "building" /\ UNCHANGED <<verdict, checkSeq, doubt, owner>>
        /\ seq'[o] = committed[owner[o]] /\ rival'[o] = (Rivals(o) # {})
        /\ \A d \in Ops : d # o => pc'[d] = pc[d] /\ seq'[d] = seq[d] /\ rival'[d] = rival[d]
    BY <1>0, <1>6 DEF assemble, TypeOK
  <2>2. ~rival'[o] => seq'[o] = checkSeq[owner[o]]
    BY <2>1, QuietAccount
  <2>3. verdict[o] = "none"
    BY <1>0, <2>1 DEF CallInv
  <2> QED
    BY <1>0, <2>1, <2>2, <2>3 DEF NextInv
<1>7. ASSUME NEW o \in Ops, BroadcastSync(o) PROVE NextInv'
  <2>1. /\ pc[o] = "cleared" /\ UNCHANGED <<seq, checkSeq, doubt, owner, rival>>
        /\ \A d \in Ops : d # o => pc'[d] = pc[d] /\ verdict'[d] = verdict[d]
        /\ verdict'[o] = "none"
    BY <1>0, <1>7 DEF BroadcastSync, TypeOK
  <2>2. ~doubt[o] => verdict[o] = "none"
    BY <1>0, <2>1 DEF OnceInv, CallInv
  <2> QED
    BY <1>0, <2>1, <2>2 DEF NextInv
<1>8. ASSUME NEW o \in Ops, NEW n \in 1 .. MaxSends, CheckTx(o, n) PROVE NextInv'
  <2> DEFINE a == owner[o]
  <2>1. /\ <<o, n>> \in wire /\ UNCHANGED <<seq, doubt, owner, pc>>
        /\ \A d \in Ops : d # o => verdict'[d] = verdict[d]
        /\ pc[o] = "sent" /\ n = sends[o] => verdict'[o] = "ok"
        /\ \A d \in Ops : rival'[d] = (rival[d] \/ (d # o /\ owner[d] = a /\ pc[d] # "building"))
    BY <1>0, <1>8 DEF CheckTx, Answered, TypeOK
  <2>2. \A b \in Accounts : b # a => checkSeq'[b] = checkSeq[b]
    BY <1>0, <1>8 DEF CheckTx, TypeOK
  <2>3. ~doubt[o] => verdict'[o] = "ok"
    BY <1>0, <2>1 DEF OnceInv
  <2> HIDE DEF a
  <2>4. ASSUME NEW d \in Ops, d # o, pc[d] \in Built, ~rival'[d], ~doubt[d]
        PROVE  /\ verdict'[d] = "none" => seq[d] = checkSeq'[owner[d]]
               /\ verdict'[d] # "badSequence"
    <3>1. ~rival[d] /\ owner[d] # a
      BY <2>1, <2>4
    <3>2. owner[d] \in Accounts
      BY <1>0, <2>4 DEF PinInv, Begun
    <3> QED
      BY <1>0, <2>1, <2>2, <2>4, <3>1, <3>2 DEF NextInv
  <2> QED
    BY <2>1, <2>3, <2>4 DEF NextInv
<1>9. ASSUME NEW o \in Ops, NEW n \in 1 .. MaxSends, CheckTxFails(o, n) PROVE NextInv'
  <2>1. /\ <<o, n>> \in wire /\ UNCHANGED <<seq, doubt, owner, pc, rival, checkSeq>>
        /\ \A d \in Ops : d # o => verdict'[d] = verdict[d]
        /\ pc[o] = "sent" /\ n = sends[o] =>
              verdict'[o] = IF req[o].declared # owner[o] \/ seq[o] = checkSeq[owner[o]]
                            THEN "refused" ELSE "badSequence"
    BY <1>0, <1>9 DEF CheckTxFails, Answered, TypeOK
  <2>2. ~doubt[o] => pc[o] = "sent" /\ n = sends[o] /\ verdict[o] = "none"
    BY <1>0, <2>1 DEF OnceInv
  <2>3. ~rival[o] /\ ~doubt[o] => verdict'[o] = "refused"
    BY <1>0, <2>1, <2>2 DEF NextInv
  <2> QED
    BY <1>0, <2>1, <2>3 DEF NextInv
<1>10. ASSUME UNCHANGED <<seq, verdict, checkSeq, pc, rival, doubt, owner>> PROVE NextInv'
  BY <1>1, <1>10
<1>11. ASSUME (\E o \in Ops : Mine(o)) \/ (\E o \in Ops, n \in 1 .. MaxSends : Lose(o, n))
              \/ (\E id \in TenantIds : TenantEnds(id)) \/ UNCHANGED vars
       PROVE  UNCHANGED <<seq, verdict, checkSeq, pc, rival, doubt, owner>>
  BY <1>11 DEF Mine, Lose, TenantEnds, vars
<1> QED
  BY <1>2, <1>3, <1>4, <1>5, <1>6, <1>7, <1>8, <1>9, <1>10, <1>11 DEF Next, Serve, Done

(* A sequence is refused for a cause, and the cause stays on record.       *)
LEMMA ExplainedStep == ASSUME IInv, [Next]_vars PROVE BadSequenceExplained'
<1>0. TypeOK /\ CallInv /\ NextInv /\ BadSequenceExplained
  BY DEF IInv
<1> USE DEF Goto, End, tenantVars, callVars, chainVars
<1>1. ASSUME \A d \in Ops : outcome'[d] = "badSequence" =>
                outcome[d] = "badSequence" /\ (rival[d] => rival'[d]) /\ (doubt[d] => doubt'[d])
      PROVE  BadSequenceExplained'
  BY <1>0, <1>1 DEF BadSequenceExplained
<1>2. ASSUME NEW o \in Ops, BroadcastReply(o) PROVE BadSequenceExplained'
  <2>1. /\ pc[o] = "sent" /\ UNCHANGED <<rival, doubt>>
        /\ outcome'[o] = verdict[o] /\ \A d \in Ops : d # o => outcome'[d] = outcome[d]
    BY <1>0, <1>2 DEF BroadcastReply, TypeOK
  <2>2. verdict[o] = "badSequence" => rival[o] \/ doubt[o]
    BY <1>0, <2>1 DEF NextInv
  <2> QED
    BY <1>0, <2>1, <2>2 DEF BadSequenceExplained
<1>3. ASSUME NEW o \in Ops, BeginDenied(o) \/ Query(o) \/ AssembleError(o) \/ BroadcastDenied(o) \/ Retry(o)
      PROVE  BadSequenceExplained'
  <2>1. UNCHANGED <<rival, doubt>> /\ \A d \in Ops : outcome'[d] = "badSequence" => outcome[d] = "badSequence"
    BY <1>0, <1>3 DEF BeginDenied, Query, AssembleError, BroadcastDenied, Retry, TypeOK
  <2> QED
    BY <1>1, <2>1
<1>4. ASSUME NEW o \in Ops, BroadcastError(o) PROVE BadSequenceExplained'
  <2>1. /\ UNCHANGED rival /\ outcome'[o] = "error"
        /\ \A d \in Ops : d # o => outcome'[d] = outcome[d] /\ doubt'[d] = doubt[d]
    BY <1>0, <1>4 DEF BroadcastError, TypeOK
  <2> QED
    BY <1>1, <2>1
<1>5. ASSUME NEW o \in Ops, assemble(o) PROVE BadSequenceExplained'
  <2>1. /\ UNCHANGED <<outcome, doubt>> /\ outcome[o] = "none"
        /\ \A d \in Ops : d # o => rival'[d] = rival[d]
    BY <1>0, <1>5 DEF assemble, TypeOK, CallInv
  <2> QED
    BY <1>1, <2>1
<1>6. ASSUME NEW o \in Ops, NEW n \in 1 .. MaxSends, CheckTx(o, n) PROVE BadSequenceExplained'
  <2>1. UNCHANGED <<outcome, doubt>> /\ \A d \in Ops : rival[d] => rival'[d]
    BY <1>0, <1>6 DEF CheckTx, TypeOK
  <2> QED
    BY <1>1, <2>1
<1>7. ASSUME UNCHANGED <<outcome, rival, doubt>> PROVE BadSequenceExplained'
  BY <1>1, <1>7
<1>8. ASSUME (\E o \in Ops : Begin(o) \/ Sign(o) \/ BroadcastCleared(o) \/ BroadcastSync(o) \/ Mine(o))
             \/ (\E o \in Ops, n \in 1 .. MaxSends : CheckTxFails(o, n) \/ Lose(o, n))
             \/ (\E id \in TenantIds : TenantEnds(id)) \/ UNCHANGED vars
      PROVE  UNCHANGED <<outcome, rival, doubt>>
  BY <1>8 DEF Begin, Sign, BroadcastCleared, BroadcastSync, Mine, CheckTxFails, Lose, TenantEnds, vars
<1> QED
  BY <1>2, <1>3, <1>4, <1>5, <1>6, <1>7, <1>8 DEF Next, Serve, Done

-----------------------------------------------------------------------------

(* The invariant holds at the start and is inductive.                      *)
LEMMA Inductive ==
    /\ Init => IInv
    /\ IInv /\ [Next]_vars => IInv'
<1>1. ASSUME Init PROVE IInv
  <2>1. TypeOK
    BY <1>1, AgentChainAssumption DEF Init, TypeOK, NoOwner
  <2>2. CallInv /\ PinInv /\ SentInv /\ TakenInv /\ OnceInv /\ NextInv /\ BadSequenceExplained
    BY <1>1, AgentChainAssumption
       DEF Init, CallInv, PinInv, SentInv, TakenInv, OnceInv, NextInv, BadSequenceExplained, Landing, OnItsWay, Begun
  <2>3. SeqInv
    BY <1>1 DEF Init, SeqInv
  <2> QED
    BY <2>1, <2>2, <2>3 DEF IInv
<1>2. ASSUME IInv, [Next]_vars PROVE IInv'
  BY <1>2, TypeStep, CallStep, PinStep, SentStep, TakenStep, OnceStep, SeqStep, NextStep, ExplainedStep DEF IInv
<1> QED
  BY <1>1, <1>2

(* The variables keep their types.                                         *)
THEOREM TypeCorrect == Spec => []TypeOK
<1>1. IInv => TypeOK
  BY DEF IInv
<1> QED
  BY <1>1, Inductive, PTL DEF Spec

(* broadcast.go: "a tenant may only land txs signed by its own owner key". *)
(* The pin reads the declared key and never the signature; with the ante   *)
(* handler's check of that signature, what the chain has taken is signed   *)
(* by, and acts for, the account the presenting tenant was issued to.      *)
THEOREM LandsOnlyOwn == Spec => []TenantLandsOwn
<1>1. IInv => TenantLandsOwn
  <2> SUFFICES ASSUME IInv, NEW o \in mempool \cup mined
               PROVE  /\ req[o].via \in TenantIds
                      /\ Owner[req[o].via] = req[o].signer
                      /\ Owner[req[o].via] = owner[o]
    BY DEF TenantLandsOwn
  <2>1. o \in Ops /\ Authentic(o) /\ sends[o] > 0
    BY DEF IInv, TypeOK, TakenInv, SentInv, Landing, OnItsWay
  <2> QED
    BY <2>1 DEF IInv, PinInv, Authentic
<1> QED
  BY <1>1, Inductive, PTL DEF Spec

(* A transaction that CheckTx refused, and of which no earlier broadcast   *)
(* ended in an error, never lands: the caller may build another.           *)
THEOREM RefusalsAreFinal == Spec => []RefusalIsFinal
<1>1. IInv => RefusalIsFinal
  <2> SUFFICES ASSUME IInv, NEW o \in Ops, outcome[o] \in {"refused", "badSequence"}, ~doubt[o]
               PROVE  ~Landing(o)
    BY DEF RefusalIsFinal
  <2>1. pc[o] = "ended" /\ verdict[o] \in {"refused", "badSequence"}
    BY DEF IInv, CallInv
  <2>2. o \notin mempool \cup mined /\ \A n \in 1 .. MaxSends : <<o, n>> \notin wire
    BY <2>1 DEF IInv, OnceInv
  <2> QED
    BY <2>2 DEF Landing, OnItsWay
<1> QED
  BY <1>1, Inductive, PTL DEF Spec

(* A caller that builds one transaction of its account at a time is never  *)
(* refused for its sequence, although no lock covers build and broadcast.  *)
THEOREM BadSequenceIsExplained == Spec => []BadSequenceExplained
<1>1. IInv => BadSequenceExplained
  BY DEF IInv
<1> QED
  BY <1>1, Inductive, PTL DEF Spec
=============================================================================
