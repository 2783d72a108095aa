-------------------------- MODULE OperatorTxProofs --------------------------
(***************************************************************************)
(* What seqMu buys, for any number of concurrent calls: RefusalHasACause   *)
(* and OutcomeIsTrue.                                                      *)
(*                                                                         *)
(* Neither is inductive.  The first needs the chain side (every sequence   *)
(* between the committed and the checked one is in the mempool, so with    *)
(* nothing on its way the two agree) and the window between the account    *)
(* read and the answer, in which the holder's sequence stays the next one. *)
(***************************************************************************)
EXTENDS OperatorTx, TLAPS

Window == {"locked", "signing", "sent"}

\* The holder of seqMu is the serialized call in the window.
LockInv ==
    \A c \in Calls : (seqMu = c) <=> (c \in Serialized /\ pc[c] \in Window)

\* Where the transaction of c is, by what is known of it.
TxInv ==
    \A c \in Calls :
        /\ pc[c] \notin {"sent", "returned"} \/ outcome[c] = "denied" =>
              c \notin wire \cup mempool \cup mined /\ verdict[c] = "none"
        /\ c \in wire => verdict[c] = "none"
        /\ (verdict[c] = "ok") <=> (c \in mempool \cup mined)
        /\ (outcome[c] # "none") <=> (pc[c] = "returned")
        /\ outcome[c] \in {"ok", "badSequence", "refused"} => verdict[c] = outcome[c]

\* Between the committed and the checked sequence lies the mempool.
SeqInv ==
    /\ committed <= checkSeq
    /\ \A c \in mempool \cap Sequenced : acct[c] < checkSeq
    /\ \A n \in Nat : committed <= n /\ n < checkSeq =>
          \E c \in mempool \cap Sequenced : acct[c] = n

Foreign == \E d \in Calls : req[d].op \in CallerSigned /\ pc[d] \in {"sent", "returned"}

\* While it holds the lock, what the holder read stays the next sequence.
HolderInv ==
    \A c \in Serialized : pc[c] \in {"signing", "sent"} /\ ~behind[c] /\ ~Foreign =>
        /\ wire \cap Sequenced \subseteq {c}
        /\ verdict[c] = "none" => acct[c] = checkSeq
        /\ verdict[c] # "badSequence"

IInv == TypeOK /\ LockInv /\ TxInv /\ SeqInv /\ HolderInv /\ RefusalHasACause

-----------------------------------------------------------------------------

(* Who consumes the sequence is settled by the requests, which stay.       *)
LEMMA SameRequests ==
    ASSUME [Next]_vars
    PROVE  req' = req /\ Sequenced' = Sequenced /\ Serialized' = Serialized
<1>1. req' = req
  BY DEF Next, vars, execute, Accept, Deny, Lock, Account, ExecuteError, BroadcastSync,
         BroadcastReply, BroadcastError, CheckTx, CheckTxFails, Lose, Mine, Done
<1> QED
  BY <1>1 DEF Sequenced, Serialized

(* No step leaves the types of the variables.                              *)
LEMMA TypeStep == ASSUME TypeOK, [Next]_vars PROVE TypeOK'
<1> USE DEF TypeOK, Goto, chainVars
<1>1. ASSUME NEW c \in Calls, Accept(c) \/ Lock(c) PROVE TypeOK'
  BY <1>1 DEF Accept, Lock
<1>2. ASSUME NEW c \in Calls, Deny(c) PROVE TypeOK'
  BY <1>2 DEF Deny, Return
<1>3. ASSUME NEW c \in Calls, Account(c) PROVE TypeOK'
  BY <1>3 DEF Account
<1>4. ASSUME NEW c \in Calls, ExecuteError(c) \/ BroadcastError(c) PROVE TypeOK'
  BY <1>4 DEF ExecuteError, BroadcastError, Return
<1>5. ASSUME NEW c \in Calls, BroadcastSync(c) PROVE TypeOK'
  BY <1>5 DEF BroadcastSync
<1>6. ASSUME NEW c \in Calls, BroadcastReply(c) PROVE TypeOK'
  BY <1>6 DEF BroadcastReply, Return
<1>7. ASSUME NEW c \in Calls, CheckTx(c) PROVE TypeOK'
  BY <1>7 DEF CheckTx
<1>8. ASSUME NEW c \in Calls, CheckTxFails(c) PROVE TypeOK'
  BY <1>8 DEF CheckTxFails
<1>9. ASSUME NEW c \in Calls, Lose(c) \/ Mine(c) PROVE TypeOK'
  BY <1>9 DEF Lose, Mine
<1>10. ASSUME Done \/ UNCHANGED vars PROVE TypeOK'
  BY <1>10 DEF Done, vars
<1> QED
  BY <1>1, <1>2, <1>3, <1>4, <1>5, <1>6, <1>7, <1>8, <1>9, <1>10 DEF Next, execute

(* The mutex is held exactly over the window.                              *)
LEMMA LockStep == ASSUME IInv, [Next]_vars PROVE LockInv'
<1>0. TypeOK /\ LockInv /\ Serialized' = Serialized /\ Nobody \notin Calls
  BY SameRequests, OperatorAssumption DEF IInv
<1> USE DEF LockInv, Window, TypeOK, Goto
<1>1. ASSUME NEW c \in Calls, Accept(c) PROVE LockInv'
  BY <1>0, <1>1 DEF Accept
<1>2. ASSUME NEW c \in Calls, Lock(c) PROVE LockInv'
  BY <1>0, <1>2 DEF Lock
<1>3. ASSUME NEW c \in Calls, Account(c) PROVE LockInv'
  BY <1>0, <1>3 DEF Account
<1>4. ASSUME NEW c \in Calls, Deny(c) PROVE LockInv'
  BY <1>0, <1>4 DEF Deny, Return
<1>5. ASSUME NEW c \in Calls, ExecuteError(c) PROVE LockInv'
  BY <1>0, <1>5 DEF ExecuteError, Return
<1>6. ASSUME NEW c \in Calls, BroadcastSync(c) PROVE LockInv'
  BY <1>0, <1>6 DEF BroadcastSync
<1>7. ASSUME NEW c \in Calls, BroadcastReply(c) PROVE LockInv'
  BY <1>0, <1>7 DEF BroadcastReply, Return
<1>8. ASSUME NEW c \in Calls, BroadcastError(c) PROVE LockInv'
  BY <1>0, <1>8 DEF BroadcastError, Return
<1>9. ASSUME UNCHANGED <<pc, seqMu>> PROVE LockInv'
  BY <1>0, <1>9
<1>10. ASSUME NEW c \in Calls, CheckTx(c) \/ CheckTxFails(c) \/ Lose(c) \/ Mine(c)
       PROVE  UNCHANGED <<pc, seqMu>>
  BY <1>10 DEF CheckTx, CheckTxFails, Lose, Mine
<1> QED
  BY <1>1, <1>2, <1>3, <1>4, <1>5, <1>6, <1>7, <1>8, <1>9, <1>10 DEF Next, execute, Done, vars

(* What is known of a transaction stays true.                              *)
LEMMA TxStep == ASSUME IInv, [Next]_vars PROVE TxInv'
<1>0. TypeOK /\ TxInv
  BY DEF IInv
<1> USE DEF TxInv, TypeOK, Goto, chainVars
<1>1. ASSUME NEW c \in Calls, Accept(c) \/ Lock(c) PROVE TxInv'
  BY <1>0, <1>1 DEF Accept, Lock
<1>2. ASSUME NEW c \in Calls, Account(c) PROVE TxInv'
  BY <1>0, <1>2 DEF Account
<1>3. ASSUME NEW c \in Calls, Deny(c) PROVE TxInv'
  BY <1>0, <1>3 DEF Deny, Return
<1>4. ASSUME NEW c \in Calls, ExecuteError(c) PROVE TxInv'
  BY <1>0, <1>4 DEF ExecuteError, Return
<1>5. ASSUME NEW c \in Calls, BroadcastSync(c) PROVE TxInv'
  BY <1>0, <1>5 DEF BroadcastSync
<1>6. ASSUME NEW c \in Calls, BroadcastReply(c) PROVE TxInv'
  BY <1>0, <1>6 DEF BroadcastReply, Return
<1>7. ASSUME NEW c \in Calls, BroadcastError(c) PROVE TxInv'
  BY <1>0, <1>7 DEF BroadcastError, Return
<1>8. ASSUME NEW c \in Calls, CheckTx(c) PROVE TxInv'
  BY <1>0, <1>8 DEF CheckTx
<1>9. ASSUME NEW c \in Calls, CheckTxFails(c) PROVE TxInv'
  BY <1>0, <1>9 DEF CheckTxFails
<1>10. ASSUME NEW c \in Calls, Lose(c) PROVE TxInv'
  BY <1>0, <1>10 DEF Lose
<1>11. ASSUME NEW c \in Calls, Mine(c) PROVE TxInv'
  BY <1>0, <1>11 DEF Mine
<1>12. ASSUME Done \/ UNCHANGED vars PROVE TxInv'
  BY <1>0, <1>12 DEF Done, vars
<1> QED
  BY <1>1, <1>2, <1>3, <1>4, <1>5, <1>6, <1>7, <1>8, <1>9, <1>10, <1>11, <1>12
  DEF Next, execute

(* Every sequence admitted and not committed is in the mempool.            *)
LEMMA SeqStep == ASSUME IInv, [Next]_vars PROVE SeqInv'
<1>0. TypeOK /\ TxInv /\ SeqInv /\ Sequenced' = Sequenced
  BY SameRequests DEF IInv
<1>1. /\ checkSeq \in Nat /\ committed \in Nat /\ mempool \subseteq Calls
      /\ \A d \in Calls : acct[d] \in Nat
  BY <1>0 DEF TypeOK
<1>2. ASSUME NEW c \in Calls, Account(c) PROVE SeqInv'
  <2>1. c \notin mempool
    BY <1>0, <1>2 DEF Account, TxInv
  <2>2. \A d \in mempool : acct'[d] = acct[d]
    BY <1>0, <1>2, <2>1 DEF Account, TypeOK
  <2> QED
    BY <1>0, <1>1, <1>2, <2>2 DEF Account, SeqInv, chainVars
<1>3. ASSUME NEW c \in Calls, CheckTx(c) PROVE SeqInv'
  <2>1. CASE c \in Sequenced
    <3>1. /\ acct[c] = checkSeq /\ checkSeq' = checkSeq + 1 /\ mempool' = mempool \cup {c}
          /\ committed' = committed /\ acct' = acct
      BY <1>3, <2>1 DEF CheckTx, InOrder
    <3> QED
      BY <1>0, <1>1, <2>1, <3>1 DEF SeqInv
  <2>2. CASE c \notin Sequenced
    <3>1. /\ checkSeq' = checkSeq /\ mempool' = mempool \cup {c}
          /\ committed' = committed /\ acct' = acct
      BY <1>3, <2>2 DEF CheckTx
    <3> QED
      BY <1>0, <1>1, <2>2, <3>1 DEF SeqInv
  <2> QED
    BY <2>1, <2>2
<1>4. ASSUME NEW c \in Calls, Mine(c) PROVE SeqInv'
  <2>1. CASE c \in Sequenced
    <3>1. /\ acct[c] = committed /\ committed' = committed + 1 /\ mempool' = mempool \ {c}
          /\ checkSeq' = checkSeq /\ acct' = acct /\ c \in mempool
      BY <1>4, <2>1 DEF Mine
    <3>2. committed < checkSeq
      BY <1>0, <2>1, <3>1 DEF SeqInv
    <3> QED
      BY <1>0, <1>1, <3>1, <3>2 DEF SeqInv
  <2>2. CASE c \notin Sequenced
    <3>1. /\ checkSeq' = checkSeq /\ mempool' = mempool \ {c}
          /\ committed' = committed /\ acct' = acct
      BY <1>4, <2>2 DEF Mine
    <3> QED
      BY <1>0, <1>1, <2>2, <3>1 DEF SeqInv
  <2> QED
    BY <2>1, <2>2
<1>5. ASSUME UNCHANGED <<acct, mempool, checkSeq, committed>> PROVE SeqInv'
  BY <1>0, <1>5 DEF SeqInv
<1>6. ASSUME NEW c \in Calls, \/ Accept(c) \/ Deny(c) \/ Lock(c) \/ ExecuteError(c)
                              \/ BroadcastSync(c) \/ BroadcastReply(c) \/ BroadcastError(c)
                              \/ CheckTxFails(c) \/ Lose(c)
      PROVE  UNCHANGED <<acct, mempool, checkSeq, committed>>
  BY <1>6 DEF Accept, Deny, Lock, ExecuteError, BroadcastSync, BroadcastReply, BroadcastError,
              CheckTxFails, Lose, chainVars
<1> QED
  BY <1>2, <1>3, <1>4, <1>5, <1>6 DEF Next, execute, Done, vars, chainVars

(* A transaction signed with the key elsewhere stays a fact.               *)
LEMMA ForeignStays == ASSUME TypeOK, [Next]_vars, Foreign PROVE Foreign'
<1>1. PICK d \in Calls : req[d].op \in CallerSigned /\ pc[d] \in {"sent", "returned"}
  BY DEF Foreign
<1>2. pc'[d] \in {"sent", "returned"}
  BY <1>1 DEF TypeOK, Next, vars, execute, Accept, Deny, Lock, Account, ExecuteError, BroadcastSync,
              BroadcastReply, BroadcastError, CheckTx, CheckTxFails, Lose, Mine, Done, Return, Goto
<1> QED
  BY <1>1, <1>2, SameRequests DEF Foreign

(* With nothing on its way, the node's two sequences agree.                *)
LEMMA NothingUnmined ==
    ASSUME TypeOK, SeqInv, Unmined = {}
    PROVE  committed = checkSeq
<1>1. committed \in Nat /\ checkSeq \in Nat /\ committed <= checkSeq
  BY DEF TypeOK, SeqInv
<1>2. ~(committed < checkSeq)
  BY <1>1 DEF SeqInv, Unmined
<1> QED
  BY <1>1, <1>2

(* What the holder read stays the next sequence until it is answered.      *)
LEMMA HolderStep == ASSUME IInv, [Next]_vars PROVE HolderInv'
<1>0. TypeOK /\ LockInv /\ TxInv /\ SeqInv /\ HolderInv /\ LockInv' /\ TypeOK'
  BY LockStep, TypeStep DEF IInv
<1>1. Serialized' = Serialized /\ Sequenced' = Sequenced /\ req' = req
  BY SameRequests
<1> SUFFICES ASSUME NEW h \in Serialized, pc'[h] \in {"signing", "sent"}, ~behind'[h], ~Foreign'
             PROVE  /\ wire' \cap Sequenced \subseteq {h}
                    /\ verdict'[h] = "none" => acct'[h] = checkSeq'
                    /\ verdict'[h] # "badSequence"
  BY <1>1 DEF HolderInv
<1> DEFINE Goal == /\ wire' \cap Sequenced \subseteq {h}
                   /\ verdict'[h] = "none" => acct'[h] = checkSeq'
                   /\ verdict'[h] # "badSequence"
           Held == /\ wire \cap Sequenced \subseteq {h}
                   /\ verdict[h] = "none" => acct[h] = checkSeq
                   /\ verdict[h] # "badSequence"
<1>2. h \in Calls /\ h \in Sequenced /\ Serialized \subseteq Sequenced
  BY DEF Serialized, Sequenced
<1>3. ~Foreign
  BY <1>0, ForeignStays
<1>4. pc[h] \in {"signing", "sent"} /\ ~behind[h] => Held
  BY <1>0, <1>3 DEF HolderInv
<1>5. seqMu' = h
  BY <1>0, <1>1, <1>2 DEF LockInv, Window
<1>6. ASSUME Account(h) PROVE Goal
  <2>1. /\ acct'[h] = committed /\ Unmined = {} /\ wire' = wire /\ verdict' = verdict
        /\ checkSeq' = checkSeq /\ pc[h] = "locked"
    BY <1>0, <1>2, <1>6 DEF Account, TypeOK, chainVars
  <2>2. verdict[h] = "none"
    BY <1>0, <1>2, <2>1 DEF TxInv
  <2>3. committed = checkSeq
    BY <1>0, <2>1, NothingUnmined
  <2>4. wire \cap Sequenced = {}
    BY <2>1 DEF Unmined
  <2> QED
    BY <2>1, <2>2, <2>3, <2>4
<1>7. ASSUME NEW c \in Calls, BroadcastSync(c) PROVE Goal
  <2>1. c # h => c \notin Sequenced
    <3>1. ASSUME c # h, c \in Serialized PROVE FALSE
      BY <1>0, <1>2, <1>5, <1>7, <3>1 DEF LockInv, Window, BroadcastSync
    <3>2. ASSUME c # h, req[c].op \in CallerSigned PROVE FALSE
      <4>1. pc'[c] = "sent"
        BY <1>0, <1>7 DEF BroadcastSync, Goto, TypeOK
      <4> QED
        BY <1>1, <3>2, <4>1 DEF Foreign
    <3> QED
      BY <3>1, <3>2 DEF Serialized
  <2>2. /\ wire' = wire \cup {c} /\ verdict' = verdict /\ acct' = acct
        /\ checkSeq' = checkSeq /\ behind' = behind
        /\ pc[h] \in {"signing", "sent"}
    BY <1>0, <1>2, <1>7 DEF BroadcastSync, Goto, TypeOK
  <2>3. Held
    BY <1>4, <2>2
  <2> QED
    BY <2>1, <2>2, <2>3
<1>8. ASSUME NEW c \in Calls, CheckTx(c) \/ CheckTxFails(c) PROVE Goal
  <2>1. /\ wire' = wire \ {c} /\ c \in wire /\ acct' = acct /\ behind' = behind /\ pc' = pc
        /\ c # h => verdict'[h] = verdict[h]
    BY <1>0, <1>2, <1>8 DEF CheckTx, CheckTxFails, TypeOK
  <2>2. Held
    BY <1>4, <2>1
  <2>3. CASE c = h
    <3>1. verdict[h] = "none"
      BY <1>0, <1>2, <2>1, <2>3 DEF TxInv
    <3>2. verdict'[h] \in {"ok", "refused"}
      BY <1>0, <1>2, <1>8, <2>2, <2>3, <3>1 DEF CheckTx, CheckTxFails, InOrder, TypeOK
    <3> QED
      BY <2>1, <2>2, <3>2
  <2>4. CASE c # h
    <3>1. c \notin Sequenced
      BY <2>1, <2>2, <2>4
    <3>2. checkSeq' = checkSeq
      BY <1>8, <3>1 DEF CheckTx, CheckTxFails
    <3> QED
      BY <2>1, <2>2, <2>4, <3>2
  <2> QED
    BY <2>3, <2>4
<1>9. ASSUME NEW c \in Calls,
             \/ Accept(c) \/ Deny(c) \/ Lock(c) \/ ExecuteError(c) \/ BroadcastReply(c)
             \/ BroadcastError(c) \/ Lose(c) \/ Mine(c) \/ (Account(c) /\ c # h)
      PROVE  Goal
  <2>1. /\ wire' \subseteq wire /\ verdict' = verdict /\ checkSeq' = checkSeq
        /\ acct'[h] = acct[h] /\ behind'[h] = behind[h] /\ pc'[h] = pc[h]
    BY <1>0, <1>2, <1>9 DEF Accept, Deny, Lock, ExecuteError, BroadcastReply, BroadcastError, Lose,
                            Mine, Account, Return, Goto, TypeOK, chainVars
  <2>2. Held
    BY <1>4, <2>1
  <2> QED
    BY <2>1, <2>2
<1>10. ASSUME Done \/ UNCHANGED vars PROVE Goal
  BY <1>4, <1>10 DEF Done, vars, chainVars
<1>11. Goal
  BY <1>6, <1>7, <1>8, <1>9, <1>10 DEF Next, execute
<1> QED
  BY <1>11

(* A call answered with a bad sequence had a cause.                        *)
LEMMA CauseStep == ASSUME IInv, [Next]_vars PROVE RefusalHasACause'
<1>0. TypeOK /\ HolderInv /\ RefusalHasACause /\ Serialized' = Serialized /\ TypeOK' /\ TxInv
  BY SameRequests, TypeStep DEF IInv
<1>1. Foreign => Foreign'
  BY <1>0, ForeignStays
<1> SUFFICES ASSUME NEW h \in Serialized, outcome'[h] = "badSequence", ~behind'[h], ~Foreign'
             PROVE  FALSE
  BY <1>0 DEF RefusalHasACause, Foreign
<1>2. h \in Calls
  BY DEF Serialized, Sequenced
<1>3. CASE outcome[h] = "badSequence"
  <2>1. behind'[h] = behind[h]
    <3>1. pc[h] = "returned"
      BY <1>0, <1>2, <1>3 DEF TxInv
    <3> QED
      BY <1>0, <1>2, <3>1
      DEF TypeOK, Next, vars, execute, Accept, Deny, Lock, Account, ExecuteError, BroadcastSync,
          BroadcastReply, BroadcastError, CheckTx, CheckTxFails, Lose, Mine, Done
  <2> QED
    BY <1>0, <1>1, <1>3, <2>1 DEF RefusalHasACause, Foreign
<1>4. CASE outcome[h] # "badSequence"
  <2>1. BroadcastReply(h) /\ verdict[h] = "badSequence"
    BY <1>0, <1>2, <1>4
    DEF TypeOK, Next, vars, execute, Accept, Deny, Lock, Account, ExecuteError, BroadcastSync,
        BroadcastReply, BroadcastError, CheckTx, CheckTxFails, Lose, Mine, Done, Return
  <2>2. pc[h] = "sent" /\ behind' = behind
    BY <2>1 DEF BroadcastReply
  <2> QED
    BY <1>0, <1>1, <2>1, <2>2 DEF HolderInv
<1> QED
  BY <1>3, <1>4

-----------------------------------------------------------------------------

(* The inductive invariant holds in every reachable state.                 *)
THEOREM Inductive == Spec => []IInv
<1>1. Init => IInv
  <2> SUFFICES ASSUME Init PROVE IInv
    OBVIOUS
  <2>1. TypeOK
    BY DEF Init, TypeOK
  <2>2. LockInv /\ TxInv /\ HolderInv
    BY OperatorAssumption DEF Init, LockInv, TxInv, HolderInv, Window, Serialized, Sequenced
  <2>3. SeqInv
    BY DEF Init, SeqInv
  <2>4. RefusalHasACause
    BY DEF Init, RefusalHasACause, Serialized, Sequenced
  <2> QED
    BY <2>1, <2>2, <2>3, <2>4 DEF IInv
<1>2. IInv /\ [Next]_vars => IInv'
  <2> SUFFICES ASSUME IInv, [Next]_vars PROVE IInv'
    OBVIOUS
  <2>1. TypeOK'
    BY TypeStep DEF IInv
  <2> QED
    BY <2>1, LockStep, TxStep, SeqStep, HolderStep, CauseStep DEF IInv
<1> QED
  BY <1>1, <1>2, PTL DEF Spec

(* The variables of the operator's calls and of the chain keep their types. *)
THEOREM TypeCorrect == Spec => []TypeOK
<1>1. IInv => TypeOK
  BY DEF IInv
<1> QED
  BY <1>1, Inductive, PTL

(* service.go execute and signAndBroadcastOwn: under seqMu, a sequence     *)
(* refusal is never the work of another call's timing alone.               *)
THEOREM RefusalsExplained == Spec => []RefusalHasACause
<1>1. IInv => RefusalHasACause
  BY DEF IInv
<1> QED
  BY <1>1, Inductive, PTL

(* service.go ExecResult: an ok is admitted, a refused or denied call      *)
(* never lands.                                                            *)
THEOREM OutcomesAreTrue == Spec => []OutcomeIsTrue
<1>1. IInv => OutcomeIsTrue
  BY DEF IInv, TxInv, OutcomeIsTrue
<1> QED
  BY <1>1, Inductive, PTL
=============================================================================
