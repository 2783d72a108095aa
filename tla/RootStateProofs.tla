-------------------------- MODULE RootStateProofs ---------------------------
(***************************************************************************)
(* The epoch heartbeat implements BoundedStaleness, for any number of      *)
(* readers, roots and epochs and any TTL and query duration.               *)
(*                                                                         *)
(* The cache alone says nothing about the chain: the invariant ties each   *)
(* entry, and each answer on its way, to the last instant at which what it *)
(* says was true.                                                          *)
(***************************************************************************)
EXTENDS RootState, TLAPS

Waiting == {"querying", "replied"}

LiveNow == \A r \in Roots : ~chain[r].paused => lastLive[r][chain[r].epoch] = now

NotAhead == \A r \in Roots, e \in Epochs : lastLive[r][e] <= now

CallInv ==
    \A p \in Readers : pc[p] \in Waiting => started[p] <= now /\ now - started[p] <= RpcMax

AnswerInv ==
    \A p \in Readers : pc[p] = "replied" /\ ~resp[p].paused =>
        started[p] <= lastLive[cred[p].root][resp[p].epoch]

CacheInv ==
    \A r \in Roots : epochCache[r].ok =>
        /\ epochCache[r].fetched <= now
        /\ ~epochCache[r].paused =>
              /\ lastLive[r][epochCache[r].epoch] \in Nat
              /\ epochCache[r].fetched - RpcMax <= lastLive[r][epochCache[r].epoch]

IInv == TypeOK /\ LiveNow /\ NotAhead /\ CallInv /\ AnswerInv /\ CacheInv

-----------------------------------------------------------------------------

(* Every transaction of a root's owner sets the root to some other state.  *)
LEMMA OwnerTx ==
    ASSUME TypeOK, NEW r \in Roots, TogglePause(r) \/ NextEpoch(r)
    PROVE  \E s \in RootView : SetRoot(r, s)
<1>1. chain[r] \in RootView
  BY DEF TypeOK
<1>2. CASE TogglePause(r)
  <2>1. [chain[r] EXCEPT !.paused = ~chain[r].paused] \in RootView
    BY <1>1 DEF RootView
  <2> QED
    BY <1>2, <2>1 DEF TogglePause
<1>3. CASE NextEpoch(r)
  <2>1. [chain[r] EXCEPT !.epoch = chain[r].epoch + 1] \in RootView
    BY <1>1, <1>3 DEF RootView, NextEpoch
  <2> QED
    BY <1>3, <2>1 DEF NextEpoch
<1> QED
  BY <1>2, <1>3

(* What SetRoot does to the history, entry by entry.                       *)
LEMMA SetRootHistory ==
    ASSUME TypeOK, NEW r \in Roots, NEW s \in RootView, SetRoot(r, s)
    PROVE  /\ lastLive' \in [Roots -> [Epochs -> Nat \cup {Never}]]
           /\ \A q \in Roots, e \in Epochs :
                 lastLive'[q][e] = IF q = r /\ e = s.epoch /\ ~s.paused
                                   THEN now ELSE lastLive[q][e]
<1>1. now \in Nat /\ s.epoch \in Epochs /\ s.paused \in BOOLEAN
      /\ lastLive \in [Roots -> [Epochs -> Nat \cup {Never}]]
  BY RootStateAssumption DEF TypeOK, RootView
<1>2. CASE s.paused
  <2>1. lastLive' = lastLive
    BY <1>2 DEF SetRoot
  <2> QED
    BY <1>1, <1>2, <2>1
<1>3. CASE ~s.paused
  <2> DEFINE row == [lastLive[r] EXCEPT ![s.epoch] = now]
  <2>1. lastLive' = [lastLive EXCEPT ![r] = row]
    BY <1>3 DEF SetRoot
  <2>2. row \in [Epochs -> Nat \cup {Never}]
    BY <1>1
  <2>3. \A e \in Epochs : row[e] = IF e = s.epoch THEN now ELSE lastLive[r][e]
    BY <1>1
  <2> HIDE DEF row
  <2> QED
    BY <1>1, <1>3, <2>1, <2>2, <2>3
<1> QED
  BY <1>1, <1>2, <1>3

(* No step leaves the types of the variables.                              *)
LEMMA TypeStep == ASSUME TypeOK, [Next]_vars PROVE TypeOK'
<1>7. ASSUME NEW r \in Roots, TogglePause(r) \/ NextEpoch(r)
      PROVE  \E s \in RootView : SetRoot(r, s)
  BY <1>7, OwnerTx
<1> USE DEF TypeOK, RootView, Entry
<1>0. now \in Nat
  BY RootStateAssumption
<1>1. ASSUME NEW p \in Readers, CacheHit(p) PROVE TypeOK'
  BY <1>1 DEF CacheHit, Verdict
<1>2. ASSUME NEW p \in Readers, CacheMiss(p) PROVE TypeOK'
  BY <1>0, <1>2 DEF CacheMiss
<1>3. ASSUME NEW p \in Readers, ChainAnswers(p) PROVE TypeOK'
  BY <1>3 DEF ChainAnswers
<1>4. ASSUME NEW p \in Readers, EpochReply(p) PROVE TypeOK'
  BY <1>0, <1>4, RootStateAssumption DEF EpochReply, Return, Verdict, NoView
<1>5. ASSUME NEW p \in Readers, EpochError(p) PROVE TypeOK'
  BY <1>5, RootStateAssumption DEF EpochError, Return, NoView
<1>6. ASSUME NEW r \in Roots, NEW s \in RootView, SetRoot(r, s) PROVE TypeOK'
  <2>1. lastLive' \in [Roots -> [Epochs -> Nat \cup {Never}]]
    BY <1>6, SetRootHistory
  <2> QED
    BY <1>0, <1>6, <2>1 DEF SetRoot
<1>8. ASSUME Tick PROVE TypeOK'
  <2>1. now' \in 0 .. MaxTime
    BY <1>0, <1>8, RootStateAssumption DEF Tick
  <2>2. lastLive' \in [Roots -> [Epochs -> Nat \cup {Never}]]
    BY <1>0, <1>8 DEF Tick
  <2> QED
    BY <1>8, <2>1, <2>2 DEF Tick
<1>9. ASSUME UNCHANGED vars PROVE TypeOK'
  BY <1>9 DEF vars
<1> QED
  BY <1>1, <1>2, <1>3, <1>4, <1>5, <1>6, <1>7, <1>8, <1>9 DEF Next, checkRootState

(* The history variable only grows, and so does the clock.                 *)
LEMMA HistoryGrows ==
    ASSUME IInv, [Next]_vars
    PROVE  /\ now \in Nat /\ now' \in Nat /\ now <= now' /\ cred' = cred
           /\ \A r \in Roots, e \in Epochs :
                 /\ lastLive[r][e] \in Nat \cup {Never}
                 /\ lastLive'[r][e] \in Nat \cup {Never}
                 /\ lastLive[r][e] <= lastLive'[r][e]
                 /\ lastLive'[r][e] <= now'
<1> DEFINE Goal == /\ now <= now' /\ cred' = cred
                   /\ \A r \in Roots, e \in Epochs :
                         /\ lastLive[r][e] <= lastLive'[r][e]
                         /\ lastLive'[r][e] <= now'
<1>0. /\ TypeOK /\ NotAhead /\ TypeOK' /\ now \in Nat /\ now' \in Nat
      /\ \A r \in Roots, e \in Epochs :
            lastLive[r][e] \in Nat \cup {Never} /\ lastLive'[r][e] \in Nat \cup {Never}
  BY TypeStep, RootStateAssumption DEF IInv, TypeOK
<1>1. ASSUME UNCHANGED <<now, lastLive, cred>> PROVE Goal
  BY <1>0, <1>1 DEF NotAhead, Never
<1>2. ASSUME NEW p \in Readers, checkRootState(p) PROVE UNCHANGED <<now, lastLive, cred>>
  BY <1>2 DEF checkRootState, CacheHit, CacheMiss, ChainAnswers, EpochReply, EpochError
<1>3. ASSUME NEW r \in Roots, NEW s \in RootView, SetRoot(r, s) PROVE Goal
  <2>1. \A q \in Roots, e \in Epochs : lastLive'[q][e] = lastLive[q][e] \/ lastLive'[q][e] = now
    BY <1>0, <1>3, SetRootHistory
  <2>2. now' = now /\ cred' = cred
    BY <1>3 DEF SetRoot
  <2> QED
    BY <1>0, <2>1, <2>2 DEF NotAhead, Never
<1>4. ASSUME NEW r \in Roots, TogglePause(r) \/ NextEpoch(r)
      PROVE  \E s \in RootView : SetRoot(r, s)
  BY <1>0, <1>4, OwnerTx
<1>5. ASSUME Tick PROVE Goal
  <2>1. \A q \in Roots, e \in Epochs : lastLive'[q][e] = lastLive[q][e] \/ lastLive'[q][e] = now + 1
    BY <1>0, <1>5 DEF Tick
  <2>2. now' = now + 1 /\ cred' = cred
    BY <1>5 DEF Tick
  <2> QED
    BY <1>0, <2>1, <2>2 DEF NotAhead, Never
<1>6. Goal
  BY <1>1, <1>2, <1>3, <1>4, <1>5 DEF Next, vars
<1> QED
  BY <1>0, <1>6

(* The initial states satisfy the inductive invariant.                     *)
LEMMA InitIInv == Init => IInv
<1> SUFFICES ASSUME Init PROVE IInv
  OBVIOUS
<1>1. TypeOK
  BY RootStateAssumption DEF Init, TypeOK, RootView, Entry, NoView
<1>2. LiveNow /\ NotAhead /\ CallInv /\ AnswerInv /\ CacheInv
  BY RootStateAssumption
     DEF Init, LiveNow, NotAhead, CallInv, AnswerInv, CacheInv, Waiting, Never
<1> QED
  BY <1>1, <1>2 DEF IInv

(* A root that is live is on record as live now.                           *)
LEMMA LiveNowStep == ASSUME IInv, [Next]_vars PROVE LiveNow'
<1>0. TypeOK /\ LiveNow /\ now \in Nat
  BY RootStateAssumption DEF IInv, TypeOK
<1>1. ASSUME UNCHANGED <<now, lastLive, chain>> PROVE LiveNow'
  BY <1>0, <1>1 DEF LiveNow
<1>2. ASSUME NEW p \in Readers, checkRootState(p) PROVE UNCHANGED <<now, lastLive, chain>>
  BY <1>2 DEF checkRootState, CacheHit, CacheMiss, ChainAnswers, EpochReply, EpochError
<1>3. ASSUME NEW r \in Roots, NEW s \in RootView, SetRoot(r, s) PROVE LiveNow'
  <2>1. \A q \in Roots : chain'[q] = (IF q = r THEN s ELSE chain[q]) /\ chain[q].epoch \in Epochs
    BY <1>0, <1>3 DEF SetRoot, TypeOK, RootView
  <2>2. s.epoch \in Epochs /\ now' = now
    BY <1>3 DEF SetRoot, RootView
  <2>3. \A q \in Roots, e \in Epochs :
           lastLive'[q][e] = IF q = r /\ e = s.epoch /\ ~s.paused THEN now ELSE lastLive[q][e]
    BY <1>0, <1>3, SetRootHistory
  <2> QED
    BY <1>0, <2>1, <2>2, <2>3 DEF LiveNow
<1>4. ASSUME NEW r \in Roots, TogglePause(r) \/ NextEpoch(r)
      PROVE  \E s \in RootView : SetRoot(r, s)
  BY <1>0, <1>4, OwnerTx
<1>5. ASSUME Tick PROVE LiveNow'
  <2>1. \A q \in Roots : chain'[q] = chain[q] /\ chain[q].epoch \in Epochs
    BY <1>0, <1>5 DEF Tick, TypeOK, RootView
  <2> QED
    BY <1>5, <2>1 DEF Tick, LiveNow
<1> QED
  BY <1>1, <1>2, <1>3, <1>4, <1>5 DEF Next, vars

(* No query outlives its timeout.                                          *)
LEMMA CallInvStep == ASSUME IInv, [Next]_vars PROVE CallInv'
<1>0. TypeOK /\ CallInv /\ now \in Nat /\ RpcMax \in Nat
  BY RootStateAssumption DEF IInv, TypeOK
<1> USE DEF CallInv, Waiting, TypeOK
<1>1. ASSUME NEW p \in Readers, CacheHit(p) PROVE CallInv'
  BY <1>0, <1>1 DEF CacheHit, Verdict
<1>2. ASSUME NEW p \in Readers, CacheMiss(p) PROVE CallInv'
  BY <1>0, <1>2 DEF CacheMiss
<1>3. ASSUME NEW p \in Readers, ChainAnswers(p) PROVE CallInv'
  BY <1>0, <1>3 DEF ChainAnswers
<1>4. ASSUME NEW p \in Readers, EpochReply(p) PROVE CallInv'
  BY <1>0, <1>4 DEF EpochReply, Return, Verdict
<1>5. ASSUME NEW p \in Readers, EpochError(p) PROVE CallInv'
  BY <1>0, <1>5 DEF EpochError, Return
<1>6. ASSUME UNCHANGED <<pc, started, now>> PROVE CallInv'
  BY <1>0, <1>6
<1>7. ASSUME NEW r \in Roots, TogglePause(r) \/ NextEpoch(r) PROVE UNCHANGED <<pc, started, now>>
  BY <1>7 DEF TogglePause, NextEpoch, SetRoot
<1>8. ASSUME Tick PROVE CallInv'
  BY <1>0, <1>8 DEF Tick
<1> QED
  BY <1>1, <1>2, <1>3, <1>4, <1>5, <1>6, <1>7, <1>8 DEF Next, checkRootState, vars

(* An answer on its way was true at some instant since its query was sent. *)
LEMMA AnswerInvStep == ASSUME IInv, [Next]_vars PROVE AnswerInv'
<1>0. TypeOK /\ TypeOK' /\ AnswerInv /\ LiveNow /\ CallInv
  BY TypeStep DEF IInv
<1>1. /\ now \in Nat /\ cred' = cred
      /\ \A r \in Roots, e \in Epochs :
            /\ lastLive[r][e] \in Nat \cup {Never}
            /\ lastLive'[r][e] \in Nat \cup {Never}
            /\ lastLive[r][e] <= lastLive'[r][e]
  BY HistoryGrows
<1> SUFFICES ASSUME NEW u \in Readers, pc'[u] = "replied", ~resp'[u].paused
             PROVE  started'[u] <= lastLive'[cred'[u].root][resp'[u].epoch]
  BY DEF AnswerInv
<1>2. /\ cred[u].root \in Roots /\ resp'[u].epoch \in Epochs /\ resp[u].epoch \in Epochs
      /\ started[u] \in Nat
  BY <1>0 DEF TypeOK, RootView
<1>3. CASE UNCHANGED <<pc[u], resp[u], started[u]>>
  <2>1. started[u] <= lastLive[cred[u].root][resp[u].epoch]
    BY <1>0, <1>3 DEF AnswerInv
  <2> QED
    BY <1>1, <1>2, <1>3, <2>1 DEF Never
<1>4. CASE ChainAnswers(u)
  <2>1. /\ resp'[u] = chain[cred[u].root] /\ started'[u] = started[u]
        /\ lastLive' = lastLive /\ pc[u] = "querying"
    BY <1>0, <1>4 DEF ChainAnswers, TypeOK
  <2>2. lastLive[cred[u].root][resp'[u].epoch] = now
    BY <1>0, <1>2, <2>1 DEF LiveNow
  <2>3. started[u] <= now
    BY <1>0, <2>1 DEF CallInv, Waiting
  <2> QED
    BY <1>1, <2>1, <2>2, <2>3
<1>5. UNCHANGED <<pc[u], resp[u], started[u]>> \/ ChainAnswers(u)
  <2>1. ASSUME NEW p \in Readers, CacheHit(p) \/ CacheMiss(p) \/ EpochReply(p) \/ EpochError(p)
        PROVE  UNCHANGED <<pc[u], resp[u], started[u]>>
    BY <1>0, <2>1 DEF CacheHit, CacheMiss, EpochReply, EpochError, Return, Verdict, TypeOK
  <2>2. ASSUME NEW p \in Readers, ChainAnswers(p), p # u
        PROVE  UNCHANGED <<pc[u], resp[u], started[u]>>
    BY <1>0, <2>2 DEF ChainAnswers, TypeOK
  <2>3. ASSUME NEW r \in Roots, TogglePause(r) \/ NextEpoch(r)
        PROVE  UNCHANGED <<pc[u], resp[u], started[u]>>
    BY <2>3 DEF TogglePause, NextEpoch, SetRoot
  <2>4. ASSUME Tick \/ UNCHANGED vars PROVE UNCHANGED <<pc[u], resp[u], started[u]>>
    BY <2>4 DEF Tick, vars
  <2> QED
    BY <2>1, <2>2, <2>3, <2>4 DEF Next, checkRootState
<1> QED
  BY <1>3, <1>4, <1>5

(* A cached entry was true at most RpcMax seconds before it was stamped.   *)
LEMMA CacheInvStep == ASSUME IInv, [Next]_vars PROVE CacheInv'
<1>0. TypeOK /\ TypeOK' /\ AnswerInv /\ CallInv /\ CacheInv /\ RpcMax \in Nat
  BY TypeStep, RootStateAssumption DEF IInv
<1>1. /\ now \in Nat /\ now' \in Nat /\ now <= now' /\ cred' = cred
      /\ \A r \in Roots, e \in Epochs :
            /\ lastLive[r][e] \in Nat \cup {Never}
            /\ lastLive'[r][e] \in Nat \cup {Never}
            /\ lastLive[r][e] <= lastLive'[r][e]
  BY HistoryGrows
<1> SUFFICES ASSUME NEW q \in Roots, epochCache'[q].ok
             PROVE  /\ epochCache'[q].fetched <= now'
                    /\ ~epochCache'[q].paused =>
                          /\ lastLive'[q][epochCache'[q].epoch] \in Nat
                          /\ epochCache'[q].fetched - RpcMax <= lastLive'[q][epochCache'[q].epoch]
  BY DEF CacheInv
<1>2. epochCache[q].fetched \in Nat /\ epochCache[q].epoch \in Epochs
  BY <1>0 DEF TypeOK, Entry
<1>3. CASE epochCache'[q] = epochCache[q]
  <2>1. /\ epochCache[q].fetched <= now
        /\ ~epochCache[q].paused =>
              /\ lastLive[q][epochCache[q].epoch] \in Nat
              /\ epochCache[q].fetched - RpcMax <= lastLive[q][epochCache[q].epoch]
    BY <1>0, <1>3 DEF CacheInv
  <2> QED
    BY <1>0, <1>1, <1>2, <1>3, <2>1 DEF Never
<1>4. ASSUME NEW p \in Readers, EpochReply(p), cred[p].root = q
      PROVE  /\ epochCache'[q].fetched <= now'
             /\ ~epochCache'[q].paused =>
                   /\ lastLive'[q][epochCache'[q].epoch] \in Nat
                   /\ epochCache'[q].fetched - RpcMax <= lastLive'[q][epochCache'[q].epoch]
  <2>1. /\ epochCache'[q] = [ok |-> TRUE, epoch |-> resp[p].epoch, paused |-> resp[p].paused,
                             fetched |-> now]
        /\ now' = now /\ lastLive' = lastLive /\ pc[p] = "replied"
    BY <1>0, <1>4 DEF EpochReply, TypeOK
  <2>2. started[p] <= now /\ now - started[p] <= RpcMax /\ started[p] \in Nat /\ resp[p].epoch \in Epochs
    BY <1>0, <2>1 DEF CallInv, Waiting, TypeOK, RootView
  <2>3. ~resp[p].paused => started[p] <= lastLive[q][resp[p].epoch]
    BY <1>0, <1>4, <2>1 DEF AnswerInv
  <2> QED
    BY <1>0, <1>1, <2>1, <2>2, <2>3 DEF Never
<1>5. epochCache'[q] = epochCache[q] \/ \E p \in Readers : EpochReply(p) /\ cred[p].root = q
  <2>1. ASSUME NEW p \in Readers, EpochReply(p), cred[p].root # q
        PROVE  epochCache'[q] = epochCache[q]
    BY <1>0, <2>1 DEF EpochReply, TypeOK
  <2>2. ASSUME NEW p \in Readers, CacheHit(p) \/ CacheMiss(p) \/ ChainAnswers(p) \/ EpochError(p)
        PROVE  epochCache' = epochCache
    BY <2>2 DEF CacheHit, CacheMiss, ChainAnswers, EpochError
  <2>3. ASSUME NEW r \in Roots, TogglePause(r) \/ NextEpoch(r) PROVE epochCache' = epochCache
    BY <2>3 DEF TogglePause, NextEpoch, SetRoot
  <2>4. ASSUME Tick \/ UNCHANGED vars PROVE epochCache' = epochCache
    BY <2>4 DEF Tick, vars
  <2> QED
    BY <2>1, <2>2, <2>3, <2>4 DEF Next, checkRootState
<1> QED
  BY <1>3, <1>4, <1>5

(* The inductive invariant holds in every reachable state.                 *)
THEOREM Inductive == Spec => []IInv
<1>1. IInv /\ [Next]_vars => IInv'
  <2> SUFFICES ASSUME IInv, [Next]_vars PROVE IInv'
    OBVIOUS
  <2>1. TypeOK' /\ NotAhead'
    BY TypeStep, HistoryGrows DEF IInv, NotAhead
  <2> QED
    BY <2>1, LiveNowStep, CallInvStep, AnswerInvStep, CacheInvStep DEF IInv
<1> QED
  BY <1>1, InitIInv, PTL DEF Spec

-----------------------------------------------------------------------------

(* The variables of checkRootState keep their types.                       *)
THEOREM TypeCorrect == Spec => []TypeOK
<1>1. IInv => TypeOK
  BY DEF IInv
<1> QED
  BY <1>1, Inductive, PTL

(* A cached answer that is still fresh, and says live, was true within the *)
(* bound.                                                                  *)
LEMMA FreshWithinBound ==
    ASSUME IInv, NEW r \in Roots, NEW e \in Epochs,
           Fresh(epochCache[r]), Verdict(epochCache[r], e) = "granted"
    PROVE  /\ lastLive[r][e] # Never
           /\ now - lastLive[r][e] <= epochCacheTTL - 1 + RpcMax
<1>1. /\ now \in Nat /\ RpcMax \in Nat /\ epochCacheTTL \in Nat
      /\ epochCache[r].fetched \in Nat
  BY RootStateAssumption DEF IInv, TypeOK, Entry
<1>2. epochCache[r].ok /\ now - epochCache[r].fetched < epochCacheTTL
  BY DEF Fresh
<1>3. ~epochCache[r].paused /\ epochCache[r].epoch = e
  BY DEF Verdict
<1>4. lastLive[r][e] \in Nat /\ epochCache[r].fetched - RpcMax <= lastLive[r][e]
  BY <1>2, <1>3 DEF IInv, CacheInv
<1> QED
  BY <1>1, <1>2, <1>4 DEF Never

(* An answer just received, that says live, was true within the bound: the *)
(* query that fetched it has not timed out.                                *)
LEMMA AnswerWithinBound ==
    ASSUME IInv, NEW p \in Readers, pc[p] = "replied",
           Verdict(resp[p], cred[p].epoch) = "granted"
    PROVE  /\ lastLive[cred[p].root][cred[p].epoch] # Never
           /\ now - lastLive[cred[p].root][cred[p].epoch] <= epochCacheTTL - 1 + RpcMax
<1> DEFINE l == lastLive[cred[p].root][cred[p].epoch]
<1>1. /\ now \in Nat /\ RpcMax \in Nat /\ epochCacheTTL \in Nat \ {0}
      /\ started[p] \in Nat /\ l \in Nat \cup {Never}
  <2>1. TypeOK
    BY DEF IInv
  <2>2. cred[p].root \in Roots /\ cred[p].epoch \in Epochs /\ started[p] \in Nat
    BY <2>1 DEF TypeOK
  <2>3. lastLive \in [Roots -> [Epochs -> Nat \cup {Never}]]
    BY <2>1 DEF TypeOK
  <2>4. l \in Nat \cup {Never}
    BY <2>2, <2>3
  <2>5. now \in Nat
    BY <2>1, RootStateAssumption DEF TypeOK
  <2> QED
    BY <2>2, <2>4, <2>5, RootStateAssumption
<1>2. ~resp[p].paused /\ resp[p].epoch = cred[p].epoch
  BY DEF Verdict
<1>3. started[p] <= l
  BY <1>2 DEF IInv, AnswerInv
<1>4. now - started[p] <= RpcMax
  BY DEF IInv, CallInv, Waiting
<1> HIDE DEF l
<1>5. l # Never /\ now - l <= epochCacheTTL - 1 + RpcMax
  BY <1>1, <1>3, <1>4 DEF Never
<1> QED
  BY <1>5 DEF l

(* reads.go: once the bound has passed since a root was last live, no      *)
(* fresh cache entry grants a read under it.                               *)
THEOREM RevocationReaches == Spec => []RevocationReachesCache
<1>1. IInv => RevocationReachesCache
  <2> SUFFICES ASSUME IInv, NEW r \in Roots, NEW e \in Epochs,
                      now - lastLive[r][e] > epochCacheTTL - 1 + RpcMax,
                      Fresh(epochCache[r]), Verdict(epochCache[r], e) = "granted"
               PROVE  FALSE
    BY DEF RevocationReachesCache
  <2>1. now - lastLive[r][e] <= epochCacheTTL - 1 + RpcMax
    BY FreshWithinBound
  <2>2. /\ now \in Int /\ lastLive[r][e] \in Int /\ epochCacheTTL \in Int /\ RpcMax \in Int
    BY RootStateAssumption DEF IInv, TypeOK, Never
  <2> QED
    BY <2>1, <2>2
<1> QED
  BY <1>1, Inductive, PTL

-----------------------------------------------------------------------------
(* The refinement: each step of checkRootState is a step of the promise or *)
(* changes nothing it speaks of.                                           *)

(* A reader that moves between undecided states is invisible.              *)
LEMMA Undecided ==
    ASSUME TypeOK, NEW p \in Readers, NEW to \in {"querying", "replied"},
           pc[p] \in {"idle", "querying", "replied"}, pc' = [pc EXCEPT ![p] = to]
    PROVE  outcome' = outcome
  BY DEF TypeOK, outcome

(* A reader that decides sets its own outcome, once.                       *)
LEMMA Decided ==
    ASSUME TypeOK, NEW p \in Readers, NEW verdict \in {"granted", "refused"},
           pc[p] \in {"idle", "querying", "replied"}, pc' = [pc EXCEPT ![p] = verdict]
    PROVE  outcome[p] = "none" /\ outcome' = [outcome EXCEPT ![p] = verdict]
  BY DEF TypeOK, outcome

(* A decision is a Refuse, or a Grant when the root was live within the    *)
(* bound.                                                                  *)
LEMMA DecisionImplements ==
    ASSUME TypeOK, NEW p \in Readers, NEW verdict \in {"granted", "refused"},
           pc[p] \in {"idle", "querying", "replied"}, pc' = [pc EXCEPT ![p] = verdict],
           UNCHANGED <<now, chain, lastLive, cred>>,
           verdict = "granted" =>
              /\ lastLive[cred[p].root][cred[p].epoch] # Never
              /\ now - lastLive[cred[p].root][cred[p].epoch] <= epochCacheTTL - 1 + RpcMax
    PROVE  Promise!Next
<1>1. outcome[p] = "none" /\ outcome' = [outcome EXCEPT ![p] = verdict]
  BY Decided
<1>2. CASE verdict = "granted"
  <2>1. Promise!WasLive(cred[p].root, cred[p].epoch)
    BY <1>2 DEF Promise!WasLive, Promise!Never, Never
  <2>2. Promise!Grant(p)
    BY <1>1, <1>2, <2>1 DEF Promise!Grant
  <2> QED
    BY <2>2 DEF Promise!Next
<1>3. CASE verdict = "refused"
  <2>1. Promise!Refuse(p)
    BY <1>1, <1>3 DEF Promise!Refuse
  <2> QED
    BY <2>1 DEF Promise!Next
<1> QED
  BY <1>2, <1>3

(* Every step of the heartbeat is a step of the promise, or stutters.      *)
LEMMA StepImplements == ASSUME IInv, [Next]_vars PROVE [Promise!Next]_(Promise!vars)
<1>0. TypeOK
  BY DEF IInv
<1>1. ASSUME NEW p \in Readers, CacheHit(p) PROVE Promise!Next
  <2>1. Fresh(epochCache[cred[p].root]) /\ cred[p].root \in Roots /\ cred[p].epoch \in Epochs
    BY <1>0, <1>1 DEF CacheHit, TypeOK
  <2> DEFINE v == Verdict(epochCache[cred[p].root], cred[p].epoch)
  <2>2. v = "granted" =>
           /\ lastLive[cred[p].root][cred[p].epoch] # Never
           /\ now - lastLive[cred[p].root][cred[p].epoch] <= epochCacheTTL - 1 + RpcMax
    BY <2>1, FreshWithinBound
  <2>3. v \in {"granted", "refused"}
    BY DEF Verdict
  <2>4. pc[p] = "idle" /\ pc' = [pc EXCEPT ![p] = v] /\ UNCHANGED <<now, chain, lastLive, cred>>
    BY <1>1 DEF CacheHit
  <2> HIDE DEF v
  <2> QED
    BY <1>0, <2>2, <2>3, <2>4, DecisionImplements
<1>2. ASSUME NEW p \in Readers, EpochReply(p) PROVE Promise!Next
  <2> DEFINE v == Verdict(resp[p], cred[p].epoch)
  <2>1. pc[p] = "replied" /\ pc' = [pc EXCEPT ![p] = v] /\ UNCHANGED <<now, chain, lastLive, cred>>
    BY <1>2 DEF EpochReply, Return
  <2>2. v = "granted" =>
           /\ lastLive[cred[p].root][cred[p].epoch] # Never
           /\ now - lastLive[cred[p].root][cred[p].epoch] <= epochCacheTTL - 1 + RpcMax
    BY <2>1, AnswerWithinBound
  <2>3. v \in {"granted", "refused"}
    BY DEF Verdict
  <2> HIDE DEF v
  <2> QED
    BY <1>0, <2>1, <2>2, <2>3, DecisionImplements
<1>3. ASSUME NEW p \in Readers, EpochError(p) PROVE Promise!Next
  <2>1. /\ pc[p] \in {"querying", "replied"} /\ pc' = [pc EXCEPT ![p] = "refused"]
        /\ UNCHANGED <<now, chain, lastLive, cred>>
    BY <1>3 DEF EpochError, Return
  <2> QED
    BY <1>0, <2>1, DecisionImplements
<1>4. ASSUME NEW p \in Readers, CacheMiss(p) \/ ChainAnswers(p) PROVE UNCHANGED Promise!vars
  <2>1. UNCHANGED <<now, chain, lastLive, cred>>
    BY <1>4 DEF CacheMiss, ChainAnswers
  <2>2. outcome' = outcome
    BY <1>0, <1>4, Undecided DEF CacheMiss, ChainAnswers
  <2> QED
    BY <2>1, <2>2 DEF Promise!vars
<1>5. ASSUME NEW r \in Roots, TogglePause(r) \/ NextEpoch(r) PROVE Promise!Next
  <2>1. outcome' = outcome
    BY <1>5 DEF TogglePause, NextEpoch, SetRoot, outcome
  <2>2. Promise!Revoke(r)
    BY <1>5, <2>1 DEF TogglePause, NextEpoch, SetRoot, Promise!Revoke, Promise!SetRoot
  <2> QED
    BY <2>2 DEF Promise!Next
<1>6. ASSUME Tick PROVE Promise!Next
  <2>1. outcome' = outcome
    BY <1>6 DEF Tick, outcome
  <2>2. Promise!Tick
    BY <1>6, <2>1 DEF Tick, Promise!Tick, Promise!Live
  <2> QED
    BY <2>2 DEF Promise!Next
<1>7. ASSUME UNCHANGED vars PROVE UNCHANGED Promise!vars
  BY <1>7 DEF vars, Promise!vars, outcome
<1> QED
  BY <1>1, <1>2, <1>3, <1>4, <1>5, <1>6, <1>7 DEF Next, checkRootState

(* reads.go checkRootState implements BoundedStaleness with the TTL plus   *)
(* one query's duration as the bound.                                      *)
THEOREM Refinement == Spec => KeepsPromise
<1>1. Init => Promise!Init
  BY DEF Init, Promise!Init, outcome, Never, Promise!Never
<1>2. IInv /\ [Next]_vars => [Promise!Next]_(Promise!vars)
  BY StepImplements
<1> QED
  BY <1>1, <1>2, Inductive, PTL DEF Spec, KeepsPromise, Promise!Spec
=============================================================================
