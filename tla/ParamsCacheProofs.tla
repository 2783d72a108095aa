------------------------- MODULE ParamsCacheProofs --------------------------
(***************************************************************************)
(* walletParams implements BoundedRegister and makes no call wait longer   *)
(* than WaitBounded says, for any number of calls and params changes and   *)
(* any TTL and query duration.                                             *)
(*                                                                         *)
(* What the cache says has to be tied to the chain (the last instant it    *)
(* was true), to what earlier calls returned (so that no result is older   *)
(* than one before it) and to the answer the holder of paramsMu is waiting *)
(* for.  The wait of a call is counted in calls that have returned.        *)
(***************************************************************************)
EXTENDS ParamsCache, FiniteSetTheorems, TLAPS

Asking == {"querying", "replied"}

\* Behind the nil check and after an answer there are params.
ParamsInv ==
    /\ cached.ok => cached.version \in Versions
    /\ \A c \in Calls : pc[c] = "replied" => resp[c] \in Versions

\* paramsMu is held exactly over the query.
LockInv == \A c \in Calls : (paramsMu = c) <=> (pc[c] \in Asking)

\* The version in force is the newest there was, and is so now.
ChainInv ==
    /\ lastIn[params] = now
    /\ \A v \in Versions : lastIn[v] <= now /\ (lastIn[v] # Never => v <= params)

\* A query within its timeout.
QueryInv == \A c \in Calls : pc[c] \in Asking => started[c] <= now /\ now - started[c] <= RpcMax

\* An answer was true after its query began, and is no older than the cache.
AnswerInv ==
    \A c \in Calls : pc[c] = "replied" =>
        /\ resp[c] <= params
        /\ lastIn[resp[c]] \in Nat /\ started[c] <= lastIn[resp[c]]
        /\ cached.ok => cached.version <= resp[c]

\* What is cached was true at most one query before it was stored.
CacheInv ==
    cached.ok => /\ cached.version <= params
                 /\ cached.fetched <= now
                 /\ lastIn[cached.version] \in Nat
                 /\ cached.fetched - RpcMax <= lastIn[cached.version]

\* No call has returned a version newer than the cached one.
ResultInv ==
    \A c \in Calls :
        /\ (result[c] = Pending) <=> (pc[c] # "returned")
        /\ result[c] \in Versions => cached.ok /\ result[c] <= cached.version

Safe == TypeOK /\ ParamsInv /\ LockInv /\ ChainInv /\ QueryInv /\ AnswerInv /\ CacheInv /\ ResultInv

Returned == {d \in Calls : pc[d] = "returned"}

\* When the query that is out began; now, if there is none.
Since == IF paramsMu = NoCall THEN now ELSE started[paramsMu]

(* One query's duration for every call that has returned: that long a call *)
(* waited until the present query began, its own included.                 *)
WaitInv ==
    \A c \in Calls : pc[c] \in {"waiting", "querying", "replied"} =>
        Since - arrived[c] <= RpcMax * Cardinality(Returned)

IInv == Safe /\ WaitInv

-----------------------------------------------------------------------------

(* The constants and the clock, as numbers.                                *)
LEMMA Numbers ==
    ASSUME TypeOK
    PROVE  /\ now \in Nat /\ RpcMax \in Nat /\ paramsCacheTTL \in Nat \ {0} /\ MaxTime \in Nat
           /\ params \in Nat /\ params \in Versions /\ Versions \subseteq Nat
           /\ \A c \in Calls : arrived[c] \in Nat /\ started[c] \in Nat
           /\ \A v \in Versions : lastIn[v] \in Nat \cup {Never}
           /\ cached.fetched \in Nat
BY ParamsAssumption DEF TypeOK

(* No step leaves the types of the variables.                              *)
LEMMA TypeStep == ASSUME TypeOK, ParamsInv, [Next]_vars PROVE TypeOK' /\ ParamsInv'
<1> USE DEF TypeOK, ParamsInv
<1>0. now \in 0 .. MaxTime /\ 0 \in 0 .. MaxTime /\ MaxTime \in Nat
  BY ParamsAssumption
<1>1. ASSUME NEW c \in Calls, Call(c) PROVE TypeOK' /\ ParamsInv'
  BY <1>0, <1>1 DEF Call
<1>2. ASSUME NEW c \in Calls, CacheHit(c) PROVE TypeOK' /\ ParamsInv'
  BY <1>0, <1>2 DEF CacheHit, Return, Fresh
<1>3. ASSUME NEW c \in Calls, CacheMiss(c) PROVE TypeOK' /\ ParamsInv'
  BY <1>0, <1>3 DEF CacheMiss
<1>4. ASSUME NEW c \in Calls, ChainAnswers(c) PROVE TypeOK' /\ ParamsInv'
  BY <1>0, <1>4 DEF ChainAnswers
<1>5. ASSUME NEW c \in Calls, ParamsReply(c) PROVE TypeOK' /\ ParamsInv'
  BY <1>0, <1>5 DEF ParamsReply, Return
<1>6. ASSUME NEW c \in Calls, ParamsError(c) PROVE TypeOK' /\ ParamsInv'
  BY <1>0, <1>6 DEF ParamsError, Return
<1>7. ASSUME Govern PROVE TypeOK' /\ ParamsInv'
  BY <1>0, <1>7 DEF Govern
<1>8. ASSUME Tick PROVE TypeOK' /\ ParamsInv'
  <2>1. now' \in 0 .. MaxTime
    BY <1>0, <1>8 DEF Tick
  <2> QED
    BY <1>0, <1>8, <2>1 DEF Tick
<1>9. ASSUME UNCHANGED vars PROVE TypeOK' /\ ParamsInv'
  BY <1>9 DEF vars
<1> QED
  BY <1>1, <1>2, <1>3, <1>4, <1>5, <1>6, <1>7, <1>8, <1>9 DEF Next, walletParams, Done

(* The clock and the chain only move forward.                              *)
LEMMA HistoryGrows ==
    ASSUME Safe, [Next]_vars
    PROVE  /\ now <= now' /\ params <= params'
           /\ \A v \in Versions : lastIn[v] <= lastIn'[v] /\ lastIn'[v] <= now'
           /\ ChainInv'
<1>0. /\ TypeOK /\ ChainInv /\ now \in Nat /\ params \in Nat /\ params \in Versions
      /\ Versions \subseteq Nat
      /\ \A v \in Versions : lastIn[v] \in Nat \cup {Never}
      /\ lastIn = [v \in Versions |-> lastIn[v]]
  BY Numbers DEF Safe, TypeOK
<1> DEFINE Goal == /\ now <= now' /\ params <= params'
                   /\ \A v \in Versions : lastIn[v] <= lastIn'[v] /\ lastIn'[v] <= now'
                   /\ ChainInv'
<1>1. ASSUME UNCHANGED <<now, params, lastIn>> PROVE Goal
  BY <1>0, <1>1 DEF ChainInv, Never
<1>2. ASSUME NEW c \in Calls, Call(c) \/ walletParams(c) PROVE UNCHANGED <<now, params, lastIn>>
  BY <1>2 DEF Call, walletParams, CacheHit, CacheMiss, ChainAnswers, ParamsReply, ParamsError
<1>3. ASSUME Govern PROVE Goal
  <2>1. /\ now' = now /\ params' = params + 1 /\ params + 1 \in Versions
        /\ \A v \in Versions : lastIn'[v] = IF v = params + 1 THEN now ELSE lastIn[v]
    BY <1>0, <1>3 DEF Govern
  <2> QED
    BY <1>0, <2>1 DEF ChainInv, Never
<1>4. ASSUME Tick PROVE Goal
  <2>1. /\ now' = now + 1 /\ params' = params
        /\ \A v \in Versions : lastIn'[v] = IF v = params THEN now + 1 ELSE lastIn[v]
    BY <1>0, <1>4 DEF Tick
  <2> QED
    BY <1>0, <2>1 DEF ChainInv, Never
<1> HIDE DEF Goal
<1>5. Goal
  BY <1>1, <1>2, <1>3, <1>4 DEF Next, Done, vars
<1> QED
  BY <1>5 DEF Goal

(* Where a call stands after it returned r.                                *)
LEMMA Returns ==
    ASSUME TypeOK, NEW c \in Calls, NEW r, Return(c, r)
    PROVE  /\ paramsMu' = NoCall
           /\ \A d \in Calls :
                 /\ pc'[d] = IF d = c THEN "returned" ELSE pc[d]
                 /\ result'[d] = IF d = c THEN r ELSE result[d]
                 /\ d # c => started'[d] = started[d] /\ resp'[d] = resp[d]
BY DEF TypeOK, Return

(* The mutex is held exactly over the query.                               *)
LEMMA LockStep == ASSUME Safe, [Next]_vars PROVE LockInv'
<1>0. TypeOK /\ LockInv /\ NoCall \notin Calls
  BY ParamsAssumption DEF Safe
<1> USE DEF LockInv, Asking
<1>1. ASSUME NEW c \in Calls, Call(c) PROVE LockInv'
  BY <1>0, <1>1 DEF Call, TypeOK
<1>2. ASSUME NEW c \in Calls, CacheMiss(c) PROVE LockInv'
  BY <1>0, <1>2 DEF CacheMiss, TypeOK
<1>3. ASSUME NEW c \in Calls, ChainAnswers(c) PROVE LockInv'
  BY <1>0, <1>3 DEF ChainAnswers, TypeOK
<1>4. ASSUME NEW c \in Calls, NEW r, Return(c, r), paramsMu \in {NoCall, c} PROVE LockInv'
  BY <1>0, <1>4, Returns
<1>5. ASSUME NEW c \in Calls, CacheHit(c) \/ ParamsReply(c) \/ ParamsError(c)
      PROVE  paramsMu \in {NoCall, c} /\ \E r : Return(c, r)
  BY <1>0, <1>5 DEF CacheHit, ParamsReply, ParamsError
<1>6. ASSUME UNCHANGED <<pc, paramsMu>> PROVE LockInv'
  BY <1>0, <1>6
<1> QED
  BY <1>1, <1>2, <1>3, <1>4, <1>5, <1>6 DEF Next, walletParams, Govern, Tick, Done, vars

(* No query outlives its timeout.                                          *)
LEMMA QueryStep == ASSUME Safe, [Next]_vars PROVE QueryInv'
<1>0. /\ TypeOK /\ QueryInv /\ now \in Nat /\ RpcMax \in Nat
      /\ \A c \in Calls : started[c] \in Nat
  BY Numbers DEF Safe
<1> USE DEF QueryInv, Asking
<1>1. ASSUME NEW c \in Calls, Call(c) PROVE QueryInv'
  BY <1>0, <1>1 DEF Call, TypeOK
<1>2. ASSUME NEW c \in Calls, CacheMiss(c) PROVE QueryInv'
  BY <1>0, <1>2 DEF CacheMiss, TypeOK
<1>3. ASSUME NEW c \in Calls, ChainAnswers(c) PROVE QueryInv'
  BY <1>0, <1>3 DEF ChainAnswers, TypeOK
<1>4. ASSUME NEW c \in Calls, NEW r, Return(c, r), UNCHANGED now PROVE QueryInv'
  BY <1>0, <1>4, Returns
<1>5. ASSUME NEW c \in Calls, CacheHit(c) \/ ParamsReply(c) \/ ParamsError(c)
      PROVE  UNCHANGED now /\ \E r : Return(c, r)
  BY <1>5 DEF CacheHit, ParamsReply, ParamsError
<1>6. ASSUME Tick PROVE QueryInv'
  BY <1>0, <1>6 DEF Tick
<1>7. ASSUME UNCHANGED <<now, pc, started>> PROVE QueryInv'
  BY <1>0, <1>7
<1> QED
  BY <1>1, <1>2, <1>3, <1>4, <1>5, <1>6, <1>7 DEF Next, walletParams, Govern, Done, vars

(* The one answer on its way is newer than anything that was cached: the   *)
(* holder of paramsMu is the only call that stores one.                    *)
LEMMA AnswerStep == ASSUME Safe, [Next]_vars PROVE AnswerInv'
<1>0. /\ TypeOK /\ ParamsInv /\ ParamsInv' /\ LockInv /\ ChainInv /\ QueryInv /\ AnswerInv /\ CacheInv
      /\ now \in Nat /\ params \in Versions /\ Versions \subseteq Nat
      /\ \A c \in Calls : started[c] \in Nat
      /\ \A v \in Versions : lastIn[v] \in Nat \cup {Never}
  BY Numbers, TypeStep DEF Safe
<1>1. ASSUME NEW c \in Calls, ChainAnswers(c) PROVE AnswerInv'
  <2>1. /\ \A d \in Calls : pc'[d] = "replied" => d = c \/ (pc[d] = "replied" /\ resp'[d] = resp[d])
        /\ resp'[c] = params /\ pc[c] \in Asking
        /\ UNCHANGED <<now, params, lastIn, started, cached>>
    BY <1>0, <1>1 DEF ChainAnswers, TypeOK, Asking
  <2>2. /\ started[c] <= now /\ lastIn[params] = now
        /\ cached.ok => cached.version <= params
    BY <1>0, <2>1 DEF QueryInv, ChainInv, CacheInv
  <2> QED
    BY <1>0, <2>1, <2>2 DEF AnswerInv
<1>2. ASSUME NEW c \in Calls, ParamsReply(c) PROVE AnswerInv'
  <2>1. \A d \in Calls : pc[d] = "replied" => d = c
    BY <1>0, <1>2 DEF ParamsReply, LockInv, Asking
  <2>2. \A d \in Calls : pc'[d] # "replied"
    BY <1>0, <1>2, <2>1, Returns DEF ParamsReply
  <2> QED
    BY <2>2 DEF AnswerInv
<1>3. ASSUME \A d \in Calls : pc'[d] = "replied" =>
                  pc[d] = "replied" /\ resp'[d] = resp[d] /\ started'[d] = started[d],
             cached' = cached
      PROVE  AnswerInv'
  <2>1. params <= params' /\ \A v \in Versions : lastIn[v] <= lastIn'[v]
    BY HistoryGrows
  <2>2. TypeOK'
    BY <1>0, TypeStep
  <2>3. params' \in Nat /\ \A v \in Versions : lastIn'[v] \in Nat \cup {Never}
    BY <2>2, ParamsAssumption DEF TypeOK
  <2>4. SUFFICES ASSUME NEW d \in Calls, pc'[d] = "replied"
                 PROVE  /\ resp[d] <= params'
                        /\ lastIn'[resp[d]] \in Nat /\ started[d] <= lastIn'[resp[d]]
                        /\ cached.ok => cached.version <= resp[d]
    BY <1>3 DEF AnswerInv
  <2>5. /\ resp[d] \in Versions /\ resp[d] \in Nat /\ params \in Nat /\ started[d] \in Nat
        /\ resp[d] <= params /\ lastIn[resp[d]] \in Nat /\ started[d] <= lastIn[resp[d]]
        /\ cached.ok => cached.version <= resp[d]
    BY <1>0, <1>3, <2>4 DEF AnswerInv, ParamsInv
  <2>6. lastIn'[resp[d]] \in Nat \cup {Never} /\ lastIn[resp[d]] <= lastIn'[resp[d]]
    BY <2>1, <2>3, <2>5
  <2> QED
    BY <2>1, <2>3, <2>5, <2>6 DEF Never
<1>4. ASSUME NEW c \in Calls, CacheHit(c) \/ ParamsError(c) PROVE AnswerInv'
  <2>1. cached' = cached /\ \E r : Return(c, r)
    BY <1>4 DEF CacheHit, ParamsError
  <2>2. \A d \in Calls : pc'[d] = "replied" =>
             pc[d] = "replied" /\ resp'[d] = resp[d] /\ started'[d] = started[d]
    BY <1>0, <2>1, Returns
  <2> QED
    BY <1>3, <2>1, <2>2
<1>5. ASSUME NEW c \in Calls, Call(c) \/ CacheMiss(c) PROVE AnswerInv'
  <2>1. /\ cached' = cached
        /\ \A d \in Calls : pc'[d] = "replied" =>
              pc[d] = "replied" /\ resp'[d] = resp[d] /\ started'[d] = started[d]
    BY <1>0, <1>5 DEF Call, CacheMiss, TypeOK
  <2> QED
    BY <1>3, <2>1
<1>6. ASSUME Govern \/ Tick \/ UNCHANGED vars PROVE AnswerInv'
  BY <1>3, <1>6 DEF Govern, Tick, vars
<1> QED
  BY <1>1, <1>2, <1>4, <1>5, <1>6 DEF Next, walletParams, Done

(* What is cached was true at most one query before it was stored.         *)
LEMMA CacheStep == ASSUME Safe, [Next]_vars PROVE CacheInv'
<1>0. /\ TypeOK /\ ParamsInv /\ QueryInv /\ AnswerInv /\ CacheInv
      /\ now \in Nat /\ RpcMax \in Nat /\ Versions \subseteq Nat /\ params \in Nat
      /\ cached.fetched \in Nat
      /\ \A c \in Calls : started[c] \in Nat
      /\ \A v \in Versions : lastIn[v] \in Nat \cup {Never}
  BY Numbers DEF Safe
<1>1. /\ now <= now' /\ params <= params'
      /\ \A v \in Versions : lastIn[v] <= lastIn'[v]
  BY HistoryGrows
<1>2. TypeOK'
  BY <1>0, TypeStep
<1>3. now' \in Nat /\ params' \in Nat /\ \A v \in Versions : lastIn'[v] \in Nat \cup {Never}
  BY <1>2, ParamsAssumption DEF TypeOK
<1>4. ASSUME NEW c \in Calls, ParamsReply(c) PROVE CacheInv'
  <2>1. /\ pc[c] = "replied" /\ UNCHANGED <<now, params, lastIn>>
        /\ cached'.version = resp[c] /\ cached'.fetched = now
    BY <1>4 DEF ParamsReply
  <2>2. /\ resp[c] \in Versions /\ resp[c] <= params /\ now - started[c] <= RpcMax
        /\ lastIn[resp[c]] \in Nat /\ started[c] <= lastIn[resp[c]]
    BY <1>0, <2>1 DEF ParamsInv, QueryInv, AnswerInv, Asking
  <2> QED
    BY <1>0, <2>1, <2>2 DEF CacheInv
<1>5. ASSUME cached' = cached PROVE CacheInv'
  <2> SUFFICES ASSUME cached.ok
               PROVE  /\ cached.version <= params' /\ cached.fetched <= now'
                      /\ lastIn'[cached.version] \in Nat
                      /\ cached.fetched - RpcMax <= lastIn'[cached.version]
    BY <1>5 DEF CacheInv
  <2>1. /\ cached.version \in Versions /\ cached.version \in Nat
        /\ cached.version <= params /\ cached.fetched <= now
        /\ lastIn[cached.version] \in Nat /\ cached.fetched - RpcMax <= lastIn[cached.version]
    BY <1>0 DEF CacheInv, ParamsInv
  <2>2. /\ lastIn'[cached.version] \in Nat \cup {Never}
        /\ lastIn[cached.version] <= lastIn'[cached.version]
    BY <1>1, <1>3, <2>1
  <2> QED
    BY <1>0, <1>1, <1>3, <2>1, <2>2 DEF Never
<1> QED
  BY <1>4, <1>5 DEF Next, Call, walletParams, CacheHit, CacheMiss, ChainAnswers, ParamsError,
                    Govern, Tick, Done, vars

(* No call has returned a version newer than the cached one.               *)
LEMMA ResultStep == ASSUME Safe, [Next]_vars PROVE ResultInv'
<1>0. /\ TypeOK /\ ParamsInv /\ AnswerInv /\ ResultInv /\ Versions \subseteq Nat
  BY Numbers DEF Safe
<1>1. ASSUME NEW c \in Calls, CacheHit(c) PROVE ResultInv'
  <2>1. /\ Return(c, cached.version) /\ cached' = cached /\ cached.ok
        /\ cached.version \in Versions /\ cached.version \in Nat
    BY <1>0, <1>1 DEF CacheHit, Fresh, ParamsInv
  <2>2. \A d \in Calls : /\ pc'[d] = IF d = c THEN "returned" ELSE pc[d]
                         /\ result'[d] = IF d = c THEN cached.version ELSE result[d]
    BY <1>0, <2>1, Returns
  <2>3. \A d \in Calls : result[d] \in Versions => result[d] \in Nat
    BY <1>0
  <2> QED
    BY <1>0, <2>1, <2>2, <2>3 DEF ResultInv, Pending
<1>2. ASSUME NEW c \in Calls, ParamsReply(c) PROVE ResultInv'
  <2>1. /\ Return(c, resp[c]) /\ resp[c] \in Versions /\ resp[c] \in Nat
        /\ cached'.ok /\ cached'.version = resp[c]
        /\ cached.ok => cached.version <= resp[c] /\ cached.version \in Nat
    BY <1>0, <1>2 DEF ParamsReply, ParamsInv, AnswerInv
  <2>2. \A d \in Calls : /\ pc'[d] = IF d = c THEN "returned" ELSE pc[d]
                         /\ result'[d] = IF d = c THEN resp[c] ELSE result[d]
    BY <1>0, <2>1, Returns
  <2>3. \A d \in Calls : result[d] \in Versions => result[d] \in Nat
    BY <1>0
  <2> QED
    BY <1>0, <2>1, <2>2, <2>3 DEF ResultInv, Pending
<1>3. ASSUME NEW c \in Calls, ParamsError(c) PROVE ResultInv'
  <2>1. Return(c, Failed) /\ cached' = cached
    BY <1>3 DEF ParamsError
  <2>2. \A d \in Calls : /\ pc'[d] = IF d = c THEN "returned" ELSE pc[d]
                         /\ result'[d] = IF d = c THEN Failed ELSE result[d]
    BY <1>0, <2>1, Returns
  <2> QED
    BY <1>0, <2>1, <2>2 DEF ResultInv, Pending, Failed
<1>4. ASSUME UNCHANGED <<result, cached>>,
             \A d \in Calls : (pc'[d] = "returned") <=> (pc[d] = "returned")
      PROVE  ResultInv'
  BY <1>0, <1>4 DEF ResultInv
<1>5. ASSUME NEW c \in Calls, Call(c) \/ CacheMiss(c) \/ ChainAnswers(c) PROVE ResultInv'
  BY <1>0, <1>4, <1>5 DEF Call, CacheMiss, ChainAnswers, TypeOK
<1>6. ASSUME Govern \/ Tick \/ UNCHANGED vars PROVE ResultInv'
  BY <1>4, <1>6 DEF Govern, Tick, vars
<1> QED
  BY <1>1, <1>2, <1>3, <1>5, <1>6 DEF Next, walletParams, Done

(* The first part of the invariant holds at the start and is inductive.    *)
LEMMA SafeInductive ==
    /\ Init => Safe
    /\ Safe /\ [Next]_vars => Safe'
<1>1. ASSUME Init PROVE Safe
  <2>1. TypeOK /\ ParamsInv
    BY <1>1, ParamsAssumption DEF Init, TypeOK, ParamsInv
  <2>2. LockInv /\ QueryInv /\ AnswerInv /\ CacheInv /\ ResultInv
    BY <1>1, ParamsAssumption
       DEF Init, LockInv, QueryInv, AnswerInv, CacheInv, ResultInv, Asking, Pending
  <2>3. ChainInv
    BY <1>1, ParamsAssumption DEF Init, ChainInv, Never
  <2> QED
    BY <2>1, <2>2, <2>3 DEF Safe
<1>2. ASSUME Safe, [Next]_vars PROVE Safe'
  BY <1>2, TypeStep, HistoryGrows, LockStep, QueryStep, AnswerStep, CacheStep, ResultStep DEF Safe
<1> QED
  BY <1>1, <1>2

(* The variables keep their types, whatever the chain answers and however  *)
(* the calls interleave.                                                   *)
THEOREM TypeCorrect == Spec => []TypeOK
<1>1. Safe => TypeOK
  BY DEF Safe
<1> QED
  BY <1>1, SafeInductive, PTL DEF Spec

-----------------------------------------------------------------------------
(* The refinement.                                                         *)

(* A call that returns a version no older than the cached one, and in      *)
(* force at most the bound ago, is a Read of the register.                 *)
LEMMA ReadImplements ==
    ASSUME Safe, NEW c \in Calls, pc[c] # "returned", NEW v \in Versions, Return(c, v),
           UNCHANGED <<now, params, lastIn>>,
           cached.ok => cached.version <= v,
           lastIn[v] # Never, now - lastIn[v] <= paramsCacheTTL - 1 + RpcMax
    PROVE  Promise!Next
<1>1. result[c] = Pending /\ result' = [result EXCEPT ![c] = v]
  BY DEF Safe, ResultInv, Return
<1>2. \A d \in Calls : result[d] <= v
  <2>1. /\ TypeOK /\ ParamsInv /\ ResultInv /\ Versions \subseteq Nat
    BY Numbers DEF Safe
  <2>2. SUFFICES ASSUME NEW d \in Calls PROVE result[d] <= v
    OBVIOUS
  <2>3. result[d] \in Versions \cup {Pending, Failed}
    BY <2>1 DEF TypeOK
  <2>4. CASE result[d] \in Versions
    BY <2>1, <2>4 DEF ResultInv, ParamsInv
  <2>5. CASE result[d] \in {Pending, Failed}
    BY <2>1, <2>5 DEF Pending, Failed
  <2> QED
    BY <2>3, <2>4, <2>5
<1>3. Promise!Recent(v)
  BY DEF Promise!Recent, Promise!Never, Never
<1>4. Promise!Read(c)
  BY <1>1, <1>2, <1>3 DEF Promise!Read, Promise!Pending, Pending
<1> QED
  BY <1>4 DEF Promise!Next

(* Every step of walletParams is a step of the register, or stutters.      *)
LEMMA StepImplements == ASSUME Safe, [Next]_vars PROVE [Promise!Next]_(Promise!vars)
<1>0. /\ TypeOK /\ ParamsInv /\ QueryInv /\ AnswerInv /\ CacheInv /\ ResultInv
      /\ now \in Nat /\ RpcMax \in Nat /\ paramsCacheTTL \in Nat \ {0} /\ Versions \subseteq Nat
      /\ cached.fetched \in Nat
      /\ \A c \in Calls : started[c] \in Nat
  BY Numbers DEF Safe
<1>1. ASSUME NEW c \in Calls, CacheHit(c) PROVE Promise!Next
  <2>1. /\ pc[c] = "waiting" /\ Return(c, cached.version) /\ UNCHANGED <<now, params, lastIn>>
        /\ cached.ok /\ now - cached.fetched < paramsCacheTTL
    BY <1>1 DEF CacheHit, Fresh
  <2>2. /\ cached.version \in Versions /\ cached.version \in Nat /\ lastIn[cached.version] \in Nat
        /\ cached.fetched - RpcMax <= lastIn[cached.version]
    BY <1>0, <2>1 DEF ParamsInv, CacheInv
  <2>3. /\ lastIn[cached.version] # Never /\ cached.version <= cached.version
        /\ now - lastIn[cached.version] <= paramsCacheTTL - 1 + RpcMax
    BY <1>0, <2>1, <2>2 DEF Never
  <2> QED
    BY <2>1, <2>2, <2>3, ReadImplements
<1>2. ASSUME NEW c \in Calls, ParamsReply(c) PROVE Promise!Next
  <2>1. pc[c] = "replied" /\ Return(c, resp[c]) /\ UNCHANGED <<now, params, lastIn>>
    BY <1>2 DEF ParamsReply
  <2>2. /\ resp[c] \in Versions /\ lastIn[resp[c]] \in Nat /\ started[c] <= lastIn[resp[c]]
        /\ now - started[c] <= RpcMax
        /\ cached.ok => cached.version <= resp[c]
    BY <1>0, <2>1 DEF ParamsInv, QueryInv, AnswerInv, Asking
  <2>3. lastIn[resp[c]] # Never /\ now - lastIn[resp[c]] <= paramsCacheTTL - 1 + RpcMax
    BY <1>0, <2>2 DEF Never
  <2> QED
    BY <2>1, <2>2, <2>3, ReadImplements
<1>3. ASSUME NEW c \in Calls, ParamsError(c) PROVE Promise!Next
  <2>1. result[c] = Pending
    BY <1>0, <1>3 DEF ParamsError, ResultInv
  <2>2. Promise!Fail(c)
    BY <1>3, <2>1 DEF ParamsError, Return, Promise!Fail, Promise!Pending, Pending,
                      Promise!Failed, Failed
  <2> QED
    BY <2>2 DEF Promise!Next
<1>4. ASSUME NEW c \in Calls, Call(c) \/ CacheMiss(c) \/ ChainAnswers(c) PROVE UNCHANGED Promise!vars
  BY <1>4 DEF Call, CacheMiss, ChainAnswers, Promise!vars
<1>5. ASSUME Govern PROVE Promise!Next
  BY <1>5 DEF Govern, Promise!Govern, Promise!Next
<1>6. ASSUME Tick PROVE Promise!Next
  BY <1>6 DEF Tick, Promise!Tick, Promise!Next
<1>7. ASSUME UNCHANGED vars PROVE UNCHANGED Promise!vars
  BY <1>7 DEF vars, Promise!vars
<1> QED
  BY <1>1, <1>2, <1>3, <1>4, <1>5, <1>6, <1>7 DEF Next, walletParams, Done

(* service.go walletParams implements BoundedRegister: what it returns was *)
(* in force at most a TTL and one query ago, and no call returns an older  *)
(* version than an earlier one.                                            *)
THEOREM Refinement == Spec => KeepsPromise
<1>1. Init => Promise!Init
  BY DEF Init, Promise!Init, Never, Promise!Never, Pending, Promise!Pending
<1>2. Safe /\ [Next]_vars => [Promise!Next]_(Promise!vars)
  BY StepImplements
<1> QED
  BY <1>1, <1>2, SafeInductive, PTL DEF Spec, KeepsPromise, Promise!Spec

-----------------------------------------------------------------------------
(* The wait.                                                               *)

(* The calls that have returned can be counted, and one more returning     *)
(* adds one query's duration to the bound.                                 *)
LEMMA CountReturned ==
    ASSUME TypeOK
    PROVE  /\ IsFiniteSet(Returned) /\ Cardinality(Returned) \in Nat
           /\ RpcMax * Cardinality(Returned) \in Nat
           /\ RpcMax * (Cardinality(Returned) + 1) = RpcMax * Cardinality(Returned) + RpcMax
<1>1. IsFiniteSet(Returned)
  <2>1. Returned \in SUBSET Calls
    BY DEF Returned
  <2> QED
    BY <2>1, FS_Subset, ParamsAssumption
<1>2. Cardinality(Returned) \in Nat
  BY <1>1, FS_CardinalityType
<1>3. ASSUME NEW a \in Nat, NEW b \in Nat PROVE a * b \in Nat /\ a * (b + 1) = a * b + a
  OBVIOUS
<1> QED
  BY <1>1, <1>2, <1>3, ParamsAssumption

(* The same calls have returned after a step by which none does.           *)
LEMMA SameReturned ==
    ASSUME \A d \in Calls : (pc'[d] = "returned") <=> (pc[d] = "returned")
    PROVE  Returned' = Returned
BY DEF Returned

(* The query that is out, if there is one, is within its timeout.          *)
LEMMA SinceBounded ==
    ASSUME Safe
    PROVE  /\ Since \in Nat /\ Since <= now /\ now - Since <= RpcMax
           /\ paramsMu = NoCall => Since = now
<1>0. /\ TypeOK /\ LockInv /\ QueryInv /\ now \in Nat /\ RpcMax \in Nat
      /\ \A c \in Calls : started[c] \in Nat
  BY Numbers DEF Safe
<1>1. CASE paramsMu = NoCall
  BY <1>0, <1>1 DEF Since
<1>2. CASE paramsMu # NoCall
  <2>1. paramsMu \in Calls /\ pc[paramsMu] \in Asking
    BY <1>0, <1>2 DEF TypeOK, LockInv
  <2> QED
    BY <1>0, <1>2, <2>1 DEF Since, QueryInv
<1> QED
  BY <1>1, <1>2

(* The wait stays bounded: while a query is out the bound's start stands   *)
(* still, and when it ends one more call has returned.                     *)
LEMMA WaitStep == ASSUME IInv, [Next]_vars PROVE WaitInv'
<1>0. /\ Safe /\ TypeOK /\ LockInv /\ QueryInv /\ WaitInv /\ now \in Nat /\ RpcMax \in Nat
      /\ NoCall \notin Calls
      /\ \A c \in Calls : arrived[c] \in Nat /\ started[c] \in Nat
  BY Numbers, ParamsAssumption DEF IInv, Safe
<1> DEFINE n == Cardinality(Returned)
           Waits == {"waiting", "querying", "replied"}
<1>1. n \in Nat /\ RpcMax * n \in Nat /\ RpcMax * (n + 1) = RpcMax * n + RpcMax
  BY <1>0, CountReturned
<1>2. /\ Since \in Nat /\ Since <= now /\ now - Since <= RpcMax
      /\ paramsMu = NoCall => Since = now
  BY <1>0, SinceBounded
<1>3. \A c \in Calls : pc[c] \in Waits => Since - arrived[c] <= RpcMax * n
  BY <1>0 DEF WaitInv
<1>4. ASSUME UNCHANGED <<arrived>>, Since' = Since, Returned' = Returned,
             \A d \in Calls : pc'[d] \in Waits => pc[d] \in Waits
      PROVE  WaitInv'
  <2>1. Cardinality(Returned)' = n
    BY <1>4
  <2> QED
    BY <1>3, <1>4, <2>1 DEF WaitInv
<1>5. ASSUME NEW c \in Calls, Call(c) PROVE WaitInv'
  <2>1. /\ \A d \in Calls : pc'[d] = (IF d = c THEN "waiting" ELSE pc[d])
        /\ \A d \in Calls : arrived'[d] = (IF d = c THEN now ELSE arrived[d])
        /\ pc[c] = "idle" /\ UNCHANGED <<now, started, paramsMu>>
    BY <1>0, <1>5 DEF Call, TypeOK
  <2>2. Cardinality(Returned)' = n /\ Since' = Since
    BY <2>1, SameReturned DEF Since
  <2>3. Since - now <= RpcMax * n
    BY <1>0, <1>1, <1>2
  <2> QED
    BY <1>3, <2>1, <2>2, <2>3 DEF WaitInv
<1>6. ASSUME NEW c \in Calls, CacheMiss(c) PROVE WaitInv'
  <2>1. /\ \A d \in Calls : pc'[d] = (IF d = c THEN "querying" ELSE pc[d])
        /\ pc[c] = "waiting" /\ paramsMu = NoCall /\ paramsMu' = c /\ started'[c] = now
        /\ arrived' = arrived
    BY <1>0, <1>6 DEF CacheMiss, TypeOK
  <2>2. Since' = Since
    BY <1>0, <1>2, <2>1 DEF Since
  <2>3. Returned' = Returned
    BY <2>1, SameReturned
  <2> QED
    BY <1>4, <2>1, <2>2, <2>3
<1>7. ASSUME NEW c \in Calls, ChainAnswers(c) PROVE WaitInv'
  <2>1. /\ \A d \in Calls : pc'[d] = (IF d = c THEN "replied" ELSE pc[d])
        /\ pc[c] = "querying" /\ UNCHANGED <<now, started, paramsMu, arrived>>
    BY <1>0, <1>7 DEF ChainAnswers, TypeOK
  <2>2. Since' = Since /\ Returned' = Returned
    BY <2>1, SameReturned DEF Since
  <2> QED
    BY <1>4, <2>1, <2>2
<1>8. ASSUME NEW c \in Calls, NEW r, Return(c, r), pc[c] \in Waits, UNCHANGED <<now, arrived>>
      PROVE  WaitInv'
  <2>1. /\ paramsMu' = NoCall
        /\ \A d \in Calls : pc'[d] = IF d = c THEN "returned" ELSE pc[d]
    BY <1>0, <1>8, Returns
  <2>2. Returned' = Returned \cup {c} /\ c \notin Returned
    BY <1>8, <2>1 DEF Returned
  <2>3. Cardinality(Returned)' = n + 1
    BY <1>0, <2>2, CountReturned, FS_AddElement
  <2>4. Since' = now
    BY <1>8, <2>1 DEF Since
  <2>5. \A d \in Calls : pc[d] \in Waits => now - arrived[d] <= RpcMax * (n + 1)
    BY <1>0, <1>1, <1>2, <1>3
  <2> QED
    BY <1>8, <2>1, <2>3, <2>4, <2>5 DEF WaitInv
<1>9. ASSUME NEW c \in Calls, CacheHit(c) \/ ParamsReply(c) \/ ParamsError(c) PROVE WaitInv'
  <2>1. UNCHANGED <<now, arrived>> /\ pc[c] \in Waits /\ \E r : Return(c, r)
    BY <1>9 DEF CacheHit, ParamsReply, ParamsError
  <2> QED
    BY <1>8, <2>1
<1>10. ASSUME Tick PROVE WaitInv'
  <2>1. UNCHANGED <<arrived, pc, started, paramsMu>>
    BY <1>10 DEF Tick
  <2>2. Returned' = Returned
    BY <2>1, SameReturned
  <2>3. CASE paramsMu # NoCall
    <3>1. Since' = Since
      BY <2>1, <2>3 DEF Since
    <3> QED
      BY <1>4, <2>1, <2>2, <3>1
  <2>4. CASE paramsMu = NoCall
    <3>1. \A d \in Calls : pc'[d] \notin Waits
      BY <1>0, <1>10, <2>1, <2>4 DEF Tick, LockInv, Asking
    <3> QED
      BY <3>1 DEF WaitInv
  <2> QED
    BY <2>3, <2>4
<1>11. ASSUME UNCHANGED <<now, arrived, pc, started, paramsMu>> PROVE WaitInv'
  <2>1. Since' = Since /\ Returned' = Returned
    BY <1>11, SameReturned DEF Since
  <2> QED
    BY <1>4, <1>11, <2>1
<1> QED
  BY <1>5, <1>6, <1>7, <1>9, <1>10, <1>11 DEF Next, walletParams, Govern, Done, vars

(* service.go walletParams holds paramsMu over its query: a verification   *)
(* waits at most one query's duration for every call made so far.          *)
THEOREM WaitIsBounded == Spec => []WaitBounded
<1>1. Init => IInv
  <2>1. ASSUME Init PROVE WaitInv
    BY <2>1 DEF Init, WaitInv
  <2> QED
    BY <2>1, SafeInductive DEF IInv
<1>2. IInv /\ [Next]_vars => IInv'
  BY SafeInductive, WaitStep DEF IInv
<1>3. ASSUME IInv, NEW c \in Calls, pc[c] \in {"waiting", "querying", "replied"}
      PROVE  now - arrived[c] <= RpcMax * Cardinality({d \in Calls : pc[d] # "idle"})
  <2> DEFINE n == Cardinality(Returned)
             Called == {d \in Calls : pc[d] # "idle"}
  <2>0. /\ TypeOK /\ LockInv /\ QueryInv /\ now \in Nat /\ RpcMax \in Nat /\ arrived[c] \in Nat
        /\ \A d \in Calls : started[d] \in Nat
    BY <1>3, Numbers DEF IInv, Safe
  <2>1. /\ IsFiniteSet(Returned) /\ n \in Nat /\ RpcMax * n \in Nat
        /\ RpcMax * (n + 1) = RpcMax * n + RpcMax
    BY <2>0, CountReturned
  <2>2. Since - arrived[c] <= RpcMax * n
    BY <1>3 DEF IInv, WaitInv
  <2>3. Since \in Nat /\ now - Since <= RpcMax
    BY <1>3, SinceBounded DEF IInv
  <2>4. IsFiniteSet(Called) /\ Cardinality(Called) \in Nat
    <3>1. Called \in SUBSET Calls
      OBVIOUS
    <3>2. IsFiniteSet(Called)
      BY <3>1, FS_Subset, ParamsAssumption
    <3> QED
      BY <3>2, FS_CardinalityType
  <2>5. n + 1 <= Cardinality(Called)
    <3>1. Returned \cup {c} \in SUBSET Called /\ c \notin Returned
      BY <1>3 DEF Returned
    <3>2. Cardinality(Returned \cup {c}) = n + 1
      BY <2>1, <3>1, FS_AddElement
    <3>3. Cardinality(Returned \cup {c}) <= Cardinality(Called)
      BY <2>4, <3>1, FS_Subset
    <3> QED
      BY <3>2, <3>3
  <2>6. RpcMax * (n + 1) <= RpcMax * Cardinality(Called)
    <3>1. ASSUME NEW a \in Nat, NEW i \in Nat, NEW j \in Nat, i <= j PROVE a * i <= a * j
      BY <3>1
    <3> QED
      BY <2>0, <2>1, <2>4, <2>5, <3>1
  <2>7. now - arrived[c] <= RpcMax * (n + 1)
    BY <2>0, <2>1, <2>2, <2>3
  <2> HIDE DEF n, Called
  <2>8. RpcMax * Cardinality(Called) \in Nat /\ RpcMax * (n + 1) \in Nat
    BY <2>0, <2>1, <2>4
  <2>9. now - arrived[c] <= RpcMax * Cardinality(Called)
    BY <2>0, <2>6, <2>7, <2>8
  <2> QED
    BY <2>9 DEF Called
<1>4. IInv => WaitBounded
  BY <1>3 DEF WaitBounded
<1> QED
  BY <1>1, <1>2, <1>4, PTL DEF Spec
=============================================================================
