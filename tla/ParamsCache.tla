---------------------------- MODULE ParamsCache -----------------------------
(***************************************************************************)
(* The cache of the agentwallet params: walletParams                       *)
(* (internal/delegated/service.go), which every credential verification    *)
(* calls first.  Unlike the epoch heartbeat (module RootState), paramsMu   *)
(* is held across the Params query: one call queries, the others wait for  *)
(* the lock.  What the params say is a version number; governance moves to *)
(* the next one.  Steps inside the process take no time; a query takes up  *)
(* to RpcMax seconds.                                                      *)
(***************************************************************************)
EXTENDS Integers, FiniteSets

CONSTANTS
    Calls,           \* concurrent calls of walletParams
    NoCall,
    Versions,        \* 0 .. the last version governance reaches (bound)
    paramsCacheTTL,
    RpcMax,          \* seconds until a query has failed
    MaxTime          \* bound: last instant of the clock

ASSUME ParamsAssumption ==
    /\ IsFiniteSet(Calls) /\ NoCall \notin Calls
    /\ Versions \subseteq Nat /\ 0 \in Versions
    /\ paramsCacheTTL \in Nat \ {0}
    /\ RpcMax \in Nat
    /\ MaxTime \in Nat

VARIABLES
    now,
    params,     \* the version in force on the chain
    lastIn,     \* history: last instant each version was in force
    pc,
    arrived,    \* history: when call c was made
    started,    \* when call c sent its query
    resp,       \* the answer on its way to c
    result,     \* what c returned
    paramsMu,   \* the call that holds the lock, or NoCall
    cached      \* cachedParams and paramsFetched; ok is cachedParams # nil

vars == <<now, params, lastIn, pc, arrived, started, resp, result, paramsMu, cached>>

Never == -1
Pending == -1
Failed == -2
NoParams == -3   \* the params behind a nil pointer

TypeOK ==
    /\ now \in 0 .. MaxTime
    /\ params \in Versions
    /\ lastIn \in [Versions -> 0 .. MaxTime \cup {Never}]
    /\ pc \in [Calls -> {"idle", "waiting", "querying", "replied", "returned"}]
    /\ arrived \in [Calls -> 0 .. MaxTime]
    /\ started \in [Calls -> 0 .. MaxTime]
    /\ resp \in [Calls -> Versions \cup {Pending}]
    /\ result \in [Calls -> Versions \cup {Pending, Failed}]
    /\ paramsMu \in Calls \cup {NoCall}
    /\ cached \in [ok : BOOLEAN, version : Versions \cup {NoParams}, fetched : 0 .. MaxTime]

Init ==
    /\ now = 0
    /\ params = 0
    /\ lastIn = [v \in Versions |-> IF v = 0 THEN 0 ELSE Never]
    /\ pc = [c \in Calls |-> "idle"]
    /\ arrived = [c \in Calls |-> 0]
    /\ started = [c \in Calls |-> 0]
    /\ resp = [c \in Calls |-> Pending]
    /\ result = [c \in Calls |-> Pending]
    /\ paramsMu = NoCall
    /\ cached = [ok |-> FALSE, version |-> NoParams, fetched |-> 0]

-----------------------------------------------------------------------------
(* walletParams.                                                           *)

\* A verification reaches walletParams.
Call(c) ==
    /\ pc[c] = "idle"
    /\ pc' = [pc EXCEPT ![c] = "waiting"]
    /\ arrived' = [arrived EXCEPT ![c] = now]
    /\ UNCHANGED <<now, params, lastIn, started, resp, result, paramsMu, cached>>

\* Wrong on purpose: the nil check is missing.
Fresh_unchecked == now - cached.fetched < paramsCacheTTL

Fresh == cached.ok /\ now - cached.fetched < paramsCacheTTL

(* Call c returns r; the deferred Unlock runs on every path, and what c    *)
(* held of its query is gone with its stack.                               *)
Return(c, r) ==
    /\ pc' = [pc EXCEPT ![c] = "returned"]
    /\ result' = [result EXCEPT ![c] = r]
    /\ started' = [started EXCEPT ![c] = 0]
    /\ resp' = [resp EXCEPT ![c] = Pending]
    /\ paramsMu' = NoCall

\* The lock is taken and released without a query in between.
CacheHit(c) ==
    /\ pc[c] = "waiting" /\ paramsMu = NoCall
    /\ Fresh
    /\ Return(c, cached.version)
    /\ UNCHANGED <<now, params, lastIn, arrived, cached>>

\* Wrong on purpose: the lock is released for the time of the query.
CacheMiss_unlocks(c) ==
    /\ pc[c] = "waiting" /\ paramsMu = NoCall
    /\ ~Fresh
    /\ pc' = [pc EXCEPT ![c] = "querying"]
    /\ started' = [started EXCEPT ![c] = now]
    /\ UNCHANGED <<now, params, lastIn, arrived, resp, result, paramsMu, cached>>

CacheMiss(c) ==
    /\ pc[c] = "waiting" /\ paramsMu = NoCall
    /\ ~Fresh
    /\ paramsMu' = c
    /\ pc' = [pc EXCEPT ![c] = "querying"]
    /\ started' = [started EXCEPT ![c] = now]
    /\ UNCHANGED <<now, params, lastIn, arrived, resp, result, cached>>

\* The chain evaluates the query; its answer is on the way.
ChainAnswers(c) ==
    /\ pc[c] = "querying"
    /\ pc' = [pc EXCEPT ![c] = "replied"]
    /\ resp' = [resp EXCEPT ![c] = params]
    /\ UNCHANGED <<now, params, lastIn, arrived, started, result, paramsMu, cached>>

(* The answer arrives; paramsFetched is the clock now, not when the query  *)
(* was sent.                                                               *)
ParamsReply(c) ==
    /\ pc[c] = "replied"
    /\ cached' = [ok |-> TRUE, version |-> resp[c], fetched |-> now]
    /\ Return(c, resp[c])
    /\ UNCHANGED <<now, params, lastIn, arrived>>

\* Wrong on purpose: a failed query is sent again, under the lock.
ParamsError_retries(c) ==
    /\ pc[c] \in {"querying", "replied"}
    /\ pc' = [pc EXCEPT ![c] = "querying"]
    /\ started' = [started EXCEPT ![c] = now]
    /\ resp' = [resp EXCEPT ![c] = Pending]
    /\ UNCHANGED <<now, params, lastIn, arrived, result, paramsMu, cached>>

\* The query failed or timed out: nothing is cached, what was stays.
ParamsError(c) ==
    /\ pc[c] \in {"querying", "replied"}
    /\ Return(c, Failed)
    /\ UNCHANGED <<now, params, lastIn, arrived, cached>>

-----------------------------------------------------------------------------
(* The chain and the clock.                                                *)

\* A governance proposal that changes the params passes.
Govern ==
    /\ params + 1 \in Versions
    /\ params' = params + 1
    /\ lastIn' = [lastIn EXCEPT ![params + 1] = now]
    /\ UNCHANGED <<now, pc, arrived, started, resp, result, paramsMu, cached>>

(* Time passes while every outstanding query is within its timeout and no  *)
(* call could take the lock.                                               *)
Tick ==
    /\ now < MaxTime
    /\ \A c \in Calls : pc[c] \in {"querying", "replied"} => now - started[c] < RpcMax
    /\ (\E c \in Calls : pc[c] = "waiting") => paramsMu # NoCall
    /\ now' = now + 1
    /\ lastIn' = [lastIn EXCEPT ![params] = now + 1]
    /\ UNCHANGED <<params, pc, arrived, started, resp, result, paramsMu, cached>>

walletParams(c) ==
    CacheHit(c) \/ CacheMiss(c) \/ ChainAnswers(c) \/ ParamsReply(c) \/ ParamsError(c)

Done ==
    /\ \A c \in Calls : pc[c] = "returned"
    /\ UNCHANGED vars

Next ==
    \/ \E c \in Calls : Call(c) \/ walletParams(c)
    \/ Govern
    \/ Tick
    \/ Done

Spec == Init /\ [][Next]_vars

-----------------------------------------------------------------------------
(* Properties.                                                             *)

Promise == INSTANCE BoundedRegister WITH Bound <- paramsCacheTTL - 1 + RpcMax

(* Verifications use params that were in force at most a TTL and one query *)
(* ago, and never go back: because paramsMu covers the query, an old       *)
(* answer cannot overtake a newer one.                                     *)
KeepsPromise == Promise!Spec

(* The price of querying under the lock: behind a chain that does not      *)
(* answer, a verification waits for every call that got the lock before    *)
(* it, one query's duration each, and no longer.                           *)
WaitBounded ==
    \A c \in Calls : pc[c] \in {"waiting", "querying", "replied"} =>
        now - arrived[c] <= RpcMax * Cardinality({d \in Calls : pc[d] # "idle"})
=============================================================================
