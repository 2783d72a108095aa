----------------------------- MODULE RootState ------------------------------
(***************************************************************************)
(* The epoch heartbeat of the delegated-read path: checkRootState and its  *)
(* per-root cache (internal/delegated/reads.go, service.go).  Each reader  *)
(* is one AuthorizeRead call whose proof has verified; readers run         *)
(* concurrently.  epochMu is held for the lookup and for the store, not    *)
(* across the Epoch query between them, so queries overlap and their       *)
(* answers arrive in any order.  Steps inside the process take no time;    *)
(* a query takes up to RpcMax seconds (the REST client's timeout).         *)
(***************************************************************************)
EXTENDS Integers

CONSTANTS
    Readers,        \* concurrent AuthorizeRead calls
    Roots,          \* root delegations
    Epochs,         \* 0 .. the last epoch a root reaches (bound)
    epochCacheTTL,  \* seconds an answer is taken as fresh
    RpcMax,         \* seconds until a query has failed
    MaxTime         \* bound: last instant of the clock

ASSUME RootStateAssumption ==
    /\ Epochs \subseteq Nat /\ 0 \in Epochs
    /\ epochCacheTTL \in Nat \ {0}
    /\ RpcMax \in Nat
    /\ MaxTime \in Nat

VARIABLES
    now,
    chain,       \* chain[r]: what the Epoch query would answer for root r
    lastLive,    \* history: last instant r was at epoch e and not paused
    cred,        \* cred[p]: v.Root and v.RootEpoch of the verified proof
    pc,
    started,     \* started[p]: when reader p sent its query
    resp,        \* resp[p]: the answer on its way to p
    epochCache   \* epochCache[r]; ok is the map's second result

vars == <<now, chain, lastLive, cred, pc, started, resp, epochCache>>

RootView == [epoch : Epochs, paused : BOOLEAN]
Entry == [ok : BOOLEAN, epoch : Epochs, paused : BOOLEAN, fetched : Nat]

Never == -1
NoView == [epoch |-> 0, paused |-> TRUE]

TypeOK ==
    /\ now \in 0 .. MaxTime
    /\ chain \in [Roots -> RootView]
    /\ lastLive \in [Roots -> [Epochs -> Nat \cup {Never}]]
    /\ cred \in [Readers -> [root : Roots, epoch : Epochs]]
    /\ pc \in [Readers -> {"idle", "querying", "replied", "granted", "refused"}]
    /\ started \in [Readers -> Nat]
    /\ resp \in [Readers -> RootView]
    /\ epochCache \in [Roots -> Entry]

Init ==
    /\ now = 0
    /\ chain = [r \in Roots |-> [epoch |-> 0, paused |-> FALSE]]
    /\ lastLive = [r \in Roots |-> [e \in Epochs |-> IF e = 0 THEN 0 ELSE Never]]
    /\ cred \in [Readers -> [root : Roots, epoch : Epochs]]
    /\ pc = [p \in Readers |-> "idle"]
    /\ started = [p \in Readers |-> 0]
    /\ resp = [p \in Readers |-> NoView]
    /\ epochCache = [r \in Roots |-> [ok |-> FALSE, epoch |-> 0, paused |-> FALSE, fetched |-> 0]]

-----------------------------------------------------------------------------
(* checkRootState.                                                         *)

\* Wrong on purpose: an entry is still fresh when its TTL has just passed.
Fresh_inclusive(entry) == entry.ok /\ now - entry.fetched <= epochCacheTTL

Fresh(entry) == entry.ok /\ now - entry.fetched < epochCacheTTL

(* The checks after the entry is in hand.                                  *)
Verdict(view, epoch) ==
    IF ~view.paused /\ view.epoch = epoch THEN "granted" ELSE "refused"

(* Reader p returns; what it held of its query is gone with its stack.     *)
Return(p, verdict) ==
    /\ pc' = [pc EXCEPT ![p] = verdict]
    /\ started' = [started EXCEPT ![p] = 0]
    /\ resp' = [resp EXCEPT ![p] = NoView]

CacheHit(p) ==
    LET entry == epochCache[cred[p].root] IN
    /\ pc[p] = "idle"
    /\ Fresh(entry)
    /\ pc' = [pc EXCEPT ![p] = Verdict(entry, cred[p].epoch)]
    /\ UNCHANGED <<now, chain, lastLive, cred, started, resp, epochCache>>

CacheMiss(p) ==
    /\ pc[p] = "idle"
    /\ ~Fresh(epochCache[cred[p].root])
    /\ pc' = [pc EXCEPT ![p] = "querying"]
    /\ started' = [started EXCEPT ![p] = now]
    /\ UNCHANGED <<now, chain, lastLive, cred, resp, epochCache>>

(* The chain evaluates the query of p; its answer is on the way.           *)
ChainAnswers(p) ==
    /\ pc[p] = "querying"
    /\ pc' = [pc EXCEPT ![p] = "replied"]
    /\ resp' = [resp EXCEPT ![p] = chain[cred[p].root]]
    /\ UNCHANGED <<now, chain, lastLive, cred, started, epochCache>>

\* Wrong on purpose: the entry is backdated by a query's worst case.
EpochReply_backdated(p) ==
    /\ pc[p] = "replied"
    /\ epochCache' = [epochCache EXCEPT ![cred[p].root] =
          [ok |-> TRUE, epoch |-> resp[p].epoch, paused |-> resp[p].paused, fetched |-> now - RpcMax]]
    /\ Return(p, Verdict(resp[p], cred[p].epoch))
    /\ UNCHANGED <<now, chain, lastLive, cred>>

(* The answer arrives: fetched is the clock now, not when the query was    *)
(* sent; the entry replaces whatever is cached; the decision is on the     *)
(* answer itself.                                                          *)
EpochReply(p) ==
    /\ pc[p] = "replied"
    /\ epochCache' = [epochCache EXCEPT ![cred[p].root] =
          [ok |-> TRUE, epoch |-> resp[p].epoch, paused |-> resp[p].paused, fetched |-> now]]
    /\ Return(p, Verdict(resp[p], cred[p].epoch))
    /\ UNCHANGED <<now, chain, lastLive, cred>>

\* Wrong on purpose: a failed query falls back on the stale entry.
EpochError_failsOpen(p) ==
    LET entry == epochCache[cred[p].root] IN
    /\ pc[p] \in {"querying", "replied"}
    /\ Return(p, IF entry.ok THEN Verdict(entry, cred[p].epoch) ELSE "refused")
    /\ UNCHANGED <<now, chain, lastLive, cred, epochCache>>

(* The query failed or timed out: refused, and nothing is cached.          *)
EpochError(p) ==
    /\ pc[p] \in {"querying", "replied"}
    /\ Return(p, "refused")
    /\ UNCHANGED <<now, chain, lastLive, cred, epochCache>>

-----------------------------------------------------------------------------
(* The chain and the clock.                                                *)

SetRoot(r, s) ==
    /\ chain' = [chain EXCEPT ![r] = s]
    /\ lastLive' = IF s.paused THEN lastLive ELSE [lastLive EXCEPT ![r][s.epoch] = now]
    /\ UNCHANGED <<now, cred, pc, started, resp, epochCache>>

TogglePause(r) == SetRoot(r, [chain[r] EXCEPT !.paused = ~chain[r].paused])

NextEpoch(r) ==
    /\ chain[r].epoch + 1 \in Epochs
    /\ SetRoot(r, [chain[r] EXCEPT !.epoch = chain[r].epoch + 1])

(* Time passes while every outstanding query is within its timeout.        *)
Tick ==
    /\ now < MaxTime
    /\ \A p \in Readers : pc[p] \in {"querying", "replied"} => now - started[p] < RpcMax
    /\ now' = now + 1
    /\ lastLive' = [r \in Roots |-> [e \in Epochs |->
          IF chain[r].epoch = e /\ ~chain[r].paused THEN now + 1 ELSE lastLive[r][e]]]
    /\ UNCHANGED <<chain, cred, pc, started, resp, epochCache>>

checkRootState(p) ==
    CacheHit(p) \/ CacheMiss(p) \/ ChainAnswers(p) \/ EpochReply(p) \/ EpochError(p)

Next ==
    \/ \E p \in Readers : checkRootState(p)
    \/ \E r \in Roots : TogglePause(r) \/ NextEpoch(r)
    \/ Tick

Spec == Init /\ [][Next]_vars

-----------------------------------------------------------------------------
(* Properties.                                                             *)

outcome == [p \in Readers |-> IF pc[p] \in {"granted", "refused"} THEN pc[p] ELSE "none"]

Promise == INSTANCE BoundedStaleness WITH Bound <- epochCacheTTL - 1 + RpcMax

(* The heartbeat keeps a promise of bounded staleness, with the cache's    *)
(* TTL and one query's duration as the bound: however queries overlap and  *)
(* whichever answer is stored last, no read is granted on a root state     *)
(* older than that.                                                        *)
KeepsPromise == Promise!Spec

(* A root that stays revoked is refused for good once the bound has passed: *)
(* whatever is cached or on its way by then says so.                        *)
RevocationReachesCache ==
    \A r \in Roots, e \in Epochs :
        now - lastLive[r][e] > epochCacheTTL - 1 + RpcMax =>
            ~(/\ Fresh(epochCache[r])
              /\ Verdict(epochCache[r], e) = "granted")
=============================================================================
