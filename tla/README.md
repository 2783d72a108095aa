# A TLA+ model of svpchain-research-agent

The repository is an A2A agent that receives a task under a re-delegable SVP-DT
credential, charges a fee for its own work, mints a narrower child of the
credential and hands the task to a downstream agent. Around that role it keeps
the delegated-operation service it was extracted from: verification,
transactions signed with the operator key, delegated reads.

This directory models the parts where concurrency, time and partial failure
decide whether the agent is correct, checks them with TLC on small instances,
and proves the main results with TLAPS for every value of the constants.

Paths below are relative to the repository root.

## 1. The system

| Component | State | Operations | Hard behaviour |
|---|---|---|---|
| Intermediary role, `internal/intermediary` | one goroutine per task; nothing persisted | `Execute`, `handle`, `Forward`, `narrow`, `Send`, `Cancel`, `Serve` | a fee broadcast before the hop it pays for; expiry between the steps; lost replies; process death |
| Credential verification, `internal/delegated/service.go` | none (reads the params cache) | `verifyProof`, `checkRedelegationTargets`, `preflight` | what an appended token can still do; limits hit exactly |
| Root-state heartbeat, `internal/delegated/reads.go` | `epochCache` under `epochMu` | `checkRootState` | the query runs outside the lock: answers out of order, stamped on arrival |
| Operator transactions, `internal/delegated`, `internal/operator` | `seqMu`; the account's sequence lives on the chain | `execute`, `signAndBroadcastOwn`, `SignTx` | two network calls under a mutex, a sequence read from committed state, broadcasts that outlive their call |
| Delegated reads and read tenants, `reads.go`, `read_tenants.go` | `byID` under `mu` | `AuthorizeRead`, `Admit`, `sweepLocked`, `LookupTenantPolicy` | a table at its cap, expiry between admission and lookup |
| Params cache, `service.go` `walletParams` | `params`, `paramsAt` under `paramsMu` | one refresh a minute | the mutex is held across the query |
| Key resolver, `resolver.go` | none | `PublicKeys`, `AccountPubKey` | several queries per verification against a changing chain; a failed query falls back on another key |
| Registration and identity, `service.go` | `cardHash` | `SetCapabilityCard`, `SelfRegister`, `SelfUpdate`, `Identity` | the published hash must be of the bytes served; a transaction that outlives its deployment; a failed query that reads like an answer |
| Caller-signed chain operations, `internal/agentchain` | none | queries, build operations, `BroadcastSignedTx` | a tenant that ends between build and broadcast; two builds on one sequence; a retry of bytes that may have landed; the operator's own account without `seqMu` |
| REST client, `internal/agentrest` | none | queries, `BroadcastSync` | a 15 s timeout that does not recall what was sent |
| Tool bridge, `internal/toolbridge` | registry, filled once | `Register*`, `add`, adapters | two lists of one surface; duplicate names panic; a decoder that drops unknown keys |
| Wiring, config, `main`, `Serve` | built once; the listener and its requests | start-up, serving, shutdown | failure half-way through the build; two loads of the operator key; two sources of the public URL; a signal at any moment; requests that hang |

How they interact. `main` builds the delegated service through `internal/wire`,
gives it to the intermediary as verifier (`VerifyInbound`) and as spend recorder
(`ExecuteRecordSpend`), and serves the executor over HTTP. Every task is a
goroutine; they share the delegated service, hence `paramsMu`, `epochMu` and
`seqMu`, the operator's account, and the escrow orders on chain. The chain is
reached through REST (`[agent_chain]` configured) or gRPC; the downstream agent
through the A2A client.

What the shipped binary reaches. `wire.DelegationProfile` registers no tool
family, so in this binary `execute` is entered only from `Forward`'s fee step
and `Config.Spend` is never nil. The other handlers of `internal/delegated`, the
delegated reads among them, are library code of the repository, exercised by its
tests; `AuthorizeRead` and `Admit` have no caller outside tests. They are
modelled as the library they are.

## 2. Modules

| Module | Models | Refines / uses |
|---|---|---|
| `Credential` | tokens and caveats; `verifyProof`, `checkRedelegationTargets`, `preflight`, `narrow`; the `svpdt` library from its use (external) | |
| `Intermediary` | `Execute`, `handle`, `Forward`, `Send`, for concurrent tasks, with chain, downstream agent, clock and crashes | extends `Credential` |
| `BoundedStaleness` | the promise of the read path: a read is granted only if the root was live at most `Bound` seconds ago | abstract |
| `RootState` | `checkRootState` and its cache | refines `BoundedStaleness` |
| `OperatorTx` | the eight handlers that sign with the operator key, `execute`, `signAndBroadcastOwn`, and `BroadcastSignedTx`, with CheckTx, mempool and blocks | |
| `DelegatedRead` | `AuthorizeRead`, `pinArgsToPrincipal`, the tenant table, the tool handler behind it (external) | |
| `BoundedRegister` | the promise of the params cache: a version in force at most `Bound` seconds ago, and never an older one than already returned | abstract |
| `ParamsCache` | `walletParams` and `paramsMu` | refines `BoundedRegister` |
| `KeyResolver` | `PublicKeys`, `AccountPubKey`, for every token of one verification | |
| `AgentChain` | the tenant check, queries, build operations, `BroadcastSignedTx` | |
| `Registration` | `SetCapabilityCard`, `Identity`, `SelfRegister`, `SelfUpdate` over several deployments | |
| `ToolBridge` | the operation registry: families, registration, dispatch, argument decoding | |
| `Lifecycle` | `main`, `config.Load`, `operator.Load`, `BuildProfile`, `Close`, `Serve` | |
| `IntermediaryProofs` (with `Credential`), `RootStateProofs`, `OperatorTxProofs`, `DelegatedReadProofs`, `ParamsCacheProofs`, `KeyResolverProofs`, `AgentChainProofs`, `DeploymentProofs` (`Registration`, `Lifecycle`, `ToolBridge`) | theorems | each extends its components |
| `MCIntermediary`, `MCRootState`, `MCOperatorTx`, `MCDelegatedRead`, `MCParamsCache`, `MCKeyResolver`, `MCAgentChain`, `MCRegistration`, `MCDeployment` (`Lifecycle`, `ToolBridge`) | instances for TLC | |

### Intermediary

`pc[t]` is the place of task `t`'s goroutine in `Forward`; each label is a point
where the goroutine can be preempted with something observable on either side:
`working` (request read), `verified` (steps 1 and 2), `charging` (the fee call
passed its own checks), `minting`, `sending`, `awaiting`. A failing check is an
action that answers the task, so "some check failed" and "a query the check needs
failed" are the same exit, as they are for the caller. `Execute` yields
Completed with the error text for every refusal, hence `Answer`. Errors that have
no condition in the model (`RefuseInbound`, `RefuseSpend`, `MintError`,
`SendError`) may happen at any time: a query, the nonce or the network can fail.

The chain keeps, per task, how many of its fee transactions are in the mempool,
landed, failed in a block or refused by CheckTx, and what is left of each escrow
order. The downstream agent runs `verifyProof` under its own DID: the comments
on `Forward` and `checkRedelegationTargets` say it does. `Crash` stands for a
kill and for `Serve` returning after its 10 s grace.

A credential is a sequence of tokens. Signatures and the parent hash become
linkage (issuer = previous audience); budgets are amounts of one denomination.
`TrimSpace` is kept as a function because `Forward` tests the raw
`downstream_did` against the targets and addresses the child to the trimmed one.
`VerifyChain` is assumed to check depth, audience, lifetime, linkage and
monotonicity, and not `redelegate_to` (the repository checks that itself and its
tests document that the library does not) nor `redelegable`: assuming less of
the library makes the safety results stronger.

Depth has two ceilings: `MaxDelegationDepth` of the params, and the `MaxDepth`
caveat of each token, taken as the number of tokens a chain with that token may
have, which does not grow from parent to child. This is the reading under which
the tests' own chains verify: a lone token with 1 (`resolver_test.go:133`), a
pair whose child says 2 (`reads_test.go:356`), a child that inherits its
parent's 3 (`intermediary_test.go:162`, `child := parent` in `narrow`).

### RootState

A reader is one `AuthorizeRead` whose proof has verified. The lookup and the
store are atomic (`epochMu`), the query between them is not. `ChainAnswers`
separates the instant at which the chain evaluates the query from the instant at
which the answer arrives. `lastLive` is a history variable: the last instant a
root was at an epoch and not paused. Time is whole seconds and `Tick` is held
back while a query is at its timeout, which is how `RpcMax` bounds a query.

### OperatorTx

A call is one handler invocation: admitted by its checks (`ExecuteOrder` for the
four order handlers, `ExecuteRecordSpend`, `Claim`, `SelfRegister`,
`SelfUpdate`), then `Lock` if its transaction is not gas-free, `Account`,
`BroadcastSync`, and an answer or an error. A lost or timed-out broadcast stays
on the `wire` and may be checked later or never. `broadcast_agent_chain_tx` is the same
path without the lock; its account read is the one `assemble` made when the
transaction was built. Account queries answer from committed state, CheckTx
judges against `checkSeq`; admitted transactions are not evicted.

### DelegatedRead

The verification of the proof, the rest of `AuthorizeRead`, `Admit` and the
handler's lookup are four separate steps: `verifyProof` reads the clock once,
before it looks keys up, and the root is queried after that. Each table operation
is atomic (`mu`). What the heartbeat answers is left open (`RefuseRead` may
always happen before the read is authorized). Tenant ids are 8 bytes of a hash;
an id stands for one credential.

### ParamsCache

The mirror image of `RootState`: the lock is held across the query, so answers
cannot overtake each other, which is the second half of what `BoundedRegister`
promises, and the others wait, which is what `WaitBounded` measures: a path that
kept the lock would exceed it. The params
are a version number that governance increases. Steps of the process take no
time: `Tick` is held back while a call could take the lock.

### KeyResolver

One verification of a chain of one or two tokens. The library asks for the keys of
one token after the other; the registry and then the account are queried, and
between any two queries agents register, deregister and accounts publish their
key. The histories record what held at some instant of the verification
(`wasKey`, `unregistered`) and what held at all of them (`always`); the two
properties are stated from these, one from either side. Verifications share no
state, so one is enough.

### AgentChain

An operation is built (`Begin`: tenant and arguments; `assemble`: `ValidateBasic`
and the account's committed sequence), signed by its client, and broadcast under
the tenant it was built for or another; tenants are killed or expire at any
time. A request says which public key its transaction declares and whose key
signed it. `signerPinned` compares the declared key with the presenting tenant's
owner, as `signerAddress` does, and does not look at the signature; the chain's
ante handler does, which is `Authentic`, a guard of `CheckTx`. The argument
tables give, for each of the eleven build operations and eleven queries, what it
parses and can refuse. After an error the client sends the same bytes again.
The chain is that of `OperatorTx`, with one sequence per account and broadcasts
numbered so that an answer reaches only the call that waits for it.

### Registration

A deployment serves one card, whose number is its hash. `SetCapabilityCard`
stands for a redeploy: the process with its calls, its lock and its memory is
gone, what it broadcast is not. The operator does what the comments say: update
after a deploy, otherwise ask `agent_identity` and do what the answer calls for.
`wired` says whether the wiring hands the service its card, which the
repository's own wiring does not; both are checked. The record may belong to
another owner from the start, and then cannot be updated.

### ToolBridge

The registry is built twice at once from the same families, with the service and
without, so that `SameSurface` can compare the two. Tool names are those of the
four source files: a name that two families share panics, which `SameSurface`
rules out as well. A call has a form (absent, `null`, an object, mistyped, broken) and a set of
top-level keys; an unknown key deeper in `order` or `record` is dropped by
`json.Unmarshal`, and `NothingDropped` says nothing of it.

### Lifecycle

`at` is the place of `run`; each label is a step that can fail, with the defers in
force at that point: before `BuildProfile` returns, the failing step closes the
connection, after it `App.Close` does. The key file is read at two of the steps and may
be replaced at any time. `Serve` selects between the listener's error and the
signal's context; `Shutdown` waits for the requests or its deadline, and its
error is dropped. A request is a client waiting for its answer; `Crash` in
`Intermediary` is what its task sees when it is cut.

## 3. Runs

| Run | Checks | Bounds | States | Result |
|---|---|---|---|---|
| `intermediary` | `TypeOK`, `ForwardedWithinGrant`, `NoThirdHop`, `UsableDownstream`, `ChargedOnceBeforeForward`, `AnswerIsTrue`, `EveryTaskAnswered` | 2 tasks, 14 requests, clock 0..4, 1 crash | 582,038 | holds |
| `intermediary_fee` | `RefusedFeeAborts` | 1 task | | violated |
| `intermediary_depth` | `UnusableFailsHere` | 1 task | | violated |
| `root_state` | `TypeOK`, `RevocationReachesCache`, `KeepsPromise` | 3 readers, 1 root, 2 epochs, TTL 2, query ≤ 2 s, clock 0..4 | 719,639 | holds |
| `operator_tx` | `TypeOK`, `RefusalHasACause`, `OutcomeIsTrue`, `EveryCallReturns` | 3 calls, 5 requests | 465,515 | holds |
| `operator_tx_race` | `ExecutesDontRace` | 2 calls, 6 requests | | violated |
| `delegated_read` | `TypeOK`, `ServedWithinGrant`, `TableBounded`, `UnknownTenantExplained`, `NoEviction` | 3 calls, 9 requests, 3 ids, cap 2, clock 0..4 | 85,089 | holds |
| `params_cache` | `TypeOK`, `WaitBounded`, `KeepsPromise` | 3 calls, 3 versions, TTL 3, query ≤ 2 s, clock 0..7 | 512,576 | holds |
| `key_resolver` | `TypeOK`, `KeysOfItsTime`, `NoSpuriousRefusal` | 3 issuers, 3 keys, 5 chains, 2 changes | 330,353 | holds |
| `agent_chain` | `TypeOK`, `TenantLandsOwn`, `RefusalIsFinal`, `BadSequenceExplained` | 2 operations, 15 requests, 3 tenants, 2 sends each | 4,621,957 | holds |
| `registration` | `TypeOK`, `NoOlderCard`, `EventuallyVerified` | 2 sessions, 3 deployments, 8 transactions, 1 fault | 640,171 | holds |
| `deployment` | `ProcessTypeOK`, `CleanExit`, `OneIdentity`, `CutOnlyAfterGrace`, `StopSignalStops` | 10 configs, 2 keys, 2 requests, grace 2, 2 rotations | 40,712 | holds |
| | `SurfaceTypeOK`, `SameSurface`, `NothingDropped` | every set of the 12 families, 2 caller keys | 389,120 | holds |

`deployment` checks two components in one run. They share no variable, so either
is let move while the other stays in its first state, and the states of the one
are added to the other's, not multiplied.

Why the bounds are enough to meet the cases. *Intermediary*: one request per
exit of `Forward`; two tasks compete for an escrow order that can pay one of
them; credentials live 1, 3 or 4 seconds on a clock of 5 instants, so they expire
between any two steps; `MaxDelegationDepth` 3 leaves a forwarded one-token chain
room for the third hop that must be refused for its targets and not for its
length, and puts a three-token chain exactly at the ceiling; a one-token chain
with `MaxDepth` 1 is at its own. *RootState*: two overlapping queries plus a read from the cache are
needed to store answers out of order, and the clock is long enough for a query,
a TTL and one second more. *OperatorTx*: a holder, a waiter and a foreign or
late transaction; claims and self-registrations take the path of a fee
recording once admitted, so one of them stands for all. *DelegatedRead*: three
tenants for a table of two. *ParamsCache*: one call queries while two wait; the
clock is long enough for a query, a TTL and one second more, with two changes of
the params meanwhile. *KeyResolver*: two changes are what it takes for a key to be
registered and withdrawn, or for two issuers to change, between two queries.
*AgentChain*: two transactions of one account, one of them sent twice; one
request per way to be refused, here or by the chain. *Registration*: three deployments, so that a
transaction can outlive two of them, two sessions that compete for the lock, and
room for more transactions than faults, sessions and deployments can waste.
*ToolBridge*: exhaustive in the families; the key of a nested write and one that
belongs inside its wrapper. *Lifecycle*: a valid config and each way to leave it
by one field; a request is answered while the other hangs.

`SYMMETRY` is used only in the safety runs `root_state`, `params_cache` and
`delegated_read`, over readers or calls, which no definition tells apart.
`operator_tx` checks liveness too, where it is not sound; it starts instead from
one arrangement of each mix of requests (`MCFairSpec`), for the same reason. The
safety properties of all of them are proved besides, for every value of the
constants (section 4).

Deadlock is checked in every passing run: `Quiescent` and `Done` are the states
in which nothing is left to do, reached only when every call ended and the
environment is empty; in `RootState` the owner of a root and in `Registration`
the operator can always act, and in `deployment` a surface whose call was made
stays as it is (`Called`).

### Fairness

Only the process's own steps are fair, one weak-fairness conjunct per goroutine:
Go schedules runnable goroutines, and a network call ends because the REST client
gives up after 15 s (`agentrest.New`), so every waiting label has an error exit
that is always enabled. The chain and the downstream agent are not fair: they may
answer nothing and mine nothing. For the A2A client the same bounded wait is an
assumption about the library, and for the gRPC path (no `[agent_chain]`) there is
no client-side timeout, so there `EveryCallReturns` and the value of `RpcMax` rest on the caller's context. `Execute` itself is not
fair: a task that was never started is owed no answer.

In `Lifecycle` the main goroutine is fair and the clock is;
requests are not, they may hang for ever. That the boot steps end is an
assumption about the dial, which is given the signal's context.
`EventuallyVerified` is about an outcome on the chain, so it needs more: the
chain goes on (CheckTx and blocks), the operator keeps asking and acting, and
`seqMu` is given to whoever keeps waiting (strong fairness, which Go's mutex
provides by its starvation mode). Faults are bounded, not fair.

### What the violated runs show

- `intermediary_fee`: CheckTx refuses the fee, `execute` returns a nil error
  with a non-zero code, `Forward` drops the result, mints and forwards. The
  comment says such a fee should abort the task.
- `intermediary_depth`: `intermediary.go:184` says an unusable credential "fails
  here rather than one hop later". The check is of the chain without the child
  that is about to be added: one that already has as many tokens as the params'
  or its leaf's own `MaxDepth` allow passes, is charged for and forwarded, and
  is one token too long downstream. `UsableDownstream` is what does hold: a
  message the next agent refuses had expired on its way or had no headroom.
- `operator_tx_race`: two fee-paying calls in one block interval. The second
  takes the lock after the first returned, reads the committed sequence, which
  does not count the first, and is refused. The comment says serializing stops
  executes from racing the sequence. `RefusalHasACause` is what the lock does give.

### Where else a comment promises more than the code

The passing runs state these with the exception the code really makes:

- `broadcast.go:40` says "a tenant may only land txs signed by its own owner
  key". The pin reads the declared public key only: a transaction that declares
  the owner's key and was signed with another is broadcast, and it is the chain
  that refuses it. `TenantLandsOwn` is therefore about what the chain has taken,
  not about what was put on the wire.
- `service.go:102` says of the heartbeat "The TTL is the bound", `service.go:93`
  that a governance change is not "missed for more than a minute". Both caches
  stamp an entry when the answer arrives. The bounds that hold are TTL − 1 + the
  duration of a query: `KeepsPromise` of `RootState` and of `ParamsCache`.
- `resolver.go:34` says "the registry always wins". A failed registry query makes
  a registered agent's account key acceptable: the set `failed` in
  `KeysOfItsTime`. The comment adds that the chain verifies again.
- `service.go:488` says `SetCapabilityCard` is "Called once at wiring". Nothing
  outside tests calls it, so `SelfRegister` and `SelfUpdate` are refused:
  `EventuallyVerified` is conditional on `wired`, and `NoOlderCard` says that the
  unwired service leaves the record alone.
- `service.go:504` says `Identity` reports the current registration state. It
  answers a failed query as unregistered (`Identity` in `Registration`); an
  operator that goes by it registers again, which the chain refuses, and
  `EventuallyVerified` holds in spite of it.
- `service.go:67` says the record and the card "always advertise the same base
  URL". The card takes it from `-public-url` (default `http://127.0.0.1`), the
  service from `public_url` (default `http://localhost`); nothing compares them.

## 4. Theorems

Every theorem is for arbitrary constants: any number of tasks, calls, sessions,
issuers, tenants, deployments and chain transactions, and any value of the
bounds. Every invariant and every action property that a passing run checks is a
theorem, and every inductive invariant was model-checked on the run's instance.
The assumptions are the named `ASSUME`s. All but one fix types and say that the
"absent" values are not ordinary ones or that something is finite or not zero
(`Calls` of `ParamsCache` is finite, since its bound counts calls; an operation
of `AgentChain` may be sent at least once). The exception is `IdAssumption` of
`DelegatedRead`: requests under one tenant id carry one credential, that is,
eight bytes of SHA-256 do not collide.

`DeploymentProofs` extends three components that share no variable; this is why
the specifications of `Lifecycle` and `ToolBridge` are called `ProcessSpec` and
`SurfaceSpec`, and their type invariants `ProcessTypeOK` and `SurfaceTypeOK`.

- `IntermediaryProofs`, on credentials: `ThirdHopRefused` (any token appended to
  a chain whose leaf is constrained to no target is refused) and
  `MintedChainVerifies` (a verified chain plus a child `Attenuate` signs verifies
  at the next hop, given that the child is live and that the params and the
  child's own `MaxDepth` leave room for it). They rest on the transitivity of
  `Narrower` and on what `narrow` keeps. On the intermediary: the five safety
  properties and `TypeOK`. None of them is inductive: the property is about a
  message already sent, the checks were made earlier, at another instant. `IInv`
  carries that history: a task past verification was `Forwardable` at some
  instant up to now; a chain that exists was `Built` from such a request by a
  permitted child; where a task may be while its fee count is 0 or 1; which
  answers exclude a message.
- `RootStateProofs`: `Refinement` (`Spec => Promise!Spec`) and
  `RevocationReaches`. The cache alone says nothing about the chain: `IInv` ties
  an answer on its way (`AnswerInv`) and each cached entry (`CacheInv`) to the
  last instant at which what it says was true. An older answer that overwrites a
  newer one is covered because the bound is stated from the start of its own query.
- `OperatorTxProofs`: `RefusalsExplained`, `OutcomesAreTrue`. `SeqInv` says that
  every sequence between the committed and the checked one is in the mempool, so
  with nothing on its way the two agree; `HolderInv` that what the lock holder
  read stays the next sequence until its answer, unless a foreign transaction
  came in; `LockInv` that there is one such holder.
- `ParamsCacheProofs`: `Refinement` (`Spec => Promise!Spec` with
  `BoundedRegister`) and `WaitIsBounded`. The chain's versions only grow
  (`ChainInv`); the answer the holder of `paramsMu` waits for is no older than
  what is cached, because no other call can store meanwhile (`LockInv`,
  `AnswerInv`); the cached version was in force at most one query before it was
  stored (`CacheInv`) and no result is newer than it (`ResultInv`), so results
  never go back. The wait is counted in calls that returned (`WaitInv`): a call
  has waited at most one query's duration for each of them until the present
  query began, and the present one adds its own.
- `DelegatedReadProofs`: `TableIsBounded`, `ServedIsWithinGrant`,
  `UnknownTenantIsExplained`, `NobodyIsEvicted`. A call holds nothing between its
  admission and its lookup. What makes the table answer for this credential is
  `TableInv`: each entry is what any request under its id would have stored, and
  so another call's re-admission changes nothing. That needs `IdAssumption`. The
  cap and `AlwaysInScope` (what is served is the principal's and in the granted
  subaccounts) are proved before it and do without: a collision could change how
  long a tenant lives and whose it is, never whose data a call is served.
- `KeyResolverProofs`: `VerifiedKeysAreCurrent`, `PreflightIsNotStricter`, for
  chains of any length. An answer is about the instant of its query, the
  properties about the whole verification: while it runs its history covers the
  present (`CoverInv`), tokens behind the current one are vouched for
  (`CheckedInv`), and after an unregistered answer the account key is all the
  chain's rule can have taken throughout (`FallbackInv`, which uses that a
  published key stays published).
- `AgentChainProofs`: `LandsOnlyOwn`, `RefusalsAreFinal`,
  `BadSequenceIsExplained`. No lock spans the client's signing. `PinInv` keeps
  what the pin compared for as long as the bytes are out, `TakenInv` what the
  chain's check did; neither alone says whose key signed for whom. `OnceInv`
  says that without a broadcast in doubt there is one copy, and that its verdict
  tells where it is; `NextInv`, with `SeqInv` as in `OperatorTx` but per account,
  that without a rival or a doubt what was built stays the account's next.
- `DeploymentProofs`, on the record: `NeverAnOlderCard`. A redeploy leaves what
  the old process broadcast on its way. `OrderInv`: all that is signed is for a
  sequence the chain has reached, so a block uses up the sequence of everything
  else that is out, and what may still land carries a card at least as new as the
  record's. `SessionInv` says that a session publishes the running deployment's
  card, or nothing when none was wired.
- `DeploymentProofs`, on the process: `ExitsAreClean`, `ServesUnderOneIdentity`,
  `GraceIsKept`, for any configurations, keys, key rotations, requests and grace
  period. The exit is reached from every step of the boot and from the shutdown,
  so `ConnInv` says at which of them a connection is open, and `StatusInv` that
  nothing failed before. The key is loaded twice with a dial and two checks in
  between: `IdentityInv` says that until the second load the first still tells
  what it will find, unless the key file was replaced, and that from then on the
  service has the identity and the chain the configuration names. `RequestInv`
  confines open requests to serving and draining, so only the shutdown's end and
  a failed listener can cut one.
- `DeploymentProofs`, on the surface: `SurfacesAgree`, `WritesDropNothing`, for
  arguments with any keys, and `SurfaceTypeCorrect`, which says too that each
  tool is served by one operation and that nothing is live without an operator
  key. `RegistryInv`: the registry is the union of its families' operations, in
  whatever order they came, and no add panicked. It is preserved because the
  families' tools are disjoint (`FamiliesDisjoint`), which is checked on the
  tables themselves; that each family agrees with itself between the two
  deployments, and that a delegated write is adapted strictly or refused, is
  `OpFacts`. So the tables may grow without a search: a tool claimed twice, or a
  name missing from the refusals, leaves a leaf unproved.

Only model-checked, and why: `EveryTaskAnswered`, `EveryCallReturns`,
`StopSignalStops`, `EventuallyVerified`. Liveness under fairness is out of the
prover's reach.

## 5. Not modelled

- Contents of orders, coins with several denominations, JSON, base64, protobuf:
  data no property tells apart. Parsing failures are folded into `shape`,
  `valid` and `wellFormed`.
- Signatures and hashes: the library's; a token is signed by its issuer.
- `Cancel` yields a Canceled event and changes nothing in the process. What the
  A2A library then does with the running executor's context and with its later
  Completed event is not in this repository, and no comment here claims anything.
- `adapt`, which wraps the tool handlers of another repository, beyond the tools
  it registers; what those handlers do.
- Card contents, endpoint and public URL: no property tells them apart.
- `GetSettlement` and the REST query methods: they render what the chain
  answers. (`GetSettlement` reads an order and its claimables in two queries;
  nothing says they are of one block.)
- A collision of two credentials in the 64 bits of a tenant id (`IdAssumption`).
- Mempool eviction, re-checks and block-time limits of the chain.
- Deployment scripts: they write configuration files.

## 6. Plan

Done: 1. `Credential`, `Intermediary`. 2. `RootState` as a refinement of
`BoundedStaleness`. 3. `OperatorTx`. 4. `DelegatedRead`. 5. `ParamsCache` as a
refinement of `BoundedRegister`. 6. `KeyResolver`. 7. `Lifecycle`.
8. `AgentChain`. 9. `Registration`. 10. `ToolBridge`. 11. Proofs of the safety
properties of all of them.

Next:

12. Compositions: `Intermediary`'s fee step refined by `OperatorTx`; `RootState`
    under `DelegatedRead`.
