----------------------------- MODULE Lifecycle ------------------------------
(***************************************************************************)
(* The process from start to exit: main and run (cmd/...), config.Load     *)
(* (internal/config), operator.Load (internal/operator), BuildProfile and  *)
(* Close (internal/wire), and Serve (internal/intermediary/server.go) with *)
(* its graceful shutdown.  Every boot step can fail; a stop signal may     *)
(* arrive at any time, during boot included; the key file may be replaced  *)
(* while the process boots; requests come, are answered or hang.  (The     *)
(* specification is ProcessSpec: it is proved about beside Registration.)  *)
(***************************************************************************)
EXTENDS Naturals

CONSTANTS
    Configs,      \* the config files there are
    Keys,         \* well-formed operator keys
    Requests,     \* HTTP requests
    Grace,        \* seconds Shutdown waits
    MaxRotations  \* bound: replacements of the key file

NoKey == "nokey"      \* an empty environment variable or file
BadKey == "badkey"    \* does not parse
Unset == "unset"

(* A config file: which required fields it sets, and what the optional     *)
(* ones say.                                                               *)
Config == [decodes    : BOOLEAN,
           dexChain   : BOOLEAN,     \* id, grpc_addr, comet_rpc_url, indexer_base_url
           listenAddr : BOOLEAN,
           agentID    : BOOLEAN,     \* agent_chain.id is set
           restURL    : BOOLEAN,     \* agent_chain.rest_url is set
           feeAmount  : {Unset, "ok", "malformed", "negative"},
           keyFile    : BOOLEAN]

ASSUME LifecycleAssumption ==
    /\ Configs \subseteq Config
    /\ {NoKey, BadKey} \cap Keys = {}
    /\ Grace \in Nat \ {0}
    /\ MaxRotations \in Nat

VARIABLES
    configGiven, file, env,  \* -config, the config file, SVPCHAIN_AGENT_OPERATOR_KEY
    keyFile,     \* contents of the key file; Unset when it cannot be read
    rotations,
    rotated,     \* history: the file was replaced between the two loads
    signalled,   \* SIGINT or SIGTERM arrived
    at,          \* where run is
    status,      \* exit status
    failure,     \* history: the step that failed, or "none"
    identity,    \* the key main signs with and takes its DID from
    conn,        \* the gRPC connection
    delegated,   \* App.Delegated: its key, chain id and transport
    accept,      \* the accept loop: "off", "on", "failed"
    req,         \* req[r]
    grace        \* seconds since Shutdown was called

inputs == <<configGiven, file, env>>
ProcessVars == <<inputs, keyFile, rotations, rotated, signalled, at, status, failure, identity,
          conn, delegated, accept, req, grace>>

Pcs == {"start", "config", "keyed", "dialed", "comet", "transferOut", "built",
        "checked", "serving", "draining", "exited"}

NoService == [key |-> NoKey, chainID |-> "none", over |-> "none"]

ProcessTypeOK ==
    /\ configGiven \in BOOLEAN /\ file \in Configs
    /\ env \in Keys \cup {NoKey, BadKey}
    /\ keyFile \in Keys \cup {NoKey, BadKey, Unset}
    /\ rotations \in 0 .. MaxRotations
    /\ rotated \in BOOLEAN
    /\ signalled \in BOOLEAN
    /\ at \in Pcs
    /\ status \in {"none", "0", "1"}
    /\ failure \in Pcs \cup {"none", "accept"}
    /\ identity \in Keys \cup {NoKey}
    /\ conn \in {"none", "open", "closed"}
    /\ delegated \in [key : Keys \cup {NoKey}, chainID : {"none", "dex", "agent"},
                      over : {"none", "gRPC", "REST"}]
    /\ accept \in {"off", "on", "failed"}
    /\ req \in [Requests -> {"none", "active", "answered", "cut"}]
    /\ grace \in 0 .. Grace

ProcessInit ==
    /\ configGiven \in BOOLEAN /\ file \in Configs
    /\ env \in Keys \cup {NoKey, BadKey}
    /\ keyFile \in Keys \cup {NoKey, BadKey, Unset}
    /\ rotations = 0
    /\ rotated = FALSE
    /\ signalled = FALSE
    /\ at = "start"
    /\ status = "none"
    /\ failure = "none"
    /\ identity = NoKey
    /\ conn = "none"
    /\ delegated = NoService
    /\ accept = "off"
    /\ req = [r \in Requests |-> "none"]
    /\ grace = 0

environment == <<inputs, keyFile, rotations, rotated, signalled>>

-----------------------------------------------------------------------------
(* config.Load.                                                            *)

ApplyDefaults(c) ==
    [c EXCEPT !.feeAmount = IF @ = Unset THEN "ok" ELSE @]

Validate(c) ==
    /\ c.dexChain
    /\ c.listenAddr
    /\ c.agentID = c.restURL
    /\ c.feeAmount = "ok"

cfg == ApplyDefaults(file)

\* Wrong on purpose: a readable key file wins over the environment.
LoadKey_fileFirst ==
    IF file.keyFile /\ keyFile \in Keys THEN keyFile ELSE env

\* operator.Load: the environment first, then the configured file.
LoadKey ==
    IF env # NoKey THEN env
    ELSE IF file.keyFile THEN keyFile ELSE NoKey

-----------------------------------------------------------------------------
(* run, up to Serve.                                                       *)

(* run returns; what is still being served is cut off.                     *)
Exit(code, connection) ==
    /\ at' = "exited"
    /\ status' = code
    /\ conn' = connection
    /\ accept' = IF accept = "on" THEN "off" ELSE accept
    /\ req' = [r \in Requests |-> IF req[r] = "active" THEN "cut" ELSE req[r]]

\* App.Close, deferred by run once BuildProfile has returned an app.
Close == IF conn = "open" THEN "closed" ELSE conn

Fail(step, connection) ==
    /\ failure' = step
    /\ Exit("1", connection)
    /\ UNCHANGED <<environment, identity, delegated, grace>>

(* One boot step from one label to the next, or the end of the process.    *)
Proceed(label) == at' = label /\ UNCHANGED <<status, failure, accept, req, grace>>

LoadConfig ==
    /\ at = "start"
    /\ \/ /\ configGiven /\ file.decodes /\ Validate(cfg)
          /\ Proceed("config")
          /\ UNCHANGED <<environment, identity, conn, delegated>>
       \/ /\ ~(configGiven /\ file.decodes /\ Validate(cfg))
          /\ Fail("start", conn)

LoadIdentity ==
    /\ at = "config"
    /\ \/ /\ LoadKey \in Keys
          /\ identity' = LoadKey
          /\ Proceed("keyed")
          /\ UNCHANGED <<environment, conn, delegated>>
       \/ LoadKey \notin Keys /\ Fail("config", conn)

Dial ==
    /\ at = "keyed"
    /\ \/ /\ conn' = "open"
          /\ Proceed("dialed")
          /\ UNCHANGED <<environment, identity, delegated>>
       \/ Fail("keyed", conn)

NewCometBftClient ==
    /\ at = "dialed"
    /\ \/ Proceed("comet") /\ UNCHANGED <<environment, identity, conn, delegated>>
       \/ Fail("dialed", "closed")

LoadTransferOut ==
    /\ at = "comet"
    /\ \/ Proceed("transferOut") /\ UNCHANGED <<environment, identity, conn, delegated>>
       \/ Fail("comet", "closed")

NewService ==
    [key      |-> LoadKey,
     chainID  |-> IF file.restURL THEN (IF file.agentID THEN "agent" ELSE "none") ELSE "dex",
     over     |-> IF file.restURL THEN "REST" ELSE "gRPC"]

\* Wrong on purpose: a key that no longer loads leaves the connection open.
LoadOperator_leaks ==
    /\ at = "transferOut"
    /\ \/ /\ LoadKey \in Keys \cup {NoKey}
          /\ delegated' = IF LoadKey = NoKey THEN NoService ELSE NewService
          /\ Proceed("built")
          /\ UNCHANGED <<environment, identity, conn>>
       \/ LoadKey \in {BadKey, Unset} /\ Fail("transferOut", conn)

(* BuildProfile loads the operator key a second time; by then the file may *)
(* hold another key, none, or not be readable.                             *)
LoadOperator ==
    /\ at = "transferOut"
    /\ \/ /\ LoadKey \in Keys \cup {NoKey}
          /\ delegated' = IF LoadKey = NoKey THEN NoService ELSE NewService
          /\ Proceed("built")
          /\ UNCHANGED <<environment, identity, conn>>
       \/ LoadKey \in {BadKey, Unset} /\ Fail("transferOut", "closed")

CheckDelegated ==
    /\ at = "built"
    /\ \/ /\ delegated # NoService
          /\ Proceed("checked")
          /\ UNCHANGED <<environment, identity, conn, delegated>>
       \/ delegated = NoService /\ Fail("built", Close)

-----------------------------------------------------------------------------
(* Serve.                                                                  *)

Listen ==
    /\ at = "checked"
    /\ \/ /\ at' = "serving"
          /\ accept' = "on"
          /\ UNCHANGED <<environment, status, failure, identity, conn, delegated, req, grace>>
       \/ Fail("checked", Close)

\* The accept loop ends with an error; it is waiting in errCh.
AcceptFails ==
    /\ at = "serving" /\ accept = "on"
    /\ accept' = "failed"
    /\ UNCHANGED <<environment, at, status, failure, identity, conn, delegated, req, grace>>

\* select: errCh.  Without Shutdown, what is being served is cut off.
ServeError ==
    /\ at = "serving" /\ accept = "failed"
    /\ Fail("accept", Close)

\* Wrong on purpose: the server is closed, not shut down.
Shutdown_closes ==
    /\ at = "serving" /\ signalled
    /\ Exit("0", Close)
    /\ UNCHANGED <<environment, failure, identity, delegated, grace>>

\* select: ctx.Done.  No request is accepted from here on.
Shutdown ==
    /\ at = "serving" /\ signalled
    /\ at' = "draining"
    /\ accept' = IF accept = "on" THEN "off" ELSE accept
    /\ UNCHANGED <<environment, status, failure, identity, conn, delegated, req, grace>>

\* Wrong on purpose: Shutdown is given no deadline.
ShutdownReturns_undated ==
    /\ at = "draining"
    /\ \A r \in Requests : req[r] # "active"
    /\ Exit("0", Close)
    /\ UNCHANGED <<environment, failure, identity, delegated, grace>>

\* Every request is done, or the grace period is over; its error is dropped.
ShutdownReturns ==
    /\ at = "draining"
    /\ grace = Grace \/ \A r \in Requests : req[r] # "active"
    /\ Exit("0", Close)
    /\ UNCHANGED <<environment, failure, identity, delegated, grace>>

run ==
    \/ LoadConfig \/ LoadIdentity
    \/ Dial \/ NewCometBftClient \/ LoadTransferOut \/ LoadOperator
    \/ CheckDelegated
    \/ Listen \/ ServeError \/ Shutdown \/ ShutdownReturns

-----------------------------------------------------------------------------
(* Requests, the operator of the host, and the clock.                      *)

server == <<inputs, at, status, failure, identity, conn, delegated, accept>>

Connect(r) ==
    /\ accept = "on" /\ req[r] = "none"
    /\ req' = [req EXCEPT ![r] = "active"]
    /\ UNCHANGED <<server, keyFile, rotations, rotated, signalled, grace>>

HandlerReturns(r) ==
    /\ at # "exited" /\ req[r] = "active"
    /\ req' = [req EXCEPT ![r] = "answered"]
    /\ UNCHANGED <<server, keyFile, rotations, rotated, signalled, grace>>

Signal ==
    /\ at # "exited" /\ ~signalled
    /\ signalled' = TRUE
    /\ UNCHANGED <<server, keyFile, rotations, rotated, req, grace>>

RotateKeyFile(k) ==
    /\ at # "exited" /\ rotations < MaxRotations /\ k # keyFile
    /\ keyFile' = k
    /\ rotations' = rotations + 1
    /\ rotated' = (rotated \/ at \in {"keyed", "dialed", "comet", "transferOut"})
    /\ UNCHANGED <<server, signalled, req, grace>>

\* Wrong on purpose: the deadline is one second late.
Tick_late ==
    /\ at = "draining" /\ grace <= Grace
    /\ grace' = grace + 1
    /\ UNCHANGED <<server, keyFile, rotations, rotated, signalled, req>>

\* A second of the grace period passes.
Tick ==
    /\ at = "draining" /\ grace < Grace
    /\ grace' = grace + 1
    /\ UNCHANGED <<server, keyFile, rotations, rotated, signalled, req>>

Done == at = "exited" /\ UNCHANGED ProcessVars

ProcessNext ==
    \/ run
    \/ AcceptFails
    \/ \E r \in Requests : Connect(r) \/ HandlerReturns(r)
    \/ Signal
    \/ \E k \in Keys \cup {NoKey, BadKey, Unset} : RotateKeyFile(k)
    \/ Tick
    \/ Done

(* The main goroutine runs, boot steps end, and time passes.  Requests are *)
(* owed nothing: they may hang for ever.                                   *)
ProcessFairness == WF_ProcessVars(run) /\ WF_ProcessVars(Tick)

ProcessSpec == ProcessInit /\ [][ProcessNext]_ProcessVars

ProcessFairSpec == ProcessSpec /\ ProcessFairness

-----------------------------------------------------------------------------
(* Properties.                                                             *)

InService == at \in {"serving", "draining"}

(* Every way out of run is clean: after the dial the chain connection is   *)
(* closed, whichever step failed, and the exit status tells the supervisor *)
(* the truth: 0 only for a process that was told to stop, 1 only if a step *)
(* failed.  A request that had to be cut off at the end of the grace       *)
(* period is not a failure.                                                *)
CleanExit ==
    at = "exited" => /\ conn # "open"
                     /\ status = "0" => signalled /\ failure = "none"
                     /\ status = "1" => failure # "none"

(* One identity on one chain.  The DID that is served, under which         *)
(* credentials are minted, is the audience the verifier demands, although  *)
(* the key is loaded twice, unless the key came from a file that was       *)
(* replaced meanwhile.  And a configured agent chain is the chain that is  *)
(* used: its id is the one transactions are signed for and credentials     *)
(* verified against, and the queries go to its REST API; otherwise both    *)
(* are the DEX chain's.                                                    *)
OneIdentity ==
    InService => /\ \/ delegated.key = identity
                    \/ env = NoKey /\ rotated /\ delegated.key # NoKey
                 /\ IF file.agentID
                    THEN delegated.chainID = "agent" /\ delegated.over = "REST"
                    ELSE delegated.chainID = "dex" /\ delegated.over = "gRPC"

(* A client that is still waiting is cut off only after the whole grace    *)
(* period, or because the listener itself failed.                          *)
CutOnlyAfterGrace ==
    \A r \in Requests : req[r] = "cut" => grace = Grace \/ failure = "accept"

(* A stop signal ends the process, whenever it arrives, during boot        *)
(* included, and whatever hangs.                                           *)
StopSignalStops == signalled ~> at = "exited"
=============================================================================
