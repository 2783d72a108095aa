----------------------------- MODULE ToolBridge -----------------------------
(***************************************************************************)
(* The operation registry (internal/toolbridge): a profile composes the    *)
(* families it serves in some order, with the delegated service or, on a   *)
(* deployment without an operator key, with none; calls are then looked up *)
(* and their arguments decoded.  The same profile is composed here both    *)
(* ways at once, so that the two surfaces can be compared.                 *)
(*                                                                         *)
(* What a handler does is left out: an operation runs on what was decoded. *)
(* A deployment's operations (this module), process (Lifecycle) and record *)
(* (Registration) are proved about together, so each has names of its own. *)
(***************************************************************************)
EXTENDS Naturals, FiniteSets

CONSTANT ArgKeys   \* top-level keys callers put in their arguments

(* The bridged families and their tools.                                   *)
BridgedFamilies ==
    [MarketData   |-> {"list_markets", "get_market", "get_orderbook", "get_oracle_price", "get_candles",
                       "get_trades", "get_sparklines", "get_historical_funding", "get_height", "get_time"},
     Account      |-> {"get_subaccount", "get_live_subaccount", "get_balance", "whoami", "get_orders",
                       "get_order", "get_fills", "get_transfers", "get_pnl", "get_historical_pnl",
                       "get_funding_payments"},
     Trading      |-> {"build_place_limit_order", "build_place_market_order",
                       "build_place_conditional_order", "build_cancel_order", "build_batch_cancel_orders"},
     Funds        |-> {"build_deposit_to_subaccount", "build_withdraw_from_subaccount",
                       "build_transfer_between_subaccounts", "build_bank_send",
                       "get_transfer_out_cap", "set_transfer_out_cap"},
     Broadcast    |-> {"broadcast_signed_tx", "get_tx_status"},
     Auth         |-> {"auth_challenge", "auth_verify"},
     Faucet       |-> {"list_faucet_tokens", "faucet_claim"},
     EVMBroadcast |-> {"broadcast_evm_tx", "evm_tx_status"},
     EVMDeFi      |-> {"quote_swap", "build_token_approval", "build_swap", "build_bridge_deposit",
                       "build_bridge_deposit_inbound", "build_erc20_transfer", "build_erc20_approve",
                       "build_erc20_transfer_from", "build_erc721_transfer_from",
                       "build_erc721_safe_transfer_from", "build_erc721_approve",
                       "build_erc721_set_approval_for_all"}]

(* The agent chain's operations: one family, two skills.                   *)
AgentChainTools ==
    [AgentRegistry |-> {"get_agent", "get_agent_by_operator", "list_agents", "get_agents_by_owner",
                        "get_agents_by_capability", "get_agent_params", "broadcast_agent_chain_tx",
                        "build_register_agent", "build_update_agent", "build_deposit_bond",
                        "build_withdraw_bond", "build_deregister_agent"},
     Delegation    |-> {"get_delegation", "get_delegations_by_delegator", "get_delegation_epoch",
                        "get_delegation_spend", "get_agentwallet_params", "build_create_delegation",
                        "build_update_delegation", "build_pause_delegation", "build_resume_delegation",
                        "build_revoke_delegation", "build_revoke_token"}]

\* The names a deployment without the service registers as refusals.
executionPerpsTools ==
    {"execute_place_order", "execute_cancel_order", "execute_batch_cancel", "execute_deposit_to_subaccount"}

\* Wrong on purpose: an operation was added to the service's list only.
executionCoreTools_stale ==
    {"execute_record_spend", "get_settlement", "agent_claim", "agent_identity", "agent_self_register"}

executionCoreTools ==
    {"execute_record_spend", "get_settlement", "agent_claim", "agent_identity", "agent_self_register",
     "agent_self_update"}

\* What the operations of the service are adapted with.
LivePerps ==
    [execute_place_order |-> "strict", execute_cancel_order |-> "strict", execute_batch_cancel |-> "strict",
     execute_deposit_to_subaccount |-> "strict"]

\* Wrong on purpose: recording a spend decodes like a query.
LiveCore_lenient ==
    [execute_record_spend |-> "native", get_settlement |-> "native", agent_claim |-> "native",
     agent_identity |-> "native", agent_self_register |-> "native", agent_self_update |-> "native"]

LiveCore ==
    [execute_record_spend |-> "strict", get_settlement |-> "native", agent_claim |-> "native",
     agent_identity |-> "native", agent_self_register |-> "native", agent_self_update |-> "native"]

(* The JSON keys of the execution inputs' top-level fields.                *)
jsonKeysOf ==
    [execute_place_order           |-> {"proof", "order"},
     execute_cancel_order          |-> {"proof", "cancel"},
     execute_batch_cancel          |-> {"proof", "cancel"},
     execute_deposit_to_subaccount |-> {"proof", "deposit"},
     execute_record_spend          |-> {"proof", "record"},
     get_settlement                |-> {"settlement_id"},
     agent_claim                   |-> {"settlement_id"},
     agent_identity                |-> {},
     agent_self_register           |-> {"bond"},
     agent_self_update             |-> {}]

Execs == {"service", "nil"}
Families == DOMAIN BridgedFamilies \cup {"AgentChain", "ExecutionCore", "ExecutionPerps"}

SkillOf(family) == IF family \in {"EVMBroadcast", "EVMDeFi"} THEN "EVM" ELSE family

(* A family's operations: tool, skill, adapter.                            *)
Same(tools, skill, adapter) == {<<t, skill, adapter>> : t \in tools}

\* Wrong on purpose: the operations are registered without their service.
Execution_unserved(live, names, exec) == {<<t, "Execution", live[t]>> : t \in DOMAIN live}

Execution(live, names, exec) ==
    IF exec = "nil" THEN Same(names, "Execution", "refusing")
    ELSE {<<t, "Execution", live[t]>> : t \in DOMAIN live}

OpsOf(family, exec) ==
    CASE family \in DOMAIN BridgedFamilies -> Same(BridgedFamilies[family], SkillOf(family), "adapt")
      [] family = "AgentChain"             -> UNION {Same(AgentChainTools[s], s, "native") : s \in DOMAIN AgentChainTools}
      [] family = "ExecutionCore"          -> Execution(LiveCore, executionCoreTools, exec)
      [] family = "ExecutionPerps"         -> Execution(LivePerps, executionPerpsTools, exec)

(* Arguments: nothing, JSON null, an object, or one that does not decode   *)
(* at all or into the input's types.                                       *)
Args == [form : {"none", "null", "broken"}, keys : {{}}]
          \cup [form : {"object", "mistyped"}, keys : SUBSET ArgKeys]

VARIABLES
    families,   \* those the profile has registered
    serving,
    ops,        \* ops[e]: the registry built with e
    panicked,   \* panicked[e]: an add met its tool in the registry
    call        \* a call; calls leave the registry as it is, so one will do

SurfaceVars == <<families, serving, ops, panicked, call>>

Skill == {SkillOf(f) : f \in DOMAIN BridgedFamilies} \cup {"AgentRegistry", "Delegation", "Execution"}
NoCall == [exec |-> "nil", tool |-> "none", keys |-> {}, result |-> "none", decoded |-> {}]

ToolsOf(registry) == {op[1] : op \in registry}

SurfaceTypeOK ==
    /\ families \subseteq Families /\ serving \in BOOLEAN
    /\ DOMAIN ops = Execs
    /\ \A e \in Execs :
          /\ \A op \in ops[e] : op[2] \in Skill /\ op[3] \in {"adapt", "native", "strict", "refusing"}
          /\ e = "nil" => \A op \in ops[e] : op[3] # "strict"
          /\ Cardinality(ToolsOf(ops[e])) = Cardinality(ops[e])
    /\ panicked \in [Execs -> BOOLEAN]
    /\ call.result \in {"none", "unknown", "refused", "decode", "unknownKey", "ran"}

SurfaceInit ==
    /\ families = {}
    /\ serving = FALSE
    /\ ops = [e \in Execs |-> {}]
    /\ panicked = [e \in Execs |-> FALSE]
    /\ call = NoCall

-----------------------------------------------------------------------------
(* Composition.                                                            *)

(* The adds of one family; a name that is taken panics.                    *)
add(e, new) ==
    LET dup == ToolsOf(new) \cap ToolsOf(ops[e]) # {}
    IN  [dup |-> dup, ops |-> IF dup THEN ops[e] ELSE ops[e] \cup new]

Register(family) ==
    /\ ~serving /\ family \notin families
    /\ families' = families \cup {family}
    /\ ops' = [e \in Execs |-> add(e, OpsOf(family, e)).ops]
    /\ panicked' = [e \in Execs |-> panicked[e] \/ add(e, OpsOf(family, e)).dup]
    /\ UNCHANGED <<serving, call>>

Serve ==
    /\ ~serving /\ serving' = TRUE
    /\ UNCHANGED <<families, ops, panicked, call>>

-----------------------------------------------------------------------------
(* Calls.                                                                  *)

Lookup(e, tool) == {op \in ops[e] : op[1] = tool}

(* What each adapter does with the arguments; the operation runs on the    *)
(* keys its input has and drops the others.                                *)
adaptNative(tool, args) ==
    IF args.form \in {"broken", "mistyped"} THEN [result |-> "decode", decoded |-> {}]
    ELSE [result |-> "ran", decoded |-> args.keys \cap jsonKeysOf[tool]]

adaptStrictNative(tool, args) ==
    IF args.form = "broken" THEN [result |-> "decode", decoded |-> {}]
    ELSE IF ~(args.keys \subseteq jsonKeysOf[tool]) THEN [result |-> "unknownKey", decoded |-> {}]
    ELSE adaptNative(tool, args)

Dispatch(tool, adapter, args) ==
    CASE adapter = "refusing" -> [result |-> "refused", decoded |-> {}]
      [] adapter = "strict"   -> adaptStrictNative(tool, args)
      [] adapter = "native"   -> adaptNative(tool, args)

CallTool(e, tool, args) ==
    LET found == Lookup(e, tool)
        out   == IF found = {} THEN [result |-> "unknown", decoded |-> {}]
                 ELSE Dispatch(tool, (CHOOSE op \in found : TRUE)[3], args)
    IN  /\ serving /\ ~panicked[e] /\ call = NoCall
        /\ call' = [exec |-> e, tool |-> tool, keys |-> args.keys, result |-> out.result, decoded |-> out.decoded]
        /\ UNCHANGED <<families, serving, ops, panicked>>

SurfaceNext ==
    \/ \E family \in Families : Register(family)
    \/ Serve
    \/ \E e \in Execs, tool \in DOMAIN jsonKeysOf, args \in Args : CallTool(e, tool, args)

SurfaceSpec == SurfaceInit /\ [][SurfaceNext]_SurfaceVars

-----------------------------------------------------------------------------
(* Properties.                                                             *)

Skills(e) == {<<op[1], op[2]>> : op \in ops[e]}

(* However a profile picks and orders its families, no two of them claim   *)
(* one tool name, so registering never panics; and "the advertised surface *)
(* is identical either way": at every moment of the composition both       *)
(* deployments serve the same tools under the same skills, although one    *)
(* registers from the lists of names and the other from the service.       *)
SameSurface ==
    /\ \A e \in Execs : ~panicked[e]
    /\ Skills("service") = Skills("nil")

Writes == {"execute_place_order", "execute_cancel_order", "execute_batch_cancel",
           "execute_deposit_to_subaccount", "execute_record_spend"}

(* A delegated write never runs on less than the top-level keys its caller *)
(* passed: flat arguments are refused, not dropped.  The strict adapter    *)
(* looks no deeper: a key unknown inside the wrapper object is dropped by  *)
(* json.Unmarshal, here as in the other adapters.                          *)
NothingDropped ==
    call.tool \in Writes /\ call.result = "ran" => call.keys \subseteq call.decoded
=============================================================================
