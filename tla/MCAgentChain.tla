---------------------------- MODULE MCAgentChain ----------------------------
(* Small instances of AgentChain: alice and bob, a bearer tenant for each,  *)
(* and a delegated-read tenant whose principal is alice.                    *)
EXTENDS AgentChain

CONSTANTS alice, bob, autoA, autoB, svpdtA

MCOwner == [t \in TenantIds |-> IF t = autoB THEN bob ELSE alice]

Base == [tool |-> "build_pause_delegation", tenant |-> autoA, bad |-> {}, valid |-> TRUE,
         via |-> autoA, declared |-> alice, signer |-> alice]

\* What an owner does, and one thing wrong with it.
MCRequests ==
    {Base,
     [Base EXCEPT !.via = svpdtA],
     [Base EXCEPT !.tool = "build_deposit_bond", !.tenant = svpdtA],
     [Base EXCEPT !.via = autoB],
     [Base EXCEPT !.tenant = autoB],
     [Base EXCEPT !.tenant = Unknown],
     [Base EXCEPT !.signer = bob],
     [Base EXCEPT !.declared = NoAccount],
     [Base EXCEPT !.valid = FALSE],
     [Base EXCEPT !.bad = {"root_id"}],
     [Base EXCEPT !.tool = "build_register_agent", !.bad = {"public_key", "pricing"}],
     [Base EXCEPT !.tool = "build_update_agent", !.bad = {"capability_hash"}],
     [Base EXCEPT !.tool = "build_revoke_token", !.bad = {"token_hash"}],
     [Base EXCEPT !.tool = "get_delegation_epoch"],
     [Base EXCEPT !.tool = "list_agents", !.tenant = NoTenant]}
=============================================================================
