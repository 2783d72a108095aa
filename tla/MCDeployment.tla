---------------------------- MODULE MCDeployment ----------------------------
(***************************************************************************)
(* Small instances of Lifecycle and ToolBridge, checked side by side.      *)
(* BuildProfile hands the registry to the process and neither looks into   *)
(* the other from then on: the two share no variable.  So nothing is lost  *)
(* by letting one of them move while the other stays where it began, and   *)
(* the product of their states is never built.                             *)
(***************************************************************************)
EXTENDS Lifecycle, ToolBridge

\* The single-chain config the deploy script writes, and one field off it.
Base == [decodes |-> TRUE, dexChain |-> TRUE, listenAddr |-> TRUE,
         agentID |-> FALSE, restURL |-> FALSE, feeAmount |-> Unset, keyFile |-> TRUE]

MCConfigs ==
    {Base,
     [Base EXCEPT !.decodes = FALSE],
     [Base EXCEPT !.dexChain = FALSE],
     [Base EXCEPT !.listenAddr = FALSE],
     [Base EXCEPT !.agentID = TRUE, !.restURL = TRUE],
     [Base EXCEPT !.agentID = TRUE],
     [Base EXCEPT !.restURL = TRUE],
     [Base EXCEPT !.feeAmount = "malformed"],
     [Base EXCEPT !.feeAmount = "negative"],
     [Base EXCEPT !.keyFile = FALSE]}

\* A nested write's own key, and one that belongs inside the wrapper.
CallerKeys == {"record", "amount"}

VARIABLE part   \* which of the two moves

(* The process that stands still beside a moving surface is one of those   *)
(* that have not started.                                                  *)
MCInit ==
    /\ ProcessInit /\ SurfaceInit
    /\ part \in {"process", "surface"}
    /\ part = "surface" => /\ ~configGiven /\ file = Base
                           /\ env = NoKey /\ keyFile = Unset

Called == call # NoCall /\ UNCHANGED SurfaceVars

MCNext ==
    /\ UNCHANGED part
    /\ \/ part = "process" /\ ProcessNext /\ UNCHANGED SurfaceVars
       \/ part = "surface" /\ (SurfaceNext \/ Called) /\ UNCHANGED ProcessVars

(* Fairness is the process's; with the surface moving instead, no          *)
(* behaviour is fair, and only the invariants are checked.                 *)
MCSpec == MCInit /\ [][MCNext]_<<ProcessVars, SurfaceVars, part>> /\ ProcessFairness
=============================================================================
