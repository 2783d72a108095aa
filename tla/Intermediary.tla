---------------------------- MODULE Intermediary ----------------------------
(***************************************************************************)
(* The intermediary role: internal/intermediary Executor.Execute, handle   *)
(* and Service.Forward, run for several A2A tasks at once, each task a     *)
(* goroutine of the HTTP server.  A task is verified, charged for, given a *)
(* narrowed child credential and sent on; between any two of those steps   *)
(* the clock moves, other tasks run, and the process may be killed.        *)
(*                                                                         *)
(* The chain (mempool, blocks, the escrow orders) and the downstream agent *)
(* are environment, reduced to what Forward can observe of them.           *)
(***************************************************************************)
EXTENDS Credential

CONSTANTS
    Tasks,        \* A2A tasks
    Requests,     \* the requests clients may send
    AgentID,      \* this agent's DID
    HasRecorder,  \* Config.Spend # nil
    EscrowCap,    \* what each settlement order can still pay
    MaxTime,      \* bound: last instant of the clock
    MaxCrashes    \* bound: how often the process is killed

(* shape folds the ways a request fails before any credential is looked    *)
(* at: not JSON, wrong skill or tool, no usable svp.delegation/v1 metadata *)
(* ("malformed"), no endpoint or no envelope ("incomplete").               *)
Request == [proof      : Seq(Token),
            downstream : RawDIDs,
            shape      : {"ok", "malformed", "incomplete"},
            fee        : CoinArg,
            narrow     : NarrowSpec]

ASSUME RequestAssumption ==
    /\ Requests \subseteq Request
    /\ AgentID \in DIDs
    /\ HasRecorder \in BOOLEAN
    /\ EscrowCap \in [Settlements -> Nat]
    /\ MaxTime \in Nat
    /\ MaxCrashes \in Nat

VARIABLES
    now,        \* the wall clock, in seconds
    req,        \* req[t]: the request of task t
    pc,         \* where the goroutine of t is
    forwarded,  \* forwarded[t]: the chain Forward built for the next hop
    recorded,   \* recorded[t]: Forward took the fee as recorded
    reply,      \* how the task was answered
    mempool,    \* mempool[t]: fee txs of t the chain admitted, not yet run
    landed,     \* landed[t]: fee txs of t that debited the escrow
    failed,     \* failed[t]: fee txs of t that ran and were refused
    rejected,   \* rejected[t]: fee txs of t that CheckTx refused
    escrow,     \* what is left of each settlement order
    inbox,      \* tasks whose message reached the downstream agent
    verdict,    \* verdict[t]: what the downstream agent's verification said
    crashes

chainVars == <<mempool, landed, failed, rejected, escrow>>
netVars   == <<inbox, verdict>>
vars == <<now, req, pc, forwarded, recorded, reply, chainVars, netVars, crashes>>

Pcs == {"idle", "working", "verified", "charging", "minting", "sending",
        "awaiting", "answered", "abandoned", "crashed"}

Replies == {"none", "ok", "badRequest", "refused", "feeError", "mintError",
            "sendError"}

Active == {"working", "verified", "charging", "minting", "sending", "awaiting"}

TypeOK ==
    /\ now \in 0 .. MaxTime
    /\ req \in [Tasks -> Requests]
    /\ pc \in [Tasks -> Pcs]
    /\ forwarded \in [Tasks -> Seq(Token)]
    /\ recorded \in [Tasks -> BOOLEAN]
    /\ reply \in [Tasks -> Replies]
    /\ mempool \in [Tasks -> Nat]
    /\ landed \in [Tasks -> Nat]
    /\ failed \in [Tasks -> Nat]
    /\ rejected \in [Tasks -> Nat]
    /\ escrow \in [Settlements -> Nat]
    /\ inbox \subseteq Tasks
    /\ verdict \in [Tasks -> {"none", "accepted", "refused"}]
    /\ crashes \in 0 .. MaxCrashes

Init ==
    /\ now = 0
    /\ req \in [Tasks -> Requests]
    /\ pc = [t \in Tasks |-> "idle"]
    /\ forwarded = [t \in Tasks |-> << >>]
    /\ recorded = [t \in Tasks |-> FALSE]
    /\ reply = [t \in Tasks |-> "none"]
    /\ mempool = [t \in Tasks |-> 0]
    /\ landed = [t \in Tasks |-> 0]
    /\ failed = [t \in Tasks |-> 0]
    /\ rejected = [t \in Tasks |-> 0]
    /\ escrow = EscrowCap
    /\ inbox = {}
    /\ verdict = [t \in Tasks |-> "none"]
    /\ crashes = 0

-----------------------------------------------------------------------------
(* Helpers: the goroutine of t moves on, or answers its task.              *)

Goto(t, l) == pc' = [pc EXCEPT ![t] = l]

Answer(t, r) ==
    /\ Goto(t, "answered")
    /\ reply' = [reply EXCEPT ![t] = r]

DownstreamDID(t) == TrimSpace[req[t].downstream]

LeafToken(t) == Leaf(req[t].proof)

-----------------------------------------------------------------------------
(* Executor.Execute: Submitted and Working are yielded before any work.    *)

Execute(t) ==
    /\ pc[t] = "idle"
    /\ Goto(t, "working")
    /\ UNCHANGED <<now, req, forwarded, recorded, reply, chainVars, netVars, crashes>>

(* Execute returns before handle: the message is empty, which is yielded   *)
(* as an error in place of a task, or yield returned false for Submitted   *)
(* or Working because the consumer of the event stream is gone.            *)
Abandon(t) ==
    /\ pc[t] = "idle"
    /\ Goto(t, "abandoned")
    /\ UNCHANGED <<now, req, forwarded, recorded, reply, chainVars, netVars, crashes>>

\* Wrong on purpose: an incomplete request returns without an answer.
RejectRequest_silent(t) ==
    /\ pc[t] = "working"
    /\ req[t].shape = "malformed" \/ DownstreamDID(t) = NoDID
    /\ Answer(t, "badRequest")
    /\ UNCHANGED <<now, req, forwarded, recorded, chainVars, netVars, crashes>>

(* handle and the first lines of Forward: a request that names no usable   *)
(* next hop is refused before its credential is read.                      *)
RejectRequest(t) ==
    /\ pc[t] = "working"
    /\ req[t].shape # "ok" \/ DownstreamDID(t) = NoDID
    /\ Answer(t, "badRequest")
    /\ UNCHANGED <<now, req, forwarded, recorded, chainVars, netVars, crashes>>

\* Wrong on purpose: the inbound chain is parsed but not verified.
Forwardable_unverified(r, at) ==
    /\ r.proof # << >>
    /\ Leaf(r.proof).caveats.redelegable
    /\ Allows(Leaf(r.proof).caveats.redelegateTo, r.downstream)

(* What Forward asks of the inbound credential before it does anything.    *)
Forwardable(r, at) ==
    /\ verifyProof(r.proof, at, AgentID)
    /\ Leaf(r.proof).caveats.redelegable
    /\ Allows(Leaf(r.proof).caveats.redelegateTo, r.downstream)

VerifyInbound(t) ==
    /\ pc[t] = "working"
    /\ req[t].shape = "ok" /\ DownstreamDID(t) # NoDID
    /\ Forwardable(req[t], now)
    /\ Goto(t, "verified")
    /\ UNCHANGED <<now, req, forwarded, recorded, reply, chainVars, netVars, crashes>>

(* The chain's params or a signing key could not be read, the chain was    *)
(* refused, or its leaf may not be passed on to this agent.                *)
RefuseInbound(t) ==
    /\ pc[t] = "working"
    /\ req[t].shape = "ok" /\ DownstreamDID(t) # NoDID
    /\ Answer(t, "refused")
    /\ UNCHANGED <<now, req, forwarded, recorded, chainVars, netVars, crashes>>

-----------------------------------------------------------------------------
(* Step 3 of Forward: this agent's own fee.                                *)

NoFee(t) ==
    /\ pc[t] = "verified"
    /\ ~req[t].fee.given
    /\ Goto(t, "minting")
    /\ UNCHANGED <<now, req, forwarded, recorded, reply, chainVars, netVars, crashes>>

(* ExecuteRecordSpend up to execute: the proof is verified a second time,  *)
(* at the clock of that moment.                                            *)
Spendable(r, at) ==
    /\ HasRecorder
    /\ verifyProof(r.proof, at, AgentID)
    /\ preflight(r.proof, RecordSpend, 0)
    /\ Effective(r.proof).settlement # NoSettlement
    /\ r.fee.valid

ExecuteRecordSpend(t) ==
    /\ pc[t] = "verified"
    /\ req[t].fee.given
    /\ Spendable(req[t], now)
    /\ Goto(t, "charging")
    /\ UNCHANGED <<now, req, forwarded, recorded, reply, chainVars, netVars, crashes>>

RefuseSpend(t) ==
    /\ pc[t] = "verified"
    /\ req[t].fee.given
    /\ Answer(t, "feeError")
    /\ UNCHANGED <<now, req, forwarded, recorded, chainVars, netVars, crashes>>

(* execute: BroadcastSync answers with a CheckTx code.  Forward discards   *)
(* the ExecResult, so a code other than 0 goes the same way as 0.          *)
BroadcastAccepted(t) ==
    /\ pc[t] = "charging"
    /\ mempool' = [mempool EXCEPT ![t] = @ + 1]
    /\ recorded' = [recorded EXCEPT ![t] = TRUE]
    /\ Goto(t, "minting")
    /\ UNCHANGED <<now, req, forwarded, reply, landed, failed, rejected, escrow, netVars, crashes>>

BroadcastRejected(t) ==
    /\ pc[t] = "charging"
    /\ rejected' = [rejected EXCEPT ![t] = @ + 1]
    /\ recorded' = [recorded EXCEPT ![t] = TRUE]
    /\ Goto(t, "minting")
    /\ UNCHANGED <<now, req, forwarded, reply, mempool, landed, failed, escrow, netVars, crashes>>

\* Wrong on purpose: a failed broadcast is tried again.
BroadcastError_retry(t) ==
    /\ pc[t] = "charging"
    /\ \/ mempool' = [mempool EXCEPT ![t] = @ + 1]
       \/ UNCHANGED mempool
    /\ UNCHANGED <<now, req, pc, forwarded, recorded, reply, landed, failed, rejected, escrow, netVars, crashes>>

(* The account read, the signature or the broadcast returned an error.     *)
(* A broadcast whose reply was lost may have been admitted all the same.   *)
BroadcastError(t) ==
    /\ pc[t] = "charging"
    /\ \/ mempool' = [mempool EXCEPT ![t] = @ + 1]
       \/ UNCHANGED mempool
    /\ Answer(t, "feeError")
    /\ UNCHANGED <<now, req, forwarded, recorded, landed, failed, rejected, escrow, netVars, crashes>>

-----------------------------------------------------------------------------
(* Steps 4 and 5 of Forward.                                               *)

Child(t, at) ==
    Attenuate(AgentID, DownstreamDID(t), narrow(LeafToken(t).caveats, req[t].narrow, at))

\* Wrong on purpose: the error Attenuate returns is dropped.
Mintable_unchecked(t, at) == narrowable(req[t].narrow)

Mintable(t, at) ==
    /\ narrowable(req[t].narrow)
    /\ Attenuable(LeafToken(t), AgentID, DownstreamDID(t), Child(t, at).caveats)

Mint(t) ==
    /\ pc[t] = "minting"
    /\ Mintable(t, now)
    /\ forwarded' = [forwarded EXCEPT ![t] = Append(req[t].proof, Child(t, now))]
    /\ Goto(t, "sending")
    /\ UNCHANGED <<now, req, recorded, reply, chainVars, netVars, crashes>>

(* narrow or Attenuate refused, or no nonce could be drawn.                *)
MintError(t) ==
    /\ pc[t] = "minting"
    /\ Answer(t, "mintError")
    /\ UNCHANGED <<now, req, forwarded, recorded, chainVars, netVars, crashes>>

(* A2ASender.Send: the card is resolved, a client built from it and the    *)
(* message sent; any of the three may fail before the message leaves.      *)
Send(t) ==
    /\ pc[t] = "sending"
    /\ inbox' = inbox \cup {t}
    /\ Goto(t, "awaiting")
    /\ UNCHANGED <<now, req, forwarded, recorded, reply, chainVars, verdict, crashes>>

SendError(t) ==
    /\ pc[t] \in {"sending", "awaiting"}   \* awaiting: the answer was lost
    /\ Answer(t, "sendError")
    /\ UNCHANGED <<now, req, forwarded, recorded, chainVars, netVars, crashes>>

\* Wrong on purpose: a failure to reach the downstream agent is no error.
SendReply_unsent(t) ==
    /\ pc[t] \in {"sending", "awaiting"}
    /\ Answer(t, "ok")
    /\ UNCHANGED <<now, req, forwarded, recorded, chainVars, netVars, crashes>>

(* The downstream agent answered; its refusal is an answer too, passed     *)
(* through untouched.  Execute yields Completed.                           *)
SendReply(t) ==
    /\ pc[t] = "awaiting"
    /\ verdict[t] # "none"
    /\ Answer(t, "ok")
    /\ UNCHANGED <<now, req, forwarded, recorded, chainVars, netVars, crashes>>

-----------------------------------------------------------------------------
(* Environment.                                                            *)

(* The downstream agent runs the same verification, under its own DID.     *)
DownstreamVerify(t) ==
    /\ t \in inbox
    /\ verdict[t] = "none"
    /\ verdict' = [verdict EXCEPT ![t] =
          IF verifyProof(forwarded[t], now, DownstreamDID(t))
          THEN "accepted" ELSE "refused"]
    /\ UNCHANGED <<now, req, pc, forwarded, recorded, reply, chainVars, inbox, crashes>>

(* A block runs a fee tx: it debits the order the credential is bound to,  *)
(* or fails when the order cannot cover it.                                *)
BlockRunsFee(t) ==
    LET order == Effective(req[t].proof).settlement
        fee   == req[t].fee.amount
    IN  /\ mempool[t] > 0
        /\ mempool' = [mempool EXCEPT ![t] = @ - 1]
        /\ IF fee <= escrow[order]
           THEN /\ escrow' = [escrow EXCEPT ![order] = @ - fee]
                /\ landed' = [landed EXCEPT ![t] = @ + 1]
                /\ UNCHANGED failed
           ELSE /\ failed' = [failed EXCEPT ![t] = @ + 1]
                /\ UNCHANGED <<escrow, landed>>
        /\ UNCHANGED <<now, req, pc, forwarded, recorded, reply, rejected, netVars, crashes>>

Tick ==
    /\ now < MaxTime
    /\ now' = now + 1
    /\ UNCHANGED <<req, pc, forwarded, recorded, reply, chainVars, netVars, crashes>>

(* The process is killed, or Serve returned after its shutdown grace with  *)
(* tasks still running: their goroutines are gone, nothing is persisted.   *)
Crash ==
    /\ crashes < MaxCrashes
    /\ \E t \in Tasks : pc[t] \in Active
    /\ crashes' = crashes + 1
    /\ pc' = [t \in Tasks |-> IF pc[t] \in Active THEN "crashed" ELSE pc[t]]
    /\ UNCHANGED <<now, req, forwarded, recorded, reply, chainVars, netVars>>

Forward(t) ==
    \/ VerifyInbound(t) \/ RefuseInbound(t)
    \/ NoFee(t) \/ ExecuteRecordSpend(t) \/ RefuseSpend(t)
    \/ BroadcastAccepted(t) \/ BroadcastRejected(t) \/ BroadcastError(t)
    \/ Mint(t) \/ MintError(t)
    \/ Send(t) \/ SendError(t) \/ SendReply(t)

Task(t) == Execute(t) \/ Abandon(t) \/ RejectRequest(t) \/ Forward(t)

(* Every task answered or lost, every fee run: nothing is left to do.      *)
Quiescent ==
    /\ \A t \in Tasks : pc[t] \in {"answered", "abandoned", "crashed"}
    /\ \A t \in Tasks : mempool[t] = 0
    /\ now = MaxTime
    /\ UNCHANGED vars

Next ==
    \/ \E t \in Tasks : Task(t) \/ DownstreamVerify(t) \/ BlockRunsFee(t)
    \/ Tick
    \/ Crash
    \/ Quiescent

(* A goroutine of the Go runtime is never starved, and every call Forward  *)
(* makes ends, with an answer or an error: the chain's REST client bounds  *)
(* each request in time, and the same is assumed of the A2A library.       *)
Fairness == \A t \in Tasks : WF_vars(RejectRequest(t) \/ Forward(t))

Spec == Init /\ [][Next]_vars

FairSpec == Spec /\ Fairness
-----------------------------------------------------------------------------
(* Properties.                                                             *)

(* What reaches the downstream agent is the inbound chain and one child of *)
(* its leaf: addressed to the requested agent, to whom the leaf allows     *)
(* passing it on, and granting no more than the leaf does, for the same    *)
(* principal and the same settlement order (Forward steps 2, 4 and 5).     *)
ForwardedWithinGrant ==
    \A t \in inbox :
        LET child == Leaf(forwarded[t]) IN
        /\ forwarded[t] = Append(req[t].proof, child)
        /\ child.issuer = AgentID
        /\ child.audience = DownstreamDID(t)
        /\ Allows(LeafToken(t).caveats.redelegateTo, child.audience)
        /\ Narrower(child.caveats, LeafToken(t).caveats)

(* Tokens the holder of a chain can build by hand: its own key signs them  *)
(* and no library helper is involved.                                      *)
HandBuilt(chain) ==
    {[issuer   |-> Leaf(chain).audience,
      audience |-> d,
      caveats  |-> [Leaf(chain).caveats EXCEPT !.redelegable = b]] :
        d \in DIDs, b \in BOOLEAN}

(* The user granted one hop of headroom and narrow spends it: whatever     *)
(* token the downstream agent appends to what it received, no agent that   *)
(* runs verifyProof accepts the result, at any time.                       *)
NoThirdHop ==
    \A t \in inbox :
        \A tok \in HandBuilt(forwarded[t]) :
            ~verifyProof(Append(forwarded[t], tok), now, tok.audience)

(* The credential leaves room for the hop: neither its own max_depth nor   *)
(* the chain's params are used up by the tokens it has.                    *)
HasHeadroom(proof) ==
    /\ Len(proof) < MaxDelegationDepth
    /\ Len(proof) < Leaf(proof).caveats.maxDepth

(* VerifyInbound is "the same check the final executor will run": with     *)
(* room for one more token, what passed it is refused downstream only if   *)
(* the child has expired on the way, however long the fee, the mint and    *)
(* the send took and whatever the narrowing asked for.                     *)
UsableDownstream ==
    \A t \in Tasks : verdict[t] = "refused" /\ HasHeadroom(req[t].proof) =>
        Leaf(forwarded[t]).caveats.expires <= now

(* The comment on Forward's step 1 without the proviso: "an unusable       *)
(* credential fails here rather than one hop later".  What is refused      *)
(* downstream was usable here, and has expired since.                      *)
UnusableFailsHere ==
    \A t \in Tasks : verdict[t] = "refused" =>
        Leaf(forwarded[t]).caveats.expires <= now

FeeTxs(t) == mempool[t] + landed[t] + failed[t] + rejected[t]

(* A task is charged at most once however its broadcast ended, and nothing *)
(* is forwarded before its fee was handed to the chain (Forward step 3).   *)
ChargedOnceBeforeForward ==
    \A t \in Tasks :
        /\ FeeTxs(t) <= 1
        /\ t \in inbox /\ req[t].fee.given => FeeTxs(t) = 1

(* The comment on Forward's step 3: "a fee the escrow cannot cover should  *)
(* abort the task".  A task whose fee the chain refused on the spot is not *)
(* forwarded.                                                              *)
RefusedFeeAborts == \A t \in Tasks : rejected[t] > 0 => t \notin inbox

(* What the caller is told is what happened: OK means that the downstream  *)
(* agent judged the forwarded chain, a refusal means no fee was broadcast  *)
(* and nothing sent, a failed fee or mint means nothing was sent.          *)
AnswerIsTrue ==
    \A t \in Tasks :
        /\ reply[t] = "ok" => t \in inbox /\ verdict[t] # "none"
        /\ reply[t] \in {"badRequest", "refused"} => FeeTxs(t) = 0
        /\ reply[t] \in {"badRequest", "refused", "feeError", "mintError"} => t \notin inbox

(* Execute yields a terminal answer for every task it starts, unless the   *)
(* process dies first.                                                     *)
EveryTaskAnswered ==
    \A t \in Tasks : pc[t] = "working" ~> pc[t] \in {"answered", "crashed"}
=============================================================================
