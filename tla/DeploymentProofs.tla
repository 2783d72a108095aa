-------------------------- MODULE DeploymentProofs --------------------------
(***************************************************************************)
(* A deployment: the record it leaves on the chain (Registration), the     *)
(* process it is while it runs (Lifecycle) and the operations it can serve *)
(* (ToolBridge).  The three share no variable.                             *)
(*                                                                         *)
(* The record, for any number of operator sessions, deployments and        *)
(* transactions, never goes back to an older deployment's card.  No lock   *)
(* spans two deployments, and a redeploy leaves what the old process       *)
(* broadcast on its way.  The argument is about sequences: all that is out *)
(* was signed for a sequence the chain has reached, so one transaction     *)
(* lands per sequence and whatever else was signed for it is dead; what    *)
(* may still land was signed after the record got its hash (OrderInv).     *)
(*                                                                         *)
(* The process, for any configurations, keys, requests and grace period,   *)
(* exits cleanly, serves under one identity and cuts nobody off early.     *)
(*                                                                         *)
(* The operations, for any choice and order of families and any argument   *)
(* keys, are the same with an operator key and without, registering them   *)
(* never panics, and a delegated write runs on all its caller passed: the  *)
(* families' tools are disjoint, and the registry is their union.          *)
(***************************************************************************)
EXTENDS Registration, Lifecycle, ToolBridge, FiniteSetTheorems, TLAPS

-----------------------------------------------------------------------------
(* The record.                                                             *)

\* The service holds the running deployment's card, or none and then no
\* session publishes; what a session publishes is that card.
SessionInv ==
    /\ cardHash = IF wired THEN deploy ELSE NoHash
    /\ \A s \in Sessions : pc[s] # "idle" => wired /\ tx[s] \in Tx /\ tx[s].hash = deploy

\* What is signed, and what of that has left the process.
Signed == {tx[s] : s \in {r \in Sessions : pc[r] \in {"locked", "sent"}}}
Out == wire \cup mempool \cup Signed

\* What is out is for a sequence the chain has reached, and if that one is
\* still free its card is not older than the record's.
OrderInv ==
    /\ record.hash <= deploy
    /\ \A t \in Out : /\ wired
                      /\ t.hash <= deploy
                      /\ t.seq <= committed
                      /\ t.seq = committed => record.hash <= t.hash
    /\ \A t \in mempool : t.seq < checkSeq

IInv == TypeOK /\ SessionInv /\ OrderInv

-----------------------------------------------------------------------------

(* The system starts with nothing signed and a record of no card.          *)
LEMMA InitIInv == Init => IInv
<1> SUFFICES ASSUME Init PROVE IInv
  OBVIOUS
<1> USE RegistrationAssumption
<1>1. TypeOK
  BY DEF Init, TypeOK, Hashes, NoHash
<1>2. SessionInv
  BY DEF Init, SessionInv
<1>3. Out = {}
  BY DEF Init, Out, Signed
<1>4. OrderInv
  BY <1>3 DEF Init, OrderInv, NoHash
<1> QED
  BY <1>1, <1>2, <1>4 DEF IInv

(* The end of a call, by an answer or by an error.                         *)
LEMMA ReturnTypes ==
    ASSUME TypeOK, NEW s \in Sessions, Return(s), faults' \in 0 .. MaxFaults
    PROVE  TypeOK'
BY DEF TypeOK, Return, Goto, Know, chainVars

(* No step leaves the types of the variables.                              *)
LEMMA TypeStep == ASSUME TypeOK, SessionInv, OrderInv, [Next]_vars PROVE TypeOK'
<1> USE RegistrationAssumption
<1>0. ASSUME Fault PROVE faults' \in 0 .. MaxFaults
  BY <1>0 DEF Fault, TypeOK
<1>1. CASE SetCapabilityCard
  BY <1>1 DEF SetCapabilityCard, TypeOK, chainVars, Hashes, NoHash
<1>2. ASSUME NEW s \in Sessions, Identity(s) PROVE TypeOK'
  <2>1. faults' \in 0 .. MaxFaults
    BY <1>2, <1>0 DEF Identity, TypeOK
  <2>2. \A out : CallsFor(out) \in {"nothing", "unregistered", "mismatch"}
    BY DEF CallsFor
  <2> QED
    BY <1>2, <2>1, <2>2 DEF Identity, Know, TypeOK, callVars, chainVars
<1>3. ASSUME NEW s \in Sessions, SelfRegister(s) \/ SelfUpdate(s) PROVE TypeOK'
  <2>1. PICK kind \in {"register", "update"} : Publish(s, kind, cardHash)
    BY <1>3 DEF SelfRegister, SelfUpdate, capabilityHash
  <2>2. [kind |-> kind, hash |-> cardHash, seq |-> 0] \in Tx
    BY DEF Tx, TypeOK
  <2> QED
    BY <2>1, <2>2 DEF Publish, Goto, TypeOK, chainVars
<1>4. ASSUME NEW s \in Sessions, Refuse(s) PROVE TypeOK'
  <2>1. faults' \in 0 .. MaxFaults
    BY <1>4, <1>0 DEF Refuse, TypeOK
  <2> QED
    BY <1>4, <2>1 DEF Refuse, Know, TypeOK, callVars, chainVars
<1>5. ASSUME NEW s \in Sessions, Account(s) PROVE TypeOK'
  <2>1. tx[s] \in Tx
    BY <1>5 DEF Account, SessionInv
  <2>2. [tx[s] EXCEPT !.seq = committed] \in Tx
    BY <2>1 DEF Tx, TypeOK
  <2> QED
    BY <1>5, <2>2 DEF Account, Goto, TypeOK, chainVars
<1>6. ASSUME NEW s \in Sessions, BroadcastSync(s) PROVE TypeOK'
  <2>1. tx[s] \in Tx
    BY <1>6 DEF BroadcastSync, SessionInv
  <2> QED
    BY <1>6, <2>1 DEF BroadcastSync, Goto, TypeOK
<1>7. ASSUME NEW s \in Sessions, BroadcastReply(s) PROVE TypeOK'
  BY <1>7, ReturnTypes DEF BroadcastReply, TypeOK
<1>8. ASSUME NEW s \in Sessions, CallError(s) PROVE TypeOK'
  <2>1. faults' \in 0 .. MaxFaults
    BY <1>8, <1>0 DEF CallError, TypeOK
  <2> QED
    BY <1>8, <2>1, ReturnTypes DEF CallError
<1>9. ASSUME NEW t \in wire, CheckTx(t) PROVE TypeOK'
  <2>1. reply' \in [Sessions -> {"none", "ok", "refused"}]
    BY <1>9 DEF CheckTx, Answered, TypeOK
  <2>2. checkSeq' \in 0 .. MaxSeq /\ mempool' \subseteq Tx
    BY <1>9 DEF CheckTx, TypeOK
  <2> QED
    BY <1>9, <2>1, <2>2 DEF CheckTx, TypeOK
<1>10. ASSUME NEW t \in wire, Lose(t) PROVE TypeOK'
  BY <1>10, <1>0 DEF Lose, TypeOK, callVars
<1>11. ASSUME NEW t \in mempool, Mine(t) PROVE TypeOK'
  <2>1. t \in Tx /\ t.seq = committed /\ t.seq < checkSeq
    BY <1>11 DEF Mine, TypeOK, OrderInv
  <2>2. committed' \in 0 .. MaxSeq
    BY <1>11, <2>1 DEF Mine, TypeOK
  <2>3. record' \in Record
    BY <1>11, <2>1 DEF Mine, Deliver, TypeOK, Tx, Record, NoRecord
  <2> QED
    BY <1>11, <2>2, <2>3 DEF Mine, TypeOK, callVars
<1>12. CASE UNCHANGED vars
  BY <1>12 DEF vars, callVars, chainVars, TypeOK
<1> QED
  BY <1>1, <1>2, <1>3, <1>4, <1>5, <1>6, <1>7, <1>8, <1>9, <1>10, <1>11, <1>12 DEF Next, Call

(* Sessions publish the card of the deployment they run in: a redeploy     *)
(* ends them all, and within one the card stays.                           *)
LEMMA SessionStep == ASSUME TypeOK, SessionInv, [Next]_vars PROVE SessionInv'
<1>1. CASE SetCapabilityCard
  BY <1>1 DEF SetCapabilityCard, SessionInv
<1>2. ASSUME NEW s \in Sessions, SelfRegister(s) \/ SelfUpdate(s) PROVE SessionInv'
  <2>1. PICK kind \in {"register", "update"} : Publish(s, kind, cardHash)
    BY <1>2 DEF SelfRegister, SelfUpdate, capabilityHash
  <2>2. wired /\ cardHash = deploy
    BY <2>1 DEF Publish, capabilityHash, SessionInv
  <2>3. [kind |-> kind, hash |-> cardHash, seq |-> 0] \in Tx
    BY RegistrationAssumption DEF Tx, TypeOK
  <2> QED
    BY <2>1, <2>2, <2>3 DEF Publish, Goto, SessionInv, TypeOK
<1>3. ASSUME NEW s \in Sessions, Account(s) PROVE SessionInv'
  <2>1. tx[s] \in Tx /\ tx[s].hash = deploy /\ wired
    BY <1>3 DEF Account, SessionInv
  <2>2. /\ [tx[s] EXCEPT !.seq = committed] \in Tx
        /\ [tx[s] EXCEPT !.seq = committed].hash = deploy
    BY <2>1 DEF Tx, TypeOK
  <2> QED
    BY <1>3, <2>1, <2>2 DEF Account, Goto, SessionInv, TypeOK
<1>4. ASSUME NEW s \in Sessions, BroadcastSync(s) PROVE SessionInv'
  BY <1>4 DEF BroadcastSync, Goto, SessionInv, TypeOK
<1>5. ASSUME NEW s \in Sessions, BroadcastReply(s) \/ CallError(s) PROVE SessionInv'
  BY <1>5 DEF BroadcastReply, CallError, Return, Goto, SessionInv, TypeOK
<1>6. ASSUME \/ \E s \in Sessions : Identity(s) \/ Refuse(s)
             \/ \E t \in wire : CheckTx(t) \/ Lose(t)
             \/ \E t \in mempool : Mine(t)
             \/ UNCHANGED vars
      PROVE  SessionInv'
  <2>1. UNCHANGED <<wired, deploy, cardHash, pc, tx>>
    BY <1>6 DEF Identity, Refuse, CheckTx, Lose, Mine, vars, callVars
  <2> QED
    BY <2>1 DEF SessionInv
<1> QED
  BY <1>1, <1>2, <1>3, <1>4, <1>5, <1>6 DEF Next, Call

(* A step that puts nothing new out and leaves the chain's side alone.     *)
LEMMA NothingNewOut ==
    ASSUME TypeOK, OrderInv, Out' \subseteq Out, mempool' \subseteq mempool,
           UNCHANGED <<wired, record, committed, checkSeq>>, deploy' \in Nat, deploy' >= deploy
    PROVE  OrderInv'
<1>1. deploy \in Nat /\ record.hash \in Nat
  BY DEF TypeOK, Record, NoRecord, Hashes, NoHash
<1>2. \A t \in Out : t.hash <= deploy => t.hash <= deploy'
  <2>1. \A t \in Out : t.hash \in Nat
    BY DEF Out, Signed, TypeOK, Tx, NoTx, Hashes, NoHash
  <2> QED
    BY <1>1, <2>1
<1> QED
  BY <1>1, <1>2 DEF OrderInv

(* The order is kept: an account read takes the next free sequence for the *)
(* newest card, and a block uses up the sequence of all that is out.       *)
LEMMA OrderStep == ASSUME TypeOK, SessionInv, OrderInv, [Next]_vars PROVE OrderInv'
<1>0. /\ deploy \in Nat /\ committed \in Nat /\ checkSeq \in Nat /\ record.hash \in Nat
      /\ \A t \in Out : t.hash \in Nat /\ t.seq \in Nat
  BY RegistrationAssumption DEF Out, Signed, TypeOK, Tx, NoTx, Record, NoRecord, Hashes, NoHash
<1>1. CASE SetCapabilityCard
  <2>1. Out' \subseteq Out
    BY <1>1 DEF SetCapabilityCard, Out, Signed, chainVars
  <2> QED
    BY <1>0, <1>1, <2>1, NothingNewOut DEF SetCapabilityCard, chainVars
<1>2. ASSUME NEW s \in Sessions, Identity(s) \/ Refuse(s) PROVE OrderInv'
  <2>1. Out' = Out
    BY <1>2 DEF Identity, Refuse, Out, Signed, callVars, chainVars
  <2> QED
    BY <1>0, <1>2, <2>1, NothingNewOut DEF Identity, Refuse, chainVars
<1>3. ASSUME NEW s \in Sessions, SelfRegister(s) \/ SelfUpdate(s) PROVE OrderInv'
  <2>1. PICK kind : Publish(s, kind, capabilityHash.hash)
    BY <1>3 DEF SelfRegister, SelfUpdate
  <2>2. Out' \subseteq Out
    BY <2>1 DEF Publish, Goto, Out, Signed, chainVars, TypeOK
  <2> QED
    BY <1>0, <2>1, <2>2, NothingNewOut DEF Publish, chainVars
<1>4. ASSUME NEW s \in Sessions, Account(s) PROVE OrderInv'
  <2>1. wired /\ tx[s] \in Tx /\ tx[s].hash = deploy
    BY <1>4 DEF Account, SessionInv
  <2>2. tx'[s].hash = deploy /\ tx'[s].seq = committed
    BY <1>4, <2>1 DEF Account, TypeOK, Tx
  <2>3. Out' \subseteq Out \cup {tx'[s]}
    BY <1>4 DEF Account, Goto, Out, Signed, chainVars, TypeOK
  <2>4. UNCHANGED <<wired, deploy, record, mempool, checkSeq, committed>>
    BY <1>4 DEF Account, chainVars
  <2>5. \A t \in Out' : /\ wired
                        /\ t.hash <= deploy
                        /\ t.seq <= committed
                        /\ t.seq = committed => record.hash <= t.hash
    BY <1>0, <2>1, <2>2, <2>3 DEF OrderInv
  <2> QED
    BY <2>4, <2>5 DEF OrderInv
<1>5. ASSUME NEW s \in Sessions, BroadcastSync(s) PROVE OrderInv'
  <2>1. Out' \subseteq Out
    BY <1>5 DEF BroadcastSync, Goto, Out, Signed, TypeOK
  <2> QED
    BY <1>0, <1>5, <2>1, NothingNewOut DEF BroadcastSync
<1>6. ASSUME NEW s \in Sessions, BroadcastReply(s) \/ CallError(s) PROVE OrderInv'
  <2>1. Return(s)
    BY <1>6 DEF BroadcastReply, CallError
  <2>2. Out' \subseteq Out
    BY <2>1 DEF Return, Goto, Out, Signed, chainVars, TypeOK
  <2> QED
    BY <1>0, <2>1, <2>2, NothingNewOut DEF Return, chainVars
<1>7. ASSUME NEW t \in wire, CheckTx(t) PROVE OrderInv'
  <2>1. Out' \subseteq Out
    BY <1>7 DEF CheckTx, Out, Signed
  <2>2. \A u \in mempool' : u.seq < checkSeq'
    BY <1>0, <1>7 DEF CheckTx, OrderInv, Out
  <2> QED
    BY <1>7, <2>1, <2>2 DEF CheckTx, OrderInv
<1>8. ASSUME NEW t \in wire, Lose(t) PROVE OrderInv'
  <2>1. Out' \subseteq Out
    BY <1>8 DEF Lose, Out, Signed, callVars
  <2> QED
    BY <1>0, <1>8, <2>1, NothingNewOut DEF Lose
<1>9. ASSUME NEW t \in mempool, Mine(t) PROVE OrderInv'
  <2>1. Out' \subseteq Out /\ t \in Out
    BY <1>9 DEF Mine, Out, Signed, callVars
  <2>2. record'.hash <= deploy
    BY <1>9, <2>1 DEF Mine, Deliver, OrderInv, TypeOK, Record, NoRecord
  <2>3. \A u \in Out' : u.seq < committed'
    BY <1>0, <1>9, <2>1 DEF Mine, OrderInv
  <2>4. \A u \in Out' : u.seq <= committed' /\ u.seq # committed'
    BY <1>0, <1>9, <2>1, <2>3 DEF Mine
  <2> QED
    BY <1>9, <2>1, <2>2, <2>4 DEF Mine, OrderInv
<1>10. CASE UNCHANGED vars
  <2>1. Out' = Out
    BY <1>10 DEF vars, callVars, chainVars, Out, Signed
  <2> QED
    BY <1>0, <1>10, <2>1, NothingNewOut DEF vars, chainVars
<1> QED
  BY <1>1, <1>2, <1>3, <1>4, <1>5, <1>6, <1>7, <1>8, <1>9, <1>10 DEF Next, Call

(* The invariant holds for ever.                                           *)
LEMMA Inductive == Spec => []IInv
<1>1. IInv /\ [Next]_vars => IInv'
  BY TypeStep, SessionStep, OrderStep DEF IInv
<1> QED
  BY <1>1, InitIInv, PTL DEF Spec

-----------------------------------------------------------------------------

(* Every variable keeps its type, for any number of sessions and any       *)
(* bounds.                                                                 *)
THEOREM TypeCorrect == Spec => []TypeOK
<1>1. IInv => TypeOK
  BY DEF IInv
<1> QED
  BY <1>1, Inductive, PTL

(* The record changes only in a block.                                     *)
LEMMA OnlyMined ==
    ASSUME [Next]_vars
    PROVE  record' = record \/ \E t \in mempool : Mine(t)
BY DEF Next, vars, chainVars, Call, SetCapabilityCard, Identity, SelfRegister, SelfUpdate,
       Publish, Refuse, Account, BroadcastSync, BroadcastReply, CallError, Return, CheckTx, Lose

(* An update broadcast by one deployment may land under the next, but the  *)
(* record never goes back to an older card; a service that was never       *)
(* handed its card leaves the record as it is (NoOlderCard).               *)
THEOREM NeverAnOlderCard == Spec => NoOlderCard
<1>1. ASSUME IInv, [Next]_vars
      PROVE  [/\ record # NoRecord => record'.hash >= record.hash
              /\ ~wired => UNCHANGED record]_vars
  <2>0. record.hash \in Nat
    BY <1>1 DEF IInv, TypeOK, Record, NoRecord, Hashes, NoHash
  <2>1. CASE record' = record
    BY <2>0, <2>1
  <2>2. ASSUME NEW t \in mempool, Mine(t)
        PROVE  wired /\ (record # NoRecord => record'.hash >= record.hash)
    <3>1. t \in Tx /\ t \in Out /\ t.seq = committed /\ record' = Deliver(t)
      BY <1>1, <2>2 DEF IInv, TypeOK, Out, Mine
    <3>2. wired /\ record.hash <= t.hash
      BY <1>1, <3>1 DEF IInv, OrderInv
    <3>3. t.hash \in Nat
      BY <3>1 DEF Tx, Hashes, NoHash
    <3>4. record'.hash \in {record.hash, t.hash}
      BY <1>1, <3>1 DEF Deliver, IInv, TypeOK, Record, NoRecord
    <3> QED
      BY <2>0, <3>2, <3>3, <3>4
  <2> QED
    BY <1>1, <2>1, <2>2, OnlyMined
<1> QED
  BY <1>1, Inductive, PTL DEF Spec, NoOlderCard

-----------------------------------------------------------------------------
(* The process.                                                            *)

Dialed == {"dialed", "comet", "transferOut", "built", "checked", "serving", "draining"}

\* Past the loading of the config, it is a valid one.
ConfigInv == at \notin {"start", "exited"} => Validate(cfg)

\* The connection is open from the dial to the exit.
ConnInv ==
    /\ at \in {"start", "config", "keyed"} => conn = "none"
    /\ at \in Dialed => conn = "open"

\* Nothing failed as long as the process runs, and a draining one was told to.
StatusInv ==
    /\ at # "exited" => status = "none" /\ failure = "none"
    /\ at = "draining" => signalled

\* The first load still tells what the second will find, unless the file
\* was replaced in between; the second has told.
IdentityInv ==
    /\ at \in {"keyed", "dialed", "comet", "transferOut"} =>
          identity = LoadKey \/ (env = NoKey /\ rotated)
    /\ at \in {"built", "checked", "serving", "draining"} =>
          \/ delegated = NoService /\ at = "built"
          \/ /\ \/ delegated.key = identity
                \/ env = NoKey /\ rotated /\ delegated.key # NoKey
             /\ IF file.agentID
                THEN delegated.chainID = "agent" /\ delegated.over = "REST"
                ELSE delegated.chainID = "dex" /\ delegated.over = "gRPC"

\* Requests are open only while the process serves, and cut only by its end.
RequestInv ==
    /\ accept = "on" => at = "serving"
    /\ \A r \in Requests : req[r] = "active" => at \in {"serving", "draining"}
    /\ \A r \in Requests : req[r] = "cut" => at = "exited"

ProcessInv ==
    /\ ProcessTypeOK
    /\ ConfigInv /\ ConnInv /\ StatusInv /\ IdentityInv /\ RequestInv
    /\ CleanExit /\ CutOnlyAfterGrace

(* The process starts with nothing loaded, dialed or accepted.             *)
LEMMA ProcessInitInv == ProcessInit => ProcessInv
<1> SUFFICES ASSUME ProcessInit PROVE ProcessInv
  OBVIOUS
<1>1. ProcessTypeOK
  <2>1. /\ at \in Pcs /\ failure \in Pcs \cup {"none", "accept"}
        /\ status \in {"none", "0", "1"} /\ conn \in {"none", "open", "closed"}
        /\ accept \in {"off", "on", "failed"} /\ req \in [Requests -> {"none", "active", "answered", "cut"}]
    BY DEF ProcessInit, Pcs
  <2>2. /\ identity \in Keys \cup {NoKey}
        /\ delegated \in [key : Keys \cup {NoKey}, chainID : {"none", "dex", "agent"},
                          over : {"none", "gRPC", "REST"}]
    BY DEF ProcessInit, NoService
  <2>3. rotations \in 0 .. MaxRotations /\ grace \in 0 .. Grace
    BY LifecycleAssumption DEF ProcessInit
  <2> QED
    BY <2>1, <2>2, <2>3 DEF ProcessInit, ProcessTypeOK
<1>2. /\ at = "start" /\ conn = "none" /\ status = "none" /\ failure = "none"
      /\ accept = "off" /\ req = [r \in Requests |-> "none"]
  BY DEF ProcessInit
<1>3. ConfigInv /\ ConnInv /\ StatusInv /\ IdentityInv
  BY <1>2 DEF ConfigInv, ConnInv, Dialed, StatusInv, IdentityInv
<1>4. RequestInv /\ CleanExit /\ CutOnlyAfterGrace
  BY <1>2 DEF RequestInv, CleanExit, CutOnlyAfterGrace
<1> QED
  BY <1>1, <1>3, <1>4 DEF ProcessInv

(* A step that fails with the connection not left open, and with nobody    *)
(* being served unless it is the listener that failed, ends the process    *)
(* cleanly.                                                                *)
LEMMA FailStep ==
    ASSUME ProcessInv,
           NEW step \in Pcs \cup {"accept"}, NEW connection \in {"none", "closed"},
           Fail(step, connection),
           at # "exited", at \notin {"serving", "draining"} \/ step = "accept"
    PROVE  ProcessInv'
<1> USE DEF Fail, Exit, environment, inputs
<1>1. ProcessTypeOK'
  BY DEF ProcessInv, ProcessTypeOK, Pcs
<1>2. step # "none"
  BY DEF Pcs
<1>3. ConfigInv' /\ ConnInv' /\ StatusInv' /\ IdentityInv' /\ RequestInv'
  BY DEF ProcessInv, ProcessTypeOK, ConfigInv, ConnInv, Dialed, StatusInv, IdentityInv, RequestInv
<1>4. CleanExit'
  BY <1>2 DEF CleanExit
<1>5. CutOnlyAfterGrace'
  BY DEF ProcessInv, ProcessTypeOK, RequestInv, CutOnlyAfterGrace
<1> QED
  BY <1>1, <1>3, <1>4, <1>5 DEF ProcessInv

(* The end of a drain.                                                     *)
LEMMA DrainedStep ==
    ASSUME ProcessInv, ShutdownReturns PROVE ProcessInv'
<1> USE DEF ShutdownReturns, Exit, Close, environment, inputs
<1>1. conn' = "closed"
  BY DEF ProcessInv, ConnInv, Dialed
<1>2. ProcessTypeOK'
  BY <1>1 DEF ProcessInv, ProcessTypeOK, Pcs
<1>3. ConfigInv' /\ ConnInv' /\ StatusInv' /\ IdentityInv' /\ RequestInv'
  BY DEF ProcessInv, ProcessTypeOK, ConfigInv, ConnInv, Dialed, StatusInv, IdentityInv, RequestInv
<1>4. CleanExit'
  BY <1>1 DEF ProcessInv, StatusInv, CleanExit
<1>5. CutOnlyAfterGrace'
  BY DEF ProcessInv, ProcessTypeOK, RequestInv, CutOnlyAfterGrace
<1> QED
  BY <1>2, <1>3, <1>4, <1>5 DEF ProcessInv

(* A boot step that goes on: what it leaves alone keeps the invariant.     *)
LEMMA BootStep ==
    ASSUME ProcessInv, NEW label \in {"config", "keyed", "dialed", "comet", "transferOut", "built", "checked"},
           Proceed(label), at # "exited", UNCHANGED environment,
           at \notin {"serving", "draining"},
           conn' = IF label \in Dialed THEN "open" ELSE "none",
           identity' \in Keys \cup {NoKey},
           delegated' \in [key : Keys \cup {NoKey}, chainID : {"none", "dex", "agent"},
                           over : {"none", "gRPC", "REST"}],
           ConfigInv', IdentityInv'
    PROVE  ProcessInv'
<1> USE DEF Proceed, environment, inputs
<1>1. ProcessTypeOK'
  BY DEF ProcessInv, ProcessTypeOK, Pcs, Dialed
<1>2. ConnInv'
  BY DEF ConnInv, Dialed
<1>3. StatusInv' /\ RequestInv'
  BY DEF ProcessInv, StatusInv, RequestInv, ProcessTypeOK
<1>4. CleanExit' /\ CutOnlyAfterGrace'
  BY DEF ProcessInv, CleanExit, CutOnlyAfterGrace
<1> QED
  BY <1>1, <1>2, <1>3, <1>4 DEF ProcessInv

(* run, from the start to the exit.                                        *)
LEMMA RunStep == ASSUME ProcessInv, run PROVE ProcessInv'
<1> USE DEF environment, inputs
<1>0. /\ ProcessTypeOK /\ ConfigInv /\ ConnInv /\ StatusInv /\ IdentityInv /\ RequestInv
      /\ file \in Config /\ NoKey \notin Keys
  BY LifecycleAssumption DEF ProcessInv, ProcessTypeOK
<1>1. CASE LoadConfig
  <2>1. at = "start" /\ conn = "none"
    BY <1>0, <1>1 DEF LoadConfig, ConnInv
  <2>2. CASE Fail("start", conn)
    BY <2>1, <2>2, FailStep DEF Pcs
  <2>3. CASE /\ Validate(cfg) /\ Proceed("config")
             /\ UNCHANGED <<environment, identity, conn, delegated>>
    <3>1. ConfigInv' /\ IdentityInv'
      BY <2>3 DEF Proceed, ConfigInv, IdentityInv, Validate, cfg
    <3> QED
      BY <1>0, <2>1, <2>3, <3>1, BootStep DEF Dialed, ProcessTypeOK
  <2> QED
    BY <1>1, <2>2, <2>3 DEF LoadConfig
<1>2. CASE LoadIdentity
  <2>1. at = "config" /\ conn = "none"
    BY <1>0, <1>2 DEF LoadIdentity, ConnInv
  <2>2. CASE Fail("config", conn)
    BY <2>1, <2>2, FailStep DEF Pcs
  <2>3. CASE /\ LoadKey \in Keys /\ identity' = LoadKey /\ Proceed("keyed")
             /\ UNCHANGED <<environment, conn, delegated>>
    <3>1. ConfigInv'
      BY <1>0, <2>1, <2>3 DEF Proceed, ConfigInv, Validate, cfg
    <3>2. IdentityInv'
      BY <2>3 DEF Proceed, IdentityInv, LoadKey
    <3> QED
      BY <1>0, <2>1, <2>3, <3>1, <3>2, BootStep DEF Dialed, ProcessTypeOK
  <2> QED
    BY <1>2, <2>2, <2>3 DEF LoadIdentity
<1>3. ASSUME NEW here \in {"keyed", "dialed", "comet"}, NEW label \in {"dialed", "comet", "transferOut"},
             at = here, Proceed(label), conn' = "open",
             UNCHANGED <<environment, identity, delegated>>
      PROVE  ProcessInv'
  <2>1. ConfigInv'
    BY <1>0, <1>3 DEF Proceed, ConfigInv, Validate, cfg
  <2>2. IdentityInv'
    BY <1>0, <1>3 DEF Proceed, IdentityInv, LoadKey
  <2> QED
    BY <1>0, <1>3, <2>1, <2>2, BootStep DEF Dialed, ProcessTypeOK
<1>4. CASE Dial
  <2>1. at = "keyed" /\ conn = "none"
    BY <1>0, <1>4 DEF Dial, ConnInv
  <2>2. CASE Fail("keyed", conn)
    BY <2>1, <2>2, FailStep DEF Pcs
  <2> QED
    BY <1>3, <1>4, <2>1, <2>2 DEF Dial
<1>5. CASE NewCometBftClient
  <2>1. at = "dialed" /\ conn = "open"
    BY <1>0, <1>5 DEF NewCometBftClient, ConnInv, Dialed
  <2>2. CASE Fail("dialed", "closed")
    BY <2>1, <2>2, FailStep DEF Pcs
  <2> QED
    BY <1>3, <1>5, <2>1, <2>2 DEF NewCometBftClient
<1>6. CASE LoadTransferOut
  <2>1. at = "comet" /\ conn = "open"
    BY <1>0, <1>6 DEF LoadTransferOut, ConnInv, Dialed
  <2>2. CASE Fail("comet", "closed")
    BY <2>1, <2>2, FailStep DEF Pcs
  <2> QED
    BY <1>3, <1>6, <2>1, <2>2 DEF LoadTransferOut
<1>7. CASE LoadOperator
  <2>1. at = "transferOut" /\ conn = "open"
    BY <1>0, <1>7 DEF LoadOperator, ConnInv, Dialed
  <2>2. CASE Fail("transferOut", "closed")
    BY <2>1, <2>2, FailStep DEF Pcs
  <2>3. CASE /\ LoadKey \in Keys \cup {NoKey}
             /\ delegated' = IF LoadKey = NoKey THEN NoService ELSE NewService
             /\ Proceed("built")
             /\ UNCHANGED <<environment, identity, conn>>
    <3>1. ConfigInv'
      BY <1>0, <2>1, <2>3 DEF Proceed, ConfigInv, Validate, cfg
    <3>2. file.agentID = file.restURL /\ file.agentID \in BOOLEAN
      BY <1>0, <2>1 DEF ConfigInv, Validate, cfg, ApplyDefaults, Config
    <3>3. IdentityInv'
      <4>1. CASE LoadKey = NoKey
        BY <2>3, <4>1 DEF Proceed, IdentityInv
      <4>2. CASE LoadKey # NoKey
        <5>1. /\ delegated'.key = LoadKey
              /\ IF file.agentID
                 THEN delegated'.chainID = "agent" /\ delegated'.over = "REST"
                 ELSE delegated'.chainID = "dex" /\ delegated'.over = "gRPC"
          BY <2>3, <3>2, <4>2 DEF NewService
        <5>2. identity = LoadKey \/ (env = NoKey /\ rotated)
          BY <1>0, <2>1 DEF IdentityInv
        <5> QED
          BY <2>3, <4>2, <5>1, <5>2 DEF Proceed, IdentityInv
      <4> QED
        BY <4>1, <4>2
    <3>4. delegated' \in [key : Keys \cup {NoKey}, chainID : {"none", "dex", "agent"},
                          over : {"none", "gRPC", "REST"}]
      BY <2>3 DEF NoService, NewService
    <3> QED
      BY <1>0, <2>1, <2>3, <3>1, <3>3, <3>4, BootStep DEF Dialed, ProcessTypeOK
  <2> QED
    BY <1>7, <2>2, <2>3 DEF LoadOperator
<1>8. CASE CheckDelegated
  <2>1. at = "built" /\ conn = "open"
    BY <1>0, <1>8 DEF CheckDelegated, ConnInv, Dialed
  <2>2. CASE Fail("built", Close)
    BY <2>1, <2>2, FailStep DEF Pcs, Close
  <2>3. CASE /\ delegated # NoService /\ Proceed("checked")
             /\ UNCHANGED <<environment, identity, conn, delegated>>
    <3>1. ConfigInv'
      BY <1>0, <2>1, <2>3 DEF Proceed, ConfigInv, Validate, cfg
    <3>2. IdentityInv'
      BY <1>0, <2>1, <2>3 DEF Proceed, IdentityInv
    <3> QED
      BY <1>0, <2>1, <2>3, <3>1, <3>2, BootStep DEF Dialed, ProcessTypeOK
  <2> QED
    BY <1>8, <2>2, <2>3 DEF CheckDelegated
<1>9. CASE Listen
  <2>1. at = "checked" /\ conn = "open"
    BY <1>0, <1>9 DEF Listen, ConnInv, Dialed
  <2>2. CASE Fail("checked", Close)
    BY <2>1, <2>2, FailStep DEF Pcs, Close
  <2>3. CASE /\ at' = "serving" /\ accept' = "on"
             /\ UNCHANGED <<environment, status, failure, identity, conn, delegated, req, grace>>
    <3>1. ProcessTypeOK'
      BY <1>0, <2>3 DEF ProcessTypeOK, Pcs
    <3>2. ConfigInv'
      BY <1>0, <2>1, <2>3 DEF ConfigInv, Validate, cfg
    <3>3. IdentityInv'
      BY <1>0, <2>1, <2>3 DEF IdentityInv
    <3>4. ConnInv' /\ StatusInv' /\ RequestInv'
      BY <1>0, <2>1, <2>3 DEF ConnInv, Dialed, StatusInv, RequestInv
    <3>5. CleanExit' /\ CutOnlyAfterGrace'
      BY <2>3 DEF ProcessInv, CleanExit, CutOnlyAfterGrace
    <3> QED
      BY <3>1, <3>2, <3>3, <3>4, <3>5 DEF ProcessInv
  <2> QED
    BY <1>9, <2>2, <2>3 DEF Listen
<1>10. CASE ServeError
  <2>1. at = "serving" /\ conn = "open" /\ Fail("accept", Close)
    BY <1>0, <1>10 DEF ServeError, ConnInv, Dialed
  <2> QED
    BY <2>1, FailStep DEF Close
<1>11. CASE Shutdown
  <2>1. /\ at = "serving" /\ signalled /\ at' = "draining" /\ accept' \in {"off", "on", "failed"}
        /\ accept' # "on"
        /\ UNCHANGED <<environment, status, failure, identity, conn, delegated, req, grace>>
    BY <1>0, <1>11 DEF Shutdown, ProcessTypeOK
  <2>2. ProcessTypeOK'
    BY <1>0, <2>1 DEF ProcessTypeOK, Pcs
  <2>3. ConfigInv'
    BY <1>0, <2>1 DEF ConfigInv, Validate, cfg
  <2>4. IdentityInv'
    BY <1>0, <2>1 DEF IdentityInv
  <2>5. ConnInv' /\ StatusInv' /\ RequestInv'
    BY <1>0, <2>1 DEF ConnInv, Dialed, StatusInv, RequestInv
  <2>6. CleanExit' /\ CutOnlyAfterGrace'
    BY <2>1 DEF ProcessInv, CleanExit, CutOnlyAfterGrace
  <2> QED
    BY <2>2, <2>3, <2>4, <2>5, <2>6 DEF ProcessInv
<1>12. CASE ShutdownReturns
  BY <1>12, DrainedStep
<1> QED
  BY <1>1, <1>2, <1>4, <1>5, <1>6, <1>7, <1>8, <1>9, <1>10, <1>11, <1>12 DEF run

(* Requests, the operator of the host, and the clock.                      *)
LEMMA AroundStep ==
    ASSUME ProcessInv, ProcessNext \/ UNCHANGED ProcessVars, ~run
    PROVE  ProcessInv'
<1> USE DEF inputs, server
<1>0. /\ ProcessTypeOK /\ ConfigInv /\ ConnInv /\ StatusInv /\ IdentityInv /\ RequestInv
      /\ CleanExit /\ CutOnlyAfterGrace
  BY DEF ProcessInv
\* What depends on the process's own variables only.
<1>1. ASSUME UNCHANGED <<file, at, status, failure, conn>>, signalled => signalled'
      PROVE  ConfigInv' /\ ConnInv' /\ StatusInv' /\ CleanExit'
  <2>1. ConfigInv'
    BY <1>0, <1>1 DEF ConfigInv, Validate, cfg
  <2>2. ConnInv' /\ StatusInv' /\ CleanExit'
    BY <1>0, <1>1 DEF ConnInv, StatusInv, CleanExit
  <2> QED
    BY <2>1, <2>2
<1>2. ASSUME UNCHANGED <<file, env, keyFile, rotated, at, identity, delegated>> PROVE IdentityInv'
  BY <1>0, <1>2 DEF IdentityInv, LoadKey
<1>3. CASE AcceptFails
  <2>1. ProcessTypeOK'
    BY <1>0, <1>3 DEF AcceptFails, environment, ProcessTypeOK
  <2>2. RequestInv' /\ CutOnlyAfterGrace'
    BY <1>0, <1>3 DEF AcceptFails, RequestInv, CutOnlyAfterGrace
  <2> QED
    BY <1>1, <1>2, <1>3, <2>1, <2>2 DEF AcceptFails, environment, ProcessInv
<1>4. ASSUME NEW r \in Requests, Connect(r) PROVE ProcessInv'
  <2>1. ProcessTypeOK'
    BY <1>0, <1>4 DEF Connect, ProcessTypeOK
  <2>2. RequestInv' /\ CutOnlyAfterGrace'
    BY <1>0, <1>4 DEF Connect, ProcessTypeOK, RequestInv, CutOnlyAfterGrace
  <2> QED
    BY <1>1, <1>2, <1>4, <2>1, <2>2 DEF Connect, ProcessInv
<1>5. ASSUME NEW r \in Requests, HandlerReturns(r) PROVE ProcessInv'
  <2>1. ProcessTypeOK'
    BY <1>0, <1>5 DEF HandlerReturns, ProcessTypeOK
  <2>2. RequestInv' /\ CutOnlyAfterGrace'
    BY <1>0, <1>5 DEF HandlerReturns, ProcessTypeOK, RequestInv, CutOnlyAfterGrace
  <2> QED
    BY <1>1, <1>2, <1>5, <2>1, <2>2 DEF HandlerReturns, ProcessInv
<1>6. CASE Signal
  <2>1. ProcessTypeOK'
    BY <1>0, <1>6 DEF Signal, ProcessTypeOK
  <2>2. RequestInv' /\ CutOnlyAfterGrace'
    BY <1>0, <1>6 DEF Signal, RequestInv, CutOnlyAfterGrace
  <2> QED
    BY <1>1, <1>2, <1>6, <2>1, <2>2 DEF Signal, ProcessInv
<1>7. ASSUME NEW k \in Keys \cup {NoKey, BadKey, Unset}, RotateKeyFile(k)
      PROVE  ProcessInv'
  <2>1. ProcessTypeOK'
    BY <1>0, <1>7, LifecycleAssumption DEF RotateKeyFile, ProcessTypeOK
  <2>2. RequestInv' /\ CutOnlyAfterGrace'
    BY <1>0, <1>7 DEF RotateKeyFile, RequestInv, CutOnlyAfterGrace
  <2>3. /\ UNCHANGED <<file, env, at, identity, delegated>>
        /\ rotated => rotated'
        /\ at \in {"keyed", "dialed", "comet", "transferOut"} => rotated'
    BY <1>7 DEF RotateKeyFile
  <2>4. env # NoKey => LoadKey' = LoadKey
    BY <2>3 DEF LoadKey
  <2>5. IdentityInv'
    BY <1>0, <2>3, <2>4 DEF IdentityInv
  <2> QED
    BY <1>1, <1>7, <2>1, <2>2, <2>5 DEF RotateKeyFile, ProcessInv
<1>8. CASE Tick
  <2>1. ProcessTypeOK'
    BY <1>0, <1>8, LifecycleAssumption DEF Tick, ProcessTypeOK
  <2>2. RequestInv' /\ CutOnlyAfterGrace'
    BY <1>0, <1>8 DEF Tick, RequestInv, CutOnlyAfterGrace
  <2> QED
    BY <1>1, <1>2, <1>8, <2>1, <2>2 DEF Tick, ProcessInv
<1>9. CASE UNCHANGED ProcessVars
  <2>1. ProcessTypeOK'
    BY <1>0, <1>9 DEF ProcessVars, ProcessTypeOK
  <2>2. RequestInv' /\ CutOnlyAfterGrace'
    BY <1>0, <1>9 DEF ProcessVars, RequestInv, CutOnlyAfterGrace
  <2> QED
    BY <1>1, <1>2, <1>9, <2>1, <2>2 DEF ProcessVars, ProcessInv
<1> QED
  BY <1>3, <1>4, <1>5, <1>6, <1>7, <1>8, <1>9 DEF ProcessNext, Done

(* The invariant of the process holds for ever.                            *)
LEMMA ProcessInductive == ProcessSpec => []ProcessInv
<1>1. ProcessInv /\ [ProcessNext]_ProcessVars => ProcessInv'
  BY RunStep, AroundStep
<1> QED
  BY <1>1, ProcessInitInv, PTL DEF ProcessSpec

(* Every variable of the process keeps its type.                           *)
THEOREM ProcessTypeCorrect == ProcessSpec => []ProcessTypeOK
<1>1. ProcessInv => ProcessTypeOK
  BY DEF ProcessInv
<1> QED
  BY <1>1, ProcessInductive, PTL

(* Whichever boot step fails and whenever the signal comes, run leaves no  *)
(* connection open, and its exit status is the truth (CleanExit).          *)
THEOREM ExitsAreClean == ProcessSpec => []CleanExit
<1>1. ProcessInv => CleanExit
  BY DEF ProcessInv
<1> QED
  BY <1>1, ProcessInductive, PTL

(* For any valid configuration and any history of the key file, a serving  *)
(* process has one identity on one chain (OneIdentity): the two loads of   *)
(* the operator key agree unless the file was replaced between them.       *)
THEOREM ServesUnderOneIdentity == ProcessSpec => []OneIdentity
<1>1. ProcessInv => OneIdentity
  BY DEF ProcessInv, IdentityInv, OneIdentity, InService
<1> QED
  BY <1>1, ProcessInductive, PTL

(* However many requests hang, a shutdown cuts none of them off before the *)
(* grace period is over (CutOnlyAfterGrace).                               *)
THEOREM GraceIsKept == ProcessSpec => []CutOnlyAfterGrace
<1>1. ProcessInv => CutOnlyAfterGrace
  BY DEF ProcessInv
<1> QED
  BY <1>1, ProcessInductive, PTL

-----------------------------------------------------------------------------
(* The operations it serves.                                               *)

\* A family's tools, with the service or without.
ToolsIn(family) ==
    CASE family \in DOMAIN BridgedFamilies -> BridgedFamilies[family]
      [] family = "AgentChain"     -> AgentChainTools.AgentRegistry \cup AgentChainTools.Delegation
      [] family = "ExecutionCore"  -> executionCoreTools
      [] family = "ExecutionPerps" -> executionPerpsTools

\* The registry holds the operations of its families, and no add panicked.
RegistryInv ==
    /\ families \subseteq Families
    /\ ops = [e \in Execs |-> UNION {OpsOf(f, e) : f \in families}]
    /\ panicked = [e \in Execs |-> FALSE]

Results == {"none", "unknown", "refused", "decode", "unknownKey", "ran"}

SurfaceInv ==
    /\ RegistryInv
    /\ serving \in BOOLEAN /\ call.result \in Results
    /\ NothingDropped

(* The families by name.                                                   *)
LEMMA FamilyNames ==
    /\ DOMAIN BridgedFamilies =
          {"MarketData", "Account", "Trading", "Funds", "Broadcast", "Auth", "Faucet", "EVMBroadcast", "EVMDeFi"}
    /\ DOMAIN AgentChainTools = {"AgentRegistry", "Delegation"}
    /\ DOMAIN LiveCore = executionCoreTools
    /\ DOMAIN LivePerps = executionPerpsTools
<1>1. DOMAIN BridgedFamilies =
        {"MarketData", "Account", "Trading", "Funds", "Broadcast", "Auth", "Faucet", "EVMBroadcast", "EVMDeFi"}
  BY DEF BridgedFamilies
<1>2. DOMAIN AgentChainTools = {"AgentRegistry", "Delegation"}
  BY DEF AgentChainTools
<1>3. DOMAIN LiveCore = executionCoreTools
  BY DEF LiveCore, executionCoreTools
<1>4. DOMAIN LivePerps = executionPerpsTools
  BY DEF LivePerps, executionPerpsTools
<1> QED
  BY <1>1, <1>2, <1>3, <1>4

(* The operations of each family, case by case.                            *)
LEMMA FamilyOps ==
    ASSUME NEW e \in Execs
    PROVE  /\ \A f \in DOMAIN BridgedFamilies :
                 /\ OpsOf(f, e) = Same(BridgedFamilies[f], SkillOf(f), "adapt")
                 /\ ToolsIn(f) = BridgedFamilies[f]
           /\ OpsOf("AgentChain", e) =
                 Same(AgentChainTools.AgentRegistry, "AgentRegistry", "native")
                   \cup Same(AgentChainTools.Delegation, "Delegation", "native")
           /\ ToolsIn("AgentChain") = AgentChainTools.AgentRegistry \cup AgentChainTools.Delegation
           /\ OpsOf("ExecutionCore", e) =
                 Execution(LiveCore, executionCoreTools, e)
           /\ ToolsIn("ExecutionCore") = executionCoreTools
           /\ OpsOf("ExecutionPerps", e) =
                 Execution(LivePerps, executionPerpsTools, e)
           /\ ToolsIn("ExecutionPerps") = executionPerpsTools
<1>1. \A f \in DOMAIN BridgedFamilies :
        /\ OpsOf(f, e) = Same(BridgedFamilies[f], SkillOf(f), "adapt")
        /\ ToolsIn(f) = BridgedFamilies[f]
  BY FamilyNames DEF OpsOf, ToolsIn
<1>2. OpsOf("AgentChain", e) =
        Same(AgentChainTools.AgentRegistry, "AgentRegistry", "native")
          \cup Same(AgentChainTools.Delegation, "Delegation", "native")
  <2>1. OpsOf("AgentChain", e) =
          UNION {Same(AgentChainTools[s], s, "native") : s \in DOMAIN AgentChainTools}
    BY FamilyNames DEF OpsOf
  <2> QED
    BY <2>1, FamilyNames
<1>3. /\ ToolsIn("AgentChain") = AgentChainTools.AgentRegistry \cup AgentChainTools.Delegation
      /\ ToolsIn("ExecutionCore") = executionCoreTools
      /\ ToolsIn("ExecutionPerps") = executionPerpsTools
  BY FamilyNames DEF ToolsIn
<1>4. /\ OpsOf("ExecutionCore", e) =
            Execution(LiveCore, executionCoreTools, e)
      /\ OpsOf("ExecutionPerps", e) =
            Execution(LivePerps, executionPerpsTools, e)
  BY FamilyNames DEF OpsOf
<1> QED
  BY <1>1, <1>2, <1>3, <1>4

(* The operations of a family: one for each of its tools, under a skill    *)
(* that does not depend on the service; without the service none is live,  *)
(* no delegated write is decoded leniently, and no native operation is     *)
(* bridged.                                                                *)
LEMMA OpFacts ==
    ASSUME NEW e \in Execs, NEW f \in Families
    PROVE  /\ \A op \in OpsOf(f, e) :
                 /\ op[1] \in ToolsIn(f) /\ op[2] \in Skill
                 /\ op[3] \in {"adapt", "native", "strict", "refusing"}
                 /\ e = "nil" => op[3] # "strict"
                 /\ op[1] \in Writes => op[3] \in {"strict", "refusing"}
                 /\ op[1] \in DOMAIN jsonKeysOf => op[3] # "adapt"
           /\ \A op, other \in OpsOf(f, e) : op[1] = other[1] => op = other
           /\ \A d \in Execs : \A op \in OpsOf(f, e) :
                 \E other \in OpsOf(f, d) : other[1] = op[1] /\ other[2] = op[2]
<1> DEFINE One(S) ==
             /\ \A op \in S :
                   /\ op[1] \in ToolsIn(f) /\ op[2] \in Skill
                   /\ op[3] \in {"adapt", "native", "strict", "refusing"}
                   /\ e = "nil" => op[3] # "strict"
                   /\ op[1] \in Writes => op[3] \in {"strict", "refusing"}
                   /\ op[1] \in DOMAIN jsonKeysOf => op[3] # "adapt"
             /\ \A op, other \in S : op[1] = other[1] => op = other
<1>1. CASE f \in DOMAIN BridgedFamilies
  <2>1. \A d \in Execs :
          /\ OpsOf(f, d) = Same(ToolsIn(f), SkillOf(f), "adapt")
          /\ ToolsIn(f) = BridgedFamilies[f]
    BY <1>1, FamilyOps
  <2>2. ToolsIn(f) \cap Writes = {} /\ ToolsIn(f) \cap DOMAIN jsonKeysOf = {}
    BY <1>1, <2>1, FamilyNames DEF BridgedFamilies, Writes, jsonKeysOf
  <2>3. SkillOf(f) \in Skill
    BY <1>1 DEF Skill
  <2>4. One(OpsOf(f, e))
    BY <2>1, <2>2, <2>3 DEF Same
  <2> QED
    BY <2>1, <2>4
<1>2. CASE f = "AgentChain"
  <2> DEFINE A == AgentChainTools.AgentRegistry
             D == AgentChainTools.Delegation
  <2>1. /\ \A d \in Execs :
              OpsOf(f, d) =
                 Same(A, "AgentRegistry", "native") \cup Same(D, "Delegation", "native")
        /\ ToolsIn(f) = A \cup D
    BY <1>2, FamilyOps
  <2>2. A \cap D = {} /\ A \cap Writes = {} /\ D \cap Writes = {}
    BY DEF AgentChainTools, Writes
  <2>3. "AgentRegistry" \in Skill /\ "Delegation" \in Skill
    BY DEF Skill
  <2> HIDE DEF A, D
  <2>4. One(OpsOf(f, e))
    BY <2>1, <2>2, <2>3 DEF Same
  <2> QED
    BY <2>1, <2>4
<1>3. ASSUME NEW live, NEW names, DOMAIN live = names, ToolsIn(f) = names,
             \A d \in Execs : OpsOf(f, d) = Execution(live, names, d),
             \A t \in names : live[t] \in {"native", "strict"} /\ (t \in Writes => live[t] = "strict")
      PROVE  /\ One(OpsOf(f, e))
             /\ \A d \in Execs : \A op \in OpsOf(f, e) :
                   \E other \in OpsOf(f, d) : other[1] = op[1] /\ other[2] = op[2]
  <2>1. "Execution" \in Skill
    BY DEF Skill
  <2>2. \A d \in Execs :
          OpsOf(f, d) = {<<t, "Execution", IF d = "nil" THEN "refusing" ELSE live[t]>> : t \in names}
    BY <1>3 DEF Execution, Same
  <2>3. One(OpsOf(f, e))
    BY <1>3, <2>1, <2>2
  <2>4. ASSUME NEW d \in Execs, NEW op \in OpsOf(f, e)
        PROVE  \E other \in OpsOf(f, d) : other[1] = op[1] /\ other[2] = op[2]
    <3>1. PICK t \in names : op = <<t, "Execution", IF e = "nil" THEN "refusing" ELSE live[t]>>
      BY <2>2
    <3>2. <<t, "Execution", IF d = "nil" THEN "refusing" ELSE live[t]>> \in OpsOf(f, d)
      BY <2>2
    <3> QED
      BY <3>1, <3>2
  <2> QED
    BY <2>3, <2>4
<1>4. CASE f = "ExecutionCore"
  <2>1. \A t \in executionCoreTools :
          /\ LiveCore[t] \in {"native", "strict"}
          /\ t \in Writes => LiveCore[t] = "strict"
    BY DEF executionCoreTools, LiveCore, Writes
  <2> QED
    BY <1>3, <1>4, <2>1, FamilyNames, FamilyOps
<1>5. CASE f = "ExecutionPerps"
  <2>1. \A t \in executionPerpsTools :
          /\ LivePerps[t] \in {"native", "strict"}
          /\ t \in Writes => LivePerps[t] = "strict"
    BY DEF executionPerpsTools, LivePerps, Writes
  <2> QED
    BY <1>3, <1>5, <2>1, FamilyNames, FamilyOps
<1> QED
  BY <1>1, <1>2, <1>4, <1>5 DEF Families

(* No two families claim one tool.                                         *)
LEMMA FamiliesDisjoint ==
    ASSUME NEW f \in Families, NEW g \in Families, f # g
    PROVE  ToolsIn(f) \cap ToolsIn(g) = {}
<1> DEFINE B == BridgedFamilies
           A == AgentChainTools.AgentRegistry
           D == AgentChainTools.Delegation
           C == executionCoreTools
           P == executionPerpsTools
<1>1. \A h, k \in DOMAIN B : h # k => B[h] \cap B[k] = {}
  BY FamilyNames DEF BridgedFamilies
<1>2. \A h \in DOMAIN B : B[h] \cap A = {} /\ B[h] \cap D = {} /\ B[h] \cap C = {} /\ B[h] \cap P = {}
  BY FamilyNames DEF BridgedFamilies, AgentChainTools, executionCoreTools,
                     executionPerpsTools
<1>3. /\ A \cap C = {} /\ A \cap P = {} /\ D \cap C = {} /\ D \cap P = {} /\ C \cap P = {}
  BY DEF AgentChainTools, executionCoreTools, executionPerpsTools
<1>4. /\ \A h \in DOMAIN B : ToolsIn(h) = B[h]
      /\ ToolsIn("AgentChain") = A \cup D
      /\ ToolsIn("ExecutionCore") = C
      /\ ToolsIn("ExecutionPerps") = P
  BY FamilyOps DEF Execs
<1>5. f \in DOMAIN B \cup {"AgentChain", "ExecutionCore", "ExecutionPerps"}
      /\ g \in DOMAIN B \cup {"AgentChain", "ExecutionCore", "ExecutionPerps"}
  BY DEF Families
<1> HIDE DEF B, A, D, C, P
<1> QED
  BY <1>1, <1>2, <1>3, <1>4, <1>5

(* Sets listed element by element are finite, for the lengths the tables   *)
(* have.                                                                   *)
LEMMA ListedSetsAreFinite ==
    /\ \A a, b : IsFiniteSet({a, b})
    /\ \A a, b, c, d : IsFiniteSet({a, b, c, d})
    /\ \A a, b, c, d, e : IsFiniteSet({a, b, c, d, e})
    /\ \A a, b, c, d, e, f : IsFiniteSet({a, b, c, d, e, f})
    /\ \A a, b, c, d, e, f, g, h, i, j : IsFiniteSet({a, b, c, d, e, f, g, h, i, j})
    /\ \A a, b, c, d, e, f, g, h, i, j, k : IsFiniteSet({a, b, c, d, e, f, g, h, i, j, k})
    /\ \A a, b, c, d, e, f, g, h, i, j, k, l : IsFiniteSet({a, b, c, d, e, f, g, h, i, j, k, l})
<1>1. ASSUME NEW S, IsFiniteSet(S), NEW a, NEW b PROVE IsFiniteSet(S \cup {a, b})
  <2>1. IsFiniteSet((S \cup {a}) \cup {b})
    BY <1>1, FS_AddElement
  <2>2. (S \cup {a}) \cup {b} = S \cup {a, b}
    OBVIOUS
  <2> QED
    BY <2>1, <2>2
<1>2. ASSUME NEW a, NEW b PROVE IsFiniteSet({a, b})
  <2>1. IsFiniteSet({} \cup {a, b})
    BY <1>1, FS_EmptySet
  <2> QED
    BY <2>1
<1>3. ASSUME NEW a, NEW b, NEW c, NEW d PROVE IsFiniteSet({a, b, c, d})
  <2>1. IsFiniteSet({a, b} \cup {c, d})
    BY <1>1, <1>2
  <2>2. {a, b} \cup {c, d} = {a, b, c, d}
    OBVIOUS
  <2> QED
    BY <2>1, <2>2
<1>4. ASSUME NEW a, NEW b, NEW c, NEW d, NEW e, NEW f PROVE IsFiniteSet({a, b, c, d, e, f})
  <2>1. IsFiniteSet({a, b, c, d} \cup {e, f})
    BY <1>1, <1>3
  <2>2. {a, b, c, d} \cup {e, f} = {a, b, c, d, e, f}
    OBVIOUS
  <2> QED
    BY <2>1, <2>2
<1>5. ASSUME NEW a, NEW b, NEW c, NEW d, NEW e, NEW f, NEW g, NEW h, NEW i, NEW j, NEW k, NEW l
      PROVE  IsFiniteSet({a, b, c, d, e, f, g, h, i, j, k, l})
  <2>1. IsFiniteSet((({a, b, c, d, e, f} \cup {g, h}) \cup {i, j}) \cup {k, l})
    <3>1. IsFiniteSet({a, b, c, d, e, f} \cup {g, h})
      BY <1>1, <1>4
    <3>2. IsFiniteSet(({a, b, c, d, e, f} \cup {g, h}) \cup {i, j})
      BY <1>1, <3>1
    <3> QED
      BY <1>1, <3>2
  <2>2. (({a, b, c, d, e, f} \cup {g, h}) \cup {i, j}) \cup {k, l} = {a, b, c, d, e, f, g, h, i, j, k, l}
    OBVIOUS
  <2> QED
    BY <2>1, <2>2
<1>6. ASSUME NEW a, NEW b, NEW c, NEW d, NEW e PROVE IsFiniteSet({a, b, c, d, e})
  <2>1. {a, b, c, d, e} = {a, b, c, d, e, e}
    OBVIOUS
  <2> QED
    BY <1>4, <2>1
<1>7. ASSUME NEW a, NEW b, NEW c, NEW d, NEW e, NEW f, NEW g, NEW h, NEW i, NEW j
      PROVE  IsFiniteSet({a, b, c, d, e, f, g, h, i, j})
  <2>1. {a, b, c, d, e, f, g, h, i, j} = {a, b, c, d, e, f, g, h, i, j, j, j}
    OBVIOUS
  <2>2. IsFiniteSet({a, b, c, d, e, f, g, h, i, j, j, j})
    BY <1>5
  <2> QED
    BY <2>1, <2>2
<1>8. ASSUME NEW a, NEW b, NEW c, NEW d, NEW e, NEW f, NEW g, NEW h, NEW i, NEW j, NEW k
      PROVE  IsFiniteSet({a, b, c, d, e, f, g, h, i, j, k})
  <2>1. {a, b, c, d, e, f, g, h, i, j, k} = {a, b, c, d, e, f, g, h, i, j, k, k}
    OBVIOUS
  <2>2. IsFiniteSet({a, b, c, d, e, f, g, h, i, j, k, k})
    BY <1>5
  <2> QED
    BY <2>1, <2>2
<1> QED
  BY <1>2, <1>3, <1>4, <1>5, <1>6, <1>7, <1>8

(* There are finitely many tools.                                          *)
LEMMA ToolsAreFinite == IsFiniteSet(UNION {ToolsIn(f) : f \in Families})
<1> DEFINE B == BridgedFamilies
           A == AgentChainTools.AgentRegistry
           D == AgentChainTools.Delegation
           C == executionCoreTools
           P == executionPerpsTools
<1>1. /\ IsFiniteSet(B["MarketData"]) /\ IsFiniteSet(B["Account"]) /\ IsFiniteSet(B["EVMDeFi"])
  BY ListedSetsAreFinite DEF BridgedFamilies
<1>2. /\ IsFiniteSet(B["Trading"]) /\ IsFiniteSet(B["Funds"]) /\ IsFiniteSet(B["Broadcast"])
      /\ IsFiniteSet(B["Auth"]) /\ IsFiniteSet(B["Faucet"]) /\ IsFiniteSet(B["EVMBroadcast"])
  BY ListedSetsAreFinite DEF BridgedFamilies
<1>3. IsFiniteSet(A) /\ IsFiniteSet(D)
  BY ListedSetsAreFinite DEF AgentChainTools
<1>4. IsFiniteSet(C) /\ IsFiniteSet(P)
  BY ListedSetsAreFinite DEF executionCoreTools, executionPerpsTools
<1>5. IsFiniteSet(A \cup D)
  BY <1>3, FS_Union
<1>6. {ToolsIn(f) : f \in Families} =
        {B["MarketData"], B["Account"], B["Trading"], B["Funds"], B["Broadcast"], B["Auth"], B["Faucet"],
         B["EVMBroadcast"], B["EVMDeFi"], A \cup D, C, P}
  <2>1. Families =
          {"MarketData", "Account", "Trading", "Funds", "Broadcast", "Auth", "Faucet", "EVMBroadcast", "EVMDeFi",
           "AgentChain", "ExecutionCore", "ExecutionPerps"}
    BY FamilyNames DEF Families
  <2>2. /\ \A f \in DOMAIN B : ToolsIn(f) = B[f]
        /\ ToolsIn("AgentChain") = A \cup D
        /\ ToolsIn("ExecutionCore") = C
        /\ ToolsIn("ExecutionPerps") = P
    BY FamilyOps DEF Execs
  <2> HIDE DEF B, A, D, C, P
  <2> QED
    BY <2>1, <2>2, FamilyNames DEF B
<1> HIDE DEF B, A, D, C, P
<1>7. IsFiniteSet({B["MarketData"], B["Account"], B["Trading"], B["Funds"], B["Broadcast"], B["Auth"], B["Faucet"],
                   B["EVMBroadcast"], B["EVMDeFi"], A \cup D, C, P})
  BY ListedSetsAreFinite
<1> QED
  BY <1>1, <1>2, <1>4, <1>5, <1>6, <1>7, FS_UNION

(* An add of a family finds none of its tools taken.                       *)
LEMMA RegistryStep ==
    ASSUME RegistryInv, [SurfaceNext]_SurfaceVars
    PROVE  RegistryInv'
<1>1. ASSUME NEW family \in Families, Register(family) PROVE RegistryInv'
  <2>1. /\ family \notin families /\ families' = families \cup {family}
        /\ ops' = [e \in Execs |-> add(e, OpsOf(family, e)).ops]
        /\ panicked' = [e \in Execs |-> panicked[e] \/ add(e, OpsOf(family, e)).dup]
    BY <1>1 DEF Register
  <2>2. ASSUME NEW e \in Execs
        PROVE  ToolsOf(OpsOf(family, e)) \cap ToolsOf(ops[e]) = {}
    <3> SUFFICES ASSUME NEW op \in OpsOf(family, e), NEW other \in ops[e], op[1] = other[1]
                 PROVE  FALSE
      BY DEF ToolsOf
    <3>1. PICK f \in families : other \in OpsOf(f, e)
      BY DEF RegistryInv
    <3>2. f \in Families /\ f # family
      BY <2>1 DEF RegistryInv
    <3>3. op[1] \in ToolsIn(family) /\ other[1] \in ToolsIn(f)
      BY <3>1, <3>2, OpFacts
    <3> QED
      BY <3>2, <3>3, FamiliesDisjoint
  <2>3. ASSUME NEW e \in Execs
        PROVE  /\ add(e, OpsOf(family, e)).ops = ops[e] \cup OpsOf(family, e)
               /\ add(e, OpsOf(family, e)).dup = FALSE
    BY <2>2 DEF add
  <2>4. ASSUME NEW e \in Execs
        PROVE  ops[e] \cup OpsOf(family, e) = UNION {OpsOf(f, e) : f \in families'}
    BY <2>1 DEF RegistryInv
  <2>5. ops' = [e \in Execs |-> UNION {OpsOf(f, e) : f \in families'}]
    BY <2>1, <2>3, <2>4
  <2>6. panicked' = [e \in Execs |-> FALSE]
    BY <2>1, <2>3 DEF RegistryInv
  <2> QED
    BY <2>1, <2>5, <2>6 DEF RegistryInv
<1>2. CASE UNCHANGED <<families, ops, panicked>>
  BY <1>2 DEF RegistryInv
<1> QED
  BY <1>1, <1>2 DEF SurfaceNext, Serve, CallTool, SurfaceVars

(* A delegated write runs through the strict adapter or not at all.        *)
LEMMA NothingDroppedStep ==
    ASSUME SurfaceInv, [SurfaceNext]_SurfaceVars
    PROVE  NothingDropped'
<1>1. ASSUME NEW e \in Execs, NEW tool \in DOMAIN jsonKeysOf, NEW args \in Args,
             CallTool(e, tool, args)
      PROVE  NothingDropped'
  <2> DEFINE found == Lookup(e, tool)
             op == CHOOSE o \in found : TRUE
             out == IF found = {} THEN [result |-> "unknown", decoded |-> {}]
                    ELSE Dispatch(tool, op[3], args)
  <2>1. call' = [exec |-> e, tool |-> tool, keys |-> args.keys, result |-> out.result, decoded |-> out.decoded]
    BY <1>1 DEF CallTool
  <2>2. ASSUME tool \in Writes, out.result = "ran" PROVE args.keys \subseteq out.decoded
    <3>1. found # {}
      BY <2>2
    <3>2. op \in found
      BY <3>1
    <3>3. op \in ops[e] /\ op[1] = tool
      BY <3>2 DEF Lookup
    <3>4. op[3] \in {"strict", "refusing"}
      <4>1. PICK f \in families : op \in OpsOf(f, e)
        BY <3>3 DEF SurfaceInv, RegistryInv
      <4> QED
        BY <2>2, <3>3, <4>1, OpFacts DEF SurfaceInv, RegistryInv
    <3>5. out = Dispatch(tool, op[3], args)
      BY <3>1
    <3> HIDE DEF found, op, out
    <3>6. CASE op[3] = "refusing"
      BY <2>2, <3>5, <3>6 DEF Dispatch
    <3>7. CASE op[3] = "strict"
      <4>1. out = adaptStrictNative(tool, args)
        BY <3>5, <3>7 DEF Dispatch
      <4> QED
        BY <2>2, <4>1 DEF adaptStrictNative, adaptNative
    <3> QED
      BY <3>4, <3>6, <3>7
  <2> HIDE DEF out
  <2> QED
    BY <2>1, <2>2 DEF NothingDropped
<1>2. CASE UNCHANGED call
  BY <1>2 DEF SurfaceInv, NothingDropped
<1> QED
  BY <1>1, <1>2 DEF SurfaceNext, Register, Serve, SurfaceVars

(* A call has one of the results; the adapters are all it can meet.        *)
LEMMA ResultStep ==
    ASSUME SurfaceInv, [SurfaceNext]_SurfaceVars
    PROVE  serving' \in BOOLEAN /\ call'.result \in Results
<1>1. ASSUME NEW e \in Execs, NEW tool \in DOMAIN jsonKeysOf, NEW args \in Args,
             CallTool(e, tool, args)
      PROVE  call'.result \in Results
  <2> DEFINE found == Lookup(e, tool)
             op == CHOOSE o \in found : TRUE
             out == IF found = {} THEN [result |-> "unknown", decoded |-> {}]
                    ELSE Dispatch(tool, op[3], args)
  <2>1. call' = [exec |-> e, tool |-> tool, keys |-> args.keys, result |-> out.result, decoded |-> out.decoded]
    BY <1>1 DEF CallTool
  <2>2. ASSUME found = {} PROVE out.result \in Results
    BY <2>2 DEF Results
  <2>3. ASSUME found # {} PROVE out.result \in Results
    <3>1. op \in ops[e] /\ op[1] = tool
      BY <2>3 DEF Lookup
    <3>2. PICK f \in families : op \in OpsOf(f, e)
      BY <3>1 DEF SurfaceInv, RegistryInv
    <3>3. op[3] \in {"native", "strict", "refusing"}
      BY <3>1, <3>2, OpFacts DEF SurfaceInv, RegistryInv
    <3>4. out = Dispatch(tool, op[3], args)
      BY <2>3
    <3> HIDE DEF found, op, out
    <3> QED
      BY <3>3, <3>4 DEF Dispatch, adaptStrictNative, adaptNative, Results
  <2>4. out.result \in Results
    BY <2>2, <2>3
  <2> HIDE DEF out
  <2> QED
    BY <2>1, <2>4
<1>2. ASSUME UNCHANGED call PROVE call'.result \in Results
  BY <1>2 DEF SurfaceInv
<1>3. serving' \in BOOLEAN
  BY DEF SurfaceInv, SurfaceNext, Register, Serve, CallTool, SurfaceVars
<1> QED
  BY <1>1, <1>2, <1>3 DEF SurfaceNext, Register, Serve, SurfaceVars

(* The invariant of the surface holds for ever.                            *)
LEMMA SurfaceInductive == SurfaceSpec => []SurfaceInv
<1>1. SurfaceInit => SurfaceInv
  <2> SUFFICES ASSUME SurfaceInit PROVE SurfaceInv
    OBVIOUS
  <2>1. RegistryInv
    BY DEF SurfaceInit, RegistryInv
  <2>2. NothingDropped /\ serving \in BOOLEAN /\ call.result \in Results
    BY DEF SurfaceInit, NoCall, NothingDropped, Results
  <2> QED
    BY <2>1, <2>2 DEF SurfaceInv
<1>2. SurfaceInv /\ [SurfaceNext]_SurfaceVars => SurfaceInv'
  BY RegistryStep, NothingDroppedStep, ResultStep DEF SurfaceInv
<1> QED
  BY <1>1, <1>2, PTL DEF SurfaceSpec

(* The variables keep their types, whatever the profile: without an        *)
(* operator key nothing is live, and each tool is served by one operation  *)
(* (SurfaceTypeOK).                                                        *)
THEOREM SurfaceTypeCorrect == SurfaceSpec => []SurfaceTypeOK
<1>1. ASSUME SurfaceInv PROVE SurfaceTypeOK
  <2>1. families \subseteq Families /\ DOMAIN ops = Execs /\ panicked \in [Execs -> BOOLEAN]
    BY <1>1 DEF SurfaceInv, RegistryInv
  <2>2. ASSUME NEW e \in Execs, NEW op \in ops[e]
        PROVE  \E f \in Families : op \in OpsOf(f, e)
    BY <1>1 DEF SurfaceInv, RegistryInv
  <2>3. ASSUME NEW e \in Execs, NEW op \in ops[e]
        PROVE  /\ op[2] \in Skill /\ op[3] \in {"adapt", "native", "strict", "refusing"}
               /\ e = "nil" => op[3] # "strict"
               /\ op[1] \in UNION {ToolsIn(f) : f \in Families}
    BY <2>2, OpFacts
  <2>4. ASSUME NEW e \in Execs, NEW op \in ops[e], NEW other \in ops[e], op[1] = other[1]
        PROVE  op = other
    <3>1. PICK f \in Families : op \in OpsOf(f, e)
      BY <2>2
    <3>2. PICK g \in Families : other \in OpsOf(g, e)
      BY <2>2
    <3>3. op[1] \in ToolsIn(f) /\ other[1] \in ToolsIn(g)
      BY <3>1, <3>2, OpFacts
    <3>4. f = g
      BY <2>4, <3>3, FamiliesDisjoint
    <3> QED
      BY <2>4, <3>1, <3>2, <3>4, OpFacts
  <2>5. ASSUME NEW e \in Execs
        PROVE  Cardinality(ToolsOf(ops[e])) = Cardinality(ops[e])
    <3> DEFINE tools == UNION {ToolsIn(f) : f \in Families}
               name == [op \in ops[e] |-> op[1]]
    <3>1. name \in Injection(ops[e], tools)
      BY <2>3, <2>4 DEF Injection, IsInjective
    <3>2. IsFiniteSet(ops[e])
      BY <3>1, ToolsAreFinite, FS_Injection
    <3>3. name \in Bijection(ops[e], ToolsOf(ops[e]))
      BY <2>4 DEF Bijection, Injection, IsInjective, Surjection, ToolsOf
    <3> QED
      BY <3>2, <3>3, FS_Bijection DEF ExistsBijection
  <2>6. serving \in BOOLEAN /\ call.result \in {"none", "unknown", "refused", "decode", "unknownKey", "ran"}
    BY <1>1 DEF SurfaceInv, Results
  <2> QED
    BY <2>1, <2>3, <2>5, <2>6 DEF SurfaceTypeOK
<1> QED
  BY <1>1, SurfaceInductive, PTL

(* Whatever families a profile picks and in whatever order, registering    *)
(* does not panic, and the deployment without an operator key advertises   *)
(* the same tools under the same skills as the one with it (SameSurface).  *)
THEOREM SurfacesAgree == SurfaceSpec => []SameSurface
<1>1. ASSUME SurfaceInv PROVE SameSurface
  <2>1. \A e \in Execs : ~panicked[e]
    BY <1>1 DEF SurfaceInv, RegistryInv
  <2>2. ASSUME NEW e \in Execs, NEW d \in Execs, NEW op \in ops[e]
        PROVE  \E other \in ops[d] : other[1] = op[1] /\ other[2] = op[2]
    <3>1. PICK f \in families : op \in OpsOf(f, e)
      BY <1>1 DEF SurfaceInv, RegistryInv
    <3>2. f \in Families
      BY <1>1 DEF SurfaceInv, RegistryInv
    <3>3. PICK other \in OpsOf(f, d) : other[1] = op[1] /\ other[2] = op[2]
      BY <3>1, <3>2, OpFacts
    <3>4. other \in ops[d]
      BY <1>1, <3>3 DEF SurfaceInv, RegistryInv
    <3> QED
      BY <3>3, <3>4
  <2>3. "service" \in Execs /\ "nil" \in Execs
    BY DEF Execs
  <2>4. ASSUME NEW e \in Execs, NEW d \in Execs, NEW pair \in Skills(e)
        PROVE  pair \in Skills(d)
    <3>1. PICK op \in ops[e] : pair = <<op[1], op[2]>>
      BY DEF Skills
    <3>2. PICK other \in ops[d] : other[1] = op[1] /\ other[2] = op[2]
      BY <2>2
    <3>3. pair = <<other[1], other[2]>>
      BY <3>1, <3>2
    <3> QED
      BY <3>2, <3>3 DEF Skills
  <2>5. Skills("service") = Skills("nil")
    BY <2>3, <2>4
  <2> QED
    BY <2>1, <2>5 DEF SameSurface
<1> QED
  BY <1>1, SurfaceInductive, PTL

(* For arguments with any top-level keys, a delegated write runs on all of *)
(* those keys or is refused (NothingDropped); nested keys are not meant.   *)
THEOREM WritesDropNothing == SurfaceSpec => []NothingDropped
<1>1. SurfaceInv => NothingDropped
  BY DEF SurfaceInv
<1> QED
  BY <1>1, SurfaceInductive, PTL

=============================================================================
