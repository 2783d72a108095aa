---------------------------- MODULE MCOperatorTx ----------------------------
(* Three calls: any mix of fee recordings, a short-term order, a cancel    *)
(* that is not, a caller-signed transaction and a request that is refused. *)
(*                                                                         *)
(* Calls are interchangeable: no definition tells one from another, and    *)
(* every property is about all of them.  So the run starts from one        *)
(* arrangement of each mix of requests, which unlike SYMMETRY is sound for *)
(* liveness too.                                                           *)
EXTENDS OperatorTx, Sequences

MCActions == {ActionOf[op] : op \in Delegated}

\* A credential that grants every action on subaccount 0 and an order.
Write(op) == [op |-> op, caller |-> "alice", proofOk |-> TRUE, actions |-> MCActions,
              subaccounts |-> {0}, settlement |-> "o1", names |-> "", subaccount |-> 0,
              shortTerm |-> TRUE, wellFormed |-> TRUE]

Fee      == Write("execute_record_spend")
Order    == Write("execute_place_order")
Stateful == [Write("execute_cancel_order") EXCEPT !.shortTerm = FALSE]
Earnings == [Write("agent_claim") EXCEPT !.caller = "op"]
Signed   == [Write("broadcast_agent_chain_tx") EXCEPT !.caller = "op"]
NotMine  == Write("agent_claim")
OffOrder == [Fee EXCEPT !.names = "o2"]
OffSub   == [Write("execute_deposit_to_subaccount") EXCEPT !.subaccount = 7]

Ranked == <<Fee, Order, Stateful, Signed, OffOrder>>
MCRequests == {Ranked[i] : i \in 1 .. Len(Ranked)}
OwnOnly == {Fee, Order, Stateful, Earnings, NotMine, OffSub}

Rank(r) == CHOOSE i \in 1 .. Len(Ranked) : Ranked[i] = r

MCInit ==
    /\ Init
    /\ \A c, d \in Calls : c < d => Rank(req[c]) <= Rank(req[d])

MCFairSpec == MCInit /\ [][Next]_vars /\ Fairness
=============================================================================
