--------------------------- MODULE MCIntermediary ---------------------------
(* A small instance of Intermediary: a user, this agent, the executor it   *)
(* may pass credentials on to, and a stranger; requests that take every    *)
(* exit of Forward.                                                        *)
EXTENDS Intermediary

MCDIDs == {"user", "me", "exec", "stranger"}
MCRawDIDs == MCDIDs \cup {" exec ", "  "}
MCTrimSpace ==
    [s \in MCRawDIDs |-> CASE s = " exec " -> "exec" [] s = "  " -> "" [] OTHER -> s]

\* What the user's tests mint: both actions, both subaccounts, an order.
Grant(targets, exp) ==
    [principal |-> "alice", actions |-> {"order", "spend"}, subaccounts |-> {0, 7},
     budget |-> 3, svcBudget |-> 2, settlement |-> "o1",
     redelegable |-> TRUE, redelegateTo |-> targets, maxDepth |-> 3,
     notBefore |-> 0, expires |-> exp]

Anyone == [constrained |-> FALSE, set |-> {}]
Tok(i, a, c) == [issuer |-> i, audience |-> a, caveats |-> c]
Coin(n) == [given |-> TRUE, valid |-> TRUE, amount |-> n]
NoCoin == [given |-> FALSE, valid |-> TRUE, amount |-> 0]
BadCoin == [given |-> TRUE, valid |-> FALSE, amount |-> 0]
Inherit == [actions |-> {}, subaccounts |-> {}, budget |-> NoCoin, svcBudget |-> NoCoin, ttl |-> 0]

Direct == <<Tok("user", "me", Grant(ConstrainedTo({"exec"}), 4))>>

Base == [proof |-> Direct, downstream |-> "exec", shape |-> "ok",
         fee |-> Coin(1), narrow |-> Inherit]

\* The exits of Forward, one request each.
Plain      == [Base EXCEPT !.narrow = [Inherit EXCEPT !.actions = {"order"}, !.budget = Coin(2), !.ttl = 1]]
Widening   == [Base EXCEPT !.narrow.budget = Coin(4)]
BadNarrow  == [Base EXCEPT !.narrow.svcBudget = BadCoin]
Stranger   == [Base EXCEPT !.downstream = "stranger"]
Padded     == [Base EXCEPT !.downstream = " exec ", !.fee = NoCoin,
                           !.proof = <<Tok("user", "me", Grant(Anyone, 4))>>]
Blank      == [Base EXCEPT !.downstream = "  "]
Incomplete == [Base EXCEPT !.shape = "incomplete"]
BadFee     == [Base EXCEPT !.fee = BadCoin]
Unbound    == [Base EXCEPT !.proof[1].caveats.settlement = ""]
ShortLived == [Base EXCEPT !.proof[1].caveats.expires = 1, !.narrow.ttl = 2]
\* A child for this agent under a grant that allowed it, ...
Second     == [Base EXCEPT !.fee = NoCoin, !.proof =
                  <<Tok("user", "stranger", Grant(ConstrainedTo({"me", "exec"}), 4)),
                    Tok("stranger", "me", Grant(ConstrainedTo({"exec"}), 3))>>]
\* ... one under a grant that did not, ...
OffTarget  == [Second EXCEPT !.proof[1].caveats.redelegateTo = ConstrainedTo({"exec"})]
\* ... and a chain that is as long as a chain may be.
AtCeiling  == [Second EXCEPT !.proof =
                  <<Tok("user", "exec", Grant(ConstrainedTo({"stranger", "me", "exec"}), 4)),
                    Tok("exec", "stranger", Grant(ConstrainedTo({"me", "exec"}), 4))>>
                  \o Tail(Second.proof)]
\* A grant for one agent only that its issuer called redelegable.
DepthSpent == [Base EXCEPT !.fee = NoCoin, !.proof[1].caveats.maxDepth = 1]

MCRequests == {Plain, Widening, BadNarrow, Stranger, Padded, Blank, Incomplete,
               BadFee, Unbound, ShortLived, Second, OffTarget, AtCeiling, DepthSpent}

MCEscrowCap == [s \in {"o1"} |-> 1]
=============================================================================
