-------------------------- MODULE MCDelegatedRead ---------------------------
(* Three calls over three credentials of two users, a table with room for  *)
(* two tenants, and the calls that AuthorizeRead refuses.                  *)
EXTENDS DelegatedRead, TLC

Base == [proofOk |-> TRUE, grantsQuery |-> TRUE, delegable |-> TRUE, hasSubaccount |-> TRUE,
         id |-> "i1", principal |-> "alice", subaccounts |-> {0}, leafExp |-> 2,
         owner |-> "", sub |-> 0]

Longer    == [Base EXCEPT !.id = "i2", !.leafExp = 3, !.owner = "alice", !.subaccounts = {0, 7}, !.sub = 7]
Bob       == [Base EXCEPT !.id = "i3", !.principal = "bob", !.leafExp = 3]
Fills     == [Base EXCEPT !.hasSubaccount = FALSE, !.sub = 7]
Snooping  == [Base EXCEPT !.owner = "bob"]
OffSub    == [Base EXCEPT !.sub = 7]
NoQuery   == [Base EXCEPT !.grantsQuery = FALSE]
WriteTool == [Base EXCEPT !.delegable = FALSE]
BadProof  == [Base EXCEPT !.proofOk = FALSE]

MCRequests == {Base, Longer, Bob, Fills, Snooping, OffSub, NoQuery, WriteTool, BadProof}

CallSymmetry == Permutations(Calls)
=============================================================================
