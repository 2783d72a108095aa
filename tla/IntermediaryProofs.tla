------------------------- MODULE IntermediaryProofs -------------------------
(***************************************************************************)
(* Proofs about Credential and Intermediary: first what holds of every     *)
(* credential chain, whatever its length and whatever the chain's params   *)
(* are; then what the intermediary does with them, for any number of       *)
(* tasks, any requests, and a clock and a crash budget of any size.        *)
(*                                                                         *)
(* The properties are about messages already sent, the checks that make    *)
(* them true happened several steps earlier at an earlier instant.  The    *)
(* inductive invariant carries the missing history: a task that got past   *)
(* verification passed it at some instant not later than now, and a chain  *)
(* that was built is the inbound chain and a child Attenuate signed.       *)
(***************************************************************************)
EXTENDS Intermediary, TLAPS

-----------------------------------------------------------------------------
(* Credential chains.                                                      *)

(* Passing a grant on twice never widens it: the order in which svpdt      *)
(* compares caveats is transitive.                                         *)
LEMMA NarrowerTransitive ==
    ASSUME NEW a \in Caveats, NEW b \in Caveats, NEW c \in Caveats,
           Narrower(a, b), Narrower(b, c)
    PROVE  Narrower(a, c)
BY DEF Narrower, Caveats, OptionalStringSet

(* A narrower grant lives inside the life of the wider one, and in no      *)
(* longer a chain.                                                         *)
LEMMA NarrowerLife ==
    ASSUME NEW a \in Caveats, NEW b \in Caveats, Narrower(a, b)
    PROVE  /\ a.expires \in Nat /\ b.expires \in Nat /\ a.expires <= b.expires
           /\ a.notBefore \in Nat /\ b.notBefore \in Nat /\ b.notBefore <= a.notBefore
           /\ a.maxDepth \in Nat /\ b.maxDepth \in Nat /\ a.maxDepth <= b.maxDepth
BY DEF Narrower, Caveats

(* narrow of a well-formed grant is a well-formed grant that may not be    *)
(* passed on, to nobody, starts and ends inside its parent's life and      *)
(* inherits its max_depth.                                                 *)
LEMMA NarrowedCaveats ==
    ASSUME NEW p \in Caveats, NEW spec \in NarrowSpec, NEW at \in Nat
    PROVE  /\ narrow(p, spec, at) \in Caveats
           /\ narrow(p, spec, at).redelegable = FALSE
           /\ narrow(p, spec, at).redelegateTo = ConstrainedTo({})
           /\ narrow(p, spec, at).principal = p.principal
           /\ narrow(p, spec, at).settlement = p.settlement
           /\ narrow(p, spec, at).maxDepth = p.maxDepth
           /\ narrow(p, spec, at).notBefore = p.notBefore
           /\ narrow(p, spec, at).expires <= p.expires
<1> DEFINE A == IF spec.actions # {} THEN spec.actions ELSE p.actions
           S == IF spec.subaccounts # {} THEN spec.subaccounts ELSE p.subaccounts
           B == IF spec.budget.given THEN spec.budget.amount ELSE p.budget
           V == IF spec.svcBudget.given THEN spec.svcBudget.amount ELSE p.svcBudget
           X == IF spec.ttl > 0 /\ at + spec.ttl < p.expires
                THEN at + spec.ttl ELSE p.expires
           T == ConstrainedTo({})
<1>1. /\ A \in SUBSET Actions /\ S \in SUBSET Subaccounts
      /\ B \in Nat /\ V \in Nat /\ X \in Nat /\ X <= p.expires
  BY DEF Caveats, NarrowSpec, CoinArg
<1>2. T \in OptionalStringSet
  BY DEF OptionalStringSet, ConstrainedTo
<1>3. narrow(p, spec, at) =
        [p EXCEPT !.redelegable = FALSE, !.redelegateTo = T, !.actions = A,
                  !.subaccounts = S, !.budget = B, !.svcBudget = V, !.expires = X]
  BY DEF narrow
<1> HIDE DEF A, S, B, V, X, T
<1>4. narrow(p, spec, at) =
        [principal |-> p.principal, actions |-> A, subaccounts |-> S, budget |-> B,
         svcBudget |-> V, settlement |-> p.settlement, redelegable |-> FALSE,
         redelegateTo |-> T, maxDepth |-> p.maxDepth, notBefore |-> p.notBefore, expires |-> X]
  BY <1>3 DEF Caveats
<1>5. /\ p.principal \in Principals /\ p.notBefore \in Nat /\ p.maxDepth \in Nat
      /\ p.settlement \in Settlements \cup {NoSettlement}
  BY DEF Caveats
<1>6. narrow(p, spec, at) \in Caveats
  BY <1>1, <1>2, <1>4, <1>5 DEF Caveats
<1> QED
  BY <1>1, <1>4, <1>6 DEF T

(* One hop only (narrow and checkRedelegationTargets together): once some  *)
(* token but the last is constrained to nobody, no verifier accepts the    *)
(* chain, whoever built the rest of it and however long it is.             *)
THEOREM ThirdHopRefused ==
    ASSUME NEW chain \in Seq(Token), NEW n \in 1 .. (Len(chain) - 1),
           chain[n].caveats.redelegateTo = ConstrainedTo({}),
           NEW at \in Nat, NEW d \in DIDs
    PROVE  ~verifyProof(chain, at, d)
<1>1. n + 1 \in 2 .. Len(chain) /\ (n + 1) - 1 = n
  OBVIOUS
<1>2. ~Allows(chain[n].caveats.redelegateTo, chain[n + 1].audience)
  BY DEF Allows, ConstrainedTo
<1> QED
  BY <1>1, <1>2 DEF verifyProof, checkRedelegationTargets

(* The chain Forward sends verifies at the next hop.  If an agent's        *)
(* verifyProof accepted chain at some instant and child is a child of its  *)
(* leaf that Attenuate signs, then the agent child is addressed to accepts *)
(* the extended chain at any later instant in child's life, provided it is *)
(* no longer than the chain's params and the child's own max_depth allow.  *)
THEOREM MintedChainVerifies ==
    ASSUME NEW chain \in Seq(Token), NEW child \in Token, NEW self \in DIDs,
           NEW then \in Nat, NEW at \in Nat,
           verifyProof(chain, then, self),
           Attenuable(Leaf(chain), self, child.audience, child.caveats),
           child.issuer = self,
           then <= at, LiveAt(child.caveats, at),
           Len(chain) < MaxDelegationDepth,
           Len(chain) < child.caveats.maxDepth
    PROVE  verifyProof(Append(chain, child), at, child.audience)
<1> DEFINE ext == Append(chain, child)
           n == Len(chain)
<1>1. /\ n \in Nat \ {0}
      /\ Len(ext) = n + 1
      /\ ext[n + 1] = child
      /\ \A i \in 1 .. n : ext[i] = chain[i] /\ chain[i] \in Token
      /\ Leaf(chain) = chain[n] /\ Leaf(ext) = child
      /\ ext # << >>
  BY DEF verifyProof, Leaf
<1>2. /\ chain[n].audience = self
      /\ \A i \in 1 .. n :
           /\ LiveAt(chain[i].caveats, then)
           /\ chain[i].caveats.expires <= chain[i].caveats.notBefore + MaxTokenTtlSeconds
           /\ i > 1 => chain[i].issuer = chain[i-1].audience
           /\ \A j \in 1 .. i : Narrower(chain[i].caveats, chain[j].caveats)
  BY <1>1 DEF verifyProof, VerifyChain
<1>3. \A i \in 1 .. n + 1 : ext[i] \in Token /\ ext[i].caveats \in Caveats
  BY <1>1 DEF Token
<1>4. Narrower(child.caveats, chain[n].caveats) /\ Allows(chain[n].caveats.redelegateTo, child.audience)
  BY <1>1 DEF Attenuable
<1>5. \A j \in 1 .. n + 1 : Narrower(child.caveats, ext[j].caveats)
  <2> SUFFICES ASSUME NEW j \in 1 .. n + 1 PROVE Narrower(child.caveats, ext[j].caveats)
    OBVIOUS
  <2>1. CASE j = n + 1
    <3>1. child.caveats \in Caveats
      BY DEF Token
    <3> QED
      BY <1>1, <2>1, <3>1 DEF Narrower, Caveats
  <2>2. CASE j \in 1 .. n
    <3>1. Narrower(chain[n].caveats, chain[j].caveats)
      BY <1>1, <1>2, <2>2
    <3>2. /\ child.caveats \in Caveats
          /\ chain[n].caveats \in Caveats
          /\ chain[j].caveats \in Caveats
      BY <1>1, <2>2 DEF Token
    <3> QED
      BY <1>1, <1>4, <2>2, <3>1, <3>2, NarrowerTransitive
  <2> QED
    BY <2>1, <2>2, <1>1
<1>6. \A i \in 1 .. n + 1 : LiveAt(ext[i].caveats, at)
  <2> SUFFICES ASSUME NEW i \in 1 .. n + 1 PROVE LiveAt(ext[i].caveats, at)
    OBVIOUS
  <2>1. Narrower(child.caveats, ext[i].caveats) /\ ext[i].caveats \in Caveats
        /\ child.caveats \in Caveats
    BY <1>3, <1>5 DEF Token
  <2> QED
    BY <2>1, NarrowerLife DEF LiveAt
<1>7. child.caveats.expires <= child.caveats.notBefore + MaxTokenTtlSeconds
  <2>1. child.caveats \in Caveats /\ chain[n].caveats \in Caveats
    BY <1>1 DEF Token
  <2>2. chain[n].caveats.expires <= chain[n].caveats.notBefore + MaxTokenTtlSeconds
    BY <1>1, <1>2
  <2>3. /\ child.caveats.expires \in Nat /\ chain[n].caveats.expires \in Nat
        /\ child.caveats.expires <= chain[n].caveats.expires
        /\ child.caveats.notBefore \in Nat /\ chain[n].caveats.notBefore \in Nat
        /\ chain[n].caveats.notBefore <= child.caveats.notBefore
    BY <2>1, <1>4, NarrowerLife
  <2> DEFINE x == child.caveats.expires
             y == chain[n].caveats.expires
             u == child.caveats.notBefore
             v == chain[n].caveats.notBefore
  <2>4. /\ x \in Nat /\ y \in Nat /\ u \in Nat /\ v \in Nat /\ MaxTokenTtlSeconds \in Nat
        /\ x <= y /\ y <= v + MaxTokenTtlSeconds /\ v <= u
    BY <2>2, <2>3, CeilingAssumption
  <2> HIDE DEF x, y, u, v
  <2>5. x <= u + MaxTokenTtlSeconds
    BY <2>4
  <2> QED
    BY <2>5 DEF x, u
<1>8. \A i \in 1 .. n + 1 :
        /\ ext[i].caveats.expires <= ext[i].caveats.notBefore + MaxTokenTtlSeconds
        /\ i > 1 => ext[i].issuer = ext[i-1].audience
        /\ \A j \in 1 .. i : Narrower(ext[i].caveats, ext[j].caveats)
  <2> SUFFICES ASSUME NEW i \in 1 .. n + 1
               PROVE  /\ ext[i].caveats.expires <= ext[i].caveats.notBefore + MaxTokenTtlSeconds
                      /\ i > 1 => ext[i].issuer = ext[i-1].audience
                      /\ \A j \in 1 .. i : Narrower(ext[i].caveats, ext[j].caveats)
    OBVIOUS
  <2>1. CASE i = n + 1
    <3>1. i > 1 => ext[i].issuer = ext[i-1].audience
      BY <1>1, <1>2, <2>1
    <3> QED
      BY <1>1, <1>5, <1>7, <2>1, <3>1
  <2>2. CASE i \in 1 .. n
    <3>1. i > 1 => i - 1 \in 1 .. n
      BY <2>2, <1>1
    <3>2. \A j \in 1 .. i : j \in 1 .. n
      BY <2>2, <1>1
    <3> QED
      BY <1>1, <1>2, <2>2, <3>1, <3>2
  <2> QED
    BY <2>1, <2>2, <1>1
<1>9. \A i \in 1 .. n + 1 : n + 1 <= ext[i].caveats.maxDepth
  <2> SUFFICES ASSUME NEW i \in 1 .. n + 1 PROVE n + 1 <= ext[i].caveats.maxDepth
    OBVIOUS
  <2>1. /\ child.caveats.maxDepth \in Nat /\ ext[i].caveats.maxDepth \in Nat
        /\ child.caveats.maxDepth <= ext[i].caveats.maxDepth
    BY <1>3, <1>5, NarrowerLife DEF Token
  <2> QED
    BY <1>1, <2>1
<1>10. VerifyChain(ext, at, child.audience)
  BY <1>1, <1>6, <1>8, <1>9, CeilingAssumption DEF VerifyChain
<1>11. checkRedelegationTargets(ext)
  <2> SUFFICES ASSUME NEW i \in 2 .. n + 1
               PROVE  Allows(ext[i-1].caveats.redelegateTo, ext[i].audience)
    BY <1>1 DEF checkRedelegationTargets
  <2>1. CASE i = n + 1
    BY <1>1, <1>4, <2>1
  <2>2. CASE i \in 2 .. n
    <3>1. i \in 1 .. n /\ i - 1 \in 1 .. n
      BY <2>2, <1>1
    <3>2. Allows(chain[i-1].caveats.redelegateTo, chain[i].audience)
      BY <2>2 DEF verifyProof, checkRedelegationTargets
    <3> QED
      BY <1>1, <3>1, <3>2
  <2> QED
    BY <2>1, <2>2, <1>1
<1> QED
  BY <1>1, <1>10, <1>11 DEF verifyProof

-----------------------------------------------------------------------------
(* The intermediary's inductive invariant.                                 *)

(* Task t passed Forward's steps 1 and 2 at some instant up to now.        *)
Passed(t) ==
    /\ DownstreamDID(t) \in DIDs
    /\ \E v \in 0 .. now : Forwardable(req[t], v)

(* forwarded[t] is what Forward's steps 4 and 5 built at some instant.     *)
Built(t) ==
    /\ Passed(t)
    /\ \E m \in 0 .. now :
          Mintable(t, m) /\ forwarded[t] = Append(req[t].proof, Child(t, m))

VerifiedInv ==
    \A t \in Tasks : pc[t] \in {"verified", "charging", "minting"} => Passed(t)

MintedInv ==
    \A t \in Tasks : forwarded[t] # << >> => Built(t)

SentInv ==
    \A t \in Tasks :
        /\ pc[t] \in {"sending", "awaiting"} \/ t \in inbox => forwarded[t] # << >>
        /\ pc[t] \in {"idle", "working", "verified", "charging", "minting", "sending"}
              => t \notin inbox
        /\ pc[t] = "awaiting" => t \in inbox
        /\ verdict[t] # "none" => t \in inbox

FeeInv ==
    \A t \in Tasks :
        /\ pc[t] \in {"idle", "working", "verified", "charging"} => FeeTxs(t) = 0
        /\ FeeTxs(t) <= 1
        /\ (pc[t] \in {"minting", "sending", "awaiting"} \/ t \in inbox) /\ req[t].fee.given
              => FeeTxs(t) = 1

AnswerInv ==
    /\ AnswerIsTrue
    /\ \A t \in Tasks : reply[t] # "none" => pc[t] = "answered"

IInv ==
    /\ TypeOK
    /\ VerifiedInv
    /\ MintedInv
    /\ SentInv
    /\ FeeInv
    /\ AnswerInv
    /\ UsableDownstream

-----------------------------------------------------------------------------

(* A request that passed verification has a leaf to attenuate.             *)
LEMMA PassedFacts ==
    ASSUME TypeOK, NEW t \in Tasks, Passed(t)
    PROVE  /\ req[t].proof \in Seq(Token) /\ req[t].proof # << >>
           /\ LeafToken(t) \in Token /\ LeafToken(t).caveats \in Caveats
           /\ req[t].narrow \in NarrowSpec
           /\ DownstreamDID(t) \in DIDs
<1>1. req[t] \in Request
  BY RequestAssumption DEF TypeOK
<1>2. req[t].proof \in Seq(Token) /\ req[t].narrow \in NarrowSpec
  BY <1>1 DEF Request
<1>3. req[t].proof # << >>
  BY DEF Passed, Forwardable, verifyProof
<1>4. LeafToken(t) \in Token
  BY <1>2, <1>3 DEF LeafToken, Leaf
<1> QED
  BY <1>2, <1>3, <1>4 DEF Token, Passed

(* The child Forward mints is a token of this agent's, for the requested   *)
(* agent, constrained to nobody.                                           *)
LEMMA ChildFacts ==
    ASSUME TypeOK, NEW t \in Tasks, Passed(t), NEW m \in Nat
    PROVE  /\ Child(t, m) \in Token
           /\ Child(t, m).issuer = AgentID
           /\ Child(t, m).audience = DownstreamDID(t)
           /\ Child(t, m).caveats.redelegateTo = ConstrainedTo({})
           /\ Child(t, m).caveats.notBefore = LeafToken(t).caveats.notBefore
           /\ Child(t, m).caveats.maxDepth = LeafToken(t).caveats.maxDepth
<1> DEFINE c == narrow(LeafToken(t).caveats, req[t].narrow, m)
<1>1. /\ c \in Caveats
      /\ c.redelegateTo = ConstrainedTo({})
      /\ c.notBefore = LeafToken(t).caveats.notBefore
      /\ c.maxDepth = LeafToken(t).caveats.maxDepth
  BY PassedFacts, NarrowedCaveats
<1>2. Child(t, m) = [issuer |-> AgentID, audience |-> DownstreamDID(t), caveats |-> c]
  BY DEF Child, Attenuate
<1> HIDE DEF c
<1>3. DownstreamDID(t) \in DIDs
  BY PassedFacts
<1> QED
  BY <1>1, <1>2, <1>3, RequestAssumption DEF Token

(* What Built means for the sequence that was sent.                        *)
LEMMA BuiltFacts ==
    ASSUME TypeOK, NEW t \in Tasks, Built(t)
    PROVE  \E m \in 0 .. now :
              /\ Mintable(t, m)
              /\ forwarded[t] = Append(req[t].proof, Child(t, m))
              /\ Leaf(forwarded[t]) = Child(t, m)
              /\ Len(forwarded[t]) = Len(req[t].proof) + 1
<1>1. Passed(t)
  BY DEF Built
<1>2. PICK m \in 0 .. now : Mintable(t, m) /\ forwarded[t] = Append(req[t].proof, Child(t, m))
  BY DEF Built
<1>3. m \in Nat
  BY <1>2, RequestAssumption DEF TypeOK
<1>4. Child(t, m) \in Token /\ req[t].proof \in Seq(Token)
  BY <1>1, <1>3, ChildFacts, PassedFacts
<1>5. Len(forwarded[t]) = Len(req[t].proof) + 1 /\ Leaf(forwarded[t]) = Child(t, m)
  <2> HIDE DEF Child
  <2> QED
    BY <1>2, <1>4 DEF Leaf
<1> QED
  BY <1>2, <1>5

(* Passing verification and having been built are facts about the past:    *)
(* they stay true while the request stays and the clock moves on.          *)
LEMMA HistoryStable ==
    ASSUME TypeOK, NEW t \in Tasks, req' = req, now' \in Nat, now <= now'
    PROVE  /\ Passed(t) => Passed(t)'
           /\ Built(t) /\ forwarded'[t] = forwarded[t] => Built(t)'
<1>1. now \in Nat
  BY RequestAssumption DEF TypeOK
<1>2. \A v \in 0 .. now : v \in 0 .. now'
  BY <1>1
<1>3. Passed(t) => Passed(t)'
  BY <1>2 DEF Passed, DownstreamDID, Forwardable
<1>4. ASSUME Built(t), forwarded'[t] = forwarded[t] PROVE Built(t)'
  <2>1. PICK m \in 0 .. now : Mintable(t, m) /\ forwarded[t] = Append(req[t].proof, Child(t, m))
    BY <1>4 DEF Built
  <2>2. Mintable(t, m)' /\ Child(t, m)' = Child(t, m)
    BY <2>1 DEF Mintable, Child, LeafToken, DownstreamDID
  <2> QED
    BY <1>2, <1>3, <1>4, <2>1, <2>2 DEF Built
<1> QED
  BY <1>3, <1>4

(* The initial states satisfy the inductive invariant.                     *)
LEMMA InitIInv == Init => IInv
<1> SUFFICES ASSUME Init PROVE IInv
  OBVIOUS
<1>1. TypeOK
  BY RequestAssumption DEF Init, TypeOK, Pcs, Replies
<1>2. VerifiedInv /\ MintedInv /\ SentInv
  BY DEF Init, VerifiedInv, MintedInv, SentInv
<1>3. FeeInv
  BY DEF Init, FeeInv, FeeTxs
<1>4. AnswerInv /\ UsableDownstream
  BY DEF Init, AnswerInv, AnswerIsTrue, UsableDownstream, FeeTxs
<1> QED
  BY <1>1, <1>2, <1>3, <1>4 DEF IInv

(* No step leaves the types of the variables.                              *)
LEMMA TypeStep ==
    ASSUME IInv, [Next]_vars
    PROVE  TypeOK'
<1> USE DEF TypeOK
<1>0. TypeOK /\ VerifiedInv
  BY DEF IInv
<1>1. ASSUME NEW t \in Tasks, Execute(t) PROVE TypeOK'
  BY <1>0, <1>1 DEF Execute, Goto, Pcs, chainVars, netVars
<1>2. ASSUME NEW t \in Tasks, Abandon(t) PROVE TypeOK'
  BY <1>0, <1>2 DEF Abandon, Goto, Pcs, chainVars, netVars
<1>3. ASSUME NEW t \in Tasks, RejectRequest(t) PROVE TypeOK'
  BY <1>0, <1>3 DEF RejectRequest, Answer, Goto, Pcs, Replies, chainVars, netVars
<1>4. ASSUME NEW t \in Tasks, VerifyInbound(t) PROVE TypeOK'
  BY <1>0, <1>4 DEF VerifyInbound, Goto, Pcs, chainVars, netVars
<1>5. ASSUME NEW t \in Tasks, RefuseInbound(t) PROVE TypeOK'
  BY <1>0, <1>5 DEF RefuseInbound, Answer, Goto, Pcs, Replies, chainVars, netVars
<1>6. ASSUME NEW t \in Tasks, NoFee(t) PROVE TypeOK'
  BY <1>0, <1>6 DEF NoFee, Goto, Pcs, chainVars, netVars
<1>7. ASSUME NEW t \in Tasks, ExecuteRecordSpend(t) PROVE TypeOK'
  BY <1>0, <1>7 DEF ExecuteRecordSpend, Goto, Pcs, chainVars, netVars
<1>8. ASSUME NEW t \in Tasks, RefuseSpend(t) PROVE TypeOK'
  BY <1>0, <1>8 DEF RefuseSpend, Answer, Goto, Pcs, Replies, chainVars, netVars
<1>9. ASSUME NEW t \in Tasks, BroadcastAccepted(t) PROVE TypeOK'
  BY <1>0, <1>9 DEF BroadcastAccepted, Goto, Pcs, netVars
<1>10. ASSUME NEW t \in Tasks, BroadcastRejected(t) PROVE TypeOK'
  BY <1>0, <1>10 DEF BroadcastRejected, Goto, Pcs, netVars
<1>11. ASSUME NEW t \in Tasks, BroadcastError(t) PROVE TypeOK'
  BY <1>0, <1>11 DEF BroadcastError, Answer, Goto, Pcs, Replies, netVars
<1>12. ASSUME NEW t \in Tasks, Mint(t) PROVE TypeOK'
  <2>1. Passed(t)
    BY <1>0, <1>12 DEF Mint, VerifiedInv
  <2>2. now \in Nat
    BY <1>0, RequestAssumption
  <2>3. Child(t, now) \in Token /\ req[t].proof \in Seq(Token)
    BY <1>0, <2>1, <2>2, ChildFacts, PassedFacts
  <2>4. Append(req[t].proof, Child(t, now)) \in Seq(Token)
    BY <2>3
  <2> QED
    BY <1>0, <1>12, <2>4 DEF Mint, Goto, Pcs, chainVars, netVars
<1>13. ASSUME NEW t \in Tasks, MintError(t) PROVE TypeOK'
  BY <1>0, <1>13 DEF MintError, Answer, Goto, Pcs, Replies, chainVars, netVars
<1>14. ASSUME NEW t \in Tasks, Send(t) PROVE TypeOK'
  BY <1>0, <1>14 DEF Send, Goto, Pcs, chainVars
<1>15. ASSUME NEW t \in Tasks, SendError(t) PROVE TypeOK'
  BY <1>0, <1>15 DEF SendError, Answer, Goto, Pcs, Replies, chainVars, netVars
<1>16. ASSUME NEW t \in Tasks, SendReply(t) PROVE TypeOK'
  BY <1>0, <1>16 DEF SendReply, Answer, Goto, Pcs, Replies, chainVars, netVars
<1>17. ASSUME NEW t \in Tasks, DownstreamVerify(t) PROVE TypeOK'
  BY <1>0, <1>17 DEF DownstreamVerify, Pcs, chainVars
<1>18. ASSUME NEW t \in Tasks, BlockRunsFee(t) PROVE TypeOK'
  <2> DEFINE order == Effective(req[t].proof).settlement
             fee == req[t].fee.amount
  <2>1. fee \in Nat
    BY <1>0, RequestAssumption DEF Request, CoinArg
  <2>2. /\ mempool' \in [Tasks -> Nat]
        /\ landed' \in [Tasks -> Nat] /\ failed' \in [Tasks -> Nat]
    <3>1. /\ mempool \in [Tasks -> Nat]
          /\ landed \in [Tasks -> Nat] /\ failed \in [Tasks -> Nat]
      BY <1>0
    <3>2. /\ mempool[t] > 0 /\ mempool' = [mempool EXCEPT ![t] = mempool[t] - 1]
          /\ landed' = landed \/ landed' = [landed EXCEPT ![t] = landed[t] + 1]
          /\ failed' = failed \/ failed' = [failed EXCEPT ![t] = failed[t] + 1]
      BY <1>18 DEF BlockRunsFee
    <3> QED
      BY ONLY <3>1, <3>2, t \in Tasks
  <2>3. \/ escrow' = escrow
        \/ fee <= escrow[order] /\ escrow' = [escrow EXCEPT ![order] = escrow[order] - fee]
    BY <1>18 DEF BlockRunsFee
  <2>4. escrow \in [Settlements -> Nat]
    BY <1>0
  <2> HIDE DEF order, fee
  <2>5. escrow' \in [Settlements -> Nat]
    <3>1. CASE order \in Settlements
      <4>1. escrow[order] \in Nat
        BY <2>4, <3>1
      <4>2. fee <= escrow[order] => escrow[order] - fee \in Nat
        BY <2>1, <4>1
      <4> QED
        BY <2>3, <2>4, <4>2
    <3>2. CASE order \notin Settlements
      BY <2>3, <2>4, <3>2
    <3> QED
      BY <3>1, <3>2
  <2> QED
    BY <1>0, <1>18, <2>2, <2>5 DEF BlockRunsFee, netVars
<1>19. ASSUME Tick PROVE TypeOK'
  BY <1>0, <1>19, RequestAssumption DEF Tick, chainVars, netVars
<1>20. ASSUME Crash PROVE TypeOK'
  BY <1>0, <1>20, RequestAssumption DEF Crash, Pcs, chainVars, netVars
<1>21. ASSUME UNCHANGED vars PROVE TypeOK'
  BY <1>0, <1>21 DEF vars, chainVars, netVars
<1> QED
  BY <1>1, <1>2, <1>3, <1>4, <1>5, <1>6, <1>7, <1>8, <1>9, <1>10, <1>11, <1>12, <1>13, <1>14, <1>15, <1>16, <1>17, <1>18, <1>19, <1>20, <1>21 DEF Next, Task, Forward, Quiescent

(* Requests never change and the clock never runs backwards.               *)
LEMMA StepFrame ==
    ASSUME TypeOK, [Next]_vars
    PROVE  req' = req /\ now' \in Nat /\ now <= now'
<1> DEFINE Goal == req' = req /\ now' \in Nat /\ now <= now'
<1>0. now \in Nat
  BY RequestAssumption DEF TypeOK
<1>1. ASSUME NEW t \in Tasks, Execute(t) PROVE Goal
  BY <1>0, <1>1 DEF Execute, chainVars, netVars
<1>2. ASSUME NEW t \in Tasks, Abandon(t) PROVE Goal
  BY <1>0, <1>2 DEF Abandon, chainVars, netVars
<1>3. ASSUME NEW t \in Tasks, RejectRequest(t) PROVE Goal
  BY <1>0, <1>3 DEF RejectRequest, chainVars, netVars
<1>4. ASSUME NEW t \in Tasks, VerifyInbound(t) PROVE Goal
  BY <1>0, <1>4 DEF VerifyInbound, chainVars, netVars
<1>5. ASSUME NEW t \in Tasks, RefuseInbound(t) PROVE Goal
  BY <1>0, <1>5 DEF RefuseInbound, chainVars, netVars
<1>6. ASSUME NEW t \in Tasks, NoFee(t) PROVE Goal
  BY <1>0, <1>6 DEF NoFee, chainVars, netVars
<1>7. ASSUME NEW t \in Tasks, ExecuteRecordSpend(t) PROVE Goal
  BY <1>0, <1>7 DEF ExecuteRecordSpend, chainVars, netVars
<1>8. ASSUME NEW t \in Tasks, RefuseSpend(t) PROVE Goal
  BY <1>0, <1>8 DEF RefuseSpend, chainVars, netVars
<1>9. ASSUME NEW t \in Tasks, BroadcastAccepted(t) PROVE Goal
  BY <1>0, <1>9 DEF BroadcastAccepted, netVars
<1>10. ASSUME NEW t \in Tasks, BroadcastRejected(t) PROVE Goal
  BY <1>0, <1>10 DEF BroadcastRejected, netVars
<1>11. ASSUME NEW t \in Tasks, BroadcastError(t) PROVE Goal
  BY <1>0, <1>11 DEF BroadcastError, netVars
<1>12. ASSUME NEW t \in Tasks, Mint(t) PROVE Goal
  BY <1>0, <1>12 DEF Mint, chainVars, netVars
<1>13. ASSUME NEW t \in Tasks, MintError(t) PROVE Goal
  BY <1>0, <1>13 DEF MintError, chainVars, netVars
<1>14. ASSUME NEW t \in Tasks, Send(t) PROVE Goal
  BY <1>0, <1>14 DEF Send, chainVars
<1>15. ASSUME NEW t \in Tasks, SendError(t) PROVE Goal
  BY <1>0, <1>15 DEF SendError, chainVars, netVars
<1>16. ASSUME NEW t \in Tasks, SendReply(t) PROVE Goal
  BY <1>0, <1>16 DEF SendReply, chainVars, netVars
<1>17. ASSUME NEW t \in Tasks, DownstreamVerify(t) PROVE Goal
  BY <1>0, <1>17 DEF DownstreamVerify, chainVars
<1>18. ASSUME NEW t \in Tasks, BlockRunsFee(t) PROVE Goal
  BY <1>0, <1>18 DEF BlockRunsFee, netVars
<1>19. ASSUME Tick PROVE Goal
  BY <1>0, <1>19 DEF Tick, chainVars, netVars
<1>20. ASSUME Crash PROVE Goal
  BY <1>0, <1>20 DEF Crash, chainVars, netVars
<1>21. ASSUME UNCHANGED vars PROVE Goal
  BY <1>0, <1>21 DEF vars, chainVars, netVars
<1> QED
  BY <1>1, <1>2, <1>3, <1>4, <1>5, <1>6, <1>7, <1>8, <1>9, <1>10, <1>11, <1>12, <1>13, <1>14, <1>15, <1>16, <1>17, <1>18, <1>19, <1>20, <1>21 DEF Next, Task, Forward, Quiescent

(* A goroutine reaches the fee and mint steps only through VerifyInbound.  *)
LEMMA VerifiedStep ==
    ASSUME IInv, [Next]_vars, NEW u \in Tasks,
           pc'[u] \in {"verified", "charging", "minting"}
    PROVE  pc[u] \in {"verified", "charging", "minting"} \/ VerifyInbound(u)
<1> DEFINE Goal == pc[u] \in {"verified", "charging", "minting"} \/ VerifyInbound(u)
<1>0. pc \in [Tasks -> Pcs]
  BY DEF IInv, TypeOK
<1>1. ASSUME NEW t \in Tasks, Execute(t) PROVE Goal
  BY <1>0, <1>1 DEF Execute, Goto, Pcs
<1>2. ASSUME NEW t \in Tasks, Abandon(t) PROVE Goal
  BY <1>0, <1>2 DEF Abandon, Goto, Pcs
<1>3. ASSUME NEW t \in Tasks, RejectRequest(t) PROVE Goal
  BY <1>0, <1>3 DEF RejectRequest, Answer, Goto, Pcs
<1>4. ASSUME NEW t \in Tasks, VerifyInbound(t) PROVE Goal
  BY <1>0, <1>4 DEF VerifyInbound, Goto
<1>5. ASSUME NEW t \in Tasks, RefuseInbound(t) PROVE Goal
  BY <1>0, <1>5 DEF RefuseInbound, Answer, Goto, Pcs
<1>6. ASSUME NEW t \in Tasks, NoFee(t) PROVE Goal
  BY <1>0, <1>6 DEF NoFee, Goto, Pcs
<1>7. ASSUME NEW t \in Tasks, ExecuteRecordSpend(t) PROVE Goal
  BY <1>0, <1>7 DEF ExecuteRecordSpend, Goto, Pcs
<1>8. ASSUME NEW t \in Tasks, RefuseSpend(t) PROVE Goal
  BY <1>0, <1>8 DEF RefuseSpend, Answer, Goto, Pcs
<1>9. ASSUME NEW t \in Tasks, BroadcastAccepted(t) PROVE Goal
  BY <1>0, <1>9 DEF BroadcastAccepted, Goto, Pcs
<1>10. ASSUME NEW t \in Tasks, BroadcastRejected(t) PROVE Goal
  BY <1>0, <1>10 DEF BroadcastRejected, Goto, Pcs
<1>11. ASSUME NEW t \in Tasks, BroadcastError(t) PROVE Goal
  BY <1>0, <1>11 DEF BroadcastError, Answer, Goto, Pcs
<1>12. ASSUME NEW t \in Tasks, Mint(t) PROVE Goal
  BY <1>0, <1>12 DEF Mint, Goto, Pcs
<1>13. ASSUME NEW t \in Tasks, MintError(t) PROVE Goal
  BY <1>0, <1>13 DEF MintError, Answer, Goto, Pcs
<1>14. ASSUME NEW t \in Tasks, Send(t) PROVE Goal
  BY <1>0, <1>14 DEF Send, Goto, Pcs
<1>15. ASSUME NEW t \in Tasks, SendError(t) PROVE Goal
  BY <1>0, <1>15 DEF SendError, Answer, Goto, Pcs
<1>16. ASSUME NEW t \in Tasks, SendReply(t) PROVE Goal
  BY <1>0, <1>16 DEF SendReply, Answer, Goto, Pcs
<1>17. ASSUME NEW t \in Tasks, DownstreamVerify(t) PROVE Goal
  BY <1>0, <1>17 DEF DownstreamVerify, Pcs
<1>18. ASSUME NEW t \in Tasks, BlockRunsFee(t) PROVE Goal
  BY <1>0, <1>18 DEF BlockRunsFee, Pcs
<1>19. ASSUME Tick PROVE Goal
  BY <1>0, <1>19 DEF Tick, Pcs
<1>20. ASSUME Crash PROVE Goal
  BY <1>0, <1>20 DEF Crash, Pcs, Active
<1>21. ASSUME UNCHANGED vars PROVE Goal
  BY <1>0, <1>21 DEF vars
<1> QED
  BY <1>1, <1>2, <1>3, <1>4, <1>5, <1>6, <1>7, <1>8, <1>9, <1>10, <1>11, <1>12, <1>13, <1>14, <1>15, <1>16, <1>17, <1>18, <1>19, <1>20, <1>21 DEF Next, Task, Forward, Quiescent

(* Only Mint writes a forwarded chain, and only before anything is sent.   *)
LEMMA ForwardedStep ==
    ASSUME IInv, [Next]_vars, NEW u \in Tasks
    PROVE  forwarded'[u] = forwarded[u] \/ Mint(u)
<1> DEFINE Goal == forwarded'[u] = forwarded[u] \/ Mint(u)
<1>0. forwarded \in [Tasks -> Seq(Token)]
  BY DEF IInv, TypeOK
<1>1. ASSUME NEW t \in Tasks, Execute(t) PROVE Goal
  BY <1>0, <1>1 DEF Execute, chainVars, netVars
<1>2. ASSUME NEW t \in Tasks, Abandon(t) PROVE Goal
  BY <1>0, <1>2 DEF Abandon, chainVars, netVars
<1>3. ASSUME NEW t \in Tasks, RejectRequest(t) PROVE Goal
  BY <1>0, <1>3 DEF RejectRequest, chainVars, netVars
<1>4. ASSUME NEW t \in Tasks, VerifyInbound(t) PROVE Goal
  BY <1>0, <1>4 DEF VerifyInbound, chainVars, netVars
<1>5. ASSUME NEW t \in Tasks, RefuseInbound(t) PROVE Goal
  BY <1>0, <1>5 DEF RefuseInbound, chainVars, netVars
<1>6. ASSUME NEW t \in Tasks, NoFee(t) PROVE Goal
  BY <1>0, <1>6 DEF NoFee, chainVars, netVars
<1>7. ASSUME NEW t \in Tasks, ExecuteRecordSpend(t) PROVE Goal
  BY <1>0, <1>7 DEF ExecuteRecordSpend, chainVars, netVars
<1>8. ASSUME NEW t \in Tasks, RefuseSpend(t) PROVE Goal
  BY <1>0, <1>8 DEF RefuseSpend, chainVars, netVars
<1>9. ASSUME NEW t \in Tasks, BroadcastAccepted(t) PROVE Goal
  BY <1>0, <1>9 DEF BroadcastAccepted, netVars
<1>10. ASSUME NEW t \in Tasks, BroadcastRejected(t) PROVE Goal
  BY <1>0, <1>10 DEF BroadcastRejected, netVars
<1>11. ASSUME NEW t \in Tasks, BroadcastError(t) PROVE Goal
  BY <1>0, <1>11 DEF BroadcastError, netVars
<1>12. ASSUME NEW t \in Tasks, Mint(t) PROVE Goal
  BY <1>0, <1>12 DEF Mint
<1>13. ASSUME NEW t \in Tasks, MintError(t) PROVE Goal
  BY <1>0, <1>13 DEF MintError, chainVars, netVars
<1>14. ASSUME NEW t \in Tasks, Send(t) PROVE Goal
  BY <1>0, <1>14 DEF Send, chainVars
<1>15. ASSUME NEW t \in Tasks, SendError(t) PROVE Goal
  BY <1>0, <1>15 DEF SendError, chainVars, netVars
<1>16. ASSUME NEW t \in Tasks, SendReply(t) PROVE Goal
  BY <1>0, <1>16 DEF SendReply, chainVars, netVars
<1>17. ASSUME NEW t \in Tasks, DownstreamVerify(t) PROVE Goal
  BY <1>0, <1>17 DEF DownstreamVerify, chainVars
<1>18. ASSUME NEW t \in Tasks, BlockRunsFee(t) PROVE Goal
  BY <1>0, <1>18 DEF BlockRunsFee, netVars
<1>19. ASSUME Tick PROVE Goal
  BY <1>0, <1>19 DEF Tick, chainVars, netVars
<1>20. ASSUME Crash PROVE Goal
  BY <1>0, <1>20 DEF Crash, chainVars, netVars
<1>21. ASSUME UNCHANGED vars PROVE Goal
  BY <1>0, <1>21 DEF vars, chainVars, netVars
<1> QED
  BY <1>1, <1>2, <1>3, <1>4, <1>5, <1>6, <1>7, <1>8, <1>9, <1>10, <1>11, <1>12, <1>13, <1>14, <1>15, <1>16, <1>17, <1>18, <1>19, <1>20, <1>21 DEF Next, Task, Forward, Quiescent

(* Verification passed once stays on record.                               *)
LEMMA VerifiedInvStep ==
    ASSUME IInv, [Next]_vars
    PROVE  VerifiedInv'
<1>1. TypeOK /\ VerifiedInv /\ req' = req /\ now' \in Nat /\ now <= now'
  BY StepFrame DEF IInv
<1> SUFFICES ASSUME NEW u \in Tasks, pc'[u] \in {"verified", "charging", "minting"}
             PROVE  Passed(u)'
  BY DEF VerifiedInv
<1>2. CASE pc[u] \in {"verified", "charging", "minting"}
  BY <1>1, <1>2, HistoryStable DEF VerifiedInv
<1>3. CASE VerifyInbound(u)
  <2>1. DownstreamDID(u) \in DIDs
    <3>1. req[u].downstream \in RawDIDs
      BY <1>1, RequestAssumption DEF TypeOK, Request
    <3> QED
      BY <1>3, <3>1, DIDAssumption DEF VerifyInbound, DownstreamDID
  <2>2. now \in 0 .. now /\ Forwardable(req[u], now)
    BY <1>1, <1>3, RequestAssumption DEF VerifyInbound, TypeOK
  <2>3. Passed(u)
    BY <2>1, <2>2 DEF Passed
  <2> QED
    BY <1>1, <2>3, HistoryStable
<1> QED
  BY <1>2, <1>3, VerifiedStep

(* What was built stays what was built.                                    *)
LEMMA MintedInvStep ==
    ASSUME IInv, [Next]_vars
    PROVE  MintedInv'
<1>1. /\ TypeOK /\ VerifiedInv /\ MintedInv
      /\ req' = req /\ now' \in Nat /\ now <= now'
  BY StepFrame DEF IInv
<1> SUFFICES ASSUME NEW u \in Tasks, forwarded'[u] # << >>
             PROVE  Built(u)'
  BY DEF MintedInv
<1>2. CASE forwarded'[u] = forwarded[u]
  BY <1>1, <1>2, HistoryStable DEF MintedInv
<1>3. CASE Mint(u)
  <2>1. Passed(u)
    BY <1>1, <1>3 DEF Mint, VerifiedInv
  <2>2. Passed(u)'
    BY <1>1, <2>1, HistoryStable
  <2>3. now \in 0 .. now'
    BY <1>1, RequestAssumption DEF TypeOK
  <2>4. Mintable(u, now) /\ forwarded'[u] = Append(req[u].proof, Child(u, now))
    BY <1>1, <1>3 DEF Mint, TypeOK
  <2>5. \A m : (Mintable(u, m) => Mintable(u, m)') /\ Child(u, m)' = Child(u, m)
    BY <1>1 DEF Mintable, Child, LeafToken, DownstreamDID
  <2> QED
    BY <1>1, <2>2, <2>3, <2>4, <2>5 DEF Built
<1> QED
  BY <1>2, <1>3, ForwardedStep

(* A message is sent once its chain is built, and judged once it is sent.  *)
LEMMA SentInvStep ==
    ASSUME IInv, [Next]_vars
    PROVE  SentInv'
<1>0. TypeOK /\ VerifiedInv /\ SentInv /\ TypeOK'
  BY TypeStep DEF IInv
<1>1. ASSUME NEW t \in Tasks, Execute(t) PROVE SentInv'
  BY <1>0, <1>1 DEF Execute, TypeOK, SentInv, Goto, Pcs, chainVars, netVars
<1>2. ASSUME NEW t \in Tasks, Abandon(t) PROVE SentInv'
  BY <1>0, <1>2 DEF Abandon, TypeOK, SentInv, Goto, Pcs, chainVars, netVars
<1>3. ASSUME NEW t \in Tasks, RejectRequest(t) PROVE SentInv'
  BY <1>0, <1>3 DEF RejectRequest, TypeOK, SentInv, Answer, Goto, Pcs, chainVars, netVars
<1>4. ASSUME NEW t \in Tasks, VerifyInbound(t) PROVE SentInv'
  BY <1>0, <1>4 DEF VerifyInbound, TypeOK, SentInv, Goto, Pcs, chainVars, netVars
<1>5. ASSUME NEW t \in Tasks, RefuseInbound(t) PROVE SentInv'
  BY <1>0, <1>5 DEF RefuseInbound, TypeOK, SentInv, Answer, Goto, Pcs, chainVars, netVars
<1>6. ASSUME NEW t \in Tasks, NoFee(t) PROVE SentInv'
  BY <1>0, <1>6 DEF NoFee, TypeOK, SentInv, Goto, Pcs, chainVars, netVars
<1>7. ASSUME NEW t \in Tasks, ExecuteRecordSpend(t) PROVE SentInv'
  BY <1>0, <1>7 DEF ExecuteRecordSpend, TypeOK, SentInv, Goto, Pcs, chainVars, netVars
<1>8. ASSUME NEW t \in Tasks, RefuseSpend(t) PROVE SentInv'
  BY <1>0, <1>8 DEF RefuseSpend, TypeOK, SentInv, Answer, Goto, Pcs, chainVars, netVars
<1>9. ASSUME NEW t \in Tasks, BroadcastAccepted(t) PROVE SentInv'
  BY <1>0, <1>9 DEF BroadcastAccepted, TypeOK, SentInv, Goto, Pcs, netVars
<1>10. ASSUME NEW t \in Tasks, BroadcastRejected(t) PROVE SentInv'
  BY <1>0, <1>10 DEF BroadcastRejected, TypeOK, SentInv, Goto, Pcs, netVars
<1>11. ASSUME NEW t \in Tasks, BroadcastError(t) PROVE SentInv'
  BY <1>0, <1>11 DEF BroadcastError, TypeOK, SentInv, Answer, Goto, Pcs, netVars
<1>12. ASSUME NEW t \in Tasks, Mint(t) PROVE SentInv'
  <2>1. forwarded'[t] # << >>
    <3>1. Passed(t)
      BY <1>0, <1>12 DEF Mint, VerifiedInv
    <3>2. req[t].proof \in Seq(Token)
      BY <1>0, <3>1, PassedFacts
    <3>3. Child(t, now) \in Token
      <4>1. now \in Nat
        BY <1>0, RequestAssumption DEF TypeOK
      <4> QED
        BY <1>0, <3>1, <4>1, ChildFacts
    <3> QED
      BY <1>0, <1>12, <3>2, <3>3 DEF Mint, TypeOK
  <2> QED
    BY <1>0, <1>12, <2>1 DEF Mint, TypeOK, SentInv, Goto, chainVars, netVars
<1>13. ASSUME NEW t \in Tasks, MintError(t) PROVE SentInv'
  BY <1>0, <1>13 DEF MintError, TypeOK, SentInv, Answer, Goto, Pcs, chainVars, netVars
<1>14. ASSUME NEW t \in Tasks, Send(t) PROVE SentInv'
  BY <1>0, <1>14 DEF Send, TypeOK, SentInv, Goto, Pcs, chainVars
<1>15. ASSUME NEW t \in Tasks, SendError(t) PROVE SentInv'
  BY <1>0, <1>15 DEF SendError, TypeOK, SentInv, Answer, Goto, Pcs, chainVars, netVars
<1>16. ASSUME NEW t \in Tasks, SendReply(t) PROVE SentInv'
  BY <1>0, <1>16 DEF SendReply, TypeOK, SentInv, Answer, Goto, Pcs, chainVars, netVars
<1>17. ASSUME NEW t \in Tasks, DownstreamVerify(t) PROVE SentInv'
  BY <1>0, <1>17 DEF DownstreamVerify, TypeOK, SentInv, Pcs, chainVars
<1>18. ASSUME NEW t \in Tasks, BlockRunsFee(t) PROVE SentInv'
  BY <1>0, <1>18 DEF BlockRunsFee, TypeOK, SentInv, Pcs, netVars
<1>19. ASSUME Tick PROVE SentInv'
  BY <1>0, <1>19 DEF Tick, TypeOK, SentInv, Pcs, chainVars, netVars
<1>20. ASSUME Crash PROVE SentInv'
  BY <1>0, <1>20 DEF Crash, TypeOK, SentInv, Pcs, Active, chainVars, netVars
<1>21. ASSUME UNCHANGED vars PROVE SentInv'
  BY <1>0, <1>21 DEF vars, TypeOK, SentInv, chainVars, netVars
<1> QED
  BY <1>1, <1>2, <1>3, <1>4, <1>5, <1>6, <1>7, <1>8, <1>9, <1>10, <1>11, <1>12, <1>13, <1>14, <1>15, <1>16, <1>17, <1>18, <1>19, <1>20, <1>21 DEF Next, Task, Forward, Quiescent

(* The number of fee transactions of a task follows its goroutine.         *)
LEMMA FeeInvStep ==
    ASSUME IInv, [Next]_vars
    PROVE  FeeInv'
<1>0. TypeOK /\ SentInv /\ FeeInv
  BY DEF IInv
<1>1. ASSUME NEW t \in Tasks, Execute(t) PROVE FeeInv'
  BY <1>0, <1>1 DEF Execute, TypeOK, SentInv, FeeInv, FeeTxs, Goto, Pcs, chainVars, netVars
<1>2. ASSUME NEW t \in Tasks, Abandon(t) PROVE FeeInv'
  BY <1>0, <1>2 DEF Abandon, TypeOK, SentInv, FeeInv, FeeTxs, Goto, Pcs, chainVars, netVars
<1>3. ASSUME NEW t \in Tasks, RejectRequest(t) PROVE FeeInv'
  BY <1>0, <1>3 DEF RejectRequest, TypeOK, SentInv, FeeInv, FeeTxs, Answer, Goto, Pcs, chainVars, netVars
<1>4. ASSUME NEW t \in Tasks, VerifyInbound(t) PROVE FeeInv'
  BY <1>0, <1>4 DEF VerifyInbound, TypeOK, SentInv, FeeInv, FeeTxs, Goto, Pcs, chainVars, netVars
<1>5. ASSUME NEW t \in Tasks, RefuseInbound(t) PROVE FeeInv'
  BY <1>0, <1>5 DEF RefuseInbound, TypeOK, SentInv, FeeInv, FeeTxs, Answer, Goto, Pcs, chainVars, netVars
<1>6. ASSUME NEW t \in Tasks, NoFee(t) PROVE FeeInv'
  BY <1>0, <1>6 DEF NoFee, TypeOK, SentInv, FeeInv, FeeTxs, Goto, Pcs, chainVars, netVars
<1>7. ASSUME NEW t \in Tasks, ExecuteRecordSpend(t) PROVE FeeInv'
  BY <1>0, <1>7 DEF ExecuteRecordSpend, TypeOK, SentInv, FeeInv, FeeTxs, Goto, Pcs, chainVars, netVars
<1>8. ASSUME NEW t \in Tasks, RefuseSpend(t) PROVE FeeInv'
  BY <1>0, <1>8 DEF RefuseSpend, TypeOK, SentInv, FeeInv, FeeTxs, Answer, Goto, Pcs, chainVars, netVars
<1>9. ASSUME NEW t \in Tasks, BroadcastAccepted(t) PROVE FeeInv'
  <2>1. /\ pc[t] = "charging" /\ pc' = [pc EXCEPT ![t] = "minting"]
        /\ mempool' = [mempool EXCEPT ![t] = mempool[t] + 1]
        /\ UNCHANGED <<landed, failed, rejected, inbox, req>>
    BY <1>9 DEF BroadcastAccepted, Goto, netVars
  <2>2. \A u \in Tasks : FeeTxs(u)' = (IF u = t THEN FeeTxs(u) + 1 ELSE FeeTxs(u))
    <3> SUFFICES ASSUME NEW u \in Tasks PROVE FeeTxs(u)' = (IF u = t THEN FeeTxs(u) + 1 ELSE FeeTxs(u))
      OBVIOUS
    <3>1. /\ mempool \in [Tasks -> Nat] /\ landed \in [Tasks -> Nat]
          /\ failed \in [Tasks -> Nat] /\ rejected \in [Tasks -> Nat]
      BY <1>0 DEF TypeOK
    <3>2. CASE u = t
      BY <2>1, <3>1, <3>2 DEF FeeTxs
    <3>3. CASE u # t
      BY <2>1, <3>1, <3>3 DEF FeeTxs
    <3> QED
      BY <3>2, <3>3
  <2>3. \A u \in Tasks : FeeTxs(u) \in Nat
    BY <1>0 DEF TypeOK, FeeTxs
  <2>4. pc \in [Tasks -> Pcs]
    BY <1>0 DEF TypeOK
  <2> QED
    BY <1>0, <2>1, <2>2, <2>3, <2>4 DEF SentInv, FeeInv
<1>10. ASSUME NEW t \in Tasks, BroadcastRejected(t) PROVE FeeInv'
  <2>1. /\ pc[t] = "charging" /\ pc' = [pc EXCEPT ![t] = "minting"]
        /\ rejected' = [rejected EXCEPT ![t] = rejected[t] + 1]
        /\ UNCHANGED <<mempool, landed, failed, inbox, req>>
    BY <1>10 DEF BroadcastRejected, Goto, netVars
  <2>2. \A u \in Tasks : FeeTxs(u)' = (IF u = t THEN FeeTxs(u) + 1 ELSE FeeTxs(u))
    <3> SUFFICES ASSUME NEW u \in Tasks PROVE FeeTxs(u)' = (IF u = t THEN FeeTxs(u) + 1 ELSE FeeTxs(u))
      OBVIOUS
    <3>1. /\ mempool \in [Tasks -> Nat] /\ landed \in [Tasks -> Nat]
          /\ failed \in [Tasks -> Nat] /\ rejected \in [Tasks -> Nat]
      BY <1>0 DEF TypeOK
    <3>2. CASE u = t
      BY <2>1, <3>1, <3>2 DEF FeeTxs
    <3>3. CASE u # t
      BY <2>1, <3>1, <3>3 DEF FeeTxs
    <3> QED
      BY <3>2, <3>3
  <2>3. \A u \in Tasks : FeeTxs(u) \in Nat
    BY <1>0 DEF TypeOK, FeeTxs
  <2>4. pc \in [Tasks -> Pcs]
    BY <1>0 DEF TypeOK
  <2> QED
    BY <1>0, <2>1, <2>2, <2>3, <2>4 DEF SentInv, FeeInv
<1>11. ASSUME NEW t \in Tasks, BroadcastError(t) PROVE FeeInv'
  <2>1. /\ pc[t] = "charging" /\ UNCHANGED <<landed, failed, rejected, inbox, req>>
        /\ pc'[t] = "answered" /\ \A u \in Tasks : u # t => pc'[u] = pc[u]
        /\ \A u \in Tasks : u # t => mempool'[u] = mempool[u]
        /\ mempool'[t] = mempool[t] + 1 \/ mempool'[t] = mempool[t]
    BY <1>0, <1>11 DEF BroadcastError, TypeOK, Answer, Goto, netVars
  <2>2. /\ \A u \in Tasks : u # t => FeeTxs(u)' = FeeTxs(u)
        /\ FeeTxs(t)' = FeeTxs(t) \/ FeeTxs(t)' = FeeTxs(t) + 1
    <3>1. mempool[t] \in Nat /\ landed[t] \in Nat /\ failed[t] \in Nat /\ rejected[t] \in Nat
      BY <1>0 DEF TypeOK
    <3>2. \A u \in Tasks : u # t => FeeTxs(u)' = FeeTxs(u)
      BY <2>1 DEF FeeTxs
    <3>3. CASE mempool'[t] = mempool[t]
      BY <2>1, <3>2, <3>3 DEF FeeTxs
    <3>4. CASE mempool'[t] = mempool[t] + 1
      <4>1. FeeTxs(t)' = FeeTxs(t) + 1
        BY <2>1, <3>1, <3>4 DEF FeeTxs
      <4> QED
        BY <3>2, <4>1
    <3> QED
      BY <2>1, <3>3, <3>4
  <2>3. FeeTxs(t) = 0 /\ t \notin inbox
    BY <1>0, <2>1 DEF FeeInv, SentInv
  <2>4. FeeTxs(t)' = 0 \/ FeeTxs(t)' = 1
    BY <2>2, <2>3
  <2>5. ASSUME NEW u \in Tasks, u # t
        PROVE  /\ pc'[u] \in {"idle", "working", "verified", "charging"} => FeeTxs(u)' = 0
               /\ FeeTxs(u)' <= 1
               /\ (pc'[u] \in {"minting", "sending", "awaiting"} \/ u \in inbox') /\ req'[u].fee.given
                     => FeeTxs(u)' = 1
    BY <1>0, <2>1, <2>2, <2>5 DEF FeeInv
  <2> QED
    BY <2>1, <2>3, <2>4, <2>5 DEF FeeInv
<1>12. ASSUME NEW t \in Tasks, Mint(t) PROVE FeeInv'
  BY <1>0, <1>12 DEF Mint, TypeOK, SentInv, FeeInv, FeeTxs, Goto, Pcs, chainVars, netVars
<1>13. ASSUME NEW t \in Tasks, MintError(t) PROVE FeeInv'
  BY <1>0, <1>13 DEF MintError, TypeOK, SentInv, FeeInv, FeeTxs, Answer, Goto, Pcs, chainVars, netVars
<1>14. ASSUME NEW t \in Tasks, Send(t) PROVE FeeInv'
  BY <1>0, <1>14 DEF Send, TypeOK, SentInv, FeeInv, FeeTxs, Goto, Pcs, chainVars
<1>15. ASSUME NEW t \in Tasks, SendError(t) PROVE FeeInv'
  BY <1>0, <1>15 DEF SendError, TypeOK, SentInv, FeeInv, FeeTxs, Answer, Goto, Pcs, chainVars, netVars
<1>16. ASSUME NEW t \in Tasks, SendReply(t) PROVE FeeInv'
  BY <1>0, <1>16 DEF SendReply, TypeOK, SentInv, FeeInv, FeeTxs, Answer, Goto, Pcs, chainVars, netVars
<1>17. ASSUME NEW t \in Tasks, DownstreamVerify(t) PROVE FeeInv'
  BY <1>0, <1>17 DEF DownstreamVerify, TypeOK, SentInv, FeeInv, FeeTxs, Pcs, chainVars
<1>18. ASSUME NEW t \in Tasks, BlockRunsFee(t) PROVE FeeInv'
  <2>1. /\ mempool[t] > 0 /\ mempool' = [mempool EXCEPT ![t] = mempool[t] - 1]
        /\ \/ landed' = [landed EXCEPT ![t] = landed[t] + 1] /\ failed' = failed
           \/ failed' = [failed EXCEPT ![t] = failed[t] + 1] /\ landed' = landed
        /\ UNCHANGED <<rejected, pc, req, inbox>>
    BY <1>18 DEF BlockRunsFee, netVars
  <2>2. \A u \in Tasks : FeeTxs(u)' = FeeTxs(u)
    <3> SUFFICES ASSUME NEW u \in Tasks PROVE FeeTxs(u)' = FeeTxs(u)
      OBVIOUS
    <3>1. /\ mempool \in [Tasks -> Nat] /\ landed \in [Tasks -> Nat]
          /\ failed \in [Tasks -> Nat] /\ rejected \in [Tasks -> Nat]
      BY <1>0 DEF TypeOK
    <3>2. CASE u = t
      BY <2>1, <3>1, <3>2 DEF FeeTxs
    <3>3. CASE u # t
      BY <2>1, <3>1, <3>3 DEF FeeTxs
    <3> QED
      BY <3>2, <3>3
  <2> QED
    BY <1>0, <2>1, <2>2 DEF FeeInv
<1>19. ASSUME Tick PROVE FeeInv'
  BY <1>0, <1>19 DEF Tick, TypeOK, SentInv, FeeInv, FeeTxs, Pcs, chainVars, netVars
<1>20. ASSUME Crash PROVE FeeInv'
  BY <1>0, <1>20 DEF Crash, TypeOK, SentInv, FeeInv, FeeTxs, Pcs, Active, chainVars, netVars
<1>21. ASSUME UNCHANGED vars PROVE FeeInv'
  BY <1>0, <1>21 DEF vars, TypeOK, SentInv, FeeInv, FeeTxs, chainVars, netVars
<1> QED
  BY <1>1, <1>2, <1>3, <1>4, <1>5, <1>6, <1>7, <1>8, <1>9, <1>10, <1>11, <1>12, <1>13, <1>14, <1>15, <1>16, <1>17, <1>18, <1>19, <1>20, <1>21 DEF Next, Task, Forward, Quiescent

(* The answer given stays true of what happened.                           *)
LEMMA AnswerInvStep ==
    ASSUME IInv, [Next]_vars
    PROVE  AnswerInv'
<1>0. TypeOK /\ SentInv /\ FeeInv /\ AnswerInv
  BY DEF IInv
<1>1. ASSUME NEW t \in Tasks, Execute(t) PROVE AnswerInv'
  BY <1>0, <1>1 DEF Execute, TypeOK, SentInv, FeeInv, AnswerInv, AnswerIsTrue, FeeTxs, Goto, Pcs, chainVars, netVars
<1>2. ASSUME NEW t \in Tasks, Abandon(t) PROVE AnswerInv'
  BY <1>0, <1>2 DEF Abandon, TypeOK, SentInv, FeeInv, AnswerInv, AnswerIsTrue, FeeTxs, Goto, Pcs, chainVars, netVars
<1>3. ASSUME NEW t \in Tasks, RejectRequest(t) PROVE AnswerInv'
  BY <1>0, <1>3 DEF RejectRequest, TypeOK, SentInv, FeeInv, AnswerInv, AnswerIsTrue, FeeTxs, Answer, Goto, Pcs, Replies, chainVars, netVars
<1>4. ASSUME NEW t \in Tasks, VerifyInbound(t) PROVE AnswerInv'
  BY <1>0, <1>4 DEF VerifyInbound, TypeOK, SentInv, FeeInv, AnswerInv, AnswerIsTrue, FeeTxs, Goto, Pcs, chainVars, netVars
<1>5. ASSUME NEW t \in Tasks, RefuseInbound(t) PROVE AnswerInv'
  BY <1>0, <1>5 DEF RefuseInbound, TypeOK, SentInv, FeeInv, AnswerInv, AnswerIsTrue, FeeTxs, Answer, Goto, Pcs, Replies, chainVars, netVars
<1>6. ASSUME NEW t \in Tasks, NoFee(t) PROVE AnswerInv'
  BY <1>0, <1>6 DEF NoFee, TypeOK, SentInv, FeeInv, AnswerInv, AnswerIsTrue, FeeTxs, Goto, Pcs, chainVars, netVars
<1>7. ASSUME NEW t \in Tasks, ExecuteRecordSpend(t) PROVE AnswerInv'
  BY <1>0, <1>7 DEF ExecuteRecordSpend, TypeOK, SentInv, FeeInv, AnswerInv, AnswerIsTrue, FeeTxs, Goto, Pcs, chainVars, netVars
<1>8. ASSUME NEW t \in Tasks, RefuseSpend(t) PROVE AnswerInv'
  BY <1>0, <1>8 DEF RefuseSpend, TypeOK, SentInv, FeeInv, AnswerInv, AnswerIsTrue, FeeTxs, Answer, Goto, Pcs, Replies, chainVars, netVars
<1>9. ASSUME NEW t \in Tasks, BroadcastAccepted(t) PROVE AnswerInv'
  BY <1>0, <1>9 DEF BroadcastAccepted, TypeOK, SentInv, FeeInv, AnswerInv, AnswerIsTrue, FeeTxs, Goto, Pcs, netVars
<1>10. ASSUME NEW t \in Tasks, BroadcastRejected(t) PROVE AnswerInv'
  BY <1>0, <1>10 DEF BroadcastRejected, TypeOK, SentInv, FeeInv, AnswerInv, AnswerIsTrue, FeeTxs, Goto, Pcs, netVars
<1>11. ASSUME NEW t \in Tasks, BroadcastError(t) PROVE AnswerInv'
  BY <1>0, <1>11 DEF BroadcastError, TypeOK, SentInv, FeeInv, AnswerInv, AnswerIsTrue, FeeTxs, Answer, Goto, Pcs, Replies, netVars
<1>12. ASSUME NEW t \in Tasks, Mint(t) PROVE AnswerInv'
  BY <1>0, <1>12 DEF Mint, TypeOK, SentInv, FeeInv, AnswerInv, AnswerIsTrue, FeeTxs, Goto, Pcs, chainVars, netVars
<1>13. ASSUME NEW t \in Tasks, MintError(t) PROVE AnswerInv'
  BY <1>0, <1>13 DEF MintError, TypeOK, SentInv, FeeInv, AnswerInv, AnswerIsTrue, FeeTxs, Answer, Goto, Pcs, Replies, chainVars, netVars
<1>14. ASSUME NEW t \in Tasks, Send(t) PROVE AnswerInv'
  BY <1>0, <1>14 DEF Send, TypeOK, SentInv, FeeInv, AnswerInv, AnswerIsTrue, FeeTxs, Goto, Pcs, chainVars
<1>15. ASSUME NEW t \in Tasks, SendError(t) PROVE AnswerInv'
  BY <1>0, <1>15 DEF SendError, TypeOK, SentInv, FeeInv, AnswerInv, AnswerIsTrue, FeeTxs, Answer, Goto, Pcs, Replies, chainVars, netVars
<1>16. ASSUME NEW t \in Tasks, SendReply(t) PROVE AnswerInv'
  BY <1>0, <1>16 DEF SendReply, TypeOK, SentInv, FeeInv, AnswerInv, AnswerIsTrue, FeeTxs, Answer, Goto, Pcs, Replies, chainVars, netVars
<1>17. ASSUME NEW t \in Tasks, DownstreamVerify(t) PROVE AnswerInv'
  BY <1>0, <1>17 DEF DownstreamVerify, TypeOK, SentInv, FeeInv, AnswerInv, AnswerIsTrue, FeeTxs, Pcs, chainVars
<1>18. ASSUME NEW t \in Tasks, BlockRunsFee(t) PROVE AnswerInv'
  <2>1. /\ UNCHANGED <<pc, reply, inbox, verdict, rejected>> /\ mempool[t] > 0
        /\ mempool' = [mempool EXCEPT ![t] = @ - 1]
        /\ landed' = landed \/ landed' = [landed EXCEPT ![t] = @ + 1]
        /\ failed' = failed \/ failed' = [failed EXCEPT ![t] = @ + 1]
    BY <1>18 DEF BlockRunsFee, netVars
  <2>2. FeeTxs(t) # 0
    BY <1>0, <2>1 DEF FeeTxs, TypeOK
  <2>3. \A u \in Tasks : u # t => FeeTxs(u)' = FeeTxs(u)
    BY <1>0, <2>1 DEF FeeTxs, TypeOK
  <2> QED
    BY <1>0, <2>1, <2>2, <2>3 DEF AnswerInv, AnswerIsTrue
<1>19. ASSUME Tick PROVE AnswerInv'
  BY <1>0, <1>19 DEF Tick, TypeOK, SentInv, FeeInv, AnswerInv, AnswerIsTrue, FeeTxs, Pcs, chainVars, netVars
<1>20. ASSUME Crash PROVE AnswerInv'
  BY <1>0, <1>20 DEF Crash, TypeOK, SentInv, FeeInv, AnswerInv, AnswerIsTrue, FeeTxs, Pcs, Active, chainVars, netVars
<1>21. ASSUME UNCHANGED vars PROVE AnswerInv'
  BY <1>0, <1>21 DEF vars, TypeOK, SentInv, FeeInv, AnswerInv, AnswerIsTrue, FeeTxs, chainVars, netVars
<1> QED
  BY <1>1, <1>2, <1>3, <1>4, <1>5, <1>6, <1>7, <1>8, <1>9, <1>10, <1>11, <1>12, <1>13, <1>14, <1>15, <1>16, <1>17, <1>18, <1>19, <1>20, <1>21 DEF Next, Task, Forward, Quiescent

(* Only the downstream agent's verification gives a verdict.               *)
LEMMA VerdictStep ==
    ASSUME IInv, [Next]_vars, NEW u \in Tasks
    PROVE  verdict'[u] = verdict[u] \/ DownstreamVerify(u)
<1> DEFINE Goal == verdict'[u] = verdict[u] \/ DownstreamVerify(u)
<1>0. verdict \in [Tasks -> {"none", "accepted", "refused"}]
  BY DEF IInv, TypeOK
<1>1. ASSUME NEW t \in Tasks, Execute(t) PROVE Goal
  BY <1>0, <1>1 DEF Execute, netVars
<1>2. ASSUME NEW t \in Tasks, Abandon(t) PROVE Goal
  BY <1>0, <1>2 DEF Abandon, netVars
<1>3. ASSUME NEW t \in Tasks, RejectRequest(t) PROVE Goal
  BY <1>0, <1>3 DEF RejectRequest, netVars
<1>4. ASSUME NEW t \in Tasks, VerifyInbound(t) PROVE Goal
  BY <1>0, <1>4 DEF VerifyInbound, netVars
<1>5. ASSUME NEW t \in Tasks, RefuseInbound(t) PROVE Goal
  BY <1>0, <1>5 DEF RefuseInbound, netVars
<1>6. ASSUME NEW t \in Tasks, NoFee(t) PROVE Goal
  BY <1>0, <1>6 DEF NoFee, netVars
<1>7. ASSUME NEW t \in Tasks, ExecuteRecordSpend(t) PROVE Goal
  BY <1>0, <1>7 DEF ExecuteRecordSpend, netVars
<1>8. ASSUME NEW t \in Tasks, RefuseSpend(t) PROVE Goal
  BY <1>0, <1>8 DEF RefuseSpend, netVars
<1>9. ASSUME NEW t \in Tasks, BroadcastAccepted(t) PROVE Goal
  BY <1>0, <1>9 DEF BroadcastAccepted, netVars
<1>10. ASSUME NEW t \in Tasks, BroadcastRejected(t) PROVE Goal
  BY <1>0, <1>10 DEF BroadcastRejected, netVars
<1>11. ASSUME NEW t \in Tasks, BroadcastError(t) PROVE Goal
  BY <1>0, <1>11 DEF BroadcastError, netVars
<1>12. ASSUME NEW t \in Tasks, Mint(t) PROVE Goal
  BY <1>0, <1>12 DEF Mint, netVars
<1>13. ASSUME NEW t \in Tasks, MintError(t) PROVE Goal
  BY <1>0, <1>13 DEF MintError, netVars
<1>14. ASSUME NEW t \in Tasks, Send(t) PROVE Goal
  BY <1>0, <1>14 DEF Send
<1>15. ASSUME NEW t \in Tasks, SendError(t) PROVE Goal
  BY <1>0, <1>15 DEF SendError, netVars
<1>16. ASSUME NEW t \in Tasks, SendReply(t) PROVE Goal
  BY <1>0, <1>16 DEF SendReply, netVars
<1>17. ASSUME NEW t \in Tasks, DownstreamVerify(t) PROVE Goal
  BY <1>0, <1>17 DEF DownstreamVerify
<1>18. ASSUME NEW t \in Tasks, BlockRunsFee(t) PROVE Goal
  BY <1>0, <1>18 DEF BlockRunsFee, netVars
<1>19. ASSUME Tick PROVE Goal
  BY <1>0, <1>19 DEF Tick, netVars
<1>20. ASSUME Crash PROVE Goal
  BY <1>0, <1>20 DEF Crash, netVars
<1>21. ASSUME UNCHANGED vars PROVE Goal
  BY <1>0, <1>21 DEF vars, netVars
<1> QED
  BY <1>1, <1>2, <1>3, <1>4, <1>5, <1>6, <1>7, <1>8, <1>9, <1>10, <1>11, <1>12, <1>13, <1>14, <1>15, <1>16, <1>17, <1>18, <1>19, <1>20, <1>21 DEF Next, Task, Forward, Quiescent

(* What the next hop says of a chain this agent built: if it is in its     *)
(* child's life and its request left room for the hop, it verifies.        *)
LEMMA BuiltVerifies ==
    ASSUME TypeOK, NEW u \in Tasks, Built(u),
           now < Leaf(forwarded[u]).caveats.expires,
           HasHeadroom(req[u].proof)
    PROVE  verifyProof(forwarded[u], now, DownstreamDID(u))
<1>1. Passed(u)
  BY DEF Built
<1>2. PICK m \in 0 .. now :
        /\ Mintable(u, m)
        /\ forwarded[u] = Append(req[u].proof, Child(u, m))
        /\ Leaf(forwarded[u]) = Child(u, m)
        /\ Len(forwarded[u]) = Len(req[u].proof) + 1
  BY BuiltFacts
<1>3. PICK v \in 0 .. now : Forwardable(req[u], v)
  BY <1>1 DEF Passed
<1>4. now \in Nat /\ m \in Nat /\ v \in Nat /\ v <= now
  BY <1>2, <1>3, RequestAssumption DEF TypeOK
<1>5. /\ req[u].proof \in Seq(Token) /\ req[u].proof # << >>
      /\ LeafToken(u) \in Token /\ LeafToken(u).caveats \in Caveats
  BY <1>1, PassedFacts
<1>6. /\ Child(u, m) \in Token
      /\ Child(u, m).issuer = AgentID
      /\ Child(u, m).audience = DownstreamDID(u)
      /\ Child(u, m).caveats.notBefore = LeafToken(u).caveats.notBefore
      /\ Child(u, m).caveats.maxDepth = LeafToken(u).caveats.maxDepth
  BY <1>1, <1>4, ChildFacts
<1>7. verifyProof(req[u].proof, v, AgentID)
  BY <1>3 DEF Forwardable
<1>8. LeafToken(u).caveats.notBefore <= v
  <2>1. Len(req[u].proof) \in 1 .. Len(req[u].proof)
    BY <1>5
  <2> QED
    BY <1>7, <2>1 DEF verifyProof, VerifyChain, LiveAt, LeafToken, Leaf
<1>9. LiveAt(Child(u, m).caveats, now)
  <2>1. LeafToken(u).caveats.notBefore \in Nat
    BY <1>5 DEF Caveats
  <2> QED
    BY <1>2, <1>4, <1>6, <1>8, <2>1 DEF LiveAt
<1>10. Attenuable(Leaf(req[u].proof), AgentID, Child(u, m).audience, Child(u, m).caveats)
  BY <1>2, <1>6 DEF Mintable, LeafToken
<1>11. Len(req[u].proof) < MaxDelegationDepth /\ Len(req[u].proof) < Child(u, m).caveats.maxDepth
  BY <1>6 DEF HasHeadroom, LeafToken
<1>12. verifyProof(Append(req[u].proof, Child(u, m)), now, Child(u, m).audience)
  BY <1>4, <1>5, <1>6, <1>7, <1>9, <1>10, <1>11, RequestAssumption, MintedChainVerifies
<1> QED
  BY <1>2, <1>6, <1>12

(* A refusal downstream of what had room for the hop keeps its excuse.     *)
LEMMA UsableStep ==
    ASSUME IInv, [Next]_vars
    PROVE  UsableDownstream'
<1>1. /\ TypeOK /\ MintedInv /\ SentInv /\ UsableDownstream
      /\ req' = req /\ now' \in Nat /\ now <= now' /\ now \in Nat
  BY StepFrame, RequestAssumption DEF IInv, TypeOK
<1> SUFFICES ASSUME NEW u \in Tasks, verdict'[u] = "refused", HasHeadroom(req[u].proof)
             PROVE  Leaf(forwarded'[u]).caveats.expires <= now'
  BY <1>1 DEF UsableDownstream, Leaf, HasHeadroom
<1>2. u \in inbox
  BY <1>1, VerdictStep DEF SentInv, DownstreamVerify
<1>3. forwarded[u] # << >> /\ Built(u)
  BY <1>1, <1>2 DEF SentInv, MintedInv
<1>4. forwarded'[u] = forwarded[u]
  <2>1. ~Mint(u)
    BY <1>1, <1>2 DEF Mint, SentInv
  <2> QED
    BY <2>1, ForwardedStep
<1>5. Leaf(forwarded[u]).caveats.expires \in Nat
  <2>1. forwarded[u] \in Seq(Token)
    BY <1>1 DEF TypeOK
  <2>2. Leaf(forwarded[u]) \in Token
    BY <1>3, <2>1 DEF Leaf
  <2> QED
    BY <2>2 DEF Token, Caveats
<1>6. Leaf(forwarded[u]).caveats.expires <= now
  <2>1. CASE verdict[u] = "refused"
    BY <1>1, <2>1 DEF UsableDownstream
  <2>2. CASE DownstreamVerify(u)
    <3>1. ~verifyProof(forwarded[u], now, DownstreamDID(u))
      BY <1>1, <2>2 DEF DownstreamVerify, TypeOK
    <3>2. ~(now < Leaf(forwarded[u]).caveats.expires)
      BY <1>1, <1>3, <3>1, BuiltVerifies
    <3> QED
      BY <1>1, <1>5, <3>2
  <2> QED
    BY <2>1, <2>2, VerdictStep
<1> QED
  BY <1>1, <1>4, <1>5, <1>6

(* The inductive invariant holds in every reachable state.                 *)
THEOREM Inductive == Spec => []IInv
<1>1. IInv /\ [Next]_vars => IInv'
  BY TypeStep, VerifiedInvStep, MintedInvStep, SentInvStep, FeeInvStep, AnswerInvStep,
     UsableStep DEF IInv
<1> QED
  BY <1>1, InitIInv, PTL DEF Spec

(* Type correctness of the intermediary.                                   *)
THEOREM TypeCorrect == Spec => []TypeOK
<1>1. IInv => TypeOK
  BY DEF IInv
<1> QED
  BY <1>1, Inductive, PTL

(* Forward never passes on more than it was given: for all requests, every *)
(* message sent carries a child within its parent's grant, addressed where *)
(* the parent allows, for the same principal and settlement order.         *)
THEOREM NeverWidens == Spec => []ForwardedWithinGrant
<1>1. IInv => ForwardedWithinGrant
  <2> SUFFICES ASSUME IInv, NEW t \in inbox
               PROVE  LET child == Leaf(forwarded[t]) IN
                      /\ forwarded[t] = Append(req[t].proof, child)
                      /\ child.issuer = AgentID
                      /\ child.audience = DownstreamDID(t)
                      /\ Allows(LeafToken(t).caveats.redelegateTo, child.audience)
                      /\ Narrower(child.caveats, LeafToken(t).caveats)
    BY DEF ForwardedWithinGrant
  <2>1. TypeOK /\ t \in Tasks
    BY DEF IInv, TypeOK
  <2>2. Built(t)
    BY <2>1 DEF IInv, SentInv, MintedInv
  <2>3. PICK m \in 0 .. now :
          /\ Mintable(t, m)
          /\ forwarded[t] = Append(req[t].proof, Child(t, m))
          /\ Leaf(forwarded[t]) = Child(t, m)
    BY <2>1, <2>2, BuiltFacts
  <2>4. m \in Nat
    BY <2>1, <2>3, RequestAssumption DEF TypeOK
  <2>5. Child(t, m).issuer = AgentID /\ Child(t, m).audience = DownstreamDID(t)
    BY <2>1, <2>2, <2>4, ChildFacts DEF Built
  <2> QED
    BY <2>3, <2>5 DEF Mintable, Attenuable
<1> QED
  BY <1>1, Inductive, PTL

(* The one hop the user granted is the last: no chain that extends what    *)
(* this agent sent is accepted by any agent running verifyProof.           *)
THEOREM OneHopOnly == Spec => []NoThirdHop
<1>1. IInv => NoThirdHop
  <2> SUFFICES ASSUME IInv, NEW t \in inbox, NEW tok \in HandBuilt(forwarded[t])
               PROVE  ~verifyProof(Append(forwarded[t], tok), now, tok.audience)
    BY DEF NoThirdHop
  <2>1. TypeOK /\ t \in Tasks /\ now \in Nat
    BY RequestAssumption DEF IInv, TypeOK
  <2>2. Built(t) /\ Passed(t)
    BY <2>1 DEF IInv, SentInv, MintedInv, Built
  <2>3. PICK m \in 0 .. now :
          /\ forwarded[t] = Append(req[t].proof, Child(t, m))
          /\ Leaf(forwarded[t]) = Child(t, m)
          /\ Len(forwarded[t]) = Len(req[t].proof) + 1
    BY <2>1, <2>2, BuiltFacts
  <2>4. Leaf(forwarded[t]).caveats.redelegateTo = ConstrainedTo({})
    <3>1. m \in Nat
      BY <2>1, <2>3
    <3> QED
      BY <2>1, <2>2, <2>3, <3>1, ChildFacts
  <2>5. forwarded[t] \in Seq(Token) /\ Leaf(forwarded[t]) \in Token /\ req[t].proof \in Seq(Token)
    <3>1. m \in Nat
      BY <2>1, <2>3
    <3>2. Child(t, m) \in Token /\ req[t].proof \in Seq(Token)
      BY <2>1, <2>2, <3>1, ChildFacts, PassedFacts
    <3>3. forwarded[t] \in Seq(Token)
      BY <2>1 DEF TypeOK
    <3> QED
      BY <2>3, <3>2, <3>3
  <2>6. tok \in Token
    <3>1. PICK d \in DIDs, b \in BOOLEAN :
            tok = [issuer   |-> Leaf(forwarded[t]).audience,
                   audience |-> d,
                   caveats  |-> [Leaf(forwarded[t]).caveats EXCEPT !.redelegable = b]]
      BY DEF HandBuilt
    <3>2. [Leaf(forwarded[t]).caveats EXCEPT !.redelegable = b] \in Caveats
      BY <2>5 DEF Token, Caveats
    <3> QED
      BY <2>5, <3>1, <3>2 DEF Token
  <2> DEFINE ext == Append(forwarded[t], tok)
             n == Len(forwarded[t])
  <2>7. /\ ext \in Seq(Token)
        /\ n \in 1 .. (Len(ext) - 1)
        /\ ext[n] = Leaf(forwarded[t])
    BY <2>3, <2>5, <2>6 DEF Leaf
  <2>8. tok.audience \in DIDs
    BY <2>6 DEF Token
  <2> HIDE DEF ext, n
  <2>9. ~verifyProof(ext, now, tok.audience)
    BY <2>1, <2>4, <2>7, <2>8, ThirdHopRefused
  <2> QED
    BY <2>9 DEF ext
<1> QED
  BY <1>1, Inductive, PTL

(* What this agent forwards, the next agent accepts until the child has    *)
(* expired, given that neither the credential's own max_depth nor the      *)
(* chain's was used up by the tokens it came with.                         *)
THEOREM ForwardedChainsVerify == Spec => []UsableDownstream
<1>1. IInv => UsableDownstream
  BY DEF IInv
<1> QED
  BY <1>1, Inductive, PTL

(* At most one fee per task, and always before the message.                *)
THEOREM ChargedOnce == Spec => []ChargedOnceBeforeForward
<1>1. IInv => ChargedOnceBeforeForward
  BY DEF IInv, FeeInv, ChargedOnceBeforeForward
<1> QED
  BY <1>1, Inductive, PTL

(* The caller is never told something that did not happen.                 *)
THEOREM AnswersAreTrue == Spec => []AnswerIsTrue
<1>1. IInv => AnswerIsTrue
  BY DEF IInv, AnswerInv
<1> QED
  BY <1>1, Inductive, PTL
=============================================================================
