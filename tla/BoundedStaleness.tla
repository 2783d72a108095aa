-------------------------- MODULE BoundedStaleness --------------------------
(***************************************************************************)
(* What the delegated-read path promises about revocation, without saying  *)
(* how: a read may be refused at any time, and is granted only if the root *)
(* delegation was live, at the epoch the credential was minted for, at     *)
(* some instant no more than Bound seconds ago.                            *)
(***************************************************************************)
EXTENDS Integers

CONSTANTS Readers, Roots, Epochs, Bound, MaxTime

VARIABLES
    now,
    chain,     \* chain[r]: epoch and pause flag of root r on the chain
    lastLive,  \* lastLive[r][e]: last instant r was at epoch e and not paused
    cred,      \* cred[p]: root and epoch reader p's credential names
    outcome    \* outcome[p]

vars == <<now, chain, lastLive, cred, outcome>>

Live(r, e) == chain[r].epoch = e /\ ~chain[r].paused

Never == -1

Init ==
    /\ now = 0
    /\ chain = [r \in Roots |-> [epoch |-> 0, paused |-> FALSE]]
    /\ lastLive = [r \in Roots |-> [e \in Epochs |-> IF e = 0 THEN 0 ELSE Never]]
    /\ cred \in [Readers -> [root : Roots, epoch : Epochs]]
    /\ outcome = [p \in Readers |-> "none"]

WasLive(r, e) == lastLive[r][e] # Never /\ now - lastLive[r][e] <= Bound

Grant(p) ==
    /\ outcome[p] = "none"
    /\ WasLive(cred[p].root, cred[p].epoch)
    /\ outcome' = [outcome EXCEPT ![p] = "granted"]
    /\ UNCHANGED <<now, chain, lastLive, cred>>

Refuse(p) ==
    /\ outcome[p] = "none"
    /\ outcome' = [outcome EXCEPT ![p] = "refused"]
    /\ UNCHANGED <<now, chain, lastLive, cred>>

(* Pausing, unpausing and moving to the next epoch (which revokes every    *)
(* credential minted before) are transactions of the root's owner.         *)
SetRoot(r, s) ==
    /\ chain' = [chain EXCEPT ![r] = s]
    /\ lastLive' = IF s.paused THEN lastLive ELSE [lastLive EXCEPT ![r][s.epoch] = now]
    /\ UNCHANGED <<now, cred, outcome>>

Revoke(r) ==
    \/ SetRoot(r, [chain[r] EXCEPT !.paused = ~chain[r].paused])
    \/ chain[r].epoch + 1 \in Epochs /\ SetRoot(r, [chain[r] EXCEPT !.epoch = chain[r].epoch + 1])

Tick ==
    /\ now < MaxTime
    /\ now' = now + 1
    /\ lastLive' = [r \in Roots |-> [e \in Epochs |-> IF Live(r, e) THEN now + 1 ELSE lastLive[r][e]]]
    /\ UNCHANGED <<chain, cred, outcome>>

Next ==
    \/ \E p \in Readers : Grant(p) \/ Refuse(p)
    \/ \E r \in Roots : Revoke(r)
    \/ Tick

Spec == Init /\ [][Next]_vars
=============================================================================
