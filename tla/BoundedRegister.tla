--------------------------- MODULE BoundedRegister --------------------------
(***************************************************************************)
(* What the params cache promises its callers, without saying how: a call  *)
(* fails, or returns a version of the params that was in force at some     *)
(* instant no more than Bound seconds ago; and once some call has returned *)
(* a version, no call returns an older one.                                *)
(***************************************************************************)
EXTENDS Integers

CONSTANTS Calls, Versions, Bound, MaxTime

VARIABLES
    now,
    params,     \* the version in force on the chain
    lastIn,     \* lastIn[v]: last instant v was in force
    result      \* result[c]: the version returned, Pending or Failed

vars == <<now, params, lastIn, result>>

Never == -1
Pending == -1
Failed == -2

Init ==
    /\ now = 0
    /\ params = 0
    /\ lastIn = [v \in Versions |-> IF v = 0 THEN 0 ELSE Never]
    /\ result = [c \in Calls |-> Pending]

Recent(v) == lastIn[v] # Never /\ now - lastIn[v] <= Bound

Read(c) ==
    /\ result[c] = Pending
    /\ \E v \in Versions :
          /\ Recent(v)
          /\ \A d \in Calls : result[d] <= v
          /\ result' = [result EXCEPT ![c] = v]
    /\ UNCHANGED <<now, params, lastIn>>

Fail(c) ==
    /\ result[c] = Pending
    /\ result' = [result EXCEPT ![c] = Failed]
    /\ UNCHANGED <<now, params, lastIn>>

\* A governance proposal passes.
Govern ==
    /\ params + 1 \in Versions
    /\ params' = params + 1
    /\ lastIn' = [lastIn EXCEPT ![params + 1] = now]
    /\ UNCHANGED <<now, result>>

Tick ==
    /\ now < MaxTime
    /\ now' = now + 1
    /\ lastIn' = [lastIn EXCEPT ![params] = now + 1]
    /\ UNCHANGED <<params, result>>

Next == (\E c \in Calls : Read(c) \/ Fail(c)) \/ Govern \/ Tick

Spec == Init /\ [][Next]_vars
=============================================================================
