--------------------------- MODULE MCKeyResolver ----------------------------
(* Small instances of KeyResolver.  A user issues the root token and an     *)
(* agent the next one; a third name is no DID.  Each has its own account    *)
(* key, and kR is a key only the registry knows.                            *)
EXTENDS KeyResolver

CONSTANTS user, agent, bare, kU, kA, kR

MCIsDID == [d \in Issuers |-> d # bare]

MCAccountKey == [d \in Issuers |-> IF d = user THEN kU ELSE kA]

Tok(d, k) == [issuer |-> d, signedBy |-> k]

\* With the account's key, with a registered key, twice by one issuer, by no DID.
MCProofs ==
    {<<Tok(user, kU), Tok(agent, kA)>>, <<Tok(user, kU), Tok(agent, kR)>>,
     <<Tok(agent, kA), Tok(agent, kR)>>, <<Tok(agent, kR)>>, <<Tok(bare, kA)>>}
=============================================================================
