------------------------------- MODULE MCTrust -------------------------------
(* Two installations of a server: the first with an Ed25519 and an RSA key.  *)
EXTENDS Trust, TLC

CONSTANTS m1, m2, ed1, rsa1, ed2

MCHostKeys == m1 :> {ed1, rsa1} @@ m2 :> {ed2}
Symm == Permutations(Calls) \cup Permutations(Secrets)
MCRank == ed1 :> 1 @@ ed2 :> 1 @@ rsa1 :> 3
=============================================================================
