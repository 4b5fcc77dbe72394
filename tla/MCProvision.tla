---------------------------- MODULE MCProvision -----------------------------
(* Provision for TLC: one server, images that work and one that never gets *)
(* ready, two ports, two users, two rollback names, each interchangeable.  *)
EXTENDS Provision

CONSTANTS old, new, bad, p1, p2, u1, u2, main, b1, b2

Symm == Permutations({u1, u2}) \cup Permutations({b1, b2})
          \cup Permutations({p1, p2}) \cup Permutations({old, new})
=============================================================================
