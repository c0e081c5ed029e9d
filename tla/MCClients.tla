----------------------------- MODULE MCClients -----------------------------
(* Clients on small instances. *)
EXTENDS Clients, TLC

CONSTANTS i1, i2, i3, n1, b1, b2, h1, h2

\* Three credentials of one user: the first two are equal, the last two are
\* equal, the first and the last are not.
MCPrincipals ==
    {[uid |-> 1, gid |-> 10, groups |-> <<>>],
     [uid |-> 1, gid |-> 20, groups |-> <<>>],
     [uid |-> 1, gid |-> 20, groups |-> <<20>>]}

MCPrincipal == {[uid |-> 1, gid |-> 10, groups |-> <<>>]}

Symmetry == Permutations(Ids) \cup Permutations(Handlers) \cup Permutations(Verifiers)
=============================================================================
