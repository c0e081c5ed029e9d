----------------------------- MODULE MCWorkers -----------------------------
(* Workers on small instances. *)
EXTENDS Workers, TLC

CONSTANTS w1, w2, w3, h1, h2, c1, c2, s1

\* Two credentials of one user that Equal tells apart.
MCPrincipals ==
    {[uid |-> 1, gid |-> 10, groups |-> <<>>],
     [uid |-> 1, gid |-> 20, groups |-> <<20, 30>>]}

\* The same, and another user.
MCUsers == MCPrincipals \cup {[uid |-> 2, gid |-> 10, groups |-> <<>>]}

Symmetry == Permutations(Workers) \cup Permutations(Handlers) \cup Permutations(Conns)
=============================================================================
