---------------------------- MODULE MCOpenFiles ----------------------------
(* OpenFiles on small instances. *)
EXTENDS OpenFiles, TLC

CONSTANTS w1, w2, h1, h2, c1, s1, f1, f2, k1, k2

\* Two credentials of one user that Equal tells apart.
MCPrincipals ==
    {[uid |-> 1, gid |-> 10, groups |-> <<>>],
     [uid |-> 1, gid |-> 20, groups |-> <<20, 30>>]}

Symmetry ==
    Permutations(Workers) \cup Permutations(Handlers) \cup Permutations(Files)
      \cup Permutations(ClientIds)
=============================================================================
