------------------------------- MODULE Creds -------------------------------
(***************************************************************************)
(* The AUTH_UNIX credentials of a request (auth/authenticate.go) and the   *)
(* comparison the client registry and the worker table use to decide       *)
(* whether two requests come from the same principal.                      *)
(***************************************************************************)
EXTENDS Integers, Sequences

\* auth.Creds without the expiration value and the host name, which Equal ignores.
CredsType == [uid : Nat, gid : Nat, groups : Seq(Nat)]

\* The groups of a credential, sorted and compacted: as a comparison key, a set.
GroupSet(c) == {c.gid} \cup {c.groups[i] : i \in DOMAIN c.groups}

\* (*Creds).Equal. Equal group lists make the primary group irrelevant; lists
\* whose lengths differ by more than one are never equal.
CredsEqual(c, d) ==
    /\ c.uid = d.uid
    /\ \/ c.groups = d.groups
       \/ /\ Len(c.groups) - Len(d.groups) \in -1..1
          /\ GroupSet(c) = GroupSet(d)
=============================================================================
