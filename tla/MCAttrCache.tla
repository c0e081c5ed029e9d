---------------------------- MODULE MCAttrCache ----------------------------
(* Model values for AttrCache, whose SETATTR decodes with Attrs. *)
EXTENDS AttrCache, TLC

LOCAL INSTANCE Attrs

CONSTANTS i1, i2, a, b

MCHandlers == {i1, i2}

MCNames == {a, b}

\* A new size with the times that clients send along, and a cut off mode.
MCAsks == {Sent({A_size, 48, A_time_modify_set}), [Sent({A_mode}) EXCEPT !.vals = <<>>]}

Fields == A_mode :> "mode" @@ A_owner :> "owner" @@ A_owner_group :> "owner_group"
            @@ A_size :> "size"

\* SETATTR works on what decodeFAttrs4 of Attrs has read.
MCDecoded ==
  [attrs \in MCAsks |->
     LET d == decodeFAttrs4(attrs) IN
     [failed |-> d.failed,
      given |-> {Fields[n] : n \in {g[1] : g \in d.got} \cap DOMAIN Fields}]]

MCSymmetry ==
  {p @@ q @@ r : p \in Permutations(MCHandlers), q \in Permutations(MCNames),
                 r \in Permutations(Files)}

============================================================================
