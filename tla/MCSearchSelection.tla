--------------------------- MODULE MCSearchSelection ------------------------
(* One track, two things found for it, and two actors besides a worker. *)
EXTENDS SearchSelection, TLC

\* The first process searches on its own account, the second is the user.
Everything == (1 :> {"run", "bulk", "monitor"}) @@ (2 :> {"again", "select", "replace"})

\* The user does nothing but replace.
OnlyReplacing == (1 :> {"run", "monitor"}) @@ (2 :> {"replace"})
=============================================================================
