------------------------ MODULE MCSpotifyConnection -------------------------
(***************************************************************************)
(* The instance of SpotifyConnection that TLC checks: Liked Songs, a       *)
(* playlist the app's own token does not read and one that it does; two    *)
(* requests beside the scheduler, two authorizations and two callbacks     *)
(* that may carry the same state.  A liveness property is checked in the   *)
(* same run, so no symmetry is declared.                                   *)
(***************************************************************************)
EXTENDS SpotifyConnection
=============================================================================
