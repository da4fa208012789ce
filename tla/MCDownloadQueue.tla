--------------------------- MODULE MCDownloadQueue ---------------------------
(***************************************************************************)
(* Instances of DownloadQueue for TLC; the .cfg files give the constants.  *)
(***************************************************************************)
EXTENDS DownloadQueue, TLC

\* Requests are interchangeable.
ClientSymmetry == Permutations(Clients)
=============================================================================
