---------------------------- MODULE MCMediaLibrary --------------------------
(* Two tracks whose names render alike, and two operations at a time. *)
EXTENDS MediaLibrary, TLC

OneName == [t \in Tracks \cup {None} |-> "a"]
=============================================================================
