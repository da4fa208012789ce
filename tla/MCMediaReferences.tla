-------------------------- MODULE MCMediaReferences --------------------------
(***************************************************************************)
(* Instances of MediaReferences for TLC; the .cfg files give the constants *)
(* their values and pick which task does what.                             *)
(***************************************************************************)
EXTENDS MediaReferences

CONSTANTS p1, p2, q1, q2, t1

AllKinds == {"sync", "link", "replace"}

\* q1 does everything, the other tasks what their definition says.
OneDoesAll == [q \in Procs |-> AllKinds]
SyncAgainstReplace == [q \in Procs |-> IF q = q1 THEN {"sync", "link"} ELSE {"replace"}]
SyncAgainstSync == [q \in Procs |-> IF q = q1 THEN {"sync", "link"} ELSE {"sync"}]
=============================================================================
