--------------------------- MODULE AssetLifecycle ---------------------------
(***************************************************************************)
(* What the download queue owes each MediaAsset, said without workers,     *)
(* rows, commits or crashes: an asset is taken, and then either done, given *)
(* up, or handed back; only failed tries use up its budget; only a person  *)
(* reopens what was given up.                                              *)
(***************************************************************************)
EXTENDS Naturals

CONSTANTS Assets, Budget

VARIABLES
    phase,      \* "ready", "active", "done" or "failed"
    tries       \* the tries that failed since the asset was last opened

vars == <<phase, tries>>

Init ==
    /\ phase = [a \in Assets |-> "ready"]
    /\ tries = [a \in Assets |-> 0]

Move(a, from, to) ==
    /\ phase[a] = from
    /\ phase' = [phase EXCEPT ![a] = to]

Take(a) == Move(a, "ready", "active") /\ UNCHANGED tries

Succeed(a) == Move(a, "active", "done") /\ UNCHANGED tries

TryAgain(a) ==
    /\ Move(a, "active", "ready")
    /\ tries[a] + 1 < Budget
    /\ tries' = [tries EXCEPT ![a] = @ + 1]

GiveUp(a) ==
    /\ Move(a, "active", "failed")
    /\ tries' = [tries EXCEPT ![a] = @ + 1]

\* The process died: what it was working on goes back, and costs no try.
Recover ==
    /\ \E interrupted \in SUBSET {a \in Assets : phase[a] = "active"} :
          phase' = [a \in Assets |-> IF a \in interrupted THEN "ready" ELSE phase[a]]
    /\ UNCHANGED tries

Reopen(a) ==
    /\ Move(a, "failed", "ready")
    /\ tries' = [tries EXCEPT ![a] = 0]

Next ==
    \/ \E a \in Assets :
          Take(a) \/ Succeed(a) \/ TryAgain(a) \/ GiveUp(a) \/ Reopen(a)
    \/ Recover

Spec == Init /\ [][Next]_vars
=============================================================================
