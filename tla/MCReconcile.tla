----------------------------- MODULE MCReconcile -----------------------------
(* The instances of Reconcile that TLC checks.                             *)
EXTENDS Reconcile

CONSTANTS p, q, f, g, a, b

TwoPRs == {p, q}
TwoFiles == {f, g}
OneFile == {f}
TwoAgents == {a, b}
AllHot == [x \in TwoPRs |-> TwoFiles]
\* Bound: a run ends when the reconciliation is merged.
FirstMerge == state[Recon] # "merged"
\* Bound: two commands run at once only in a repository of at most 4 commits.
OneAtATime == Len(commits) <= 4 \/ \E x \in Agents : \A y \in Agents \ {x} : doing[y] = "idle"
OneAgent == {a}
=============================================================================
