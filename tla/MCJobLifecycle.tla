--------------------------- MODULE MCJobLifecycle ---------------------------
(* Instances of JobLifecycle for TLC.                                       *)
EXTENDS JobLifecycle, TLC

\* No dependencies.
Independent == [j \in Jobs |-> None]

\* One parent; the other jobs depend on it.
Root  == CHOOSE p \in Jobs : TRUE
Chain == [j \in Jobs |-> IF j = Root THEN None ELSE Root]

\* A parent, its dependent, a dependent of that, and jobs of their own.
Middle == CHOOSE m \in Jobs \ {Root} : TRUE
Leaf   == CHOOSE l \in Jobs \ {Root, Middle} : TRUE
Line   == [j \in Jobs |-> CASE j = Middle -> Root [] j = Leaf -> Middle [] OTHER -> None]

WorkerSymmetry == Permutations(Workers)
=============================================================================
