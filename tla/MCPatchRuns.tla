-------------------------- MODULE MCPatchRuns -------------------------------
(* Operations of every kind, run length and field width: the counts and    *)
(* offsets lie on both sides of every width, and runs are longer than the  *)
(* largest count.                                                          *)
EXTENDS MCPatchInputs

Deltas == {[q \in BlockPos |-> d] : d \in {0, 3}}
Recipes ==
  {Recipe(kind, 0, NoDelta) : kind \in {"ZERO", "ONE", "NONE", "IDENTITY"}}
  \cup {Recipe("RELOCATE", o, NoDelta) : o \in {1, -2, 3, -4, 15, -15, 16, -16}}
  \cup {Recipe("PARTIAL", o, d) : o \in {1, -2, 3, -4, 7, -8, 8, -9}, d \in Deltas}

\* Two runs, the second up to the end.
TwoRuns ==
  {[k \in DestIdx |-> IF k < m THEN a ELSE b] :
     a, b \in Recipes, m \in {1, 2, 3, 4, 5, 9, DestBlocks - 2, DestBlocks - 1, DestBlocks}}
MCRunInputs ==
  {InputOf(plan) : plan \in {f \in TwoRuns : \A k \in DestIdx : Possible(f[k], k)}}
=============================================================================
