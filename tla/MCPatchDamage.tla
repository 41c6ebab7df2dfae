-------------------------- MODULE MCPatchDamage -----------------------------
(* Dense and sparse diffs of two blocks; patches that are damaged after    *)
(* they were written.                                                      *)
EXTENDS MCPatchInputs

\* A first diff with gaps and runs of every length, or one with a gap and
\* different ones to follow it.
Diffs == [BlockPos -> {0, 3}]
Gap == [q \in BlockPos |-> IF q = 2 THEN 3 ELSE 0]
NextDiff(nonzero) == [q \in BlockPos |-> IF q \in nonzero THEN q ELSE 0]
MCDiffPlans ==
  {[k \in DestIdx |-> Recipe("PARTIAL", 1, IF k = 0 THEN x[1] ELSE x[2])] :
     x \in Diffs \X {NextDiff({2, 3})} \cup {Gap} \X {NextDiff({}), NextDiff({1}), NextDiff({1, 2, 3})}}

\* One of each kind of operation.
MCOpPlans ==
  [DestIdx -> {Recipe("NONE", 0, NoDelta), Recipe("RELOCATE", 1, NoDelta),
               Recipe("PARTIAL", 1, [q \in BlockPos |-> 1 + (q % 2)])}]

MCDamageInputs == {InputOf(plan) : plan \in MCDiffPlans \cup MCOpPlans}

\* First bytes of four kinds with every count width, which are other digits too.
MCDamagedOpBytes == {32 * op + 8 * enc + low : op \in {1, 4, 5, 6}, enc \in 0..3, low \in {0, 3}}
MCDamagedDiffBytes == 0..2*VarintBase-1
MCFaults == {"cut", "damaged"}
=============================================================================
