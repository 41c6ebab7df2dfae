-------------------------- MODULE MCPatchClose ------------------------------
(* A patch that is nothing but a run of zeros. *)
EXTENDS MCPatchInputs

MCZeroInputs == {InputOf([k \in DestIdx |-> Recipe("ZERO", 0, NoDelta)])}
=============================================================================
