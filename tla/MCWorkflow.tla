----------------------------- MODULE MCWorkflow -----------------------------
(* Workflow, and its refinement of StepChain, on small instances. *)
EXTENDS WorkflowChain, TLC

Symmetry == Permutations(Consumers)

=============================================================================
