------------------------ MODULE MCMigrationWorkflow ------------------------
(* Values for model-checking MigrationWorkflow.                            *)
EXTENDS MigrationWorkflow, TLC

CONSTANTS i1, i2, i3

MCSymmetry == Permutations(Invocation)
=============================================================================
