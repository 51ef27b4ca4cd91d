----------------------- MODULE MCConcurrentBranches -----------------------
(* Small instances of ConcurrentBranches; see MCBranchHistory for the      *)
(* validators.                                                             *)
EXTENDS ConcurrentBranches

CONSTANT x

MCValidators == {Content, {x}}
=============================================================================
