--------------------------- MODULE MCTransaction ---------------------------
(***************************************************************************)
(* Small instances of Transaction for TLC.                                 *)
(***************************************************************************)
EXTENDS Transaction

CONSTANTS w1, w2, commit1, rollback1   \* operations, model values

OneWrite == {w1}
TwoWrites == {w1, w2}
OneCommit == {commit1}
OneRollback == {rollback1}
None == {}
=============================================================================
