------------------------ MODULE MCRepositoryClient ------------------------
(***************************************************************************)
(* Small instances of RepositoryClient for TLC.                            *)
(***************************************************************************)
EXTENDS RepositoryClient

CONSTANTS c1, c2   \* the calls, model values

OneCall == {c1}
TwoCalls == {c1, c2}
NoUploads == {}
=============================================================================
