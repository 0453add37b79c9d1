--------------------------- MODULE MCGithubMerge ---------------------------
(* GithubMerge for TLC. *)
EXTENDS GithubMerge
=============================================================================
