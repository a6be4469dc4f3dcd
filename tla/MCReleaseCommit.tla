-------------------------- MODULE MCReleaseCommit --------------------------
(* ReleaseCommit with its bounds given in release_commit.cfg.              *)
EXTENDS ReleaseCommit
=============================================================================
