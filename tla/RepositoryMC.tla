---------------------------- MODULE RepositoryMC ----------------------------
(***************************************************************************)
(* Instances of RepositoryParent for TLC.                                  *)
(***************************************************************************)
EXTENDS RepositoryParent

CONSTANTS r,    \* the Repository
          s,    \* a RepositorySync
          e,    \* a RepositoryExec
          t     \* a Worktree

=============================================================================
