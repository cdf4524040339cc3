------------------------------ MODULE HoldSetMC ------------------------------
(***************************************************************************)
(* An instance of HoldSet for TLC: the access policy of a Worktree.        *)
(***************************************************************************)
EXTENDS HoldSet

CONSTANTS a, b   \* owners

\* Any number of readers and at most one writer.
WorktreeModes == {"read", "write"}
WorktreeExcludes == {<<"write", "write">>}
WorktreeCovers == {<<"read", "read">>, <<"write", "write">>, <<"write", "read">>}

=============================================================================
