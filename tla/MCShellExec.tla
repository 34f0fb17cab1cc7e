------------------------------- MODULE MCShellExec -----------------------------
(***************************************************************************)
(* ShellExec on small instances.                                           *)
(***************************************************************************)
EXTENDS ShellExec, TLC
=============================================================================
