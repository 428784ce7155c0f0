-------------------------- MODULE MCDataDirectory --------------------------
(***************************************************************************)
(* DataDirectory on a small instance: two servers that may start at once,  *)
(* as when a container is recreated, and enough keys for a fresh one beside *)
(* those of the archive and the directory.                                 *)
(***************************************************************************)
EXTENDS DataDirectory
=============================================================================
