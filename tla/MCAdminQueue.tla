---------------------------- MODULE MCAdminQueue ----------------------------
(* AdminQueue with small bounds. *)
EXTENDS AdminQueue
=============================================================================
