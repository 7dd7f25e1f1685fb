-------------------------- MODULE MCAppServerClient --------------------------
(***************************************************************************)
(* Instances of AppServerClient for TLC.  One session takes at most two    *)
(* requests, so the message ids are small and the pipe is the only bound.  *)
(***************************************************************************)
EXTENDS AppServerClient
=============================================================================
