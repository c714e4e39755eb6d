---------------------------- MODULE MCServerStore ----------------------------
(***************************************************************************)
(* ServerStore with two servers and two requests.                          *)
(***************************************************************************)
EXTENDS ServerStore
================================================================================
