---------------------------- MODULE MCSocketRead ----------------------------
(***************************************************************************)
(* SocketRead on small instances: lines of three bytes, of which one read  *)
(* takes at most seven: two lines and the beginning of a third.            *)
(***************************************************************************)
EXTENDS SocketRead
=============================================================================
