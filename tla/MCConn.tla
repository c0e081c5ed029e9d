------------------------------- MODULE MCConn -------------------------------
(* Conn on small instances, and the coding of the messages it carries. *)
EXTENDS Conn, Xdr
=============================================================================
