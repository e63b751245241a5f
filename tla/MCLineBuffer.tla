---------------------------- MODULE MCLineBuffer ----------------------------
(* A buffer of four bytes, and every way to send nine bytes to it in       *)
(* chunks shorter and longer than the buffer.                              *)
EXTENDS LineBuffer
=============================================================================
