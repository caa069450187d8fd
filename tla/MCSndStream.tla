---------------------------- MODULE MCSndStream -----------------------------
(* Buffers of two units; a file shorter than a buffer, one that ends with a  *)
(* full buffer and one that does not.                                        *)
EXTENDS SndStream

MCLengths == {1, 4, 5}
=============================================================================
