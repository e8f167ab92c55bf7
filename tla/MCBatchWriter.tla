--------------------------- MODULE MCBatchWriter ---------------------------
(* Three events against a batch size of two, so that the buffer is full     *)
(* once, not full once, and grows while an insert is under way; two callers  *)
(* of Close.                                                                 *)
EXTENDS BatchWriter
=============================================================================
