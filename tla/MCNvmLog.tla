----------------------------- MODULE MCNvmLog -----------------------------
(* TLC instances of NvmLog.                                                *)
EXTENDS NvmLog, TLC
=============================================================================
