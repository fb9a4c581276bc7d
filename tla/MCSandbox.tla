------------------------------ MODULE MCSandbox ------------------------------
(***************************************************************************)
(* Two kernel file systems, and executors that follow each other.          *)
(***************************************************************************)
EXTENDS Sandbox

MCKernelFS == {"proc", "dev"}

=============================================================================
