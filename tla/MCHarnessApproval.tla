-------------------------- MODULE MCHarnessApproval --------------------------
(* The modes of omp: one that asks, one between, one that never asks.       *)
EXTENDS HarnessApproval

MCModes == {"always-ask", "write", "yolo"}
=============================================================================
