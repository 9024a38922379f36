---------------------------- MODULE MCGhConsole ----------------------------
(* A small instance: two VMs, two names, two vmids, one failing RPC.       *)
EXTENDS GhConsole
CONSTANTS v1, v2
=============================================================================
