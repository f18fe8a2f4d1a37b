------------------------------ MODULE MCServer -------------------------------
(* An instance of Server for TLC.  One tick stands for five seconds.       *)
EXTENDS Server
=============================================================================
