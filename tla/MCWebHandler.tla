---------------------------- MODULE MCWebHandler ----------------------------
(* Instances of WebHandler for TLC, which reads no negative number in a    *)
(* configuration.                                                          *)
EXTENDS WebHandler

\* A signed char of a few values.
MCCharMin == -3
=============================================================================
