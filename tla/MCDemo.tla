------------------------------- MODULE MCDemo -------------------------------
(* Three runs of any kind: the third finds what an overlap of the first two  *)
(* left behind.  Paints cost nothing, less than the pull period, or more.    *)
EXTENDS Demo
=============================================================================
