----------------------------- MODULE MCDebugger -----------------------------
(* Two stops and two acts of the user: enough for a stop that follows a      *)
(* resume at once, for a resume that meets a condition under evaluation, and *)
(* for a restart or a change of target in between.                           *)
EXTENDS Debugger
=============================================================================
