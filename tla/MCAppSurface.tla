---------------------------- MODULE MCAppSurface ----------------------------
(* Two apps; the timer of B outlives its app.  Five acts: one app started,   *)
(* used, replaced, stopped and the window rebuilt, in any order and overlap, *)
(* with restarts and pauses in between.                                      *)
EXTENDS AppSurface
=============================================================================
