----------------------------- MODULE MCRuntime -----------------------------
(* Small instances of Runtime.                                             *)
EXTENDS Runtime

\* The process may be killed at every quiet point.
MCCrashAt == QuietPoints
=============================================================================
