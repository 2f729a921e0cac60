----------------------------- MODULE BackOffice -----------------------------
(***************************************************************************)
(* The desk of the staff and Jarvis side by side (app/main.py mounts both  *)
(* routers): they share the table of claims, in which the keys of either   *)
(* are its own, and no other row.                                          *)
(***************************************************************************)
EXTENDS CRMDesk, JarvisRuns

BackOfficeSpec == DeskSpec /\ JarvisSpec

\* Every lead agrees with its assignments, and a conversation with Jarvis with
\* what was done in it (CRMService.assign_lead, JarvisService.run_command).
BackOfficeInv == DeskTypeOK /\ JarvisTypeOK /\ AssignmentAgrees /\ ResultsAreNoted
=============================================================================
