---------------------------- MODULE MCInstallation ----------------------------
(* An instance of Installation for TLC.                                     *)
EXTENDS Installation
=============================================================================
