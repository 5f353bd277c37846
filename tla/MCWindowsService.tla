-------------------------- MODULE MCWindowsService --------------------------
(* Small instances of WindowsService.                                      *)
EXTENDS WindowsService
=============================================================================
