---------------------------- MODULE MCWindowReaders ----------------------------
(* Small instances of WindowReaders for TLC. *)
EXTENDS WindowReaders
================================================================================
