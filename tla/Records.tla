------------------------------ MODULE Records -------------------------------
(***************************************************************************)
(* The record code at work: a single value is packed or a byte string      *)
(* unpacked (Comp3Check), or a copybook is read and, if it is the right    *)
(* one, rows go through a file with its layout (Copybook, FileConversion). *)
(***************************************************************************)
EXTENDS FileConversion, Comp3Check

vars == <<packVars, copybookVars, fileVars>>

Init ==
    /\ FilesIdle
    /\ \/ PackInit /\ CopybookIdle
       \/ PackIdle /\ CopybookInit

Next ==
    \/ PackNext /\ UNCHANGED <<copybookVars, fileVars>>
    \/ FilesIdle /\ CopybookNext /\ UNCHANGED <<packVars, fileVars>>
    \/ FilesNext /\ UNCHANGED <<packVars, copybookVars>>

Spec == Init /\ [][Next]_vars
=============================================================================
