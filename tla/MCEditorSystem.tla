---------------------------- MODULE MCEditorSystem ----------------------------
(***************************************************************************)
(* Instances of EditorSystem for TLC.                                      *)
(***************************************************************************)
EXTENDS EditorSystem, TLC

CONSTANTS c1, c2

\* One user types the character 1, the other the character 2.
MCLetter == c1 :> 1 @@ c2 :> 2

===============================================================================
