------------------------------- MODULE MCStartup -------------------------------
(***************************************************************************)
(* Instances of Startup for TLC.                                           *)
(***************************************************************************)
EXTENDS Startup, TLC

\* The initial text is equal to what an editor types, before it, or after it.
Two == <<2, 2>>
FewTexts == {<<>>, <<1>>, <<2>>, <<3>>}

================================================================================
