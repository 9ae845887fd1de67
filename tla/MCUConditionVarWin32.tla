------------------------ MODULE MCUConditionVarWin32 ------------------------
(***************************************************************************)
(* A TLC instance of UConditionVarWin32: three threads, so that one may    *)
(* broadcast or wait again while two others are at the gates.              *)
(***************************************************************************)
EXTENDS UConditionVarWin32

CONSTANTS t1, t2, t3
=============================================================================
