----------------------------- MODULE MCInitOnce ------------------------------
(***************************************************************************)
(* TLC instance of both implementations of umtx_initOnce, which platform   *)
(* tells apart: threads race for one UInitOnce that is reset once, with a  *)
(* success, a warning and a failure status.                                *)
(***************************************************************************)
EXTENDS UInitOncePosix

VARIABLE platform

Win32 == INSTANCE UInitOnceWin32

MCStatus == {"zero", "warning", "failure"}
MCFailures == {"failure"}

EitherStep(t) ==
    \/ platform = "posix" /\ Step(t)
    \/ platform = "win32" /\ Win32!Step(t) /\ UNCHANGED waiters

EitherNext ==
    /\ UNCHANGED platform
    /\ \/ platform = "posix" /\ Next
       \/ platform = "win32" /\ Win32!Next /\ UNCHANGED waiters

EitherInit == Init /\ platform \in {"posix", "win32"}

EitherSpec ==
    /\ EitherInit
    /\ [][EitherNext]_<<vars, platform>>
    /\ \A t \in Threads : WF_<<vars, platform>>(EitherStep(t) /\ UNCHANGED platform)
=============================================================================
