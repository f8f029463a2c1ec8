--------------------------- MODULE MC_WindowHook ---------------------------
(* Two kinds of system message (say WM_POWERBROADCAST and WM_ENDSESSION). *)
EXTENDS WindowHook

CONSTANTS m1, m2, quit

TwoMsgs == {m1, m2}
=============================================================================
