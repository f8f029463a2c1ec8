----------------------------- MODULE MC_ShellOps -----------------------------
(* Two files, two DACLs of which one has a larger security descriptor,     *)
(* and argument lengths short or at the edges of the stack buffers.        *)
EXTENDS ShellOps

CONSTANTS f1, f2, small, big, jnull

TwoFiles == {f1, f2}
TwoAcls == {small, big}
AclBytes == [a \in TwoAcls |-> IF a = small THEN 20 ELSE 44]

\* Short paths, as a Java caller passes them.
ShortPaths == [f \in TwoFiles |-> IF f = f1 THEN 8 ELSE 12]
\* f1 one character too long for moveToRecycleBinA (sizeof - 1 = 15999),
\* f2 the longest path copyPermissionA and testNativeAvailabilityA accept.
AnsiEdgePaths == [f \in TwoFiles |-> IF f = f1 THEN 15999 ELSE 2046]
\* f1 the longest path moveToRecycleBinA accepts.
WideRecyclePaths == [f \in TwoFiles |-> IF f = f1 THEN 15999 ELSE 12]

ShortCmds == {10}
AnsiEdgeCmds == {2047, 15999}
ShortOps == {4}
AnsiEdgeOps == {19, 20}
=============================================================================
