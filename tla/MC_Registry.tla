---------------------------- MODULE MC_Registry ----------------------------
(* Two hives (HKEY_LOCAL_MACHINE read-only to the process), two nested   *)
(* keys, the default value (a NULL value name) or one named value, and   *)
(* the registry contents the program finds.                              *)
EXTENDS Registry

CONSTANTS HKCU, HKLM, badType, k1, k2, v, root, jnull

TwoHives == {HKCU, HKLM}
Machine == {HKLM}
NestedKeys == {k1, k2}
Nesting == [k \in NestedKeys |-> IF k = k1 THEN root ELSE k1]
OneValue == {v}
NoNames == {}

\* Name lengths: short names, a name that fills a WCHAR[1024] twice over,
\* and a name that fills a char[1024] exactly.
ShortKeyLens == [k \in NestedKeys |-> IF k = k1 THEN 4 ELSE 9]
LongKeyLens  == [k \in NestedKeys |-> IF k = k1 THEN 4 ELSE 1500]
EdgeKeyLens  == [k \in NestedKeys |-> IF k = k1 THEN 1023 ELSE 1024]
ShortValueLen == [n \in OneValue |-> 5]
NoNameLen == [n \in NoNames |-> 0]

\* What the program finds: a REG_SZ, a REG_EXPAND_SZ and a REG_BINARY
\* under HKLM and a DWORD under HKCU, all written by other programs.
Found(unterminated) ==
    [l \in Locations |->
        CASE l = <<HKLM, k1, jnull>>   -> StrEntry("REG_SZ", IF unterminated THEN 512 ELSE 3, ~unterminated)
          [] l = <<HKLM, k2, jnull>>   -> StrEntry("REG_EXPAND_SZ", 10, TRUE)
          [] l = <<HKLM, root, jnull>> -> StrEntry("REG_BINARY", 6, FALSE)
          [] l = <<HKCU, k1, jnull>>   -> DwordEntry(7)
          [] OTHER                   -> NoValue]
FoundVals == Found(FALSE)
FoundUnterminated == Found(TRUE)
=============================================================================
