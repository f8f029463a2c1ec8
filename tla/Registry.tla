------------------------------ MODULE Registry ------------------------------
(***************************************************************************)
(* The registry calls of aereg.cpp: read/write of string and DWORD values, *)
(* deletion of keys and values, each in a Unicode (W) and an ANSI (A)      *)
(* variant, chosen by the global non_unicode.                              *)
(*                                                                         *)
(* A call is one step: the Java caller invokes an entry point with         *)
(* arguments from small sets, and the step follows the code's path through *)
(* mapHKEY, the jstringToChars conversions and the registry API, with its  *)
(* early returns.  The registry itself is the store the calls act on: a    *)
(* set of keys under each hive and a function from (hive, key, value name) *)
(* to the stored entry.  A jstring is abstracted to its length (strings of *)
(* the same length are told apart only by their key or value identity).   *)
(*                                                                         *)
(* Two ghosts record what the caller sees and what the C code did:         *)
(*   last     the entry point, the value it addressed and what it returned *)
(*   overrun  some call wrote or read past the end of a stack buffer       *)
(***************************************************************************)
EXTENDS StringBridge

CONSTANTS
    NonUnicode,   \* the global non_unicode (false in this build)
    Hives,        \* the HKEY_* types mapHKEY accepts
    BadTypes,     \* jint types mapHKEY rejects
    ReadOnly,     \* hives where the process may not create or delete keys
    Keys,         \* subkey names
    Parent,       \* Parent[k]: the key k is created under (Root: the hive)
    KeyLen,       \* KeyLen[k]: the length of k's name in characters
    ValueNames,   \* value names
    VNameLen,     \* their lengths
    Words,        \* jint values written by writeWordValue
    StrLens,      \* lengths of the strings written by writeStringValue
    ExpandLens,   \* lengths ExpandEnvironmentStrings may expand a value to
    InitVals,     \* the values in the registry before the program runs
    Root,         \* the hive's own key (subkey name "")
    ExcClassLoaded, \* initialise found AEWin32AccessExceptionImpl
    MaxOther      \* bound on the changes other programs make

ASSUME Root \notin Keys /\ JNull \notin ValueNames

VARIABLES reg, vals, last, overrun,
    pending,      \* a deleteKey between its RegCloseKey and its delete
    others        \* changes other programs have made

vars == <<reg, vals, last, overrun, pending, others>>

NoPending == [active |-> FALSE, loc |-> <<Root, Root, JNull>>, recursive |-> FALSE, over |-> FALSE]

Locations == Hives \X (Keys \cup {Root}) \X (ValueNames \cup {JNull})

(* Stored entries: a DWORD, or a string of len characters (for REG_BINARY, *)
(* len bytes) that may or may not end with a terminating NUL.             *)
StringTypes == {"REG_SZ", "REG_EXPAND_SZ", "REG_MULTI_SZ", "REG_BINARY"}
DwordEntry(w) == [type |-> "REG_DWORD", word |-> w]
StrEntry(t, n, term) == [type |-> t, len |-> n, term |-> term]
NoValue == [type |-> "none"]

-----------------------------------------------------------------------------
(* Strings and buffers.                                                    *)

RECURSIVE AncestorsOf(_)
AncestorsOf(k) == IF Parent[k] = Root THEN {} ELSE {Parent[k]} \cup AncestorsOf(Parent[k])

(* The bytes RegQueryValueExW/A reports for an entry: Unicode strings take *)
(* two bytes a character, ANSI strings one; a terminator counts.          *)
SizeW(e) == CASE e.type = "REG_DWORD"  -> 4
              [] e.type = "REG_BINARY" -> e.len
              [] OTHER                 -> 2 * (e.len + IF e.term THEN 1 ELSE 0)
SizeA(e) == CASE e.type = "REG_DWORD"  -> 4
              [] e.type = "REG_BINARY" -> e.len
              [] OTHER                 -> e.len + IF e.term THEN 1 ELSE 0

(* BYTE value[1024]: RegQueryValueEx fails (ERROR_MORE_DATA, or           *)
(* ERROR_FILE_NOT_FOUND) unless the entry exists and fits.                *)
ValueBytes == 1024
QueryOk(e, size) == e # NoValue /\ size <= ValueBytes

(* wcslen/strlen/NewStringUTF over value[] holding an unterminated string *)
(* of size bytes: when it fills the buffer the scan runs past it; when it *)
(* does not, it reads the uninitialised rest, which may or may not hold a *)
(* zero before the end.  Either way the string returned is not the value. *)
ScanPast(size) == {TRUE} \cup IF size < ValueBytes THEN {FALSE} ELSE {}

-----------------------------------------------------------------------------
(* The steps of a call.                                                    *)

SubKey(sk) == IF sk = JNull THEN Root ELSE sk
SubKeyLen(sk) == IF sk = JNull THEN 0 ELSE KeyLen[sk]
VLen(vn) == IF vn = JNull THEN 0 ELSE VNameLen[vn]
KeyPresent(h, k) == k = Root \/ <<h, k>> \in reg

(* mapHKEY: an unsupported type throws "unsupported type"; callers return. *)
MapHKEY(t) == t \in Hives

(* What an entry point returns after a throwException: NULL from         *)
(* readStringValue, its result variable (0, or the NULL of an early        *)
(* return) from readWordValue, nothing from the void calls.               *)
Fallback(op) ==
    CASE op = "readString" -> NullStr
      [] op = "readWord"   -> Val(0)
      [] OTHER             -> Silent

(* The call returns ret, Exc standing for a throwException on its path;  *)
(* the ghost also keeps the entry stored at loc when the call was made.   *)
Return(op, loc, ret, over) ==
    /\ last' = [op |-> op, loc |-> loc,
                stored |-> IF loc \in Locations THEN vals[loc] ELSE NoValue,
                ret |-> IF ret = Exc THEN Thrown(ExcClassLoaded, Fallback(op)) ELSE ret]
    /\ overrun' = (overrun \/ over)

(* The W functions convert names into WCHAR[1024] but pass sizeof, 2048,  *)
(* as chars_len; the A functions convert into char[1024] and pass 1024.   *)
NameConvW(len) == Conv(len, 2048, 1024)
NameConvA(len) == Conv(len, 1024, 1024)

(* The name conversion and the entry size of the W ("W") or A ("A")       *)
(* variant of a call.                                                     *)
NameConv(v, len) == IF v = "W" THEN NameConvW(len) ELSE NameConvA(len)
ValueSize(v, e) == IF v = "W" THEN SizeW(e) ELSE SizeA(e)

(* RegCreateKeyExW/A(..., KEY_ALL_ACCESS, ...) creates the key and every *)
(* missing key above it, unless the hive is read-only to this process.   *)
CreateKeyWithRoot(h, k) ==
    reg' = reg \cup {<<h, a>> : a \in {k} \cup (IF k = Root THEN {} ELSE AncestorsOf(k))}
CreateKey(h, k) ==
    reg' = reg \cup {<<h, a>> : a \in (IF k = Root THEN {} ELSE {k} \cup AncestorsOf(k))}

(* The entry a successful RegSetValueEx(..., REG_SZ, value, (len+1) *     *)
(* sizeof(char type)) stores: the string with its terminator.             *)
StoredStringNoNul(len) == StrEntry("REG_SZ", len, FALSE)
StoredString(len) == StrEntry("REG_SZ", len, TRUE)

(* The result of readStringValue once RegQueryValueEx succeeded, with the *)
(* types the variant accepts, the expansion buffer's size and the nSize   *)
(* it passes, and the bytes an entry takes in it:                         *)
(*  - REG_EXPAND_SZ: ExpandEnvironmentStrings writes n+1 characters when  *)
(*    they fit nSize, past the buffer when nSize exceeds it; when they do *)
(*    not fit nothing is written and the scan of the uninitialised buffer *)
(*    may or may not stop inside it;                                      *)
(*  - REG_BINARY (W only): value_length / 2 characters;                   *)
(*  - REG_SZ, REG_MULTI_SZ: the characters up to the first NUL.           *)
(* Each result is [ret, over].                                            *)
StringResult(e, size, types, expBuf, nSize) ==
    CASE e.type \notin types ->
            {[ret |-> Exc, over |-> FALSE]}
      [] e.type = "REG_EXPAND_SZ" ->
            {[ret |-> IF n + 1 <= nSize /\ e.term THEN Val(n) ELSE Garbage,
              over |-> IF n + 1 <= nSize THEN n + 1 > expBuf \/ ~e.term ELSE past] :
               n \in ExpandLens, past \in BOOLEAN}
      [] e.type = "REG_BINARY" ->
            {[ret |-> Val(e.len \div 2), over |-> FALSE]}
      [] e.term ->
            {[ret |-> Val(e.len), over |-> FALSE]}
      [] OTHER ->
            {[ret |-> Garbage, over |-> past] : past \in ScanPast(size)}

(* readStringValueW/A(type, subkey, value name). *)
ReadString(t, sk, vn, v, types, expBuf, nSize) ==
    LET loc == <<t, SubKey(sk), vn>>
        c   == Convert(<<NameConv(v, SubKeyLen(sk)), NameConv(v, VLen(vn))>>)
    IN /\ \/ ~MapHKEY(t) /\ Return("readString", loc, Exc, FALSE)
          \/ MapHKEY(t) /\ ~c.ok /\ Return("readString", loc, Exc, c.over)
          \/ /\ MapHKEY(t) /\ c.ok
             /\ \/ ~KeyPresent(t, SubKey(sk)) /\ Return("readString", loc, Exc, c.over)
                \/ /\ KeyPresent(t, SubKey(sk))
                   /\ LET e == vals[loc] IN
                      \/ ~QueryOk(e, ValueSize(v, e)) /\ Return("readString", loc, Exc, c.over)
                      \/ /\ QueryOk(e, ValueSize(v, e))
                         /\ \E r \in StringResult(e, ValueSize(v, e), types, expBuf, nSize) :
                              Return("readString", loc, r.ret, c.over \/ r.over)
       /\ UNCHANGED <<reg, vals>>

ReadStringValueW(t, sk, vn) ==
    ReadString(t, sk, vn, "W", StringTypes, 2048, 4096)
ReadStringValueA(t, sk, vn) ==
    ReadString(t, sk, vn, "A", StringTypes \ {"REG_BINARY"}, 2048, 2048)

(* readWordValueW/A: a REG_DWORD gives (LONG)value[0]. *)
WordResult(w) == w % 256

ReadWord(t, sk, vn, v) ==
    LET loc == <<t, SubKey(sk), vn>>
        c   == Convert(<<NameConv(v, SubKeyLen(sk)), NameConv(v, VLen(vn))>>)
    IN /\ \/ ~MapHKEY(t) /\ Return("readWord", loc, Exc, FALSE)
          \/ MapHKEY(t) /\ ~c.ok /\ Return("readWord", loc, Exc, c.over)
          \/ /\ MapHKEY(t) /\ c.ok
             /\ \/ ~KeyPresent(t, SubKey(sk)) /\ Return("readWord", loc, Exc, c.over)
                \/ /\ KeyPresent(t, SubKey(sk))
                   /\ LET e == vals[loc] IN
                      \/ ~QueryOk(e, ValueSize(v, e)) /\ Return("readWord", loc, Exc, c.over)
                      \/ /\ QueryOk(e, ValueSize(v, e)) /\ e.type # "REG_DWORD"
                         /\ Return("readWord", loc, Exc, c.over)
                      \/ /\ QueryOk(e, ValueSize(v, e)) /\ e.type = "REG_DWORD"
                         /\ Return("readWord", loc, Val(WordResult(e.word)), c.over)
       /\ UNCHANGED <<reg, vals>>

ReadWordValueW(t, sk, vn) == ReadWord(t, sk, vn, "W")
ReadWordValueA(t, sk, vn) == ReadWord(t, sk, vn, "A")

(* writeWordValueW/A and writeStringValueW/A: convert the names (and the  *)
(* string), RegCreateKeyEx, then RegSetValueEx of the new entry.          *)
Write(op, t, sk, vn, convs, entry) ==
    LET loc == <<t, SubKey(sk), vn>>
        c   == Convert(convs)
    IN \/ ~MapHKEY(t) /\ Return(op, loc, Exc, FALSE) /\ UNCHANGED <<reg, vals>>
       \/ MapHKEY(t) /\ ~c.ok /\ Return(op, loc, Exc, c.over) /\ UNCHANGED <<reg, vals>>
       \/ /\ MapHKEY(t) /\ c.ok /\ t \in ReadOnly
          /\ Return(op, loc, Exc, c.over) /\ UNCHANGED <<reg, vals>>
       \/ /\ MapHKEY(t) /\ c.ok /\ t \notin ReadOnly
          /\ CreateKey(t, SubKey(sk))
          /\ vals' = [vals EXCEPT ![loc] = entry]
          /\ Return(op, loc, Silent, c.over)

WriteWordValueW(t, sk, vn, w) ==
    Write("writeWord", t, sk, vn,
          <<NameConvW(SubKeyLen(sk)), NameConvW(VLen(vn))>>, DwordEntry(w))
WriteWordValueA(t, sk, vn, w) ==
    Write("writeWord", t, sk, vn,
          <<NameConvA(SubKeyLen(sk)), NameConvA(VLen(vn))>>, DwordEntry(w))
WriteStringValueW(t, sk, vn, sv) ==
    Write("writeString", t, sk, vn,
          <<NameConvW(SubKeyLen(sk)), NameConvW(VLen(vn)), NameConvW(JLen(sv))>>,
          StoredString(JLen(sv)))
WriteStringValueA(t, sk, vn, sv) ==
    Write("writeString", t, sk, vn,
          <<NameConvA(SubKeyLen(sk)), NameConvA(VLen(vn)), NameConvA(JLen(sv))>>,
          StoredString(JLen(sv)))

(* The keys at and below k, and the registry without their values. *)
Subtree(k) == {k} \cup {d \in Keys : k \in AncestorsOf(d)}
HasSubkeys(h, k) == \E d \in Keys : Parent[d] = k /\ <<h, d>> \in reg
RemoveKeys(h, ks) ==
    /\ reg' = reg \ ({h} \X ks)
    /\ vals' = [l \in Locations |-> IF l[1] = h /\ l[2] \in ks THEN NoValue ELSE vals[l]]

(* deleteKeyW/A(type, subkey, recursive): a key RegOpenKey cannot open is *)
(* left alone without an exception.  One it opens is closed again, and    *)
(* the call goes on to delete it by name (DeleteKeyFinish).               *)
DeleteKey(t, k, recursive, v) ==
    LET loc == <<t, k, JNull>>
        c   == Convert(<<NameConv(v, KeyLen[k])>>)
    IN \/ ~MapHKEY(t) /\ Return("deleteKey", loc, Exc, FALSE) /\ UNCHANGED <<reg, vals, pending>>
       \/ MapHKEY(t) /\ ~c.ok /\ Return("deleteKey", loc, Exc, c.over) /\ UNCHANGED <<reg, vals, pending>>
       \/ /\ MapHKEY(t) /\ c.ok /\ ~KeyPresent(t, k)
          /\ Return("deleteKey", loc, Silent, c.over) /\ UNCHANGED <<reg, vals, pending>>
       \/ /\ MapHKEY(t) /\ c.ok /\ KeyPresent(t, k)
          /\ pending' = [active |-> TRUE, loc |-> loc, recursive |-> recursive, over |-> c.over]
          /\ UNCHANGED <<reg, vals, last, overrun>>

(* The rest of deleteKey: SHDeleteKey removes the whole subtree, and      *)
(* RegDeleteKey fails on a key that has subkeys; both fail on a key that  *)
(* is gone by now.                                                         *)
DeleteKeyFinish ==
    /\ pending.active
    /\ LET t == pending.loc[1]
           k == pending.loc[2]
           fail == Return("deleteKey", pending.loc, Exc, pending.over) /\ UNCHANGED <<reg, vals>>
       IN IF ~KeyPresent(t, k) \/ t \in ReadOnly \/ (~pending.recursive /\ HasSubkeys(t, k))
            THEN fail
            ELSE /\ RemoveKeys(t, IF pending.recursive THEN Subtree(k) ELSE {k})
                 /\ Return("deleteKey", pending.loc, Silent, pending.over)
    /\ pending' = NoPending

DeleteKeyW(t, k, recursive) == DeleteKey(t, k, recursive, "W")
DeleteKeyA(t, k, recursive) == DeleteKey(t, k, recursive, "A")

(* deleteValueW/A: silent when the key cannot be opened; SHDeleteValue    *)
(* fails when the value is missing or the hive is read-only.             *)
DeleteValue(t, sk, vn, v) ==
    LET loc == <<t, SubKey(sk), vn>>
        c   == Convert(<<NameConv(v, SubKeyLen(sk)), NameConv(v, VLen(vn))>>)
    IN \/ ~MapHKEY(t) /\ Return("deleteValue", loc, Exc, FALSE) /\ UNCHANGED <<reg, vals>>
       \/ MapHKEY(t) /\ ~c.ok /\ Return("deleteValue", loc, Exc, c.over) /\ UNCHANGED <<reg, vals>>
       \/ /\ MapHKEY(t) /\ c.ok /\ ~KeyPresent(t, SubKey(sk))
          /\ Return("deleteValue", loc, Silent, c.over) /\ UNCHANGED <<reg, vals>>
       \/ /\ MapHKEY(t) /\ c.ok /\ KeyPresent(t, SubKey(sk))
          /\ IF t \in ReadOnly \/ vals[loc] = NoValue
               THEN Return("deleteValue", loc, Exc, c.over) /\ UNCHANGED <<reg, vals>>
               ELSE /\ vals' = [vals EXCEPT ![loc] = NoValue]
                    /\ Return("deleteValue", loc, Silent, c.over)
                    /\ UNCHANGED reg

DeleteValueW(t, sk, vn) == DeleteValue(t, sk, vn, "W")
DeleteValueA(t, sk, vn) == DeleteValue(t, sk, vn, "A")

-----------------------------------------------------------------------------
(* The exported entry points: each calls its A variant when non_unicode  *)
(* is set and its W variant otherwise.                                   *)

ReadStringValue(t, sk, vn) ==
    IF NonUnicode THEN ReadStringValueA(t, sk, vn) ELSE ReadStringValueW(t, sk, vn)
ReadWordValue(t, sk, vn) ==
    IF NonUnicode THEN ReadWordValueA(t, sk, vn) ELSE ReadWordValueW(t, sk, vn)
WriteStringValue(t, sk, vn, sv) ==
    IF NonUnicode THEN WriteStringValueA(t, sk, vn, sv) ELSE WriteStringValueW(t, sk, vn, sv)
WriteWordValue(t, sk, vn, w) ==
    IF NonUnicode THEN WriteWordValueA(t, sk, vn, w) ELSE WriteWordValueW(t, sk, vn, w)
DeleteKeyCall(t, k, recursive) ==
    IF NonUnicode THEN DeleteKeyA(t, k, recursive) ELSE DeleteKeyW(t, k, recursive)
DeleteValueCall(t, sk, vn) ==
    IF NonUnicode THEN DeleteValueA(t, sk, vn) ELSE DeleteValueW(t, sk, vn)

-----------------------------------------------------------------------------
Entries == {NoValue} \cup [type : {"REG_DWORD"}, word : Int]
           \cup [type : StringTypes, len : Nat, term : BOOLEAN]

Init ==
    /\ vals = InitVals
    /\ reg = UNION {{l[1]} \X ({l[2]} \cup AncestorsOf(l[2])) :
                    l \in {l \in Locations : InitVals[l] # NoValue /\ l[2] # Root}}
    /\ last = [op |-> "none", loc |-> "none", stored |-> NoValue, ret |-> Silent]
    /\ overrun = FALSE
    /\ pending = NoPending
    /\ others = 0

(* Another program deletes a key with everything below it, or creates a  *)
(* key with the keys above it, in any hive.                              *)
OtherProgram ==
    /\ others < MaxOther
    /\ \E h \in Hives, k \in Keys :
         \/ KeyPresent(h, k) /\ RemoveKeys(h, Subtree(k))
         \/ ~KeyPresent(h, k) /\ CreateKey(h, k) /\ UNCHANGED vals
    /\ others' = others + 1
    /\ UNCHANGED <<last, overrun, pending>>

Types == Hives \cup BadTypes
SubKeyArgs == Keys \cup {JNull}
ValueArgs == ValueNames \cup {JNull}

(* The Java caller makes one call at a time; other programs change the   *)
(* registry between calls and within deleteKey.                          *)
Next ==
    \/ /\ ~pending.active
       /\ \E t \in Types, sk \in SubKeyArgs, vn \in ValueArgs :
            \/ /\ \/ ReadStringValue(t, sk, vn)
                  \/ ReadWordValue(t, sk, vn)
                  \/ \E sv \in StrLens \cup {JNull} : WriteStringValue(t, sk, vn, sv)
                  \/ \E w \in Words : WriteWordValue(t, sk, vn, w)
                  \/ DeleteValueCall(t, sk, vn)
               /\ UNCHANGED pending
            \/ sk \in Keys /\ \E r \in BOOLEAN : DeleteKeyCall(t, sk, r)
       /\ UNCHANGED others
    \/ DeleteKeyFinish /\ UNCHANGED others
    \/ OtherProgram

Spec == Init /\ [][Next]_vars

-----------------------------------------------------------------------------
(* Properties.                                                             *)

(* No call writes or reads past one of its stack buffers: the name and    *)
(* value conversions of jstringToChars, the ExpandEnvironmentStrings      *)
(* output, and the string scans over the value[] the query filled.       *)
NoOverrun == ~overrun

(* A readStringValue that returns a string for the REG_SZ value stored   *)
(* when it was called returns it exactly (its length here), whichever     *)
(* call stored it: the terminator                                         *)
(* writeStringValue stores is what the read's wcslen/NewStringUTF needs.  *)
StringReadMatchesStored ==
    (last.op = "readString" /\ last.ret \notin {Exc, NullStr}
       /\ last.stored.type = "REG_SZ")
      => last.ret = Val(last.stored.len)

(* A deleteKey that throws leaves the key it names in place: the caller  *)
(* may take the exception to mean the key is still there.                *)
DeleteKeyFailureKeepsKey ==
    [][(pending.active /\ ~pending'.active /\ last'.ret = Exc)
         => <<pending.loc[1], pending.loc[2]>> \in reg']_vars

(* A readWordValue that returns without an exception read a REG_DWORD    *)
(* stored when it was called, and returns it as writeWordValue wrote it: *)
(* a missing key or value, a string entry or a bad hive type is never    *)
(* reported as a number, whatever writes and deletes, by this process or *)
(* others, came before.                                                   *)
ReadWordReturnsStored ==
    (last.op = "readWord" /\ last.ret # Exc)
      => /\ last.stored.type = "REG_DWORD"
         /\ last.ret = Val(last.stored.word)

=============================================================================
