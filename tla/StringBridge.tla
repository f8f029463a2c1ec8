---------------------------- MODULE StringBridge ----------------------------
(***************************************************************************)
(* What the JNI entry points of aereg.cpp share: the copy of a Java string *)
(* into a fixed stack buffer (jstringToCharsW/A) and what a Java caller    *)
(* sees when a call returns.  A jstring is abstracted to its length.       *)
(***************************************************************************)
EXTENDS Integers, Sequences

CONSTANT JNull    \* a NULL jstring

JLen(j) == IF j = JNull THEN 0 ELSE j

(* The JNI return a caller sees: a value, or a pending exception. *)
Val(n) == [kind |-> "value", val |-> n]   \* a string (its length) or a jint
Exc == [kind |-> "exception"]
Garbage == [kind |-> "garbage"]   \* a string built from bytes the code never wrote
Silent == [kind |-> "returned"]   \* a void call that returned without an exception
NullStr == [kind |-> "null"]      \* a NULL jstring

(* throwException(env, operation, message): with the exception class      *)
(* global that initialise looked up, a new AEWin32AccessExceptionImpl is   *)
(* thrown; when the lookup failed (or initialise has not run) the class is *)
(* NULL, the failure is only printed to stderr, and the caller sees the    *)
(* value its entry point goes on to return.                                *)
Thrown(loaded, fallback) == IF loaded THEN Exc ELSE fallback

(* jstringToCharsW/A(env, jstr, chars, chars_len) into a buffer of cap     *)
(* characters: NULL gives ""; a string of chars_len characters or more    *)
(* throws "jstring truncation occurred"; otherwise chars[0..len] are      *)
(* written, which runs past the buffer when len + 1 > cap.                *)
ConvOk(len, charsLen) == len < charsLen
ConvOverruns(len, charsLen, cap) == ConvOk(len, charsLen) /\ len + 1 > cap

(* A sequence of conversions [len, limit, cap] run in order until one      *)
(* throws: whether all succeed, and whether any of those run wrote past    *)
(* its buffer.                                                             *)
Conv(len, limit, cap) == [len |-> len, limit |-> limit, cap |-> cap]

RECURSIVE Convert(_)
Convert(cs) ==
    IF cs = <<>> THEN [ok |-> TRUE, over |-> FALSE]
    ELSE LET c == Head(cs)
             rest == Convert(Tail(cs))
         IN IF ~ConvOk(c.len, c.limit)
              THEN [ok |-> FALSE, over |-> FALSE]
              ELSE [ok |-> rest.ok, over |-> ConvOverruns(c.len, c.limit, c.cap) \/ rest.over]

=============================================================================
