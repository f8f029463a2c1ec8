------------------------------ MODULE ShellOps ------------------------------
(***************************************************************************)
(* The file, shell and process calls of aereg.cpp: createProcess,          *)
(* shellExecAndWait, moveToRecycleBin, copyPermission,                     *)
(* testNativeAvailability and shellExecute, in their W and A variants.     *)
(*                                                                         *)
(* A Java thread makes one call at a time.  The calls that hold an OS      *)
(* resource across an OS call are split at those calls, so that other      *)
(* processes, which create and delete files and change their DACLs, can    *)
(* act in between:                                                         *)
(*   moveToRecycleBin   CreateFile (the existence check) | SHFileOperation *)
(*   copyPermission     GetFileSecurity(size), HeapAlloc | GetFileSecurity,*)
(*                      SetFileSecurity, HeapFree                          *)
(*   shellExecAndWait   ShellExecuteEx | WaitForSingleObject, exit code    *)
(* Strings are abstracted to their lengths; file names to the file they   *)
(* name, whose name has length FileLen[f].                                 *)
(***************************************************************************)
EXTENDS StringBridge

CONSTANTS
    NonUnicode,   \* the global non_unicode (false in this build)
    Files,        \* files the calls name
    FileLen,      \* FileLen[f]: the length of f's path
    Acls,         \* DACLs a file may have
    AclSize,      \* AclSize[a]: the bytes of a's security descriptor
    CmdLens,      \* lengths of command lines and parameter strings
    OpLens,       \* lengths of the ShellExecute verb
    ExitCodes,    \* exit codes of launched processes
    MaxEnv,       \* bound on the actions of other processes
    ModuleLen     \* the length of the DLL's path

VARIABLES
    exists,       \* the files that exist
    dacl,         \* each file's DACL
    recycled,     \* files moved to the recycle bin
    pc,           \* the Java caller's position in its call
    arg,          \* the arguments of the call in progress
    held,         \* OS resources the call holds: file, heap, process handles
    child,        \* the process shellExecAndWait waits for
    envSteps,     \* actions taken by other processes
    last,         \* ghost: what the last call returned
    overrun       \* ghost: some call wrote past a stack buffer

vars == <<exists, dacl, recycled, pc, arg, held, child, envSteps,
          last, overrun>>

PathLen(f) == FileLen[f]

(* A call returns: the caller is idle again. *)
Return(ret, over) ==
    /\ pc' = "idle"
    /\ last' = ret
    /\ overrun' = (overrun \/ over)

Begin(p, a, over) ==
    /\ pc' = p
    /\ arg' = a
    /\ overrun' = (overrun \/ over)

Idle == pc = "idle"

Resources == {"file", "heap", "process"}

Init ==
    /\ exists = Files
    /\ dacl \in [Files -> Acls]
    /\ recycled = {}
    /\ pc = "idle" /\ arg = "none" /\ held = {} /\ child = "none"
    /\ envSteps = 0
    /\ last = Silent /\ overrun = FALSE

-----------------------------------------------------------------------------
(* createProcessW/A(command_line, inherit_handles): CreateProcess with    *)
(* DETACHED_PROCESS; on success both handles are closed at once, on      *)
(* failure "CreateProcess failed" is thrown.                             *)
CreateProcess(cv) ==
    /\ Idle
    /\ LET c == Convert(<<cv>>) IN
         \/ ~c.ok /\ Return(Exc, FALSE)
         \/ c.ok /\ \E ok \in BOOLEAN : Return(IF ok THEN Silent ELSE Exc, c.over)
    /\ UNCHANGED <<exists, dacl, recycled, arg, held, child, envSteps>>

CreateProcessW(cl) == CreateProcess(Conv(JLen(cl), 32000, 16000))
CreateProcessA(cl) == CreateProcess(Conv(JLen(cl), 16000, 16000))

(* shellExecAndWaitW/A(file, params): ShellExecuteEx with "runas" and     *)
(* SEE_MASK_NOCLOSEPROCESS.  hInstApp <= 32 throws.  Otherwise hProcess   *)
(* is waited for without a timeout; it is NULL when no process was        *)
(* launched, and then the wait and GetExitCodeProcess fail at once.       *)
ShellExecStart(cvs) ==
    /\ Idle
    /\ LET c == Convert(cvs) IN
         \/ ~c.ok /\ Return(Exc, FALSE) /\ UNCHANGED <<arg, held, child>>
         \/ c.ok /\ Return(Exc, c.over) /\ UNCHANGED <<arg, held, child>>
         \/ c.ok /\ Begin("wait", "none", c.over) /\ held' = {"process"}
                 /\ child' = "running" /\ UNCHANGED last
         \/ c.ok /\ Begin("wait", "none", c.over) /\ child' = "none"
                 /\ UNCHANGED <<held, last>>
    /\ UNCHANGED <<exists, dacl, recycled, envSteps>>

ShellExecAndWaitW(file, params) ==
    ShellExecStart(<<Conv(JLen(file), 4096, 2048), Conv(JLen(params), 4096, 2048)>>)
ShellExecAndWaitA(file, params) ==
    ShellExecStart(<<Conv(JLen(file), 2048, 2048), Conv(JLen(params), 2048, 2048)>>)

(* WaitForSingleObject(process, INFINITE) returns once the process has    *)
(* exited (or at once for NULL); then GetExitCodeProcess, CloseHandle.    *)
ShellExecWait ==
    /\ pc = "wait"
    /\ child \in {"none", "exited"}
    /\ IF child = "exited"
         THEN \E code \in ExitCodes : Return(Val(code), FALSE)
         ELSE Return(Exc, FALSE)
    /\ held' = {}
    /\ child' = "none"
    /\ UNCHANGED <<exists, dacl, recycled, arg, envSteps>>

(* moveToRecycleBinW/A(file_name): converted with chars_len sizeof - 1;  *)
(* CreateFile(OPEN_EXISTING) is the existence check ("file not found").  *)
RecycleCheck(f, cv) ==
    /\ Idle
    /\ LET c == Convert(<<cv>>) IN
         \/ ~c.ok /\ Return(Exc, FALSE) /\ UNCHANGED <<arg, held>>
         \/ c.ok /\ f \notin exists /\ Return(Exc, c.over) /\ UNCHANGED <<arg, held>>
         \/ c.ok /\ f \in exists /\ Begin("recycle", f, c.over) /\ held' = {"file"}
            /\ UNCHANGED last
    /\ UNCHANGED <<exists, dacl, recycled, child, envSteps>>

MoveToRecycleBinW(f) == RecycleCheck(f, Conv(PathLen(f), 31999, 16000))
MoveToRecycleBinA(f) == RecycleCheck(f, Conv(PathLen(f), 15999, 16000))

(* pFrom is a list of names ended by an empty one.  Without the second    *)
(* NUL the bytes after the name are whatever the stack held, and          *)
(* SHFileOperation may read further names from them.                      *)
RecycleLists(f) == {{f}}

(* CloseHandle; file_name[len + 1] = 0, past the buffer when len + 1 is   *)
(* 16000, the size of file_name in both variants; then                    *)
(* SHFileOperation(FO_DELETE, FOF_ALLOWUNDO) moves the files of pFrom to  *)
(* the recycle bin, and fails when one no longer exists.                  *)
Recycle ==
    /\ pc = "recycle"
    /\ held' = {}
    /\ \E list \in RecycleLists(arg) :
         IF list \subseteq exists
           THEN /\ exists' = exists \ list
                /\ recycled' = recycled \cup list
                /\ Return(Silent, PathLen(arg) + 1 >= 16000)
           ELSE /\ Return(Exc, PathLen(arg) + 1 >= 16000)
                /\ UNCHANGED <<exists, recycled>>
    /\ UNCHANGED <<dacl, arg, child, envSteps>>


(* copyPermissionW/A(in, out): both names converted with sizeof - 1.     *)
(* GetFileSecurity(in, DACL, NULL, 0, &cb) must fail with                *)
(* ERROR_INSUFFICIENT_BUFFER, which gives the size; it fails with        *)
(* ERROR_FILE_NOT_FOUND for a missing file.  Then HeapAlloc(cb), which   *)
(* may fail ("no memory").                                               *)
CopyPermStart(fin, fout, cvs) ==
    /\ Idle
    /\ LET c == Convert(cvs) IN
         \/ ~c.ok /\ Return(Exc, FALSE) /\ UNCHANGED <<arg, held>>
         \/ c.ok /\ fin \notin exists /\ Return(Exc, c.over) /\ UNCHANGED <<arg, held>>
         \/ c.ok /\ fin \in exists /\ Return(Exc, c.over) /\ UNCHANGED <<arg, held>>  \* no memory
         \/ /\ c.ok /\ fin \in exists
            /\ Begin("copy", [in |-> fin, out |-> fout, cb |-> AclSize[dacl[fin]]], c.over)
            /\ held' = {"heap"}
            /\ UNCHANGED last
    /\ UNCHANGED <<exists, dacl, recycled, child, envSteps>>

CopyPermissionW(fin, fout) ==
    CopyPermStart(fin, fout, <<Conv(PathLen(fin), 4095, 2048), Conv(PathLen(fout), 4095, 2048)>>)
CopyPermissionA(fin, fout) ==
    CopyPermStart(fin, fout, <<Conv(PathLen(fin), 2047, 2048), Conv(PathLen(fout), 2047, 2048)>>)

(* The second GetFileSecurity fails: myheapfree, then throw. *)
GetSecurityFailedNoFree ==
    /\ UNCHANGED held
    /\ Return(Exc, FALSE)
GetSecurityFailed ==
    /\ held' = {}
    /\ Return(Exc, FALSE)

(* GetFileSecurity(in, DACL, sd, cb, &cb) fails when the file is gone or  *)
(* its descriptor has grown past cb since the size query; otherwise       *)
(* SetFileSecurity(out, DACL, sd) copies it, unless out does not exist;   *)
(* myheapfree either way.                                                 *)
CopyPermFinish ==
    /\ pc = "copy"
    /\ IF arg.in \notin exists \/ AclSize[dacl[arg.in]] > arg.cb
         THEN GetSecurityFailed /\ UNCHANGED dacl
         ELSE /\ held' = {}
              /\ IF arg.out \in exists
                   THEN dacl' = [dacl EXCEPT ![arg.out] = dacl[arg.in]] /\ Return(Silent, FALSE)
                   ELSE UNCHANGED dacl /\ Return(Exc, FALSE)
    /\ UNCHANGED <<exists, recycled, arg, child, envSteps>>

(* testNativeAvailabilityW/A(name): LoadLibraryEx(LOAD_LIBRARY_AS_DATAFILE) *)
(* and FreeLibrary in one go: 1 when it loads, 0 otherwise.                  *)
TestNativeAvailability(cv) ==
    /\ Idle
    /\ LET c == Convert(<<cv>>) IN
         \/ ~c.ok /\ Return(Exc, FALSE)
         \/ c.ok /\ \E loads \in BOOLEAN : Return(Val(IF loads THEN 1 ELSE 0), c.over)
    /\ UNCHANGED <<exists, dacl, recycled, arg, held, child, envSteps>>

TestNativeAvailabilityW(f) == TestNativeAvailability(Conv(PathLen(f), 4095, 2048))
TestNativeAvailabilityA(f) == TestNativeAvailability(Conv(PathLen(f), 2047, 2048))

(* shellExecuteW/A(operation, file, parameters, directory, showCmd): four  *)
(* conversions (-1 on failure), then ShellExecute's HINSTANCE.             *)
ShellExecute(cvs) ==
    /\ Idle
    /\ LET c == Convert(cvs) IN
         \/ ~c.ok /\ Return(Exc, FALSE)
         \/ c.ok /\ \E code \in {2, 42} : Return(Val(code), c.over)
    /\ UNCHANGED <<exists, dacl, recycled, arg, held, child, envSteps>>

ShellExecuteW(op, f, params, dir) ==
    ShellExecute(<<Conv(JLen(op), 40, 20), Conv(PathLen(f), 10384, 5192),
                   Conv(JLen(params), 32000, 16000), Conv(JLen(dir), 10384, 5192)>>)
ShellExecuteA(op, f, params, dir) ==
    ShellExecute(<<Conv(JLen(op), 20, 20), Conv(PathLen(f), 5192, 5192),
                   Conv(JLen(params), 16000, 16000), Conv(JLen(dir), 5192, 5192)>>)

(* getModuleNameW/A: GetModuleFileName(application_module, buffer, nSize) *)
(* writes the path, cut to nSize - 1 characters, and a NUL into buffer;   *)
(* the W variant passes sizeof(buffer), 4096, for a WCHAR[2048].          *)
GetModuleName(bufChars, nSize) ==
    /\ Idle
    /\ LET n == IF ModuleLen < nSize THEN ModuleLen ELSE nSize - 1
       IN Return(Val(n), n + 1 > bufChars)
    /\ UNCHANGED <<exists, dacl, recycled, arg, held, child, envSteps>>

GetModuleNameW == GetModuleName(2048, 4096)
GetModuleNameA == GetModuleName(2048, 2048)

-----------------------------------------------------------------------------
(***************************************************************************)
(* Other processes, between the steps of a call: a file is deleted or     *)
(* created, or its DACL is replaced; the launched process exits.          *)
(***************************************************************************)
EnvStep ==
    /\ envSteps < MaxEnv
    /\ envSteps' = envSteps + 1
    /\ \/ \E f \in exists : exists' = exists \ {f} /\ UNCHANGED dacl
       \/ \E f \in Files \ (exists \cup recycled) : exists' = exists \cup {f} /\ UNCHANGED dacl
       \/ \E f \in exists, a \in Acls : dacl' = [dacl EXCEPT ![f] = a] /\ UNCHANGED exists
    /\ UNCHANGED <<recycled, pc, arg, held, child, last, overrun>>

ChildExits ==
    /\ child = "running"
    /\ child' = "exited"
    /\ UNCHANGED <<exists, dacl, recycled, pc, arg, held, envSteps, last, overrun>>

(* The Java entry points call the W variant unless non_unicode is set. *)
Variant(w, a) == IF NonUnicode THEN a ELSE w

Call ==
    \/ Variant(GetModuleNameW, GetModuleNameA)
    \/ \E cl \in CmdLens : Variant(CreateProcessW(cl), CreateProcessA(cl))
    \/ \E f \in CmdLens, p \in CmdLens :
         Variant(ShellExecAndWaitW(f, p), ShellExecAndWaitA(f, p))
    \/ \E f \in Files : Variant(MoveToRecycleBinW(f), MoveToRecycleBinA(f))
    \/ \E fin, fout \in Files : Variant(CopyPermissionW(fin, fout), CopyPermissionA(fin, fout))
    \/ \E f \in Files : Variant(TestNativeAvailabilityW(f), TestNativeAvailabilityA(f))
    \/ \E op \in OpLens, f \in Files, p \in CmdLens :
         Variant(ShellExecuteW(op, f, p, JNull), ShellExecuteA(op, f, p, JNull))

Continue == ShellExecWait \/ Recycle \/ CopyPermFinish

Next == Call \/ Continue \/ EnvStep \/ ChildExits

Spec == Init /\ [][Next]_vars

-----------------------------------------------------------------------------
(***************************************************************************)
(* Properties.                                                             *)
(***************************************************************************)

(* Whenever the Java caller is back from a call, whatever the call's path  *)
(* (a conversion failure, a missing file, a failing second                 *)
(* GetFileSecurity after the file changed), it holds no file handle, no   *)
(* heap block and no process handle.                                       *)
HandlesReleased == Idle => held = {}

(* No call writes past one of its stack buffers: not the conversion of    *)
(* an argument, nor moveToRecycleBin's second terminating NUL.            *)
NoOverrun == ~overrun

=============================================================================
