----------------------------- MODULE WindowHook -----------------------------
(***************************************************************************)
(* The window hook of aereg.cpp: two threads share the globals jvm,       *)
(* AEWin32AccessInterface_class and uThreadId.                            *)
(*                                                                         *)
(*  - The Java thread loads the DLL (DllMain registers the window class), *)
(*    calls initialise (publishes the globals, starts the window thread)  *)
(*    and may later call destroy (posts WM_QUIT to uThreadId).            *)
(*  - The window thread (CreateWndThreadW) creates the hook window, whose *)
(*    creation already dispatches messages to WndProcW, and then runs the *)
(*    GetMessageW/DispatchMessageW loop until it retrieves WM_QUIT.       *)
(*  - The system posts window messages to the hook window.                *)
(*                                                                         *)
(* WndProcW forwards every message to callback, which attaches to the JVM *)
(* and calls the static Java method AEWin32AccessInterface.callback.      *)
(* A thread's message queue exists from its first window call on          *)
(* (CreateWindowW); PostThreadMessage to a thread without one fails, and  *)
(* destroy ignores the failure.                                           *)
(***************************************************************************)
EXTENDS Naturals, Sequences, SequencesExt

CONSTANTS
    SysMsgs,      \* window messages the system may post to the hook window
    Quit,         \* WM_QUIT
    MaxPosted     \* bound on the system messages posted in one behaviour

ASSUME Quit \notin SysMsgs /\ MaxPosted \in Nat

VARIABLES
    dllLoaded,    \* DllMain(DLL_PROCESS_ATTACH) has run
    classReg,     \* RegisterClassExW succeeded
    jvm,          \* the global jvm is set
    ifaceClass,   \* the global AEWin32AccessInterface_class is set
    excClass,     \* the global AEWin32AccessExceptionImpl_class is set
    uThreadId,    \* _beginthreadex stored a thread id
    jpc,          \* the Java thread: loading, in initialise, ready, after destroy
    istep,        \* the next step of initialise
    wpc,          \* the window thread
    hasQueue,     \* the window thread has a message queue
    queue,        \* its posted messages, in order
    posted,       \* number of system messages posted so far
    javaCalls,    \* ghost: callbacks that reached the Java method
    destroyed     \* ghost: destroy has returned

vars == <<dllLoaded, classReg, jvm, ifaceClass, excClass, uThreadId, jpc,
          istep, wpc, hasQueue, queue, posted, javaCalls, destroyed>>

(* The steps of initialise, in the order the code executes them. *)
InitOrderThreadFirst == <<"thread", "vm", "iface", "exc">>
InitOrder == <<"vm", "iface", "exc", "thread">>

Init ==
    /\ dllLoaded = FALSE /\ classReg = FALSE
    /\ jvm = FALSE /\ ifaceClass = FALSE /\ excClass = FALSE
    /\ uThreadId = FALSE
    /\ jpc = "load" /\ istep = 1 /\ wpc = "none"
    /\ hasQueue = FALSE /\ queue = <<>> /\ posted = 0
    /\ javaCalls = 0 /\ destroyed = FALSE

(***************************************************************************)
(* The Java thread.                                                        *)
(***************************************************************************)

(* RegisterWindowClassW: RegisterClassExW of "BiglyBT Window Hook" with  *)
(* WndProcW; the function discards its result, so the class may or may   *)
(* not exist afterwards.                                                  *)
RegisterWindowClassW == \E ok \in BOOLEAN : classReg' = ok

(* DllMain, DLL_PROCESS_ATTACH: RegisterWindowClassW (RegisterWindowClassA *)
(* under non_unicode, the same step).  Then the Java side calls           *)
(* initialise.                                                            *)
DllMain ==
    /\ jpc = "load"
    /\ dllLoaded' = TRUE
    /\ RegisterWindowClassW
    /\ jpc' = "init"
    /\ UNCHANGED <<istep, jvm, ifaceClass, excClass, uThreadId, wpc, hasQueue,
                   queue, posted, javaCalls, destroyed>>

(* One step of initialise.  FindClass may fail (the global stays NULL).   *)
(* _beginthreadex either starts the window thread and stores its id, or  *)
(* fails and initialise throws.                                          *)
InitStep(step) ==
    CASE step = "vm"     -> /\ jvm' = TRUE
                            /\ UNCHANGED <<ifaceClass, excClass, uThreadId, wpc>>
      [] step = "iface"  -> /\ \E found \in BOOLEAN : ifaceClass' = found
                            /\ UNCHANGED <<jvm, excClass, uThreadId, wpc>>
      [] step = "exc"    -> /\ \E found \in BOOLEAN : excClass' = found
                            /\ UNCHANGED <<jvm, ifaceClass, uThreadId, wpc>>
      [] step = "thread" -> /\ \/ uThreadId' = TRUE /\ wpc' = "create"
                               \/ UNCHANGED <<uThreadId, wpc>>
                            /\ UNCHANGED <<jvm, ifaceClass, excClass>>

Initialise ==
    /\ jpc = "init"
    /\ InitStep(InitOrder[istep])
    /\ IF istep = Len(InitOrder)
         THEN jpc' = "ready" /\ UNCHANGED istep
         ELSE istep' = istep + 1 /\ UNCHANGED jpc
    /\ UNCHANGED <<dllLoaded, classReg, hasQueue, queue, posted, javaCalls, destroyed>>

(* destroy: if uThreadId, PostThreadMessage(uThreadId, WM_QUIT, 0, 0).    *)
(* The post succeeds only while the thread has a message queue.          *)
Destroy ==
    /\ jpc = "ready"
    /\ jpc' = "idle"
    /\ UNCHANGED istep
    /\ destroyed' = TRUE
    /\ queue' = IF uThreadId /\ hasQueue /\ wpc # "exited"
                  THEN Append(queue, Quit) ELSE queue
    /\ UNCHANGED <<dllLoaded, classReg, jvm, ifaceClass, excClass, uThreadId,
                   wpc, hasQueue, posted, javaCalls>>

(***************************************************************************)
(* The window thread.                                                      *)
(***************************************************************************)

(* CreateWindowW: the thread gets its queue.  With the class registered   *)
(* the window is created, and its creation messages (WM_NCCREATE,        *)
(* WM_CREATE, ...) are sent to WndProcW before CreateWindowW returns.    *)
(* Without it CreateWindowW returns NULL and the thread returns 0.       *)
CreateWindow ==
    /\ wpc = "create"
    /\ hasQueue' = TRUE
    /\ wpc' = IF classReg THEN "created" ELSE "exited"
    /\ UNCHANGED <<dllLoaded, classReg, jvm, ifaceClass, excClass, uThreadId,
                   jpc, istep, queue, posted, javaCalls, destroyed>>

(* callback: AttachCurrentThread may fail (return -1); otherwise, when    *)
(* AEWin32AccessInterface_class is set and GetStaticMethodID resolves    *)
(* callback(IIJ)J, the Java method is called; then DetachCurrentThread.  *)
(* The result decides between returning it and DefWindowProcW, neither   *)
(* of which changes the modelled state.                                  *)
Callback ==
    /\ \E attached \in BOOLEAN :
         javaCalls' = IF attached /\ ifaceClass THEN javaCalls + 1 ELSE javaCalls

(* WndProcW for a creation message, then CreateWindowW returns the hwnd.  *)
CreationMessage ==
    /\ wpc = "created"
    /\ Callback
    /\ wpc' = "get"
    /\ UNCHANGED <<dllLoaded, classReg, jvm, ifaceClass, excClass, uThreadId,
                   jpc, istep, hasQueue, queue, posted, destroyed>>

(* GetMessageW(&Msg, hWnd, 0, 0) with hWnd the hook window: it blocks     *)
(* until a message for that window is queued, removes the first one and  *)
(* returns nonzero, so it is dispatched.  A thread message (hwnd NULL),   *)
(* such as the WM_QUIT of PostThreadMessage, is not retrieved by a call  *)
(* filtered on a window: it stays queued and the loop never returns 0.   *)
ForWindow(m) == m # Quit
GetMessage ==
    /\ wpc = "get"
    /\ \E i \in DOMAIN queue :
         /\ ForWindow(queue[i])
         /\ \A j \in 1 .. i - 1 : ~ForWindow(queue[j])
         /\ queue' = RemoveAt(queue, i)
    /\ wpc' = "dispatch"

GetMsg ==
    /\ GetMessage
    /\ UNCHANGED <<dllLoaded, classReg, jvm, ifaceClass, excClass, uThreadId,
                   jpc, istep, hasQueue, posted, javaCalls, destroyed>>

(* TranslateMessage; DispatchMessageW -> WndProcW -> callback. *)
Dispatch ==
    /\ wpc = "dispatch"
    /\ Callback
    /\ wpc' = "get"
    /\ UNCHANGED <<dllLoaded, classReg, jvm, ifaceClass, excClass, uThreadId,
                   jpc, istep, hasQueue, queue, posted, destroyed>>

(***************************************************************************)
(* The system posts a message to the hook window while it exists.         *)
(***************************************************************************)
SystemPost ==
    /\ wpc \in {"get", "dispatch"}
    /\ posted < MaxPosted
    /\ \E m \in SysMsgs : queue' = Append(queue, m)
    /\ posted' = posted + 1
    /\ UNCHANGED <<dllLoaded, classReg, jvm, ifaceClass, excClass, uThreadId,
                   jpc, istep, wpc, hasQueue, javaCalls, destroyed>>

JavaThread == DllMain \/ Initialise \/ Destroy
WindowThread == CreateWindow \/ CreationMessage \/ GetMsg \/ Dispatch

Next == JavaThread \/ WindowThread \/ SystemPost

(* Both threads run while they have something to do; destroy is called   *)
(* when the Java side decides to, and the system posts when it wants.    *)
Spec == Init /\ [][Next]_vars
FairSpec == Spec /\ WF_vars(DllMain \/ Initialise) /\ WF_vars(WindowThread)

-----------------------------------------------------------------------------
(***************************************************************************)
(* Properties.                                                             *)
(***************************************************************************)

(* Initialise has run a step once the Java thread is past it. *)
StepDone(step) ==
    \/ jpc \notin {"load", "init"}
    \/ \E i \in 1 .. istep - 1 : InitOrder[i] = step

(* Every message the hook window handles, the creation messages included, *)
(* runs callback after initialise has set the jvm global and has written *)
(* AEWin32AccessInterface_class (found or NULL): callback never reads a   *)
(* global that initialise has not yet published.                          *)
CallbackSeesGlobals ==
    wpc \in {"created", "dispatch"} => jvm /\ StepDone("iface")

(* After destroy returns, the window thread (if one was started) ends.     *)
DestroyEndsThread ==
    destroyed ~> (wpc \in {"none", "exited"})

=============================================================================
