------------------------------- MODULE AppNap -------------------------------
(***************************************************************************)
(* disableAppNap of libOSXAccess (DisableAppNap.c), called by Java threads.*)
(* The first call begins an NSProcessInfo activity (latency critical,     *)
(* user initiated) and keeps it in the global osx_latencycritical_activity;*)
(* later calls only count.  The counter osx_latencycritical_count is a    *)
(* plain static int: "count++ != 0" is a read and a write that two        *)
(* threads may interleave.                                                 *)
(*                                                                         *)
(* The Objective-C runtime lookups (NSProcessInfo, processInfo,           *)
(* beginActivityWithOptions:reason:) all succeed or all fail, with the     *)
(* OS version: Available.                                                  *)
(***************************************************************************)
EXTENDS Naturals

CONSTANTS
    Threads,      \* Java threads that call disableAppNap
    Available,    \* the OS has NSProcessInfo beginActivityWithOptions:reason:
    MaxCalls      \* bound on the calls each thread makes

VARIABLES
    count,        \* osx_latencycritical_count
    activity,     \* osx_latencycritical_activity is not nil
    pc,           \* each thread: "idle", "inc" (count read), "lookup"
    tmp,          \* the value of count each thread read
    calls,        \* calls each thread has made
    begun         \* ghost: activities begun, kept or not

vars == <<count, activity, pc, tmp, calls, begun>>

Init ==
    /\ count = 0 /\ activity = FALSE /\ begun = 0
    /\ pc = [t \in Threads |-> "idle"]
    /\ tmp = [t \in Threads |-> 0]
    /\ calls = [t \in Threads |-> 0]

(* The call starts: the post-increment reads count. *)
Enter(t) ==
    /\ pc[t] = "idle"
    /\ calls[t] < MaxCalls
    /\ calls' = [calls EXCEPT ![t] = @ + 1]
    /\ tmp' = [tmp EXCEPT ![t] = count]
    /\ pc' = [pc EXCEPT ![t] = "inc"]
    /\ UNCHANGED <<count, activity, begun>>

(* A pre-increment, "++count != 0": the test sees the incremented value. *)
IncrementTestNew(t) ==
    /\ count' = tmp[t] + 1
    /\ pc' = [pc EXCEPT ![t] = IF tmp[t] + 1 # 0 THEN "idle" ELSE "lookup"]

(* The post-increment writes the value it read plus one, and the call     *)
(* returns at once unless the value read was 0.                           *)
Increment(t) ==
    /\ count' = tmp[t] + 1
    /\ pc' = [pc EXCEPT ![t] = IF tmp[t] # 0 THEN "idle" ELSE "lookup"]

Inc(t) ==
    /\ pc[t] = "inc"
    /\ Increment(t)
    /\ UNCHANGED <<activity, tmp, calls, begun>>

(* The runtime lookups; if one fails the call returns.  Otherwise the      *)
(* reason string is made and beginActivityWithOptions:reason: stores the  *)
(* activity in the global, over whatever was there.                       *)
Lookup(t) ==
    /\ pc[t] = "lookup"
    /\ pc' = [pc EXCEPT ![t] = "idle"]
    /\ IF Available
         THEN activity' = TRUE /\ begun' = begun + 1
         ELSE UNCHANGED <<activity, begun>>
    /\ UNCHANGED <<count, tmp, calls>>

Next == \E t \in Threads : Enter(t) \/ Inc(t) \/ Lookup(t)

(* A thread inside disableAppNap runs to its end. *)
Spec == Init /\ [][Next]_vars /\ \A t \in Threads : WF_vars(Inc(t) \/ Lookup(t))

-----------------------------------------------------------------------------
(* Once any thread has called disableAppNap on an OS that has the API,     *)
(* App Nap is eventually disabled: some call reaches                       *)
(* beginActivityWithOptions, however the increments interleave.            *)
AppNapDisabled ==
    (Available /\ \E t \in Threads : calls[t] > 0) ~> activity

(* Only one activity is ever begun: the count guard lets exactly one call *)
(* through, so no activity is begun and then lost when the global is      *)
(* overwritten.                                                           *)
SingleActivity == begun <= 1

=============================================================================
