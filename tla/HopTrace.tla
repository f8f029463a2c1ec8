------------------------------ MODULE HopTrace ------------------------------
(***************************************************************************)
(* What a path-discovery call of the traceroute entry promises its Java    *)
(* callback, stated without sockets, packets or timers.                    *)
(*                                                                         *)
(* A call sets up, then probes hops 1, 2, ... in turn.  For the hop it is  *)
(* at, it reports at most MaxProbes times: timeouts, and at most one       *)
(* result, which names the node that answers at that hop (the router hop,  *)
(* or the target once the hop reaches it).  It moves to the next hop only  *)
(* after a result or MaxProbes reports, and never after the target has     *)
(* answered.  It may return at any point (an error, or the callback asking *)
(* it to stop); the per-hop bookkeeping is then cleared.                   *)
(***************************************************************************)
EXTENDS Naturals

CONSTANTS
    Sessions,     \* concurrent calls
    Hops,         \* the target is Hops hops away
    MaxTTL,       \* the last hop is MaxTTL + 1 (the code's ttl < 33 test)
    MaxProbes     \* reports per hop

VARIABLES
    status,       \* "setup", "tracing" or "returned"
    hop,          \* the hop being probed (0 before the first)
    reports,      \* reports made for that hop
    answered,     \* a result was reported for that hop
    done,         \* the target has answered
    last          \* the last report passed to the callback

vars == <<status, hop, reports, answered, done, last>>

\* The node whose answer is a result for hop h.
Responder(h) == IF h < Hops THEN h ELSE Hops

Init ==
    /\ status = [s \in Sessions |-> "setup"]
    /\ hop = [s \in Sessions |-> 0]
    /\ reports = [s \in Sessions |-> 0]
    /\ answered = [s \in Sessions |-> FALSE]
    /\ done = [s \in Sessions |-> FALSE]
    /\ last = [s \in Sessions |-> [kind |-> "none", ttl |-> 0]]

\* The call returns; its per-hop bookkeeping is gone.
Close(s) ==
    /\ status' = [status EXCEPT ![s] = "returned"]
    /\ reports' = [reports EXCEPT ![s] = 0]
    /\ answered' = [answered EXCEPT ![s] = FALSE]
    /\ done' = [done EXCEPT ![s] = FALSE]

Begin(s) ==
    /\ status[s] = "setup"
    /\ status' = [status EXCEPT ![s] = "tracing"]
    /\ UNCHANGED <<hop, reports, answered, done, last>>

Quit(s) ==
    /\ status[s] \in {"setup", "tracing"}
    /\ Close(s)
    /\ UNCHANGED <<hop, last>>

Advance(s) ==
    /\ status[s] = "tracing"
    /\ ~done[s]
    /\ hop[s] <= MaxTTL
    /\ hop[s] = 0 \/ answered[s] \/ reports[s] = MaxProbes
    /\ hop' = [hop EXCEPT ![s] = @ + 1]
    /\ reports' = [reports EXCEPT ![s] = 0]
    /\ answered' = [answered EXCEPT ![s] = FALSE]
    /\ UNCHANGED <<status, done, last>>

\* A timeout or a result for the current hop, after which the call goes on
\* or returns.
Report(s) ==
    /\ status[s] = "tracing"
    /\ hop[s] >= 1 /\ reports[s] < MaxProbes
    /\ ~answered[s] /\ ~done[s]
    /\ \E r \in {[kind |-> "timeout", ttl |-> hop[s]],
                 [kind |-> "result", ttl |-> hop[s], from |-> Responder(hop[s])]} :
         /\ last' = [last EXCEPT ![s] = r]
         /\ \/ /\ reports' = [reports EXCEPT ![s] = @ + 1]
               /\ answered' = [answered EXCEPT ![s] = r.kind = "result"]
               /\ done' = [done EXCEPT ![s] = r.kind = "result" /\ r.from = Hops]
               /\ UNCHANGED status
            \/ Close(s)
    /\ UNCHANGED hop

Next == \E s \in Sessions : Begin(s) \/ Quit(s) \/ Advance(s) \/ Report(s)

Spec == Init /\ [][Next]_vars
=============================================================================
