----------------------------- MODULE Traceroute -----------------------------
(***************************************************************************)
(* The traceroute / ping engine of libWIN32Access (aenet.cpp: the JNI     *)
(* entry Java_..._traceRoute, initialiseWinsock, traceRoute,              *)
(* sendTraceRouteMessage and the reporting helpers).                       *)
(*                                                                         *)
(* Every session is one call of the JNI entry on its own Java thread.  It  *)
(* runs initialiseWinsock, whose flag winsock_started_up is shared by all  *)
(* sessions, creates, configures and binds its two raw sockets, calls      *)
(* traceRoute and closes the sockets; pc holds the step of the entry:      *)
(*   "winsock", "startup"  initialiseWinsock's test and its WSAStartup,   *)
(*   "recvsock" .. "hdrincl"  the socket calls, each of which may fail,   *)
(*   "failed"  the entry threw and returned during the setup,             *)
(*   "returned"  the entry closed both sockets after traceRoute.          *)
(* The locals of traceRoute are the variables below, indexed by session.   *)
(* The control of its three nested loops is kept in pc:                    *)
(*   "loop"  the head of the outer while (ttl loop),                       *)
(*   "probe" the head of the for loop (up to MaxProbes attempts),          *)
(*   "wait"  the head of the inner while (receive with shrinking budget),  *)
(*   "done", "stopped", "error"  traceRoute has returned: normally, because*)
(*           the callback asked to stop, or after throwException.          *)
(* The network is a per-session inbox: a raw ICMP socket receives a copy   *)
(* of every ICMP packet that reaches the host, so every reply is delivered *)
(* to the inbox of every session.  Replies may be lost (never received, or *)
(* dropped when the network is full), delayed past later probes, and       *)
(* duplicated (received and left in the inbox).  Time is counted in ticks  *)
(* of GetTickCount since the first pass of the inner loop of a probe.      *)
(***************************************************************************)
EXTENDS Integers, FiniteSets

CONSTANTS
    Sessions,        \* concurrent calls of traceRoute
    TraceId,         \* [Sessions -> Idents]: the trace_id argument
    PingMode,        \* [Sessions -> BOOLEAN]: the ping_mode argument
    Idents,          \* the 16-bit identifiers that occur on the wire
    Hops,            \* the target is Hops routers away; routers are 1..Hops-1
    MaxTTL,          \* 32 in the code: ping ttl, and the outer loop's ttl < 33
    MaxProbes,       \* 3 in the code: probe_count < 3
    ProbeTimeout,    \* PROBE_TIMEOUT (5000 ms) in ticks
    BasePort,        \* TRACE_ROUTE_BASE_PORT = 48132
    SeqWidth,        \* 16: width of the UDP port / ICMP sequence field
    MaxConsecBad,    \* 256 in the code: consec_bad > 256 aborts ping mode
    Noise,           \* packets on the wire that answer no probe
    NoOrigin,        \* model value: origin of a packet that answers no probe
    MaxSeq,          \* bound: probes a session may send
    MaxBadRun,       \* bound: bad packets consumed within one wait
    MaxInFlight,     \* bound: replies a session's inbox holds
    TickZero         \* the values GetTickCount() == 0 takes at a probe's first
                     \* pass: {FALSE}, or BOOLEAN where a probe may start at
                     \* the tick count's zero (every 49.7 days)

ASSUME /\ Hops \in Nat \ {0} /\ MaxTTL \in Nat \ {0} /\ MaxProbes \in Nat \ {0}
       /\ ProbeTimeout \in Nat \ {0} /\ SeqWidth \in Nat \ {0}
       /\ \A s \in Sessions : TraceId[s] \in Idents /\ PingMode[s] \in BOOLEAN

\* ICMP constants of aenet.h.
ICMP_TYPE_ECHO_REPLY == 0
ICMP_TYPE_UNREACHABLE == 3
ICMP_TYPE_TTL_EXCEEDED == 11
ICMP_CODE_PROTOCOL_UNREACHABLE == 2
ICMP_CODE_PORT_UNREACHABLE == 3
ICMP_CODE_HOST_UNREACHABLE == 1

\* The 16-bit field that carries the correlation key: the UDP destination
\* port or the ICMP echo sequence, (unsigned short)(target_port + seq).
Field(q) == (BasePort + q) % (2 ^ SeqWidth)

\* What the receive path recovers from that field:
\* (unsigned short)(ntohs(field) - TRACE_ROUTE_BASE_PORT).
ReplySeq(f) == (f - BasePort) % (2 ^ SeqWidth)

(***************************************************************************)
(* A received datagram, abstracted to what the validation in traceRoute    *)
(* reads.  len says which length check it passes: "short" fails           *)
(* read_len < sizeof(4), "badlen" fails read_len == total_len and the ICMP *)
(* header check, "noembed" has the ICMP header but no embedded probe      *)
(* header, "full" has both; "cut" has the ICMP header, the embedded IP    *)
(* header and 2 bytes more, the least the check at 569 accepts, so the    *)
(* embedded port or sequence it is matched by lies beyond what recvfrom   *)
(* wrote.  ident and proto are the embedded IP header's                   *)
(* ident and protocol, field the embedded port or sequence (for an echo   *)
(* reply, the echo's own sequence).  from is the responder (0: a host not *)
(* on the path), origin the <<session, probe sequence>> the packet        *)
(* answers, a ghost that no code reads.                                   *)
(***************************************************************************)
Lens == {"full", "short", "badlen", "noembed", "cut"}
Types == {ICMP_TYPE_ECHO_REPLY, ICMP_TYPE_UNREACHABLE, ICMP_TYPE_TTL_EXCEEDED, 5}
Codes == {0, ICMP_CODE_HOST_UNREACHABLE, ICMP_CODE_PROTOCOL_UNREACHABLE,
          ICMP_CODE_PORT_UNREACHABLE}
Packets == [len : Lens, type : Types, code : Codes, ident : Idents,
            proto : {"udp", "icmp"}, field : 0 .. (2 ^ SeqWidth - 1),
            from : 0 .. Hops, origin : (Sessions \X Nat) \cup {NoOrigin}]

\* The bytes of receive_buffer that an embedded UDP destination port and an
\* embedded ICMP sequence occupy (offsets 50 and 54 behind a 20-byte IP
\* header).  NoBytes: bytes no packet of the model has determined, the
\* uninitialised stack array or another field of an earlier packet.
Protos == {"udp", "icmp"}
NoBytes == -1

Reports == [kind : {"none", "timeout"}, ttl : Nat]
           \cup [kind : {"result"}, ttl : Nat, from : 0 .. Hops,
                 elapsed : Nat, udp : BOOLEAN,
                 origin : (Sessions \X Nat) \cup {NoOrigin}]

VARIABLES
    pc, ttl, seq, probeSeq, probeCount, probeSuccessful, complete,
    consecBad, useUdp, useIcmp,   \* the locals of traceRoute
    clock,        \* ticks since start_ticks of the current probe
    tickZero,     \* start_ticks == 0 after a pass: GetTickCount() returned 0
    waited,       \* ghost: ticks since the current probe was sent
    inbox,        \* replies waiting at each session's receive socket
    lastReport,   \* the last record passed to the Java callback
    badRun,       \* ghost: bad packets since the last accepted reply
    rbuf,         \* receive_buffer where an embedded UDP port and ICMP sequence sit
    socks,        \* the sockets a session's entry holds open
    wsFlag,       \* the global winsock_started_up
    wsaStarted,   \* WSAStartup has returned successfully
    wsaReturned   \* ghost: a WSAStartup call has returned

traceVars == <<pc, ttl, seq, probeSeq, probeCount, probeSuccessful, complete,
               consecBad, useUdp, useIcmp, clock, tickZero, waited, inbox, lastReport, badRun,
               rbuf>>
entryVars == <<socks, wsFlag, wsaStarted, wsaReturned>>
vars == <<traceVars, entryVars>>

\* The socket calls of the JNI entry, in order, and the step after each.
SetupNext == [recvsock |-> "rcvtimeo", rcvtimeo |-> "reuse", reuse |-> "bind",
              bind |-> "sendsock", sendsock |-> "hdrincl", hdrincl |-> "loop"]
SetupSteps == DOMAIN SetupNext

Running == {"loop", "probe", "wait"}
Terminated == {"done", "stopped", "error"}
Returned == {"failed", "returned"}

Init ==
    /\ pc = [s \in Sessions |-> "winsock"]
    /\ ttl = [s \in Sessions |-> IF PingMode[s] THEN MaxTTL ELSE 0]
    /\ seq = [s \in Sessions |-> 0]
    /\ probeSeq = [s \in Sessions |-> 0]
    /\ probeCount = [s \in Sessions |-> 0]
    /\ probeSuccessful = [s \in Sessions |-> FALSE]
    /\ complete = [s \in Sessions |-> FALSE]
    /\ consecBad = [s \in Sessions |-> 0]
    /\ useUdp = [s \in Sessions |-> TRUE]
    /\ useIcmp = [s \in Sessions |-> TRUE]
    /\ clock = [s \in Sessions |-> 0]
    /\ tickZero = [s \in Sessions |-> FALSE]
    /\ waited = [s \in Sessions |-> 0]
    /\ inbox = [s \in Sessions |-> {}]
    /\ lastReport = [s \in Sessions |-> [kind |-> "none", ttl |-> 0]]
    /\ badRun = [s \in Sessions |-> 0]
    /\ rbuf = [s \in Sessions |-> [x \in Protos |-> NoBytes]]
    /\ socks = [s \in Sessions |-> {}]
    /\ wsFlag = FALSE /\ wsaStarted = FALSE /\ wsaReturned = FALSE
-----------------------------------------------------------------------------
(***************************************************************************)
(* The JNI entry.                                                          *)
(***************************************************************************)

\* initialiseWinsock: if ( !winsock_started_up ) { winsock_started_up =
\* true; WSAStartup(...); }, with no lock around the test and the set.
InitialiseWinsock(s) ==
    /\ pc[s] = "winsock"
    /\ IF wsFlag
         THEN pc' = [pc EXCEPT ![s] = "recvsock"] /\ UNCHANGED wsFlag
         ELSE pc' = [pc EXCEPT ![s] = "startup"] /\ wsFlag' = TRUE
    /\ UNCHANGED <<socks, wsaStarted, wsaReturned>>

\* WSAStartup(MAKEWORD(2, 2), ...); its result is ignored.
WSAStartup(s) ==
    /\ pc[s] = "startup"
    /\ \E ok \in BOOLEAN : wsaStarted' = (wsaStarted \/ ok)
    /\ wsaReturned' = TRUE
    /\ pc' = [pc EXCEPT ![s] = "recvsock"]
    /\ UNCHANGED <<socks, wsFlag>>

\* The socket each call creates, and the sockets its error path closes
\* before throwException and return.
Opens == [recvsock |-> {"recv"}, rcvtimeo |-> {}, reuse |-> {}, bind |-> {},
          sendsock |-> {"send"}, hdrincl |-> {}]

\* Seeded fault: the IP_HDRINCL error path closes only the send socket.
CloseOnFailureKeepsRecv ==
    [recvsock |-> {}, rcvtimeo |-> {"recv"}, reuse |-> {"recv"},
     bind |-> {"recv"}, sendsock |-> {"recv"}, hdrincl |-> {"send"}]

CloseOnFailure ==
    [recvsock |-> {}, rcvtimeo |-> {"recv"}, reuse |-> {"recv"},
     bind |-> {"recv"}, sendsock |-> {"recv"}, hdrincl |-> {"send", "recv"}]

\* socket, setsockopt(SO_RCVTIMEO), setsockopt(SO_REUSEADDR), bind,
\* socket, setsockopt(IP_HDRINCL) succeed in turn; after the last one the
\* entry calls traceRoute.  socket fails (WSANOTINITIALISED) until
\* WSAStartup has succeeded.
SetupSucceeds(s) ==
    /\ pc[s] \in SetupSteps
    /\ pc[s] \in {"recvsock", "sendsock"} => wsaStarted
    /\ socks' = [socks EXCEPT ![s] = @ \cup Opens[pc[s]]]
    /\ pc' = [pc EXCEPT ![s] = SetupNext[pc[s]]]
    /\ UNCHANGED <<wsFlag, wsaStarted, wsaReturned>>

\* The call fails: the error path closes its sockets and throws.
SetupFails(s) ==
    /\ pc[s] \in SetupSteps
    /\ socks' = [socks EXCEPT ![s] = @ \ CloseOnFailure[pc[s]]]
    /\ pc' = [pc EXCEPT ![s] = "failed"]
    /\ UNCHANGED <<wsFlag, wsaStarted, wsaReturned>>

\* traceRoute has returned (normally or after throwing): closesocket on
\* the send and the receive socket.
CloseSockets(s) ==
    /\ pc[s] \in Terminated
    /\ socks' = [socks EXCEPT ![s] = {}]
    /\ pc' = [pc EXCEPT ![s] = "returned"]
    /\ UNCHANGED <<wsFlag, wsaStarted, wsaReturned>>

\* A raw ICMP socket receives once it is bound, until it is closed.
Bound(x) == "recv" \in socks[x] /\ pc[x] \notin {"rcvtimeo", "reuse", "bind"}

(***************************************************************************)
(* The outer loop: while( ttl < 33 && ( ping_mode || !complete )).         *)
(***************************************************************************)
LoopCond(s) == ttl[s] < MaxTTL + 1 /\ (PingMode[s] \/ ~complete[s])

\* The loop condition fails and traceRoute returns normally.
TraceEnds(s) ==
    /\ pc[s] = "loop"
    /\ ~LoopCond(s)
    /\ pc' = [pc EXCEPT ![s] = "done"]
    /\ UNCHANGED <<ttl, seq, probeSeq, probeCount, probeSuccessful, complete,
                   consecBad, useUdp, useIcmp, clock, inbox, lastReport, badRun>>

\* Seeded fault: the hop is retried until it answers.
NextTTLOnlyAfterAnswer(s) ==
    IF PingMode[s] \/ (ttl[s] > 0 /\ ~probeSuccessful[s]) THEN ttl[s] ELSE ttl[s] + 1

\* Ping mode stays at ttl 32; path discovery moves to the next hop.
NextTTL(s) == IF PingMode[s] THEN ttl[s] ELSE ttl[s] + 1

\* One pass of the outer loop body up to the for loop: complete is reset,
\* ping mode aborts on consec_bad > 256, path mode moves to the next ttl.
NextHop(s) ==
    /\ pc[s] = "loop"
    /\ LoopCond(s)
    /\ complete' = [complete EXCEPT ![s] = FALSE]
    /\ ttl' = [ttl EXCEPT ![s] = NextTTL(s)]
    /\ probeCount' = [probeCount EXCEPT ![s] = 0]
    /\ probeSuccessful' = [probeSuccessful EXCEPT ![s] = FALSE]
    /\ pc' = [pc EXCEPT ![s] = IF PingMode[s] /\ consecBad[s] > MaxConsecBad
                                THEN "error" ELSE "probe"]
    /\ UNCHANGED <<seq, probeSeq, consecBad, useUdp, useIcmp, clock, inbox,
                   lastReport, badRun>>

ProbeCondIgnoresSuccess(s) == probeCount[s] < MaxProbes /\ ~complete[s]

ProbeCond(s) == probeCount[s] < MaxProbes /\ ~(complete[s] \/ probeSuccessful[s])

ProbesDone(s) ==
    /\ pc[s] = "probe"
    /\ ~ProbeCond(s)
    /\ pc' = [pc EXCEPT ![s] = "loop"]
    /\ UNCHANGED <<ttl, seq, probeSeq, probeCount, probeSuccessful, complete,
                   consecBad, useUdp, useIcmp, clock, inbox, lastReport, badRun>>

\* The reply to session s's current probe of protocol proto, sent by node
\* from with the given ICMP type and code: the embedded header is the probe's.
Reply(s, proto, type, code, from) ==
    [len |-> "full", type |-> type, code |-> code, ident |-> TraceId[s],
     proto |-> proto, field |-> Field(seq[s]), from |-> from,
     origin |-> <<s, seq[s]>>]

\* The replies a probe may draw: TTL exceeded (or host unreachable) from
\* router ttl, or the target's answer once ttl reaches it: port unreachable
\* to a UDP probe, echo reply to an ICMP echo.
Answers(s, proto) ==
    IF ttl[s] < Hops
    THEN {Reply(s, proto, ICMP_TYPE_TTL_EXCEEDED, 0, ttl[s]),
          Reply(s, proto, ICMP_TYPE_UNREACHABLE, ICMP_CODE_HOST_UNREACHABLE, ttl[s])}
    ELSE IF proto = "udp"
    THEN {Reply(s, proto, ICMP_TYPE_UNREACHABLE, ICMP_CODE_PORT_UNREACHABLE, Hops)}
    ELSE {Reply(s, proto, ICMP_TYPE_ECHO_REPLY, 0, Hops)}

\* The protocols sendTraceRouteMessage sends: UDP then ICMP, as enabled.
Protocols(s) == {p \in {"udp", "icmp"} : IF p = "udp" THEN useUdp[s] ELSE useIcmp[s]}

\* The replies that reach the host: at most one per probe packet sent, any
\* of them possibly lost; every bound receive socket gets a copy, unless
\* its inbox is full, in which case the copy is dropped.
Deliver(r) ==
    [x \in Sessions |-> IF Bound(x) /\ Cardinality(inbox[x] \cup r) <= MaxInFlight
                        THEN inbox[x] \cup r ELSE inbox[x]]

\* One pass of the for loop body up to the receive loop: probe_sequence =
\* seq++ and sendTraceRouteMessage succeeds for every enabled protocol;
\* start_ticks = 0, and the first pass sets it to GetTickCount(), which may
\* be 0 and leave it "not started".
SendProbe(s) ==
    /\ pc[s] = "probe"
    /\ ProbeCond(s)
    /\ seq[s] < MaxSeq
    /\ Protocols(s) # {}
    /\ \E r \in SUBSET UNION {Answers(s, p) : p \in Protocols(s)} :
          /\ \A a, b \in r : a.proto = b.proto => a = b
          /\ inbox' = Deliver(r)
    /\ probeSeq' = [probeSeq EXCEPT ![s] = seq[s]]
    /\ seq' = [seq EXCEPT ![s] = @ + 1]
    /\ probeCount' = [probeCount EXCEPT ![s] = @ + 1]
    /\ clock' = [clock EXCEPT ![s] = 0]
    /\ waited' = [waited EXCEPT ![s] = 0]
    /\ \E z \in TickZero : tickZero' = [tickZero EXCEPT ![s] = z]
    /\ pc' = [pc EXCEPT ![s] = "wait"]
    /\ UNCHANGED <<ttl, probeSuccessful, complete, consecBad, useUdp, useIcmp,
                   lastReport, badRun>>

\* sendto fails or sends a short packet, or no protocol is enabled: the
\* exception is thrown and traceRoute returns.
SendFails(s) ==
    /\ pc[s] = "probe"
    /\ ProbeCond(s)
    /\ seq[s] < MaxSeq
    /\ pc' = [pc EXCEPT ![s] = "error"]
    /\ UNCHANGED <<ttl, seq, probeSeq, probeCount, probeSuccessful, complete,
                   consecBad, useUdp, useIcmp, clock, inbox, lastReport, badRun>>

-----------------------------------------------------------------------------
(***************************************************************************)
(* The receive loop: while( !complete ), with receive_timeout = 5000 -     *)
(* (current_ticks - start_ticks) as the socket's receive timeout.          *)
(***************************************************************************)

\* traceRouteReportTimeout; a zero return from the callback ends the trace,
\* otherwise consec_bad = 0 and the receive loop is left for the next probe.
ReportTimeout(s) ==
    /\ lastReport' = [lastReport EXCEPT ![s] = [kind |-> "timeout", ttl |-> ttl[s]]]
    /\ \E continue \in BOOLEAN :
          IF continue
          THEN /\ pc' = [pc EXCEPT ![s] = "probe"]
               /\ consecBad' = [consecBad EXCEPT ![s] = 0]
          ELSE /\ pc' = [pc EXCEPT ![s] = "stopped"]
               /\ UNCHANGED consecBad

\* receive_timeout <= 0: the budget was spent on earlier packets.
BudgetSpent(s) ==
    /\ pc[s] = "wait"
    /\ clock[s] >= ProbeTimeout
    /\ ReportTimeout(s)
    /\ UNCHANGED <<ttl, seq, probeSeq, probeCount, probeSuccessful, complete,
                   useUdp, useIcmp, clock, inbox, badRun>>

\* recvfrom fails with WSAETIMEDOUT once the remaining budget has passed.
RecvTimesOut(s) ==
    /\ pc[s] = "wait"
    /\ clock[s] < ProbeTimeout
    /\ clock' = [clock EXCEPT ![s] = ProbeTimeout]
    /\ waited' = [waited EXCEPT ![s] = @ + (ProbeTimeout - clock[s])]
    /\ ReportTimeout(s)
    /\ UNCHANGED <<ttl, seq, probeSeq, probeCount, probeSuccessful, complete,
                   useUdp, useIcmp, tickZero, inbox, badRun>>

\* setsockopt(SO_RCVTIMEO) fails, or recvfrom fails other than by timeout.
SocketFails(s) ==
    /\ pc[s] = "wait"
    /\ clock[s] < ProbeTimeout
    /\ pc' = [pc EXCEPT ![s] = "error"]
    /\ UNCHANGED <<ttl, seq, probeSeq, probeCount, probeSuccessful, complete,
                   consecBad, useUdp, useIcmp, clock, inbox, lastReport, badRun>>

\* Seeded faults: the echo reply's, or the embedded probe's, sequence is
\* not compared with probe_sequence.
IsBadNoEchoSeqCheck(s, p) ==
    \/ p.len \in {"short", "badlen"}
    \/ /\ p.type # ICMP_TYPE_ECHO_REPLY
       /\ \/ p.len = "noembed"
          \/ p.type \notin {ICMP_TYPE_TTL_EXCEEDED, ICMP_TYPE_UNREACHABLE}
          \/ p.ident # TraceId[s]
          \/ ReplySeq(p.field) # probeSeq[s]
IsBadNoEmbeddedSeqCheck(s, p) ==
    \/ p.len \in {"short", "badlen"}
    \/ /\ p.type = ICMP_TYPE_ECHO_REPLY
       /\ ReplySeq(p.field) # probeSeq[s]
    \/ /\ p.type # ICMP_TYPE_ECHO_REPLY
       /\ \/ p.len = "noembed"
          \/ p.type \notin {ICMP_TYPE_TTL_EXCEEDED, ICMP_TYPE_UNREACHABLE}
          \/ p.ident # TraceId[s]

\* The validation of a received packet, in the code's order: a packet that
\* fails it increments consec_bad and the receive loop continues.  An echo
\* reply is checked by its sequence alone; any other packet must hold a
\* whole embedded probe header, be a TTL exceeded or unreachable, carry our
\* trace_id and the current probe's sequence.
IsBad(s, p) ==
    \/ p.len \in {"short", "badlen"}
    \/ /\ p.type = ICMP_TYPE_ECHO_REPLY
       /\ ReplySeq(p.field) # probeSeq[s]
    \/ /\ p.type # ICMP_TYPE_ECHO_REPLY
       /\ \/ p.len = "noembed"
          \/ p.type \notin {ICMP_TYPE_TTL_EXCEEDED, ICMP_TYPE_UNREACHABLE}
          \/ p.ident # TraceId[s]
          \/ ReplySeq(p.field) # probeSeq[s]

\* What recvfrom leaves where the embedded port and sequence are read.  An
\* ICMP error with a whole embedded probe header writes its port (UDP) or
\* sequence (ICMP) there, and its own checksum or port over the other; a
\* packet of any length (read_len != total_len) may write anything.  An
\* echo reply is as long as the request it answers: the 32-byte reply to
\* this code's probe ends before those bytes, but one answering another
\* program's longer request writes its payload there, and a reply is not
\* told apart by its length here, so both places become unknown.  Runts
\* and errors without or with a cut embedded header end before those bytes
\* and leave them as they were.
Stored(s, p) ==
    CASE p.len = "full" /\ p.type # ICMP_TYPE_ECHO_REPLY ->
            [x \in Protos |-> IF x = p.proto THEN p.field ELSE NoBytes]
      [] p.len \in {"badlen", "full"} -> [x \in Protos |-> NoBytes]
      [] OTHER -> rbuf[s]

\* The port or sequence the checks at 604-627 read from packet p: its own,
\* or for a cut packet the bytes an earlier packet left there.  Bytes no
\* packet determined may hold anything; only whether they equal the key of
\* probe_sequence matters, and Field(MaxSeq) is a key no probe of the
\* model has.
Keys(s, p) ==
    IF p.len # "cut" THEN {p.field}
    ELSE IF rbuf[s][p.proto] # NoBytes THEN {rbuf[s][p.proto]}
    ELSE {Field(probeSeq[s]), Field(MaxSeq)}

\* The packet as the checks read it.
AsRead(p, k) == [p EXCEPT !.field = k]

\* Seeded fault: every pass takes the tick count as a fresh start_ticks.
ArrivesRestartsBudget(s, p, d) ==
    /\ pc[s] = "wait"
    /\ clock[s] < ProbeTimeout
    /\ clock' = [clock EXCEPT ![s] = 0]
    /\ tickZero' = [tickZero EXCEPT ![s] = @ /\ d = 0]
    /\ waited' = [waited EXCEPT ![s] = @ + d]
    /\ rbuf' = [rbuf EXCEPT ![s] = Stored(s, p)]
    /\ \/ inbox' = [inbox EXCEPT ![s] = @ \ {p}]
       \/ UNCHANGED inbox

\* recvfrom returns packet p after d ticks of the remaining budget into
\* receive_buffer; the packet leaves the inbox, or stays there as a
\* duplicate still to come.  At the next pass, start_ticks == 0 takes the
\* tick count as a fresh start_ticks: the budget starts again, unless no
\* tick has passed and GetTickCount() still returns 0.
Arrives(s, p, d) ==
    /\ pc[s] = "wait"
    /\ clock[s] < ProbeTimeout
    /\ clock' = [clock EXCEPT ![s] = IF tickZero[s] THEN 0 ELSE @ + d]
    /\ tickZero' = [tickZero EXCEPT ![s] = @ /\ d = 0]
    /\ waited' = [waited EXCEPT ![s] = @ + d]
    /\ rbuf' = [rbuf EXCEPT ![s] = Stored(s, p)]
    /\ \/ inbox' = [inbox EXCEPT ![s] = @ \ {p}]
       \/ UNCHANGED inbox

Candidates(s) == inbox[s] \cup Noise
Delays(s) == 0 .. (ProbeTimeout - clock[s])

\* A packet that fails validation is consumed: consec_bad++; continue.
Discard(s) ==
    \E p \in Candidates(s), d \in Delays(s) : \E k \in Keys(s, p) :
        /\ Arrives(s, p, d)
        /\ IsBad(s, AsRead(p, k))
        /\ consecBad[s] < MaxBadRun
        /\ consecBad' = [consecBad EXCEPT ![s] = @ + 1]
        /\ badRun' = [badRun EXCEPT ![s] = @ + 1]
        /\ UNCHANGED <<pc, ttl, seq, probeSeq, probeCount, probeSuccessful,
                       complete, useUdp, useIcmp, lastReport>>

\* Seeded fault: every destination-unreachable code ends the trace.
CompletesOnAnyUnreachable(p) ==
    p.type \in {ICMP_TYPE_ECHO_REPLY, ICMP_TYPE_UNREACHABLE}

\* The replies that set complete: an echo reply, or a protocol or port
\* unreachable, which only the target itself sends.
Completes(p) ==
    \/ p.type = ICMP_TYPE_ECHO_REPLY
    \/ /\ p.type = ICMP_TYPE_UNREACHABLE
       /\ p.code \in {ICMP_CODE_PROTOCOL_UNREACHABLE, ICMP_CODE_PORT_UNREACHABLE}

\* In ping mode a reply disables the protocol it did not come by: a UDP
\* reply clears use_icmp, an ICMP reply (echo or embedded ICMP) use_udp.
KeepUdp(s, viaUdp) == ~(PingMode[s] /\ ~viaUdp)
KeepIcmp(s, viaUdp) == ~(PingMode[s] /\ viaUdp)

(***************************************************************************)
(* A packet that passes validation.  An echo reply sets complete (and, in  *)
(* ping mode, use_udp = false) after the report; any other reply sets      *)
(* probe_successful, sets complete for protocol or port unreachable, and   *)
(* in ping mode disables the protocol the reply did not come by, before    *)
(* the report.  The report carries elapsed_time = GetTickCount() -         *)
(* current_ticks, the ticks since this pass of the receive loop began.     *)
(* A zero return from the callback ends the trace; otherwise consec_bad = *)
(* 0 and the receive loop is left.                                        *)
(***************************************************************************)
Accept(s) ==
    \E p \in Candidates(s), d \in Delays(s) : \E k \in Keys(s, p) :
        LET echo == p.type = ICMP_TYPE_ECHO_REPLY
            viaUdp == ~echo /\ p.proto = "udp"
        IN
        /\ Arrives(s, p, d)
        /\ ~IsBad(s, AsRead(p, k))
        /\ lastReport' = [lastReport EXCEPT ![s] =
                            [kind |-> "result", ttl |-> ttl[s], from |-> p.from,
                             elapsed |-> d, udp |-> viaUdp, origin |-> p.origin]]
        /\ badRun' = [badRun EXCEPT ![s] = 0]
        /\ \E continue \in BOOLEAN :
              /\ pc' = [pc EXCEPT ![s] = IF continue THEN "probe" ELSE "stopped"]
              /\ consecBad' = [consecBad EXCEPT ![s] = IF continue THEN 0 ELSE @]
              /\ IF continue \/ ~echo
                 THEN /\ complete' = [complete EXCEPT ![s] = Completes(p)]
                      /\ probeSuccessful' = [probeSuccessful EXCEPT ![s] = @ \/ ~echo]
                      /\ useUdp' = [useUdp EXCEPT ![s] = @ /\ KeepUdp(s, viaUdp)]
                      /\ useIcmp' = [useIcmp EXCEPT ![s] = @ /\ KeepIcmp(s, viaUdp)]
                 ELSE UNCHANGED <<complete, probeSuccessful, useUdp, useIcmp>>
        /\ UNCHANGED <<ttl, seq, probeSeq, probeCount>>

-----------------------------------------------------------------------------
TraceStep(s) ==
    \/ /\ \/ TraceEnds(s) \/ NextHop(s) \/ ProbesDone(s) \/ SendFails(s)
          \/ BudgetSpent(s) \/ SocketFails(s)
       /\ UNCHANGED <<tickZero, waited, rbuf>>
    \/ (SendProbe(s) \/ RecvTimesOut(s)) /\ UNCHANGED rbuf
    \/ Discard(s) \/ Accept(s)

EntryStep(s) ==
    \/ InitialiseWinsock(s) \/ WSAStartup(s)
    \/ SetupSucceeds(s) \/ SetupFails(s) \/ CloseSockets(s)

Step(s) ==
    \/ TraceStep(s) /\ UNCHANGED entryVars
    \/ EntryStep(s) /\ UNCHANGED <<ttl, seq, probeSeq, probeCount, probeSuccessful,
                                    complete, consecBad, useUdp, useIcmp, clock,
                                    tickZero, waited, inbox, lastReport,
                                    badRun, rbuf>>

Next == \E s \in Sessions : Step(s)

Spec == Init /\ [][Next]_vars

\* Each session is a thread that runs until the entry returns: every wait
\* in it is bounded by the receive timeout, so it keeps taking steps.
FairSpec == Spec /\ \A s \in Sessions : WF_vars(Step(s))
-----------------------------------------------------------------------------
(***************************************************************************)
(* Properties.                                                             *)
(***************************************************************************)

\* A result handed to the callback answers the probe the session is
\* waiting for (its own session, its current probe_sequence), never a late
\* or duplicated reply to an earlier probe nor another session's reply:
\* the reply-correlation checks of the receive loop.
ResultFromCurrentProbe ==
    [][\A s \in Sessions :
         (lastReport'[s] # lastReport[s] /\ lastReport'[s].kind = "result")
            => lastReport'[s].origin = <<s, probeSeq[s]>>]_vars

\* While a ping-mode trace runs, at least one of UDP and ICMP stays enabled:
\* the protocol-disabling after a reply never leaves sendTraceRouteMessage
\* with "no protocol selected".
AtLeastOneProtocol ==
    \A s \in Sessions : pc[s] \in Running => useUdp[s] \/ useIcmp[s]

\* complete is only ever set by an answer from the target itself (echo
\* reply, port or protocol unreachable), never by a router's reply.
CompletionAtTarget ==
    \A s \in Sessions :
        complete[s] => lastReport[s].kind = "result" /\ lastReport[s].from = Hops

(***************************************************************************)
(* Refinement: a path-discovery call implements HopTrace.  The abstract    *)
(* call is tracing while traceRoute runs; its hop is ttl; its reports for *)
(* the hop are the probes sent whose wait has ended (probe_count, less the *)
(* one being waited for); the hop is answered once probe_successful or    *)
(* complete is set, and done once complete is; what the callback got is   *)
(* lastReport without the fields HopTrace does not speak of.              *)
(***************************************************************************)
AbsStatus(s) ==
    IF pc[s] \in Running THEN "tracing"
    ELSE IF pc[s] \in Terminated \cup Returned THEN "returned" ELSE "setup"
AbsReport(r) ==
    IF r.kind = "result" THEN [kind |-> r.kind, ttl |-> r.ttl, from |-> r.from]
    ELSE [kind |-> r.kind, ttl |-> r.ttl]

HT == INSTANCE HopTrace WITH
        status <- [s \in Sessions |-> AbsStatus(s)],
        hop <- ttl,
        reports <- [s \in Sessions |-> IF pc[s] \notin Running THEN 0
                                       ELSE IF pc[s] = "wait" THEN probeCount[s] - 1
                                       ELSE probeCount[s]],
        answered <- [s \in Sessions |-> pc[s] \in Running /\ (probeSuccessful[s] \/ complete[s])],
        done <- [s \in Sessions |-> pc[s] \in Running /\ complete[s]],
        last <- [s \in Sessions |-> AbsReport(lastReport[s])]

\* Every path-discovery behaviour of the entry is a behaviour of HopTrace:
\* hops are probed in order, each gets at most MaxProbes reports and at
\* most one result, a result names the node of the hop being probed
\* (never a late reply from an earlier hop), and no hop follows the
\* target's answer, however the network loses, delays or duplicates.
TraceRefinesHopTrace == HT!Spec

\* A path-discovery call always returns (spec: within 32 hops), whatever
\* the network and the socket calls do.
PathTraceEnds ==
    \A s \in Sessions : ~PingMode[s] => <>(pc[s] \in Returned)

\* Every probe goes out with a TTL in 1..32 (spec: Probe.ttl is 1..32).
TTLWithinRange ==
    \A s \in Sessions : pc[s] = "wait" => ttl[s] \in 1 .. MaxTTL

\* Spec: after more than 256 consecutive malformed or unmatched packets,
\* ping mode aborts with "too many consecutive bad packets" and sends
\* nothing more.
BadPacketCeilingHalts ==
    [][\A s \in Sessions :
         (PingMode[s] /\ seq'[s] # seq[s]) => badRun[s] <= MaxConsecBad]_vars

\* The elapsed time of a result is the round-trip time of the probe: the
\* ticks since it was sent.
ElapsedIsRoundTrip ==
    [][\A s \in Sessions :
         (lastReport'[s] # lastReport[s] /\ lastReport'[s].kind = "result")
            => lastReport'[s].elapsed = waited'[s]]_vars

\* Spec: a probe's budget is 5000 ms measured from its send: no probe is
\* waited for longer, however the passes of the receive loop, with
\* start_ticks == 0 standing for "not started", fall on the tick count.
ProbeWaitWithinBudget ==
    \A s \in Sessions : waited[s] <= ProbeTimeout

\* The entry holds both raw sockets exactly while traceRoute runs, and none
\* once it has returned, by any of its seven paths (six setup failures and
\* the call of traceRoute): no socket leaks and none is closed in use.
SocketsHeldWhileTracing ==
    \A s \in Sessions :
        /\ pc[s] \in Running => socks[s] = {"recv", "send"}
        /\ pc[s] \in Returned => socks[s] = {}

\* A session calls socket() only after WSAStartup has been called and has
\* returned: the winsock_started_up test of initialiseWinsock stands for a
\* completed start-up.
WinsockReadyBeforeSocket ==
    \A s \in Sessions : pc[s] = "recvsock" => wsaReturned
=============================================================================
