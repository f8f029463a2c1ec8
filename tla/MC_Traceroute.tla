--------------------------- MODULE MC_Traceroute ---------------------------
(***************************************************************************)
(* Instances of Traceroute for TLC.  The code's constants are kept where   *)
(* they do not enlarge the state space (MaxProbes = 3, BasePort = 48132,   *)
(* SeqWidth = 16); MaxTTL, the hop count and the timeout are scaled down.  *)
(***************************************************************************)
EXTENDS Traceroute

CONSTANTS s1, s2, NoOrig

\* One trace, or two concurrent traces with distinct trace_ids.
OneSession == {s1}
TwoSessions == {s1, s2}
TraceIds == [s \in {s1, s2} |-> IF s = s1 THEN 1 ELSE 2]
IdentSet == {1, 2, 3}
PathOnly == [s \in {s1, s2} |-> FALSE]
PingOnly == [s \in {s1, s2} |-> TRUE]

\* A probe never starts at the tick count's zero, or may start there.
NeverTickZero == {FALSE}
MayTickZero == BOOLEAN

\* Packets that answer no probe: a runt, one whose length disagrees with
\* its IP total length, an ICMP redirect, a TTL exceeded for another
\* host's probe (foreign ident), and an ICMP error too short to embed a
\* probe header.
Stray(len, type, ident) ==
    [len |-> len, type |-> type, code |-> 0, ident |-> ident, proto |-> "udp",
     field |-> Field(0), from |-> 0, origin |-> NoOrig]
NoisePackets ==
    {Stray("short", 0, 3), Stray("badlen", 11, 1), Stray("full", 5, 1),
     Stray("full", 11, 3), Stray("noembed", 11, 1)}
FewNoise == {Stray("full", 11, 3)}

\* Another host's TTL exceeded, and a TTL exceeded that carries our
\* trace_id but is cut 2 bytes after the embedded IP header.
CutNoise == {Stray("full", 11, 3), Stray("cut", 11, 1)}
=============================================================================
