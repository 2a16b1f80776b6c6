-------------------------- MODULE IperfUdp_proofs --------------------------
(***************************************************************************)
(* Proofs about the UDP stream: type correctness, and the loss accounting  *)
(* of iperf_udp_recv for any number of packets, any loss, reordering and   *)
(* number of duplicates, omit period or not, in either direction.          *)
(*                                                                         *)
(* What the receiver's counter means only follows once it is known where   *)
(* datagrams can come from: NetSound says that what is under way or has    *)
(* arrived was sent, and that without duplicates nothing arrives twice.    *)
(***************************************************************************)
EXTENDS IperfUdp, FiniteSetTheorems, WellFoundedInduction, TLAPS

\* Datagrams under way or received were sent; what was received is no higher
\* than the highest number seen; before the first duplicate nothing that has
\* arrived is still under way.
NetSound ==
    /\ sp["snd"].packet_count <= MaxPackets
    /\ net \subseteq 1..sp["snd"].packet_count
    /\ got \subseteq 1..sp["snd"].packet_count
    /\ got \subseteq 1..sp["rcv"].packet_count
    /\ dups = 0 => net \cap got = {}

\* send_results subtracts bytes_sent_omit from bytes_sent.
OmittedWasSent == om["snd"].bytes_sent <= rp["snd"].bytes_sent

TypeInv == TypeOK /\ NetSound /\ OmittedWasSent

LossInv == LossNotOverstated /\ LossExact

-----------------------------------------------------------------------------
\* What the receiver's counters become when a datagram arrives.
LEMMA AccountType ==
    ASSUME NEW s \in Counters, NEW p \in Nat
    PROVE  /\ Account(s, p) \in Counters
           /\ p > s.packet_count => /\ Account(s, p).packet_count = p
                                    /\ Account(s, p).cnt_error
                                         = s.cnt_error + (p - 1 - s.packet_count)
           /\ p <= s.packet_count => /\ Account(s, p).packet_count = s.packet_count
                                     /\ Account(s, p).cnt_error
                                          = IF s.cnt_error > 0 THEN s.cnt_error - 1 ELSE s.cnt_error
  <1>1. /\ s = [packet_count |-> s.packet_count, peer_packet_count |-> s.peer_packet_count,
               cnt_error |-> s.cnt_error, outoforder_packets |-> s.outoforder_packets]
        /\ s.packet_count \in Nat /\ s.peer_packet_count \in Nat
        /\ s.cnt_error \in Nat /\ s.outoforder_packets \in Nat
    BY DEF Counters
  <1>2. CASE p > s.packet_count
    <2>1. Account(s, p) = [packet_count |-> p, peer_packet_count |-> s.peer_packet_count,
                           cnt_error |-> s.cnt_error + (p - 1 - s.packet_count),
                           outoforder_packets |-> s.outoforder_packets]
      BY <1>1, <1>2 DEF Account
    <2>2. s.cnt_error + (p - 1 - s.packet_count) \in Nat
      BY <1>1, <1>2
    <2> QED
      BY <1>1, <1>2, <2>1, <2>2 DEF Counters
  <1>3. CASE p <= s.packet_count
    <2> DEFINE c == IF s.cnt_error > 0 THEN s.cnt_error - 1 ELSE s.cnt_error
    <2>1. Account(s, p) = [packet_count |-> s.packet_count,
                           peer_packet_count |-> s.peer_packet_count,
                           cnt_error |-> c,
                           outoforder_packets |-> s.outoforder_packets + 1]
      <3>1. Account(s, p) = [s EXCEPT !.outoforder_packets = s.outoforder_packets + 1,
                                      !.cnt_error = c]
        BY <1>1, <1>3 DEF Account
      <3> HIDE DEF c
      <3> QED
        BY <1>1, <3>1
    <2>2. c \in Nat /\ s.outoforder_packets + 1 \in Nat
      BY <1>1
    <2>3. ~(p > s.packet_count)
      BY <1>1, <1>3
    <2> HIDE DEF c
    <2>4. /\ Account(s, p) \in Counters
          /\ Account(s, p).packet_count = s.packet_count
          /\ Account(s, p).cnt_error = c
      BY <1>1, <2>1, <2>2 DEF Counters
    <2> QED
      BY <2>3, <2>4 DEF c
  <1> QED
    BY <1>1, <1>2, <1>3

\* The highest number seen only grows, and covers the packet.
LEMMA AccountGrows ==
    ASSUME NEW s \in Counters, NEW p \in Nat
    PROVE  /\ Account(s, p) \in Counters
           /\ Account(s, p).packet_count >= p
           /\ Account(s, p).packet_count >= s.packet_count
  <1>1. s.packet_count \in Nat
    BY DEF Counters
  <1>2. CASE p > s.packet_count
    BY <1>1, <1>2, AccountType
  <1>3. CASE p <= s.packet_count
    BY <1>1, <1>3, AccountType
  <1> QED
    BY <1>1, <1>2, <1>3

\* A side is one of two different ones, and so are the roles.
LEMMA Roles ==
    /\ Client \in Side /\ Server \in Side /\ Client # Server
    /\ Side = {Client, Server}
  BY DEF Client, Server, Side

-----------------------------------------------------------------------------
\* The types hold at first.
LEMMA InitType == Init => TypeInv
  BY UdpAssumption DEF Init, TypeInv, TypeOK, NetSound, OmittedWasSent, Side, State, Counters

\* A packet sent.
LEMMA SendType ==
    ASSUME TypeInv, iperf_udp_send
    PROVE  TypeInv'
  BY UdpAssumption DEF TypeInv, TypeOK, NetSound, OmittedWasSent, iperf_udp_send, Side, Counters

\* A packet received.
LEMMA RecvType ==
    ASSUME TypeInv, NEW p \in net, iperf_udp_recv(p)
    PROVE  TypeInv'
  <1>1. p \in Nat /\ p \in 1..MaxPackets /\ p \in 1..sp["snd"].packet_count
    BY UdpAssumption DEF TypeInv, TypeOK, NetSound, Side, Counters
  <1>2. sp["rcv"] \in Counters
    BY DEF TypeInv, TypeOK, Side
  <1>3. Account(sp["rcv"], p) \in Counters
        /\ Account(sp["rcv"], p).packet_count >= p
        /\ Account(sp["rcv"], p).packet_count >= sp["rcv"].packet_count
    BY <1>1, <1>2, AccountGrows
  <1>4. /\ sp' = [sp EXCEPT !["rcv"] = Account(sp["rcv"], p)]
        /\ got' = got \cup {p}
        /\ net' \subseteq net
        /\ dups' = 0 => net' = net \ {p} /\ dups = 0
        /\ dups' \in 0..MaxDuplicates
    BY UdpAssumption DEF iperf_udp_recv, Delivered, TypeInv, TypeOK
  <1>5. TypeOK'
    <2>1. sp' \in [Side -> Counters]
      BY <1>3, <1>4 DEF TypeInv, TypeOK
    <2>2. rp' \in [Side -> [bytes_sent : Nat, bytes_received : Nat, this_interval : Nat]]
      BY DEF TypeInv, TypeOK, iperf_udp_recv, Side
    <2> QED
      BY <1>1, <1>4, <2>1, <2>2 DEF TypeInv, TypeOK, iperf_udp_recv
  <1>6. NetSound'
    <2>1. sp'["snd"] = sp["snd"] /\ sp'["rcv"] = Account(sp["rcv"], p)
      BY <1>4 DEF TypeInv, TypeOK, Side
    <2>2. sp["rcv"].packet_count \in Nat /\ Account(sp["rcv"], p).packet_count \in Nat
      BY <1>2, <1>3 DEF Counters
    <2>3. got' \subseteq 1..sp'["rcv"].packet_count
      BY <1>1, <1>3, <1>4, <2>1, <2>2 DEF TypeInv, NetSound
    <2> QED
      BY <1>1, <1>4, <2>1, <2>3 DEF TypeInv, NetSound
  <1>7. OmittedWasSent'
    BY DEF TypeInv, TypeOK, OmittedWasSent, iperf_udp_recv, Side
  <1> QED
    BY <1>5, <1>6, <1>7 DEF TypeInv

\* A packet that comes after the end.
LEMMA LateReceiveType ==
    ASSUME TypeInv, NEW p \in net, LateReceive(p)
    PROVE  TypeInv'
  <1>1. net' \subseteq net /\ dups' \in 0..MaxDuplicates
    BY UdpAssumption DEF TypeInv, TypeOK, LateReceive, Delivered
  <1>2. /\ UNCHANGED <<config, state, omitting, sp, om, rp, got>>
        /\ dups' = 0 => dups = 0
    BY UdpAssumption DEF LateReceive, Delivered, TypeInv, TypeOK
  <1> QED
    BY <1>1, <1>2 DEF TypeInv, TypeOK, NetSound, OmittedWasSent

\* The test starts.
LEMMA TestRunningType ==
    ASSUME TypeInv, NEW x \in Side, TestRunning(x)
    PROVE  TypeInv'
  BY DEF TypeInv, TypeOK, NetSound, OmittedWasSent, TestRunning, Side, State

\* The omit period ends.
LEMMA OmitType ==
    ASSUME TypeInv, NEW x \in Side, omit_timer_proc(x)
    PROVE  TypeInv'
  BY DEF TypeInv, TypeOK, NetSound, OmittedWasSent, omit_timer_proc, iperf_reset_stats,
         Side, Counters

\* An interval ends.
LEMMA StatsType ==
    ASSUME TypeInv, NEW x \in Side, stats_timer_proc(x)
    PROVE  TypeInv'
  BY DEF TypeInv, TypeOK, NetSound, OmittedWasSent, stats_timer_proc, iperf_stats_callback, Side

\* The test ends.
LEMMA TestEndType ==
    ASSUME TypeInv, ClientTestEnd \/ ServerTestEnd
    PROVE  TypeInv'
  <1>1. ASSUME NEW x \in Side, NEW q \in State,
               rp' = [rp EXCEPT ![x].this_interval = 0],
               state' = [state EXCEPT ![x] = q],
               UNCHANGED <<config, omitting, sp, om, net, dups, got>>
        PROVE  TypeInv'
    BY <1>1 DEF TypeInv, TypeOK, NetSound, OmittedWasSent, Side
  <1>2. CASE ClientTestEnd
    BY <1>1, <1>2, Roles DEF ClientTestEnd, iperf_stats_callback, State
  <1>3. CASE ServerTestEnd
    BY <1>1, <1>3, Roles DEF ServerTestEnd, iperf_stats_callback, State
  <1> QED
    BY <1>2, <1>3

\* What a side takes over from the other changes neither what the sender has
\* sent nor what the receiver has counted.
LEMMA ResultsType ==
    ASSUME TypeInv, NEW x \in Side, NEW y \in Side, x # y
    PROVE  LET s == get_results(x, send_results(y))
               b == get_results_bytes(x, send_results(y))
           IN  /\ s \in Counters
               /\ b \in [bytes_sent : Nat, bytes_received : Nat, this_interval : Nat]
               /\ s.packet_count = sp[x].packet_count
               /\ x = "rcv" => s.cnt_error = sp[x].cnt_error
               /\ x = "snd" => b.bytes_sent = rp[x].bytes_sent
  <1>1. CASE x = "snd" /\ y = "rcv"
    <2>1. sp[x] \in Counters /\ sp[y] \in Counters
      BY DEF TypeInv, TypeOK
    <2>2. /\ rp[x] \in [bytes_sent : Nat, bytes_received : Nat, this_interval : Nat]
          /\ rp[y].bytes_received \in Nat
      BY DEF TypeInv, TypeOK
    <2>3. /\ send_results(y).errors \in Nat /\ send_results(y).packets \in Nat
          /\ send_results(y).bytes \in Nat
      BY <1>1, <2>1, <2>2 DEF send_results, Counters
    <2> QED
      BY <1>1, <2>1, <2>2, <2>3 DEF get_results, get_results_bytes, Counters
  <1>2. CASE x = "rcv" /\ y = "snd"
    BY <1>2 DEF TypeInv, TypeOK, OmittedWasSent, get_results, get_results_bytes, send_results,
                Counters, Side
  <1> QED
    BY <1>1, <1>2 DEF Side

\* Results are exchanged.
LEMMA ExchangeType ==
    ASSUME TypeInv, ClientExchange \/ ServerExchange \/ ClientDisplay
    PROVE  TypeInv'
  <1>1. CASE ClientExchange
    BY <1>1, Roles DEF TypeInv, TypeOK, NetSound, OmittedWasSent, ClientExchange, State
  <1>2. ASSUME NEW x \in Side, NEW y \in Side, x # y,
               sp' = [sp EXCEPT ![x] = get_results(x, send_results(y))],
               rp' = [rp EXCEPT ![x] = get_results_bytes(x, send_results(y))],
               state' \in [Side -> State],
               UNCHANGED <<config, omitting, om, net, dups, got>>
        PROVE  TypeInv'
    BY <1>2, ResultsType DEF TypeInv, TypeOK, NetSound, OmittedWasSent, Side
  <1>3. CASE ServerExchange
    <2>1. state' \in [Side -> State]
      BY <1>3, Roles DEF ServerExchange, TypeInv, TypeOK, State
    <2> QED
      BY <1>2, <1>3, <2>1, Roles DEF ServerExchange
  <1>4. CASE ClientDisplay
    <2>1. state' \in [Side -> State]
      BY <1>4, Roles DEF ClientDisplay, TypeInv, TypeOK, State
    <2> QED
      BY <1>2, <1>4, <2>1, Roles DEF ClientDisplay
  <1> QED
    BY <1>1, <1>3, <1>4

\* Every step keeps the types.
LEMMA NextType == TypeInv /\ [Next]_vars => TypeInv'
  <1> SUFFICES ASSUME TypeInv, [Next]_vars
               PROVE  TypeInv'
    OBVIOUS
  <1>1. CASE UNCHANGED vars
    BY <1>1 DEF vars, TypeInv, TypeOK, NetSound, OmittedWasSent
  <1>2. CASE Over
    BY <1>1, <1>2 DEF Over
  <1> QED
    BY <1>1, <1>2, SendType, RecvType, LateReceiveType, TestRunningType, OmitType, StatsType,
       TestEndType, ExchangeType DEF Next

\* The counters of both sides always have their types: in particular the number
\* of lost packets never goes below zero, although it is counted down, and the
\* bytes a sender reports never do, although it subtracts what it omitted.
THEOREM TypeCorrect == Spec => []TypeOK
  <1>1. Init => TypeInv
    BY InitType
  <1>2. TypeInv /\ [Next]_vars => TypeInv'
    BY NextType
  <1>3. TypeInv => TypeOK
    BY DEF TypeInv
  <1> QED
    BY <1>1, <1>2, <1>3, PTL DEF Spec

-----------------------------------------------------------------------------
\* A packet that goes forward adds the packets it has skipped to the missing.
LEMMA MissingForward ==
    ASSUME NEW a \in Nat, NEW b \in Nat, b > a, NEW G \in SUBSET (1..a)
    PROVE  Cardinality((1..b) \ (G \cup {b})) = Cardinality((1..a) \ G) + (b - 1 - a)
  <1> DEFINE M == (1..a) \ G
             S == (a + 1)..(b - 1)
             T == (1..b) \ (G \cup {b})
  <1>1. T = M \cup S
    OBVIOUS
  <1>2. M \cap S = {}
    OBVIOUS
  <1>3. IsFiniteSet(M)
    <2>1. IsFiniteSet(1..a)
      BY FS_Interval
    <2> QED
      BY <2>1, FS_Subset
  <1>4. IsFiniteSet(S) /\ Cardinality(S) = b - 1 - a
    BY FS_Interval
  <1>5. Cardinality(M) \in Nat
    BY <1>3, FS_CardinalityType
  <1>6. Cardinality(M \cup S) = Cardinality(M) + Cardinality(S) - Cardinality(M \cap S)
    BY <1>3, <1>4, FS_Union
  <1>7. Cardinality(M \cap S) = 0
    BY <1>2, FS_EmptySet
  <1> HIDE DEF M, S, T
  <1>8. Cardinality(T) = Cardinality(M) + (b - 1 - a)
    BY <1>1, <1>4, <1>5, <1>6, <1>7
  <1> QED
    BY <1>8 DEF M, T

\* A late packet takes itself away from the missing if it was one of them.
LEMMA MissingLate ==
    ASSUME NEW a \in Nat, NEW p \in 1..a, NEW G \in SUBSET (1..a)
    PROVE  /\ Cardinality((1..a) \ G) \in Nat
           /\ p \in G => (1..a) \ (G \cup {p}) = (1..a) \ G
           /\ p \notin G => /\ Cardinality((1..a) \ (G \cup {p})) = Cardinality((1..a) \ G) - 1
                            /\ Cardinality((1..a) \ G) > 0
  <1> DEFINE M == (1..a) \ G
             T == (1..a) \ (G \cup {p})
  <1>1. IsFiniteSet(M)
    <2>1. IsFiniteSet(1..a)
      BY FS_Interval
    <2> QED
      BY <2>1, FS_Subset
  <1>2. Cardinality(M) \in Nat
    BY <1>1, FS_CardinalityType
  <1>3. ASSUME p \notin G
        PROVE  Cardinality(T) = Cardinality(M) - 1 /\ Cardinality(M) > 0
    <2>1. p \in M /\ T = M \ {p}
      BY <1>3
    <2> HIDE DEF M, T
    <2>2. Cardinality(M \ {p}) = Cardinality(M) - 1 /\ IsFiniteSet(M \ {p})
      BY <1>1, <2>1, FS_RemoveElement
    <2>3. Cardinality(M \ {p}) \in Nat
      BY <2>2, FS_CardinalityType
    <2> QED
      BY <1>2, <2>1, <2>2, <2>3
  <1>4. p \in G => T = M
    OBVIOUS
  <1> QED
    BY <1>2, <1>3, <1>4

\* Nothing is missing at first.
LEMMA InitLoss == Init => LossInv
  <1> SUFFICES ASSUME Init PROVE LossInv
    OBVIOUS
  <1>1. sp["rcv"].packet_count = 0 /\ sp["rcv"].cnt_error = 0
    BY DEF Init, Side
  <1>2. Missing = {}
    BY <1>1 DEF Missing
  <1> QED
    BY <1>1, <1>2, FS_EmptySet DEF LossInv, LossNotOverstated, LossExact

\* A packet received is accounted for.
LEMMA RecvLoss ==
    ASSUME TypeInv, LossInv, NEW p \in net, iperf_udp_recv(p)
    PROVE  LossInv'
  <1> DEFINE s == sp["rcv"]
             a == s.packet_count
  <1>1. p \in Nat /\ p > 0
    BY UdpAssumption DEF TypeInv, TypeOK
  <1>2. s \in Counters /\ a \in Nat /\ s.cnt_error \in Nat
    BY DEF TypeInv, TypeOK, Side, Counters
  <1>3. got \in SUBSET (1..a)
    BY DEF TypeInv, NetSound
  <1>4. sp'["rcv"] = Account(s, p) /\ got' = got \cup {p}
    BY DEF iperf_udp_recv, TypeInv, TypeOK, Side
  <1>5. dups' = 0 => dups = 0 /\ p \notin got
    BY UdpAssumption DEF TypeInv, TypeOK, NetSound, iperf_udp_recv, Delivered
  <1>6. CASE p > a
    <2>1. sp'["rcv"].packet_count = p /\ sp'["rcv"].cnt_error = s.cnt_error + (p - 1 - a)
      <3>1. /\ Account(s, p).packet_count = p
            /\ Account(s, p).cnt_error = s.cnt_error + (p - 1 - a)
        <4> HIDE DEF s
        <4> QED
          BY <1>1, <1>2, <1>6, AccountType
      <3> QED
        BY <1>4, <3>1
    <2>2. Missing' = (1..p) \ (got \cup {p})
      BY <1>4, <2>1 DEF Missing
    <2>3. Cardinality(Missing') = Cardinality(Missing) + (p - 1 - a)
      BY <1>1, <1>2, <1>3, <1>6, <2>2, MissingForward DEF Missing
    <2>4. Cardinality(Missing) \in Nat
      <3>1. IsFiniteSet(1..a)
        BY <1>2, FS_Interval
      <3>2. IsFiniteSet(Missing)
        BY <3>1, FS_Subset DEF Missing
      <3> QED
        BY <3>2, FS_CardinalityType
    <2> QED
      BY <1>1, <1>2, <1>5, <2>1, <2>3, <2>4 DEF LossInv, LossNotOverstated, LossExact
  <1>7. CASE p <= a
    <2>1. /\ sp'["rcv"].packet_count = a
          /\ sp'["rcv"].cnt_error = IF s.cnt_error > 0 THEN s.cnt_error - 1 ELSE s.cnt_error
      <3>1. /\ Account(s, p).packet_count = a
            /\ Account(s, p).cnt_error
                 = IF s.cnt_error > 0 THEN s.cnt_error - 1 ELSE s.cnt_error
        <4> HIDE DEF s
        <4> QED
          BY <1>1, <1>2, <1>7, AccountType
      <3> QED
        BY <1>4, <3>1
    <2>2. Missing' = (1..a) \ (got \cup {p})
      BY <1>4, <2>1 DEF Missing
    <2>3. p \in 1..a
      BY <1>1, <1>2, <1>7
    <2>4. /\ Cardinality(Missing) \in Nat
          /\ p \in got => Missing' = Missing
          /\ p \notin got => /\ Cardinality(Missing') = Cardinality(Missing) - 1
                             /\ Cardinality(Missing) > 0
      <3>1. Missing = (1..a) \ got
        BY DEF Missing
      <3>2. /\ Cardinality((1..a) \ got) \in Nat
            /\ p \in got => (1..a) \ (got \cup {p}) = (1..a) \ got
            /\ p \notin got =>
                 /\ Cardinality((1..a) \ (got \cup {p})) = Cardinality((1..a) \ got) - 1
                 /\ Cardinality((1..a) \ got) > 0
        <4> HIDE DEF a
        <4> QED
          BY <1>2, <1>3, <2>3, MissingLate
      <3> QED
        BY <2>2, <3>1, <3>2, Zenon
    <2> QED
      BY <1>2, <1>5, <2>1, <2>4 DEF LossInv, LossNotOverstated, LossExact
  <1> QED
    BY <1>1, <1>2, <1>6, <1>7

\* No other step changes what the receiver has counted.
LEMMA OthersLoss ==
    ASSUME LossInv, got' = got, dups' = 0 => dups = 0,
           sp'["rcv"].packet_count = sp["rcv"].packet_count,
           sp'["rcv"].cnt_error = sp["rcv"].cnt_error
    PROVE  LossInv'
  BY DEF LossInv, LossNotOverstated, LossExact, Missing

\* Every step keeps the account.
LEMMA NextLoss == TypeInv /\ LossInv /\ [Next]_vars => LossInv'
  <1> SUFFICES ASSUME TypeInv, LossInv, [Next]_vars
               PROVE  LossInv'
    OBVIOUS
  <1>1. CASE UNCHANGED vars
    BY <1>1, OthersLoss DEF vars
  <1>2. CASE Over
    BY <1>2, OthersLoss DEF Over, vars
  <1>3. CASE iperf_udp_send
    BY <1>3, OthersLoss DEF iperf_udp_send, TypeInv, TypeOK, Side
  <1>4. ASSUME NEW p \in net, LateReceive(p)
        PROVE  LossInv'
    BY <1>4, OthersLoss, UdpAssumption DEF LateReceive, Delivered, TypeInv, TypeOK
  <1>5. ASSUME NEW x \in Side, TestRunning(x) \/ omit_timer_proc(x) \/ stats_timer_proc(x)
        PROVE  LossInv'
    BY <1>5, OthersLoss DEF TestRunning, omit_timer_proc, stats_timer_proc
  <1>6. CASE ClientTestEnd \/ ServerTestEnd \/ ClientExchange
    BY <1>6, OthersLoss DEF ClientTestEnd, ServerTestEnd, ClientExchange
  <1>7. ASSUME NEW x \in Side, NEW y \in Side, x # y, got' = got, dups' = dups,
               sp' = [sp EXCEPT ![x] = get_results(x, send_results(y))]
        PROVE  LossInv'
    BY <1>7, ResultsType, OthersLoss DEF TypeInv, TypeOK, Side
  <1>8. CASE ServerExchange \/ ClientDisplay
    BY <1>7, <1>8, Roles DEF ServerExchange, ClientDisplay
  <1> QED
    BY <1>1, <1>2, <1>3, <1>4, <1>5, <1>6, <1>8, RecvLoss DEF Next

\* iperf_udp_recv's counter is the number of missing packets in every run
\* without duplicates, and with duplicates it never exceeds that number.
THEOREM LossAccounting == Spec => [](LossExact /\ LossNotOverstated)
  <1>1. Init => TypeInv /\ LossInv
    BY InitType, InitLoss
  <1>2. TypeInv /\ LossInv /\ [Next]_vars => (TypeInv /\ LossInv)'
    BY NextType, NextLoss
  <1>3. LossInv => LossExact /\ LossNotOverstated
    BY DEF LossInv
  <1> QED
    BY <1>1, <1>2, <1>3, PTL DEF Spec

-----------------------------------------------------------------------------
(* The report of the client. *)

\* The two sides leave the test one behind the other.
EndLadder ==
    /\ state[Client] = "EXCHANGE_RESULTS" => state[Server] \in {"EXCHANGE_RESULTS", "DISPLAY_RESULTS"}
    /\ state[Client] = "DISPLAY_RESULTS" => state[Server] = "DISPLAY_RESULTS"
    /\ state[Server] = "EXCHANGE_RESULTS" => state[Client] \in {"TEST_END", "EXCHANGE_RESULTS"}
    /\ state[Server] = "DISPLAY_RESULTS" => state[Client] \in {"EXCHANGE_RESULTS", "DISPLAY_RESULTS"}

\* The client prints its results last.
ClientPrintsLast ==
    /\ DOMAIN report = Side
    /\ report[Client] # <<>> => state[Client] = "DISPLAY_RESULTS"

\* A sender counts no losses of its own, in its omit period as little as after it.
SenderCountsNoLoss ==
    /\ om["snd"].cnt_error = 0
    /\ state["snd"] # "DISPLAY_RESULTS" => sp["snd"].cnt_error = 0

\* A server that has received printed the figures it still has.
ServerPrinted ==
    (~config.reverse /\ state["rcv"] \in {"EXCHANGE_RESULTS", "DISPLAY_RESULTS"}) =>
        /\ report["rcv"].lost = sp["rcv"].cnt_error - om["rcv"].cnt_error
        /\ report["rcv"].received = sp["rcv"].packet_count - om["rcv"].packet_count

ReportInv ==
    /\ EndLadder
    /\ ClientPrintsLast
    /\ SenderCountsNoLoss
    /\ ServerPrinted
    /\ ReportedLoss

\* Nothing is reported at first.
LEMMA InitReport == Init => ReportInv
  BY DEF Init, ReportInv, EndLadder, ClientPrintsLast, SenderCountsNoLoss, ServerPrinted, ReportedLoss,
         Client, Server, Side

\* Before the receiver is done nobody has printed what it measured.
LEMMA NobodyPrinted ==
    ASSUME ReportInv, state["snd"] = "TEST_RUNNING" \/ state["rcv"] = "TEST_RUNNING"
    PROVE  /\ report[Client] = <<>>
           /\ state[Client] # "DISPLAY_RESULTS"
  BY DEF ReportInv, EndLadder, ClientPrintsLast, Client, Server, Side

\* The traffic, the timers and the end of the test at the client come before any report.
LEMMA TrafficReport ==
    ASSUME ReportInv, DOMAIN report = Side,
           state["snd"] = "TEST_RUNNING" \/ state["rcv"] = "TEST_RUNNING",
           UNCHANGED <<config, state, omitting, om, report>>,
           sp'["snd"].cnt_error = sp["snd"].cnt_error,
           state["rcv"] # "TEST_RUNNING" => sp'["rcv"] = sp["rcv"]
    PROVE  ReportInv'
  <1>1. report[Client] = <<>>
    BY NobodyPrinted
  <1>2. Client' = Client /\ Server' = Server
    BY DEF Client, Server
  <1>3. ServerPrinted'
    BY DEF ReportInv, ServerPrinted
  <1> QED
    BY <1>1, <1>2, <1>3 DEF ReportInv, EndLadder, ClientPrintsLast, SenderCountsNoLoss, ReportedLoss

\* The start of the test reports nothing.
LEMMA TestRunningReport ==
    ASSUME TypeInv, ReportInv, NEW x \in Side, TestRunning(x)
    PROVE  ReportInv'
  <1>1. /\ state[x] = "TEST_START"
        /\ state' = [state EXCEPT ![x] = "TEST_RUNNING"]
        /\ UNCHANGED <<config, omitting, sp, om, rp, report>>
    BY DEF TestRunning
  <1>2. state \in [Side -> State]
    BY DEF TypeInv, TypeOK
  <1> QED
    BY <1>1, <1>2 DEF ReportInv, EndLadder, ClientPrintsLast, SenderCountsNoLoss, ServerPrinted,
                      ReportedLoss, Client, Server, Side

\* The end of the omit period leaves the reports alone.
LEMMA OmitReport ==
    ASSUME TypeInv, ReportInv, NEW x \in Side, omit_timer_proc(x)
    PROVE  ReportInv'
  <1>1. /\ state[x] = "TEST_RUNNING" /\ omitting[x]
        /\ omitting' = [omitting EXCEPT ![x] = FALSE]
        /\ UNCHANGED <<config, state, sp, report>>
    BY DEF omit_timer_proc
  <1>2. om'["snd"].cnt_error = 0
    BY <1>1 DEF omit_timer_proc, iperf_reset_stats, TypeInv, TypeOK, ReportInv, SenderCountsNoLoss, Side
  <1>3. report[Client] = <<>>
    BY <1>1, NobodyPrinted DEF Side
  <1>4. ServerPrinted'
    <2>1. x # "rcv" => om'["rcv"] = om["rcv"]
      BY DEF omit_timer_proc, iperf_reset_stats, TypeInv, TypeOK, Side
    <2> QED
      BY <1>1, <2>1 DEF ReportInv, ServerPrinted
  <1>5. Client' = Client /\ Server' = Server
    BY <1>1 DEF Client, Server
  <1> QED
    BY <1>1, <1>2, <1>3, <1>4, <1>5 DEF ReportInv, EndLadder, ClientPrintsLast, SenderCountsNoLoss,
                                        ReportedLoss

\* The end of the test on either side.
LEMMA TestEndReport ==
    ASSUME TypeInv, ReportInv, ClientTestEnd \/ ServerTestEnd
    PROVE  ReportInv'
  <1>1. /\ UNCHANGED <<config, omitting, sp, om>>
        /\ Client' = Client /\ Server' = Server
        /\ state \in [Side -> State]
    BY DEF ClientTestEnd, ServerTestEnd, Client, Server, TypeInv, TypeOK
  <1>2. CASE ClientTestEnd
    <2>1. /\ state[Client] = "TEST_RUNNING"
          /\ state' = [state EXCEPT ![Client] = "TEST_END"]
          /\ report' = report
      BY <1>2 DEF ClientTestEnd
    <2>2. report[Client] = <<>>
      BY <2>1 DEF ReportInv, ClientPrintsLast
    <2> QED
      BY <1>1, <2>1, <2>2, Roles DEF ReportInv, EndLadder, ClientPrintsLast, SenderCountsNoLoss,
                              ServerPrinted, ReportedLoss, Client, Server
  <1>3. CASE ServerTestEnd
    <2>1. /\ state[Client] = "TEST_END" /\ state[Server] = "TEST_RUNNING"
          /\ state' = [state EXCEPT ![Server] = "EXCHANGE_RESULTS"]
          /\ report' = [report EXCEPT ![Server] = Summary(Server, sp[Server], rp[Server])]
      BY <1>3 DEF ServerTestEnd
    <2>2. DOMAIN report = Side /\ report[Client] = <<>>
      BY <2>1 DEF ReportInv, ClientPrintsLast
    <2>3. DOMAIN report' = Side /\ report'[Client] = <<>>
      BY <2>1, <2>2, Roles
    <2>4. ServerPrinted'
      <3>1. CASE config.reverse
        BY <1>1, <3>1 DEF ServerPrinted
      <3>2. CASE ~config.reverse
        <4>1. Server = "rcv"
          BY <3>2 DEF Server
        <4>2. /\ report'["rcv"].lost = sp["rcv"].cnt_error - om["rcv"].cnt_error
              /\ report'["rcv"].received = sp["rcv"].packet_count - om["rcv"].packet_count
          BY <2>1, <2>2, <4>1 DEF Summary, Side
        <4> QED
          BY <1>1, <4>2 DEF ServerPrinted
      <3> QED
        BY <3>1, <3>2
    <2>5. EndLadder'
      BY <1>1, <2>1, Roles DEF EndLadder
    <2>6. SenderCountsNoLoss'
      BY <1>1, <2>1, Roles DEF ReportInv, SenderCountsNoLoss
    <2> QED
      BY <1>1, <2>3, <2>4, <2>5, <2>6 DEF ReportInv, ClientPrintsLast, ReportedLoss
  <1> QED
    BY <1>2, <1>3

\* The exchange of results on either side.
LEMMA ExchangeReport ==
    ASSUME TypeInv, ReportInv, ClientExchange \/ ServerExchange
    PROVE  ReportInv'
  <1>1. /\ UNCHANGED <<config, omitting, om, report>>
        /\ Client' = Client /\ Server' = Server
        /\ state \in [Side -> State] /\ sp \in [Side -> Counters]
        /\ state[Client] # "DISPLAY_RESULTS"
    BY DEF ClientExchange, ServerExchange, Client, Server, TypeInv, TypeOK
  <1>2. report[Client] = <<>>
    BY <1>1 DEF ReportInv, ClientPrintsLast
  <1>3. /\ sp'["rcv"].cnt_error = sp["rcv"].cnt_error
        /\ sp'["rcv"].packet_count = sp["rcv"].packet_count
        /\ state'["snd"] # "DISPLAY_RESULTS" => sp'["snd"] = sp["snd"] /\ state["snd"] # "DISPLAY_RESULTS"
    <2>1. CASE ClientExchange
      BY <1>1, <2>1, Roles DEF ClientExchange
    <2>2. CASE ServerExchange
      <3>1. /\ sp' = [sp EXCEPT ![Server] = get_results(Server, send_results(Client))]
            /\ state' = [state EXCEPT ![Server] = "DISPLAY_RESULTS"]
        BY <2>2 DEF ServerExchange
      <3>2. Server = "rcv" =>
              /\ get_results(Server, send_results(Client)).cnt_error = sp["rcv"].cnt_error
              /\ get_results(Server, send_results(Client)).packet_count = sp["rcv"].packet_count
        BY <1>1 DEF get_results, Counters, Side
      <3> QED
        BY <1>1, <3>1, <3>2, Roles DEF Side
    <2> QED
      BY <2>1, <2>2
  <1>4. EndLadder'
    BY <1>1, Roles DEF ReportInv, EndLadder, ClientExchange, ServerExchange
  <1>5. state'["rcv"] \in {"EXCHANGE_RESULTS", "DISPLAY_RESULTS"} =>
          config.reverse \/ state["rcv"] \in {"EXCHANGE_RESULTS", "DISPLAY_RESULTS"}
    BY <1>1, Roles DEF ClientExchange, ServerExchange, Client, Server
  <1> QED
    BY <1>1, <1>2, <1>3, <1>4, <1>5 DEF ReportInv, ClientPrintsLast, SenderCountsNoLoss, ServerPrinted,
                                   ReportedLoss

\* The client's own results meet what it was sent.
LEMMA DisplayReport ==
    ASSUME TypeInv, ReportInv, ClientDisplay
    PROVE  ReportInv'
  <1> DEFINE s == get_results(Client, send_results(Server))
             b == get_results_bytes(Client, send_results(Server))
  <1>1. /\ UNCHANGED <<config, omitting, om>>
        /\ Client' = Client /\ Server' = Server
        /\ state \in [Side -> State] /\ sp \in [Side -> Counters]
        /\ om \in [Side -> [packet_count : Nat, cnt_error : Nat,
                            outoforder_packets : Nat, bytes_sent : Nat]]
        /\ rp \in [Side -> [bytes_sent : Nat, bytes_received : Nat, this_interval : Nat]]
        /\ DOMAIN report = Side
        /\ config \in Configs
    BY DEF ClientDisplay, Client, Server, TypeInv, TypeOK, ReportInv, ClientPrintsLast
  <1>2. /\ state[Server] = "DISPLAY_RESULTS" /\ state[Client] = "EXCHANGE_RESULTS"
        /\ sp' = [sp EXCEPT ![Client] = s]
        /\ rp' = [rp EXCEPT ![Client] = b]
        /\ report' = [report EXCEPT ![Client] = Summary(Client, s, b)]
        /\ state' = [state EXCEPT ![Client] = "DISPLAY_RESULTS"]
    BY DEF ClientDisplay
  <1>3. EndLadder'
    BY <1>1, <1>2, Roles DEF EndLadder
  <1>4. ClientPrintsLast' /\ SenderCountsNoLoss'
    BY <1>1, <1>2, Roles DEF ReportInv, ClientPrintsLast, SenderCountsNoLoss
  <1>5. /\ report'[Client].lost = s.cnt_error - om[Client].cnt_error
        /\ report'[Client].received =
              (IF Client = "snd" THEN s.peer_packet_count ELSE s.packet_count) - om[Client].packet_count
        /\ report'[Client].bytes_received = b.bytes_received
        /\ report'[Server] = report[Server]
    BY <1>1, <1>2, Roles DEF Summary
  <1>6. CASE config.reverse
    <2>1. Client = "rcv"
      BY <1>6 DEF Client
    <2>2. s.cnt_error = sp["rcv"].cnt_error /\ s.packet_count = sp["rcv"].packet_count
      BY <1>1, <2>1 DEF get_results, Counters, Side
    <2>3. b.bytes_received = rp["rcv"].bytes_received
      BY <1>1, <2>1 DEF get_results_bytes, Side
    <2>4. /\ sp'["rcv"].cnt_error = s.cnt_error /\ sp'["rcv"].packet_count = s.packet_count
          /\ rp'["rcv"].bytes_received = b.bytes_received
      BY <1>1, <1>2, <2>1 DEF Side
    <2>5. ReportedLoss'
      BY <1>1, <1>5, <1>6, <2>1, <2>2, <2>4 DEF ReportedLoss
    <2>6. ServerPrinted'
      BY <1>1, <1>6 DEF ServerPrinted
    <2> QED
      BY <1>3, <1>4, <2>5, <2>6 DEF ReportInv
  <1>7. CASE ~config.reverse
    <2>1. Client = "snd" /\ Server = "rcv"
      BY <1>7 DEF Client, Server
    <2>2. s.cnt_error = sp["rcv"].cnt_error /\ s.peer_packet_count = sp["rcv"].packet_count
      BY <1>1, <2>1 DEF get_results, send_results, Side, Counters
    <2>3. b.bytes_received = rp["rcv"].bytes_received
      BY <1>1, <2>1 DEF get_results_bytes, send_results, Side
    <2>4. sp'["rcv"] = sp["rcv"] /\ rp'["rcv"] = rp["rcv"]
      BY <1>1, <1>2, <2>1 DEF Side
    <2>5. om["snd"].cnt_error = 0
      BY DEF ReportInv, SenderCountsNoLoss
    <2>6. /\ report["rcv"].lost = sp["rcv"].cnt_error - om["rcv"].cnt_error
          /\ report["rcv"].received = sp["rcv"].packet_count - om["rcv"].packet_count
      BY <1>2, <1>7, <2>1 DEF ReportInv, ServerPrinted
    <2>7. ServerPrinted'
      BY <1>1, <1>5, <2>1, <2>4, <2>6 DEF ServerPrinted
    <2>8. ReportedLoss'
      <3>1. /\ sp["rcv"].cnt_error \in Nat /\ sp["rcv"].packet_count \in Nat
            /\ om["rcv"].cnt_error \in Nat /\ om["rcv"].packet_count \in Nat
            /\ om["snd"].packet_count \in Nat
        BY <1>1 DEF Counters, Side
      <3>2. /\ report'["snd"].lost = report'["rcv"].lost + om["rcv"].cnt_error
            /\ report'["snd"].received =
                  report'["rcv"].received + om["rcv"].packet_count - om["snd"].packet_count
        BY <1>5, <2>1, <2>2, <2>5, <2>6, <3>1
      <3> QED
        BY <1>1, <1>5, <1>7, <2>1, <2>3, <2>4, <3>2 DEF ReportedLoss
    <2> QED
      BY <1>3, <1>4, <2>7, <2>8 DEF ReportInv
  <1> QED
    BY <1>6, <1>7

\* Every step keeps the reports.
LEMMA NextReport == TypeInv /\ ReportInv /\ [Next]_vars => ReportInv'
  <1> SUFFICES ASSUME TypeInv, ReportInv, [Next]_vars
               PROVE  ReportInv'
    OBVIOUS
  <1>1. DOMAIN report = Side
    BY DEF ReportInv, ClientPrintsLast
  <1>2. CASE UNCHANGED vars
    BY <1>2 DEF vars, ReportInv, EndLadder, ClientPrintsLast, SenderCountsNoLoss, ServerPrinted,
                ReportedLoss, Client, Server
  <1>3. CASE Over
    BY <1>2, <1>3 DEF Over
  <1>4. CASE iperf_udp_send
    BY <1>1, <1>4, TrafficReport DEF iperf_udp_send, TypeInv, TypeOK, Side
  <1>5. ASSUME NEW p \in net, iperf_udp_recv(p)
        PROVE  ReportInv'
    BY <1>1, <1>5, TrafficReport DEF iperf_udp_recv
  <1>6. ASSUME NEW p \in net, LateReceive(p)
        PROVE  ReportInv'
    BY <1>6 DEF LateReceive, ReportInv, EndLadder, ClientPrintsLast, SenderCountsNoLoss, ServerPrinted,
                ReportedLoss, Client, Server
  <1>7. ASSUME NEW x \in Side, stats_timer_proc(x)
        PROVE  ReportInv'
    BY <1>1, <1>7, TrafficReport DEF stats_timer_proc, Side
  <1> QED
    BY <1>2, <1>3, <1>4, <1>5, <1>6, <1>7, TestRunningReport, OmitReport, TestEndReport,
       ExchangeReport, DisplayReport DEF Next

\* What the client prints of the receiver, in every test: the receiver's own
\* figures if the client receives, and if it sends, the server's plus what the two
\* sides' omitted_ counters differ by, losses of the omit period above all.
THEOREM ReportIsTheReceivers == Spec => []ReportedLoss
  <1>1. Init => TypeInv /\ ReportInv
    BY InitType, InitReport
  <1>2. TypeInv /\ ReportInv /\ [Next]_vars => (TypeInv /\ ReportInv)'
    BY NextType, NextReport
  <1>3. ReportInv => ReportedLoss
    BY DEF ReportInv
  <1> QED
    BY <1>1, <1>2, <1>3, PTL DEF Spec

-----------------------------------------------------------------------------
(* The bytes of the intervals. *)

\* Induction over the natural numbers, for a set instead of a predicate.
LEMMA SetInduction ==
    ASSUME NEW P, 0 \in P, \A n \in Nat : n \in P => n + 1 \in P
    PROVE  \A n \in Nat : n \in P
  <1> DEFINE bad == Nat \ P
             R == OpToRel(<, Nat)
  <1> SUFFICES ASSUME bad # {} PROVE FALSE
    OBVIOUS
  <1>1. IsWellFoundedOn(R, Nat)
    BY NatLessThanWellFounded, Zenon
  <1>2. \A m, n \in Nat : m < n => <<m, n>> \in R
    BY DEF OpToRel
  <1>3. bad \subseteq Nat
    OBVIOUS
  <1> HIDE DEF R, bad
  <1>4. \E n \in bad : \A m \in bad : ~ (<<m, n>> \in R)
    BY <1>1, <1>3, WFMin, Zenon
  <1>5. PICK n \in bad : \A m \in bad : ~ (<<m, n>> \in R)
    BY <1>4
  <1>6. n \in Nat /\ n # 0 /\ n - 1 \in Nat /\ n - 1 < n
    BY <1>3 DEF bad
  <1>7. n - 1 \notin bad
    BY <1>2, <1>5, <1>6
  <1> QED
    BY <1>6, <1>7 DEF bad

\* What an interval adds to the total.
Adds(r) == IF r.omitted THEN 0 ELSE r.bytes_transferred

\* The table of the first N partial sums of KeptBytes.
PartialSums(g, q, N) == g = [n \in 0..N |-> IF n = 0 THEN 0 ELSE g[n - 1] + Adds(q[n])]

\* KeptBytes is the last entry of such a table.
LEMMA KeptBytesIs ==
    ASSUME NEW q
    PROVE  KeptBytes(q) = (CHOOSE g : PartialSums(g, q, Len(q)))[Len(q)]
  BY Zenon DEF KeptBytes, PartialSums, Adds

\* The entries of the table.
LEMMA SumsAt ==
    ASSUME NEW g, NEW q, NEW N \in Nat, PartialSums(g, q, N), NEW n \in 0..N
    PROVE  g[n] = IF n = 0 THEN 0 ELSE g[n - 1] + Adds(q[n])
  BY Zenon DEF PartialSums

\* There is a table of any length.
LEMMA SumsExist ==
    ASSUME NEW q
    PROVE  \A N \in Nat : \E g : PartialSums(g, q, N)
  <1> DEFINE P == {N \in Nat : \E g : PartialSums(g, q, N)}
  <1>1. 0 \in P
    <2> DEFINE g == [n \in 0..0 |-> 0]
    <2>1. PartialSums(g, q, 0)
      BY DEF PartialSums
    <2> QED
      BY <2>1
  <1>2. ASSUME NEW N \in Nat, N \in P
        PROVE  N + 1 \in P
    <2>1. PICK g : PartialSums(g, q, N)
      BY <1>2
    <2> DEFINE f == [n \in 0..N + 1 |-> IF n = 0 THEN 0 ELSE g[n - 1] + Adds(q[n])]
    <2>2. ASSUME NEW n \in 0..N
          PROVE  f[n] = g[n]
      <3>1. g[n] = IF n = 0 THEN 0 ELSE g[n - 1] + Adds(q[n])
        BY <2>1, SumsAt
      <3> QED
        BY <3>1
    <2>3. ASSUME NEW n \in 0..N + 1
          PROVE  f[n] = IF n = 0 THEN 0 ELSE f[n - 1] + Adds(q[n])
      <3>1. CASE n = 0
        BY <3>1
      <3>2. CASE n # 0
        <4>1. n - 1 \in 0..N
          BY <3>2
        <4>2. f[n - 1] = g[n - 1]
          BY <2>2, <4>1
        <4> QED
          BY <3>2, <4>2
      <3> QED
        BY <3>1, <3>2
    <2>4. f = [n \in 0..N + 1 |-> IF n = 0 THEN 0 ELSE f[n - 1] + Adds(q[n])]
      BY <2>3
    <2>5. PartialSums(f, q, N + 1)
      BY <2>4 DEF PartialSums
    <2> QED
      BY <2>5
  <1> HIDE DEF P
  <1>3. \A N \in Nat : N \in P
    BY <1>1, <1>2, SetInduction
  <1> QED
    BY <1>3 DEF P

\* Two tables agree as far as the sequences do.
LEMMA SumsUnique ==
    ASSUME NEW q, NEW r, NEW g, NEW f, NEW M \in Nat, NEW N \in Nat, M <= N,
           PartialSums(g, q, M), PartialSums(f, r, N), \A n \in 1..M : q[n] = r[n]
    PROVE  \A n \in 0..M : g[n] = f[n]
  <1> DEFINE P == {n \in Nat : n <= M => g[n] = f[n]}
  <1>1. 0 \in P
    <2>1. 0 \in 0..M /\ 0 \in 0..N
      OBVIOUS
    <2>2. g[0] = 0 /\ f[0] = 0
      BY <2>1, SumsAt
    <2> QED
      BY <2>2
  <1>2. ASSUME NEW n \in Nat, n \in P
        PROVE  n + 1 \in P
    <2> SUFFICES ASSUME n + 1 <= M PROVE g[n + 1] = f[n + 1]
      OBVIOUS
    <2>1. n + 1 \in 0..M /\ n + 1 \in 0..N /\ n + 1 # 0 /\ (n + 1) - 1 = n /\ n + 1 \in 1..M
      OBVIOUS
    <2>2. g[n + 1] = g[n] + Adds(q[n + 1]) /\ f[n + 1] = f[n] + Adds(r[n + 1])
      BY <2>1, SumsAt
    <2>3. g[n] = f[n] /\ q[n + 1] = r[n + 1]
      BY <1>2, <2>1
    <2> QED
      BY <2>2, <2>3
  <1> HIDE DEF P
  <1>3. \A n \in Nat : n \in P
    BY <1>1, <1>2, SetInduction
  <1> QED
    BY <1>3 DEF P

\* The interval records.
Record == [omitted : BOOLEAN, bytes_transferred : Nat,
           interval_packet_count : Int, interval_outoforder_packets : Int,
           interval_cnt_error : Int,
           packet_count : Nat, outoforder_packets : Nat, cnt_error : Nat]

\* No interval, no bytes.
LEMMA KeptEmpty == KeptBytes(<<>>) = 0
  <1> DEFINE g == CHOOSE a : PartialSums(a, <<>>, 0)
  <1>1. PartialSums(g, <<>>, 0)
    BY SumsExist
  <1> HIDE DEF g
  <1>2. g[0] = 0
    BY <1>1, SumsAt
  <1>3. Len(<<>>) = 0
    OBVIOUS
  <1> QED
    BY <1>2, <1>3, KeptBytesIs DEF g

\* One interval more adds its bytes, unless it is omitted.
LEMMA KeptAppend ==
    ASSUME NEW q \in Seq(Record), NEW r \in Record
    PROVE  KeptBytes(Append(q, r)) = KeptBytes(q) + Adds(r)
  <1> DEFINE N == Len(q)
             s == Append(q, r)
             g == CHOOSE a : PartialSums(a, q, N)
             f == CHOOSE a : PartialSums(a, s, N + 1)
  <1>1. N \in Nat /\ Len(s) = N + 1 /\ s[N + 1] = r /\ \A n \in 1..N : q[n] = s[n]
    OBVIOUS
  <1>2. PartialSums(g, q, N) /\ PartialSums(f, s, N + 1)
    <2>1. (\E a : PartialSums(a, q, N)) /\ (\E a : PartialSums(a, s, N + 1))
      <3>1. N + 1 \in Nat
        BY <1>1
      <3> HIDE DEF N, s
      <3> QED
        BY <1>1, <3>1, SumsExist
    <2> QED
      BY <2>1, Zenon
  <1>3. KeptBytes(q) = g[N]
    BY KeptBytesIs
  <1>4. KeptBytes(s) = f[N + 1]
    BY <1>1, KeptBytesIs
  <1> HIDE DEF N, s, g, f
  <1>5. g[N] = f[N]
    BY <1>1, <1>2, SumsUnique
  <1>6. f[N + 1] = f[N] + Adds(r)
    <2>1. N + 1 \in 0..N + 1 /\ N + 1 # 0 /\ (N + 1) - 1 = N
      BY <1>1
    <2> QED
      BY <1>1, <1>2, <2>1, SumsAt
  <1> QED
    BY <1>3, <1>4, <1>5, <1>6 DEF s

\* What holds of the intervals besides IntervalBytes: the ones of the omit period
\* are all marked as omitted.
BytesInv ==
    /\ intervals \in [Side -> Seq(Record)]
    /\ \A x \in Side : KeptBytes(intervals[x]) \in Nat
    /\ \A x \in Side : omitting[x] => KeptBytes(intervals[x]) = 0
    /\ IntervalBytes

\* The intervals and everything IntervalBytes counts on one side.
SameBytes(x) ==
    /\ omitting'[x] = omitting[x]
    /\ Bytes(x)' = Bytes(x)
    /\ rp'[x].this_interval = rp[x].this_interval

\* A step that leaves the bytes of both sides alone.
LEMMA QuietBytes ==
    ASSUME BytesInv, intervals' = intervals, \A x \in Side : SameBytes(x)
    PROVE  BytesInv'
  BY DEF BytesInv, IntervalBytes, SameBytes

\* No byte was sent or received at first.
LEMMA InitBytes == Init => BytesInv
  <1> SUFFICES ASSUME Init PROVE BytesInv
    OBVIOUS
  <1>1. intervals \in [Side -> Seq(Record)]
    BY DEF Init
  <1>2. \A x \in Side : KeptBytes(intervals[x]) = 0
    BY KeptEmpty DEF Init
  <1>3. \A x \in Side : Bytes(x) = 0 /\ rp[x].this_interval = 0
    BY DEF Init, Bytes
  <1> QED
    BY <1>1, <1>2, <1>3 DEF BytesInv, IntervalBytes

\* One datagram more: the interval under way and the total grow alike.
LEMMA TrafficBytes ==
    ASSUME TypeInv, BytesInv,
           iperf_udp_send \/ \E p \in net : iperf_udp_recv(p)
    PROVE  BytesInv'
  <1>1. intervals' = intervals /\ omitting' = omitting /\ om' = om
    BY DEF iperf_udp_send, iperf_udp_recv
  <1>2. ASSUME NEW x \in Side
        PROVE  \E d \in {0, 1} : /\ Bytes(x)' = Bytes(x) + d
                                 /\ rp'[x].this_interval = rp[x].this_interval + d
    <2>1. CASE iperf_udp_send
      BY <1>1, <2>1 DEF iperf_udp_send, TypeInv, TypeOK, Bytes, Side
    <2>2. CASE \E p \in net : iperf_udp_recv(p)
      BY <1>1, <2>2 DEF iperf_udp_recv, TypeInv, TypeOK, Bytes, Side
    <2> QED
      BY <2>1, <2>2
  <1>3. \A x \in Side : Bytes(x) \in Int /\ rp[x].this_interval \in Nat
    BY DEF TypeInv, TypeOK, Bytes
  <1>4. ASSUME NEW x \in Side, ~omitting[x]
        PROVE  Bytes(x)' = rp'[x].this_interval + KeptBytes(intervals[x])
    <2>1. Bytes(x) = rp[x].this_interval + KeptBytes(intervals[x])
      BY <1>4 DEF BytesInv, IntervalBytes
    <2>2. KeptBytes(intervals[x]) \in Nat
      BY DEF BytesInv
    <2> QED
      BY <1>2, <1>3, <2>1, <2>2
  <1> QED
    BY <1>1, <1>4 DEF BytesInv, IntervalBytes

\* The omit period ends: the total and the interval under way start again.
LEMMA OmitBytes ==
    ASSUME TypeInv, BytesInv, NEW x \in Side, omit_timer_proc(x)
    PROVE  BytesInv'
  <1>1. intervals' = intervals /\ omitting[x]
    BY DEF omit_timer_proc
  <1>2. Bytes(x)' = 0 /\ rp'[x].this_interval = 0
    BY DEF omit_timer_proc, iperf_reset_stats, TypeInv, TypeOK, Bytes, Side
  <1>3. \A y \in Side : y # x => SameBytes(y)
    BY DEF omit_timer_proc, iperf_reset_stats, TypeInv, TypeOK, Bytes, SameBytes
  <1>4. \A y \in Side : omitting'[y] => omitting[y]
    BY DEF omit_timer_proc, TypeInv, TypeOK
  <1>5. KeptBytes(intervals[x]) = 0
    BY <1>1 DEF BytesInv
  <1>6. IntervalBytes'
    BY <1>1, <1>2, <1>3, <1>5 DEF BytesInv, IntervalBytes, SameBytes
  <1> QED
    BY <1>1, <1>4, <1>6 DEF BytesInv

\* An interval ends: what was under way is in its record.
LEMMA StatsBytes ==
    ASSUME TypeInv, BytesInv, NEW x \in Side, iperf_stats_callback(x),
           omitting' = omitting, om' = om
    PROVE  BytesInv'
  <1>1. intervals[x] \in Seq(Record) /\ KeptBytes(intervals[x]) \in Nat
    BY DEF BytesInv
  <1>2. Interval(x) \in Record /\ Interval(x).omitted = omitting[x]
        /\ Interval(x).bytes_transferred = rp[x].this_interval
    <2> DEFINE n == Len(intervals[x])
               last == IF n = 0 THEN [packet_count |-> 0, outoforder_packets |-> 0, cnt_error |-> 0]
                                ELSE intervals[x][n]
    <2>1. last.packet_count \in Nat /\ last.outoforder_packets \in Nat /\ last.cnt_error \in Nat
      <3>1. CASE n = 0
        BY <3>1
      <3>2. CASE n # 0
        <4>1. n \in 1..n
          BY <1>1, <3>2
        <4>2. intervals[x][n] \in Record
          BY <1>1, <4>1
        <4> QED
          BY <3>2, <4>2 DEF Record
      <3> QED
        BY <3>1, <3>2
    <2>2. sp[x] \in Counters /\ rp[x].this_interval \in Nat /\ omitting[x] \in BOOLEAN
      BY DEF TypeInv, TypeOK
    <2>3. Interval(x) = [omitted |-> omitting[x],
                         bytes_transferred |-> rp[x].this_interval,
                         interval_packet_count |-> sp[x].packet_count - last.packet_count,
                         interval_outoforder_packets
                             |-> sp[x].outoforder_packets - last.outoforder_packets,
                         interval_cnt_error |-> sp[x].cnt_error - last.cnt_error,
                         packet_count |-> sp[x].packet_count,
                         outoforder_packets |-> sp[x].outoforder_packets,
                         cnt_error |-> sp[x].cnt_error]
      BY Zenon DEF Interval
    <2> HIDE DEF last
    <2> QED
      BY <2>1, <2>2, <2>3 DEF Record, Counters
  <1> DEFINE q == Append(intervals[x], Interval(x))
  <1>3. q \in Seq(Record) /\ KeptBytes(q) = KeptBytes(intervals[x]) + Adds(Interval(x))
    BY <1>1, <1>2, KeptAppend
  <1>4. intervals' = [intervals EXCEPT ![x] = q] /\ intervals \in [Side -> Seq(Record)]
    BY DEF iperf_stats_callback, BytesInv
  <1>5. rp' = [rp EXCEPT ![x].this_interval = 0] /\ rp[x].this_interval \in Nat
    BY DEF iperf_stats_callback, TypeInv, TypeOK
  <1>6. rp'[x].this_interval = 0 /\ \A y \in Side : Bytes(y)' = Bytes(y)
    BY <1>5 DEF TypeInv, TypeOK, Bytes
  <1>7. \A y \in Side : y # x => rp'[y].this_interval = rp[y].this_interval
                                 /\ intervals'[y] = intervals[y]
    BY <1>4, <1>5 DEF TypeInv, TypeOK
  <1> HIDE DEF q
  <1>8. intervals'[x] = q /\ intervals' \in [Side -> Seq(Record)]
    BY <1>3, <1>4
  <1>9. CASE omitting[x]
    <2>1. KeptBytes(q) = 0
      BY <1>2, <1>3, <1>9 DEF Adds, BytesInv
    <2> QED
      BY <1>6, <1>7, <1>8, <1>9, <2>1 DEF BytesInv, IntervalBytes
  <1>10. CASE ~omitting[x]
    <2>1. KeptBytes(q) = KeptBytes(intervals[x]) + rp[x].this_interval
      BY <1>2, <1>3, <1>10 DEF Adds
    <2>2. Bytes(x) = rp[x].this_interval + KeptBytes(intervals[x])
      BY <1>10 DEF BytesInv, IntervalBytes
    <2>3. KeptBytes(q) \in Nat /\ Bytes(x) = 0 + KeptBytes(q)
      BY <1>1, <1>5, <2>1, <2>2
    <2> QED
      BY <1>6, <1>7, <1>8, <1>10, <2>3 DEF BytesInv, IntervalBytes
  <1> QED
    BY <1>9, <1>10

\* Every step keeps the bytes together.
LEMMA NextBytes == TypeInv /\ BytesInv /\ [Next]_vars => BytesInv'
  <1> SUFFICES ASSUME TypeInv, BytesInv, [Next]_vars
               PROVE  BytesInv'
    OBVIOUS
  <1>0. Client \in Side /\ Server \in Side
    BY DEF Client, Server, Side
  <1>1. CASE UNCHANGED vars \/ Over
    BY <1>1, QuietBytes DEF vars, Over, SameBytes, Bytes
  <1>2. ASSUME NEW x \in Side, TestRunning(x)
        PROVE  BytesInv'
    BY <1>2, QuietBytes DEF TestRunning, SameBytes, Bytes
  <1>3. ASSUME NEW p \in net, LateReceive(p)
        PROVE  BytesInv'
    BY <1>3, QuietBytes DEF LateReceive, SameBytes, Bytes
  <1>4. ASSUME NEW x \in Side, stats_timer_proc(x)
        PROVE  BytesInv'
    BY <1>4, StatsBytes DEF stats_timer_proc
  <1>5. CASE ClientTestEnd \/ ServerTestEnd
    BY <1>0, <1>5, StatsBytes DEF ClientTestEnd, ServerTestEnd
  <1>6. CASE ClientExchange
    BY <1>6, QuietBytes DEF ClientExchange, SameBytes, Bytes
  <1>7. ASSUME NEW x \in Side, NEW j, rp' = [rp EXCEPT ![x] = get_results_bytes(x, j)],
               intervals' = intervals, omitting' = omitting, om' = om
        PROVE  BytesInv'
    <2>1. \A y \in Side : SameBytes(y)
      BY <1>7 DEF SameBytes, Bytes, get_results_bytes, TypeInv, TypeOK, Side
    <2> QED
      BY <1>7, <2>1, QuietBytes
  <1>8. CASE ServerExchange
    BY <1>0, <1>7, <1>8 DEF ServerExchange
  <1>9. CASE ClientDisplay
    BY <1>0, <1>7, <1>9 DEF ClientDisplay
  <1> QED
    BY <1>1, <1>2, <1>3, <1>4, <1>5, <1>6, <1>8, <1>9, TrafficBytes, OmitBytes DEF Next

\* No byte of a test is lost between the interval records and the total, and none
\* is counted twice, for any number of intervals and wherever between two of them
\* the omit period of a side ends.
THEOREM IntervalsAddUp == Spec => []IntervalBytes
  <1>1. Init => TypeInv /\ BytesInv
    BY InitType, InitBytes
  <1>2. TypeInv /\ BytesInv /\ [Next]_vars => (TypeInv /\ BytesInv)'
    BY NextType, NextBytes
  <1>3. BytesInv => IntervalBytes
    BY DEF BytesInv
  <1> QED
    BY <1>1, <1>2, <1>3, PTL DEF Spec
=============================================================================
