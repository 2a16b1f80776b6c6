------------------------ MODULE IperfOptions_proofs ------------------------
(***************************************************************************)
(* Proofs about the settings of a test, for any command lines and any      *)
(* sequence of tests against one server: types, the block size, the        *)
(* agreement of both sides, the streams of iperf_send and the order of the *)
(* arguments.                                                              *)
(***************************************************************************)
EXTENDS IperfOptions, FiniteSetTheorems, SequenceTheorems, TLAPS

\* The numbers only a client may set and that are 0 by default.
ClientFields == {"bytes", "blocks", "mss", "socket_bufsize", "tos", "burst", "rate"}

\* The direction of a test, as the options say.
ModeOf(t) ==
    IF t.bidirectional THEN "BIDIRECTIONAL"
    ELSE IF t.role = "none" THEN "RECEIVER"
    ELSE IF (t.role = "c") = t.reverse THEN "RECEIVER" ELSE "SENDER"

\* Whichever of role, direction and protocol is given first, the setters leave
\* the mode that the options given so far have together.
Directed ==
    /\ ~(cli.reverse /\ cli.bidirectional)
    /\ cli.mode = ModeOf(cli)

\* Without an option that is the client's alone a command line has left the
\* client's settings as they are.
ClientOnly ==
    (pc # "failed" /\ ~loc.client) =>
        /\ cli.protocol = "tcp" /\ ~cli.reverse /\ ~cli.bidirectional
        /\ "N" \notin cli.flags
        /\ ~loc.rate
        /\ \A f \in ClientFields : cli.val[f] = 0

\* A burst that was accepted is no negative number.
Bursts ==
    /\ pc # "failed" => cli.val["burst"] \in Nat
    /\ srv # NoTest => srv.val["burst"] \in Nat

\* Who is who, and who is there.
Roles ==
    /\ pc = "parsed" => cli.role \in {"c", "s"}
    /\ pc = "parsed" /\ cli.role = "s" => ~loc.client
    /\ pc \in {"params", "running", "waiting"} => cli.role = "c" /\ srv # NoTest
    /\ pc = "running" => cli.val["num_streams"] >= 0

\* The block size when the command line has been read.
BlockChosen ==
    pc = "parsed" =>
        IF cli.protocol = "udp" THEN cli.val["blksize"] \in {0} \cup UdpBlockSizes \/ cli.val["blksize"] < 0
                                ELSE cli.val["blksize"] \in 1..MAX_BLOCKSIZE

\* What a server that waits for a test has: the settings it started with, or
\* those that iperf_reset_test has put back.
ServerReady ==
    (srv # NoTest /\ pc \notin {"running", "waiting"}) =>
        /\ srv.role = "s" /\ srv.mode = "RECEIVER" /\ srv.protocol = "tcp"
        /\ ~srv.reverse /\ ~srv.bidirectional
        /\ "N" \notin srv.flags
        /\ \A f \in ClientFields : srv.val[f] = 0 \/ (f \in Sticky /\ ~fresh)

SettingsInv ==
    /\ TypeOK
    /\ Directed
    /\ ClientOnly
    /\ Bursts
    /\ Roles
    /\ BlockChosen
    /\ BlockUsable
    /\ ServerReady
    /\ SettingsAgree

\* The calls of iperf_send.
Calls == [who : {"c", "s"}, ms : Nat, i : Nat, sent : Seq(Nat), reached : BOOLEAN, soft : BOOLEAN]

\* In the last round of iperf_send every stream before the present one has
\* sent, and after it every stream, as long as no socket was full.
Rounds ==
    call = NoCall \/
        /\ call \in Calls
        /\ ~call.soft =>
               /\ call.ms = 1 => \A s \in DOMAIN call.sent : s < call.i => call.sent[s] > 0
               /\ call.ms = 0 => \A s \in DOMAIN call.sent : call.sent[s] > 0

Loc == [server : BOOLEAN, client : BOOLEAN, rate : BOOLEAN, duration : BOOLEAN, blksize : Int]

-----------------------------------------------------------------------------
(* The operators of the model. *)

\* Assigning a setting.
LEMMA SetValIs ==
    ASSUME NEW t \in Test, NEW f \in NumField, NEW x \in Int
    PROVE  /\ SetVal(t, f, x) \in Test
           /\ SetVal(t, f, x).val[f] = x
           /\ \A g \in NumField : g # f => SetVal(t, f, x).val[g] = t.val[g]
           /\ SetVal(t, f, x).role = t.role
           /\ SetVal(t, f, x).mode = t.mode
           /\ SetVal(t, f, x).reverse = t.reverse
           /\ SetVal(t, f, x).bidirectional = t.bidirectional
           /\ SetVal(t, f, x).protocol = t.protocol
           /\ SetVal(t, f, x).retransmits = t.retransmits
           /\ SetVal(t, f, x).flags = t.flags
BY DEF SetVal, Test

\* Every field the options set is a field, and the client's are not set by others.
LEMMA RangedFields ==
    ASSUME NEW r \in Ranged
    PROVE  /\ r.field \in NumField
           /\ r.field # "burst"
           /\ r.side # "client" => r.field \notin ClientFields
BY DEF Ranged, Ranged_, NumField, ClientFields

\* The fields that take a size.
LEMMA SizedFields ==
    ASSUME NEW o \in DOMAIN Sized
    PROVE  Sized[o] \in NumField /\ Sized[o] # "burst"
<1>1. DOMAIN Sized = {"n", "k", "pacing_timer", "connect_timeout"}
  BY DEF Sized
<1>2. /\ Sized["n"] = "bytes" /\ Sized["k"] = "blocks" /\ Sized["pacing_timer"] = "pacing_timer"
      /\ Sized["connect_timeout"] = "connect_timeout"
  BY DEF Sized
<1> QED
  BY <1>1, <1>2 DEF NumField

\* What iperf_defaults sets.
LEMMA Defaults ==
    /\ DefaultVal \in [NumField -> Int]
    /\ \A f \in ClientFields : DefaultVal[f] = 0
<1>1. \A f \in NumField : DefaultVal[f] =
        CASE f = "server_port" -> 5201
          [] f = "interval" -> 10
          [] f = "duration" -> 10
          [] f = "num_streams" -> 1
          [] f = "blksize" -> DEFAULT_TCP_BLKSIZE
          [] f = "pacing_timer" -> 1000
          [] f = "connect_timeout" -> -1
          [] OTHER -> 0
  BY DEF DefaultVal
<1>2. DOMAIN DefaultVal = NumField
  BY DEF DefaultVal
<1>3. DEFAULT_TCP_BLKSIZE \in Int
  BY DEF DEFAULT_TCP_BLKSIZE
<1>4. ASSUME NEW f \in NumField
      PROVE  DefaultVal[f] \in Int
  BY <1>1, <1>3, <1>4
<1>5. ASSUME NEW f \in ClientFields
      PROVE  DefaultVal[f] = 0
  <2>1. f \in NumField /\ f \notin {"server_port", "interval", "duration", "num_streams",
                                    "blksize", "pacing_timer", "connect_timeout"}
    BY <1>5 DEF ClientFields, NumField
  <2> QED
    BY <1>1, <2>1
<1> QED
  BY <1>2, <1>4, <1>5 DEF DefaultVal

\* The default settings have their type.
LEMMA DefaultsType ==
    /\ iperf_defaults \in Test
    /\ NoLoc \in Loc
BY Defaults DEF iperf_defaults, Test, NoLoc, Loc

\* What the numbers of an argument become.
LEMMA Numbers ==
    ASSUME NEW a \in Argument
    PROVE  /\ unit_atof(a) \subseteq Int
           /\ unit_atoi(a) \subseteq Int
           /\ unit_atof_rate(a) \subseteq Int
           /\ \A r \in Ranged : Number(r, a) \in Int
<1>1. a.n \in Int \cup {NoNumber} /\ a.k \in 0..4 /\ Garbage \subseteq Int
  BY OptionsAssumption DEF Argument
<1>2. \A n \in Int, k \in 0..4 : n * 1024 ^ k \in Int /\ n * 1000 ^ k \in Int
  OBVIOUS
<1>3. unit_atof(a) \subseteq Int /\ unit_atof_rate(a) \subseteq Int
  <2>1. CASE a.n = NoNumber
    BY <1>1, <2>1 DEF unit_atof, unit_atof_rate
  <2>2. CASE a.n # NoNumber
    <3> DEFINE x == a.n * 1024 ^ a.k
               y == a.n * 1000 ^ a.k
    <3>1. x \in Int /\ y \in Int
      BY <1>1, <1>2, <2>2
    <3>2. unit_atof(a) = {x} /\ unit_atof_rate(a) = {y}
      <4>1. unit_atof(a) = {x}
        BY <2>2, ZenonT(30) DEF unit_atof
      <4>2. unit_atof_rate(a) = {y}
        BY <2>2, ZenonT(30) DEF unit_atof_rate
      <4> QED
        BY <4>1, <4>2
    <3> HIDE DEF x, y
    <3> QED
      BY <3>1, <3>2
  <2> QED
    BY <2>1, <2>2
<1>4. \A r \in Ranged : Number(r, a) \in Int
  BY <1>1 DEF Number
<1> QED
  BY <1>3, <1>4 DEF unit_atoi

\* The low 32 bits of a length are an integer.
LEMMA Lengths ==
    ASSUME NEW a \in Argument
    PROVE  LowInt(a) \subseteq Int
<1>1. a.n \in Int \cup {NoNumber} /\ a.k \in 0..4 /\ Garbage \subseteq Int
  BY OptionsAssumption DEF Argument
<1>2. CASE a.n = NoNumber \/ a.k = 4 \/ a.k = 0
  <2>1. CASE a.n = NoNumber
    <3>1. LowInt(a) = Garbage
      BY <2>1, Zenon DEF LowInt
    <3> QED
      BY <1>1, <3>1
  <2>2. CASE a.n # NoNumber /\ a.k = 4
    <3>1. LowInt(a) = {0}
      BY <2>2, Zenon DEF LowInt
    <3> QED
      BY <3>1
  <2>3. CASE a.n # NoNumber /\ a.k = 0
    <3>1. a.k # 4
      BY <2>3
    <3>2. LowInt(a) = {a.n}
      BY <2>3, <3>1, Zenon DEF LowInt
    <3> QED
      BY <1>1, <2>3, <3>2
  <2> QED
    BY <1>2, <2>1, <2>2, <2>3
<1>3. CASE a.n # NoNumber /\ a.k # 4 /\ a.k # 0
  <2> DEFINE high == 2 ^ (31 - 10 * a.k)
             r == a.n % (2 * high)
             x == (IF r < high THEN r ELSE r - 2 * high) * 1024 ^ a.k
  <2>1. a.n \in Int /\ a.k \in 1..3
    BY <1>1, <1>3
  <2>2. 31 - 10 * a.k \in 1..21
    BY <2>1
  <2>3. high \in Nat /\ high > 0
    <3>1. a.k = 1 \/ a.k = 2 \/ a.k = 3
      BY <2>1
    <3>2. 2 ^ 21 \in Nat /\ 2 ^ 21 > 0 /\ 2 ^ 11 \in Nat /\ 2 ^ 11 > 0 /\ 2 ^ 1 \in Nat /\ 2 ^ 1 > 0
      OBVIOUS
    <3>3. 31 - 10 * a.k \in {21, 11, 1}
      BY <3>1
    <3> QED
      BY <3>2, <3>3
  <2>4. 2 * high \in Nat /\ 2 * high > 0
    BY <2>3
  <2>5. r \in Int
    BY <2>1, <2>4
  <2>6. 1024 ^ a.k \in Int
    BY <2>1
  <2>7. LowInt(a) = {x}
    BY <1>3 DEF LowInt
  <2>8. x \in Int
    <3> HIDE DEF high, r
    <3> QED BY <2>3, <2>5, <2>6
  <2> QED
    BY <2>7, <2>8
<1> QED
  BY <1>2, <1>3

-----------------------------------------------------------------------------
(* The setters. *)

\* What check_sender_has_retransmits changes.
LEMMA RetransmitsType ==
    ASSUME NEW t \in Test
    PROVE  LET u == check_sender_has_retransmits(t)
           IN  /\ u \in Test
               /\ u.role = t.role /\ u.mode = t.mode /\ u.reverse = t.reverse
               /\ u.bidirectional = t.bidirectional /\ u.protocol = t.protocol
               /\ u.flags = t.flags /\ u.val = t.val
               /\ u.retransmits = (t.mode # "RECEIVER" /\ t.protocol = "tcp")
BY DEF check_sender_has_retransmits, Test

\* What set_protocol changes.
LEMMA ProtocolIs ==
    ASSUME NEW t \in Test, NEW p \in {"tcp", "udp"}
    PROVE  LET u == set_protocol(t, p)
           IN  /\ u \in Test
               /\ u.role = t.role /\ u.mode = t.mode /\ u.reverse = t.reverse
               /\ u.bidirectional = t.bidirectional /\ u.protocol = p
               /\ u.flags = t.flags /\ u.val = t.val
               /\ u.retransmits = (t.mode # "RECEIVER" /\ p = "tcp")
<1> DEFINE v == [t EXCEPT !.protocol = p]
<1>1. /\ v \in Test /\ v.role = t.role /\ v.mode = t.mode /\ v.reverse = t.reverse
      /\ v.bidirectional = t.bidirectional /\ v.protocol = p
      /\ v.flags = t.flags /\ v.val = t.val
  BY DEF Test
<1>2. set_protocol(t, p) = check_sender_has_retransmits(v)
  BY DEF set_protocol
<1> HIDE DEF v
<1> QED
  BY <1>1, <1>2, RetransmitsType

\* What iperf_set_test_role changes.
LEMMA RoleIs ==
    ASSUME NEW t \in Test, NEW role \in {"c", "s"},
           ~(t.reverse /\ t.bidirectional)
    PROVE  LET u == iperf_set_test_role(t, role)
           IN  /\ u \in Test
               /\ u.role = role /\ u.reverse = t.reverse
               /\ u.bidirectional = t.bidirectional /\ u.protocol = t.protocol
               /\ u.flags = t.flags /\ u.val = t.val
               /\ u.mode = ModeOf(u)
               /\ u.retransmits = (u.mode # "RECEIVER" /\ u.protocol = "tcp")
<1> DEFINE m == IF t.bidirectional THEN "BIDIRECTIONAL"
                ELSE IF (role = "c") = t.reverse THEN "RECEIVER" ELSE "SENDER"
           v == [t EXCEPT !.role = role, !.mode = m]
<1>1. /\ v \in Test /\ v.role = role /\ v.mode = m /\ v.reverse = t.reverse
      /\ v.bidirectional = t.bidirectional /\ v.protocol = t.protocol
      /\ v.flags = t.flags /\ v.val = t.val
  BY DEF Test
<1>2. iperf_set_test_role(t, role) = check_sender_has_retransmits(v)
  <2> DEFINE u == [t EXCEPT !.role = role]
  <2>1. u.role = role /\ u.reverse = t.reverse
    BY DEF Test
  <2>2. OneWay(u) = IF (role = "c") = t.reverse THEN "RECEIVER" ELSE "SENDER"
    BY <2>1 DEF OneWay
  <2>3. (IF t.bidirectional /\ ~t.reverse THEN "BIDIRECTIONAL" ELSE OneWay(u)) = m
    BY <2>2 DEF Test
  <2>4. iperf_set_test_role(t, role)
          = check_sender_has_retransmits([u EXCEPT !.mode = m])
    BY <2>3 DEF iperf_set_test_role
  <2>5. [u EXCEPT !.mode = m] = v
    BY DEF Test
  <2> QED
    BY <2>4, <2>5
<1>3. LET u == check_sender_has_retransmits(v)
      IN  /\ u \in Test
          /\ u.role = role /\ u.mode = m /\ u.reverse = t.reverse
          /\ u.bidirectional = t.bidirectional /\ u.protocol = t.protocol
          /\ u.flags = t.flags /\ u.val = t.val
          /\ u.retransmits = (m # "RECEIVER" /\ t.protocol = "tcp")
  <2> HIDE DEF v
  <2> QED BY <1>1, RetransmitsType
<1> QED
  BY <1>2, <1>3 DEF ModeOf

\* What iperf_set_test_reverse changes.
LEMMA ReverseIs ==
    ASSUME NEW t \in Test, ~t.bidirectional, t.mode = ModeOf(t)
    PROVE  LET u == iperf_set_test_reverse(t)
           IN  /\ u \in Test
               /\ u.role = t.role /\ u.reverse = TRUE
               /\ u.bidirectional = t.bidirectional /\ u.protocol = t.protocol
               /\ u.flags = t.flags /\ u.val = t.val
               /\ u.mode = ModeOf(u)
               /\ u.retransmits = (u.mode # "RECEIVER" /\ u.protocol = "tcp")
<1> DEFINE m == IF t.role = "none" THEN "RECEIVER"
                ELSE IF t.role = "c" THEN "RECEIVER" ELSE "SENDER"
           v == [t EXCEPT !.reverse = TRUE, !.mode = m]
<1>1. /\ v \in Test /\ v.role = t.role /\ v.mode = m /\ v.reverse = TRUE
      /\ v.bidirectional = t.bidirectional /\ v.protocol = t.protocol
      /\ v.flags = t.flags /\ v.val = t.val
  BY DEF Test
<1>2. iperf_set_test_reverse(t) = check_sender_has_retransmits(v)
  <2> DEFINE u == [t EXCEPT !.reverse = TRUE]
  <2>1. u.role = t.role /\ u.reverse = TRUE /\ u.mode = t.mode
    BY DEF Test
  <2>2. OneWay(u) = m
    BY <2>1 DEF OneWay, ModeOf, Test
  <2>3. [u EXCEPT !.mode = m] = v
    BY DEF Test
  <2> QED
    BY <2>2, <2>3 DEF iperf_set_test_reverse
<1>3. LET u == check_sender_has_retransmits(v)
      IN  /\ u \in Test
          /\ u.role = t.role /\ u.mode = m /\ u.reverse = TRUE
          /\ u.bidirectional = t.bidirectional /\ u.protocol = t.protocol
          /\ u.flags = t.flags /\ u.val = t.val
          /\ u.retransmits = (m # "RECEIVER" /\ t.protocol = "tcp")
  <2> HIDE DEF v
  <2> QED BY <1>1, RetransmitsType
<1> QED
  BY <1>2, <1>3 DEF ModeOf

\* What iperf_set_test_bidirectional changes.
LEMMA BidirectionalIs ==
    ASSUME NEW t \in Test
    PROVE  LET u == iperf_set_test_bidirectional(t)
           IN  /\ u \in Test
               /\ u.role = t.role /\ u.reverse = t.reverse
               /\ u.bidirectional = TRUE /\ u.protocol = t.protocol
               /\ u.flags = t.flags /\ u.val = t.val /\ u.retransmits = t.retransmits
               /\ u.mode = "BIDIRECTIONAL" /\ ModeOf(u) = "BIDIRECTIONAL"
BY DEF iperf_set_test_bidirectional, Test, ModeOf

-----------------------------------------------------------------------------
(* The command line. *)

\* The two sides are only compared in a test that runs.
LEMMA NotRunning ==
    /\ pc # "running" => SettingsAgree
    /\ pc' # "running" => SettingsAgree'
BY Zenon DEF SettingsAgree

\* The invariants hold at first.
LEMMA InitSettings == Init => SettingsInv /\ Rounds
<1> SUFFICES ASSUME Init PROVE SettingsInv /\ Rounds
  OBVIOUS
<1>1. cli \in Test /\ loc \in Loc
  BY DefaultsType DEF Init
<1>2. TypeOK
  BY <1>1 DEF Init, TypeOK, Loc, NoCall
<1>3. Directed
  BY DEF Init, Directed, iperf_defaults, ModeOf
<1>4. \A f \in ClientFields : cli.val[f] = 0
  BY Defaults DEF Init, iperf_defaults
<1>5. ClientOnly /\ Bursts
  BY <1>4 DEF Init, ClientOnly, Bursts, iperf_defaults, NoLoc, ClientFields
<1>6. Roles /\ BlockChosen /\ BlockUsable /\ ServerReady
  <2>1. pc = "idle" /\ srv = NoTest
    BY DEF Init
  <2>2. pc \notin {"parsed", "params", "running", "waiting"}
    BY <2>1
  <2> QED
    BY <2>1, <2>2, Zenon DEF Roles, BlockChosen, BlockUsable, ServerReady
<1>7. SettingsAgree
  BY NotRunning DEF Init
<1> QED
  BY <1>2, <1>3, <1>5, <1>6, <1>7 DEF SettingsInv, Rounds, Init

\* A step that only reads the command line.
LEMMA ParseStep ==
    ASSUME SettingsInv, pc = "parse", pc' \in {"parse", "failed"}, args' \subseteq args,
           UNCHANGED <<line, srv, fresh, call>>,
           cli' \in Test, loc' \in Loc, Directed', ClientOnly',
           pc' = "parse" => cli'.val["burst"] \in Nat
    PROVE  SettingsInv'
<1>1. TypeOK'
  BY DEF SettingsInv, TypeOK, Loc
<1>2. Bursts'
  BY DEF SettingsInv, Bursts
<1>3. Roles' /\ BlockChosen' /\ BlockUsable' /\ SettingsAgree'
  <2>1. pc' \notin {"parsed", "params", "running", "waiting"}
    OBVIOUS
  <2> QED
    BY <2>1, NotRunning, Zenon DEF Roles, BlockChosen, BlockUsable
<1>4. ServerReady'
  BY DEF SettingsInv, ServerReady
<1> QED
  BY <1>1, <1>2, <1>3, <1>4 DEF SettingsInv

\* What the settings are while a command line is read.
LEMMA Reading ==
    ASSUME SettingsInv, NEW a \in args, pc = "parse"
    PROVE  /\ a \in Argument
           /\ cli \in Test /\ loc \in Loc
           /\ ~(cli.reverse /\ cli.bidirectional) /\ cli.mode = ModeOf(cli)
           /\ cli.val["burst"] \in Nat
           /\ ~loc.client =>
                /\ cli.protocol = "tcp" /\ ~cli.reverse /\ ~cli.bidirectional
                /\ "N" \notin cli.flags /\ ~loc.rate
                /\ \A f \in ClientFields : cli.val[f] = 0
<1>1. a \in line /\ line \in Lines \cup {{}}
  BY DEF SettingsInv, TypeOK
<1>2. a \in Argument
  BY <1>1, OptionsAssumption
<1> QED
  BY <1>2 DEF SettingsInv, TypeOK, Directed, ClientOnly, Bursts, Loc

\* A number goes into a field.
LEMMA AssignStep ==
    ASSUME SettingsInv, NEW a \in args, pc = "parse", pc' \in {"parse", "failed"},
           args' = args \ {a}, UNCHANGED <<line, srv, fresh, call>>,
           NEW f \in NumField, NEW x \in Int, cli' = SetVal(cli, f, x), loc' \in Loc,
           pc' = "parse" => (loc.client => loc'.client),
           pc' = "parse" => loc'.client \/ (f \notin ClientFields /\ loc' = loc),
           pc' = "parse" => (f = "burst" => x \in Nat)
    PROVE  SettingsInv'
<1>1. /\ cli \in Test
      /\ ~(cli.reverse /\ cli.bidirectional) /\ cli.mode = ModeOf(cli)
      /\ cli.val["burst"] \in Nat
      /\ ~loc.client =>
           /\ cli.protocol = "tcp" /\ ~cli.reverse /\ ~cli.bidirectional
           /\ "N" \notin cli.flags /\ ~loc.rate
           /\ \A g \in ClientFields : cli.val[g] = 0
  BY Reading
<1>2. /\ cli' \in Test
      /\ cli'.val[f] = x
      /\ \A g \in NumField : g # f => cli'.val[g] = cli.val[g]
      /\ cli'.role = cli.role /\ cli'.mode = cli.mode /\ cli'.reverse = cli.reverse
      /\ cli'.bidirectional = cli.bidirectional /\ cli'.protocol = cli.protocol
      /\ cli'.flags = cli.flags
  BY <1>1, SetValIs
<1>3. Directed'
  BY <1>1, <1>2 DEF Directed, ModeOf
<1>4. "burst" \in NumField /\ ClientFields \subseteq NumField
  BY DEF NumField, ClientFields
<1>5. ClientOnly'
  BY <1>1, <1>2, <1>4 DEF ClientOnly
<1>6. pc' = "parse" => cli'.val["burst"] \in Nat
  BY <1>1, <1>2, <1>4
<1> QED
  BY <1>2, <1>3, <1>5, <1>6, ParseStep

\* An option with a range.
LEMMA ParseRangedSettings ==
    ASSUME SettingsInv, NEW a \in args, ParseRanged(a)
    PROVE  SettingsInv'
<1>1. PICK r \in Ranged :
        /\ Takes(a, {r.o})
        /\ cli' = SetVal(cli, r.field, Number(r, a))
        /\ IF InRange(r, Number(r, a))
           THEN /\ Continue
                /\ loc' = [loc EXCEPT !.client = @ \/ r.side = "client",
                                      !.duration = @ \/ r.o = "t"]
           ELSE Fail(r.err) /\ UNCHANGED loc
  BY DEF ParseRanged
<1>2. /\ pc = "parse" /\ args' = args \ {a}
      /\ UNCHANGED <<line, srv, fresh, call>>
  BY <1>1 DEF Takes
<1>3. a \in Argument /\ loc \in Loc
  BY <1>2, Reading
<1>4. r.field \in NumField /\ Number(r, a) \in Int /\ r.field # "burst"
      /\ (r.side # "client" => r.field \notin ClientFields)
  BY <1>3, RangedFields, Numbers
<1>5. CASE InRange(r, Number(r, a))
  <2>1. pc' = "parse" /\ loc' = [loc EXCEPT !.client = @ \/ r.side = "client",
                                            !.duration = @ \/ r.o = "t"]
    BY <1>1, <1>5 DEF Continue
  <2>2. loc' \in Loc /\ loc'.client = (loc.client \/ r.side = "client") /\ loc'.rate = loc.rate
    BY <1>3, <2>1 DEF Loc
  <2>3. CASE r.side = "client"
    BY <1>1, <1>2, <1>4, <2>1, <2>2, <2>3, AssignStep
  <2>4. CASE r.side # "client" /\ loc.client
    BY <1>1, <1>2, <1>4, <2>1, <2>2, <2>4, AssignStep
  <2>5. CASE r.side # "client" /\ ~loc.client
    <3>1. r.o # "t"
      BY <2>5 DEF Ranged, Ranged_
    <3>2. loc' = loc
      BY <1>3, <2>1, <2>5, <3>1 DEF Loc
    <3> QED
      BY <1>1, <1>2, <1>3, <1>4, <2>1, <2>5, <3>2, AssignStep
  <2> QED
    BY <2>3, <2>4, <2>5
<1>6. CASE ~InRange(r, Number(r, a))
  <2>1. pc' = "failed" /\ loc' = loc
    BY <1>1, <1>6 DEF Fail
  <2> QED
    BY <1>1, <1>2, <1>3, <1>4, <2>1, AssignStep
<1> QED
  BY <1>5, <1>6

\* An option with a size.
LEMMA ParseSizedSettings ==
    ASSUME SettingsInv, NEW a \in args, ParseSized(a)
    PROVE  SettingsInv'
<1>1. /\ pc = "parse" /\ args' = args \ {a} /\ a.o \in DOMAIN Sized
      /\ UNCHANGED <<line, srv, fresh, call>>
      /\ pc' = "parse"
      /\ loc' = [loc EXCEPT !.client = TRUE]
  BY DEF ParseSized, Takes, Continue, Client
<1>2. a \in Argument /\ loc \in Loc
  BY <1>1, Reading
<1>3. PICK x \in unit_atoi(a) : cli' = SetVal(cli, Sized[a.o], x)
  BY DEF ParseSized
<1>4. x \in Int /\ Sized[a.o] \in NumField /\ Sized[a.o] # "burst"
  BY <1>1, <1>2, Numbers, SizedFields
<1>5. loc' \in Loc /\ loc'.client
  BY <1>1, <1>2 DEF Loc
<1> QED
  BY <1>1, <1>3, <1>4, <1>5, AssignStep

\* -w.
LEMMA ParseWindowSettings ==
    ASSUME SettingsInv, NEW a \in args, ParseWindow(a)
    PROVE  SettingsInv'
<1>1. /\ pc = "parse" /\ args' = args \ {a}
      /\ UNCHANGED <<line, srv, fresh, call>>
  BY DEF ParseWindow, Takes
<1>2. a \in Argument /\ loc \in Loc
  BY <1>1, Reading
<1>3. CASE ExceedsBuffer(a)
  <2>1. pc' = "failed" /\ UNCHANGED <<cli, loc>>
    BY <1>3 DEF ParseWindow, Fail
  <2> QED
    BY <1>1, <2>1, Reading, ParseStep DEF Directed, ClientOnly, ModeOf
<1>4. CASE ~ExceedsBuffer(a)
  <2>1. /\ pc' = "parse" /\ loc' = [loc EXCEPT !.client = TRUE]
        /\ \E x \in unit_atof(a) : cli' = SetVal(cli, "socket_bufsize", x)
    BY <1>4 DEF ParseWindow, Continue, Client
  <2>2. PICK x \in unit_atof(a) : cli' = SetVal(cli, "socket_bufsize", x)
    BY <2>1
  <2>3. x \in Int /\ "socket_bufsize" \in NumField
    BY <1>2, Numbers DEF NumField
  <2>4. loc' \in Loc /\ loc'.client
    BY <1>2, <2>1 DEF Loc
  <2> QED
    BY <1>1, <2>1, <2>2, <2>3, <2>4, AssignStep
<1> QED
  BY <1>3, <1>4

\* -l.
LEMMA ParseLengthSettings ==
    ASSUME SettingsInv, NEW a \in args, ParseLength(a)
    PROVE  SettingsInv'
<1>1. /\ pc = "parse" /\ args' = args \ {a}
      /\ UNCHANGED <<line, srv, fresh, call, cli>>
      /\ pc' = "parse"
  BY DEF ParseLength, Takes, Continue
<1>2. a \in Argument /\ loc \in Loc /\ cli \in Test /\ cli.val["burst"] \in Nat
  BY <1>1, Reading
<1>3. PICK x \in LowInt(a) : loc' = [loc EXCEPT !.client = TRUE, !.blksize = x]
  BY DEF ParseLength
<1>4. x \in Int
  BY <1>2, Lengths
<1>5. loc' \in Loc /\ loc'.client
  BY <1>2, <1>3, <1>4 DEF Loc
<1>6. Directed' /\ ClientOnly'
  BY <1>1, <1>5 DEF SettingsInv, Directed, ModeOf, ClientOnly
<1> QED
  BY <1>1, <1>2, <1>5, <1>6, ParseStep

\* -b.
LEMMA ParseBitrateSettings ==
    ASSUME SettingsInv, NEW a \in args, ParseBitrate(a)
    PROVE  SettingsInv'
<1>1. /\ pc = "parse" /\ args' = args \ {a}
      /\ UNCHANGED <<line, srv, fresh, call>>
  BY DEF ParseBitrate, Takes
<1>2. /\ a \in Argument /\ a.burst \in Int /\ loc \in Loc /\ cli \in Test
      /\ {"burst", "rate"} \subseteq NumField
  BY <1>1, Reading DEF Argument, NumField
<1>3. CASE a.burst # -1 /\ a.burst \notin 1..MAX_BURST
  <2>1. pc' = "failed" /\ cli' = SetVal(cli, "burst", a.burst) /\ loc' = loc
    BY <1>3 DEF ParseBitrate, Fail
  <2> QED
    BY <1>1, <1>2, <2>1, AssignStep
<1>4. CASE a.burst = -1 \/ a.burst \in 1..MAX_BURST
  <2> DEFINE t == IF a.burst = -1 THEN cli ELSE SetVal(cli, "burst", a.burst)
  <2>1. /\ pc' = "parse" /\ loc' = [loc EXCEPT !.client = TRUE, !.rate = TRUE]
        /\ \E x \in unit_atof_rate(a) : cli' = SetVal(t, "rate", x)
    BY <1>4 DEF ParseBitrate, Continue
  <2>2. PICK x \in unit_atof_rate(a) : cli' = SetVal(t, "rate", x)
    BY <2>1
  <2>3. x \in Int
    BY <1>2, Numbers
  <2>4. loc' \in Loc /\ loc'.client
    BY <1>2, <2>1 DEF Loc
  <2>5. /\ t \in Test /\ t.role = cli.role /\ t.mode = cli.mode /\ t.reverse = cli.reverse
        /\ t.bidirectional = cli.bidirectional
        /\ t.val["burst"] \in Nat
    <3>1. CASE a.burst = -1
      BY <1>1, <3>1, Reading
    <3>2. CASE a.burst # -1
      <4>1. t = SetVal(cli, "burst", a.burst)
        BY <3>2
      <4>2. a.burst \in Nat
        BY <1>4, <3>2, SMT DEF MAX_BURST
      <4> HIDE DEF t
      <4> QED
        BY <1>2, <4>1, <4>2, SetValIs
    <3> QED
      BY <3>1, <3>2
  <2> HIDE DEF t
  <2>6. /\ cli' \in Test /\ cli'.role = cli.role /\ cli'.mode = cli.mode
        /\ cli'.reverse = cli.reverse /\ cli'.bidirectional = cli.bidirectional
        /\ cli'.val["burst"] \in Nat
    <3>1. "rate" \in NumField /\ "burst" \in NumField /\ "burst" # "rate"
      BY DEF NumField
    <3>2. /\ SetVal(t, "rate", x) \in Test
          /\ \A g \in NumField : g # "rate" => SetVal(t, "rate", x).val[g] = t.val[g]
          /\ SetVal(t, "rate", x).role = t.role
          /\ SetVal(t, "rate", x).mode = t.mode
          /\ SetVal(t, "rate", x).reverse = t.reverse
          /\ SetVal(t, "rate", x).bidirectional = t.bidirectional
      BY <2>3, <2>5, <3>1, SetValIs
    <3> QED
      BY <2>2, <2>5, <3>1, <3>2
  <2>7. Directed' /\ ClientOnly'
    BY <1>1, <2>4, <2>6, Reading DEF Directed, ModeOf, ClientOnly
  <2> QED
    BY <1>1, <2>1, <2>4, <2>6, <2>7, ParseStep
<1> QED
  BY <1>3, <1>4

\* A setter of the role, the direction or the protocol.
LEMMA SetterStep ==
    ASSUME SettingsInv, NEW a \in args, pc = "parse", pc' = "parse", args' = args \ {a},
           UNCHANGED <<line, srv, fresh, call>>,
           cli' \in Test, cli'.mode = ModeOf(cli'), ~(cli'.reverse /\ cli'.bidirectional),
           cli'.flags = cli.flags, cli'.val = cli.val,
           loc' \in Loc,
           loc'.client \/ /\ loc' = loc /\ cli'.protocol = cli.protocol
                          /\ cli'.reverse = cli.reverse
                          /\ cli'.bidirectional = cli.bidirectional
    PROVE  SettingsInv'
<1>1. Directed'
  BY DEF Directed, ModeOf
<1>2. ClientOnly'
  BY Reading DEF ClientOnly
<1>3. cli'.val["burst"] \in Nat
  BY Reading
<1> QED
  BY <1>1, <1>2, <1>3, ParseStep

\* A command line that is refused.
LEMMA FailStep ==
    ASSUME SettingsInv, NEW a \in args, pc = "parse", pc' = "failed", args' = args \ {a},
           UNCHANGED <<line, srv, fresh, call, cli, loc>>
    PROVE  SettingsInv'
BY Reading, ParseStep DEF Directed, ClientOnly, ModeOf

\* -s and -c.
LEMMA ParseRoleSettings ==
    ASSUME SettingsInv, NEW a \in args, ParseRole(a)
    PROVE  SettingsInv'
<1>1. /\ pc = "parse" /\ args' = args \ {a} /\ a.o \in {"s", "c"}
      /\ UNCHANGED <<line, srv, fresh, call, loc>>
  BY DEF ParseRole, Takes
<1>2. CASE cli.role \notin {"none", a.o}
  BY <1>1, <1>2, FailStep DEF ParseRole, Fail
<1>3. CASE cli.role \in {"none", a.o}
  <2>1. pc' = "parse" /\ cli' = iperf_set_test_role(cli, a.o)
    BY <1>3 DEF ParseRole, Continue
  <2>2. cli \in Test /\ ~(cli.reverse /\ cli.bidirectional) /\ loc \in Loc
    BY <1>1, Reading
  <2>3. /\ cli' \in Test /\ cli'.reverse = cli.reverse
        /\ cli'.bidirectional = cli.bidirectional /\ cli'.protocol = cli.protocol
        /\ cli'.flags = cli.flags /\ cli'.val = cli.val
        /\ cli'.mode = ModeOf(cli')
    BY <1>1, <2>1, <2>2, RoleIs
  <2> QED
    BY <1>1, <2>1, <2>2, <2>3, SetterStep
<1> QED
  BY <1>2, <1>3

\* -u.
LEMMA ParseUdpSettings ==
    ASSUME SettingsInv, NEW a \in args, ParseUdp(a)
    PROVE  SettingsInv'
<1>1. /\ pc = "parse" /\ args' = args \ {a}
      /\ UNCHANGED <<line, srv, fresh, call>>
      /\ pc' = "parse" /\ cli' = set_protocol(cli, "udp")
      /\ loc' = [loc EXCEPT !.client = TRUE]
  BY DEF ParseUdp, Takes, Client, Continue
<1>2. /\ cli \in Test /\ ~(cli.reverse /\ cli.bidirectional) /\ loc \in Loc
      /\ cli.mode = ModeOf(cli)
  BY <1>1, Reading
<1>3. /\ cli' \in Test /\ cli'.role = cli.role /\ cli'.mode = cli.mode
      /\ cli'.reverse = cli.reverse
      /\ cli'.bidirectional = cli.bidirectional /\ cli'.flags = cli.flags /\ cli'.val = cli.val
  BY <1>1, <1>2, ProtocolIs
<1>4. cli'.mode = ModeOf(cli')
  BY <1>2, <1>3 DEF ModeOf
<1>5. loc' \in Loc /\ loc'.client
  BY <1>1, <1>2 DEF Loc
<1> QED
  BY <1>1, <1>2, <1>3, <1>4, <1>5, SetterStep

\* -R and --bidir.
LEMMA ParseDirectionSettings ==
    ASSUME SettingsInv, NEW a \in args, ParseDirection(a)
    PROVE  SettingsInv'
<1>1. /\ pc = "parse" /\ args' = args \ {a} /\ a.o \in {"R", "bidir"}
      /\ UNCHANGED <<line, srv, fresh, call>>
  BY DEF ParseDirection, Takes
<1>2. /\ cli \in Test /\ ~(cli.reverse /\ cli.bidirectional) /\ loc \in Loc
      /\ cli.mode = ModeOf(cli)
  BY <1>1, Reading
<1>3. CASE (a.o = "R" /\ cli.bidirectional) \/ (a.o = "bidir" /\ cli.reverse)
  BY <1>1, <1>3, FailStep DEF ParseDirection, Fail
<1>4. CASE ~((a.o = "R" /\ cli.bidirectional) \/ (a.o = "bidir" /\ cli.reverse))
  <2>1. /\ pc' = "parse" /\ loc' = [loc EXCEPT !.client = TRUE]
        /\ cli' = IF a.o = "R" THEN iperf_set_test_reverse(cli)
                               ELSE iperf_set_test_bidirectional(cli)
    BY <1>4 DEF ParseDirection, Continue, Client
  <2>2. loc' \in Loc /\ loc'.client
    BY <1>2, <2>1 DEF Loc
  <2>3. CASE a.o = "R"
    <3>1. cli' = iperf_set_test_reverse(cli) /\ ~cli.bidirectional
      BY <1>4, <2>1, <2>3
    <3>2. /\ cli' \in Test /\ cli'.bidirectional = cli.bidirectional
          /\ cli'.flags = cli.flags /\ cli'.val = cli.val /\ cli'.mode = ModeOf(cli')
      BY <1>2, <3>1, ReverseIs
    <3> QED
      BY <1>1, <2>1, <2>2, <3>1, <3>2, SetterStep
  <2>4. CASE a.o = "bidir"
    <3>1. cli' = iperf_set_test_bidirectional(cli) /\ ~cli.reverse
      BY <1>4, <2>1, <2>4
    <3>2. /\ cli' \in Test /\ cli'.reverse = cli.reverse
          /\ cli'.flags = cli.flags /\ cli'.val = cli.val /\ cli'.mode = ModeOf(cli')
      BY <1>2, <3>1, BidirectionalIs
    <3> QED
      BY <1>1, <2>1, <2>2, <3>1, <3>2, SetterStep
  <2> QED
    BY <1>1, <2>3, <2>4
<1> QED
  BY <1>3, <1>4

\* An option without an argument.
LEMMA ParseFlagSettings ==
    ASSUME SettingsInv, NEW a \in args, ParseFlag(a)
    PROVE  SettingsInv'
<1>1. /\ pc = "parse" /\ args' = args \ {a}
      /\ a.o \in ServerFlags \cup BothFlags \cup ClientFlags
      /\ UNCHANGED <<line, srv, fresh, call>>
      /\ pc' = "parse"
      /\ cli' = [cli EXCEPT !.flags = @ \cup {a.o}]
      /\ loc' = [loc EXCEPT !.server = @ \/ a.o \in ServerFlags,
                            !.client = @ \/ a.o \in ClientFlags]
  BY DEF ParseFlag, Takes, Continue
<1>2. cli \in Test /\ loc \in Loc
  BY <1>1, Reading
<1>3. /\ cli' \in Test /\ cli'.role = cli.role /\ cli'.mode = cli.mode
      /\ cli'.reverse = cli.reverse /\ cli'.protocol = cli.protocol
      /\ cli'.bidirectional = cli.bidirectional /\ cli'.val = cli.val
      /\ cli'.flags = cli.flags \cup {a.o}
  BY <1>1, <1>2 DEF Test
<1>4. loc' \in Loc /\ loc'.client = (loc.client \/ a.o \in ClientFlags) /\ loc'.rate = loc.rate
  BY <1>1, <1>2 DEF Loc
<1>5. Directed'
  BY <1>1, <1>3, Reading DEF Directed, ModeOf
<1>6. ~loc'.client => ~loc.client /\ a.o # "N"
  BY <1>4 DEF ClientFlags
<1>7. ClientOnly'
  BY <1>1, <1>3, <1>4, <1>6, Reading DEF ClientOnly
<1>8. cli'.val["burst"] \in Nat
  BY <1>1, <1>3, Reading
<1> QED
  BY <1>1, <1>3, <1>4, <1>5, <1>7, <1>8, ParseStep

\* Every option.
LEMMA ParseSettings ==
    ASSUME SettingsInv, NEW a \in args, ParseOption(a)
    PROVE  SettingsInv'
<1>1. CASE ParseStop(a)
  BY <1>1, FailStep DEF ParseStop, Takes, Fail
<1> QED
  BY <1>1, ParseRangedSettings, ParseSizedSettings, ParseLengthSettings, ParseWindowSettings,
     ParseBitrateSettings, ParseRoleSettings, ParseUdpSettings, ParseDirectionSettings,
     ParseFlagSettings DEF ParseOption

-----------------------------------------------------------------------------
(* The end of the command line. *)

\* A process starts.
LEMMA MainSettings ==
    ASSUME SettingsInv, NEW l \in Lines, main(l)
    PROVE  SettingsInv'
<1>1. /\ pc = "idle" /\ pc' = "parse" /\ line' = l /\ args' = l /\ loc' = NoLoc
      /\ cli' = iperf_defaults /\ UNCHANGED <<srv, fresh, call>>
  BY DEF main
<1>2. TypeOK'
  BY <1>1, DefaultsType DEF SettingsInv, TypeOK, Loc
<1>3. Directed'
  BY <1>1 DEF Directed, iperf_defaults, ModeOf
<1>4. \A f \in ClientFields : cli'.val[f] = 0
  BY <1>1, Defaults DEF iperf_defaults
<1>5. ClientOnly' /\ Bursts'
  BY <1>1, <1>4 DEF SettingsInv, ClientOnly, Bursts, iperf_defaults, NoLoc, ClientFields
<1>6. Roles' /\ BlockChosen' /\ BlockUsable' /\ SettingsAgree'
  BY <1>1, NotRunning DEF Roles, BlockChosen, BlockUsable
<1>7. ServerReady'
  BY <1>1 DEF SettingsInv, ServerReady
<1> QED
  BY <1>2, <1>3, <1>5, <1>6, <1>7 DEF SettingsInv

\* What the code behind the loop makes of the settings.
LEMMA FinalValIs ==
    ASSUME SettingsInv
    PROVE  /\ FinalVal \in [NumField -> Int]
           /\ FinalVal["blksize"] = BlkSize(loc.blksize, cli.protocol)
           /\ FinalVal["rate"] = IF loc.rate THEN cli.val["rate"]
                                 ELSE IF cli.protocol = "udp" THEN UDP_RATE ELSE 0
           /\ FinalVal["duration"] =
                  IF (cli.val["bytes"] # 0 \/ cli.val["blocks"] # 0) /\ ~loc.duration
                  THEN 0 ELSE cli.val["duration"]
           /\ \A g \in NumField : g \notin {"blksize", "rate", "duration"} => FinalVal[g] = cli.val[g]
<1> DEFINE b == BlkSize(loc.blksize, cli.protocol)
           r == IF loc.rate THEN cli.val["rate"] ELSE IF cli.protocol = "udp" THEN UDP_RATE ELSE 0
           d == IF (cli.val["bytes"] # 0 \/ cli.val["blocks"] # 0) /\ ~loc.duration
                THEN 0 ELSE cli.val["duration"]
<1>1. /\ cli.val \in [NumField -> Int] /\ loc \in Loc
      /\ {"blksize", "rate", "duration"} \subseteq NumField
  BY DEF SettingsInv, TypeOK, Test, NumField, Loc
<1>2. b \in Int
  BY <1>1 DEF BlkSize, DEFAULT_TCP_BLKSIZE, Loc
<1>3. r \in Int /\ d \in Int
  BY <1>1 DEF UDP_RATE
<1>4. FinalVal = [cli.val EXCEPT !["blksize"] = b, !["rate"] = r, !["duration"] = d]
  BY <1>1 DEF FinalVal, UDP_RATE
<1> HIDE DEF b, r, d
<1>5. /\ FinalVal \in [NumField -> Int]
      /\ FinalVal["blksize"] = b /\ FinalVal["rate"] = r /\ FinalVal["duration"] = d
      /\ \A g \in NumField : g \notin {"blksize", "rate", "duration"} => FinalVal[g] = cli.val[g]
  BY <1>1, <1>2, <1>3, <1>4
<1> QED
  BY <1>5, Zenon DEF b, r, d

\* The checks behind the loop of getopt.
LEMMA FinalErrorIs ==
    ASSUME FinalError = "none"
    PROVE  /\ ~(cli.role = "s" /\ loc.client)
           /\ ~BadBlock(BlkSize(loc.blksize, cli.protocol), cli.protocol)
           /\ ~BadUdpBlock(BlkSize(loc.blksize, cli.protocol), cli.protocol)
           /\ cli.role # "none"
BY DEF FinalError

\* The whole command line is read.
LEMMA ParsedSettings ==
    ASSUME SettingsInv, iperf_parse_arguments
    PROVE  SettingsInv'
<1>1. /\ pc = "parse" /\ UNCHANGED <<line, args, loc, srv, fresh, call>>
      /\ cli \in Test /\ loc \in Loc
  BY DEF iperf_parse_arguments, SettingsInv, TypeOK, Loc
<1>2. CASE FinalError # "none"
  <2>1. pc' = "failed" /\ cli' = cli
    BY <1>2 DEF iperf_parse_arguments, Fail
  <2> QED
    BY <1>1, <2>1, ParseStep DEF SettingsInv, Directed, ClientOnly, ModeOf
<1>3. CASE FinalError = "none"
  <2>1. pc' = "parsed" /\ cli' = [cli EXCEPT !.val = FinalVal]
    BY <1>3 DEF iperf_parse_arguments
  <2>2. /\ FinalVal \in [NumField -> Int]
        /\ FinalVal["blksize"] = BlkSize(loc.blksize, cli.protocol)
        /\ ~loc.rate /\ cli.protocol # "udp" => FinalVal["rate"] = 0
        /\ \A g \in NumField : g \notin {"blksize", "rate", "duration"} => FinalVal[g] = cli.val[g]
    BY FinalValIs
  <2>3. /\ cli' \in Test /\ cli'.role = cli.role /\ cli'.mode = cli.mode
        /\ cli'.reverse = cli.reverse /\ cli'.protocol = cli.protocol
        /\ cli'.bidirectional = cli.bidirectional /\ cli'.flags = cli.flags
        /\ cli'.val = FinalVal
    BY <1>1, <2>1, <2>2 DEF Test
  <2>4. TypeOK'
    BY <1>1, <2>1, <2>3 DEF SettingsInv, TypeOK
  <2>5. Directed'
    BY <2>3 DEF SettingsInv, Directed, ModeOf
  <2>6. ClientOnly'
    <3>1. ~loc.client =>
            /\ cli.protocol = "tcp" /\ ~cli.reverse /\ ~cli.bidirectional
            /\ "N" \notin cli.flags /\ ~loc.rate
            /\ \A f \in ClientFields : cli.val[f] = 0
      BY <1>1 DEF SettingsInv, ClientOnly
    <3>2. \A f \in ClientFields : f = "rate" \/ (f \in NumField /\ f \notin {"blksize", "rate", "duration"})
      BY DEF ClientFields, NumField
    <3> QED
      BY <1>1, <2>2, <2>3, <3>1, <3>2 DEF ClientOnly
  <2>7. Bursts'
    <3>1. "burst" \in NumField /\ "burst" \notin {"blksize", "rate", "duration"}
      BY DEF NumField
    <3> QED
      BY <1>1, <2>2, <2>3, <3>1 DEF SettingsInv, Bursts
  <2>8. Roles'
    BY <1>1, <1>3, <2>1, <2>3, FinalErrorIs DEF Roles, Test
  <2>9. BlockChosen'
    <3> DEFINE b == BlkSize(loc.blksize, cli.protocol)
    <3>1. b \in Int
      BY <1>1 DEF BlkSize, DEFAULT_TCP_BLKSIZE, Loc
    <3>2. ~BadBlock(b, cli.protocol) /\ ~BadUdpBlock(b, cli.protocol)
      BY <1>3, FinalErrorIs
    <3>3. cli'.val["blksize"] = b /\ cli'.protocol = cli.protocol /\ cli.protocol \in {"tcp", "udp"}
      BY <1>1, <2>2, <2>3 DEF Test
    <3> HIDE DEF b
    <3>4. MAX_BLOCKSIZE \in Int
      BY DEF MAX_BLOCKSIZE
    <3>5. CASE cli.protocol = "udp"
      BY <3>1, <3>2, <3>3, <3>5 DEF BlockChosen, BadUdpBlock
    <3>6. CASE cli.protocol = "tcp"
      BY <3>1, <3>2, <3>3, <3>4, <3>6 DEF BlockChosen, BadBlock
    <3> QED
      BY <3>3, <3>5, <3>6
  <2>10. BlockUsable' /\ SettingsAgree'
    BY <2>1, NotRunning DEF BlockUsable
  <2>11. ServerReady'
    BY <1>1, <2>1 DEF SettingsInv, ServerReady
  <2> QED
    BY <2>4, <2>5, <2>6, <2>7, <2>8, <2>9, <2>10, <2>11 DEF SettingsInv
<1> QED
  BY <1>2, <1>3

\* The process goes away and leaves a server that waits, or none.
LEMMA IdleStep ==
    ASSUME SettingsInv, Idle, call' = call,
           srv' \in Test \cup {NoTest}, fresh' \in BOOLEAN,
           ServerReady',
           srv' # NoTest => srv'.val["burst"] \in Nat
    PROVE  SettingsInv'
<1>1. /\ pc' = "idle" /\ line' = {} /\ args' = {} /\ loc' = NoLoc /\ cli' = iperf_defaults
  BY DEF Idle
<1>2. TypeOK'
  BY <1>1, DefaultsType DEF SettingsInv, TypeOK, Loc
<1>3. Directed'
  BY <1>1 DEF Directed, iperf_defaults, ModeOf
<1>4. \A f \in ClientFields : cli'.val[f] = 0
  BY <1>1, Defaults DEF iperf_defaults
<1>5. ClientOnly' /\ Bursts'
  BY <1>1, <1>4 DEF ClientOnly, Bursts, iperf_defaults, NoLoc, ClientFields
<1>6. Roles' /\ BlockChosen' /\ BlockUsable' /\ SettingsAgree'
  BY <1>1, NotRunning DEF Roles, BlockChosen, BlockUsable
<1> QED
  BY <1>2, <1>3, <1>5, <1>6 DEF SettingsInv

\* A server starts to wait.
LEMMA StartServerSettings ==
    ASSUME SettingsInv, StartServer
    PROVE  SettingsInv'
<1>1. /\ pc = "parsed" /\ cli.role = "s" /\ Idle /\ call' = call /\ pc' = "idle"
      /\ cli \in Test /\ srv \in Test \cup {NoTest} /\ fresh \in BOOLEAN
  BY DEF StartServer, Idle, SettingsInv, TypeOK
<1>2. CASE srv # NoTest
  <2>1. UNCHANGED <<srv, fresh>>
    BY <1>2 DEF StartServer
  <2>2. ServerReady'
    BY <1>1, <2>1 DEF SettingsInv, ServerReady
  <2>3. srv # NoTest => srv.val["burst"] \in Nat
    BY DEF SettingsInv, Bursts
  <2> QED
    BY <1>1, <2>1, <2>2, <2>3, IdleStep
<1>3. CASE srv = NoTest
  <2>1. srv' = cli /\ fresh' = TRUE
    BY <1>3 DEF StartServer
  <2>2. ~loc.client
    BY <1>1 DEF SettingsInv, Roles
  <2>3. /\ cli.protocol = "tcp" /\ ~cli.reverse /\ ~cli.bidirectional
        /\ "N" \notin cli.flags /\ \A f \in ClientFields : cli.val[f] = 0
    BY <1>1, <2>2 DEF SettingsInv, ClientOnly
  <2>4. cli.mode = "RECEIVER"
    <3>1. cli.reverse = FALSE /\ cli.bidirectional = FALSE
      BY <1>1, <2>3 DEF Test
    <3> QED
      BY <1>1, <3>1 DEF SettingsInv, Directed, ModeOf
  <2>5. ServerReady'
    BY <1>1, <2>1, <2>3, <2>4 DEF ServerReady
  <2>6. cli.val["burst"] \in Nat
    BY <1>1 DEF SettingsInv, Bursts
  <2> QED
    BY <1>1, <2>1, <2>5, <2>6, IdleStep
<1> QED
  BY <1>2, <1>3

\* A process that is done or refused exits.
LEMMA ExitSettings ==
    ASSUME SettingsInv, Exit
    PROVE  SettingsInv'
<1>1. /\ pc \in {"failed", "parsed"} /\ Idle /\ pc' = "idle" /\ UNCHANGED <<srv, fresh, call>>
  BY DEF Exit, Idle
<1>2. /\ srv \in Test \cup {NoTest} /\ fresh \in BOOLEAN
      /\ srv # NoTest => srv.val["burst"] \in Nat
  BY DEF SettingsInv, TypeOK, Bursts
<1>3. ServerReady'
  BY <1>1 DEF SettingsInv, ServerReady
<1> QED
  BY <1>1, <1>2, <1>3, IdleStep

-----------------------------------------------------------------------------
(* A test. *)

\* The limits of block sizes.
LEMMA Limits ==
    /\ MIN_UDP_BLOCKSIZE \in Int /\ MAX_UDP_BLOCKSIZE \in Int /\ MIN_MSS \in Int
    /\ 0 < MIN_UDP_BLOCKSIZE /\ MIN_UDP_BLOCKSIZE <= MIN_MSS
    /\ DEFAULT_UDP_BLKSIZE \in Int
    /\ MIN_UDP_BLOCKSIZE <= DEFAULT_UDP_BLKSIZE /\ DEFAULT_UDP_BLKSIZE <= MAX_UDP_BLOCKSIZE
BY DEF MIN_UDP_BLOCKSIZE, MAX_UDP_BLOCKSIZE, MIN_MSS, DEFAULT_UDP_BLKSIZE

\* The MSS of the control connection makes a block size.
LEMMA MssUsable ==
    /\ DEFAULT_UDP_BLKSIZE \in UdpBlockSizes
    /\ \A mss \in CtrlMss : mss # 0 => mss \in UdpBlockSizes
    /\ UdpBlockSizes \subseteq Int /\ 0 \notin UdpBlockSizes
<1>1. DEFAULT_UDP_BLKSIZE \in UdpBlockSizes
  BY Limits DEF UdpBlockSizes
<1>2. \A mss \in CtrlMss : mss # 0 => mss \in MIN_MSS..MAX_UDP_BLOCKSIZE
  BY OptionsAssumption
<1>3. MIN_MSS..MAX_UDP_BLOCKSIZE \subseteq UdpBlockSizes
  BY Limits DEF UdpBlockSizes
<1>4. UdpBlockSizes \subseteq Int /\ 0 \notin UdpBlockSizes
  BY Limits DEF UdpBlockSizes
<1> QED
  BY <1>1, <1>2, <1>3, <1>4

\* iperf_connect chooses the block size that was left open.
LEMMA ConnectSettings ==
    ASSUME SettingsInv, iperf_connect
    PROVE  SettingsInv'
<1>1. /\ pc = "parsed" /\ cli.role = "c" /\ srv # NoTest /\ pc' = "params"
      /\ UNCHANGED <<line, args, loc, err, srv, fresh, call>>
      /\ cli \in Test
  BY DEF iperf_connect, SettingsInv, TypeOK
<1>2. /\ cli' \in Test /\ cli'.role = cli.role /\ cli'.mode = cli.mode
      /\ cli'.reverse = cli.reverse /\ cli'.protocol = cli.protocol
      /\ cli'.bidirectional = cli.bidirectional /\ cli'.flags = cli.flags
      /\ \A g \in NumField : g # "blksize" => cli'.val[g] = cli.val[g]
      /\ IF cli.protocol = "udp" /\ cli.val["blksize"] = 0
         THEN cli'.val["blksize"] \in UdpBlockSizes ELSE cli' = cli
  <2>1. PICK mss \in CtrlMss :
           cli' = IF cli.protocol = "udp" /\ cli.val["blksize"] = 0
                  THEN SetVal(cli, "blksize", IF mss # 0 THEN mss ELSE DEFAULT_UDP_BLKSIZE)
                  ELSE cli
    BY DEF iperf_connect
  <2>2. CASE cli.protocol = "udp" /\ cli.val["blksize"] = 0
    <3>1. PICK x \in UdpBlockSizes : x = IF mss # 0 THEN mss ELSE DEFAULT_UDP_BLKSIZE
      BY MssUsable
    <3>2. x \in Int /\ "blksize" \in NumField
      BY MssUsable DEF NumField
    <3>3. cli' = SetVal(cli, "blksize", x)
      BY <2>1, <2>2, <3>1
    <3> QED
      BY <1>1, <2>2, <3>1, <3>2, <3>3, SetValIs
  <2>3. CASE ~(cli.protocol = "udp" /\ cli.val["blksize"] = 0)
    BY <1>1, <2>1, <2>3
  <2> QED
    BY <2>2, <2>3
<1>3. TypeOK'
  BY <1>1, <1>2 DEF SettingsInv, TypeOK
<1>4. Directed'
  BY <1>2 DEF SettingsInv, Directed, ModeOf
<1>5. "burst" \in NumField /\ ClientFields \subseteq NumField \ {"blksize"}
  BY DEF NumField, ClientFields
<1>6. ClientOnly'
  BY <1>1, <1>2, <1>5 DEF SettingsInv, ClientOnly
<1>7. Bursts'
  BY <1>1, <1>2, <1>5 DEF SettingsInv, Bursts
<1>8. Roles' /\ BlockChosen' /\ SettingsAgree'
  BY <1>1, <1>2, NotRunning DEF Roles, BlockChosen
<1>9. BlockUsable'
  BY <1>1, <1>2 DEF SettingsInv, BlockChosen, BlockUsable
<1>10. ServerReady'
  BY <1>1 DEF SettingsInv, ServerReady
<1> QED
  BY <1>3, <1>4, <1>6, <1>7, <1>8, <1>9, <1>10 DEF SettingsInv

\* The numbers that the parameters of a test carry.
Sent(t) == AlwaysSent \cup {g \in SentIfSet : t.val[g] # 0}

\* What the parameters of a client make of a server that waits.
LEMMA ParametersAre ==
    ASSUME NEW t \in Test, t.role = "s", t.mode = "RECEIVER", ~t.reverse, ~t.bidirectional,
           NEW c \in Test, ~(c.reverse /\ c.bidirectional)
    PROVE  LET u == get_parameters(t, send_parameters(c))
           IN  /\ u \in Test
               /\ u.protocol = c.protocol
               /\ u.mode = IF c.bidirectional THEN "BIDIRECTIONAL"
                           ELSE IF c.reverse THEN "SENDER" ELSE "RECEIVER"
               /\ u.retransmits <=> u.mode # "RECEIVER" /\ u.protocol = "tcp"
               /\ u.flags = t.flags \cup (c.flags \cap WireFlags)
               /\ \A f \in NumField : u.val[f] = IF f \in Sent(c) THEN c.val[f] ELSE t.val[f]
<1> DEFINE m == send_parameters(c)
           p == set_protocol(t, c.protocol)
           val == [f \in NumField |-> IF f \in Sent(c) THEN c.val[f] ELSE t.val[f]]
           a == [p EXCEPT !.val = val, !.flags = t.flags \cup (c.flags \cap WireFlags)]
           b == IF c.reverse THEN iperf_set_test_reverse(a) ELSE a
           d == IF c.bidirectional THEN iperf_set_test_bidirectional(b) ELSE b
<1>1. /\ m.protocol = c.protocol /\ m.reverse = c.reverse /\ m.bidirectional = c.bidirectional
      /\ m.flags = c.flags \cap WireFlags
      /\ DOMAIN m.val = Sent(c)
      /\ \A f \in Sent(c) : m.val[f] = c.val[f]
  BY DEF send_parameters, Sent
<1>2. /\ p \in Test
      /\ p.role = "s" /\ p.mode = "RECEIVER" /\ ~p.reverse
      /\ ~p.bidirectional /\ p.protocol = c.protocol
      /\ p.flags = t.flags /\ p.val = t.val
      /\ p.retransmits = FALSE
  <2>1. c.protocol \in {"tcp", "udp"}
    BY DEF Test
  <2>2. /\ p \in Test
        /\ p.role = t.role /\ p.mode = t.mode /\ p.reverse = t.reverse
        /\ p.bidirectional = t.bidirectional /\ p.protocol = c.protocol
        /\ p.flags = t.flags /\ p.val = t.val
        /\ p.retransmits = (t.mode # "RECEIVER" /\ c.protocol = "tcp")
    BY <2>1, ProtocolIs, Zenon
  <2>3. (t.mode # "RECEIVER" /\ c.protocol = "tcp") = FALSE
    OBVIOUS
  <2> HIDE DEF p
  <2> QED
    BY <2>2, <2>3
<1>3. val \in [NumField -> Int]
  BY DEF Test
<1>4. c.flags \cap WireFlags \subseteq ServerFlags \cup BothFlags \cup ClientFlags
  BY DEF Test
<1>5. /\ a \in Test
      /\ a.role = "s" /\ a.mode = "RECEIVER" /\ ~a.reverse
      /\ ~a.bidirectional /\ a.protocol = c.protocol
      /\ a.flags = t.flags \cup (c.flags \cap WireFlags) /\ a.val = val
      /\ a.retransmits = FALSE
  <2> HIDE DEF p, val
  <2>1. t.flags \subseteq ServerFlags \cup BothFlags \cup ClientFlags
    BY DEF Test
  <2> QED
    BY <1>2, <1>3, <1>4, <2>1 DEF Test
<1>6. get_parameters(t, m)
        = [d EXCEPT !.retransmits = @ \/ (d.mode # "RECEIVER" /\ d.protocol = "tcp")]
  <2>1. [f \in NumField |-> IF f \in DOMAIN m.val THEN m.val[f] ELSE p.val[f]] = val
    BY <1>1, <1>2
  <2>2. p.flags \cup m.flags = t.flags \cup (c.flags \cap WireFlags)
    BY <1>1, <1>2
  <2>3. [set_protocol(t, m.protocol)
           EXCEPT !.val = [f \in NumField |-> IF f \in DOMAIN m.val THEN m.val[f] ELSE @[f]],
                  !.flags = @ \cup m.flags] = a
    <3>1. set_protocol(t, m.protocol) = p
      BY <1>1
    <3>2. [p EXCEPT !.val = [f \in NumField |-> IF f \in DOMAIN m.val THEN m.val[f] ELSE @[f]],
                    !.flags = @ \cup m.flags] = a
      <4> HIDE DEF p, val, m
      <4> QED
        BY <1>2, <2>1, <2>2 DEF Test
    <3> QED
      BY <3>1, <3>2
  <2> HIDE DEF m, a
  <2> QED
    BY <1>1, <2>3, Zenon DEF get_parameters
<1> HIDE DEF m, p, val, a
<1>7. /\ b \in Test /\ b.role = "s" /\ b.reverse = c.reverse
      /\ ~b.bidirectional /\ b.protocol = c.protocol
      /\ b.flags = a.flags /\ b.val = val
      /\ b.mode = IF c.reverse THEN "SENDER" ELSE "RECEIVER"
      /\ b.retransmits = (b.mode # "RECEIVER" /\ b.protocol = "tcp")
  <2>1. CASE c.reverse
    <3>1. a.mode = ModeOf(a)
      <4>1. a.reverse = FALSE /\ a.bidirectional = FALSE
        BY <1>5 DEF Test
      <4> QED
        BY <1>5, <4>1 DEF ModeOf
    <3>2. b = iperf_set_test_reverse(a)
      BY <2>1
    <3> HIDE DEF b
    <3>3. /\ b \in Test
          /\ b.role = a.role /\ b.reverse = TRUE
          /\ b.bidirectional = a.bidirectional /\ b.protocol = a.protocol
          /\ b.flags = a.flags /\ b.val = a.val
          /\ b.mode = ModeOf(b)
          /\ b.retransmits = (b.mode # "RECEIVER" /\ b.protocol = "tcp")
      BY <1>5, <3>1, <3>2, ReverseIs
    <3>4. ModeOf(b) = "SENDER"
      BY <1>5, <3>3 DEF ModeOf
    <3>5. c.reverse = TRUE
      BY <2>1 DEF Test
    <3> QED
      BY <1>5, <3>3, <3>4, <3>5
  <2>2. CASE ~c.reverse
    <3>1. b = a /\ c.reverse = FALSE /\ a.reverse = FALSE
      BY <1>5, <2>2 DEF Test
    <3> QED
      BY <1>5, <2>2, <3>1
  <2> QED
    BY <2>1, <2>2
<1> HIDE DEF b
<1>8. /\ d \in Test /\ d.protocol = c.protocol
      /\ d.flags = a.flags /\ d.val = val
      /\ d.mode = IF c.bidirectional THEN "BIDIRECTIONAL"
                  ELSE IF c.reverse THEN "SENDER" ELSE "RECEIVER"
      /\ d.retransmits => d.mode # "RECEIVER" /\ d.protocol = "tcp"
  <2>1. CASE c.bidirectional
    <3>1. d = iperf_set_test_bidirectional(b)
      BY <2>1
    <3> HIDE DEF d
    <3> QED
      BY <1>7, <2>1, <3>1, BidirectionalIs
  <2>2. CASE ~c.bidirectional
    BY <1>7, <2>2
  <2> QED
    BY <2>1, <2>2
<1> HIDE DEF d
<1> DEFINE u == get_parameters(t, m)
           x == d.mode # "RECEIVER" /\ d.protocol = "tcp"
<1>9. u = [d EXCEPT !.retransmits = x]
  <2>1. (d.retransmits \/ x) = x
    BY <1>8
  <2> QED
    BY <1>6, <2>1
<1>10. /\ u \in Test /\ u.protocol = c.protocol /\ u.flags = a.flags /\ u.val = val
       /\ u.mode = d.mode /\ u.retransmits = x
  <2>1. x \in BOOLEAN
    OBVIOUS
  <2> HIDE DEF u, x
  <2> QED
    BY <1>8, <1>9, <2>1 DEF Test
<1>11. \A f \in NumField : val[f] = IF f \in Sent(c) THEN c.val[f] ELSE t.val[f]
  BY DEF val
<1>12. u.retransmits <=> u.mode # "RECEIVER" /\ u.protocol = "tcp"
  BY <1>8, <1>10
<1> HIDE DEF u, x
<1> QED
  BY <1>5, <1>8, <1>10, <1>11, <1>12 DEF u, m

\* The direction a server has to take, without CASE.
Opposite(mode) ==
    IF mode = "SENDER" THEN "RECEIVER" ELSE IF mode = "RECEIVER" THEN "SENDER" ELSE "BIDIRECTIONAL"

\* SettingsAgree without its CASE.
LEMMA AgreeMeans ==
    ASSUME SettingsAgree, pc = "running"
    PROVE  /\ srv.protocol = cli.protocol
           /\ srv.mode = Opposite(cli.mode)
           /\ srv.retransmits <=> srv.mode # "RECEIVER" /\ srv.protocol = "tcp"
           /\ \A f \in AlwaysSent \cup SentIfSet :
                  \/ srv.val[f] = cli.val[f]
                  \/ f \in Sticky /\ ~fresh /\ cli.val[f] = 0
                  \/ f = "pacing_timer" /\ cli.val[f] = 0
           /\ cli.flags \cap WireFlags \subseteq srv.flags
           /\ ("N" \in srv.flags) = ("N" \in cli.flags)
<1>1. "SENDER" # "RECEIVER"
  OBVIOUS
<1>2. srv.mode = CASE cli.mode = "SENDER" -> "RECEIVER"
                   [] cli.mode = "RECEIVER" -> "SENDER"
                   [] OTHER -> "BIDIRECTIONAL"
  BY Zenon DEF SettingsAgree
<1>3. srv.mode = Opposite(cli.mode)
  <2>1. CASE cli.mode = "SENDER"
    BY <1>1, <1>2, <2>1, Zenon DEF Opposite
  <2>2. CASE cli.mode = "RECEIVER"
    BY <1>1, <1>2, <2>2, Zenon DEF Opposite
  <2>3. CASE cli.mode # "SENDER" /\ cli.mode # "RECEIVER"
    BY <1>2, <2>3, Zenon DEF Opposite
  <2> QED
    BY <2>1, <2>2, <2>3
<1> QED
  BY <1>3, Zenon DEF SettingsAgree

\* And what makes them agree after a step.
LEMMA AgreeIfNext ==
    ASSUME srv'.protocol = cli'.protocol,
           srv'.mode = Opposite(cli'.mode),
           srv'.retransmits <=> srv'.mode # "RECEIVER" /\ srv'.protocol = "tcp",
           \A f \in AlwaysSent \cup SentIfSet :
               \/ srv'.val[f] = cli'.val[f]
               \/ f \in Sticky /\ ~fresh' /\ cli'.val[f] = 0
               \/ f = "pacing_timer" /\ cli'.val[f] = 0,
           cli'.flags \cap WireFlags \subseteq srv'.flags,
           ("N" \in srv'.flags) = ("N" \in cli'.flags)
    PROVE  SettingsAgree'
<1>1. "SENDER" # "RECEIVER"
  OBVIOUS
<1>2. srv'.mode = CASE cli'.mode = "SENDER" -> "RECEIVER"
                    [] cli'.mode = "RECEIVER" -> "SENDER"
                    [] OTHER -> "BIDIRECTIONAL"
  <2>1. CASE cli'.mode = "SENDER"
    BY <1>1, <2>1, Zenon DEF Opposite
  <2>2. CASE cli'.mode = "RECEIVER"
    BY <1>1, <2>2, Zenon DEF Opposite
  <2>3. CASE cli'.mode # "SENDER" /\ cli'.mode # "RECEIVER"
    BY <2>3, Zenon DEF Opposite
  <2> QED
    BY <2>1, <2>2, <2>3
<1> QED
  BY <1>2, Zenon DEF SettingsAgree

\* The parameters reach the server.
LEMMA ExchangeSettings ==
    ASSUME SettingsInv, iperf_exchange_parameters
    PROVE  SettingsInv'
<1>1. /\ pc = "params" /\ srv' = get_parameters(srv, send_parameters(cli))
      /\ pc' = IF cli.val["num_streams"] >= 0 THEN "running" ELSE "waiting"
      /\ UNCHANGED <<line, args, loc, cli, err, fresh, call>>
  BY DEF iperf_exchange_parameters
<1>2. /\ cli \in Test /\ cli.role = "c" /\ srv \in Test /\ srv # NoTest
  BY <1>1 DEF SettingsInv, TypeOK, Roles
<1>3. /\ srv.role = "s" /\ srv.mode = "RECEIVER" /\ ~srv.reverse /\ ~srv.bidirectional
      /\ "N" \notin srv.flags
      /\ \A f \in ClientFields : srv.val[f] = 0 \/ (f \in Sticky /\ ~fresh)
  BY <1>1, <1>2 DEF SettingsInv, ServerReady
<1>4. ~(cli.reverse /\ cli.bidirectional) /\ cli.mode = ModeOf(cli)
  BY DEF SettingsInv, Directed
<1>5. /\ srv' \in Test
      /\ srv'.protocol = cli.protocol
      /\ srv'.mode = IF cli.bidirectional THEN "BIDIRECTIONAL"
                     ELSE IF cli.reverse THEN "SENDER" ELSE "RECEIVER"
      /\ srv'.retransmits <=> srv'.mode # "RECEIVER" /\ srv'.protocol = "tcp"
      /\ srv'.flags = srv.flags \cup (cli.flags \cap WireFlags)
      /\ \A f \in NumField : srv'.val[f] = IF f \in Sent(cli) THEN cli.val[f] ELSE srv.val[f]
  <2> DEFINE u == get_parameters(srv, send_parameters(cli))
  <2>1. /\ u \in Test
        /\ u.protocol = cli.protocol
        /\ u.mode = IF cli.bidirectional THEN "BIDIRECTIONAL"
                    ELSE IF cli.reverse THEN "SENDER" ELSE "RECEIVER"
        /\ u.retransmits <=> u.mode # "RECEIVER" /\ u.protocol = "tcp"
        /\ u.flags = srv.flags \cup (cli.flags \cap WireFlags)
        /\ \A f \in NumField : u.val[f] = IF f \in Sent(cli) THEN cli.val[f] ELSE srv.val[f]
    BY <1>2, <1>3, <1>4, ParametersAre
  <2>2. srv' = u
    BY <1>1
  <2> HIDE DEF u
  <2> QED
    BY <2>1, <2>2
<1>6. pc' \in {"running", "waiting"}
  BY <1>1
<1>7. SettingsAgree'
  <2>1. srv'.mode = Opposite(cli.mode)
    <3>1. cli.reverse \in BOOLEAN
      BY <1>2 DEF Test
    <3> QED
      BY <1>2, <1>4, <1>5, <3>1 DEF ModeOf, Opposite
  <2>2. cli.val["blksize"] # 0
    <3>1. CASE cli.protocol = "udp"
      BY <1>1, <3>1, MssUsable DEF SettingsInv, BlockUsable
    <3>2. CASE cli.protocol # "udp"
      <4>1. cli.val["blksize"] \in 1..MAX_BLOCKSIZE
        BY <1>1, <3>2 DEF SettingsInv, BlockUsable
      <4> QED
        BY <4>1
    <3> QED
      BY <3>1, <3>2
  <2>3. ASSUME NEW f \in AlwaysSent \cup SentIfSet
        PROVE  \/ srv'.val[f] = cli.val[f]
               \/ f \in Sticky /\ ~fresh /\ cli.val[f] = 0
               \/ f = "pacing_timer" /\ cli.val[f] = 0
    <3>1. f \in NumField
      BY DEF AlwaysSent, SentIfSet, NumField
    <3>2. CASE f \in Sent(cli)
      BY <1>5, <3>1, <3>2
    <3>3. CASE f \notin Sent(cli)
      <4>1. f \in SentIfSet /\ cli.val[f] = 0
        BY <3>3 DEF Sent
      <4>2. f = "pacing_timer" \/ f \in ClientFields
        BY <2>2, <4>1 DEF SentIfSet, ClientFields
      <4> QED
        BY <1>3, <1>5, <3>1, <3>3, <4>1, <4>2
    <3> QED
      BY <3>2, <3>3
  <2>4. cli.flags \cap WireFlags \subseteq srv'.flags
    BY <1>5
  <2>5. ("N" \in srv'.flags) = ("N" \in cli.flags)
    <3>1. "N" \in WireFlags
      BY DEF WireFlags
    <3> QED
      BY <1>3, <1>5, <3>1
  <2>6. cli' = cli /\ fresh' = fresh
    BY <1>1
  <2> QED
    BY <1>5, <2>1, <2>3, <2>4, <2>5, <2>6, AgreeIfNext
<1>8. TypeOK'
  BY <1>1, <1>5, <1>6 DEF SettingsInv, TypeOK
<1>9. Directed' /\ ClientOnly'
  BY <1>1, <1>6 DEF SettingsInv, Directed, ModeOf, ClientOnly
<1>10. Bursts'
  <2>1. "burst" \in NumField /\ cli.val["burst"] \in Nat /\ srv.val["burst"] \in Nat
    BY <1>1, <1>2 DEF SettingsInv, Bursts, NumField
  <2>2. srv'.val["burst"] \in Nat
    BY <1>5, <2>1
  <2> QED
    BY <1>1, <2>1, <2>2 DEF Bursts
<1>11. Roles'
  <2>1. srv' # NoTest
    BY <1>5, NoTestAssumption
  <2>2. pc' = "running" => cli.val["num_streams"] >= 0
    BY <1>1
  <2> QED
    BY <1>1, <1>2, <1>6, <2>1, <2>2 DEF Roles
<1>12. BlockChosen' /\ BlockUsable' /\ ServerReady'
  BY <1>1, <1>6 DEF SettingsInv, BlockChosen, BlockUsable, ServerReady
<1> QED
  BY <1>7, <1>8, <1>9, <1>10, <1>11, <1>12 DEF SettingsInv

\* The server resets its test.
LEMMA EndTestSettings ==
    ASSUME SettingsInv, EndTest
    PROVE  SettingsInv'
<1>1. /\ srv' = IF "1" \in srv.flags THEN NoTest ELSE iperf_reset_test(srv)
      /\ fresh' = FALSE /\ Idle /\ call' = call
      /\ pc \in {"running", "waiting"}
  BY DEF EndTest
<1>2. srv \in Test
  BY <1>1 DEF SettingsInv, TypeOK, Roles
<1>3. CASE "1" \in srv.flags
  <2>1. srv' = NoTest
    BY <1>1, <1>3
  <2> QED
    BY <1>1, <2>1, IdleStep DEF ServerReady
<1>4. CASE "1" \notin srv.flags
  <2> DEFINE val == [f \in NumField |-> IF f \in ResetFields THEN DefaultVal[f] ELSE srv.val[f]]
  <2>1. val \in [NumField -> Int]
    BY <1>2, Defaults DEF Test
  <2>2. \A f \in ClientFields : val[f] = 0 \/ f \in Sticky
    <3>1. \A f \in ClientFields : f \in NumField /\ (f \in ResetFields \/ f \in Sticky)
      BY DEF ClientFields, NumField, ResetFields, Sticky
    <3> QED
      BY <3>1, Defaults
  <2>3. val["burst"] = 0
    <3>1. "burst" \in ClientFields /\ "burst" \notin Sticky
      BY DEF ClientFields, Sticky
    <3> HIDE DEF val
    <3> QED
      BY <2>2, <3>1
  <2>4. srv' = [srv EXCEPT !.role = "s", !.mode = "RECEIVER", !.retransmits = FALSE,
                           !.protocol = "tcp", !.reverse = FALSE, !.bidirectional = FALSE,
                           !.flags = srv.flags \ ResetFlags, !.val = val]
    BY <1>1, <1>2, <1>4 DEF iperf_reset_test
  <2> HIDE DEF val
  <2>5. /\ srv' \in Test
        /\ srv'.role = "s" /\ srv'.mode = "RECEIVER" /\ srv'.protocol = "tcp"
        /\ ~srv'.reverse /\ ~srv'.bidirectional
        /\ srv'.flags = srv.flags \ ResetFlags /\ srv'.val = val
    BY <1>2, <2>1, <2>4 DEF Test
  <2>6. "N" \notin srv'.flags
    BY <2>5 DEF ResetFlags
  <2>7. ServerReady'
    BY <1>1, <2>2, <2>5, <2>6 DEF ServerReady
  <2>8. srv'.val["burst"] \in Nat
    BY <2>3, <2>5
  <2>9. srv' \in Test \cup {NoTest} /\ fresh' \in BOOLEAN
    BY <1>1, <2>5
  <2> HIDE <2>4, <2>5
  <2> QED
    BY <1>1, <2>7, <2>8, <2>9, IdleStep
<1> QED
  BY <1>3, <1>4

-----------------------------------------------------------------------------
(* iperf_send *)

\* A step of iperf_send leaves the settings alone.
LEMMA SendStep ==
    ASSUME SettingsInv, UNCHANGED <<pc, line, args, loc, cli, err, srv, fresh>>,
           Rounds'
    PROVE  SettingsInv'
<1>1. call'.who \in {"none", "c", "s"} /\ call'.ms \in Nat /\ call'.i \in Nat
  <2>1. CASE call' = NoCall
    BY <2>1 DEF NoCall
  <2>2. CASE call' # NoCall
    <3>1. call' \in Calls
      BY <2>2, Zenon DEF Rounds
    <3> QED
      BY <3>1 DEF Calls
  <2> QED
    BY <2>1, <2>2
<1>2. TypeOK'
  BY <1>1 DEF SettingsInv, TypeOK
<1>3. Directed' /\ ClientOnly' /\ Bursts' /\ Roles'
  BY DEF SettingsInv, Directed, ModeOf, ClientOnly, Bursts, Roles
<1>4. BlockChosen' /\ BlockUsable' /\ ServerReady'
  BY DEF SettingsInv, BlockChosen, BlockUsable, ServerReady
<1>5. SettingsAgree'
  <2>1. SettingsAgree
    BY DEF SettingsInv
  <2>2. CASE pc = "running"
    BY <2>1, <2>2, AgreeMeans, AgreeIfNext
  <2>3. CASE pc # "running"
    BY <2>3, NotRunning
  <2> QED
    BY <2>2, <2>3
<1> QED
  BY <1>2, <1>3, <1>4, <1>5 DEF SettingsInv

\* A call of iperf_send begins.
LEMMA EnterRounds ==
    ASSUME SettingsInv, NEW who \in {"c", "s"}, EnterSend(who)
    PROVE  Rounds'
<1> DEFINE t == Side(who)
           n == t.val["num_streams"]
           sent == [s \in 1..n |-> 0]
<1>1. /\ pc = "running"
      /\ call' = [who |-> who, ms |-> MultiSend(t), i |-> 1, sent |-> sent,
                  reached |-> FALSE, soft |-> FALSE]
  BY DEF EnterSend
<1>2. cli \in Test /\ srv \in Test /\ cli.val["burst"] \in Nat /\ srv.val["burst"] \in Nat
  BY <1>1 DEF SettingsInv, TypeOK, Roles, Bursts
<1>3. MultiSend(t) \in Nat /\ MultiSend(t) # 0
  <2>1. t.val["burst"] \in Nat
    BY <1>2 DEF Side
  <2>2. MULTISEND \in Nat \ {0}
    BY OptionsAssumption
  <2> HIDE DEF t
  <2> QED
    BY <2>1, <2>2 DEF MultiSend
<1>4. n \in Nat
  <2>1. cli.val["num_streams"] \in Nat
    BY <1>1, <1>2 DEF SettingsInv, Roles, Test, NumField
  <2>2. srv.val["num_streams"] = cli.val["num_streams"]
    <3>1. \A f \in AlwaysSent \cup SentIfSet :
               \/ srv.val[f] = cli.val[f]
               \/ f \in Sticky /\ ~fresh /\ cli.val[f] = 0
               \/ f = "pacing_timer" /\ cli.val[f] = 0
      BY <1>1, Zenon DEF SettingsInv, SettingsAgree
    <3>2. /\ "num_streams" \in AlwaysSent /\ "num_streams" \notin Sticky
          /\ "num_streams" # "pacing_timer"
      BY DEF AlwaysSent, Sticky
    <3> QED
      BY <3>1, <3>2
  <2> QED
    BY <2>1, <2>2 DEF Side
<1>5. sent \in Seq(Nat)
  <2> HIDE DEF n
  <2>1. \A s \in 1..n : 0 \in Nat
    OBVIOUS
  <2> QED
    BY <1>4, <2>1, IsASeq
<1> HIDE DEF t, n, sent
<1>6. /\ call' \in Calls /\ call'.ms # 0 /\ call'.i = 1 /\ DOMAIN call'.sent \subseteq Nat \ {0}
  BY <1>1, <1>3, <1>5 DEF Calls
<1> QED
  BY <1>6 DEF Rounds, Calls

\* One element of a sequence of numbers grows.
LEMMA OneMore ==
    ASSUME NEW q \in Seq(Nat), NEW j \in Nat
    PROVE  LET r == [q EXCEPT ![j] = @ + 1]
           IN  /\ r \in Seq(Nat)
               /\ DOMAIN r = DOMAIN q
               /\ \A s \in DOMAIN r : r[s] \in Nat /\ q[s] \in Nat
               /\ \A s \in DOMAIN r : s # j => r[s] = q[s]
               /\ j \in DOMAIN r => r[j] > 0
<1> DEFINE r == [q EXCEPT ![j] = @ + 1]
<1>1. /\ DOMAIN r = 1..Len(q) /\ DOMAIN q = 1..Len(q) /\ Len(q) \in Nat
      /\ \A s \in 1..Len(q) : q[s] \in Nat
  OBVIOUS
<1>2. \A s \in 1..Len(q) : r[s] = IF s = j THEN q[j] + 1 ELSE q[s]
  OBVIOUS
<1>3. r = [s \in 1..Len(q) |-> r[s]]
  BY <1>1
<1> HIDE DEF r
<1>4. \A s \in 1..Len(q) : r[s] \in Nat
  BY <1>1, <1>2
<1>5. [s \in 1..Len(q) |-> r[s]] \in Seq(Nat)
  BY <1>1, <1>4, IsASeq
<1>6. r \in Seq(Nat)
  BY <1>3, <1>5
<1>7. j \in 1..Len(q) => r[j] > 0
  BY <1>1, <1>2
<1> QED
  BY <1>1, <1>2, <1>4, <1>6, <1>7 DEF r

\* iperf_send works through its rounds.
LEMMA SendRounds ==
    ASSUME Rounds, SendBlock
    PROVE  Rounds'
<1>1. call \in Calls /\ call # NoCall /\ call.ms > 0 /\ call.i <= Len(call.sent)
  BY DEF SendBlock, Rounds
<1>2. PICK reached \in LimitReached :
        call' = [call EXCEPT !.sent[call.i] = @ + 1,
                             !.reached = reached,
                             !.i = IF reached /\ call.ms > 1 THEN Len(call.sent) + 1 ELSE @ + 1]
  BY DEF SendBlock
<1>3. reached \in BOOLEAN
  BY <1>1 DEF LimitReached, Calls
<1> DEFINE sent == [call.sent EXCEPT ![call.i] = @ + 1]
           i == IF reached /\ call.ms > 1 THEN Len(call.sent) + 1 ELSE call.i + 1
<1>4. /\ call.sent \in Seq(Nat) /\ call.i \in Nat /\ call.ms \in Nat /\ call.soft \in BOOLEAN
      /\ Len(call.sent) \in Nat /\ DOMAIN call.sent = 1..Len(call.sent)
  BY <1>1 DEF Calls
<1>5. i \in Nat /\ (call.ms = 1 => i = call.i + 1)
  BY <1>3, <1>4
<1>6. /\ sent \in Seq(Nat)
      /\ DOMAIN sent = DOMAIN call.sent
      /\ \A s \in DOMAIN sent : sent[s] \in Nat /\ call.sent[s] \in Nat
      /\ \A s \in DOMAIN sent : s # call.i => sent[s] = call.sent[s]
      /\ call.i \in DOMAIN sent => sent[call.i] > 0
  <2>1. call.sent \in Seq(Nat) /\ call.i \in Nat
    BY <1>4
  <2> QED
    BY <2>1, OneMore
<1>7. call' = [call EXCEPT !.sent = sent, !.reached = reached, !.i = i]
  BY <1>1, <1>2 DEF Calls
<1> HIDE DEF sent, i
<1>8. /\ call' \in Calls /\ call'.ms = call.ms /\ call'.soft = call.soft
      /\ call'.i = i /\ call'.sent = sent
  BY <1>1, <1>3, <1>5, <1>6, <1>7 DEF Calls
<1>9. ASSUME ~call'.soft, call'.ms = 1, NEW s \in DOMAIN call'.sent, s < call'.i
      PROVE  call'.sent[s] > 0
  <2>1. s \in DOMAIN call.sent /\ s \in Nat /\ s < call.i + 1
    BY <1>4, <1>5, <1>6, <1>8, <1>9
  <2>2. CASE s = call.i
    BY <1>6, <1>8, <2>1, <2>2
  <2>3. CASE s # call.i
    <3>1. s < call.i
      BY <1>4, <2>1, <2>3
    <3>2. call.sent[s] > 0
      BY <1>1, <1>8, <1>9, <2>1, <3>1 DEF Rounds
    <3> QED
      BY <1>6, <1>8, <2>1, <2>3, <3>2
  <2> QED
    BY <2>2, <2>3
<1>10. call'.ms # 0
  BY <1>1, <1>4, <1>8
<1> QED
  BY <1>8, <1>9, <1>10 DEF Rounds

\* A full socket.
LEMMA SoftRounds ==
    ASSUME Rounds, SoftError
    PROVE  Rounds'
<1>1. call \in Calls
  BY DEF SoftError, Rounds
<1>2. Len(call.sent) + 1 \in Nat /\ (IF call.i = 1 THEN 1 ELSE call.ms) \in Nat
  BY <1>1 DEF Calls
<1>3. call' = [call EXCEPT !.soft = TRUE,
                           !.i = Len(call.sent) + 1,
                           !.ms = IF call.i = 1 THEN 1 ELSE call.ms]
  BY <1>1 DEF SoftError, Calls
<1>4. call' \in Calls /\ call'.soft = TRUE
  BY <1>1, <1>2, <1>3 DEF Calls
<1> QED
  BY <1>4 DEF Rounds

\* A round ends.
LEMMA NextRounds ==
    ASSUME Rounds, NextRound
    PROVE  Rounds'
<1>1. call \in Calls /\ call # NoCall /\ call.ms > 0 /\ call.i > Len(call.sent)
  BY DEF NextRound, Rounds
<1> DEFINE ms == IF call.sent = <<>> THEN 0 ELSE call.ms - 1
<1>2. call' = [call EXCEPT !.ms = ms, !.i = 1]
  BY <1>1 DEF NextRound, Calls
<1>3. /\ call.sent \in Seq(Nat) /\ call.i \in Nat /\ call.ms \in Nat /\ call.soft \in BOOLEAN
      /\ Len(call.sent) \in Nat /\ DOMAIN call.sent = 1..Len(call.sent)
  BY <1>1 DEF Calls
<1>4. ms \in Nat /\ (ms = 0 => call.sent = <<>> \/ call.ms = 1)
  BY <1>1, <1>3
<1> HIDE DEF ms
<1>5. /\ call' \in Calls /\ call'.ms = ms /\ call'.soft = call.soft
      /\ call'.i = 1 /\ call'.sent = call.sent
  BY <1>1, <1>2, <1>4 DEF Calls
<1>6. ASSUME ~call'.soft, call'.ms = 1, NEW s \in DOMAIN call'.sent, s < call'.i
      PROVE  call'.sent[s] > 0
  BY <1>3, <1>5, <1>6
<1>7. ASSUME ~call'.soft, call'.ms = 0, NEW s \in DOMAIN call'.sent
      PROVE  call'.sent[s] > 0
  <2>1. s \in 1..Len(call.sent)
    BY <1>3, <1>5, <1>7
  <2>2. s < call.i
    BY <1>1, <1>3, <2>1
  <2>3. call.sent # <<>>
    BY <2>1
  <2>4. call.ms = 1
    BY <1>4, <1>5, <1>7, <2>3
  <2> QED
    BY <1>1, <1>3, <1>5, <1>7, <2>1, <2>2, <2>4 DEF Rounds
<1> QED
  BY <1>5, <1>6, <1>7 DEF Rounds

-----------------------------------------------------------------------------
(* The invariant. *)

\* The steps of iperf_send keep the settings and the rounds.
LEMMA SendSettings ==
    ASSUME SettingsInv, Rounds,
           \/ \E who \in {"c", "s"} : EnterSend(who)
           \/ SendBlock \/ SoftError \/ NextRound \/ LeaveSend
    PROVE  SettingsInv' /\ Rounds'
<1>1. UNCHANGED <<pc, line, args, loc, cli, err, srv, fresh>>
  BY DEF EnterSend, SendBlock, SoftError, NextRound, LeaveSend
<1>2. CASE \E who \in {"c", "s"} : EnterSend(who)
  BY <1>1, <1>2, EnterRounds, SendStep
<1>3. CASE SendBlock
  BY <1>1, <1>3, SendRounds, SendStep
<1>4. CASE SoftError
  BY <1>1, <1>4, SoftRounds, SendStep
<1>5. CASE NextRound
  BY <1>1, <1>5, NextRounds, SendStep
<1>6. CASE LeaveSend
  <2>1. Rounds'
    BY <1>6 DEF LeaveSend, Rounds
  <2> QED
    BY <1>1, <2>1, SendStep
<1> QED
  BY <1>2, <1>3, <1>4, <1>5, <1>6

\* Every step keeps the settings.
LEMMA SettingsStep ==
    ASSUME SettingsInv, Rounds,
           \/ \E l \in Lines : main(l)
           \/ \E a \in args : ParseOption(a)
           \/ iperf_parse_arguments \/ StartServer \/ Exit \/ iperf_connect
           \/ iperf_exchange_parameters \/ EndTest
    PROVE  SettingsInv' /\ Rounds'
<1>1. SettingsInv'
  BY MainSettings, ParseSettings, ParsedSettings, StartServerSettings, ExitSettings,
     ConnectSettings, ExchangeSettings, EndTestSettings
<1>2. ASSUME NEW a \in args, ParseOption(a)
      PROVE  UNCHANGED call
  BY <1>2 DEF ParseOption, ParseRanged, ParseSized, ParseLength, ParseWindow, ParseBitrate,
              ParseRole, ParseUdp, ParseDirection, ParseFlag, ParseStop, Takes
<1>3. UNCHANGED call
  BY <1>2 DEF main, iperf_parse_arguments, StartServer, Exit, iperf_connect,
              iperf_exchange_parameters, EndTest
<1> QED
  BY <1>1, <1>3 DEF Rounds

\* The invariants are kept by every step.
LEMMA NextSettings == SettingsInv /\ Rounds /\ [Next]_vars => SettingsInv' /\ Rounds'
<1> SUFFICES ASSUME SettingsInv, Rounds, [Next]_vars
             PROVE  SettingsInv' /\ Rounds'
  OBVIOUS
<1>1. CASE Next
  BY <1>1, SettingsStep, SendSettings DEF Next
<1>2. CASE UNCHANGED vars
  <2>1. UNCHANGED <<pc, line, args, loc, cli, err, srv, fresh>> /\ call' = call
    BY <1>2 DEF vars
  <2>2. Rounds'
    BY <2>1 DEF Rounds
  <2> QED
    BY <2>1, <2>2, SendStep
<1> QED
  BY <1>1, <1>2

\* The invariants always hold.
LEMMA SettingsAlways == Spec => [](SettingsInv /\ Rounds)
BY InitSettings, NextSettings, PTL DEF Spec

\* The settings are always complete: whatever the arguments, their order and
\* the tests before, every struct iperf_test that iperf_parse_arguments,
\* get_parameters and iperf_reset_test make has all its fields.
THEOREM OptionsTyped == Spec => []TypeOK
<1>1. SettingsInv => TypeOK
  BY DEF SettingsInv
<1> QED
  BY <1>1, SettingsAlways, PTL

\* A test that connects has a block size its protocol can use, for every
\* length on the command line and every MSS the control connection reports:
\* the checks behind getopt's loop and the fallback in iperf_connect leave
\* only a UDP length that is negative as an int.
THEOREM BlockIsUsable == Spec => []BlockUsable
<1>1. SettingsInv => BlockUsable
  BY DEF SettingsInv
<1> QED
  BY <1>1, SettingsAlways, PTL

\* Client and server run the same test, for every sequence of command lines
\* served by one server: iperf_reset_test puts back all that send_parameters
\* may leave out, except the byte and block limits.
THEOREM SidesAgree == Spec => []SettingsAgree
<1>1. SettingsInv => SettingsAgree
  BY DEF SettingsInv
<1> QED
  BY <1>1, SettingsAlways, PTL

\* A call of iperf_send that meets no full socket sends on every stream, for
\* every number of streams, burst and multisend.
THEOREM NoStreamStarves == Spec => []EveryStreamSends
<1>1. Rounds => EveryStreamSends
  BY DEF Rounds, EveryStreamSends
<1> QED
  BY <1>1, SettingsAlways, PTL

-----------------------------------------------------------------------------
(* The order of the arguments. *)

\* No option is given twice, and lengths in K and M fit an int.
OrdinaryLines ==
    \A l \in Lines :
        /\ \A a, b \in l : a.o = b.o => a = b
        /\ \A a \in l : (a.o = "l" /\ a.n # NoNumber /\ a.k \in {1, 2}) =>
               -(2 ^ (31 - 10 * a.k)) <= a.n /\ a.n < 2 ^ (31 - 10 * a.k)

\* The lines that OrderIrrelevant is about.
Covered == \A a \in line : a.n # NoNumber /\ ~(a.o = "l" /\ a.k >= 3)

Size(a) == a.n * 1024 ^ a.k
Rate(a) == a.n * 1000 ^ a.k

\* The arguments getopt has returned, and their options.
Read == line \ args
Seen == {a.o : a \in Read}

\* The role, the direction, the protocol and the flags tell which options have
\* been read.
OptionsTold ==
    /\ cli.role = "c" <=> "c" \in Seen
    /\ cli.role = "s" <=> "s" \in Seen
    /\ cli.reverse <=> "R" \in Seen
    /\ cli.bidirectional <=> "bidir" \in Seen
    /\ cli.protocol = "udp" <=> "u" \in Seen
    /\ loc.server <=> Seen \cap ServerFlags # {}
    /\ loc.client <=> Seen \cap ClientOptions # {}
    /\ loc.rate <=> "b" \in Seen
    /\ loc.duration <=> "t" \in Seen

\* The settings are the numbers that have been read.
NumbersTold ==
    /\ "l" \notin Seen => loc.blksize = 0
    /\ "n" \notin Seen => cli.val["bytes"] = 0
    /\ "k" \notin Seen => cli.val["blocks"] = 0
    /\ "t" \notin Seen => cli.val["duration"] = 10
    /\ \A a \in Read : /\ a.o = "l" => loc.blksize = Size(a)
                       /\ a.o = "n" => cli.val["bytes"] = Size(a)
                       /\ a.o = "k" => cli.val["blocks"] = Size(a)
                       /\ a.o = "t" => cli.val["duration"] = a.n
                       /\ a.o = "b" => cli.val["rate"] = Rate(a)

\* A client counts retransmissions where it sends over TCP; a process that
\* has been told nothing of a client's does not.
RetransmitsTold ==
    /\ cli.role = "c" => (cli.retransmits <=> ~cli.reverse /\ cli.protocol = "tcp")
    /\ cli.role # "c" /\ ~loc.client => ~cli.retransmits

\* An argument that is refused by itself.
Refused(a) ==
    \/ a.o \in Unimplemented \cup Exits
    \/ \E r \in Ranged : r.o = a.o /\ ~InRange(r, a.n)
    \/ a.o = "b" /\ a.burst \notin {-1} \cup 1..MAX_BURST
    \/ a.o = "w" /\ ExceedsBuffer(a)

OrderInv ==
    /\ pc = "parse" /\ Covered =>
           OptionsTold /\ NumbersTold /\ RetransmitsTold /\ \A a \in Read : ~Refused(a)
    /\ OrderIrrelevant

\* The options of a client one by one.
LEMMA ClientOptionsAre ==
    ClientOptions = {"N", "Z", "T", "extra-data", "repeating-payload", "get-server-output",
                     "n", "k", "pacing_timer", "connect_timeout",
                     "t", "P", "M", "S", "dscp", "O", "u", "b", "l", "w", "R", "bidir"}
<1>1. {r.o : r \in {x \in Ranged : x.side = "client"}} = {"t", "P", "M", "S", "dscp", "O"}
  <2>1. ASSUME NEW r \in Ranged, r.side = "client"
        PROVE  r.o \in {"t", "P", "M", "S", "dscp", "O"}
    BY <2>1 DEF Ranged, Ranged_
  <2>2. ASSUME NEW o \in {"t", "P", "M", "S", "dscp", "O"}
        PROVE  \E r \in Ranged : r.side = "client" /\ r.o = o
    BY DEF Ranged, Ranged_
  <2> QED
    BY <2>1, <2>2
<1>2. DOMAIN Sized = {"n", "k", "pacing_timer", "connect_timeout"}
  BY DEF Sized
<1> QED
  BY <1>1, <1>2 DEF ClientOptions, ClientFlags

\* The options with a range.
LEMMA RangedOptions ==
    ASSUME NEW r \in Ranged
    PROVE  /\ r.o \in {"p", "cport", "f", "i", "t", "P", "M", "S", "dscp", "O", "4", "6"}
           /\ r.o \in ClientOptions <=> r.side = "client"
           /\ r.field = "duration" <=> r.o = "t"
           /\ r.field \notin {"bytes", "blocks", "rate", "blksize"}
<1>1. /\ r.o \in {"p", "cport", "f", "i", "t", "P", "M", "S", "dscp", "O", "4", "6"}
      /\ r.side = "client" <=> r.o \in {"t", "P", "M", "S", "dscp", "O"}
  BY DEF Ranged, Ranged_
<1>2. r.field = "duration" <=> r.o = "t"
  BY DEF Ranged, Ranged_
<1>3. r.field \notin {"bytes", "blocks", "rate", "blksize"}
  BY DEF Ranged, Ranged_
<1> QED
  BY <1>1, <1>2, <1>3, ClientOptionsAre

\* A size is 0 where its number is, and when it is larger than a block may be.
LEMMA Sizes ==
    ASSUME NEW a, a.n \in Int, a.k \in 0..4
    PROVE  /\ Size(a) \in Int /\ Rate(a) \in Int
           /\ Size(a) = 0 <=> a.n = 0
           /\ a.k <= 2 => /\ Size(a) > 0 <=> a.n > 0
                          /\ Size(a) < 0 <=> a.n < 0
                          /\ Size(a) > MAX_BLOCKSIZE <=> a.n > 2 ^ (20 - 10 * a.k)
<1>1. a.k = 0 \/ a.k = 1 \/ a.k = 2 \/ a.k = 3 \/ a.k = 4
  OBVIOUS
<1>2. 1024 ^ 0 = 1 /\ 1024 ^ 1 = 1024 /\ 1024 ^ 2 = 1048576
  BY SMT
<1>3. 1024 ^ 3 # 0 /\ 1024 ^ 4 # 0
  BY SMT
<1>4. 1024 ^ a.k \in Int /\ 1024 ^ a.k # 0
  <2> DEFINE b == 1024
  <2>1. b ^ a.k \in Int
    BY SMT
  <2>2. b ^ 0 # 0 /\ b ^ 1 # 0 /\ b ^ 2 # 0 /\ b ^ 3 # 0 /\ b ^ 4 # 0
    BY <1>2, <1>3, SMT
  <2> HIDE DEF b
  <2>3. b ^ a.k # 0
    BY <1>1, <2>2, Zenon
  <2> QED
    BY <2>1, <2>3, SMT DEF b
<1>5. Size(a) \in Int /\ Rate(a) \in Int
  BY SMT DEF Size, Rate
<1>6. Size(a) = 0 <=> a.n = 0
  <2> DEFINE e == 1024 ^ a.k
  <2>1. Size(a) = a.n * e
    BY DEF Size
  <2>2. e \in Int /\ e # 0
    BY <1>4
  <2> HIDE DEF e
  <2> QED
    BY <2>1, <2>2, SMT
<1>7. MAX_BLOCKSIZE = 1048576 /\ 2 ^ 20 = 1048576 /\ 2 ^ 10 = 1024 /\ 2 ^ 0 = 1
  BY SMT DEF MAX_BLOCKSIZE
<1>8. a.k <= 2 => /\ Size(a) > 0 <=> a.n > 0
                  /\ Size(a) < 0 <=> a.n < 0
                  /\ Size(a) > MAX_BLOCKSIZE <=> a.n > 2 ^ (20 - 10 * a.k)
  <2>1. CASE a.k = 0
    <3>1. 20 - 10 * a.k = 20
      BY <2>1, SMT
    <3>2. 2 ^ (20 - 10 * a.k) = 2 ^ 20
      BY <3>1, Zenon
    <3>3. Size(a) = a.n
      BY <1>2, <2>1, SMT DEF Size
    <3> QED
      BY <1>7, <3>2, <3>3, SMT
  <2>2. CASE a.k = 1
    <3>1. 20 - 10 * a.k = 10
      BY <2>2, SMT
    <3>2. 2 ^ (20 - 10 * a.k) = 2 ^ 10
      BY <3>1, Zenon
    <3>3. Size(a) = a.n * 1024
      BY <1>2, <2>2, SMT DEF Size
    <3> QED
      BY <1>7, <3>2, <3>3, SMT
  <2>3. CASE a.k = 2
    <3>1. 20 - 10 * a.k = 0
      BY <2>3, SMT
    <3>2. 2 ^ (20 - 10 * a.k) = 2 ^ 0
      BY <3>1, Zenon
    <3>3. Size(a) = a.n * 1048576
      BY <1>2, <2>3, SMT DEF Size
    <3> QED
      BY <1>7, <3>2, <3>3, SMT
  <2> QED
    BY <1>1, <2>1, <2>2, <2>3, SMT
<1> QED
  BY <1>5, <1>6, <1>8, SMT

\* A length that fits an int stays what it is.
LEMMA LengthFits ==
    ASSUME NEW a, a.n \in Int, a.k \in 0..2,
           a.k \in {1, 2} => -(2 ^ (31 - 10 * a.k)) <= a.n /\ a.n < 2 ^ (31 - 10 * a.k)
    PROVE  LowInt(a) = {Size(a)}
<1>1. a.n # NoNumber /\ a.k # 4
  BY OptionsAssumption
<1>2. CASE a.k = 0
  <2>1. LowInt(a) = {a.n}
    BY <1>1, <1>2, Zenon DEF LowInt
  <2>2. 1024 ^ 0 = 1
    OBVIOUS
  <2>3. Size(a) = a.n
    BY <1>2, <2>2 DEF Size
  <2> QED
    BY <2>1, <2>3
<1>3. CASE a.k \in {1, 2}
  <2> DEFINE high == 2 ^ (31 - 10 * a.k)
             r == a.n % (2 * high)
             y == IF r < high THEN r ELSE r - 2 * high
  <2>1. a.k # 0
    BY <1>3
  <2>2. LowInt(a) = {y * 1024 ^ a.k}
    BY <1>1, <2>1 DEF LowInt
  <2>3. 2 ^ 21 = 2097152 /\ 2 ^ 11 = 2048
    BY SMT
  <2>4. high \in {2097152, 2048} /\ -high <= a.n /\ a.n < high
    <3>1. CASE a.k = 1
      <4>1. 31 - 10 * a.k = 21
        BY <3>1
      <4>2. high = 2 ^ 21
        BY <4>1, Zenon
      <4>3. -high <= a.n /\ a.n < high
        BY <1>3, Zenon
      <4> HIDE DEF high
      <4> QED
        BY <2>3, <4>2, <4>3, SMT
    <3>2. CASE a.k = 2
      <4>1. 31 - 10 * a.k = 11
        BY <3>2
      <4>2. high = 2 ^ 11
        BY <4>1, Zenon
      <4>3. -high <= a.n /\ a.n < high
        BY <1>3, Zenon
      <4> HIDE DEF high
      <4> QED
        BY <2>3, <4>2, <4>3, SMT
    <3> QED
      BY <1>3, <3>1, <3>2, SMT
  <2> HIDE DEF high
  <2>5. y = a.n
    <3>1. CASE high = 2097152
      BY <2>4, <3>1, SMT
    <3>2. CASE high = 2048
      BY <2>4, <3>2, SMT
    <3> QED
      BY <2>4, <3>1, <3>2, SMT
  <2> HIDE DEF y
  <2>6. LowInt(a) = {a.n * 1024 ^ a.k}
    BY <2>2, <2>5
  <2> QED
    BY <2>6, Zenon DEF Size
<1> QED
  BY <1>2, <1>3

\* One more argument has been read, and no other of its option.
LEMMA ReadStep ==
    ASSUME OrdinaryLines, SettingsInv, NEW a \in args, pc = "parse", args' = args \ {a}, line' = line
    PROVE  /\ a \in line /\ Read' = Read \cup {a} /\ Seen' = Seen \cup {a.o}
           /\ a.o \notin Seen /\ \A b \in Read : b.o # a.o
           /\ Covered' = Covered /\ RefusedLine' = RefusedLine
           /\ Covered => a.n # NoNumber /\ a.n \in Int /\ a.k \in 0..4
           /\ Covered /\ a.o = "l" => LowInt(a) = {Size(a)}
<1>1. a \in line /\ args \subseteq line /\ line \in Lines /\ a \in Argument
  <2>1. a \in line /\ args \subseteq line /\ line \in Lines \cup {{}}
    BY DEF SettingsInv, TypeOK
  <2> QED
    BY <2>1, Reading
<1>2. Read' = Read \cup {a} /\ a \notin Read
  BY <1>1 DEF Read
<1>3. Seen' = Seen \cup {a.o}
  BY <1>2 DEF Seen
<1>4. \A b \in Read : b.o # a.o
  BY <1>1, <1>2 DEF OrdinaryLines, Read
<1>5. a.o \notin Seen
  BY <1>4 DEF Seen
<1>6. Covered' = Covered /\ RefusedLine' = RefusedLine
  BY DEF Covered, RefusedLine, Has
<1>7. Covered => a.n # NoNumber /\ a.n \in Int /\ a.k \in 0..4
  BY <1>1 DEF Covered, Argument
<1>8. ASSUME Covered, a.o = "l"
      PROVE  LowInt(a) = {Size(a)}
  <2>1. a.n \in Int /\ a.k \in 0..2 /\ a.n # NoNumber
    BY <1>1, <1>7, <1>8 DEF Covered
  <2>2. a.k \in {1, 2} => -(2 ^ (31 - 10 * a.k)) <= a.n /\ a.n < 2 ^ (31 - 10 * a.k)
    BY <1>1, <1>8, <2>1 DEF OrdinaryLines
  <2> QED
    BY <2>1, <2>2, LengthFits
<1> QED
  BY <1>1, <1>2, <1>3, <1>4, <1>5, <1>6, <1>7, <1>8

\* A step that reads the argument a and goes on: the role, the direction, the
\* protocol, the flags and the numbers.
ReadsOption(a) ==
    /\ pc = "parse" /\ pc' = "parse" /\ args' = args \ {a} /\ line' = line
    /\ a.o \in {"c", "s"} => cli.role \in {"none", a.o}
    /\ cli'.role = IF a.o \in {"c", "s"} THEN a.o ELSE cli.role
    /\ cli'.reverse <=> cli.reverse \/ a.o = "R"
    /\ cli'.bidirectional <=> cli.bidirectional \/ a.o = "bidir"
    /\ cli'.protocol = IF a.o = "u" THEN "udp" ELSE cli.protocol
    /\ loc'.server <=> loc.server \/ a.o \in ServerFlags
    /\ loc'.client <=> loc.client \/ a.o \in ClientOptions
    /\ loc'.rate <=> loc.rate \/ a.o = "b"
    /\ loc'.duration <=> loc.duration \/ a.o = "t"

ReadsNumber(a) ==
    /\ loc'.blksize = IF a.o = "l" THEN Size(a) ELSE loc.blksize
    /\ cli'.val["bytes"] = IF a.o = "n" THEN Size(a) ELSE cli.val["bytes"]
    /\ cli'.val["blocks"] = IF a.o = "k" THEN Size(a) ELSE cli.val["blocks"]
    /\ cli'.val["duration"] = IF a.o = "t" THEN a.n ELSE cli.val["duration"]
    /\ cli'.val["rate"] = IF a.o = "b" THEN Rate(a) ELSE cli.val["rate"]

\* One more argument is told by the settings.
LEMMA OrderStep ==
    ASSUME OrdinaryLines, SettingsInv, OrderInv, Covered, NEW a \in args,
           ReadsOption(a), ReadsNumber(a), RetransmitsTold', ~Refused(a)
    PROVE  OrderInv'
<1>1. pc = "parse" /\ pc' = "parse" /\ args' = args \ {a} /\ line' = line
  BY DEF ReadsOption
<1>2. /\ Read' = Read \cup {a} /\ Seen' = Seen \cup {a.o}
      /\ a.o \notin Seen /\ \A b \in Read : b.o # a.o
  BY <1>1, ReadStep
<1>3. OptionsTold /\ NumbersTold /\ \A b \in Read : ~Refused(b)
  BY <1>1 DEF OrderInv
<1>4. OptionsTold'
  <2>1. /\ cli'.role = "c" <=> "c" \in Seen'
        /\ cli'.role = "s" <=> "s" \in Seen'
    BY <1>2, <1>3 DEF OptionsTold, ReadsOption
  <2>2. /\ cli'.reverse <=> "R" \in Seen'
        /\ cli'.bidirectional <=> "bidir" \in Seen'
        /\ cli'.protocol = "udp" <=> "u" \in Seen'
        /\ loc'.rate <=> "b" \in Seen'
        /\ loc'.duration <=> "t" \in Seen'
    BY <1>2, <1>3 DEF OptionsTold, ReadsOption
  <2>3. /\ loc'.server <=> Seen' \cap ServerFlags # {}
        /\ loc'.client <=> Seen' \cap ClientOptions # {}
    <3>1. /\ Seen' \cap ServerFlags # {} <=> Seen \cap ServerFlags # {} \/ a.o \in ServerFlags
          /\ Seen' \cap ClientOptions # {} <=> Seen \cap ClientOptions # {} \/ a.o \in ClientOptions
      BY <1>2, Zenon
    <3> QED
      BY <1>3, <3>1, Zenon DEF OptionsTold, ReadsOption
  <2> QED
    BY <2>1, <2>2, <2>3, Zenon DEF OptionsTold
<1>5. NumbersTold'
  <2>1. /\ "l" \notin Seen' => loc'.blksize = 0
        /\ "n" \notin Seen' => cli'.val["bytes"] = 0
        /\ "k" \notin Seen' => cli'.val["blocks"] = 0
        /\ "t" \notin Seen' => cli'.val["duration"] = 10
    BY <1>2, <1>3 DEF NumbersTold, ReadsNumber
  <2>2. ASSUME NEW b \in Read'
        PROVE  /\ b.o = "l" => loc'.blksize = Size(b)
               /\ b.o = "n" => cli'.val["bytes"] = Size(b)
               /\ b.o = "k" => cli'.val["blocks"] = Size(b)
               /\ b.o = "t" => cli'.val["duration"] = b.n
               /\ b.o = "b" => cli'.val["rate"] = Rate(b)
    <3>1. CASE b = a
      BY <3>1 DEF ReadsNumber
    <3>2. CASE b \in Read
      BY <1>2, <1>3, <3>2 DEF NumbersTold, ReadsNumber
    <3> QED
      BY <1>2, <3>1, <3>2
  <2> QED
    BY <2>1, <2>2, Zenon DEF NumbersTold
<1>6. \A b \in Read' : ~Refused(b)
  BY <1>2, <1>3
<1>7. OrderIrrelevant'
  BY <1>1 DEF OrderIrrelevant
<1> QED
  BY <1>4, <1>5, <1>6, <1>7, Zenon DEF OrderInv

\* A line that is refused in this order is refused in every other.
LEMMA FailOrder ==
    ASSUME pc' = "failed", line' = line, RefusedLine
    PROVE  OrderInv'
<1>1. RefusedLine'
  BY DEF RefusedLine, Has
<1>2. OrderIrrelevant'
  BY <1>1 DEF OrderIrrelevant
<1> QED
  BY <1>2 DEF OrderInv

\* An argument that is refused by itself.
LEMMA RefusedAlone ==
    ASSUME NEW a \in line, Refused(a)
    PROVE  RefusedLine
BY Zenon DEF Refused, RefusedLine

\* The other arguments.
LEMMA NotRefused ==
    ASSUME NEW a, a.o \notin Unimplemented \cup Exits,
           a.o \notin {"p", "cport", "f", "i", "t", "P", "M", "S", "dscp", "O", "4", "6"},
           a.o = "b" => a.burst \in {-1} \cup 1..MAX_BURST,
           a.o = "w" => ~ExceedsBuffer(a)
    PROVE  ~Refused(a)
BY RangedOptions, Zenon DEF Refused

\* A step that changes neither the role nor the direction nor the protocol.
LEMMA SameRetransmits ==
    ASSUME RetransmitsTold, cli'.role = cli.role, cli'.reverse = cli.reverse,
           cli'.protocol = cli.protocol, cli'.retransmits = cli.retransmits,
           loc.client => loc'.client
    PROVE  RetransmitsTold'
BY DEF RetransmitsTold

\* What getopt's loop has when it reads the argument a.
LEMMA Told ==
    ASSUME OrdinaryLines, SettingsInv, OrderInv, Covered, NEW a \in args, pc = "parse"
    PROVE  /\ a \in line /\ a \in Argument /\ a.n # NoNumber /\ a.n \in Int
           /\ cli \in Test /\ loc \in Loc
           /\ {"bytes", "blocks", "duration", "rate", "burst", "socket_bufsize"} \subseteq NumField
           /\ OptionsTold /\ RetransmitsTold
<1>1. a \in line /\ a \in Argument /\ cli \in Test /\ loc \in Loc
  BY Reading DEF SettingsInv, TypeOK
<1>2. a.n # NoNumber /\ a.n \in Int
  BY <1>1 DEF Covered, Argument
<1>3. {"bytes", "blocks", "duration", "rate", "burst", "socket_bufsize"} \subseteq NumField
  BY DEF NumField
<1> QED
  BY <1>1, <1>2, <1>3 DEF OrderInv

\* A number goes into a field: nothing else changes.
LEMMA AssignOrder ==
    ASSUME OrdinaryLines, SettingsInv, OrderInv, Covered, NEW a \in args,
           pc = "parse", pc' = "parse", args' = args \ {a}, line' = line,
           NEW f \in NumField, NEW x \in Int, cli' = SetVal(cli, f, x),
           a.o \notin {"c", "s", "R", "bidir", "u", "l", "b"} \cup ServerFlags,
           f # "rate",
           f = "bytes" <=> a.o = "n", f = "blocks" <=> a.o = "k", f = "duration" <=> a.o = "t",
           a.o \in {"n", "k"} => x = Size(a), a.o = "t" => x = a.n,
           loc'.server = loc.server, loc'.rate = loc.rate, loc'.blksize = loc.blksize,
           loc'.client <=> loc.client \/ a.o \in ClientOptions,
           loc'.duration <=> loc.duration \/ a.o = "t",
           ~Refused(a)
    PROVE  OrderInv'
<1>1. /\ cli \in Test /\ RetransmitsTold
      /\ {"bytes", "blocks", "duration", "rate"} \subseteq NumField
  BY Told
<1>2. /\ cli'.val[f] = x
      /\ \A g \in NumField : g # f => cli'.val[g] = cli.val[g]
      /\ cli'.role = cli.role /\ cli'.reverse = cli.reverse
      /\ cli'.bidirectional = cli.bidirectional /\ cli'.protocol = cli.protocol
      /\ cli'.retransmits = cli.retransmits
  BY <1>1, SetValIs
<1>3. ReadsOption(a)
  BY <1>2 DEF ReadsOption
<1>4. ReadsNumber(a)
  <2>1. /\ cli'.val["bytes"] = IF a.o = "n" THEN Size(a) ELSE cli.val["bytes"]
        /\ cli'.val["blocks"] = IF a.o = "k" THEN Size(a) ELSE cli.val["blocks"]
        /\ cli'.val["duration"] = IF a.o = "t" THEN a.n ELSE cli.val["duration"]
        /\ cli'.val["rate"] = cli.val["rate"]
    BY <1>1, <1>2
  <2> QED
    BY <2>1 DEF ReadsNumber
<1>5. RetransmitsTold'
  BY <1>1, <1>2, SameRetransmits
<1> QED
  BY <1>3, <1>4, <1>5, OrderStep

\* There is one range for an option.
LEMMA OneRange ==
    ASSUME NEW r \in Ranged, NEW q \in Ranged, r.o = q.o
    PROVE  r = q
BY DEF Ranged, Ranged_

\* An option with a range.
LEMMA ParseRangedOrder ==
    ASSUME OrdinaryLines, SettingsInv, OrderInv, Covered, NEW a \in args, ParseRanged(a)
    PROVE  OrderInv'
<1>1. PICK r \in Ranged :
        /\ Takes(a, {r.o})
        /\ cli' = SetVal(cli, r.field, Number(r, a))
        /\ IF InRange(r, Number(r, a))
           THEN /\ Continue
                /\ loc' = [loc EXCEPT !.client = @ \/ r.side = "client",
                                      !.duration = @ \/ r.o = "t"]
           ELSE Fail(r.err) /\ UNCHANGED loc
  BY DEF ParseRanged
<1>2. pc = "parse" /\ args' = args \ {a} /\ line' = line /\ a.o = r.o
  BY <1>1 DEF Takes
<1>3. /\ a \in line /\ a.n # NoNumber /\ a.n \in Int /\ loc \in Loc
  BY <1>2, Told
<1>4. Number(r, a) = a.n
  BY <1>3 DEF Number
<1>5. CASE InRange(r, a.n)
  <2>1. /\ pc' = "parse"
        /\ loc' = [loc EXCEPT !.client = @ \/ r.side = "client", !.duration = @ \/ r.o = "t"]
    BY <1>1, <1>4, <1>5 DEF Continue
  <2>2. /\ loc'.server = loc.server /\ loc'.rate = loc.rate /\ loc'.blksize = loc.blksize
        /\ loc'.client = (loc.client \/ r.side = "client")
        /\ loc'.duration = (loc.duration \/ r.o = "t")
    BY <1>3, <2>1 DEF Loc
  <2>3. /\ a.o \in {"p", "cport", "f", "i", "t", "P", "M", "S", "dscp", "O", "4", "6"}
        /\ a.o \in ClientOptions <=> r.side = "client"
        /\ r.field = "duration" <=> a.o = "t"
        /\ r.field \notin {"bytes", "blocks", "rate", "blksize"}
    BY <1>2, RangedOptions
  <2>4. ~Refused(a)
    <3>1. a.o \notin Unimplemented \cup Exits /\ a.o \notin {"b", "w"}
      BY <2>3 DEF Unimplemented, Exits
    <3>2. \A q \in Ranged : q.o = a.o => InRange(q, a.n)
      BY <1>2, <1>5, OneRange, Zenon
    <3> QED
      BY <3>1, <3>2, Zenon DEF Refused
  <2>5. /\ a.o \notin {"c", "s", "R", "bidir", "u", "l", "b", "n", "k"} \cup ServerFlags
    BY <2>3 DEF ServerFlags
  <2>6. r.field \in NumField
    BY RangedFields
  <2> QED
    BY <1>1, <1>2, <1>3, <1>4, <2>1, <2>2, <2>3, <2>4, <2>5, <2>6, AssignOrder
<1>6. CASE ~InRange(r, a.n)
  <2>1. pc' = "failed"
    BY <1>1, <1>4, <1>6 DEF Fail
  <2>2. Refused(a)
    BY <1>2, <1>6 DEF Refused
  <2> QED
    BY <1>2, <1>3, <2>1, <2>2, RefusedAlone, FailOrder
<1> QED
  BY <1>5, <1>6

\* An option with a size.
LEMMA ParseSizedOrder ==
    ASSUME OrdinaryLines, SettingsInv, OrderInv, Covered, NEW a \in args, ParseSized(a)
    PROVE  OrderInv'
<1>1. /\ pc = "parse" /\ args' = args \ {a} /\ line' = line /\ pc' = "parse"
      /\ a.o \in {"n", "k", "pacing_timer", "connect_timeout"}
      /\ loc' = [loc EXCEPT !.client = TRUE]
  BY DEF ParseSized, Takes, Continue, Client, Sized
<1>2. a \in Argument /\ a.n # NoNumber /\ loc \in Loc
  BY <1>1, Told
<1>3. PICK x \in unit_atoi(a) : cli' = SetVal(cli, Sized[a.o], x)
  BY DEF ParseSized
<1>4. x = Size(a)
  BY <1>2, SMT DEF unit_atoi, unit_atof, Size
<1>5. x \in Int
  BY <1>2, Numbers
<1>6. /\ Sized["n"] = "bytes" /\ Sized["k"] = "blocks" /\ Sized["pacing_timer"] = "pacing_timer"
      /\ Sized["connect_timeout"] = "connect_timeout"
  BY DEF Sized
<1>7. /\ Sized[a.o] \in NumField /\ Sized[a.o] \notin {"rate", "duration"}
      /\ Sized[a.o] = "bytes" <=> a.o = "n"
      /\ Sized[a.o] = "blocks" <=> a.o = "k"
  BY <1>1, <1>6 DEF NumField
<1>8. /\ a.o \in ClientOptions
      /\ a.o \notin {"c", "s", "R", "bidir", "u", "l", "b", "t"} \cup ServerFlags
  BY <1>1, ClientOptionsAre DEF ServerFlags
<1>9. ~Refused(a)
  <2>1. /\ a.o \notin Unimplemented \cup Exits
        /\ a.o \notin {"p", "cport", "f", "i", "t", "P", "M", "S", "dscp", "O", "4", "6", "b", "w"}
    BY <1>1 DEF Unimplemented, Exits
  <2> QED
    BY <2>1, NotRefused
<1>10. /\ loc'.server = loc.server /\ loc'.rate = loc.rate /\ loc'.blksize = loc.blksize
       /\ loc'.client /\ loc'.duration = loc.duration
  BY <1>1, <1>2 DEF Loc
<1> QED
  BY <1>1, <1>3, <1>4, <1>5, <1>7, <1>8, <1>9, <1>10, AssignOrder

\* -w.
LEMMA ParseWindowOrder ==
    ASSUME OrdinaryLines, SettingsInv, OrderInv, Covered, NEW a \in args, ParseWindow(a)
    PROVE  OrderInv'
<1>1. /\ pc = "parse" /\ args' = args \ {a} /\ line' = line /\ a.o = "w"
  BY DEF ParseWindow, Takes
<1>2. a \in line /\ a \in Argument /\ loc \in Loc /\ "socket_bufsize" \in NumField
  BY <1>1, Told
<1>3. CASE ExceedsBuffer(a)
  <2>1. pc' = "failed" /\ Refused(a)
    BY <1>1, <1>3 DEF ParseWindow, Fail, Refused
  <2> QED
    BY <1>1, <1>2, <2>1, RefusedAlone, FailOrder
<1>4. CASE ~ExceedsBuffer(a)
  <2>1. /\ pc' = "parse" /\ loc' = [loc EXCEPT !.client = TRUE]
        /\ \E x \in unit_atof(a) : cli' = SetVal(cli, "socket_bufsize", x)
    BY <1>4 DEF ParseWindow, Continue, Client
  <2>2. PICK x \in unit_atof(a) : cli' = SetVal(cli, "socket_bufsize", x)
    BY <2>1
  <2>3. x \in Int
    BY <1>2, Numbers
  <2>4. /\ loc'.server = loc.server /\ loc'.rate = loc.rate /\ loc'.blksize = loc.blksize
        /\ loc'.client /\ loc'.duration = loc.duration
    BY <1>2, <2>1 DEF Loc
  <2>5. ~Refused(a)
    <3>1. a.o \notin Unimplemented \cup Exits
      BY <1>1 DEF Unimplemented, Exits
    <3> QED
      BY <1>1, <1>4, <3>1, NotRefused
  <2>6. /\ a.o \in ClientOptions
        /\ a.o \notin {"c", "s", "R", "bidir", "u", "l", "b", "t", "n", "k"} \cup ServerFlags
    BY <1>1, ClientOptionsAre DEF ServerFlags
  <2> QED
    BY <1>1, <1>2, <2>1, <2>2, <2>3, <2>4, <2>5, <2>6, AssignOrder
<1> QED
  BY <1>3, <1>4

\* -l.
LEMMA ParseLengthOrder ==
    ASSUME OrdinaryLines, SettingsInv, OrderInv, Covered, NEW a \in args, ParseLength(a)
    PROVE  OrderInv'
<1>1. /\ pc = "parse" /\ args' = args \ {a} /\ line' = line /\ pc' = "parse" /\ a.o = "l"
      /\ cli' = cli
  BY DEF ParseLength, Takes, Continue
<1>2. loc \in Loc /\ RetransmitsTold
  BY <1>1, Told
<1>3. PICK x \in LowInt(a) : loc' = [loc EXCEPT !.client = TRUE, !.blksize = x]
  BY DEF ParseLength
<1>4. x = Size(a)
  <2>1. LowInt(a) = {Size(a)}
    BY <1>1, ReadStep
  <2> QED
    BY <2>1
<1>5. /\ loc'.server = loc.server /\ loc'.rate = loc.rate /\ loc'.blksize = x
      /\ loc'.client /\ loc'.duration = loc.duration
  BY <1>2, <1>3 DEF Loc
<1>6. a.o \in ClientOptions /\ a.o \notin ServerFlags
  BY <1>1, ClientOptionsAre DEF ServerFlags
<1>7. ReadsOption(a)
  BY <1>1, <1>5, <1>6 DEF ReadsOption
<1>8. ReadsNumber(a)
  BY <1>1, <1>4, <1>5 DEF ReadsNumber
<1>9. RetransmitsTold'
  BY <1>1, <1>2, <1>5, SameRetransmits
<1>10. ~Refused(a)
  BY <1>1, NotRefused DEF Unimplemented, Exits
<1> QED
  BY <1>7, <1>8, <1>9, <1>10, OrderStep

\* -b.
LEMMA ParseBitrateOrder ==
    ASSUME OrdinaryLines, SettingsInv, OrderInv, Covered, NEW a \in args, ParseBitrate(a)
    PROVE  OrderInv'
<1>1. pc = "parse" /\ args' = args \ {a} /\ line' = line /\ a.o = "b"
  BY DEF ParseBitrate, Takes
<1>2. /\ a \in line /\ a \in Argument /\ a.n # NoNumber /\ a.burst \in Int
      /\ loc \in Loc /\ cli \in Test /\ RetransmitsTold
      /\ {"bytes", "blocks", "duration", "rate", "burst"} \subseteq NumField
  BY <1>1, Told DEF Argument
<1>3. CASE a.burst # -1 /\ a.burst \notin 1..MAX_BURST
  <2>1. pc' = "failed"
    BY <1>3 DEF ParseBitrate, Fail
  <2>2. Refused(a)
    BY <1>1, <1>3 DEF Refused
  <2> QED
    BY <1>1, <1>2, <2>1, <2>2, RefusedAlone, FailOrder
<1>4. CASE a.burst = -1 \/ a.burst \in 1..MAX_BURST
  <2> DEFINE t == IF a.burst = -1 THEN cli ELSE SetVal(cli, "burst", a.burst)
  <2>1. /\ pc' = "parse" /\ loc' = [loc EXCEPT !.client = TRUE, !.rate = TRUE]
        /\ \E x \in unit_atof_rate(a) : cli' = SetVal(t, "rate", x)
    BY <1>4 DEF ParseBitrate, Continue
  <2>2. PICK x \in unit_atof_rate(a) : cli' = SetVal(t, "rate", x)
    BY <2>1
  <2>3. x \in Int
    BY <1>2, Numbers
  <2>4. x = Rate(a)
    BY <1>2, SMT DEF unit_atof_rate, Rate
  <2>5. /\ t \in Test /\ t.role = cli.role /\ t.reverse = cli.reverse
        /\ t.bidirectional = cli.bidirectional /\ t.protocol = cli.protocol
        /\ t.retransmits = cli.retransmits
        /\ \A g \in NumField : g # "burst" => t.val[g] = cli.val[g]
    <3>1. CASE a.burst = -1
      BY <1>2, <3>1
    <3>2. CASE a.burst # -1
      <4>1. t = SetVal(cli, "burst", a.burst)
        BY <3>2
      <4>2. "burst" \in NumField /\ cli \in Test /\ a.burst \in Int
        BY <1>2
      <4> HIDE DEF t
      <4> QED
        BY <4>1, <4>2, SetValIs
    <3> QED
      BY <3>1, <3>2
  <2> HIDE DEF t
  <2>6. /\ cli'.role = t.role /\ cli'.reverse = t.reverse
        /\ cli'.bidirectional = t.bidirectional /\ cli'.protocol = t.protocol
        /\ cli'.retransmits = t.retransmits /\ cli'.val["rate"] = x
        /\ \A g \in NumField : g # "rate" => cli'.val[g] = t.val[g]
    <3>1. "rate" \in NumField
      BY <1>2
    <3> QED
      BY <2>2, <2>3, <2>5, <3>1, SetValIs
  <2>7. /\ cli'.val["bytes"] = cli.val["bytes"] /\ cli'.val["blocks"] = cli.val["blocks"]
        /\ cli'.val["duration"] = cli.val["duration"]
    BY <1>2, <2>5, <2>6
  <2>8. /\ loc'.server = loc.server /\ loc'.rate /\ loc'.blksize = loc.blksize
        /\ loc'.client /\ loc'.duration = loc.duration
    BY <1>2, <2>1 DEF Loc
  <2>9. a.o \in ClientOptions /\ a.o \notin ServerFlags
    BY <1>1, ClientOptionsAre DEF ServerFlags
  <2>10. ReadsOption(a)
    BY <1>1, <2>1, <2>5, <2>6, <2>8, <2>9 DEF ReadsOption
  <2>11. ReadsNumber(a)
    BY <1>1, <2>4, <2>6, <2>7, <2>8 DEF ReadsNumber
  <2>12. RetransmitsTold'
    BY <1>2, <2>5, <2>6, <2>8, SameRetransmits
  <2>13. ~Refused(a)
    <3>1. a.o \notin Unimplemented \cup Exits
      BY <1>1 DEF Unimplemented, Exits
    <3> QED
      BY <1>1, <1>4, <3>1, NotRefused
  <2> QED
    BY <2>10, <2>11, <2>12, <2>13, OrderStep
<1> QED
  BY <1>3, <1>4

\* A setter leaves the numbers as they are.
LEMMA SetterOrder ==
    ASSUME OrdinaryLines, SettingsInv, OrderInv, Covered, NEW a \in args,
           ReadsOption(a), RetransmitsTold', a.o \in {"c", "s", "u", "R", "bidir"},
           cli'.val = cli.val, loc'.blksize = loc.blksize
    PROVE  OrderInv'
<1>1. ReadsNumber(a)
  BY DEF ReadsNumber
<1>2. ~Refused(a)
  <2>1. /\ a.o \notin Unimplemented \cup Exits
        /\ a.o \notin {"p", "cport", "f", "i", "t", "P", "M", "S", "dscp", "O", "4", "6", "b", "w"}
    BY DEF Unimplemented, Exits
  <2> QED
    BY <2>1, NotRefused
<1> QED
  BY <1>1, <1>2, OrderStep

\* An option that has been read is one of the line.
LEMMA SeenHas ==
    ASSUME NEW o \in Seen
    PROVE  Has(o)
BY DEF Seen, Read, Has

\* -s and -c.
LEMMA ParseRoleOrder ==
    ASSUME OrdinaryLines, SettingsInv, OrderInv, Covered, NEW a \in args, ParseRole(a)
    PROVE  OrderInv'
<1>1. /\ pc = "parse" /\ args' = args \ {a} /\ line' = line /\ loc' = loc /\ a.o \in {"s", "c"}
  BY DEF ParseRole, Takes
<1>2. /\ a \in line /\ cli \in Test /\ cli.role \in {"none", "c", "s"} /\ OptionsTold
      /\ ~(cli.reverse /\ cli.bidirectional)
      /\ ~loc.client => ~cli.reverse /\ ~cli.bidirectional
  BY <1>1, Told, Reading DEF Test
<1>3. CASE cli.role \notin {"none", a.o}
  <2>1. pc' = "failed"
    BY <1>3 DEF ParseRole, Fail
  <2>2. Has("s") /\ Has("c")
    <3>1. Has(a.o)
      BY <1>2 DEF Has
    <3>2. Has(cli.role)
      BY <1>2, <1>3, SeenHas DEF OptionsTold
    <3>3. (cli.role = "s" /\ a.o = "c") \/ (cli.role = "c" /\ a.o = "s")
      BY <1>1, <1>2, <1>3
    <3> QED
      BY <3>1, <3>2, <3>3
  <2>3. RefusedLine
    BY <2>2, Zenon DEF RefusedLine
  <2> QED
    BY <1>1, <2>1, <2>3, FailOrder
<1>4. CASE cli.role \in {"none", a.o}
  <2>1. pc' = "parse" /\ cli' = iperf_set_test_role(cli, a.o)
    BY <1>4 DEF ParseRole, Continue
  <2>2. /\ cli' \in Test /\ cli'.role = a.o /\ cli'.reverse = cli.reverse
        /\ cli'.bidirectional = cli.bidirectional /\ cli'.protocol = cli.protocol
        /\ cli'.val = cli.val /\ cli'.mode = ModeOf(cli')
        /\ cli'.retransmits = (cli'.mode # "RECEIVER" /\ cli'.protocol = "tcp")
    BY <1>1, <1>2, <2>1, RoleIs
  <2>3. a.o \notin ClientOptions \cup ServerFlags
    BY <1>1, ClientOptionsAre DEF ServerFlags
  <2>4. ReadsOption(a)
    BY <1>1, <1>4, <2>1, <2>2, <2>3 DEF ReadsOption
  <2>5. RetransmitsTold'
    <3>1. cli'.role = "c" => (cli'.mode = "RECEIVER" <=> cli'.reverse)
      BY <1>2, <2>2 DEF ModeOf, Test
    <3>2. cli'.role # "c" /\ ~loc'.client => cli'.mode = "RECEIVER"
      BY <1>1, <1>2, <2>2 DEF ModeOf, Test
    <3> QED
      BY <2>2, <3>1, <3>2 DEF RetransmitsTold, Test
  <2> QED
    BY <1>1, <2>2, <2>4, <2>5, SetterOrder
<1> QED
  BY <1>3, <1>4

\* -u.
LEMMA ParseUdpOrder ==
    ASSUME OrdinaryLines, SettingsInv, OrderInv, Covered, NEW a \in args, ParseUdp(a)
    PROVE  OrderInv'
<1>1. /\ pc = "parse" /\ args' = args \ {a} /\ line' = line /\ a.o = "u"
      /\ pc' = "parse" /\ cli' = set_protocol(cli, "udp")
      /\ loc' = [loc EXCEPT !.client = TRUE]
  BY DEF ParseUdp, Takes, Client, Continue
<1>2. cli \in Test /\ loc \in Loc
  BY <1>1, Told
<1>3. /\ cli'.role = cli.role /\ cli'.reverse = cli.reverse /\ cli'.protocol = "udp"
      /\ cli'.bidirectional = cli.bidirectional /\ cli'.val = cli.val
      /\ cli'.retransmits = FALSE
  BY <1>1, <1>2, ProtocolIs
<1>4. /\ loc'.server = loc.server /\ loc'.rate = loc.rate /\ loc'.blksize = loc.blksize
      /\ loc'.client /\ loc'.duration = loc.duration
  BY <1>1, <1>2 DEF Loc
<1>5. a.o \in ClientOptions /\ a.o \notin ServerFlags
  BY <1>1, ClientOptionsAre DEF ServerFlags
<1>6. ReadsOption(a)
  BY <1>1, <1>3, <1>4, <1>5 DEF ReadsOption
<1>7. RetransmitsTold'
  BY <1>3 DEF RetransmitsTold
<1> QED
  BY <1>1, <1>3, <1>4, <1>6, <1>7, SetterOrder

\* -R and --bidir.
LEMMA ParseDirectionOrder ==
    ASSUME OrdinaryLines, SettingsInv, OrderInv, Covered, NEW a \in args, ParseDirection(a)
    PROVE  OrderInv'
<1>1. pc = "parse" /\ args' = args \ {a} /\ line' = line /\ a.o \in {"R", "bidir"}
  BY DEF ParseDirection, Takes
<1>2. /\ a \in line /\ cli \in Test /\ loc \in Loc /\ OptionsTold /\ RetransmitsTold
      /\ cli.mode = ModeOf(cli)
  BY <1>1, Told, Reading
<1>3. CASE (a.o = "R" /\ cli.bidirectional) \/ (a.o = "bidir" /\ cli.reverse)
  <2>1. pc' = "failed"
    BY <1>3 DEF ParseDirection, Fail
  <2>2. Has(a.o)
    BY <1>2 DEF Has
  <2>3. Has("R") /\ Has("bidir")
    BY <1>2, <1>3, <2>2, SeenHas DEF OptionsTold
  <2>4. RefusedLine
    BY <2>3, Zenon DEF RefusedLine
  <2> QED
    BY <1>1, <2>1, <2>4, FailOrder
<1>4. CASE ~((a.o = "R" /\ cli.bidirectional) \/ (a.o = "bidir" /\ cli.reverse))
  <2>1. /\ pc' = "parse" /\ loc' = [loc EXCEPT !.client = TRUE]
        /\ cli' = IF a.o = "R" THEN iperf_set_test_reverse(cli)
                               ELSE iperf_set_test_bidirectional(cli)
    BY <1>4 DEF ParseDirection, Continue, Client
  <2>2. /\ loc'.server = loc.server /\ loc'.rate = loc.rate /\ loc'.blksize = loc.blksize
        /\ loc'.client /\ loc'.duration = loc.duration
    BY <1>2, <2>1 DEF Loc
  <2>3. a.o \in ClientOptions /\ a.o \notin ServerFlags
    BY <1>1, ClientOptionsAre DEF ServerFlags
  <2>4. CASE a.o = "R"
    <3>1. cli' = iperf_set_test_reverse(cli) /\ ~cli.bidirectional
      BY <1>4, <2>1, <2>4
    <3>2. /\ cli'.role = cli.role /\ cli'.reverse = TRUE
          /\ cli'.bidirectional = cli.bidirectional /\ cli'.protocol = cli.protocol
          /\ cli'.val = cli.val /\ cli'.mode = ModeOf(cli')
          /\ cli'.retransmits = (cli'.mode # "RECEIVER" /\ cli'.protocol = "tcp")
      BY <1>2, <3>1, ReverseIs
    <3>3. ReadsOption(a)
      BY <1>1, <2>1, <2>2, <2>3, <2>4, <3>2 DEF ReadsOption
    <3>4. cli'.role = "c" => cli'.mode = "RECEIVER"
      BY <3>1, <3>2 DEF ModeOf
    <3>5. RetransmitsTold'
      BY <2>2, <3>2, <3>4 DEF RetransmitsTold
    <3> QED
      BY <2>2, <2>4, <3>2, <3>3, <3>5, SetterOrder
  <2>5. CASE a.o = "bidir"
    <3>1. cli' = iperf_set_test_bidirectional(cli)
      BY <2>1, <2>5
    <3>2. /\ cli'.role = cli.role /\ cli'.reverse = cli.reverse
          /\ cli'.bidirectional = TRUE /\ cli'.protocol = cli.protocol
          /\ cli'.val = cli.val /\ cli'.retransmits = cli.retransmits
      BY <1>2, <3>1, BidirectionalIs
    <3>3. ReadsOption(a)
      BY <1>1, <2>1, <2>2, <2>3, <2>5, <3>2 DEF ReadsOption
    <3>4. RetransmitsTold'
      BY <1>2, <2>2, <3>2, SameRetransmits
    <3> QED
      BY <2>2, <2>5, <3>2, <3>3, <3>4, SetterOrder
  <2> QED
    BY <1>1, <2>4, <2>5
<1> QED
  BY <1>3, <1>4

\* An option without an argument.
LEMMA ParseFlagOrder ==
    ASSUME OrdinaryLines, SettingsInv, OrderInv, Covered, NEW a \in args, ParseFlag(a)
    PROVE  OrderInv'
<1>1. /\ pc = "parse" /\ args' = args \ {a} /\ line' = line
      /\ a.o \in ServerFlags \cup BothFlags \cup ClientFlags
      /\ pc' = "parse"
      /\ cli' = [cli EXCEPT !.flags = @ \cup {a.o}]
      /\ loc' = [loc EXCEPT !.server = @ \/ a.o \in ServerFlags,
                            !.client = @ \/ a.o \in ClientFlags]
  BY DEF ParseFlag, Takes, Continue
<1>2. cli \in Test /\ loc \in Loc /\ RetransmitsTold
  BY <1>1, Told
<1>3. /\ cli'.role = cli.role /\ cli'.reverse = cli.reverse /\ cli'.protocol = cli.protocol
      /\ cli'.bidirectional = cli.bidirectional /\ cli'.val = cli.val
      /\ cli'.retransmits = cli.retransmits
  BY <1>1, <1>2 DEF Test
<1>4. /\ loc'.server = (loc.server \/ a.o \in ServerFlags)
      /\ loc'.client = (loc.client \/ a.o \in ClientFlags)
      /\ loc'.rate = loc.rate /\ loc'.blksize = loc.blksize /\ loc'.duration = loc.duration
  BY <1>1, <1>2 DEF Loc
<1>5. /\ a.o \notin {"c", "s", "R", "bidir", "u", "l", "b", "t", "n", "k", "w"}
      /\ a.o \notin {"p", "cport", "f", "i", "t", "P", "M", "S", "dscp", "O", "4", "6"}
      /\ a.o \notin Unimplemented \cup Exits
  BY <1>1 DEF ServerFlags, BothFlags, ClientFlags, Unimplemented, Exits
<1>6. a.o \in ClientFlags <=> a.o \in ClientOptions
  BY <1>1, <1>5, ClientOptionsAre DEF ServerFlags, BothFlags, ClientFlags
<1>7. ReadsOption(a)
  BY <1>1, <1>3, <1>4, <1>5, <1>6 DEF ReadsOption
<1>8. ReadsNumber(a)
  BY <1>3, <1>4, <1>5 DEF ReadsNumber
<1>9. RetransmitsTold'
  BY <1>2, <1>3, <1>4, SameRetransmits
<1>10. ~Refused(a)
  BY <1>5, NotRefused
<1> QED
  BY <1>7, <1>8, <1>9, <1>10, OrderStep

\* Every option, in every line.
LEMMA ParseOrder ==
    ASSUME OrdinaryLines, SettingsInv, OrderInv, NEW a \in args, ParseOption(a)
    PROVE  OrderInv'
<1>1. CASE ~Covered
  <2>1. line' = line
    BY DEF ParseOption, ParseRanged, ParseSized, ParseLength, ParseWindow, ParseBitrate,
           ParseRole, ParseUdp, ParseDirection, ParseFlag, ParseStop, Takes
  <2>2. ~Covered'
    BY <1>1, <2>1 DEF Covered
  <2> QED
    BY <2>2, Zenon DEF OrderInv, OrderIrrelevant, Covered
<1>2. CASE Covered /\ ParseStop(a)
  <2>1. pc' = "failed" /\ line' = line /\ a.o \in Unimplemented \cup Exits /\ pc = "parse"
    BY <1>2 DEF ParseStop, Takes, Fail
  <2>2. a \in line /\ Refused(a)
    BY <1>2, <2>1, Told DEF Refused
  <2> QED
    BY <2>1, <2>2, RefusedAlone, FailOrder
<1> QED
  BY <1>1, <1>2, ParseRangedOrder, ParseSizedOrder, ParseLengthOrder, ParseWindowOrder,
     ParseBitrateOrder, ParseRoleOrder, ParseUdpOrder, ParseDirectionOrder, ParseFlagOrder
     DEF ParseOption

-----------------------------------------------------------------------------
(* The checks behind the loop say what RefusedLine says. *)

\* How many of three things a set has.
LEMMA AmongThree ==
    ASSUME NEW x, NEW y, NEW z, x # y, x # z, y # z, NEW S, S \subseteq {x, y, z}
    PROVE  /\ Cardinality(S) > 1 <=>
                  (x \in S /\ y \in S) \/ (x \in S /\ z \in S) \/ (y \in S /\ z \in S)
           /\ S = {} => Cardinality(S) = 0
           /\ (\E w : S = {w}) => Cardinality(S) = 1
<1>1. Cardinality({}) = 0
  BY FS_EmptySet
<1>2. \A w : Cardinality({w}) = 1 /\ IsFiniteSet({w})
  BY FS_Singleton
<1>3. ASSUME NEW v, NEW w, v # w
      PROVE  Cardinality({v, w}) = 2 /\ IsFiniteSet({v, w})
  <2>1. {v, w} = {v} \cup {w} /\ w \notin {v}
    BY <1>3
  <2>2. IsFiniteSet({v} \cup {w}) /\ Cardinality({v} \cup {w}) = Cardinality({v}) + 1
    BY <1>2, <2>1, FS_AddElement
  <2>3. Cardinality({v}) = 1
    BY <1>2, Zenon
  <2>4. Cardinality({v} \cup {w}) = 2
    BY <2>2, <2>3
  <2> QED
    BY <2>1, <2>2, <2>4, Zenon
<1>4. Cardinality({x, y, z}) = 3
  <2>1. {x, y, z} = {x, y} \cup {z} /\ z \notin {x, y}
    OBVIOUS
  <2>2. Cardinality({x, y}) = 2 /\ IsFiniteSet({x, y})
    BY <1>3
  <2>3. Cardinality({x, y} \cup {z}) = Cardinality({x, y}) + 1
    BY <2>1, <2>2, FS_AddElement
  <2>4. Cardinality({x, y} \cup {z}) = 3
    BY <2>2, <2>3
  <2> QED
    BY <2>1, <2>4, Zenon
<1>5. \/ S = {} \/ S = {x} \/ S = {y} \/ S = {z}
      \/ S = {x, y} \/ S = {x, z} \/ S = {y, z} \/ S = {x, y, z}
  OBVIOUS
<1>6. CASE S = {} \/ S = {x} \/ S = {y} \/ S = {z}
  <2>1. S = {} => Cardinality(S) = 0
    BY <1>1, Zenon
  <2>2. (\E w : S = {w}) => Cardinality(S) = 1
    BY <1>2, Zenon
  <2>3. S = {} \/ \E w : S = {w}
    BY <1>6, Zenon
  <2>4. ~(Cardinality(S) > 1)
    BY <2>1, <2>2, <2>3, SMT
  <2>5. ~((x \in S /\ y \in S) \/ (x \in S /\ z \in S) \/ (y \in S /\ z \in S))
    BY <1>6
  <2> QED
    BY <2>1, <2>2, <2>4, <2>5, Zenon
<1>7. CASE S = {x, y} \/ S = {x, z} \/ S = {y, z} \/ S = {x, y, z}
  <2>1. Cardinality({x, y}) = 2 /\ Cardinality({x, z}) = 2 /\ Cardinality({y, z}) = 2
    BY <1>3, Zenon
  <2>2. Cardinality(S) = 2 \/ Cardinality(S) = 3
    BY <1>4, <1>7, <2>1, Zenon
  <2>3. S # {} /\ \A w : S # {w}
    BY <1>7
  <2>4. Cardinality(S) > 1
    BY <2>2, SMT
  <2>5. (x \in S /\ y \in S) \/ (x \in S /\ z \in S) \/ (y \in S /\ z \in S)
    BY <1>7
  <2> QED
    BY <2>3, <2>4, <2>5, Zenon
<1> QED
  BY <1>5, <1>6, <1>7, Zenon

\* All arguments have been read.
LEMMA AllRead ==
    ASSUME SettingsInv, OrderInv, Covered, pc = "parse", args = {}
    PROVE  /\ Read = line /\ \A o : o \in Seen <=> Has(o)
           /\ OptionsTold /\ NumbersTold /\ RetransmitsTold /\ \A a \in line : ~Refused(a)
           /\ cli \in Test /\ loc \in Loc
           /\ \A a \in line : a.n \in Int /\ a.k \in 0..4 /\ (a.o = "l" => a.k <= 2)
<1>1. Read = line
  BY DEF Read
<1>2. \A o : o \in Seen <=> Has(o)
  BY <1>1 DEF Seen, Has
<1>3. ASSUME NEW a \in line
      PROVE  a.n \in Int /\ a.k \in 0..4 /\ (a.o = "l" => a.k <= 2)
  <2>1. a \in Argument
    BY OptionsAssumption DEF SettingsInv, TypeOK
  <2> QED
    BY <2>1 DEF Argument, Covered
<1> QED
  BY <1>1, <1>2, <1>3 DEF OrderInv, SettingsInv, TypeOK, Loc

\* The length of a line that is refused.
BadLength(a) ==
    \/ a.n > 0 /\ a.k <= 2 /\ a.n > 2 ^ (20 - 10 * a.k)
    \/ Has("u") /\ a.n > 0 /\ a.k <= 2 /\ a.n * 1024 ^ a.k \notin UdpBlockSizes
    \/ ~Has("u") /\ a.n < 0

\* The checks of the block size find the lengths that RefusedLine names.
LEMMA LengthsChecked ==
    ASSUME SettingsInv, OrderInv, Covered, pc = "parse", args = {}
    PROVE  LET b == BlkSize(loc.blksize, cli.protocol)
           IN  BadBlock(b, cli.protocol) \/ BadUdpBlock(b, cli.protocol)
                   <=> \E a \in line : a.o = "l" /\ BadLength(a)
<1> DEFINE b == BlkSize(loc.blksize, cli.protocol)
           c == loc.blksize
           Bad == BadBlock(b, cli.protocol) \/ BadUdpBlock(b, cli.protocol)
<1>1. /\ cli.protocol \in {"tcp", "udp"} /\ c \in Int
      /\ cli.protocol = "udp" <=> Has("u")
  BY AllRead DEF Test, Loc, OptionsTold
<1>2. MAX_BLOCKSIZE = 1048576 /\ DEFAULT_TCP_BLKSIZE = 131072
  BY SMT DEF MAX_BLOCKSIZE, DEFAULT_TCP_BLKSIZE
<1>3. Bad <=> \/ c > MAX_BLOCKSIZE
              \/ Has("u") /\ c > 0 /\ c \notin UdpBlockSizes
              \/ ~Has("u") /\ c < 0
  <2>1. CASE cli.protocol = "udp"
    <3>1. b = c
      BY <2>1 DEF BlkSize
    <3>2. Bad <=> c > MAX_BLOCKSIZE \/ (c > 0 /\ c \notin UdpBlockSizes)
      BY <2>1, <3>1 DEF BadBlock, BadUdpBlock
    <3> QED
      BY <1>1, <2>1, <3>2
  <2>2. CASE cli.protocol = "tcp" /\ c = 0
    <3>1. b = DEFAULT_TCP_BLKSIZE
      BY <2>2 DEF BlkSize
    <3>2. ~Bad
      BY <1>2, <2>2, <3>1, SMT DEF BadBlock, BadUdpBlock
    <3> QED
      BY <1>1, <1>2, <2>2, <3>2, SMT
  <2>3. CASE cli.protocol = "tcp" /\ c # 0
    <3>1. b = c
      BY <2>3 DEF BlkSize
    <3>2. Bad <=> c <= 0 \/ c > MAX_BLOCKSIZE
      BY <2>3, <3>1 DEF BadBlock, BadUdpBlock
    <3> QED
      BY <1>1, <1>2, <2>3, <3>2, SMT
  <2> QED
    BY <1>1, <2>1, <2>2, <2>3
<1> HIDE DEF Bad
<1>4. ASSUME NEW a \in line, a.o = "l"
      PROVE  Bad <=> BadLength(a)
  <2>1. /\ a.n \in Int /\ a.k \in 0..4 /\ a.k <= 2 /\ c = Size(a)
    BY <1>4, AllRead DEF NumbersTold
  <2>2. /\ c > 0 <=> a.n > 0
        /\ c < 0 <=> a.n < 0
        /\ c > MAX_BLOCKSIZE <=> a.n > 2 ^ (20 - 10 * a.k)
    BY <2>1, Sizes
  <2>3. c > MAX_BLOCKSIZE => c > 0
    BY <1>1, <1>2, SMT
  <2>4. c = a.n * 1024 ^ a.k
    BY <2>1, Zenon DEF Size
  <2> HIDE DEF c
  <2>5. BadLength(a) <=> \/ c > 0 /\ c > MAX_BLOCKSIZE
                         \/ Has("u") /\ c > 0 /\ c \notin UdpBlockSizes
                         \/ ~Has("u") /\ c < 0
    <3> DEFINE big == 2 ^ (20 - 10 * a.k)
               size == a.n * 1024 ^ a.k
    <3>1. BadLength(a) <=> \/ a.n > 0 /\ a.k <= 2 /\ a.n > big
                           \/ Has("u") /\ a.n > 0 /\ a.k <= 2 /\ size \notin UdpBlockSizes
                           \/ ~Has("u") /\ a.n < 0
      BY Zenon DEF BadLength
    <3>2. (c > MAX_BLOCKSIZE <=> a.n > big) /\ c = size
      BY <2>2, <2>4, Zenon
    <3> HIDE DEF big, size
    <3> QED
      BY <2>1, <2>2, <3>1, <3>2, Zenon
  <2> QED
    BY <1>3, <2>3, <2>5, Zenon
<1>5. ASSUME ~\E a \in line : a.o = "l"
      PROVE  ~Bad
  <2>1. ~Has("l")
    BY <1>5 DEF Has
  <2>2. c = 0
    BY <2>1, AllRead DEF NumbersTold
  <2>3. ~(c > MAX_BLOCKSIZE) /\ ~(c > 0) /\ ~(c < 0)
    BY <1>2, <2>2, SMT
  <2> QED
    BY <1>3, <2>3, Zenon
<1>6. Bad <=> \E a \in line : a.o = "l" /\ BadLength(a)
  BY <1>4, <1>5, Zenon
<1> QED
  BY <1>6, Zenon DEF Bad

\* What ends the test of a line.
Ends == {o \in {"t", "n", "k"} : \E a \in line : a.o = o /\ (o = "t" \/ a.n # 0)}

\* The check of the end conditions counts them.
LEMMA EndsChecked ==
    ASSUME SettingsInv, OrderInv, Covered, pc = "parse", args = {}
    PROVE  /\ "t" \in Ends <=> loc.duration
           /\ "n" \in Ends <=> cli.val["bytes"] # 0
           /\ "k" \in Ends <=> cli.val["blocks"] # 0
           /\ TwoEnds(cli.val, loc.duration) <=> Cardinality(Ends) > 1
<1>1. "t" \in Ends <=> loc.duration
  <2>1. "t" \in Ends <=> Has("t")
    BY DEF Ends, Has
  <2> QED
    BY <2>1, AllRead DEF OptionsTold
<1>2. "n" \in Ends <=> cli.val["bytes"] # 0
  <2>1. "n" \in Ends <=> \E a \in line : a.o = "n" /\ a.n # 0
    BY DEF Ends
  <2>2. ASSUME NEW a \in line, a.o = "n"
        PROVE  cli.val["bytes"] # 0 <=> a.n # 0
    <3>1. cli.val["bytes"] = Size(a) /\ a.n \in Int /\ a.k \in 0..4
      BY <2>2, AllRead DEF NumbersTold
    <3> QED
      BY <3>1, Sizes
  <2>3. (~\E a \in line : a.o = "n") => cli.val["bytes"] = 0
    BY AllRead DEF NumbersTold, Has
  <2> QED
    BY <2>1, <2>2, <2>3, Zenon
<1>3. "k" \in Ends <=> cli.val["blocks"] # 0
  <2>1. "k" \in Ends <=> \E a \in line : a.o = "k" /\ a.n # 0
    BY DEF Ends
  <2>2. ASSUME NEW a \in line, a.o = "k"
        PROVE  cli.val["blocks"] # 0 <=> a.n # 0
    <3>1. cli.val["blocks"] = Size(a) /\ a.n \in Int /\ a.k \in 0..4
      BY <2>2, AllRead DEF NumbersTold
    <3> QED
      BY <3>1, Sizes
  <2>3. (~\E a \in line : a.o = "k") => cli.val["blocks"] = 0
    BY AllRead DEF NumbersTold, Has
  <2> QED
    BY <2>1, <2>2, <2>3, Zenon
<1>4. Ends \subseteq {"t", "n", "k"}
  BY DEF Ends
<1>5. Cardinality(Ends) > 1 <=> \/ "t" \in Ends /\ "n" \in Ends
                                \/ "t" \in Ends /\ "k" \in Ends
                                \/ "n" \in Ends /\ "k" \in Ends
  BY <1>4, AmongThree
<1>6. TwoEnds(cli.val, loc.duration) <=> Cardinality(Ends) > 1
  BY <1>1, <1>2, <1>3, <1>5, Zenon DEF TwoEnds
<1> QED
  BY <1>1, <1>2, <1>3, <1>6

\* The roles and the options that go with them.
LEMMA RolesChecked ==
    ASSUME SettingsInv, OrderInv, Covered, pc = "parse", args = {}
    PROVE  /\ cli.role = "c" /\ loc.server <=> Has("c") /\ \E o \in ServerFlags : Has(o)
           /\ cli.role = "s" /\ loc.client <=> Has("s") /\ \E o \in ClientOptions : Has(o)
           /\ cli.role = "none" <=> (Has("s") <=> Has("c"))
           /\ ~(Has("R") /\ Has("bidir"))
<1>1. /\ OptionsTold /\ (\A o : o \in Seen <=> Has(o)) /\ cli.role \in {"none", "c", "s"}
  BY AllRead DEF Test
<1>2. /\ cli.role = "c" <=> Has("c")
      /\ cli.role = "s" <=> Has("s")
      /\ cli.reverse <=> Has("R")
      /\ cli.bidirectional <=> Has("bidir")
  BY <1>1, Zenon DEF OptionsTold
<1>3. /\ loc.server <=> \E o \in ServerFlags : Has(o)
      /\ loc.client <=> \E o \in ClientOptions : Has(o)
  BY <1>1, Zenon DEF OptionsTold
<1>4. cli.role = "none" <=> (Has("s") <=> Has("c"))
  BY <1>1, <1>2
<1>5. ~(cli.reverse /\ cli.bidirectional)
  BY DEF SettingsInv, Directed
<1> QED
  BY <1>2, <1>3, <1>4, <1>5, Zenon

\* The code refuses what RefusedLine names.
LEMMA RefusedIsError ==
    ASSUME SettingsInv, OrderInv, Covered, pc = "parse", args = {}
    PROVE  FinalError = "none" <=> ~RefusedLine
<1> DEFINE b == BlkSize(loc.blksize, cli.protocol)
           BadLine == \E a \in line : a.o = "l" /\ BadLength(a)
<1>1. FinalError = "none" <=>
        /\ ~(cli.role = "c" /\ loc.server)
        /\ ~(cli.role = "s" /\ loc.client)
        /\ ~(BadBlock(b, cli.protocol) \/ BadUdpBlock(b, cli.protocol))
        /\ ~TwoEnds(cli.val, loc.duration)
        /\ cli.role # "none"
  BY DEF FinalError
<1>2. BadBlock(b, cli.protocol) \/ BadUdpBlock(b, cli.protocol) <=> BadLine
  BY LengthsChecked
<1>3. \A a \in line : ~Refused(a)
  BY AllRead
<1>4. RefusedLine <=> \/ Has("s") <=> Has("c")
                      \/ Has("R") /\ Has("bidir")
                      \/ Has("c") /\ \E o \in ServerFlags : Has(o)
                      \/ Has("s") /\ \E o \in ClientOptions : Has(o)
                      \/ \E a \in line : Refused(a)
                      \/ BadLine
                      \/ Cardinality(Ends) > 1
  BY Zenon DEF RefusedLine, Refused, BadLength, Ends
<1> HIDE DEF b, BadLine
<1>5. TwoEnds(cli.val, loc.duration) <=> Cardinality(Ends) > 1
  BY EndsChecked
<1> QED
  BY <1>1, <1>2, <1>3, <1>4, <1>5, RolesChecked, Zenon

\* The numbers of an accepted line: at most one of the byte and block limits,
\* and a duration where neither is given.
LEMMA EndsKept ==
    ASSUME NEW v \in [{"duration", "bytes", "blocks"} -> Int],
           NEW T, v["bytes"] = 0 \/ v["blocks"] = 0,
           T => v["duration"] = 0 /\ v["bytes"] = 0 /\ v["blocks"] = 0,
           ~T => (v["duration"] # 0 <=> v["bytes"] = 0 /\ v["blocks"] = 0)
    PROVE  Cardinality({f \in {"duration", "bytes", "blocks"} : v[f] # 0}) = IF T THEN 0 ELSE 1
<1> DEFINE S == {f \in {"duration", "bytes", "blocks"} : v[f] # 0}
<1>1. S \subseteq {"duration", "bytes", "blocks"}
  OBVIOUS
<1>2. (S = {} => Cardinality(S) = 0) /\ ((\E w : S = {w}) => Cardinality(S) = 1)
  <2>1. "duration" # "bytes" /\ "duration" # "blocks" /\ "bytes" # "blocks"
    OBVIOUS
  <2> HIDE DEF S
  <2> QED
    BY <1>1, <2>1, AmongThree, Zenon
<1>3. T => S = {}
  OBVIOUS
<1>4. ~T => S = {"duration"} \/ S = {"bytes"} \/ S = {"blocks"}
  OBVIOUS
<1>5. Cardinality(S) = IF T THEN 0 ELSE 1
  <2> HIDE DEF S
  <2> QED
    BY <1>2, <1>3, <1>4, Zenon
<1> QED
  BY <1>5, Zenon

\* The end of the line.
LEMMA EndOrder ==
    ASSUME SettingsInv, OrderInv, iperf_parse_arguments
    PROVE  OrderInv'
<1>1. pc = "parse" /\ args = {} /\ line' = line
  BY DEF iperf_parse_arguments
<1>2. CASE ~Covered
  <2>1. ~Covered'
    BY <1>1, <1>2 DEF Covered
  <2> QED
    BY <2>1, Zenon DEF OrderInv, OrderIrrelevant, Covered
<1>3. CASE Covered /\ FinalError # "none"
  <2>1. pc' = "failed"
    BY <1>3 DEF iperf_parse_arguments, Fail
  <2>2. RefusedLine
    BY <1>1, <1>3, RefusedIsError
  <2> QED
    BY <1>1, <2>1, <2>2, FailOrder
<1>4. CASE Covered /\ FinalError = "none"
  <2>1. pc' = "parsed" /\ cli' = [cli EXCEPT !.val = FinalVal]
    BY <1>4 DEF iperf_parse_arguments
  <2>2. ~RefusedLine
    BY <1>1, <1>4, RefusedIsError
  <2>3. /\ OptionsTold /\ NumbersTold /\ RetransmitsTold
        /\ Read = line /\ cli \in Test /\ loc \in Loc
        /\ \A a \in line : a.n \in Int
    BY <1>1, <1>4, AllRead
  <2>4. /\ cli.role = "c" <=> Has("c")
        /\ cli.role = "s" <=> Has("s")
        /\ cli.reverse <=> Has("R")
        /\ cli.bidirectional <=> Has("bidir")
        /\ cli.protocol = "udp" <=> Has("u")
        /\ loc.rate <=> Has("b")
        /\ loc.duration <=> Has("t")
    BY <1>1, <1>4, AllRead, Zenon DEF OptionsTold
  <2>5. /\ cli'.mode = cli.mode /\ cli'.retransmits = cli.retransmits /\ cli'.val = FinalVal
    BY <2>1, <2>3 DEF Test
  <2>6. /\ cli.role # "none" /\ ~(cli.role = "s" /\ loc.client)
        /\ ~TwoEnds(cli.val, loc.duration)
    BY <1>4 DEF FinalError
  <2>7. ~loc.client => ~cli.reverse /\ ~cli.bidirectional
    BY <1>1 DEF SettingsInv, ClientOnly
  <2>8. cli.mode = ModeOf(cli) /\ ~(cli.reverse /\ cli.bidirectional)
    BY DEF SettingsInv, Directed
  <2>9. cli.role \in {"c", "s"} /\ cli.reverse \in BOOLEAN /\ cli.protocol \in {"tcp", "udp"}
    BY <2>3, <2>6 DEF Test
  <2>10. cli'.mode = CASE Has("s") \/ Has("R") -> "RECEIVER"
                       [] Has("bidir") -> "BIDIRECTIONAL"
                       [] OTHER -> "SENDER"
    <3>1. CASE Has("s") \/ Has("R")
      <4>1. cli.mode = "RECEIVER"
        BY <2>4, <2>6, <2>7, <2>8, <2>9, <3>1 DEF ModeOf
      <4> QED
        BY <2>4, <2>5, <2>6, <2>7, <2>8, <2>9, <3>1, <4>1
    <3>2. CASE ~(Has("s") \/ Has("R")) /\ Has("bidir")
      <4>1. cli.mode = "BIDIRECTIONAL"
        BY <2>4, <2>8, <3>2 DEF ModeOf
      <4> QED
        BY <2>5, <3>2, <4>1
    <3>3. CASE ~(Has("s") \/ Has("R")) /\ ~Has("bidir")
      <4>1. cli.mode = "SENDER"
        BY <2>4, <2>8, <2>9, <3>3 DEF ModeOf
      <4> QED
        BY <2>5, <3>3, <4>1
    <3> QED
      BY <3>1, <3>2, <3>3
  <2>11. cli'.retransmits <=> Has("c") /\ ~Has("R") /\ ~Has("u")
    <3>1. CASE cli.role = "c"
      BY <2>3, <2>4, <2>5, <2>9, <3>1 DEF RetransmitsTold
    <3>2. CASE cli.role = "s"
      BY <2>3, <2>4, <2>5, <2>6, <3>2 DEF RetransmitsTold
    <3> QED
      BY <2>9, <3>1, <3>2
  <2>12. /\ FinalVal \in [NumField -> Int]
         /\ FinalVal["rate"] = IF loc.rate THEN cli.val["rate"]
                               ELSE IF cli.protocol = "udp" THEN UDP_RATE ELSE 0
         /\ FinalVal["duration"] =
                IF (cli.val["bytes"] # 0 \/ cli.val["blocks"] # 0) /\ ~loc.duration
                THEN 0 ELSE cli.val["duration"]
         /\ \A g \in NumField : g \notin {"blksize", "rate", "duration"} => FinalVal[g] = cli.val[g]
    BY FinalValIs
  <2>13. ~Has("b") => cli'.val["rate"] = IF Has("u") THEN UDP_RATE ELSE 0
    BY <2>4, <2>5, <2>12, Zenon
  <2>14. \A a \in line : a.o = "b" => cli'.val["rate"] = a.n * 1000 ^ a.k
    <3>1. \A a \in line : a.o = "b" => cli.val["rate"] = Rate(a) /\ Has("b")
      BY <2>3, Zenon DEF NumbersTold, Has
    <3>2. \A a \in line : a.o = "b" => cli'.val["rate"] = Rate(a)
      BY <2>4, <2>5, <2>12, <3>1, Zenon
    <3> QED
      BY <3>2, Zenon DEF Rate
  <2>15. Cardinality({f \in {"duration", "bytes", "blocks"} : cli'.val[f] # 0})
             = IF \E a \in line : a.o = "t" /\ a.n = 0 THEN 0 ELSE 1
    <3> DEFINE D == {"duration", "bytes", "blocks"}
               v == [f \in D |-> cli'.val[f]]
               T == \E a \in line : a.o = "t" /\ a.n = 0
    <3>1. D \subseteq NumField
      BY DEF NumField
    <3>2. v \in [D -> Int]
      BY <2>5, <2>12, <3>1
    <3>3. v["bytes"] = cli.val["bytes"] /\ v["blocks"] = cli.val["blocks"]
      BY <2>5, <2>12, <3>1
    <3>4. v["duration"] = IF (cli.val["bytes"] # 0 \/ cli.val["blocks"] # 0) /\ ~loc.duration
                          THEN 0 ELSE cli.val["duration"]
      BY <2>5, <2>12
    <3>5. /\ loc.duration => cli.val["bytes"] = 0 /\ cli.val["blocks"] = 0
          /\ cli.val["bytes"] = 0 \/ cli.val["blocks"] = 0
      BY <2>6 DEF TwoEnds
    <3>6. ~loc.duration => ~T /\ cli.val["duration"] = 10
      <4>1. ~Has("t") => cli.val["duration"] = 10
        BY <1>1, <1>4, AllRead, Zenon DEF NumbersTold
      <4> QED
        BY <2>4, <4>1, Zenon DEF Has
    <3>7. loc.duration => (T <=> cli.val["duration"] = 0)
      <4>1. \A a \in line : a.o = "t" => cli.val["duration"] = a.n
        BY <2>3, Zenon DEF NumbersTold
      <4>2. loc.duration => \E a \in line : a.o = "t"
        BY <2>4, Zenon DEF Has
      <4>3. ASSUME NEW a \in line, a.o = "t"
            PROVE  T <=> cli.val["duration"] = 0
        BY <4>1, <4>3
      <4> QED
        BY <4>2, <4>3, Zenon
    <3> HIDE DEF T
    <3>8. /\ T => v["duration"] = 0 /\ v["bytes"] = 0 /\ v["blocks"] = 0
          /\ ~T => (v["duration"] # 0 <=> v["bytes"] = 0 /\ v["blocks"] = 0)
          /\ v["bytes"] = 0 \/ v["blocks"] = 0
      <4> HIDE DEF v
      <4> QED
        BY <3>3, <3>4, <3>5, <3>6, <3>7
    <3>9. {f \in D : cli'.val[f] # 0} = {f \in D : v[f] # 0}
      OBVIOUS
    <3>10. Cardinality({f \in D : v[f] # 0}) = IF T THEN 0 ELSE 1
      <4> HIDE DEF v
      <4> QED
        BY <3>2, <3>8, EndsKept
    <3> QED
      BY <3>9, <3>10, Zenon DEF T
  <2>16. \A o : Has(o)' <=> Has(o)
    BY <1>1 DEF Has
  <2>17. ~RefusedLine'
    BY <1>1, <2>2 DEF RefusedLine, Has
  <2>18. OrderIrrelevant'
    BY <1>1, <2>1, <2>10, <2>11, <2>13, <2>14, <2>15, <2>17 DEF OrderIrrelevant, Has
  <2> QED
    BY <2>1, <2>18 DEF OrderInv
<1> QED
  BY <1>2, <1>3, <1>4

\* A process starts: nothing has been read.
LEMMA MainOrder ==
    ASSUME NEW l \in Lines, main(l)
    PROVE  OrderInv'
<1>1. pc' = "parse" /\ line' = l /\ args' = l /\ loc' = NoLoc /\ cli' = iperf_defaults
  BY DEF main
<1>2. Read' = {} /\ Seen' = {}
  BY <1>1 DEF Read, Seen
<1>3. /\ iperf_defaults.role = "none" /\ ~iperf_defaults.reverse /\ ~iperf_defaults.bidirectional
      /\ iperf_defaults.protocol = "tcp" /\ ~iperf_defaults.retransmits
      /\ iperf_defaults.val = DefaultVal
  BY DEF iperf_defaults
<1>4. /\ ~NoLoc.server /\ ~NoLoc.client /\ ~NoLoc.rate /\ ~NoLoc.duration /\ NoLoc.blksize = 0
  BY DEF NoLoc
<1>5. /\ DefaultVal["bytes"] = 0 /\ DefaultVal["blocks"] = 0 /\ DefaultVal["duration"] = 10
  <2>1. {"bytes", "blocks", "duration"} \subseteq NumField
    BY DEF NumField
  <2> QED
    BY <2>1 DEF DefaultVal
<1>6. OptionsTold'
  BY <1>1, <1>2, <1>3, <1>4 DEF OptionsTold
<1>7. NumbersTold'
  BY <1>1, <1>2, <1>3, <1>4, <1>5 DEF NumbersTold
<1>8. RetransmitsTold'
  BY <1>1, <1>3 DEF RetransmitsTold
<1>9. OrderIrrelevant'
  BY <1>1 DEF OrderIrrelevant
<1> QED
  BY <1>2, <1>6, <1>7, <1>8, <1>9, Zenon DEF OrderInv

\* Every step keeps what the settings tell.
LEMMA NextOrder ==
    ASSUME OrdinaryLines, SettingsInv, OrderInv, [Next]_vars
    PROVE  OrderInv'
<1>1. CASE \/ \E who \in {"c", "s"} : EnterSend(who)
           \/ SendBlock \/ SoftError \/ NextRound \/ LeaveSend \/ UNCHANGED vars
  <2>1. UNCHANGED <<pc, line, args, loc, cli>>
    BY <1>1 DEF EnterSend, SendBlock, SoftError, NextRound, LeaveSend, vars
  <2>2. OrderIrrelevant'
    BY <2>1 DEF OrderInv, OrderIrrelevant, RefusedLine, Has
  <2>3. /\ Covered' <=> Covered
        /\ OptionsTold' <=> OptionsTold
        /\ NumbersTold' <=> NumbersTold
        /\ RetransmitsTold' <=> RetransmitsTold
        /\ Read' = Read
    BY <2>1 DEF Covered, OptionsTold, NumbersTold, RetransmitsTold, Read, Seen
  <2> QED
    BY <2>1, <2>2, <2>3 DEF OrderInv
<1>2. CASE StartServer \/ Exit \/ iperf_connect \/ iperf_exchange_parameters \/ EndTest
  <2>1. pc' \in {"idle", "params", "running", "waiting"}
    BY <1>2 DEF StartServer, Exit, iperf_connect, iperf_exchange_parameters, EndTest, Idle
  <2>2. pc' # "parse" /\ pc' # "parsed" /\ pc' # "failed"
    BY <2>1
  <2> QED
    BY <2>2, Zenon DEF OrderInv, OrderIrrelevant
<1> QED
  BY <1>1, <1>2, MainOrder, ParseOrder, EndOrder DEF Next

\* The order of the arguments does not matter, for any command lines that give
\* no option twice and whose lengths in K and M fit the int of blksize: the
\* lines that iperf_parse_arguments refuses, and the mode, the retransmission
\* counters, the rate and the end condition of the others, follow from which
\* options they have.  With an option given twice the last one counts, so the
\* order does matter there.
THEOREM OrderDoesNotMatter == OrdinaryLines => (Spec => []OrderIrrelevant)
<1> SUFFICES ASSUME OrdinaryLines
             PROVE  Spec => []OrderIrrelevant
  OBVIOUS
<1>1. Init => OrderInv
  <2>1. Init => pc # "parse" /\ pc # "parsed" /\ pc # "failed"
    BY DEF Init
  <2> QED
    BY <2>1, Zenon DEF OrderInv, OrderIrrelevant
<1>2. SettingsInv /\ OrderInv /\ [Next]_vars => OrderInv'
  BY NextOrder
<1>3. OrderInv => OrderIrrelevant
  BY DEF OrderInv
<1> QED
  BY <1>1, <1>2, <1>3, SettingsAlways, PTL DEF Spec
=============================================================================
