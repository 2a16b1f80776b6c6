--------------------------- MODULE MCIperfOptions ---------------------------
(* Instances of IperfOptions for TLC. *)
EXTENDS IperfOptions

Arg(o, n, k) == [o |-> o, n |-> n, k |-> k, burst |-> -1]
Plain(o) == Arg(o, 0, 0)
Burst(n, b) == [o |-> "b", n |-> n, k |-> 1, burst |-> b]

\* One argument for every option, at and beyond its bounds where it has some:
\* the numbers that the code relates to other numbers, or that shape a test,
Related ==
    {Arg("t", 0, 0), Arg("t", 5, 0), Arg("P", 2, 0), Arg("P", 0, 0), Arg("P", -1, 0),
     Arg("n", 3, 1), Arg("n", 0, 0), Arg("k", 7, 0), Arg("b", 0, 0), Arg("b", 2, 2), Burst(5, 2)}

\* and those that it looks at by themselves or with a flag.
Lone ==
    {Arg("t", 86401, 0), Arg("P", 129, 0), Arg("O", 61, 0), Arg("l", 1024, 1), Arg("l", 1025, 1),
     Arg("l", 15, 0), Arg("l", 4, 3), Arg("l", 2, 3), Arg("w", 512, 2), Arg("w", 4, 3), Burst(5, 0),
     Arg("p", 65536, 0), Arg("i", 0, 0), Arg("i", 601, 0), Arg("S", 256, 0), Arg("dscp", 8, 0),
     Arg("M", 1400, 0), Arg("pacing_timer", 0, 0), Arg("n", NoNumber, 0)}

Flags == {Plain("u"), Plain("R"), Plain("bidir"), Plain("1"), Plain("N"),
          Plain("udp-counters-64bit"), Plain("get-server-output"), Plain("A"), Plain("h"),
          Plain("f"), Arg("6", 6, 0)}

DistinctOptions(l) == \A a, b \in l : a.o = b.o => a = b
Role == {Plain("c"), Plain("s")}
Pairs == {{a, b} : a \in Flags, b \in Flags \cup Related \cup Lone}
             \cup {{a, b} : a \in Related, b \in Related} \cup {{a} : a \in Lone}

\* A role and up to two other options, one of them a flag or both related; no
\* option is given twice.
WideLines ==
    {l \in {{r} \cup p : r \in Role, p \in Pairs} \cup {Role, {Plain("u")}} : DistinctOptions(l)}

\* Lines that run tests: limits, directions, protocols and streams that the
\* next test may inherit.
TestLines ==
    {{Plain("s")}, {Plain("s"), Plain("1")}, {Plain("s"), Plain("udp-counters-64bit")}}
        \cup {{Plain("c"), Arg("P", 2, 0)} \cup x \cup y :
                 x \in {{}, {Plain("R")}, {Plain("bidir")}},
                 y \in {{}, {Arg("n", 3, 1)}, {Arg("k", 7, 0)}, {Plain("u")}, {Burst(5, 2)},
                        {Plain("N")}, {Plain("u"), Arg("pacing_timer", 0, 0)},
                        {Plain("get-server-output")}, {Arg("n", NoNumber, 0)}}}

AllLines == WideLines \cup TestLines
=============================================================================
