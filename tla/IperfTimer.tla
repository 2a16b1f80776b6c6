----------------------------- MODULE IperfTimer -----------------------------
(***************************************************************************)
(* The timers of iperf (timer.c) and the way a test uses them: the list    *)
(* with its prev and next pointers, the free list, tmr_run with its        *)
(* callbacks, and the timers that create_client_timers,                    *)
(* create_server_timers, the omit timers and iperf_create_send_timers set  *)
(* up and cleanup_server, iperf_reset_test and iperf_free_test cancel.     *)
(*                                                                         *)
(* A callback that resets or cancels timers does so in the middle of       *)
(* tmr_run, which has already fetched its next timer.  Times are whole     *)
(* ticks; a process that is scheduled late sees several of them pass.      *)
(***************************************************************************)
EXTENDS Naturals, Sequences, FiniteSets

CONSTANTS
    Streams,      \* the streams a test may have
    Paced,        \* the roles that send at a limited rate, with a send timer per stream
    Roles,        \* the roles to consider: "client", "server"
    Duration,     \* test->duration, 0 for none
    Omit,         \* test->omit, 0 for none
    Grace,        \* grace_period of create_server_timers
    Interval,     \* stats_interval and reporter_interval
    Pacing,       \* pacing_timer
    MaxTime,      \* bound: the clock stops here
    NULL

Slots == {"timer", "stats", "reporter", "omit"} \cup Streams

ASSUME TimerAssumption ==
    /\ Roles \subseteq {"client", "server"} /\ Paced \subseteq Roles
    /\ IsFiniteSet(Streams)
    /\ Streams \cap {"timer", "stats", "reporter", "omit"} = {}
    /\ {Duration, Omit, Grace, MaxTime} \subseteq Nat
    /\ {Interval, Pacing} \subseteq Nat \ {0}
    /\ NULL \notin 1..Cardinality(Slots)

\* The Timer structs ever allocated: one more is only allocated when none is free.
Timers == 1..Cardinality(Slots)

VARIABLES
    role,      \* test->role
    h,         \* the heap: both list heads and the fields of every Timer
    slot,      \* test->timer, ->stats_timer, ->reporter_timer, ->omit_timer, sp->send_timer
    alive,     \* the streams that have not been freed
    done,      \* test->done
    now,       \* the clock
    pc,        \* idle, start, loop, run (in tmr_run), proc (in a callback), cleanup; freed
    todo,      \* the timer calls the present function still makes
    cur,       \* t of tmr_run
    saved      \* next of tmr_run

vars == <<role, h, slot, alive, done, now, pc, todo, cur, saved>>

-----------------------------------------------------------------------------
(* timer.c *)

\* The n-th timer from a head on, or NULL.
Walk(next, first) ==
    LET step == [t \in Timers \cup {NULL} |-> IF t = NULL THEN NULL ELSE next[t]]
        at[n \in 0..Cardinality(Timers)] == IF n = 0 THEN first ELSE step[at[n - 1]]
    IN  at

OnList(next, first) ==
    LET at == Walk(next, first) IN {at[n] : n \in DOMAIN at} \ {NULL}

Active == OnList(h.next, h.head)
Free == OnList(h.next, h.free)

\* Slip: the first timer of a list keeps the prev that malloc left in it.
list_add_garbage(g, t) ==
    IF g.head = NULL THEN [g EXCEPT !.head = t, !.next[t] = NULL, !.prev[t] = 0]
    ELSE [g EXCEPT !.next[t] = NULL]

\* Slip: the new timer always goes to the head of the list.
list_add_unsorted(g, t) ==
    [g EXCEPT !.head = t,
              !.prev = [x \in Timers |-> IF x = t THEN NULL ELSE IF x = g.head THEN t ELSE g.prev[x]],
              !.next[t] = g.head]

\* The timer goes before the first one that is later than it.
list_add(g, t) ==
    LET at == Walk(g.next, g.head)
        listed == {n \in DOMAIN at : at[n] # NULL}
        later == {n \in listed : g.time[t] < g.time[at[n]]}
        n2 == IF later = {} THEN Cardinality(listed)
                            ELSE CHOOSE n \in later : \A m \in later : n <= m
        t2 == IF later = {} THEN NULL ELSE at[n2]
        t2prev == IF n2 = 0 THEN NULL ELSE at[n2 - 1]
    IN  [g EXCEPT !.head = IF t2prev = NULL THEN t ELSE @,
                  !.next = [x \in Timers |-> IF x = t THEN t2 ELSE IF x = t2prev THEN t ELSE @[x]],
                  !.prev = [x \in Timers |-> IF x = t THEN t2prev ELSE IF x = t2 THEN t ELSE @[x]]]

list_remove(g, t) ==
    LET p == g.prev[t]
        n == g.next[t]
    IN  [g EXCEPT !.head = IF p = NULL THEN n ELSE @,
                  !.next = [x \in Timers |-> IF x = p THEN n ELSE @[x]],
                  !.prev = [x \in Timers |-> IF x = n THEN p ELSE @[x]]]

list_resort(g, t) == list_add(list_remove(g, t), t)

\* A struct for a new timer: the first free one, or a fresh one from malloc.
NewTimer(g) ==
    IF g.free # NULL THEN g.free
    ELSE CHOOSE t \in Timers \ g.used : \A u \in Timers \ g.used : t <= u

Usecs(s) ==
    CASE s = "timer" -> Duration + Omit + (IF role = "server" THEN Grace ELSE 0)
      [] s \in {"stats", "reporter"} -> Interval
      [] s = "omit" -> Omit
      [] OTHER -> Pacing

Periodic(s) == s \notin {"timer", "omit"}

\* tmr_create for the owner s, which is the callback and its client data.
tmr_create(g, s) ==
    LET t == NewTimer(g)
        taken == [g EXCEPT !.free = IF @ = NULL THEN NULL ELSE g.next[@],
                           !.used = @ \cup {t},
                           !.owner[t] = s,
                           !.time[t] = now + Usecs(s)]
    IN  list_add(taken, t)

tmr_cancel(g, t) ==
    LET r == list_remove(g, t)
    IN  [r EXCEPT !.next[t] = r.free, !.free = t, !.prev[t] = NULL]

tmr_reset(g, t) == list_resort([g EXCEPT !.time[t] = now + Usecs(g.owner[t])], t)

-----------------------------------------------------------------------------
(* A test and its timers. *)

Call(f, s) == [f |-> f, slot |-> s]

\* Some streams one after another.  Any order will do; the code takes the order
\* of its list.
StreamList(S) == CHOOSE q \in [1..Cardinality(S) -> S] : \A s \in S : \E i \in DOMAIN q : q[i] = s

Creates ==
    (IF Duration = 0 THEN <<>> ELSE <<Call("create", "timer")>>)
    \o <<Call("create", "stats"), Call("create", "reporter")>>
    \o (IF Omit = 0 THEN <<>> ELSE <<Call("create", "omit")>>)
    \o (IF role \in Paced THEN [i \in 1..Cardinality(Streams) |-> Call("create", StreamList(Streams)[i])]
                          ELSE <<>>)

\* iperf_free_stream cancels the send timer of each stream.
FreeStreams(S) == [i \in 1..Cardinality(S) |-> Call("free", StreamList(S)[i])]

\* Slip: nothing cancels the omit timer.
Cancels_noOmit ==
    LET slots == <<"timer", "stats", "reporter">>
    IN  FreeStreams(alive) \o [i \in 1..3 |-> Call("cancel", slots[i])]

\* cleanup_server and iperf_reset_test, or iperf_free_test on the client.
Cancels ==
    LET slots == IF role = "server" THEN <<"stats", "reporter", "omit", "timer">>
                                    ELSE <<"omit", "timer", "stats", "reporter">>
        timers == [i \in 1..4 |-> Call("cancel", slots[i])]
    IN  IF role = "server" THEN timers \o FreeStreams(alive) ELSE FreeStreams(alive) \o timers

\* TEST_START: create_client_timers or create_server_timers, the omit timer,
\* iperf_create_send_timers.
TestStart ==
    /\ pc = "idle"
    /\ pc' = "start"
    /\ todo' = Creates
    /\ done' = IF Duration = 0 THEN done ELSE FALSE
    /\ alive' = Streams
    /\ UNCHANGED <<role, h, slot, now, cur, saved>>

\* The next call of the function that runs.
Create ==
    /\ todo # <<>> /\ Head(todo).f = "create"
    /\ h' = tmr_create(h, Head(todo).slot)
    /\ slot' = [slot EXCEPT ![Head(todo).slot] = NewTimer(h)]
    /\ todo' = Tail(todo)
    /\ UNCHANGED <<role, alive, done, now, pc, cur, saved>>

Cancel ==
    /\ todo # <<>> /\ Head(todo).f \in {"cancel", "free"}
    /\ h' = IF slot[Head(todo).slot] = NULL THEN h ELSE tmr_cancel(h, slot[Head(todo).slot])
    /\ slot' = [slot EXCEPT ![Head(todo).slot] = NULL]
    /\ alive' = alive \ {Head(todo).slot}
    /\ todo' = Tail(todo)
    /\ UNCHANGED <<role, done, now, pc, cur, saved>>

Reset ==
    /\ todo # <<>> /\ Head(todo).f = "reset"
    /\ h' = tmr_reset(h, slot[Head(todo).slot])
    /\ todo' = Tail(todo)
    /\ UNCHANGED <<role, slot, alive, done, now, pc, cur, saved>>

Started ==
    /\ pc = "start" /\ todo = <<>>
    /\ pc' = "loop"
    /\ UNCHANGED <<role, h, slot, alive, done, now, todo, cur, saved>>

\* Time passes while the process is in select() or not scheduled.
Tick ==
    /\ pc = "loop"
    /\ now < MaxTime
    /\ now' = now + 1
    /\ UNCHANGED <<role, h, slot, alive, done, pc, todo, cur, saved>>

\* tmr_run starts.  The client calls it until it is done.
tmr_run ==
    /\ pc = "loop"
    /\ role = "client" => ~done
    /\ h.head # NULL /\ h.time[h.head] <= now
    /\ pc' = "run"
    /\ cur' = h.head
    /\ UNCHANGED <<role, h, slot, alive, done, now, todo, saved>>

RunEnds ==
    /\ pc = "run"
    /\ cur = NULL \/ h.time[cur] > now
    /\ pc' = "loop"
    /\ cur' = NULL
    /\ UNCHANGED <<role, h, slot, alive, done, now, todo, saved>>

\* The callback of a timer that is due.
Fires(s) ==
    /\ pc = "run"
    /\ cur \in Active /\ h.time[cur] <= now /\ h.owner[cur] = s
    /\ saved' = h.next[cur]
    /\ pc' = "proc"
    /\ UNCHANGED <<role, h, alive, now, cur>>

\* The callback before this one has cancelled the timer and freed the stream that
\* is its client data.  tmr_run calls it all the same: undefined from here on.
RunsFreed ==
    /\ pc = "run"
    /\ cur # NULL /\ cur \notin Active /\ h.time[cur] <= now
    /\ pc' = "freed"
    /\ UNCHANGED <<role, h, slot, alive, done, now, todo, cur, saved>>

ResetIfSet(s) == IF slot[s] = NULL THEN <<>> ELSE <<Call("reset", s)>>

\* Slip: test->omit_timer still points at the timer that has run.
omit_timer_proc_dangling ==
    /\ Fires("omit")
    /\ todo' = ResetIfSet("stats") \o ResetIfSet("reporter")
    /\ UNCHANGED <<slot, done>>

\* client_omit_timer_proc and server_omit_timer_proc.
omit_timer_proc ==
    /\ Fires("omit")
    /\ slot' = [slot EXCEPT !["omit"] = NULL]
    /\ todo' = ResetIfSet("stats") \o ResetIfSet("reporter")
    /\ UNCHANGED done

\* Slip: the client frees its streams like the server's watchdog.
test_timer_proc_frees ==
    /\ Fires("timer") /\ role = "client"
    /\ slot' = [slot EXCEPT !["timer"] = NULL]
    /\ done' = TRUE
    /\ todo' = FreeStreams(alive)

\* test_timer_proc of the client.
test_timer_proc ==
    /\ Fires("timer") /\ role = "client"
    /\ slot' = [slot EXCEPT !["timer"] = NULL]
    /\ done' = TRUE
    /\ UNCHANGED todo

\* server_timer_proc: the watchdog frees the streams.
server_timer_proc ==
    /\ Fires("timer") /\ role = "server"
    /\ slot' = [slot EXCEPT !["timer"] = NULL]
    /\ done' = TRUE
    /\ todo' = IF done THEN todo ELSE FreeStreams(alive)

\* Slip: whatever runs periodically also restarts the duration timer.
other_timer_proc_restarts ==
    /\ \E s \in {"stats", "reporter"} \cup Streams : Fires(s)
    /\ todo' = IF slot["timer"] = NULL THEN todo ELSE <<Call("reset", "timer")>>
    /\ UNCHANGED <<slot, done>>

\* The statistics, the reporter and send_timer_proc do nothing to timers.
other_timer_proc ==
    /\ \E s \in {"stats", "reporter"} \cup Streams : Fires(s)
    /\ UNCHANGED <<slot, done, todo>>

\* Back in tmr_run: reschedule or cancel, then on to the timer saved before.
ProcReturns ==
    /\ pc = "proc" /\ todo = <<>>
    /\ h' = IF Periodic(h.owner[cur])
            THEN list_resort([h EXCEPT !.time[cur] = @ + Usecs(h.owner[cur])], cur)
            ELSE tmr_cancel(h, cur)
    /\ cur' = saved
    /\ pc' = "run"
    /\ UNCHANGED <<role, slot, alive, done, now, todo, saved>>

\* The test ends, for whatever reason, and its timers are cancelled.  The
\* client only gets here when it is done or fails.
TestEnd ==
    /\ pc = "loop"
    /\ pc' = "cleanup"
    /\ todo' = Cancels
    /\ UNCHANGED <<role, h, slot, alive, done, now, cur, saved>>

\* The next test starts with a new clock reading; only differences matter.
TestOver ==
    /\ pc = "cleanup" /\ todo = <<>>
    /\ pc' = "idle"
    /\ done' = FALSE
    /\ now' = 0
    /\ UNCHANGED <<role, h, slot, alive, todo, cur, saved>>

Init ==
    /\ role \in Roles
    /\ h = [head |-> NULL, free |-> NULL, used |-> {},
            next |-> [t \in Timers |-> NULL], prev |-> [t \in Timers |-> NULL],
            time |-> [t \in Timers |-> 0], owner |-> [t \in Timers |-> "timer"]]
    /\ slot = [s \in Slots |-> NULL]
    /\ alive = {}
    /\ done = FALSE
    /\ now = 0
    /\ pc = "idle"
    /\ todo = <<>>
    /\ cur = NULL
    /\ saved = NULL

Step ==
    \/ Create \/ Cancel \/ Reset \/ Started
    \/ tmr_run \/ RunEnds \/ RunsFreed \/ ProcReturns \/ TestOver
    \/ omit_timer_proc \/ test_timer_proc \/ server_timer_proc \/ other_timer_proc

Next == Step \/ Tick \/ TestStart \/ TestEnd

Spec == Init /\ [][Next]_vars

\* The clock runs, and a running process goes on with what it is doing (every
\* step changes pc or todo).
FairSpec == Spec /\ WF_<<pc, todo>>(Step) /\ WF_now(Tick)

-----------------------------------------------------------------------------
TypeOK ==
    /\ role \in Roles
    /\ h.head \in Timers \cup {NULL} /\ h.free \in Timers \cup {NULL}
    /\ h.used \subseteq Timers
    /\ h.next \in [Timers -> Timers \cup {NULL}] /\ h.prev \in [Timers -> Timers \cup {NULL}]
    /\ h.time \in [Timers -> Nat] /\ h.owner \in [Timers -> Slots]
    /\ slot \in [Slots -> Timers \cup {NULL}]
    /\ alive \subseteq Streams /\ done \in BOOLEAN /\ now \in 0..MaxTime
    /\ pc \in {"idle", "start", "loop", "run", "proc", "cleanup", "freed"}
    /\ cur \in Timers \cup {NULL} /\ saved \in Timers \cup {NULL}

\* The pointers stay a list through every insertion, removal and resort, also
\* those a callback makes under tmr_run: prev and next of list_add and
\* list_remove agree, the list ends, it is sorted (all tmr_timeout and tmr_run
\* look at is its first timer), and every struct is on exactly one of the two
\* lists.
WellLinked ==
    LET at == Walk(h.next, h.head)
    IN  /\ at[Cardinality(Timers)] = NULL
        /\ h.head # NULL => h.prev[h.head] = NULL
        /\ \A t \in Active : h.next[t] # NULL =>
               h.prev[h.next[t]] = t /\ h.time[t] <= h.time[h.next[t]]
        /\ Active \cap Free = {}
        /\ Active \cup Free = h.used

\* The pointers a test keeps (test->timer, sp->send_timer, ...) point to
\* scheduled timers of their own.  One that outlived its timer would later
\* cancel or reset whatever timer has got the struct since.
SlotsScheduled ==
    \A s \in Slots : slot[s] # NULL => slot[s] \in Active /\ h.owner[slot[s]] = s

\* timer.h calls tmr_cancel "Deschedule a timer", but tmr_run has fetched its
\* next timer before the callback.  A timer that runs although it is descheduled
\* is the send timer of a stream that the server's watchdog has just freed: no
\* other callback, and no reset or reuse of a struct, makes tmr_run go astray.
RunsScheduled ==
    (pc \in {"run", "freed"} /\ cur # NULL /\ h.time[cur] <= now /\ cur \notin Active) =>
        /\ role = "server" /\ done
        /\ h.owner[cur] \in Streams \ alive /\ role \in Paced

\* Nothing of a test survives it: between two tests no timer is scheduled.
NoTimerLeft == pc = "idle" => Active = {}

\* The duration timer fires: a running test with a duration becomes done, or
\* ends before, however the omit period and periodic timers rearrange the list.
TimerFires == (pc = "loop" /\ Duration # 0) ~> (done \/ pc \in {"cleanup", "idle"})
=============================================================================
