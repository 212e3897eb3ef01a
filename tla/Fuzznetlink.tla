---------------------------- MODULE Fuzznetlink ----------------------------
(***************************************************************************)
(* 2019-07-kernel-fuzzing: fuzznetlink stands between AFL and the kernel.  *)
(* To AFL it is a fork server (forksrv.c), but it starts no child: every   *)
(* "child" is one test of netlink in its own process.  It collects the     *)
(* kernel's coverage (kcov.c) into AFL's map, reads /dev/kmsg for crashes  *)
(* and moves to new network namespaces (namespace.c).                      *)
(*                                                                         *)
(* AFL, the kernel's log, coverage and namespaces are external, modelled   *)
(* by what the program relies on.  A test's bytes are left out: a test is  *)
(* the locations and log lines the kernel answers it with.                 *)
(***************************************************************************)
EXTENDS Integers, Sequences, FiniteSets, SequencesExt

CONSTANTS
    Locations,   \* in the kernel
    Tests,       \* records [trace, lines]: a test's locations, and its log
                 \* lines (TRUE: one that strstr takes for a crash)
    Noise,       \* what the kernel executes inside the ioctls of kcov
    Cells,       \* cells of AFL's map
    Cell,        \* the cell of a step from a location (or Origin) to the next
    Origin,      \* afl_prev_loc = 0
    Middle,      \* of a counter of the map: 128 of its 256 values
    COVER_SIZE,  \* words of the coverage buffer, its counter included
    RingCap,     \* lines the kernel's log keeps
    MaxRuns,     \* bound: tests
    MaxLog,      \* bound: log lines in a behaviour
    MaxLate,     \* bound: of them, lines that belong to no running test
    Options      \* records [forksrv, no_kcov, one_run, netns]

ASSUME FuzznetlinkAssumption ==
    /\ Tests \subseteq [trace : Seq(Locations), lines : Seq(BOOLEAN)]
    /\ Noise \subseteq Seq(Locations)
    /\ Cell \in [(Locations \cup {Origin}) \X Locations -> Cells]
    /\ Middle \in Nat \ {0} /\ COVER_SIZE \in Nat \ {0} /\ RingCap \in Nat \ {0}
    /\ MaxRuns \in Nat /\ MaxLog \in Nat /\ MaxLate \in Nat
    /\ Options \subseteq [forksrv : BOOLEAN, no_kcov : BOOLEAN, one_run : BOOLEAN, netns : Nat]

VARIABLES
    \* the program
    state,       \* the options; state.forksrv: forksrv_on
    pc, run_no, force_new_netns, loaded, crashed, kcov_len,
    \* AFL
    apc,         \* "hello", "ready", "pid", "status" or "stopped"
    request,     \* the test case in the input file: AFL's requests so far
    ctl,         \* requests in the pipe 198; what they say is never used
    st,          \* the pipe 199
    verdicts,    \* the statuses AFL has read
    afl_area,    \* the shared map
    \* the kernel
    cover, tracing,
    ns,          \* the process's network namespace; 0 is the machine's
    log, seen,   \* all log lines; the next one /dev/kmsg gives
    \* history
    trace,       \* locations of the current test
    home,        \* namespace of every run, by run_no + 1
    denied,      \* runs (by run_no + 1) whose unshare failed with ENOSPC
    overrun      \* runs (by run_no + 1) that found the log overwritten

aflVars == <<apc, request, verdicts>>
kcovVars == <<cover, tracing, kcov_len, trace>>
nsVars == <<ns, force_new_netns, home, denied>>
logVars == <<log, seen, crashed, overrun>>
vars == <<state, pc, run_no, loaded, ctl, st, afl_area, aflVars, kcovVars, nsVars, logVars>>

Clean == [c \in Cells |-> 0]

Init ==
    /\ state \in Options
    /\ pc = "welcome" /\ run_no = 0 /\ loaded = 0 /\ crashed = FALSE
    /\ force_new_netns = TRUE /\ kcov_len = 0
    /\ apc = "hello" /\ request = 0 /\ verdicts = <<>>
    /\ ctl = 0 /\ st = <<>> /\ afl_area = Clean
    /\ cover = <<>> /\ tracing = FALSE /\ trace = <<>>
    /\ ns = 0 /\ home = <<>> /\ denied = {}
    /\ log \in {<<>>, <<[crash |-> TRUE, run |-> 0, late |-> FALSE]>>}
    /\ seen = 1 /\ overrun = {}

-----------------------------------------------------------------------------
(* forksrv.c and the preparations of main.                                 *)

Tell(msg) == st' = IF state.forksrv THEN Append(st, msg) ELSE st

Welcome ==
    /\ pc = "welcome"
    /\ Tell([kind |-> "hello", input |-> 0, value |-> 0])
    /\ pc' = "open"
    /\ UNCHANGED <<state, run_no, loaded, ctl, afl_area, aflVars, kcovVars, nsVars, logVars>>

\* kcov_new, and lseek(SEEK_END) on /dev/kmsg.
OpenKernel ==
    /\ pc = "open"
    /\ seen' = Len(log) + 1
    /\ pc' = "cycle"
    /\ UNCHANGED <<state, run_no, loaded, ctl, st, afl_area, aflVars, kcovVars, nsVars,
                   log, crashed, overrun>>

\* Wait for AFL's request; claim a child.  Outside AFL there is no wait.
forksrv_cycle ==
    /\ pc = "cycle"
    /\ IF state.forksrv THEN ctl > 0 /\ ctl' = ctl - 1
                        ELSE run_no < MaxRuns /\ ctl' = ctl
    /\ Tell([kind |-> "pid", input |-> request, value |-> 0])
    /\ pc' = "load"
    /\ UNCHANGED <<state, run_no, loaded, afl_area, aflVars, kcovVars, nsVars, logVars>>

\* AFL has closed the pipe: read gives 0 bytes and PFATAL ends the program.
Hangup ==
    /\ pc = "cycle" /\ state.forksrv /\ ctl = 0 /\ apc = "stopped"
    /\ pc' = "dead"
    /\ UNCHANGED <<state, run_no, loaded, ctl, st, afl_area, aflVars, kcovVars, nsVars, logVars>>

\* PFATAL of the system calls that may fail: kcov_new and open, read(stdin),
\* unshare, KCOV_ENABLE and KCOV_DISABLE.
Fatal ==
    /\ \/ pc \in {"open", "load", "netns"}
       \/ pc \in {"enable", "disable"} /\ ~state.no_kcov
    /\ pc' = "dead"
    /\ tracing' = FALSE
    /\ UNCHANGED <<state, run_no, loaded, ctl, st, afl_area, aflVars, nsVars, logVars,
                   cover, kcov_len, trace>>

-----------------------------------------------------------------------------
(* One test.                                                               *)

\* Read the input; the file holds AFL's current test case.
LoadInput ==
    /\ pc = "load"
    /\ loaded' = request
    /\ kcov_len' = 0
    /\ pc' = "netns"
    /\ UNCHANGED <<state, run_no, ctl, st, afl_area, aflVars, cover, tracing, trace, nsVars, logVars>>

\* Broken variant: a crash is no reason to move.
NewNetnsByCountOnly == run_no = 0 \/ (state.netns # 0 /\ run_no % state.netns = 0)

NewNetnsDue == force_new_netns \/ (state.netns # 0 /\ run_no % state.netns = 0)

\* netns_new gives up silently on ENOSPC; the caller takes it for done.
CycleNetns ==
    /\ pc = "netns" /\ NewNetnsDue
    /\ \/ ns' = Len(home) + 1 /\ denied' = denied
       \/ ns' = ns /\ denied' = denied \cup {run_no + 1}
    /\ home' = Append(home, ns')
    /\ force_new_netns' = FALSE
    /\ pc' = "enable"
    /\ UNCHANGED <<state, run_no, loaded, ctl, st, afl_area, aflVars, kcovVars, logVars>>

KeepNetns ==
    /\ pc = "netns" /\ ~NewNetnsDue
    /\ home' = Append(home, ns)
    /\ pc' = "enable"
    /\ UNCHANGED <<state, run_no, loaded, ctl, st, afl_area, aflVars, kcovVars, logVars,
                   ns, force_new_netns, denied>>

Upto(locs, n) == SubSeq(locs, 1, IF n < Len(locs) THEN n ELSE Len(locs))

\* The kernel appends to the buffer what fits behind the counter.
Recorded(c, locs) == c \o Upto(locs, COVER_SIZE - 1 - Len(c))

\* Broken variant: the buffer is only reset before the ioctl.
ResetOnce(c, locs) == Recorded(<<>>, locs)

\* The counter is reset before KCOV_ENABLE and again after it: the way out of
\* the ioctl is traced already.  Nothing is left of either.
Restarted(c, locs) == <<>>

kcov_enable ==
    /\ pc = "enable"
    /\ IF state.no_kcov THEN UNCHANGED <<cover, tracing>>
       ELSE /\ \E locs \in Noise : cover' = Restarted(cover, locs)
            /\ tracing' = TRUE
    /\ trace' = <<>>
    /\ pc' = "test"
    /\ UNCHANGED <<state, run_no, loaded, ctl, st, afl_area, aflVars, kcov_len, nsVars, logVars>>

\* socket, bind, sendmsg, recvmsg and close: whatever fails on the way, the
\* kernel has executed something and has perhaps logged something.
Test ==
    /\ pc = "test"
    /\ \E t \in Tests :
        /\ Len(log) + Len(t.lines) <= MaxLog
        /\ trace' = t.trace
        /\ cover' = IF tracing THEN Recorded(cover, t.trace) ELSE cover
        /\ log' = log \o [i \in DOMAIN t.lines |->
                            [crash |-> t.lines[i], run |-> run_no + 1, late |-> FALSE]]
    /\ pc' = "disable"
    /\ UNCHANGED <<state, run_no, loaded, ctl, st, afl_area, aflVars, tracing, kcov_len, nsVars,
                   seen, crashed, overrun>>

\* The length is read before the ioctl, whose way in is traced as well.
kcov_disable ==
    /\ pc = "disable"
    /\ IF state.no_kcov THEN UNCHANGED <<cover, tracing, kcov_len>>
       ELSE /\ kcov_len' = Len(cover)
            /\ \E locs \in Noise : cover' = Recorded(cover, locs)
            /\ tracing' = FALSE
    /\ pc' = "map"
    /\ UNCHANGED <<state, run_no, loaded, ctl, st, afl_area, aflVars, trace, nsVars, logVars>>

\* Broken variant: an overflowing counter starts at 0 again.
BumpWrapping(area, c) == [area EXCEPT ![c] = (@ + 1) % (2 * Middle)]

\* A counter that overflows drops to the middle, AFL's largest class.
Bump(area, c) == [area EXCEPT ![c] = IF @ + 1 = 2 * Middle THEN Middle ELSE @ + 1]

\* The cells a sequence of locations walks through.
Steps(locs) == [i \in DOMAIN locs |-> Cell[IF i = 1 THEN Origin ELSE locs[i - 1], locs[i]]]

FillMap ==
    /\ pc = "map"
    /\ afl_area' = FoldLeft(Bump, afl_area, Steps(SubSeq(cover, 1, kcov_len)))
    /\ crashed' = FALSE
    /\ pc' = "dmesg"
    /\ UNCHANGED <<state, run_no, loaded, ctl, st, aflVars, kcovVars, nsVars, log, seen, overrun>>

-----------------------------------------------------------------------------
(* The log and the verdict.                                                *)

Oldest == IF Len(log) > RingCap THEN Len(log) - RingCap + 1 ELSE 1

\* Broken variant: one read per test.
ReadKmsgOnce ==
    /\ pc = "dmesg"
    /\ IF seen \in Oldest .. Len(log)
       THEN crashed' = log[seen].crash /\ seen' = seen + 1
       ELSE UNCHANGED <<crashed, seen>>
    /\ pc' = "status"
    /\ UNCHANGED <<state, run_no, loaded, ctl, st, afl_area, aflVars, kcovVars, nsVars, log, overrun>>

\* One line per read.
ReadKmsg ==
    /\ pc = "dmesg" /\ seen \in Oldest .. Len(log)
    /\ crashed' = (crashed \/ log[seen].crash)
    /\ seen' = seen + 1
    /\ UNCHANGED <<state, pc, run_no, loaded, ctl, st, afl_area, aflVars, kcovVars, nsVars, log, overrun>>

\* Broken variant: the log is opened without O_NONBLOCK.
KmsgBlocking == pc = "dmesg" /\ seen > Len(log) + 1 /\ UNCHANGED vars

\* EAGAIN: everything is read.
KmsgEmpty ==
    /\ pc = "dmesg" /\ seen = Len(log) + 1
    /\ pc' = "status"
    /\ UNCHANGED <<state, run_no, loaded, ctl, st, afl_area, aflVars, kcovVars, nsVars, logVars>>

\* EPIPE: the next line is overwritten already.  The read moves to the oldest
\* line that is left, and the loop takes the error for the end.
KmsgOverrun ==
    /\ pc = "dmesg" /\ seen < Oldest
    /\ seen' = Oldest
    /\ overrun' = overrun \cup {run_no + 1}
    /\ pc' = "status"
    /\ UNCHANGED <<state, run_no, loaded, ctl, st, afl_area, aflVars, kcovVars, nsVars, log, crashed>>

\* Broken variant: a status only for a crash.
StatusOfCrash ==
    /\ pc = "status"
    /\ st' = IF crashed THEN Append(st, [kind |-> "status", input |-> loaded, value |-> 139]) ELSE st
    /\ force_new_netns' = (force_new_netns \/ crashed)
    /\ pc' = "cycle" /\ run_no' = run_no + 1
    /\ UNCHANGED <<state, loaded, ctl, afl_area, aflVars, kcovVars, ns, home, denied, logVars>>

forksrv_status ==
    /\ pc = "status"
    /\ Tell([kind |-> "status", input |-> loaded, value |-> IF crashed THEN 139 ELSE 0])
    /\ force_new_netns' = (force_new_netns \/ crashed)
    /\ IF state.one_run THEN pc' = "end" /\ run_no' = run_no
                        ELSE pc' = "cycle" /\ run_no' = run_no + 1
    /\ UNCHANGED <<state, loaded, ctl, afl_area, aflVars, kcovVars, ns, home, denied, logVars>>

Program ==
    \/ Welcome \/ OpenKernel \/ forksrv_cycle \/ Hangup \/ Fatal
    \/ LoadInput \/ CycleNetns \/ KeepNetns \/ kcov_enable \/ Test \/ kcov_disable \/ FillMap
    \/ ReadKmsg \/ KmsgEmpty \/ KmsgOverrun \/ forksrv_status

\* Lines the kernel logs by itself, or late for an earlier test.
LateLine ==
    /\ Len(log) < MaxLog /\ pc \notin {"dead", "end"}
    /\ Cardinality({l \in DOMAIN log : log[l].late}) < MaxLate
    /\ \E crash \in BOOLEAN : log' = Append(log, [crash |-> crash, run |-> 0, late |-> TRUE])
    /\ UNCHANGED <<state, pc, run_no, loaded, ctl, st, afl_area, aflVars, kcovVars, nsVars,
                   seen, crashed, overrun>>

-----------------------------------------------------------------------------
(* AFL, as the comments of forksrv.c describe it.                          *)

AflHello ==
    /\ apc = "hello" /\ st # <<>>
    /\ st' = Tail(st) /\ apc' = "ready"
    /\ UNCHANGED <<state, pc, run_no, loaded, ctl, afl_area, request, verdicts, kcovVars, nsVars, logVars>>

\* A new test case and an empty map, then the request.
AflRequest ==
    /\ apc = "ready" /\ request < MaxRuns
    /\ request' = request + 1 /\ afl_area' = Clean
    /\ ctl' = ctl + 1 /\ apc' = "pid"
    /\ UNCHANGED <<state, pc, run_no, loaded, st, verdicts, kcovVars, nsVars, logVars>>

AflPid ==
    /\ apc = "pid" /\ st # <<>>
    /\ st' = Tail(st) /\ apc' = "status"
    /\ UNCHANGED <<state, pc, run_no, loaded, ctl, afl_area, request, verdicts, kcovVars, nsVars, logVars>>

\* On a timeout AFL kills the claimed child, which is nobody's, and reads on.
AflStatus ==
    /\ apc = "status" /\ st # <<>>
    /\ verdicts' = Append(verdicts, Head(st))
    /\ st' = Tail(st) /\ apc' = "ready"
    /\ UNCHANGED <<state, pc, run_no, loaded, ctl, afl_area, request, kcovVars, nsVars, logVars>>

\* The user stops AFL between two tests, or the fork server is gone.
AflStop ==
    /\ \/ apc = "ready"
       \/ apc \in {"hello", "pid", "status"} /\ st = <<>> /\ pc \in {"dead", "end"}
    /\ apc' = "stopped"
    /\ UNCHANGED <<state, pc, run_no, loaded, ctl, st, afl_area, request, verdicts, kcovVars, nsVars, logVars>>

AflReads == AflHello \/ AflPid \/ AflStatus
Afl == state.forksrv /\ (AflReads \/ AflRequest \/ AflStop)

Next == Program \/ LateLine \/ Afl
Spec == Init /\ [][Next]_vars

\* The program runs on, and AFL reads what is in its pipe or sees it closed.
FairSpec == Spec /\ WF_vars(Program) /\ WF_vars(state.forksrv /\ AflReads)
                 /\ WF_vars(state.forksrv /\ pc \in {"dead", "end"} /\ AflStop)

-----------------------------------------------------------------------------
(* Properties.                                                             *)

Message == [kind : {"hello", "pid", "status"}, input : 0 .. MaxRuns, value : {0, 139}]
Line == [crash : BOOLEAN, run : 0 .. MaxRuns, late : BOOLEAN]

\* The states of the program, of AFL and of the kernel; a pipe never holds
\* more than a pid and a status (or the hello), a counter stays in its width
\* and coverage in its buffer.
TypeOK ==
    /\ state \in Options
    /\ pc \in {"welcome", "open", "cycle", "load", "netns", "enable", "test", "disable", "map",
              "dmesg", "status", "end", "dead"}
    /\ run_no \in 0 .. MaxRuns /\ loaded \in 0 .. request /\ crashed \in BOOLEAN
    /\ force_new_netns \in BOOLEAN /\ tracing \in BOOLEAN
    /\ kcov_len \in 0 .. Len(cover) /\ Len(cover) < COVER_SIZE
    /\ apc \in {"hello", "ready", "pid", "status", "stopped"}
    /\ request \in 0 .. MaxRuns /\ ctl \in 0 .. 1
    /\ st \in Seq(Message) /\ Len(st) <= 2 /\ verdicts \in Seq(Message)
    /\ afl_area \in [Cells -> 0 .. 2 * Middle - 1]
    /\ home \in Seq(0 .. MaxRuns) /\ ns \in 0 .. Len(home)
    /\ denied \subseteq DOMAIN home /\ overrun \subseteq DOMAIN home
    /\ log \in Seq(Line) /\ seen \in 1 .. Len(log) + 1

\* AFL and the program stay in step: what AFL reads next is of the kind it
\* takes it for, the i-th status is about the i-th test case, and nothing is
\* on its way when AFL is idle.  AFL's timeouts do not break this: there is no
\* child to kill (forksrv.c, fuzznetlink.c:107).
LockStep ==
    /\ TypeOK
    /\ apc \in {"hello", "pid", "status"} /\ st # <<>> => Head(st).kind = apc
    /\ apc = "ready" => st = <<>> /\ ctl = 0
    /\ \A i \in DOMAIN verdicts : verdicts[i].kind = "status" /\ verdicts[i].input = i

Hits(c) == LET walk == Steps(Upto(trace, COVER_SIZE - 1))
           IN  Cardinality({i \in DOMAIN walk : walk[i] = c})

\* When AFL gets its verdict, the map counts the steps of this test alone, as
\* far as the buffer goes: nothing of kcov's own ioctls, nothing of an earlier
\* test, and no counter that has wrapped to a smaller class
\* (fuzznetlink.c:226-240, kcov.c:51-79).
MapIsTheTest ==
    pc \in {"dmesg", "status"} /\ state.forksrv =>
        \A c \in Cells :
            IF state.no_kcov THEN afl_area[c] = 0
            ELSE IF Hits(c) < 2 * Middle THEN afl_area[c] = Hits(c)
            ELSE afl_area[c] >= Middle

\* A crash the kernel logs during a test is reported with this test, unless
\* the log was overwritten before it was read (fuzznetlink.c:252-278).  None is
\* reported twice, or for a line from before the start: the tests reported as
\* crashing are no more than the crash lines logged since (fuzznetlink.c:131).
CrashBlamed ==
    /\ \A i \in DOMAIN verdicts :
        i \notin overrun /\ (\E l \in DOMAIN log : log[l].crash /\ log[l].run = i /\ ~log[l].late)
            => verdicts[i].value = 139
    /\ Cardinality({i \in DOMAIN verdicts : verdicts[i].value = 139})
        <= Cardinality({l \in DOMAIN log : log[l].crash /\ (log[l].run > 0 \/ log[l].late)})

\* The test after a reported crash does not run in the namespace of the
\* crash, unless the kernel had no namespace left (fuzznetlink.c:170-175).
CrashIsolated ==
    \A i \in DOMAIN verdicts :
        verdicts[i].value = 139 /\ i + 1 \in DOMAIN home
            => home[i + 1] # home[i] \/ i + 1 \in denied

\* Every request is answered or AFL sees the pipe closed; the kernel's log has
\* an end (MaxLog), or reading it would not have one either.
Answered == apc \in {"pid", "status"} ~> apc \in {"ready", "stopped"}
=============================================================================
