# TLA+ models of the cloudflare-blog programs

The repository is a collection of programs that accompany blog articles. Most are
short experiments; some are real programs with state, concurrency or an algorithm
worth verifying. They are independent of each other: they share a repository and no
code, so there is a model for each program (or family of interchangeable programs)
and no system-wide composition. Within a family the programs are composed: AFL with
its fork server, clients with the four echo servers, callers with each other and the
kernel, three servers that pass each other connections, a panel with two workers.

`PROJECT.json` lists every component, run, mutant, mapped line, hazard and theorem.
Source paths below are relative to `src/`. The map covers 31 % of the implementation
lines; most of the rest is vendored headers and generated code (section 1).

## 1. Inventory

### Modelled

| Program | State | Operations | What is hard | What makes it correct |
|---|---|---|---|---|
| `2020-02-mmuniq/mmuniq.c` | read buffer, queue of line pointers, output buffer, hash table and its successor | read, split, queue, insert in batches, write, carry the partial line, double the table | streams cut anywhere, pointers into a buffer that moves, probe limit and wrap, a resize that loses hashes | every character in exactly one line; a line suppressed only when its hash was written or an overflow counted; reachable hashes |
| `mmuniq-hash.c` | read buffer, fixed table, counters | read, split, probe, print | the same without a resize; sizing of the table | overflow accounting, room for the estimated number of lines |
| `mmuniq-bloom.c` | read buffer, bitmap | rounds of eight hashes, test and set, print | uninitialised hashes in a partial round, false positives | a line is left out iff the bits of lines written before cover it |
| `2019-02-tcp-splice/test-burst.c` | bytes to send and to receive, vector of buffers | connect, non-blocking send, receive, print, close | the moment it may block | ends whatever the buffers hold |
| `echo-naive.c`, `echo-splice.c`, `echo-iosubmit.c`, `echo-sockmap{,-kern}.c`, `net.c`, `iosubmit.h` | one buffer, one pipe per connection, two control blocks and a completion ring, a map of sockets | accept, read, write, redirect, poll, close | short writes, resets, signals, state left over between connections, bytes that come before the map knows the socket | bytes come back once, in order, on their own connection |
| `2021-03-obj-file/{1,2,3,4/2,4/3}/loader.c` | section copies, jump table, relocated fields, page protections | load, parse, look up, relocate, protect, call | layout on pages, relocation arithmetic, size of the jump table | every reference leads to its symbol; no access against a protection |
| `2019-07-kernel-fuzzing/src` (fuzznetlink, forksrv, kcov, namespace) | two pipes, coverage buffer, AFL's map, position in the kernel log, namespace | fork server cycle, namespace change, test, coverage, log, status | a protocol of bare words, stale coverage, log lines that come late or are overwritten | statuses belong to their test case; the map is this test's; crashes are blamed on their test |
| `2022-02-connectx/connectx.py` (UDP) | the kernel's table of bound sockets with SO_REUSEADDR as a lock | route, port search, bind, lock, lookup, connect, unlock, clean up | two callers between bind and lock, failures inside the critical section | a 4-tuple belongs to one connection; no port left locked; no failure without need |
| `2020-12-mmdist` (six programs) | rows, transposed prefixes, lines of a pass, minimum so far | load, read a pass, compare, prune by prefix, print | lanes that saturate, a minimum that changes while a mask is walked, passes cut short | the nearest row, for every program; every line before a bad one answered |
| `2018-11-scm-rights` (c_serv, go_serv, rust_serv) | who holds which descriptor, two accept queues, the socket's path | accept, peek, answer, hand over, close, collect garbage | a peek of half a message, a path taken over, dying receivers, descriptors the collector has not closed | one answer, from the right server; a connection ends once everyone is done with it |
| `2024-12-e-paper` (panel, rendering worker, weather worker) | ETag and picture of the panel, two caches, browser sessions | fetch, cache, find, connect or launch a session, render, disconnect | requests between listing and connecting, late writers to a cache, an ETag kept for a picture not drawn | one request per browser; a 304 only of what is shown; the panel comes up to date |
| `2018-07-dropping-packets` (six loops and `xdp-drop-ebpf.c`) | counters, received lengths; position in a frame | receive, sum, print on SIGALRM; walk over headers | a handler between two instructions, empty datagrams, header bounds | no packet uncounted; of frames without IP options exactly the benchmark's traffic dropped |
| `2015-12-nm-single-rx-queue/main.c` | the ring's cursors, flags of slots, frames of this second | poll, print the rate, scan the ring | the card fills slots meanwhile, buffers keep the bytes of earlier frames | every frame counted once; exactly whole ARP and ICMP headers given to the host |

### Not modelled

Planned (section 2): the TCP port buckets of `2023-03-quantum-state-of-tcp-port` with
the TCP half of connectx, finalization-registry, the io_uring pool, io-submit,
tcp-keepalives.

Left out for good:

* `csiphash.c`, `siphash.c`, `pyratemp.py`, `bpf.h`, `bpf_helpers.h`: vendored code.
* accept-balancing, time-out, ebpf, rmem-a: single loops, single
  comparisons or settings whose behaviour is the kernel's.
* memory-refresh, branch-prediction, bpf-tail-call, ebpf-alu32: measurements of
  hardware or of generated instruction sequences.
* SystemTap, bpftrace and set-up scripts, nginx, vector, Prometheus, Grafana and
  ClickHouse configurations: no program state.

Of the e-paper programs two parts are left out: the look of the page
(`entry.py`'s template) and the conversion of a screenshot to the panel's bits
(`index.ts:11-65`), which is a function of the picture alone. Option parsing,
formatted output and set-up that either succeeds or ends the program keep no state
and appear only as the guards and error exits they cause.

## 2. Plan

Done, in this order: mmuniq (with proofs); mmuniq-hash and mmuniq-bloom; the echo
servers; the loaders; fuzznetlink; connectx (UDP); then echo-sockmap as a fourth
echo server, mmdist, scm-rights, e-paper (both with proofs), dropping-packets (with a
proof for the XDP program) and the netmap receiver beside it; then the proofs of
fuzznetlink, connectx and the echo servers, of mmuniq-hash and mmuniq-bloom, and of
the receive loops and the netmap receiver.

Left:

1. `TcpPorts`: bind buckets with fastreuse as `test_fastreuse.py` and
   `test_fastreuse_states.py` expect them, connectx's TCP half on top. It takes the
   place of connectx's external table in a common run; an abstract specification, a
   map from 4-tuples to owners, goes with it.
2. `WasmBuffers` (a buffer freed once and never used afterwards, with the collector
   as a process), `AioRing` (`aio_poll.c`; the ring of `iosubmit.h` is in
   `EchoIosubmit` already), `UringPool`.
3. Further proofs: the layout lemma of the loaders (regions are disjoint, so
   `NoFault`), `EveryLineAnswered` of mmdist, then its passes against `Nearest`.

Abstract specifications: `UniqFilter` (implemented by mmuniq) and `EchoPromise`
(implemented by the four echo servers). mmdist is checked against a reference
definition, the nearest row.

There is one passing run for each program or family. When a later module composes
with an earlier one, its properties move into the common run.

## 3. Modules

```
 UniqFilter   HashTable            LineReader              EchoPromise
       \       /      \             /       \                   |
        Mmuniq        MmuniqHash            MmuniqBloom    EchoServers = Echo + EchoNaive
       /      \              \              /                   |            + EchoSplice
  MCMmuniq   MmuniqProofs     \            /                  MCEcho,        + EchoIosubmit
                   |         UniqFixed - MCUniqFixed         EchoProofs      + EchoSockmap
                   +-------------- UniqFixedProofs

 ObjLoader - MCObjLoader     Fuzznetlink - MCFuzznetlink, FuzznetlinkProofs
 Connectx - MCConnectx, ConnectxProofs         ScmRights - MCScmRights, ScmProofs
 Mmdist - MCMmdist
 EPaper - EPaperProofs       RecvLoops + XdpDrop + NmReceiver = DropPackets - MCDropPackets
                                                                            - DropPacketsProofs
```

### mmuniq: HashTable, Mmuniq, UniqFilter

`HashTable` is `hash_insert` as operators over a table: `Probes` is the loop at line
106 with its bound `h + OVERFLOW_AFTER` modulo `HashMod` (2^64 in the program),
`StopsAt` the slot where it ends, `Miss` its result, `Inserted` the table after it.

`Mmuniq` has one action per loop iteration and `pc` for the loop: `Read` and
`ReadError` (353-359, any number of bytes), `ScanLine` (one line queued in `c_lines`
as start, length and hash), `ScanEnd` (flush if the queue is full or the pass ends),
`FlushLine` (process_flush: insert and copy to `out_buf` if wanted), `FlushEnd`,
`Write`, `WriteError`, `Tail_` (carry the partial line, or the last line at the end
of input), `Grow`, `Rehash`, `RehashEnd`. The queue holds positions, not characters,
so that a moved buffer would be noticed. History variables: `original`, `taken`,
`processed`, `emitted`, `lost` (by a resize), `swallowed` (by an overflow).

`UniqFilter` is the promise: a set of remembered hashes decides, the hash 0 is never
remembered, and the set may shrink. Mapping: `seen` is what the table stores,
`written` the hashes of the lines copied to the output.

Observed: at the end of input the whole buffer is taken for a line (`mmuniq.c:382`),
with what earlier reads left in it, newlines included, against the comment above it
("We know there is no \n in the buffer"); and an insertion into the larger table may
overflow and lose a hash (line 404). The model does both. `WritesUniqueLines`, which
is about the resize loop, leaves that line out, and its run excludes the two other
reasons for a repeated line, the hash 0 and a probe that overflows.

### mmuniq-hash and mmuniq-bloom: LineReader, MmuniqHash, MmuniqBloom, UniqFixed

Both programs have the same read loop; `LineReader` models it with one action per
read or line and the two programs add what they do with a line. `MmuniqHash`
processes a line in one step, since nothing runs beside it. `MmuniqBloom` goes round
by round because the hazard is there: `res` is a local array of eight hashes per
round of which four may stay unset. An unset entry is the value `Unset`, and using
one is what `NoStaleHash` forbids. `SipState` and `Swap` are constants: any function.
`UniqFixed` runs one of the two (`kind`) on one input.

Observed and kept in the models: an unterminated last line is dropped by both
programs (mmuniq does process one); `-D` of mmuniq-hash prints a line that overflowed
although it may have occurred once, since an overflow is treated like a repeat.

### Echo: EchoPromise, Echo, EchoNaive, EchoSplice, EchoIosubmit, EchoSockmap, EchoServers

`Echo` is test-burst and the TCP connection: bytes are pairs (connection, position),
a direction is a sequence with a capacity (`UP`, `DOWN`), a connection has `fin` and
`rst`. A burst is a vector of buffers (`iov_cnt`, cut by `trunc_iov` to what may
still be sent). `told` records that sendmsg reported a reset, `printed` the
latencies. Each server module has its own locals and one action per system call: a
read may return fewer bytes than there are, a write fewer than asked. `EchoServers`
runs test-burst twice against one of the servers (`kind`), with or without
`signals`. Its accept queue is a sequence: the servers handle one connection at a
time, so the second client waits in the queue.

`EchoIosubmit` has the completion `ring` that `io_getevents` reads in user space
(`iosubmit.h`): results are put there by the kernel and taken by the program, into an
array that is zeroed before each call.

`EchoSockmap` is the user-space server together with the kernel's part: `slot` is the
map, `Verdict` the eBPF program, `Transmit` the kernel sending what it redirected.
The send buffer is set so large that it never fills, and the model takes that at its
word. Bytes that were in the socket before it entered the map are `early`: the
program is called when more arrive and is handed all of them then. So a client whose
last bytes come between accept and the map update waits for ever (`Stuck`), which
`ClientsFinish` allows for by name; the `sleep(1)` in test-burst makes it unlikely and
guarantees nothing. A signal interrupts poll, and the server takes that for the
client's end.

Observed: an interrupted send makes echo-naive go back to recv and forget the bytes
not yet sent, and echo-iosubmit never compares the write's result with what it asked
for; both need a signal without a handler to show, and the models include it. A
reset during sendmsg ends test-burst's burst and its time is printed as a latency
(`PrintedWhenReflected` states when a latency means what README.md:36-39 of the
program says). A short second splice is taken for impossible (`echo-splice.c:122`),
and a reset there ends the server. echo-splice never closes its pipes, so it ends
when descriptors run out (`MaxPipes`). The `tx` count echo-sockmap prints comes from
a structure it has just zeroed and is always 0. test-burst sends without MSG_NOSIGNAL: a
second write after a reset kills it (`ClientKilled`) before its handling of EPIPE at
line 128.

A connection can break in two ways. A reset (`Reset`) reaches both ends at once, and
the servers see ECONNRESET, which their code handles. A client can be interrupted
anywhere (`ClientInterrupted`): its kernel sends a FIN, answers what still comes back
with a reset (`Unwanted`), and the server's next write finds both (`Piped`). That is EPIPE,
and SIGPIPE for a caller that did not ask for none. echo-naive asks (`MSG_NOSIGNAL`,
`echo-naive.c:78`) and goes on to the next connection; `splice` and an `io_submit`ted write
cannot ask, so echo-splice and echo-iosubmit end (`SpliceOutReset`, `WritePiped`)
and every other connection with them: the branch for EPIPE at `echo-splice.c:104`
and the error of line 91 of `echo-iosubmit.c` are not reached. `ServerSurvives` says
which client does this, and that one that closed after its bursts never does, even if
its connection is reset then. echo-sockmap writes in the kernel and has no such step.

### ObjLoader

`loader` chooses one of five programs. A section is its size, a symbol a section and
an offset, a relocation a place, a type and what it refers to. `Layout` is the mmap
arithmetic, `Patch*` write the instruction fields as the code does, `Target` decodes
them as the processor would, `Meant` is where the symbol is, `lookup_function` finds
what is to be called. `Protect` sets the protections region by region, and calling a
function checks them. AArch64's loaders take eight bits from memory where twelve bits
of the address belong (the finding of `obj_loader_far`), and shift the upper bits of
the page difference by 22 where 3 is meant, into the opcode (`4/2/loader.c:214`): a
section four or more pages away would not be reached. Those objects are in no run; the
ones of `obj_loader` are nearer, as the example's is. A relocation of a type that the
switch does not list is passed over and its instruction stays as the assembler left it
(`Assembled`): two such types stand for all, an absolute address on x86-64 and a load
completing an ADRP. `ReferencesResolve` is about the listed types, and `NoFault` about
objects that have no others; nothing in the repository says what the rest should do.
The instruction cache is not modelled: 4/2 and 4/3 execute patched code without
flushing it.

### Fuzznetlink

The four files are one process: `pc` follows `main`. AFL is a second process that
follows the fork server protocol (hello, request, pid, status), the kernel a third
that adds late log lines. `st` is the status pipe as a sequence of tagged words (AFL
sees bare numbers, the tags show whether it takes them for what they are), `ctl` the
request pipe. `cover` is kcov's buffer without its counter, `seen` the position in
`log`, of which the kernel keeps `RingCap` lines.

Observed: `netns_new` gives up on ENOSPC and the caller takes the change for done, so
tests go on in the namespace of the one before (`denied` records it, and
`CrashIsolated` exempts them), although the program's README (line 178) says that
`--netns=1` gives each test one of its own; a log that was
overwritten makes the read fail with EPIPE, the loop takes it for the end, and a
crash is blamed later or not at all (`overrun`). AFL is told `getpid() + 1` as the child
and kills that on a timeout: the test goes on and its late status still counts for it,
which the model has; that such a process may exist and be someone else's it has not.

### Connectx

Each caller goes through `_connectx_udp` with one action per system call. The
kernel's table is `chain` (bound sockets, newest first) with `addr`, `peer` and
`reuse`. bind is refused unless both sides of every overlap have SO_REUSEADDR; a
lookup prefers connected over bound, an address over the wildcard, the newest among
equals. `Plain` is one more program that binds without sharing. `overlapped` is
history: whether anything else happened during a call.

Observed: connect(AF_UNSPEC) does not unbind a socket that was bound explicitly, so
the socket of a failed call stays bound (shared) until it is closed; an exception
of the lookup or of connect leaves the port locked (action `Raises`, the exception
`PortsUnlocked` makes); the temporary socket of `_get_src_route`
(line 181) is bound to a shared port as line 129 warns against. Threads in one
process would share the netlink socket `nl`; the model's callers are processes.

### Mmdist

`kind` chooses one of six programs, which share `Load`, `ReadLine` and `Report` and
differ in how a pass over the rows goes: every row, or prefixes first. A row is
`DIM` bytes, a prefix `MIXER_SIZE` of them. Prefix distances of the transposed AVX2
program are added in lanes that stop at `UINT16 - 1`; the mask of lanes worth a
second look is computed before the rows in it lower the minimum, and that order is kept.
A parsed text is a sequence of bytes in which one value stands for anything that is no
digit. `Nearest` is the reference definition, the answer of an exhaustive search, and
`FilterSolved` the tests' cut at the threshold; `MatchesTestVector` compares what is
printed with them.

### ScmRights

A connection is held by holders, not by counts: `refs[c]` says whether it is in the
kernel's accept queue, with c_serv, in a message on its way, in go_serv's file or
its duplicate, or with rust_serv. Descriptors are closed by `Release`, by the death
of a process (`CDies`, `SecondaryDies`) or by Go's collector (`GoFinalizer`), and a
connection ends for its client when the last holder lets go. `path` says whose socket
`/tmp/scm_example.sock` is: a secondary that starts takes it over and the one before
serves what it has queued. The four bytes come in two halves, and `Peek` decides on
what has arrived. Nobody survives an error: c_serv and the secondaries end as their
code does, by `err`, `panic`, `unwrap` or a failed type assertion.

Observed: while a connection is handed over c_serv ends if the secondary is between
unlink and listen; a client that sends "pass" in two segments, or closes before it
sends, is answered by the front.

### EPaper

`Refresh`, `FetchFails` and `Fetched` are the panel; every request of the rendering
worker runs from `KVGet` to `Disconnect` or `RenderThrows`, with visitors beside the
panel, and the weather worker runs inside the request whose browser loads the page
(`WeatherGet`, `WeatherFetch`, `WeatherPut`). A picture is what weather it shows and
whether it is marked as stale; its ETag is the picture. Minutes are ages that `Tick`
advances. A browser session is closed, free or connected to a request; a session
that nobody drives times out after ten minutes. Idle requests and closed sessions are
alike, so one is chosen (`Any`).

Observed: the ETag is kept before the length of the body is looked at, so that after
a broken transfer the panel is told 304 for a picture it never drew (`broken`); a
request that lost the free session to another one launches a new one although a
second free session exists, and throws when the limit is reached (index.ts:104).

### DropPackets: RecvLoops, XdpDrop, NmReceiver

`RecvLoops` has six programs that count what they receive. SIGALRM may come between
any two instructions. As the Makefile compiles them (`-O2`), the loops over a batch keep the sum
of bytes in a register (`reg`) and store it at the end, so that bytes printed by a
handler in between are printed again. The history variable `again` counts these, and
`Accounted` is an equality with it: nothing else is printed twice, nothing is missed,
and the programs that read one datagram at a time print nothing again. `XdpDrop` is the walk over Ethernet, up to two VLAN
tags, IP or IPv6 and UDP, with `seen` for the last byte read. `DropPackets` runs one
of the three.

`NmReceiver` is `receiver` of `2015-12-nm-single-rx-queue/main.c`: `Poll`, `PrintRate`
and, frame by frame, `Scan`. The network card (`NmArrive`) writes into the slots from
`filled` on at any moment and loses a frame when none is free. A slot's buffer keeps
the bytes that a shorter frame does not overwrite. What netmap does with `NR_FORWARD`
and `NS_FORWARD`, giving flagged slots to the host at the next poll, is external and
part of `Poll`. `ForwardsExactly` relates all that came to what is counted, printed
and given to the host; `NothingUncounted` is `Accounted` of the loops and
`ForwardsExactly` of the receiver.

Observed: the comment says "fd00::/8" where the code compares two bytes
(`xdp-drop-ebpf.c:68-69`); with IP options the port is read from the wrong place; the
README's `recvmmsg(16 packets)` is MAX_MSG 32 in the code.

## 4. Runs

| Run | Instance | Shows |
|---|---|---|
| `mmuniq` | inputs up to 5 characters over {a, b, newline}, buffer 3, queue 2, 3-bit hashes, probe limit 2, table from 1 slot | `ProbeChains`, `DuplicateOnlyAfterLoss`, `NoSilentSuppression`, `BatchSafe`, `StreamIntegrity`, `FilterSpec`, `Terminates` |
| `mmuniq_unique` | inputs up to 4, table from 2 slots, 4-bit hashes without 0, probe limit 4 | violation of `WritesUniqueLines`: a line is written twice because a resize skips the last slot (line 399) |
| `uniq_fixed` | inputs up to 6, buffer 3; tables of 1 to 4 slots; 0, 3, 5 and 13 hashes over 16 bits | `EveryLineOnce`, `OverflowExact`, `RoomForEstimate`, `NoStaleHash`, `WrittenIffUncovered` |
| `echo` | two clients, four servers, buffers 1 and 2, one connection reset or client interrupted, two pipes | `Conservation`, `PrintedWhenReflected`, `ServerSurvives`, `OrderKept`, `PromiseSpec`, `ClientsFinish` |
| `obj_loader` | five loaders, about 500 objects, some with types the loaders do not list, pages of 32 bytes | `ReferencesResolve`, `NoFault` |
| `obj_loader_far` | AArch64, a symbol behind the start of its section | violation of `ReferencesResolve` (line 199) |
| `fuzznetlink` | three tests, four kinds of test, five option sets | `LockStep`, `MapIsTheTest`, `CrashBlamed`, `CrashIsolated`, `Answered` |
| `connectx` | two callers, three calls, ports 1 to 3 with 3 reserved, two remotes | `Exclusive`, `PortsUnlocked`, `NoSpuriousFailure` |
| `mmdist` | 33 files of up to four rows of 4 bytes, 18 inputs of up to three lines, three thresholds; bytes of 2 bits, lanes of 4 | `MatchesTestVector`, `EveryLineAnswered` |
| `scm_rights` | two clients, both secondaries, one reset or kill, two descriptors for go_serv | `RightServer`, `NothingKept`, `EveryoneServed` |
| `epaper` | the panel and a visitor, two sessions, one change of weather, one fault | `SessionOwned`, `NotModifiedMeansShown`, `PanelCatchesUp` |
| `dropping` | five datagrams of 0, 1 or 3 bytes, two signals; 2,950 frames; a ring of three slots, four frames | `NothingUncounted`, `DropsBenchmark`, `LoopKeepsReceiving` |

Each passing run also checks its module's `TypeOK`, in most runs as a conjunct of the
first invariant named. For every property `PROJECT.json` names a broken variant
of a mapped definition that violates it.

### Bounds and why they are enough

* **mmuniq family.** Five characters with a buffer of three give a line carried once
  and twice, a line as long as the buffer, an empty line, and a queue of two that is
  flushed by being full and by the end of a pass. Starting from one slot the table
  doubles at least twice, which reaches the skipped last slot. With three bits some
  hash is 0, some collide, and some wrap around the probe limit.
  `OVERFLOW_AFTER = 2` makes overflow happen with three colliding lines. Thirteen
  hash functions need two rounds of eight with the last one partly filled.
* **echo.** `UP + BUFFER_SIZE + DOWN + 1` bytes is one more than all buffers on the
  way can hold, so the first client must receive before it has sent everything. The
  second connection shows what is left over from the first. One mishap, a reset or an
  interrupted client, may strike either of them at any point (`MaxMishaps`); the reset
  that answers an interrupted client's bytes does not count as a second.
* **obj_loader.** Sizes around one page (0, less, equal, more) and zero to two
  external calls of the same or different functions; deterministic programs, so
  more objects only repeat the same arithmetic.
* **fuzznetlink.** The third test sees what a crash of the first left behind. A
  counter of two bits (`Middle = 2`, half of its four values) overflows within the buffer of five locations, and a log of two
  lines is overwritten by a test with three.
* **connectx.** Two callers meet in every order of their steps, and a third call
  meets what two earlier ones left: connected, bound or locked. Three ports with one
  reserved make the search wrap, skip and run out.
* **mmdist.** Two squared differences of 2-bit bytes saturate a 4-bit lane; two rows
  fill a lane group and a third begins a second one; two lines fill a pass and a
  third begins one that is not filled. Files hold equal rows, rows near in the prefix
  and far behind it and the other way round, cut and malformed ones.
* **scm_rights.** Two clients with two secondaries meet at every step of a handover.
  `MaxFiles = 2` is the file and its duplicate of one connection: the second
  finds room only after the collector has run.
* **epaper.** Two requests race for each session, and two sessions are enough to
  lose one and find the limit. Ages go to two, one more than any lifetime.
* **dropping.** Five datagrams are more than the queue of three and more than two
  batches of two; two signals print once inside a batch and once behind it. Frame
  lengths are the end of each header and one byte less, under zero to three tags.
  The netmap ring of three slots holds two frames, so with four it wraps, is full, and
  each kind of frame is written over each other kind.

### Deadlock and fairness

`CHECK_DEADLOCK FALSE` is said of echo and scm_rights (servers wait in accept for
ever), of fuzznetlink (AFL has stopped), of connectx, epaper and dropping (the bounds are used
up, or a program has ended) and of mmdist (it has exited). The line filters and
loaders stutter in `Terminated` and are checked for deadlock.

* mmuniq: `WF_vars(Next)`. The program is one thread and every system call returns.
* echo: weak fairness of the server process (with echo-sockmap's kernel part) and of
  each client process with its host's TCP; none for resets, interruptions and signals,
  which need not happen. The
  operating system schedules every process that can run.
* fuzznetlink: weak fairness of the program, of AFL reading what is in its pipe and
  of AFL noticing that the pipe is closed. AFL may stop sending requests.
* scm_rights: weak fairness of the three servers, of clients sending or closing in
  the end, and of Go's collector, which the runtime forces every two minutes. Nobody
  has to connect, start or die.
* epaper: weak fairness of the panel's loop, of each request, of the clock and of the
  time-out of sessions nobody drives (they are launched with a keep-alive of ten minutes).
  Visitors, faults and weather need not come.
* dropping: weak fairness of the receiving loop. Datagrams, frames and signals need not come.
* The others state safety only.

## 5. Proofs

### mmuniq

The theorems of `MmuniqProofs` hold for every value of the constants that
satisfies the assumptions `SizeAssumption`, `InputAssumption` and `HashAssumption` of
`Mmuniq` and the assumption of `HashTable` (a buffer and a queue of at least one
element, an input over the characters and newline, a hash of every line that fits the
buffer). Hash width, probe limit, table size, fill rate, inputs and the hash function
are arbitrary.

* `TypeCorrect`: `Spec => []TypeOK`, one lemma per action.
* `InsertKeepsChains`, `InsertAnswersTruly`, `InsertStores`: `hash_insert` keeps every
  stored hash reachable, answers "new" or "present" truly, and stores exactly the
  hash. They rest on `StopUnique` (the probe loop ends at one place) and `MissCases`.
* `ChainsIntact`: `Spec => []ProbeChains`, for both tables while one is filled from
  the other.
* `MemoryTrue`, `DuplicatesExplained`, `SuppressionCounted`: from the inductive
  invariant `IInv == TypeOK /\ ProbeChains /\ Accounts`. `DuplicateOnlyAfterLoss`
  is not inductive by itself: a line is written when `Miss` says its hash is new,
  which is a statement about the table. `Accounts` therefore relates the table to
  the output: without -D the stored hashes are those written minus those lost, and
  `ProbeChains` is needed because only a reachable hash is recognised. A resize
  moves hashes to `lost` exactly when the new table does not get them.
* `BatchesSafe`, `StreamKept`: `Spec => []BatchSafe` and `Spec => []StreamIntegrity`,
  from a second inductive invariant, `TypeOK /\ BatchInv`, which TLC checked on the run's
  instance first. `Queue`: in a pass each queued line ends where the next one starts and the
  last one at `buf_pos`; the line of a full buffer is alone in the queue (`Whole`).
  `Room`: the output of a pass is no longer than what it has consumed, so that it fits
  `out_buf`. This needs `out_buf` to be empty before the line of a full buffer, also after a
  failed write: such a line comes only when the pass had no other. `Carried`
  says why: what is carried to the next pass holds no newline. `Stream`: what is processed,
  the bytes from the next line to flush to the end of the buffer, and the unread input
  are stdin. `PendingPass` equates those bytes with the recursion over the queue in
  `StreamIntegrity`, by an induction over sets of naturals (`Least`, `Induction`).
* `Refinement`: `Spec => FilterSpec`. A `FlushLine` is `New`, `Repeat` or, after an
  overflow, a stutter; the end of a resize is `Forget`; every other step stutters.

### mmuniq-hash and mmuniq-bloom

`UniqFixedProofs`: `FixedEveryLineOnce`, `FixedOverflowExact`, `FixedRoomForEstimate`,
`FixedNoStaleHash` and `FixedWrittenIffUncovered`, for any buffer and inputs
(`ReaderAssumption`), any hash of the lines, table size and probe limit
(`HashAssumption`), any number of hash functions, any size of the map and of its words,
and any `SipState` and `Swap` whose values are natural numbers (`BloomAssumption`). They follow from
`FixedInvariant`: `Spec => []IInv`. `IInv` has three parts:

* `ReaderInv`: the lines handed out, each with its newline unless it filled the
  buffer, then the bytes carried in the buffer and the unread input are the original input. Neither
  program writes a line the reader did not hand out, so everything else is said in
  terms of `lines`. `Join` is the recursion over lines as a function of a sequence;
  `JoinAppend` is shown by induction over sets of naturals.
* `HashInv`: stored hashes are reachable and are those of lines that came; without
  -D they are exactly those of the written lines but for 0, and `overflow_count` is
  the number of lines `LeftOut`. It uses `InsertStores`, `InsertAnswersTruly` and
  `InsertKeepsChains` of `MmuniqProofs` on this table. `MaskLarge` shows that the sizing loop ends
  above the estimate, and a table with more slots than different hashes has a free one.
* `BloomInv`: without -D the bit map is the union of the bits of the lines written
  and, while a line goes round, of those of its bits that were taken so far; `miss` is 0
  exactly if all of these were there before. That a round takes the bits it should, and no
  entry of res it did not fill in, is a lemma about `Filled` for every round of eight,
  partly filled ones too. Words and bits of the map are related to numbers by the
  uniqueness of quotient and remainder.

The proof changed the property. `OverflowExact` counted the lines left out that
repeat no written one; a line whose hash is 0 is written without being remembered,
so that its repetition can overflow and is then counted although a written line equals it.
No hash of the instance was 0. The property now names the case, and the
instance has it.

### The receive loops and the netmap receiver

`DropPacketsProofs`, `CountsAndForwards`: `Spec => []NothingUncounted`, for datagrams of
any length, any batch and queue size and number of signals (`LoopsAssumption`), and
for rings of any size and frames of which the short ones have no type or protocol
(`RingAssumption`). TLC checked both invariants on the run's instance first.

* `LoopInv` adds to `Accounted` where each kind of program can be and that lengths are
  left over in a batch only. `Kept` is what bytes will be once the loop over the batch
  has stored it, the register while the loop runs: with it the equality survives a
  signal there, which adds the bytes it prints to `again`. The sum over a batch is a recursive function of the
  lengths (`SumsAre`), and lengths beyond those received are 0 (`SumsAgree`).
* `NmInv` counts positions instead of indices: `G` frames given back, `Counted`, `T` in the
  program's view and `Len(came)`, in this order, less than `Slots` apart, and each
  index is its position modulo `Slots` (`RingArithmetic`). `SlotHolds` says of each
  position in the ring that its slot has that frame's buffer, that `filter_packet` decides
  there as it would of the frame alone (`FilterIsForHost`: a header left by an earlier
  frame lies behind the length), and that the flag is set exactly if the
  frame has been read and is for the host. Without it nothing would relate what poll
  gives to the host to what came. `HostHas` follows over one poll by induction over the
  slots given back (`GivenBackIs`, `HostNext`).

### The XDP program

`DropPacketsProofs`, `DropsExactly`: `Spec => []DropsBenchmark` for any non-empty set of
frames that satisfies `FramesAssumption`: every length and any number of VLAN tags.
The program's loop has a fixed bound of two rounds, so the invariant `XdpInv` says
where the walk stands after each (`Walking`: the offset is behind as many tags as
have been passed, the type is that of what comes there, and every byte up to it is
inside the frame) and what a verdict means (`Decided`).

### E-paper

`EPaperProofs`, `SessionsOwned` and `NotModifiedTrue`: for any number of requests,
sessions, changes and faults (`NamesAssumption` keeps the names apart). Neither property is
inductive. `IInv` adds to `TypeOK` that a request drives a session exactly while the session
names it and it is rendering (`Owned`), that a request that will show a picture has one
(`Pictured`), and that the panel's request carries the ETag the panel has, so that a
304 means the picture is the one of that ETag, which is shown unless a transfer broke
off (`Asked`). One lemma per action.

### Scm-rights

`ScmProofs`, `NoneKept` and `AnsweredRight`: `Spec => []NothingKept` and
`Spec => []RightServer` for any number of connections, descriptors, starts and faults (`ConnAssumption`
sets the name for no connection apart). The descriptors alone do not show who may
still answer, so `IInv` adds where a connection is: a server has one exactly while it
works on it (`Busy`); a connection waits once, in one queue, and not where it is
worked on (`Apart`); until it is handed over nobody but the front has touched it
(`Untouched`); each holder in `refs` is the server that works on it (`Holding`).
`Deciding` carries what `Peek` saw to the steps that act on it, and `Answered` is what
has been said. One lemma per action.

### Fuzznetlink

`FuzznetlinkProofs`: `InLockStep`, `TheMapIsTheTest`, `CrashesBlamed` and
`CrashesIsolated` (`Spec => []LockStep`, ...) for any tests, log lines, number of
runs, counter width, buffer and log size that satisfy `FuzznetlinkAssumption`. All
four follow from `Invariant`: `Spec => []IInv`, which TLC checked on the run's
instance first. Its parts, each with a lemma that has one case per action:

* `InStep`: what is in the two pipes for each state of AFL, and which `pc` goes with
  it. `LockStep` says only that the next word is the right one; that the word after
  it will be, too, needs the position of the program. Outside AFL (`Alone`) nothing
  is sent.
* `Homes`: every run has its namespace and namespaces are numbered in order, so a
  new one differs from the one before. `Moving`: a test with status 139, read or
  still in the pipe, has been left or `force_new_netns` is set.
* `Covering`: what kcov's buffer holds at each step, up to `kcov_len`, and that AFL's
  map is clean until it is filled.
* `Blaming`, `Reading`, `Counting`: the lines of a running test are in front of the
  reader or have set `crashed`; for each report a crash line has been read.

The map is a fold over the steps of a trace, and what a fold computes is shown by
induction. The library's induction theorems take an operator and cannot be used, so
`Induction` is a statement about a set of numbers, derived from the well-foundedness
of the finite subsets of Nat; `Folded` and `MapCounts` use it for the map's counters:
the number of hits below saturation, and at least `Middle` above. `Counted` compares
the numbers of reports and lines.

### Connectx

`ConnectxProofs`: `ConnectionsExclusive`, `NoPortLocked` (invariants) and
`FailuresJustified` (an action property), for any number of callers and calls, any
addresses, ports and reserved ports with at least one remote address. They follow
from `Invariant`: `Spec => []IInv`, checked by TLC on the run's instance before it was proved:

* `Holding`, `Strangers`: whether a caller's socket is bound at each line, to what,
  whether it is connected and whether it shares its address; the same for the sockets
  that are not of a call. A program that does not share overlaps nobody.
* `Newest`: from a lookup that found the socket until `connect`, nobody newer can be
  taken for it. This is what the lock is for: `Newcomer` shows that a socket comes
  into the table only if all it overlaps share.
* `Single`: two connections, made or decided on, differ in address or remote address.
  It is not inductive without `Newest`: of two callers between bind and connect on
  one address, the one that is not the newest must not find itself.
* `Undisturbed`: what a call that is alone knows. A port it found free can be bound
  (`ClearPort`), it is the newest, and what makes `Check` fail is a connection
  (`AloneFound`). `Passed` says what a search has seen, and `AllPorts` that a search
  from anywhere sees the whole range.

The table is a sequence; the lemmas `Bound1`, `Unbound1` and `FoundMeans` say what
binding, closing and a lookup mean for the order of sockets, and the rest of the
proof uses only those.

### Echo servers

`EchoProofs`: `Conserved`, `InOrderBack`, `Survives`, `Printed` (invariants) and
`Implements` (`Spec => PromiseSpec`, the refinement of `EchoPromise`), for each of the
four servers, any number of connections, bursts and resets, and buffers, pipes and
capacities of any size (`EchoAssumption`, `ServersAssumption`). They follow from
`Invariant`: `Spec => []IInv`. `Survives` needs a second one, `Settled`, proved under the first.

`Hold` is what a server has taken and not given back, whatever it keeps it in: the rest of
a buffer, a pipe, a buffer whose length is a result in the completion ring, or bytes
in flight behind the map. `Live` is a connection that waits or is served and was not
torn down. For such a connection `Whole`, which is what came back, what is held and
what arrives next, put together, is everything the client has sent, in order
(`Flow`); and what the client waits for is what it has not sent and what is
`UnderWay` (`Balance`). Neither is inductive alone:

* `Queue`: a connection waits or is served once, so that what is held belongs to one.
* `Attended`: without signals a connection that nobody closed or reset is `Live`.
  Without it the two parts above could be true of no connection.
* `Burst`: a latency is printed with nothing left to send or receive, so by
  `Balance` nothing is under way when the counters start again.
* `Inner`: what the locals mean. For echo-iosubmit this is `Results`: an error is a
  reset or a signal, and a read's result is the length of the buffer that the next
  write takes it for.

The servers differ in their steps and agree in their effects: `ServerEffect` names
eight (`Accepts`, `Moves`, `Gives`, `Idles`, `Ends`, `Closes`, `Exits`, `Starts`). One
lemma for each server shows that every step of it is one of the eight, and one lemma
for each effect what it does to any connection (`Outcome`: its bytes move on, it is
`Gone` for a reason, or a signal `Cut` out what was held). One lemma per step of a client
completes the invariant.

`Settled` says who is not to blame when a server ends. At a client's last print
`Balance` leaves nothing under way and `Flow` says that something came back
(`LastPrint`), and no step brings anything new to a closed connection (`AllBack`);
echo-splice's second splice always has bytes to write, and echo-iosubmit's write is
empty only before anything came back (`Writes`). So a write that meets a FIN and a reset
belongs to a client that was interrupted.

The refinement needs only that `Gives` is `Reflect`, since
what is shown is the beginning of what was sent (`Faithful`), and that all other
steps but the client's sends stutter.

### Only model-checked

All liveness (`Terminates`, `ClientsFinish`, `Answered`, `EveryoneServed`, `PanelCatchesUp`,
`LoopKeepsReceiving`), which is out of the prover's reach: it needs fairness and ENABLED.
`ReferencesResolve` and `NoFault` of the loaders: what `Patch*` writes and `Target` reads back
goes through pages, division by 4 and signed wrap-around at `W32`, and an object must
be small enough for each of them; the assumptions that say so and the arithmetic
under them are not written down yet. `MatchesTestVector` of mmdist compares what nested
recursions over rows, lanes and prefixes compute with an exhaustive search, and the
saturating lanes and the mask of an older minimum need a bound for each partial
sum. `EveryLineAnswered` of mmdist is about control alone and the next to prove
(section 2).

## 6. Findings

* `mmuniq.c:399`: the resize loop stops one slot early, and lines are written twice.
* `4/2/loader.c:199`, `4/3/loader.c:266`: a byte of memory is used in place of an
  address, and a missing break falls through.

