# libpagekite in TLA+

TLA+ modules, TLC configurations and TLAPS proofs for libpagekite: an event
loop (the bundled libev) that multiplexes streams between relays ("front-ends",
reached through tunnels) and local backends, blocker threads that do its slow
housekeeping, an event queue towards the application, and the parts around
them (`src/libpagekite/*.c`, `src/libpagekite/libev/`, `pagekitec.c`).

## 1. Inventory

| component | state | operations | interacts with | hard behaviour | what makes it correct |
|---|---|---|---|---|---|
| **Manager locks** (`pkmanager.c` 86-163, 810-1177, 1782-1825) | `loop_lock`, `intr_lock`, `config_lock`; the async watchers `interrupt`, `tick`, `quit` | block/unblock, interrupt handshake, tick, reconfig start/stop, reconnect, set timer, run, stop | job pile (CHECK jobs), all tunnels and watchers | three mutexes taken in different orders, two of them given up and retaken during a connect | exclusion, no deadlock, handover, every block and stop served |
| **Job pile, blockers** (`pkblocker.c` 39-91, 736-832) | slots, `count`, mutex, condition | add, get, run, QUIT, stop | loop (ticks), relay jobs, shutdown | lost wake-ups, full pile, QUIT passed from worker to worker | it is a bag: nothing lost, doubled or stranded; the shutdown ends |
| **Event queue** (`pkhooks.c` 86-360) | 36 slots with PROCESSING and BLOCKING marks, mutex, conditions | post, blocking post, await, respond, free, cancel all | logging, parser (fancy URLs), application threads | slot reuse, unlocked answers, waits without predicates | answers and events are not mixed up, blocked threads are released, consumers end |
| **Streams** (`pkmanager.c` 166-784, 1460-1551; `pkconn.c`) | `be_conns` slots with CLS/END/BLOCKED bits, buffers, watchers; `live_streams`; the tunnel's buffer and watcher | frames, backend I/O, connect, evict, EOF, flow control, tunnel loss | housekeeping (disconnect, reconnect), relay | loop lock yielded inside callbacks, half-closes from both ends, back-pressure | both ends agree on half-closes, no stream stalls or leaks |
| **Flow control window** (`pkmanager.c` 245-277, 445-451, 579-652; `pkconn.c` 353-554) | `read_kb`, `sent_kb`, `send_window_kb`, `reported_kb`, the out buffer | read, chunk, blocking write and giving it up, report, throttle | streams | thresholds of different sizes, a window known as fresh by its value | the two ends never wait for each other; what is reported is written |
| **Tunnel policy** (`pkblocker.c` 93-734, `pkmanager.c` 810-1041) | WANTED, IN_DNS, LAME, REJECTED, CHANGING bits, `live_tunnels`, error counts, ping times | choose, ping, DNS, connect, disconnect | locks, streams | passes overlap while one connects, pings of old passes go on, tunnels die in between | one connect per relay, the count is right, the last tunnel stays, a working relay is found |
| **Housekeeping timer, watchdog** (`pkmanager.c` 1048-1177, `pkwatchdog.c`) | `next_tick`, `enable_timer`, `status`, ping ages; the watchdog's sleep and pets | tick, reset, enable, pet, look, dump | everything | back-off with four ways of resetting it, timer stopped while idle | a program that hangs is dumped, one that works is not, a silent tunnel is shut |
| **Frame parser** (`pkproto.c` 52-479, `pkmanager.c` 667-703) | buffer, bytes left, frame, chunk | parse, fragments, leftovers, reset | streams, reconnecting | any cut, frames larger than the buffer, the zero byte swapped in and out | any cut of a byte stream gives the same frames, and gives them at once |
| **Tunnel handshake** (`pkproto.c` 550-1041, `pkconn.c` 38-339, `pkmanager.c` 856-955) | requests, salts and their status; socket; answer lines | connect, TLS, request, read, refuse, sign, retry, clean up | tunnel policy, loop | an answer in any pieces, early closes, time-outs, one retry | kites are signed as asked, no answer is taken unread, attempts end |
| **Loop: descriptors** (`ev.c`, `ev_epoll.c`, `ev_poll.c`, `ev_select.c`) | `anfds`, the kernel's masks, changes, pending events | start, stop, reify, poll, invoke, with connects and closes in between | all sockets, blocker threads | numbers reused at once; masks guessed, not asked for | no event for a past owner, the kernel has the mask that is wanted |
| **Loop: wake-ups** (`ev.c` 2081-2247, 3240-3410, 4567-4613) | sent flags, three pipe flags, the eventfd | send, wait, look after | `pkm_quit`, `pkm_tick`, `pkm_interrupt` | lock-free flags read and written by all threads | the loop never sleeps on a request; each is served |
| **Loop: timers** (`ev.c` 1498-2055, 3027-3235, 3578-3657) | a D-ary heap with cached times and back indices | start, stop, again, clock jumps | housekeeping, the streams' time-outs | a timer touched by another's callback while it waits to be called | due timers run once, in the order of their times, the stopped ones never |
| **Setting up** (`pagekite.c`, `pkstate.c` 137-181, `pkmanager.c` 1351-1453, `pkutils.c` 482-499, `pagekitec.c`) | `pk_state`, relays, certificate names | initialisers, lookups, add, free | tunnel policy | a list that is NULL, static or on the heap; families, duplicates, errors half-way | nothing static is freed, nothing leaks; one relay per address |
| **Relay front-end** (`pkrelay.c`, `HAVE_RELAY`) | incoming connections, their slots and jobs | accept, peek, decide, wait, answer, close | job pile, slots | a request in pieces or never finished, refused jobs, no slots | whoever has sent something is decided |
| **Log** (`pkstate.c` 29-135, `pklogging.c`) | the ring `log_buffer` | write, copy out | everything | two ways of wrapping | the ring is the log's tail |
| **Dictionary** (`pkutils.c` 730-974) | a hash table with buckets | add, find, remove, grow, shrink, roll back | tests | rebuilds that fail half-way | what was added and not removed is found |
| **Kites and relays tables** (`pkmanager.c` 1208-1453) | `kites`, `tunnels` | add, find | API | full tables, placeholders | a legal add succeeds |
| **Utilities, bindings, samples** | | | | | pure functions, I/O, generated or third-party code |

Other parts of libev (signals, children, idle, stat and periodic watchers, fork)
are not used by the library. `contrib/` (but for `pagekitec.c`), the Java
bindings, SHA-1 and OpenSSL's lock callbacks are third party, generated or glue.

`PROJECT.json` lists the hazards with their lines and the properties that cover
them; those without one say why.

## 2. How the project is laid out

One module per component. Modules that meet at a shared piece of state take what
the other does as an input: a reconnect in `PkStreams` is "the tunnel is closed
and comes back", a tick in `PkManagerLocks` is a signal. Two pairs are linked by
refinement: `PkJobPile` implements `PkJobs`, `PkWakeup` implements `PkRequests`.

The components that one run checks together are put side by side by an `MC`
module: `MCPkSequential` (`PkParser`, `PkLog`, `PkDict`, `PkTimers`, `PkSetup`),
`MCPkDataPath` (`PkStreams`, `PkFlow`, `PkLoop`) and `MCPkHandshake`
(`PkHandshake`, `PkRelay`). They share no variables. The variable `part` picks
one at the start and never changes: a behaviour of such a module is a behaviour
of one of its parts, so that each property is checked on all of its part's
behaviours, and no product of state spaces is built.

Operators preceded by "Seeded bug" are wrong variants of the operator that
follows them: put in its place, each must break the property it is listed with
in `PROJECT.json`. No specification uses them.

Order of work: locks, pile, events, streams, tunnels first (the library's own
concurrency), then the ground they stand on (libev's descriptors, wake-ups and
timers), then the data (parser, window, handshake), then the periphery. What is
left: section 8.

## 3. Modules

### PkManagerLocks

Threads: the event loop, the blockers, application threads. State: the holders
of the three mutexes, the pending `interrupt` and `quit` signals, the number of
CHECK jobs, and where each thread is (`pc`), with who called `pkm_block`
(`caller`) and the tunnels a reconnection has left (`todo`). Every lock,
try-lock, unlock and signal of the code is a step. A loop callback that does
not touch the locks is a yield (`pkm_yield`, done by every `pkm_update_io`).
`TickCb` takes `config_lock` with a try-lock and yields the loop while it holds
it; `ReconfigBlockingStart` is lines 907 and 929. The number of jobs is capped
by the pile (`MaxJobs`); `MaxTunnels` bounds the relays one reconnection tries,
`MaxAppCalls` the calls an application thread makes.

Not in it: what the reconfiguration does, the relay jobs. One run of the loop is
modelled; the `quit` watcher is not started again by a second one.

### PkJobs, PkJobPile

`PkJobs` is what a pile promises: a bag of pending jobs and one job at most in
each worker's hands. `PkJobPile` has the slots, the count, the condition
variable with signals and spurious wake-ups, ticks that post CHECK jobs, relay
connections that post, retry and close, and `pkb_stop_blockers`. The mutex is
held from `pkb_get_job`'s test to its wait, so each is one step. A refused job
follows the code: a CHECK job is dropped, a relay connection is `lost`, a QUIT
is dropped. `Bag` is the refinement mapping.

### PkEvents

Slots with their mark and number, posters between fill and wait, consumers
between search and wait. Posting and awaiting hold the mutex; answering and
cancelling do not, so `CancelTest` and `CancelClaim` are two steps. An event is
known by its serial number, which the code does not have: that is how the
properties tell one event in a slot from the next. The fallback to slot 1 when
nothing may be reused is in `Target`. Consumers follow the loop of
`doc/Event_API.md`, which allows several threads. How many of them loop is left
open. `MaxTime` bounds the clock and
`MaxEvents` the posts.

### PkStreams

One tunnel and its streams. A stream is the status word of a `pk_backend_conn`
(`CLS_READ`, `END_READ`, `CLS_WRITE`, `END_WRITE`, `TNL_BLOCKED`), whether its
buffer holds output, its two watchers and how far it has read ahead of the
relay's acknowledgements. `Updated` is `pkm_update_io` for a stream,
`UpdateTunnel` for a tunnel. A tunnel write (`TunnelWrites`) may pass, be
buffered, be torn or break the tunnel. The steps between which the code yields
the loop lock for long (frames of one read, a connect) are steps of the model,
and the housekeeping may come between them. `shut` is what the relay has said or
been told. The window is a constant (`Window`); `MaxAhead` bounds reading ahead
and `MaxSids` the streams the relay opens. `here` tells streams of the present
connection from those of one that is gone.

Not in it: the sizes of data (they are in `PkFlow`), SSL's WANT states, HTTP
header rewriting, several tunnels (they share only the slots).

### PkFlow

Both ends of one stream, in kilobytes. The sender reads the backend, counts
`read_kb`, is blocked when it is more than `send_window_kb` ahead of the reports,
and has its window set by the first report, grown by later ones and shrunk by
`SPD` and by a blocked tunnel. The receiver writes to its own backend what fits,
buffers what fits the buffer and otherwise blocks in `pkc_flush`, with the loop;
after a time-out it gives up (`GiveUp`), and what it gave up is `lost`. Reports
go out every `Increment` and when the buffer empties, as `pkc_report_progress`
is called. Kilobytes are numbered, so that order and loss are visible.

### PkTunnels

A pass of a blocker (`pkb_check_world`, `pkb_check_tunnels`) is a `pc` that goes
through the handlers in the order of the code; `config` is the owner of
`config_lock`, given up from `Reconnect` to `Connected` or `NotConnected`, where
another pass or the loop may come in. A relay is its index in `pkm->tunnels`;
the bits of `conn.status` are sets (`wanted`, `in_dns`, `changing`, and `bad` for
REJECTED and LAME), a socket is membership of `open`. `Fast` is the N best by
ping and error count, ties going to the first in the table. `KitesDns` leaves
open what DNS answers. `Dial` and `Talk` are `pk_connect_ai`, first and second
time; the relay's answer is free. `TunnelDies` and `TunnelClosed` are the two
ends of `pkm_update_io`'s cleanup of a tunnel, which yields for each of its
streams. `live` is the unsigned `live_tunnels`, modulo `Modulus`. `errors` stop
at `MaxErrors` (999 in the code).

`StartCheck` makes one assumption about time: a tunnel that a pass has closed
while the loop was closing it too is not chosen again before the loop has
finished, since the next pass waits for 15 seconds, or for a second of pings.

Not in it: the obsolete entries of the table, the bias and jitter of ping times,
nailed-up relays, which of the unused tunnels have streams (left open), the
listeners. Ping times are constants (`Ping`).

### PkHousekeeping

`TickCb` is the whole of `pkm_tick_cb`: the pet, the job it posts, the interval
that grows by a third up to `MaxTick`, the timer stopped or set again, tunnels
with an unanswered ping shut, idle ones pinged. It runs from the timer, from
dying tunnels (`TunnelCloses`) and from the application. `BlockerTakes` and
`BlockerEnds` are a blocker's pass and the status it leaves. `WatchdogLooks` is
one round of the watchdog process, `LoopHangs` a callback that does not return.
Time passes in units (`TimePasses`), in which the loop does what is due; points
in time are kept as ages up to where the code stops comparing them. `IntervalMin`
and `IntervalMax` are the manager's fields, `LeastMin` the floor (15 seconds) that
their setters enforce.

### PkParser

`Readable` is the tunnel's read callback, `ParseNewData` with `NextPiece`,
`ParseChunk` and `Give` the parser, `AfterCallback` and `Leftovers` what follows
a chunk's callback, recursion included (`nested`). Bytes are cells that know the
frame they came from and what the parser tells apart: digits, CR, LF, header
text, data, and a CR or LF that `zero_first_crlf` has zeroed. So what the
callback is given can be compared with what was sent. `Reconnect` resets the
parser with the connection. Frames may be good, malformed in three ways, empty,
or larger than the buffer.

Not in it: numbers' digits, header fields other than that there are some, the
loop over SSL's pending data after a parse error.

### PkHandshake

`Begin` to `CleanUp` is one attempt of `pkm_reconnect_all` at a relay: connect,
TLS, request, the answer read line by line until a blank one, parsed, refused or
asked to sign, then all of it once more with salts. The relay may answer with any
lines, close anywhere, or (`Hasty`) say nothing. A signature is the pair of salts
it was made with. The loop may shut the tunnel it has been given (`TunnelCloses`).
`AddKite` fills `pkm->kites`, before the start as `pagekite.h` asks; the table's
last slot is never used (`pkmanager.c:1257`).

Not in it: frames in the same read as the blank line, which the parser gets late
or not at all; a failing `set_non_blocking`; renegotiation.

### PkLoop

Watchers of tunnels and streams; the descriptor each holds, who owns it for the
kernel, the mask libev has last sent, the kernel's own mask, the changes to be
reified and the pending events. `Poll` differs per back end. The library's side
is its order of closing, stopping watchers and opening: `Connect` by a blocker,
`ConnectBe` and `CloseStream` by the loop, `CloseTunnel`, `Forgotten` and
`CloseAgain` the pieces of the cleanup in `pkm_update_io`, with the yield in
between. `Racing` lets a blocker open a socket inside that yield. A descriptor's
watchers (`heads`) and the pending events are sets: the code's order within them is
left open, but for the two async watchers, which the array of pending events puts
first.

Not in it: recovery from EBADF and fork (unreachable: descriptors are closed with
the loop blocked), platforms whose libev is the system's.

### PkRequests, PkWakeup

`PkRequests` promises that a request is accepted, then handled, that requests of
one kind not yet accepted are one, and that a quit ends the loop. `PkWakeup` is
`ev_async_send`, `evpipe_write`, `pipecb` and the parts of `ev_run` between which
they come, one access to a shared flag a step; the fences in the code make that
sequentially consistent. `MAX_BLOCKTIME` (a minute) is taken for never, so that
nothing is rescued by polling.

### PkTimers

The heap is a function from array indices to entries (timer, cached time), with
`slot` the index each timer remembers. `UpHeap` and `DownHeap` sift an entry along
its way (`WayUp`, `WayDown`: the indices it passes), and the entries on the way
each move one place the other way; `AdjustHeap` does either. `Reify` is a round of
`timers_reify`, which takes the due timer off the top or starts it again,
`Reified` all rounds; `InvokeTimer` calls back the last fed first,
and callbacks start, stop and set again any timer. `TimeJump` moves all of them by
a jump of the clock (any jump up to `MaxJump`; with a monotonic clock the code
has none). The two readings of the clock in an iteration are one.

### PkDict

Every operation holds the lock, so each is one step. `Rebuilt` adds the entries
of the old table, one by one (`Reinsert`), to one of another size until one does
not fit, `RolledBack` is what is left then; `Weeded` is the walk of
`pk_dict_rm_val`, place by place (`Weed`). `held` counts what was added and not removed. The sizes of the
code (10 to 27 bits) are parameters.

### PkSetup

A record `setup` of the global state, the manager's relays and the certificate
names. `StartUp` is each of the initialisers, `AddRelays` each way of adding
relays later, `TearDown` the freeing of the manager, with flags and the
resolvers' answers as inputs. `Pagekitec` is the order in which the sample program
calls them. Ports are left out, because `addrcmp` ignores them: two relays on one
address are one.

### PkRelay

A visitor is the kind of request its bytes will turn out to be and how much of it
has come, cut where the parsers' decisions change (nothing is consumed by
peeking). `Accept` takes a slot, `Readable` looks, `RelayIncoming` is the job,
which decides, answers, closes, or waits for more up to 5 seconds. `Held` and
`Used` are the slots: kept connections never give theirs back, nor do visitors who
never speak; the next one makes `_pkr_close` dereference NULL (`crashed`).
`_find_tunnel` is the stub it is in the code. A failing bind or listen is left
out.

### PkLog

The ring of bytes with `start` and `end`; `MakeRoom` moves the start past the
message and to the next line, `Copied` copies in one or two pieces, `String` is
what a reader sees, `Fitted` what `pk_log`'s buffer has of a message. A message is a run
of equal bytes, which may contain newlines
of its own. `logged` is everything ever logged.
## 4. Runs

Each run gives every property it checks to TLC on all the interleavings of its
instance; every property has a seeded bug that breaks it on the same instance.

| run | shows | bounds, and why they are enough |
|---|---|---|
| `locks` | exclusion, no wait cycle, handover; blocks and stops are served | 2 blockers and 1 application thread: three-way competition for each lock; 1 job, so that it is refused too; 1 tunnel to reconnect |
| `jobpile` | no lost wake-up, one owner, the shutdown reaches all, refinement of `PkJobs` | 2 workers, 2 connections, 2 kinds of CHECK job, 3 slots: the pile fills with connections and checks |
| `jobpile_stop` | finding: the shutdown hangs when a QUIT is refused | 2 slots |
| `events` | answers and events are not mixed up, every blocking post is answered | 2 posters (a blocker and the main thread), 2 consumers, 4 slots, 5 events: slots run out and are reused under a waiting poster. All posts come in one second, so that the order of the slots decides; or there is 1 consumer, and time passes between them |
| `events_shutdown` | finding: only one consumer sees the shutdown | 2 consumers |
| `data_path` | streams: both ends agree on half-closes, none stalls. Window: reports are honest, nobody waits for ever. Descriptors: handles are their owners', the kernel watches what is wanted, events are for the present socket | streams: 2 slots, 3 streams, so that slots run out, are evicted and reused; 2 blocks ahead of a window of none. Window: between 1 and 7 KB, reports every 3, a buffer of 3, 12 KB of data: the window is set, grown, shrunk to its minimum and full, and a blocking write times out. Descriptors: 1 tunnel, 1 stream, 2 numbers, so that each number passes from one to the other; the three back ends |
| `streams_live` | over streams go, blocked streams are let go | 2 slots, 2 streams: neither is evicted here, as in `data_path` |
| `tunnels` | one connect per relay, count off by one at most, last tunnel stays; a good relay is reached again and again | 1 blocker, 2 relays of which one may fail, counter modulo 4 so that it wraps. The bad relay pings faster and shares its UUID with the good one; one error (25 ms) outweighs the 10 ms by which it is faster. Safety is proved for any number of blockers; two of them are also in `MCPkTunnelsTwo.cfg` |
| `sequential` | parser: the frames sent are the frames given, and given at once. Log: the ring is the tail. Dictionary: what is held is found. Timers: they run in order. Setting up: names are owned | parser: a buffer of 10 cells, frames of 0, 2 and 5 bytes (the last does not fit) and three malformed, 2 frames on each of 2 connections, cut anywhere. Log: a ring of 13 bytes, lines of 1 to 3, 6 of them: it wraps more than once, at every offset. Dictionary: tables of 2 to 8 entries, buckets of 2, 3 keys that collide, 4 entries: grows, fails to, shrinks, rolls back. Timers: 4 of them in a binary heap (depth 2, each node's kind), 2 start times, repeating or not, 3 units and jumps of 2, so that several are due at once with different times. Setting up: 3 addresses, 3 table entries, 2 calls between start and end, all the repository's combinations of flags |
| `housekeeping` | a hanging program is dumped, a working one is not, a silent tunnel is shut | intervals of 2 and 3 units, so that the back-off grows and is capped; the watchdog, or tunnels, not both: neither looks at the other |
| `handshake` | connector: kites are signed as asked, an answer is read to its end, attempts end. Relay: whoever has sent something is decided | one kite of ours, one the relay makes up, answers of up to 2 lines and an end, 2 salts, TLS. 2 visitors of any kind and one slot too few for both |
| `wakeup` | the loop does not sleep on a request; refinement of `PkRequests`, its fairness included | 2 senders and the loop itself, 3 watchers: two requests of one kind, and of two, in flight |

Deadlock is checked in `locks`, where the stopped program is a disjunct of its
own (`Finished`). The other runs stop legitimately: bounded posts, ticks, calls
and streams are used up and every thread sleeps.

Symmetry is used where no liveness is checked: over the slots of `data_path`
(nothing depends on the order of the search for a free one) and over the timers
of `sequential` (nothing tells them apart).

### Configurations that are not runs

Further invariants hold, and are checked by these or proved; they would add to a
run's time and little to what it shows:

- `MCPkSequentialMore.cfg`: `BufferAccounted` (the parser's bytes left and
  lengths agree) and `HeapIsSound` (what libev's own `verify_heap` asserts), both
  proved; `RelaysAreDistinct`, `RelaysOrNothing`.
- `MCPkTunnelsTwo.cfg`: the safety of `PkTunnels` with two blockers.
- Proved for every value of the constants, and so in no run: `CountIsUsed`,
  `OneReconfiguration`, `LiveCount`, `AheadIsBounded`, `NoSlotLeaks`,
  `OneSocket`, `InOrder`, and `TypeOK` of `PkManagerLocks`, `PkEvents`,
  `PkStreams` and `PkHandshake`.
- `TypeOK` of the other modules, `ConnServed`, and `Delivered` of `PkFlow`.

Where the code does not do what one would like, and says nothing else about it,
a configuration reproduces it. TLC reports a violation of the property named:

- `MCPkEventsAssert.cfg`, `ResponseAsserts`: `pke_cancel_all_events` answers an
  event that its consumer answers too; `assert` at `pkhooks.c:316` fails.
- `MCPkStreamsUnwatched.cfg`, `OutputWatched`: a backend's callback leaves output
  in the tunnel's buffer and does not watch the tunnel for it (`pkmanager.c:749`).
  A later write, ping or tunnel update sends it.
- `MCPkFlowStall.cfg` (on `PkFlow` itself), `DeliveredAnyway`: with the code's own constants
  (`pkconn.h:24-32`) the window may shrink to 4 KB while the far end reports
  every 16 KB: nobody tells the sender to go on.
- `MCPkHousekeepingRejected.cfg`, `BarksAtTheStuck`: a rejected program ticks
  more slowly than the watchdog looks (`pkmanager.c:1084`), and is dumped.
- `MCPkLoopRacing.cfg` (on `PkLoop` itself), `HandlesAreOwn`: a blocker that opens a socket between
  the two closes of a tunnel's descriptor (`pkmanager.c:552`, 562) loses it.
- `MCPkSequentialNames.cfg`, `NamesDiffer`: the service's certificate name is
  listed twice, so SNI is not used.
- `MCPkSequentialAstray.cfg`, `NeverAstray`: `pk_dict_rm_val` goes on in a table
  that its own removal has made the dictionary free.

Three constants stand for what the code relies on. `Yielding = FALSE` in
`PkParser`: with TRUE a tunnel is connected anew while a chunk's callback has
yielded the loop, the parser is reset under it, and `BufferAccounted` fails.
`Merged = TRUE` in `PkSetup`: the linker makes one of two equal literals, by
whose address the static list is known; with FALSE `NamesAreOwned` fails.
`LineSizes` in `PkLog` stay below `LineMax`: a longer message is cut, but counted
in full, and the NUL that is left in the ring hides what follows.

## 5. Fairness

- `PkManagerLocks`: threads that can move do (weak). A thread that waits for
  `intr_lock` or `config_lock` gets it if it is free again and again (strong):
  pthread mutexes promise no order, and Linux wakes waiters. Nothing is assumed
  of `loop_lock` in the handshake: `HandoverKept` is why. Ticks, quits and calls
  of the application need not come.
- `PkJobPile`: workers and the shutdown go on (weak); no job need be posted.
- `PkEvents`: threads, consumers and their timeouts go on (weak); an application
  that stops answering blocks the library by design.
- `PkStreams`: callbacks and connects end (weak; the code's timeouts); the
  relay and the backends read in the end what is written to them (strong on the
  drains, which an endless row of other writes may interrupt).
- `PkTunnels`: passes and the loop's cleanup go on (weak). `config_lock` is given
  up again and again, so that the thread which waits for it after a connect, and
  some check of the world posted by a tick, get it in the end (strong). Nothing
  is assumed of pings, of bad relays or of resolvers: `KeepsTrying` has
  resolvers that answer from some time on as its premise, and relays in `Steady`
  accept whatever connects to them. That some such relay also answers pings is
  needed: with `Answering = {}` TLC finds the fallback of `pkblocker.c:182-194`
  taking the first relay of the table for ever, whatever its `error_count`.
- `PkHousekeeping`: the loop, the blockers and the watchdog go on (weak); time
  passes (strong, since what is due is done first and interrupts it). Hanging,
  silence and the application's ticks need not happen.
- `PkHandshake`: the blocker goes on (weak): `SO_RCVTIMEO`, `SO_SNDTIMEO` and
  `pkc_wait` make every call return. The relay need not answer.
- `PkRelay`: the loop, the blockers and time (weak); visitors need do nothing.
- `PkWakeup`: every thread goes on (weak); a poll that may return does. Nobody
  need send.
- `PkFlow` (in `MCPkFlowStall.cfg` and for `Delivered`): both loops, the tunnel
  and the receiving backend go on (weak); the sending backend, blocked again and
  again, is read (strong).

A composed module states the fairness of the part it has picked, on that part's
own actions.
## 6. Proofs

| module | about | theorems |
|---|---|---|
| `PkManagerLocks_proofs` | `PkManagerLocks` | exclusion, no wait cycle, handover |
| `PkJobPile_proofs` | `PkJobPile`, `PkJobs` | no lost wake-up, one owner, refinement |
| `PkEvents_proofs` | `PkEvents` | answers and events are their owner's, slots come back |
| `PkTunnels_proofs` | `PkTunnels` | one connect per relay, the count, the last tunnel |
| `PkWakeup_proofs` | `PkWakeup`, `PkRequests`, `PkHousekeeping` | no sleep on a request, refinement; a working program is not dumped |
| `PkDataPath_proofs` | `PkStreams`, `PkFlow`, `PkLoop` | half-closes, stalls, the window, order of data; handles, the kernel's masks, fresh events |
| `PkSequential_proofs` | `PkParser`, `PkTimers` | the frames sent are the frames given, and given at once; the heap is sound, timers fire in order |
| `PkPeriphery_proofs` | `PkHandshake`, `PkSetup`, `PkLog`, `PkDict` | signatures, answers, sockets, names, the log; what is held is found |

Every safety invariant and action property that a run checks is stated by one of
these theorems. tlapm checks them for every value of the constants that satisfies the modules'
assumptions. Most say that names are distinct, that sets of threads, slots and kites
are finite, and that bounds are numbers. The ones that say more:

- `EnoughSlots` (`PkEvents`): a slot for each thread and each consumer. The code
  has 35, for 16 blockers at most, the loop and a few threads of the application;
  with fewer, slot 1 is taken from whoever has it, by design.
- `TunnelBounds`: `live_tunnels` has room for one more than there are relays.
- `FlowBounds`: the window's minimum, initial value and maximum are in that order.
- `StreamBounds`: the two other users of a slot's place in `loop` are no slots.
- `LogSizes`: three messages fit the ring (64 KB against 4000 bytes).
- `HeadersFit` (`PkParser`): the buffer is longer than a header, which here has 8
  cells (`PARSER_BYTES_MIN`, `pkcommon.h:182`, is 1 KB).
- `DictSizes`, `NoneIsNone` (`PkDict`): a table has at least as many places as a
  bucket, a key's home is a place of the table, and NULL is neither a key nor a
  value.
- `Intervals` (`PkHousekeeping`): the shortest interval is at least 15 seconds, the
  longest one covers the two minutes of idleness, and what is added to a tick
  (`Fudge`) is less than twice the 15 seconds.
- `TimerSizes` (`PkTimers`): a node of the heap has two kids or more, and start
  times are not negative.

The theorems of five modules have a premise of their own: `~Racing` for `PkLoop`
(no blocker opens a socket between a tunnel's two closes), `Merged` for `PkSetup`
(the service's list of names exists once), for `PkLog` messages that fit
`pk_log`'s buffer, `~Yielding` for `PkParser` (no new connection while a callback
has yielded the loop), and `Patient` for `PkHousekeeping`: the shortest interval,
with a unit of rounding, is no more than twice the longest, which the setters of
the two fields do not see to, and no service rejects the program, since a rejected
one ticks more slowly. The code does not exclude these cases, and section 4 says what
happens in them; the theorems say that nothing else breaks the property.

- **Locks.** The inductive invariant is `TypeOK` and `LocksMatchPc`: the holder
  of each lock is the thread that stands between its lock and its unlock in the
  code. It makes a mutex of what the program counters say; exclusion
  (`LoopIdleWhileBlocked`, `OneReconfiguration`) follows at once, as two threads
  cannot both be the holder. `NoWaitCycle` needs a case analysis over `WaitSet`:
  config before intr before loop, with the two exceptions of the code, the tick
  (a try-lock) and the retaking of config by a thread that holds nothing.
  `HandoverKept` is an action property proved from the same invariant.
- **Pile.** The inductive invariant adds to `TypeOK` that `count` is the number
  of used slots (cardinality lemmas for filling and emptying a slot) and that
  while some worker sleeps the waiting jobs are no more than the workers on
  their way to the pile. Signals move one worker, an added job one slot: the two
  sides of the inequality change together. `OwnerIsOne` (`OneOwner`) counts the
  places of a connection, in the pile and in hands, over every step: `GetJob`
  moves one from a slot to a hand, a handler that puts it back moves it again,
  and one that ends frees the record in the same step. `ImplementsJobs` maps the
  slots to how many copies of each job they hold: every step posts, takes,
  finishes or reposts in `PkJobs`, or leaves that bag alone, refusals included.
- **Tunnels.** `ChangingIsConnecting` alone is not inductive. `IInv` adds that a
  pass at work owns `config_lock` (so that two passes do not choose the same
  relay at once), that a blocker connects to a relay of the table, and
  `ClosedIsForgotten`: the tunnel the loop is closing is not changing, and if a
  pass has closed it as well no pass wants it any more. Without the last the
  loop's cleanup could reset a connect in the middle. `LastTunnelStays` follows
  step by step: a connect touches only a relay that is changing, hence not live,
  and `DisconnectUnused` closes fewer tunnels than are live. `LiveIsCounted`
  (`CountIsClose`) needs more: the count is exact or one less, it is exact while
  a tunnel that a pass has closed waits to be closed by the loop as well (the
  pass has just counted), and a blocker whose relay has answered has its socket.
  Every other step leaves live tunnels and count alone (`StepKinds`); the
  unsigned arithmetic is in four lemmas about counters of any range.
- **Wake-up.** A request can be in three stages, and the invariant says of each
  who will move it on: a watcher's sent flag has `async_pending` up, a sender
  about to raise it, or `pipecb`'s scan before it (`Flagged`); `async_pending` has
  a write made or skipped, a sender that will do either, or `pipecb` on its way
  (`Noticed`); and a write skipped after the loop went to sleep is made up for by
  the sender that skipped it (`MadeUpFor`). `InStep` ties `pipe_write_wanted` and
  the pending events to the loop's place. No flag decides alone; together they
  keep the loop from sleeping (`NeverSleepsOnARequest`). `ImplementsRequests`
  derives the safety part of `PkRequests` from the same invariant.

- **Events.** While the loop runs (`RunningInv`), a blocking event and the thread
  that posted it know each other (`OwnSlots`): slot, thread and number, so that
  two threads never share a slot. From the answer to the wake-up the slot stays
  marked and no consumer holds it (`Answered`): that is what keeps the next
  post from taking it first. A marked slot is a consumer's or a blocking event's
  (`BusyIsHeld`), which makes a free slot out of `EnoughSlots`: the slots in use
  are injected into threads and consumers. `AnswerIsOwn`, `HeldIsOwn` and
  `NoSlotLeaks` follow; once the loop has ended `pke_cancel_all_events` breaks
  `RunningInv`, and the properties say nothing of that time.
- **Descriptors.** A connection that is not free holds a number that the kernel
  has for its own, unless its first close is done and its second is not
  (`SocketsAreHeld`, `HalfClosed`); only connections that are up have watchers
  (`WatchersAreUp`); what `fd_reify` last computed is right except for numbers
  marked changed (`EventsAreComputed`). For epoll the mask last sent is the
  kernel's wherever the kernel has one, and a new socket is marked (`EpollKnows`):
  so the guess in `epoll_modify` is harmless. poll and select have no guess
  (`ArrayKnows`). Opening a socket is the critical step: under `~Racing` no number
  that is handed out is still to be closed.
- **Streams.** `HalfClosesAgree` and `NoStreamStalls` are not inductive. Added: a
  slot without a socket is free, or it is the one the loop connects
  (`OnlyOneConnects`); an id is held once (`OneHolds`); every stream is as
  `pkm_update_io` leaves it (`Settled`), which each callback breaks and mends in
  one step; a stream blocked by the tunnel is one that the tunnel's watcher will
  let go (`Unblocking`); and what the relay takes for over covers what an earlier
  connection has left (`LeftIsShut`), so that an id that is evicted or outlives
  its tunnel disturbs nobody. The lemmas follow the calls: `Updated` on one stream,
  a write to the tunnel, the end frames, then each action. `LiveCount` needs the
  cardinality of the open slots, `AheadIsBounded` only `Settled`.
- **Window.** What the receiving end holds for its backend is a sequence that lies
  between what the backend has and what is still in the tunnel, and what is missing
  of it was given up (`HeldFollows`); chunks follow each other (`ChunksFollow`),
  reports are ordered and the last one is `reported` (`ReportsFollow`); written is
  reported or counted for the next report (`Counted`). `ReportsAreHonest` compares
  the two ends of that chain, `InOrder` (an action property) looks at its first
  element, and `NoStall` is the arithmetic of an empty chain: less than an
  increment is unreported, so a window above it is open.
- **Handshake.** The requests of a connection hold what the relay asked for and the
  program's first salt (`Salted`), up to the moment they become `request`; an
  answer's end is its last line, and nothing of an answer comes before the request
  is out (`Heard`). `SignedAsAsked` and `AnswerIsRead` follow, the second because a
  tunnel is up only once the end has been seen. `OneSocket` is inductive by itself.
- **Names.** `Settled`: the list is on the heap exactly if one copy of it is
  allocated, and a manager that is gone has none. `Owned` is its part that holds
  between the steps of one call, and every operator of `PkSetup` keeps it.
- **Log.** The bytes between start and end are the last that were logged, with a NUL
  behind them and at the end of the array and none among them (`Held`); they begin
  with a line, and the last message begins behind a newline (`Lined`). Making room
  then stops in front of the last message at the latest (`MakeRoomDrops`): that is
  why the ring must be longer than two messages and the copy never runs off it.
  What a copy leaves (`LogCopyRolls`) is arithmetic modulo the ring, and
  `LogIsTail` that the reader's one or two strings are those bytes (`CopyIsUsed`).

- **Parser.** The wire is the frames' cells joined (`FlattenSeq`), and `Upto` says
  where each frame begins. With `k` frames handed on, the buffer is in one of five
  states (`At`): between frames with part of a header or none (`Fresh`), behind
  a header whose frame has yet to come (`Headed`), at a malformed frame (`Stuck`),
  or in the middle of a frame that is given in pieces, before (`Pieces`) or in the
  callback (`Calling`). Each says which bytes of the wire the buffer's are, up to
  the zeroing of a CR LF (`Masked`), and what the callback has got so far. `Short`
  is `NothingHeldBack` in the making: what is left is less than a whole frame. A
  read adds to the buffer (`Copies`), and each step of the parser goes from one of
  the states to another (`ParsesHead`, `ParsesPiece`, `Returns`, `RunsOut`);
  `SameFrames` (`Gives`) is read off those steps. `BufferAccounted` is a conjunct.
- **Dictionary.** What a table holds is counted, per set of pairs (`Copies`), so that
  "the same bag" is an equation between numbers. A table is sound when each key is
  in its own bucket and the count is right (`Homed`, `Sound`). Putting and removing
  change one count (`WrittenIs`); a rebuild, a roll-back and a walk are lists of
  tables, one per place, shown to keep the bag or to lose just what they are to
  lose (`Caught`, `Culled`). `held` is the bag of the table (`DictIInv`), and
  `FindIs` makes `FindsWhatIsHeld` of it.
- **Timers.** What is above an entry is a line (`InLine`); along a way up or down the
  entries change places one by one (`TheWayUp`, `TheWayDown`), so that no entry is
  lost and each timer finds its own (`MovedAbout`). The heap being in order but for
  one entry and its kids (`OrderedBut`), sifting that entry puts it in order
  (`UpHeapSifts`, `DownHeapSifts`, `AdjustHeapSifts`), and starting, stopping and
  setting again keep `Sound`, which is `HeapIsSound` with types. `Halfway` is the
  invariant of the loop in `timers_reify`: what was fed is in the order of its
  times and was due before what is left, and is due no more; with each round one
  timer fewer is due, and the heap's size is enough rounds (`ReifiedIs`).
- **Watchdog.** `BarksAtTheStuck` rests on `PettedInTime`: while the loop works and
  the watchdog is on, it has been petted, or a tick is on its way, or the timer
  fires before it looks. `Paced` bounds the intervals by the watchdog's sleep.

The provers have no induction over data, but they have well-founded sets of
numbers. So lists, joins and recursive functions are handled with induction over
sets of numbers (`Least`, `Induct`): first that a list with the right steps exists
(`JoinsExist`, `RebuildingExists`, `WeedingExists`, `RoundsExist`, `AboveExists`),
then what holds for each of its members.

Model-checked only, and why:

- Liveness (`BlockServed`, `StopServed`, `QuitReachesAll`, `RequestAnswered`,
  `OverIsClosed`, `BlockedIsLetGo`, `KeepsTrying`, `LockUpFound`,
  `SilentTunnelShut`, `AttemptEnds`, `RelayDecides` and the fairness part of
  `RequestsServed`) needs fairness and ENABLED, out of the prover's reach. It is
  all there is of `PkRelay`, whose slots have no safety property beyond types.
- `RelaysOrNothing` and `RelaysAreDistinct` (`PkSetup`), which no run checks: a fold
  over a resolver's answer builds the list they are about.
- The two findings, which are violations.

## 7. Findings

1. `pkblocker.c:788`: a QUIT job that does not fit is dropped and the shutdown
   hangs (`jobpile_stop`), while line 787 says the job is put back "in case there
   are many workers".
2. `pkhooks.c:319`: a pinned `PK_EV_SHUTDOWN` is served to one consumer only
   (`events_shutdown`), while line 318 says such events "keep getting served".

## 8. Not modelled, and what is left

- `PkTunnels` has a fixed table: obsolete entries, ping bias and jitter, and
  nailed-up relays (which no caller sets) are left out.
- `pkm_find_kite`'s preference of an exact port; ports altogether.
- Setters of one field, the wrappers of `pagekite.c` around the manager and the
  event queue, `pagekite_poll`; a second start of a stopped manager, in which the
  `quit` watcher would not be started again (`pkmanager.c:1205`).
- TLS beyond its start: OpenSSL's state, renegotiation, WANT states.
- `pk_rlock` (`pkutils.c` 628-666), which nothing uses: its owner is not cleared
  on unlock, so the last owner re-enters without the mutex.
- The signal handler of `pagekitec.c:118`, which joins the thread that `main`
  joins too: what that does is the platform's.
- Data races on plain words (status bits read outside `loop_lock`), memory
  allocation failures other than the dictionary's, Windows' variants.
- Pure functions: formatting, hashing, HTTP header rewriting, error texts.
- Worth adding: pings that age in `PkTunnels`; one model of `PkManagerLocks`
  over two runs of the loop, a reliable half-close protocol as an abstract
  specification of `PkStreams`.
