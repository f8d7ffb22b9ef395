# A TLA+ model of dpapp

dpapp is an asynchronous I/O framework in C with C, C++ and Lua bindings: one
*master* event loop and a number of *worker* event loops, each on a thread of
its own, coroutines on top of them, and elements (`dpele_t`) that carry one
asynchronous operation (`dpasc_t`) at a time. TLS and QUIC are elements like any
other. This directory models it in TLA+, checks the models with TLC on small
instances, and proves most of their safety properties for every number of
threads, calls, elements and bytes.

Both builds are modelled. Linux (`lib/dpapp/os/linux`) is the one most modules
are about; `Kqueue` is the loop of the BSD build (`lib/dpapp/os/bsd`), which
shares the structure of its code but not what the kernel does under it.

## The system

| Part | State | Operations | Hard part |
|--|--|--|--|
| Cross-thread hand-over: `worker_t`, `_worker_*_ctc`, `_master_*` | per worker and direction two lists, a flag and an eventfd | push, move, take, wake | lists shared by two threads without a lock; edge-triggered eventfds; two flags in one counter |
| Cross-thread calls: CTC elements | `stat`, `asc_type`, `fromid`, `toid`, `ret`, `refc` | add, end, reap, run, reto, `dpevp_end_ctc_`, del | owner, master and target race on one element |
| Event loop of a thread: `dpevp_t` | ready queue, timer tree, epoll batch | add, end, pop, expire | an element is in several containers; events of a batch outlive elements |
| EFD readiness: `_dpefd_wake`, `_dpefd_feed` | `able_events`, `want_events` | wake, feed | edge-triggered: a lost bit is a hang |
| Operations: `dpasc.c`, `dpasc_epoll.c` | progress in `asc_data` | prep and post per operation | resumption after partial reads and writes |
| Buffers: `dpbuf.c` | four cursors on a counted storage | read, write, grow, compact, share | off by one, offsets that outlive a move |
| Coroutines and bindings: dpaco, dpcwc, dpcpp, dplua | coroutine per wait, handle in the element, pool of blocks | await, cease, timer, aexec, serve | resumed by the wrong event, or twice |
| Start-up: `dpapp.c`, and the ids of `dpcwc_aux.c` | threads, `_gevps`, a sequence per thread | init, start, fini, next id | partial failure; a sleep in the middle |
| TLS: `dpssl.c` | groups, ALPN cache, session over a TCP element | handshake, recv, send, shutdown | reads that must write, writes that must read; ownership of the descriptor |
| QUIC: `dpqic.c` | engines, ready lists, streams, header sets | accept, connect, streams, headers | callbacks of the engine between the user's calls |
| kqueue loop: `dpevp_kqueue.c` | as the event loop; timers in the kernel | as the event loop | one array for all events; triggers that overwrite each other |

Elements move between threads only as CTCs, and only through the hand-over; all
other state belongs to one thread. Every binding's main loop is `dpevp_pop` and
a resume of whoever waits for the element it returns; every operation of TLS and
of streams is a post that `_dpefd_wake` runs; QUIC calls `dpevp_end` on the
elements its callbacks are about.

What makes each part correct, in a sentence:

* hand-over: a list has one user at a time, and nothing handed over is lost,
  doubled, reordered or left lying;
* calls: a call runs once, on its target, comes back to the thread that made it,
  with its own result unless it is back too early, and its element is freed once;
* event loop: each accepted submission has exactly one result, an element that
  is freed is in no container, the loop neither sleeps on work nor starves a
  source of it;
* readiness: an operation that waits while its descriptor is ready has an event
  on the way;
* operations: the bytes an operation reports are the bytes it moved;
* buffers: growing and compacting are invisible, and stay inside the allocation;
* coroutines: each wait is answered once, by the element waited for;
* start-up: a loop outlives its thread, what was created is destroyed, ids
  repeat for one reason only;
* TLS: no operation waits for what is there; the descriptor has one owner;
* QUIC: what the engine reports reaches one place, and a call is served once.

`PROJECT.json` lists the components, the hazards at the lines where they bite,
and the source lines behind every definition.

## Modules

| Module | Stands for | Built on |
|--|--|--|
| `CtcFifo` | what the hand-over promises: a FIFO per worker and direction, and a queue of entered calls per thread | |
| `CtcChannel` | the hand-over as coded: lists, flags, eventfds, epoll batches | refines `CtcFifo` |
| `CtcChannelProofs` | its theorems, and those of `Kqueue` | extends `CtcChannel`, `Kqueue` |
| `Ctc` | the life of a cross-thread call | instantiates `CtcFifo` for its queues |
| `CtcProofs` | its theorems | extends `Ctc` |
| `EventLoop` | `dpevp_addv`, `dpevp_end`, `dpevp_pop` and the life of EFD, USD and TMR elements on one thread | |
| `EventLoopProofs` | its theorems | extends `EventLoop` |
| `Efd` | one descriptor under edge-triggered epoll, `_dpefd_wake`, `_dpefd_feed` and the operations on it | |
| `EfdProofs` | its theorems | extends `Efd` |
| `ByteWindow` | what a buffer promises: one text with two cuts | |
| `Dpbuf` | buffers as coded, and `read_until` on them | refines `ByteWindow` |
| `DpbufProofs` | its theorems | extends `Dpbuf` |
| `Cwc` | coroutines, and the C, C++ and Lua bindings' await, timers, cease, calls and servers | |
| `Process` | start and shutdown of a process, and the ids its threads draw | |
| `ProcessProofs` | its theorems, and those of `Cwc` | extends `Process`, `Cwc` |
| `Ssl` | TLS groups and a session over a TCP element | |
| `SslProofs` | its theorems | extends `Ssl` |
| `Qic` | QUIC engines, listeners, clients, connections, streams, header sets | |
| `QicProofs` | its theorems | extends `Qic` |
| `Kqueue` | the master's and a worker's loop on kqueue | |
| `MC...` | model values for TLC | extend the above |

In each module a definition marked "Faulty" is a variant of the definition
that follows it with a plausible bug. No specification uses it; it is there to
show that the properties notice.

### CtcChannel

A direction of a worker has a list only its sender touches (`pending`), a list
both sides touch (`shared`), the sender's flag (`free`) and an eventfd, whose
64-bit counter holds two counts: INCR in the low half, TAKE in the high half
(`wakeIncr`, `wakeTake`). The accept direction is `accepting_ctcs`,
`accepted_ctcs`, `is_respond_ctc`, `accept_wake`; the commit direction is the
same with `commit`. Because the code of the two is the same, so are the actions.
A thread step ends where the other side could notice: filling a list and writing
the eventfd are two steps (`PushShared`, `WriteIncr`), so are draining and
handing back (`Drain`, `WriteTake`). `evs` is the unhandled rest of the epoll
batch; between two events of it the thread may run callbacks that push more.
`gotIncr`/`gotTake` are the local `ctc_ev`, which keeps its value when a read
fails.

eventfd and epoll are external: a write sets the descriptor on the watcher's
ready list, `EPOLL_CTL_ADD` does so if it is readable already, `epoll_wait`
reports those that are still readable.

Threads start (`Start`) at any time relative to each other, so calls may be
pushed to a worker that has not registered its eventfd yet.

### Ctc

`ctc[c]` is `struct dpele` of the call: the atomic `stat`, `asc_type` (which is
what `dpele_is_doing` reads), `fromid`, `toid`, `ret`, `refc`, the flags. A step
is an API call or a turn of the reap loop, with two exceptions, the places where
an API call touches the element after another thread may have it: `dpevp_addv`
stores `ele->ret` after the commit (`AddStore`), `dpele_del` reads `asc_type`
after dropping the reference (`DelCheck`). Any other thread may run before these.

`_worker_reap_ctc` and `_master_reap_ctc` are one `Dispatch` whose disjuncts are
the cases of their switches. `"submit"` is `dpctc_submit`, which has no post and
whose callback the binding runs (`LoopStep`, `EndCtc`); `"syc"` stands for the
`dpsyc_*` operations, whose post makes a blocking system call. `SycThreads` are
the threads between which `dpsyc_*` is used. `obs` is history: which submission
this is, where it ran, where it was popped, and whether it had come back before
the `dpevp_addv` that made it was over (`early`).

### EventLoop

One thread, but three sources of disorder: descriptors become ready and time
passes at any moment (`Edge`, `Tick`), a batch of events is handled one element
per `dpevp_pop` with user code in between, and the callback of a
`dptmr_callback` runs user code inside `dpevp_pop` (`cb`). `pc` is the phase of
`dpevp_pop`: the batch, the ready queue, the timer tree, `epoll_wait`. CTCs come
between the ready queue and the timers in the code and are left to `Ctc`.
`owed[e]` counts the results still to be delivered for e.

What an I/O operation's prep or post decides is a nondeterministic choice
(`AddIo`, `ReapEfd`); `Efd` models what posts decide. Deadlines are ticks left;
a clock would be unbounded. Equal deadlines are ordered by address in the
red-black tree, here either way. A reference count above one only delays the
last `dpele_del`; it is 0 or 1.

`Uses` says what the application does. Four of its values are uses the code
accepts and gets wrong, and are absent from the passing run (see *Other
disagreements*).

### Efd

One stream descriptor. `able` and `want` are `able_events` and `want_events`,
`op` the operation with its `_dpaio_stm_t`, `stat` where the element is. A post
is one step per system call (`ReadCall`, `WriteCall`; `got` is the local `total`
of `_dpaio_buf_post`), because the kernel goes on between two of them; how the
stream operations continue or end is `Post`, how the loop of `_dpefd_wake` goes
on is `PostReturns`. `ext` is `dpbuf_cesize`, the bytes an earlier `read_must`
left beyond the read window; that and the number of bytes moved is all that is
kept of a buffer. `dpefd_poll` makes no system call: it withdraws the events and
leaves it to the user to use them up (`handed`, `UseUp`).

The kernel is external. `avail` and `room` are its buffers. Data and a close put
the descriptor on epoll's ready list; room does so only after a write that found
none (SOCK_NOSPACE); `epoll_wait` reports the mask of that moment. So a batch can
hold an event that is no longer true when it is reaped.

### Dpbuf and ByteWindow

`buf[b]` is `dpbuf_t`: the cursors `rbeg`, `rend`, `wbeg`, the `size`, and the
storage they are on; `store` is `dpbuf_data_t` with its reference count.
Constructors, resizing, compaction, cursor moves, reads and writes of any kind,
copies between buffers and views of a shared storage are actions on them.
`store.mem` has the bytes; a byte that nobody wrote is `Junk`, and a byte stored
outside the allocation sets `oob`. `read_until` is there too (`op`): it keeps a
search position while compaction moves the window.

`ByteWindow` is what a user may rely on: a text cut into consumed, readable and
slack; the cuts move, bytes come at the end only, only consumed bytes are
forgotten. `ImplementsWindow` says that capacity, growth and compaction cannot
be seen through it. The C++ class is a wrapper of these operations.

### Cwc

A thread's coroutines. `co` is `dpaco_t` (state, who resumed it, deferred
deletion, wrap), `pool` the blocks kept for reuse, `ele[e].cop` the handle an
await leaves in the element. An operation under way completes at some time and
queues its element (`Complete`); `Step` is the binding's loop: pop, find the
waiter, resume it. `bind` chooses the binding: C takes the handle from the
element, C++ from its promise, Lua from a table it clears. `fresh` says whether
the handle is of the present operation. `answer` is history: whom the loop woke
last, for which element, and what it waited for.

Servers (`dpcwc_aux.c`, `dpsvr.lua`) are an accept loop in a coroutine of its
own with a stop flag; `aexec` and `call` send a function to another thread and
run what comes in from one.

### Process

`main` is one sequential thread (`Main`): it tries the bindings in turn, lays out
the thread ids, creates a loop and a thread per id, runs the master's loop,
joins, deletes and returns. The other threads set up their environments, run and
exit at their own pace (`ThreadInit`, `ThreadExit`). `Fails` are the ids whose
creation may fail; `Resolve` is `dpctc_set_toid`'s choice of a thread.

`ctx`, `waiting` and `issued` are the ids that `dpcwc_id_next` and its C++ and Lua
twins draw: a call that finds the sequence used up within its millisecond waits.
In C it sleeps, and other coroutines of the thread may draw meanwhile, `Callers`
of them at most (`overtaken` counts the ids drawn so); in C++ the sleep is not
awaited and in Lua it is `usleep`, so that the thread does nothing else (`Spins`).
Time is a counter that grows between any two steps; that the wall clock behind
`dplog_millis` is not set back is assumed.

### Ssl

The registry of groups, certificates and protocol names, with the cached wire
form of the latter (`dirty`, `wire`), and a session element that takes over the
TCP element. OpenSSL is external: it consumes and produces whole records over the
socket of the module, holds plaintext (`pend`), and says WANT_READ or
WANT_WRITE. Readiness is kept as in `Efd`. `recv` hands out plaintext in pieces,
so a record may be left in the engine with nothing in the socket. `out` is what
`dpcwc_ssl_client` and `dpcwc_ssl_accept` return to their callers, failures of
each step included.

### Qic

lsquic is external and runs only inside a tick (`pc = "tick"`), where it makes
callbacks in any order. `End` is `dpevp_end`: the operation stays with the
element until the loop pops it, and a later callback of the tick may meet it
still. `place` says where a connection or a stream is: a ready list, its user's
hands, or nowhere. `wr` and `ww` are a stream's wishes to be called back
(`lsquic_stream_wantread`, `wantwrite`); `stale` says that one is left of a
cancelled call, `dup` that the stream has had a copy. A header set is a sequence
of slots with buffers of their own; `last` is what was set.

lsquic knows a stream's first element only. If that is deleted while its copy
lives, the callbacks go on with freed memory (`Freed`). They are modelled by what
they can do to the stream: the wish is withdrawn or stays (`OnFreed`), a close
may or may not be seen by the copy (`OnClose`), the connection closes all the
same. What a post run from freed memory writes elsewhere is not followed.

### Kqueue

The master and one worker with timers, reads and calls both ways, in one module
because the events of all three are in one array. A time limit is a one-shot
kernel timer per element (`kt`); the wakes between threads are EVFILT_USER, which
keep the data of the last trigger only (`wake`); descriptors are level-triggered.
`dpevp_pop` takes a step per event or element, counts what it returns against
`Limit`, and `kevent()` overwrites what is left of the array.

## Runs

| Run | Instance | What it shows |
|--|--|--|
| `channel` | 2 workers, 3 calls, symmetric | token, lists, wake-ups, refinement of `CtcFifo!Spec` |
| `channel_live` | 1 worker, 3 calls | refinement of `CtcFifo!FairSpec`: everything handed over arrives |
| `ctc` | 1 call, 3 threads in every role, 3 submissions, 2 forwards, detached or not; `dpsyc_*` between the workers | a call runs once per hop, comes home, loses its result only if back too early, is freed and then touched by `dpele_del` only |
| `loop` | 1 EFD, 1 timer, limit 2 | one result per submission, nothing freed is linked, no sleep on work, due timers fire |
| `efd` | one descriptor, all operations of length 3, kernel buffers of 2 | no edge lost, bytes accounted, waits end |
| `buf` | a buffer of up to 8 bytes with a second one to copy to and from, CR LF as delimiter | stays in its storage, views counted, refinement of `ByteWindow`, `read_until` stops at the first delimiter |
| `cwc` | 2 coroutines beside the main one, a descriptor, 2 calls, a timer, each binding | woken by the element waited for, recycled blocks have no handle left, every await returns |
| `process` | 5 layouts of up to 2 workers, one of them over the limit; 4 ids, 2 callers per thread | loops outlive threads, ids repeat for one reason only, `dpapp_start` returns |
| `ssl` | a group, a session, records of 2 bytes, both roles | no stall, ALPN up to date, one owner |
| `qic` | 2 connections, a stream and its copy, 2 header names | handed out once, calls served once, headers sound |
| `kq` | a timer in the worker, a descriptor in the master, 2 calls | no call lost or taken twice |
| `kq_timer` | 2 timers, limit 1 | *violated*: a timer event is overwritten and the timer never returned |

The violation is described under `findings` in `PROJECT.json`, with the line of
documentation the code disagrees with.

### Statements that fail

Where the code breaks a plain statement, the run checks what holds in its place,
and the plain one is defined beside it. These have a configuration of their
own, with which TLC finds the counterexample in seconds
(`tlc -config MCCtcRet.cfg MCCtc.tla`). Line numbers without a file are of
`os/linux/dpevp_epoll.c`.

| Statement | Configuration | What the code does | The run checks |
|--|--|--|--|
| `ResultIntact` | `MCCtcRet.cfg` | `dpevp_addv` overwrites a result (`:1469`) | `ResultUnlessEarly` |
| `NoDangling` of `Ctc` | `MCCtcDel.cfg` | `dpele_del` reads a freed element (`:354`) | `OnlyDelDangles` |
| `DoingUntilPopped` | `MCCtcIdle.cfg` | `dpsyc_*` look idle on their way home (`:1076`) | `HomeWhenIdle` |
| `EndSetsRet` | `MCCtcEnd.cfg` | an ended `dpsyc_*` runs at home (`:1359`) | `CancelledNeverRuns` |
| `WokenByOwn` | `MCCwcCease.cfg` | `dpcwc_cease` wakes who does not wait (`dpcwc.c:339`) | `WokenByOwn`, cease in Lua |
| `IdsUnique`, `IdsGrow` | `MCProcessIds.cfg`, `MCProcessOrder.cfg` | the sequence restarts in its millisecond (`dpcwc_aux.c:82`) | `RepeatsAsleepOnly` |
| `NoFreedUse` | `MCQicFreed.cfg` | callbacks on a freed element (`dpqic.c:741`) | |
| `ResultKept` | `MCQicClose.cfg` | a close replaces a result (`dpqic.c:1428`) | |
| `CopyPostedOnce` | `MCQicCopy.cfg` | a copy's wish runs the other's post (`dpqic.c:1382`) | `PostedOnce` |
| `TurnKept` | `MCKqueueWake.cfg` | an overwritten wake stops its direction (`dpevp_kqueue.c:154`) | `CallsKept` |

Others fail in instances described with them under *Other disagreements*:
`BatchAlive`, `TimerFires`, `MustFills`, `FailureReported`,
`SuccessGivesSession`, `FoundOrContinue`.

### Bounds

* `CtcChannel`: three calls are the fewest for which one direction can have one
  in the shared list and two pending, so that a wrong order shows; two workers
  are what it takes to mix up their flags in one batch. Workers and calls are
  interchangeable, hence the symmetry; it is off where liveness is checked.
* `Ctc`: calls share nothing but queues, and `CtcFifo` is order-preserving
  whatever is in them, so one call is enough; every pair of owner and target
  occurs. A second and third submission show what is left over from the ones
  before, two forwards a path that returns.
* `EventLoop`: a timeout of one tick lets expiry fall before, between and after
  any two steps since ticks are not tied to steps. A reap limit of 2 is the least
  that differs from returning after every element. Two kinds of element suffice
  to have events, ready elements and timers compete.
* `Efd`: kernel buffers of 2 and operations of 3 bytes: no operation can finish
  with one wake-up, and a batch size of 2 makes `read_some` take two rounds.
* `Dpbuf`: sizes up to `MaxSize = 8` allow several growths and `SSize = 0` lets
  compaction happen at every size at which it can; texts have at most 4 bytes. A
  delimiter of two bytes can be split over two reads. A second buffer limits
  both to 2 bytes (`PairLen`), which keeps the pairs few.
* `Cwc`: two coroutines and a pool of one, so that one block is reused and one is
  freed; five API calls in all (`MaxCalls`).
* `Process`: `MaxThreads = 2` so that a layout can exceed it; `MaxSeq = 1`, so
  that the sequence ends every second id; four ids and milliseconds 0 to 3; two
  callers per thread, the fewest of which one can draw while one sleeps.
* `Ssl`: one record fits into the socket, so that both directions block; the
  peer sends one record beyond the handshake.
* `Qic`: two connections for the order of a ready list; one stream with its copy;
  five calls of the user; three slots in a header set, so that the first, the
  middle and the last can be removed.
* `Kqueue`: user calls are bounded per kind (`MaxIo`, `MaxCtc`). The array of
  events is never smaller than the events there are (`ev_capacity`).

### Fairness

Every loop keeps running (`WF` on `LoopStep`, in `Cwc` on `Step`: each binding's
main loop calls `dpevp_pop` for ever), callbacks return (`EndCtc`,
`CallbackReturns`, `Coroutine`: they are cooperative, one that does not return
blocks its thread by contract), the queues deliver (in `Ctc`, from
`ImplementsFairFifo`), time passes (`Tick`). In `Cwc` an operation completes
(`Complete`), because what awaits an operation for ever is right to wait; in
`Process` the scheduler runs every thread that initialises or exits, and nothing
is said about when a loop ends. Nothing is assumed about user code: no
submission, end or delete is ever forced; nothing about the peer of a descriptor
either.

Deadlock checking is off for `Ctc`, `Cwc`, `Dpbuf`, `Ssl` and `Qic`: once the
bounded number of calls is used up and everything is deleted, nothing is left to
happen.

## Proofs

Eight modules of theorems: one per component, with the kqueue loop next to the
hand-over it replaces (`CtcChannelProofs`) and the coroutines next to the process
(`ProcessProofs`). Each proves an inductive invariant with one lemma per action
and derives the properties from it. Nothing is assumed but the `ASSUME`s of the
component's module (kinds and signs of the constants), which TLC evaluates in
every run, and the hypotheses written into a theorem, which exclude what
*Other disagreements* shows the code to get wrong.

| Theorem | States | Under |
|--|--|--|
| `CtcChannelProofs`: `TypeCorrect`, `BatchAlwaysReadable`, `TokenAlwaysOnce`, `ListRaceFree`, `WakeBitsNeverCarry`, `NothingOverwritten` | the type, `BatchReadable`, `TokenOnce`, `NoListRace`, `WakeBits`, `MoveLosesNothing` with `DrainedOnReturn` | |
| `WakeupsKept` | `NoLostWakeup` | |
| `HandOverIsFifo` | `ImplementsFifo`: the refinement of `CtcFifo!Spec` | |
| `CallsInOnePlace` | `CallsKept` of `Kqueue` | |
| `CtcProofs`: `CallsTracked`, `CallsRunOnce`, `WithdrawnNeverRuns` | `IInv`, `RunsOncePerHop`, `CancelledNeverRuns` | |
| `CallsReturnHome` | `ReturnsHome` | `SycThreads \subseteq Workers` |
| `CallsShared`, `ResultsKnown`, `DanglesInDelOnly` | `JInv`, `ResultUnlessEarly`, `OnlyDelDangles` | |
| `EventLoopProofs`: `LoopKept`, `NeverOversleeps` | `LInv`, `NoOversleep` | |
| `ElementsKept`, `LoopTyped`, `NothingDangles`, `ResultsOnce` | `EInv`, the type, `NoDangling`, `OneResult` | `Careful` |
| `EfdProofs`: `TypeCorrect`, `EdgesKept`, `BytesAccounted` | the type, `NoLostEdge`, `Accounted` | |
| `DpbufProofs`: `ReferencesKept`, `StoragesCounted` | `CInv` and `Held`, `RefCounted` | |
| `BytesKept`, `StaysInStorage`, `EndsAtFirst` | `BInv`, `InStorage`, `StopsAtFirst` | `Modes \subseteq {"dup"}`, `FullDet = FALSE` |
| `BuffersAreWindows` | `ImplementsWindow`: the refinement of `ByteWindow!Spec` | `Modes \subseteq {"dup"}`, `FullDet = FALSE` |
| `ProcessProofs`: `StartKept`, `LoopsOutlive` | `PInv`, `LoopAlive` | |
| `ContextAhead`, `IdsRepeatAsleep` | `IInv`, `RepeatsAsleepOnly` | |
| `PoolIsSound`, `WokenByItsOwn` | `PoolSound`, `WokenByOwn` of `Cwc` | `CeaseIn \subseteq {"lua"}` |
| `SslProofs`: `SessionsKept`, `NothingStalls`, `AlpnSelected`, `TcpOwnedOnce` | `SInv`, `NoStall`, `AlpnCurrent`, `OwnedOnce` | |
| `QicProofs`: `ElementsPlaced`, `ReachesOne`, `PostsOnce` | `QInv`, `HandedOnce`, `PostedOnce` | |
| `HeadersKept`, `HeadersGood` | `HInv`, `HeadersSound` | |

`PROJECT.json` says in a sentence what each establishes. The invariants of the
modules other than `CtcChannel` were checked with TLC, on instances of the size
of the runs, before they were proved.

### The hand-over

`TokenOnce` says that `free`, the sender's critical phases, INCR flags in the
eventfd, the receiver's phases and TAKE flags in the opposite eventfd add up to
one. It is not inductive alone: a read of an eventfd that holds nothing would
keep the previous flags and make a second token, which only `BatchReadable`
rules out; `BatchReadable` in turn needs that nobody but the one reader resets
the eventfd. That is why a failed `read` is modelled at all. The argument per
step is pointwise: a step of thread t for worker w changes the counts of w's two
directions only, and moves one unit from one summand to the next.

`NoLostWakeup` is then inductive: whoever makes an eventfd readable puts it on
the ready list, and only the reader, who takes it into the batch, removes it. For
the refinement a queue of `CtcFifo` is `shared \o pending`. `Move` leaves that
alone because `MoveLosesNothing` has the shared list empty; `Drain` takes from
its head; the rest are stutters.

### Calls

`IInv` has three parts beside the type. `OnePlace`: an element is in the hands of
one thread or at one position of one queue; its links are in itself, so being in
two would destroy a list. `ReapedInHand`: what a thread turns over it holds.
`Track`: where a `dpctc_submit` call can be, given its state, how often it has
run, and which way it is going. `Track` is claimed of elements only
`dpctc_submit` was used on: `dpsyc_*` leaves `asc_type` empty on the way home, and
the next submission may then find the element queued. For those `Homing` keeps
what `ReturnsHome` needs, if the master is neither owner nor target.

`JInv` adds the two places at which other threads may overtake the owner.
`Inside`: a thread in `dpevp_addv` works on a live, referenced call of its own
that nobody can have withdrawn, as only the owner could; the one in `dpele_del` on
a call of its own, which is alive unless it was detached or withdrawn: any other
still comes home to its owner, who is busy. `Result`: the result of a finished
call is the callback's, or is so until the store of `dpevp_addv` (`early`), or is
`DPE_INPROGRESS` after it.

### Event loop

`LInv` holds whatever the application does. The order of the timer tree is what
`NoOversleep` needs, and the insertion keeps it because it goes before the first
later deadline; that there is a first one is the least-number principle
(`WFMin`), the only form of induction these proofs use.

`EInv` accounts for elements: a freed one is nowhere and is owed nothing; a live
one is owed one result if it is doing and one more while its callback runs; it is
queued or timed, not both, and only while it is doing. `Careful` excludes the four
uses described under *Other disagreements*, each of which breaks it.

### Descriptors

One invariant of four parts beside the type. `Running`: a
post runs only for an event in `able_events` and never after a hang-up.
`Covered` is `NoLostEdge` inside posts too, with what keeps it: without room
either OUT is still known or a write has failed, so that the next room is an
edge; and HUP is never known without IN, which is why the IN that a read
withdraws at end of file is no loss. `Sized`: what is counted and what is asked
for next fit the buffer, with equality for the operations of fixed length; it
keeps every system call asking for at least one byte. `Counted` is `Accounted`
inside posts. The type invariant needs `Sized`, the edges need `Running`, so
they are proved together.

### Buffers

`CInv` is the counts with the shape of the records, `Held` that a waiting
`read_until` has a live buffer. They hold for every use: no operation but
creation and deletion changes which buffer is on which storage.

`BInv` adds the bytes. `InStorage` is not inductive: it bounds `size` by the
allocation, and the NUL that follows needs one byte more, so `Within` asks for
`size < alloc`, and for the bytes below `wbeg` to be in `mem`. A buffer other
than the one written to keeps this because a writer has a count of one and so, by
`CInv`, no neighbour. `read_until` writes later than it made room: `Waits` says
that until then its buffer stays alone on its storage and its room is what it
was. The helpers have a lemma each (`ResizeGood`, `RecycleGood`, `StoreGood`,
...), the actions compose them.

`UInv` is for `StopsAtFirst`. While `read_until` waits, its search position and
its count lie within the unread text, and unless both are 0 that text holds no
delimiter. `HitsFrom` is the heart: the search goes on from `ScanFrom`, and what
begins before it ends in the part already searched, so no occurrence is missed.
Growing and compacting keep the unread text (`Carried`), and no other operation
touches the buffer or its storage meanwhile (`WaiterApart`).

For `ImplementsWindow` every operation is one of the steps of `ByteWindow`.
Making room, writing and `read_until` are steps *onward* (`Onward`: the consumed
text stays or is forgotten as a whole, the rest is the beginning of the new
rest), which compose; so each is put together from a fact about `Resize`,
`Recycle` or `Store`. Seeks and reads keep the whole text (`MovesCuts`, from
`SpanJoin`: texts that meet join). A step is not seen through another buffer
because the storage written to has no other user (`OnlyUser`), or keeps its bytes
(`Unseen`).

### Processes

`PInv` says per phase of `dpapp_start` which loops exist and which threads may
run: none before the creation loop, a thread only on a loop made before it, no
loop freed before all have ended. `IInv` is about ids. Its heart is `Fresh`: no
id a thread has drawn is newer than its context, and in the context's millisecond
they are below the sequence or the last one, provided that no coroutine of the
thread sleeps. So an id drawn with nobody asleep is new, and `Counted` charges
every repeated id to one drawn beside a sleeper. `OnLayout` tells the threads'
ids apart, `NoneOvertaken` that C++ and Lua have no such sleepers. Nothing bounds
the callers.

### Coroutines

`CInv` of `ProcessProofs`' second half (`Cwc`) is about three records: the
runtime `Rt`, the elements and the ready queue.

* `Chain`: the coroutines inside `dpaco_resume` and the one that runs form one
  chain from `Mainco`, no two resumed by the same one. So going back always finds
  its resumer suspended in that very `dpaco_resume`, and a block is not given back
  while somebody will return to it.
* `Shaped`: a coroutine alive is freed by exactly one of `dpaco_wrap` and
  `dpaco_delater`, so a block enters the pool once; `Pooled` is the result.
* `HandleAt`: a fresh handle is of a suspended coroutine that waits for just this
  element. `Sound`: outside Lua an element under way has no handle left behind;
  this is where `dpevp_addv` clearing the handle of a call (`Add`) is needed.
* `OwnAt`: who sleeps has the only reference to its timer; one coroutine at most
  is started per element (`Mixed`); an element is in the ready queue once
  (`Queued`).

A wake then resumes who waits for the element: in C and C++ because the handle is
fresh, in Lua because the table has only those who wait. `CeaseIn \subseteq
{"lua"}` is needed: `dpcwc_cease` leaves the handle in an element still under way
(*Other disagreements*), which breaks `Sound`. The effects of the operations are
stated field by field (`Starts`, `Marks`, ...), so that each action is a chain of
them and each part of `CInv` has one lemma per effect.

### kqueue

`KInv` is `KqueueConsts /\ LoopType /\ CallType /\ WakeTokens /\ Whereabouts`.

* `WakeTokens`: for each direction at most one of these holds: the sender asks,
  an INCR is in the knote or in a batch, the opposite TAKE is. While the token is
  with the sender or a TAKE is under way the list handed over is empty: that is
  why a trigger that overwrites another loses no call when lists are swapped.
* `Whereabouts`: the lists and the queues of calls taken are one function,
  `Lines`, in which no call is twice (`Apart`); a call in a line is under way and
  in nobody's hands, and one that waits on the worker's side and is not on its way
  home is for the worker (`Routed`). A step takes a call out of a line (`TakeUp`),
  puts it into one (`PutDown`), or moves a whole line to the end of another
  (`MoveKeeps`).

What is proved is that no call is lost or in two places. That it is taken at all
is not true: "at most one" cannot be made "one" (`TurnKept`), and
when it is none, the calls of that direction stay in their list for good.

### TLS and QUIC

`SInv`: the TCP element is the caller's or the session's (`Owned`); the wire form
is current or marked (`Wired`); what is readable or writable is recorded or about
to be reported (`Ready`, the analogue of `Covered`); an operation waits for what
is not recorded (`Waits`). The engine may hold plaintext with nothing in the
socket, so `NoStall` needs `Waits` and `Ready` together.

`QInv` says where each element is (`ConnOK`, `StmOK`, `LsnOK`), that the ready
lists are exactly the elements that say so (`Queued`, `Listed`) and in the order
of arrival (`InOrder`), and that a call that waits has left the address of its
variable. `WishesOf` is for `PostedOnce`: without a copy, a stream's wish is that
of the operation that waits, or is left of a cancelled one. `HInv` says that the
used slots of a header set come first, that buffers are not shared, and that each
name has the value set last. Removal moves the last header into the gap and its
buffer to the end, which is why no buffer is lost or shared.

### Model-checked only

* Liveness (`ImplementsFairFifo`, `Completes`, `Freed`, `TimerFiresUnlessBusy`,
  `Progress`, `CloseEndsWait`, `AwaitReturns`, `StartReturns`): out of the
  prover's reach.

Every invariant of a passing run is a theorem.

## Other disagreements

Found while modelling; what is not in the table above is reproducible by changing
the constants of a configuration as given. Line numbers without a file are of
`os/linux/dpevp_epoll.c`.

Cross-thread calls:

* After the commit `dpevp_addv` stores DPE_INPROGRESS in an element whose callback
  another thread may have run (`:1469`): the owner pops that instead of the result.
  `develop.md:261`: "完成后 `dpevp_pop` / `await` 取结果；`dpele_ret` 为返回值".
* `dpele_del` drops the last reference of a detached call under way and then reads
  `asc_type`; the serving thread may have freed the element in between (`:354`).
  `dpevp.h:101` recommends this use: "fire-and-forget 推荐 detach 后 `dpele_del`".
* A worker clears `asc_type` of a `dpsyc_*` element before it is home (`:1076`).
  `dpevp.h:106` says of `dpele_is_doing` "元素是否正在执行异步操作（已提交且未完成）".
* `dpevp_end` on a queued `dpsyc_*` call leaves `asc_type`: the post runs on the
  originator and its result replaces the one given (`:1359`). `dpevp.h:156`:
  "强制结束元素并唤醒等待方（`dpele_ret` 设为 `ret`）".
* `dpsyc_*` with the master as owner or target is popped on the serving thread
  (`SycThreads` with `Master`, `ReturnsHome`).
* A detached call whose last reference is dropped after it was served is never
  freed (`:1582`; the exception in `Freed`). `dpevp.h:82`: "减引用；为 0 时销毁。"

Event loop and descriptors:

* An element deleted in a callback while its event is in the batch is used after
  it was freed (`:279`, `:1115`; two EFDs, `BatchAlive`).
* An element that is always ready keeps timers from firing (`:1394`; a USD and a
  timer, `TimerFires`).
* A timer re-armed between `dpevp_end` and the pop is popped idle with its timer
  armed, and can be freed in the tree (`:1427`; `"rearm_ended"` and `"delete"`,
  `NoDangling`). `develop.md:242` on DPASC_FLAG_ALLOW_DOING: "元素已 doing
  时仍允许提交".
* A callback that re-arms its timer when no reference is left has it freed in
  the tree (`:1367`; `"orphan_rearm"`, `NoDangling`).
* A `dptmr_callback` that deletes its own timer frees it while
  `_dpele_asc_over` still uses it (`:1357`; `"own_delete"`, `NoDangling`).
  `develop.md:159` has doing last until the post is over.
* A refused re-arm (no callback given) makes an armed timer idle without
  disarming it (`:1478`; `"null_callback"`, `OneResult`).
* `dpevp_end` on a `dptmr_callback` runs the callback and reports DPE_OK
  (`:1362`).
* An expired `dptmr_timeout` has ret DPE_TIME (`:869`); `dpasc.h:129` says
  "到期后 `dpele_ret` 为 `DPE_OK`". kqueue does the same.
* A detached timer whose callback re-arms it with no delay keeps `dpevp_pop` from
  `epoll_wait` (`:1395`; `CallbackLoops`). The comment at `:1393` states the
  limit is there to prevent that.
* `write_must` returns success with bytes left (`dpasc.c:337`; `Kinds =
  {"write_must"}`, `MustFills`). `dpasc.h:292`: "写满 dpbuf 全部可读数据".
* An end of file after a partial read makes `_dpaio_buf_post` forget the bytes
  it has read (`dpasc_epoll.c:142`; the `~closed` in `Accounted`).
* Once the peer's close is reported every operation fails, reads too, although
  bytes that came before the close are unread (`:542`, `:1109`).
* `dpefd_poll` returns, and withdraws, all events that were asked for, ready or
  not (`dpasc.c:65`); `dpasc.h:140` promises the ready ones. The exception
  `handed` in `NoLostEdge` and `Progress` contains these events.
* `doc/detail.md:25` says that events nobody wants are discarded; `_dpefd_feed`
  keeps them (`:576`), and the mutant of `NoLostEdge` shows that it has to.
* `dpele_dup` tests the descriptor of the new element, which is -1, so that the
  copy of an EFD never gets one (`:389`; `dpevp_kqueue.c:360` on kqueue).
* A second `connect` on an element while the first is under way is accepted.

Buffers:

* A buffer on the caller's memory has no byte behind it for the NUL that
  compaction and resizing store at `data[size]` (`dpbuf.c:425`; `Modes` with
  `"own"`, `InStorage`).
* `dpbuf_readto` takes an error code of `dpbuf_wbuf` for a number of bytes
  (`dpbuf.c:878`; `FullDet = TRUE`, `InStorage`).
* `read_until` on a socket passes its search position to `recv` as flags
  (`dpasc.c:429`), and gives a count without the delimiter when a read fails
  after a first part (`FoundOrContinue`). `dpasc.h:295`: "读到分隔串；未找到返回
  `DPE_CONTINUE`".
* Bytes written through a view or its origin show in the other; the module
  writes to a storage only while it has one user.

Coroutines and processes:

* `dpcwc_cease` and its C++ counterpart resume whose handle the element has
  (`dpcwc.c:339`; for C++ `CeaseIn = {"cpp"}`). An idle element still has that of
  its last await. An element under way is left queued with it, so that the
  coroutine's next wait, for whatever, is answered by it. Lua takes the handle away
  first. `dpcwc.h:70`: "中止 `ele` 上未完成的操作，并以 `ret` 唤醒等待协程".
* When a loop or a thread cannot be created, `dpapp_start` deletes loops that were
  never made and loops whose threads are running (`dpapp.c:264`;
  `FailureReported`).
* Two coroutines of a thread can draw the same id, as the sequence is reset before
  the sleep (`dpcwc_aux.c:82`); and the last number of the sequence, drawn without
  a sleep, is followed by 0 in the same millisecond. `dpcwc_aux.h:23`: "生成单调
  Snowflake ID".
* `dpcpp::next_id` creates a sleep that it does not await (`dpcpp_aux.cc:99`), so
  the end of a sequence keeps its thread from everything else for a millisecond;
  `dpid_next` of Lua calls `usleep` (`dplua_ext.c:80`).
* The thread limit counts disabled types as negative threads (`ThreadCount`).
* The Lua binding releases nothing when a step of its start-up fails, and its
  exit function may run while the coroutine of its init function is suspended.
* `dpsvr.lua:38` hands the TCP peer itself to the handler when the TLS session
  cannot be made.

TLS and QUIC:

* `dpcwc_ssl_client`, `dpcwc_ssl_accept` and others return `errno` when
  `dpele_new` gives NULL; it is positive, and stale if no system call failed, so
  the caller sees success without a session (`SuccessGivesSession`).
* When `epoll_ctl` fails for a new session its TCP element is deleted twice, by
  the session and by the caller (`:326`; `out.lost` in `OwnedOnce`).
* `close_notify` is reported as DPE_CONNRESET and the first, successful half of
  `SSL_shutdown` as DPE_EOF (`dpssl.c:939`, `:1003`).
* Deleting a stream's first element before its copy leaves lsquic's context as it
  is: callbacks get a freed element (`dpqic.c:741`), and the copy can read no more
  (`OnFreed`). The comment at `:1430` there has the context taken back.
* A close replaces the result of a completed call that was not popped yet by
  DPE_CLOSED (`dpqic.c:1428`).
* On a stream with a copy the callbacks run the first element's post, whichever
  element asked (`dpqic.c:1382`): once too often for the one, never for the other.
  The comment at `:722` allows "同一流上并发的待定读写操作".
* A cancelled call leaves its wish to be called back; the next call's post may be
  run by both, once too often (`stale` in `PostedOnce`).
* A cancelled accept leaves the address of its variable behind, and the next
  connection is written there (`cancelled` in `HandedOnce`).
* Deleting an engine leaves its timer armed.

kqueue:

* An INCR that overwrites a TAKE, or the other way round, before it was reaped is
  the end of that direction (`dpevp_kqueue.c:154`): its sender waits for a TAKE
  nobody will send, and calls stay in the list for good. `develop.md:227` has
  every call back at its originator.
* A read that gets fewer bytes than asked for forgets them and is called again at
  once until there are more (`dpevp_kqueue.c:529`).
* A timer event behind the event that ends its operation in one array ends the
  element's next operation with DPE_TIME.

## Not modelled

* `recvmsg`, `sendmsg`, `accept`, `connect`, `splice` and `tee` as operations of
  `Efd`: they use its readiness protocol and move no stream of bytes. `accept` is
  a wait of `Cwc`'s servers.
* The file operations of `dpsyc_*`: each is one system call, run as a `Ctc`.
* The kqueue build's operations other than `read`; vnode events.
* OpenSSL and lsquic, key loading, protocol versions and ciphers, UDP packet I/O,
  engine settings: environment of `Ssl` and `Qic`.
* C++ exceptions and return values of promises, Lua's marshalling of values and
  topics, command line text, file name lookup, logging, error strings, base62:
  conversions no property is about.
* `dprbt.h`: a third-party red-black tree; its order is used, its balance not.
* Assembly context switches and stack memory: below the level of any module here.
* Memory exhaustion in `dpele_new` and friends: the caller gets NULL.

## Plan

The safety properties of the runs are proved. What is left is model: the kqueue
build's other operations (`dpasc_kqueue.c`), `recvmsg`, `sendmsg`, `accept` and
`connect` as operations of `Efd`, Lua's topics, and engine settings and packet I/O
of QUIC.
