---------------------------- MODULE CtcChannel -----------------------------
(***************************************************************************)
(* The hand-over of cross-thread calls (ctcs) between the master event     *)
(* loop and the worker event loops: lib/dpapp/os/linux/dpevp_epoll.c,      *)
(* worker_t and the _worker_*_ctc / _master_* functions.                   *)
(*                                                                         *)
(* Per worker there are two directions, "accept" (master to worker) and    *)
(* "commit" (worker to master), with the same code:                        *)
(*                                                                         *)
(*    direction   pending          shared          free            wake    *)
(*    accept      accepting_ctcs   accepted_ctcs   is_respond_ctc  accept_wake *)
(*    commit      commiting_ctcs   commited_ctcs   is_request_ctc  commit_wake *)
(*                                                                         *)
(* The shared list is written by the sender and drained by the receiver    *)
(* with no lock: a token goes round instead.  The sender that holds it     *)
(* (free) fills the list and adds _CTC_INCR_FLAG to the direction's        *)
(* eventfd; the receiver reads that eventfd, drains the list and adds      *)
(* _CTC_TAKE_FLAG to the eventfd of the opposite direction; the sender     *)
(* reads that one and has the token again.                                 *)
(*                                                                         *)
(* A step of a thread is what it does between two accesses to memory or to *)
(* an eventfd that the other side can see: list update and eventfd write   *)
(* are separate steps.                                                     *)
(***************************************************************************)
EXTENDS Naturals, Sequences, FiniteSets

CONSTANTS Workers,   \* ids of the worker event loops (dpevp_t.id > 0)
          Master,    \* the master event loop (dpevp_t.id = 0)
          Ctcs       \* the cross-thread calls in the system

ASSUME MasterAssumption == Master \notin Workers

VARIABLES
  free,      \* free[w][d]: is_respond_ctc / is_request_ctc
  pending,   \* pending[w][d]: accepting_ctcs / commiting_ctcs, sender only
  shared,    \* shared[w][d]: accepted_ctcs / commited_ctcs, both sides
  wakeIncr,  \* wakeIncr[w][d]: low half of the eventfd counter
  wakeTake,  \* wakeTake[w][d]: high half of the eventfd counter
  edge,      \* edge[w][d]: the eventfd is on its reader's epoll ready list
  evs,       \* evs[t]: wake events of the epoll batch not yet handled
  pc,        \* pc[t]: where thread t is
  cur,       \* cur[t]: the worker whose lists thread t is handling
  gotIncr,   \* gotIncr[t]: ctc_ev & _CTC_PUSH_MASK is not zero
  gotTake,   \* gotTake[t]: ctc_ev & _CTC_TAKE_MASK is not zero
  enter,     \* enter[t]: dpevp_t.enter_ctcs
  held       \* held[t]: ctcs popped by thread t and not handed on yet

vars == <<free, pending, shared, wakeIncr, wakeTake, edge, evs, pc, cur,
          gotIncr, gotTake, enter, held>>

Threads == Workers \cup {Master}
Dirs == {"accept", "commit"}

Other(d) == IF d = "accept" THEN "commit" ELSE "accept"
Sender(w, d) == IF d = "accept" THEN Master ELSE w
Receiver(w, d) == IF d = "accept" THEN w ELSE Master

\* The direction a thread pushes into, and the one it drains; In(t) is also
\* the eventfd it reads.
Out(t) == IF t = Master THEN "accept" ELSE "commit"
In(t) == Other(Out(t))

\* The workers whose lists thread t handles: all of them, or its own.
Peers(t) == IF t = Master THEN Workers ELSE {t}

Phases == {"new", "loop", "sendWake", "take", "takeWake", "push", "pushWake"}

TypeOK ==
  /\ free \in [Workers -> [Dirs -> BOOLEAN]]
  /\ pending \in [Workers -> [Dirs -> Seq(Ctcs)]]
  /\ shared \in [Workers -> [Dirs -> Seq(Ctcs)]]
  /\ wakeIncr \in [Workers -> [Dirs -> Nat]]
  /\ wakeTake \in [Workers -> [Dirs -> Nat]]
  /\ edge \in [Workers -> [Dirs -> BOOLEAN]]
  /\ evs \in [Threads -> SUBSET Workers]
  /\ \A t \in Threads : evs[t] \subseteq Peers(t)
  /\ pc \in [Threads -> Phases]
  /\ cur \in [Threads -> Workers]
  /\ \A t \in Threads : cur[t] \in Peers(t)
  /\ gotIncr \in [Threads -> BOOLEAN]
  /\ gotTake \in [Threads -> BOOLEAN]
  /\ enter \in [Threads -> Seq(Ctcs)]
  /\ held \in [Threads -> SUBSET Ctcs]

\* worker_new, master_new: empty lists, both tokens with their senders.  The
\* ctcs start in the hands of the threads, in any distribution.
Init ==
  /\ free = [w \in Workers |-> [d \in Dirs |-> TRUE]]
  /\ pending = [w \in Workers |-> [d \in Dirs |-> <<>>]]
  /\ shared = [w \in Workers |-> [d \in Dirs |-> <<>>]]
  /\ wakeIncr = [w \in Workers |-> [d \in Dirs |-> 0]]
  /\ wakeTake = [w \in Workers |-> [d \in Dirs |-> 0]]
  /\ edge = [w \in Workers |-> [d \in Dirs |-> FALSE]]
  /\ evs = [t \in Threads |-> {}]
  /\ pc = [t \in Threads |-> "new"]
  /\ cur \in [Threads -> Workers]
  /\ \A t \in Threads : cur[t] \in Peers(t)
  /\ gotIncr = [t \in Threads |-> FALSE]
  /\ gotTake = [t \in Threads |-> FALSE]
  /\ enter = [t \in Threads |-> <<>>]
  /\ held \in [Threads -> SUBSET Ctcs]
  /\ \A c \in Ctcs : \E t \in Threads :
       c \in held[t] /\ \A u \in Threads \ {t} : c \notin held[u]

Readable(w, d) == wakeIncr[w][d] > 0 \/ wakeTake[w][d] > 0

\* Faulty Start: what was written before the registration is not seen.
StartBlind(t) ==
  /\ pc[t] = "new"
  /\ pc' = [pc EXCEPT ![t] = "loop"]
  /\ UNCHANGED <<free, pending, shared, wakeIncr, wakeTake, edge, evs, cur, gotIncr,
                 gotTake, enter, held>>

\* worker_start, master_start: EPOLL_CTL_ADD of the eventfds the thread reads
\* queues those that are readable already.
Start(t) ==
  /\ pc[t] = "new"
  /\ pc' = [pc EXCEPT ![t] = "loop"]
  /\ edge' = [w \in Workers |-> [d \in Dirs |->
                edge[w][d] \/ (Receiver(w, d) = t /\ Readable(w, d))]]
  /\ UNCHANGED <<free, pending, shared, wakeIncr, wakeTake, evs, cur, gotIncr,
                 gotTake, enter, held>>

\* The kernel's half of a write to an eventfd watched with EPOLLET: every
\* write puts it on the ready list of the epoll instance that watches it.
Notify(w, d) ==
  edge' = [edge EXCEPT ![w][d] = @ \/ pc[Receiver(w, d)] # "new"]

\* Faulty PushShared: the flag is not cleared.
PushSharedKeep(t, w, c) ==
  /\ pc[t] = "loop" /\ c \in held[t] /\ free[w][Out(t)]
  /\ shared' = [shared EXCEPT ![w][Out(t)] = Append(@, c)]
  /\ held' = [held EXCEPT ![t] = @ \ {c}]
  /\ pc' = [pc EXCEPT ![t] = "sendWake"]
  /\ cur' = [cur EXCEPT ![t] = w]
  /\ UNCHANGED <<free, pending, wakeIncr, wakeTake, edge, evs, gotIncr, gotTake, enter>>

\* _worker_push_accept_ctc, _worker_push_commit_ctc with the token in hand,
\* up to the write of the eventfd.
PushShared(t, w, c) ==
  /\ pc[t] = "loop" /\ c \in held[t] /\ free[w][Out(t)]
  /\ free' = [free EXCEPT ![w][Out(t)] = FALSE]
  /\ shared' = [shared EXCEPT ![w][Out(t)] = Append(@, c)]
  /\ held' = [held EXCEPT ![t] = @ \ {c}]
  /\ pc' = [pc EXCEPT ![t] = "sendWake"]
  /\ cur' = [cur EXCEPT ![t] = w]
  /\ UNCHANGED <<pending, wakeIncr, wakeTake, edge, evs, gotIncr, gotTake, enter>>

\* Faulty PushPending: pushed at the wrong end.
PushPendingFront(t, w, c) ==
  /\ pc[t] = "loop" /\ c \in held[t] /\ ~free[w][Out(t)]
  /\ pending' = [pending EXCEPT ![w][Out(t)] = <<c>> \o @]
  /\ held' = [held EXCEPT ![t] = @ \ {c}]
  /\ UNCHANGED <<free, shared, wakeIncr, wakeTake, edge, evs, pc, cur, gotIncr,
                 gotTake, enter>>

\* The same functions without the token.
PushPending(t, w, c) ==
  /\ pc[t] = "loop" /\ c \in held[t] /\ ~free[w][Out(t)]
  /\ pending' = [pending EXCEPT ![w][Out(t)] = Append(@, c)]
  /\ held' = [held EXCEPT ![t] = @ \ {c}]
  /\ UNCHANGED <<free, shared, wakeIncr, wakeTake, edge, evs, pc, cur, gotIncr,
                 gotTake, enter>>

\* _worker_commit_ctc, _worker_finish_ctc and the master's: the call is for,
\* or came from, this very thread.
PushSelf(t, c) ==
  /\ pc[t] = "loop" /\ c \in held[t]
  /\ enter' = [enter EXCEPT ![t] = Append(@, c)]
  /\ held' = [held EXCEPT ![t] = @ \ {c}]
  /\ UNCHANGED <<free, pending, shared, wakeIncr, wakeTake, edge, evs, pc, cur,
                 gotIncr, gotTake>>

\* _worker_reap_ctc, _master_reap_ctc: take the oldest entered ctc.
Reap(t) ==
  /\ pc[t] = "loop" /\ enter[t] # <<>>
  /\ held' = [held EXCEPT ![t] = @ \cup {Head(enter[t])}]
  /\ enter' = [enter EXCEPT ![t] = Tail(@)]
  /\ UNCHANGED <<free, pending, shared, wakeIncr, wakeTake, edge, evs, pc, cur,
                 gotIncr, gotTake>>

\* Faulty EpollWait: eventfds are reported without another look at them.
EpollWaitStale(t) ==
  LET batch == {w \in Peers(t) : edge[w][In(t)]} IN
  /\ pc[t] = "loop" /\ evs[t] = {} /\ batch # {}
  /\ evs' = [evs EXCEPT ![t] = batch]
  /\ edge' = [w \in Workers |-> [d \in Dirs |->
                edge[w][d] /\ ~(w \in Peers(t) /\ d = In(t))]]
  /\ gotIncr' = [gotIncr EXCEPT ![t] = FALSE]
  /\ gotTake' = [gotTake EXCEPT ![t] = FALSE]
  /\ UNCHANGED <<free, pending, shared, wakeIncr, wakeTake, pc, cur, enter, held>>

\* dpevp_pop's epoll_wait: the queued eventfds that are readable when polled.
\* ctc_ev is a local of the reap function, zero in every new call.
EpollWait(t) ==
  LET batch == {w \in Peers(t) : edge[w][In(t)] /\ Readable(w, In(t))} IN
  /\ pc[t] = "loop" /\ evs[t] = {} /\ batch # {}
  /\ evs' = [evs EXCEPT ![t] = batch]
  /\ edge' = [w \in Workers |-> [d \in Dirs |->
                edge[w][d] /\ ~(w \in Peers(t) /\ d = In(t))]]
  /\ gotIncr' = [gotIncr EXCEPT ![t] = FALSE]
  /\ gotTake' = [gotTake EXCEPT ![t] = FALSE]
  /\ UNCHANGED <<free, pending, shared, wakeIncr, wakeTake, pc, cur, enter, held>>

\* Faulty AfterTake: the INCR test is the else branch of the TAKE test.
AfterTakeElse(incr) == "loop"

\* Where the handler goes when the TAKE half is done.
AfterTake(incr) == IF incr THEN "push" ELSE "loop"

\* _worker_reap_efd, _master_reap_efd: read the eventfd, which resets it.  A
\* read that finds zero fails and leaves the value of the previous read.
ReadWake(t, w) ==
  LET incr == IF Readable(w, In(t)) THEN wakeIncr[w][In(t)] > 0 ELSE gotIncr[t]
      take == IF Readable(w, In(t)) THEN wakeTake[w][In(t)] > 0 ELSE gotTake[t]
  IN
  /\ pc[t] = "loop" /\ w \in evs[t]
  /\ evs' = [evs EXCEPT ![t] = @ \ {w}]
  /\ cur' = [cur EXCEPT ![t] = w]
  /\ gotIncr' = [gotIncr EXCEPT ![t] = incr]
  /\ gotTake' = [gotTake EXCEPT ![t] = take]
  /\ wakeIncr' = [wakeIncr EXCEPT ![w][In(t)] = 0]
  /\ wakeTake' = [wakeTake EXCEPT ![w][In(t)] = 0]
  /\ pc' = [pc EXCEPT ![t] = IF take THEN "take" ELSE AfterTake(incr)]
  /\ UNCHANGED <<free, pending, shared, edge, enter, held>>

\* _worker_move_accept_ctc, _worker_move_commit_ctc: the shared list becomes
\* the pending one (an assignment, not an append).
Move(t) ==
  LET w == cur[t]
      d == Out(t) IN
  /\ pc[t] = "take"
  /\ shared' = [shared EXCEPT ![w][d] = pending[w][d]]
  /\ pending' = [pending EXCEPT ![w][d] = <<>>]
  /\ free' = [free EXCEPT ![w][d] = @ \/ pending[w][d] = <<>>]
  /\ pc' = [pc EXCEPT ![t] = IF pending[w][d] # <<>> THEN "takeWake"
                             ELSE AfterTake(gotIncr[t])]
  /\ UNCHANGED <<wakeIncr, wakeTake, edge, evs, cur, gotIncr, gotTake, enter, held>>

\* write(wake.fd, &_CTC_INCR_FLAG, 8) of the push and of the move functions.
WriteIncr(t) ==
  LET w == cur[t]
      d == Out(t) IN
  /\ pc[t] \in {"sendWake", "takeWake"}
  /\ wakeIncr' = [wakeIncr EXCEPT ![w][d] = @ + 1]
  /\ Notify(w, d)
  /\ pc' = [pc EXCEPT ![t] = IF @ = "sendWake" THEN "loop" ELSE AfterTake(gotIncr[t])]
  /\ UNCHANGED <<free, pending, shared, wakeTake, evs, cur, gotIncr, gotTake,
                 enter, held>>

\* _worker_take_accept_ctc, _worker_take_commit_ctc: drain the shared list.
Drain(t) ==
  LET w == cur[t]
      d == In(t) IN
  /\ pc[t] = "push"
  /\ enter' = [enter EXCEPT ![t] = @ \o shared[w][d]]
  /\ shared' = [shared EXCEPT ![w][d] = <<>>]
  /\ pc' = [pc EXCEPT ![t] = "pushWake"]
  /\ UNCHANGED <<free, pending, wakeIncr, wakeTake, edge, evs, cur, gotIncr,
                 gotTake, held>>

\* write(wake.fd, &_CTC_TAKE_FLAG, 8): hand the token back.
WriteTake(t) ==
  LET w == cur[t]
      d == Out(t) IN
  /\ pc[t] = "pushWake"
  /\ wakeTake' = [wakeTake EXCEPT ![w][d] = @ + 1]
  /\ Notify(w, d)
  /\ pc' = [pc EXCEPT ![t] = "loop"]
  /\ UNCHANGED <<free, pending, shared, wakeIncr, evs, cur, gotIncr, gotTake,
                 enter, held>>

\* What a thread does on its own, whatever its callbacks do.
LoopStep(t) ==
  \/ Start(t) \/ EpollWait(t) \/ Move(t) \/ WriteIncr(t) \/ Drain(t) \/ WriteTake(t)
  \/ \E w \in Peers(t) : ReadWake(t, w)

\* What its callbacks and its queue of entered ctcs do.
UserStep(t) ==
  \/ Reap(t)
  \/ \E c \in Ctcs : PushSelf(t, c)
  \/ \E c \in Ctcs, w \in Peers(t) : PushShared(t, w, c) \/ PushPending(t, w, c)

Next == \E t \in Threads : LoopStep(t) \/ UserStep(t)

Spec == Init /\ [][Next]_vars

\* Every thread runs its loop; what callbacks do is up to them.
FairSpec == Spec /\ \A t \in Threads : WF_vars(LoopStep(t))
-----------------------------------------------------------------------------
(***************************************************************************)
(* Properties.                                                             *)
(***************************************************************************)

\* Thread t is inside the handling of worker w's lists, in one of the phases.
Busy(t, w, phases) == cur[t] = w /\ pc[t] \in phases

\* The places the token of direction d can be in.
TokenAtSender(w, d) ==
  free[w][d] \/ Busy(Sender(w, d), w, {"sendWake", "take", "takeWake"})
TokenSent(w, d) == wakeIncr[w][d] > 0
TokenAtReceiver(w, d) ==
  LET r == Receiver(w, d) IN
  \/ Busy(r, w, {"push", "pushWake"})
  \/ gotIncr[r] /\ Busy(r, w, {"take", "takeWake"})
TokenReturned(w, d) == wakeTake[w][Other(d)] > 0

One(b) == IF b THEN 1 ELSE 0

\* In how many of these places it is.
TokenCount(w, d) ==
  One(free[w][d]) + One(Busy(Sender(w, d), w, {"sendWake", "take", "takeWake"}))
    + wakeIncr[w][d] + One(TokenAtReceiver(w, d)) + wakeTake[w][Other(d)]

\* Each direction of each worker has one token, never lost and never doubled
\* by the flag writes and reads of the two threads.
TokenOnce == \A w \in Workers, d \in Dirs : TokenCount(w, d) = 1

\* The shared list is never touched from both sides: the sender fills or
\* replaces it only while the receiver neither drains it nor has been told to
\* (_worker_push_*_ctc and _worker_move_*_ctc against _worker_take_*_ctc).
NoListRace ==
  \A w \in Workers, d \in Dirs :
    TokenAtSender(w, d) =>
      ~TokenSent(w, d) /\ ~TokenAtReceiver(w, d) /\ ~TokenReturned(w, d)

\* Each half of the 64-bit counter counts to one at most: the low half never
\* carries into the TAKE bits and no flag is merged with an earlier one.
WakeBits ==
  \A w \in Workers, d \in Dirs : wakeIncr[w][d] <= 1 /\ wakeTake[w][d] <= 1

\* _dpele_deque_move overwrites the shared list, so it must be empty then; and
\* a sender that has its token back at rest has nothing left behind.
MoveLosesNothing ==
  \A w \in Workers, d \in Dirs :
    /\ Busy(Sender(w, d), w, {"take"}) => shared[w][d] = <<>>
    /\ free[w][d] => shared[w][d] = <<>> /\ pending[w][d] = <<>>

\* The same while the token is on its way back to the sender.
DrainedOnReturn ==
  \A w \in Workers, d \in Dirs :
    Busy(Receiver(w, d), w, {"pushWake"}) \/ TokenReturned(w, d) => shared[w][d] = <<>>

\* A wake event in the epoll batch is still readable when its turn comes, so
\* the read cannot fail and leave ctc_ev with another worker's flags.
BatchReadable ==
  \A t \in Threads : \A w \in evs[t] : Readable(w, In(t))

\* An eventfd with something to read is queued at its reader's epoll instance
\* or in its batch: with EPOLLET nothing else would bring the reader back.
NoLostWakeup ==
  \A w \in Workers, d \in Dirs :
    Readable(w, d) =>
      \/ pc[Receiver(w, d)] = "new"
      \/ edge[w][d]
      \/ w \in evs[Receiver(w, d)]

\* The hand-over implements one FIFO per worker and direction: what is in the
\* shared list is older than what is pending.
Fifo == INSTANCE CtcFifo WITH
  fifo <- [w \in Workers |-> [d \in Dirs |-> shared[w][d] \o pending[w][d]]]

\* Ctcs of one direction arrive in the order they were handed over, none is
\* lost or invented.
ImplementsFifo == Fifo!Spec

\* And under the fairness of the loops everything handed over arrives.
ImplementsFairFifo == Fifo!FairSpec
=============================================================================
