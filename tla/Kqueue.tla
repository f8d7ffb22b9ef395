------------------------------- MODULE Kqueue -------------------------------
(***************************************************************************)
(* The event loop on kqueue: the master (thread 0) and one worker (thread  *)
(* 1), lib/dpapp/os/bsd/dpevp_kqueue.c, with the reads of dpasc_kqueue.c.  *)
(*                                                                         *)
(* It differs from the loop on epoll (EventLoop, CtcChannel, Efd) in what  *)
(* the kernel keeps.  A time limit is a one-shot EVFILT_TIMER of its own,  *)
(* reported once, in the same array of events as everything else; threads  *)
(* wake each other with EVFILT_USER, whose data the last trigger sets;     *)
(* descriptors are level-triggered.                                        *)
(*                                                                         *)
(* dpevp_pop is one step for each event or element it looks at.            *)
(***************************************************************************)
EXTENDS Integers, Sequences, FiniteSets, SequencesExt

CONSTANTS
  Tmrs, Efds, Calls,   \* the elements: timers, descriptors, cross-thread calls
  Home,               \* the thread of each timer and descriptor
  Limit,              \* DPEVP_REAP_LIMIT
  Lens,               \* sizes of the buffers passed to read
  MaxBytes,           \* bytes a peer may have sent that were not read
  MaxIo,              \* bound: user calls on timers and descriptors, acts of peers
  MaxCtc              \* bound: user calls on cross-thread calls

ASSUME KqueueAssumption ==
  /\ (Tmrs \cup Efds) \cap Calls = {} /\ \A e \in Tmrs \cup Efds : Home[e] \in {0, 1}
  /\ IsFiniteSet(Tmrs \cup Efds) /\ Lens \subseteq Nat

Evps == {0, 1}
Timed == Tmrs \cup Efds
Eles == Timed \cup Calls
Wakes == {"accept", "commit"}       \* accept_wake, commit_wake of the worker
WakeOf(t) == IF t = 1 THEN "accept" ELSE "commit"

WAIT == -11
INPROGRESS == -115
TIME == -62
CONNRESET == -104
EOF == -156
ENDED == -1000      \* what the owner passes to dpevp_end

VARIABLES
  kt,       \* kernel: the EVFILT_TIMER of an element: "off", "armed", "due"
  sock,     \* kernel: bytes to read on a descriptor
  closed,   \* kernel: the peer has closed it
  wake,     \* kernel: data of an EVFILT_USER that was triggered, "none" when reported
  batch,    \* evs[ev_index .. ev_count - 1] of each thread
  ready,    \* the ready queue of each thread
  taken,    \* enter_ctcs of each thread
  limit,    \* pop_limit of each thread
  phase,    \* "user", in dpevp_pop ("pop"; "tmr": it got to its timers), or "wake"
  waking,   \* the descriptor in _dpefd_wake, and who called it
  quota,    \* _g_kq_feed_bytes of each thread
  el,       \* the elements
  ctc,      \* what only a cross-thread call has: stat, fromid, toid, is_reto, and
            \* the thread that was given it to run, or -1
  ctcs,     \* the four lists of worker_t between the two threads
  asks,     \* is_request_ctc and is_respond_ctc, by the list they stand for
  ops       \* how many there were of what the bounds limit

kqVars == <<kt, sock, closed, wake, batch, ready, taken, limit, phase, waking, quota,
            el, ctc, ctcs, asks, ops>>
kernelVars == <<kt, sock, closed>>
callVars == <<ctc, ctcs, asks, wake, taken>>
loopVars == <<batch, limit, waking, quota>>

KqInit ==
  /\ kt = [e \in Timed |-> "off"] /\ sock = [f \in Efds |-> 0]
  /\ closed = [f \in Efds |-> FALSE]
  /\ wake = [w \in Wakes |-> "none"]
  /\ batch = [t \in Evps |-> <<>>] /\ ready = [t \in Evps |-> <<>>]
  /\ taken = [t \in Evps |-> <<>>] /\ limit = [t \in Evps |-> 0]
  /\ phase = [t \in Evps |-> "user"] /\ waking = [t \in Evps |-> <<>>]
  /\ quota = [t \in Evps |-> 0]
  /\ el = [e \in Eles |-> [doing |-> FALSE, ret |-> 0, timing |-> FALSE,
             timed |-> FALSE, detach |-> FALSE, able |-> {}, want |-> {}, len |-> 0]]
  /\ ctc = [c \in Calls |-> [stat |-> "INITIAL", from |-> 0, to |-> 0, reto |-> FALSE, at |-> -1]]
  /\ ctcs = [l \in {"commiting", "commited", "accepting", "accepted"} |-> <<>>]
  /\ asks = [w \in Wakes |-> TRUE]
  /\ ops = [io |-> 0, ctc |-> 0]

-----------------------------------------------------------------------------
(* The kernel. *)

\* A time limit is reached: reported by the next kevent() of its thread.
Expire(e) ==
  /\ kt[e] = "armed" /\ kt' = [kt EXCEPT ![e] = "due"]
  /\ UNCHANGED <<sock, closed, ready, phase, el>> /\ UNCHANGED <<callVars, loopVars>>

PeerSends(f) ==
  /\ ~closed[f] /\ sock[f] < MaxBytes /\ sock' = [sock EXCEPT ![f] = @ + 1]
  /\ UNCHANGED <<kt, closed, ready, phase, el>> /\ UNCHANGED <<callVars, loopVars>>

PeerCloses(f) ==
  /\ ~closed[f] /\ closed' = [closed EXCEPT ![f] = TRUE]
  /\ UNCHANGED <<kt, sock, ready, phase, el>> /\ UNCHANGED <<callVars, loopVars>>

\* _dpele_wake_trigger: NOTE_TRIGGER; the data is what the last trigger says.
Trigger(w, data) == wake' = [wake EXCEPT ![w] = data]

\* What kevent() of thread t would report.
Event(filter, who) == [filter |-> filter, who |-> who]
Due(t) ==
  {Event("TIMER", e) : e \in {x \in Timed : Home[x] = t /\ kt[x] = "due"}}
    \cup {Event("READ", f) : f \in {x \in Efds : Home[x] = t /\ (sock[x] > 0 \/ closed[x])}}
    \cup {Event("USER", WakeOf(t)) : w \in {x \in {WakeOf(t)} : wake[x] # "none"}}

\* _dpevp_watch_tmr, _dpevp_unwatch_tmr: EV_ADD arms it again if it was there,
\* EV_DELETE takes it out of the kernel.
Watched(e) == [kt EXCEPT ![e] = "armed"]
Unwatched(e) == IF el[e].timing THEN [kt EXCEPT ![e] = "off"] ELSE kt

-----------------------------------------------------------------------------
(* dpevp_add, dpevp_end: calls of the owner of an element. *)

InQueue(e, q) == \E i \in DOMAIN q : q[i] = e
PushBack(q, e) == IF InQueue(e, q) THEN q ELSE Append(q, e)

\* dptmr_timeout: allowed on a timer that is already doing.
AddTmr(e) ==
  LET t == Home[e] IN
  /\ phase[t] = "user"
  /\ el' = [el EXCEPT ![e].doing = TRUE, ![e].ret = INPROGRESS, ![e].timing = TRUE]
  /\ kt' = Watched(e)
  /\ UNCHANGED <<sock, closed, ready, phase>> /\ UNCHANGED <<callVars, loopVars>>

\* dpele_set_timeout and dpele_set_detach, then dpgfd_read: on to _dpefd_wake.
AddRead(f, len, timed) ==
  LET t == Home[f] IN
  /\ phase[t] = "user" /\ ~el[f].doing
  /\ el' = [el EXCEPT ![f].doing = TRUE, ![f].timed = timed, ![f].len = len,
              ![f].want = {"IN"}]
  /\ phase' = [phase EXCEPT ![t] = "wake"] /\ waking' = [waking EXCEPT ![t] = <<f, "addv">>]
  /\ UNCHANGED <<batch, limit, quota, ready>> /\ UNCHANGED <<kernelVars, callVars>>

SetDetach(e, d) ==
  /\ e \in Timed => phase[Home[e]] = "user"
  /\ ~el[e].doing /\ el' = [el EXCEPT ![e].detach = d]
  /\ UNCHANGED <<ready, phase>> /\ UNCHANGED <<kernelVars, callVars, loopVars>>

\* dpevp_end on a timer or a descriptor.
End(e) ==
  LET t == Home[e] IN
  /\ phase[t] = "user" /\ el[e].doing
  /\ el' = [el EXCEPT ![e].ret = ENDED, ![e].want = {}, ![e].timing = FALSE]
  /\ kt' = Unwatched(e)
  /\ ready' = [ready EXCEPT ![t] = PushBack(@, e)]
  /\ UNCHANGED <<sock, closed, phase>> /\ UNCHANGED <<callVars, loopVars>>

-----------------------------------------------------------------------------
(* _dpefd_wake and the post of a read, _dpaio_buf_post. *)

Least(S) == CHOOSE n \in S : \A k \in S : n <= k

\* <<bytes taken from the socket, result>>.  What was read before the quota is
\* used up is not counted in the result of a later call.
ReadPost(f, len, q) ==
  LET n == Least({len, sock[f]} \cup (IF q > 0 THEN {q} ELSE {})) IN
  IF n = 0 THEN <<0, IF closed[f] THEN EOF ELSE WAIT>>
  ELSE IF n = len THEN <<n, n>>
  ELSE IF q = 0 \/ n = q THEN <<n, WAIT>>
  ELSE <<n, IF closed[f] THEN EOF ELSE n>>

\* What the caller of _dpefd_wake does with the result: dpevp_addv at FINISH,
\* _dpefd_feed and the reap of descriptors.
AddEnds(t, f, r, x) ==
  IF r >= 0 THEN
    /\ el' = [el EXCEPT ![f] = [x EXCEPT !.ret = r]]
    /\ ready' = [ready EXCEPT ![t] = PushBack(@, f)] /\ kt' = kt
  ELSE IF r = WAIT THEN
    /\ el' = [el EXCEPT ![f] = [x EXCEPT !.ret = INPROGRESS, !.timing = x.timed]]
    /\ kt' = IF x.timed THEN Watched(f) ELSE kt
    /\ UNCHANGED ready
  ELSE /\ el' = [el EXCEPT ![f] = [x EXCEPT !.ret = r, !.doing = FALSE]]
       /\ UNCHANGED <<ready, kt>>

FeedEnds(f, r, x) ==
  IF r = WAIT THEN el' = [el EXCEPT ![f] = [x EXCEPT !.ret = INPROGRESS]] /\ kt' = kt
  ELSE /\ el' = [el EXCEPT ![f] = [x EXCEPT !.ret = r, !.timing = FALSE,
                                            !.doing = FALSE, !.want = {}]]
       /\ kt' = Unwatched(f)

\* The result r leaves _dpefd_wake; _dpele_asc_over returns f unless detached.
WakeEnds(t, f, r, x) ==
  /\ IF waking[t][2] = "addv"
     THEN AddEnds(t, f, r, x) /\ phase' = [phase EXCEPT ![t] = "user"]
     ELSE /\ FeedEnds(f, r, x) /\ UNCHANGED ready
          /\ phase' = [phase EXCEPT ![t] = IF r = WAIT \/ x.detach THEN "pop" ELSE "user"]
  /\ waking' = [waking EXCEPT ![t] = <<>>]

\* One turn of its loop: EAGAIN leaves able_events as they are, and the loop
\* goes on until the post has a result.
Wake(t) ==
  LET f == waking[t][1]  x == el[f]  p == ReadPost(f, x.len, quota[t])
      got == [x EXCEPT !.want = {}, !.able = IF p[2] = EOF THEN @ \ {"IN"} ELSE @] IN
  /\ phase[t] = "wake"
  /\ IF "HUP" \in x.able
     THEN WakeEnds(t, f, CONNRESET, [x EXCEPT !.want = {}]) /\ UNCHANGED sock
     ELSE IF x.able \cap x.want = {}
     THEN WakeEnds(t, f, WAIT, x) /\ UNCHANGED sock
     ELSE /\ sock' = [sock EXCEPT ![f] = @ - p[1]]
          /\ IF p[2] = WAIT THEN UNCHANGED <<el, ready, kt, phase, waking>>
             ELSE WakeEnds(t, f, p[2], got)
  /\ UNCHANGED <<closed, batch, limit, quota>> /\ UNCHANGED callVars

-----------------------------------------------------------------------------
(* The hand-over of calls between the threads: as in CtcChannel, but for    *)
(* the wake.  "commit" is what the worker asks of the master: its list, its *)
(* flag is_request_ctc, its commit_wake in the master's kqueue; "accept" is *)
(* the other direction.                                                     *)

Filling(w) == IF w = "commit" THEN "commiting" ELSE "accepting"
Handed(w) == IF w = "commit" THEN "commited" ELSE "accepted"
Opposite(w) == IF w = "commit" THEN "accept" ELSE "commit"

\* Faulty PushCtc: the list handed over is appended to while the other side has it.
PushCtcHanded(w, c) ==
  /\ asks' = [asks EXCEPT ![w] = FALSE]
  /\ ctcs' = [ctcs EXCEPT ![Handed(w)] = Append(@, c)]
  /\ Trigger(w, "INCR")

\* _worker_push_commit_ctc, _worker_push_accept_ctc.
PushCtc(w, c) ==
  IF asks[w]
  THEN /\ asks' = [asks EXCEPT ![w] = FALSE]
       /\ ctcs' = [ctcs EXCEPT ![Handed(w)] = Append(@, c)]
       /\ Trigger(w, "INCR")
  ELSE /\ ctcs' = [ctcs EXCEPT ![Filling(w)] = Append(@, c)]
       /\ UNCHANGED <<asks, wake>>

\* *_commit_ctc and *_finish_ctc: to thread n, by way of the master.
Send(t, c, n) ==
  IF n = t
  THEN /\ taken' = [taken EXCEPT ![t] = Append(@, c)] /\ UNCHANGED <<ctcs, asks, wake>>
  ELSE PushCtc(WakeOf(n), c) /\ UNCHANGED taken

\* dpctc_submit by thread t.
Submit(t, c, n) ==
  /\ phase[t] = "user" /\ ~el[c].doing /\ ctc[c].stat \in {"INITIAL", "FINISH"}
  /\ el' = [el EXCEPT ![c].doing = TRUE, ![c].ret = INPROGRESS]
  /\ ctc' = [ctc EXCEPT ![c] = [stat |-> "COMMIT", from |-> t, to |-> n, reto |-> FALSE,
                               at |-> -1]]
  /\ Send(t, c, n)
  /\ UNCHANGED <<ready, phase>> /\ UNCHANGED <<kernelVars, loopVars>>

\* dpevp_end on a call, by the thread that made it.
CancelCtc(t, c) ==
  /\ phase[t] = "user" /\ el[c].doing /\ ctc[c].from = t /\ ctc[c].stat = "COMMIT"
  /\ ctc' = [ctc EXCEPT ![c].stat = "CANCEL"] /\ el' = [el EXCEPT ![c].ret = ENDED]
  /\ UNCHANGED <<ctcs, asks, wake, taken, ready, phase>> /\ UNCHANGED <<kernelVars, loopVars>>

\* dpctc_reto and dpevp_end_ctc_, by the thread that runs the call.
Reto(t, c, n) ==
  /\ phase[t] = "user" /\ ctc[c].stat = "RUNNING" /\ ctc[c].at = t
  /\ ctc' = [ctc EXCEPT ![c].to = n, ![c].reto = TRUE]
  /\ UNCHANGED <<ctcs, asks, wake, taken, ready, phase, el>> /\ UNCHANGED <<kernelVars, loopVars>>

EndCtc(t, c) ==
  /\ phase[t] = "user" /\ ctc[c].stat = "RUNNING" /\ ctc[c].at = t
  /\ el' = [el EXCEPT ![c].ret = 0]
  /\ ctc' = [ctc EXCEPT ![c].reto = FALSE, ![c].at = -1,
               ![c].stat = IF ctc[c].reto THEN "COMMIT" ELSE "FINISH"]
  /\ IF ctc[c].reto THEN Send(t, c, ctc[c].to)
     ELSE IF el[c].detach THEN UNCHANGED <<ctcs, asks, wake, taken>>
     ELSE Send(t, c, ctc[c].from)
  /\ UNCHANGED <<ready, phase>> /\ UNCHANGED <<kernelVars, loopVars>>

-----------------------------------------------------------------------------
(* dpevp_pop: events up to a timer, the ready queue, calls, timers, and     *)
(* kevent(), which overwrites the array of events.                          *)

\* The filter of the next event.
Filter(t) == IF batch[t] = <<>> THEN "none" ELSE Head(batch[t]).filter

Goes(t, there) == phase' = [phase EXCEPT ![t] = there]

\* A thread calls dpevp_pop by taking the first step of it.
Popping(t) == phase[t] \in {"user", "pop"}

\* The queues come after the events up to a timer, and only below the limit.
Queues(t) == Popping(t) /\ Filter(t) \in {"none", "TIMER"} /\ limit[t] < Limit

\* *_reap_efd: EVFILT_USER.  TAKE: the other side has emptied the list handed
\* to it, so what was filled meanwhile is handed over; INCR: take its list.
ReapUser(t) ==
  LET w == WakeOf(t)  data == Head(batch[t]).data  o == Opposite(w) IN
  /\ Popping(t) /\ Filter(t) = "USER"
  /\ batch' = [batch EXCEPT ![t] = Tail(@)]
  /\ IF data = "TAKE"
     THEN /\ ctcs' = [ctcs EXCEPT ![Handed(o)] = ctcs[Filling(o)], ![Filling(o)] = <<>>]
          /\ IF ctcs[Filling(o)] # <<>>
             THEN Trigger(o, "INCR") /\ UNCHANGED asks
             ELSE asks' = [asks EXCEPT ![o] = TRUE] /\ UNCHANGED wake
          /\ UNCHANGED taken
     ELSE /\ taken' = [taken EXCEPT ![t] = @ \o ctcs[Handed(w)]]
          /\ ctcs' = [ctcs EXCEPT ![Handed(w)] = <<>>]
          /\ Trigger(o, "TAKE")
          /\ UNCHANGED asks
  /\ Goes(t, "pop")
  /\ UNCHANGED <<ctc, limit, waking, quota, ready, el>> /\ UNCHANGED kernelVars

\* *_reap_efd: EVFILT_READ, _dpevp_kev_to_evs and _dpefd_feed.
ReapRead(t) ==
  LET k == Head(batch[t])  f == k.who IN
  /\ Popping(t) /\ Filter(t) = "READ"
  /\ batch' = [batch EXCEPT ![t] = Tail(@)]
  /\ quota' = [quota EXCEPT ![t] = k.data]
  /\ el' = [el EXCEPT ![f].able = @ \cup {"IN"} \cup (IF k.eof THEN {"HUP"} ELSE {})]
  /\ IF el[f].want = {} \/ ~el[f].doing THEN Goes(t, "pop") /\ UNCHANGED waking
     ELSE Goes(t, "wake") /\ waking' = [waking EXCEPT ![t] = <<f, "feed">>]
  /\ UNCHANGED <<limit, ready>> /\ UNCHANGED <<kernelVars, callVars>>

\* _dpele_asc_over of e: the operation is over; returned unless detached, when
\* the thread stays where it is.
Over(t, e, there) ==
  /\ IF el[e].detach THEN Goes(t, there) /\ UNCHANGED limit
     ELSE Goes(t, "user") /\ limit' = [limit EXCEPT ![t] = @ + 1]
  /\ UNCHANGED <<waking, quota>>

\* _dpevp_reap_usd: the ready queue.
ReapReady(t) ==
  LET e == Head(ready[t]) IN
  /\ Queues(t) /\ ready[t] # <<>>
  /\ ready' = [ready EXCEPT ![t] = Tail(@)]
  /\ el' = [el EXCEPT ![e].doing = FALSE, ![e].want = {}]
  /\ Over(t, e, "pop")
  /\ UNCHANGED batch /\ UNCHANGED <<kernelVars, callVars>>

\* _worker_reap_ctc, _master_reap_ctc: one call of enter_ctcs.  The master
\* starts a call for the worker before it passes it on.
ReapCtc(t) ==
  LET c == Head(taken[t])  s == ctc[c].stat
      rest == [taken EXCEPT ![t] = Tail(@)]
      here == IF s = "FINISH" THEN ctc[c].from ELSE ctc[c].to IN
  /\ Queues(t) /\ ready[t] = <<>> /\ taken[t] # <<>>
  /\ ctc' = [ctc EXCEPT
       ![c].stat = CASE s = "COMMIT" -> "RUNNING" [] s = "CANCEL" -> "FINISH" [] OTHER -> s,
       ![c].at = IF s \in {"COMMIT", "RUNNING"} /\ here = t THEN t ELSE @]
  /\ IF s = "CANCEL"
     THEN /\ IF el[c].detach THEN taken' = rest /\ UNCHANGED <<ctcs, asks, wake>>
             ELSE IF ctc[c].from = t
             THEN taken' = [rest EXCEPT ![t] = Append(@, c)] /\ UNCHANGED <<ctcs, asks, wake>>
             ELSE PushCtc(WakeOf(ctc[c].from), c) /\ taken' = rest
          /\ Goes(t, "pop") /\ UNCHANGED <<limit, el>>
     ELSE IF t = 0 /\ here # 0
     THEN PushCtc("accept", c) /\ taken' = rest /\ Goes(t, "pop") /\ UNCHANGED <<limit, el>>
     ELSE /\ taken' = rest /\ UNCHANGED <<ctcs, asks, wake>>
          /\ IF s = "FINISH" /\ el[c].detach THEN Goes(t, "pop") /\ UNCHANGED limit
             ELSE limit' = [limit EXCEPT ![t] = @ + 1] /\ Goes(t, "user")
          /\ el' = IF s = "FINISH" /\ ~el[c].detach THEN [el EXCEPT ![c].doing = FALSE] ELSE el
  /\ UNCHANGED <<batch, waking, quota, ready>> /\ UNCHANGED kernelVars

\* _dpevp_reap_tmr: whatever the element of a timer event is doing now ends.
ReapTmr(t) ==
  LET e == Head(batch[t]).who IN
  /\ Filter(t) = "TIMER"
  /\ phase[t] = "tmr" \/ (Queues(t) /\ ready[t] = <<>> /\ taken[t] = <<>>)
  /\ batch' = [batch EXCEPT ![t] = Tail(@)]
  /\ el' = [el EXCEPT ![e].timing = FALSE, ![e].ret = TIME, ![e].doing = FALSE, ![e].want = {}]
  /\ Over(t, e, "tmr")
  /\ UNCHANGED ready /\ UNCHANGED <<kernelVars, callVars>>

\* What an event carries: the bytes to read and EV_EOF, or the wake's data.
Reported(k) ==
  [filter |-> k.filter, who |-> k.who,
   data |-> CASE k.filter = "READ" -> sock[k.who] [] k.filter = "USER" -> wake[k.who]
              [] OTHER -> 0,
   eof |-> k.filter = "READ" /\ closed[k.who]]

\* kevent(), in an order of the kernel's choice (ev_capacity, 256, is not
\* reached): one-shot timers are gone once reported, EV_CLEAR resets a wake.
Kevent(t) ==
  /\ \/ phase[t] = "tmr" /\ Filter(t) # "TIMER"
     \/ /\ Popping(t) /\ Filter(t) \in {"none", "TIMER"}
        /\ \/ limit[t] >= Limit
           \/ ready[t] = <<>> /\ taken[t] = <<>> /\ Filter(t) # "TIMER"
  /\ \E s \in SetToSeqs(Due(t)) :
       batch' = [batch EXCEPT ![t] = [i \in DOMAIN s |-> Reported(s[i])]]
  /\ kt' = [e \in Timed |-> IF Event("TIMER", e) \in Due(t) THEN "off" ELSE kt[e]]
  /\ wake' = [wake EXCEPT ![WakeOf(t)] = "none"]
  /\ limit' = [limit EXCEPT ![t] = 0] /\ Goes(t, "user")
  /\ UNCHANGED <<sock, closed, ready, taken, waking, quota, el, ctc, ctcs, asks>>

-----------------------------------------------------------------------------
Io ==
  /\ ops.io < MaxIo /\ ops' = [ops EXCEPT !.io = @ + 1]
  /\ \/ \E e \in Tmrs : AddTmr(e)
     \/ \E f \in Efds, len \in Lens, timed \in BOOLEAN : AddRead(f, len, timed)
     \/ \E f \in Efds : PeerSends(f) \/ PeerCloses(f)
     \/ \E e \in Timed : End(e) \/ \E d \in BOOLEAN : SetDetach(e, d)

Call ==
  /\ ops.ctc < MaxCtc /\ ops' = [ops EXCEPT !.ctc = @ + 1]
  /\ \/ \E t, n \in Evps, c \in Calls : Submit(t, c, n) \/ Reto(t, c, n)
     \/ \E t \in Evps, c \in Calls : CancelCtc(t, c) \/ EndCtc(t, c)
     \/ \E c \in Calls, d \in BOOLEAN : SetDetach(c, d)

\* What the reap functions of the two kinds of loop do.
WorkerReapEfd == ReapUser(1) \/ ReapRead(1)
MasterReapEfd == ReapUser(0) \/ ReapRead(0)
WorkerReapCtc == ReapCtc(1)
MasterReapCtc == ReapCtc(0)

Loop ==
  \/ WorkerReapEfd \/ MasterReapEfd \/ WorkerReapCtc \/ MasterReapCtc
  \/ \E t \in Evps : Wake(t) \/ ReapReady(t) \/ ReapTmr(t) \/ Kevent(t)

KqNext ==
  \/ Io \/ Call
  \/ \E e \in Timed : Expire(e) /\ UNCHANGED ops
  \/ Loop /\ UNCHANGED ops

KqSpec == KqInit /\ [][KqNext]_kqVars

-----------------------------------------------------------------------------
\* A call that was submitted is in one place: one of the four lists, the calls
\* a thread has taken, or in the hands of the thread that runs it.  A wake that
\* overwrites another may leave it in its list for good (TurnKept), but no list
\* is handed over while the other side still has the one before, so no call is
\* lost or taken by both threads.
CallsKept ==
  \A c \in Calls :
    LET places == {l \in DOMAIN ctcs : InQueue(c, ctcs[l])}
                    \cup {t \in Evps : InQueue(c, taken[t])} IN
    el[c].doing /\ ~el[c].detach =>
      IF ctc[c].at >= 0 THEN places = {} ELSE Cardinality(places) = 1

\* The turn of a direction is somewhere: its sender may hand a list over, or the
\* INCR that has the list taken, or the TAKE that answers it, was triggered and
\* not overwritten.  Without it no call of that direction is ever taken again
\* and none comes back to dpevp_pop (_worker_push_*_ctc, _worker_take_*_ctc).
Coming(w, data) ==
  \/ wake[w] = data
  \/ \E t \in Evps : WakeOf(t) = w /\ \E i \in DOMAIN batch[t] :
        batch[t][i].filter = "USER" /\ batch[t][i].data = data

TurnKept == \A w \in Wakes : asks[w] \/ Coming(w, "INCR") \/ Coming(Opposite(w), "TAKE")

\* A timer that was started and not ended is still known to the kernel, or its
\* event is still to be reaped: without that dpevp_pop never returns it.
\* dpasc.h says of dptmr_timeout that dpele_ret is DPE_OK when it expires.
TimerKept ==
  \A e \in Tmrs : el[e].timing =>
    \/ kt[e] \in {"armed", "due"}
    \/ \E i \in DOMAIN batch[Home[e]] :
         batch[Home[e]][i].filter = "TIMER" /\ batch[Home[e]][i].who = e
=============================================================================
