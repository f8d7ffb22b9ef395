-------------------------------- MODULE Efd --------------------------------
(***************************************************************************)
(* One stream descriptor under edge-triggered epoll and the operations on  *)
(* it: _dpefd_wake and _dpefd_feed (lib/dpapp/os/linux/dpevp_epoll.c), the *)
(* posts of read, write, poll (dpasc_epoll.c, dpasc.c) and of the stream   *)
(* operations dpaio_* (dpasc.c).                                           *)
(*                                                                         *)
(* The descriptor is watched for both directions all its life.  What epoll *)
(* reports is kept in able_events until an operation finds that it is no   *)
(* longer true; an operation that wants an event not in able_events waits  *)
(* for epoll to report it.  With EPOLLET it is reported once.              *)
(*                                                                         *)
(* A post is one step per system call: the peer may send, receive or close *)
(* between any two.  Bytes are counted, their values do not matter.        *)
(***************************************************************************)
EXTENDS Integers, FiniteSets

CONSTANTS
  Kinds,    \* the operations used, a subset of AllKinds
  Lens,     \* sizes of the buffers passed to them
  Cap,      \* size of the kernel's receive and send buffers
  Batch,    \* DPAIO_BATCH_SIZE
  Closes    \* may the peer close its side?

Reads == {"read", "read_must", "read_data", "read_some"}
Writes == {"write", "write_must", "write_data", "write_some"}
Stream == (Reads \cup Writes) \ {"read", "write"}    \* dpaio_*
AllKinds == Reads \cup Writes \cup {"poll"}
Evs == {"IN", "OUT", "HUP"}                          \* DPEVT_*

ASSUME EfdAssumption ==
  /\ Kinds \subseteq AllKinds /\ Lens \subseteq Nat \ {0}
  /\ Cap \in Nat \ {0} /\ Batch \in Nat \ {0} /\ Closes \in BOOLEAN

\* dpret_t
WAIT == -11         \* DPE_WAIT is -EAGAIN
CONNRESET == -104
EOF == -156
TIME == -62
ENDED == -1000      \* what the owner passes to dpevp_end
READY == 1          \* dpefd_poll: an event mask

VARIABLES
  avail, room,   \* kernel: bytes to read, free bytes to write
  closed,        \* the peer has closed its side
  nospace,       \* kernel: a write found no room (SOCK_NOSPACE)
  edge,          \* the descriptor is on the ready list of epoll
  batch,         \* its events in evs, not yet reaped
  able, want,    \* able_events, want_events
  stat,          \* "idle", "wait", or "ready": in the ready queue
  pc,            \* "user", or inside a post called by "addv" or "feed"
  got,           \* total of _dpaio_buf_post
  op,            \* the operation: asc_type, asc_data and ele->ret
  ext,           \* dpbuf_cesize: bytes in the dpbuf, not handed out yet
  moved,         \* bytes the system calls of this operation moved
  handed         \* events dpefd_poll handed to the user, who has not used them up

vars == <<avail, room, closed, nospace, edge, batch, able, want, stat, pc, got,
          op, ext, moved, handed>>
kernel == <<avail, room, closed, nospace, edge>>

OpType == [kind : AllKinds,
           len : Nat,       \* stm->len: max_len, min_len or len
           size : Nat,      \* bytes there are to move, or room for them
           iolen : Int,     \* io.len: what the next system call may move
           total : Nat,     \* io.total
           ret : Int]

TypeOK ==
  /\ avail \in 0 .. Cap /\ room \in 0 .. Cap
  /\ closed \in BOOLEAN /\ nospace \in BOOLEAN /\ edge \in BOOLEAN
  /\ batch \subseteq Evs /\ able \subseteq Evs /\ want \subseteq {"IN", "OUT"}
  /\ stat \in {"idle", "wait", "ready"}
  /\ pc \in {"user", "addv", "feed"}
  /\ got \in Nat /\ op \in OpType /\ ext \in Nat /\ moved \in Nat
  /\ handed \subseteq {"IN", "OUT"}
  /\ stat = "wait" /\ pc = "user" => want # {}

\* Faulty Ready: EPOLLRDHUP is not translated.
ReadyNoHup(ev) ==
  CASE ev = "IN" -> avail > 0 \/ closed
    [] ev = "OUT" -> room > 0
    [] ev = "HUP" -> FALSE

\* The poll mask of the descriptor.  EPOLLRDHUP is taken for DPEVT_HUP.
Ready(ev) ==
  CASE ev = "IN" -> avail > 0 \/ closed
    [] ev = "OUT" -> room > 0
    [] ev = "HUP" -> closed

\* _dpevp_watch_efd: what is ready at EPOLL_CTL_ADD is reported first.
Init ==
  /\ avail \in 0 .. Cap /\ room = Cap /\ closed = FALSE /\ nospace = FALSE
  /\ edge = TRUE
  /\ batch = {} /\ able = {} /\ want = {}
  /\ stat = "idle" /\ pc = "user" /\ got = 0
  /\ op = [kind |-> "read", len |-> 0, size |-> 0, iolen |-> 0, total |-> 0, ret |-> 0]
  /\ ext = 0 /\ moved = 0 /\ handed = {}

-----------------------------------------------------------------------------
(* The posts of the stream operations: what becomes of the operation o when *)
(* the post of read or write returns r; DPE_WAIT means it goes on.          *)

Smaller(a, b) == IF a < b THEN a ELSE b

\* r <= 0: the bytes so far, if any, are the result.
Cut(o, r) == [o EXCEPT !.ret = IF o.total > 0 THEN o.total ELSE r]

\* r > 0: count it; the operation is over, or goes on with n bytes to move.
Count(o, r, over, n) ==
  [o EXCEPT !.total = @ + r, !.ret = IF over THEN o.total + r ELSE WAIT,
            !.iolen = IF over THEN @ ELSE n]

ReadSomePost(o, r) ==
  IF r <= 0 THEN Cut(o, r)
  ELSE Count(o, r, r < o.iolen \/ o.total + r >= o.len,
             Smaller(o.len - o.total - r, Batch))

WriteSomePost(o, r) ==
  IF r <= 0 THEN [o EXCEPT !.ret = IF o.total >= o.len THEN o.total ELSE r]
  ELSE Count(o, r, o.total + r >= o.len, o.iolen - r)

\* The total is compared with io.len, which is what was left before.
ReadMustPost(o, r) ==
  IF r <= 0 THEN Cut(o, r) ELSE Count(o, r, o.total + r >= o.iolen, o.iolen - r)

WriteMustPost(o, r) ==
  IF r <= 0 THEN Cut(o, r) ELSE Count(o, r, o.total + r >= o.iolen, o.iolen - r)

ReadDataPost(o, r) ==
  IF r <= 0 THEN Cut(o, r) ELSE Count(o, r, o.total + r >= o.len, o.iolen - r)

WriteDataPost(o, r) ==
  IF r <= 0 THEN Cut(o, r) ELSE Count(o, r, o.total + r >= o.len, o.iolen - r)

Post(o, r) ==
  CASE o.kind \in {"read", "write", "poll"} -> [o EXCEPT !.ret = r]
    [] o.kind = "read_some" -> ReadSomePost(o, r)
    [] o.kind = "read_must" -> ReadMustPost(o, r)
    [] o.kind = "read_data" -> ReadDataPost(o, r)
    [] o.kind = "write_some" -> WriteSomePost(o, r)
    [] o.kind = "write_must" -> WriteMustPost(o, r)
    [] o.kind = "write_data" -> WriteDataPost(o, r)

-----------------------------------------------------------------------------
(* _dpefd_wake, in dpevp_addv or in _dpefd_feed *)

\* The operation is over with result r: an immediate success goes through the
\* ready queue, an immediate error is returned; _dpefd_feed has the loop return
\* the element at once.
Finish(p, o) ==
  /\ op' = o /\ want' = {} /\ pc' = "user" /\ got' = 0
  /\ stat' = IF p = "addv" /\ o.ret >= 0 THEN "ready" ELSE "idle"

\* The head of _dpefd_wake, called from p: an error bit ends the operation;
\* otherwise it runs its post if it can and waits if it cannot.
Wake(p, o, a, w) ==
  IF "HUP" \in a THEN Finish(p, [o EXCEPT !.ret = CONNRESET])
  ELSE /\ op' = o /\ want' = w /\ got' = 0 /\ stat' = "wait"
       /\ pc' = IF a \cap w # {} THEN p ELSE "user"

\* The body of its loop after a post that returned r and withdrew inva.
PostReturns(r, inva) ==
  LET o == Post(op, r)
      a == able \ inva
  IN /\ able' = a
     /\ ext' = CASE op.kind = "read_some" -> 0
                 [] op.kind = "read_must" /\ r > 0 -> ext + r
                 [] OTHER -> ext
     /\ IF o.ret # WAIT THEN Finish(pc, o)
        ELSE /\ op' = o /\ got' = 0 /\ UNCHANGED <<want, stat>>
             /\ pc' = IF a \cap want # {} THEN pc ELSE "user"

\* Faulty ReadCall: the event is withdrawn whenever the call moved something.
ReadCallGreedy ==
  /\ pc # "user" /\ op.kind \in Reads
  /\ IF avail > 0
     THEN LET k == Smaller(avail, op.iolen - got) IN
          /\ avail' = avail - k /\ moved' = moved + k
          /\ PostReturns(got + k, want)
     ELSE /\ PostReturns(IF closed THEN EOF ELSE IF got > 0 THEN got ELSE WAIT, want)
          /\ UNCHANGED <<avail, moved>>
  /\ UNCHANGED <<room, closed, nospace, edge, batch, handed>>

\* _dpaio_buf_post with read or recv: one call.  End of file is reported even
\* if earlier calls of the loop have moved bytes.
ReadCall ==
  /\ pc # "user" /\ op.kind \in Reads
  /\ IF avail > 0
     THEN LET k == Smaller(avail, op.iolen - got) IN
          /\ avail' = avail - k /\ moved' = moved + k
          /\ IF got + k = op.iolen THEN PostReturns(got + k, {})
             ELSE got' = got + k /\ UNCHANGED <<able, want, stat, pc, op, ext>>
     ELSE /\ PostReturns(IF closed THEN EOF ELSE IF got > 0 THEN got ELSE WAIT, want)
          /\ UNCHANGED <<avail, moved>>
  /\ UNCHANGED <<room, closed, nospace, edge, batch, handed>>

\* Faulty WriteCall: a partial write is reported without its bytes.
WriteCallDrop ==
  /\ pc # "user" /\ op.kind \in Writes
  /\ IF room > 0
     THEN LET k == Smaller(room, op.iolen - got) IN
          /\ room' = room - k /\ moved' = moved + k /\ UNCHANGED nospace
          /\ IF got + k = op.iolen THEN PostReturns(got + k, {})
             ELSE got' = got + k /\ UNCHANGED <<able, want, stat, pc, op, ext>>
     ELSE /\ PostReturns(WAIT, want)
          /\ nospace' = TRUE /\ UNCHANGED <<room, moved>>
  /\ UNCHANGED <<avail, closed, edge, batch, handed>>

\* The same with write or send.
WriteCall ==
  /\ pc # "user" /\ op.kind \in Writes
  /\ IF room > 0
     THEN LET k == Smaller(room, op.iolen - got) IN
          /\ room' = room - k /\ moved' = moved + k /\ UNCHANGED nospace
          /\ IF got + k = op.iolen THEN PostReturns(got + k, {})
             ELSE got' = got + k /\ UNCHANGED <<able, want, stat, pc, op, ext>>
     ELSE /\ PostReturns(IF got > 0 THEN got ELSE WAIT, want)
          /\ nospace' = TRUE /\ UNCHANGED <<room, moved>>
  /\ UNCHANGED <<avail, closed, edge, batch, handed>>

\* _dpefd_poll_post: no system call; the events are withdrawn and the user told.
PollPost ==
  /\ pc # "user" /\ op.kind = "poll"
  /\ PostReturns(READY, want)
  /\ handed' = handed \cup want
  /\ UNCHANGED <<kernel, batch, moved>>

-----------------------------------------------------------------------------
(* Calls of the owner. *)

User == pc = "user" /\ stat = "idle"

\* What the preps of the stream operations ask the system for: n bytes less what
\* the dpbuf holds, in rounds of Batch; all of a dpbuf; n bytes.
ReadSomePrep(n) == Smaller(n - ext, Batch)
ReadMustPrep(n) == n - ext
WriteSomePrep(size) == size
WriteMustPrep(n) == n

IoLen(k, n, size) ==
  CASE k = "read_some" -> ReadSomePrep(n)
    [] k = "read_must" -> ReadMustPrep(n)
    [] k = "write_some" -> WriteSomePrep(size)
    [] k = "write_must" -> WriteMustPrep(n)
    [] OTHER -> n

\* The prep finds enough in the dpbuf already.
InBuffer(k, n) == k \in {"read_some", "read_must"} /\ ext >= n

\* dpevp_addv of an operation with length n; write_some has size bytes to write,
\* at least n of them now.
Start(k, n, size) ==
  /\ User /\ k \in Kinds \ {"poll"}
  /\ k = "write_some" \/ size = n
  /\ ~InBuffer(k, n)
  /\ Wake("addv", [kind |-> k, len |-> n,
                   size |-> IF k = "read_must" THEN ReadMustPrep(n) ELSE size,
                   iolen |-> IoLen(k, n, size), total |-> 0, ret |-> WAIT],
          able, IF k \in Reads THEN {"IN"} ELSE {"OUT"})
  /\ moved' = 0
  /\ ext' = IF k = "read_some" THEN 0 ELSE ext     \* dpbuf_eseek to the end
  /\ UNCHANGED <<kernel, batch, able, handed>>

\* The same when the prep returns: read_some hands out all there is, read_must
\* what was asked for.
StartBuffered(k, n) ==
  /\ User /\ k \in Kinds /\ InBuffer(k, n)
  /\ ext' = IF k = "read_some" THEN 0 ELSE ext - n
  /\ op' = [kind |-> k, len |-> n, size |-> n, iolen |-> n, total |-> 0,
            ret |-> IF k = "read_some" THEN ext ELSE n]
  /\ moved' = 0
  /\ stat' = "ready"
  /\ UNCHANGED <<kernel, batch, able, want, pc, got, handed>>

\* dpevp_addv of dpefd_poll.
StartPoll(w) ==
  /\ User /\ "poll" \in Kinds /\ w # {}
  /\ Wake("addv", [kind |-> "poll", len |-> 0, size |-> 0, iolen |-> 0,
                   total |-> 0, ret |-> WAIT], able, w)
  /\ moved' = 0
  /\ UNCHANGED <<kernel, batch, able, ext, handed>>

\* After dpefd_poll the user makes system calls of his own until one would
\* block.
UseUp(ev) ==
  /\ User /\ ev \in handed
  /\ IF ev = "IN" THEN avail' = 0 /\ UNCHANGED <<room, nospace>>
     ELSE room' = 0 /\ nospace' = TRUE /\ UNCHANGED avail
  /\ handed' = handed \ {ev}
  /\ UNCHANGED <<closed, edge, batch, able, want, stat, pc, got, op, ext, moved>>

\* dpbuf_rall: the user takes what is in the dpbuf.
TakeBuffer ==
  /\ User /\ ext > 0
  /\ ext' = 0
  /\ UNCHANGED <<kernel, batch, able, want, stat, pc, got, op, moved, handed>>

\* dpevp_end
End ==
  /\ pc = "user" /\ stat = "wait"
  /\ want' = {} /\ stat' = "ready" /\ op' = [op EXCEPT !.ret = ENDED]
  /\ UNCHANGED <<kernel, batch, able, pc, got, ext, moved, handed>>

-----------------------------------------------------------------------------
(* The loop. *)

\* _dpevp_reap_tmr, if a timeout was set.
Expire ==
  /\ pc = "user" /\ stat = "wait"
  /\ want' = {} /\ stat' = "idle" /\ op' = [op EXCEPT !.ret = TIME]
  /\ UNCHANGED <<kernel, batch, able, pc, got, ext, moved, handed>>

\* _dpevp_reap_usd
Pop ==
  /\ pc = "user" /\ stat = "ready"
  /\ stat' = "idle"
  /\ UNCHANGED <<kernel, batch, able, want, pc, got, op, ext, moved, handed>>

\* epoll_wait: the mask as it is now; a descriptor with none is dropped.
EpollWait ==
  /\ pc = "user" /\ edge /\ batch = {}
  /\ edge' = FALSE
  /\ batch' = {ev \in Evs : Ready(ev)}
  /\ UNCHANGED <<avail, room, closed, nospace, able, want, stat, pc, got, op, ext,
                 moved, handed>>

\* Faulty Feed: events nobody waits for are dropped.
FeedDrop ==
  /\ pc = "user" /\ batch # {}
  /\ batch' = {}
  /\ handed' = handed \ batch
  /\ IF stat # "wait" THEN UNCHANGED <<able, want, stat, pc, got, op>>
     ELSE able' = able \cup batch /\ Wake("feed", op, able', want)
  /\ UNCHANGED <<kernel, ext, moved>>

\* _dpefd_feed
Feed ==
  /\ pc = "user" /\ batch # {}
  /\ batch' = {}
  /\ able' = able \cup batch
  /\ handed' = handed \ batch
  /\ IF stat # "wait" THEN UNCHANGED <<want, stat, pc, got, op>>
     ELSE Wake("feed", op, able', want)
  /\ UNCHANGED <<kernel, ext, moved>>

LoopStep == ReadCall \/ WriteCall \/ PollPost \/ Pop \/ EpollWait \/ Feed

-----------------------------------------------------------------------------
(* The kernel and the peer. *)

\* Bytes arrive; each arrival wakes epoll.
Arrive(n) ==
  /\ ~closed /\ avail + n <= Cap
  /\ avail' = avail + n /\ edge' = TRUE
  /\ UNCHANGED <<room, closed, nospace, batch, able, want, stat, pc, got, op, ext,
                 moved, handed>>

\* The peer reads; epoll is woken if a write has failed before.
Drain(n) ==
  /\ room + n <= Cap
  /\ room' = room + n /\ edge' = (edge \/ nospace) /\ nospace' = FALSE
  /\ UNCHANGED <<avail, closed, batch, able, want, stat, pc, got, op, ext, moved,
                 handed>>

\* The peer closes its side (FIN, or the last writer of a pipe is gone).
Close ==
  /\ Closes /\ ~closed
  /\ closed' = TRUE /\ edge' = TRUE
  /\ UNCHANGED <<avail, room, nospace, batch, able, want, stat, pc, got, op, ext,
                 moved, handed>>

UserStep ==
  \/ \E k \in Kinds, size \in Lens : \E n \in 1 .. size : Start(k, n, size)
  \/ \E k \in Kinds, n \in Lens : StartBuffered(k, n)
  \/ \E w \in SUBSET {"IN", "OUT"} : StartPoll(w)
  \/ \E ev \in {"IN", "OUT"} : UseUp(ev)
  \/ TakeBuffer \/ End \/ Expire

Next ==
  \/ LoopStep \/ UserStep
  \/ \E n \in 1 .. Cap : Arrive(n) \/ Drain(n)
  \/ Close

Spec == Init /\ [][Next]_vars

\* The loop runs.
FairSpec == Spec /\ WF_vars(LoopStep)
-----------------------------------------------------------------------------
(***************************************************************************)
(* Properties.                                                             *)
(***************************************************************************)

\* What the descriptor is ready for is recorded in able_events or still to be
\* reported: no post withdraws an event that no later edge would bring back.
\* The exception is what dpefd_poll has handed to the user.
NoLostEdge ==
  pc = "user" =>
    \A ev \in Evs : Ready(ev) => ev \in able \cup batch \cup handed \/ edge

\* The bytes a stream operation counts (the cursors of the dpbuf move with the
\* count, also when it is ended or times out) are the bytes its system calls
\* moved, and never more than the buffer holds for it; read and write report
\* what they moved.  Only end of file makes the code forget bytes.
Accounted ==
  pc = "user" /\ ~closed =>
    /\ moved <= op.size
    /\ op.kind \in Stream => op.total = moved
    /\ op.kind \notin Stream /\ op.ret > 0 /\ op.kind # "poll" => op.ret = moved

\* An operation does not wait for ever while the descriptor is ready for it.
Progress ==
  \A ev \in {"IN", "OUT"} :
    stat = "wait" /\ ev \in want /\ Ready(ev) /\ ev \notin handed
      ~> ~(stat = "wait" /\ ev \in want /\ Ready(ev) /\ ev \notin handed)

\* When the peer closes, whatever waits on the descriptor ends, writes too.
CloseEndsWait == closed /\ stat = "wait" ~> stat # "wait"

\* read_must, write_must, read_data and write_data that succeed have moved
\* everything.
MustFills ==
  [][stat = "wait" /\ stat' # "wait" /\ op'.ret > 0
       /\ op.kind \in {"read_must", "write_must", "read_data", "write_data"}
     => op'.total = op.size]_vars
=============================================================================
