----------------------------- MODULE EventLoop -----------------------------
(***************************************************************************)
(* The event loop of one thread: dpevp_addv, dpevp_end, dpevp_pop and the  *)
(* life of its EFD, USD and TMR elements (lib/dpapp/os/linux/              *)
(* dpevp_epoll.c, lib/dpapp/dpasc.c).  An element sits in up to three      *)
(* containers: the ready queue, the timer tree and the batch of events the *)
(* last epoll_wait returned.                                               *)
(*                                                                         *)
(* dpevp_pop is split into one step per reaped element.  The thread is     *)
(* alone with its elements, but time passes and descriptors become ready   *)
(* at any moment, and user code runs in two places: between calls of       *)
(* dpevp_pop and, for dptmr_callback, inside it.  What the post of an I/O  *)
(* operation decides (done, failed, wait on) is left open here.  CTC       *)
(* elements are the subject of Ctc.                                        *)
(***************************************************************************)
EXTENDS Integers, Sequences, SequencesExt

CONSTANTS
  Efds, Usds, Tmrs,   \* elements by dpele_type_e; a deleted one may be reused
  ReapLimit,          \* DPEVP_REAP_LIMIT
  BatchSize,          \* ev_capacity
  Afters,             \* timeouts in ticks
  Uses                \* what the application does, a subset of AllUses

AllUses == {"detach", "callback", "rearm", "rearm_ended",
            "null_callback", "delete", "own_delete", "orphan_rearm"}

Eles == Efds \cup Usds \cup Tmrs
None == "none"

ASSUME LoopAssumption ==
  /\ Efds \cap Usds = {} /\ Efds \cap Tmrs = {} /\ Usds \cap Tmrs = {}
  /\ None \notin Eles
  /\ ReapLimit \in Nat \ {0} /\ BatchSize \in Nat \ {0}
  /\ Afters \subseteq Nat
  /\ Uses \subseteq AllUses

VARIABLES
  ele,       \* ele[e]: struct dpele
  left,      \* left[e]: ticks until tmr_spec->expire; -1: passed, or not armed
  ready,     \* dpevp_t.ready
  timer,     \* dpevp_t.timer: the tree, in order; is_timing is membership
  batch,     \* evs[ev_index .. ev_count)
  edge,      \* descriptors with an event epoll_wait has not returned yet
  limit,     \* pop_limit
  pc,        \* "user", or the part of dpevp_pop that runs
  cb,        \* the timer whose callback runs inside dpevp_pop
  waitms,    \* the timeout of epoll_wait in ticks; -1 is "for ever"
  owed       \* ghost: results owed to the user for submissions of e

vars == <<ele, left, ready, timer, batch, edge, limit, pc, cb, waitms, owed>>

EleType == [
  alive : BOOLEAN,                                \* not yet passed to free()
  asc : {"none", "io", "timeout", "callback"},    \* asc_type; "none" is NULL
  ret : {"OK", "ERR", "TIME", "INPROGRESS", "ENDED"},
  refc : 0 .. 1,    \* more references only put off the last dpele_del
  detach : BOOLEAN]


TypeOK ==
  /\ ele \in [Eles -> EleType]
  /\ left \in [Eles -> Int] /\ \A e \in Eles : left[e] >= -1
  /\ ready \in Seq(Eles) /\ timer \in Seq(Eles)
  /\ batch \in Seq(Efds) /\ Len(batch) <= BatchSize
  /\ edge \in Seq(Efds)
  /\ limit \in 0 .. ReapLimit
  /\ pc \in {"user", "efd", "usd", "tmr", "wait"}
  /\ cb \in Tmrs \cup {None}
  /\ waitms \in Int
  /\ owed \in [Eles -> 0 .. 2]

Doing(e) == ele[e].asc # "none"
Queued(e) == \E i \in DOMAIN ready : ready[i] = e
Timing(e) == \E i \in DOMAIN timer : timer[i] = e

Absent == [alive |-> FALSE, asc |-> "none", ret |-> "OK", refc |-> 0,
           detach |-> FALSE]

Init ==
  /\ ele = [e \in Eles |-> Absent]
  /\ left = [e \in Eles |-> -1]
  /\ ready = <<>> /\ timer = <<>> /\ batch = <<>> /\ edge = <<>>
  /\ limit = 0 /\ pc = "user" /\ cb = None /\ waitms = 0
  /\ owed = [e \in Eles |-> 0]

\* _dpele_deque_push_back on the ready queue.
PushReady(e) == ready' = IF Queued(e) THEN ready ELSE Append(ready, e)

\* The timer tree with e due in s ticks: _dptmrset_upsert.  Equal deadlines are
\* ordered by address, that is, either way.
Inserted(e, s) ==
  LET rest == RemoveFirst(timer, e)
      Place(i) == /\ \A j \in 1 .. i - 1 : left[rest[j]] <= s
                  /\ \A j \in i .. Len(rest) : left[rest[j]] >= s
  IN {InsertAt(rest, i, e) : i \in {i \in 1 .. Len(rest) + 1 : Place(i)}}

\* _dptmrset_remove
Disarm(e) == timer' = RemoveFirst(timer, e) /\ left' = [left EXCEPT ![e] = -1]

\* Arm the timer of e; a negative timeout changes nothing (DPE_INVAL, ignored).
Upsert(e, s) ==
  IF s < 0 THEN UNCHANGED <<timer, left>>
  ELSE timer' \in Inserted(e, s) /\ left' = [left EXCEPT ![e] = s]

-----------------------------------------------------------------------------
(* Calls of user code, between two dpevp_pop or in a timer's callback. *)

UserRuns == pc = "user" \/ cb # None
User(e) == UserRuns /\ ele[e].alive /\ ele[e].refc > 0
loopVars == <<batch, limit, pc, cb, waitms>>

\* dpele_new
New(e) ==
  /\ UserRuns /\ ~ele[e].alive
  /\ ele' = [ele EXCEPT ![e] = [Absent EXCEPT !.alive = TRUE, !.refc = 1]]
  /\ owed' = [owed EXCEPT ![e] = 0]
  /\ UNCHANGED <<left, ready, timer, edge, loopVars>>

\* dpele_set_detach; DPE_BUSY while doing.
SetDetach(e) ==
  /\ User(e) /\ "detach" \in Uses /\ ~Doing(e)
  /\ ele' = [ele EXCEPT ![e].detach = ~@]
  /\ UNCHANGED <<left, ready, timer, edge, owed, loopVars>>

\* owed after a submission is accepted: one more result is owed, unless the
\* submission takes the place of one that is under way.
Accepted(e) == [owed EXCEPT ![e] = IF Doing(e) THEN @ ELSE @ + 1]

\* dpele_set_timeout(e, s), which only the next dpevp_addv looks at, and
\* dpevp_addv of an I/O operation.  prep and _dpefd_wake complete it, refuse it,
\* or leave it waiting.
AddIo(e, s, outcome) ==
  /\ User(e) /\ e \notin Tmrs /\ ~Doing(e)
  /\ CASE outcome = "OK" ->
            /\ ele' = [ele EXCEPT ![e].asc = "io", ![e].ret = "OK"]
            /\ PushReady(e) /\ owed' = Accepted(e)
            /\ UNCHANGED <<left, timer>>
       [] outcome = "ERR" ->
            /\ ele' = [ele EXCEPT ![e].ret = "ERR"]
            /\ UNCHANGED <<ready, owed, left, timer>>
       [] outcome = "WAIT" ->
            /\ ele' = [ele EXCEPT ![e].asc = "io", ![e].ret = "INPROGRESS"]
            /\ Upsert(e, s) /\ owed' = Accepted(e)
            /\ UNCHANGED ready
  /\ UNCHANGED <<edge, loopVars>>

\* A timer's callback has the element without a reference of its own.
TmrUser(e) ==
  \/ User(e)
  \/ "orphan_rearm" \in Uses /\ cb = e /\ ele[e].alive

\* dpevp_addv of dptmr_timeout or dptmr_callback: allowed while doing.
AddTmr(e, a, s) ==
  /\ TmrUser(e) /\ e \in Tmrs /\ a \in {"timeout", "callback"}
  /\ a = "callback" => "callback" \in Uses
  /\ Timing(e) => "rearm" \in Uses
  /\ Queued(e) => "rearm_ended" \in Uses
  /\ ele' = [ele EXCEPT ![e].asc = a, ![e].ret = "INPROGRESS"]
  /\ Upsert(e, s)
  /\ owed' = Accepted(e)
  /\ UNCHANGED <<ready, edge, loopVars>>

\* _dptmr_callback_prep without a callback: DPE_INVAL, asc_type back to NULL.
AddTmrInvalid(e) ==
  /\ TmrUser(e) /\ e \in Tmrs /\ "callback" \in Uses
  /\ Doing(e) => "null_callback" \in Uses
  /\ ele' = [ele EXCEPT ![e].asc = "none", ![e].ret = "ERR"]
  /\ UNCHANGED <<left, ready, timer, edge, owed, loopVars>>

\* dpevp_end
End(e) ==
  /\ User(e) /\ Doing(e)
  /\ Disarm(e)
  /\ ele' = [ele EXCEPT ![e].ret = "ENDED"]
  /\ PushReady(e)
  /\ UNCHANGED <<edge, owed, loopVars>>

\* Faulty Del: asc_type is not looked at.
DelAlways(e) ==
  /\ User(e) /\ "delete" \in Uses /\ (cb = e => "own_delete" \in Uses)
  /\ ele' = [ele EXCEPT ![e].refc = 0, ![e].alive = FALSE]
  /\ edge' = IF ele'[e].alive THEN edge ELSE RemoveFirst(edge, e)
  /\ UNCHANGED <<left, ready, timer, owed, loopVars>>

\* dpele_del.  _dpele_del takes the descriptor out of epoll, not out of evs.
Del(e) ==
  /\ User(e) /\ "delete" \in Uses /\ (cb = e => "own_delete" \in Uses)
  /\ ele' = [ele EXCEPT ![e].refc = 0, ![e].alive = Doing(e)]
  /\ edge' = IF ele'[e].alive THEN edge ELSE RemoveFirst(edge, e)
  /\ UNCHANGED <<left, ready, timer, owed, loopVars>>

UserStep ==
  \E e \in Eles :
    \/ New(e) \/ SetDetach(e) \/ End(e) \/ Del(e) \/ AddTmrInvalid(e)
    \/ \E s \in Afters \cup {-1}, r \in {"OK", "ERR", "WAIT"} : AddIo(e, s, r)
    \/ \E s \in Afters \cup {-1}, a \in {"timeout", "callback"} : AddTmr(e, a, s)

-----------------------------------------------------------------------------
(* dpevp_pop *)

Pop ==
  /\ pc = "user" /\ cb = None
  /\ pc' = "efd"
  /\ UNCHANGED <<ele, left, ready, timer, batch, edge, limit, cb, waitms, owed>>

\* Faulty Over: the last reference is not looked at.
OverKept(e, r) ==
  /\ ele' = [ele EXCEPT ![e] = r]
  /\ owed' = [owed EXCEPT ![e] = @ - 1]
  /\ IF r.detach THEN UNCHANGED <<pc, limit>>
     ELSE /\ pc' = "user"
          /\ limit' = IF pc = "efd" THEN limit ELSE limit + 1
  /\ UNCHANGED edge

\* _dpele_asc_over after the post, and DPEVP_REAP_ELE: an element nobody has a
\* reference to is freed, a detached one passed over, the others returned.
Over(e, r) ==
  LET gone == r.refc = 0 IN
  /\ ele' = [ele EXCEPT ![e] = [r EXCEPT !.alive = @ /\ ~gone]]
  /\ edge' = IF gone THEN RemoveFirst(edge, e) ELSE edge
  /\ owed' = [owed EXCEPT ![e] = @ - 1]
  /\ IF gone \/ r.detach THEN UNCHANGED <<pc, limit>>
     ELSE /\ pc' = "user"
          /\ limit' = IF pc = "efd" THEN limit ELSE limit + 1

\* _dpele_asc_over(e) with ele->ret = v: asc_type is cleared, then the post
\* runs, if this is a dptmr_callback.
AscOver(e, v) ==
  LET r == [ele[e] EXCEPT !.asc = "none", !.ret = v] IN
  IF ele[e].asc = "callback"
  THEN /\ cb' = e
       /\ ele' = [ele EXCEPT ![e] = r]
       /\ UNCHANGED <<pc, limit, owed, edge>>
  ELSE Over(e, r) /\ UNCHANGED cb

\* The callback returns DPE_OK to _dptmr_callback_post.
CallbackReturns ==
  /\ cb # None
  /\ Over(cb, [ele[cb] EXCEPT !.ret = "OK"])
  /\ cb' = None
  /\ UNCHANGED <<left, ready, timer, batch, waitms>>

\* Faulty Wants: events are delivered to an operation that is over.
WantsDoing(e) == ele[e].alive /\ Doing(e)

\* want_events # 0: e is doing and neither completed nor ended.  The memory of a
\* deleted element is read here all the same; it was idle when it was freed.
Wants(e) == ele[e].alive /\ Doing(e) /\ ~Queued(e)

\* _worker_reap_efd, _dpefd_feed: the next event of the batch.
ReapEfd ==
  LET e == Head(batch) IN
  /\ pc = "efd" /\ batch # <<>> /\ cb = None
  /\ batch' = Tail(batch)
  /\ \/ /\ Wants(e) /\ Disarm(e)
        /\ \E v \in {"OK", "ERR"} : AscOver(e, v)
     \/ UNCHANGED <<ele, left, timer, edge, owed, pc, limit, cb>>
  /\ UNCHANGED <<ready, waitms>>

\* _dpevp_reap_usd
ReapUsd ==
  LET e == Head(ready) IN
  /\ pc = "usd" /\ ready # <<>> /\ cb = None
  /\ ready' = Tail(ready)
  /\ AscOver(e, ele[e].ret)
  /\ UNCHANGED <<left, timer, batch, waitms>>

\* dptmrset_expire finds a timer.
Due == timer # <<>> /\ left[Head(timer)] <= 0

\* _dpevp_reap_tmr
ReapTmr ==
  LET e == Head(timer) IN
  /\ pc = "tmr" /\ Due /\ cb = None
  /\ Disarm(e)
  /\ AscOver(e, "TIME")
  /\ UNCHANGED <<ready, batch, waitms>>

\* Faulty variants of Timeout: the timers are not looked at; elements made ready
\* by a callback are forgotten.
TimeoutNoTimer == IF limit >= ReapLimit \/ ready # <<>> THEN 0 ELSE -1
TimeoutBlind ==
  IF limit >= ReapLimit THEN 0
  ELSE IF timer = <<>> THEN -1
  ELSE IF left[Head(timer)] > 1 THEN left[Head(timer)] - 1 ELSE 1

\* The timeout of epoll_wait.  dptmrset_expire wakes up somewhat early (10 ms
\* in the code, one tick here) but waits for one tick at least.
Timeout ==
  IF limit >= ReapLimit \/ ready # <<>> THEN 0
  ELSE IF timer = <<>> THEN -1
  ELSE IF left[Head(timer)] > 1 THEN left[Head(timer)] - 1 ELSE 1

EnterWait == pc' = "wait" /\ waitms' = Timeout /\ limit' = 0

\* The next part of dpevp_pop, when this one has nothing left.
Advance ==
  /\ cb = None
  /\ \/ /\ pc = "efd" /\ batch = <<>> /\ limit < ReapLimit
        /\ pc' = "usd" /\ UNCHANGED <<waitms, limit>>
     \/ pc = "efd" /\ batch = <<>> /\ limit >= ReapLimit /\ EnterWait
     \/ pc = "usd" /\ ready = <<>> /\ pc' = "tmr" /\ UNCHANGED <<waitms, limit>>
     \/ pc = "tmr" /\ ~Due /\ EnterWait
  /\ UNCHANGED <<ele, left, ready, timer, batch, edge, cb, owed>>

\* epoll_wait returns: events, or the timeout is over.
EpollWait ==
  LET n == IF Len(edge) < BatchSize THEN Len(edge) ELSE BatchSize IN
  /\ pc = "wait" /\ (edge # <<>> \/ waitms = 0)
  /\ batch' = SubSeq(edge, 1, n)
  /\ edge' = SubSeq(edge, n + 1, Len(edge))
  /\ pc' = "user" /\ waitms' = 0
  /\ UNCHANGED <<ele, left, ready, timer, limit, cb, owed>>

LoopStep == Pop \/ CallbackReturns \/ ReapEfd \/ ReapUsd \/ ReapTmr \/ Advance \/ EpollWait

-----------------------------------------------------------------------------
(* The environment *)

\* Time passes.
Tick ==
  /\ left' = [e \in Eles |-> IF left[e] >= 0 THEN left[e] - 1 ELSE -1]
  /\ waitms' = IF waitms > 0 THEN waitms - 1 ELSE waitms
  /\ UNCHANGED <<ele, ready, timer, batch, edge, limit, pc, cb, owed>>

\* A watched descriptor has an edge.
Edge(e) ==
  /\ e \in Efds /\ ele[e].alive /\ \A i \in DOMAIN edge : edge[i] # e
  /\ edge' = Append(edge, e)
  /\ UNCHANGED <<ele, left, ready, timer, batch, limit, pc, cb, waitms, owed>>

Next == UserStep \/ LoopStep \/ Tick \/ \E e \in Efds : Edge(e)

Spec == Init /\ [][Next]_vars

\* The loop runs, callbacks return, time passes.
FairSpec == Spec /\ WF_vars(LoopStep) /\ WF_vars(Tick)
-----------------------------------------------------------------------------
(***************************************************************************)
(* Properties.                                                             *)
(***************************************************************************)

\* The ready queue and the timer tree hold no freed element, and none is freed
\* under its own callback: the links and the tree nodes are in the element.
NoDangling ==
  \A e \in Eles : ~ele[e].alive => ~Queued(e) /\ ~Timing(e) /\ cb # e

\* No event of the batch belongs to a freed element.
BatchAlive == \A i \in DOMAIN batch : ele[batch[i]].alive

\* Every accepted submission has exactly one result to come: none is delivered
\* twice (by an event after dpevp_end, by a timeout after an event), none lost.
\* An element that waits for its timer or for the loop is doing, and not both:
\* an operation that is over has no timer left that could end the next one.
OneResult ==
  \A e \in Eles :
    /\ ele[e].alive =>
         owed[e] = (IF Doing(e) THEN 1 ELSE 0) + (IF cb = e THEN 1 ELSE 0)
    /\ Queued(e) \/ Timing(e) => Doing(e)
    /\ ~(Queued(e) /\ Timing(e))

\* epoll_wait sleeps neither with elements in the ready queue (a callback may
\* have put them there) nor past the first deadline.
NoOversleep ==
  pc = "wait" /\ waitms # 0 =>
    /\ ready = <<>>
    /\ \A e \in Eles : Timing(e) => waitms \in 1 .. left[e]

\* A detached timer whose callback re-arms it keeps dpevp_pop running: only
\* elements that are returned count against the limit.
CallbackLoops == []<>(\E t \in Tmrs : cb = t /\ ele[t].detach)

Overdue(e) == ele[e].alive /\ Timing(e) /\ left[e] <= 0

\* A timer that is due fires ...
TimerFires == \A e \in Eles : Overdue(e) ~> ~Overdue(e)

\* ... unless the reap limit is exhausted over and over by elements in the
\* ready queue, which come first.
TimerFiresUnlessBusy == TimerFires \/ []<>(limit >= ReapLimit) \/ CallbackLoops

\* An element deleted while its operation waits for a timer or for the loop is
\* freed by the loop ("will del by loop"), under the same conditions.
Freed ==
  \/ \A e \in Eles :
       ele[e].refc = 0 /\ (Timing(e) \/ Queued(e)) ~> ~ele[e].alive
  \/ []<>(limit >= ReapLimit)
  \/ CallbackLoops
=============================================================================
