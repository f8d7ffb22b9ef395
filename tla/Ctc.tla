-------------------------------- MODULE Ctc --------------------------------
(***************************************************************************)
(* The life of a cross-thread call (DPELE_TYPE_CTC element) from creation  *)
(* to deletion: lib/dpapp/os/linux/dpevp_epoll.c and its binding in        *)
(* lib/dpcwc/dpcwc.c.  The queues between the threads are those of CtcFifo *)
(* (CtcChannel shows the eventfd hand-over implements them), each action   *)
(* here is a step of that module or leaves its variables alone.            *)
(*                                                                         *)
(* A thread step is one API call or one turn of the reap loop, except      *)
(* where an API call goes on touching the element after another thread may *)
(* have it: dpevp_addv stores ele->ret after the commit, dpele_del reads   *)
(* asc_type after dropping the last reference.  These have a step of their *)
(* own.                                                                    *)
(***************************************************************************)
EXTENDS Integers, Sequences

CONSTANTS
  Workers, Master, Ctcs,
  Owners,      \* threads that create ctcs
  Targets,     \* threads ctcs are addressed to
  SycThreads,  \* threads between which dpsyc_* is used, on elements not detached
  Detached,    \* subset of BOOLEAN: values of is_detach
  MaxRounds,   \* how often an element is submitted
  MaxRetos     \* how often a callback forwards a call

ASSUME CtcAssumption ==
  /\ Master \notin Workers /\ "none" \notin Workers \cup {Master} /\ Ctcs # {}
  /\ Owners \subseteq Workers \cup {Master} /\ Targets \subseteq Workers \cup {Master}
  /\ SycThreads \subseteq Workers \cup {Master} /\ Detached \subseteq BOOLEAN
  /\ MaxRounds \in Nat /\ MaxRetos \in Nat

VARIABLES
  fifo, enter, held,   \* the queues: see CtcFifo
  ctc,       \* ctc[c]: struct dpele of the call
  pc,        \* pc[t]: "loop", or inside dpevp_addv, dpele_del or a reap turn
  cur,       \* cur[t]: the element pc[t] is about
  obs        \* obs[c]: history of the current submission (see Fresh)

vars == <<fifo, enter, held, ctc, pc, cur, obs>>

Chan == INSTANCE CtcFifo
chanVars == <<fifo, enter, held>>

Threads == Workers \cup {Master}
None == "none"

\* ele->ret: the result of a callback or post is the number of the submission
\* it belongs to; negative values are error codes.
InProgress == -1   \* DPE_INPROGRESS
Repeat == -2       \* DPE_REPEAT
Cancelled == -3    \* the value the owner gives to dpevp_end
Stats == {"INITIAL", "COMMIT", "CANCEL", "RUNNING", "FINISH"}

CtcType == [
  stat : Stats,                       \* atomic_uchar stat
  asc : {"none", "submit", "syc"},    \* asc_type; "none" is NULL: not doing
  from : Threads, to : Threads,
  reto : BOOLEAN, detach : BOOLEAN,
  ret : Cancelled .. MaxRounds,
  refc : 0 .. 1,
  alive : BOOLEAN,                    \* not yet passed to free()
  cop : BOOLEAN]                      \* a coroutine of the owner is registered

\* round: submissions so far; retos: forwards so far; runs: callbacks or posts
\* started; result: what the last one returned (0: none yet); cancelled:
\* dpevp_end won its compare-and-swap; runner: thread the callback runs on;
\* pop: where dpevp_pop returned the finished element; syc: the element was
\* used for dpsyc_*; early: the callback or post returned last while the owner
\* was still inside the dpevp_addv that submitted the call.
ObsType == [
  round : 0 .. MaxRounds, retos : 0 .. MaxRetos, runs : Nat,
  result : 0 .. MaxRounds, cancelled : BOOLEAN,
  runner : Threads \cup {None}, pop : Threads \cup {None}, syc : BOOLEAN,
  early : BOOLEAN]

TypeOK ==
  /\ ctc \in [Ctcs -> CtcType]
  /\ obs \in [Ctcs -> ObsType]
  /\ pc \in [Threads -> {"loop", "add", "del", "reap"}]
  /\ cur \in [Threads -> Ctcs]
  /\ enter \in [Threads -> Seq(Ctcs)]
  /\ held \in [Threads -> SUBSET Ctcs]
  /\ fifo \in [Workers -> [Chan!Dirs -> Seq(Ctcs)]]

\* dpele_new(dpctc_init_type(), toid, detach) on a thread of Owners; from holds
\* the owner already, dpevp_addv will store it.
Init ==
  /\ ctc \in [Ctcs -> [stat : {"INITIAL"}, asc : {"none"}, from : Owners,
                       to : Targets, reto : {FALSE}, detach : Detached,
                       ret : {0}, refc : {1}, alive : {TRUE}, cop : {FALSE}]]
  /\ obs = [c \in Ctcs |-> [round |-> 0, retos |-> 0, runs |-> 0, result |-> 0,
              cancelled |-> FALSE, runner |-> None, pop |-> None, syc |-> FALSE,
              early |-> FALSE]]
  /\ Chan!Init
  /\ held = [t \in Threads |-> {c \in Ctcs : ctc[c].from = t}]
  /\ pc = [t \in Threads |-> "loop"]
  /\ cur = [t \in Threads |-> CHOOSE c \in Ctcs : TRUE]

Doing(c) == ctc[c].asc # "none"

\* Hand c from t to u, if need be through the master: commit_ctc_f with u the
\* target, finish_ctc_f with u the originator.
HandTo(t, u, c) ==
  IF u = t THEN Chan!PushSelf(t, c)
  ELSE IF t = Master THEN Chan!Push(u, "accept", c)
  ELSE Chan!Push(t, "commit", c)

\* A thread is in the dpevp_addv that submitted c, past the commit.
Adding(c) == \E t \in Threads : pc[t] = "add" /\ cur[t] = c

\* User code or the loop of t runs, on an element it may use.
AtLoop(t) == pc[t] = "loop"
User(t, c) == AtLoop(t) /\ ctc[c].from = t /\ ctc[c].alive /\ ctc[c].refc > 0

-----------------------------------------------------------------------------
(* Calls of the owner. *)

\* dpevp_addv up to the commit.  _dpctc_submit_prep refuses a call that is
\* still under way; the preps of dpsyc_* do not look.
Add(t, c, a) ==
  /\ User(t, c) /\ ~Doing(c) /\ obs[c].round < MaxRounds
  /\ a = "submit" => ctc[c].stat \in {"INITIAL", "FINISH"}
  /\ ctc' = [ctc EXCEPT ![c].asc = a, ![c].stat = "COMMIT", ![c].reto = FALSE,
                        ![c].cop = FALSE]
  /\ obs' = [obs EXCEPT ![c] = [round |-> @.round + 1, retos |-> 0, runs |-> 0,
               result |-> 0, cancelled |-> FALSE, runner |-> None, pop |-> None,
               syc |-> @.syc \/ a = "syc", early |-> FALSE]]
  /\ HandTo(t, ctc[c].to, c)
  /\ pc' = [pc EXCEPT ![t] = "add"]
  /\ cur' = [cur EXCEPT ![t] = c]

\* The refusal: DPE_REPEAT, asc_type back to NULL.
AddRepeat(t, c) ==
  /\ User(t, c) /\ ~Doing(c) /\ obs[c].round < MaxRounds
  /\ ctc[c].stat \in {"COMMIT", "CANCEL", "RUNNING"}
  /\ ctc' = [ctc EXCEPT ![c].ret = Repeat]
  /\ UNCHANGED <<chanVars, pc, cur, obs>>

\* dpevp_addv after the commit: ele->ret = DPE_WAIT, then DPE_INPROGRESS.
AddStore(t) ==
  LET c == cur[t] IN
  /\ pc[t] = "add"
  /\ ctc' = [ctc EXCEPT ![c].ret = InProgress]
  /\ pc' = [pc EXCEPT ![t] = "loop"]
  /\ UNCHANGED <<chanVars, cur, obs>>

\* dpcwc_await: dpele_wait registers the coroutine.
Await(t, c) ==
  /\ User(t, c) /\ Doing(c) /\ ~ctc[c].detach /\ ~ctc[c].cop
  /\ ctc' = [ctc EXCEPT ![c].cop = TRUE]
  /\ UNCHANGED <<chanVars, pc, cur, obs>>

\* Faulty End: no compare-and-swap, a call that has started is withdrawn too.
EndAnytime(t, c) ==
  /\ User(t, c) /\ Doing(c) /\ ctc[c].stat # "FINISH"
  /\ ctc' = [ctc EXCEPT ![c].stat = "CANCEL", ![c].ret = Cancelled]
  /\ obs' = [obs EXCEPT ![c].cancelled = TRUE]
  /\ UNCHANGED <<chanVars, pc, cur>>

\* dpevp_end on a ctc: withdraw it if it has not started.
End(t, c) ==
  /\ User(t, c) /\ Doing(c) /\ ctc[c].stat = "COMMIT"
  /\ ctc' = [ctc EXCEPT ![c].stat = "CANCEL", ![c].ret = Cancelled]
  /\ obs' = [obs EXCEPT ![c].cancelled = TRUE]
  /\ UNCHANGED <<chanVars, pc, cur>>

\* dpele_del: drop the last reference ...
Del(t, c) ==
  /\ User(t, c) /\ obs[c].round > 0
  /\ ctc' = [ctc EXCEPT ![c].refc = 0]
  /\ pc' = [pc EXCEPT ![t] = "del"]
  /\ cur' = [cur EXCEPT ![t] = c]
  /\ UNCHANGED <<chanVars, obs>>

\* Faulty DelCheck: asc_type is not looked at.
DelAlways(t) ==
  /\ pc[t] = "del"
  /\ ctc' = [ctc EXCEPT ![cur[t]].alive = FALSE]
  /\ pc' = [pc EXCEPT ![t] = "loop"]
  /\ UNCHANGED <<chanVars, cur, obs>>

\* ... and free the element unless it is doing ("will del by loop").
DelCheck(t) ==
  LET c == cur[t] IN
  /\ pc[t] = "del"
  /\ ctc' = [ctc EXCEPT ![c].alive = @ /\ Doing(c)]
  /\ pc' = [pc EXCEPT ![t] = "loop"]
  /\ UNCHANGED <<chanVars, cur, obs>>

-----------------------------------------------------------------------------
(* The reap loop of a thread. *)

\* _dpele_deque_pop_front(&enter_ctcs).
PopFront(t) ==
  /\ AtLoop(t)
  /\ Chan!Reap(t)
  /\ cur' = [cur EXCEPT ![t] = Head(enter[t])]
  /\ pc' = [pc EXCEPT ![t] = "reap"]
  /\ UNCHANGED <<ctc, obs>>

\* Faulty Released: the loop never frees.
ReleasedNever(r) == r

\* What is left of ctc[c] = r when the loop drops its interest: freed if the
\* last reference is gone.
Released(r) == [r EXCEPT !.alive = @ /\ r.refc > 0]

\* _dpele_asc_over and the binding: a running call without a post goes to the
\* binding, which starts the callback; otherwise the post (if still there)
\* runs, the element is idle, and unless freed or detached it is popped and
\* the registered coroutine is resumed.
AscOver(t, c, r) ==
  IF r.stat = "RUNNING" /\ r.asc = "submit"
  THEN /\ ctc' = [ctc EXCEPT ![c] = r]
       /\ obs' = [obs EXCEPT ![c].runner = t, ![c].runs = @ + 1]
  ELSE LET post == r.asc = "syc"
           s == [r EXCEPT !.asc = "none", !.cop = FALSE,
                          !.ret = IF post THEN obs[c].round ELSE @]
       IN /\ ctc' = [ctc EXCEPT ![c] = Released(s)]
          /\ obs' = [obs EXCEPT
               ![c].runs = IF post THEN @ + 1 ELSE @,
               ![c].result = IF post THEN obs[c].round ELSE @,
               ![c].early = IF post THEN Adding(c) ELSE @,
               ![c].pop = IF Released(s).alive /\ ~r.detach THEN t ELSE @]

\* Faulty ReapCancel: a withdrawn call is not sent back.
ReapCancelDrop(t, c) ==
  /\ ctc[c].stat = "CANCEL"
  /\ ctc' = [ctc EXCEPT ![c] = Released([@ EXCEPT !.stat = "FINISH"])]
  /\ UNCHANGED <<chanVars, obs>>

\* case DPCTC_CANCEL: FINISH, _dpctc_del, else back to the originator.
ReapCancel(t, c) ==
  LET r == [ctc[c] EXCEPT !.stat = "FINISH"] IN
  /\ ctc[c].stat = "CANCEL"
  /\ ctc' = [ctc EXCEPT ![c] = Released(r)]
  /\ IF Released(r).alive /\ ~r.detach THEN HandTo(t, r.from, c) ELSE UNCHANGED chanVars
  /\ UNCHANGED obs

\* Faulty ReapStart: withdrawn calls start too.
ReapStartCancelled(t, c) ==
  /\ \/ ctc[c].stat \in {"COMMIT", "CANCEL"} /\ (t # Master \/ ctc[c].to = Master)
     \/ ctc[c].stat = "RUNNING" /\ t # Master /\ ctc[c].asc # "syc"
  /\ AscOver(t, c, [ctc[c] EXCEPT !.stat = "RUNNING"])
  /\ UNCHANGED chanVars

\* The call arrives at the thread that is to serve it.
ReapStart(t, c) ==
  /\ \/ ctc[c].stat = "COMMIT" /\ (t # Master \/ ctc[c].to = Master)
     \/ ctc[c].stat = "RUNNING" /\ t # Master /\ ctc[c].asc # "syc"
  /\ AscOver(t, c, [ctc[c] EXCEPT !.stat = "RUNNING"])
  /\ UNCHANGED chanVars

\* _master_reap_ctc, COMMIT for a worker: RUNNING already, and on its way.
ReapForward(t, c) ==
  /\ t = Master /\ ctc[c].stat = "COMMIT" /\ ctc[c].to # Master
  /\ ctc' = [ctc EXCEPT ![c].stat = "RUNNING"]
  /\ HandTo(t, ctc[c].to, c)
  /\ UNCHANGED obs

\* _worker_reap_ctc, RUNNING with a post: run it, send the result back.
ReapPost(t, c) ==
  /\ t # Master /\ ctc[c].stat = "RUNNING" /\ ctc[c].asc = "syc"
  /\ ctc' = [ctc EXCEPT ![c].ret = obs[c].round, ![c].asc = "none",
                        ![c].stat = "FINISH"]
  /\ obs' = [obs EXCEPT ![c].runs = @ + 1, ![c].result = obs[c].round,
                        ![c].early = Adding(c)]
  /\ HandTo(t, ctc[c].from, c)

\* Faulty ReapFinish: the master takes every finished call for its own.
ReapFinishHere(t, c) ==
  /\ ctc[c].stat \notin {"COMMIT", "CANCEL"}
  /\ t # Master => ctc[c].stat # "RUNNING"
  /\ IF Released(ctc[c]).alive /\ ~ctc[c].detach
     THEN AscOver(t, c, ctc[c])
     ELSE ctc' = [ctc EXCEPT ![c] = Released(@)] /\ UNCHANGED obs
  /\ UNCHANGED chanVars

\* The default case at the originator, and at the master in between.
ReapFinish(t, c) ==
  /\ ctc[c].stat \notin {"COMMIT", "CANCEL"}
  /\ t # Master => ctc[c].stat # "RUNNING"
  /\ IF t = Master /\ ctc[c].from # Master
     THEN HandTo(t, ctc[c].from, c) /\ UNCHANGED <<ctc, obs>>
     ELSE /\ IF Released(ctc[c]).alive /\ ~ctc[c].detach
             THEN AscOver(t, c, ctc[c])
             ELSE ctc' = [ctc EXCEPT ![c] = Released(@)] /\ UNCHANGED obs
          /\ UNCHANGED chanVars

\* One turn of _worker_reap_ctc / _master_reap_ctc.
Dispatch(t) ==
  LET c == cur[t] IN
  /\ pc[t] = "reap"
  /\ pc' = [pc EXCEPT ![t] = "loop"]
  /\ \/ ReapCancel(t, c) \/ ReapStart(t, c) \/ ReapForward(t, c)
     \/ ReapPost(t, c) \/ ReapFinish(t, c)
  /\ UNCHANGED cur

-----------------------------------------------------------------------------
(* Calls of the callback on the thread it runs on. *)

\* dpctc_reto: forward the call when the callback ends.
Reto(t, c, u) ==
  /\ AtLoop(t) /\ obs[c].runner = t /\ ctc[c].stat = "RUNNING"
  /\ ~ctc[c].reto /\ obs[c].retos < MaxRetos
  /\ ctc' = [ctc EXCEPT ![c].to = u, ![c].reto = TRUE]
  /\ obs' = [obs EXCEPT ![c].retos = @ + 1]
  /\ UNCHANGED <<chanVars, pc, cur>>

\* Faulty EndCtc: the callback's value is not stored.
EndCtcNoRet(t, c) ==
  LET r == [ctc[c] EXCEPT !.reto = FALSE,
                          !.stat = IF ctc[c].reto THEN "COMMIT" ELSE "FINISH"] IN
  /\ AtLoop(t) /\ obs[c].runner = t /\ Doing(c)
  /\ obs' = [obs EXCEPT ![c].runner = None, ![c].result = obs[c].round,
                        ![c].early = Adding(c)]
  /\ ctc' = [ctc EXCEPT ![c] = IF r.detach /\ ~ctc[c].reto THEN Released(r) ELSE r]
  /\ IF r.detach /\ ~ctc[c].reto THEN UNCHANGED chanVars
     ELSE HandTo(t, IF ctc[c].reto THEN r.to ELSE r.from, c)
  /\ UNCHANGED <<pc, cur>>

\* dpevp_end_ctc_: the callback has returned.
EndCtc(t, c) ==
  LET r == [ctc[c] EXCEPT !.ret = obs[c].round, !.reto = FALSE,
                          !.stat = IF ctc[c].reto THEN "COMMIT" ELSE "FINISH"] IN
  /\ AtLoop(t) /\ obs[c].runner = t /\ Doing(c)
  /\ obs' = [obs EXCEPT ![c].runner = None, ![c].result = obs[c].round,
                        ![c].early = Adding(c)]
  /\ IF ctc[c].reto
     THEN ctc' = [ctc EXCEPT ![c] = r] /\ HandTo(t, r.to, c)
     ELSE IF r.detach
     THEN ctc' = [ctc EXCEPT ![c] = Released(r)] /\ UNCHANGED chanVars
     ELSE ctc' = [ctc EXCEPT ![c] = r] /\ HandTo(t, r.from, c)
  /\ UNCHANGED <<pc, cur>>

\* The queues deliver.
Transfer(w, d) == Chan!Deliver(w, d) /\ UNCHANGED <<ctc, pc, cur, obs>>

LoopStep(t) == AddStore(t) \/ DelCheck(t) \/ PopFront(t) \/ Dispatch(t)

UserStep(t) ==
  \E c \in Ctcs :
    \/ Add(t, c, "submit")
    \/ t \in SycThreads /\ ctc[c].to \in SycThreads /\ ~ctc[c].detach /\ Add(t, c, "syc")
    \/ AddRepeat(t, c) \/ Await(t, c) \/ End(t, c) \/ Del(t, c) \/ EndCtc(t, c)
    \/ \E u \in Targets : Reto(t, c, u)

Next ==
  \/ \E t \in Threads : LoopStep(t) \/ UserStep(t)
  \/ \E w \in Workers, d \in Chan!Dirs : Transfer(w, d)

Spec == Init /\ [][Next]_vars

\* The loops run, the queues deliver (CtcFifo!FairSpec), callbacks return.
FairSpec ==
  /\ Spec
  /\ \A t \in Threads : WF_vars(LoopStep(t))
  /\ \A t \in Threads, c \in Ctcs : WF_vars(EndCtc(t, c))
  /\ \A w \in Workers, d \in Chan!Dirs : WF_vars(Transfer(w, d))
-----------------------------------------------------------------------------
(***************************************************************************)
(* Properties.                                                             *)
(***************************************************************************)

\* An element that is not doing is in its owner's hands and in no queue: the
\* owner may submit it again (its links are reset) or delete it.  Elements used
\* for dpsyc_* are left out: for them it fails.
HomeWhenIdle ==
  \A c \in Ctcs :
    ctc[c].alive /\ ctc[c].refc > 0 /\ ~Doing(c) /\ ~obs[c].syc => c \in held[ctc[c].from]

\* A finished call is popped on the thread that submitted it, never on the
\* thread that served it (develop.md: the result goes back to the originator),
\* and looks idle only when it is back there.
ReturnsHome ==
  /\ \A c \in Ctcs : obs[c].pop \in {None, ctc[c].from}
  /\ HomeWhenIdle

\* Call c is popped in this step.
PoppedNow(c) == obs[c].pop = None /\ obs'[c].pop # None

\* When it is popped, ele->ret is what the callback or post returned for this
\* submission, or the value given to dpevp_end if that came first
\* (develop.md:261: dpele_ret is the return value).  It fails: dpevp_addv stores
\* DPE_INPROGRESS after it has given the element away.
ResultIntact ==
  [][\A c \in Ctcs :
       PoppedNow(c) /\ ~obs[c].syc =>
         ctc'[c].ret = IF obs[c].cancelled THEN Cancelled ELSE obs'[c].result]_vars

\* What dpevp_addv does to results, and all it does: a call is popped with
\* DPE_INPROGRESS just when its callback or post returned before the dpevp_addv
\* that submitted it did, and with its own result otherwise.  (dpsyc_* on
\* elements submitted again while they look idle are left out.)
ResultUnlessEarly ==
  [][\A c \in Ctcs :
       PoppedNow(c) /\ ~obs[c].syc =>
         ctc'[c].ret = IF obs[c].cancelled THEN Cancelled
                       ELSE IF obs[c].early THEN InProgress ELSE obs'[c].result]_vars

\* Each dpctc_submit runs once per hop: a popped call has run once more than it
\* was forwarded, one time less if dpevp_end withdrew it.
RunsOncePerHop ==
  \A c \in Ctcs :
    obs[c].pop # None /\ ~obs[c].syc =>
      obs[c].runs = obs[c].retos + (IF obs[c].cancelled THEN 0 ELSE 1)

\* Once dpevp_end has withdrawn a dpctc_submit, nothing of it runs any more.
CancelledNeverRuns ==
  [][\A c \in Ctcs :
       obs[c].cancelled /\ obs'[c].cancelled /\ ~obs[c].syc => obs'[c].runs = obs[c].runs]_vars

\* No queue and no callback has c, nor a reap turn or dpevp_addv under way.
LetGo(c) ==
  /\ \A t \in Threads : \A i \in DOMAIN enter[t] : enter[t][i] # c
  /\ \A w \in Workers, d \in Chan!Dirs : \A i \in DOMAIN fifo[w][d] : fifo[w][d][i] # c
  /\ \A t \in Threads : cur[t] = c => pc[t] \in {"loop", "del"}
  /\ obs[c].runner = None

Deleting(t, c) == pc[t] = "del" /\ cur[t] = c

\* dpele_is_doing says "submitted and not completed" (dpevp.h:106): it is true
\* of a call until the call is popped.  It fails for dpsyc_*: a worker clears
\* asc_type when it has run the post, before the call is on its way home.
DoingUntilPopped ==
  \A c \in Ctcs :
    obs[c].round > 0 /\ obs[c].pop = None /\ ctc[c].alive /\ ~ctc[c].detach => Doing(c)

\* A call ended by dpevp_end is popped with the value given there (dpevp.h:156).
\* It fails for dpsyc_*: asc_type stays set, so the post of the withdrawn call
\* runs at its originator and its result is what is popped.
EndSetsRet ==
  [][\A c \in Ctcs : PoppedNow(c) /\ obs[c].cancelled => ctc'[c].ret = Cancelled]_vars

\* A freed element is in no queue, no callback runs on it, and no API call or
\* reap turn is still about to touch it (dpctc_submit calls; dpevp.h:101
\* recommends dpele_del on a detached call while it is doing).  It fails:
\* dpele_del reads asc_type when the serving thread may have freed the element.
NoDangling ==
  \A c \in Ctcs : ~ctc[c].alive /\ ~obs[c].syc =>
    LetGo(c) /\ \A t \in Threads : ~Deleting(t, c)

\* That dpele_del is the only place which may touch a freed dpctc_submit call,
\* and only for calls the serving thread frees: detached or withdrawn ones.
OnlyDelDangles ==
  \A c \in Ctcs : ~ctc[c].alive /\ ~obs[c].syc =>
    /\ LetGo(c)
    /\ \A t \in Threads :
         Deleting(t, c) => t = ctc[c].from /\ (ctc[c].detach \/ obs[c].cancelled)

\* A submitted call ends: the element becomes idle again or is freed.  Of a
\* detached one dpevp_end_ctc_ leaves asc_type set when it is served.
Completes ==
  \A c \in Ctcs :
    Doing(c) ~> \/ ~Doing(c) \/ ~ctc[c].alive
                \/ ctc[c].detach /\ ctc[c].stat = "FINISH"

\* An element whose last reference is dropped is freed ("will del by loop"); a
\* detached one must be dropped before it is served, no loop sees it later.
Freed ==
  \A c \in Ctcs :
    ctc[c].refc = 0 /\ (ctc[c].detach => ctc[c].stat # "FINISH") ~> ~ctc[c].alive
=============================================================================
