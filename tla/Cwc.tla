-------------------------------- MODULE Cwc --------------------------------
(***************************************************************************)
(* Coroutines on one event-loop thread: the runtime (dpaco.c), the C       *)
(* binding (dpcwc.c, dpcwc_aux.c) and how the C++ and Lua bindings differ  *)
(* from it.  All code of a thread runs on some coroutine, one at a time;   *)
(* Mainco is the one that runs the loop.  A coroutine awaits an element by *)
(* leaving its handle in it (cop) and yielding to whoever resumed it.      *)
(* dpevp itself is abstracted: an operation under way completes at some    *)
(* time and its element is queued (EventLoop has the details).             *)
(***************************************************************************)
EXTENDS Integers, Sequences, FiniteSets, SequencesExt

CONSTANTS Co,        \* coroutine memory blocks
          Mainco,    \* mainco
          Ios,       \* descriptors
          Ctcs,      \* cross-thread calls
          Tmrs,      \* timers
          None,      \* no coroutine, no element
          Binds,     \* the bindings explored: "cwc", "cpp", "lua"
          CeaseIn,   \* the bindings in which cease is explored
          PoolMax,   \* finished coroutines that are kept (1024)
          MaxCalls   \* bound of the model: API calls in a behaviour

ASSUME CwcAssumption ==
  /\ Mainco \notin Co /\ None \notin Co \cup {Mainco} \cup Ios \cup Ctcs \cup Tmrs
  /\ Ios \cap Ctcs = {} /\ Ios \cap Tmrs = {} /\ Ctcs \cap Tmrs = {}
  /\ Binds \subseteq {"cwc", "cpp", "lua"} /\ PoolMax \in Nat /\ MaxCalls \in Nat

Ele == Ios \cup Ctcs \cup Tmrs

VARIABLES bind,    \* the binding of this process
          co,      \* dpaco_t by block
          cur,     \* cocurr
          pool,    \* recycle
          ele,     \* the elements
          ready,   \* what dpevp_pop returns next
          calls,   \* API calls made so far
          answer   \* ghost: the last coroutine the loop or cease woke, and the element for it

coVars == <<bind, co, cur, pool, ele, ready, calls, answer>>

NoCo == [st |-> "none", prev |-> None, delater |-> FALSE, wrap |-> FALSE, wait |-> None,
         own |-> None, job |-> None, server |-> "no"]

NoEle == [st |-> "none", cop |-> None, fresh |-> FALSE, fn |-> FALSE, call |-> FALSE, refc |-> 0]

Doing(e) == ele[e].st \in {"doing", "ready"}

TypeOK ==
  /\ bind \in Binds
  /\ co \in [Co \cup {Mainco} ->
       [st : {"none", "created", "running", "suspend", "dead"}, prev : Co \cup {Mainco, None},
        delater : BOOLEAN, wrap : BOOLEAN, wait : Ele \cup {None}, own : Tmrs \cup {None},
        job : Ele \cup {None}, server : {"no", "accept", "got", "stop"}]]
  /\ cur \in Co \cup {Mainco} /\ pool \in Seq(Co)
  /\ ele \in [Ele -> [st : {"none", "idle", "doing", "ready"}, cop : Co \cup {Mainco, None},
                      fresh : BOOLEAN, fn : BOOLEAN, call : BOOLEAN, refc : Nat]]
  /\ ready \in Seq(Ele) /\ calls \in 0 .. MaxCalls

CoInit == /\ bind \in Binds
          /\ co = [c \in Co \cup {Mainco} |->
                    IF c = Mainco THEN [NoCo EXCEPT !.st = "running"] ELSE NoCo]
          /\ cur = Mainco /\ pool = <<>> /\ ready = <<>> /\ calls = 0
          /\ ele = [e \in Ele |-> IF e \in Tmrs THEN NoEle
                                 ELSE [NoEle EXCEPT !.st = "idle", !.refc = 1]]
          /\ answer = [co |-> None, ele |-> None, wait |-> None]

------------------------------------------------------------------------------
(* dpaco: x = [co, cur, pool] is the state of the runtime.                  *)

Rt == [co |-> co, cur |-> cur, pool |-> pool]

Runs(x) == co' = x.co /\ cur' = x.cur /\ pool' = x.pool

\* The block goes to the pool while there is room; other runtimes free it.
Reclaim(x, c) ==
  IF bind = "cwc" /\ Len(x.pool) < PoolMax
    THEN [x EXCEPT !.co[c] = [NoCo EXCEPT !.st = "dead"], !.pool = <<c>> \o @]
  ELSE [x EXCEPT !.co[c] = NoCo]

\* Faulty variant: a suspended coroutine is recycled at once
DelaterNow(x, c) == IF x.co[c].st \in {"created", "dead", "suspend"} THEN Reclaim(x, c) ELSE x

Delater(x, c) == IF x.co[c].st \in {"created", "dead"} THEN Reclaim(x, c)
                 ELSE [x EXCEPT !.co[c].delater = TRUE]

Resume(x, c) ==
  IF x.co[c].st \notin {"created", "suspend"} THEN x
  ELSE [x EXCEPT !.co[c].prev = x.cur, !.co[c].st = "running",
                 !.co[c].wait = None, !.co[c].own = None,
                 !.co[x.cur].st = "suspend", !.cur = c]

\* Control goes back to prev, inside its dpaco_resume: that frees a finished coroutine marked
\* for it, and when dpaco_wrap had called, dpaco_delater follows.
SwitchBack(x, c, st) ==
  LET p == x.co[c].prev
      y == [x EXCEPT !.co[c].st = st, !.co[c].wrap = FALSE, !.co[p].st = "running", !.cur = p]
      z == IF st = "dead" /\ y.co[c].delater THEN Reclaim(y, c) ELSE y
  IN IF x.co[c].wrap THEN Delater(z, c) ELSE z

\* dpaco_create: a block of the pool, or a new one
Blocks(x) == IF x.pool # <<>> THEN {Head(x.pool)} ELSE {c \in Co : x.co[c].st = "none"}

Wrap(x, c, job, server) ==
  Resume([x EXCEPT !.co[c] = [NoCo EXCEPT !.st = "created", !.wrap = TRUE, !.job = job, !.server = server],
                   !.pool = IF @ # <<>> THEN Tail(@) ELSE @], c)

------------------------------------------------------------------------------
(* Elements *)

\* dpele_del: an element under way is freed by the loop
Del(es, e) == IF es[e].refc = 1 /\ es[e].st = "idle" THEN [es EXCEPT ![e] = NoEle]
              ELSE [es EXCEPT ![e].refc = @ - 1]

\* Faulty variant: the handle of an earlier call stays in a ctc
AddKeepCop(es, e) == [es EXCEPT ![e].st = "doing"]
\* dpevp_addv clears the handle of a ctc, and of nothing else
Add(es, e) == [es EXCEPT ![e].st = "doing", ![e].cop = IF e \in Ctcs THEN None ELSE @]

\* Faulty variant: nothing is left in the element
AwaitsNobody(es, e, c) == es
\* dpele_wait; Lua leaves an index into a table from which it is taken once
Awaits(es, e, c) == [es EXCEPT ![e].cop = c, ![e].fresh = TRUE]

\* Which coroutine an element wakes: C asks its status, C++ whether it is done, Lua takes it
\* out of the table.
CwcWaiter(e) == {c \in {ele[e].cop} \ {None} : co[c].st = "suspend"}
CppWaiter(e) == {c \in {ele[e].cop} \ {None} : co[c].st # "dead"}
LuaWaiter(e) == {c \in {ele[e].cop} \ {None} : ele[e].fresh}

Waiter(e) == CASE bind = "cwc" -> CwcWaiter(e)
               [] bind = "cpp" -> CppWaiter(e)
               [] bind = "lua" -> LuaWaiter(e)

\* Wake e's waiter from the running coroutine.  A sleeper deletes its timer first thing.
Wake(es, e) ==
  IF Waiter(e) = {}
    THEN Runs(Rt) /\ ele' = [es EXCEPT ![e].fresh = FALSE] /\ UNCHANGED answer
  ELSE LET c == ele[e].cop
           es1 == [es EXCEPT ![e].fresh = FALSE]
       IN /\ Runs(Resume(Rt, c))
          /\ answer' = [co |-> c, ele |-> e, wait |-> co[c].wait]
          /\ ele' = IF co[c].own # None THEN Del(es1, co[c].own) ELSE es1

------------------------------------------------------------------------------
(* User code: what the running coroutine may do next.                       *)

Call(c) == /\ cur = c /\ c # Mainco
           /\ calls < MaxCalls /\ calls' = calls + 1
           /\ UNCHANGED bind

Yield(c, e, own) ==
  Runs(SwitchBack([Rt EXCEPT !.co[c].wait = e, !.co[c].own = own], c, "suspend"))

\* aexec: an operation that is refused returns at once, any other is awaited
Aexec(c, e) ==
  /\ \A d \in Co : co[d].job # e
  /\ Call(c) /\ e \in Ios \cup Ctcs /\ ele[e].st = "idle"
  /\ \/ UNCHANGED <<co, cur, pool, ele, ready, answer>>
     \/ /\ ele' = Awaits(Add(ele, e), e, c)
        /\ Yield(c, e, None)
        /\ UNCHANGED <<ready, answer>>

\* dpcwc_ctc_each: submit to several threads first, await one after the other then
EachAdd(c, e) == /\ Call(c) /\ e \in Ctcs /\ ele[e].st = "idle"
                 /\ ele' = Add(ele, e)
                 /\ UNCHANGED <<co, cur, pool, ready, answer>>

Await(c, e) ==
  /\ Call(c) /\ e \in Ctcs /\ ~ele[e].call
  /\ \A d \in Co : co[d].st = "suspend" => co[d].wait # e
  /\ IF Doing(e) THEN ele' = Awaits(ele, e, c) /\ Yield(c, e, None)
     ELSE UNCHANGED <<co, cur, pool, ele>>
  /\ UNCHANGED <<ready, answer>>

Sleep(c, t) ==
  /\ Call(c) /\ t \in Tmrs /\ ele[t].st = "none"
  /\ ele' = Awaits([ele EXCEPT ![t] = [NoEle EXCEPT !.st = "doing", !.refc = 1]], t, c)
  /\ Yield(c, t, t)
  /\ UNCHANGED <<ready, answer>>

\* keep: the caller takes a reference to the timer (ptmr_)
Timer(c, t, keep) ==
  /\ Call(c) /\ t \in Tmrs /\ ele[t].st = "none"
  /\ ele' = [ele EXCEPT ![t] = [NoEle EXCEPT !.st = "doing", !.fn = TRUE,
                                              !.refc = IF keep THEN 2 ELSE 1]]
  /\ UNCHANGED <<co, cur, pool, ready, answer>>

\* the caller gives that reference back
DelTimer(c, t) ==
  /\ Call(c) /\ t \in Tmrs /\ ele[t].fn
  /\ ele[t].refc = 2 \/ (ele[t].st = "idle" /\ \A d \in Co : co[d].job # t)
  /\ ele' = Del(ele, t)
  /\ UNCHANGED <<co, cur, pool, ready, answer>>

\* dpaco_wrap; with a listener it is the coroutine of a server that starts
Spawn(c, job) ==
  /\ Call(c)
  /\ \E d \in Blocks(Rt) : Runs(Wrap([Rt EXCEPT !.co[c].server = IF @ = "got" THEN "accept" ELSE @], d, job,
                                     IF job = None THEN "no" ELSE "accept"))
  /\ UNCHANGED <<ele, ready, answer>>

\* dpevp_end queues an operation under way; the waiter is woken here as well
Cease(c, e) ==
  LET es == IF Doing(e) /\ e \notin Ctcs THEN [ele EXCEPT ![e].st = "ready"] ELSE ele IN
  /\ bind \in CeaseIn
  /\ Call(c) /\ ele[e].st # "none" /\ ~ele[e].fn /\ ~ele[e].call
  /\ ready' = IF ele[e].st = "doing" /\ e \notin Ctcs THEN Append(ready, e) ELSE ready
  /\ Wake(es, e)

\* The coroutine's function returns.  A timer's callback drops the timer, a server its listener,
\* and a served call goes home.
Return(c) ==
  LET j == co[c].job IN
  /\ cur = c /\ c # Mainco
  /\ Runs(SwitchBack(Rt, c, "dead"))
  /\ ele' = IF j = None THEN ele
            ELSE IF j \in Tmrs \cup Ios THEN Del(ele, j)
            ELSE [ele EXCEPT ![j] = [NoEle EXCEPT !.st = "idle", !.refc = 1]]
  /\ UNCHANGED <<bind, ready, calls, answer>>

\* A server's coroutine accepts, starts a coroutine for the peer and accepts again, until an
\* accept is refused or fails; then it returns, dropping the listener.
AcceptLoop(c) ==
  \/ /\ co[c].server = "accept"
     /\ Call(c) /\ ele[co[c].job].st = "idle"
     /\ ele' = Awaits(Add(ele, co[c].job), co[c].job, c)
     /\ Runs(SwitchBack([Rt EXCEPT !.co[c].wait = co[c].job, !.co[c].server = "got"], c, "suspend"))
     /\ UNCHANGED <<ready, answer>>
  \/ /\ cur = c /\ co[c].server = "accept"
     /\ Runs([Rt EXCEPT !.co[c].server = "stop"])
     /\ UNCHANGED <<bind, calls, ele, ready, answer>>
  \/ co[c].server = "got" /\ Spawn(c, None)
  \/ co[c].server \in {"got", "stop"} /\ Return(c)

\* dpcwc_server_start: one coroutine for each listener
ServerStart(c) == /\ co[c].server = "no"
                  /\ \E e \in Ios : /\ ele[e].st = "idle" /\ \A d \in Co : co[d].job # e
                                    /\ Spawn(c, e)

\* ctc_once, ctc_each: submit and await
CtcCalls(c) == \E e \in Ctcs : Aexec(c, e) \/ EachAdd(c, e) \/ Await(c, e)

User(c) ==
  /\ co[c].server = "no"
  /\ \/ CtcCalls(c)
     \/ \E e \in Ios : Aexec(c, e)
     \/ \E e \in Ele : Cease(c, e)
     \/ \E t \in Tmrs : Sleep(c, t) \/ Timer(c, t, TRUE) \/ Timer(c, t, FALSE) \/ DelTimer(c, t)
     \/ Spawn(c, None)
     \/ Return(c)

\* What a coroutine does, by binding: the calls, the accept loops and the start of servers.
CwcUser(c) == bind = "cwc" /\ User(c)
CppUser(c) == bind = "cpp" /\ User(c)
LuaUser(c) == bind = "lua" /\ User(c)

CwcAccepts(c) == bind = "cwc" /\ AcceptLoop(c)
CppAccepts(c) == bind = "cpp" /\ AcceptLoop(c)
LuaAccepts(c) == bind = "lua" /\ AcceptLoop(c)

CwcServerStart(c) == bind = "cwc" /\ ServerStart(c)
CppServerStart(c) == bind = "cpp" /\ ServerStart(c)
LuaServerStart(c) == bind = "lua" /\ ServerStart(c)

Coroutine(c) ==
  /\ cur = c
  /\ \/ CwcUser(c) \/ CppUser(c) \/ LuaUser(c)
     \/ CwcAccepts(c) \/ CppAccepts(c) \/ LuaAccepts(c)
     \/ CwcServerStart(c) \/ CppServerStart(c) \/ LuaServerStart(c)

------------------------------------------------------------------------------
(* The loop and its environment *)

\* the thread starts with hdr->init in a coroutine
RunApp == /\ cur = Mainco /\ calls = 0 /\ MaxCalls > 0
          /\ calls' = 1
          /\ \E c \in Blocks(Rt) : Runs(Wrap(Rt, c, None, "no"))
          /\ UNCHANGED <<bind, ele, ready, answer>>

Step ==
  LET e == Head(ready)
      es == [ele EXCEPT ![e].st = "idle"]
  IN /\ cur = Mainco /\ ready # <<>>
     /\ ready' = Tail(ready)
     /\ IF ele[e].refc = 0
          THEN ele' = [ele EXCEPT ![e] = NoEle] /\ Runs(Rt) /\ UNCHANGED answer
        ELSE IF ele[e].fn \/ ele[e].call
          THEN /\ \/ \E c \in Blocks(Rt) : Runs(Wrap(Rt, c, e, "no"))
                  \/ Blocks(Rt) = {} /\ Runs(Rt)      \* out of memory: the callback is lost
               /\ ele' = IF ele[e].call THEN ele ELSE es
               /\ UNCHANGED answer
        ELSE Wake(es, e)
     /\ UNCHANGED <<bind, calls>>

\* an event, a deadline or the answer of another thread
Complete(e) == /\ ele[e].st = "doing" /\ cur = Mainco
               /\ ele' = [ele EXCEPT ![e].st = "ready"]
               /\ ready' = Append(ready, e)
               /\ UNCHANGED <<bind, co, cur, pool, calls, answer>>

\* a call of another thread
Arrive(e) == /\ e \in Ctcs /\ ele[e].st = "idle" /\ ele[e].cop = None /\ cur = Mainco
             /\ calls < MaxCalls /\ calls' = calls + 1
             /\ ele' = [ele EXCEPT ![e].st = "ready", ![e].call = TRUE]
             /\ ready' = Append(ready, e)
             /\ UNCHANGED <<bind, co, cur, pool, answer>>

Loop == RunApp \/ Step

CoNext == \/ \E c \in Co : Coroutine(c)
          \/ Loop
          \/ \E e \in Ele : Complete(e) \/ Arrive(e)

CoSpec == CoInit /\ [][CoNext]_coVars

FairCoSpec == /\ CoSpec
              /\ WF_coVars(Step)
              /\ \A c \in Co : WF_coVars(Coroutine(c))
              /\ \A e \in Ele : WF_coVars(Complete(e))

------------------------------------------------------------------------------
(* Properties *)

\* Whoever the loop or cease wakes was waiting for just that element: no coroutine is woken
\* twice for one wait, or for what it never waited for, through a handle left behind.
WokenByOwn == answer.wait = answer.ele

\* A block in the pool belongs to nobody: it is there once, finished, and no operation under
\* way holds a handle that a later owner of the block would answer.
PoolSound ==
  /\ TypeOK
  /\ IsInjective(pool)
  /\ \A i \in 1 .. Len(pool) : /\ co[pool[i]].st = "dead"
                               /\ \A c \in Co : co[c].st # "none" => co[c].prev # pool[i] \/ co[c].st = "suspend"
                               /\ \A e \in Ele : Doing(e) /\ ele[e].fresh => ele[e].cop # pool[i]

\* Every await returns: a coroutine that waits for an operation, a timer or a peer is resumed.
AwaitReturns == \A c \in Co : co[c].st = "suspend" ~> co[c].st # "suspend"
=============================================================================
