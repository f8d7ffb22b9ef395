------------------------------- MODULE Process -------------------------------
(***************************************************************************)
(* Start and shutdown of a dpapp process, and the identifiers its threads  *)
(* hand out.                                                               *)
(*                                                                         *)
(* main tries the bindings it was built with (C++, C, Lua) on the module   *)
(* given to it; the first one that loads it calls dpapp_start, which lays  *)
(* out the thread ids, creates one event loop and one thread per id, runs  *)
(* the master loop on the main thread, joins the workers and frees it all. *)
(* Every thread initialises its environments, runs its loop and exits.     *)
(* Ids are drawn from a per-thread sequence and the wall clock; when the   *)
(* sequence ends within the millisecond it began in, the caller sleeps: in *)
(* C the coroutine is suspended and others of its thread may draw, in C++  *)
(* and Lua the whole thread waits.                                         *)
(***************************************************************************)
EXTENDS Integers, Sequences, FiniteSets, FiniteSetsExt, SequencesExt

CONSTANTS
    Layouts,     \* each_count of types 1, 2, ... that the command line may give
    MaxThreads,  \* the limit dpapp_init puts on the sum of each_count (255)
    TidMod,      \* number of values of the thread_id bit field (2^8)
    MaxSeq,      \* _max_sequence (2^10 - 1)
    Callers,     \* coroutines of one thread that draw ids
    Fails,       \* thread ids whose loop or pthread may fail to be created
    MaxMs,       \* bound: last millisecond of the clock
    MaxIds       \* bound: ids drawn in a behaviour

ASSUME ProcessAssumption ==
    /\ MaxThreads \in Nat /\ TidMod \in Nat \ {0} /\ MaxSeq \in Nat
    /\ Callers \in Nat \ {0} /\ MaxMs \in Nat /\ MaxIds \in Nat
    /\ Layouts # {} /\ \A l \in Layouts : l \in Seq(Int)

VARIABLES
    pc,       \* where main is
    ret,      \* dpapp_start's result
    binding,  \* the binding that loaded the module
    layout,   \* args->each_count
    at,       \* the thread id main is creating, joining or deleting
    evp,      \* _gevps.evps[i]: "none", "live" or "freed"
    thr,      \* what the thread i is doing
    tables,   \* _gevps and _gapp are filled in
    now,      \* dplog_millis
    ctx,      \* _gIdctx of every thread
    waiting,  \* coroutines (of every thread) inside dpcwc_id_next's sleep
    issued,   \* ids handed out
    drawn,    \* how many calls handed one out
    overtaken \* how many of them did so while another coroutine of the thread slept

vars == <<pc, ret, binding, layout, at, evp, thr, tables,
          now, ctx, waiting, issued, drawn, overtaken>>
idVars == <<now, ctx, waiting, issued, drawn, overtaken>>

Bindings == <<"cpp", "cwc", "lua">>
Positive(n) == IF n > 0 THEN n ELSE 0

(* each_count[0] is 1 unless main changes it; the sum counts the disabled  *)
(* types (zero or less) as they are.                                       *)
ThreadCount(l) == 1 + MapThenSumSet(LAMBDA t : l[t], DOMAIN l)

(* _gevps.count after type t: one id for the master, then ids type by type. *)
Counts(l) ==
    LET c[t \in 0 .. Len(l)] == IF t = 0 THEN 1 ELSE c[t - 1] + Positive(l[t])
    IN  c

Count(l) == Counts(l)[Len(l)]

EachIds(l, t) == [n \in 1 .. Positive(l[t]) |-> Counts(l)[t - 1] + n - 1]

Ids == 0 .. Count(layout) - 1
Slots == UNION {0 .. Count(l) - 1 : l \in Layouts}

(* dpctc_set_toid's target: a thread id, or minus a type, of which one     *)
(* thread is picked by the hash of the element's address.                  *)
Resolve(toid, hash) ==
    IF toid \in Ids THEN {toid}
    ELSE IF -toid \notin DOMAIN layout \/ Positive(layout[-toid]) = 0 THEN {}
    ELSE {EachIds(layout, -toid)[1 + (hash % layout[-toid])]}

(* The environments a thread sets up in turn before its loop.              *)
CppStages == <<"ssl", "qic">>
CwcStages == <<"aco", "ssl", "qic">>
LuaStages == <<"ssl", "qic", "state">>
Stages(b) == CASE b = "cpp" -> CppStages [] b = "cwc" -> CwcStages [] b = "lua" -> LuaStages

Init ==
    /\ pc = "args" /\ ret = "ok" /\ binding = 1 /\ layout = <<>> /\ at = 0 /\ tables = FALSE
    /\ evp = [i \in Slots |-> "none"]
    /\ thr = [i \in Slots |-> "none"]
    /\ now = 1 /\ issued = {} /\ drawn = 0 /\ overtaken = 0
    /\ ctx = [i \in Slots |-> [seq |-> 0, ts |-> 0]]
    /\ waiting = [i \in Slots |-> 0]

-----------------------------------------------------------------------------
(* main: bindings, dpapp_init, the creation loop, join, delete.            *)

(* The command line: an option that is wrong, asks for help or names no    *)
(* module ends the process; -n sets each_count, of which there may be as   *)
(* many as the type has been given (Takes).                                *)
ParseArgs ==
    /\ pc = "args" /\ pc' \in {"load", "done"}
    /\ UNCHANGED <<ret, binding, layout, at, evp, thr, tables>> /\ UNCHANGED idVars

(* dpcpp::start, dpcwc_start and dplua_start, tried in this order, take the *)
(* module only if it is one of their own.                                  *)
NextBinding ==
    IF binding < Len(Bindings) THEN pc' = "load" /\ binding' = binding + 1
                               ELSE pc' = "done" /\ binding' = binding

(* Not a module of this binding, it cannot be opened or has no valid entry.*)
Rejects ==
    /\ NextBinding
    /\ UNCHANGED <<ret, layout, at, evp, thr, tables>> /\ UNCHANGED idVars

(* The module names its thread types; dpapp_init rejects too many threads  *)
(* and fills in the tables.                                                *)
Takes ==
    \E l \in Layouts :
        /\ layout' = l
        /\ IF ThreadCount(l) > MaxThreads
           THEN UNCHANGED <<at, tables>> /\ NextBinding
           ELSE pc' = "new" /\ at' = 0 /\ tables' = TRUE /\ binding' = binding
        /\ UNCHANGED <<ret, evp, thr>> /\ UNCHANGED idVars

CppStart == pc = "load" /\ Bindings[binding] = "cpp" /\ (Rejects \/ Takes)
CwcStart == pc = "load" /\ Bindings[binding] = "cwc" /\ (Rejects \/ Takes)

(* dplua_start finds or writes the file to run first; then it runs its      *)
(* __main__ in a Lua state of its own, which is closed again.               *)
LuaPreload ==
    /\ pc = "load" /\ Bindings[binding] = "lua"
    /\ \/ Rejects
       \/ /\ pc' = "config"
          /\ UNCHANGED <<ret, binding, layout, at, evp, thr, tables>> /\ UNCHANGED idVars
LuaConfig == pc = "config" /\ (Rejects \/ Takes)
LuaStart == LuaPreload \/ LuaConfig

(* dpevp_new for the next id; the id is stored in the table at once. A     *)
(* NULL sends main to the error label.                                     *)
NewLoop ==
    /\ pc = "new" /\ at \in Ids
    /\ \/ evp' = [evp EXCEPT ![at] = "live"] /\ at' = at /\ ret' = ret
          /\ pc' = IF at = 0 THEN "created" ELSE "create"
       \/ at \in Fails /\ pc' = "free" /\ ret' = "uninit" /\ at' = 0 /\ evp' = evp
    /\ UNCHANGED <<binding, layout, thr, tables>> /\ UNCHANGED idVars

(* pthread_create: the worker runs from here on.                           *)
CreateThread ==
    /\ pc = "create"
    /\ \/ thr' = [thr EXCEPT ![at] = Head(Stages(Bindings[binding]))]
          /\ pc' = "created" /\ at' = at /\ ret' = ret
       \/ at \in Fails /\ pc' = "free" /\ ret' = "uninit" /\ at' = 0 /\ thr' = thr
    /\ UNCHANGED <<binding, layout, evp, tables>> /\ UNCHANGED idVars

(* The next id of the creation loop, or, after the last, dpevp_start of    *)
(* the master on the main thread.                                          *)
Created ==
    /\ pc = "created"
    /\ IF at + 1 \in Ids
       THEN pc' = "new" /\ at' = at + 1 /\ thr' = thr
       ELSE /\ pc' = "run" /\ at' = 1
            /\ thr' = [thr EXCEPT ![0] = Head(Stages(Bindings[binding]))]
    /\ UNCHANGED <<ret, binding, layout, evp, tables>> /\ UNCHANGED idVars

(* Faulty Join: the last worker is not joined.                             *)
JoinAllButLast ==
    /\ pc = "run" /\ thr[0] = "ended"
    /\ IF at + 1 \in Ids THEN thr[at] = "ended" /\ at' = at + 1 /\ pc' = pc
                         ELSE at' = 0 /\ pc' = "free"
    /\ UNCHANGED <<ret, binding, layout, evp, thr, tables>> /\ UNCHANGED idVars

(* The master's dpevp_start has returned: join the workers in id order.    *)
Join ==
    /\ pc = "run" /\ thr[0] = "ended"
    /\ IF at \in Ids THEN thr[at] = "ended" /\ at' = at + 1 /\ pc' = pc
                     ELSE at' = 0 /\ pc' = "free"
    /\ UNCHANGED <<ret, binding, layout, evp, thr, tables>> /\ UNCHANGED idVars

(* Faulty Free: the deletion begins at the first worker.                   *)
FreeWorkers ==
    /\ pc = "free"
    /\ \/ /\ at \in Ids
          /\ evp' = [evp EXCEPT ![at] = IF at = 0 THEN @ ELSE "freed"]
          /\ at' = at + 1 /\ UNCHANGED <<pc, tables>>
       \/ at \notin Ids /\ tables' = FALSE /\ pc' = "done" /\ UNCHANGED <<at, evp>>
    /\ UNCHANGED <<ret, binding, layout, thr>> /\ UNCHANGED idVars

(* The error label: dpevp_del of every entry of the table, which reads the *)
(* entry's id (a NULL entry is a NULL dereference), then dpapp_fini. After *)
(* an error main offers the module to the next binding, which rejects it.  *)
Free ==
    /\ pc = "free"
    /\ \/ at \in Ids /\ evp[at] = "none" /\ pc' = "crashed"
          /\ UNCHANGED <<at, evp, tables>>
       \/ /\ at \in Ids /\ evp[at] = "live"
          /\ evp' = [evp EXCEPT ![at] = "freed"]
          /\ at' = at + 1 /\ UNCHANGED <<pc, tables>>
       \/ at \notin Ids /\ tables' = FALSE /\ pc' = "done" /\ UNCHANGED <<at, evp>>
    /\ UNCHANGED <<ret, binding, layout, thr>> /\ UNCHANGED idVars

-----------------------------------------------------------------------------
(* A thread: environments, loop, exit.                                     *)

StartedThreads == {i \in Slots : thr[i] \notin {"none", "ended"}}

(* One environment is set up, or fails and the thread function returns.    *)
ThreadInit(i) ==
    LET stages == Stages(Bindings[binding])
        next(s) == LET k == CHOOSE k \in DOMAIN stages : stages[k] = s
                   IN  IF k < Len(stages) THEN stages[k + 1] ELSE "loop"
    IN  /\ thr[i] \in ToSet(stages)
        /\ \E to \in {next(thr[i]), "ended"} : thr' = [thr EXCEPT ![i] = to]
        /\ UNCHANGED <<pc, ret, binding, layout, at, evp, tables>> /\ UNCHANGED idVars

(* The step function returns a negative value (C, C++), or the Lua runtime *)
(* raises an error, which skips the exit work.                             *)
LeaveLoop(i) ==
    /\ thr[i] = "loop"
    /\ thr' = [thr EXCEPT ![i] = IF Bindings[binding] = "lua" THEN "ended" ELSE "exit"]
    /\ UNCHANGED <<pc, ret, binding, layout, at, evp, tables>> /\ UNCHANGED idVars

(* hdr->exit and the release of the environments.                          *)
ThreadExit(i) ==
    /\ thr[i] = "exit"
    /\ thr' = [thr EXCEPT ![i] = "ended"]
    /\ UNCHANGED <<pc, ret, binding, layout, at, evp, tables>> /\ UNCHANGED idVars

-----------------------------------------------------------------------------
(* dpcwc_id_next, dpcpp::next_id and dpid_next. The C++ version creates    *)
(* the sleep without awaiting it and the Lua version calls usleep: while   *)
(* one of their calls waits, no other coroutine of its thread runs.        *)

Spins(i) == Bindings[binding] \in {"cpp", "lua"} /\ waiting[i] > 0

Id(i, seq) == [ts |-> now, tid |-> i % TidMod, seq |-> seq]

Issue(i, seq) ==
    /\ issued' = issued \cup {Id(i, seq)} /\ drawn' = drawn + 1
    /\ overtaken' = overtaken + (IF waiting[i] > 0 THEN 1 ELSE 0)
    /\ ctx' = [ctx EXCEPT ![i].ts = now,
                          ![i].seq = IF seq = MaxSeq THEN 0 ELSE seq + 1]

(* Faulty IdNext: the end of the sequence does not wait for the clock.     *)
IdNextNoWait(i) ==
    /\ thr[i] = "loop" /\ drawn < MaxIds
    /\ Issue(i, ctx[i].seq % (MaxSeq + 1))
    /\ UNCHANGED <<pc, ret, binding, layout, at, evp, thr, tables, now, waiting>>

Asleep == MapThenSumSet(LAMBDA i : waiting[i], Slots)

IdNext(i) ==
    LET seq == ctx[i].seq % (MaxSeq + 1)
    IN  /\ thr[i] = "loop" /\ ~Spins(i)
        /\ drawn + Asleep < MaxIds
        /\ waiting[i] < Callers
        /\ IF seq = MaxSeq /\ now = ctx[i].ts
           THEN /\ now < MaxMs      \* the bounded clock can still move on
                /\ waiting' = [waiting EXCEPT ![i] = @ + 1]
                /\ ctx' = [ctx EXCEPT ![i].seq = 0]
                /\ UNCHANGED <<issued, drawn, overtaken>>
           ELSE Issue(i, seq) /\ UNCHANGED waiting
        /\ UNCHANGED <<pc, ret, binding, layout, at, evp, thr, tables, now>>

(* The sleep is over: the clock is read again and compared with the        *)
(* context's timestamp as it is now.                                       *)
IdWake(i) ==
    /\ thr[i] = "loop" /\ waiting[i] > 0
    /\ now # ctx[i].ts
    /\ issued' = issued \cup {Id(i, MaxSeq)} /\ drawn' = drawn + 1
    /\ overtaken' = overtaken + (IF waiting[i] > 1 THEN 1 ELSE 0)
    /\ ctx' = [ctx EXCEPT ![i].ts = now]
    /\ waiting' = [waiting EXCEPT ![i] = @ - 1]
    /\ UNCHANGED <<pc, ret, binding, layout, at, evp, thr, tables, now>>

Tick ==
    /\ now < MaxMs /\ now' = now + 1
    /\ UNCHANGED <<pc, ret, binding, layout, at, evp, thr, tables, ctx, waiting, issued, drawn, overtaken>>

(* The process has ended: nothing more happens.                            *)
Finished == pc \in {"done", "crashed"} /\ UNCHANGED vars

Main == ParseArgs \/ CppStart \/ CwcStart \/ LuaStart \/ NewLoop \/ CreateThread \/ Created \/ Join \/ Free

Thread(i) ==
    \/ ThreadInit(i) \/ (LeaveLoop(i) /\ ~Spins(i)) \/ ThreadExit(i)
    \/ IdNext(i) \/ IdWake(i)

Next == Main \/ (\E i \in Slots : Thread(i)) \/ Tick \/ Finished

Spec == Init /\ [][Next]_vars

(* main is never stopped by the scheduler, nor is a thread that initialises *)
(* or exits; whether a loop ends is up to the application.                  *)
FairSpec ==
    /\ Spec /\ WF_vars(Main)
    /\ \A i \in Slots : WF_vars(ThreadInit(i) \/ ThreadExit(i))

-----------------------------------------------------------------------------
(* The loop, the tables and the id of a thread outlive it (dpapp_start:    *)
(* join before the error label), and every target dpctc_set_toid accepts   *)
(* has a loop while the master, which forwards every CTC, runs. A failed   *)
(* creation (ret is DPE_UNINIT) jumps to the label past the join, and is   *)
(* the one case in which this does not hold.                               *)
LoopAlive ==
  ret = "ok" =>
    /\ pc # "crashed"
    /\ \A i \in StartedThreads : tables /\ i \in Ids /\ evp[i] = "live"
    /\ thr[0] = "loop" =>
        \A toid \in -Len(layout) .. Count(layout), hash \in 0 .. 2 :
            \A i \in Resolve(toid, hash) : evp[i] = "live"

(* No two calls of dpcwc_id_next in the process return the same id. Other  *)
(* coroutines may draw while one sleeps at the end of the sequence, which  *)
(* it has set back to 0 before it sleeps: they draw the numbers of the     *)
(* millisecond again.                                                      *)
IdsUnique == drawn = Cardinality(issued)

(* That is the only way to an id that was handed out before: with thread    *)
(* ids that fit their field, no more ids repeat than were drawn while       *)
(* another coroutine of the thread slept inside dpcwc_id_next, and none of  *)
(* dpcpp::next_id or dpid_next does, whoever else draws.                    *)
RepeatsAsleepOnly ==
    /\ Count(layout) <= TidMod => drawn - Cardinality(issued) <= overtaken
    /\ Bindings[binding] # "cwc" => overtaken = 0

(* The ids of a thread grow from call to call, as the header of            *)
(* dpcwc_id_next says: the last of the sequence is followed by the first,  *)
(* which may come in the same millisecond.                                 *)
IdsGrow ==
    [][Bindings[binding] = "cwc" =>
        \A d \in issued' \ issued, e \in issued :
            d.tid = e.tid => e.ts < d.ts \/ (e.ts = d.ts /\ e.seq < d.seq)]_vars

(* Once the master's loop is left and the workers' too, dpapp_start        *)
(* returns, with every loop freed: no thread is joined for ever and none   *)
(* is left out.                                                            *)
StartReturns ==
    ( /\ pc = "run"
      /\ \A i \in Ids : thr[i] \in {"exit", "ended"} )
        ~> ( pc = "done" /\ \A i \in Slots : evp[i] # "live" )

(* dpapp_start reports a loop or a thread that cannot be created with a    *)
(* negative result, as its documentation says.                             *)
FailureReported == (ret = "uninit") ~> (pc = "done")
=============================================================================
