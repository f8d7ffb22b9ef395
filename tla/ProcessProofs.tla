---------------------------- MODULE ProcessProofs ----------------------------
(***************************************************************************)
(* Proofs about a dpapp process (Process): the loops and the tables        *)
(* outlive the threads that use them, and which ids may repeat; and        *)
(* about the coroutines of one thread (Cwc): a recycled block has no       *)
(* handle left, and a wake reaches the coroutine that waits for it.        *)
(***************************************************************************)
EXTENDS Process, Cwc, FiniteSetTheorems, SequenceTheorems, WellFoundedInduction, TLAPS

(* Nothing runs; or it has ended.                                          *)
NotStarted == \A i \in Slots : thr[i] = "none"
AllEnded == \A i \in Slots : thr[i] \in {"none", "ended"}

(* The creation loop: the threads before at run on loops that exist.       *)
Creating ==
    pc \in {"new", "create", "created"} =>
        /\ layout \in Layouts /\ tables /\ at \in Ids
        /\ \A i \in 0 .. at - 1 : evp[i] = "live"
        /\ pc = "create" => at # 0
        /\ pc # "new" => evp[at] = "live"
        /\ \A i \in Slots : thr[i] # "none" => i \in 1 .. at /\ (i = at => pc = "created")

(* The master runs, or the workers before at have been joined.             *)
RunsOn ==
    pc = "run" =>
        /\ layout \in Layouts /\ tables /\ at \in 1 .. Count(layout)
        /\ \A i \in Ids : evp[i] = "live"
        /\ \A i \in Slots : thr[i] # "none" => i \in Ids
        /\ \A i \in 1 .. at - 1 : thr[i] = "ended"
        /\ at > 1 => thr[0] = "ended"

(* The error label after the join.                                         *)
Freeing ==
    pc = "free" =>
        /\ layout \in Layouts /\ at \in 0 .. Count(layout)
        /\ AllEnded
        /\ \A i \in Ids : i >= at => evp[i] = "live"

PInv ==
    /\ DOMAIN thr = Slots /\ DOMAIN evp = Slots /\ binding \in 1 .. 3
    /\ pc \in {"args", "load", "config", "new", "create", "created", "run", "free", "done", "crashed"}
    /\ ret \in {"ok", "uninit"}
    /\ ret = "ok" =>
        /\ pc # "crashed"
        /\ pc \in {"args", "load", "config"} => NotStarted
        /\ Creating /\ RunsOn /\ Freeing
        /\ pc = "done" => AllEnded

-----------------------------------------------------------------------------
IdType == [ts : Nat, tid : Nat, seq : 0 .. MaxSeq]

IdsTyped ==
    /\ now \in Nat /\ waiting \in [Slots -> Nat] /\ drawn \in Nat /\ overtaken \in Nat
    /\ ctx \in [Slots -> [seq : 0 .. MaxSeq, ts : Nat]]
    /\ \A i \in Slots : ctx[i].ts <= now
    /\ issued \subseteq IdType /\ IsFiniteSet(issued)

NoIds == NotStarted /\ issued = {} /\ drawn = 0 /\ overtaken = 0 /\ \A i \in Slots : waiting[i] = 0

(* A thread that was started has its id from the layout, which does not    *)
(* change any more: also after a loop or a thread could not be created.    *)
OnLayout ==
    /\ binding \in 1 .. 3 /\ DOMAIN thr = Slots
    /\ pc \in {"args", "load", "config"} => NoIds
    /\ pc \in {"new", "create", "created"} => layout \in Layouts
    /\ pc = "create" => at \in Ids
    /\ \A i \in Slots : thr[i] # "none" => layout \in Layouts /\ i \in Ids

(* Nobody draws while a C++ or Lua coroutine of the thread waits.          *)
NoneOvertaken ==
    Bindings[binding] # "cwc" => overtaken = 0 /\ \A i \in Slots : waiting[i] <= 1

(* Of the ids a thread has drawn none is newer than its context; in the     *)
(* context's millisecond they lie before the sequence, or at its end, as    *)
(* long as no coroutine of the thread sleeps.                               *)
Fresh(i) ==
    \A d \in issued : d.tid = i =>
        /\ d.ts <= ctx[i].ts
        /\ d.ts = ctx[i].ts /\ waiting[i] = 0 => d.seq < ctx[i].seq \/ d.seq = MaxSeq

Counted ==
    Count(layout) <= TidMod =>
        drawn - Cardinality(issued) <= overtaken /\ \A i \in Slots : Fresh(i)

IInv == IdsTyped /\ OnLayout /\ NoneOvertaken /\ Counted

-----------------------------------------------------------------------------
(* The layout of the thread ids.                                           *)

Less == {p \in Nat \X Nat : p[1] < p[2]}

LEMMA Least ==
    ASSUME NEW T, T \subseteq Nat, T # {}
    PROVE  \E m \in T : \A k \in T : m <= k
<1>1. IsWellFoundedOn(Less, Nat)
  BY NatLessThanWellFounded, Zenon DEF OpToRel, Less
<1>2. PICK m \in T : \A k \in T : ~(<<k, m>> \in Less)
  BY <1>1, WFMin
<1>3. ASSUME NEW k \in T PROVE m <= k
  <2>1. ~(<<k, m>> \in Less)
    BY <1>2
  <2> QED BY <2>1 DEF Less
<1> QED BY <1>3

(* g counts the ids of the types up to n.                                  *)
Counting(l, n, g) ==
    /\ g \in [0 .. n -> Nat \ {0}]
    /\ \A t \in 0 .. n : g[t] = IF t = 0 THEN 1 ELSE g[t - 1] + Positive(l[t])

LEMMA CountingExists ==
    ASSUME NEW l \in Seq(Int), NEW n \in 0 .. Len(l) PROVE \E g : Counting(l, n, g)
<1> DEFINE T == {k \in 0 .. Len(l) : ~ \E g : Counting(l, k, g)}
<1> SUFFICES ASSUME T # {} PROVE FALSE
  OBVIOUS
<1>1. PICK m \in T : \A k \in T : m <= k
  <2>1. T \subseteq Nat
    OBVIOUS
  <2> HIDE DEF T
  <2> QED BY <2>1, Least
<1>2. CASE m = 0
  <2>1. PICK g : g = [t \in 0 .. 0 |-> 1]
    OBVIOUS
  <2>2. Counting(l, 0, g)
    BY <2>1 DEF Counting
  <2> QED BY <1>2, <2>2
<1>3. CASE m # 0
  <2>0. m \in 0 .. Len(l)
    OBVIOUS
  <2>1. m - 1 \in 0 .. Len(l) /\ m - 1 \notin T /\ m \in 1 .. Len(l)
    <3> HIDE DEF T
    <3> QED BY <1>1, <1>3, <2>0
  <2>2. PICK g : Counting(l, m - 1, g)
    BY <2>1
  <2>3. PICK p \in Nat : p = Positive(l[m])
    BY <2>1 DEF Positive
  <2>4. g[m - 1] \in Nat \ {0} /\ g \in [0 .. m - 1 -> Nat \ {0}]
    BY <2>1, <2>2 DEF Counting
  <2>5. PICK h : h = [t \in 0 .. m |-> IF t = m THEN g[m - 1] + p ELSE g[t]]
    OBVIOUS
  <2>6. h \in [0 .. m -> Nat \ {0}]
    BY <2>1, <2>4, <2>5
  <2>7. ASSUME NEW t \in 0 .. m PROVE h[t] = IF t = 0 THEN 1 ELSE h[t - 1] + Positive(l[t])
    <3>1. CASE t = m
      <4>1. h[m] = g[m - 1] + p /\ h[m - 1] = g[m - 1]
        BY <2>1, <2>5
      <4> QED BY <1>3, <2>3, <3>1, <4>1
    <3>2. CASE t # m /\ t = 0
      BY <2>1, <2>2, <2>5, <3>2 DEF Counting
    <3>3. CASE t # m /\ t # 0
      <4>1. t \in 0 .. m - 1 /\ t - 1 \in 0 .. m /\ t - 1 # m /\ t - 1 \in 0 .. m - 1
        BY <2>1, <3>3
      <4>2. h[t] = g[t] /\ h[t - 1] = g[t - 1]
        BY <2>5, <3>3, <4>1
      <4>3. g[t] = g[t - 1] + Positive(l[t])
        BY <2>2, <3>3, <4>1 DEF Counting
      <4> QED BY <3>3, <4>2, <4>3
    <3> QED BY <3>1, <3>2, <3>3
  <2>8. Counting(l, m, h)
    BY <2>6, <2>7 DEF Counting
  <2> QED BY <2>8
<1> QED BY <1>2, <1>3

LEMMA CountsDef ==
    ASSUME NEW l \in Seq(Int)
    PROVE  Counts(l) = [t \in 0 .. Len(l) |->
                          IF t = 0 THEN 1 ELSE Counts(l)[t - 1] + Positive(l[t])]
<1>1. PICK g : Counting(l, Len(l), g)
  <2>1. Len(l) \in 0 .. Len(l)
    OBVIOUS
  <2> QED BY <2>1, CountingExists
<1>2. g = [t \in 0 .. Len(l) |-> IF t = 0 THEN 1 ELSE g[t - 1] + Positive(l[t])]
  BY <1>1 DEF Counting
<1> QED BY <1>2 DEF Counts

(* The ids before a type and after it.                                     *)
LEMMA CountsStep ==
    ASSUME NEW l \in Seq(Int)
    PROVE  /\ Counts(l)[0] = 1
           /\ \A t \in 1 .. Len(l) : Counts(l)[t] = Counts(l)[t - 1] + Positive(l[t])
<1>1. PICK n \in Nat : n = Len(l)
  OBVIOUS
<1>2. PICK c : c = Counts(l)
  OBVIOUS
<1>3. c = [t \in 0 .. n |-> IF t = 0 THEN 1 ELSE c[t - 1] + Positive(l[t])]
  BY <1>1, <1>2, CountsDef
<1>4. \A t \in 0 .. n : c[t] = IF t = 0 THEN 1 ELSE c[t - 1] + Positive(l[t])
  BY <1>3
<1>5. c[0] = 1 /\ \A t \in 1 .. n : c[t] = c[t - 1] + Positive(l[t])
  BY <1>4
<1> QED BY <1>1, <1>2, <1>5

LEMMA CountsNat ==
    ASSUME NEW l \in Seq(Int), NEW t \in 0 .. Len(l) PROVE Counts(l)[t] \in Nat \ {0}
<1> DEFINE T == {k \in 0 .. Len(l) : Counts(l)[k] \notin Nat \ {0}}
<1> SUFFICES ASSUME T # {} PROVE FALSE
  OBVIOUS
<1>1. PICK m \in T : \A k \in T : m <= k
  <2>1. T \subseteq Nat
    OBVIOUS
  <2> HIDE DEF T
  <2> QED BY <2>1, Least
<1>2. CASE m = 0
  BY <1>2, CountsStep
<1>3. CASE m # 0
  <2>1. m - 1 \in 0 .. Len(l) /\ m - 1 \notin T /\ m \in 1 .. Len(l)
    BY <1>1, <1>3
  <2>2. Counts(l)[m] = Counts(l)[m - 1] + Positive(l[m])
    BY <2>1, CountsStep
  <2>3. Positive(l[m]) \in Nat
    BY <2>1 DEF Positive
  <2> QED BY <2>1, <2>2, <2>3
<1> QED BY <1>2, <1>3

LEMMA CountsGrow ==
    ASSUME NEW l \in Seq(Int), NEW s \in 0 .. Len(l), NEW t \in 0 .. Len(l), s <= t
    PROVE  Counts(l)[s] <= Counts(l)[t]
<1> DEFINE T == {k \in s .. Len(l) : ~(Counts(l)[s] <= Counts(l)[k])}
<1> SUFFICES ASSUME T # {} PROVE FALSE
  OBVIOUS
<1>1. PICK m \in T : \A k \in T : m <= k
  <2>1. T \subseteq Nat
    OBVIOUS
  <2> HIDE DEF T
  <2> QED BY <2>1, Least
<1>2. CASE m = s
  BY <1>2, CountsNat
<1>3. CASE m # s
  <2>1. m - 1 \in s .. Len(l) /\ m - 1 \notin T /\ m \in 1 .. Len(l) /\ m - 1 \in 0 .. Len(l)
    BY <1>1, <1>3
  <2>2. Counts(l)[m] = Counts(l)[m - 1] + Positive(l[m])
    BY <2>1, CountsStep
  <2>3. Positive(l[m]) \in Nat /\ Counts(l)[s] \in Nat /\ Counts(l)[m - 1] \in Nat
    BY <2>1, CountsNat DEF Positive
  <2>4. Counts(l)[s] <= Counts(l)[m - 1]
    BY <2>1
  <2>5. Counts(l)[s] <= Counts(l)[m]
    BY <2>2, <2>3, <2>4
  <2> QED BY <2>5
<1> QED BY <1>2, <1>3

LEMMA CountIs == ASSUME NEW l \in Layouts PROVE l \in Seq(Int) /\ Count(l) \in Nat \ {0}
<1>1. l \in Seq(Int) /\ Len(l) \in 0 .. Len(l)
  BY ProcessAssumption
<1> QED BY <1>1, CountsNat DEF Count

LEMMA IdsInSlots == ASSUME layout \in Layouts PROVE Ids \subseteq Slots
BY DEF Ids, Slots

(* Every target dpctc_set_toid accepts is the id of a thread.              *)
LEMMA ResolveInIds ==
    ASSUME layout \in Layouts, NEW toid \in Int, NEW hash \in Nat
    PROVE  Resolve(toid, hash) \subseteq Ids
<1>0. layout \in Seq(Int) /\ Count(layout) \in Nat \ {0}
  BY CountIs
<1>1. CASE toid \in Ids
  BY <1>1 DEF Resolve
<1>2. CASE toid \notin Ids /\ (-toid \notin DOMAIN layout \/ Positive(layout[-toid]) = 0)
  BY <1>2 DEF Resolve
<1>3. CASE toid \notin Ids /\ ~(-toid \notin DOMAIN layout \/ Positive(layout[-toid]) = 0)
  <2>1. PICK t \in 1 .. Len(layout) : t = -toid
    BY <1>0, <1>3
  <2>2. PICK n \in Nat \ {0} : n = layout[t] /\ Positive(layout[t]) = n
    BY <1>0, <1>3, <2>1 DEF Positive
  <2>3. PICK k \in 0 .. n - 1 : k = hash % n
    OBVIOUS
  <2>4. Resolve(toid, hash) = {EachIds(layout, t)[1 + k]}
    BY <1>3, <2>1, <2>2, <2>3 DEF Resolve
  <2>5. EachIds(layout, t)[1 + k] = Counts(layout)[t - 1] + k
    <3>1. 1 + k \in 1 .. n
      OBVIOUS
    <3>2. Counts(layout)[t - 1] \in Nat
      BY <1>0, CountsNat
    <3>3. EachIds(layout, t)[1 + k] = Counts(layout)[t - 1] + (1 + k) - 1
      BY <2>2, <3>1 DEF EachIds
    <3> QED BY <3>2, <3>3
  <2>6. Counts(layout)[t] = Counts(layout)[t - 1] + n /\ Counts(layout)[t] <= Count(layout)
    BY <1>0, <2>2, CountsStep, CountsGrow DEF Count
  <2>7. Counts(layout)[t - 1] \in Nat /\ Counts(layout)[t] \in Nat
    BY <1>0, CountsNat
  <2>8. EachIds(layout, t)[1 + k] \in 0 .. Count(layout) - 1
    BY <1>0, <2>5, <2>6, <2>7, SMTT(30)
  <2> QED BY <2>4, <2>8 DEF Ids
<1> QED BY <1>1, <1>2, <1>3

-----------------------------------------------------------------------------
(* Start and shutdown.                                                     *)

Names == {"aco", "ssl", "qic", "state"}

LEMMA StageNames ==
    ASSUME NEW b \in 1 .. 3
    PROVE  ToSet(Stages(Bindings[b])) \subseteq Names
<1>1. Bindings[b] \in {"cpp", "cwc", "lua"}
  BY DEF Bindings
<1>2. ToSet(CppStages) \subseteq Names /\ ToSet(CwcStages) \subseteq Names /\ ToSet(LuaStages) \subseteq Names
  BY DEF ToSet, CppStages, CwcStages, LuaStages, Names
<1> QED BY <1>1, <1>2 DEF Stages

(* A step of main before anything runs.                                    *)
LEMMA LoadKeeps ==
    ASSUME PInv, pc \in {"args", "load", "config"}, UNCHANGED <<ret, evp, thr>>,
           binding' \in 1 .. 3, pc' \in {"load", "config", "done"}
    PROVE  PInv'
<1>1. ret = "ok" => NotStarted
  BY DEF PInv
<1>2. NotStarted => NotStarted' /\ AllEnded'
  BY DEF NotStarted, AllEnded
<1> QED BY <1>1, <1>2 DEF PInv, Creating, RunsOn, Freeing

LEMMA NextBindingOK == ASSUME binding \in 1 .. 3, NextBinding PROVE pc' \in {"load", "done"} /\ binding' \in 1 .. 3
<1>1. Len(Bindings) = 3
  BY DEF Bindings
<1> QED BY <1>1 DEF NextBinding

LEMMA RejectsKeeps == ASSUME PInv, pc \in {"load", "config"}, Rejects PROVE PInv'
<1>1. pc' \in {"load", "done"} /\ binding' \in 1 .. 3
  BY NextBindingOK DEF Rejects, PInv
<1> QED BY <1>1, LoadKeeps DEF Rejects

LEMMA TakesKeeps == ASSUME PInv, pc \in {"load", "config"}, Takes PROVE PInv'
<1>1. PICK l \in Layouts :
        /\ layout' = l /\ UNCHANGED <<ret, evp, thr>>
        /\ IF ThreadCount(l) > MaxThreads
           THEN UNCHANGED <<at, tables>> /\ NextBinding
           ELSE pc' = "new" /\ at' = 0 /\ tables' = TRUE /\ binding' = binding
  BY DEF Takes
<1>2. CASE NextBinding
  <2>1. pc' \in {"load", "done"} /\ binding' \in 1 .. 3
    BY <1>2, NextBindingOK DEF PInv
  <2> QED BY <1>1, <2>1, LoadKeeps
<1>3. CASE pc' = "new" /\ at' = 0 /\ tables' = TRUE /\ binding' = binding
  <2>1. 0 \in Ids'
    BY <1>1, CountIs DEF Ids
  <2>2. ret = "ok" => Creating'
    BY <1>1, <1>3, <2>1 DEF Creating, PInv, NotStarted
  <2> QED BY <1>1, <1>3, <2>2 DEF PInv, RunsOn, Freeing
<1> QED BY <1>1, <1>2, <1>3

LEMMA LoadStep == ASSUME PInv, ParseArgs \/ CppStart \/ CwcStart \/ LuaStart PROVE PInv'
<1>1. CASE ParseArgs
  <2>1. pc \in {"args", "load", "config"} /\ UNCHANGED <<ret, evp, thr>> /\ binding' \in 1 .. 3
        /\ pc' \in {"load", "config", "done"}
    BY <1>1 DEF ParseArgs, PInv
  <2> QED BY <2>1, LoadKeeps
<1>2. CASE LuaPreload /\ pc' = "config"
  <2>1. pc \in {"args", "load", "config"} /\ UNCHANGED <<ret, evp, thr>> /\ binding' \in 1 .. 3
        /\ pc' \in {"load", "config", "done"}
    BY <1>2, NextBindingOK DEF LuaPreload, Rejects, PInv
  <2> QED BY <2>1, LoadKeeps
<1>3. ASSUME pc \in {"load", "config"}, Rejects \/ Takes PROVE PInv'
  BY <1>3, RejectsKeeps, TakesKeeps
<1> QED BY <1>1, <1>2, <1>3 DEF CppStart, CwcStart, LuaStart, LuaPreload, LuaConfig

(* Creation has failed: of what follows nothing is claimed.                *)
LEMMA FailedKeeps ==
    ASSUME PInv, ret' = "uninit", pc' = "free", UNCHANGED binding, DOMAIN thr' = Slots, DOMAIN evp' = Slots
    PROVE  PInv'
BY DEF PInv

LEMMA NewLoopStep == ASSUME PInv, NewLoop PROVE PInv'
<1>1. /\ pc = "new" /\ at \in Ids /\ UNCHANGED <<binding, layout, thr, tables>>
      /\ \/ evp' = [evp EXCEPT ![at] = "live"] /\ at' = at /\ ret' = ret
            /\ pc' = IF at = 0 THEN "created" ELSE "create"
         \/ pc' = "free" /\ ret' = "uninit" /\ evp' = evp
  BY DEF NewLoop
<1>2. CASE pc' = "free" /\ ret' = "uninit" /\ evp' = evp
  BY <1>1, <1>2, FailedKeeps DEF PInv
<1>3. CASE evp' = [evp EXCEPT ![at] = "live"] /\ at' = at /\ ret' = ret
           /\ pc' = IF at = 0 THEN "created" ELSE "create"
  <2>1. ASSUME ret = "ok" PROVE Creating'
    <3>1. /\ layout \in Layouts /\ tables /\ at \in Slots /\ at \in Nat /\ Ids' = Ids
          /\ \A i \in 0 .. at - 1 : evp[i] = "live" /\ i \in Slots /\ i # at
          /\ \A i \in Slots : thr[i] # "none" => i \in 1 .. at /\ i # at
      <4>1. layout \in Layouts /\ tables /\ \A i \in 0 .. at - 1 : evp[i] = "live"
        BY <1>1, <2>1 DEF PInv, Creating
      <4>2. Ids' = Ids
        BY <1>1 DEF Ids
      <4>3. at \in Slots /\ at \in Nat /\ \A i \in 0 .. at - 1 : i \in Slots /\ i # at
        <5>1. Ids \subseteq Slots /\ Count(layout) \in Nat
          BY <4>1, IdsInSlots, CountIs
        <5>2. at \in Nat /\ \A i \in 0 .. at - 1 : i \in Ids /\ i # at
          BY <1>1, <5>1 DEF Ids
        <5> QED BY <1>1, <5>1, <5>2
      <4>4. \A i \in Slots : thr[i] # "none" => i \in 1 .. at /\ i # at
        BY <1>1, <2>1 DEF PInv, Creating
      <4> QED BY <4>1, <4>2, <4>3, <4>4
    <3>2. evp'[at] = "live" /\ \A i \in 0 .. at - 1 : evp'[i] = "live"
      BY <1>3, <3>1 DEF PInv
    <3> QED BY <1>1, <1>3, <3>1, <3>2 DEF Creating
  <2>2. DOMAIN evp' = Slots
    BY <1>3 DEF PInv
  <2> QED BY <1>1, <1>3, <2>1, <2>2 DEF PInv, RunsOn, Freeing
<1> QED BY <1>1, <1>2, <1>3

LEMMA CreateThreadStep == ASSUME PInv, CreateThread PROVE PInv'
<1>0. PICK v : v = Head(Stages(Bindings[binding]))
  OBVIOUS
<1>1. /\ pc = "create" /\ UNCHANGED <<binding, layout, evp, tables>>
      /\ \/ thr' = [thr EXCEPT ![at] = v] /\ pc' = "created" /\ at' = at /\ ret' = ret
         \/ pc' = "free" /\ ret' = "uninit" /\ thr' = thr
  BY <1>0 DEF CreateThread
<1>2. CASE pc' = "free" /\ ret' = "uninit" /\ thr' = thr
  BY <1>1, <1>2, FailedKeeps DEF PInv
<1>3. CASE thr' = [thr EXCEPT ![at] = v] /\ pc' = "created" /\ at' = at /\ ret' = ret
  <2>1. DOMAIN thr' = Slots /\ \A i \in Slots : i # at => thr'[i] = thr[i]
    BY <1>3 DEF PInv
  <2>2. ASSUME ret = "ok" PROVE Creating'
    <3>1. layout \in Layouts /\ tables /\ at \in Ids /\ Ids' = Ids /\ Count(layout) \in Nat
      BY <1>1, <2>2, CountIs DEF PInv, Creating, Ids
    <3>2. at # 0
      BY <1>1, <2>2 DEF PInv, Creating
    <3> QED BY <1>1, <1>3, <2>1, <2>2, <3>1, <3>2 DEF PInv, Creating, Ids
  <2> QED BY <1>1, <1>3, <2>1, <2>2 DEF PInv, RunsOn, Freeing
<1> QED BY <1>1, <1>2, <1>3

LEMMA CreatedStep == ASSUME PInv, Created PROVE PInv'
<1>0. PICK v : v = Head(Stages(Bindings[binding]))
  OBVIOUS
<1>1. /\ pc = "created" /\ UNCHANGED <<ret, binding, layout, evp, tables>>
      /\ IF at + 1 \in Ids THEN pc' = "new" /\ at' = at + 1 /\ thr' = thr
         ELSE pc' = "run" /\ at' = 1 /\ thr' = [thr EXCEPT ![0] = v]
  BY <1>0 DEF Created
<1>2. DOMAIN thr' = Slots /\ DOMAIN evp' = Slots
  BY <1>1 DEF PInv
<1>3. ASSUME ret = "ok" PROVE Creating' /\ RunsOn'
  <2>1. /\ layout \in Layouts /\ tables /\ at \in Ids
        /\ evp[at] = "live" /\ \A i \in 0 .. at - 1 : evp[i] = "live"
        /\ \A i \in Slots : thr[i] # "none" => i \in 1 .. at
    BY <1>1, <1>3 DEF PInv, Creating
  <2>2. PICK c \in Nat \ {0} : c = Count(layout)
    BY <2>1, CountIs
  <2>3. Ids = 0 .. c - 1 /\ Ids' = 0 .. c - 1 /\ Count(layout') = c
    BY <1>1, <2>2 DEF Ids
  <2>4. at \in 0 .. c - 1
    BY <2>1, <2>3
  <2>5. CASE at + 1 \in Ids
    <3>1. \A i \in 0 .. at' - 1 : evp'[i] = "live"
      BY <1>1, <2>1, <2>4, <2>5
    <3>2. \A i \in Slots : thr'[i] # "none" => i \in 1 .. at' /\ i # at'
      BY <1>1, <2>1, <2>4, <2>5
    <3> QED BY <1>1, <2>1, <2>3, <2>5, <3>1, <3>2 DEF Creating, RunsOn
  <2>6. CASE at + 1 \notin Ids
    <3>1. at = c - 1
      BY <2>3, <2>4, <2>6
    <3>2. \A i \in Ids' : evp'[i] = "live"
      BY <1>1, <2>1, <2>3, <3>1
    <3>3. ASSUME NEW i \in Slots, thr'[i] # "none" PROVE i \in Ids'
      <4>1. CASE i = 0
        BY <2>3, <4>1
      <4>2. CASE i # 0
        <5>1. thr[i] # "none"
          BY <1>1, <2>6, <3>3, <4>2 DEF PInv
        <5> QED BY <2>1, <2>3, <3>1, <5>1
      <4> QED BY <4>1, <4>2
    <3> QED BY <1>1, <2>1, <2>3, <2>6, <3>2, <3>3 DEF Creating, RunsOn
  <2> QED BY <2>5, <2>6
<1> QED BY <1>1, <1>2, <1>3 DEF PInv, Freeing

LEMMA JoinStep == ASSUME PInv, Join PROVE PInv'
<1>1. /\ pc = "run" /\ thr[0] = "ended" /\ UNCHANGED <<ret, binding, layout, evp, thr, tables>>
      /\ IF at \in Ids THEN thr[at] = "ended" /\ at' = at + 1 /\ pc' = pc
         ELSE at' = 0 /\ pc' = "free"
  BY DEF Join
<1>2. ASSUME ret = "ok" PROVE RunsOn' /\ Freeing'
  <2>1. /\ layout \in Layouts /\ tables /\ at \in 1 .. Count(layout)
        /\ \A i \in Ids : evp[i] = "live"
        /\ \A i \in Slots : thr[i] # "none" => i \in Ids
        /\ \A i \in 1 .. at - 1 : thr[i] = "ended"
    BY <1>1, <1>2 DEF PInv, RunsOn
  <2>2. PICK c \in Nat \ {0} : c = Count(layout)
    BY <2>1, CountIs
  <2>3. Ids = 0 .. c - 1 /\ Ids' = 0 .. c - 1 /\ Count(layout') = c /\ at \in 1 .. c
    BY <1>1, <2>1, <2>2 DEF Ids
  <2>4. CASE at \in Ids
    <3>1. at' \in 1 .. c /\ \A i \in 1 .. at' - 1 : thr'[i] = "ended"
      BY <1>1, <2>1, <2>3, <2>4
    <3> QED BY <1>1, <2>1, <2>3, <2>4, <3>1 DEF RunsOn, Freeing
  <2>5. CASE at \notin Ids
    <3>1. at = c
      BY <2>3, <2>5
    <3>2. \A i \in Ids : thr[i] = "ended"
      BY <1>1, <2>1, <2>3, <3>1
    <3>3. AllEnded'
      BY <1>1, <2>1, <3>2 DEF AllEnded
    <3> QED BY <1>1, <2>1, <2>3, <2>5, <3>3 DEF RunsOn, Freeing
  <2> QED BY <2>4, <2>5
<1> QED BY <1>1, <1>2 DEF PInv, Creating

LEMMA FreeStep == ASSUME PInv, Free PROVE PInv'
<1>1. /\ pc = "free" /\ UNCHANGED <<ret, binding, layout, thr>>
      /\ \/ at \in Ids /\ evp[at] = "none" /\ pc' = "crashed" /\ UNCHANGED <<at, evp, tables>>
         \/ /\ at \in Ids /\ evp[at] = "live" /\ evp' = [evp EXCEPT ![at] = "freed"]
            /\ at' = at + 1 /\ UNCHANGED <<pc, tables>>
         \/ at \notin Ids /\ pc' = "done" /\ UNCHANGED <<at, evp>>
  BY DEF Free
<1>2. DOMAIN evp' = Slots
  BY <1>1 DEF PInv
<1>3. ASSUME ret = "ok"
      PROVE  /\ layout \in Layouts /\ at \in 0 .. Count(layout) /\ AllEnded
             /\ \A i \in Ids : i >= at => evp[i] = "live"
  BY <1>1, <1>3 DEF PInv, Freeing
<1>4. CASE at \in Ids /\ evp[at] = "none" /\ pc' = "crashed" /\ UNCHANGED <<at, evp, tables>>
  <2>1. ret # "ok"
    <3> SUFFICES ASSUME ret = "ok" PROVE FALSE
      OBVIOUS
    <3>1. at \in Nat
      BY <1>3, CountIs
    <3> QED BY <1>3, <1>4, <3>1
  <2> QED BY <1>1, <1>2, <1>4, <2>1 DEF PInv
<1>5. CASE at \in Ids /\ evp' = [evp EXCEPT ![at] = "freed"] /\ at' = at + 1 /\ UNCHANGED <<pc, tables>>
  <2>1. ASSUME ret = "ok" PROVE Freeing'
    <3>1. PICK c \in Nat \ {0} : c = Count(layout)
      BY <1>3, <2>1, CountIs
    <3>2. Ids = 0 .. c - 1 /\ Ids' = 0 .. c - 1 /\ Count(layout') = c /\ AllEnded'
      BY <1>1, <1>3, <2>1, <3>1 DEF Ids, AllEnded
    <3>3. Ids \subseteq Slots
      BY <1>3, <2>1, IdsInSlots
    <3>4. ASSUME NEW i \in Ids', i >= at' PROVE evp'[i] = "live"
      <4>1. i \in Slots /\ i # at /\ i >= at
        BY <1>5, <3>2, <3>3, <3>4
      <4>2. evp[i] = "live"
        BY <1>3, <2>1, <3>2, <4>1
      <4> QED BY <1>5, <4>1, <4>2 DEF PInv
    <3>5. at' \in 0 .. c
      BY <1>5, <3>2
    <3> QED BY <1>1, <1>3, <2>1, <3>2, <3>4, <3>5 DEF Freeing
  <2> QED BY <1>1, <1>2, <1>5, <2>1 DEF PInv, Creating, RunsOn
<1>6. CASE pc' = "done"
  BY <1>1, <1>2, <1>3, <1>6 DEF PInv, Creating, RunsOn, Freeing, AllEnded
<1> QED BY <1>1, <1>4, <1>5, <1>6

(* A step of a thread that runs: nothing else moves.                       *)
LEMMA ThreadKeeps ==
    ASSUME PInv, NEW i \in Slots, NEW v, thr[i] \notin {"none", "ended"}, thr' = [thr EXCEPT ![i] = v],
           UNCHANGED <<pc, ret, binding, layout, at, evp, tables>>
    PROVE  PInv'
<1>1. DOMAIN thr' = Slots /\ \A j \in Slots : j # i => thr'[j] = thr[j]
  BY DEF PInv
<1>2. \A j \in Slots : thr'[j] # "none" => thr[j] # "none"
  BY <1>1
<1>3. \A j \in Slots : thr[j] = "ended" => thr'[j] = "ended"
  BY <1>1
<1>4. ASSUME ret = "ok" PROVE ~NotStarted /\ ~AllEnded
  BY DEF NotStarted, AllEnded
<1>5. ASSUME ret = "ok" PROVE Creating'
  BY <1>2, <1>5 DEF PInv, Creating, Ids
<1>6. ASSUME ret = "ok" PROVE RunsOn'
  <2> SUFFICES ASSUME pc = "run" PROVE RunsOn'
    BY DEF RunsOn
  <2>1. /\ layout \in Layouts /\ tables /\ at \in 1 .. Count(layout)
        /\ \A j \in Ids : evp[j] = "live"
        /\ \A j \in Slots : thr[j] # "none" => j \in Ids
        /\ \A j \in 1 .. at - 1 : thr[j] = "ended"
        /\ at > 1 => thr[0] = "ended"
    BY <1>6 DEF PInv, RunsOn
  <2>2. PICK c \in Nat \ {0} : c = Count(layout)
    BY <2>1, CountIs
  <2>3. Ids = 0 .. c - 1 /\ Ids' = 0 .. c - 1 /\ Count(layout') = c /\ at \in 1 .. c /\ Ids \subseteq Slots
    BY <2>1, <2>2, IdsInSlots DEF Ids
  <2>4. \A j \in 1 .. at - 1 : j \in Slots
    BY <2>3
  <2>5. 0 \in Slots
    BY <2>3
  <2>6. \A j \in 1 .. at' - 1 : thr'[j] = "ended"
    BY <1>3, <2>1, <2>4
  <2>7. at' > 1 => thr'[0] = "ended"
    BY <1>3, <2>1, <2>5
  <2> QED BY <1>2, <2>1, <2>3, <2>6, <2>7 DEF RunsOn
<1>7. ret = "ok" => pc \notin {"args", "load", "config", "free", "done"}
  BY <1>4 DEF PInv, Freeing
<1> QED BY <1>1, <1>5, <1>6, <1>7 DEF PInv, Freeing

LEMMA ThreadStep ==
    ASSUME PInv, NEW i \in Slots, ThreadInit(i) \/ LeaveLoop(i) \/ ThreadExit(i)
    PROVE  PInv'
<1>1. CASE ThreadInit(i)
  <2>1. PICK v : thr' = [thr EXCEPT ![i] = v]
    BY <1>1 DEF ThreadInit
  <2>2. thr[i] \in ToSet(Stages(Bindings[binding])) /\ UNCHANGED <<pc, ret, binding, layout, at, evp, tables>>
    BY <1>1 DEF ThreadInit
  <2>3. thr[i] \notin {"none", "ended"}
    BY <2>2, StageNames DEF PInv, Names
  <2> QED BY <2>1, <2>2, <2>3, ThreadKeeps
<1>2. CASE LeaveLoop(i)
  <2>1. PICK v : thr' = [thr EXCEPT ![i] = v]
    BY <1>2 DEF LeaveLoop
  <2>2. thr[i] \notin {"none", "ended"} /\ UNCHANGED <<pc, ret, binding, layout, at, evp, tables>>
    BY <1>2 DEF LeaveLoop
  <2> QED BY <2>1, <2>2, ThreadKeeps
<1>3. CASE ThreadExit(i)
  <2>1. PICK v : thr' = [thr EXCEPT ![i] = v]
    BY <1>3 DEF ThreadExit
  <2>2. thr[i] \notin {"none", "ended"} /\ UNCHANGED <<pc, ret, binding, layout, at, evp, tables>>
    BY <1>3 DEF ThreadExit
  <2> QED BY <2>1, <2>2, ThreadKeeps
<1> QED BY <1>1, <1>2, <1>3

LEMMA RestKeeps ==
    ASSUME PInv, UNCHANGED <<pc, ret, binding, layout, at, evp, thr, tables>>
    PROVE  PInv'
BY DEF PInv, NotStarted, AllEnded, Creating, RunsOn, Freeing, Ids

LEMMA PInvStep == ASSUME PInv, [Next]_vars PROVE PInv'
<1>1. CASE Main
  BY <1>1, LoadStep, NewLoopStep, CreateThreadStep, CreatedStep, JoinStep, FreeStep DEF Main
<1>2. CASE \E i \in Slots : Thread(i)
  <2>1. PICK i \in Slots : Thread(i)
    BY <1>2
  <2>2. CASE IdNext(i) \/ IdWake(i)
    <3>1. UNCHANGED <<pc, ret, binding, layout, at, evp, thr, tables>>
      BY <2>2 DEF IdNext, IdWake
    <3> QED BY <3>1, RestKeeps
  <2> QED BY <2>1, <2>2, ThreadStep DEF Thread
<1>3. CASE Tick \/ Finished \/ UNCHANGED vars
  <2>1. UNCHANGED <<pc, ret, binding, layout, at, evp, thr, tables>>
    BY <1>3 DEF Tick, Finished, vars
  <2> QED BY <2>1, RestKeeps
<1> QED BY <1>1, <1>2, <1>3 DEF Next

LEMMA PInvInit == ASSUME Init PROVE PInv
BY DEF Init, PInv, NotStarted, AllEnded, Creating, RunsOn, Freeing

(* Where main is says which threads may run and which loops exist, however *)
(* many thread types and threads the command line asks for: nothing runs   *)
(* before the creation loop, the loop of a thread is created before it and *)
(* freed after all have ended.                                             *)
THEOREM StartKept == Spec => []PInv
<1>1. Init => PInv
  BY PInvInit
<1>2. PInv /\ [Next]_vars => PInv'
  BY PInvStep
<1> QED BY <1>1, <1>2, PTL DEF Spec

LEMMA PInvLoops == ASSUME PInv PROVE LoopAlive
<1> SUFFICES ASSUME ret = "ok" PROVE LoopAlive
  BY DEF LoopAlive
<1>1. pc # "crashed"
  BY DEF PInv
<1>2. ASSUME NEW i \in StartedThreads PROVE tables /\ i \in Ids /\ evp[i] = "live" /\ pc \notin {"args", "load", "config", "free", "done"}
  <2>1. i \in Slots /\ thr[i] # "none" /\ thr[i] # "ended"
    BY DEF StartedThreads
  <2>2. pc \notin {"args", "load", "config", "free", "done"}
    BY <2>1 DEF PInv, NotStarted, AllEnded, Freeing
  <2>3. CASE pc = "run"
    BY <2>1, <2>3 DEF PInv, RunsOn
  <2>4. CASE pc \in {"new", "create", "created"}
    <3>1. /\ layout \in Layouts /\ tables /\ at \in Ids /\ i \in 1 .. at /\ (i = at => pc = "created")
          /\ \A j \in 0 .. at - 1 : evp[j] = "live"
          /\ pc # "new" => evp[at] = "live"
      BY <2>1, <2>4 DEF PInv, Creating
    <3>2. PICK c \in Nat \ {0} : c = Count(layout)
      BY <3>1, CountIs
    <3>3. at \in 0 .. c - 1 /\ Ids = 0 .. c - 1
      BY <3>1, <3>2 DEF Ids
    <3> QED BY <2>2, <3>1, <3>3
  <2> QED BY <1>1, <2>2, <2>3, <2>4 DEF PInv
<1>3. ASSUME thr[0] = "loop", NEW toid \in -Len(layout) .. Count(layout), NEW hash \in 0 .. 2,
             NEW i \in Resolve(toid, hash)
      PROVE  evp[i] = "live"
  <2>1. 0 \in Slots
    <3>1. PICK l \in Layouts : Count(l) \in Nat \ {0}
      BY CountIs, ProcessAssumption
    <3>2. 0 \in 0 .. Count(l) - 1
      BY <3>1
    <3> QED BY <3>2 DEF Slots
  <2>2. 0 \in StartedThreads
    BY <1>3, <2>1 DEF StartedThreads
  <2>3. pc \notin {"args", "load", "config", "free", "done"}
    BY <1>2, <2>2
  <2>4. pc \notin {"new", "create", "created"}
    <3> SUFFICES ASSUME pc \in {"new", "create", "created"} PROVE 0 \in 1 .. at
      OBVIOUS
    <3> QED BY <1>3, <2>1 DEF PInv, Creating
  <2>5. layout \in Layouts /\ \A j \in Ids : evp[j] = "live"
    BY <1>1, <2>3, <2>4 DEF PInv, RunsOn
  <2>6. toid \in Int /\ hash \in Nat
    <3>1. Len(layout) \in Nat /\ Count(layout) \in Nat
      BY <2>5, CountIs
    <3> QED BY <3>1
  <2> QED BY <2>5, <2>6, ResolveInIds
<1> QED BY <1>1, <1>2, <1>3 DEF LoopAlive

(* The loop, the tables and the id of a thread outlive it, and every target *)
(* dpctc_set_toid accepts has a loop while the master forwards CTCs: for    *)
(* every list of thread counts, every number of threads and whichever of    *)
(* the loops or threads fail to be created (dpapp_start, dpctc_set_toid).   *)
THEOREM LoopsOutlive == Spec => []LoopAlive
BY StartKept, PInvLoops, PTL

-----------------------------------------------------------------------------
(* The ids of a process.                                                   *)

(* The id fields of the threads that run differ.                           *)
LEMMA TidIs ==
    ASSUME IInv, Count(layout) <= TidMod, NEW i \in Slots, thr[i] # "none"
    PROVE  i \in Nat /\ i % TidMod = i
<1>1. layout \in Layouts /\ i \in 0 .. Count(layout) - 1
  BY DEF IInv, OnLayout, Ids
<1>2. PICK c \in Nat : c = Count(layout) /\ c <= TidMod
  BY <1>1, CountIs
<1>3. i \in Nat /\ i < TidMod /\ TidMod \in Nat \ {0}
  BY <1>1, <1>2, ProcessAssumption
<1> QED BY <1>3

(* The field of every thread is a number.                                  *)
LEMMA TidNat == ASSUME NEW i \in Slots PROVE i % TidMod \in Nat
<1>1. PICK l \in Layouts : i \in 0 .. Count(l) - 1
  BY DEF Slots
<1>2. i \in Nat
  BY <1>1, CountIs
<1> QED BY <1>2, ProcessAssumption

(* A thread whose context and ids stay put.                                *)
LEMMA FreshStays ==
    ASSUME NEW i \in Slots, Fresh(i), ctx'[i] = ctx[i], waiting'[i] = waiting[i],
           \A d \in issued' : d \in issued \/ d.tid # i
    PROVE  Fresh(i)'
BY DEF Fresh

LEMMA SeqIs == ASSUME IdsTyped, NEW i \in Slots PROVE ctx[i].seq \in 0 .. MaxSeq /\ ctx[i].seq % (MaxSeq + 1) = ctx[i].seq /\ ctx[i].ts \in Nat
<1>1. ctx[i].seq \in 0 .. MaxSeq /\ ctx[i].ts \in Nat
  BY DEF IdsTyped
<1>2. PICK s \in 0 .. MaxSeq : s = ctx[i].seq
  BY <1>1
<1>3. s % (MaxSeq + 1) = s
  BY ProcessAssumption
<1> QED BY <1>1, <1>2, <1>3

(* One more id, not handed out before or drawn beside a sleeper.           *)
LEMMA OneMore ==
    ASSUME IdsTyped, drawn - Cardinality(issued) <= overtaken, NEW x,
           issued' = issued \cup {x}, drawn' = drawn + 1,
           \/ x \notin issued /\ overtaken' \in {overtaken, overtaken + 1}
           \/ overtaken' = overtaken + 1
    PROVE  drawn' - Cardinality(issued') <= overtaken'
<1>1. PICK c \in Nat : c = Cardinality(issued)
  BY FS_CardinalityType DEF IdsTyped
<1>2. PICK e \in Nat : e = Cardinality(issued') /\ e \in {c, c + 1} /\ (x \notin issued => e = c + 1)
  BY <1>1, FS_AddElement DEF IdsTyped
<1>3. drawn \in Nat /\ overtaken \in Nat
  BY DEF IdsTyped
<1> QED BY <1>1, <1>2, <1>3

LEMMA ContextSet ==
    ASSUME NEW c \in [seq : 0 .. MaxSeq, ts : Nat], NEW m \in Nat, NEW n \in 0 .. MaxSeq
    PROVE  [[c EXCEPT !.ts = m] EXCEPT !.seq = n] = [seq |-> n, ts |-> m]
<1>1. c = [seq |-> c.seq, ts |-> c.ts]
  OBVIOUS
<1>2. PICK a, b : c = [seq |-> a, ts |-> b]
  BY <1>1
<1>3. [c EXCEPT !.ts = m] = [seq |-> a, ts |-> m]
  BY <1>2
<1>4. [[seq |-> a, ts |-> m] EXCEPT !.seq = n] = [seq |-> n, ts |-> m]
  OBVIOUS
<1> QED BY <1>3, <1>4

(* A thread hands out an id of this millisecond.                           *)
LEMMA IssueKeeps ==
    ASSUME IInv, NEW i \in Slots, thr[i] # "none",
           NEW s \in 0 .. MaxSeq, NEW n \in 0 .. MaxSeq, NEW w \in Nat,
           issued' = issued \cup {Id(i, s)}, drawn' = drawn + 1, now' = now,
           overtaken' \in {overtaken, overtaken + 1},
           UNCHANGED <<layout>>,
           ctx' = [ctx EXCEPT ![i].ts = now, ![i].seq = n],
           waiting' = [waiting EXCEPT ![i] = w],
           s = MaxSeq \/ s < n,
           \/ now # ctx[i].ts
           \/ waiting[i] = 0 /\ s = ctx[i].seq /\ s # MaxSeq
           \/ w # 0 /\ overtaken' = overtaken + 1
    PROVE  IdsTyped' /\ Counted'
<1> USE DEF IInv
<1>1. PICK x \in IdType : x = Id(i, s) /\ x.ts = now /\ x.tid = i % TidMod /\ x.seq = s
  <2>1. [ts |-> now, tid |-> i % TidMod, seq |-> s] \in IdType
    BY TidNat DEF IdsTyped, IdType
  <2> QED BY <2>1 DEF Id
<1>2. PICK c \in [seq : 0 .. MaxSeq, ts : Nat] : c = ctx[i] /\ c.ts <= now
  BY DEF IdsTyped
<1>3. ctx'[i] = [seq |-> n, ts |-> now] /\ ctx' \in [Slots -> [seq : 0 .. MaxSeq, ts : Nat]]
  <2>1. [seq |-> n, ts |-> now] \in [seq : 0 .. MaxSeq, ts : Nat]
    BY DEF IdsTyped
  <2>2. PICK b \in [seq : 0 .. MaxSeq, ts : Nat] : b = [seq |-> n, ts |-> now]
    BY <2>1
  <2>3. [[c EXCEPT !.ts = now] EXCEPT !.seq = n] = b
    <3>1. now \in Nat
      BY DEF IdsTyped
    <3> QED BY <2>2, <3>1, ContextSet
  <2>4. ctx' = [ctx EXCEPT ![i] = b]
    BY <1>2, <2>3
  <2>5. ctx \in [Slots -> [seq : 0 .. MaxSeq, ts : Nat]]
    BY DEF IdsTyped
  <2> QED BY <2>2, <2>4, <2>5
<1>4. \A j \in Slots : j # i => ctx'[j] = ctx[j] /\ waiting'[j] = waiting[j]
  BY DEF IdsTyped
<1>5. waiting' \in [Slots -> Nat] /\ waiting'[i] = w
  BY DEF IdsTyped
<1>7. now \in Nat /\ MaxSeq \in Nat
  BY ProcessAssumption DEF IdsTyped
<1>9. issued' \subseteq IdType /\ IsFiniteSet(issued') /\ drawn' \in Nat /\ overtaken' \in Nat
  <2>1. issued \subseteq IdType /\ IsFiniteSet(issued) /\ issued' = issued \cup {x}
    BY <1>1 DEF IdsTyped
  <2>2. issued' \subseteq IdType /\ IsFiniteSet(issued')
    BY <2>1, FS_AddElement
  <2>3. drawn \in Nat /\ overtaken \in Nat
    BY DEF IdsTyped
  <2> QED BY <2>2, <2>3
<1>11. \A j \in Slots : ctx'[j].ts <= now'
  BY <1>3, <1>4, <1>7 DEF IdsTyped
<1>12. IdsTyped'
  BY <1>3, <1>5, <1>7, <1>9, <1>11 DEF IdsTyped
<1>13. Counted'
  <2> SUFFICES ASSUME Count(layout) <= TidMod
               PROVE  drawn' - Cardinality(issued') <= overtaken' /\ \A j \in Slots : Fresh(j)'
    BY DEF Counted
  <2>0. x.tid = i /\ (\A j \in Slots : Fresh(j)) /\ drawn - Cardinality(issued) <= overtaken
    BY <1>1, TidIs DEF Counted
  <2>6. \A d \in issued : d \in IdType /\ (d.tid = i => d.ts <= c.ts /\ (d.ts = c.ts /\ waiting[i] = 0 => d.seq < c.seq \/ d.seq = MaxSeq))
    BY <1>2, <2>0 DEF IdsTyped, Fresh
  <2>8. ASSUME x \in issued PROVE w # 0 /\ overtaken' = overtaken + 1 /\ now = c.ts
    <3>1. now <= c.ts /\ (now = c.ts /\ waiting[i] = 0 => s < c.seq \/ s = MaxSeq)
      BY <1>1, <2>0, <2>6, <2>8
    <3>2. now = c.ts
      BY <1>2, <1>7, <3>1
    <3> QED BY <1>2, <3>1, <3>2
  <2>9. drawn' - Cardinality(issued') <= overtaken'
    BY <1>1, <2>0, <2>8, OneMore
  <2>10. ASSUME NEW j \in Slots PROVE Fresh(j)'
    <3>1. CASE j = i
      <4>1. ASSUME NEW d \in issued', d.tid = i
            PROVE  d.ts <= now /\ (d.ts = now /\ w = 0 => d.seq < n \/ d.seq = MaxSeq)
        <5>1. CASE d = x
          BY <1>1, <1>7, <5>1
        <5>2. CASE d \in issued
          <6>1. d \in IdType /\ d.ts <= c.ts /\ (d.ts = c.ts /\ waiting[i] = 0 => d.seq < c.seq \/ d.seq = MaxSeq)
            BY <2>6, <4>1, <5>2
          <6>2. d.ts \in Nat /\ d.seq \in 0 .. MaxSeq
            BY <6>1 DEF IdType
          <6>3. d.ts <= now
            BY <1>2, <1>7, <6>1, <6>2
          <6>4. ASSUME d.ts = now, w = 0 PROVE d.seq < n \/ d.seq = MaxSeq
            <7>1. now = c.ts
              BY <1>2, <1>7, <6>1, <6>4
            <7>2. waiting[i] = 0 /\ s = c.seq /\ s < n
              BY <1>2, <6>4, <7>1
            <7> QED BY <1>7, <6>1, <6>2, <6>4, <7>1, <7>2
          <6> QED BY <6>3, <6>4
        <5> QED BY <1>1, <5>1, <5>2
      <4>2. ctx'[i].ts = now /\ ctx'[i].seq = n
        BY <1>3
      <4> QED BY <1>5, <3>1, <4>1, <4>2 DEF Fresh
    <3>2. CASE j # i
      <4>1. \A d \in issued' : d \in issued \/ d.tid # j
        BY <1>1, <2>0, <3>2
      <4>2. Fresh(j)
        BY <2>0
      <4> QED BY <1>4, <3>2, <4>1, <4>2, FreshStays
    <3> QED BY <3>1, <3>2
  <2> QED BY <2>9, <2>10
<1> QED BY <1>12, <1>13

(* The sequence is at its end: it is set back and the caller sleeps.       *)
LEMMA IdSleepKeeps ==
    ASSUME IInv, NEW i \in Slots,
           UNCHANGED <<issued, drawn, overtaken, now, layout>>,
           waiting' = [waiting EXCEPT ![i] = waiting[i] + 1],
           ctx' = [ctx EXCEPT ![i].seq = 0]
    PROVE  IdsTyped' /\ Counted'
<1>1. MaxSeq \in Nat /\ waiting \in [Slots -> Nat] /\ ctx \in [Slots -> [seq : 0 .. MaxSeq, ts : Nat]]
  BY ProcessAssumption DEF IInv, IdsTyped
<1>2. PICK c \in [seq : 0 .. MaxSeq, ts : Nat] : c = ctx[i]
  BY <1>1
<1>3. PICK b \in [seq : 0 .. MaxSeq, ts : Nat] : b = [c EXCEPT !.seq = 0] /\ b.ts = c.ts
  <2>1. 0 \in 0 .. MaxSeq
    BY <1>1
  <2>2. [c EXCEPT !.seq = 0] \in [seq : 0 .. MaxSeq, ts : Nat]
    BY <2>1
  <2> QED BY <2>2
<1>4. ctx' = [ctx EXCEPT ![i] = b]
  BY <1>2, <1>3
<1>5. /\ ctx' \in [Slots -> [seq : 0 .. MaxSeq, ts : Nat]] /\ ctx'[i] = b
      /\ \A j \in Slots : j # i => ctx'[j] = ctx[j]
  BY <1>1, <1>4
<1>6. waiting' \in [Slots -> Nat] /\ waiting'[i] # 0 /\ \A j \in Slots : j # i => waiting'[j] = waiting[j]
  BY <1>1
<1>7. \A j \in Slots : ctx'[j].ts = ctx[j].ts
  BY <1>2, <1>3, <1>5
<1>8. IdsTyped'
  BY <1>5, <1>6, <1>7 DEF IInv, IdsTyped
<1>9. ASSUME NEW j \in Slots, Fresh(j) PROVE Fresh(j)'
  <2>1. CASE j = i
    BY <1>6, <1>7, <1>9, <2>1 DEF Fresh
  <2>2. CASE j # i
    BY <1>5, <1>6, <1>9, <2>2, FreshStays
  <2> QED BY <2>1, <2>2
<1>10. Counted'
  BY <1>9 DEF IInv, Counted
<1> QED BY <1>8, <1>10

LEMMA IdNextStep ==
    ASSUME IInv, NEW i \in Slots, IdNext(i)
    PROVE  IdsTyped' /\ Counted'
<1>1. PICK s \in 0 .. MaxSeq : s = ctx[i].seq /\ s = ctx[i].seq % (MaxSeq + 1)
  BY SeqIs DEF IInv
<1>2. waiting[i] \in Nat /\ waiting \in [Slots -> Nat] /\ MaxSeq \in Nat /\ overtaken \in Nat
  BY ProcessAssumption DEF IInv, IdsTyped
<1>3. CASE s = MaxSeq /\ now = ctx[i].ts
  <2>1. /\ waiting' = [waiting EXCEPT ![i] = waiting[i] + 1] /\ ctx' = [ctx EXCEPT ![i].seq = 0]
        /\ UNCHANGED <<issued, drawn, overtaken, now, layout>>
    BY <1>1, <1>3 DEF IdNext
  <2> QED BY <2>1, IdSleepKeeps
<1>4. CASE ~(s = MaxSeq /\ now = ctx[i].ts)
  <2>1. PICK n \in 0 .. MaxSeq : n = IF s = MaxSeq THEN 0 ELSE s + 1
    BY <1>2
  <2>2. /\ issued' = issued \cup {Id(i, s)} /\ drawn' = drawn + 1 /\ now' = now /\ layout' = layout
        /\ ctx' = [ctx EXCEPT ![i].ts = now, ![i].seq = n] /\ waiting' = waiting
        /\ overtaken' = overtaken + (IF waiting[i] > 0 THEN 1 ELSE 0) /\ thr[i] # "none"
    BY <1>1, <1>4, <2>1 DEF IdNext, Issue
  <2>3. overtaken' \in {overtaken, overtaken + 1} /\ (waiting[i] # 0 => overtaken' = overtaken + 1)
    BY <1>2, <2>2
  <2>4. PICK w \in Nat : w = waiting[i] /\ waiting' = [waiting EXCEPT ![i] = w]
    BY <1>2, <2>2
  <2>5. s = MaxSeq \/ s < n
    BY <1>2, <2>1
  <2>6. \/ now # ctx[i].ts
        \/ waiting[i] = 0 /\ s = ctx[i].seq /\ s # MaxSeq
        \/ w # 0 /\ overtaken' = overtaken + 1
    BY <1>1, <1>4, <2>3, <2>4
  <2> QED BY <2>2, <2>3, <2>4, <2>5, <2>6, IssueKeeps
<1> QED BY <1>3, <1>4

LEMMA IdWakeStep ==
    ASSUME IInv, NEW i \in Slots, IdWake(i)
    PROVE  IdsTyped' /\ Counted'
<1>1. PICK n \in 0 .. MaxSeq : n = ctx[i].seq
  BY SeqIs DEF IInv
<1>2. PICK w \in Nat : w = waiting[i] - 1
  BY DEF IdWake, IInv, IdsTyped
<1>3. PICK s \in 0 .. MaxSeq : s = MaxSeq
  BY ProcessAssumption
<1>4. /\ issued' = issued \cup {Id(i, s)} /\ drawn' = drawn + 1 /\ now' = now /\ layout' = layout
      /\ waiting' = [waiting EXCEPT ![i] = w] /\ now # ctx[i].ts /\ thr[i] # "none"
  BY <1>2, <1>3 DEF IdWake
<1>5. ctx' = [ctx EXCEPT ![i].ts = now, ![i].seq = n]
  <2>1. PICK c \in [seq : 0 .. MaxSeq, ts : Nat] : c = ctx[i] /\ c.seq = n
    BY <1>1 DEF IInv, IdsTyped
  <2>2. [c EXCEPT !.ts = now] = [[c EXCEPT !.ts = now] EXCEPT !.seq = n]
    BY <2>1
  <2> QED BY <2>1, <2>2 DEF IdWake
<1>6. overtaken' \in {overtaken, overtaken + 1}
  BY DEF IdWake, IInv, IdsTyped
<1> QED BY <1>3, <1>4, <1>5, <1>6, IssueKeeps

(* Steps that draw no id.                                                  *)
LEMMA IdRestKeeps ==
    ASSUME IInv, UNCHANGED <<ctx, waiting, issued, drawn, overtaken>>, now' \in Nat, now <= now',
           layout' = layout \/ NoIds
    PROVE  IdsTyped' /\ Counted'
<1>1. ASSUME NEW i \in Slots PROVE ctx'[i].ts <= now' /\ (Fresh(i) => Fresh(i)')
  <2>1. ctx[i].ts \in Nat /\ ctx[i].ts <= now /\ now \in Nat
    BY DEF IInv, IdsTyped
  <2> QED BY <2>1, FreshStays
<1>2. IdsTyped'
  BY <1>1 DEF IInv, IdsTyped
<1>3. CASE layout' = layout
  <2>1. Counted'
    BY <1>1, <1>3 DEF IInv, Counted
  <2> QED BY <1>2, <2>1
<1>4. CASE NoIds
  <2>1. issued' = {} /\ drawn' = 0 /\ overtaken' = 0
    BY <1>4 DEF NoIds
  <2>2. Cardinality(issued') = 0
    BY <2>1, FS_EmptySet
  <2> QED BY <1>2, <2>1, <2>2 DEF Counted, Fresh
<1> QED BY <1>2, <1>3, <1>4

(* The steps of main up to the first thread.                               *)
LEMMA LoadOnLayout ==
    ASSUME IInv, ParseArgs \/ CppStart \/ CwcStart \/ LuaStart
    PROVE  OnLayout' /\ NoIds /\ NoneOvertaken'
<1>1. /\ pc \in {"args", "load", "config"} /\ UNCHANGED idVars /\ thr' = thr
      /\ binding' \in 1 .. 3 /\ pc' \in {"load", "config", "done", "new"} /\ (pc' = "new" => layout' \in Layouts)
  <2>1. binding \in 1 .. 3
    BY DEF IInv, OnLayout
  <2>2. CASE ParseArgs
    BY <2>1, <2>2 DEF ParseArgs
  <2>3. ASSUME pc \in {"load", "config"}, Rejects
        PROVE  UNCHANGED idVars /\ thr' = thr /\ binding' \in 1 .. 3 /\ pc' \in {"load", "done"}
    BY <2>1, <2>3, NextBindingOK DEF Rejects
  <2>4. ASSUME pc \in {"load", "config"}, Takes
        PROVE  /\ UNCHANGED idVars /\ thr' = thr /\ binding' \in 1 .. 3 /\ layout' \in Layouts
               /\ pc' \in {"load", "done", "new"}
    BY <2>1, <2>4, NextBindingOK DEF Takes
  <2>5. CASE LuaPreload
    BY <2>1, <2>3, <2>5 DEF LuaPreload
  <2>6. CASE CppStart \/ CwcStart \/ LuaConfig
    <3>1. pc \in {"load", "config"} /\ (Rejects \/ Takes)
      BY <2>6 DEF CppStart, CwcStart, LuaConfig
    <3> QED BY <3>1, <2>3, <2>4
  <2> QED BY <2>2, <2>5, <2>6 DEF LuaStart
<1>2. NoIds
  BY <1>1 DEF IInv, OnLayout
<1>3. NoIds'
  BY <1>1, <1>2 DEF NoIds, NotStarted, idVars
<1>4. OnLayout'
  <2>1. \A i \in Slots : thr'[i] = "none"
    BY <1>3 DEF NoIds, NotStarted
  <2>2. DOMAIN thr' = Slots
    BY <1>1 DEF IInv, OnLayout
  <2> QED BY <1>1, <1>3, <2>1, <2>2 DEF OnLayout
<1>5. NoneOvertaken'
  BY <1>3 DEF NoIds, NoneOvertaken
<1> QED BY <1>2, <1>4, <1>5

LEMMA MainOnLayout ==
    ASSUME IInv, NewLoop \/ CreateThread \/ Created \/ Join \/ Free
    PROVE  OnLayout' /\ layout' = layout /\ binding' = binding /\ UNCHANGED idVars
<1>1. layout' = layout /\ binding' = binding /\ UNCHANGED idVars /\ pc' \notin {"args", "load", "config"}
  BY DEF NewLoop, CreateThread, Created, Join, Free
<1>2. pc' \in {"new", "create", "created"} => layout \in Layouts
  BY DEF NewLoop, CreateThread, Created, Join, Free, IInv, OnLayout
<1>3. pc' = "create" => at' \in Ids
  BY DEF NewLoop, CreateThread, Created, Join, Free
<1>4. Ids' = Ids
  BY <1>1 DEF Ids
<1>5. DOMAIN thr' = Slots
  BY DEF NewLoop, CreateThread, Created, Join, Free, IInv, OnLayout
<1>6. ASSUME NEW i \in Slots, thr'[i] # "none" PROVE layout \in Layouts /\ i \in Ids
  <2>1. CASE thr[i] # "none"
    BY <2>1 DEF IInv, OnLayout
  <2>2. CASE thr[i] = "none" /\ CreateThread
    <3>1. i = at /\ at \in Ids /\ layout \in Layouts
      BY <1>6, <2>2 DEF CreateThread, IInv, OnLayout
    <3> QED BY <3>1
  <2>3. CASE thr[i] = "none" /\ Created
    <3>1. i = 0 /\ layout \in Layouts
      BY <1>6, <2>3 DEF Created, IInv, OnLayout
    <3>2. 0 \in Ids
      BY <3>1, CountIs DEF Ids
    <3> QED BY <3>1, <3>2
  <2> QED BY <1>6, <2>1, <2>2, <2>3 DEF NewLoop, Join, Free
<1> QED BY <1>1, <1>2, <1>3, <1>4, <1>5, <1>6 DEF OnLayout, IInv

LEMMA ThreadOnLayout ==
    ASSUME IInv, NEW i \in Slots, Thread(i)
    PROVE  OnLayout' /\ layout' = layout /\ binding' = binding
<1>1. UNCHANGED <<pc, layout, binding, at>> /\ thr[i] # "none"
  <2>1. CASE ThreadInit(i)
    <3>1. thr[i] \in Names
      BY <2>1, StageNames DEF ThreadInit, IInv, OnLayout
    <3> QED BY <2>1, <3>1 DEF ThreadInit, Names
  <2>2. CASE LeaveLoop(i) \/ ThreadExit(i) \/ IdNext(i) \/ IdWake(i)
    BY <2>2 DEF LeaveLoop, ThreadExit, IdNext, IdWake
  <2> QED BY <2>1, <2>2 DEF Thread
<1>2. DOMAIN thr' = Slots /\ \A j \in Slots : thr'[j] # "none" => thr[j] # "none"
  <2>1. DOMAIN thr = Slots
    BY DEF IInv, OnLayout
  <2> QED BY <1>1, <2>1 DEF Thread, ThreadInit, LeaveLoop, ThreadExit, IdNext, IdWake
<1>3. pc \notin {"args", "load", "config"}
  BY <1>1 DEF IInv, OnLayout, NoIds, NotStarted
<1>4. Ids' = Ids
  BY <1>1 DEF Ids
<1> QED BY <1>1, <1>2, <1>3, <1>4 DEF OnLayout, IInv

LEMMA ThreadOvertakes ==
    ASSUME IInv, NEW i \in Slots, IdNext(i) \/ IdWake(i)
    PROVE  NoneOvertaken'
<1>1. binding' = binding /\ Bindings[binding] \in {"cpp", "cwc", "lua"}
  BY DEF IdNext, IdWake, IInv, OnLayout, Bindings
<1>2. waiting \in [Slots -> Nat]
  BY DEF IInv, IdsTyped
<1> SUFFICES ASSUME Bindings[binding] # "cwc"
             PROVE  overtaken' = 0 /\ \A j \in Slots : waiting'[j] <= 1
  BY <1>1 DEF NoneOvertaken
<1>3. overtaken = 0 /\ \A j \in Slots : waiting[j] <= 1
  BY DEF IInv, NoneOvertaken
<1>4. CASE IdNext(i)
  <2>1. waiting[i] = 0
    BY <1>1, <1>2, <1>4 DEF IdNext, Spins
  <2>2. overtaken' = 0
    <3>1. overtaken' = overtaken \/ overtaken' = overtaken + (IF waiting[i] > 0 THEN 1 ELSE 0)
      BY <1>4 DEF IdNext, Issue
    <3> QED BY <1>3, <2>1, <3>1
  <2>3. waiting' = waiting \/ waiting' = [waiting EXCEPT ![i] = waiting[i] + 1]
    BY <1>4 DEF IdNext
  <2> QED BY <1>2, <1>3, <2>1, <2>2, <2>3
<1>5. CASE IdWake(i)
  <2>1. overtaken' = overtaken + (IF waiting[i] > 1 THEN 1 ELSE 0) /\ waiting' = [waiting EXCEPT ![i] = waiting[i] - 1]
    BY <1>5 DEF IdWake
  <2> QED BY <1>2, <1>3, <2>1
<1> QED BY <1>4, <1>5

LEMMA IInvStep == ASSUME IInv, [Next]_vars PROVE IInv'
<1>0. now \in Nat
  BY DEF IInv, IdsTyped
<1>1. CASE ParseArgs \/ CppStart \/ CwcStart \/ LuaStart
  <2>1. UNCHANGED idVars
    BY <1>1 DEF ParseArgs, CppStart, CwcStart, LuaStart, LuaPreload, LuaConfig, Rejects, Takes
  <2>2. OnLayout' /\ NoIds /\ NoneOvertaken'
    BY <1>1, LoadOnLayout
  <2>3. IdsTyped' /\ Counted'
    BY <1>0, <2>1, <2>2, IdRestKeeps DEF idVars
  <2> QED BY <2>2, <2>3 DEF IInv
<1>2. CASE NewLoop \/ CreateThread \/ Created \/ Join \/ Free
  <2>1. OnLayout' /\ layout' = layout /\ binding' = binding /\ UNCHANGED idVars
    BY <1>2, MainOnLayout
  <2>2. IdsTyped' /\ Counted'
    BY <1>0, <2>1, IdRestKeeps DEF idVars
  <2> QED BY <2>1, <2>2 DEF IInv, NoneOvertaken, idVars
<1>3. CASE \E i \in Slots : Thread(i)
  <2>1. PICK i \in Slots : Thread(i)
    BY <1>3
  <2>2. OnLayout' /\ layout' = layout /\ binding' = binding
    BY <2>1, ThreadOnLayout
  <2>3. CASE ThreadInit(i) \/ LeaveLoop(i) \/ ThreadExit(i)
    <3>1. UNCHANGED idVars
      BY <2>3 DEF ThreadInit, LeaveLoop, ThreadExit
    <3>2. IdsTyped' /\ Counted'
      BY <1>0, <2>2, <3>1, IdRestKeeps DEF idVars
    <3> QED BY <2>2, <3>1, <3>2 DEF IInv, NoneOvertaken, idVars
  <2>4. CASE IdNext(i) \/ IdWake(i)
    BY <2>2, <2>4, IdNextStep, IdWakeStep, ThreadOvertakes DEF IInv
  <2> QED BY <2>1, <2>3, <2>4 DEF Thread
<1>4. CASE Tick \/ Finished \/ UNCHANGED vars
  <2>1. /\ UNCHANGED <<pc, binding, layout, at, thr, ctx, waiting, issued, drawn, overtaken>>
        /\ now' \in Nat /\ now <= now'
    BY <1>0, <1>4 DEF Tick, Finished, vars
  <2>2. IdsTyped' /\ Counted'
    BY <2>1, IdRestKeeps
  <2>3. Ids' = Ids
    BY <2>1 DEF Ids
  <2> QED BY <2>1, <2>2, <2>3 DEF IInv, OnLayout, NoIds, NotStarted, NoneOvertaken
<1> QED BY <1>1, <1>2, <1>3, <1>4 DEF Next, Main

LEMMA IInvInit == ASSUME Init PROVE IInv
<1>1. [seq |-> 0, ts |-> 0] \in [seq : 0 .. MaxSeq, ts : Nat]
  BY ProcessAssumption
<1>2. \A i \in Slots : ctx[i].ts = 0 /\ waiting[i] = 0 /\ thr[i] = "none"
  BY DEF Init
<1>3. ctx \in [Slots -> [seq : 0 .. MaxSeq, ts : Nat]] /\ waiting \in [Slots -> Nat] /\ DOMAIN thr = Slots
  BY <1>1 DEF Init
<1>4. now = 1 /\ issued = {} /\ drawn = 0 /\ overtaken = 0 /\ pc = "args" /\ binding = 1
  BY DEF Init
<1>5. IsFiniteSet(issued) /\ Cardinality(issued) = 0
  BY <1>4, FS_EmptySet
<1>6. IdsTyped
  BY <1>2, <1>3, <1>4, <1>5 DEF IdsTyped
<1>7. OnLayout /\ NoneOvertaken
  BY <1>2, <1>3, <1>4 DEF OnLayout, NoIds, NotStarted, NoneOvertaken
<1>8. Counted
  BY <1>4, <1>5 DEF Counted, Fresh
<1> QED BY <1>6, <1>7, <1>8 DEF IInv

(* A thread's context runs ahead of every id the thread has handed out, as  *)
(* long as none of its coroutines sleeps in dpcwc_id_next; and whoever      *)
(* draws in C++ or Lua, nobody draws beside a sleeper.                      *)
THEOREM ContextAhead == Spec => []IInv
<1>1. Init => IInv
  BY IInvInit
<1>2. IInv /\ [Next]_vars => IInv'
  BY IInvStep
<1> QED BY <1>1, <1>2, PTL DEF Spec

(* The ids of a process repeat at most as often as one was drawn while      *)
(* another coroutine of its thread slept in dpcwc_id_next, and never do in  *)
(* C++ or Lua (dpcpp::next_id, dpid_next): for every clock, every sequence  *)
(* length, every list of thread counts whose sum the id field can hold, and *)
(* every number of callers and of ids drawn.                                *)
THEOREM IdsRepeatAsleep == Spec => []RepeatsAsleepOnly
<1>1. IInv => RepeatsAsleepOnly
  BY DEF IInv, Counted, NoneOvertaken, RepeatsAsleepOnly
<1> QED BY <1>1, ContextAhead, PTL

\* What a dpaco_t may hold.
Corou == [st : {"none", "created", "running", "suspend", "dead"}, prev : Co \cup {Mainco, None},
          delater : BOOLEAN, wrap : BOOLEAN, wait : Ele \cup {None}, own : Tmrs \cup {None},
          job : Ele \cup {None}, server : {"no", "accept", "got", "stop"}]
Corous == Co \cup {Mainco}
\* The states of the runtime, as records like Rt.
Runtimes == [co : [Corous -> Corou], cur : Corous, pool : Seq(Co)]

\* What an element may hold.
Elem == [st : {"none", "idle", "doing", "ready"}, cop : Co \cup {Mainco, None},
         fresh : BOOLEAN, fn : BOOLEAN, call : BOOLEAN, refc : Nat]

\* c is the coroutine that runs, or it called dpaco_resume.
Inside(x, c) == c \in Co /\ (c = x.cur \/ (x.co[c].st = "suspend" /\ x.co[c].wait = None))

\* One coroutine runs. Those inside dpaco_resume form one chain: each was
\* resumed by Mainco or by another of them, no two by the same one, and none
\* by the one that runs, so that going back finds the resumer suspended.
Chain(x) ==
  /\ x.co[x.cur].st = "running"
  /\ \A c \in Co : x.co[c].st = "running" => c = x.cur
  /\ \A c \in Co : c = x.cur => x.co[c].wait = None
  /\ \A c \in Co : Inside(x, c) =>
        /\ x.co[c].own = None
        /\ x.co[c].prev # x.cur
        /\ x.co[c].prev = Mainco \/ Inside(x, x.co[c].prev)
  /\ \A c, d \in Co : Inside(x, c) /\ Inside(x, d) /\ x.co[c].prev = x.co[d].prev => c = d

\* A coroutine between two steps: exactly one of dpaco_wrap (at its first
\* yield or return) and dpaco_resume (at its return) will give its block
\* back.
Shaped(r) ==
  /\ r.st # "created"
  /\ r.st = "none" => r = NoCo
  /\ r.st = "dead" => r = [NoCo EXCEPT !.st = "dead"]
  /\ r.st \in {"running", "suspend"} => (r.wrap <=> ~r.delater)
  /\ r.server # "no" => r.job \in Ios

\* The pool has each block once, and only finished ones.
Pooled(x) == /\ \A i, j \in DOMAIN x.pool : x.pool[i] = x.pool[j] => i = j
             /\ \A i \in DOMAIN x.pool : x.co[x.pool[i]].st = "dead"

\* The invariant of the runtime.
Runtime(x) == /\ x \in Runtimes /\ Chain(x) /\ Pooled(x)
              /\ \A c \in Co : Shaped(x.co[c])

-----------------------------------------------------------------------------
\* The operation of an element is under way.
Under(r) == r.st \in {"doing", "ready"}

\* What an element holds. Outside Lua the handle in an element under way is
\* never one left behind; a timer with a callback has the loop's reference
\* and at most its caller's; a call that arrived waits in the queue or is
\* served.
Sound(e, r) ==
  /\ bind # "lua" /\ Under(r) /\ r.cop # None => r.fresh
  /\ r.fn => e \in Tmrs /\ r.refc \in {1, 2} /\ ~r.fresh
  /\ r.call => e \in Ctcs /\ r.cop = None /\ r.st = "ready"
  /\ e \in Ctcs => r.refc = 1
  /\ e \in Ios => r.refc \in {0, 1} /\ (r.st = "idle" => r.refc = 1)

\* The invariant of the elements.
Elements(E) == E \in [Ele -> Elem] /\ \A e \in Ele : Sound(e, E[e])

\* dpevp_pop returns an element once for each time it got ready.
Queued(E, q) == /\ q \in Seq(Ele)
                /\ \A i, j \in DOMAIN q : q[i] = q[j] => i = j
                /\ \A i \in DOMAIN q : E[q[i]].st = "ready"

\* A fresh handle is of a coroutine that waits for just this element.
HandleAt(x, e, r) == r.fresh => /\ Under(r) /\ r.cop \in Co
                                /\ x.co[r.cop].st = "suspend" /\ x.co[r.cop].wait = e

\* What a coroutine was started for is kept for it: a fired timer that nobody
\* has deleted, a listener with its one reference, a call that left the
\* queue.
JobAt(j, E, q) == /\ j \in Tmrs => E[j].st = "idle" /\ E[j].fn
                  /\ j \in Ios => E[j].refc = 1
                  /\ j \in Ctcs => E[j].call /\ \A i \in DOMAIN q : q[i] # j

\* Who sleeps waits for its own timer, and has the only reference to it.
OwnAt(x, c, E) == LET t == x.co[c].own IN
  t # None => /\ x.co[c].st = "suspend" /\ x.co[c].wait = t
              /\ E[t].fresh /\ E[t].cop = c /\ ~E[t].fn /\ E[t].refc = 1

\* Handles, owners and jobs. Only one coroutine is started for an element.
Mixed(x, E, q) ==
  /\ \A e \in Ele : HandleAt(x, e, E[e])
  /\ \A c, d \in Co : x.co[c].job # None /\ x.co[c].job = x.co[d].job => c = d
  /\ \A c \in Co : JobAt(x.co[c].job, E, q) /\ OwnAt(x, c, E)

\* The inductive invariant.
CInv == /\ bind \in Binds /\ calls \in 0 .. MaxCalls
        /\ Runtime(Rt) /\ Elements(ele) /\ Queued(ele, ready) /\ Mixed(Rt, ele, ready)
        /\ WokenByOwn

-----------------------------------------------------------------------------
\* As before, but for the status and, on a server, its state.
Same(r, s) == /\ s.prev = r.prev /\ s.delater = r.delater /\ s.wrap = r.wrap
              /\ s.wait = r.wait /\ s.own = r.own /\ s.job = r.job
              /\ s.server # "no" => r.server # "no"

\* Control goes from the coroutine that runs into c.
Enters(x, y, c) ==
  /\ y \in Runtimes /\ y.cur = c
  /\ y.co[c].st = "running" /\ y.co[c].prev = x.cur /\ y.co[c].wait = None /\ y.co[c].own = None
  /\ y.co[x.cur].st = "suspend" /\ Same(x.co[x.cur], y.co[x.cur])
  /\ \A d \in Corous : d # c /\ d # x.cur => y.co[d] = x.co[d]

\* Control goes from c back to the one that resumed it.
Leaves(x, y, c) ==
  /\ y \in Runtimes /\ y.cur = x.co[c].prev
  /\ y.co[c].st # "running" /\ (y.co[c].st = "suspend" => y.co[c].wait # None)
  /\ y.co[y.cur].st = "running" /\ Same(x.co[y.cur], y.co[y.cur])
  /\ \A d \in Corous : d # c /\ d # y.cur => y.co[d] = x.co[d]

\* Entering a coroutine that is not in the chain puts it at the chain's end.
LEMMA EnterChain ==
  ASSUME NEW x, NEW y, NEW c \in Co, Runtime(x), ~Inside(x, c), Enters(x, y, c)
  PROVE  Chain(y)
<1>1. x \in Runtimes /\ y \in Runtimes /\ Chain(x) /\ c \in Corous /\ c # Mainco /\ x.cur \in Corous
  BY CwcAssumption DEF Runtime, Enters, Corous, Runtimes
<1>2. c # x.cur
  BY DEF Inside
<1>3. \A d \in Co : d \in Corous
  BY DEF Corous
<1>4. \A d \in Co : Inside(y, d) <=> Inside(x, d) \/ d = c
  BY <1>1, <1>2, <1>3 DEF Inside, Enters, Same, Chain
<1>5. y.cur = c /\ y.co[y.cur].st = "running"
  BY DEF Enters
<1>6. \A d \in Co : y.co[d].st = "running" => d = y.cur
  BY <1>1, <1>2, <1>3 DEF Enters, Chain
<1>7. \A d \in Co : d # c => y.co[d].prev = x.co[d].prev /\ y.co[d].own = x.co[d].own
  BY <1>3 DEF Enters, Same
<1>8. y.co[c].prev = x.cur /\ y.co[c].own = None /\ y.co[c].wait = None
  BY DEF Enters
<1>9. \A d \in Co : Inside(x, d) => /\ x.co[d].own = None /\ x.co[d].prev # x.cur
                                    /\ x.co[d].prev = Mainco \/ Inside(x, x.co[d].prev)
  BY <1>1 DEF Chain
<1>10. x.cur = Mainco \/ Inside(x, x.cur)
  BY <1>1 DEF Corous, Inside
<1>11. \A d \in Co : Inside(x, d) => x.co[d].prev # c
  BY <1>1, <1>9
<1>12. \A d : Inside(x, d) => d \in Co /\ d # c
  BY DEF Inside
<1>13. \A d \in Co : Inside(y, d) => /\ y.co[d].own = None /\ y.co[d].prev # y.cur
                                     /\ y.co[d].prev = Mainco \/ Inside(y, y.co[d].prev)
  BY <1>2, <1>4, <1>5, <1>7, <1>8, <1>9, <1>10, <1>11, <1>12
<1>14. \A d, f \in Co : Inside(y, d) /\ Inside(y, f) /\ y.co[d].prev = y.co[f].prev => d = f
  BY <1>1, <1>4, <1>7, <1>8, <1>9, <1>12 DEF Chain
<1> QED BY <1>5, <1>6, <1>8, <1>13, <1>14 DEF Chain

\* Going back takes the last coroutine off the chain.
LEMMA LeaveChain ==
  ASSUME NEW x, NEW y, NEW c \in Co, Runtime(x), c = x.cur, Leaves(x, y, c)
  PROVE  Chain(y)
<1>1. x \in Runtimes /\ y \in Runtimes /\ Chain(x) /\ c \in Corous /\ c # Mainco /\ y.cur \in Corous
  BY CwcAssumption DEF Runtime, Leaves, Corous, Runtimes
<1>2. Inside(x, c) /\ y.cur = x.co[c].prev /\ y.cur # c
  BY <1>1 DEF Inside, Leaves, Chain
<1>3. y.cur = Mainco \/ Inside(x, y.cur)
  BY <1>1, <1>2 DEF Chain
<1>4. \A d \in Co : d \in Corous
  BY DEF Corous
<1>5. \A d \in Co : Inside(x, d) /\ d # c => x.co[d].st = "suspend" /\ x.co[d].wait = None
  BY DEF Inside
<1>6. \A d \in Co : d # c => y.co[d].prev = x.co[d].prev /\ y.co[d].own = x.co[d].own /\ y.co[d].wait = x.co[d].wait
  BY <1>4 DEF Leaves, Same
<1>7. \A d \in Co : Inside(y, d) <=> Inside(x, d) /\ d # c
  <2> SUFFICES ASSUME NEW d \in Co PROVE Inside(y, d) <=> Inside(x, d) /\ d # c
    OBVIOUS
  <2>1. CASE d = c
    BY <2>1, <1>2 DEF Inside, Leaves
  <2>2. CASE d = y.cur
    BY <2>2, <1>1, <1>2, <1>3, CwcAssumption DEF Inside
  <2>3. CASE d # c /\ d # y.cur
    BY <2>3, <1>4 DEF Inside, Leaves
  <2> QED BY <2>1, <2>2, <2>3
<1>8. y.co[y.cur].st = "running"
  BY DEF Leaves
<1>9. \A d \in Co : y.co[d].st = "running" => d = y.cur
  BY <1>1, <1>4 DEF Leaves, Chain
<1>10. \A d \in Co : d = y.cur => y.co[d].wait = None
  BY <1>1, <1>2, <1>3, <1>5, <1>6, CwcAssumption
<1>11. \A d \in Co : Inside(x, d) => /\ x.co[d].own = None /\ x.co[d].prev # c
                                     /\ x.co[d].prev = Mainco \/ Inside(x, x.co[d].prev)
  BY <1>1 DEF Chain
<1>12. \A d \in Co : Inside(x, d) /\ d # c => x.co[d].prev # y.cur
  BY <1>1, <1>2 DEF Chain
<1>13. \A d : Inside(x, d) => d \in Co
  BY DEF Inside
<1>14. \A d \in Co : Inside(y, d) => /\ y.co[d].own = None /\ y.co[d].prev # y.cur
                                     /\ y.co[d].prev = Mainco \/ Inside(y, y.co[d].prev)
  BY <1>6, <1>7, <1>11, <1>12, <1>13
<1>15. \A d, f \in Co : Inside(y, d) /\ Inside(y, f) /\ y.co[d].prev = y.co[f].prev => d = f
  BY <1>1, <1>6, <1>7 DEF Chain
<1> QED BY <1>8, <1>9, <1>10, <1>14, <1>15 DEF Chain

\* Entering keeps every coroutine well formed.
LEMMA EnterShapes ==
  ASSUME NEW x, NEW y, NEW c \in Co, Runtime(x), ~Inside(x, c), Enters(x, y, c), Shaped(y.co[c])
  PROVE  \A d \in Co : Shaped(y.co[d])
<1> SUFFICES ASSUME NEW d \in Co PROVE Shaped(y.co[d])
  OBVIOUS
<1>1. Shaped(x.co[d]) /\ d \in Corous /\ x.co[x.cur].st = "running"
  BY DEF Runtime, Corous, Chain
<1>2. CASE d = c
  BY <1>2
<1>3. CASE d # c /\ d # x.cur
  BY <1>1, <1>3 DEF Enters
<1>4. CASE d # c /\ d = x.cur
  <2>1. y.co[d].st = "suspend" /\ Same(x.co[d], y.co[d])
    BY <1>4 DEF Enters
  <2> QED BY <2>1, <1>1, <1>4 DEF Shaped, Same
<1> QED BY <1>2, <1>3, <1>4

\* Going back keeps every coroutine well formed.
LEMMA LeaveShapes ==
  ASSUME NEW x, NEW y, NEW c \in Co, Runtime(x), c = x.cur, Leaves(x, y, c), Shaped(y.co[c])
  PROVE  \A d \in Co : Shaped(y.co[d])
<1> SUFFICES ASSUME NEW d \in Co PROVE Shaped(y.co[d])
  OBVIOUS
<1>1. Shaped(x.co[d]) /\ d \in Corous
  BY DEF Runtime, Corous
<1>2. CASE d = c
  BY <1>2
<1>3. CASE d # c /\ d # y.cur
  BY <1>1, <1>3 DEF Leaves
<1>4. CASE d # c /\ d = y.cur
  <2>1. y.co[d].st = "running" /\ Same(x.co[d], y.co[d])
    BY <1>4 DEF Leaves
  <2>2. Inside(x, c) /\ Chain(x)
    BY DEF Inside, Runtime
  <2>3. d = Mainco \/ Inside(x, d)
    BY <1>4, <2>2 DEF Chain, Leaves
  <2>4. x.co[d].st = "suspend"
    BY <2>3, <1>4, CwcAssumption DEF Inside
  <2> QED BY <2>1, <2>4, <1>1, <1>4 DEF Shaped, Same
<1> QED BY <1>2, <1>3, <1>4

\* d waits for an element.
Awaiting(x, d) == x.co[d].st = "suspend" /\ x.co[d].wait # None

\* Whoever waits for an element goes on waiting, but for c; elements and jobs
\* of the others are as before.
Moves(x, y, c) == \A d \in Co : d # c =>
  /\ y.co[d].own = x.co[d].own /\ y.co[d].job = x.co[d].job
  /\ Awaiting(x, d) => y.co[d].st = "suspend" /\ y.co[d].wait = x.co[d].wait

\* Entering c disturbs nobody else that waits.
LEMMA EnterMoves ==
  ASSUME NEW x, NEW y, NEW c \in Co, Runtime(x), ~Inside(x, c), Enters(x, y, c)
  PROVE  Moves(x, y, c)
<1>1. x.co[x.cur].st = "running" /\ \A d \in Co : d \in Corous
  BY DEF Runtime, Chain, Corous
<1> QED BY <1>1 DEF Moves, Enters, Same, Awaiting

\* Going back from c disturbs nobody else that waits.
LEMMA LeaveMoves ==
  ASSUME NEW x, NEW y, NEW c \in Co, Runtime(x), c = x.cur, Leaves(x, y, c)
  PROVE  Moves(x, y, c)
<1>1. \A d \in Co : d \in Corous
  BY DEF Corous
<1>2. y.cur = Mainco \/ Inside(x, y.cur)
  <2>1. y.cur = x.co[c].prev /\ Inside(x, c)
    BY DEF Leaves, Inside
  <2> QED BY <2>1 DEF Runtime, Chain
<1>3. y.cur \in Co /\ y.cur # c => ~Awaiting(x, y.cur)
  BY <1>2, CwcAssumption DEF Inside, Awaiting
<1> SUFFICES ASSUME NEW d \in Co, d # c
             PROVE  /\ y.co[d].own = x.co[d].own /\ y.co[d].job = x.co[d].job
                    /\ Awaiting(x, d) => y.co[d].st = "suspend" /\ y.co[d].wait = x.co[d].wait
  BY DEF Moves
<1>4. CASE d = y.cur
  BY <1>3, <1>4 DEF Leaves, Same
<1>5. CASE d # y.cur
  <2>1. y.co[d] = x.co[d]
    BY <1>1, <1>5 DEF Leaves
  <2> QED BY <2>1 DEF Awaiting
<1> QED BY <1>4, <1>5

-----------------------------------------------------------------------------
(* Resuming *)

\* What dpaco_resume does to the runtime.
Resumes(x, y, c) ==
  /\ y \in Runtimes /\ y.cur = c /\ y.pool = x.pool
  /\ y.co[c] = [x.co[c] EXCEPT !.prev = x.cur, !.st = "running", !.wait = None, !.own = None]
  /\ y.co[x.cur] = [x.co[x.cur] EXCEPT !.st = "suspend"]
  /\ \A d \in Corous : d # c /\ d # x.cur => y.co[d] = x.co[d]

\* Resume does what Resumes says.
LEMMA ResumeEffect ==
  ASSUME NEW x \in Runtimes, NEW c \in Co, c # x.cur, x.co[c].st \in {"created", "suspend"}
  PROVE  Resumes(x, Resume(x, c), c)
<1>1. x.co \in [Corous -> Corou] /\ x.cur \in Corous /\ c \in Corous /\ x.co[c] \in Corou /\ x.co[x.cur] \in Corou
  BY DEF Runtimes, Corous
<1> DEFINE p == [x.co[c] EXCEPT !.prev = x.cur, !.st = "running", !.wait = None, !.own = None]
           q == [x.co[x.cur] EXCEPT !.st = "suspend"]
           f == [[x.co EXCEPT ![c] = p] EXCEPT ![x.cur] = q]
           z == [co |-> f, cur |-> c, pool |-> x.pool]
<1>2. p \in Corou /\ q \in Corou
  <2>1. x.cur \in Co \cup {Mainco, None}
    BY <1>1 DEF Corous
  <2>2. p \in Corou
    BY <2>1, <1>1 DEF Corou
  <2>3. q \in Corou
    BY <1>1 DEF Corou
  <2> QED BY <2>2, <2>3
<1>3. Resume(x, c) = z
  BY <1>1 DEF Resume, Runtimes
<1> HIDE DEF p, q
<1>4. f \in [Corous -> Corou] /\ f[c] = p /\ f[x.cur] = q /\ \A d \in Corous : d # c /\ d # x.cur => f[d] = x.co[d]
  BY <1>1, <1>2
<1> HIDE DEF f
<1>5. z \in Runtimes /\ z.cur = c /\ z.pool = x.pool /\ z.co = f
  BY <1>1, <1>4 DEF Runtimes
<1> HIDE DEF z
<1> QED BY <1>3, <1>4, <1>5 DEF Resumes, p, q

\* A coroutine that waits for an element may be resumed.
LEMMA ResumeKeeps ==
  ASSUME NEW x, NEW c \in Co, Runtime(x), x.co[c].st = "suspend", x.co[c].wait # None
  PROVE  LET y == Resume(x, c) IN
         /\ Runtime(y) /\ Moves(x, y, c)
         /\ y.co[c].own = None /\ y.co[c].job = x.co[c].job
<1> DEFINE y == Resume(x, c)
<1>1. x \in Runtimes /\ x.co[x.cur].st = "running" /\ x.co[c] \in Corou /\ x.co[x.cur] \in Corou /\ Shaped(x.co[c])
  BY DEF Runtime, Chain, Runtimes, Corous
<1>2. c # x.cur /\ ~Inside(x, c)
  BY <1>1 DEF Inside
<1>3. Resumes(x, y, c)
  BY <1>1, <1>2, ResumeEffect
<1> HIDE DEF y
<1>4. Enters(x, y, c)
  BY <1>1, <1>3 DEF Resumes, Enters, Same, Corou
<1>5. Shaped(y.co[c]) /\ y.co[c].own = None /\ y.co[c].job = x.co[c].job
  BY <1>1, <1>3 DEF Resumes, Shaped, Corou
<1>6. Pooled(y)
  <2>1. Pooled(x) /\ y.pool = x.pool /\ x.pool \in Seq(Co)
    BY <1>1, <1>3 DEF Runtime, Resumes, Runtimes
  <2>2. \A i \in DOMAIN x.pool : x.pool[i] \in Corous /\ x.pool[i] # c /\ x.pool[i] # x.cur
    BY <1>1, <2>1 DEF Pooled, Corous
  <2> QED BY <2>1, <2>2, <1>3 DEF Pooled, Resumes
<1>7. Runtime(y)
  BY <1>2, <1>3, <1>4, <1>5, <1>6, EnterChain, EnterShapes DEF Runtime, Resumes
<1>8. Moves(x, y, c)
  BY <1>2, <1>4, EnterMoves
<1> QED BY <1>5, <1>7, <1>8 DEF y

-----------------------------------------------------------------------------
(* Starting a coroutine *)

\* What dpaco_wrap does to the runtime.
Starts(x, y, c, j, s) ==
  /\ y \in Runtimes /\ y.cur = c
  /\ y.pool = IF x.pool # <<>> THEN Tail(x.pool) ELSE x.pool
  /\ y.co[c].st = "running" /\ y.co[c].prev = x.cur /\ y.co[c].wait = None /\ y.co[c].own = None
  /\ y.co[c].wrap = TRUE /\ y.co[c].delater = FALSE /\ y.co[c].job = j /\ y.co[c].server = s
  /\ y.co[x.cur] = [x.co[x.cur] EXCEPT !.st = "suspend"]
  /\ \A d \in Corous : d # c /\ d # x.cur => y.co[d] = x.co[d]

\* Block c is b, and the pool is r.
Patched(x, z, c, b, r) ==
  /\ z \in Runtimes /\ z.cur = x.cur /\ z.pool = r /\ z.co[c] = b
  /\ \A d \in Corous : d # c => z.co[d] = x.co[d]

\* The effect of setting a block and the pool.
LEMMA Patch ==
  ASSUME NEW x \in Runtimes, NEW c \in Corous, NEW b \in Corou, NEW r \in Seq(Co)
  PROVE  Patched(x, [x EXCEPT !.co[c] = b, !.pool = r], c, b, r)
<1> DEFINE z == [x EXCEPT !.co[c] = b, !.pool = r]
<1> DEFINE f == [x.co EXCEPT ![c] = b]
<1>1. z.co = f /\ z.cur = x.cur /\ z.pool = r
  BY DEF Runtimes
<1>2. f \in [Corous -> Corou] /\ f[c] = b /\ \A d \in Corous : d # c => f[d] = x.co[d]
  BY DEF Runtimes
<1>3. z \in Runtimes
  BY <1>2 DEF Runtimes
<1> HIDE DEF z
<1>4. Patched(x, z, c, b, r)
  BY <1>1, <1>2, <1>3 DEF Patched
<1> QED BY <1>4 DEF z

\* Wrap does what Starts says.
LEMMA WrapEffect ==
  ASSUME NEW x \in Runtimes, NEW c \in Co, c # x.cur, NEW j \in Ele \cup {None},
         NEW s \in {"no", "accept"}
  PROVE  Starts(x, Wrap(x, c, j, s), c, j, s)
<1>1. x.cur \in Corous /\ c \in Corous /\ x.pool \in Seq(Co)
  BY DEF Runtimes, Corous
<1> DEFINE b == [NoCo EXCEPT !.st = "created", !.wrap = TRUE, !.job = j, !.server = s]
           r == IF x.pool # <<>> THEN Tail(x.pool) ELSE x.pool
           z == [x EXCEPT !.co[c] = b, !.pool = r]
           y == Wrap(x, c, j, s)
<1>2. b \in Corou
  BY DEF Corou, NoCo
<1>3. b.st = "created" /\ b.wrap = TRUE /\ b.delater = FALSE /\ b.job = j /\ b.server = s
  BY DEF NoCo
<1>4. r \in Seq(Co)
  BY <1>1
<1>5. y = Resume(z, c)
  BY DEF Wrap
<1> HIDE DEF b, r, y
<1>11. Patched(x, z, c, b, r)
  BY <1>1, <1>2, <1>4, Patch
<1> HIDE DEF z
<1>6. /\ z \in Runtimes /\ z.cur = x.cur /\ z.pool = r /\ z.co[c] = b
      /\ \A d \in Corous : d # c => z.co[d] = x.co[d]
  BY <1>11 DEF Patched
<1>7. Resumes(z, y, c)
  BY <1>3, <1>5, <1>6, ResumeEffect
<1>8. y \in Runtimes /\ y.cur = c /\ y.pool = r
     /\ y.co[x.cur] = [x.co[x.cur] EXCEPT !.st = "suspend"]
     /\ \A d \in Corous : d # c /\ d # x.cur => y.co[d] = x.co[d]
  BY <1>1, <1>6, <1>7 DEF Resumes
<1>9. y.co[c] = [b EXCEPT !.prev = x.cur, !.st = "running", !.wait = None, !.own = None]
  BY <1>6, <1>7 DEF Resumes
<1>10. /\ y.co[c].st = "running" /\ y.co[c].prev = x.cur /\ y.co[c].wait = None /\ y.co[c].own = None
       /\ y.co[c].wrap = TRUE /\ y.co[c].delater = FALSE /\ y.co[c].job = j /\ y.co[c].server = s
  BY <1>2, <1>3, <1>9 DEF Corou
<1> QED BY <1>8, <1>10 DEF r, y, Starts

\* A new coroutine takes a block of the pool, or one that nobody has.
LEMMA WrapKeeps ==
  ASSUME NEW x, Runtime(x), NEW c \in Blocks(x), NEW j \in Ele \cup {None}, NEW s \in {"no", "accept"},
         s # "no" => j \in Ios
  PROVE  LET y == Wrap(x, c, j, s) IN
         /\ c \in Co /\ x.co[c].st \in {"none", "dead"}
         /\ Runtime(y) /\ Moves(x, y, c) /\ y.co[c].own = None /\ y.co[c].job = j
<1> DEFINE y == Wrap(x, c, j, s)
<1>1. x \in Runtimes /\ x.co[x.cur].st = "running" /\ x.cur \in Corous /\ x.co[x.cur] \in Corou /\ x.pool \in Seq(Co)
  BY DEF Runtime, Chain, Runtimes
<1>2. c \in Co /\ (x.pool # <<>> => c = x.pool[1]) /\ (x.pool = <<>> => x.co[c].st = "none")
  BY <1>1 DEF Blocks
<1>3. x.co[c].st \in {"none", "dead"}
  BY <1>1, <1>2 DEF Runtime, Pooled
<1>4. c # x.cur /\ ~Inside(x, c)
  BY <1>1, <1>3 DEF Inside
<1> HIDE DEF y
<1>14. Starts(x, y, c, j, s)
  BY <1>1, <1>2, <1>4, WrapEffect DEF y
<1>5. /\ y \in Runtimes /\ y.cur = c
      /\ y.pool = IF x.pool # <<>> THEN Tail(x.pool) ELSE x.pool
      /\ y.co[x.cur] = [x.co[x.cur] EXCEPT !.st = "suspend"]
      /\ \A d \in Corous : d # c /\ d # x.cur => y.co[d] = x.co[d]
  BY <1>14 DEF Starts
<1>13. y \in Runtimes
  BY <1>5
<1>6. /\ y.co[c].st = "running" /\ y.co[c].prev = x.cur /\ y.co[c].wait = None /\ y.co[c].own = None
      /\ y.co[c].job = j /\ y.co[c].server = s /\ y.co[c].wrap = TRUE /\ y.co[c].delater = FALSE
  BY <1>14 DEF Starts
<1>7. y.co[x.cur].st = "suspend" /\ Same(x.co[x.cur], y.co[x.cur])
  BY <1>1, <1>5 DEF Same, Corou
<1>8. Enters(x, y, c)
  BY <1>5, <1>6, <1>7 DEF Enters
<1>9. Shaped(y.co[c])
  BY <1>6 DEF Shaped
<1>10. Pooled(y)
  <2>1. Pooled(x)
    BY DEF Runtime
  <2>2. CASE x.pool = <<>>
    BY <1>5, <2>2 DEF Pooled
  <2>3. CASE x.pool # <<>>
    <3>1. y.pool = Tail(x.pool) /\ c = x.pool[1]
      BY <1>2, <1>5, <2>3
    <3>2. \A i \in DOMAIN y.pool : i + 1 \in DOMAIN x.pool /\ y.pool[i] = x.pool[i + 1] /\ i \in Nat /\ i # 0
      BY <1>1, <3>1, <2>3
    <3>3. 1 \in DOMAIN x.pool
      BY <1>1, <2>3
    <3>4. \A i \in DOMAIN y.pool : y.pool[i] # c /\ y.pool[i] \in Corous /\ x.co[y.pool[i]].st = "dead"
      <4> SUFFICES ASSUME NEW i \in DOMAIN y.pool PROVE y.pool[i] # c /\ y.pool[i] \in Corous /\ x.co[y.pool[i]].st = "dead"
        OBVIOUS
      <4>1. i + 1 \in DOMAIN x.pool /\ y.pool[i] = x.pool[i + 1] /\ i \in Nat /\ i # 0
        BY <3>2
      <4>2. i + 1 # 1
        BY <4>1
      <4>3. x.pool[i + 1] \in Co
        BY <1>1, <4>1
      <4> QED BY <4>1, <4>2, <4>3, <3>1, <3>3, <2>1 DEF Pooled, Corous
    <3>5. \A i, k \in DOMAIN y.pool : y.pool[i] = y.pool[k] => i = k
      <4> SUFFICES ASSUME NEW i \in DOMAIN y.pool, NEW k \in DOMAIN y.pool, y.pool[i] = y.pool[k] PROVE i = k
        OBVIOUS
      <4>1. i + 1 = k + 1
        BY <3>2, <2>1 DEF Pooled
      <4> QED BY <4>1, <3>2
    <3> QED BY <3>4, <3>5, <1>5, <1>1 DEF Pooled
  <2> QED BY <2>2, <2>3
<1>11. Runtime(y)
  BY <1>2, <1>4, <1>13, <1>8, <1>9, <1>10, EnterChain, EnterShapes DEF Runtime
<1>12. Moves(x, y, c)
  BY <1>2, <1>4, <1>8, EnterMoves
<1> QED BY <1>2, <1>3, <1>6, <1>11, <1>12 DEF y

-----------------------------------------------------------------------------
(* Going back *)

\* The first half of SwitchBack: nothing is freed yet.
BackTo(x, c, s) == LET p == x.co[c].prev IN
  [x EXCEPT !.co[c].st = s, !.co[c].wrap = FALSE, !.co[p].st = "running", !.cur = p]

\* The effect of BackTo.
Back(x, y, c, s) == LET p == x.co[c].prev IN
  /\ y \in Runtimes /\ y.cur = p /\ y.pool = x.pool
  /\ y.co[c] = [x.co[c] EXCEPT !.st = s, !.wrap = FALSE]
  /\ y.co[p] = [x.co[p] EXCEPT !.st = "running"]
  /\ \A d \in Corous : d # c /\ d # p => y.co[d] = x.co[d]

\* The same but for the coroutine c, which is r.
Put(x, y, c, r) == /\ y \in Runtimes /\ y.cur = x.cur /\ y.co[c] = r
                   /\ \A d \in Corous : d # c => y.co[d] = x.co[d]

\* The effect of setting a block.
LEMMA PutEffect ==
  ASSUME NEW x \in Runtimes, NEW c \in Corous, NEW r \in Corou
  PROVE  Put(x, [x EXCEPT !.co[c] = r], c, r) /\ [x EXCEPT !.co[c] = r].pool = x.pool
<1> DEFINE f == [x.co EXCEPT ![c] = r]
           y == [x EXCEPT !.co[c] = r]
<1>1. x.co \in [Corous -> Corou]
  BY DEF Runtimes
<1>2. y.co = f /\ y.cur = x.cur /\ y.pool = x.pool /\ y = [co |-> f, cur |-> x.cur, pool |-> x.pool]
  BY DEF Runtimes
<1>3. f \in [Corous -> Corou] /\ f[c] = r /\ \A d \in Corous : d # c => f[d] = x.co[d]
  BY <1>1
<1> HIDE DEF f, y
<1>4. y \in Runtimes
  BY <1>2, <1>3 DEF Runtimes
<1>5. Put(x, y, c, r) /\ y.pool = x.pool
  BY <1>2, <1>3, <1>4 DEF Put
<1> QED BY <1>5 DEF y

\* BackTo does what Back says.
LEMMA BackEffect ==
  ASSUME NEW x \in Runtimes, NEW c \in Co, x.co[c].prev \in Corous, x.co[c].prev # c,
         NEW s \in {"suspend", "dead"}
  PROVE  Back(x, BackTo(x, c, s), c, s)
<1> DEFINE p == x.co[c].prev
           h == [x.co[c] EXCEPT !.st = s]
           a == [h EXCEPT !.wrap = FALSE]
           b == [x.co[p] EXCEPT !.st = "running"]
           u == [x EXCEPT !.co[c] = h]
           v == [u EXCEPT !.co[c] = [u.co[c] EXCEPT !.wrap = FALSE]]
           w == [v EXCEPT !.co[p] = [v.co[p] EXCEPT !.st = "running"]]
           y == BackTo(x, c, s)
<1>1. c \in Corous /\ x.co[c] \in Corou /\ p \in Corous /\ p # c /\ x.co[p] \in Corou
  BY DEF Runtimes, Corous
<1>2. h \in Corou
  BY <1>1 DEF Corou
<1>3. a \in Corou
  BY <1>2 DEF Corou
<1>4. b \in Corou
  BY <1>1 DEF Corou
<1>5. y = [w EXCEPT !.cur = p]
  BY DEF BackTo
<1>6. a = [x.co[c] EXCEPT !.st = s, !.wrap = FALSE]
  OBVIOUS
<1> HIDE DEF y, h
<1>7. Put(x, u, c, h) /\ u.pool = x.pool
  BY <1>1, <1>2, PutEffect
<1> HIDE DEF u, a
<1>8. u \in Runtimes /\ u.cur = x.cur /\ u.co[c] = h /\ \A d \in Corous : d # c => u.co[d] = x.co[d]
  BY <1>7 DEF Put
<1>9. [u.co[c] EXCEPT !.wrap = FALSE] = a
  BY <1>8 DEF a
<1>10. Put(u, v, c, a) /\ v.pool = u.pool
  BY <1>1, <1>3, <1>8, <1>9, PutEffect
<1> HIDE DEF v, b
<1>11. v \in Runtimes /\ v.cur = u.cur /\ v.co[c] = a /\ \A d \in Corous : d # c => v.co[d] = u.co[d]
  BY <1>10 DEF Put
<1>12. [v.co[p] EXCEPT !.st = "running"] = b
  BY <1>1, <1>8, <1>11 DEF b
<1>13. Put(v, w, p, b) /\ w.pool = v.pool
  BY <1>1, <1>4, <1>11, <1>12, PutEffect
<1> HIDE DEF w
<1>14. w \in Runtimes /\ w.cur = v.cur /\ w.co[p] = b /\ \A d \in Corous : d # p => w.co[d] = v.co[d]
  BY <1>13 DEF Put
<1>15. y \in Runtimes /\ y.cur = p /\ y.pool = w.pool /\ y.co = w.co
  BY <1>1, <1>5, <1>14 DEF Runtimes
<1>16. y.co[c] = a /\ y.co[p] = b /\ y.pool = x.pool
  BY <1>1, <1>7, <1>10, <1>11, <1>13, <1>14, <1>15
<1>17. \A d \in Corous : d # c /\ d # p => y.co[d] = x.co[d]
  BY <1>8, <1>11, <1>14, <1>15
<1>18. Back(x, y, c, s)
  BY <1>6, <1>15, <1>16, <1>17 DEF Back, b
<1> QED BY <1>18 DEF y

\* Reclaim puts a block into the pool or frees it.
LEMMA ReclaimEffect ==
  ASSUME NEW x \in Runtimes, NEW c \in Co
  PROVE  LET y == Reclaim(x, c) IN
         \/ Put(x, y, c, [NoCo EXCEPT !.st = "dead"]) /\ y.pool = <<c>> \o x.pool
         \/ Put(x, y, c, NoCo) /\ y.pool = x.pool
<1> DEFINE dead == [NoCo EXCEPT !.st = "dead"]
           y == Reclaim(x, c)
<1>1. x.co \in [Corous -> Corou] /\ x.cur \in Corous /\ c \in Corous /\ x.pool \in Seq(Co)
  BY DEF Runtimes, Corous
<1>2. NoCo \in Corou /\ dead \in Corou
  BY DEF NoCo, Corou
<1>3. CASE bind = "cwc" /\ Len(x.pool) < PoolMax
  <2> DEFINE q == <<c>> \o x.pool
  <2>1. y = [x EXCEPT !.co[c] = dead, !.pool = q]
    BY <1>3 DEF Reclaim
  <2>2. q \in Seq(Co) /\ q = <<c>> \o x.pool
    BY <1>1
  <2> HIDE DEF dead, y, q
  <2>3. Patched(x, y, c, dead, q)
    BY <1>1, <1>2, <2>1, <2>2, Patch
  <2>4. Put(x, y, c, dead) /\ y.pool = q
    BY <2>3 DEF Patched, Put
  <2> QED BY <2>2, <2>4 DEF dead, y
<1>4. CASE ~(bind = "cwc" /\ Len(x.pool) < PoolMax)
  <2> DEFINE f == [x.co EXCEPT ![c] = NoCo]
  <2>1. y.co = f /\ y.cur = x.cur /\ y.pool = x.pool /\ y = [co |-> f, cur |-> x.cur, pool |-> x.pool]
    BY <1>1, <1>4 DEF Reclaim, Runtimes
  <2>2. f \in [Corous -> Corou] /\ f[c] = NoCo /\ \A d \in Corous : d # c => f[d] = x.co[d]
    BY <1>1, <1>2
  <2> HIDE DEF f, y
  <2>3. y \in Runtimes
    BY <1>1, <2>1, <2>2 DEF Runtimes
  <2>4. Put(x, y, c, NoCo) /\ y.pool = x.pool
    BY <2>1, <2>2, <2>3 DEF Put
  <2> QED BY <2>4 DEF y
<1> QED BY <1>3, <1>4

\* A coroutine that was resumed, whose block one of two has to give back.
Live(x, c) == /\ x \in Runtimes /\ x.co[c].prev \in Corous /\ x.co[c].prev # c
              /\ x.co[c].wrap <=> ~x.co[c].delater

\* What yielding does: the coroutine is marked for dpaco_resume to free.
Yields(x, y, c, p) ==
  /\ y \in Runtimes /\ y.cur = p /\ y.pool = x.pool
  /\ y.co[c] = [x.co[c] EXCEPT !.st = "suspend", !.wrap = FALSE, !.delater = TRUE]
  /\ y.co[p] = [x.co[p] EXCEPT !.st = "running"]
  /\ \A d \in Corous : d # c /\ d # p => y.co[d] = x.co[d]

\* A coroutine that dpaco_wrap started is marked when it first yields.
LEMMA YieldEffect ==
  ASSUME NEW x, NEW c \in Co, Live(x, c)
  PROVE  Yields(x, SwitchBack(x, c, "suspend"), c, x.co[c].prev)
<1> DEFINE z == BackTo(x, c, "suspend")
           y == SwitchBack(x, c, "suspend")
           p == x.co[c].prev
           r == [x.co[c] EXCEPT !.st = "suspend", !.wrap = FALSE, !.delater = TRUE]
<1>1. x \in Runtimes /\ c \in Corous /\ x.co[c] \in Corou /\ p \in Corous /\ p # c
  BY DEF Live, Runtimes, Corous
<1>2. Back(x, z, c, "suspend")
  BY <1>1, BackEffect DEF Live
<1>3. y = IF x.co[c].wrap THEN Delater(z, c) ELSE z
  BY DEF SwitchBack, BackTo
<1> HIDE DEF z, y
<1>4. /\ z \in Runtimes /\ z.cur = p /\ z.pool = x.pool
      /\ z.co[p] = [x.co[p] EXCEPT !.st = "running"]
      /\ \A d \in Corous : d # c /\ d # p => z.co[d] = x.co[d]
  BY <1>2 DEF Back
<1>5. z.co[c] = [x.co[c] EXCEPT !.st = "suspend", !.wrap = FALSE]
  BY <1>2 DEF Back
<1>6. CASE x.co[c].wrap
  <2> DEFINE f == [z.co EXCEPT ![c].delater = TRUE]
  <2>1. z.co[c].st = "suspend"
    BY <1>1, <1>5 DEF Corou
  <2>2. y = [z EXCEPT !.co[c].delater = TRUE]
    BY <1>3, <1>6, <2>1 DEF Delater
  <2>3. y.co = f /\ y.cur = z.cur /\ y.pool = z.pool /\ y = [co |-> f, cur |-> z.cur, pool |-> z.pool]
    BY <1>4, <2>2 DEF Runtimes
  <2>4. z.co \in [Corous -> Corou] /\ z.co[c] \in Corou
    BY <1>1, <1>4 DEF Runtimes
  <2>5. [z.co[c] EXCEPT !.delater = TRUE] = r /\ r \in Corou
    BY <1>1, <1>5 DEF Corou
  <2>6. f \in [Corous -> Corou] /\ f[c] = [z.co[c] EXCEPT !.delater = TRUE] /\ \A d \in Corous : d # c => f[d] = z.co[d]
    BY <1>1, <2>4, <2>5
  <2> HIDE DEF f, r
  <2>7. y \in Runtimes
    BY <1>4, <2>3, <2>6 DEF Runtimes
  <2>8. y.co[c] = r
    BY <2>3, <2>5, <2>6
  <2> QED BY <1>1, <1>4, <2>3, <2>6, <2>7, <2>8 DEF y, r, Yields
<1>7. CASE ~x.co[c].wrap
  <2>1. x.co[c].delater = TRUE
    BY <1>1, <1>7 DEF Live, Corou
  <2>2. z.co[c] = r
    BY <1>1, <1>5, <2>1 DEF Corou
  <2> QED BY <1>3, <1>4, <1>7, <2>2 DEF y, Yields
<1> QED BY <1>6, <1>7

\* What the invariant says of the coroutine that runs.
LEMMA RunningLive ==
  ASSUME NEW x, NEW c \in Co, Runtime(x), c = x.cur
  PROVE  /\ Live(x, c) /\ x.co[c] \in Corou /\ x.co[c].st = "running" /\ Shaped(x.co[c])
         /\ x.co[c].prev # c /\ x.co[c].prev \in Corous /\ x.co[x.co[c].prev] \in Corou
         /\ x.co[c].own = None /\ x.co[c].wait = None
<1>1. x \in Runtimes /\ c \in Corous /\ Chain(x) /\ Shaped(x.co[c])
  BY DEF Runtime, Corous
<1>2. Inside(x, c) /\ x.co[c] \in Corou /\ x.co[c].st = "running"
  BY <1>1 DEF Inside, Chain, Runtimes
<1>3. x.co[c].prev # c /\ x.co[c].own = None /\ x.co[c].wait = None
     /\ (x.co[c].prev = Mainco \/ Inside(x, x.co[c].prev))
  BY <1>1, <1>2 DEF Chain
<1>4. x.co[c].prev \in Corous
  BY <1>3 DEF Inside, Corous
<1> QED BY <1>1, <1>2, <1>3, <1>4 DEF Live, Shaped, Runtimes

\* r is the running coroutine c with the element it waits for.
Marked(x, c, r) == /\ r \in Corou /\ r.st = x.co[c].st /\ r.prev = x.co[c].prev
                   /\ r.wrap = x.co[c].wrap /\ r.delater = x.co[c].delater /\ r.job = x.co[c].job
                   /\ r.wait # None /\ (r.server # "no" => x.co[c].server # "no")

\* Yielding, with the element to wait for left in the coroutine.
LEMMA YieldKeeps ==
  ASSUME NEW x, NEW c \in Co, Runtime(x), c = x.cur, NEW r, Marked(x, c, r),
         NEW u, Put(x, u, c, r), u.pool = x.pool
  PROVE  LET y == SwitchBack(u, c, "suspend") IN
         /\ Runtime(y) /\ Moves(x, y, c)
         /\ y.co[c].st = "suspend" /\ y.co[c].wait = r.wait /\ y.co[c].own = r.own /\ y.co[c].job = x.co[c].job
<1> DEFINE y == SwitchBack(u, c, "suspend")
           p == x.co[c].prev
<1>1. /\ Live(x, c) /\ x.co[c] \in Corou /\ x.co[c].st = "running" /\ Shaped(x.co[c])
      /\ p # c /\ p \in Corous /\ x.co[p] \in Corou /\ x \in Runtimes /\ Pooled(x)
  BY RunningLive DEF Runtime
<1>2. u \in Runtimes /\ u.co[c] = r /\ \A d \in Corous : d # c => u.co[d] = x.co[d]
  BY DEF Put
<1>3. Live(u, c) /\ u.co[c].prev = p
  BY <1>1, <1>2 DEF Live, Marked
<1>13. Yields(u, y, c, p)
  BY <1>3, YieldEffect
<1> HIDE DEF y
<1>14. u.co[p] = x.co[p] /\ u.co[c] \in Corou
  BY <1>1, <1>2 DEF Marked
<1>4. /\ y \in Runtimes /\ y.cur = p /\ y.pool = u.pool
      /\ y.co[c] = [u.co[c] EXCEPT !.st = "suspend", !.wrap = FALSE, !.delater = TRUE]
      /\ y.co[p] = [x.co[p] EXCEPT !.st = "running"]
      /\ \A d \in Corous : d # c /\ d # p => y.co[d] = x.co[d]
  <2> HIDE DEF p
  <2>1. /\ y \in Runtimes /\ y.cur = p /\ y.pool = u.pool
        /\ y.co[c] = [u.co[c] EXCEPT !.st = "suspend", !.wrap = FALSE, !.delater = TRUE]
        /\ \A d \in Corous : d # c /\ d # p => y.co[d] = u.co[d]
    BY <1>13 DEF Yields
  <2>2. y.co[p] = [x.co[p] EXCEPT !.st = "running"]
    BY <1>13, <1>14 DEF Yields
  <2> QED BY <2>1, <2>2, <1>2
<1>5. /\ y.co[c].st = "suspend" /\ y.co[c].wrap = FALSE /\ y.co[c].delater = TRUE
      /\ y.co[c].wait = r.wait /\ y.co[c].own = r.own /\ y.co[c].job = r.job /\ y.co[c].server = r.server
  BY <1>2, <1>4 DEF Marked, Corou
<1>6. y.co[p].st = "running" /\ Same(x.co[p], y.co[p])
  BY <1>1, <1>4 DEF Same, Corou
<1>7. Leaves(x, y, c)
  BY <1>4, <1>5, <1>6 DEF Leaves, Marked
<1>8. Shaped(y.co[c])
  BY <1>1, <1>5 DEF Shaped, Marked
<1>9. \A d \in Co : x.co[d].st = "dead" => d \in Corous /\ d # c /\ d # p
  <2>1. p = Mainco \/ Inside(x, p)
    BY DEF Runtime, Chain, Inside
  <2> QED BY <1>1, <2>1, CwcAssumption DEF Inside, Corous
<1>10. Pooled(y)
  <2>1. y.pool = x.pool /\ x.pool \in Seq(Co)
    BY <1>1, <1>4 DEF Runtimes
  <2>2. \A i \in DOMAIN x.pool : x.pool[i] \in Co
    BY <2>1
  <2>3. \A d \in Co : x.co[d].st = "dead" => y.co[d] = x.co[d]
    BY <1>4, <1>9
  <2> QED BY <1>1, <2>1, <2>2, <2>3 DEF Pooled
<1>11. Runtime(y)
  BY <1>4, <1>7, <1>8, <1>10, LeaveChain, LeaveShapes DEF Runtime
<1>12. Moves(x, y, c)
  BY <1>7, LeaveMoves
<1> QED BY <1>5, <1>11, <1>12 DEF y, Marked

-----------------------------------------------------------------------------
(* Returning *)

\* What returning does.
Ends(x, y, c, p) ==
  /\ y \in Runtimes /\ y.cur = p
  /\ \/ y.co[c] = [NoCo EXCEPT !.st = "dead"] /\ y.pool = <<c>> \o x.pool
     \/ y.co[c] = NoCo /\ y.pool = x.pool
  /\ y.co[p] = [x.co[p] EXCEPT !.st = "running"]
  /\ \A d \in Corous : d # c /\ d # p => y.co[d] = x.co[d]

\* When a coroutine returns, its block is given back once.
LEMMA EndEffect ==
  ASSUME NEW x, NEW c \in Co, Live(x, c)
  PROVE  Ends(x, SwitchBack(x, c, "dead"), c, x.co[c].prev)
<1> DEFINE u == BackTo(x, c, "dead")
           z == IF u.co[c].delater THEN Reclaim(u, c) ELSE u
           y == SwitchBack(x, c, "dead")
           p == x.co[c].prev
<1>1. x \in Runtimes /\ c \in Corous /\ x.co[c] \in Corou /\ p \in Corous /\ p # c
  BY DEF Live, Runtimes, Corous
<1>2. Back(x, u, c, "dead")
  BY <1>1, BackEffect DEF Live
<1>3. y = IF x.co[c].wrap THEN Delater(z, c) ELSE z
  BY DEF SwitchBack, BackTo
<1> HIDE DEF u, y
<1>4. /\ u \in Runtimes /\ u.cur = p /\ u.pool = x.pool
      /\ u.co[p] = [x.co[p] EXCEPT !.st = "running"]
      /\ \A d \in Corous : d # c /\ d # p => u.co[d] = x.co[d]
  BY <1>2 DEF Back
<1>5. u.co[c] = [x.co[c] EXCEPT !.st = "dead", !.wrap = FALSE]
  BY <1>2 DEF Back
<1>6. u.co[c].st = "dead" /\ u.co[c].delater = x.co[c].delater
  BY <1>1, <1>5 DEF Corou
<1>7. y = Reclaim(u, c)
  <2>1. CASE x.co[c].wrap
    <3>1. z = u
      BY <1>6, <2>1 DEF Live
    <3> QED BY <1>3, <1>6, <2>1, <3>1 DEF Delater
  <2>2. CASE ~x.co[c].wrap
    BY <1>3, <1>6, <2>2 DEF Live
  <2> QED BY <2>1, <2>2
<1> DEFINE dead == [NoCo EXCEPT !.st = "dead"]
<1>8. \/ Put(u, y, c, dead) /\ y.pool = <<c>> \o u.pool
      \/ Put(u, y, c, NoCo) /\ y.pool = u.pool
  BY <1>4, <1>7, ReclaimEffect
<1> HIDE DEF dead
<1>9. /\ y \in Runtimes /\ y.cur = p
      /\ \/ y.co[c] = dead /\ y.pool = <<c>> \o x.pool
         \/ y.co[c] = NoCo /\ y.pool = x.pool
      /\ \A d \in Corous : d # c => y.co[d] = u.co[d]
  <2>1. CASE Put(u, y, c, dead) /\ y.pool = <<c>> \o u.pool
    <3>1. y \in Runtimes /\ y.cur = u.cur /\ y.co[c] = dead /\ \A d \in Corous : d # c => y.co[d] = u.co[d]
      BY <2>1 DEF Put
    <3>2. y.pool = <<c>> \o x.pool
      BY <1>4, <2>1
    <3> QED BY <1>4, <3>1, <3>2
  <2>2. CASE Put(u, y, c, NoCo) /\ y.pool = u.pool
    BY <1>4, <2>2 DEF Put
  <2> QED BY <1>8, <2>1, <2>2
<1>10. y.co[p] = u.co[p] /\ \A d \in Corous : d # c /\ d # p => y.co[d] = x.co[d]
  BY <1>1, <1>4, <1>9
<1> QED BY <1>4, <1>9, <1>10 DEF y, dead, Ends

\* A coroutine that returns is freed, or its block goes to the pool, where it was not.
LEMMA EndKeeps ==
  ASSUME NEW x, NEW c \in Co, Runtime(x), c = x.cur
  PROVE  LET y == SwitchBack(x, c, "dead") IN
         /\ Runtime(y) /\ Moves(x, y, c) /\ y.co[c].own = None /\ y.co[c].job = None
<1> DEFINE y == SwitchBack(x, c, "dead")
           p == x.co[c].prev
           dead == [NoCo EXCEPT !.st = "dead"]
<1>1. /\ Live(x, c) /\ x.co[c] \in Corou /\ x.co[c].st = "running"
      /\ p # c /\ p \in Corous /\ x.co[p] \in Corou /\ x \in Runtimes /\ Pooled(x)
  BY RunningLive DEF Runtime
<1>2. /\ y \in Runtimes /\ y.cur = p
      /\ \/ y.co[c] = dead /\ y.pool = <<c>> \o x.pool
         \/ y.co[c] = NoCo /\ y.pool = x.pool
      /\ y.co[p] = [x.co[p] EXCEPT !.st = "running"]
      /\ \A d \in Corous : d # c /\ d # p => y.co[d] = x.co[d]
  BY <1>1, EndEffect DEF Ends
<1>3. y.co[c] \in {dead, NoCo}
  BY <1>2
<1>4. /\ dead.st = "dead" /\ dead.own = None /\ dead.job = None /\ dead.server = "no"
      /\ NoCo.st = "none" /\ NoCo.own = None /\ NoCo.job = None /\ NoCo.server = "no"
  BY DEF NoCo
<1> HIDE DEF y
<1>5. Shaped(dead) /\ Shaped(NoCo)
  BY <1>4 DEF Shaped
<1> HIDE DEF dead
<1>6. y.co[p].st = "running" /\ Same(x.co[p], y.co[p])
  BY <1>1, <1>2 DEF Same, Corou
<1>7. y.co[c].st # "running" /\ y.co[c].st # "suspend" /\ y.co[c].own = None /\ y.co[c].job = None
  BY <1>3, <1>4
<1>8. Leaves(x, y, c)
  BY <1>1, <1>2, <1>6, <1>7 DEF Leaves
<1>9. Shaped(y.co[c])
  BY <1>3, <1>5
<1>10. \A d \in Co : x.co[d].st = "dead" => d \in Corous /\ d # c /\ d # p
  <2>1. p = Mainco \/ Inside(x, p)
    BY DEF Runtime, Chain, Inside
  <2> QED BY <1>1, <2>1, CwcAssumption DEF Inside, Corous
<1>11. x.pool \in Seq(Co) /\ \A i \in DOMAIN x.pool : x.pool[i] \in Co /\ x.pool[i] # c
  <2>1. x.pool \in Seq(Co)
    BY <1>1 DEF Runtimes
  <2> QED BY <2>1, <1>1 DEF Pooled
<1>12. \A d \in Co : x.co[d].st = "dead" => y.co[d] = x.co[d]
  BY <1>2, <1>10
<1>13. Pooled(y)
  <2>1. CASE y.pool = x.pool
    BY <1>1, <1>11, <1>12, <2>1 DEF Pooled
  <2>2. CASE y.co[c] = dead /\ y.pool = <<c>> \o x.pool
    <3> DEFINE q == <<c>> \o x.pool
               n == Len(x.pool)
    <3>1. n \in Nat /\ DOMAIN x.pool = 1 .. n /\ DOMAIN q = 1 .. n + 1
         /\ q[1] = c /\ \A i \in 2 .. n + 1 : i - 1 \in 1 .. n /\ q[i] = x.pool[i - 1]
      BY <1>11
    <3> HIDE DEF q, n
    <3>2. \A i \in 2 .. n + 1 : q[i] # c /\ q[i] \in Co /\ x.co[q[i]].st = "dead"
      <4> SUFFICES ASSUME NEW i \in 2 .. n + 1 PROVE q[i] # c /\ q[i] \in Co /\ x.co[q[i]].st = "dead"
        OBVIOUS
      <4>1. i - 1 \in DOMAIN x.pool /\ q[i] = x.pool[i - 1]
        BY <3>1
      <4> QED BY <4>1, <1>1, <1>11 DEF Pooled
    <3>3. \A i \in DOMAIN q : i = 1 \/ i \in 2 .. n + 1
      BY <3>1
    <3>4. \A i \in DOMAIN q : y.co[q[i]].st = "dead"
      <4> SUFFICES ASSUME NEW i \in DOMAIN q PROVE y.co[q[i]].st = "dead"
        OBVIOUS
      <4>1. CASE i = 1
        BY <2>2, <3>1, <4>1, <1>4
      <4>2. CASE i \in 2 .. n + 1
        BY <3>2, <4>2, <1>12
      <4> QED BY <3>3, <4>1, <4>2
    <3>5. \A i, k \in DOMAIN q : q[i] = q[k] => i = k
      <4> SUFFICES ASSUME NEW i \in DOMAIN q, NEW k \in DOMAIN q, q[i] = q[k] PROVE i = k
        OBVIOUS
      <4>1. CASE i = 1 \/ k = 1
        BY <3>1, <3>2, <3>3, <4>1
      <4>2. CASE i \in 2 .. n + 1 /\ k \in 2 .. n + 1
        <5>1. i - 1 = k - 1
          <6>1. i - 1 \in DOMAIN x.pool /\ k - 1 \in DOMAIN x.pool /\ x.pool[i - 1] = x.pool[k - 1]
            BY <3>1, <4>2
          <6> QED BY <6>1, <1>1 DEF Pooled
        <5> QED BY <5>1, <4>2, <3>1
      <4> QED BY <3>3, <4>1, <4>2
    <3> QED BY <2>2, <3>4, <3>5 DEF Pooled, q
  <2> QED BY <1>2, <2>1, <2>2
<1>14. Runtime(y)
  BY <1>2, <1>8, <1>9, <1>13, LeaveChain, LeaveShapes DEF Runtime
<1>15. Moves(x, y, c)
  BY <1>8, LeaveMoves
<1> QED BY <1>7, <1>14, <1>15 DEF y

-----------------------------------------------------------------------------
(* Elements *)

\* F differs from E at e only.
Only(E, F, e) == F \in [Ele -> Elem] /\ \A d \in Ele : d # e => F[d] = E[d]

\* F is E with e changed to hold these.
Becomes(E, F, e, st, cop, fresh, fn, call, refc) ==
  /\ Only(E, F, e)
  /\ F[e].st = st /\ F[e].cop = cop /\ F[e].fresh = fresh /\ F[e].fn = fn /\ F[e].call = call /\ F[e].refc = refc

\* What CwcAssumption says of the sets.
LEMMA Constants ==
  /\ Mainco \notin Co /\ None \notin Ele /\ None \notin Co /\ None # Mainco
  /\ Ios \subseteq Ele /\ Ctcs \subseteq Ele /\ Tmrs \subseteq Ele
  /\ \A e \in Ele : /\ e \in Ios => e \notin Ctcs /\ e \notin Tmrs
                    /\ e \in Ctcs => e \notin Tmrs
  /\ None \notin Ios /\ None \notin Ctcs /\ None \notin Tmrs
BY CwcAssumption DEF Ele

\* The effect of setting an element.
LEMMA SetEle ==
  ASSUME NEW E \in [Ele -> Elem], NEW e \in Ele, NEW r \in Elem
  PROVE  Only(E, [E EXCEPT ![e] = r], e) /\ [E EXCEPT ![e] = r][e] = r
BY DEF Only

\* The effect of changing an element's status.
LEMMA StEffect ==
  ASSUME NEW E \in [Ele -> Elem], NEW e \in Ele, NEW s \in {"idle", "doing", "ready"}
  PROVE  Becomes(E, [E EXCEPT ![e].st = s], e, s, E[e].cop, E[e].fresh, E[e].fn, E[e].call, E[e].refc)
<1> DEFINE r == [E[e] EXCEPT !.st = s]
<1>1. E[e] \in Elem
  OBVIOUS
<1>2. r \in Elem /\ r.st = s /\ r.cop = E[e].cop /\ r.fresh = E[e].fresh /\ r.fn = E[e].fn
     /\ r.call = E[e].call /\ r.refc = E[e].refc
  BY <1>1 DEF Elem
<1> HIDE DEF r
<1>3. Only(E, [E EXCEPT ![e] = r], e) /\ [E EXCEPT ![e] = r][e] = r
  BY <1>2, SetEle
<1>4. Becomes(E, [E EXCEPT ![e] = r], e, s, E[e].cop, E[e].fresh, E[e].fn, E[e].call, E[e].refc)
  BY <1>2, <1>3 DEF Becomes
<1> QED BY <1>4 DEF r

\* The effect of dpele_wait.
LEMMA AwaitsEffect ==
  ASSUME NEW E \in [Ele -> Elem], NEW e \in Ele, NEW c \in Co
  PROVE  Becomes(E, Awaits(E, e, c), e, E[e].st, c, TRUE, E[e].fn, E[e].call, E[e].refc)
<1> DEFINE r == [E[e] EXCEPT !.cop = c, !.fresh = TRUE]
           f == [E EXCEPT ![e] = r]
           F == Awaits(E, e, c)
<1>1. E[e] \in Elem
  OBVIOUS
<1>2. r \in Elem /\ r.st = E[e].st /\ r.cop = c /\ r.fresh = TRUE /\ r.fn = E[e].fn
     /\ r.call = E[e].call /\ r.refc = E[e].refc
  BY <1>1 DEF Elem
<1>3. F \in [Ele -> Elem] /\ F[e] = r /\ \A d \in Ele : d # e => F[d] = E[d]
  BY <1>1, <1>2 DEF Awaits
<1> HIDE DEF r, F
<1>4. Becomes(E, F, e, E[e].st, c, TRUE, E[e].fn, E[e].call, E[e].refc)
  BY <1>2, <1>3 DEF Becomes, Only
<1> QED BY <1>4 DEF F

\* The effect of dpevp_addv.
LEMMA AddEffect ==
  ASSUME NEW E \in [Ele -> Elem], NEW e \in Ele
  PROVE  Becomes(E, Add(E, e), e, "doing", IF e \in Ctcs THEN None ELSE E[e].cop, E[e].fresh, E[e].fn, E[e].call,
                 E[e].refc)
<1> DEFINE k == IF e \in Ctcs THEN None ELSE E[e].cop
           r == [E[e] EXCEPT !.st = "doing", !.cop = k]
           F == Add(E, e)
<1>1. E[e] \in Elem
  OBVIOUS
<1>2. r \in Elem /\ r.st = "doing" /\ r.cop = k /\ r.fresh = E[e].fresh /\ r.fn = E[e].fn
     /\ r.call = E[e].call /\ r.refc = E[e].refc
  BY <1>1 DEF Elem
<1>3. F \in [Ele -> Elem] /\ F[e] = r /\ \A d \in Ele : d # e => F[d] = E[d]
  BY <1>1, <1>2 DEF Add
<1> HIDE DEF r, F, k
<1>4. Becomes(E, F, e, "doing", k, E[e].fresh, E[e].fn, E[e].call, E[e].refc)
  BY <1>2, <1>3 DEF Becomes, Only
<1> QED BY <1>4 DEF F, k

\* The effect of dpele_del on an element that has a reference.
LEMMA DelEffect ==
  ASSUME NEW E \in [Ele -> Elem], NEW e \in Ele, E[e].refc # 0
  PROVE  \/ /\ E[e].refc = 1 /\ E[e].st = "idle"
            /\ Becomes(E, Del(E, e), e, "none", None, FALSE, FALSE, FALSE, 0)
         \/ /\ ~(E[e].refc = 1 /\ E[e].st = "idle")
            /\ Becomes(E, Del(E, e), e, E[e].st, E[e].cop, E[e].fresh, E[e].fn, E[e].call, E[e].refc - 1)
<1> DEFINE F == Del(E, e)
<1>1. E[e] \in Elem
  OBVIOUS
<1>2. CASE E[e].refc = 1 /\ E[e].st = "idle"
  <2>1. NoEle \in Elem /\ NoEle.st = "none" /\ NoEle.cop = None /\ NoEle.fresh = FALSE /\ NoEle.fn = FALSE
       /\ NoEle.call = FALSE /\ NoEle.refc = 0
    BY DEF NoEle, Elem
  <2>2. F = [E EXCEPT ![e] = NoEle]
    BY <1>2 DEF Del
  <2> HIDE DEF F
  <2>3. Only(E, F, e) /\ F[e] = NoEle
    BY <2>1, <2>2, SetEle
  <2>4. Becomes(E, F, e, "none", None, FALSE, FALSE, FALSE, 0)
    BY <2>1, <2>3 DEF Becomes
  <2> QED BY <1>2, <2>4 DEF F
<1>3. CASE ~(E[e].refc = 1 /\ E[e].st = "idle")
  <2> DEFINE r == [E[e] EXCEPT !.refc = E[e].refc - 1]
  <2>1. E[e].refc - 1 \in Nat
    BY <1>1 DEF Elem
  <2>2. r \in Elem /\ r.st = E[e].st /\ r.cop = E[e].cop /\ r.fresh = E[e].fresh /\ r.fn = E[e].fn
       /\ r.call = E[e].call /\ r.refc = E[e].refc - 1
    BY <1>1, <2>1 DEF Elem
  <2>3. F = [E EXCEPT ![e] = r]
    BY <1>3 DEF Del
  <2> HIDE DEF F, r
  <2>4. Only(E, F, e) /\ F[e] = r
    BY <2>2, <2>3, SetEle
  <2>5. Becomes(E, F, e, E[e].st, E[e].cop, E[e].fresh, E[e].fn, E[e].call, E[e].refc - 1)
    BY <2>2, <2>4 DEF Becomes
  <2> QED BY <1>3, <2>5 DEF F
<1> QED BY <1>2, <1>3

\* One element changed.
LEMMA ElementsKept ==
  ASSUME NEW E, NEW F, NEW e, Elements(E), Only(E, F, e), e \in Ele => Sound(e, F[e])
  PROVE  Elements(F)
<1> SUFFICES ASSUME NEW d \in Ele PROVE Sound(d, F[d])
  BY DEF Elements, Only
<1>1. CASE d = e
  BY <1>1
<1>2. CASE d # e
  BY <1>2 DEF Elements, Only
<1> QED BY <1>1, <1>2

-----------------------------------------------------------------------------
(* The queue *)

\* r has nothing that q has not, but e.
Drawn(r, q, e) == \A i \in DOMAIN r : r[i] # e => \E k \in DOMAIN q : q[k] = r[i]

\* One element changed, and not from ready to anything else.
LEMMA QueueSame ==
  ASSUME NEW E, NEW F, NEW e, NEW q, Queued(E, q), Only(E, F, e), E[e].st # "ready" \/ F[e].st = "ready"
  PROVE  Queued(F, q) /\ Drawn(q, q, e)
<1>1. \A i \in DOMAIN q : q[i] \in Ele
  BY DEF Queued
<1> QED BY <1>1 DEF Queued, Only, Drawn

\* dpevp_pop takes the head off the queue: its element is there no more.
LEMMA QueueTail ==
  ASSUME NEW E, NEW F, NEW q, Queued(E, q), q # <<>>, Only(E, F, Head(q))
  PROVE  /\ Queued(F, Tail(q)) /\ Drawn(Tail(q), q, Head(q))
         /\ Head(q) \in Ele /\ E[Head(q)].st = "ready"
         /\ \A i \in DOMAIN Tail(q) : Tail(q)[i] # Head(q)
         /\ \E k \in DOMAIN q : q[k] = Head(q)
<1> DEFINE r == Tail(q)
           e == Head(q)
<1>1. q \in Seq(Ele)
  BY DEF Queued
<1>2. 1 \in DOMAIN q /\ q[1] = e /\ e \in Ele /\ r \in Seq(Ele)
  BY <1>1
<1>3. \A i \in DOMAIN r : i \in Nat /\ i # 0 /\ i + 1 \in DOMAIN q /\ r[i] = q[i + 1]
  BY <1>1
<1>4. E[e].st = "ready"
  BY <1>2 DEF Queued
<1> HIDE DEF r, e
<1>5. \A i \in DOMAIN r : r[i] # e /\ r[i] \in Ele /\ E[r[i]].st = "ready"
  <2> SUFFICES ASSUME NEW i \in DOMAIN r PROVE r[i] # e /\ r[i] \in Ele /\ E[r[i]].st = "ready"
    OBVIOUS
  <2>1. i + 1 \in DOMAIN q /\ r[i] = q[i + 1] /\ i + 1 # 1
    BY <1>3
  <2> QED BY <2>1, <1>1, <1>2 DEF Queued
<1>6. \A i, k \in DOMAIN r : r[i] = r[k] => i = k
  <2> SUFFICES ASSUME NEW i \in DOMAIN r, NEW k \in DOMAIN r, r[i] = r[k] PROVE i = k
    OBVIOUS
  <2>1. i + 1 = k + 1
    BY <1>3 DEF Queued
  <2> QED BY <2>1, <1>3
<1>7. Queued(F, r)
  BY <1>2, <1>5, <1>6 DEF Queued, Only, e
<1>8. Drawn(r, q, e)
  BY <1>3 DEF Drawn
<1> QED BY <1>2, <1>4, <1>5, <1>7, <1>8 DEF r, e

\* An element that gets ready is queued.
LEMMA QueueAppend ==
  ASSUME NEW E, NEW F, NEW e \in Ele, NEW q, Queued(E, q), Only(E, F, e), E[e].st # "ready", F[e].st = "ready"
  PROVE  Queued(F, Append(q, e)) /\ Drawn(Append(q, e), q, e)
<1> DEFINE r == Append(q, e)
           n == Len(q)
<1>1. q \in Seq(Ele) /\ n \in Nat /\ DOMAIN q = 1 .. n
  BY DEF Queued
<1>2. r \in Seq(Ele) /\ DOMAIN r = 1 .. n + 1 /\ r[n + 1] = e /\ \A i \in 1 .. n : r[i] = q[i]
  BY <1>1
<1> HIDE DEF r, n
<1>3. \A i \in DOMAIN r : i = n + 1 \/ i \in 1 .. n
  BY <1>1, <1>2
<1>4. \A i \in 1 .. n : q[i] \in Ele /\ E[q[i]].st = "ready" /\ q[i] # e
  BY <1>1 DEF Queued
<1>5. \A i, k \in DOMAIN r : r[i] = r[k] => i = k
  BY <1>1, <1>2, <1>3, <1>4 DEF Queued
<1>6. \A i \in DOMAIN r : F[r[i]].st = "ready"
  BY <1>2, <1>3, <1>4 DEF Only
<1>7. Drawn(r, q, e)
  BY <1>1, <1>2, <1>3 DEF Drawn
<1> QED BY <1>2, <1>5, <1>6, <1>7 DEF Queued, r

-----------------------------------------------------------------------------
(* Handles, owners and jobs *)

\* A coroutine moved and an element changed: what must be checked of them for
\* handles, owners and jobs to stay right.
LEMMA MixedKept ==
  ASSUME NEW x \in Runtimes, NEW y \in Runtimes, NEW E \in [Ele -> Elem], NEW F, NEW q, NEW r, NEW c \in Corous, NEW e,
         Mixed(x, E, q), Only(E, F, e), Moves(x, y, c), Drawn(r, q, e),
         c \in Co /\ Awaiting(x, c) => x.co[c].wait = e,
         e \in Ele => HandleAt(y, e, F[e]),
         \A d \in Co : d # c /\ x.co[d].own # None /\ x.co[d].own = e =>
              F[e].fresh /\ F[e].cop = d /\ ~F[e].fn /\ F[e].refc = 1,
         c \in Co => /\ OwnAt(y, c, F)
                     /\ y.co[c].job # None => \/ y.co[c].job = x.co[c].job
                                              \/ y.co[c].job = e /\ \A d \in Co : x.co[d].job # e,
         \A d \in Co : y.co[d].job = e => JobAt(e, F, r)
  PROVE  Mixed(y, F, r)
<1>1. \A d \in Ele : d # e => F[d] = E[d]
  BY DEF Only
<1>2. \A d \in Co : d \in Corous /\ x.co[d] \in Corou /\ y.co[d] \in Corou
  BY DEF Runtimes, Corous
<1>3. \A d \in Co : d # c => /\ y.co[d].own = x.co[d].own /\ y.co[d].job = x.co[d].job
                             /\ Awaiting(x, d) => y.co[d].st = "suspend" /\ y.co[d].wait = x.co[d].wait
  BY DEF Moves
<1>4. \A d \in Ele : HandleAt(y, d, F[d])
  <2> SUFFICES ASSUME NEW d \in Ele, d # e, F[d].fresh PROVE HandleAt(y, d, F[d])
    BY DEF HandleAt
  <2>1. F[d] = E[d] /\ HandleAt(x, d, E[d])
    BY <1>1 DEF Mixed
  <2> DEFINE k == E[d].cop
  <2>2. Under(E[d]) /\ k \in Co /\ x.co[k].st = "suspend" /\ x.co[k].wait = d
    BY <2>1 DEF HandleAt
  <2>3. Awaiting(x, k) /\ k # c
    BY <2>2, Constants DEF Awaiting
  <2>4. y.co[k].st = "suspend" /\ y.co[k].wait = d
    BY <1>3, <2>2, <2>3
  <2> QED BY <2>1, <2>2, <2>4 DEF HandleAt
<1>5. \A d \in Co : OwnAt(y, d, F)
  <2> SUFFICES ASSUME NEW d \in Co, d # c, y.co[d].own # None PROVE OwnAt(y, d, F)
    BY DEF OwnAt
  <2> DEFINE t == x.co[d].own
  <2>1. y.co[d].own = t /\ t # None /\ OwnAt(x, d, E)
    BY <1>3 DEF Mixed
  <2>2. t \in Ele
    BY <1>2, <2>1, Constants DEF Corou
  <2>3. x.co[d].st = "suspend" /\ x.co[d].wait = t /\ E[t].fresh /\ E[t].cop = d /\ ~E[t].fn /\ E[t].refc = 1
    BY <2>1 DEF OwnAt
  <2>4. y.co[d].st = "suspend" /\ y.co[d].wait = t
    BY <1>3, <2>1, <2>3 DEF Awaiting
  <2>5. F[t].fresh /\ F[t].cop = d /\ ~F[t].fn /\ F[t].refc = 1
    <3>1. CASE t = e
      BY <2>1, <3>1
    <3>2. CASE t # e
      BY <1>1, <2>2, <2>3, <3>2
    <3> QED BY <3>1, <3>2
  <2> HIDE DEF t
  <2> QED BY <2>1, <2>4, <2>5 DEF OwnAt
<1>6. \A a, b \in Co : y.co[a].job # None /\ y.co[a].job = y.co[b].job => a = b
  <2>1. \A a, b \in Co : x.co[a].job # None /\ x.co[a].job = x.co[b].job => a = b
    BY DEF Mixed
  <2> QED BY <1>3, <2>1
<1>7. \A d \in Co : JobAt(y.co[d].job, F, r)
  <2> SUFFICES ASSUME NEW d \in Co, y.co[d].job # e, y.co[d].job # None PROVE JobAt(y.co[d].job, F, r)
    BY Constants DEF JobAt
  <2> DEFINE j == y.co[d].job
  <2>1. j = x.co[d].job
    BY <1>3
  <2>2. JobAt(j, E, q) /\ j \in Ele
    BY <1>2, <2>1 DEF Mixed, Corou
  <2>3. F[j] = E[j]
    BY <1>1, <2>2
  <2>4. ASSUME NEW i \in DOMAIN r, r[i] = j PROVE \E k \in DOMAIN q : q[k] = j
    BY <2>4 DEF Drawn
  <2> HIDE DEF j
  <2>5. j \in Ctcs => \A i \in DOMAIN r : r[i] # j
    BY <2>2, <2>4 DEF JobAt
  <2>6. JobAt(j, F, r)
    BY <2>2, <2>3, <2>5 DEF JobAt
  <2> QED BY <2>6 DEF j
<1> QED BY <1>4, <1>5, <1>6, <1>7 DEF Mixed

\* The invariant after a step, but for the binding and the calls.
Kept == /\ Runtime(Rt') /\ Elements(ele') /\ Queued(ele', ready') /\ Mixed(Rt', ele', ready')
        /\ answer'.wait = answer'.ele

\* The runtime after a step that sets it to y.
LEMMA RunsIs ==
  ASSUME NEW y \in Runtimes, Runs(y)
  PROVE  Rt' = y
<1>1. y = [co |-> y.co, cur |-> y.cur, pool |-> y.pool]
  BY DEF Runtimes
<1>2. co' = y.co /\ cur' = y.cur /\ pool' = y.pool
  BY DEF Runs
<1> QED BY <1>1, <1>2 DEF Rt

\* The fields of Rt.
LEMMA RtFields == Rt.co = co /\ Rt.cur = cur /\ Rt.pool = pool
BY DEF Rt

\* What the invariant says, by parts.
LEMMA Parts ==
  ASSUME CInv
  PROVE  /\ Runtime(Rt) /\ Rt \in Runtimes /\ co \in [Corous -> Corou] /\ cur \in Corous
         /\ Elements(ele) /\ ele \in [Ele -> Elem] /\ Queued(ele, ready) /\ Mixed(Rt, ele, ready)
         /\ answer.wait = answer.ele
         /\ \A e \in Ele : ele[e] \in Elem /\ Sound(e, ele[e]) /\ HandleAt(Rt, e, ele[e])
         /\ \A c \in Co : c \in Corous /\ co[c] \in Corou /\ JobAt(co[c].job, ele, ready) /\ OwnAt(Rt, c, ele)
<1>1. Runtime(Rt) /\ Rt \in Runtimes /\ Elements(ele) /\ Queued(ele, ready) /\ Mixed(Rt, ele, ready)
     /\ answer.wait = answer.ele
  BY DEF CInv, Runtime, WokenByOwn
<1>2. co \in [Corous -> Corou] /\ cur \in Corous
  BY <1>1, RtFields DEF Runtimes
<1>3. ele \in [Ele -> Elem] /\ \A e \in Ele : ele[e] \in Elem /\ Sound(e, ele[e]) /\ HandleAt(Rt, e, ele[e])
  BY <1>1 DEF Elements, Mixed
<1>4. \A c \in Co : c \in Corous /\ co[c] \in Corou /\ JobAt(co[c].job, ele, ready) /\ OwnAt(Rt, c, ele)
  BY <1>1, <1>2, RtFields DEF Mixed, Corous
<1> QED BY <1>1, <1>2, <1>3, <1>4

\* Nobody sleeps on an element without a fresh handle.
LEMMA NoOwner ==
  ASSUME CInv, NEW e, ~ele[e].fresh
  PROVE  \A d \in Co : co[d].own # None => co[d].own # e
BY Parts, RtFields DEF OwnAt

\* An operation of the elements only.
LEMMA QuietKeeps ==
  ASSUME CInv, NEW e \in Ele, NEW F, NEW q, Only(ele, F, e), Sound(e, F[e]), Queued(F, q), Drawn(q, ready, e),
         HandleAt(Rt, e, F[e]),
         \A d \in Co : co[d].own = e => F[e].fresh /\ F[e].cop = d /\ ~F[e].fn /\ F[e].refc = 1,
         \A d \in Co : co[d].job = e => JobAt(e, F, q)
  PROVE  Runtime(Rt) /\ Elements(F) /\ Queued(F, q) /\ Mixed(Rt, F, q)
<1>1. Moves(Rt, Rt, Mainco) /\ Mainco \in Corous /\ Mainco \notin Co
  BY Constants DEF Moves, Awaiting, Corous
<1>2. Mixed(Rt, F, q)
  <2>1. \A d \in Co : d # Mainco /\ Rt.co[d].own # None /\ Rt.co[d].own = e =>
            F[e].fresh /\ F[e].cop = d /\ ~F[e].fn /\ F[e].refc = 1
    BY RtFields
  <2>2. \A d \in Co : Rt.co[d].job = e => JobAt(e, F, q)
    BY RtFields
  <2>3. Rt \in Runtimes /\ ele \in [Ele -> Elem] /\ Mixed(Rt, ele, ready)
    BY Parts
  <2> QED BY <1>1, <2>1, <2>2, <2>3, MixedKept
<1>3. Elements(F)
  BY Parts, ElementsKept
<1> QED BY <1>2, <1>3, Parts

\* The running coroutine c leaves its handle in e and yields.
LEMMA HandleKeeps ==
  ASSUME CInv, NEW c \in Co, cur = c, NEW e \in Ele, NEW F, NEW u, NEW r,
         Only(ele, F, e), Sound(e, F[e]), Queued(F, ready),
         ~ele[e].fresh, F[e].fresh, F[e].cop = c, Under(F[e]),
         \A d \in Co : co[d].job = e => JobAt(e, F, ready),
         Marked(Rt, c, r), r.wait = e, Put(Rt, u, c, r), u.pool = pool,
         r.own # None => r.own = e /\ ~F[e].fn /\ F[e].refc = 1
  PROVE  LET y == SwitchBack(u, c, "suspend") IN
         y \in Runtimes /\ Runtime(y) /\ Elements(F) /\ Queued(F, ready) /\ Mixed(y, F, ready)
<1> DEFINE y == SwitchBack(u, c, "suspend")
<1>1. Rt \in Runtimes /\ Runtime(Rt) /\ c = Rt.cur /\ u.pool = Rt.pool
  BY Parts, RtFields
<1>2. /\ Runtime(y) /\ Moves(Rt, y, c)
      /\ y.co[c].st = "suspend" /\ y.co[c].wait = r.wait /\ y.co[c].own = r.own /\ y.co[c].job = Rt.co[c].job
  BY <1>1, YieldKeeps
<1> HIDE DEF y
<1>3. Rt.co[c].st = "running"
  BY <1>1, RunningLive
<1>4. HandleAt(y, e, F[e]) /\ OwnAt(y, c, F)
  BY <1>2 DEF HandleAt, OwnAt
<1>5. \A d \in Co : y.co[d].job = Rt.co[d].job
  BY <1>2 DEF Moves
<1>6. \A d \in Co : y.co[d].job = e => JobAt(e, F, ready)
  BY <1>5, RtFields
<1>7. \A d \in Co : d # c /\ Rt.co[d].own # None /\ Rt.co[d].own = e => FALSE
  BY NoOwner, RtFields
<1>8. Drawn(ready, ready, e)
  BY DEF Drawn
<1>9. ~Awaiting(Rt, c) /\ y \in Runtimes /\ c \in Corous
  BY <1>2, <1>3 DEF Awaiting, Runtime, Corous
<1>10. Mixed(y, F, ready)
  BY <1>1, <1>2, <1>4, <1>5, <1>6, <1>7, <1>8, <1>9, Parts, MixedKept
<1>11. Elements(F)
  BY Parts, ElementsKept
<1> QED BY <1>2, <1>9, <1>10, <1>11 DEF y

-----------------------------------------------------------------------------
(* Waking *)

\* The effect of using up a handle.
LEMMA FreshEffect ==
  ASSUME NEW E \in [Ele -> Elem], NEW e \in Ele
  PROVE  Becomes(E, [E EXCEPT ![e].fresh = FALSE], e, E[e].st, E[e].cop, FALSE, E[e].fn, E[e].call, E[e].refc)
<1> DEFINE r == [E[e] EXCEPT !.fresh = FALSE]
<1>1. E[e] \in Elem
  OBVIOUS
<1>2. r \in Elem /\ r.st = E[e].st /\ r.cop = E[e].cop /\ r.fresh = FALSE /\ r.fn = E[e].fn
     /\ r.call = E[e].call /\ r.refc = E[e].refc
  BY <1>1 DEF Elem
<1> HIDE DEF r
<1>3. Only(E, [E EXCEPT ![e] = r], e) /\ [E EXCEPT ![e] = r][e] = r
  BY <1>2, SetEle
<1>4. Becomes(E, [E EXCEPT ![e] = r], e, E[e].st, E[e].cop, FALSE, E[e].fn, E[e].call, E[e].refc)
  BY <1>2, <1>3 DEF Becomes
<1> QED BY <1>4 DEF r

\* In every binding an element under way wakes somebody just if its handle is fresh.
LEMMA WaiterIs ==
  ASSUME CInv, NEW e \in Ele, bind # "lua" => Under(ele[e])
  PROVE  Waiter(e) = {} <=> ~ele[e].fresh
<1>1. bind \in {"cwc", "cpp", "lua"}
  BY CwcAssumption DEF CInv
<1>2. ele[e].fresh => ele[e].cop \in Co /\ co[ele[e].cop].st = "suspend" /\ ele[e].cop # None
  BY Parts, Constants, RtFields DEF HandleAt
<1>3. bind # "lua" /\ ele[e].cop # None => ele[e].fresh
  BY Parts DEF Sound
<1>4. CASE bind = "cwc"
  <2>1. Waiter(e) = CwcWaiter(e)
    BY <1>4 DEF Waiter
  <2> QED BY <1>2, <1>3, <1>4, <2>1 DEF CwcWaiter
<1>5. CASE bind = "cpp"
  <2>1. Waiter(e) = CppWaiter(e)
    BY <1>5 DEF Waiter
  <2> QED BY <1>2, <1>3, <1>5, <2>1 DEF CppWaiter
<1>6. CASE bind = "lua"
  <2>1. Waiter(e) = LuaWaiter(e)
    BY <1>6 DEF Waiter
  <2> QED BY <1>2, <1>6, <2>1 DEF LuaWaiter
<1> QED BY <1>1, <1>4, <1>5, <1>6

\* A wake resumes a coroutine that waits for just this element, and a sleeper
\* that it wakes deletes the timer that nobody else has.
LEMMA WakeKeeps ==
  ASSUME CInv, NEW e \in Ele, NEW es \in [Ele -> Elem], NEW q, Wake(es, e), ready' = q,
         Becomes(ele, es, e, es[e].st, ele[e].cop, ele[e].fresh, ele[e].fn, ele[e].call, ele[e].refc),
         ~ele[e].fn, ~ele[e].call, Queued(es, q), Drawn(q, ready, e),
         bind # "lua" => Under(ele[e]) /\ es[e].st = "idle",
         e \in Ios /\ es[e].st = "idle" => ele[e].refc = 1
  PROVE  Kept
<1>1. /\ Only(ele, es, e) /\ es[e].cop = ele[e].cop /\ es[e].fresh = ele[e].fresh
      /\ ~es[e].fn /\ ~es[e].call /\ es[e].refc = ele[e].refc
  BY DEF Becomes
<1>2. Waiter(e) = {} <=> ~ele[e].fresh
  BY WaiterIs
<1> DEFINE g == [es EXCEPT ![e].fresh = FALSE]
<1>3. Becomes(es, g, e, es[e].st, es[e].cop, FALSE, es[e].fn, es[e].call, es[e].refc)
  BY FreshEffect
<1> HIDE DEF g
<1>4. /\ Only(ele, g, e) /\ g[e].st = es[e].st /\ g[e].cop = ele[e].cop /\ g[e].fresh = FALSE
      /\ ~g[e].fn /\ ~g[e].call /\ g[e].refc = ele[e].refc /\ g \in [Ele -> Elem] /\ Only(es, g, e)
  BY <1>1, <1>3 DEF Becomes, Only
<1>5. Queued(g, q)
  BY <1>4, QueueSame
<1>6. e \in Ctcs => ele[e].refc = 1
  BY Parts DEF Sound
<1>7. e \in Ios => ele[e].refc \in {0, 1}
  BY Parts DEF Sound
<1>8. Sound(e, g[e])
  BY <1>4, <1>6, <1>7 DEF Sound, Under
<1>9. \A F : F[e].refc = ele[e].refc \/ e \in Tmrs => \A d \in Co : co[d].job = e => JobAt(e, F, q)
  <2> SUFFICES ASSUME NEW F, F[e].refc = ele[e].refc \/ e \in Tmrs, NEW d \in Co, co[d].job = e
               PROVE  JobAt(e, F, q)
    OBVIOUS
  <2>1. JobAt(e, ele, ready)
    BY Parts
  <2>2. e \notin Tmrs /\ e \notin Ctcs
    BY <2>1 DEF JobAt
  <2> QED BY <2>1, <2>2 DEF JobAt
<1>10. CASE Waiter(e) = {}
  <2>1. Runs(Rt) /\ ele' = g /\ answer' = answer
    BY <1>10 DEF Wake, g
  <2>2. HandleAt(Rt, e, g[e])
    BY <1>4 DEF HandleAt
  <2>3. \A d \in Co : co[d].own # e
    BY <1>2, <1>10, NoOwner, Constants
  <2>4. Runtime(Rt) /\ Elements(g) /\ Queued(g, q) /\ Mixed(Rt, g, q)
    BY <1>4, <1>5, <1>8, <1>9, <2>2, <2>3, QuietKeeps
  <2>5. Rt' = Rt
    BY <2>1, RunsIs, Parts
  <2> QED BY <2>1, <2>4, <2>5, Parts DEF Kept
<1>11. CASE Waiter(e) # {}
  <2> DEFINE c == ele[e].cop
             y == Resume(Rt, c)
             o == co[c].own
             F == IF o # None THEN Del(g, o) ELSE g
  <2>1. /\ Runs(y) /\ ele' = F /\ answer' = [co |-> c, ele |-> e, wait |-> co[c].wait]
    BY <1>11 DEF Wake, g
  <2>2. c \in Co /\ co[c].st = "suspend" /\ co[c].wait = e /\ e # None /\ ele[e].fresh
    BY <1>2, <1>11, Parts, RtFields, Constants DEF HandleAt
  <2>3. OwnAt(Rt, c, ele) /\ Runtime(Rt) /\ Rt \in Runtimes /\ co[c] \in Corou
    BY <2>2, Parts
  <2>4. o # None => o = e /\ ele[e].refc = 1 /\ e \in Tmrs
    BY <2>2, <2>3, RtFields, Constants DEF OwnAt, Corou
  <2> HIDE DEF c, y, o
  <2>5. /\ Runtime(y) /\ Moves(Rt, y, c) /\ y.co[c].own = None /\ y.co[c].job = co[c].job
    BY <2>2, <2>3, RtFields, ResumeKeeps DEF y
  <2>6. /\ Only(ele, F, e) /\ F[e].fresh = FALSE /\ ~F[e].fn /\ ~F[e].call
        /\ F[e].refc = ele[e].refc \/ e \in Tmrs
        /\ F[e].st = es[e].st \/ (es[e].st = "idle" /\ ~Under(F[e]))
        /\ e \notin Tmrs => F = g
    <3>1. CASE o = None
      <4>1. F = g
        BY <3>1
      <4> HIDE DEF F
      <4> QED BY <1>4, <4>1
    <3>2. CASE o # None
      <4>1. F = Del(g, e) /\ g[e].refc = 1 /\ e \in Tmrs
        BY <1>4, <2>4, <3>2
      <4> HIDE DEF F
      <4>5. g \in [Ele -> Elem] /\ g[e].refc # 0
        BY <1>4, <4>1
      <4>2. \/ /\ g[e].refc = 1 /\ g[e].st = "idle"
               /\ Becomes(g, F, e, "none", None, FALSE, FALSE, FALSE, 0)
            \/ /\ ~(g[e].refc = 1 /\ g[e].st = "idle")
               /\ Becomes(g, F, e, g[e].st, g[e].cop, g[e].fresh, g[e].fn, g[e].call, g[e].refc - 1)
        BY <4>1, <4>5, DelEffect
      <4>3. CASE g[e].st = "idle" /\ Becomes(g, F, e, "none", None, FALSE, FALSE, FALSE, 0)
        BY <1>4, <4>1, <4>3 DEF Becomes, Only, Under
      <4>4. CASE Becomes(g, F, e, g[e].st, g[e].cop, g[e].fresh, g[e].fn, g[e].call, g[e].refc - 1)
        <5>1. Only(g, F, e) /\ F[e].st = es[e].st /\ F[e].fresh = FALSE /\ ~F[e].fn /\ ~F[e].call
          BY <1>4, <4>4 DEF Becomes
        <5>2. Only(ele, F, e)
          BY <1>4, <5>1 DEF Only
        <5> QED BY <4>1, <5>1, <5>2
      <4> QED BY <4>2, <4>3, <4>4
    <3> QED BY <3>1, <3>2
  <2> HIDE DEF F
  <2>7. Sound(e, F[e])
    <3>1. CASE e \in Tmrs
      BY <2>6, <3>1, Constants DEF Sound, Under
    <3>2. CASE e \notin Tmrs
      BY <2>6, <3>2, <1>8
    <3> QED BY <3>1, <3>2
  <2>8. Queued(F, q)
    <3>1. es[e].st # "ready" \/ F[e].st = "ready"
      BY <2>6
    <3>2. Only(es, F, e)
      BY <1>1, <2>6 DEF Only
    <3> QED BY <3>1, <3>2, QueueSame
  <2>9. HandleAt(y, e, F[e]) /\ OwnAt(y, c, F)
    BY <2>5, <2>6 DEF HandleAt, OwnAt
  <2>10. \A d \in Co : d # c => Rt.co[d].own # e
    <3> SUFFICES ASSUME NEW d \in Co, Rt.co[d].own = e PROVE d = c
      OBVIOUS
    <3>1. OwnAt(Rt, d, ele)
      BY Parts
    <3> QED BY <2>2, <3>1 DEF OwnAt, c
  <2>11. \A d \in Co : y.co[d].job = Rt.co[d].job
    BY <2>5, RtFields DEF Moves
  <2>12. \A d \in Co : y.co[d].job = e => JobAt(e, F, q)
    BY <1>9, <2>6, <2>11, RtFields
  <2>13. y \in Runtimes /\ c \in Corous /\ Rt.co[c].wait = e
    BY <2>2, <2>5, RtFields DEF Runtime, Corous
  <2>14. Mixed(y, F, q)
    <3>1. ele \in [Ele -> Elem] /\ Mixed(Rt, ele, ready)
      BY Parts
    <3> QED BY <3>1, <2>2, <2>3, <2>5, <2>6, <2>9, <2>10, <2>11, <2>12, <2>13, MixedKept
  <2>15. Elements(F)
    BY <2>6, <2>7, Parts, ElementsKept
  <2>16. Rt' = y
    BY <2>1, <2>13, RunsIs
  <2>17. answer'.wait = answer'.ele
    BY <2>1, <2>2
  <2> QED BY <2>1, <2>5, <2>8, <2>14, <2>15, <2>16, <2>17 DEF Kept
<1> QED BY <1>10, <1>11

-----------------------------------------------------------------------------
(* Yielding *)

\* The coroutine that runs has noted what it waits for.
Marks(x, u, c, r) == Marked(x, c, r) /\ Put(x, u, c, r) /\ u.pool = x.pool

\* Note the element to wait for, and the sleeper's own timer.
Waits(x, c, e, o) == [x EXCEPT !.co[c].wait = e, !.co[c].own = o]

\* Waits marks the coroutine and nothing else.
LEMMA WaitEffect ==
  ASSUME NEW x \in Runtimes, NEW c \in Co, NEW e \in Ele, NEW o \in Tmrs \cup {None}
  PROVE  \E r : /\ Marks(x, Waits(x, c, e, o), c, r)
                /\ r.wait = e /\ r.own = o
<1> DEFINE g == [x.co[c] EXCEPT !.wait = e]
           r == [g EXCEPT !.own = o]
           v == [x EXCEPT !.co[c] = g]
           u == [v EXCEPT !.co[c] = [v.co[c] EXCEPT !.own = o]]
<1>1. c \in Corous /\ x.co[c] \in Corou
  BY DEF Runtimes, Corous
<1>2. g \in Corou /\ r \in Corou
  BY <1>1 DEF Corou
<1>3. /\ r.st = x.co[c].st /\ r.prev = x.co[c].prev /\ r.wrap = x.co[c].wrap /\ r.delater = x.co[c].delater
      /\ r.job = x.co[c].job /\ r.server = x.co[c].server /\ r.wait = e /\ r.own = o
  BY <1>1 DEF Corou
<1>4. u = Waits(x, c, e, o)
  BY DEF Waits
<1> HIDE DEF g
<1>5. Put(x, v, c, g) /\ v.pool = x.pool
  BY <1>1, <1>2, PutEffect
<1> HIDE DEF v
<1>6. v \in Runtimes /\ [v.co[c] EXCEPT !.own = o] = r
  BY <1>5 DEF Put
<1> HIDE DEF r
<1>7. Put(v, u, c, r) /\ u.pool = v.pool
  BY <1>1, <1>2, <1>6, PutEffect
<1> HIDE DEF u
<1>8. Put(x, u, c, r)
  BY <1>5, <1>7 DEF Put
<1>9. Marked(x, c, r)
  BY <1>2, <1>3, Constants DEF Marked
<1>10. Marks(x, u, c, r) /\ r.wait = e /\ r.own = o
  BY <1>3, <1>5, <1>7, <1>8, <1>9 DEF Marks
<1> QED BY <1>4, <1>10

\* The step of a coroutine that leaves its handle in an element and yields.
LEMMA YieldStep ==
  ASSUME CInv, NEW c \in Co, cur = c, NEW e \in Ele, NEW o \in Tmrs \cup {None}, NEW F, NEW u, NEW r,
         Marks(Rt, u, c, r), r.wait = e, r.own = o,
         Runs(SwitchBack(u, c, "suspend")), ele' = F, UNCHANGED <<ready, answer>>,
         Only(ele, F, e), F[e].fresh, F[e].cop = c, Under(F[e]), ~ele[e].fresh,
         ~F[e].call, e \in Ios => F[e].refc = 1, e \in Ctcs => F[e].refc = 1, ~F[e].fn,
         ele[e].st # "ready" \/ F[e].st = "ready",
         \A d \in Co : co[d].job = e => JobAt(e, F, ready),
         o # None => o = e /\ F[e].refc = 1
  PROVE  Kept
<1> DEFINE y == SwitchBack(u, c, "suspend")
<1>1. Sound(e, F[e])
  BY DEF Sound, Under
<1>2. Queued(F, ready)
  BY Parts, QueueSame
<1>3. Marked(Rt, c, r) /\ Put(Rt, u, c, r) /\ u.pool = pool
  BY RtFields DEF Marks
<1>4. y \in Runtimes /\ Runtime(y) /\ Elements(F) /\ Queued(F, ready) /\ Mixed(y, F, ready)
  BY <1>1, <1>2, <1>3, HandleKeeps
<1> HIDE DEF y
<1>5. Rt' = y
  BY <1>4, RunsIs DEF y
<1> QED BY <1>4, <1>5, Parts DEF Kept

\* The effect of submitting an element and leaving a handle in it.
LEMMA AddAwaitsEffect ==
  ASSUME CInv, NEW e \in Ele, NEW c \in Co
  PROVE  Becomes(ele, Awaits(Add(ele, e), e, c), e, "doing", c, TRUE, ele[e].fn, ele[e].call, ele[e].refc)
<1> DEFINE g == Add(ele, e)
           F == Awaits(g, e, c)
<1>1. Becomes(ele, g, e, "doing", IF e \in Ctcs THEN None ELSE ele[e].cop, ele[e].fresh, ele[e].fn, ele[e].call,
              ele[e].refc)
  BY Parts, AddEffect
<1> HIDE DEF g
<1>2. g \in [Ele -> Elem] /\ g[e].st = "doing" /\ g[e].fn = ele[e].fn /\ g[e].call = ele[e].call
     /\ g[e].refc = ele[e].refc /\ Only(ele, g, e)
  BY <1>1 DEF Becomes, Only
<1>3. Becomes(g, F, e, g[e].st, c, TRUE, g[e].fn, g[e].call, g[e].refc)
  BY <1>2, AwaitsEffect
<1> HIDE DEF F
<1>4. Becomes(ele, F, e, "doing", c, TRUE, ele[e].fn, ele[e].call, ele[e].refc)
  BY <1>2, <1>3 DEF Becomes, Only
<1> QED BY <1>4 DEF F, g

\* A descriptor or call that is idle has no fresh handle and serves nobody.
LEMMA IdleEle ==
  ASSUME CInv, NEW e \in Ios \cup Ctcs, ele[e].st = "idle"
  PROVE  /\ e \in Ele /\ ~ele[e].fresh /\ ~ele[e].fn /\ ~ele[e].call /\ ele[e].refc = 1
         /\ \A d \in Co : co[d].job = e => e \in Ios
BY Parts, Constants DEF HandleAt, Under, Sound, JobAt, Ele

\* An operation is refused, or submitted and awaited.
LEMMA AexecKeeps ==
  ASSUME CInv, NEW c \in Co, NEW e \in Ios \cup Ctcs, Aexec(c, e)
  PROVE  Kept
<1>1. /\ cur = c /\ ele[e].st = "idle" /\ \A d \in Co : co[d].job # e
      /\ \/ UNCHANGED <<co, cur, pool, ele, ready, answer>>
         \/ ele' = Awaits(Add(ele, e), e, c) /\ Yield(c, e, None) /\ UNCHANGED <<ready, answer>>
  BY DEF Aexec, Call
<1>2. e \in Ele /\ ~ele[e].fresh /\ ~ele[e].fn /\ ~ele[e].call /\ ele[e].refc = 1
  BY <1>1, IdleEle
<1>3. CASE UNCHANGED <<co, cur, pool, ele, ready, answer>>
  BY <1>3, Parts DEF Kept, Rt
<1>4. CASE ele' = Awaits(Add(ele, e), e, c) /\ Yield(c, e, None) /\ UNCHANGED <<ready, answer>>
  <2> DEFINE u == Waits(Rt, c, e, None)
             F == Awaits(Add(ele, e), e, c)
  <2>1. PICK r : Marks(Rt, u, c, r) /\ r.wait = e /\ r.own = None
    BY <1>2, Parts, WaitEffect
  <2>2. Runs(SwitchBack(u, c, "suspend"))
    BY <1>4 DEF Yield, Waits
  <2>3. Becomes(ele, F, e, "doing", c, TRUE, ele[e].fn, ele[e].call, ele[e].refc)
    BY <1>2, AddAwaitsEffect
  <2> HIDE DEF u, F
  <2>4. /\ Only(ele, F, e) /\ F[e].fresh /\ F[e].cop = c /\ Under(F[e]) /\ ~F[e].call /\ ~F[e].fn /\ F[e].refc = 1
    BY <1>2, <2>3 DEF Becomes, Under
  <2> QED BY <1>1, <1>2, <1>4, <2>1, <2>2, <2>4, YieldStep DEF F
<1> QED BY <1>1, <1>3, <1>4

\* dpcwc_ctc_each awaits a call that it submitted before.
LEMMA AwaitKeeps ==
  ASSUME CInv, NEW c \in Co, NEW e \in Ctcs, Await(c, e)
  PROVE  Kept
<1>1. /\ cur = c /\ ~ele[e].call /\ \A d \in Co : co[d].st = "suspend" => co[d].wait # e
      /\ IF Doing(e) THEN ele' = Awaits(ele, e, c) /\ Yield(c, e, None)
         ELSE UNCHANGED <<co, cur, pool, ele>>
      /\ UNCHANGED <<ready, answer>>
  BY DEF Await, Call
<1>2. e \in Ele /\ ~ele[e].fresh /\ ~ele[e].fn /\ ele[e].refc = 1 /\ \A d \in Co : co[d].job # e
  <2>1. e \in Ele /\ e \notin Ios /\ e \notin Tmrs
    BY Constants
  <2>2. ~ele[e].fresh
    BY <1>1, <2>1, Parts, RtFields DEF HandleAt
  <2>3. ~ele[e].fn /\ ele[e].refc = 1
    BY <2>1, Parts DEF Sound
  <2>4. \A d \in Co : co[d].job # e
    BY <1>1, Parts DEF JobAt
  <2> QED BY <2>1, <2>2, <2>3, <2>4
<1>3. CASE ~Doing(e)
  BY <1>1, <1>3, Parts DEF Kept, Rt
<1>4. CASE Doing(e)
  <2> DEFINE u == Waits(Rt, c, e, None)
             F == Awaits(ele, e, c)
  <2>1. PICK r : Marks(Rt, u, c, r) /\ r.wait = e /\ r.own = None
    BY <1>2, Parts, WaitEffect
  <2>2. Runs(SwitchBack(u, c, "suspend"))
    BY <1>1, <1>4 DEF Yield, Waits
  <2>3. Becomes(ele, F, e, ele[e].st, c, TRUE, ele[e].fn, ele[e].call, ele[e].refc)
    BY <1>2, Parts, AwaitsEffect
  <2>4. ele' = F
    BY <1>1, <1>4
  <2> HIDE DEF u, F
  <2>5. /\ Only(ele, F, e) /\ F[e].fresh /\ F[e].cop = c /\ Under(F[e]) /\ ~F[e].call /\ ~F[e].fn /\ F[e].refc = 1
        /\ F[e].st = ele[e].st
    BY <1>1, <1>2, <1>4, <2>3 DEF Becomes, Under, Doing
  <2> QED BY <1>1, <1>2, <2>1, <2>2, <2>4, <2>5, YieldStep
<1> QED BY <1>3, <1>4

\* A sleeper waits for a timer of its own.
LEMMA SleepKeeps ==
  ASSUME CInv, NEW c \in Co, NEW t \in Tmrs, Sleep(c, t)
  PROVE  Kept
<1> DEFINE n == [NoEle EXCEPT !.st = "doing", !.refc = 1]
           g == [ele EXCEPT ![t] = n]
           F == Awaits(g, t, c)
           u == Waits(Rt, c, t, t)
<1>1. /\ cur = c /\ ele[t].st = "none" /\ ele' = F /\ Runs(SwitchBack(u, c, "suspend"))
      /\ UNCHANGED <<ready, answer>>
  BY DEF Sleep, Call, Yield, Waits
<1>2. t \in Ele /\ t \notin Ios /\ t \notin Ctcs
  BY Constants
<1>3. ~ele[t].fresh /\ \A d \in Co : co[d].job # t
  BY <1>1, <1>2, Parts DEF HandleAt, Under, JobAt
<1>4. n \in Elem /\ n.st = "doing" /\ ~n.fn /\ ~n.call /\ n.refc = 1
  BY DEF NoEle, Elem
<1> HIDE DEF n
<1>5. Only(ele, g, t) /\ g[t] = n
  BY <1>2, <1>4, Parts, SetEle
<1> HIDE DEF g
<1>6. Becomes(g, F, t, g[t].st, c, TRUE, g[t].fn, g[t].call, g[t].refc)
  BY <1>2, <1>5, AwaitsEffect DEF Only
<1> HIDE DEF F
<1>7. /\ Only(ele, F, t) /\ F[t].fresh /\ F[t].cop = c /\ Under(F[t]) /\ ~F[t].call /\ ~F[t].fn /\ F[t].refc = 1
  BY <1>4, <1>5, <1>6 DEF Becomes, Under, Only
<1>8. PICK r : Marks(Rt, u, c, r) /\ r.wait = t /\ r.own = t
  BY <1>2, Parts, WaitEffect
<1> HIDE DEF u
<1> QED BY <1>1, <1>2, <1>3, <1>7, <1>8, YieldStep

-----------------------------------------------------------------------------
(* Starting coroutines *)

\* Note the state of a server's coroutine.
Serves(x, c, v) == [x EXCEPT !.co[c].server = v]

\* The state of a server is no concern of the runtime.
LEMMA ServerMark ==
  ASSUME NEW x, NEW c \in Co, Runtime(x), c = x.cur, NEW v \in {"no", "accept", "got", "stop"},
         v # "no" => x.co[c].server # "no"
  PROVE  LET u == Serves(x, c, v) IN
         /\ Runtime(u) /\ Moves(x, u, c) /\ Blocks(u) = Blocks(x)
         /\ \A d \in Co : u.co[d].own = x.co[d].own /\ u.co[d].job = x.co[d].job
         /\ \A d \in Co : Awaiting(u, d) <=> Awaiting(x, d)
<1> DEFINE r == [x.co[c] EXCEPT !.server = v]
           u == [x EXCEPT !.co[c] = r]
<1>1. x \in Runtimes /\ c \in Corous /\ x.co[c] \in Corou /\ Chain(x) /\ x.co[c].st = "running" /\ Pooled(x)
     /\ x.pool \in Seq(Co) /\ \A d \in Co : d \in Corous
  BY DEF Runtime, Runtimes, Corous, Chain
<1>2. r \in Corou
  BY <1>1 DEF Corou
<1>3. /\ r.st = "running" /\ r.prev = x.co[c].prev /\ r.wrap = x.co[c].wrap /\ r.delater = x.co[c].delater
      /\ r.wait = x.co[c].wait /\ r.own = x.co[c].own /\ r.job = x.co[c].job
      /\ (r.server # "no" => x.co[c].server # "no")
  BY <1>1 DEF Corou
<1> HIDE DEF r
<1>4. Put(x, u, c, r) /\ u.pool = x.pool
  BY <1>1, <1>2, PutEffect
<1>5. u = Serves(x, c, v)
  BY DEF r, Serves
<1> HIDE DEF u
<1>6. u \in Runtimes /\ u.cur = x.cur /\ u.co[c] = r /\ \A d \in Corous : d # c => u.co[d] = x.co[d]
  BY <1>4 DEF Put
<1>7. \A d \in Corous : /\ u.co[d].st = x.co[d].st /\ u.co[d].prev = x.co[d].prev /\ u.co[d].wait = x.co[d].wait
                        /\ u.co[d].own = x.co[d].own /\ u.co[d].job = x.co[d].job
  BY <1>1, <1>3, <1>6
<1>8. \A d : Inside(u, d) <=> Inside(x, d)
  BY <1>1, <1>6, <1>7 DEF Inside
<1>9. x.cur \in Corous
  BY <1>1 DEF Runtimes
<1>10. Chain(u)
  BY <1>1, <1>6, <1>7, <1>8, <1>9 DEF Chain
<1>11. Pooled(u)
  <2>1. \A i \in DOMAIN x.pool : x.pool[i] \in Corous
    BY <1>1
  <2> QED BY <1>1, <1>4, <1>7, <2>1 DEF Pooled
<1>12. \A d \in Co : Shaped(u.co[d])
  <2>1. Shaped(r)
    BY <1>1, <1>3 DEF Runtime, Shaped
  <2> QED BY <1>1, <1>6, <2>1 DEF Runtime
<1>13. Runtime(u)
  BY <1>6, <1>10, <1>11, <1>12 DEF Runtime
<1>14. Blocks(u) = Blocks(x)
  BY <1>1, <1>4, <1>7 DEF Blocks
<1>15. Moves(x, u, c) /\ \A d \in Co : Awaiting(u, d) <=> Awaiting(x, d)
  BY <1>1, <1>7 DEF Moves, Awaiting
<1> QED BY <1>1, <1>5, <1>7, <1>13, <1>14, <1>15

\* What depends on the server's state alone is untouched.
LEMMA ServerKeeps ==
  ASSUME CInv, NEW c \in Co, cur = c, NEW v \in {"no", "accept", "got", "stop"}, v # "no" => co[c].server # "no",
         NEW u, u = Serves(Rt, c, v)
  PROVE  /\ Runtime(u) /\ Mixed(u, ele, ready) /\ Blocks(u) = Blocks(Rt)
         /\ \A d \in Co : u.co[d].own = co[d].own /\ u.co[d].job = co[d].job
<1>1. /\ Runtime(u) /\ Moves(Rt, u, c) /\ Blocks(u) = Blocks(Rt)
      /\ \A d \in Co : u.co[d].own = Rt.co[d].own /\ u.co[d].job = Rt.co[d].job
      /\ \A d \in Co : Awaiting(u, d) <=> Awaiting(Rt, d)
  BY Parts, RtFields, ServerMark
<1>2. Rt.co[c].st = "running" /\ Rt.co[c].own = None
  BY Parts, RtFields, RunningLive
<1>3. u \in Runtimes /\ Rt \in Runtimes /\ c \in Corous /\ ~Awaiting(Rt, c) /\ OwnAt(u, c, ele)
  BY <1>1, <1>2, Parts DEF Runtime, Corous, Awaiting, OwnAt
<1>4. Only(ele, ele, None) /\ Drawn(ready, ready, None) /\ \A d \in Co : JobAt(None, ele, ready)
  BY Parts, Constants DEF Only, Drawn, JobAt
<1>5. Mixed(Rt, ele, ready) /\ ele \in [Ele -> Elem]
  BY Parts
<1>6. Mixed(u, ele, ready)
  BY <1>1, <1>3, <1>4, <1>5, Constants, MixedKept
<1> QED BY <1>1, <1>6, RtFields

\* A coroutine is started, for an element or none.
LEMMA StartKeeps ==
  ASSUME CInv, NEW x, Runtime(x), Mixed(x, ele, ready), NEW d \in Blocks(x), NEW j \in Ele \cup {None},
         NEW s \in {"no", "accept"}, s # "no" => j \in Ios,
         NEW F, NEW q, Only(ele, F, j), Queued(F, q), Drawn(q, ready, j),
         j \in Ele => Sound(j, F[j]) /\ ~F[j].fresh,
         \A a \in Co : x.co[a].own # None => x.co[a].own # j,
         j # None => \A a \in Co : x.co[a].job # j,
         JobAt(j, F, q)
  PROVE  LET y == Wrap(x, d, j, s) IN
         y \in Runtimes /\ Runtime(y) /\ Elements(F) /\ Queued(F, q) /\ Mixed(y, F, q)
<1> DEFINE y == Wrap(x, d, j, s)
<1>1. /\ d \in Co /\ x.co[d].st \in {"none", "dead"}
      /\ Runtime(y) /\ Moves(x, y, d) /\ y.co[d].own = None /\ y.co[d].job = j
  BY WrapKeeps
<1> HIDE DEF y
<1>2. x \in Runtimes /\ y \in Runtimes /\ d \in Corous /\ ~Awaiting(x, d) /\ OwnAt(y, d, F)
  BY <1>1 DEF Runtime, Corous, Awaiting, OwnAt
<1>3. j \in Ele => HandleAt(y, j, F[j])
  BY DEF HandleAt
<1>4. Mixed(y, F, q)
  <2>1. ele \in [Ele -> Elem]
    BY Parts
  <2> QED BY <1>1, <1>2, <1>3, <2>1, MixedKept
<1>5. Elements(F)
  BY Parts, ElementsKept
<1> QED BY <1>1, <1>2, <1>4, <1>5 DEF y

\* Only the element of a new coroutine is new to it.
LEMMA SpawnKeeps ==
  ASSUME CInv, NEW c \in Co, NEW j \in Ios \cup {None}, Spawn(c, j),
         j # None => ele[j].st = "idle" /\ \A d \in Co : co[d].job # j
  PROVE  Kept
<1> DEFINE v == IF co[c].server = "got" THEN "accept" ELSE co[c].server
           u == Serves(Rt, c, v)
           s == IF j = None THEN "no" ELSE "accept"
<1>1. cur = c /\ UNCHANGED <<ele, ready, answer>>
  BY DEF Spawn, Call
<1>2. PICK d \in Blocks(Rt) : Runs(Wrap(u, d, j, s))
  BY RtFields DEF Spawn, Serves
<1>3. v \in {"no", "accept", "got", "stop"} /\ (v # "no" => co[c].server # "no")
  BY Parts DEF Corou
<1> HIDE DEF v
<1>4. /\ Runtime(u) /\ Mixed(u, ele, ready) /\ Blocks(u) = Blocks(Rt)
      /\ \A a \in Co : u.co[a].own = co[a].own /\ u.co[a].job = co[a].job
  BY <1>1, <1>3, ServerKeeps
<1> HIDE DEF u
<1>5. s \in {"no", "accept"} /\ (s # "no" => j \in Ios) /\ j \in Ele \cup {None}
  BY Constants
<1> HIDE DEF s
<1>6. Only(ele, ele, j) /\ Queued(ele, ready) /\ Drawn(ready, ready, j)
  BY Parts DEF Only, Drawn
<1>7. j \in Ele => Sound(j, ele[j]) /\ ~ele[j].fresh
  BY Parts, Constants DEF HandleAt, Under
<1>8. \A a \in Co : u.co[a].own # None => u.co[a].own # j
  BY <1>4, <1>7, NoOwner, Constants, Parts DEF Corou
<1>9. JobAt(j, ele, ready)
  BY Parts, Constants DEF JobAt, Sound
<1> DEFINE y == Wrap(u, d, j, s)
<1>10. y \in Runtimes /\ Runtime(y) /\ Elements(ele) /\ Queued(ele, ready) /\ Mixed(y, ele, ready)
  BY <1>2, <1>4, <1>5, <1>6, <1>7, <1>8, <1>9, StartKeeps
<1> HIDE DEF y
<1>11. Rt' = y
  BY <1>2, <1>10, RunsIs DEF y
<1> QED BY <1>1, <1>10, <1>11, Parts DEF Kept

\* hdr->init is started in a coroutine.
LEMMA RunAppKeeps ==
  ASSUME CInv, RunApp
  PROVE  Kept
<1>1. UNCHANGED <<ele, ready, answer>>
  BY DEF RunApp
<1>2. PICK d \in Blocks(Rt) : Runs(Wrap(Rt, d, None, "no"))
  BY DEF RunApp
<1>3. Only(ele, ele, None) /\ Queued(ele, ready) /\ Drawn(ready, ready, None) /\ JobAt(None, ele, ready)
  BY Parts, Constants DEF Only, Drawn, JobAt
<1> DEFINE y == Wrap(Rt, d, None, "no")
<1>4. y \in Runtimes /\ Runtime(y) /\ Elements(ele) /\ Queued(ele, ready) /\ Mixed(y, ele, ready)
  BY <1>3, Parts, Constants, StartKeeps
<1> HIDE DEF y
<1>5. Rt' = y
  BY <1>2, <1>4, RunsIs DEF y
<1> QED BY <1>1, <1>4, <1>5, Parts DEF Kept

-----------------------------------------------------------------------------
(* The other operations of a coroutine *)

\* dpcwc_ctc_each submits a call.
LEMMA EachAddKeeps ==
  ASSUME CInv, NEW c \in Co, NEW e \in Ctcs, EachAdd(c, e)
  PROVE  Kept
<1> DEFINE F == Add(ele, e)
<1>1. ele[e].st = "idle" /\ ele' = F /\ UNCHANGED <<co, cur, pool, ready, answer>>
  BY DEF EachAdd
<1>2. e \in Ele /\ ~ele[e].fresh /\ ~ele[e].fn /\ ~ele[e].call /\ ele[e].refc = 1
     /\ \A d \in Co : co[d].job = e => e \in Ios
  BY <1>1, IdleEle
<1>3. e \notin Ios /\ e \notin Tmrs
  BY <1>2, Constants
<1>4. Becomes(ele, F, e, "doing", IF e \in Ctcs THEN None ELSE ele[e].cop, ele[e].fresh, ele[e].fn, ele[e].call,
              ele[e].refc)
  BY <1>2, Parts, AddEffect
<1> HIDE DEF F
<1>5. Only(ele, F, e) /\ F[e].st = "doing" /\ F[e].cop = None /\ ~F[e].fresh /\ ~F[e].fn /\ ~F[e].call /\ F[e].refc = 1
  BY <1>2, <1>4 DEF Becomes
<1>6. Sound(e, F[e]) /\ HandleAt(Rt, e, F[e])
  BY <1>3, <1>5 DEF Sound, HandleAt
<1>7. Queued(F, ready) /\ Drawn(ready, ready, e)
  BY <1>1, <1>5, Parts, QueueSame
<1>8. \A d \in Co : co[d].own # e
  BY <1>2, NoOwner, Constants
<1>9. Runtime(Rt) /\ Elements(F) /\ Queued(F, ready) /\ Mixed(Rt, F, ready)
  BY <1>2, <1>3, <1>5, <1>6, <1>7, <1>8, QuietKeeps
<1> QED BY <1>1, <1>9, Parts DEF Kept, Rt

\* A timer with a callback is set.
LEMMA TimerKeeps ==
  ASSUME CInv, NEW c \in Co, NEW t \in Tmrs, NEW keep \in BOOLEAN, Timer(c, t, keep)
  PROVE  Kept
<1> DEFINE n == [NoEle EXCEPT !.st = "doing", !.fn = TRUE, !.refc = IF keep THEN 2 ELSE 1]
           F == [ele EXCEPT ![t] = n]
<1>1. ele[t].st = "none" /\ ele' = F /\ UNCHANGED <<co, cur, pool, ready, answer>>
  BY DEF Timer
<1>2. t \in Ele /\ t \notin Ios /\ t \notin Ctcs
  BY Constants
<1>3. ~ele[t].fresh /\ \A d \in Co : co[d].job # t
  BY <1>1, <1>2, Parts DEF HandleAt, Under, JobAt
<1>4. n \in Elem /\ n.st = "doing" /\ n.cop = None /\ n.fn /\ ~n.call /\ n.refc \in {1, 2} /\ ~n.fresh
  BY DEF NoEle, Elem
<1> HIDE DEF n
<1>5. Only(ele, F, t) /\ F[t] = n
  BY <1>2, <1>4, Parts, SetEle
<1> HIDE DEF F
<1>6. Sound(t, F[t]) /\ HandleAt(Rt, t, F[t])
  BY <1>2, <1>4, <1>5 DEF Sound, HandleAt
<1>7. Queued(F, ready) /\ Drawn(ready, ready, t)
  BY <1>1, <1>5, Parts, QueueSame
<1>8. \A d \in Co : co[d].own # t
  BY <1>2, <1>3, NoOwner, Constants
<1>9. Runtime(Rt) /\ Elements(F) /\ Queued(F, ready) /\ Mixed(Rt, F, ready)
  BY <1>2, <1>3, <1>5, <1>6, <1>7, <1>8, QuietKeeps
<1> QED BY <1>1, <1>9, Parts DEF Kept, Rt

\* The caller gives its reference to a timer back.
LEMMA DelTimerKeeps ==
  ASSUME CInv, NEW c \in Co, NEW t \in Tmrs, DelTimer(c, t)
  PROVE  Kept
<1> DEFINE F == Del(ele, t)
<1>1. /\ ele[t].fn /\ ele' = F /\ UNCHANGED <<co, cur, pool, ready, answer>>
      /\ ele[t].refc = 2 \/ (ele[t].st = "idle" /\ \A d \in Co : co[d].job # t)
  BY DEF DelTimer
<1>2. t \in Ele /\ t \notin Ios /\ t \notin Ctcs
  BY Constants
<1>3. ele[t].refc \in {1, 2} /\ ~ele[t].fresh /\ ~ele[t].call /\ ele[t].refc # 0
  BY <1>1, <1>2, Parts DEF Sound
<1>11. F = Del(ele, t)
  OBVIOUS
<1> HIDE DEF F
<1>4. \/ /\ ele[t].refc = 1 /\ ele[t].st = "idle"
         /\ Becomes(ele, F, t, "none", None, FALSE, FALSE, FALSE, 0)
      \/ /\ ~(ele[t].refc = 1 /\ ele[t].st = "idle")
         /\ Becomes(ele, F, t, ele[t].st, ele[t].cop, ele[t].fresh, ele[t].fn, ele[t].call, ele[t].refc - 1)
  BY <1>2, <1>3, <1>11, Parts, DelEffect
<1>5. /\ Only(ele, F, t) /\ ~F[t].fresh /\ ~F[t].call
      /\ F[t].st = ele[t].st \/ (ele[t].st = "idle" /\ F[t].st = "none")
      /\ F[t].cop = ele[t].cop \/ F[t].cop = None
      /\ F[t].fn => F[t].refc = 1 /\ F[t].st = ele[t].st
      /\ ele[t].refc = 2 => F[t].fn
  <2>1. CASE Becomes(ele, F, t, "none", None, FALSE, FALSE, FALSE, 0) /\ ele[t].refc = 1 /\ ele[t].st = "idle"
    BY <2>1 DEF Becomes
  <2>2. CASE Becomes(ele, F, t, ele[t].st, ele[t].cop, ele[t].fresh, ele[t].fn, ele[t].call, ele[t].refc - 1)
             /\ ~(ele[t].refc = 1 /\ ele[t].st = "idle")
    <3>1. ele[t].refc = 2
      BY <1>1, <1>3, <2>2
    <3> QED BY <1>1, <1>3, <2>2, <3>1 DEF Becomes
  <2> QED BY <1>4, <2>1, <2>2
<1>6. Sound(t, F[t]) /\ HandleAt(Rt, t, F[t])
  <2>1. bind # "lua" /\ Under(ele[t]) => ele[t].cop = None
    BY <1>2, <1>3, Parts DEF Sound
  <2>2. Under(F[t]) => Under(ele[t])
    BY <1>5 DEF Under
  <2> QED BY <1>2, <1>5, <2>1, <2>2 DEF Sound, HandleAt
<1>7. Queued(F, ready) /\ Drawn(ready, ready, t)
  <2>1. ele[t].st # "ready" \/ F[t].st = "ready"
    BY <1>5
  <2> QED BY <1>5, <2>1, Parts, QueueSame
<1>8. \A d \in Co : co[d].own # t
  BY <1>2, <1>3, NoOwner, Constants
<1>9. \A d \in Co : co[d].job = t => JobAt(t, F, ready)
  BY <1>1, <1>2, <1>5, Parts DEF JobAt
<1>10. Runtime(Rt) /\ Elements(F) /\ Queued(F, ready) /\ Mixed(Rt, F, ready)
  BY <1>2, <1>5, <1>6, <1>7, <1>8, <1>9, QuietKeeps
<1> QED BY <1>1, <1>10, Parts DEF Kept, Rt

\* The element of a coroutine that returns.
LEMMA JobEle ==
  ASSUME CInv, NEW c \in Co, NEW j \in Ele, j = co[c].job
  PROVE  /\ ele[j].refc # 0 /\ (ele[j].fn <=> j \in Tmrs) /\ (j \in Tmrs => ~ele[j].fresh)
         /\ \A d \in Co : co[d].own # j
<1>1. JobAt(j, ele, ready) /\ Sound(j, ele[j]) /\ HandleAt(Rt, j, ele[j])
  BY Parts
<1>2. ele[j].refc # 0 /\ (ele[j].fn <=> j \in Tmrs) /\ (j \in Tmrs => ~ele[j].fresh)
  BY <1>1 DEF JobAt, Sound, Ele
<1>3. ASSUME NEW d \in Co, co[d].own = j PROVE FALSE
  <2>1. j \in Tmrs /\ OwnAt(Rt, d, ele) /\ j # None
    BY <1>3, Parts, Constants DEF Corou
  <2> QED BY <1>2, <1>3, <2>1, RtFields DEF OwnAt
<1> QED BY <1>2, <1>3

\* One element changed that is not queued.
LEMMA QueueAbsent ==
  ASSUME NEW E, NEW F, NEW e, NEW q, Queued(E, q), Only(E, F, e), \A i \in DOMAIN q : q[i] # e
  PROVE  Queued(F, q) /\ Drawn(q, q, e)
<1>1. \A i \in DOMAIN q : q[i] \in Ele
  BY DEF Queued
<1> QED BY <1>1 DEF Queued, Only, Drawn

\* A coroutine returns and drops what it was started for.
LEMMA ReturnKeeps ==
  ASSUME CInv, NEW c \in Co, Return(c)
  PROVE  Kept
<1> DEFINE j == co[c].job
           y == SwitchBack(Rt, c, "dead")
           home == [NoEle EXCEPT !.st = "idle", !.refc = 1]
           F == IF j = None THEN ele
                ELSE IF j \in Tmrs \cup Ios THEN Del(ele, j)
                ELSE [ele EXCEPT ![j] = home]
<1>1. cur = c /\ Runs(y) /\ ele' = F /\ UNCHANGED <<ready, answer>>
  BY DEF Return
<1>2. Runtime(Rt) /\ c = Rt.cur /\ Rt \in Runtimes /\ j \in Ele \cup {None} /\ c \in Corous
  BY <1>1, Parts, RtFields DEF Corou
<1>3. Runtime(y) /\ Moves(Rt, y, c) /\ y.co[c].own = None /\ y.co[c].job = None
  BY <1>2, EndKeeps
<1>4. Rt.co[c].st = "running" /\ ~Awaiting(Rt, c)
  BY <1>2, RunningLive DEF Awaiting
<1> HIDE DEF y
<1>5. y \in Runtimes /\ OwnAt(y, c, F)
  BY <1>3 DEF Runtime, OwnAt
<1>6. /\ Only(ele, F, j) /\ Queued(F, ready) /\ Drawn(ready, ready, j)
      /\ j \in Ele => Sound(j, F[j]) /\ (F[j].fresh => ele[j].fresh /\ F[j].cop = ele[j].cop /\ F[j].st = ele[j].st)
  <2>1. CASE j = None
    <3>1. F = ele
      BY <2>1
    <3> HIDE DEF F
    <3> QED BY <2>1, <3>1, Parts, Constants DEF Only, Drawn
  <2>2. CASE j \in Tmrs \cup Ios
    <3>1. F = Del(ele, j) /\ j \in Ele /\ j \notin Ctcs
      BY <2>2, Constants
    <3>2. ele[j].refc # 0 /\ (ele[j].fn <=> j \in Tmrs) /\ (j \in Tmrs => ~ele[j].fresh)
      BY <3>1, JobEle
    <3>3. JobAt(j, ele, ready) /\ Sound(j, ele[j])
      BY <3>1, Parts
    <3> HIDE DEF F
    <3>4. \/ /\ ele[j].refc = 1 /\ ele[j].st = "idle"
             /\ Becomes(ele, F, j, "none", None, FALSE, FALSE, FALSE, 0)
          \/ /\ ~(ele[j].refc = 1 /\ ele[j].st = "idle")
             /\ Becomes(ele, F, j, ele[j].st, ele[j].cop, ele[j].fresh, ele[j].fn, ele[j].call, ele[j].refc - 1)
      BY <3>1, <3>2, Parts, DelEffect
    <3> HIDE DEF j
    <3>5. CASE /\ ele[j].st = "idle"
               /\ Becomes(ele, F, j, "none", None, FALSE, FALSE, FALSE, 0)
      <4>1. Only(ele, F, j) /\ F[j].st = "none" /\ F[j].cop = None /\ ~F[j].fresh /\ ~F[j].fn /\ ~F[j].call /\ F[j].refc = 0
        BY <3>5 DEF Becomes
      <4>2. Sound(j, F[j])
        BY <3>1, <4>1 DEF Sound
      <4>3. Queued(F, ready) /\ Drawn(ready, ready, j)
        BY <3>5, <4>1, Parts, QueueSame
      <4> QED BY <4>1, <4>2, <4>3
    <3>6. CASE /\ ~(ele[j].refc = 1 /\ ele[j].st = "idle")
               /\ Becomes(ele, F, j, ele[j].st, ele[j].cop, ele[j].fresh, ele[j].fn, ele[j].call, ele[j].refc - 1)
      <4>1. /\ Only(ele, F, j) /\ F[j].st = ele[j].st /\ F[j].cop = ele[j].cop /\ F[j].fresh = ele[j].fresh
            /\ F[j].fn = ele[j].fn /\ F[j].call = ele[j].call /\ F[j].refc = ele[j].refc - 1
        BY <3>6 DEF Becomes
      <4>2. j \in Tmrs => ele[j].refc = 2
        BY <3>2, <3>3, <3>6 DEF JobAt, Sound
      <4>3. j \in Ios => ele[j].refc = 1
        BY <3>3 DEF JobAt
      <4>4. Sound(j, F[j])
        BY <3>1, <3>2, <3>3, <3>6, <4>1, <4>2, <4>3, Constants DEF Sound, Under
      <4>5. Queued(F, ready) /\ Drawn(ready, ready, j)
        BY <4>1, Parts, QueueSame
      <4> QED BY <4>1, <4>4, <4>5
    <3> QED BY <3>4, <3>5, <3>6
  <2>3. CASE j \in Ctcs
    <3>1. j \in Ele /\ j \notin Tmrs /\ j \notin Ios /\ j # None
      BY <2>3, Constants
    <3>2. F = [ele EXCEPT ![j] = home]
      BY <3>1
    <3>3. home \in Elem /\ home.st = "idle" /\ home.cop = None /\ ~home.fresh /\ ~home.fn /\ ~home.call /\ home.refc = 1
      BY DEF NoEle, Elem
    <3> HIDE DEF home, F
    <3>4. Only(ele, F, j) /\ F[j] = home
      BY <3>1, <3>2, <3>3, Parts, SetEle
    <3>5. JobAt(j, ele, ready)
      BY Parts
    <3>6. Queued(F, ready) /\ Drawn(ready, ready, j)
      BY <2>3, <3>4, <3>5, Parts, QueueAbsent DEF JobAt
    <3> QED BY <3>1, <3>3, <3>4, <3>6 DEF Sound
  <2> QED BY <1>2, <2>1, <2>2, <2>3 DEF Ele
<1> HIDE DEF F
<1>7. j \in Ele => HandleAt(y, j, F[j])
  <2> SUFFICES ASSUME j \in Ele, F[j].fresh PROVE HandleAt(y, j, F[j])
    BY DEF HandleAt
  <2>1. ele[j].fresh /\ F[j].cop = ele[j].cop /\ F[j].st = ele[j].st /\ HandleAt(Rt, j, ele[j]) /\ j # None
    BY <1>6, Parts, Constants
  <2> DEFINE k == ele[j].cop
  <2> HIDE DEF j
  <2>2. Under(ele[j]) /\ k \in Co /\ Awaiting(Rt, k) /\ Rt.co[k].wait = j
    BY <2>1 DEF HandleAt, Awaiting
  <2>3. y.co[k].st = "suspend" /\ y.co[k].wait = j
    BY <1>3, <1>4, <2>2 DEF Moves
  <2> QED BY <2>1, <2>2, <2>3 DEF HandleAt, Under
<1>8. \A d \in Co : d # c /\ Rt.co[d].own # None => Rt.co[d].own # j
  <2>1. j \in Ele => \A d \in Co : co[d].own # j
    BY JobEle
  <2> QED BY <1>2, <2>1, RtFields
<1>9. \A d \in Co : y.co[d].job = j => JobAt(j, F, ready)
  <2> SUFFICES ASSUME NEW d \in Co, y.co[d].job = j, j # None PROVE FALSE
    BY Constants DEF JobAt
  <2>1. d # c /\ Rt.co[d].job = Rt.co[c].job /\ Rt.co[c].job # None
    BY <1>3, RtFields DEF Moves
  <2> QED BY <2>1, Parts DEF Mixed
<1>10. Mixed(y, F, ready)
  <2>1. ele \in [Ele -> Elem] /\ Mixed(Rt, ele, ready)
    BY Parts
  <2> HIDE DEF j
  <2> QED BY <1>2, <1>3, <1>4, <1>5, <1>6, <1>7, <1>8, <1>9, <2>1, MixedKept
<1>11. Elements(F)
  BY <1>6, Parts, ElementsKept
<1>12. Rt' = y
  BY <1>1, <1>5, RunsIs
<1> QED BY <1>1, <1>3, <1>6, <1>10, <1>11, <1>12, Parts DEF Kept

\* Note the listener a server waits for.
Accepts(x, c, e) == [x EXCEPT !.co[c].wait = e, !.co[c].server = "got"]

\* Accepts marks the coroutine and nothing else.
LEMMA AcceptEffect ==
  ASSUME NEW x \in Runtimes, NEW c \in Co, NEW e \in Ele, x.co[c].server # "no", x.co[c].own = None
  PROVE  \E r : Marks(x, Accepts(x, c, e), c, r) /\ r.wait = e /\ r.own = None
<1> DEFINE g == [x.co[c] EXCEPT !.wait = e]
           r == [g EXCEPT !.server = "got"]
           v == [x EXCEPT !.co[c] = g]
           u == [v EXCEPT !.co[c] = [v.co[c] EXCEPT !.server = "got"]]
<1>1. c \in Corous /\ x.co[c] \in Corou
  BY DEF Runtimes, Corous
<1>2. g \in Corou /\ r \in Corou
  BY <1>1 DEF Corou
<1>3. /\ r.st = x.co[c].st /\ r.prev = x.co[c].prev /\ r.wrap = x.co[c].wrap /\ r.delater = x.co[c].delater
      /\ r.job = x.co[c].job /\ r.wait = e /\ r.own = None
  BY <1>1 DEF Corou
<1>4. u = Accepts(x, c, e)
  BY DEF Accepts
<1> HIDE DEF g
<1>5. Put(x, v, c, g) /\ v.pool = x.pool
  BY <1>1, <1>2, PutEffect
<1> HIDE DEF v
<1>6. v \in Runtimes /\ [v.co[c] EXCEPT !.server = "got"] = r
  BY <1>5 DEF Put
<1> HIDE DEF r
<1>7. Put(v, u, c, r) /\ u.pool = v.pool
  BY <1>1, <1>2, <1>6, PutEffect
<1> HIDE DEF u
<1>8. Put(x, u, c, r)
  BY <1>5, <1>7 DEF Put
<1>9. Marked(x, c, r)
  BY <1>2, <1>3, Constants DEF Marked
<1>10. Marks(x, u, c, r) /\ r.wait = e /\ r.own = None
  BY <1>3, <1>5, <1>7, <1>8, <1>9 DEF Marks
<1> QED BY <1>4, <1>10

\* A server accepts, starts a coroutine for the peer, or stops.
LEMMA AcceptKeeps ==
  ASSUME CInv, NEW c \in Co, cur = c, AcceptLoop(c)
  PROVE  Kept
<1> DEFINE e == co[c].job
           F == Awaits(Add(ele, e), e, c)
           u == Accepts(Rt, c, e)
           w == Serves(Rt, c, "stop")
<1>1. \/ /\ co[c].server = "accept" /\ ele[e].st = "idle" /\ ele' = F
         /\ Runs(SwitchBack(u, c, "suspend")) /\ UNCHANGED <<ready, answer>>
      \/ co[c].server = "accept" /\ Runs(w) /\ UNCHANGED <<ele, ready, answer>>
      \/ Spawn(c, None)
      \/ Return(c)
  BY DEF AcceptLoop, Accepts, Serves
<1>2. CASE /\ co[c].server = "accept" /\ ele[e].st = "idle" /\ ele' = F
           /\ Runs(SwitchBack(u, c, "suspend")) /\ UNCHANGED <<ready, answer>>
  <2>1. /\ Rt \in Runtimes /\ Rt.co[c].own = None /\ Shaped(Rt.co[c])
    BY Parts, RtFields, RunningLive
  <2>2. e \in Ios /\ e \in Ele
    BY <1>2, <2>1, RtFields, Constants DEF Shaped
  <2>3. ~ele[e].fresh /\ ~ele[e].fn /\ ~ele[e].call /\ ele[e].refc = 1
    BY <1>2, <2>2, IdleEle
  <2>4. Becomes(ele, F, e, "doing", c, TRUE, ele[e].fn, ele[e].call, ele[e].refc)
    BY <2>2, AddAwaitsEffect
  <2> HIDE DEF F, e
  <2>5. PICK r : Marks(Rt, u, c, r) /\ r.wait = e /\ r.own = None
    BY <1>2, <2>1, <2>2, RtFields, AcceptEffect
  <2> HIDE DEF u
  <2>6. /\ Only(ele, F, e) /\ F[e].fresh /\ F[e].cop = c /\ Under(F[e]) /\ ~F[e].call /\ ~F[e].fn /\ F[e].refc = 1
    BY <2>3, <2>4 DEF Becomes, Under
  <2>7. JobAt(e, F, ready)
    BY <2>2, <2>6, Constants DEF JobAt
  <2> QED BY <1>2, <2>2, <2>3, <2>5, <2>6, <2>7, YieldStep
<1>3. CASE co[c].server = "accept" /\ Runs(w) /\ UNCHANGED <<ele, ready, answer>>
  <2>1. Runtime(w) /\ Mixed(w, ele, ready)
    BY <1>3, ServerKeeps
  <2> HIDE DEF w
  <2>2. Rt' = w
    BY <1>3, <2>1, RunsIs DEF Runtime
  <2> QED BY <1>3, <2>1, <2>2, Parts DEF Kept
<1>4. CASE Spawn(c, None)
  BY <1>4, SpawnKeeps
<1>5. CASE Return(c)
  BY <1>5, ReturnKeeps
<1> QED BY <1>1, <1>2, <1>3, <1>4, <1>5

\* Lua takes a handle out of its table, so that ceasing wakes just whoever waits.
LEMMA CeaseKeeps ==
  ASSUME CInv, CeaseIn \subseteq {"lua"}, NEW c \in Co, NEW e \in Ele, Cease(c, e)
  PROVE  Kept
<1> DEFINE es == IF Doing(e) /\ e \notin Ctcs THEN [ele EXCEPT ![e].st = "ready"] ELSE ele
           q == IF ele[e].st = "doing" /\ e \notin Ctcs THEN Append(ready, e) ELSE ready
<1>1. bind = "lua" /\ ~ele[e].fn /\ ~ele[e].call /\ ready' = q /\ Wake(es, e)
  BY DEF Cease
<1>2. /\ Becomes(ele, es, e, es[e].st, ele[e].cop, ele[e].fresh, ele[e].fn, ele[e].call, ele[e].refc)
      /\ es \in [Ele -> Elem] /\ Queued(es, q) /\ Drawn(q, ready, e)
      /\ es[e].st = "idle" => ele[e].st = "idle"
  <2>1. CASE Doing(e) /\ e \notin Ctcs
    <3>1. es = [ele EXCEPT ![e].st = "ready"]
      BY <2>1
    <3> HIDE DEF es
    <3>2. Becomes(ele, es, e, "ready", ele[e].cop, ele[e].fresh, ele[e].fn, ele[e].call, ele[e].refc)
      BY <3>1, Parts, StEffect
    <3>3. Only(ele, es, e) /\ es[e].st = "ready" /\ es \in [Ele -> Elem]
      BY <3>2 DEF Becomes, Only
    <3>4. CASE ele[e].st = "doing"
      <4>1. q = Append(ready, e)
        BY <2>1, <3>4
      <4> HIDE DEF q
      <4>2. Queued(es, q) /\ Drawn(q, ready, e)
        BY <3>3, <3>4, <4>1, Parts, QueueAppend
      <4> QED BY <3>2, <3>3, <4>2
    <3>5. CASE ele[e].st # "doing"
      <4>1. q = ready
        BY <3>5
      <4> HIDE DEF q
      <4>2. Queued(es, q) /\ Drawn(q, ready, e)
        BY <3>3, <4>1, Parts, QueueSame
      <4> QED BY <3>2, <3>3, <4>2
    <3> QED BY <3>4, <3>5
  <2>2. CASE ~(Doing(e) /\ e \notin Ctcs)
    <3>1. es = ele /\ q = ready
      BY <2>2 DEF Doing
    <3> HIDE DEF es, q
    <3>2. Only(ele, es, e) /\ es \in [Ele -> Elem]
      BY <3>1, Parts DEF Only
    <3>3. Queued(es, q) /\ Drawn(q, ready, e)
      BY <3>1, Parts DEF Drawn
    <3> QED BY <3>1, <3>2, <3>3 DEF Becomes
  <2> QED BY <2>1, <2>2
<1>3. e \in Ios /\ es[e].st = "idle" => ele[e].refc = 1
  BY <1>2, Parts DEF Sound
<1> HIDE DEF es, q
<1> QED BY <1>1, <1>2, <1>3, WakeKeeps

-----------------------------------------------------------------------------
(* The loop and its environment *)

\* An operation under way completes and is queued.
LEMMA CompleteKeeps ==
  ASSUME CInv, NEW e \in Ele, Complete(e)
  PROVE  Kept
<1> DEFINE F == [ele EXCEPT ![e].st = "ready"]
           q == Append(ready, e)
<1>1. ele[e].st = "doing" /\ ele' = F /\ ready' = q /\ UNCHANGED <<co, cur, pool, answer>>
  BY DEF Complete
<1>2. Becomes(ele, F, e, "ready", ele[e].cop, ele[e].fresh, ele[e].fn, ele[e].call, ele[e].refc)
  BY Parts, StEffect
<1> HIDE DEF F
<1>3. /\ Only(ele, F, e) /\ F[e].st = "ready" /\ F[e].cop = ele[e].cop /\ F[e].fresh = ele[e].fresh
      /\ F[e].fn = ele[e].fn /\ F[e].call = ele[e].call /\ F[e].refc = ele[e].refc
  BY <1>2 DEF Becomes
<1>4. Sound(e, F[e]) /\ HandleAt(Rt, e, F[e])
  BY <1>1, <1>3, Parts DEF Sound, HandleAt, Under
<1>5. Queued(F, q) /\ Drawn(q, ready, e)
  BY <1>1, <1>3, Parts, QueueAppend
<1>6. \A d \in Co : co[d].own = e => F[e].fresh /\ F[e].cop = d /\ ~F[e].fn /\ F[e].refc = 1
  <2>1. \A d \in Co : OwnAt(Rt, d, ele)
    BY Parts
  <2> QED BY <1>3, <2>1, RtFields, Constants DEF OwnAt
<1>7. \A d \in Co : co[d].job = e => JobAt(e, F, q)
  <2>1. ~ele[e].call
    BY <1>1, Parts DEF Sound
  <2> HIDE DEF q
  <2> QED BY <1>1, <1>3, <2>1, Parts DEF JobAt
<1> HIDE DEF q
<1>8. Runtime(Rt) /\ Elements(F) /\ Queued(F, q) /\ Mixed(Rt, F, q)
  BY <1>3, <1>4, <1>5, <1>6, <1>7, QuietKeeps
<1> QED BY <1>1, <1>8, Parts DEF Kept, Rt

\* A call of another thread is queued.
LEMMA ArriveKeeps ==
  ASSUME CInv, NEW e \in Ele, Arrive(e)
  PROVE  Kept
<1> DEFINE g == [ele EXCEPT ![e].st = "ready"]
           r == [ele[e] EXCEPT !.st = "ready", !.call = TRUE]
           F == [ele EXCEPT ![e] = r]
           q == Append(ready, e)
<1>1. /\ e \in Ctcs /\ ele[e].st = "idle" /\ ele[e].cop = None /\ ready' = q
      /\ ele' = F /\ UNCHANGED <<co, cur, pool, answer>>
  BY Parts DEF Arrive
<1>2. ~ele[e].fresh /\ ~ele[e].fn /\ ~ele[e].call /\ ele[e].refc = 1 /\ \A d \in Co : co[d].job = e => e \in Ios
  BY <1>1, IdleEle
<1>3. e \notin Ios /\ e \notin Tmrs
  BY <1>1, Constants
<1>4. r \in Elem /\ r.st = "ready" /\ r.cop = None /\ ~r.fresh /\ ~r.fn /\ r.call /\ r.refc = 1
  BY <1>1, <1>2, Parts DEF Elem
<1> HIDE DEF r
<1>5. Only(ele, F, e) /\ F[e] = r
  BY <1>4, Parts, SetEle
<1> HIDE DEF F
<1>6. Sound(e, F[e]) /\ HandleAt(Rt, e, F[e])
  BY <1>1, <1>3, <1>4, <1>5 DEF Sound, HandleAt
<1>7. Queued(F, q) /\ Drawn(q, ready, e)
  BY <1>1, <1>4, <1>5, Parts, QueueAppend
<1>8. \A d \in Co : co[d].own # e
  BY <1>2, NoOwner, Constants
<1> HIDE DEF q
<1>9. Runtime(Rt) /\ Elements(F) /\ Queued(F, q) /\ Mixed(Rt, F, q)
  BY <1>2, <1>3, <1>5, <1>6, <1>7, <1>8, QuietKeeps
<1> QED BY <1>1, <1>9, Parts DEF Kept, Rt

\* The loop frees an element, starts a coroutine for it, or wakes its waiter.
LEMMA StepKeeps ==
  ASSUME CInv, Step
  PROVE  Kept
<1> DEFINE e == Head(ready)
           q == Tail(ready)
           es == [ele EXCEPT ![e].st = "idle"]
           gone == [ele EXCEPT ![e] = NoEle]
<1>1. /\ ready # <<>> /\ ready' = q
      /\ IF ele[e].refc = 0
           THEN ele' = gone /\ Runs(Rt) /\ UNCHANGED answer
         ELSE IF ele[e].fn \/ ele[e].call
           THEN /\ \/ \E c \in Blocks(Rt) : Runs(Wrap(Rt, c, e, "no"))
                   \/ Runs(Rt)
                /\ ele' = IF ele[e].call THEN ele ELSE es
                /\ UNCHANGED answer
         ELSE Wake(es, e)
  BY DEF Step
<1>2. /\ e \in Ele /\ ele[e].st = "ready"
      /\ \A i \in DOMAIN q : q[i] # e
      /\ \E k \in DOMAIN ready : ready[k] = e
      /\ Drawn(q, ready, e)
  <2>1. Only(ele, ele, e) /\ Queued(ele, ready)
    BY Parts DEF Only
  <2> QED BY <1>1, <2>1, QueueTail
<1>3. \A F : Only(ele, F, e) => Queued(F, q)
  BY <1>1, Parts, QueueTail
<1> HIDE DEF q, e
<1>4. Becomes(ele, es, e, "idle", ele[e].cop, ele[e].fresh, ele[e].fn, ele[e].call, ele[e].refc)
  BY <1>2, Parts, StEffect
<1>5. NoEle \in Elem /\ NoEle.st = "none" /\ NoEle.cop = None /\ ~NoEle.fresh /\ ~NoEle.fn /\ ~NoEle.call
     /\ NoEle.refc = 0
  BY DEF NoEle, Elem
<1>6. Only(ele, gone, e) /\ gone[e] = NoEle
  BY <1>2, <1>5, Parts, SetEle
<1> HIDE DEF es, gone
<1>7. \A d \in Co : JobAt(co[d].job, ele, ready) /\ OwnAt(Rt, d, ele)
  BY Parts
<1>8. Sound(e, ele[e]) /\ HandleAt(Rt, e, ele[e])
  BY <1>2, Parts
<1>9. \A d \in Co : co[d].job = e => e \in Ios /\ ele[e].refc = 1
  BY <1>2, <1>7 DEF JobAt, Ele
<1>10. CASE ele[e].refc = 0
  <2>1. ele' = gone /\ Runs(Rt) /\ UNCHANGED answer
    BY <1>1, <1>10
  <2>2. e \notin Ctcs
    BY <1>8, <1>10 DEF Sound
  <2>3. Sound(e, gone[e]) /\ HandleAt(Rt, e, gone[e])
    BY <1>5, <1>6, <2>2 DEF Sound, HandleAt
  <2>4. \A d \in Co : co[d].own # e
    BY <1>2, <1>7, <1>10, RtFields, Constants DEF OwnAt
  <2>5. \A d \in Co : co[d].job # e
    BY <1>9, <1>10
  <2>6. Runtime(Rt) /\ Elements(gone) /\ Queued(gone, q) /\ Mixed(Rt, gone, q)
    BY <1>2, <1>3, <1>6, <2>3, <2>4, <2>5, QuietKeeps
  <2>7. Rt' = Rt
    BY <2>1, RunsIs, Parts
  <2> QED BY <1>1, <2>1, <2>6, <2>7, Parts DEF Kept
<1>11. CASE ele[e].refc # 0 /\ (ele[e].fn \/ ele[e].call)
  <2> DEFINE F == IF ele[e].call THEN ele ELSE es
  <2>1. /\ (\E c \in Blocks(Rt) : Runs(Wrap(Rt, c, e, "no"))) \/ Runs(Rt)
        /\ ele' = F /\ UNCHANGED answer
    BY <1>1, <1>11
  <2>2. /\ ele[e].call => e \in Ctcs /\ ele[e].cop = None
        /\ ele[e].fn => e \in Tmrs /\ ele[e].refc \in {1, 2}
    BY <1>8 DEF Sound
  <2>3. ~ele[e].fresh
    BY <1>8, <1>11, Constants DEF Sound, HandleAt
  <2>4. \A d \in Co : co[d].own # None => co[d].own # e
    BY <2>3, NoOwner
  <2>5. \A d \in Co : co[d].job # e
    BY <1>9, <1>11, <2>2, <1>2, Constants
  <2>6. /\ Only(ele, F, e) /\ F[e].cop = ele[e].cop /\ ~F[e].fresh /\ F[e].fn = ele[e].fn
        /\ F[e].call = ele[e].call /\ F[e].refc = ele[e].refc
        /\ F[e].st = IF ele[e].call THEN "ready" ELSE "idle"
    <3>1. CASE ele[e].call
      <4>1. F = ele
        BY <3>1
      <4> HIDE DEF F
      <4> QED BY <1>2, <2>3, <3>1, <4>1, Parts DEF Only
    <3>2. CASE ~ele[e].call
      <4>1. F = es
        BY <3>2
      <4> HIDE DEF F
      <4> QED BY <1>4, <2>3, <3>2, <4>1 DEF Becomes
    <3> QED BY <3>1, <3>2
  <2> HIDE DEF F
  <2>7. Sound(e, F[e]) /\ HandleAt(Rt, e, F[e])
    BY <1>2, <1>8, <1>11, <2>2, <2>6, Constants DEF Sound, HandleAt, Under
  <2>8. JobAt(e, F, q)
    BY <1>2, <1>11, <2>2, <2>6, Constants DEF JobAt
  <2>9. Queued(F, q)
    BY <1>3, <2>6
  <2>10. CASE Runs(Rt)
    <3>1. Runtime(Rt) /\ Elements(F) /\ Queued(F, q) /\ Mixed(Rt, F, q)
      BY <1>2, <2>4, <2>5, <2>6, <2>7, <2>9, Constants, QuietKeeps
    <3>2. Rt' = Rt
      BY <2>10, RunsIs, Parts
    <3> QED BY <1>1, <2>1, <3>1, <3>2, Parts DEF Kept
  <2>11. CASE \E c \in Blocks(Rt) : Runs(Wrap(Rt, c, e, "no"))
    <3>1. PICK c \in Blocks(Rt) : Runs(Wrap(Rt, c, e, "no"))
      BY <2>11
    <3> DEFINE y == Wrap(Rt, c, e, "no")
    <3>2. \A d \in Co : (Rt.co[d].own # None => Rt.co[d].own # e) /\ Rt.co[d].job # e
      BY <2>4, <2>5, RtFields
    <3>3. Runtime(Rt) /\ Mixed(Rt, ele, ready)
      BY Parts
    <3>4. y \in Runtimes /\ Runtime(y) /\ Elements(F) /\ Queued(F, q) /\ Mixed(y, F, q)
      BY <1>2, <2>6, <2>7, <2>8, <2>9, <3>2, <3>3, StartKeeps
    <3> HIDE DEF y
    <3>5. Rt' = y
      BY <3>1, <3>4, RunsIs DEF y
    <3> QED BY <1>1, <2>1, <3>4, <3>5, Parts DEF Kept
  <2> QED BY <2>1, <2>10, <2>11
<1>12. CASE ele[e].refc # 0 /\ ~ele[e].fn /\ ~ele[e].call
  <2>1. Wake(es, e) /\ ready' = q
    BY <1>1, <1>12
  <2>2. es \in [Ele -> Elem] /\ Only(ele, es, e) /\ es[e].st = "idle"
    BY <1>4 DEF Becomes, Only
  <2>3. Queued(es, q)
    BY <1>3, <2>2
  <2>4. Becomes(ele, es, e, es[e].st, ele[e].cop, ele[e].fresh, ele[e].fn, ele[e].call, ele[e].refc)
    BY <1>4, <2>2
  <2>5. Under(ele[e]) /\ (e \in Ios => ele[e].refc = 1)
    BY <1>2, <1>8, <1>12 DEF Under, Sound
  <2> QED BY <1>2, <1>12, <2>1, <2>2, <2>3, <2>4, <2>5, WakeKeeps
<1> QED BY <1>10, <1>11, <1>12

-----------------------------------------------------------------------------
(* The specification *)

\* Whatever the running coroutine does.
LEMMA CoroutineKeeps ==
  ASSUME CInv, CeaseIn \subseteq {"lua"}, NEW c \in Co, Coroutine(c)
  PROVE  Kept
<1>1. cur = c /\ (User(c) \/ AcceptLoop(c) \/ ServerStart(c))
  BY DEF Coroutine, CwcUser, CppUser, LuaUser, CwcAccepts, CppAccepts, LuaAccepts,
         CwcServerStart, CppServerStart, LuaServerStart
<1>2. CASE User(c)
  <2>1. ASSUME NEW e \in Ctcs, Aexec(c, e) \/ EachAdd(c, e) \/ Await(c, e) PROVE Kept
    BY <2>1, AexecKeeps, EachAddKeeps, AwaitKeeps
  <2>2. ASSUME NEW e \in Ios, Aexec(c, e) PROVE Kept
    BY <2>2, AexecKeeps
  <2>3. ASSUME NEW e \in Ele, Cease(c, e) PROVE Kept
    BY <2>3, CeaseKeeps
  <2>4. ASSUME NEW t \in Tmrs, Sleep(c, t) \/ Timer(c, t, TRUE) \/ Timer(c, t, FALSE) \/ DelTimer(c, t) PROVE Kept
    BY <2>4, SleepKeeps, TimerKeeps, DelTimerKeeps
  <2>5. ASSUME Spawn(c, None) PROVE Kept
    BY <2>5, SpawnKeeps
  <2>6. ASSUME Return(c) PROVE Kept
    BY <2>6, ReturnKeeps
  <2> QED BY <1>2, <2>1, <2>2, <2>3, <2>4, <2>5, <2>6 DEF User, CtcCalls
<1>3. CASE AcceptLoop(c)
  BY <1>1, <1>3, AcceptKeeps
<1>4. CASE ServerStart(c)
  <2>1. PICK e \in Ios : ele[e].st = "idle" /\ (\A d \in Co : co[d].job # e) /\ Spawn(c, e)
    BY <1>4 DEF ServerStart
  <2> QED BY <2>1, SpawnKeeps
<1> QED BY <1>1, <1>2, <1>3, <1>4

\* The binding never changes, and calls stay within their bound.
LEMMA CallsCounted ==
  ASSUME CInv, CoNext
  PROVE  bind' = bind /\ calls' \in 0 .. MaxCalls
<1>1. calls \in 0 .. MaxCalls /\ MaxCalls \in Nat
  BY CwcAssumption DEF CInv
<1>2. ASSUME NEW c \in Co, Coroutine(c)
      PROVE  bind' = bind /\ (calls' = calls \/ (calls < MaxCalls /\ calls' = calls + 1))
  <2>1. cur = c /\ (User(c) \/ AcceptLoop(c) \/ ServerStart(c))
    BY <1>2 DEF Coroutine, CwcUser, CppUser, LuaUser, CwcAccepts, CppAccepts, LuaAccepts,
                CwcServerStart, CppServerStart, LuaServerStart
  <2>2. ASSUME Call(c) PROVE bind' = bind /\ calls < MaxCalls /\ calls' = calls + 1
    BY <2>2 DEF Call
  <2>3. ASSUME Return(c) PROVE bind' = bind /\ calls' = calls
    BY <2>3 DEF Return
  <2>4. ASSUME NEW j, Spawn(c, j) PROVE Call(c)
    BY <2>4 DEF Spawn
  <2>5. CASE User(c)
    <3>1. Call(c) \/ Return(c)
      BY <2>5, <2>4 DEF User, CtcCalls, Aexec, EachAdd, Await, Cease, Sleep, Timer, DelTimer
    <3> QED BY <3>1, <2>2, <2>3
  <2>6. CASE AcceptLoop(c)
    <3>1. Call(c) \/ Return(c) \/ UNCHANGED <<bind, calls>>
      BY <2>6, <2>4 DEF AcceptLoop
    <3> QED BY <3>1, <2>2, <2>3
  <2>7. CASE ServerStart(c)
    BY <2>7, <2>2, <2>4 DEF ServerStart
  <2> QED BY <2>1, <2>5, <2>6, <2>7
<1>3. ASSUME Loop PROVE bind' = bind /\ (calls' = calls \/ (0 < MaxCalls /\ calls' = 1))
  BY <1>3 DEF Loop, RunApp, Step
<1>4. ASSUME NEW e \in Ele, Complete(e) \/ Arrive(e)
      PROVE  bind' = bind /\ (calls' = calls \/ (calls < MaxCalls /\ calls' = calls + 1))
  BY <1>4 DEF Complete, Arrive
<1>5. bind' = bind /\ \/ calls' = calls
                      \/ calls < MaxCalls /\ calls' = calls + 1
                      \/ 0 < MaxCalls /\ calls' = 1
  BY <1>2, <1>3, <1>4 DEF CoNext
<1> QED BY <1>1, <1>5

\* The invariant is inductive.
LEMMA CInvStep ==
  ASSUME CInv, CeaseIn \subseteq {"lua"}, [CoNext]_coVars
  PROVE  CInv'
<1>1. CASE CoNext
  <2>1. Kept
    BY <1>1, CoroutineKeeps, RunAppKeeps, StepKeeps, CompleteKeeps, ArriveKeeps DEF CoNext, Loop
  <2>2. bind' = bind /\ calls' \in 0 .. MaxCalls
    BY <1>1, CallsCounted
  <2>3. Elements(ele)'
    BY <2>1, <2>2 DEF Kept, Elements, Sound
  <2> QED BY <2>1, <2>2, <2>3 DEF CInv, Kept, WokenByOwn, Queued, Mixed, Runtime
<1>2. CASE UNCHANGED coVars
  BY <1>2 DEF CInv, coVars, Rt, Elements, Sound, Queued, WokenByOwn
<1> QED BY <1>1, <1>2

\* The invariant holds at the start.
LEMMA CInvInit ==
  ASSUME CoInit
  PROVE  CInv
<1> DEFINE run == [NoCo EXCEPT !.st = "running"]
           open == [NoEle EXCEPT !.st = "idle", !.refc = 1]
<1>1. /\ bind \in Binds /\ cur = Mainco /\ pool = <<>> /\ ready = <<>> /\ calls = 0
      /\ co = [c \in Corous |-> IF c = Mainco THEN run ELSE NoCo]
      /\ ele = [e \in Ele |-> IF e \in Tmrs THEN NoEle ELSE open]
      /\ WokenByOwn
  BY DEF CoInit, Corous, WokenByOwn
<1>2. run \in Corou /\ run.st = "running"
  BY DEF NoCo, Corou
<1>3. NoCo \in Corou /\ NoCo.st = "none" /\ NoCo.own = None /\ NoCo.job = None /\ NoCo.server = "no"
  BY DEF NoCo, Corou
<1>4. open \in Elem /\ open.st = "idle" /\ open.cop = None /\ ~open.fresh /\ ~open.fn /\ ~open.call /\ open.refc = 1
  BY DEF NoEle, Elem
<1>5. NoEle \in Elem /\ NoEle.st = "none" /\ NoEle.cop = None /\ ~NoEle.fresh /\ ~NoEle.fn /\ ~NoEle.call
     /\ NoEle.refc = 0
  BY DEF NoEle, Elem
<1> HIDE DEF run, open
<1>6. co \in [Corous -> Corou] /\ co[Mainco] = run /\ \A c \in Co : co[c] = NoCo
  BY <1>1, <1>2, <1>3, Constants DEF Corous
<1>7. \A c \in Co : ~Inside(Rt, c) /\ co[c].st = "none"
  BY <1>1, <1>3, <1>6, Constants, RtFields DEF Inside
<1>8. Runtime(Rt)
  <2>1. Rt \in Runtimes
    BY <1>1, <1>6 DEF Rt, Runtimes, Corous
  <2>2. Chain(Rt)
    BY <1>1, <1>2, <1>6, <1>7, Constants, RtFields DEF Chain
  <2>3. Pooled(Rt)
    BY <1>1, RtFields DEF Pooled
  <2>4. \A c \in Co : Shaped(Rt.co[c])
    BY <1>3, <1>6, RtFields DEF Shaped
  <2> QED BY <2>1, <2>2, <2>3, <2>4 DEF Runtime
<1>9. \A e \in Ele : ele[e] = IF e \in Tmrs THEN NoEle ELSE open
  BY <1>1
<1>10. Elements(ele)
  <2>1. ele \in [Ele -> Elem]
    BY <1>1, <1>4, <1>5
  <2>2. \A e \in Ele : Sound(e, ele[e])
    BY <1>4, <1>5, <1>9, Constants DEF Sound
  <2> QED BY <2>1, <2>2 DEF Elements
<1>11. Queued(ele, ready)
  BY <1>1 DEF Queued
<1>12. Mixed(Rt, ele, ready)
  <2>1. \A e \in Ele : HandleAt(Rt, e, ele[e])
    BY <1>4, <1>5, <1>9 DEF HandleAt
  <2>2. \A c \in Co : Rt.co[c].job = None /\ Rt.co[c].own = None
    BY <1>3, <1>6, RtFields
  <2>3. \A c \in Co : JobAt(Rt.co[c].job, ele, ready) /\ OwnAt(Rt, c, ele)
    BY <2>2, Constants DEF JobAt, OwnAt
  <2> QED BY <2>1, <2>2, <2>3 DEF Mixed
<1>13. 0 \in 0 .. MaxCalls
  BY CwcAssumption
<1> QED BY <1>1, <1>8, <1>10, <1>11, <1>12, <1>13 DEF CInv

\* It implies that the pool is sound.
LEMMA CInvPool ==
  ASSUME CInv
  PROVE  PoolSound
<1>1. Runtime(Rt) /\ Rt \in Runtimes /\ Chain(Rt) /\ Pooled(Rt) /\ pool \in Seq(Co)
  BY Parts, RtFields DEF Runtime, Runtimes
<1>2. TypeOK
  <2>1. co \in [Corous -> Corou] /\ cur \in Corous /\ ele \in [Ele -> Elem] /\ ready \in Seq(Ele)
    BY Parts DEF Queued
  <2> QED BY <1>1, <2>1 DEF TypeOK, CInv, Corous, Corou, Elem
<1>3. IsInjective(pool)
  BY <1>1, RtFields DEF Pooled, IsInjective
<1>4. ASSUME NEW i \in 1 .. Len(pool)
      PROVE  /\ co[pool[i]].st = "dead"
             /\ \A c \in Co : co[c].st # "none" => co[c].prev # pool[i] \/ co[c].st = "suspend"
             /\ \A e \in Ele : Doing(e) /\ ele[e].fresh => ele[e].cop # pool[i]
  <2>1. pool[i] \in Co /\ co[pool[i]].st = "dead"
    BY <1>1, RtFields DEF Pooled
  <2>2. ASSUME NEW c \in Co, co[c].st # "none", co[c].st # "suspend", co[c].prev = pool[i] PROVE FALSE
    <3>1. Shaped(co[c]) /\ co[c] \in Corou
      BY Parts, RtFields DEF Runtime
    <3>2. CASE co[c].st = "dead"
      <4>1. co[c].prev = None
        BY <3>1, <3>2 DEF Shaped, NoCo
      <4> QED BY <2>1, <2>2, <4>1, Constants
    <3>3. CASE co[c].st = "running"
      <4>1. Inside(Rt, c)
        BY <1>1, <3>3, RtFields DEF Chain, Inside
      <4>2. co[c].prev = Mainco \/ Inside(Rt, co[c].prev)
        BY <1>1, <4>1, RtFields DEF Chain
      <4>3. \A d : Inside(Rt, d) => co[d].st \in {"running", "suspend"}
        BY <1>1, RtFields DEF Chain, Inside
      <4> QED BY <2>1, <2>2, <4>2, <4>3, Constants
    <3> QED BY <2>2, <3>1, <3>2, <3>3 DEF Shaped, Corou
  <2>3. ASSUME NEW e \in Ele, ele[e].fresh PROVE ele[e].cop # pool[i]
    BY <2>1, <2>3, Parts, RtFields DEF HandleAt
  <2> QED BY <2>1, <2>2, <2>3
<1> QED BY <1>2, <1>3, <1>4 DEF PoolSound

\* Finished coroutines (dpaco.c, recycle): a block in the pool is there once
\* and is nobody's, neither the resumer of a coroutine that runs nor the
\* coroutine an operation under way would wake, whichever the binding, the
\* coroutines, elements and bounds. Cease is explored in Lua at most.
THEOREM PoolIsSound ==
  ASSUME CeaseIn \subseteq {"lua"}
  PROVE  CoSpec => []PoolSound
<1>1. CoInit => CInv
  BY CInvInit
<1>2. CInv /\ [CoNext]_coVars => CInv'
  BY CInvStep
<1>3. CInv => PoolSound
  BY CInvPool
<1> QED BY <1>1, <1>2, <1>3, PTL DEF CoSpec

\* Handles (dpele_wait, the bindings' waking): the loop and cease resume a
\* coroutine only for the element that it waits for. Cease is explored in Lua
\* at most; in C and C++ it would leave the handle behind.
THEOREM WokenByItsOwn ==
  ASSUME CeaseIn \subseteq {"lua"}
  PROVE  CoSpec => []WokenByOwn
<1>1. CoInit => CInv
  BY CInvInit
<1>2. CInv /\ [CoNext]_coVars => CInv'
  BY CInvStep
<1>3. CInv => WokenByOwn
  BY DEF CInv
<1> QED BY <1>1, <1>2, <1>3, PTL DEF CoSpec
=============================================================================
