------------------------- MODULE CtcChannelProofs --------------------------
(***************************************************************************)
(* Proofs about CtcChannel for any number of workers and ctcs, and about   *)
(* Kqueue, the same hand-over on kqueue, for any timers and calls.         *)
(***************************************************************************)
EXTENDS CtcChannel, Kqueue, SequenceTheorems, FiniteSetTheorems, TLAPS

-----------------------------------------------------------------------------
(* Type correctness. *)

LEMMA PeersType ==
  ASSUME NEW t \in Threads
  PROVE  /\ Peers(t) \subseteq Workers
         /\ Out(t) \in Dirs /\ In(t) \in Dirs
         /\ \A d \in Dirs : Other(d) \in Dirs
BY DEF Peers, Out, In, Other, Threads, Dirs

LEMMA UpdateType ==
  ASSUME NEW S, NEW f \in [Workers -> [Dirs -> S]], NEW w \in Workers, NEW d \in Dirs,
         NEW x \in S
  PROVE  [f EXCEPT ![w][d] = x] \in [Workers -> [Dirs -> S]]
OBVIOUS

\* A phase of the hand-over never leaves the sets the variables range over.
LEMMA TypeStep == TypeOK /\ [Next]_vars => TypeOK'
<1> SUFFICES ASSUME TypeOK, [Next]_vars PROVE TypeOK'
  OBVIOUS
<1>a. /\ free \in [Workers -> [Dirs -> BOOLEAN]] /\ edge \in [Workers -> [Dirs -> BOOLEAN]]
      /\ wakeIncr \in [Workers -> [Dirs -> Nat]] /\ wakeTake \in [Workers -> [Dirs -> Nat]]
  BY DEF TypeOK
<1>b. /\ pending \in [Workers -> [Dirs -> Seq(Ctcs)]]
      /\ shared \in [Workers -> [Dirs -> Seq(Ctcs)]]
      /\ enter \in [Threads -> Seq(Ctcs)] /\ held \in [Threads -> SUBSET Ctcs]
  BY DEF TypeOK
<1>c. /\ evs \in [Threads -> SUBSET Workers] /\ \A t \in Threads : evs[t] \subseteq Peers(t)
      /\ cur \in [Threads -> Workers] /\ \A t \in Threads : cur[t] \in Peers(t)
      /\ pc \in [Threads -> Phases]
      /\ gotIncr \in [Threads -> BOOLEAN] /\ gotTake \in [Threads -> BOOLEAN]
  BY DEF TypeOK
<1>d. \A t \in Threads : Peers(t) \subseteq Workers /\ Out(t) \in Dirs /\ In(t) \in Dirs
  BY PeersType
<1>e. {"loop", "sendWake", "take", "takeWake", "push", "pushWake"} \subseteq Phases
  BY DEF Phases
<1>1. ASSUME NEW t \in Threads, Start(t) PROVE TypeOK'
  <2>1. pc' \in [Threads -> Phases]
    BY <1>1, <1>c, <1>e DEF Start
  <2>2. edge' \in [Workers -> [Dirs -> BOOLEAN]]
    BY <1>1 DEF Start
  <2> QED BY <1>1, <1>a, <1>b, <1>c, <2>1, <2>2 DEF Start, TypeOK
<1>2. ASSUME NEW t \in Threads, EpollWait(t) PROVE TypeOK'
  <2>1. evs' \in [Threads -> SUBSET Workers] /\ \A u \in Threads : evs'[u] \subseteq Peers(u)
    BY <1>2, <1>c, <1>d DEF EpollWait
  <2>2. edge' \in [Workers -> [Dirs -> BOOLEAN]]
    BY <1>2 DEF EpollWait
  <2>3. gotIncr' \in [Threads -> BOOLEAN] /\ gotTake' \in [Threads -> BOOLEAN]
    BY <1>2, <1>c DEF EpollWait
  <2> QED BY <1>2, <1>a, <1>b, <1>c, <2>1, <2>2, <2>3 DEF EpollWait, TypeOK
<1>3. ASSUME NEW t \in Threads, Move(t) PROVE TypeOK'
  <2>0. /\ shared' = [shared EXCEPT ![cur[t]][Out(t)] = pending[cur[t]][Out(t)]]
        /\ pending' = [pending EXCEPT ![cur[t]][Out(t)] = <<>>]
        /\ free' = [free EXCEPT ![cur[t]][Out(t)] =
                      free[cur[t]][Out(t)] \/ pending[cur[t]][Out(t)] = <<>>]
    BY <1>3 DEF Move
  <2>a. /\ cur[t] \in Workers /\ Out(t) \in Dirs
        /\ pending[cur[t]][Out(t)] \in Seq(Ctcs) /\ <<>> \in Seq(Ctcs)
        /\ free[cur[t]][Out(t)] \in BOOLEAN
    BY <1>a, <1>b, <1>c, <1>d
  <2>1. shared' \in [Workers -> [Dirs -> Seq(Ctcs)]]
    BY <1>b, <2>0, <2>a, UpdateType
  <2>2. pending' \in [Workers -> [Dirs -> Seq(Ctcs)]]
    BY <1>b, <2>0, <2>a, UpdateType
  <2>3. free' \in [Workers -> [Dirs -> BOOLEAN]]
    <3>1. (free[cur[t]][Out(t)] \/ pending[cur[t]][Out(t)] = <<>>) \in BOOLEAN
      BY <2>a
    <3> QED BY <1>a, <2>0, <2>a, <3>1, UpdateType
  <2>4. pc' \in [Threads -> Phases]
    BY <1>3, <1>c, <1>e DEF Move, AfterTake
  <2> QED BY <1>3, <1>a, <1>b, <1>c, <2>1, <2>2, <2>3, <2>4 DEF Move, TypeOK
<1>4. ASSUME NEW t \in Threads, WriteIncr(t) PROVE TypeOK'
  <2>a. /\ cur[t] \in Workers /\ Out(t) \in Dirs
        /\ wakeIncr[cur[t]][Out(t)] + 1 \in Nat
    BY <1>a, <1>c, <1>d
  <2>1. wakeIncr' \in [Workers -> [Dirs -> Nat]]
    <3>1. wakeIncr' = [wakeIncr EXCEPT ![cur[t]][Out(t)] = wakeIncr[cur[t]][Out(t)] + 1]
      BY <1>4 DEF WriteIncr
    <3> QED BY <1>a, <2>a, <3>1, UpdateType
  <2>2. edge' \in [Workers -> [Dirs -> BOOLEAN]]
    BY <1>4, <1>a DEF WriteIncr, Notify
  <2>3. pc' \in [Threads -> Phases]
    BY <1>4, <1>c, <1>e DEF WriteIncr, AfterTake
  <2> QED BY <1>4, <1>a, <1>b, <1>c, <2>1, <2>2, <2>3 DEF WriteIncr, TypeOK
<1>5. ASSUME NEW t \in Threads, Drain(t) PROVE TypeOK'
  <2>a. /\ cur[t] \in Workers /\ In(t) \in Dirs
        /\ shared[cur[t]][In(t)] \in Seq(Ctcs) /\ enter[t] \in Seq(Ctcs) /\ <<>> \in Seq(Ctcs)
    BY <1>b, <1>c, <1>d
  <2>1. enter' \in [Threads -> Seq(Ctcs)]
    <3>1. enter[t] \o shared[cur[t]][In(t)] \in Seq(Ctcs)
      BY <2>a
    <3>2. enter' = [enter EXCEPT ![t] = enter[t] \o shared[cur[t]][In(t)]]
      BY <1>5 DEF Drain
    <3> QED BY <1>b, <3>1, <3>2
  <2>2. shared' \in [Workers -> [Dirs -> Seq(Ctcs)]]
    <3>1. shared' = [shared EXCEPT ![cur[t]][In(t)] = <<>>]
      BY <1>5 DEF Drain
    <3> QED BY <1>b, <2>a, <3>1, UpdateType
  <2>3. pc' \in [Threads -> Phases]
    BY <1>5, <1>c, <1>e DEF Drain
  <2> QED BY <1>5, <1>a, <1>b, <1>c, <2>1, <2>2, <2>3 DEF Drain, TypeOK
<1>6. ASSUME NEW t \in Threads, WriteTake(t) PROVE TypeOK'
  <2>a. /\ cur[t] \in Workers /\ Out(t) \in Dirs
        /\ wakeTake[cur[t]][Out(t)] + 1 \in Nat
    BY <1>a, <1>c, <1>d
  <2>1. wakeTake' \in [Workers -> [Dirs -> Nat]]
    <3>1. wakeTake' = [wakeTake EXCEPT ![cur[t]][Out(t)] = wakeTake[cur[t]][Out(t)] + 1]
      BY <1>6 DEF WriteTake
    <3> QED BY <1>a, <2>a, <3>1, UpdateType
  <2>2. edge' \in [Workers -> [Dirs -> BOOLEAN]]
    BY <1>6, <1>a DEF WriteTake, Notify
  <2>3. pc' \in [Threads -> Phases]
    BY <1>6, <1>c, <1>e DEF WriteTake
  <2> QED BY <1>6, <1>a, <1>b, <1>c, <2>1, <2>2, <2>3 DEF WriteTake, TypeOK
<1>7. ASSUME NEW t \in Threads, NEW w \in Peers(t), ReadWake(t, w) PROVE TypeOK'
  <2>1. w \in Workers /\ In(t) \in Dirs
    BY <1>d
  <2>2. wakeIncr' \in [Workers -> [Dirs -> Nat]] /\ wakeTake' \in [Workers -> [Dirs -> Nat]]
    <3>1. /\ wakeIncr' = [wakeIncr EXCEPT ![w][In(t)] = 0]
          /\ wakeTake' = [wakeTake EXCEPT ![w][In(t)] = 0]
      BY <1>7 DEF ReadWake
    <3> QED BY <1>a, <2>1, <3>1, UpdateType
  <2>3. gotIncr' \in [Threads -> BOOLEAN] /\ gotTake' \in [Threads -> BOOLEAN]
    <3> DEFINE incr == IF Readable(w, In(t)) THEN wakeIncr[w][In(t)] > 0 ELSE gotIncr[t]
               take == IF Readable(w, In(t)) THEN wakeTake[w][In(t)] > 0 ELSE gotTake[t]
    <3>1. incr \in BOOLEAN /\ take \in BOOLEAN
      <4>1. gotIncr[t] \in BOOLEAN /\ gotTake[t] \in BOOLEAN
        BY <1>c
      <4>2. (wakeIncr[w][In(t)] > 0) \in BOOLEAN /\ (wakeTake[w][In(t)] > 0) \in BOOLEAN
        BY <1>a, <2>1
      <4> QED BY <4>1, <4>2, Zenon
    <3>2. gotIncr' = [gotIncr EXCEPT ![t] = incr] /\ gotTake' = [gotTake EXCEPT ![t] = take]
      BY <1>7 DEF ReadWake
    <3> HIDE DEF incr, take
    <3> QED BY <1>c, <3>1, <3>2
  <2>4. pc' \in [Threads -> Phases]
    BY <1>7, <1>c, <1>e DEF ReadWake, AfterTake
  <2>5. /\ evs' \in [Threads -> SUBSET Workers] /\ cur' \in [Threads -> Workers]
        /\ \A u \in Threads : evs'[u] \subseteq Peers(u) /\ cur'[u] \in Peers(u)
    BY <1>7, <1>c, <2>1 DEF ReadWake
  <2> QED BY <1>7, <1>a, <1>b, <2>2, <2>3, <2>4, <2>5 DEF ReadWake, TypeOK
<1>8. ASSUME NEW t \in Threads, Reap(t) PROVE TypeOK'
  <2>1. Head(enter[t]) \in Ctcs /\ Tail(enter[t]) \in Seq(Ctcs)
    BY <1>8, <1>b DEF Reap
  <2>2. enter' \in [Threads -> Seq(Ctcs)] /\ held' \in [Threads -> SUBSET Ctcs]
    BY <1>8, <1>b, <2>1 DEF Reap
  <2> QED BY <1>8, <1>a, <1>b, <1>c, <2>2 DEF Reap, TypeOK
<1>9. ASSUME NEW t \in Threads, NEW c \in Ctcs, PushSelf(t, c) PROVE TypeOK'
  <2>1. enter' \in [Threads -> Seq(Ctcs)] /\ held' \in [Threads -> SUBSET Ctcs]
    BY <1>9, <1>b DEF PushSelf
  <2> QED BY <1>9, <1>a, <1>b, <1>c, <2>1 DEF PushSelf, TypeOK
<1>10. ASSUME NEW t \in Threads, NEW c \in Ctcs, NEW w \in Peers(t), PushShared(t, w, c)
       PROVE TypeOK'
  <2>1. w \in Workers /\ Out(t) \in Dirs /\ Append(shared[w][Out(t)], c) \in Seq(Ctcs)
    BY <1>b, <1>d
  <2>2. free' \in [Workers -> [Dirs -> BOOLEAN]]
    <3>1. free' = [free EXCEPT ![w][Out(t)] = FALSE]
      BY <1>10 DEF PushShared
    <3> QED BY <1>a, <2>1, <3>1, UpdateType
  <2>3. shared' \in [Workers -> [Dirs -> Seq(Ctcs)]]
    <3>1. shared' = [shared EXCEPT ![w][Out(t)] = Append(shared[w][Out(t)], c)]
      BY <1>10 DEF PushShared
    <3> QED BY <1>b, <2>1, <3>1, UpdateType
  <2>4. pc' \in [Threads -> Phases] /\ held' \in [Threads -> SUBSET Ctcs]
    BY <1>10, <1>b, <1>c, <1>e DEF PushShared
  <2>5. cur' \in [Threads -> Workers] /\ \A u \in Threads : cur'[u] \in Peers(u)
    BY <1>10, <1>c, <2>1 DEF PushShared
  <2> QED BY <1>10, <1>a, <1>b, <1>c, <2>2, <2>3, <2>4, <2>5 DEF PushShared, TypeOK
<1>11. ASSUME NEW t \in Threads, NEW c \in Ctcs, NEW w \in Peers(t), PushPending(t, w, c)
       PROVE TypeOK'
  <2>1. w \in Workers /\ Out(t) \in Dirs /\ Append(pending[w][Out(t)], c) \in Seq(Ctcs)
    BY <1>b, <1>d
  <2>2. pending' \in [Workers -> [Dirs -> Seq(Ctcs)]]
    <3>1. pending' = [pending EXCEPT ![w][Out(t)] = Append(pending[w][Out(t)], c)]
      BY <1>11 DEF PushPending
    <3> QED BY <1>b, <2>1, <3>1, UpdateType
  <2>3. held' \in [Threads -> SUBSET Ctcs]
    BY <1>11, <1>b DEF PushPending
  <2> QED BY <1>11, <1>a, <1>b, <1>c, <2>2, <2>3 DEF PushPending, TypeOK
<1>12. CASE UNCHANGED vars
  BY <1>12 DEF vars, TypeOK
<1> QED
  BY <1>1, <1>2, <1>3, <1>4, <1>5, <1>6, <1>7, <1>8, <1>9, <1>10, <1>11, <1>12
     DEF Next, LoopStep, UserStep

\* Spec keeps every variable in its type.
THEOREM TypeCorrect == Spec => []TypeOK
<1>1. Init => TypeOK
  <2> SUFFICES ASSUME Init PROVE TypeOK
    OBVIOUS
  <2>1. /\ free \in [Workers -> [Dirs -> BOOLEAN]]
        /\ edge \in [Workers -> [Dirs -> BOOLEAN]]
        /\ wakeIncr \in [Workers -> [Dirs -> Nat]]
        /\ wakeTake \in [Workers -> [Dirs -> Nat]]
    BY DEF Init
  <2>2. /\ pending \in [Workers -> [Dirs -> Seq(Ctcs)]]
        /\ shared \in [Workers -> [Dirs -> Seq(Ctcs)]]
        /\ enter \in [Threads -> Seq(Ctcs)]
    BY DEF Init
  <2>3. evs \in [Threads -> SUBSET Workers] /\ \A t \in Threads : evs[t] \subseteq Peers(t)
    BY DEF Init
  <2>4. pc \in [Threads -> Phases]
    BY DEF Init, Phases
  <2>5. gotIncr \in [Threads -> BOOLEAN] /\ gotTake \in [Threads -> BOOLEAN]
    BY DEF Init
  <2> QED BY <2>1, <2>2, <2>3, <2>4, <2>5 DEF Init, TypeOK
<1> QED BY <1>1, TypeStep, PTL DEF Spec

-----------------------------------------------------------------------------
(* Who is at which end of a direction. *)

LEMMA Ends ==
  ASSUME NEW w \in Workers, NEW d \in Dirs, NEW t \in Threads
  PROVE  /\ Sender(w, d) \in Threads /\ Receiver(w, d) \in Threads
         /\ Sender(w, d) = t <=> w \in Peers(t) /\ d = Out(t)
         /\ Receiver(w, d) = t <=> w \in Peers(t) /\ d = In(t)
         /\ In(t) = Other(Out(t)) /\ Out(t) = Other(In(t))
         /\ Other(Other(d)) = d /\ Other(d) # d /\ Other(d) \in Dirs
         /\ d = Out(t) \/ d = In(t)
         /\ Sender(w, d) # Receiver(w, d)
         /\ Other(d) = Out(t) <=> d = In(t)
         /\ Other(d) = In(t) <=> d = Out(t)
BY MasterAssumption DEF Sender, Receiver, Peers, Out, In, Other, Threads, Dirs

-----------------------------------------------------------------------------
(* Updates of one worker and direction. *)

\* The counters of the eventfds change by one at the addressed one, or go to
\* zero at the one that is read.
LEMMA WakeEffect ==
  ASSUME TypeOK, NEW t \in Threads, NEW v \in Workers, NEW e \in Dirs
  PROVE  /\ WriteIncr(t) => wakeIncr'[v][e] =
              IF v = cur[t] /\ e = Out(t) THEN wakeIncr[v][e] + 1 ELSE wakeIncr[v][e]
         /\ WriteTake(t) => wakeTake'[v][e] =
              IF v = cur[t] /\ e = Out(t) THEN wakeTake[v][e] + 1 ELSE wakeTake[v][e]
         /\ \A w \in Peers(t) : ReadWake(t, w) =>
              /\ wakeIncr'[v][e] = IF v = w /\ e = In(t) THEN 0 ELSE wakeIncr[v][e]
              /\ wakeTake'[v][e] = IF v = w /\ e = In(t) THEN 0 ELSE wakeTake[v][e]
<1>1. /\ wakeIncr \in [Workers -> [Dirs -> Nat]] /\ wakeTake \in [Workers -> [Dirs -> Nat]]
      /\ cur[t] \in Workers /\ Peers(t) \subseteq Workers /\ In(t) \in Dirs /\ Out(t) \in Dirs
  BY PeersType DEF TypeOK
<1>2. ASSUME WriteIncr(t) PROVE wakeIncr'[v][e] =
              IF v = cur[t] /\ e = Out(t) THEN wakeIncr[v][e] + 1 ELSE wakeIncr[v][e]
  BY <1>1, <1>2 DEF WriteIncr
<1>3. ASSUME WriteTake(t) PROVE wakeTake'[v][e] =
              IF v = cur[t] /\ e = Out(t) THEN wakeTake[v][e] + 1 ELSE wakeTake[v][e]
  BY <1>1, <1>3 DEF WriteTake
<1>4. ASSUME NEW w \in Peers(t), ReadWake(t, w)
      PROVE  /\ wakeIncr'[v][e] = IF v = w /\ e = In(t) THEN 0 ELSE wakeIncr[v][e]
             /\ wakeTake'[v][e] = IF v = w /\ e = In(t) THEN 0 ELSE wakeTake[v][e]
  <2>1. /\ wakeIncr' = [wakeIncr EXCEPT ![w][In(t)] = 0]
        /\ wakeTake' = [wakeTake EXCEPT ![w][In(t)] = 0]
    BY <1>4 DEF ReadWake
  <2> QED BY <1>1, <2>1
<1> QED BY <1>2, <1>3, <1>4

-----------------------------------------------------------------------------
(* A wake event in a batch stays readable: only its reader resets the eventfd, *)
(* and it takes the event out of the batch in the same step.               *)

LEMMA BatchReadableStep == TypeOK /\ BatchReadable /\ [Next]_vars => BatchReadable'
<1> SUFFICES ASSUME TypeOK, TypeOK', BatchReadable, [Next]_vars,
                    NEW u \in Threads, NEW v \in Workers, v \in evs'[u]
             PROVE  Readable(v, In(u))'
  BY TypeStep DEF BatchReadable, TypeOK
<1>0. /\ v \in evs[u] => Readable(v, In(u)) /\ v \in Peers(u)
      /\ In(u) \in Dirs /\ v \in Peers(u)
      /\ wakeIncr[v][In(u)] \in Nat /\ wakeTake[v][In(u)] \in Nat
  BY PeersType DEF BatchReadable, TypeOK
<1>1. ASSUME NEW t \in Threads, Start(t) PROVE Readable(v, In(u))'
  BY <1>0, <1>1 DEF Start, Readable
<1>2. ASSUME NEW t \in Threads, EpollWait(t) PROVE Readable(v, In(u))'
  BY <1>0, <1>2 DEF EpollWait, Readable, TypeOK
<1>3. ASSUME NEW t \in Threads, Move(t) PROVE Readable(v, In(u))'
  BY <1>0, <1>3 DEF Move, Readable
<1>4. ASSUME NEW t \in Threads, WriteIncr(t) PROVE Readable(v, In(u))'
  <2>1. v \in evs[u] /\ wakeTake'[v][In(u)] = wakeTake[v][In(u)]
    BY <1>4 DEF WriteIncr
  <2>2. wakeIncr'[v][In(u)] \in {wakeIncr[v][In(u)], wakeIncr[v][In(u)] + 1}
    BY <1>0, <1>4, WakeEffect
  <2> QED BY <1>0, <2>1, <2>2 DEF Readable
<1>5. ASSUME NEW t \in Threads, Drain(t) PROVE Readable(v, In(u))'
  BY <1>0, <1>5 DEF Drain, Readable
<1>6. ASSUME NEW t \in Threads, WriteTake(t) PROVE Readable(v, In(u))'
  <2>1. v \in evs[u] /\ wakeIncr'[v][In(u)] = wakeIncr[v][In(u)]
    BY <1>6 DEF WriteTake
  <2>2. wakeTake'[v][In(u)] \in {wakeTake[v][In(u)], wakeTake[v][In(u)] + 1}
    BY <1>0, <1>6, WakeEffect
  <2> QED BY <1>0, <2>1, <2>2 DEF Readable
<1>7. ASSUME NEW t \in Threads, NEW w \in Peers(t), ReadWake(t, w)
      PROVE  Readable(v, In(u))'
  <2>1. evs' = [evs EXCEPT ![t] = @ \ {w}] /\ evs \in [Threads -> SUBSET Workers]
    BY <1>7 DEF ReadWake, TypeOK
  <2>2. v \in evs[u] /\ ~(v = w /\ u = t)
    BY <2>1
  <2>3. ~(v = w /\ In(u) = In(t))
    BY <1>0, <1>7, <2>2, Ends
  <2>4. wakeIncr'[v][In(u)] = wakeIncr[v][In(u)] /\ wakeTake'[v][In(u)] = wakeTake[v][In(u)]
    BY <1>0, <1>7, <2>3, WakeEffect
  <2> QED BY <1>0, <2>2, <2>4 DEF Readable
<1>8. ASSUME NEW t \in Threads, Reap(t) PROVE Readable(v, In(u))'
  BY <1>0, <1>8 DEF Reap, Readable
<1>9. ASSUME NEW t \in Threads, NEW c \in Ctcs, PushSelf(t, c) PROVE Readable(v, In(u))'
  BY <1>0, <1>9 DEF PushSelf, Readable
<1>10. ASSUME NEW t \in Threads, NEW c \in Ctcs, NEW w \in Peers(t), PushShared(t, w, c)
       PROVE Readable(v, In(u))'
  BY <1>0, <1>10 DEF PushShared, Readable
<1>11. ASSUME NEW t \in Threads, NEW c \in Ctcs, NEW w \in Peers(t), PushPending(t, w, c)
       PROVE Readable(v, In(u))'
  BY <1>0, <1>11 DEF PushPending, Readable
<1>12. CASE UNCHANGED vars
  BY <1>0, <1>12 DEF vars, Readable
<1> QED
  BY <1>1, <1>2, <1>3, <1>4, <1>5, <1>6, <1>7, <1>8, <1>9, <1>10, <1>11, <1>12
     DEF Next, LoopStep, UserStep

\* The read of an eventfd from the epoll batch never fails, so ctc_ev is never
\* the value of another worker's eventfd.
THEOREM BatchAlwaysReadable == Spec => []BatchReadable
<1>1. Init => BatchReadable
  BY DEF Init, BatchReadable
<1> QED BY <1>1, BatchReadableStep, TypeCorrect, PTL DEF Spec

-----------------------------------------------------------------------------
(* The token. *)

\* The count of direction e of worker v with its sender s and receiver r named.
Tokens(v, e, s, r) ==
  One(free[v][e]) + One(cur[s] = v /\ pc[s] \in {"sendWake", "take", "takeWake"})
    + wakeIncr[v][e]
    + One(\/ cur[r] = v /\ pc[r] \in {"push", "pushWake"}
          \/ gotIncr[r] /\ cur[r] = v /\ pc[r] \in {"take", "takeWake"})
    + wakeTake[v][Other(e)]

LEMMA TokensDef ==
  ASSUME NEW v, NEW e, NEW s, NEW r, s = Sender(v, e), r = Receiver(v, e)
  PROVE  TokenCount(v, e) = Tokens(v, e, s, r)
BY DEF TokenCount, TokenAtReceiver, Busy, Tokens

\* Every step keeps the count at one: it takes the token from one place and
\* puts it into the next, or leaves it alone.
LEMMA TokensStep ==
  ASSUME TypeOK, BatchReadable, Next, NEW v \in Workers, NEW e \in Dirs,
         NEW s \in Threads, NEW r \in Threads, s = Sender(v, e), r = Receiver(v, e),
         Tokens(v, e, s, r) = 1
  PROVE  Tokens(v, e, s, r)' = 1
<1>a. /\ s # r /\ Other(e) \in Dirs
      /\ \A t \in Threads : s = t <=> v \in Peers(t) /\ e = Out(t)
      /\ \A t \in Threads : r = t <=> v \in Peers(t) /\ e = In(t)
      /\ \A t \in Threads : Other(e) = Out(t) <=> e = In(t)
      /\ \A t \in Threads : Other(e) = In(t) <=> e = Out(t)
      /\ \A t \in Threads : Out(t) \in Dirs /\ In(t) \in Dirs /\ Out(t) # In(t)
  <2>1. s # r /\ Other(e) \in Dirs
    BY Ends
  <2>2. ASSUME NEW t \in Threads
        PROVE  /\ s = t <=> v \in Peers(t) /\ e = Out(t)
               /\ r = t <=> v \in Peers(t) /\ e = In(t)
               /\ Other(e) = Out(t) <=> e = In(t)
               /\ Other(e) = In(t) <=> e = Out(t)
               /\ Out(t) \in Dirs /\ In(t) \in Dirs /\ Out(t) # In(t)
    BY Ends, PeersType
  <2> QED BY <2>1, <2>2
<1>b. /\ free \in [Workers -> [Dirs -> BOOLEAN]] /\ free[v][e] \in BOOLEAN
      /\ wakeIncr[v][e] \in Nat /\ wakeTake[v][Other(e)] \in Nat
      /\ pc \in [Threads -> Phases] /\ cur \in [Threads -> Workers]
      /\ gotIncr \in [Threads -> BOOLEAN]
      /\ \A t \in Threads : cur[t] \in Peers(t) /\ Peers(t) \subseteq Workers
  BY <1>a, PeersType DEF TypeOK
<1>c. /\ cur[s] \in Workers /\ cur[r] \in Workers /\ gotIncr[r] \in BOOLEAN
  BY <1>b
<1>d. free[v][e] \in BOOLEAN /\ wakeIncr[v][e] \in Nat /\ wakeTake[v][Other(e)] \in Nat
  BY <1>b
<1>1. ASSUME NEW t \in Threads, Start(t) PROVE Tokens(v, e, s, r)' = 1
  BY <1>b, <1>1 DEF Start, Tokens, One
<1>2. ASSUME NEW t \in Threads, EpollWait(t) PROVE Tokens(v, e, s, r)' = 1
  BY <1>b, <1>2 DEF EpollWait, Tokens, One
<1>3. ASSUME NEW t \in Threads, Move(t) PROVE Tokens(v, e, s, r)' = 1
  <2>1. free'[v][e] = IF v = cur[t] /\ t = s THEN free[v][e] \/ pending[v][e] = <<>>
                      ELSE free[v][e]
    BY <1>a, <1>b, <1>3 DEF Move
  <2>2. pc' = [pc EXCEPT ![t] = IF pending[cur[t]][Out(t)] # <<>> THEN "takeWake"
                                ELSE IF gotIncr[t] THEN "push" ELSE "loop"]
    BY <1>3 DEF Move, AfterTake
  <2>3. /\ pc[t] = "take" /\ cur' = cur /\ gotIncr' = gotIncr
        /\ wakeIncr' = wakeIncr /\ wakeTake' = wakeTake
    BY <1>3 DEF Move
  <2>4. CASE t = s
    <3>1. CASE cur[t] = v
      <4>1. e = Out(t) /\ ~free[v][e] /\ pc[s] = "take" /\ pc'[r] = pc[r]
        BY <1>a, <1>b, <1>c, <2>2, <2>3, <2>4, <3>1 DEF Tokens, One
      <4>2. CASE pending[v][e] = <<>>
        <5>1. free'[v][e] /\ pc'[s] \in {"push", "loop"}
          BY <1>b, <2>1, <2>2, <2>4, <3>1, <4>1, <4>2
        <5> QED BY <1>b, <1>c, <2>3, <2>4, <3>1, <4>1, <5>1 DEF Tokens, One
      <4>3. CASE pending[v][e] # <<>>
        <5>1. ~free'[v][e] /\ pc'[s] = "takeWake"
          BY <1>b, <2>1, <2>2, <2>4, <3>1, <4>1, <4>3
        <5> QED BY <1>b, <1>c, <2>3, <2>4, <3>1, <4>1, <5>1 DEF Tokens, One
      <4> QED BY <4>2, <4>3
    <3>2. CASE cur[t] # v
      BY <1>a, <1>b, <1>c, <2>1, <2>2, <2>3, <2>4, <3>2 DEF Tokens, One
    <3> QED BY <3>1, <3>2
  <2>5. CASE t = r
    BY <1>a, <1>b, <1>c, <2>1, <2>2, <2>3, <2>5 DEF Tokens, One
  <2>6. CASE t # s /\ t # r
    BY <1>a, <1>b, <1>c, <2>1, <2>2, <2>3, <2>6 DEF Tokens
  <2> QED BY <2>4, <2>5, <2>6
<1>4. ASSUME NEW t \in Threads, WriteIncr(t) PROVE Tokens(v, e, s, r)' = 1
  <2>1. wakeIncr'[v][e] = IF v = cur[t] /\ t = s THEN wakeIncr[v][e] + 1 ELSE wakeIncr[v][e]
    BY <1>a, <1>b, <1>4, WakeEffect
  <2>2. pc' = [pc EXCEPT ![t] = IF @ = "sendWake" THEN "loop"
                                ELSE IF gotIncr[t] THEN "push" ELSE "loop"]
    BY <1>4 DEF WriteIncr, AfterTake
  <2>3. /\ pc[t] \in {"sendWake", "takeWake"} /\ cur' = cur /\ gotIncr' = gotIncr
        /\ free' = free /\ wakeTake' = wakeTake
    BY <1>4 DEF WriteIncr
  <2>4. CASE t = s
    BY <1>a, <1>b, <1>c, <2>1, <2>2, <2>3, <2>4 DEF Tokens, One
  <2>5. CASE t = r
    BY <1>a, <1>b, <1>c, <2>1, <2>2, <2>3, <2>5 DEF Tokens, One
  <2>6. CASE t # s /\ t # r
    BY <1>a, <1>b, <1>c, <2>1, <2>2, <2>3, <2>6 DEF Tokens
  <2> QED BY <2>4, <2>5, <2>6
<1>5. ASSUME NEW t \in Threads, Drain(t) PROVE Tokens(v, e, s, r)' = 1
  BY <1>b, <1>c, <1>5 DEF Drain, Tokens, One
<1>6. ASSUME NEW t \in Threads, WriteTake(t) PROVE Tokens(v, e, s, r)' = 1
  <2>1. wakeTake'[v][Other(e)] = IF v = cur[t] /\ t = r THEN wakeTake[v][Other(e)] + 1
                                 ELSE wakeTake[v][Other(e)]
    BY <1>a, <1>b, <1>6, WakeEffect
  <2>2. pc' = [pc EXCEPT ![t] = "loop"]
    BY <1>6 DEF WriteTake
  <2>3. /\ pc[t] = "pushWake" /\ cur' = cur /\ gotIncr' = gotIncr
        /\ free' = free /\ wakeIncr' = wakeIncr
    BY <1>6 DEF WriteTake
  <2>4. CASE t = s
    BY <1>a, <1>b, <1>c, <2>1, <2>2, <2>3, <2>4 DEF Tokens, One
  <2>5. CASE t = r
    BY <1>a, <1>b, <1>c, <2>1, <2>2, <2>3, <2>5 DEF Tokens, One
  <2>6. CASE t # s /\ t # r
    BY <1>a, <1>b, <1>c, <2>1, <2>2, <2>3, <2>6 DEF Tokens
  <2> QED BY <2>4, <2>5, <2>6
<1>7. ASSUME NEW t \in Threads, NEW w \in Peers(t), ReadWake(t, w)
      PROVE  Tokens(v, e, s, r)' = 1
  <2>0. Readable(w, In(t)) /\ pc[t] = "loop" /\ free' = free
    BY <1>7 DEF ReadWake, BatchReadable
  <2>1. wakeIncr'[v][e] = IF v = w /\ t = r THEN 0 ELSE wakeIncr[v][e]
    BY <1>a, <1>b, <1>7, WakeEffect
  <2>2. wakeTake'[v][Other(e)] = IF v = w /\ t = s THEN 0 ELSE wakeTake[v][Other(e)]
    BY <1>a, <1>b, <1>7, WakeEffect
  <2>3. cur' = [cur EXCEPT ![t] = w]
    BY <1>7 DEF ReadWake
  <2>4. /\ gotIncr' = [gotIncr EXCEPT ![t] = wakeIncr[w][In(t)] > 0]
        /\ pc' = [pc EXCEPT ![t] = IF wakeTake[w][In(t)] > 0 THEN "take"
                                   ELSE IF wakeIncr[w][In(t)] > 0 THEN "push" ELSE "loop"]
    BY <1>7, <2>0 DEF ReadWake, AfterTake
  <2>5. CASE t = s
    <3>1. Other(e) = In(t) /\ cur'[r] = cur[r] /\ pc'[r] = pc[r] /\ gotIncr'[r] = gotIncr[r]
      BY <1>a, <1>b, <2>3, <2>4, <2>5
    <3>2. CASE w = v
      <4>1. /\ cur'[s] = v /\ wakeTake'[v][Other(e)] = 0 /\ wakeIncr'[v][e] = wakeIncr[v][e]
            /\ pc'[s] \in {"sendWake", "take", "takeWake"} <=> wakeTake[v][Other(e)] > 0
        BY <1>a, <1>b, <2>1, <2>2, <2>3, <2>4, <2>5, <3>1, <3>2
      <4>2. wakeTake[v][Other(e)] <= 1
        BY <1>b, <1>c DEF Tokens, One
      <4> QED BY <1>b, <1>c, <2>0, <2>5, <3>1, <4>1, <4>2 DEF Tokens, One
    <3>3. CASE w # v
      BY <1>a, <1>b, <1>c, <2>0, <2>1, <2>2, <2>3, <2>4, <2>5, <3>1, <3>3 DEF Tokens, One
    <3> QED BY <3>2, <3>3
  <2>6. CASE t = r
    <3>1. e = In(t) /\ cur'[s] = cur[s] /\ pc'[s] = pc[s]
      BY <1>a, <1>b, <2>3, <2>4, <2>6
    <3>2. CASE w = v
      <4>0. /\ cur'[r] = v /\ wakeIncr'[v][e] = 0
            /\ wakeTake'[v][Other(e)] = wakeTake[v][Other(e)]
            /\ pc'[r] \in {"take", "push", "loop"}
            /\ wakeIncr[v][e] = 1 => pc'[r] # "loop"
            /\ wakeIncr[v][e] = 0 => pc'[r] # "push"
        BY <1>a, <1>b, <2>1, <2>2, <2>3, <2>4, <2>6, <3>1, <3>2
      <4>a. gotIncr'[r] = (wakeIncr[v][e] > 0)
        BY <1>b, <2>4, <2>6, <3>1, <3>2
      <4>b. wakeIncr[v][e] = 1 => gotIncr'[r]
        BY <4>a, 1 > 0, Zenon
      <4>c. wakeIncr[v][e] = 0 => ~gotIncr'[r]
        BY <4>a, ~(0 > 0), Zenon
      <4>1. /\ cur'[r] = v /\ wakeIncr'[v][e] = 0
            /\ wakeTake'[v][Other(e)] = wakeTake[v][Other(e)]
            /\ pc'[r] \in {"take", "push", "loop"}
            /\ wakeIncr[v][e] = 1 => gotIncr'[r] /\ pc'[r] # "loop"
            /\ wakeIncr[v][e] = 0 => ~gotIncr'[r] /\ pc'[r] # "push"
        BY <4>0, <4>b, <4>c
      <4>2. wakeIncr[v][e] <= 1
        BY <1>b, <1>c DEF Tokens, One
      <4>3. CASE wakeIncr[v][e] = 0
        <5>1. ~gotIncr'[r] /\ pc'[r] \in {"take", "loop"}
          BY <4>1, <4>3
        <5> QED BY <1>d, <2>0, <2>6, <3>1, <4>1, <4>3, <5>1 DEF Tokens, One
      <4>4. CASE wakeIncr[v][e] = 1
        <5>1. gotIncr'[r] /\ pc'[r] \in {"take", "push"}
          BY <4>1, <4>4
        <5> QED BY <1>d, <2>0, <2>6, <3>1, <4>1, <4>4, <5>1 DEF Tokens, One
      <4> QED BY <1>d, <4>2, <4>3, <4>4
    <3>3. CASE w # v
      BY <1>a, <1>b, <1>c, <2>0, <2>1, <2>2, <2>3, <2>4, <2>6, <3>1, <3>3 DEF Tokens, One
    <3> QED BY <3>2, <3>3
  <2>7. CASE t # s /\ t # r
    BY <1>a, <1>b, <1>c, <2>0, <2>1, <2>2, <2>3, <2>4, <2>7 DEF Tokens
  <2> QED BY <2>5, <2>6, <2>7
<1>8. ASSUME NEW t \in Threads, Reap(t) PROVE Tokens(v, e, s, r)' = 1
  BY <1>b, <1>8 DEF Reap, Tokens, One
<1>9. ASSUME NEW t \in Threads, NEW c \in Ctcs, PushSelf(t, c) PROVE Tokens(v, e, s, r)' = 1
  BY <1>b, <1>9 DEF PushSelf, Tokens, One
<1>10. ASSUME NEW t \in Threads, NEW c \in Ctcs, NEW w \in Peers(t), PushShared(t, w, c)
       PROVE  Tokens(v, e, s, r)' = 1
  <2>1. free'[v][e] = IF v = w /\ t = s THEN FALSE ELSE free[v][e]
    BY <1>a, <1>b, <1>10 DEF PushShared
  <2>2. /\ pc' = [pc EXCEPT ![t] = "sendWake"] /\ cur' = [cur EXCEPT ![t] = w]
        /\ pc[t] = "loop" /\ free[w][Out(t)]
        /\ wakeIncr' = wakeIncr /\ wakeTake' = wakeTake /\ gotIncr' = gotIncr
    BY <1>10 DEF PushShared
  <2> QED BY <1>a, <1>b, <1>c, <2>1, <2>2 DEF Tokens, One
<1>11. ASSUME NEW t \in Threads, NEW c \in Ctcs, NEW w \in Peers(t), PushPending(t, w, c)
       PROVE  Tokens(v, e, s, r)' = 1
  BY <1>b, <1>11 DEF PushPending, Tokens, One
<1> QED
  BY <1>1, <1>2, <1>3, <1>4, <1>5, <1>6, <1>7, <1>8, <1>9, <1>10, <1>11
     DEF Next, LoopStep, UserStep

\* The count at one is an invariant once batch events are known to be readable.
LEMMA TokenStep == TypeOK /\ BatchReadable /\ TokenOnce /\ [Next]_vars => TokenOnce'
<1> SUFFICES ASSUME TypeOK, BatchReadable, TokenOnce, [Next]_vars,
                    NEW v \in Workers, NEW e \in Dirs
             PROVE  TokenCount(v, e)' = 1
  BY DEF TokenOnce
<1>1. PICK s \in Threads : s = Sender(v, e)
  BY Ends DEF Threads
<1>2. PICK r \in Threads : r = Receiver(v, e)
  BY Ends DEF Threads
<1>3. TokenCount(v, e) = Tokens(v, e, s, r) /\ TokenCount(v, e) = 1
  BY <1>1, <1>2, TokensDef DEF TokenOnce
<1>4. TokenCount(v, e)' = Tokens(v, e, s, r)'
  BY <1>1, <1>2 DEF TokenCount, TokenAtReceiver, Busy, Tokens
<1>5. CASE Next
  BY <1>1, <1>2, <1>3, <1>4, <1>5, TokensStep
<1>6. CASE UNCHANGED vars
  BY <1>3, <1>4, <1>6 DEF vars, Tokens
<1> QED BY <1>5, <1>6

\* Every direction of every worker has exactly one token, whatever the number
\* of workers and ctcs and in every interleaving.
THEOREM TokenAlwaysOnce == Spec => []TokenOnce
<1>1. Init => TokenOnce
  <2> SUFFICES ASSUME Init, NEW v \in Workers, NEW e \in Dirs PROVE TokenCount(v, e) = 1
    BY DEF TokenOnce
  <2>1. Sender(v, e) \in Threads /\ Receiver(v, e) \in Threads /\ Other(e) \in Dirs
    BY Ends DEF Threads
  <2> QED BY <2>1 DEF Init, TokenCount, TokenAtReceiver, Busy, One
<1> QED BY <1>1, TokenStep, TypeCorrect, BatchAlwaysReadable, PTL DEF Spec

\* At most one of the five terms of a count is positive.
LEMMA OneTokenOnly ==
  ASSUME TypeOK, TokenOnce, NEW w \in Workers, NEW d \in Dirs
  PROVE  /\ wakeIncr[w][d] <= 1 /\ wakeTake[w][d] <= 1
         /\ TokenAtSender(w, d) =>
              ~TokenSent(w, d) /\ ~TokenAtReceiver(w, d) /\ ~TokenReturned(w, d)
         /\ free[w][d] => ~Busy(Sender(w, d), w, {"sendWake", "take", "takeWake"})
         /\ TokenAtReceiver(w, d) => ~TokenSent(w, d) /\ ~TokenReturned(w, d)
<1>1. \A e \in Dirs : free[w][e] \in BOOLEAN /\ wakeIncr[w][e] \in Nat /\ wakeTake[w][e] \in Nat
  BY DEF TypeOK
<1>2. Other(d) \in Dirs /\ Other(Other(d)) = d
  BY DEF Dirs, Other
<1>3. TokenCount(w, d) = 1 /\ TokenCount(w, Other(d)) = 1
  BY <1>2 DEF TokenOnce
<1>4. \A b : One(b) \in {0, 1} /\ (b => One(b) = 1)
  BY DEF One
<1>5. wakeIncr[w][d] <= 1
  BY <1>1, <1>2, <1>3, <1>4 DEF TokenCount
<1>6. wakeTake[w][d] <= 1
  BY <1>1, <1>2, <1>3, <1>4 DEF TokenCount
<1>7. TokenAtSender(w, d) =>
        ~TokenSent(w, d) /\ ~TokenAtReceiver(w, d) /\ ~TokenReturned(w, d)
  BY <1>1, <1>2, <1>3, <1>4 DEF TokenCount, TokenAtSender, TokenSent, TokenReturned
<1>8. ASSUME free[w][d], Busy(Sender(w, d), w, {"sendWake", "take", "takeWake"})
      PROVE  FALSE
  <2>1. /\ One(free[w][d]) = 1 /\ One(TokenAtReceiver(w, d)) \in {0, 1}
        /\ One(Busy(Sender(w, d), w, {"sendWake", "take", "takeWake"})) = 1
    BY <1>8 DEF One
  <2> QED BY <1>1, <1>2, <1>3, <2>1 DEF TokenCount
<1>9. ASSUME TokenAtReceiver(w, d)
      PROVE  ~TokenSent(w, d) /\ ~TokenReturned(w, d)
  <2>1. /\ One(free[w][d]) \in {0, 1} /\ One(TokenAtReceiver(w, d)) = 1
        /\ One(Busy(Sender(w, d), w, {"sendWake", "take", "takeWake"})) \in {0, 1}
    BY <1>9 DEF One
  <2> QED BY <1>1, <1>2, <1>3, <2>1 DEF TokenCount, TokenSent, TokenReturned
<1> QED BY <1>5, <1>6, <1>7, <1>8, <1>9

\* The shared list is never written by the sender while the receiver has been
\* told to drain it or is draining it.
THEOREM ListRaceFree == Spec => []NoListRace
<1>1. TypeOK /\ TokenOnce => NoListRace
  BY OneTokenOnly DEF NoListRace
<1> QED BY <1>1, TypeCorrect, TokenAlwaysOnce, PTL

\* The two halves of the eventfd counter stay at one or below.
THEOREM WakeBitsNeverCarry == Spec => []WakeBits
<1>1. TypeOK /\ TokenOnce => WakeBits
  BY OneTokenOnly DEF WakeBits
<1> QED BY <1>1, TypeCorrect, TokenAlwaysOnce, PTL

-----------------------------------------------------------------------------
(* The lists. *)

\* What a step does to the lists and the flag of direction e of worker v.
LEMMA ListEffect ==
  ASSUME TypeOK, NEW t \in Threads, NEW v \in Workers, NEW e \in Dirs
  PROVE  /\ Move(t) =>
              IF v = cur[t] /\ e = Out(t)
              THEN /\ shared'[v][e] = pending[v][e] /\ pending'[v][e] = <<>>
                   /\ free'[v][e] = (free[v][e] \/ pending[v][e] = <<>>)
              ELSE /\ shared'[v][e] = shared[v][e] /\ pending'[v][e] = pending[v][e]
                   /\ free'[v][e] = free[v][e]
         /\ Drain(t) => shared'[v][e] =
              IF v = cur[t] /\ e = In(t) THEN <<>> ELSE shared[v][e]
         /\ \A w \in Peers(t), c \in Ctcs : PushShared(t, w, c) =>
              IF v = w /\ e = Out(t)
              THEN free[v][e] /\ ~free'[v][e] /\ shared'[v][e] = Append(shared[v][e], c)
              ELSE free'[v][e] = free[v][e] /\ shared'[v][e] = shared[v][e]
         /\ \A w \in Peers(t), c \in Ctcs : PushPending(t, w, c) =>
              IF v = w /\ e = Out(t)
              THEN ~free[v][e] /\ pending'[v][e] = Append(pending[v][e], c)
              ELSE pending'[v][e] = pending[v][e]
<1>1. /\ shared \in [Workers -> [Dirs -> Seq(Ctcs)]] /\ pending \in [Workers -> [Dirs -> Seq(Ctcs)]]
      /\ free \in [Workers -> [Dirs -> BOOLEAN]]
      /\ cur[t] \in Workers /\ Peers(t) \subseteq Workers /\ In(t) \in Dirs /\ Out(t) \in Dirs
  BY PeersType DEF TypeOK
<1>2. ASSUME Move(t)
      PROVE  IF v = cur[t] /\ e = Out(t)
             THEN /\ shared'[v][e] = pending[v][e] /\ pending'[v][e] = <<>>
                  /\ free'[v][e] = (free[v][e] \/ pending[v][e] = <<>>)
             ELSE /\ shared'[v][e] = shared[v][e] /\ pending'[v][e] = pending[v][e]
                  /\ free'[v][e] = free[v][e]
  <2>1. shared' = [shared EXCEPT ![cur[t]][Out(t)] = pending[cur[t]][Out(t)]]
    BY <1>2 DEF Move
  <2>2. pending' = [pending EXCEPT ![cur[t]][Out(t)] = <<>>]
    BY <1>2 DEF Move
  <2>3. free' = [free EXCEPT ![cur[t]][Out(t)] = @ \/ pending[cur[t]][Out(t)] = <<>>]
    BY <1>2 DEF Move
  <2> QED BY <1>1, <2>1, <2>2, <2>3
<1>3. ASSUME Drain(t)
      PROVE  shared'[v][e] = IF v = cur[t] /\ e = In(t) THEN <<>> ELSE shared[v][e]
  <2>1. shared' = [shared EXCEPT ![cur[t]][In(t)] = <<>>]
    BY <1>3 DEF Drain
  <2> QED BY <1>1, <2>1
<1>4. ASSUME NEW w \in Peers(t), NEW c \in Ctcs, PushShared(t, w, c)
      PROVE  IF v = w /\ e = Out(t)
             THEN free[v][e] /\ ~free'[v][e] /\ shared'[v][e] = Append(shared[v][e], c)
             ELSE free'[v][e] = free[v][e] /\ shared'[v][e] = shared[v][e]
  <2>1. /\ free[w][Out(t)]
        /\ free' = [free EXCEPT ![w][Out(t)] = FALSE]
        /\ shared' = [shared EXCEPT ![w][Out(t)] = Append(@, c)]
    BY <1>4 DEF PushShared
  <2> QED BY <1>1, <2>1
<1>5. ASSUME NEW w \in Peers(t), NEW c \in Ctcs, PushPending(t, w, c)
      PROVE  IF v = w /\ e = Out(t)
             THEN ~free[v][e] /\ pending'[v][e] = Append(pending[v][e], c)
             ELSE pending'[v][e] = pending[v][e]
  <2>1. ~free[w][Out(t)] /\ pending' = [pending EXCEPT ![w][Out(t)] = Append(@, c)]
    BY <1>5 DEF PushPending
  <2> QED BY <1>1, <2>1
<1> QED BY <1>2, <1>3, <1>4, <1>5

\* The four situations in which a list must be empty, for one direction with
\* its sender s and receiver r named.
Emptied(v, e, s, r) ==
  /\ free[v][e] => shared[v][e] = <<>> /\ pending[v][e] = <<>>
  /\ cur[s] = v /\ pc[s] = "take" => shared[v][e] = <<>>
  /\ cur[r] = v /\ pc[r] = "pushWake" => shared[v][e] = <<>>
  /\ wakeTake[v][Other(e)] > 0 => shared[v][e] = <<>>

\* Where the token is decides what s and r can be doing.
LEMMA TokenExcludes ==
  ASSUME TypeOK, TokenOnce, NEW v \in Workers, NEW e \in Dirs,
         NEW s \in Threads, NEW r \in Threads, s = Sender(v, e), r = Receiver(v, e)
  PROVE  /\ free[v][e] => /\ ~(cur[r] = v /\ pc[r] = "pushWake")
                          /\ ~(wakeTake[v][Other(e)] > 0)
                          /\ ~(cur[s] = v /\ pc[s] = "take")
         /\ cur[s] = v /\ pc[s] = "take" => /\ ~(cur[r] = v /\ pc[r] = "pushWake")
                                           /\ ~(wakeTake[v][Other(e)] > 0)
                                           /\ ~free[v][e]
<1>1. TokenAtSender(v, e) => ~TokenAtReceiver(v, e) /\ ~TokenReturned(v, e)
  BY OneTokenOnly
<1>2. free[v][e] => ~Busy(s, v, {"sendWake", "take", "takeWake"})
  BY OneTokenOnly
<1> QED BY <1>1, <1>2 DEF TokenAtSender, TokenAtReceiver, TokenReturned, Busy

LEMMA EmptiedStep ==
  ASSUME TypeOK, BatchReadable, TokenOnce, Next, NEW v \in Workers, NEW e \in Dirs,
         NEW s \in Threads, NEW r \in Threads, s = Sender(v, e), r = Receiver(v, e),
         Emptied(v, e, s, r)
  PROVE  Emptied(v, e, s, r)'
<1>a. /\ s # r
      /\ \A t \in Threads : s = t <=> v \in Peers(t) /\ e = Out(t)
      /\ \A t \in Threads : r = t <=> v \in Peers(t) /\ e = In(t)
  BY Ends
<1>b. /\ pc \in [Threads -> Phases] /\ cur \in [Threads -> Workers]
      /\ \A t \in Threads : cur[t] \in Peers(t) /\ Out(t) # In(t)
      /\ \A t \in Threads : Other(e) = Out(t) <=> e = In(t)
      /\ \A t \in Threads : Other(e) = In(t) <=> e = Out(t)
      /\ Other(e) \in Dirs
  <2>1. \A t \in Threads : /\ Out(t) # In(t) /\ Other(e) \in Dirs
                           /\ Other(e) = Out(t) <=> e = In(t)
                           /\ Other(e) = In(t) <=> e = Out(t)
    BY Ends, PeersType
  <2> QED BY <2>1 DEF TypeOK
<1>c. wakeTake[v][Other(e)] \in Nat
  BY <1>b DEF TypeOK
<1>1. ASSUME NEW t \in Threads, Start(t) PROVE Emptied(v, e, s, r)'
  BY <1>b, <1>1 DEF Start, Emptied
<1>2. ASSUME NEW t \in Threads, EpollWait(t) PROVE Emptied(v, e, s, r)'
  BY <1>b, <1>2 DEF EpollWait, Emptied
<1>3. ASSUME NEW t \in Threads, Move(t) PROVE Emptied(v, e, s, r)'
  <2>1. /\ pc[t] = "take" /\ wakeTake' = wakeTake /\ cur' = cur
        /\ pc' = [pc EXCEPT ![t] = pc'[t]] /\ pc'[t] \in {"takeWake", "push", "loop"}
    BY <1>b, <1>3 DEF Move, AfterTake
  <2>2. CASE t = s /\ v = cur[t]
    <3>1. /\ shared'[v][e] = pending[v][e] /\ pending'[v][e] = <<>>
          /\ free'[v][e] = (free[v][e] \/ pending[v][e] = <<>>)
      BY <1>3, <1>a, <2>2, ListEffect
    <3>2. /\ ~free[v][e] /\ ~(wakeTake[v][Other(e)] > 0)
          /\ ~(cur[r] = v /\ pc[r] = "pushWake")
      BY <2>1, <2>2, TokenExcludes
    <3> QED BY <1>a, <1>b, <2>1, <2>2, <3>1, <3>2 DEF Emptied
  <2>3. CASE ~(t = s /\ v = cur[t])
    <3>1. /\ shared'[v][e] = shared[v][e] /\ pending'[v][e] = pending[v][e]
          /\ free'[v][e] = free[v][e]
      BY <1>3, <1>a, <1>b, <2>3, ListEffect
    <3> QED BY <1>b, <2>1, <3>1 DEF Emptied
  <2> QED BY <2>2, <2>3
<1>4. ASSUME NEW t \in Threads, WriteIncr(t) PROVE Emptied(v, e, s, r)'
  <2>1. /\ wakeTake' = wakeTake /\ cur' = cur /\ shared' = shared /\ pending' = pending
        /\ pc' = [pc EXCEPT ![t] = pc'[t]] /\ pc'[t] \in {"push", "loop"} /\ free' = free
    BY <1>b, <1>4 DEF WriteIncr, AfterTake
  <2> QED BY <1>b, <2>1 DEF Emptied
<1>5. ASSUME NEW t \in Threads, Drain(t) PROVE Emptied(v, e, s, r)'
  <2>1. /\ wakeTake' = wakeTake /\ cur' = cur /\ pending' = pending /\ free' = free
        /\ pc' = [pc EXCEPT ![t] = "pushWake"]
    BY <1>5 DEF Drain
  <2>2. shared'[v][e] = IF t = r /\ v = cur[t] THEN <<>> ELSE shared[v][e]
    BY <1>5, <1>a, <1>b, ListEffect
  <2> QED BY <1>b, <2>1, <2>2 DEF Emptied
<1>6. ASSUME NEW t \in Threads, WriteTake(t) PROVE Emptied(v, e, s, r)'
  <2>1. /\ cur' = cur /\ pending' = pending /\ free' = free /\ shared' = shared
        /\ pc[t] = "pushWake" /\ pc' = [pc EXCEPT ![t] = "loop"]
    BY <1>6 DEF WriteTake
  <2>2. wakeTake'[v][Other(e)] = IF t = r /\ v = cur[t] THEN wakeTake[v][Other(e)] + 1
                                 ELSE wakeTake[v][Other(e)]
    BY <1>6, <1>a, <1>b, WakeEffect
  <2> QED BY <1>b, <1>c, <2>1, <2>2 DEF Emptied
<1>7. ASSUME NEW t \in Threads, NEW w \in Peers(t), ReadWake(t, w)
      PROVE  Emptied(v, e, s, r)'
  <2>1. /\ pending' = pending /\ free' = free /\ shared' = shared
        /\ cur' = [cur EXCEPT ![t] = w] /\ Readable(w, In(t))
    BY <1>7 DEF ReadWake, BatchReadable
  <2>2. wakeTake'[v][Other(e)] = IF t = s /\ v = w THEN 0 ELSE wakeTake[v][Other(e)]
    BY <1>7, <1>a, <1>b, WakeEffect
  <2>3. /\ pc' = [pc EXCEPT ![t] = pc'[t]] /\ pc'[t] # "pushWake"
        /\ pc'[t] = "take" => wakeTake[w][In(t)] > 0
    BY <1>7, <1>b, <2>1 DEF ReadWake, AfterTake
  <2> QED BY <1>a, <1>b, <1>c, <2>1, <2>2, <2>3 DEF Emptied
<1>8. ASSUME NEW t \in Threads, Reap(t) PROVE Emptied(v, e, s, r)'
  BY <1>8 DEF Reap, Emptied
<1>9. ASSUME NEW t \in Threads, NEW c \in Ctcs, PushSelf(t, c) PROVE Emptied(v, e, s, r)'
  BY <1>9 DEF PushSelf, Emptied
<1>10. ASSUME NEW t \in Threads, NEW c \in Ctcs, NEW w \in Peers(t), PushShared(t, w, c)
       PROVE  Emptied(v, e, s, r)'
  <2>1. /\ wakeTake' = wakeTake /\ pending' = pending /\ cur' = [cur EXCEPT ![t] = w]
        /\ pc[t] = "loop" /\ pc' = [pc EXCEPT ![t] = "sendWake"]
    BY <1>10 DEF PushShared
  <2>2. CASE t = s /\ v = w
    <3>1. free[v][e] /\ ~free'[v][e]
      BY <1>10, <1>a, <2>2, ListEffect
    <3>2. ~(wakeTake[v][Other(e)] > 0) /\ ~(cur[r] = v /\ pc[r] = "pushWake")
      BY <3>1, TokenExcludes
    <3> QED BY <1>a, <1>b, <2>1, <2>2, <3>1, <3>2 DEF Emptied
  <2>3. CASE ~(t = s /\ v = w)
    <3>1. free'[v][e] = free[v][e] /\ shared'[v][e] = shared[v][e]
      BY <1>10, <1>a, <1>b, <2>3, ListEffect
    <3> QED BY <1>b, <2>1, <3>1 DEF Emptied
  <2> QED BY <2>2, <2>3
<1>11. ASSUME NEW t \in Threads, NEW c \in Ctcs, NEW w \in Peers(t), PushPending(t, w, c)
       PROVE  Emptied(v, e, s, r)'
  <2>1. free[v][e] => pending'[v][e] = pending[v][e]
    BY <1>11, ListEffect
  <2> QED BY <1>11, <2>1 DEF PushPending, Emptied
<1> QED
  BY <1>1, <1>2, <1>3, <1>4, <1>5, <1>6, <1>7, <1>8, <1>9, <1>10, <1>11
     DEF Next, LoopStep, UserStep

LEMMA EmptyStep ==
  /\ TypeOK /\ BatchReadable /\ TokenOnce
  /\ MoveLosesNothing /\ DrainedOnReturn /\ [Next]_vars
  => (MoveLosesNothing /\ DrainedOnReturn)'
<1> SUFFICES ASSUME TypeOK, BatchReadable, TokenOnce, MoveLosesNothing, DrainedOnReturn,
                    [Next]_vars, NEW v \in Workers, NEW e \in Dirs
             PROVE  /\ Busy(Sender(v, e), v, {"take"})' => shared'[v][e] = <<>>
                    /\ free'[v][e] => shared'[v][e] = <<>> /\ pending'[v][e] = <<>>
                    /\ Busy(Receiver(v, e), v, {"pushWake"})' \/ TokenReturned(v, e)'
                         => shared'[v][e] = <<>>
  BY DEF MoveLosesNothing, DrainedOnReturn
<1>1. PICK s \in Threads : s = Sender(v, e)
  BY Ends DEF Threads
<1>2. PICK r \in Threads : r = Receiver(v, e)
  BY Ends DEF Threads
<1>3. Emptied(v, e, s, r)
  BY <1>1, <1>2 DEF MoveLosesNothing, DrainedOnReturn, Emptied, Busy, TokenReturned
<1>4. Emptied(v, e, s, r)'
  <2>1. CASE Next
    BY <1>1, <1>2, <1>3, <2>1, EmptiedStep
  <2>2. CASE UNCHANGED vars
    BY <1>3, <2>2 DEF vars, Emptied
  <2> QED BY <2>1, <2>2
<1> QED BY <1>1, <1>2, <1>4 DEF Emptied, Busy, TokenReturned

\* The move function never overwrites a list that still holds ctcs, and the
\* list is drained whenever its token is on the way back.
THEOREM NothingOverwritten == Spec => [](MoveLosesNothing /\ DrainedOnReturn)
<1>1. Init => MoveLosesNothing /\ DrainedOnReturn
  <2> SUFFICES ASSUME Init, NEW v \in Workers, NEW e \in Dirs
               PROVE  shared[v][e] = <<>> /\ pending[v][e] = <<>>
    BY DEF MoveLosesNothing, DrainedOnReturn
  <2> QED BY DEF Init
<1> QED BY <1>1, EmptyStep, TypeCorrect, BatchAlwaysReadable, TokenAlwaysOnce, PTL DEF Spec
-----------------------------------------------------------------------------
(* No wake-up is lost. *)

\* NoLostWakeup for direction e of worker v with its reader r named.
EdgeKept(v, e, r) ==
  wakeIncr[v][e] > 0 \/ wakeTake[v][e] > 0 =>
    pc[r] = "new" \/ edge[v][e] \/ v \in evs[r]

LEMMA WatchedStep ==
  ASSUME TypeOK, Next, NEW v \in Workers, NEW e \in Dirs, NEW r \in Threads,
         r = Receiver(v, e), EdgeKept(v, e, r)
  PROVE  EdgeKept(v, e, r)'
<1>a. /\ \A t \in Threads : r = t <=> v \in Peers(t) /\ e = In(t)
      /\ \A t \in Threads : Peers(t) \subseteq Workers /\ In(t) \in Dirs /\ Out(t) \in Dirs
  BY Ends, PeersType
<1>b. /\ pc \in [Threads -> Phases] /\ evs \in [Threads -> SUBSET Workers]
      /\ edge \in [Workers -> [Dirs -> BOOLEAN]] /\ cur \in [Threads -> Workers]
  BY DEF TypeOK
<1>1. ASSUME NEW t \in Threads, Start(t) PROVE EdgeKept(v, e, r)'
  <2>1. edge'[v][e] <=> edge[v][e] \/ (r = t /\ Readable(v, e))
    BY <1>1 DEF Start
  <2>2. UNCHANGED <<wakeIncr, wakeTake, evs>> /\ pc' = [pc EXCEPT ![t] = "loop"]
    BY <1>1 DEF Start
  <2> QED BY <1>b, <2>1, <2>2 DEF EdgeKept, Readable
<1>2. ASSUME NEW t \in Threads, EpollWait(t) PROVE EdgeKept(v, e, r)'
  <2>1. UNCHANGED <<wakeIncr, wakeTake, pc>>
    BY <1>2 DEF EpollWait
  <2>2. CASE r = t
    <3>1. evs[r] = {} /\ evs'[r] = {w \in Peers(r) : edge[w][e] /\ Readable(w, e)}
      BY <1>2, <1>a, <1>b, <2>2 DEF EpollWait
    <3> QED BY <1>a, <2>1, <2>2, <3>1 DEF EdgeKept, Readable
  <2>3. CASE r # t
    <3>1. evs'[r] = evs[r] /\ edge'[v][e] = edge[v][e]
      BY <1>2, <1>a, <1>b, <2>3 DEF EpollWait
    <3> QED BY <2>1, <3>1 DEF EdgeKept
  <2> QED BY <2>2, <2>3
<1>3. ASSUME NEW t \in Threads, Move(t) PROVE EdgeKept(v, e, r)'
  <2>1. UNCHANGED <<wakeIncr, wakeTake, edge, evs>> /\ pc[t] # "new"
        /\ pc' = [pc EXCEPT ![t] = pc'[t]]
    BY <1>3, <1>b DEF Move
  <2> QED BY <1>b, <2>1 DEF EdgeKept
<1>4. ASSUME NEW t \in Threads, WriteIncr(t) PROVE EdgeKept(v, e, r)'
  <2>1. /\ UNCHANGED <<wakeTake, evs>> /\ pc[t] # "new" /\ pc' = [pc EXCEPT ![t] = pc'[t]]
        /\ edge' = [edge EXCEPT ![cur[t]][Out(t)] = @ \/ pc[Receiver(cur[t], Out(t))] # "new"]
    BY <1>4, <1>b DEF WriteIncr, Notify
  <2>2. CASE v = cur[t] /\ e = Out(t)
    <3>1. edge'[v][e] = (edge[v][e] \/ pc[r] # "new")
      BY <1>a, <1>b, <2>1, <2>2
    <3>2. r # t
      BY <2>2, Ends
    <3> QED BY <1>b, <2>1, <3>1, <3>2 DEF EdgeKept
  <2>3. CASE ~(v = cur[t] /\ e = Out(t))
    <3>1. edge'[v][e] = edge[v][e] /\ wakeIncr'[v][e] = wakeIncr[v][e]
      BY <1>4, <1>a, <1>b, <2>1, <2>3, WakeEffect
    <3> QED BY <1>b, <2>1, <3>1 DEF EdgeKept
  <2> QED BY <2>2, <2>3
<1>5. ASSUME NEW t \in Threads, Drain(t) PROVE EdgeKept(v, e, r)'
  <2>1. UNCHANGED <<wakeIncr, wakeTake, edge, evs>> /\ pc[t] # "new"
        /\ pc' = [pc EXCEPT ![t] = "pushWake"]
    BY <1>5 DEF Drain
  <2> QED BY <1>b, <2>1 DEF EdgeKept
<1>6. ASSUME NEW t \in Threads, WriteTake(t) PROVE EdgeKept(v, e, r)'
  <2>1. /\ UNCHANGED <<wakeIncr, evs>> /\ pc[t] # "new" /\ pc' = [pc EXCEPT ![t] = "loop"]
        /\ edge' = [edge EXCEPT ![cur[t]][Out(t)] = @ \/ pc[Receiver(cur[t], Out(t))] # "new"]
    BY <1>6 DEF WriteTake, Notify
  <2>2. CASE v = cur[t] /\ e = Out(t)
    <3>1. edge'[v][e] = (edge[v][e] \/ pc[r] # "new")
      BY <1>a, <1>b, <2>1, <2>2
    <3>2. r # t
      BY <2>2, Ends
    <3> QED BY <1>b, <2>1, <3>1, <3>2 DEF EdgeKept
  <2>3. CASE ~(v = cur[t] /\ e = Out(t))
    <3>1. edge'[v][e] = edge[v][e] /\ wakeTake'[v][e] = wakeTake[v][e]
      BY <1>6, <1>a, <1>b, <2>1, <2>3, WakeEffect
    <3> QED BY <1>b, <2>1, <3>1 DEF EdgeKept
  <2> QED BY <2>2, <2>3
<1>7. ASSUME NEW t \in Threads, NEW w \in Peers(t), ReadWake(t, w) PROVE EdgeKept(v, e, r)'
  <2>1. /\ edge' = edge /\ pc[t] # "new" /\ pc' = [pc EXCEPT ![t] = pc'[t]]
        /\ evs' = [evs EXCEPT ![t] = @ \ {w}]
    BY <1>7, <1>b DEF ReadWake
  <2>2. /\ wakeIncr'[v][e] = IF v = w /\ e = In(t) THEN 0 ELSE wakeIncr[v][e]
        /\ wakeTake'[v][e] = IF v = w /\ e = In(t) THEN 0 ELSE wakeTake[v][e]
    BY <1>7, WakeEffect
  <2> QED BY <1>a, <1>b, <2>1, <2>2 DEF EdgeKept
<1>8. ASSUME NEW t \in Threads, Reap(t) PROVE EdgeKept(v, e, r)'
  BY <1>8 DEF Reap, EdgeKept
<1>9. ASSUME NEW t \in Threads, NEW c \in Ctcs, PushSelf(t, c) PROVE EdgeKept(v, e, r)'
  BY <1>9 DEF PushSelf, EdgeKept
<1>10. ASSUME NEW t \in Threads, NEW c \in Ctcs, NEW w \in Peers(t), PushShared(t, w, c)
       PROVE  EdgeKept(v, e, r)'
  BY <1>10, <1>b DEF PushShared, EdgeKept
<1>11. ASSUME NEW t \in Threads, NEW c \in Ctcs, NEW w \in Peers(t), PushPending(t, w, c)
       PROVE  EdgeKept(v, e, r)'
  BY <1>11 DEF PushPending, EdgeKept
<1> QED
  BY <1>1, <1>2, <1>3, <1>4, <1>5, <1>6, <1>7, <1>8, <1>9, <1>10, <1>11
     DEF Next, LoopStep, UserStep

\* An eventfd with something to read is on its reader's epoll ready list or in
\* its batch, whenever the reader registered it: EPOLLET loses no wake-up.
THEOREM WakeupsKept == Spec => []NoLostWakeup
<1>1. Init => NoLostWakeup
  <2> SUFFICES ASSUME Init, NEW v \in Workers, NEW e \in Dirs PROVE ~Readable(v, e)
    BY DEF NoLostWakeup
  <2> QED BY DEF Init, Readable
<1>2. TypeOK /\ NoLostWakeup /\ [Next]_vars => NoLostWakeup'
  <2> SUFFICES ASSUME TypeOK, NoLostWakeup, [Next]_vars, NEW v \in Workers, NEW e \in Dirs
               PROVE  EdgeKept(v, e, Receiver(v, e))'
    BY DEF NoLostWakeup, EdgeKept, Readable
  <2>1. PICK r \in Threads : r = Receiver(v, e)
    BY Ends DEF Threads
  <2>2. EdgeKept(v, e, r)
    BY <2>1 DEF NoLostWakeup, EdgeKept, Readable
  <2>3. EdgeKept(v, e, r)'
    <3>1. CASE Next
      BY <2>1, <2>2, <3>1, WatchedStep
    <3>2. CASE UNCHANGED vars
      BY <2>2, <3>2 DEF vars, EdgeKept
    <3> QED BY <3>1, <3>2
  <2> QED BY <2>1, <2>3 DEF EdgeKept
<1> QED BY <1>1, <1>2, TypeCorrect, PTL DEF Spec
-----------------------------------------------------------------------------
(* The hand-over implements CtcFifo.                                       *)

\* The queue of direction d of worker w: the refinement mapping.
FifoBar == [w \in Workers |-> [d \in Dirs |-> shared[w][d] \o pending[w][d]]]

LEMMA FifoNames ==
  /\ Fifo!Threads = Threads /\ Fifo!Dirs = Dirs
  /\ \A w, d : Fifo!Sender(w, d) = Sender(w, d) /\ Fifo!Receiver(w, d) = Receiver(w, d)
  /\ UNCHANGED <<FifoBar, enter, held>> => UNCHANGED Fifo!vars
BY DEF Fifo!Threads, Threads, Fifo!Dirs, Dirs, Fifo!Sender, Sender, Fifo!Receiver, Receiver,
       Fifo!vars, FifoBar

LEMMA ConcatFacts ==
  ASSUME NEW S, NEW p \in Seq(S), NEW q \in Seq(S), NEW c \in S
  PROVE  /\ p \o q \in Seq(S) /\ <<>> \o p = p /\ p \o <<>> = p
         /\ p \o Append(q, c) = Append(p \o q, c)
         /\ SubSeq(p \o q, 1, Len(p)) = p
         /\ SubSeq(p \o q, Len(p) + 1, Len(p \o q)) = q
         /\ Len(p) \in Nat /\ Len(p \o q) >= Len(p) /\ (p # <<>> => Len(p) >= 1)
OBVIOUS

\* A function of worker and direction that differs from f in one place.
LEMMA PointUpdate ==
  ASSUME NEW f \in [Workers -> [Dirs -> Seq(Ctcs)]], NEW g \in [Workers -> [Dirs -> Seq(Ctcs)]],
         NEW w \in Workers, NEW d \in Dirs, NEW x \in Seq(Ctcs),
         \A v \in Workers, e \in Dirs : g[v][e] = IF v = w /\ e = d THEN x ELSE f[v][e]
  PROVE  g = [f EXCEPT ![w][d] = x]
<1>1. \A v \in Workers : g[v] = [f EXCEPT ![w][d] = x][v]
  <2> TAKE v \in Workers
  <2>1. \A e \in Dirs : g[v][e] = [f EXCEPT ![w][d] = x][v][e]
    OBVIOUS
  <2>2. g[v] \in [Dirs -> Seq(Ctcs)] /\ [f EXCEPT ![w][d] = x][v] \in [Dirs -> Seq(Ctcs)]
    OBVIOUS
  <2> QED BY <2>1, <2>2
<1>2. [f EXCEPT ![w][d] = x] \in [Workers -> [Dirs -> Seq(Ctcs)]]
  OBVIOUS
<1> QED BY <1>1, <1>2

LEMMA ConcatType ==
  ASSUME NEW p \in [Workers -> [Dirs -> Seq(Ctcs)]], NEW q \in [Workers -> [Dirs -> Seq(Ctcs)]]
  PROVE  [w \in Workers |-> [d \in Dirs |-> p[w][d] \o q[w][d]]]
           \in [Workers -> [Dirs -> Seq(Ctcs)]]
<1>1. \A w \in Workers, d \in Dirs : p[w][d] \o q[w][d] \in Seq(Ctcs)
  <2> TAKE w \in Workers, d \in Dirs
  <2>1. p[w][d] \in Seq(Ctcs) /\ q[w][d] \in Seq(Ctcs)
    OBVIOUS
  <2> QED BY <2>1
<1> QED BY <1>1

LEMMA BarType ==
  ASSUME TypeOK, TypeOK'
  PROVE  /\ FifoBar \in [Workers -> [Dirs -> Seq(Ctcs)]]
         /\ FifoBar' \in [Workers -> [Dirs -> Seq(Ctcs)]]
         /\ \A v \in Workers, e \in Dirs :
              /\ FifoBar[v][e] = shared[v][e] \o pending[v][e]
              /\ FifoBar'[v][e] = shared'[v][e] \o pending'[v][e]
<1>1. FifoBar \in [Workers -> [Dirs -> Seq(Ctcs)]]
  BY ConcatType DEF TypeOK, FifoBar
<1>2. FifoBar' \in [Workers -> [Dirs -> Seq(Ctcs)]]
  BY ConcatType DEF TypeOK, FifoBar
<1>3. \A v \in Workers, e \in Dirs : FifoBar[v][e] = shared[v][e] \o pending[v][e]
  BY DEF FifoBar
<1>4. \A v \in Workers, e \in Dirs : FifoBar'[v][e] = shared'[v][e] \o pending'[v][e]
  BY DEF FifoBar
<1> QED BY <1>1, <1>2, <1>3, <1>4

\* A push to the shared list finds the pending one empty, so either push
\* appends to the queue.
LEMMA PushRefines ==
  ASSUME TypeOK, TypeOK', MoveLosesNothing, NEW t \in Threads, NEW w \in Peers(t),
         NEW c \in Ctcs, PushShared(t, w, c) \/ PushPending(t, w, c)
  PROVE  Fifo!Push(w, Out(t), c)
<1>1. /\ w \in Workers /\ Out(t) \in Dirs /\ Sender(w, Out(t)) = t
      /\ shared \in [Workers -> [Dirs -> Seq(Ctcs)]]
      /\ pending \in [Workers -> [Dirs -> Seq(Ctcs)]]
  <2>1. w \in Workers /\ Out(t) \in Dirs
    BY PeersType
  <2>2. Sender(w, Out(t)) = t
    BY <2>1, Ends
  <2> QED BY <2>1, <2>2 DEF TypeOK
<1>2. c \in held[t] /\ held' = [held EXCEPT ![t] = @ \ {c}] /\ enter' = enter
  BY DEF PushShared, PushPending
<1>3. \A v \in Workers, e \in Dirs : FifoBar'[v][e] =
        IF v = w /\ e = Out(t) THEN Append(FifoBar[v][e], c) ELSE FifoBar[v][e]
  <2> TAKE v \in Workers, e \in Dirs
  <2>0. shared[v][e] \in Seq(Ctcs) /\ pending[v][e] \in Seq(Ctcs)
    BY <1>1
  <2>1. CASE PushShared(t, w, c)
    <3>1. pending' = pending
      BY <2>1 DEF PushShared
    <3>2. IF v = w /\ e = Out(t)
          THEN free[v][e] /\ shared'[v][e] = Append(shared[v][e], c)
          ELSE shared'[v][e] = shared[v][e]
      BY <2>1, ListEffect
    <3>3. free[v][e] => pending[v][e] = <<>>
      BY DEF MoveLosesNothing
    <3>4. Append(shared[v][e], c) \in Seq(Ctcs)
      BY <2>0
    <3>5. pending[v][e] = <<>> =>
            shared[v][e] \o pending[v][e] = shared[v][e]
            /\ Append(shared[v][e], c) \o pending[v][e] = Append(shared[v][e], c)
      BY <2>0, <3>4, ConcatFacts
    <3> QED BY <3>1, <3>2, <3>3, <3>5, BarType
  <2>2. CASE PushPending(t, w, c)
    <3>1. shared' = shared
      BY <2>2 DEF PushPending
    <3>2. IF v = w /\ e = Out(t)
          THEN ~free[v][e] /\ pending'[v][e] = Append(pending[v][e], c)
          ELSE pending'[v][e] = pending[v][e]
      BY <2>2, ListEffect
    <3>3. \A p, q \in Seq(Ctcs) : p \o Append(q, c) = Append(p \o q, c)
      BY ConcatFacts
    <3>4. shared[v][e] \o Append(pending[v][e], c) = Append(shared[v][e] \o pending[v][e], c)
      BY <2>0, <3>3
    <3> QED BY <3>1, <3>2, <3>4, BarType
  <2> QED BY <2>1, <2>2
<1>4. FifoBar' = [FifoBar EXCEPT ![w][Out(t)] = Append(FifoBar[w][Out(t)], c)]
  <2>1. FifoBar[w][Out(t)] \in Seq(Ctcs)
    BY <1>1, BarType
  <2>2. Append(FifoBar[w][Out(t)], c) \in Seq(Ctcs)
    BY <2>1
  <2>3. \A v \in Workers, e \in Dirs : FifoBar'[v][e] =
          IF v = w /\ e = Out(t) THEN Append(FifoBar[w][Out(t)], c) ELSE FifoBar[v][e]
    BY <1>3
  <2>4. /\ FifoBar \in [Workers -> [Dirs -> Seq(Ctcs)]]
        /\ FifoBar' \in [Workers -> [Dirs -> Seq(Ctcs)]]
    BY BarType
  <2>5. PICK d \in Dirs, x \in Seq(Ctcs) : d = Out(t) /\ x = Append(FifoBar[w][Out(t)], c)
    BY <1>1, <2>2
  <2>6. w \in Workers /\ \A v \in Workers, e \in Dirs :
          FifoBar'[v][e] = IF v = w /\ e = d THEN x ELSE FifoBar[v][e]
    BY <1>1, <2>3, <2>5
  <2>7. FifoBar' = [FifoBar EXCEPT ![w][d] = x]
    BY <2>4, <2>6, PointUpdate
  <2> QED BY <2>5, <2>7
<1> QED BY <1>1, <1>2, <1>4, FifoNames DEF Fifo!Push, FifoBar

\* A drain delivers the shared part of the queue, which is its head.
LEMMA DrainRefines ==
  ASSUME TypeOK, TypeOK', NEW t \in Threads, Drain(t),
         NEW w \in Workers, NEW d \in Dirs, cur[t] = w, In(t) = d
  PROVE  Fifo!Deliver(w, d) \/ UNCHANGED <<FifoBar, enter, held>>
<1>1. /\ w \in Workers /\ d \in Dirs /\ Receiver(w, d) = t
      /\ shared[w][d] \in Seq(Ctcs) /\ pending[w][d] \in Seq(Ctcs)
      /\ enter \in [Threads -> Seq(Ctcs)]
  <2>1. w \in Peers(t) /\ w \in Workers /\ d \in Dirs
    BY PeersType DEF TypeOK
  <2> QED BY <2>1, Ends, SMTT(30) DEF TypeOK
<1>2. /\ enter' = [enter EXCEPT ![t] = @ \o shared[w][d]]
      /\ pending' = pending /\ held' = held
  BY DEF Drain
<1>3. \A v \in Workers, e \in Dirs : FifoBar'[v][e] =
        IF v = w /\ e = d THEN pending[w][d] ELSE FifoBar[v][e]
  <2> TAKE v \in Workers, e \in Dirs
  <2>1. shared'[v][e] = IF v = w /\ e = d THEN <<>> ELSE shared[v][e]
    BY ListEffect
  <2>2. <<>> \o pending[w][d] = pending[w][d]
    BY <1>1
  <2>3. /\ FifoBar[v][e] = shared[v][e] \o pending[v][e]
        /\ FifoBar'[v][e] = shared'[v][e] \o pending[v][e]
    BY <1>2, BarType
  <2> QED BY <2>1, <2>2, <2>3
<1>a. /\ FifoBar \in [Workers -> [Dirs -> Seq(Ctcs)]]
      /\ FifoBar' \in [Workers -> [Dirs -> Seq(Ctcs)]]
  BY BarType
<1>b. FifoBar[w][d] = shared[w][d] \o pending[w][d]
  BY <1>1, BarType
<1>4. FifoBar' = [FifoBar EXCEPT ![w][d] = pending[w][d]]
  <2>1. PICK x \in Seq(Ctcs) : x = pending[w][d]
    BY <1>1
  <2>2. \A v \in Workers, e \in Dirs :
          FifoBar'[v][e] = IF v = w /\ e = d THEN x ELSE FifoBar[v][e]
    BY <1>3, <2>1
  <2>3. FifoBar' = [FifoBar EXCEPT ![w][d] = x]
    BY <1>a, <2>2, PointUpdate
  <2> QED BY <2>1, <2>3
<1>5. CASE shared[w][d] = <<>>
  <2>1. enter' = enter
    <3>1. enter[t] \o <<>> = enter[t]
      BY <1>1
    <3> QED BY <1>1, <1>2, <1>5, <3>1
  <2>2. pending[w][d] = FifoBar[w][d]
    <3>1. \A q \in Seq(Ctcs) : <<>> \o q = q
      OBVIOUS
    <3> QED BY <1>1, <1>5, <1>b, <3>1
  <2>3. FifoBar' = FifoBar
    <3>1. FifoBar' = [FifoBar EXCEPT ![w][d] = FifoBar[w][d]]
      BY <1>4, <2>2
    <3> QED BY <1>a, <3>1
  <2> QED BY <1>2, <2>1, <2>3
<1>6. CASE shared[w][d] # <<>>
  <2> DEFINE n == Len(shared[w][d])
  <2>0. \A p, q \in Seq(Ctcs) :
          /\ p # <<>> => Len(p) \in 1 .. Len(p \o q)
          /\ SubSeq(p \o q, 1, Len(p)) = p
          /\ SubSeq(p \o q, Len(p) + 1, Len(p \o q)) = q
    OBVIOUS
  <2>1. n \in 1 .. Len(FifoBar[w][d])
    BY <1>1, <1>6, <1>b, <2>0
  <2>2. /\ SubSeq(FifoBar[w][d], 1, n) = shared[w][d]
        /\ SubSeq(FifoBar[w][d], n + 1, Len(FifoBar[w][d])) = pending[w][d]
    <3>1. PICK p \in Seq(Ctcs), q \in Seq(Ctcs) : p = shared[w][d] /\ q = pending[w][d]
      BY <1>1
    <3>2. /\ SubSeq(p \o q, 1, Len(p)) = p
          /\ SubSeq(p \o q, Len(p) + 1, Len(p \o q)) = q
      BY <2>0
    <3>3. FifoBar[w][d] = p \o q /\ n = Len(p)
      BY <1>b, <3>1
    <3> HIDE DEF n
    <3> QED BY <3>1, <3>2, <3>3, Zenon
  <2>3. enter' = [enter EXCEPT ![t] = @ \o SubSeq(FifoBar[w][d], 1, n)]
    BY <1>2, <2>2
  <2>4. FifoBar' = [FifoBar EXCEPT ![w][d] =
                      SubSeq(FifoBar[w][d], n + 1, Len(FifoBar[w][d]))]
    BY <1>4, <2>2
  <2> HIDE DEF n
  <2>5. Fifo!Deliver(w, d)
    BY <1>1, <1>2, <2>1, <2>3, <2>4, FifoNames DEF Fifo!Deliver, FifoBar
  <2> QED BY <2>5
<1> QED BY <1>5, <1>6

\* A move turns the pending list into the shared one, which was empty.
LEMMA MoveRefines ==
  ASSUME TypeOK, TypeOK', MoveLosesNothing, NEW t \in Threads, Move(t)
  PROVE  UNCHANGED <<FifoBar, enter, held>>
<1>1. /\ cur[t] \in Workers /\ Out(t) \in Dirs /\ pc[t] = "take"
      /\ Sender(cur[t], Out(t)) = t
  <2>1. cur[t] \in Peers(t) /\ cur[t] \in Workers /\ Out(t) \in Dirs
    BY PeersType DEF TypeOK
  <2> QED BY <2>1, Ends DEF Move
<1>2. shared[cur[t]][Out(t)] = <<>>
  BY <1>1 DEF MoveLosesNothing, Busy
<1>3. \A v \in Workers, e \in Dirs : FifoBar'[v][e] = FifoBar[v][e]
  <2> TAKE v \in Workers, e \in Dirs
  <2>0. pending[v][e] \in Seq(Ctcs)
    BY DEF TypeOK
  <2>1. IF v = cur[t] /\ e = Out(t)
        THEN shared'[v][e] = pending[v][e] /\ pending'[v][e] = <<>>
        ELSE shared'[v][e] = shared[v][e] /\ pending'[v][e] = pending[v][e]
    BY ListEffect
  <2>2. pending[v][e] \o <<>> = <<>> \o pending[v][e]
    BY <2>0
  <2> QED BY <1>2, <2>1, <2>2, BarType, ZenonT(40)
<1>4. FifoBar' = FifoBar
  <2>1. FifoBar \in [Workers -> [Dirs -> Seq(Ctcs)]] /\ FifoBar' \in [Workers -> [Dirs -> Seq(Ctcs)]]
    BY BarType
  <2>2. \A v \in Workers : FifoBar'[v] = FifoBar[v]
    BY <1>3, <2>1
  <2> QED BY <2>1, <2>2
<1> QED BY <1>4 DEF Move

LEMMA FifoStep == TypeOK /\ MoveLosesNothing /\ [Next]_vars => [Fifo!Next]_Fifo!vars
<1> SUFFICES ASSUME TypeOK, TypeOK', MoveLosesNothing, [Next]_vars
             PROVE  Fifo!Next \/ UNCHANGED <<FifoBar, enter, held>>
  <2>1. TypeOK /\ [Next]_vars => TypeOK'
    BY TypeStep
  <2> QED BY <2>1, FifoNames
<1>a. \A t \in Threads : Peers(t) \subseteq Workers /\ Out(t) \in Dirs /\ In(t) \in Dirs
  BY PeersType
<1>b. UNCHANGED <<shared, pending, enter, held>> => UNCHANGED <<FifoBar, enter, held>>
  BY DEF FifoBar
<1>1. ASSUME NEW t \in Threads, LoopStep(t)
      PROVE  Fifo!Next \/ UNCHANGED <<FifoBar, enter, held>>
  <2>1. CASE Start(t) \/ EpollWait(t) \/ WriteIncr(t) \/ WriteTake(t)
             \/ \E w \in Peers(t) : ReadWake(t, w)
    BY <2>1, <1>b DEF Start, EpollWait, WriteIncr, WriteTake, ReadWake
  <2>2. CASE Move(t)
    BY <2>2, MoveRefines
  <2>3. CASE Drain(t)
    <3>1. PICK w \in Workers, d \in Dirs : w = cur[t] /\ d = In(t)
      BY <1>a DEF TypeOK
    <3>2. Fifo!Deliver(w, d) => Fifo!Next
      BY FifoNames DEF Fifo!Next
    <3> QED BY <2>3, <3>1, <3>2, DrainRefines
  <2> QED BY <1>1, <2>1, <2>2, <2>3 DEF LoopStep
<1>2. ASSUME NEW t \in Threads, UserStep(t) PROVE Fifo!Next
  <2>1. CASE Reap(t)
    <3>1. Fifo!Reap(t)
      BY <2>1 DEF Reap, Fifo!Reap
    <3> QED BY <3>1, FifoNames DEF Fifo!Next
  <2>2. ASSUME NEW c \in Ctcs, PushSelf(t, c) PROVE Fifo!Next
    <3>1. Fifo!PushSelf(t, c)
      BY <2>2 DEF PushSelf, Fifo!PushSelf
    <3> QED BY <2>2, <3>1, FifoNames DEF Fifo!Next
  <2>3. ASSUME NEW c \in Ctcs, NEW w \in Peers(t), PushShared(t, w, c) \/ PushPending(t, w, c)
        PROVE  Fifo!Next
    <3>1. Fifo!Push(w, Out(t), c)
      BY <2>3, PushRefines
    <3> QED BY <1>a, <3>1, FifoNames DEF Fifo!Next
  <2> QED BY <1>2, <2>1, <2>2, <2>3 DEF UserStep
<1>3. CASE UNCHANGED vars
  BY <1>3, <1>b DEF vars
<1> QED BY <1>1, <1>2, <1>3 DEF Next

\* The lists, flags and eventfds implement one first-in first-out queue per
\* worker and direction: ctcs arrive in order, none is lost and none invented.
THEOREM HandOverIsFifo == Spec => ImplementsFifo
<1>1. Init => Fifo!Init
  <2> SUFFICES ASSUME Init PROVE Fifo!Init
    OBVIOUS
  <2>1. \A w \in Workers, d \in Dirs : shared[w][d] \o pending[w][d] = <<>>
    BY DEF Init
  <2> QED BY <2>1, FifoNames DEF Init, Fifo!Init
<1> QED BY <1>1, FifoStep, TypeCorrect, NothingOverwritten, PTL
       DEF Spec, ImplementsFifo, Fifo!Spec
-----------------------------------------------------------------------------
(***************************************************************************)
(* The hand-over on kqueue: proofs about Kqueue, for any timers,           *)
(* descriptors and calls.                                                  *)
(***************************************************************************)

\* What KqueueAssumption says: no element is both a call
\* and a timer or descriptor, a timer or descriptor belongs to one of the two
\* threads, and there are finitely many of them.
KqueueConsts ==
  /\ Timed \cap Calls = {} /\ \A e \in Timed : Home[e] \in Evps
  /\ IsFiniteSet(Timed) /\ Lens \subseteq Nat

\* The four lists of worker_t, and the values of ctc_stat.
Lists == {"commiting", "commited", "accepting", "accepted"}
Stats == {"INITIAL", "COMMIT", "RUNNING", "CANCEL", "FINISH"}

\* What the fields of an element, of a call and of an event may be.
Elem == [doing : BOOLEAN, ret : Int, timing : BOOLEAN, timed : BOOLEAN, detach : BOOLEAN,
         able : SUBSET {"IN", "HUP"}, want : SUBSET {"IN"}, len : Nat]
Call0 == [stat : Stats, from : Evps, to : Evps, reto : BOOLEAN, at : {-1} \cup Evps]
TimerEvents == [filter : {"TIMER"}, who : Timed, data : {0}, eof : {FALSE}]
ReadEvents == [filter : {"READ"}, who : Efds, data : Nat, eof : BOOLEAN]
UserEvents == [filter : {"USER"}, who : Wakes, data : {"INCR", "TAKE"}, eof : {FALSE}]
Events == TimerEvents \cup ReadEvents \cup UserEvents
Callers == Efds \X {"addv", "feed"}

\* What belongs to a thread's loop and to the kernel.
LoopType ==
  /\ kt \in [Timed -> {"off", "armed", "due"}] /\ sock \in [Efds -> Nat]
  /\ closed \in [Efds -> BOOLEAN]
  /\ batch \in [Evps -> Seq(Events)] /\ ready \in [Evps -> Seq(Timed)]
  /\ limit \in [Evps -> Nat] /\ phase \in [Evps -> {"user", "pop", "tmr", "wake"}]
  /\ waking \in [Evps -> {<<>>} \cup Callers]
  /\ \A t \in Evps : phase[t] = "wake" => waking[t] \in Callers
  /\ quota \in [Evps -> Nat]

\* A call under way was submitted once.
Started == \A c \in Calls : el[c].doing => ctc[c].stat # "INITIAL"

\* What the hand-over of calls works on.
CallType ==
  /\ el \in [Eles -> Elem] /\ ctc \in [Calls -> Call0]
  /\ ctcs \in [Lists -> Seq(Calls)] /\ taken \in [Evps -> Seq(Calls)]
  /\ wake \in [Wakes -> {"none", "INCR", "TAKE"}] /\ asks \in [Wakes -> BOOLEAN]
  /\ Started

\* The thread that reads a wake.
Reader(w) == IF w = "accept" THEN 1 ELSE 0

\* A wake with data x is in the batch of its reader, not reaped yet.
Seen(w, x) == \E i \in DOMAIN batch[Reader(w)] :
                 batch[Reader(w)][i].filter = "USER" /\ batch[Reader(w)][i].data = x

\* A thread has one EVFILT_USER of its own, so a batch holds one wake at
\* most.
OneUser == \A t \in Evps : \A i, j \in DOMAIN batch[t] :
             batch[t][i].filter = "USER" /\ batch[t][j].filter = "USER" => i = j

\* Who may touch the list handed over in direction w: the flag, a wake that
\* asks the reader to take it, or one that says it was taken. There is one of
\* these at most, and the list is empty unless it waits to be taken.
TokenOf(w) ==
  LET o == Opposite(w) IN
  /\ asks[w] => wake[w] # "INCR" /\ ~Seen(w, "INCR") /\ wake[o] # "TAKE" /\ ~Seen(o, "TAKE")
  /\ wake[w] = "INCR" => ~Seen(w, "INCR") /\ wake[o] # "TAKE" /\ ~Seen(o, "TAKE")
  /\ Seen(w, "INCR") => wake[o] # "TAKE" /\ ~Seen(o, "TAKE")
  /\ wake[o] = "TAKE" => ~Seen(o, "TAKE")
  /\ asks[w] \/ wake[o] = "TAKE" \/ Seen(o, "TAKE") => ctcs[Handed(w)] = <<>>

\* NOTE_TRIGGER overwrites the data of a wake that was not reported, but never
\* where it matters, because of these tokens.
WakeTokens == OneUser /\ \A w \in Wakes : TokenOf(w)

\* Where a call can be, and the places it comes to on its way to the worker.
Places == Lists \cup {"master", "worker"}
Inward == {"accepting", "accepted", "worker"}

\* The four lists and the two queues of taken calls as one function.
LinesOf(cs, en) == [p \in Places |-> IF p = "master" THEN en[0] ELSE IF p = "worker" THEN en[1]
                                     ELSE cs[p]]
Lines == LinesOf(ctcs, taken)

\* The queue of taken calls of a thread, as a place.
Spot(t) == IF t = 0 THEN "master" ELSE "worker"

\* Call c waits at place p.
InLine(L, p, c) == \E i \in DOMAIN L[p] : L[p][i] = c

\* No call waits twice.
Apart(L) == \A p, q \in Places : \A i \in DOMAIN L[p], j \in DOMAIN L[q] :
              L[p][i] = L[q][j] => p = q /\ i = j

\* A call that waits is under way and in nobody's hands; one that waits where
\* only the worker takes it from, and is not on its way home, is for the
\* worker.
Routed(L) == \A p \in Places, c \in Calls : InLine(L, p, c) =>
               /\ el[c].doing /\ ctc[c].at = -1
               /\ p \in Inward /\ ctc[c].stat \in {"COMMIT", "RUNNING"} => ctc[c].to = 1

\* A call in the hands of a thread is under way and runs there.
Running == \A c \in Calls : ctc[c].at # -1 => el[c].doing /\ ctc[c].stat = "RUNNING"

\* A call under way is in a thread's hands or waits somewhere, unless its
\* owner gave it up.
Kept(L) == \A c \in Calls : el[c].doing /\ ~el[c].detach /\ ctc[c].at = -1 =>
             \E p \in Places : InLine(L, p, c)

\* Where the calls are.
Whereabouts == Apart(Lines) /\ Routed(Lines) /\ Running /\ Kept(Lines)

\* The inductive invariant. Whereabouts alone is not inductive: that a list
\* is not overwritten when the next one is handed over follows from the
\* tokens.
KInv == KqueueConsts /\ LoopType /\ CallType /\ WakeTokens /\ Whereabouts

-----------------------------------------------------------------------------
\* The queues as one function, and the two ways a step changes it: one queue
\* gets a new content, or all of queue a goes to the end of queue b.
LinesType == [Places -> Seq(Calls)]

Sets(L, M, p, s) == M \in LinesType /\ M[p] = s /\ \A q \in Places : q # p => M[q] = L[q]

Moves(L, M, a, b) == /\ M \in LinesType /\ M[b] = L[b] \o L[a] /\ M[a] = <<>>
                     /\ \A q \in Places : q # a /\ q # b => M[q] = L[q]

\* A call that waits nowhere may be put at the end of a queue.
LEMMA AppendApart ==
  ASSUME NEW L \in LinesType, Apart(L), NEW p \in Places, NEW c \in Calls,
         \A q \in Places : ~InLine(L, q, c), NEW M, Sets(L, M, p, Append(L[p], c))
  PROVE  /\ Apart(M)
         /\ \A q \in Places, d \in Calls : InLine(M, q, d) <=> InLine(L, q, d) \/ (q = p /\ d = c)
<1> DEFINE n == Len(L[p])
<1>1. L[p] \in Seq(Calls) /\ M[p] = Append(L[p], c) /\ \A q \in Places : q # p => M[q] = L[q]
  BY DEF LinesType, Sets
<1>3. /\ DOMAIN L[p] = 1 .. n /\ DOMAIN M[p] = 1 .. (n + 1) /\ n \in Nat
      /\ M[p][n + 1] = c /\ \A i \in 1 .. n : M[p][i] = L[p][i]
  BY <1>1
<1> HIDE DEF n
<1>4. \A i \in DOMAIN M[p] : (i \in DOMAIN L[p] /\ M[p][i] = L[p][i]) \/ (i = n + 1 /\ M[p][i] = c)
  BY <1>3
<1>5. \A i \in DOMAIN L[p] : i \in DOMAIN M[p] /\ M[p][i] = L[p][i]
  BY <1>3
<1>6. \A q \in Places : \A i \in DOMAIN L[q] : L[q][i] # c
  BY DEF InLine
<1>7. Apart(M)
  <2> SUFFICES ASSUME NEW q \in Places, NEW r \in Places, NEW i \in DOMAIN M[q],
                      NEW j \in DOMAIN M[r], M[q][i] = M[r][j]
               PROVE  q = r /\ i = j
    BY DEF Apart
  <2>1. CASE q = p /\ r = p
    BY <2>1, <1>4, <1>6 DEF Apart
  <2>2. CASE q = p /\ r # p
    BY <2>2, <1>1, <1>4, <1>6 DEF Apart
  <2>3. CASE q # p /\ r = p
    BY <2>3, <1>1, <1>4, <1>6 DEF Apart
  <2>4. CASE q # p /\ r # p
    BY <2>4, <1>1 DEF Apart
  <2> QED BY <2>1, <2>2, <2>3, <2>4
<1>8. ASSUME NEW q \in Places, NEW d \in Calls
      PROVE  InLine(M, q, d) <=> InLine(L, q, d) \/ (q = p /\ d = c)
  <2>1. CASE q = p
    <3>1. InLine(M, p, c)
      BY <1>3 DEF InLine
    <3> QED BY <2>1, <3>1, <1>4, <1>5 DEF InLine
  <2>2. CASE q # p
    BY <2>2, <1>1 DEF InLine
  <2> QED BY <2>1, <2>2
<1> QED BY <1>7, <1>8

\* The first call of a queue that is taken out waits nowhere.
LEMMA TailApart ==
  ASSUME NEW L \in LinesType, Apart(L), NEW p \in Places, L[p] # <<>>,
         NEW M, Sets(L, M, p, Tail(L[p]))
  PROVE  LET c == Head(L[p]) IN
         /\ Apart(M) /\ c \in Calls /\ InLine(L, p, c)
         /\ \A q \in Places, d \in Calls : InLine(M, q, d) <=> InLine(L, q, d) /\ d # c
         /\ \A q \in Places : ~InLine(M, q, c)
<1> DEFINE c == Head(L[p])
<1>1. L[p] \in Seq(Calls) /\ M[p] = Tail(L[p]) /\ \A q \in Places : q # p => M[q] = L[q]
  BY DEF LinesType, Sets
<1>2. c \in Calls
  BY <1>1
<1> DEFINE n == Len(L[p])
<1>3. /\ n \in Nat \ {0} /\ DOMAIN L[p] = 1 .. n
      /\ DOMAIN M[p] = 1 .. (n - 1) /\ c = L[p][1]
      /\ \A i \in 1 .. (n - 1) : M[p][i] = L[p][i + 1]
  <2> DEFINE s == L[p]
  <2>1. s \in Seq(Calls) /\ s # <<>>
    BY <1>1
  <2> HIDE DEF s
  <2>2. Len(s) \in Nat \ {0} /\ DOMAIN s = 1 .. Len(s) /\ Head(s) = s[1]
    BY <2>1
  <2>3. DOMAIN Tail(s) = 1 .. (Len(s) - 1) /\ \A i \in 1 .. (Len(s) - 1) : Tail(s)[i] = s[i + 1]
    BY <2>1, <2>2
  <2> QED BY <2>2, <2>3, <1>1 DEF s
<1> HIDE DEF c, n
<1>4. \A i \in DOMAIN M[p] : /\ i \in Int /\ i + 1 # 1 /\ i + 1 \in DOMAIN L[p]
                              /\ M[p][i] = L[p][i + 1]
  <2> TAKE i \in DOMAIN M[p]
  <2>1. i \in 1 .. (n - 1) /\ M[p][i] = L[p][i + 1]
    BY <1>3
  <2>2. i \in Int /\ i + 1 # 1 /\ i + 1 \in 1 .. n
    BY <2>1, <1>3
  <2> QED BY <2>1, <2>2, <1>3
<1>5. \A i \in DOMAIN L[p] : i # 1 => i - 1 \in DOMAIN M[p] /\ M[p][i - 1] = L[p][i]
  BY <1>3
<1>6. 1 \in DOMAIN L[p]
  BY <1>3
<1>7. \A q \in Places : \A i \in DOMAIN L[q] : L[q][i] = c => q = p /\ i = 1
  BY <1>3, <1>6 DEF Apart
<1>8. Apart(M)
  <2> SUFFICES ASSUME NEW q \in Places, NEW r \in Places, NEW i \in DOMAIN M[q],
                      NEW j \in DOMAIN M[r], M[q][i] = M[r][j]
               PROVE  q = r /\ i = j
    BY DEF Apart
  <2>1. CASE q = p /\ r = p
    <3>1. i + 1 = j + 1 /\ i \in Int /\ j \in Int
      BY <2>1, <1>4 DEF Apart
    <3> QED BY <2>1, <3>1
  <2>2. CASE q = p /\ r # p
    BY <2>2, <1>1, <1>4 DEF Apart
  <2>3. CASE q # p /\ r = p
    BY <2>3, <1>1, <1>4 DEF Apart
  <2>4. CASE q # p /\ r # p
    BY <2>4, <1>1 DEF Apart
  <2> QED BY <2>1, <2>2, <2>3, <2>4
<1>9. \A q \in Places : ~InLine(M, q, c)
  <2> SUFFICES ASSUME NEW q \in Places, NEW i \in DOMAIN M[q], M[q][i] = c PROVE FALSE
    BY DEF InLine
  <2>1. CASE q = p
    <3>1. i + 1 \in DOMAIN L[p] /\ i \in Int /\ L[p][i + 1] = c /\ i + 1 # 1
      BY <2>1, <1>4
    <3> QED BY <3>1, <1>7
  <2>2. CASE q # p
    <3>1. M[q] = L[q]
      BY <1>1, <2>2
    <3> QED BY <3>1, <2>2, <1>7
  <2> QED BY <2>1, <2>2
<1>10. ASSUME NEW q \in Places, NEW d \in Calls
       PROVE  InLine(M, q, d) <=> InLine(L, q, d) /\ d # c
  <2>1. ASSUME InLine(M, q, d) PROVE InLine(L, q, d) /\ d # c
    <3>1. PICK i \in DOMAIN M[q] : M[q][i] = d
      BY <2>1 DEF InLine
    <3>2. InLine(L, q, d)
      <4>1. CASE q = p
        <5>1. i + 1 \in DOMAIN L[q] /\ L[q][i + 1] = d
          BY <3>1, <4>1, <1>4
        <5> QED BY <5>1 DEF InLine
      <4>2. CASE q # p
        <5>1. M[q] = L[q]
          BY <1>1, <4>2
        <5> QED BY <5>1, <2>1 DEF InLine
      <4> QED BY <4>1, <4>2
    <3> QED BY <2>1, <3>2, <1>9
  <2>2. ASSUME InLine(L, q, d), d # c PROVE InLine(M, q, d)
    <3>1. PICK i \in DOMAIN L[q] : L[q][i] = d
      BY <2>2 DEF InLine
    <3>2. CASE q = p
      <4>1. i # 1
        BY <3>1, <3>2, <2>2, <1>3
      <4> QED BY <4>1, <3>1, <3>2, <1>5 DEF InLine
    <3>3. CASE q # p
      BY <3>1, <3>3, <1>1 DEF InLine
    <3> QED BY <3>2, <3>3
  <2> QED BY <2>1, <2>2
<1>11. InLine(L, p, c)
  BY <1>3, <1>6 DEF InLine
<1> QED BY <1>2, <1>8, <1>9, <1>10, <1>11 DEF c

\* Handing a list over, or taking it, moves its calls and no other.
LEMMA MoveApart ==
  ASSUME NEW L \in LinesType, Apart(L), NEW a \in Places, NEW b \in Places, a # b,
         NEW M, Moves(L, M, a, b)
  PROVE  /\ Apart(M)
         /\ \A q \in Places, d \in Calls :
              InLine(M, q, d) <=> q # a /\ (InLine(L, q, d) \/ (q = b /\ InLine(L, a, d)))
<1> DEFINE n == Len(L[b])
<1>1. /\ L[a] \in Seq(Calls) /\ L[b] \in Seq(Calls) /\ M[a] = <<>> /\ M[b] = L[b] \o L[a]
      /\ \A q \in Places : q # a /\ q # b => M[q] = L[q]
  BY DEF LinesType, Moves
<1>3. /\ n \in Nat /\ DOMAIN L[b] = 1 .. n /\ DOMAIN L[a] = 1 .. Len(L[a]) /\ Len(L[a]) \in Nat
      /\ DOMAIN M[b] = 1 .. (n + Len(L[a])) /\ DOMAIN M[a] = {}
      /\ \A i \in 1 .. n : M[b][i] = L[b][i]
      /\ \A i \in (n + 1) .. (n + Len(L[a])) : M[b][i] = L[a][i - n]
  <2> DEFINE s == L[b]
             u == L[a]
  <2>1. s \in Seq(Calls) /\ u \in Seq(Calls)
    BY <1>1
  <2> HIDE DEF s, u
  <2>2. /\ Len(s) \in Nat /\ DOMAIN s = 1 .. Len(s) /\ Len(u) \in Nat /\ DOMAIN u = 1 .. Len(u)
    BY <2>1
  <2>3. /\ DOMAIN (s \o u) = 1 .. (Len(s) + Len(u))
        /\ \A i \in 1 .. Len(s) : (s \o u)[i] = s[i]
        /\ \A i \in (Len(s) + 1) .. (Len(s) + Len(u)) : (s \o u)[i] = u[i - Len(s)]
    BY <2>1, <2>2
  <2>4. M[b] = s \o u /\ M[a] = <<>> /\ n = Len(s)
    BY <1>1 DEF s, u
  <2>5. DOMAIN M[a] = {}
    BY <2>4
  <2> HIDE DEF n
  <2> QED BY <2>2, <2>3, <2>4, <2>5 DEF s, u
<1> HIDE DEF n
<1>4. \A i \in DOMAIN M[b] : \/ i \in DOMAIN L[b] /\ M[b][i] = L[b][i]
                             \/ i - n \in DOMAIN L[a] /\ M[b][i] = L[a][i - n]
  BY <1>3
<1>5. /\ \A i \in DOMAIN L[b] : i \in DOMAIN M[b] /\ M[b][i] = L[b][i]
      /\ \A i \in DOMAIN L[a] : i + n \in DOMAIN M[b] /\ M[b][i + n] = L[a][i]
  <2>1. \A i \in DOMAIN L[b] : i \in DOMAIN M[b] /\ M[b][i] = L[b][i]
    BY <1>3
  <2>2. ASSUME NEW i \in DOMAIN L[a]
        PROVE  i + n \in DOMAIN M[b] /\ M[b][i + n] = L[a][i]
    BY <1>3, <2>2
  <2> QED BY <2>1, <2>2
<1>6. \A i, j : i \in DOMAIN M[b] /\ j \in DOMAIN M[b] => 
        i \in Int /\ j \in Int /\ (i - n = j - n => i = j)
  BY <1>3
<1>7. Apart(M)
  <2> SUFFICES ASSUME NEW q \in Places, NEW r \in Places, NEW i \in DOMAIN M[q],
                      NEW j \in DOMAIN M[r], M[q][i] = M[r][j]
               PROVE  q = r /\ i = j
    BY DEF Apart
  <2>0. q # a /\ r # a
    BY <1>3
  <2>a. /\ \A x, y \in DOMAIN L[b] : L[b][x] = L[b][y] => x = y
        /\ \A x, y \in DOMAIN L[a] : L[a][x] = L[a][y] => x = y
        /\ \A x \in DOMAIN L[b], y \in DOMAIN L[a] : L[b][x] # L[a][y]
    BY DEF Apart
  <2>b. \A p \in Places : p # a /\ p # b => \A x \in DOMAIN L[p] :
          /\ \A y \in DOMAIN L[a] : L[p][x] # L[a][y]
          /\ \A y \in DOMAIN L[b] : L[p][x] # L[b][y]
    BY DEF Apart
  <2>1. CASE q = b /\ r = b
    <3>1. CASE i \in DOMAIN L[b] /\ M[b][i] = L[b][i]
      BY <2>1, <3>1, <2>a, <1>4
    <3>2. CASE i - n \in DOMAIN L[a] /\ M[b][i] = L[a][i - n]
      <4>1. j - n \in DOMAIN L[a] /\ M[b][j] = L[a][j - n]
        BY <2>1, <3>2, <2>a, <1>4
      <4>2. i - n = j - n
        BY <2>1, <3>2, <4>1, <2>a
      <4> QED BY <4>2, <2>1, <1>6
    <3> QED BY <3>1, <3>2, <2>1, <1>4
  <2>2. CASE q = b /\ r # b
    <3>1. M[r] = L[r] /\ j \in DOMAIN L[r]
      BY <2>0, <2>2, <1>1
    <3>2. /\ \A y \in DOMAIN L[a] : L[r][j] # L[a][y]
          /\ \A y \in DOMAIN L[b] : L[r][j] # L[b][y]
      BY <2>0, <2>2, <2>b, <3>1
    <3> QED BY <2>2, <3>1, <3>2, <1>4
  <2>3. CASE q # b /\ r = b
    <3>1. M[q] = L[q] /\ i \in DOMAIN L[q]
      BY <2>0, <2>3, <1>1
    <3>2. /\ \A y \in DOMAIN L[a] : L[q][i] # L[a][y]
          /\ \A y \in DOMAIN L[b] : L[q][i] # L[b][y]
      BY <2>0, <2>3, <2>b, <3>1
    <3> QED BY <2>3, <3>1, <3>2, <1>4
  <2>4. CASE q # b /\ r # b
    BY <2>0, <2>4, <1>1 DEF Apart
  <2> QED BY <2>1, <2>2, <2>3, <2>4
<1>8. ASSUME NEW q \in Places, NEW d \in Calls
      PROVE  InLine(M, q, d) <=> q # a /\ (InLine(L, q, d) \/ (q = b /\ InLine(L, a, d)))
  <2>1. CASE q = a
    BY <2>1, <1>3 DEF InLine
  <2>2. CASE q = b
    BY <2>2, <1>4, <1>5 DEF InLine
  <2>3. CASE q # a /\ q # b
    BY <2>3, <1>1 DEF InLine
  <2> QED BY <2>1, <2>2, <2>3
<1> QED BY <1>7, <1>8
-----------------------------------------------------------------------------
(* The lists as one function. *)

\* The queues as one function are the lists and the queues of taken calls.
LEMMA LinesFacts ==
  ASSUME NEW cs \in [Lists -> Seq(Calls)], NEW en \in [Evps -> Seq(Calls)]
  PROVE  /\ LinesOf(cs, en) \in LinesType
         /\ \A l \in Lists : l \in Places /\ LinesOf(cs, en)[l] = cs[l]
         /\ \A t \in Evps : Spot(t) \in Places /\ LinesOf(cs, en)[Spot(t)] = en[t]
BY DEF LinesOf, LinesType, Places, Lists, Evps, Spot

\* A new queue of taken calls changes one place.
LEMMA LinesEnter ==
  ASSUME NEW cs \in [Lists -> Seq(Calls)], NEW en \in [Evps -> Seq(Calls)],
         NEW t \in Evps, NEW s \in Seq(Calls), NEW e2, e2 = [en EXCEPT ![t] = s]
  PROVE  Sets(LinesOf(cs, en), LinesOf(cs, e2), Spot(t), s)
<1>1. e2 \in [Evps -> Seq(Calls)] /\ e2[t] = s /\ \A u \in Evps : u # t => e2[u] = en[u]
  OBVIOUS
<1>2. LinesOf(cs, e2) \in LinesType /\ LinesOf(cs, e2)[Spot(t)] = s
  BY <1>1, LinesFacts
<1>3. ASSUME NEW p \in Places, p # Spot(t)
      PROVE  LinesOf(cs, e2)[p] = LinesOf(cs, en)[p]
  <2>1. CASE t = 0
    BY <1>1, <1>3, <2>1 DEF LinesOf, Places, Lists, Evps, Spot
  <2>2. CASE t = 1
    BY <1>1, <1>3, <2>2 DEF LinesOf, Places, Lists, Evps, Spot
  <2> QED BY <2>1, <2>2 DEF Evps
<1> QED BY <1>2, <1>3 DEF Sets

\* A new list changes one place.
LEMMA LinesList ==
  ASSUME NEW cs \in [Lists -> Seq(Calls)], NEW en \in [Evps -> Seq(Calls)],
         NEW l \in Lists, NEW s \in Seq(Calls), NEW c2, c2 = [cs EXCEPT ![l] = s]
  PROVE  Sets(LinesOf(cs, en), LinesOf(c2, en), l, s)
<1>1. c2 \in [Lists -> Seq(Calls)] /\ c2[l] = s /\ \A k \in Lists : k # l => c2[k] = cs[k]
  OBVIOUS
<1>2. LinesOf(c2, en) \in LinesType /\ LinesOf(c2, en)[l] = s
  BY <1>1, LinesFacts
<1>3. ASSUME NEW p \in Places, p # l
      PROVE  LinesOf(c2, en)[p] = LinesOf(cs, en)[p]
  BY <1>1, <1>3 DEF LinesOf, Places
<1> QED BY <1>2, <1>3 DEF Sets

\* The names of the two directions belong together.
LEMMA Names ==
  /\ \A w \in Wakes : /\ Handed(w) \in Lists /\ Filling(w) \in Lists
                      /\ Handed(w) # Filling(w)
                      /\ Opposite(w) \in Wakes /\ Opposite(w) # w /\ Opposite(Opposite(w)) = w
                      /\ Handed(Opposite(w)) # Handed(w) /\ Handed(Opposite(w)) # Filling(w)
                      /\ Handed(w) \in Inward <=> w = "accept"
                      /\ Filling(w) \in Inward <=> w = "accept"
                      /\ Reader(w) \in Evps /\ WakeOf(Reader(w)) = w
                      /\ Reader(Opposite(w)) # Reader(w)
                      /\ \A v \in Wakes : v = w \/ v = Opposite(w)
  /\ \A t \in Evps : WakeOf(t) \in Wakes /\ Reader(WakeOf(t)) = t
                     /\ (WakeOf(t) = "accept" <=> t = 1) /\ (Spot(t) \in Inward <=> t = 1)
BY DEF Wakes, Handed, Filling, Lists, Opposite, Inward, Reader, Evps, WakeOf, Spot

-----------------------------------------------------------------------------
(* Pushing a call. *)

\* A call that is pushed goes to one list of its direction
\* (_worker_push_commit_ctc, _worker_push_accept_ctc).
LEMMA PushLines ==
  ASSUME CallType, NEW w \in Wakes, NEW c \in Calls, PushCtc(w, c)
  PROVE  /\ ctcs' \in [Lists -> Seq(Calls)] /\ asks' \in [Wakes -> BOOLEAN]
         /\ wake' \in [Wakes -> {"none", "INCR", "TAKE"}]
         /\ \E p \in Places : /\ p \in Inward <=> w = "accept"
                              /\ \A en \in [Evps -> Seq(Calls)] :
                                   Sets(LinesOf(ctcs, en), LinesOf(ctcs', en), p,
                                        Append(LinesOf(ctcs, en)[p], c))
<1>1. /\ ctcs \in [Lists -> Seq(Calls)] /\ asks \in [Wakes -> BOOLEAN]
      /\ wake \in [Wakes -> {"none", "INCR", "TAKE"}]
  BY DEF CallType
<1>2. PICK l \in {Handed(w), Filling(w)} : ctcs' = [ctcs EXCEPT ![l] = Append(@, c)]
  BY DEF PushCtc
<1>3. l \in Lists /\ l \in Places /\ (l \in Inward <=> w = "accept")
  BY <1>2, Names DEF Places
<1>4. Append(ctcs[l], c) \in Seq(Calls)
  BY <1>1, <1>3
<1>5. ASSUME NEW en \in [Evps -> Seq(Calls)]
      PROVE  Sets(LinesOf(ctcs, en), LinesOf(ctcs', en), l, Append(LinesOf(ctcs, en)[l], c))
  <2>1. LinesOf(ctcs, en)[l] = ctcs[l]
    BY <1>1, <1>3, LinesFacts
  <2>2. ctcs' = [ctcs EXCEPT ![l] = Append(ctcs[l], c)]
    BY <1>2
  <2>3. Sets(LinesOf(ctcs, en), LinesOf(ctcs', en), l, Append(ctcs[l], c))
    BY <1>1, <1>3, <1>4, <2>2, LinesList
  <2> QED BY <2>1, <2>3
<1>6. asks' \in [Wakes -> BOOLEAN] /\ wake' \in [Wakes -> {"none", "INCR", "TAKE"}]
  BY <1>1 DEF PushCtc, Trigger
<1> QED BY <1>1, <1>2, <1>3, <1>4, <1>5, <1>6

\* What a batch holds changes with the batch only.
LEMMA SeenStays ==
  ASSUME batch' = batch
  PROVE  (OneUser' <=> OneUser) /\ \A w \in Wakes : \A x : Seen(w, x)' <=> Seen(w, x)
BY DEF OneUser, Seen

\* Whoever finds its flag set sends the wake and clears the flag, so there is
\* still one token.
LEMMA PushTokens ==
  ASSUME CallType, WakeTokens, NEW w \in Wakes, NEW c \in Calls, PushCtc(w, c), batch' = batch
  PROVE  WakeTokens'
<1>1. /\ ctcs \in [Lists -> Seq(Calls)] /\ asks \in [Wakes -> BOOLEAN]
      /\ wake \in [Wakes -> {"none", "INCR", "TAKE"}]
  BY DEF CallType
<1>2. OneUser'
  BY SeenStays DEF WakeTokens
<1>3. ASSUME NEW v \in Wakes PROVE TokenOf(v)'
  <2>1. TokenOf(w) /\ TokenOf(v)
    BY DEF WakeTokens
  <2>2. \A x : (Seen(v, x)' <=> Seen(v, x)) /\ (Seen(Opposite(v), x)' <=> Seen(Opposite(v), x))
    BY SeenStays, Names
  <2>3. CASE asks[w]
    <3>1. /\ asks' = [asks EXCEPT ![w] = FALSE] /\ wake' = [wake EXCEPT ![w] = "INCR"]
          /\ ctcs' = [ctcs EXCEPT ![Handed(w)] = Append(@, c)]
      BY <2>3 DEF PushCtc, Trigger
    <3>2. CASE v = w
      BY <3>1, <3>2, <2>1, <2>2, <2>3, <1>1, Names DEF TokenOf
    <3>3. CASE v = Opposite(w)
      BY <3>1, <3>3, <2>1, <2>2, <2>3, <1>1, Names DEF TokenOf
    <3> QED BY <3>2, <3>3, Names
  <2>4. CASE ~asks[w]
    <3>1. asks' = asks /\ wake' = wake /\ ctcs' = [ctcs EXCEPT ![Filling(w)] = Append(@, c)]
      BY <2>4 DEF PushCtc
    <3>2. ctcs'[Handed(v)] = ctcs[Handed(v)]
      <4>1. Handed(v) # Filling(w) /\ Handed(v) \in Lists
        BY Names
      <4> QED BY <4>1, <3>1, <1>1
    <3> QED BY <3>1, <3>2, <2>1, <2>2 DEF TokenOf
  <2> QED BY <2>3, <2>4
<1> QED BY <1>2, <1>3 DEF WakeTokens

\* To thread n a call goes by one of n's lines.
LEMMA SendKeeps ==
  ASSUME CallType, WakeTokens, NEW t \in Evps, NEW n \in Evps, NEW c \in Calls,
         Send(t, c, n),
         batch' = batch
  PROVE  /\ ctcs' \in [Lists -> Seq(Calls)] /\ asks' \in [Wakes -> BOOLEAN]
         /\ wake' \in [Wakes -> {"none", "INCR", "TAKE"}] /\ taken' \in [Evps -> Seq(Calls)]
         /\ WakeTokens'
         /\ \E p \in Places : /\ p \in Inward <=> n = 1
                              /\ Sets(Lines, Lines', p, Append(Lines[p], c))
<1>1. /\ ctcs \in [Lists -> Seq(Calls)] /\ asks \in [Wakes -> BOOLEAN]
      /\ wake \in [Wakes -> {"none", "INCR", "TAKE"}] /\ taken \in [Evps -> Seq(Calls)]
  BY DEF CallType
<1>2. CASE n = t
  <2>1. taken' = [taken EXCEPT ![t] = Append(@, c)] /\ UNCHANGED <<ctcs, asks, wake>>
    BY <1>2 DEF Send
  <2>2. Append(taken[t], c) \in Seq(Calls)
    BY <1>1
  <2>3. Sets(Lines, Lines', Spot(t), Append(Lines[Spot(t)], c))
    <3>1. Lines[Spot(t)] = taken[t]
      BY <1>1, LinesFacts DEF Lines
    <3>2. taken' = [taken EXCEPT ![t] = Append(taken[t], c)]
      BY <2>1
    <3>3. Sets(LinesOf(ctcs, taken), LinesOf(ctcs, taken'), Spot(t), Append(taken[t], c))
      BY <1>1, <2>2, <3>2, LinesEnter
    <3> QED BY <2>1, <3>1, <3>3 DEF Lines
  <2>4. WakeTokens'
    BY <2>1, SeenStays, Names DEF WakeTokens, TokenOf
  <2>5. Spot(t) \in Places /\ (Spot(t) \in Inward <=> n = 1)
    BY <1>2, Names DEF Spot, Places
  <2> QED BY <1>1, <2>1, <2>2, <2>3, <2>4, <2>5
<1>3. CASE n # t
  <2>1. PushCtc(WakeOf(n), c) /\ taken' = taken /\ WakeOf(n) \in Wakes
    BY <1>3, Names DEF Send
  <2>2. PICK p \in Places : /\ p \in Inward <=> WakeOf(n) = "accept"
                            /\ \A en \in [Evps -> Seq(Calls)] :
                                 Sets(LinesOf(ctcs, en), LinesOf(ctcs', en), p,
                                      Append(LinesOf(ctcs, en)[p], c))
    BY <2>1, PushLines
  <2>3. Sets(Lines, Lines', p, Append(Lines[p], c)) /\ (p \in Inward <=> n = 1)
    BY <2>1, <2>2, <1>1, Names DEF Lines
  <2> QED BY <1>1, <2>1, <2>3, PushLines, PushTokens
<1> QED BY <1>2, <1>3

-----------------------------------------------------------------------------
(* Steps that touch no call. *)

\* The first event of a batch is taken out of it.
LEMMA TailEvents ==
  ASSUME NEW S, NEW s \in Seq(S), s # <<>>
  PROVE  /\ Tail(s) \in Seq(S) /\ Head(s) \in S /\ Head(s) = s[1] /\ 1 \in DOMAIN s
         /\ \A i \in DOMAIN Tail(s) : /\ i + 1 \in DOMAIN s /\ Tail(s)[i] = s[i + 1]
                                      /\ i \in Int /\ i + 1 # 1
<1>1. /\ Len(s) \in Nat \ {0} /\ DOMAIN s = 1 .. Len(s) /\ Head(s) = s[1] /\ Head(s) \in S
      /\ Tail(s) \in Seq(S)
  OBVIOUS
<1>2. DOMAIN Tail(s) = 1 .. (Len(s) - 1) /\ \A i \in 1 .. (Len(s) - 1) : Tail(s)[i] = s[i + 1]
  BY <1>1
<1> QED BY <1>1, <1>2

\* Batches lose events only, and a step with Untouched leaves calls alone.
Shrinks == \A t \in Evps : \/ batch'[t] = batch[t]
                           \/ batch[t] # <<>> /\ batch'[t] = Tail(batch[t])

Untouched == UNCHANGED callVars /\ Shrinks /\ \A c \in Calls : el'[c] = el[c]

\* A wake that is seen after a step that takes events was seen before.
LEMMA ShrinkSeen ==
  ASSUME LoopType, OneUser, Shrinks
  PROVE  OneUser' /\ \A w \in Wakes : \A x : Seen(w, x)' => Seen(w, x)
<1>1. \A t \in Evps : batch[t] \in Seq(Events)
  BY DEF LoopType
<1>2. ASSUME NEW t \in Evps, NEW i \in DOMAIN batch'[t], NEW j \in DOMAIN batch'[t],
             batch'[t][i].filter = "USER", batch'[t][j].filter = "USER"
      PROVE  i = j
  <2>1. CASE batch'[t] = batch[t]
    BY <1>2, <2>1 DEF OneUser
  <2>2. CASE batch[t] # <<>> /\ batch'[t] = Tail(batch[t])
    <3>1. /\ i + 1 \in DOMAIN batch[t] /\ batch'[t][i] = batch[t][i + 1] /\ i \in Int
          /\ j + 1 \in DOMAIN batch[t] /\ batch'[t][j] = batch[t][j + 1] /\ j \in Int
      BY <1>1, <2>2, TailEvents
    <3>2. i + 1 = j + 1
      BY <3>1, <1>2 DEF OneUser
    <3> QED BY <3>1, <3>2
  <2> QED BY <2>1, <2>2 DEF Shrinks
<1>3. ASSUME NEW w \in Wakes, NEW x, Seen(w, x)' PROVE Seen(w, x)
  <2> DEFINE t == Reader(w)
  <2>0. t \in Evps
    BY Names
  <2>1. PICK i \in DOMAIN batch'[t] : batch'[t][i].filter = "USER" /\ batch'[t][i].data = x
    BY <1>3 DEF Seen
  <2>2. CASE batch'[t] = batch[t]
    BY <2>1, <2>2 DEF Seen
  <2>3. CASE batch[t] # <<>> /\ batch'[t] = Tail(batch[t])
    <3>1. i + 1 \in DOMAIN batch[t] /\ batch'[t][i] = batch[t][i + 1]
      BY <1>1, <2>0, <2>1, <2>3, TailEvents
    <3> QED BY <3>1, <2>1 DEF Seen
  <2> QED BY <2>0, <2>2, <2>3 DEF Shrinks
<1> QED BY <1>2, <1>3 DEF OneUser

\* A step on timers and descriptors keeps what concerns the calls.
LEMMA UntouchedKeeps ==
  ASSUME KInv, Untouched
  PROVE  WakeTokens' /\ Whereabouts'
<1>1. /\ ctc' = ctc /\ ctcs' = ctcs /\ asks' = asks /\ wake' = wake /\ taken' = taken
      /\ \A c \in Calls : el'[c] = el[c]
  BY DEF Untouched, callVars
<1>2. OneUser' /\ \A w \in Wakes : \A x : Seen(w, x)' => Seen(w, x)
  BY ShrinkSeen DEF KInv, Untouched, WakeTokens
<1>3. ASSUME NEW w \in Wakes PROVE TokenOf(w)'
  <2>1. TokenOf(w) /\ Opposite(w) \in Wakes
    BY Names DEF KInv, WakeTokens
  <2> QED BY <2>1, <1>1, <1>2 DEF TokenOf
<1>4. Lines' = Lines
  BY <1>1 DEF Lines
<1>5. Apart(Lines)' /\ Running'
  BY <1>1, <1>4 DEF KInv, Whereabouts, Running, Apart
<1>6. Routed(Lines)'
  BY <1>1, <1>4 DEF KInv, Whereabouts, Routed, InLine
<1>7. Kept(Lines)'
  BY <1>1, <1>4 DEF KInv, Whereabouts, Kept, InLine
<1> QED BY <1>2, <1>3, <1>5, <1>6, <1>7 DEF WakeTokens, Whereabouts

\* The types by name, for single elements.
LEMMA Typed ==
  ASSUME KInv
  PROVE  /\ KqueueConsts /\ LoopType /\ CallType /\ el \in [Eles -> Elem]
         /\ \A e \in Timed : /\ e \in Eles /\ el[e] \in Elem /\ Home[e] \in Evps
                             /\ ready[Home[e]] \in Seq(Timed)
         /\ \A c \in Calls : c \in Eles /\ c \notin Timed
         /\ Efds \subseteq Timed /\ Tmrs \subseteq Timed
BY DEF KInv, KqueueConsts, LoopType, CallType, Eles, Timed

\* The error codes are integers, and EOF is not EAGAIN.
LEMMA Codes ==
  {WAIT, INPROGRESS, TIME, CONNRESET, EOF, ENDED} \subseteq Int /\ WAIT # EOF
BY DEF WAIT, INPROGRESS, TIME, CONNRESET, EOF, ENDED

\* dpevp_end queues the elements it is given.
LEMMA PushBackType ==
  ASSUME NEW q \in Seq(Timed), NEW e \in Timed
  PROVE  PushBack(q, e) \in Seq(Timed)
BY DEF PushBack

\* Steps that change no call keep Started.
LEMMA StartedStays ==
  ASSUME KInv, ctc' = ctc, \A c \in Calls : el'[c] = el[c]
  PROVE  Started'
BY DEF KInv, CallType, Started

\* An EVFILT_TIMER expires.
LEMMA ExpireKeeps ==
  ASSUME KInv, NEW e \in Timed, Expire(e)
  PROVE  LoopType' /\ CallType' /\ Untouched
<1>1. kt' \in [Timed -> {"off", "armed", "due"}]
  BY Typed DEF LoopType, Expire
<1>2. UNCHANGED <<sock, closed, ready, phase, el, ctc, ctcs, asks, wake,
                  taken, batch, limit, waking, quota>>
  BY DEF Expire, callVars, loopVars
<1> QED BY <1>1, <1>2, Typed, StartedStays DEF LoopType, CallType, Untouched, callVars, Shrinks

\* The peer sends or closes.
LEMMA PeerKeeps ==
  ASSUME KInv, NEW f \in Efds, PeerSends(f) \/ PeerCloses(f)
  PROVE  LoopType' /\ CallType' /\ Untouched
<1>1. sock' \in [Efds -> Nat] /\ closed' \in [Efds -> BOOLEAN]
  <2>1. CASE PeerSends(f)
    BY <2>1, Typed DEF LoopType, PeerSends
  <2>2. CASE PeerCloses(f)
    BY <2>2, Typed DEF LoopType, PeerCloses
  <2> QED BY <2>1, <2>2
<1>2. UNCHANGED <<kt, ready, phase, el, ctc, ctcs, asks, wake, taken, batch, limit, waking, quota>>
  BY DEF PeerSends, PeerCloses, callVars, loopVars
<1> QED BY <1>1, <1>2, Typed, StartedStays DEF LoopType, CallType, Untouched, callVars, Shrinks

\* dptmr_timeout.
LEMMA AddTmrKeeps ==
  ASSUME KInv, NEW e \in Tmrs, AddTmr(e)
  PROVE  LoopType' /\ CallType' /\ Untouched
<1> DEFINE x == [el[e] EXCEPT !.doing = TRUE, !.ret = INPROGRESS, !.timing = TRUE]
<1>1. e \in Timed /\ el[e] \in Elem
  BY Typed
<1>2. x \in Elem
  BY <1>1, Codes DEF Elem
<1>3. el' = [el EXCEPT ![e] = x]
  BY DEF AddTmr
<1> HIDE DEF x
<1>4. el' \in [Eles -> Elem] /\ \A c \in Calls : el'[c] = el[c]
  BY <1>1, <1>2, <1>3, Typed
<1>5. kt' \in [Timed -> {"off", "armed", "due"}]
  BY Typed DEF LoopType, AddTmr, Watched
<1>6. UNCHANGED <<sock, closed, ready, phase, ctc, ctcs, asks, wake, taken, batch, limit, waking,
                  quota>>
  BY DEF AddTmr, callVars, loopVars
<1> QED BY <1>4, <1>5, <1>6, Typed, StartedStays
           DEF LoopType, CallType, Untouched, callVars, Shrinks

\* dpgfd_read.
LEMMA AddReadKeeps ==
  ASSUME KInv, NEW f \in Efds, NEW len \in Lens, NEW timed \in BOOLEAN, AddRead(f, len, timed)
  PROVE  LoopType' /\ CallType' /\ Untouched
<1> DEFINE x == [el[f] EXCEPT !.doing = TRUE, !.timed = timed, !.len = len, !.want = {"IN"}]
           t == Home[f]
<1>1. f \in Timed /\ el[f] \in Elem /\ len \in Nat /\ t \in Evps
  BY Typed DEF KqueueConsts
<1>2. x \in Elem
  BY <1>1 DEF Elem
<1>3. el' = [el EXCEPT ![f] = x]
  BY DEF AddRead
<1> HIDE DEF x
<1>4. el' \in [Eles -> Elem] /\ \A c \in Calls : el'[c] = el[c]
  BY <1>1, <1>2, <1>3, Typed
<1>5. phase' = [phase EXCEPT ![t] = "wake"] /\ waking' = [waking EXCEPT ![t] = <<f, "addv">>]
  BY DEF AddRead
<1>6. /\ phase' \in [Evps -> {"user", "pop", "tmr", "wake"}]
      /\ waking' \in [Evps -> {<<>>} \cup Callers]
      /\ \A u \in Evps : phase'[u] = "wake" => waking'[u] \in Callers
  <2>1. <<f, "addv">> \in Callers
    BY DEF Callers
  <2> QED BY <2>1, <1>1, <1>5, Typed DEF LoopType
<1>7. UNCHANGED <<sock, closed, ready, kt, ctc, ctcs, asks, wake, taken, batch, limit, quota>>
  BY DEF AddRead, callVars, kernelVars
<1> QED BY <1>4, <1>6, <1>7, Typed, StartedStays
           DEF LoopType, CallType, Untouched, callVars, Shrinks

\* dpele_set_detach on a timer or a descriptor.
LEMMA DetachKeeps ==
  ASSUME KInv, NEW e \in Timed, NEW d \in BOOLEAN, SetDetach(e, d)
  PROVE  LoopType' /\ CallType' /\ Untouched
<1> DEFINE x == [el[e] EXCEPT !.detach = d]
<1>1. el[e] \in Elem
  BY Typed
<1>2. x \in Elem
  BY <1>1 DEF Elem
<1>3. el' = [el EXCEPT ![e] = x]
  BY DEF SetDetach
<1> HIDE DEF x
<1>4. el' \in [Eles -> Elem] /\ \A c \in Calls : el'[c] = el[c]
  BY <1>1, <1>2, <1>3, Typed
<1>5. UNCHANGED <<kt, sock, closed, ready, phase, ctc, ctcs, asks, wake,
                  taken, batch, limit, waking, quota>>
  BY DEF SetDetach, callVars, loopVars, kernelVars
<1> QED BY <1>4, <1>5, Typed, StartedStays DEF LoopType, CallType, Untouched, callVars, Shrinks

\* dpevp_end on a timer or a descriptor.
LEMMA EndKeeps ==
  ASSUME KInv, NEW e \in Timed, End(e)
  PROVE  LoopType' /\ CallType' /\ Untouched
<1> DEFINE x == [el[e] EXCEPT !.ret = ENDED, !.want = {}, !.timing = FALSE]
           t == Home[e]
<1>1. el[e] \in Elem /\ t \in Evps /\ ready[t] \in Seq(Timed)
  BY Typed
<1>2. x \in Elem
  BY <1>1, Codes DEF Elem
<1>3. el' = [el EXCEPT ![e] = x]
  BY DEF End
<1> HIDE DEF x
<1>4. el' \in [Eles -> Elem] /\ \A c \in Calls : el'[c] = el[c]
  BY <1>1, <1>2, <1>3, Typed
<1>5. kt' \in [Timed -> {"off", "armed", "due"}]
  BY Typed DEF LoopType, End, Unwatched
<1>6. ready' \in [Evps -> Seq(Timed)]
  <2>1. PushBack(ready[t], e) \in Seq(Timed)
    BY <1>1, PushBackType
  <2>2. ready' = [ready EXCEPT ![t] = PushBack(ready[t], e)]
    BY DEF End
  <2> QED BY <2>1, <2>2, <1>1, Typed DEF LoopType
<1>7. UNCHANGED <<sock, closed, phase, ctc, ctcs, asks, wake, taken, batch, limit, waking, quota>>
  BY DEF End, callVars, loopVars
<1> QED BY <1>4, <1>5, <1>6, <1>7, Typed, StartedStays
           DEF LoopType, CallType, Untouched, callVars, Shrinks

\* A read takes no more than the socket holds.
LEMMA LeastOf ==
  ASSUME NEW a \in Nat, NEW b \in Nat, NEW q \in Nat
  PROVE  LET S == {a, b} \cup (IF q > 0 THEN {q} ELSE {}) IN Least(S) \in Nat /\ Least(S) <= b
<1> DEFINE S == {a, b} \cup (IF q > 0 THEN {q} ELSE {})
<1>1. S \subseteq Nat /\ b \in S
  OBVIOUS
<1>2. \E n \in S : \A k \in S : n <= k
  <2>1. CASE q > 0
    BY <2>1
  <2>2. CASE ~(q > 0)
    BY <2>2
  <2> QED BY <2>1, <2>2
<1> HIDE DEF S
<1>3. Least(S) \in S /\ \A k \in S : Least(S) <= k
  BY <1>2 DEF Least
<1> QED BY <1>1, <1>3 DEF S

\* What the post of a read returns.
LEMMA ReadPostType ==
  ASSUME KInv, NEW f \in Efds, NEW len \in Nat, NEW q \in Nat
  PROVE  LET p == ReadPost(f, len, q) IN p[1] \in Nat /\ p[1] <= sock[f] /\ p[2] \in Int
<1>1. sock[f] \in Nat
  BY Typed DEF LoopType
<1> DEFINE n == Least({len, sock[f]} \cup (IF q > 0 THEN {q} ELSE {}))
<1>2. n \in Nat /\ n <= sock[f]
  BY <1>1, LeastOf
<1>3. ReadPost(f, len, q) =
        IF n = 0 THEN <<0, IF closed[f] THEN EOF ELSE WAIT>>
        ELSE IF n = len THEN <<n, n>>
        ELSE IF q = 0 \/ n = q THEN <<n, WAIT>>
        ELSE <<n, IF closed[f] THEN EOF ELSE n>>
  BY DEF ReadPost
<1> HIDE DEF n
<1>4. /\ (IF closed[f] THEN EOF ELSE WAIT) \in Int /\ (IF closed[f] THEN EOF ELSE n) \in Int
      /\ WAIT \in Int
  BY Codes, <1>2
<1> QED BY <1>1, <1>2, <1>3, <1>4

\* What _dpefd_wake leaves behind.
Woken(t) ==
  /\ el' \in [Eles -> Elem] /\ \A c \in Calls : el'[c] = el[c]
  /\ kt' \in [Timed -> {"off", "armed", "due"}] /\ ready' \in [Evps -> Seq(Timed)]
  /\ phase' \in [Evps -> {"user", "pop", "tmr", "wake"}]
  /\ waking' \in [Evps -> {<<>>} \cup Callers]
  /\ \A u \in Evps : phase'[u] = "wake" => waking'[u] \in Callers

\* The ways out of _dpefd_wake.
LEMMA WakeEndsKeeps ==
  ASSUME KInv, NEW t \in Evps, NEW f \in Efds, NEW r \in Int, NEW x \in Elem,
         WakeEnds(t, f, r, x)
  PROVE  Woken(t)
<1>0. /\ f \in Timed /\ f \in Eles /\ el \in [Eles -> Elem]
      /\ \A c \in Calls : c \in Eles /\ c # f
      /\ kt \in [Timed -> {"off", "armed", "due"}] /\ ready \in [Evps -> Seq(Timed)]
  BY Typed DEF LoopType
<1>1. \A y \in Elem : el' = [el EXCEPT ![f] = y] =>
        el' \in [Eles -> Elem] /\ \A c \in Calls : el'[c] = el[c]
  BY <1>0
<1>2. /\ [x EXCEPT !.ret = r] \in Elem
      /\ [x EXCEPT !.ret = INPROGRESS, !.timing = x.timed] \in Elem
      /\ [x EXCEPT !.ret = r, !.doing = FALSE] \in Elem
      /\ [x EXCEPT !.ret = INPROGRESS] \in Elem
      /\ [x EXCEPT !.ret = r, !.timing = FALSE, !.doing = FALSE, !.want = {}] \in Elem
  BY Codes DEF Elem
<1>3. /\ Watched(f) \in [Timed -> {"off", "armed", "due"}]
      /\ Unwatched(f) \in [Timed -> {"off", "armed", "due"}]
  BY <1>0 DEF Watched, Unwatched
<1>4. /\ \E y \in Elem : el' = [el EXCEPT ![f] = y]
      /\ kt' \in {kt, Watched(f), Unwatched(f)}
      /\ ready' \in {ready, [ready EXCEPT ![t] = PushBack(ready[t], f)]}
  <2>1. CASE waking[t][2] = "addv"
    <3>1. AddEnds(t, f, r, x)
      BY <2>1 DEF WakeEnds
    <3> QED BY <3>1, <1>2 DEF AddEnds
  <2>2. CASE waking[t][2] # "addv"
    <3>1. FeedEnds(f, r, x) /\ ready' = ready
      BY <2>2 DEF WakeEnds
    <3> QED BY <3>1, <1>2 DEF FeedEnds
  <2> QED BY <2>1, <2>2
<1>5. el' \in [Eles -> Elem] /\ \A c \in Calls : el'[c] = el[c]
  BY <1>1, <1>4
<1>6. kt' \in [Timed -> {"off", "armed", "due"}]
  BY <1>0, <1>3, <1>4
<1>7. ready' \in [Evps -> Seq(Timed)]
  <2>1. PushBack(ready[t], f) \in Seq(Timed)
    BY <1>0, PushBackType
  <2> QED BY <2>1, <1>0, <1>4
<1>8. /\ \E q \in {"user", "pop"} : phase' = [phase EXCEPT ![t] = q]
      /\ waking' = [waking EXCEPT ![t] = <<>>]
  BY DEF WakeEnds
<1>9. /\ phase' \in [Evps -> {"user", "pop", "tmr", "wake"}]
      /\ waking' \in [Evps -> {<<>>} \cup Callers]
      /\ \A u \in Evps : phase'[u] = "wake" => waking'[u] \in Callers
  BY <1>8, Typed DEF LoopType
<1> QED BY <1>5, <1>6, <1>7, <1>9 DEF Woken

\* A turn of _dpefd_wake.
LEMMA WakeKeeps ==
  ASSUME KInv, NEW t \in Evps, Wake(t)
  PROVE  LoopType' /\ CallType' /\ Untouched
<1> DEFINE f == waking[t][1]
           x == el[f]
           p == ReadPost(f, x.len, quota[t])
           y == [x EXCEPT !.want = {}]
           g == [x EXCEPT !.want = {}, !.able = IF p[2] = EOF THEN @ \ {"IN"} ELSE @]
<1>1. /\ waking[t] \in Callers /\ f \in Efds /\ x \in Elem /\ quota[t] \in Nat
      /\ sock \in [Efds -> Nat]
  <2>1. waking[t] \in Callers
    BY Typed DEF Wake, LoopType
  <2>2. f \in Efds
    BY <2>1 DEF Callers
  <2> QED BY <2>1, <2>2, Typed DEF LoopType
<1>2. x.len \in Nat
  BY <1>1 DEF Elem
<1>3. p[1] \in Nat /\ p[1] <= sock[f] /\ p[2] \in Int
  BY <1>1, <1>2, ReadPostType
<1>4. y \in Elem
  BY <1>1 DEF Elem
<1>5. g \in Elem
  <2>1. (IF p[2] = EOF THEN x.able \ {"IN"} ELSE x.able) \in SUBSET {"IN", "HUP"}
    BY <1>1 DEF Elem
  <2> HIDE DEF p
  <2> QED BY <2>1, <1>1 DEF Elem
<1>6. \/ WakeEnds(t, f, CONNRESET, y) /\ sock' = sock
      \/ WakeEnds(t, f, WAIT, x) /\ sock' = sock
      \/ sock' = [sock EXCEPT ![f] = @ - p[1]] /\ UNCHANGED <<el, ready, kt, phase, waking>>
      \/ sock' = [sock EXCEPT ![f] = @ - p[1]] /\ WakeEnds(t, f, p[2], g)
  BY DEF Wake
<1>7. UNCHANGED <<closed, batch, limit, quota, ctc, ctcs, asks, wake, taken>>
  BY DEF Wake, callVars
<1> HIDE DEF f, x, p, y, g
<1>8. sock' \in [Efds -> Nat]
  <2>1. sock[f] - p[1] \in Nat
    BY <1>1, <1>3
  <2> QED BY <2>1, <1>1, <1>6
<1>9. Woken(t)
  <2>1. CASE WakeEnds(t, f, CONNRESET, y)
    BY <2>1, <1>1, <1>4, Codes, WakeEndsKeeps
  <2>2. CASE WakeEnds(t, f, WAIT, x)
    BY <2>2, <1>1, Codes, WakeEndsKeeps
  <2>3. CASE UNCHANGED <<el, ready, kt, phase, waking>>
    BY <2>3, Typed DEF Woken, LoopType
  <2>4. CASE WakeEnds(t, f, p[2], g)
    BY <2>4, <1>1, <1>3, <1>5, WakeEndsKeeps
  <2> QED BY <2>1, <2>2, <2>3, <2>4, <1>6
<1> QED BY <1>7, <1>8, <1>9, Typed, StartedStays
           DEF LoopType, CallType, Untouched, callVars, Shrinks, Woken

\* _dpele_asc_over.
LEMMA OverType ==
  ASSUME KInv, NEW t \in Evps, NEW e, NEW there \in {"pop", "tmr"}, Over(t, e, there)
  PROVE  /\ limit' \in [Evps -> Nat] /\ phase' \in [Evps -> {"user", "pop", "tmr", "wake"}]
         /\ waking' = waking /\ quota' = quota
         /\ \A u \in Evps : phase'[u] = "wake" => waking'[u] \in Callers
<1>1. /\ \E q \in {"user", "pop", "tmr"} : phase' = [phase EXCEPT ![t] = q]
      /\ limit' \in {limit, [limit EXCEPT ![t] = @ + 1]}
      /\ waking' = waking /\ quota' = quota
  BY DEF Over, Goes
<1>2. limit' \in [Evps -> Nat]
  BY <1>1, Typed DEF LoopType
<1> QED BY <1>1, <1>2, Typed DEF LoopType

\* _dpevp_reap_usd.
LEMMA ReapReadyKeeps ==
  ASSUME KInv, NEW t \in Evps, ReapReady(t)
  PROVE  LoopType' /\ CallType' /\ Untouched
<1> DEFINE e == Head(ready[t])
           x == [el[e] EXCEPT !.doing = FALSE, !.want = {}]
<1>1. ready[t] \in Seq(Timed) /\ ready[t] # <<>>
  BY Typed DEF LoopType, ReapReady
<1>2. e \in Timed /\ Tail(ready[t]) \in Seq(Timed)
  BY <1>1
<1>3. el' = [el EXCEPT ![e] = x] /\ ready' = [ready EXCEPT ![t] = Tail(@)] /\ Over(t, e, "pop")
  BY DEF ReapReady
<1>4. UNCHANGED <<batch, kt, sock, closed, ctc, ctcs, asks, wake, taken>>
  BY DEF ReapReady, kernelVars, callVars
<1> HIDE DEF e
<1>5. x \in Elem
  BY <1>2, Typed DEF Elem
<1> HIDE DEF x
<1>6. el' \in [Eles -> Elem] /\ \A c \in Calls : el'[c] = el[c]
  BY <1>2, <1>3, <1>5, Typed
<1>7. ready' \in [Evps -> Seq(Timed)]
  BY <1>2, <1>3, Typed DEF LoopType
<1> QED BY <1>3, <1>4, <1>6, <1>7, OverType, Typed, StartedStays
           DEF LoopType, CallType, Untouched, callVars, Shrinks

\* An event of a batch is reaped.
LEMMA BatchTail ==
  ASSUME KInv, NEW t \in Evps, batch[t] # <<>>, batch' = [batch EXCEPT ![t] = Tail(@)]
  PROVE  /\ batch' \in [Evps -> Seq(Events)] /\ Shrinks
         /\ Head(batch[t]) \in Events /\ batch[t] \in Seq(Events) /\ batch'[t] = Tail(batch[t])
<1>1. batch \in [Evps -> Seq(Events)] /\ batch[t] \in Seq(Events)
  BY Typed DEF LoopType
<1>2. Head(batch[t]) \in Events /\ Tail(batch[t]) \in Seq(Events)
  BY <1>1
<1>3. batch'[t] = Tail(batch[t]) /\ \A u \in Evps : u # t => batch'[u] = batch[u]
  BY <1>1
<1> QED BY <1>1, <1>2, <1>3 DEF Shrinks

\* _dpevp_reap_tmr.
LEMMA ReapTmrKeeps ==
  ASSUME KInv, NEW t \in Evps, ReapTmr(t)
  PROVE  LoopType' /\ CallType' /\ Untouched
<1> DEFINE e == Head(batch[t]).who
           x == [el[e] EXCEPT !.timing = FALSE, !.ret = TIME, !.doing = FALSE, !.want = {}]
<1>1. batch[t] # <<>> /\ Head(batch[t]).filter = "TIMER" /\ batch' = [batch EXCEPT ![t] = Tail(@)]
  BY DEF ReapTmr, Filter
<1>2. batch' \in [Evps -> Seq(Events)] /\ Shrinks /\ Head(batch[t]) \in Events
  BY <1>1, BatchTail
<1>3. e \in Timed
  BY <1>1, <1>2 DEF Events, TimerEvents, ReadEvents, UserEvents
<1>4. el' = [el EXCEPT ![e] = x] /\ Over(t, e, "tmr")
  BY DEF ReapTmr
<1>5. UNCHANGED <<ready, kt, sock, closed, ctc, ctcs, asks, wake, taken>>
  BY DEF ReapTmr, kernelVars, callVars
<1> HIDE DEF e
<1>6. x \in Elem
  BY <1>3, Typed, Codes DEF Elem
<1> HIDE DEF x
<1>7. el' \in [Eles -> Elem] /\ \A c \in Calls : el'[c] = el[c]
  BY <1>3, <1>4, <1>6, Typed
<1> QED BY <1>2, <1>4, <1>5, <1>7, OverType, Typed, StartedStays
           DEF LoopType, CallType, Untouched, callVars

\* An EVFILT_READ is reaped.
LEMMA ReapReadKeeps ==
  ASSUME KInv, NEW t \in Evps, ReapRead(t)
  PROVE  LoopType' /\ CallType' /\ Untouched
<1> DEFINE k == Head(batch[t])
           f == k.who
           x == [el[f] EXCEPT !.able = @ \cup {"IN"} \cup (IF k.eof THEN {"HUP"} ELSE {})]
<1>1. batch[t] # <<>> /\ k.filter = "READ" /\ batch' = [batch EXCEPT ![t] = Tail(@)]
  BY DEF ReapRead, Filter
<1>2. batch' \in [Evps -> Seq(Events)] /\ Shrinks /\ k \in Events
  BY <1>1, BatchTail
<1>3. f \in Efds /\ k.data \in Nat
  BY <1>1, <1>2 DEF Events, TimerEvents, ReadEvents, UserEvents
<1>4. el' = [el EXCEPT ![f] = x] /\ quota' = [quota EXCEPT ![t] = k.data]
  BY DEF ReapRead
<1>5. UNCHANGED <<ready, limit, kt, sock, closed, ctc, ctcs, asks, wake, taken>>
  BY DEF ReapRead, kernelVars, callVars
<1>6. \/ phase' = [phase EXCEPT ![t] = "pop"] /\ waking' = waking
      \/ phase' = [phase EXCEPT ![t] = "wake"] /\ waking' = [waking EXCEPT ![t] = <<f, "feed">>]
  BY DEF ReapRead, Goes
<1> HIDE DEF k
<1> HIDE DEF f
<1>7. x \in Elem
  <2>1. el[f] \in Elem
    BY <1>3, Typed
  <2>2. el[f].able \cup {"IN"} \cup (IF k.eof THEN {"HUP"} ELSE {}) \in SUBSET {"IN", "HUP"}
    BY <2>1 DEF Elem
  <2> QED BY <2>1, <2>2 DEF Elem
<1> HIDE DEF x
<1>8. el' \in [Eles -> Elem] /\ \A c \in Calls : el'[c] = el[c]
  BY <1>3, <1>4, <1>7, Typed
<1>9. <<f, "feed">> \in Callers
  BY <1>3 DEF Callers
<1>10. /\ phase' \in [Evps -> {"user", "pop", "tmr", "wake"}]
       /\ waking' \in [Evps -> {<<>>} \cup Callers]
       /\ \A u \in Evps : phase'[u] = "wake" => waking'[u] \in Callers
  BY <1>6, <1>9, Typed DEF LoopType
<1>11. quota' \in [Evps -> Nat]
  BY <1>3, <1>4, Typed DEF LoopType
<1> QED BY <1>2, <1>5, <1>8, <1>10, <1>11, Typed, StartedStays
           DEF LoopType, CallType, Untouched, callVars

-----------------------------------------------------------------------------
(* Steps that move calls. *)

\* What the invariant says of the queues as one function.
LEMMA LinesTyped ==
  ASSUME KInv
  PROVE  /\ Lines \in LinesType /\ Apart(Lines)
         /\ \A l \in Lists : l \in Places /\ Lines[l] = ctcs[l]
         /\ \A t \in Evps : Spot(t) \in Places /\ Lines[Spot(t)] = taken[t]
BY LinesFacts DEF KInv, CallType, Whereabouts, Lines

\* L has all calls where they are, but not c.
Without(L, c) ==
  /\ L \in LinesType /\ Apart(L)
  /\ \A q \in Places : ~InLine(L, q, c)
  /\ \A q \in Places, d \in Calls : d # c => (InLine(L, q, d) <=> InLine(Lines, q, d))

\* The step changes no call but c.
Alone(c) == \A d \in Calls : d # c => el'[d] = el[d] /\ ctc'[d] = ctc[d]

\* A call that is put at the end of a queue is where it should be.
LEMMA PutDown ==
  ASSUME KInv, NEW c \in Calls, NEW L, Without(L, c), Alone(c), NEW p \in Places,
         Sets(L, Lines', p, Append(L[p], c)), el'[c].doing, ctc'[c].at = -1,
         p \in Inward /\ ctc'[c].stat \in {"COMMIT", "RUNNING"} => ctc'[c].to = 1
  PROVE  Whereabouts'
<1> DEFINE M == Lines'
<1>1. /\ Apart(M)
      /\ \A q \in Places, d \in Calls : InLine(M, q, d) <=> InLine(L, q, d) \/ (q = p /\ d = c)
  <2>1. L \in LinesType /\ Apart(L) /\ \A q \in Places : ~InLine(L, q, c)
    BY DEF Without
  <2>2. Sets(L, M, p, Append(L[p], c))
    OBVIOUS
  <2> HIDE DEF M
  <2> QED BY <2>1, <2>2, AppendApart
<1>2. \A q \in Places, d \in Calls : d # c => (InLine(M, q, d) <=> InLine(Lines, q, d))
  BY <1>1 DEF Without
<1>3. \A q \in Places : InLine(M, q, c) <=> q = p
  BY <1>1 DEF Without
<1>4. Routed(Lines) /\ Kept(Lines) /\ Running
  BY DEF KInv, Whereabouts
<1>5. \A d \in Calls : d # c => el'[d] = el[d] /\ ctc'[d] = ctc[d]
  BY DEF Alone
<1> HIDE DEF M
<1>6. ASSUME NEW q \in Places, NEW d \in Calls, InLine(M, q, d)
      PROVE  /\ el'[d].doing /\ ctc'[d].at = -1
             /\ q \in Inward /\ ctc'[d].stat \in {"COMMIT", "RUNNING"} => ctc'[d].to = 1
  <2>1. CASE d = c
    BY <2>1, <1>3, <1>6
  <2>2. CASE d # c
    BY <2>2, <1>2, <1>4, <1>5, <1>6 DEF Routed
  <2> QED BY <2>1, <2>2
<1>7. ASSUME NEW d \in Calls
      PROVE  /\ ctc'[d].at # -1 => el'[d].doing /\ ctc'[d].stat = "RUNNING"
             /\ el'[d].doing /\ ~el'[d].detach /\ ctc'[d].at = -1 =>
                  \E q \in Places : InLine(M, q, d)
  <2>1. CASE d = c
    BY <2>1, <1>3
  <2>2. CASE d # c
    BY <2>2, <1>2, <1>4, <1>5 DEF Running, Kept
  <2> QED BY <2>1, <2>2
<1> QED BY <1>1, <1>6, <1>7 DEF M, Whereabouts, Routed, Running, Kept

\* A call that is given to a thread or back to its owner waits nowhere.
LEMMA TakeUp ==
  ASSUME KInv, NEW c \in Calls, NEW L, Without(L, c), Alone(c), Lines' = L,
         ctc'[c].at # -1 => el'[c].doing /\ ctc'[c].stat = "RUNNING",
         el'[c].doing /\ ~el'[c].detach => ctc'[c].at # -1
  PROVE  Whereabouts'
<1>2. \A q \in Places, d \in Calls : InLine(L, q, d) => d # c /\ InLine(Lines, q, d)
  BY DEF Without
<1>3. \A q \in Places, d \in Calls : d # c /\ InLine(Lines, q, d) => InLine(L, q, d)
  BY DEF Without
<1>4. Routed(Lines) /\ Kept(Lines) /\ Running
  BY DEF KInv, Whereabouts
<1>5. \A d \in Calls : d # c => el'[d] = el[d] /\ ctc'[d] = ctc[d]
  BY DEF Alone
<1>6. ASSUME NEW q \in Places, NEW d \in Calls, InLine(L, q, d)
      PROVE  /\ el'[d].doing /\ ctc'[d].at = -1
             /\ q \in Inward /\ ctc'[d].stat \in {"COMMIT", "RUNNING"} => ctc'[d].to = 1
  BY <1>2, <1>4, <1>5, <1>6 DEF Routed
<1>7. ASSUME NEW d \in Calls
      PROVE  /\ ctc'[d].at # -1 => el'[d].doing /\ ctc'[d].stat = "RUNNING"
             /\ el'[d].doing /\ ~el'[d].detach /\ ctc'[d].at = -1 =>
                  \E q \in Places : InLine(L, q, d)
  <2>1. CASE d = c
    BY <2>1
  <2>2. CASE d # c
    BY <2>2, <1>3, <1>4, <1>5 DEF Running, Kept
  <2> QED BY <2>1, <2>2
<1>8. Apart(L)
  BY DEF Without
<1> QED BY <1>6, <1>7, <1>8 DEF Whereabouts, Routed, Running, Kept

\* A call that runs, or that nobody submitted, waits nowhere.
LEMMA NowhereWithout ==
  ASSUME KInv, NEW c \in Calls, ~el[c].doing \/ ctc[c].at # -1
  PROVE  Without(Lines, c)
<1>1. \A q \in Places : ~InLine(Lines, q, c)
  BY DEF KInv, Whereabouts, Routed
<1> QED BY <1>1, LinesTyped DEF Without

\* The types of one call.
LEMMA CtcTypes ==
  ASSUME KInv, NEW c \in Calls
  PROVE  /\ c \in Eles /\ el[c] \in Elem /\ ctc[c] \in Call0
         /\ el \in [Eles -> Elem] /\ ctc \in [Calls -> Call0]
BY DEF KInv, CallType, Eles

\* dpctc_submit.
LEMMA SubmitKeeps ==
  ASSUME KInv, NEW t \in Evps, NEW n \in Evps, NEW c \in Calls, Submit(t, c, n)
  PROVE  LoopType' /\ CallType' /\ WakeTokens' /\ Whereabouts'
<1> DEFINE x == [el[c] EXCEPT !.doing = TRUE, !.ret = INPROGRESS]
           y == [stat |-> "COMMIT", from |-> t, to |-> n, reto |-> FALSE, at |-> -1]
<1>1. el' = [el EXCEPT ![c] = x] /\ ctc' = [ctc EXCEPT ![c] = y] /\ Send(t, c, n) /\ ~el[c].doing
  BY DEF Submit
<1>2. UNCHANGED <<ready, phase, kt, sock, closed, batch, limit, waking, quota>>
  BY DEF Submit, kernelVars, loopVars
<1>3. x \in Elem /\ x.doing
  BY CtcTypes, Codes DEF Elem
<1>4. y \in Call0 /\ y.at = -1 /\ y.to = n
  BY DEF Call0, Stats
<1> HIDE DEF x, y
<1>5. /\ el' \in [Eles -> Elem] /\ ctc' \in [Calls -> Call0] /\ Alone(c)
      /\ el'[c] = x /\ ctc'[c] = y
  BY <1>1, <1>3, <1>4, CtcTypes DEF Alone
<1>6. /\ ctcs' \in [Lists -> Seq(Calls)] /\ asks' \in [Wakes -> BOOLEAN]
      /\ wake' \in [Wakes -> {"none", "INCR", "TAKE"}] /\ taken' \in [Evps -> Seq(Calls)]
      /\ WakeTokens'
      /\ \E p \in Places : (p \in Inward <=> n = 1) /\ Sets(Lines, Lines', p, Append(Lines[p], c))
  BY <1>1, <1>2, SendKeeps DEF KInv
<1>7. PICK p \in Places : (p \in Inward <=> n = 1) /\ Sets(Lines, Lines', p, Append(Lines[p], c))
  BY <1>6
<1>8. Without(Lines, c)
  BY <1>1, NowhereWithout
<1>9. Whereabouts'
  BY <1>3, <1>4, <1>5, <1>7, <1>8, PutDown
<1>10. LoopType'
  BY <1>2, Typed DEF LoopType
<1>11. Started'
  <2>1. y.stat # "INITIAL" /\ Started
    BY DEF y, KInv, CallType
  <2> QED BY <2>1, <1>5 DEF Started, Alone
<1> QED BY <1>5, <1>6, <1>9, <1>10, <1>11 DEF CallType

\* dpevp_end_ctc_ passes a call on, sends it home, or drops it.
LEMMA EndCtcKeeps ==
  ASSUME KInv, NEW t \in Evps, NEW c \in Calls, EndCtc(t, c)
  PROVE  LoopType' /\ CallType' /\ WakeTokens' /\ Whereabouts'
<1> DEFINE x == [el[c] EXCEPT !.ret = 0]
           y == [ctc[c] EXCEPT !.reto = FALSE, !.at = -1,
                   !.stat = IF ctc[c].reto THEN "COMMIT" ELSE "FINISH"]
<1>1. /\ el' = [el EXCEPT ![c] = x] /\ ctc' = [ctc EXCEPT ![c] = y]
      /\ ctc[c].stat = "RUNNING" /\ ctc[c].at = t
  BY DEF EndCtc
<1>2. UNCHANGED <<ready, phase, kt, sock, closed, batch, limit, waking, quota>>
  BY DEF EndCtc, kernelVars, loopVars
<1>3. /\ el[c] \in Elem /\ ctc[c] \in Call0 /\ ctc[c].at # -1 /\ el[c].doing
      /\ ctc[c].to \in Evps /\ ctc[c].from \in Evps
  <2>1. ctc[c].at # -1
    BY <1>1 DEF Evps
  <2> QED BY <2>1, CtcTypes DEF KInv, Whereabouts, Running, Call0
<1>4. x \in Elem /\ x.doing /\ x.detach = el[c].detach
  BY <1>3 DEF Elem
<1>5. /\ y \in Call0 /\ y.at = -1 /\ y.to = ctc[c].to
      /\ y.stat = IF ctc[c].reto THEN "COMMIT" ELSE "FINISH"
  BY <1>3 DEF Call0, Stats
<1> HIDE DEF x, y
<1>6. /\ el' \in [Eles -> Elem] /\ ctc' \in [Calls -> Call0] /\ Alone(c)
      /\ el'[c] = x /\ ctc'[c] = y
  BY <1>1, <1>4, <1>5, CtcTypes DEF Alone
<1>s. Started'
  <2>1. y.stat # "INITIAL" /\ Started
    BY <1>5 DEF KInv, CallType
  <2> QED BY <2>1, <1>6 DEF Started, Alone
<1>7. Without(Lines, c)
  BY <1>3, NowhereWithout
<1>8. LoopType'
  BY <1>2, Typed DEF LoopType
<1>9. ASSUME NEW n \in Evps, Send(t, c, n), ctc[c].reto => n = ctc[c].to
      PROVE  CallType' /\ WakeTokens' /\ Whereabouts'
  <2>1. /\ ctcs' \in [Lists -> Seq(Calls)] /\ asks' \in [Wakes -> BOOLEAN]
        /\ wake' \in [Wakes -> {"none", "INCR", "TAKE"}] /\ taken' \in [Evps -> Seq(Calls)]
        /\ WakeTokens'
        /\ \E p \in Places : (p \in Inward <=> n = 1) /\ Sets(Lines, Lines', p, Append(Lines[p], c))
    BY <1>2, <1>9, SendKeeps DEF KInv
  <2>2. PICK p \in Places : (p \in Inward <=> n = 1) /\ Sets(Lines, Lines', p, Append(Lines[p], c))
    BY <2>1
  <2>3. p \in Inward /\ ctc'[c].stat \in {"COMMIT", "RUNNING"} => ctc'[c].to = 1
    BY <1>5, <1>6, <1>9, <2>2
  <2>4. Whereabouts'
    BY <1>4, <1>5, <1>6, <1>7, <2>2, <2>3, PutDown
  <2> QED BY <1>s, <1>6, <2>1, <2>4 DEF CallType
<1>10. CASE ctc[c].reto
  <2>1. Send(t, c, ctc[c].to)
    BY <1>10 DEF EndCtc
  <2> QED BY <2>1, <1>3, <1>8, <1>9
<1>11. CASE ~ctc[c].reto /\ el[c].detach
  <2>1. UNCHANGED <<ctcs, asks, wake, taken>>
    BY <1>11 DEF EndCtc
  <2>2. CallType' /\ Lines' = Lines
    BY <2>1, <1>s, <1>6, Typed DEF CallType, Lines
  <2>3. WakeTokens'
    BY <2>1, <1>2, SeenStays, Names DEF KInv, WakeTokens, TokenOf
  <2>4. Whereabouts'
    BY <2>2, <1>4, <1>5, <1>6, <1>7, <1>11, TakeUp
  <2> QED BY <2>2, <2>3, <2>4, <1>8
<1>12. CASE ~ctc[c].reto /\ ~el[c].detach
  <2>1. Send(t, c, ctc[c].from)
    BY <1>12 DEF EndCtc
  <2> QED BY <2>1, <1>3, <1>8, <1>9, <1>12
<1> QED BY <1>10, <1>11, <1>12

\* A step that moves no call keeps every call where it is.
LEMMA StayKeeps ==
  ASSUME KInv, UNCHANGED <<ctcs, taken>>,
         \A d \in Calls : /\ el'[d].doing = el[d].doing /\ ctc'[d].at = ctc[d].at
                          /\ el[d].doing => el'[d].detach = el[d].detach
                          /\ ctc'[d].stat \in {"COMMIT", "RUNNING"} /\ ctc[d].at = -1 =>
                              ctc'[d].stat = ctc[d].stat /\ ctc'[d].to = ctc[d].to
                          /\ ctc[d].at # -1 => ctc'[d].stat = ctc[d].stat
  PROVE  Whereabouts'
<1> DEFINE M == Lines'
<1>1. M = Lines
  BY DEF Lines
<1>2. Apart(Lines) /\ Routed(Lines) /\ Kept(Lines) /\ Running
  BY DEF KInv, Whereabouts
<1> HIDE DEF M
<1>3. ASSUME NEW q \in Places, NEW d \in Calls, InLine(M, q, d)
      PROVE  /\ el'[d].doing /\ ctc'[d].at = -1
             /\ q \in Inward /\ ctc'[d].stat \in {"COMMIT", "RUNNING"} => ctc'[d].to = 1
  BY <1>1, <1>2, <1>3 DEF Routed
<1>4. ASSUME NEW d \in Calls
      PROVE  /\ ctc'[d].at # -1 => el'[d].doing /\ ctc'[d].stat = "RUNNING"
             /\ el'[d].doing /\ ~el'[d].detach /\ ctc'[d].at = -1 =>
                  \E q \in Places : InLine(M, q, d)
  BY <1>1, <1>2 DEF Running, Kept
<1>5. Apart(M)
  BY <1>1, <1>2
<1> QED BY <1>3, <1>4, <1>5 DEF M, Whereabouts, Routed, Running, Kept

\* Steps that send and reap no wake keep the tokens.
LEMMA PopTokens ==
  ASSUME KInv, UNCHANGED <<ctcs, asks, wake, batch>>
  PROVE  WakeTokens'
BY SeenStays, Names DEF KInv, WakeTokens, TokenOf

\* dpevp_end on a call that was not taken yet.
LEMMA CancelKeeps ==
  ASSUME KInv, NEW t \in Evps, NEW c \in Calls, CancelCtc(t, c)
  PROVE  LoopType' /\ CallType' /\ WakeTokens' /\ Whereabouts'
<1> DEFINE x == [el[c] EXCEPT !.ret = ENDED]
           y == [ctc[c] EXCEPT !.stat = "CANCEL"]
<1>1. /\ el' = [el EXCEPT ![c] = x] /\ ctc' = [ctc EXCEPT ![c] = y] /\ ctc[c].stat = "COMMIT"
      /\ UNCHANGED <<ctcs, asks, wake,
                     taken, ready, phase, kt, sock, closed, batch, limit, waking, quota>>
  BY DEF CancelCtc, kernelVars, loopVars
<1>2. x \in Elem /\ x.doing = el[c].doing /\ x.detach = el[c].detach
  BY CtcTypes, Codes DEF Elem
<1>3. y \in Call0 /\ y.at = ctc[c].at /\ y.stat = "CANCEL" /\ ctc[c].at = -1
  BY <1>1, CtcTypes DEF Call0, Stats, KInv, Whereabouts, Running
<1> HIDE DEF x, y
<1>4. /\ el' \in [Eles -> Elem] /\ ctc' \in [Calls -> Call0] /\ el'[c] = x /\ ctc'[c] = y
      /\ \A d \in Calls : d # c => el'[d] = el[d] /\ ctc'[d] = ctc[d]
  BY <1>1, <1>2, <1>3, CtcTypes
<1>5. Whereabouts'
  BY <1>1, <1>2, <1>3, <1>4, StayKeeps
<1>6. Started'
  BY <1>1, <1>2, <1>3, <1>4 DEF KInv, CallType, Started
<1> QED BY <1>1, <1>4, <1>5, <1>6, PopTokens, Typed DEF LoopType, CallType

\* dpctc_reto.
LEMMA RetoKeeps ==
  ASSUME KInv, NEW t \in Evps, NEW n \in Evps, NEW c \in Calls, Reto(t, c, n)
  PROVE  LoopType' /\ CallType' /\ WakeTokens' /\ Whereabouts'
<1> DEFINE y == [ctc[c] EXCEPT !.to = n, !.reto = TRUE]
<1>1. /\ ctc' = [ctc EXCEPT ![c] = y] /\ ctc[c].at = t /\ el' = el
      /\ UNCHANGED <<ctcs, asks, wake,
                     taken, ready, phase, kt, sock, closed, batch, limit, waking, quota>>
  BY DEF Reto, kernelVars, loopVars
<1>2. y \in Call0 /\ y.at = ctc[c].at /\ y.stat = ctc[c].stat
  BY CtcTypes DEF Call0
<1>3. ctc[c].at # -1
  BY <1>1 DEF Evps
<1> HIDE DEF y
<1>4. /\ ctc' \in [Calls -> Call0] /\ ctc'[c] = y /\ \A d \in Calls : d # c => ctc'[d] = ctc[d]
  BY <1>1, <1>2, CtcTypes
<1>5. Whereabouts'
  BY <1>1, <1>2, <1>3, <1>4, StayKeeps
<1>6. Started'
  BY <1>1, <1>2, <1>3, <1>4 DEF KInv, CallType, Started
<1> QED BY <1>1, <1>4, <1>5, <1>6, PopTokens, Typed DEF LoopType, CallType

\* dpele_set_detach on a call.
LEMMA DetachCtcKeeps ==
  ASSUME KInv, NEW c \in Calls, NEW d \in BOOLEAN, SetDetach(c, d)
  PROVE  LoopType' /\ CallType' /\ WakeTokens' /\ Whereabouts'
<1> DEFINE x == [el[c] EXCEPT !.detach = d]
<1>1. /\ el' = [el EXCEPT ![c] = x] /\ ctc' = ctc /\ ~el[c].doing
      /\ UNCHANGED <<ctcs, asks, wake,
                     taken, ready, phase, kt, sock, closed, batch, limit, waking, quota>>
  BY DEF SetDetach, kernelVars, loopVars, callVars
<1>2. x \in Elem /\ x.doing = el[c].doing
  BY CtcTypes DEF Elem
<1> HIDE DEF x
<1>3. el' \in [Eles -> Elem] /\ el'[c] = x /\ \A e \in Calls : e # c => el'[e] = el[e]
  BY <1>1, <1>2, CtcTypes
<1>4. Whereabouts'
  BY <1>1, <1>2, <1>3, StayKeeps
<1>5. Started'
  BY <1>1, <1>2, <1>3 DEF KInv, CallType, Started
<1> QED BY <1>1, <1>3, <1>4, <1>5, PopTokens, Typed DEF LoopType, CallType

\* Calls that change lists all together, to a line in the same direction.
LEMMA MoveKeeps ==
  ASSUME KInv, UNCHANGED <<el, ctc>>, NEW a \in Places, NEW b \in Places, a # b,
         Moves(Lines, Lines', a, b), b \in Inward => a \in Inward
  PROVE  Whereabouts'
<1> DEFINE M == Lines'
<1>1. Lines \in LinesType /\ Apart(Lines) /\ Routed(Lines) /\ Kept(Lines) /\ Running
  BY LinesTyped DEF KInv, Whereabouts
<1>2. /\ Apart(M)
      /\ \A q \in Places, d \in Calls :
           InLine(M, q, d) <=> q # a /\ (InLine(Lines, q, d) \/ (q = b /\ InLine(Lines, a, d)))
  <2>1. Moves(Lines, M, a, b)
    OBVIOUS
  <2> HIDE DEF M
  <2> QED BY <1>1, <2>1, MoveApart
<1> HIDE DEF M
<1>3. ASSUME NEW q \in Places, NEW d \in Calls, InLine(M, q, d)
      PROVE  /\ el[d].doing /\ ctc[d].at = -1
             /\ q \in Inward /\ ctc[d].stat \in {"COMMIT", "RUNNING"} => ctc[d].to = 1
  BY <1>1, <1>2, <1>3 DEF Routed
<1>4. ASSUME NEW d \in Calls, el[d].doing /\ ~el[d].detach /\ ctc[d].at = -1
      PROVE  \E q \in Places : InLine(M, q, d)
  <2>1. PICK q \in Places : InLine(Lines, q, d)
    BY <1>1, <1>4 DEF Kept
  <2>2. CASE q = a
    BY <1>2, <2>1, <2>2
  <2>3. CASE q # a
    BY <1>2, <2>1, <2>3
  <2> QED BY <2>2, <2>3
<1> QED BY <1>1, <1>2, <1>3, <1>4 DEF M, Whereabouts, Routed, Running, Kept

\* The wake that is reaped is the one its reader had, and no other is left.
LEMMA UserSeen ==
  ASSUME KInv, NEW t \in Evps, Filter(t) = "USER", batch' = [batch EXCEPT ![t] = Tail(@)]
  PROVE  LET w == WakeOf(t) IN
         /\ batch' \in [Evps -> Seq(Events)] /\ OneUser'
         /\ Head(batch[t]).data \in {"INCR", "TAKE"} /\ Seen(w, Head(batch[t]).data)
         /\ \A x : ~Seen(w, x)' /\ (Seen(Opposite(w), x)' => Seen(Opposite(w), x))
<1> DEFINE w == WakeOf(t)
<1>1. batch[t] # <<>> /\ Head(batch[t]).filter = "USER"
  BY DEF Filter
<1>2. /\ batch' \in [Evps -> Seq(Events)] /\ Shrinks /\ Head(batch[t]) \in Events
      /\ batch[t] \in Seq(Events) /\ batch'[t] = Tail(batch[t])
  BY <1>1, BatchTail
<1>3. Head(batch[t]).data \in {"INCR", "TAKE"}
  BY <1>1, <1>2 DEF Events, TimerEvents, ReadEvents, UserEvents
<1>4. OneUser' /\ OneUser /\ \A v \in Wakes : \A x : Seen(v, x)' => Seen(v, x)
  BY <1>2, ShrinkSeen DEF KInv, WakeTokens
<1>5. w \in Wakes /\ Opposite(w) \in Wakes /\ Reader(w) = t
  BY Names
<1>6. Seen(w, Head(batch[t]).data)
  <2>1. 1 \in DOMAIN batch[t] /\ Head(batch[t]) = batch[t][1]
    BY <1>1, <1>2, TailEvents
  <2> QED BY <2>1, <1>1, <1>5 DEF Seen
<1>7. ASSUME NEW x, Seen(w, x)' PROVE FALSE
  <2>1. PICK i \in DOMAIN batch'[t] : batch'[t][i].filter = "USER"
    BY <1>5, <1>7 DEF Seen
  <2>2. /\ i + 1 \in DOMAIN batch[t] /\ batch'[t][i] = batch[t][i + 1] /\ i + 1 # 1
        /\ 1 \in DOMAIN batch[t] /\ Head(batch[t]) = batch[t][1]
    BY <1>1, <1>2, TailEvents
  <2> QED BY <2>1, <2>2, <1>1, <1>4 DEF OneUser
<1> QED BY <1>2, <1>3, <1>4, <1>5, <1>6, <1>7

\* The token: who hands over next, or a wake that is under way.
LEMMA ReapUserTokens ==
  ASSUME KInv, NEW t \in Evps, ReapUser(t)
  PROVE  LET w == WakeOf(t)  o == Opposite(WakeOf(t)) IN
         /\ WakeTokens' /\ (Head(batch[t]).data = "TAKE" => ctcs[Handed(o)] = <<>>)
<1> DEFINE w == WakeOf(t)
           o == Opposite(WakeOf(t))
           data == Head(batch[t]).data
<1>1. Filter(t) = "USER" /\ batch' = [batch EXCEPT ![t] = Tail(@)]
  BY DEF ReapUser
<1>2. /\ OneUser' /\ data \in {"INCR", "TAKE"} /\ Seen(w, data)
      /\ \A x : ~Seen(w, x)' /\ (Seen(o, x)' => Seen(o, x))
  BY <1>1, UserSeen
<1>3. /\ w \in Wakes /\ o \in Wakes /\ o # w /\ Opposite(o) = w /\ Opposite(w) = o
      /\ \A v \in Wakes : v = w \/ v = o
      /\ Handed(w) \in Lists /\ Handed(o) \in Lists /\ Filling(o) \in Lists
      /\ Handed(o) # Handed(w) /\ Handed(w) # Filling(o) /\ Handed(o) # Filling(o)
  BY Names
<1>4. TokenOf(w) /\ TokenOf(o)
  BY <1>3 DEF KInv, WakeTokens
<1>5. /\ ctcs \in [Lists -> Seq(Calls)] /\ asks \in [Wakes -> BOOLEAN]
      /\ wake \in [Wakes -> {"none", "INCR", "TAKE"}]
  BY DEF KInv, CallType
<1>6. CASE data = "TAKE"
  <2>1. /\ ctcs' = [ctcs EXCEPT ![Handed(o)] = ctcs[Filling(o)], ![Filling(o)] = <<>>]
        /\ \/ wake' = [wake EXCEPT ![o] = "INCR"] /\ asks' = asks
           \/ ctcs[Filling(o)] = <<>> /\ asks' = [asks EXCEPT ![o] = TRUE] /\ wake' = wake
    BY <1>6 DEF ReapUser, Trigger
  <2>2. /\ ~asks[o] /\ wake[o] # "INCR" /\ ~Seen(o, "INCR") /\ wake[w] # "TAKE"
        /\ ctcs[Handed(o)] = <<>>
    BY <1>2, <1>3, <1>4, <1>6 DEF TokenOf
  <2>3. ctcs'[Handed(w)] = ctcs[Handed(w)] /\ ctcs'[Handed(o)] = ctcs[Filling(o)]
    BY <2>1, <1>3, <1>5
  <2> HIDE DEF w, o, data
  <2>4. TokenOf(w)'
    BY <2>1, <2>2, <2>3, <1>2, <1>3, <1>4, <1>5 DEF TokenOf
  <2>5. TokenOf(o)'
    BY <2>1, <2>2, <2>3, <1>2, <1>3, <1>4, <1>5 DEF TokenOf
  <2> QED BY <2>2, <2>4, <2>5, <1>2, <1>3 DEF WakeTokens, w, o
<1>7. CASE data = "INCR"
  <2>1. /\ ctcs' = [ctcs EXCEPT ![Handed(w)] = <<>>] /\ wake' = [wake EXCEPT ![o] = "TAKE"]
        /\ asks' = asks
    BY <1>7 DEF ReapUser, Trigger
  <2>2. ~asks[w] /\ wake[w] # "INCR" /\ wake[o] # "TAKE" /\ ~Seen(o, "TAKE")
    BY <1>2, <1>3, <1>4, <1>7 DEF TokenOf
  <2>3. ctcs'[Handed(w)] = <<>> /\ ctcs'[Handed(o)] = ctcs[Handed(o)]
    BY <2>1, <1>3, <1>5
  <2> HIDE DEF w, o, data
  <2>4. TokenOf(w)'
    BY <2>1, <2>2, <2>3, <1>2, <1>3, <1>4, <1>5 DEF TokenOf
  <2>5. TokenOf(o)'
    BY <2>1, <2>2, <2>3, <1>2, <1>3, <1>4, <1>5 DEF TokenOf
  <2>6. WakeTokens'
    BY <2>4, <2>5, <1>2, <1>3 DEF WakeTokens
  <2> QED BY <2>6, <1>7 DEF data
<1> QED BY <1>2, <1>6, <1>7

\* A wake is reaped: TAKE hands over what was filled meanwhile, INCR takes
\* what was handed over. Either way a list is written that is empty.
LEMMA ReapUserKeeps ==
  ASSUME KInv, NEW t \in Evps, ReapUser(t)
  PROVE  LoopType' /\ CallType' /\ WakeTokens' /\ Whereabouts'
<1> DEFINE w == WakeOf(t)
           o == Opposite(WakeOf(t))
           data == Head(batch[t]).data
<1>1. /\ Filter(t) = "USER" /\ batch' = [batch EXCEPT ![t] = Tail(@)]
      /\ phase' = [phase EXCEPT ![t] = "pop"]
      /\ UNCHANGED <<ctc, limit, waking, quota, ready, el, kt, sock, closed>>
  BY DEF ReapUser, kernelVars, Goes
<1>2. batch' \in [Evps -> Seq(Events)] /\ data \in {"INCR", "TAKE"}
  BY <1>1, UserSeen
<1>3. LoopType'
  BY <1>1, <1>2, Typed DEF LoopType
<1>4. WakeTokens' /\ (data = "TAKE" => ctcs[Handed(o)] = <<>>)
  BY ReapUserTokens
<1>5. /\ w \in Wakes /\ o \in Wakes /\ Handed(w) \in Lists /\ Handed(o) \in Lists
      /\ Filling(o) \in Lists /\ Handed(o) # Filling(o) /\ Handed(w) # Spot(t)
      /\ (Handed(o) \in Inward => Filling(o) \in Inward) /\ Spot(t) \in Places
      /\ (Spot(t) \in Inward => Handed(w) \in Inward) /\ Lists \subseteq Places
  <2>1. /\ \A v \in Wakes : Handed(v) # "master" /\ Handed(v) # "worker"
        /\ Lists \subseteq Places /\ Spot(t) \in Places
    BY DEF Wakes, Handed, Spot, Places
  <2> QED BY <2>1, Names DEF Spot
<1>6. /\ ctcs \in [Lists -> Seq(Calls)] /\ asks \in [Wakes -> BOOLEAN]
      /\ wake \in [Wakes -> {"none", "INCR", "TAKE"}] /\ taken \in [Evps -> Seq(Calls)]
      /\ el \in [Eles -> Elem] /\ ctc \in [Calls -> Call0] /\ Started
  BY DEF KInv, CallType
<1>s. Started'
  BY <1>1, <1>6 DEF Started
<1>7. CASE data = "TAKE"
  <2>1. /\ ctcs' = [ctcs EXCEPT ![Handed(o)] = ctcs[Filling(o)], ![Filling(o)] = <<>>]
        /\ \/ wake' = [wake EXCEPT ![o] = "INCR"] /\ asks' = asks
           \/ asks' = [asks EXCEPT ![o] = TRUE] /\ wake' = wake
        /\ taken' = taken
    BY <1>7 DEF ReapUser, Trigger
  <2> HIDE DEF w, o, data
  <2>2. /\ ctcs' \in [Lists -> Seq(Calls)] /\ ctcs'[Handed(o)] = ctcs[Filling(o)]
        /\ ctcs'[Filling(o)] = <<>>
        /\ \A l \in Lists : l # Handed(o) /\ l # Filling(o) => ctcs'[l] = ctcs[l]
        /\ taken' \in [Evps -> Seq(Calls)]
    <3> DEFINE h == Handed(o)
               g == Filling(o)
    <3>1. ctcs[g] \in Seq(Calls) /\ <<>> \in Seq(Calls) /\ h \in Lists /\ g \in Lists /\ h # g
      BY <1>5, <1>6
    <3>2. ctcs' = [ctcs EXCEPT ![h] = ctcs[g], ![g] = <<>>]
      BY <2>1
    <3> HIDE DEF h, g
    <3>3. /\ ctcs' \in [Lists -> Seq(Calls)] /\ ctcs'[h] = ctcs[g] /\ ctcs'[g] = <<>>
          /\ \A l \in Lists : l # h /\ l # g => ctcs'[l] = ctcs[l]
      BY <3>1, <3>2, <1>6
    <3> QED BY <3>3, <2>1, <1>6 DEF h, g
  <2>3. CallType'
    BY <2>1, <2>2, <1>1, <1>5, <1>6, <1>s DEF CallType
  <2>4. Moves(Lines, Lines', Filling(o), Handed(o))
    <3>0. ctcs' \in [Lists -> Seq(Calls)] /\ taken' \in [Evps -> Seq(Calls)]
      BY <2>2
    <3>1. /\ Lines' \in LinesType /\ \A l \in Lists : Lines'[l] = ctcs'[l]
          /\ \A u \in Evps : Lines'[Spot(u)] = taken'[u]
      BY <3>0, LinesFacts DEF Lines
    <3>2. Lines'[Handed(o)] = Lines[Handed(o)] \o Lines[Filling(o)]
      <4>1. /\ Lines[Handed(o)] = <<>> /\ Lines[Filling(o)] = ctcs[Filling(o)]
            /\ ctcs[Filling(o)] \in Seq(Calls)
        BY <1>4, <1>5, <1>6, <1>7, LinesTyped
      <4> QED BY <4>1, <3>1, <2>2, <1>5
    <3>3. \A p \in Places : p \in Lists \/ p = Spot(0) \/ p = Spot(1)
      BY DEF Places, Spot
    <3>4. \A p \in Places : p # Filling(o) /\ p # Handed(o) => Lines'[p] = Lines[p]
      BY <3>1, <3>3, <2>1, <2>2, LinesTyped DEF Evps
    <3> QED BY <3>1, <3>2, <3>4, <2>2, <1>5 DEF Moves
  <2>5. Whereabouts'
    BY <2>4, <1>1, <1>5, MoveKeeps
  <2> QED BY <2>3, <2>5, <1>3, <1>4
<1>8. CASE data = "INCR"
  <2>1. /\ ctcs' = [ctcs EXCEPT ![Handed(w)] = <<>>] /\ wake' = [wake EXCEPT ![o] = "TAKE"]
        /\ asks' = asks /\ taken' = [taken EXCEPT ![t] = taken[t] \o ctcs[Handed(w)]]
    BY <1>8 DEF ReapUser, Trigger
  <2> HIDE DEF w, o, data
  <2>2. /\ ctcs' \in [Lists -> Seq(Calls)] /\ ctcs'[Handed(w)] = <<>>
        /\ \A l \in Lists : l # Handed(w) => ctcs'[l] = ctcs[l]
        /\ taken' \in [Evps -> Seq(Calls)] /\ taken'[t] = taken[t] \o ctcs[Handed(w)]
        /\ \A u \in Evps : u # t => taken'[u] = taken[u]
    <3>1. taken[t] \o ctcs[Handed(w)] \in Seq(Calls)
      BY <1>5, <1>6
    <3> HIDE DEF w
    <3> QED BY <2>1, <3>1, <1>5, <1>6
  <2>3. CallType'
    BY <2>1, <2>2, <1>1, <1>5, <1>6, <1>s DEF CallType
  <2>4. Moves(Lines, Lines', Handed(w), Spot(t))
    <3>1. /\ Lines' \in LinesType /\ \A l \in Lists : Lines'[l] = ctcs'[l]
          /\ \A u \in Evps : Lines'[Spot(u)] = taken'[u]
      BY <2>2, LinesFacts DEF Lines
    <3>2. Lines'[Spot(t)] = Lines[Spot(t)] \o Lines[Handed(w)]
      BY <3>1, <2>2, <1>5, LinesTyped
    <3>3. \A p \in Places : p \in Lists \/ \E u \in Evps : p = Spot(u)
      BY DEF Places, Spot, Evps
    <3>4. \A p \in Places : p # Handed(w) /\ p # Spot(t) => Lines'[p] = Lines[p]
      <4>1. \A l \in Lists : l # Handed(w) => Lines'[l] = Lines[l]
        BY <3>1, <2>2, LinesTyped
      <4>2. \A u \in Evps : u # t => Lines'[Spot(u)] = Lines[Spot(u)]
        BY <3>1, <2>2, LinesTyped
      <4> QED BY <4>1, <4>2, <3>3
    <3> QED BY <3>1, <3>2, <3>4, <2>2, <1>5 DEF Moves
  <2>5. Whereabouts'
    BY <2>4, <1>1, <1>5, MoveKeeps
  <2> QED BY <2>3, <2>5, <1>3, <1>4
<1> QED BY <1>2, <1>7, <1>8

\* The first of the calls a thread has taken, and the queues without it.
LEMMA HeadTaken ==
  ASSUME KInv, NEW t \in Evps, taken[t] # <<>>
  PROVE  LET c == Head(taken[t])
             rest == [taken EXCEPT ![t] = Tail(@)]
             L == LinesOf(ctcs, rest) IN
         /\ c \in Calls /\ rest \in [Evps -> Seq(Calls)] /\ Without(L, c)
         /\ el[c].doing /\ ctc[c].at = -1 /\ ctc[c].stat # "INITIAL"
         /\ t = 1 /\ ctc[c].stat \in {"COMMIT", "RUNNING"} => ctc[c].to = 1
<1> DEFINE c == Head(taken[t])
           rest == [taken EXCEPT ![t] = Tail(@)]
           L == LinesOf(ctcs, rest)
<1>1. taken \in [Evps -> Seq(Calls)] /\ ctcs \in [Lists -> Seq(Calls)] /\ taken[t] \in Seq(Calls)
  BY DEF KInv, CallType
<1>2. c \in Calls /\ Tail(taken[t]) \in Seq(Calls)
  BY <1>1
<1>3. rest \in [Evps -> Seq(Calls)] /\ rest = [taken EXCEPT ![t] = Tail(taken[t])]
  BY <1>1, <1>2
<1>4. Lines \in LinesType /\ Apart(Lines) /\ Spot(t) \in Places /\ Lines[Spot(t)] = taken[t]
  BY LinesTyped
<1> HIDE DEF rest
<1>5. Sets(Lines, L, Spot(t), Tail(Lines[Spot(t)]))
  BY <1>1, <1>2, <1>3, <1>4, LinesEnter DEF Lines
<1>6. L \in LinesType
  BY <1>5 DEF Sets
<1> HIDE DEF L
<1>7. /\ Apart(L) /\ InLine(Lines, Spot(t), c)
      /\ \A q \in Places, d \in Calls : InLine(L, q, d) <=> InLine(Lines, q, d) /\ d # c
      /\ \A q \in Places : ~InLine(L, q, c)
  BY <1>4, <1>5, TailApart
<1>8. Without(L, c)
  BY <1>6, <1>7 DEF Without
<1>9. /\ el[c].doing /\ ctc[c].at = -1
      /\ Spot(t) \in Inward /\ ctc[c].stat \in {"COMMIT", "RUNNING"} => ctc[c].to = 1
  BY <1>2, <1>4, <1>7 DEF KInv, Whereabouts, Routed
<1>10. ctc[c].stat # "INITIAL"
  BY <1>2, <1>9 DEF KInv, CallType, Started
<1> QED BY <1>2, <1>3, <1>8, <1>9, <1>10, Names DEF L

\* A step that only leaves the reaping of calls, or counts an item more.
LEMMA GoesOn ==
  ASSUME KInv, NEW t \in Evps, NEW q \in {"user", "pop"}, phase' = [phase EXCEPT ![t] = q],
         limit' \in {limit, [limit EXCEPT ![t] = @ + 1]},
         UNCHANGED <<batch, waking, quota, ready, kt, sock, closed>>
  PROVE  LoopType'
<1>1. LoopType
  BY DEF KInv
<1>2. limit' \in [Evps -> Nat]
  <2>1. limit \in [Evps -> Nat] /\ limit[t] + 1 \in Nat
    BY <1>1 DEF LoopType
  <2>2. [limit EXCEPT ![t] = limit[t] + 1] \in [Evps -> Nat]
    BY <2>1
  <2> QED BY <2>1, <2>2
<1>3. phase' \in [Evps -> {"user", "pop", "tmr", "wake"}]
  BY <1>1 DEF LoopType
<1>4. /\ kt' = kt /\ sock' = sock /\ closed' = closed /\ batch' = batch /\ ready' = ready
      /\ waking' = waking /\ quota' = quota
  OBVIOUS
<1>5. \A u \in Evps : phase'[u] = "wake" => phase[u] = "wake"
  BY <1>1 DEF LoopType
<1> QED BY <1>1, <1>2, <1>3, <1>4, <1>5 DEF LoopType

\* _worker_reap_ctc and _master_reap_ctc: the call is given out, sent on or
\* sent home.
LEMMA ReapCtcKeeps ==
  ASSUME KInv, NEW t \in Evps, ReapCtc(t)
  PROVE  LoopType' /\ CallType' /\ WakeTokens' /\ Whereabouts'
<1> DEFINE c == Head(taken[t])
           s == ctc[c].stat
           rest == [taken EXCEPT ![t] = Tail(@)]
           L == LinesOf(ctcs, rest)
           here == IF s = "FINISH" THEN ctc[c].from ELSE ctc[c].to
           x == IF s = "FINISH" /\ ~el[c].detach THEN [el[c] EXCEPT !.doing = FALSE] ELSE el[c]
           st == CASE s = "COMMIT" -> "RUNNING" [] s = "CANCEL" -> "FINISH" [] OTHER -> s
           y == [ctc[c] EXCEPT !.stat = st,
                               !.at = IF s \in {"COMMIT", "RUNNING"} /\ here = t THEN t ELSE @]
           Rest == UNCHANGED <<batch, waking, quota, ready, kt, sock, closed>>
<1>1. /\ c \in Calls /\ rest \in [Evps -> Seq(Calls)] /\ Without(L, c)
      /\ el[c].doing /\ ctc[c].at = -1 /\ s # "INITIAL"
      /\ t = 1 /\ s \in {"COMMIT", "RUNNING"} => ctc[c].to = 1
  BY HeadTaken DEF ReapCtc
<1>2. /\ ctcs \in [Lists -> Seq(Calls)] /\ asks \in [Wakes -> BOOLEAN]
      /\ wake \in [Wakes -> {"none", "INCR", "TAKE"}]
      /\ Started
  BY DEF KInv, CallType
<1>3. /\ el[c] \in Elem /\ ctc[c] \in Call0 /\ el \in [Eles -> Elem] /\ ctc \in [Calls -> Call0]
      /\ c \in Eles
  BY <1>1, CtcTypes
<1>4. Rest
  BY DEF ReapCtc, kernelVars
<1>5. ctc' = [ctc EXCEPT ![c] = y]
  BY <1>3 DEF ReapCtc
<1>6. /\ s \in Stats /\ ctc[c].to \in Evps /\ st \in Stats /\ st # "INITIAL"
      /\ (st \in {"COMMIT", "RUNNING"} <=> s \in {"COMMIT", "RUNNING"})
      /\ (s \in {"COMMIT", "RUNNING"} => st = "RUNNING")
  BY <1>1, <1>3 DEF Call0, Stats
<1> HIDE DEF st
<1>7. /\ y \in Call0 /\ y.stat = st /\ y.to = ctc[c].to
      /\ y.at = IF s \in {"COMMIT", "RUNNING"} /\ here = t THEN t ELSE -1
  BY <1>1, <1>3, <1>6 DEF Call0
<1>8. x \in Elem /\ x.detach = el[c].detach /\ x.doing = ~(s = "FINISH" /\ ~el[c].detach)
  BY <1>1, <1>3 DEF Elem
<1>9. /\ \E q \in {"user", "pop"} : phase' = [phase EXCEPT ![t] = q]
      /\ limit' \in {limit, [limit EXCEPT ![t] = @ + 1]}
  BY DEF ReapCtc, Goes
<1>10. LoopType'
  BY <1>4, <1>9, GoesOn
<1> DEFINE Canceled == /\ s = "CANCEL"
                       /\ IF el[c].detach THEN taken' = rest /\ UNCHANGED <<ctcs, asks, wake>>
                          ELSE IF ctc[c].from = t
                          THEN taken' = [rest EXCEPT ![t] = Append(@, c)]
                               /\ UNCHANGED <<ctcs, asks, wake>>
                          ELSE PushCtc(WakeOf(ctc[c].from), c) /\ taken' = rest
           Passed == s # "CANCEL" /\ t = 0 /\ here # 0 /\ PushCtc("accept", c) /\ taken' = rest
           Taken == /\ s # "CANCEL" /\ ~(t = 0 /\ here # 0) /\ taken' = rest
                    /\ UNCHANGED <<ctcs, asks, wake>>
<1>11. \/ (Canceled \/ Passed) /\ el' = el
       \/ Taken /\ el' = [el EXCEPT ![c] = x]
  BY <1>3 DEF ReapCtc
<1> HIDE DEF c, s, rest, here, x, y
<1>12. /\ ctc' \in [Calls -> Call0] /\ ctc'[c] = y /\ \A d \in Calls : d # c => ctc'[d] = ctc[d]
  BY <1>1, <1>3, <1>5, <1>7
<1>s. (\A d \in Calls : el'[d].doing => d = c \/ el[d].doing) => Started'
  BY <1>2, <1>6, <1>7, <1>12 DEF Started
<1>13. ASSUME NEW p \in Places, Sets(L, Lines', p, Append(L[p], c)), el' = el,
              ~(s \in {"COMMIT", "RUNNING"} /\ here = t),
              p \in Inward /\ st \in {"COMMIT", "RUNNING"} => ctc[c].to = 1
       PROVE  Whereabouts'
  <2>1. Alone(c) /\ el'[c].doing /\ ctc'[c].at = -1
    BY <1>1, <1>7, <1>12, <1>13 DEF Alone
  <2>2. p \in Inward /\ ctc'[c].stat \in {"COMMIT", "RUNNING"} => ctc'[c].to = 1
    BY <1>7, <1>12, <1>13
  <2> HIDE DEF L
  <2> QED BY <2>1, <2>2, <1>1, <1>13, PutDown
<1>14. ASSUME NEW w \in Wakes, PushCtc(w, c), taken' = rest, el' = el,
              ~(s \in {"COMMIT", "RUNNING"} /\ here = t),
              st \in {"COMMIT", "RUNNING"} => ctc[c].to = 1
       PROVE  CallType' /\ WakeTokens' /\ Whereabouts'
  <2>1. /\ ctcs' \in [Lists -> Seq(Calls)] /\ asks' \in [Wakes -> BOOLEAN]
        /\ wake' \in [Wakes -> {"none", "INCR", "TAKE"}]
        /\ \E p \in Places : /\ p \in Inward <=> w = "accept"
                             /\ \A en \in [Evps -> Seq(Calls)] :
                                  Sets(LinesOf(ctcs, en), LinesOf(ctcs', en), p,
                                       Append(LinesOf(ctcs, en)[p], c))
    BY <1>1, <1>14, PushLines DEF KInv
  <2>2. PICK p \in Places : Sets(L, LinesOf(ctcs', rest), p, Append(L[p], c))
    BY <2>1, <1>1
  <2>3. Sets(L, Lines', p, Append(L[p], c))
    BY <2>2, <1>14 DEF Lines
  <2>4. Whereabouts'
    BY <2>3, <1>13, <1>14
  <2>5. CallType'
    BY <2>1, <1>1, <1>2, <1>3, <1>7, <1>12, <1>14, <1>s DEF CallType
  <2>6. WakeTokens'
    BY <1>1, <1>4, <1>14, PushTokens DEF KInv
  <2> QED BY <2>4, <2>5, <2>6
<1>15. CASE Canceled /\ el' = el
  <2>1. s = "CANCEL" /\ st = "FINISH"
    BY <1>15 DEF st
  <2>2. CASE el[c].detach
    <3>1. taken' = rest /\ UNCHANGED <<ctcs, asks, wake>>
      BY <1>15, <2>2
    <3>2. Lines' = L
      BY <3>1 DEF Lines
    <3>3. CallType'
      BY <3>1, <1>1, <1>2, <1>3, <1>7, <1>12, <1>15, <1>s DEF CallType
    <3>4. ctc'[c].at = -1 /\ Alone(c) /\ el'[c].detach
      BY <2>1, <2>2, <1>7, <1>12, <1>15 DEF Alone
    <3>5. Whereabouts'
      BY <3>2, <3>4, <1>1, TakeUp
    <3> QED BY <3>1, <3>3, <3>5, <1>4, <1>10, PopTokens
  <2>3. CASE ~el[c].detach /\ ctc[c].from = t
    <3>1. taken' = [rest EXCEPT ![t] = Append(rest[t], c)] /\ UNCHANGED <<ctcs, asks, wake>>
      BY <1>15, <2>3
    <3>2. Append(rest[t], c) \in Seq(Calls) /\ taken' \in [Evps -> Seq(Calls)]
      BY <3>1, <1>1
    <3>3. CallType'
      BY <3>1, <3>2, <1>1, <1>2, <1>3, <1>7, <1>12, <1>15, <1>s DEF CallType
    <3>4. L[Spot(t)] = rest[t] /\ Spot(t) \in Places
      BY <1>1, <1>2, LinesFacts
    <3>5. Sets(L, LinesOf(ctcs, taken'), Spot(t), Append(rest[t], c))
      BY <3>1, <3>2, <1>1, <1>2, LinesEnter
    <3>6. Sets(L, Lines', Spot(t), Append(L[Spot(t)], c))
      BY <3>1, <3>4, <3>5 DEF Lines
    <3>7. Whereabouts'
      BY <2>1, <3>4, <3>6, <1>13, <1>15
    <3> QED BY <3>1, <3>3, <3>7, <1>4, <1>10, PopTokens
  <2>4. CASE ~el[c].detach /\ ctc[c].from # t
    <3>1. PushCtc(WakeOf(ctc[c].from), c) /\ taken' = rest
      BY <1>15, <2>4
    <3>2. WakeOf(ctc[c].from) \in Wakes
      BY DEF WakeOf, Wakes
    <3>3. CallType' /\ WakeTokens' /\ Whereabouts'
      BY <2>1, <3>1, <3>2, <1>14, <1>15
    <3> QED BY <3>3, <1>10
  <2> QED BY <2>2, <2>3, <2>4
<1>16. CASE Passed /\ el' = el
  <2>1. /\ ~(s \in {"COMMIT", "RUNNING"} /\ here = t)
        /\ st \in {"COMMIT", "RUNNING"} => ctc[c].to = 1
    BY <1>6, <1>16 DEF here, Evps
  <2>2. "accept" \in Wakes
    BY DEF Wakes
  <2>3. CallType' /\ WakeTokens' /\ Whereabouts'
    BY <2>1, <2>2, <1>14, <1>16
  <2> QED BY <2>3, <1>10
<1>17. CASE Taken /\ el' = [el EXCEPT ![c] = x]
  <2>1. /\ el' \in [Eles -> Elem] /\ el'[c] = x /\ \A d \in Calls : d # c => el'[d] = el[d]
    BY <1>3, <1>8, <1>17, Typed
  <2>2. taken' = rest /\ UNCHANGED <<ctcs, asks, wake>>
    BY <1>17
  <2>3. CallType'
    BY <2>1, <2>2, <1>1, <1>2, <1>7, <1>12, <1>s DEF CallType
  <2>4. Lines' = L /\ Alone(c)
    BY <2>1, <2>2, <1>12 DEF Lines, Alone
  <2>5. s \in {"COMMIT", "RUNNING", "FINISH"}
    BY <1>1, <1>6, <1>17 DEF Stats
  <2>6. s \in {"COMMIT", "RUNNING"} => here = t
    BY <1>1, <1>6, <1>17 DEF here, Evps
  <2>7. ctc'[c].at # -1 => el'[c].doing /\ ctc'[c].stat = "RUNNING"
    BY <2>1, <1>6, <1>7, <1>8, <1>12
  <2>8. el'[c].doing /\ ~el'[c].detach => ctc'[c].at # -1
    <3>1. CASE s = "FINISH"
      BY <2>1, <3>1, <1>8
    <3>2. CASE s \in {"COMMIT", "RUNNING"}
      BY <2>6, <3>2, <1>7, <1>12 DEF Evps
    <3> QED BY <2>5, <3>1, <3>2
  <2>9. Whereabouts'
    <3> HIDE DEF L
    <3> QED BY <2>4, <2>7, <2>8, <1>1, TakeUp
  <2> QED BY <2>2, <2>3, <2>9, <1>4, <1>10, PopTokens
<1> QED BY <1>11, <1>15, <1>16, <1>17

\* The image of a finite set is finite.
LEMMA ImageFinite ==
  ASSUME NEW S, IsFiniteSet(S), NEW f, f = [x \in S |-> f[x]]
  PROVE  IsFiniteSet({f[x] : x \in S})
<1>1. f \in Surjection(S, {f[x] : x \in S})
  BY DEF Surjection
<1> QED BY <1>1, FS_Surjection

\* kevent() has finitely many events to report, so there is an order of them.
LEMMA DueFinite ==
  ASSUME KInv, NEW t \in Evps
  PROVE  IsFiniteSet(Due(t)) /\ Cardinality(Due(t)) \in Nat
<1> DEFINE T == {x \in Timed : Home[x] = t /\ kt[x] = "due"}
           F == {x \in Efds : Home[x] = t /\ (sock[x] > 0 \/ closed[x])}
           W == {x \in {WakeOf(t)} : wake[x] # "none"}
<1>1. IsFiniteSet(T) /\ IsFiniteSet(F) /\ IsFiniteSet(W)
  <2>1. /\ IsFiniteSet(Timed) /\ T \subseteq Timed /\ F \subseteq Timed
        /\ W \subseteq {WakeOf(t)}
    BY Typed DEF KqueueConsts, Timed
  <2> HIDE DEF T, F, W
  <2> QED BY <2>1, FS_Subset, FS_Singleton
<1>2. /\ IsFiniteSet({Event("TIMER", e) : e \in T}) /\ IsFiniteSet({Event("READ", f) : f \in F})
      /\ IsFiniteSet({Event("USER", WakeOf(t)) : w \in W})
  <2> HIDE DEF T, F, W
  <2> DEFINE a == [e \in T |-> Event("TIMER", e)]
             b == [f \in F |-> Event("READ", f)]
             c == [w \in W |-> Event("USER", WakeOf(t))]
  <2>1. /\ {Event("TIMER", e) : e \in T} = {a[e] : e \in T}
        /\ {Event("READ", f) : f \in F} = {b[f] : f \in F}
        /\ {Event("USER", WakeOf(t)) : w \in W} = {c[w] : w \in W}
    OBVIOUS
  <2>2. a = [e \in T |-> a[e]] /\ b = [e \in F |-> b[e]] /\ c = [e \in W |-> c[e]]
    OBVIOUS
  <2> HIDE DEF a, b, c
  <2>3. /\ IsFiniteSet({a[e] : e \in T}) /\ IsFiniteSet({b[f] : f \in F})
        /\ IsFiniteSet({c[w] : w \in W})
    BY <1>1, <2>2, ImageFinite
  <2> QED BY <2>1, <2>3
<1>3. Due(t) = {Event("TIMER", e) : e \in T} \cup {Event("READ", f) : f \in F}
               \cup {Event("USER", WakeOf(t)) : w \in W}
  BY DEF Due
<1> DEFINE A == {Event("TIMER", e) : e \in T}
           B == {Event("READ", f) : f \in F}
           C == {Event("USER", WakeOf(t)) : w \in W}
<1> HIDE DEF A, B, C
<1>4. IsFiniteSet(A) /\ IsFiniteSet(B) /\ IsFiniteSet(C) /\ Due(t) = A \cup B \cup C
  BY <1>2, <1>3 DEF A, B, C
<1>5. IsFiniteSet(Due(t))
  BY <1>4, FS_Union
<1> QED BY <1>5, FS_CardinalityType

\* The kinds of events kevent() reports.
LEMMA DueKinds ==
  ASSUME KInv, NEW t \in Evps, NEW k \in Due(t)
  PROVE  /\ \/ k.filter = "TIMER" /\ k.who \in Timed
            \/ k.filter = "READ" /\ k.who \in Efds
            \/ k.filter = "USER" /\ k = Event("USER", WakeOf(t)) /\ k.who = WakeOf(t)
                 /\ wake[WakeOf(t)] # "none"
         /\ Reported(k) \in Events /\ Reported(k).filter = k.filter
         /\ k.filter = "USER" => Reported(k).data = wake[WakeOf(t)]
<1>1. \/ k.filter = "TIMER" /\ k.who \in Timed
      \/ k.filter = "READ" /\ k.who \in Efds
      \/ k.filter = "USER" /\ k = Event("USER", WakeOf(t)) /\ k.who = WakeOf(t)
           /\ wake[WakeOf(t)] # "none"
  BY DEF Due, Event
<1>2. /\ sock \in [Efds -> Nat] /\ closed \in [Efds -> BOOLEAN] /\ WakeOf(t) \in Wakes
      /\ wake \in [Wakes -> {"none", "INCR", "TAKE"}]
  BY Typed, Names DEF LoopType, CallType
<1>3. CASE k.filter = "TIMER" /\ k.who \in Timed
  BY <1>3 DEF Reported, Events, TimerEvents
<1>4. CASE k.filter = "READ" /\ k.who \in Efds
  BY <1>2, <1>4 DEF Reported, Events, ReadEvents
<1>5. CASE /\ k.filter = "USER" /\ k = Event("USER", WakeOf(t)) /\ k.who = WakeOf(t)
           /\ wake[WakeOf(t)] # "none"
  BY <1>2, <1>5 DEF Reported, Events, UserEvents
<1> QED BY <1>1, <1>3, <1>4, <1>5

\* kevent(): every event is reported once, and a wake moves from the kernel
\* to the batch.
LEMMA KeventKeeps ==
  ASSUME KInv, NEW t \in Evps, Kevent(t)
  PROVE  LoopType' /\ CallType' /\ WakeTokens' /\ Whereabouts'
<1> DEFINE w == WakeOf(t)
           o == Opposite(WakeOf(t))
           n == Cardinality(Due(t))
<1>1. PICK s \in SetToSeqs(Due(t)) :
        batch' = [batch EXCEPT ![t] = [i \in DOMAIN s |-> Reported(s[i])]]
  BY DEF Kevent
<1>2. /\ n \in Nat /\ s \in [1 .. n -> Due(t)]
      /\ \A i, j \in 1 .. n : i # j => s[i] # s[j]
  BY DueFinite DEF SetToSeqs
<1> DEFINE b == [i \in 1 .. n |-> Reported(s[i])]
<1>3. batch' = [batch EXCEPT ![t] = b] /\ batch \in [Evps -> Seq(Events)]
  BY <1>1, <1>2, Typed DEF LoopType
<1>4. /\ wake' = [wake EXCEPT ![w] = "none"] /\ phase' = [phase EXCEPT ![t] = "user"]
      /\ limit' = [limit EXCEPT ![t] = 0]
      /\ kt' = [e \in Timed |-> IF Event("TIMER", e) \in Due(t) THEN "off" ELSE kt[e]]
      /\ UNCHANGED <<sock, closed, ready, taken, waking, quota, el, ctc, ctcs, asks>>
  BY DEF Kevent, Goes
<1> HIDE DEF n
<1>5. /\ b \in Seq(Events) /\ DOMAIN b = 1 .. n
      /\ \A i \in 1 .. n : b[i].filter = "USER" =>
           s[i] = Event("USER", w) /\ b[i].data = wake[w]
  <2>1. \A i \in 1 .. n : /\ Reported(s[i]) \in Events
                          /\ Reported(s[i]).filter = "USER" =>
                               s[i] = Event("USER", w) /\ Reported(s[i]).data = wake[w]
    BY <1>2, DueKinds
  <2>2. b \in [1 .. n -> Events]
    BY <2>1
  <2> QED BY <1>2, <2>1, <2>2
<1> HIDE DEF b
<1>6. /\ batch' \in [Evps -> Seq(Events)] /\ batch'[t] = b
      /\ \A u \in Evps : u # t => batch'[u] = batch[u]
  BY <1>3, <1>5
<1>7. LoopType'
  <2>1. kt' \in [Timed -> {"off", "armed", "due"}]
    BY <1>4, Typed DEF LoopType
  <2> QED BY <2>1, <1>4, <1>6, Typed DEF LoopType
<1>8. /\ w \in Wakes /\ o \in Wakes /\ o # w /\ Opposite(o) = w /\ Opposite(w) = o
      /\ \A v \in Wakes : v = w \/ v = o
      /\ Reader(w) = t /\ Reader(o) # t /\ Reader(o) \in Evps
  BY Names
<1>9. wake' \in [Wakes -> {"none", "INCR", "TAKE"}] /\ wake'[w] = "none" /\ wake'[o] = wake[o]
  BY <1>4, <1>8, Typed DEF CallType
<1>10. CallType'
  BY <1>4, <1>9, Typed, StartedStays DEF CallType
<1>11. OneUser'
  <2> SUFFICES ASSUME NEW u \in Evps, NEW i \in DOMAIN batch'[u], NEW j \in DOMAIN batch'[u],
                      batch'[u][i].filter = "USER", batch'[u][j].filter = "USER"
               PROVE  i = j
    BY DEF OneUser
  <2>1. CASE u = t
    BY <2>1, <1>2, <1>5, <1>6
  <2>2. CASE u # t
    BY <2>2, <1>6 DEF KInv, WakeTokens, OneUser
  <2> QED BY <2>1, <2>2
<1>12. \A x : /\ Seen(w, x)' => wake[w] = x
              /\ Seen(o, x)' <=> Seen(o, x)
  BY <1>5, <1>6, <1>8 DEF Seen
<1>13. TokenOf(w) /\ TokenOf(o)
  BY <1>8 DEF KInv, WakeTokens
<1> HIDE DEF w, o
<1>14. TokenOf(w)'
  BY <1>4, <1>8, <1>9, <1>12, <1>13 DEF TokenOf
<1>15. TokenOf(o)'
  BY <1>4, <1>8, <1>9, <1>12, <1>13 DEF TokenOf
<1>16. WakeTokens'
  BY <1>8, <1>11, <1>14, <1>15 DEF WakeTokens
<1>17. Whereabouts'
  BY <1>4, StayKeeps
<1> QED BY <1>7, <1>10, <1>16, <1>17

-----------------------------------------------------------------------------
(* The invariant. *)

\* The steps that leave the calls alone keep the invariant.
LEMMA UntouchedInv ==
  ASSUME KInv, LoopType' /\ CallType' /\ Untouched
  PROVE  KInv'
BY UntouchedKeeps DEF KInv, KqueueConsts

\* Calls of the owners of timers and descriptors, and the peers.
LEMMA IoInv == ASSUME KInv, Io PROVE KInv'
<1>1. ASSUME NEW e \in Tmrs, AddTmr(e) PROVE KInv'
  BY <1>1, AddTmrKeeps, UntouchedInv
<1>2. ASSUME NEW f \in Efds, NEW len \in Lens, NEW timed \in BOOLEAN, AddRead(f, len, timed)
      PROVE KInv'
  BY <1>2, AddReadKeeps, UntouchedInv
<1>3. ASSUME NEW f \in Efds, PeerSends(f) \/ PeerCloses(f) PROVE KInv'
  BY <1>3, PeerKeeps, UntouchedInv
<1>4. ASSUME NEW e \in Timed, End(e) PROVE KInv'
  BY <1>4, EndKeeps, UntouchedInv
<1>5. ASSUME NEW e \in Timed, NEW d \in BOOLEAN, SetDetach(e, d) PROVE KInv'
  BY <1>5, DetachKeeps, UntouchedInv
<1> QED BY <1>1, <1>2, <1>3, <1>4, <1>5 DEF Io

\* Calls of the owners and runners of calls.
LEMMA CallInv == ASSUME KInv, Call PROVE KInv'
<1>0. KqueueConsts'
  BY DEF KInv, KqueueConsts
<1>1. ASSUME NEW t \in Evps, NEW n \in Evps, NEW c \in Calls, Submit(t, c, n) PROVE KInv'
  BY <1>0, <1>1, SubmitKeeps DEF KInv
<1>2. ASSUME NEW t \in Evps, NEW n \in Evps, NEW c \in Calls, Reto(t, c, n) PROVE KInv'
  BY <1>0, <1>2, RetoKeeps DEF KInv
<1>3. ASSUME NEW t \in Evps, NEW c \in Calls, CancelCtc(t, c) PROVE KInv'
  BY <1>0, <1>3, CancelKeeps DEF KInv
<1>4. ASSUME NEW t \in Evps, NEW c \in Calls, EndCtc(t, c) PROVE KInv'
  BY <1>0, <1>4, EndCtcKeeps DEF KInv
<1>5. ASSUME NEW c \in Calls, NEW d \in BOOLEAN, SetDetach(c, d) PROVE KInv'
  BY <1>0, <1>5, DetachCtcKeeps DEF KInv
<1> QED BY <1>1, <1>2, <1>3, <1>4, <1>5 DEF Call

\* The steps of dpevp_pop.
LEMMA LoopInv == ASSUME KInv, Loop PROVE KInv'
<1>0. KqueueConsts' /\ 0 \in Evps /\ 1 \in Evps
  BY DEF KInv, KqueueConsts, Evps
<1>1. ASSUME NEW t \in Evps, ReapUser(t) PROVE KInv'
  BY <1>0, <1>1, ReapUserKeeps DEF KInv
<1>2. ASSUME NEW t \in Evps, ReapRead(t) PROVE KInv'
  BY <1>2, ReapReadKeeps, UntouchedInv
<1>3. ASSUME NEW t \in Evps, ReapCtc(t) PROVE KInv'
  BY <1>0, <1>3, ReapCtcKeeps DEF KInv
<1>4. ASSUME NEW t \in Evps, Wake(t) PROVE KInv'
  BY <1>4, WakeKeeps, UntouchedInv
<1>5. ASSUME NEW t \in Evps, ReapReady(t) PROVE KInv'
  BY <1>5, ReapReadyKeeps, UntouchedInv
<1>6. ASSUME NEW t \in Evps, ReapTmr(t) PROVE KInv'
  BY <1>6, ReapTmrKeeps, UntouchedInv
<1>7. ASSUME NEW t \in Evps, Kevent(t) PROVE KInv'
  BY <1>0, <1>7, KeventKeeps DEF KInv
<1> QED BY <1>0, <1>1, <1>2, <1>3, <1>4, <1>5, <1>6, <1>7
        DEF Loop, WorkerReapEfd, MasterReapEfd, WorkerReapCtc, MasterReapCtc

\* Every step of the two threads, their users and the kernel keeps the
\* invariant.
LEMMA KStep == KInv /\ [KqNext]_kqVars => KInv'
<1> SUFFICES ASSUME KInv, [KqNext]_kqVars PROVE KInv'
  OBVIOUS
<1>1. ASSUME NEW e \in Timed, Expire(e) PROVE KInv'
  BY <1>1, ExpireKeeps, UntouchedInv
<1>2. CASE UNCHANGED kqVars
  <2>1. /\ UNCHANGED <<kt, sock, closed, wake, batch, ready, taken, limit, phase, waking, quota>>
        /\ UNCHANGED <<el, ctc, ctcs, asks>>
    BY <1>2 DEF kqVars
  <2>2. LoopType' /\ CallType' /\ Untouched
    BY <2>1, Typed, StartedStays DEF LoopType, CallType, Untouched, callVars, Shrinks
  <2> QED BY <2>2, UntouchedInv
<1> QED BY <1>1, <1>2, IoInv, CallInv, LoopInv DEF KqNext

\* It holds at the start.
LEMMA KInit == ASSUME KqInit PROVE KInv
<1>0. KqueueConsts
  BY KqueueAssumption DEF KqueueConsts, Timed, Evps
<1>1. LoopType
  BY DEF KqInit, LoopType, Evps
<1>2. CallType
  <2>1. [doing |-> FALSE, ret |-> 0, timing |-> FALSE, timed |-> FALSE, detach |-> FALSE,
         able |-> {}, want |-> {}, len |-> 0] \in Elem
    BY DEF Elem
  <2>2. [stat |-> "INITIAL", from |-> 0, to |-> 0, reto |-> FALSE, at |-> -1] \in Call0
    BY DEF Call0, Stats, Evps
  <2>3. el \in [Eles -> Elem] /\ ctc \in [Calls -> Call0] /\ Started
    BY <2>1, <2>2 DEF KqInit, Started, Eles
  <2> QED BY <2>3 DEF KqInit, CallType, Lists, Wakes
<1>3. WakeTokens
  <2>1. \A w \in Wakes : \A x : ~Seen(w, x)
    BY Names DEF KqInit, Seen
  <2> QED BY <2>1, Names DEF KqInit, WakeTokens, OneUser, TokenOf, Lists
<1>4. \A p \in Places : Lines[p] = <<>>
  BY DEF KqInit, Lines, LinesOf, Places, Lists, Evps
<1>5. Whereabouts
  BY <1>4 DEF KqInit, Whereabouts, Apart, Routed, Running, Kept, InLine, Eles
<1> QED BY <1>0, <1>1, <1>2, <1>3, <1>5 DEF KInv

\* It says that every call is in one place.
LEMMA KInvKeepsCalls == KInv => CallsKept
<1> SUFFICES ASSUME KInv, NEW c \in Calls, el[c].doing, ~el[c].detach
             PROVE  LET places == {l \in DOMAIN ctcs : InQueue(c, ctcs[l])}
                                    \cup {t \in Evps : InQueue(c, taken[t])} IN
                    IF ctc[c].at >= 0 THEN places = {} ELSE Cardinality(places) = 1
  BY DEF CallsKept
<1> DEFINE places == {l \in DOMAIN ctcs : InQueue(c, ctcs[l])}
                       \cup {t \in Evps : InQueue(c, taken[t])}
<1>1. /\ DOMAIN ctcs = Lists /\ ctc[c].at \in {-1} \cup Evps
      /\ Apart(Lines) /\ Routed(Lines) /\ Kept(Lines)
  BY DEF KInv, CallType, Call0, Whereabouts
<1>2. /\ \A l \in Lists : l \in Places /\ (InQueue(c, ctcs[l]) <=> InLine(Lines, l, c))
      /\ \A t \in Evps : /\ Spot(t) \in Places
                         /\ (InQueue(c, taken[t]) <=> InLine(Lines, Spot(t), c))
  BY LinesTyped DEF InQueue, InLine
<1>3. CASE ctc[c].at # -1
  <2>1. \A p \in Places : ~InLine(Lines, p, c)
    BY <1>1, <1>3 DEF Routed
  <2>2. places = {} /\ ctc[c].at >= 0
    BY <2>1, <1>1, <1>2, <1>3 DEF Evps
  <2> QED BY <2>2
<1>4. CASE ctc[c].at = -1
  <2>1. PICK p \in Places : InLine(Lines, p, c)
    BY <1>1, <1>4 DEF Kept
  <2>2. \A q \in Places : InLine(Lines, q, c) => q = p
    BY <2>1, <1>1 DEF Apart, InLine
  <2>3. \A l \in Lists : l \in places <=> l = p \/ l \in {t \in Evps : InQueue(c, taken[t])}
    BY <1>1, <1>2, <2>1, <2>2
  <2>4. \E e : places = {e}
    <3>1. CASE p \in Lists
      <4>1. \A l \in Lists : l # Spot(0) /\ l # Spot(1)
        BY DEF Lists, Spot
      <4>2. \A t \in Evps : ~InLine(Lines, Spot(t), c)
        BY <3>1, <4>1, <2>2, <1>2 DEF Evps
      <4>3. places = {p}
        BY <3>1, <4>2, <1>1, <1>2, <2>1, <2>2
      <4> QED BY <4>3
    <3>2. CASE p \notin Lists
      <4>1. PICK t \in Evps : p = Spot(t)
        BY <3>2 DEF Places, Spot, Evps
      <4>2. \A u \in Evps : Spot(u) = Spot(t) => u = t
        BY DEF Spot, Evps
      <4>3. places = {t}
        BY <3>2, <4>1, <4>2, <1>1, <1>2, <2>1, <2>2
      <4> QED BY <4>3
    <3> QED BY <3>1, <3>2
  <2> HIDE DEF places
  <2>5. Cardinality(places) = 1
    BY <2>4, FS_Singleton
  <2> QED BY <2>5, <1>4 DEF places
<1> QED BY <1>3, <1>4

\* A call that was submitted is in one of the four lists, in one thread's
\* queue of taken calls, or in the hands of the thread that runs it, and in
\* one of these only: no list that is handed over by a wake is lost or taken
\* twice, although a wake on kqueue overwrites the one before
\* (_worker_push_commit_ctc to _master_reap_ctc).
THEOREM CallsInOnePlace == KqSpec => []CallsKept
<1>1. KqInit => KInv
  BY KInit
<1> QED BY <1>1, KStep, KInvKeepsCalls, PTL DEF KqSpec
=============================================================================
