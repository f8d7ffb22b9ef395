----------------------------- MODULE CtcProofs -----------------------------
(***************************************************************************)
(* Proofs about Ctc for any number of threads, calls, rounds and forwards. *)
(***************************************************************************)
EXTENDS Ctc, TLAPS

-----------------------------------------------------------------------------
(* The inductive invariant. *)

\* c is an entry of s; s has no entry twice.
In(s, c) == \E i \in DOMAIN s : s[i] = c
Distinct(s) == \A i, j \in DOMAIN s : s[i] = s[j] => i = j

\* t turns c over in its reap loop.
Reaps(t, c) == pc[t] = "reap" /\ cur[t] = c

\* No element is in two places: in the hands of a thread, or at one position of
\* one queue (the links are in the element).
HeldOnce ==
  \A c \in Ctcs, t \in Threads : c \in held[t] =>
    /\ \A u \in Threads : c \in held[u] => u = t
    /\ \A u \in Threads : ~In(enter[u], c)
    /\ \A w \in Workers, d \in Chan!Dirs : ~In(fifo[w][d], c)

EnterOnce ==
  \A t \in Threads :
    /\ Distinct(enter[t])
    /\ \A c \in Ctcs : In(enter[t], c) =>
         /\ \A u \in Threads : In(enter[u], c) => u = t
         /\ \A w \in Workers, d \in Chan!Dirs : ~In(fifo[w][d], c)

FifoOnce ==
  \A w \in Workers, d \in Chan!Dirs :
    /\ Distinct(fifo[w][d])
    /\ \A c \in Ctcs, v \in Workers, e \in Chan!Dirs :
         In(fifo[w][d], c) /\ In(fifo[v][e], c) => v = w /\ e = d

OnePlace == HeldOnce /\ EnterOnce /\ FifoOnce

\* A thread has what it turns over in hand.
ReapedInHand == \A t \in Threads : pc[t] = "reap" => cur[t] \in held[t]

\* Where a dpctc_submit call is, by its state.
Idle(c) ==
  ctc[c].alive /\ ~Doing(c) =>
    /\ c \in held[ctc[c].from] /\ \A t \in Threads : ~Reaps(t, c)
    /\ ctc[c].stat \in {"INITIAL", "FINISH"}

Gone(c) ==
  ~ctc[c].alive =>
    /\ obs[c].runner = None /\ \A t \in Threads : ~Reaps(t, c)
    /\ \A t \in Threads : ~In(enter[t], c)
    /\ \A w \in Workers, d \in Chan!Dirs : ~In(fifo[w][d], c)

Served(c) ==
  obs[c].runner # None =>
    /\ ctc[c].stat = "RUNNING" /\ ctc[c].asc = "submit" /\ ctc[c].alive
    /\ c \in held[obs[c].runner] /\ \A t \in Threads : ~Reaps(t, c)

\* A finished call moves towards its originator, one the master has forwarded
\* away from the master.
OnItsWay(c) ==
  /\ \A w \in Workers :
       /\ ctc[c].stat = "FINISH"
       /\ In(fifo[w]["accept"], c) \/ In(enter[w], c) \/ Reaps(w, c)
       => w = ctc[c].from
  /\ ctc[c].stat = "RUNNING" =>
       /\ ~In(enter[Master], c) /\ ~Reaps(Master, c)
       /\ \A w \in Workers : ~In(fifo[w]["commit"], c)

\* How often the call has run, by its state.
Runs(c) ==
  /\ ctc[c].stat \in {"COMMIT", "CANCEL"} => obs[c].runs = obs[c].retos /\ ~ctc[c].reto
  /\ ctc[c].stat = "RUNNING" =>
       obs[c].runs = obs[c].retos
                     + (IF obs[c].runner = None \/ ctc[c].reto THEN 0 ELSE 1)
  /\ ctc[c].stat = "RUNNING" /\ obs[c].runner = None => ~ctc[c].reto
  /\ ctc[c].stat = "FINISH" =>
       obs[c].runs = obs[c].retos + (IF obs[c].cancelled THEN 0 ELSE 1)
  /\ ctc[c].stat = "INITIAL" => obs[c].pop = None /\ ~Doing(c)
  /\ ctc[c].stat = "CANCEL" => obs[c].cancelled
  /\ obs[c].cancelled => ctc[c].stat \in {"CANCEL", "FINISH"}

Popped(c) ==
  /\ ctc[c].asc \in {"none", "submit"}
  /\ Doing(c) /\ ctc[c].alive => obs[c].pop = None
  /\ obs[c].pop # None => ctc[c].stat = "FINISH" /\ obs[c].pop = ctc[c].from

Track(c) == Idle(c) /\ Gone(c) /\ Served(c) /\ OnItsWay(c) /\ Runs(c) /\ Popped(c)

\* Where any call is, dpsyc_* calls between workers included.
Homing(c) ==
  /\ obs[c].runner # None =>
       /\ ctc[c].stat = "RUNNING" /\ ctc[c].asc = "submit"
       /\ c \in held[obs[c].runner] /\ \A t \in Threads : ~Reaps(t, c)
  /\ \A w \in Workers :
       /\ \/ ctc[c].stat \notin {"COMMIT", "CANCEL", "RUNNING"}
          \/ ctc[c].stat = "COMMIT" /\ ctc[c].asc = "syc"
       /\ In(fifo[w]["accept"], c) \/ In(enter[w], c) \/ Reaps(w, c)
       => w = ctc[c].from
  /\ ctc[c].asc = "none" /\ ctc[c].stat # "FINISH" =>
       /\ \A t \in Threads : ~In(enter[t], c) /\ ~Reaps(t, c)
       /\ \A w \in Workers, d \in Chan!Dirs : ~In(fifo[w][d], c)
  /\ ctc[c].asc = "syc" => ctc[c].to \in Workers
  /\ obs[c].pop \in {None, ctc[c].from}

Home(c) == SycThreads \subseteq Workers => Homing(c)

\* Track is claimed of the elements on which only dpctc_submit was used.
Good ==
  /\ OnePlace /\ ReapedInHand
  /\ \A c \in Ctcs : ~obs[c].syc => Track(c)
  /\ \A c \in Ctcs : Home(c)
IInv == TypeOK /\ Good

\* What a thread inside dpevp_addv or dpele_del may rely on, whoever runs
\* meanwhile: the call is its own, one it is submitting has its reference and was
\* not withdrawn, and one it deletes is freed by others only if detached or
\* withdrawn.
Inside ==
  \A t \in Threads :
    /\ pc[t] \in {"add", "del"} => ctc[cur[t]].from = t
    /\ pc[t] = "add" =>
         ctc[cur[t]].alive /\ ctc[cur[t]].refc = 1 /\ ~obs[cur[t]].cancelled
    /\ pc[t] = "del" /\ ~ctc[cur[t]].detach /\ ~obs[cur[t]].cancelled /\ ~obs[cur[t]].syc
         => ctc[cur[t]].alive

\* ele->ret of a dpctc_submit call: once it has finished, the store of dpevp_addv
\* is still to come only if the callback returned before it.
Result(c) ==
  /\ obs[c].cancelled => ctc[c].ret = Cancelled
  /\ ctc[c].stat = "FINISH" /\ ~obs[c].cancelled =>
       IF Adding(c) THEN obs[c].early
       ELSE ctc[c].ret = IF obs[c].early THEN InProgress ELSE obs[c].result
JInv == Inside /\ \A c \in Ctcs : ~obs[c].syc => Result(c)

-----------------------------------------------------------------------------
(* Sequences of elements. *)

LEMMA AppendSeq ==
  ASSUME NEW s \in Seq(Ctcs), NEW c \in Ctcs
  PROVE  /\ Append(s, c) \in Seq(Ctcs)
         /\ \A x \in Ctcs : In(Append(s, c), x) <=> In(s, x) \/ x = c
         /\ Distinct(s) /\ ~In(s, c) => Distinct(Append(s, c))
<1>1. \A x \in Ctcs : In(Append(s, c), x) <=> In(s, x) \/ x = c
  <2> TAKE x \in Ctcs
  <2>1. ASSUME In(Append(s, c), x) PROVE In(s, x) \/ x = c
    <3>1. PICK i \in DOMAIN Append(s, c) : Append(s, c)[i] = x
      BY <2>1 DEF In
    <3> QED BY <3>1 DEF In
  <2>2. ASSUME In(s, x) PROVE In(Append(s, c), x)
    <3>1. PICK i \in DOMAIN s : s[i] = x
      BY <2>2 DEF In
    <3>2. i \in DOMAIN Append(s, c) /\ Append(s, c)[i] = x
      BY <3>1
    <3> QED BY <3>2 DEF In
  <2>3. ASSUME x = c PROVE In(Append(s, c), x)
    <3>1. Len(s) + 1 \in DOMAIN Append(s, c) /\ Append(s, c)[Len(s) + 1] = x
      BY <2>3
    <3> QED BY <3>1 DEF In
  <2> QED BY <2>1, <2>2, <2>3
<1>2. ASSUME Distinct(s), ~In(s, c) PROVE Distinct(Append(s, c))
  <2> SUFFICES ASSUME NEW i \in DOMAIN Append(s, c), NEW j \in DOMAIN Append(s, c),
                      Append(s, c)[i] = Append(s, c)[j]
               PROVE  i = j
    BY DEF Distinct
  <2>1. /\ i \in 1 .. Len(s) + 1 /\ j \in 1 .. Len(s) + 1
        /\ Append(s, c)[i] = (IF i = Len(s) + 1 THEN c ELSE s[i])
        /\ Append(s, c)[j] = (IF j = Len(s) + 1 THEN c ELSE s[j])
        /\ \A k \in 1 .. Len(s) + 1 : k # Len(s) + 1 => k \in DOMAIN s
    OBVIOUS
  <2>2. CASE i = Len(s) + 1 /\ j # Len(s) + 1
    BY <1>2, <2>1, <2>2 DEF In
  <2>3. CASE i # Len(s) + 1 /\ j = Len(s) + 1
    BY <1>2, <2>1, <2>3 DEF In
  <2>4. CASE i # Len(s) + 1 /\ j # Len(s) + 1
    BY <1>2, <2>1, <2>4 DEF Distinct
  <2> QED BY <2>2, <2>3, <2>4
<1> QED BY <1>1, <1>2

LEMMA TailSeq ==
  ASSUME NEW s \in Seq(Ctcs), s # <<>>, Distinct(s)
  PROVE  /\ Head(s) \in Ctcs /\ In(s, Head(s)) /\ Tail(s) \in Seq(Ctcs)
         /\ Distinct(Tail(s))
         /\ \A x \in Ctcs : In(Tail(s), x) => In(s, x) /\ x # Head(s)
         /\ \A x \in Ctcs : In(s, x) => x = Head(s) \/ In(Tail(s), x)
<1>1. /\ Len(s) \in Nat /\ Len(s) > 0 /\ 1 \in DOMAIN s /\ Head(s) = s[1]
      /\ Tail(s) \in Seq(Ctcs) /\ DOMAIN Tail(s) = 1 .. Len(s) - 1
      /\ \A i \in DOMAIN Tail(s) : i + 1 \in DOMAIN s /\ Tail(s)[i] = s[i + 1]
  OBVIOUS
<1>2. Head(s) \in Ctcs /\ In(s, Head(s))
  BY <1>1 DEF In
<1>3. Distinct(Tail(s))
  BY <1>1 DEF Distinct
<1>4. \A x \in Ctcs : In(Tail(s), x) => In(s, x) /\ x # Head(s)
  <2> SUFFICES ASSUME NEW x \in Ctcs, NEW i \in DOMAIN Tail(s), Tail(s)[i] = x
               PROVE  In(s, x) /\ x # Head(s)
    BY DEF In
  <2>1. i + 1 \in DOMAIN s /\ s[i + 1] = x /\ i + 1 # 1
    BY <1>1
  <2> QED BY <1>1, <2>1 DEF In, Distinct
<1>5. \A x \in Ctcs : In(s, x) => x = Head(s) \/ In(Tail(s), x)
  <2> SUFFICES ASSUME NEW x \in Ctcs, NEW i \in DOMAIN s, s[i] = x, i # 1
               PROVE  In(Tail(s), x)
    BY <1>1 DEF In
  <2>1. i - 1 \in DOMAIN Tail(s) /\ Tail(s)[i - 1] = x
    BY <1>1
  <2> QED BY <2>1 DEF In
<1> QED BY <1>1, <1>2, <1>3, <1>4, <1>5

LEMMA SplitSeq ==
  ASSUME NEW s \in Seq(Ctcs), Distinct(s), NEW n \in 1 .. Len(s)
  PROVE  LET front == SubSeq(s, 1, n)   back == SubSeq(s, n + 1, Len(s)) IN
         /\ front \in Seq(Ctcs) /\ back \in Seq(Ctcs)
         /\ Distinct(front) /\ Distinct(back)
         /\ \A x \in Ctcs : In(front, x) => In(s, x) /\ ~In(back, x)
         /\ \A x \in Ctcs : In(back, x) => In(s, x)
<1> DEFINE front == SubSeq(s, 1, n)
           back == SubSeq(s, n + 1, Len(s))
<1>1. /\ front \in Seq(Ctcs) /\ DOMAIN front = 1 .. n
      /\ \A i \in 1 .. n : i \in DOMAIN s /\ front[i] = s[i]
  OBVIOUS
<1>2. /\ back \in Seq(Ctcs) /\ DOMAIN back = 1 .. Len(s) - n
      /\ \A i \in 1 .. Len(s) - n : i + n \in DOMAIN s /\ back[i] = s[i + n]
  OBVIOUS
<1> HIDE DEF front, back
<1>3. Distinct(front)
  BY <1>1 DEF Distinct
<1>7. Distinct(back)
  <2> SUFFICES ASSUME NEW i \in DOMAIN back, NEW j \in DOMAIN back, back[i] = back[j]
               PROVE  i = j
    BY DEF Distinct
  <2>1. i + n \in DOMAIN s /\ j + n \in DOMAIN s /\ s[i + n] = s[j + n]
    BY <1>2
  <2>2. i + n = j + n
    BY <2>1 DEF Distinct
  <2> QED BY <1>2, <2>2
<1>4. \A x \in Ctcs : In(front, x) => In(s, x)
  BY <1>1 DEF In
<1>5. \A x \in Ctcs : In(back, x) => In(s, x)
  BY <1>2 DEF In
<1>6. \A x \in Ctcs : In(front, x) => ~In(back, x)
  <2> SUFFICES ASSUME NEW x \in Ctcs, NEW i \in DOMAIN front, front[i] = x,
                      NEW j \in DOMAIN back, back[j] = x
               PROVE  FALSE
    BY DEF In
  <2>1. i \in DOMAIN s /\ j + n \in DOMAIN s /\ s[i] = s[j + n] /\ i # j + n
    BY <1>1, <1>2
  <2> QED BY <2>1 DEF Distinct
<1> QED BY <1>1, <1>2, <1>3, <1>4, <1>5, <1>6, <1>7 DEF front, back

LEMMA ConcatSeq ==
  ASSUME NEW p \in Seq(Ctcs), NEW q \in Seq(Ctcs), Distinct(p), Distinct(q),
         \A x \in Ctcs : ~(In(p, x) /\ In(q, x))
  PROVE  /\ p \o q \in Seq(Ctcs) /\ Distinct(p \o q)
         /\ \A x \in Ctcs : In(p \o q, x) => In(p, x) \/ In(q, x)
<1>1. /\ p \o q \in Seq(Ctcs) /\ DOMAIN (p \o q) = 1 .. Len(p) + Len(q)
      /\ \A i \in 1 .. Len(p) + Len(q) :
           (p \o q)[i] = IF i <= Len(p) THEN p[i] ELSE q[i - Len(p)]
      /\ DOMAIN p = 1 .. Len(p) /\ DOMAIN q = 1 .. Len(q) /\ Len(p) \in Nat /\ Len(q) \in Nat
  OBVIOUS
<1>2. \A x \in Ctcs : In(p \o q, x) => In(p, x) \/ In(q, x)
  <2> SUFFICES ASSUME NEW x \in Ctcs, NEW i \in DOMAIN (p \o q), (p \o q)[i] = x
               PROVE  In(p, x) \/ In(q, x)
    BY DEF In
  <2>1. CASE i <= Len(p)
    BY <1>1, <2>1 DEF In
  <2>2. CASE ~(i <= Len(p))
    <3>1. i - Len(p) \in DOMAIN q /\ q[i - Len(p)] = x
      BY <1>1, <2>2
    <3> QED BY <3>1 DEF In
  <2> QED BY <2>1, <2>2
<1>3. Distinct(p \o q)
  <2> SUFFICES ASSUME NEW i \in DOMAIN (p \o q), NEW j \in DOMAIN (p \o q),
                      (p \o q)[i] = (p \o q)[j]
               PROVE  i = j
    BY DEF Distinct
  <2>a. \A a \in DOMAIN p, b \in DOMAIN q : p[a] # q[b]
    <3> SUFFICES ASSUME NEW a \in DOMAIN p, NEW b \in DOMAIN q, p[a] = q[b] PROVE FALSE
      OBVIOUS
    <3>1. p[a] \in Ctcs /\ In(p, p[a]) /\ In(q, p[a])
      BY DEF In
    <3> QED BY <3>1
  <2>1. CASE i <= Len(p) /\ j <= Len(p)
    BY <1>1, <2>1 DEF Distinct
  <2>2. CASE ~(i <= Len(p)) /\ ~(j <= Len(p))
    <3>1. /\ i - Len(p) \in DOMAIN q /\ j - Len(p) \in DOMAIN q
          /\ q[i - Len(p)] = q[j - Len(p)]
      BY <1>1, <2>2
    <3>2. i - Len(p) = j - Len(p)
      BY <3>1 DEF Distinct
    <3> QED BY <1>1, <3>2
  <2>3. CASE i <= Len(p) /\ ~(j <= Len(p))
    <3>1. i \in DOMAIN p /\ j - Len(p) \in DOMAIN q /\ p[i] = q[j - Len(p)]
      BY <1>1, <2>3
    <3> QED BY <2>a, <3>1
  <2>4. CASE ~(i <= Len(p)) /\ j <= Len(p)
    <3>1. j \in DOMAIN p /\ i - Len(p) \in DOMAIN q /\ p[j] = q[i - Len(p)]
      BY <1>1, <2>4
    <3> QED BY <2>a, <3>1
  <2> QED BY <2>1, <2>2, <2>3, <2>4
<1> QED BY <1>1, <1>2, <1>3
-----------------------------------------------------------------------------
(* Places: what a hand-over, a delivery and a turn of the reap loop do. *)

QueuesOK ==
  /\ enter \in [Threads -> Seq(Ctcs)]
  /\ held \in [Threads -> SUBSET Ctcs]
  /\ fifo \in [Workers -> [Chan!Dirs -> Seq(Ctcs)]]

\* c is where it was.
Unmoved(c) ==
  /\ \A u \in Threads : c \in held'[u] <=> c \in held[u]
  /\ \A u \in Threads : In(enter'[u], c) <=> In(enter[u], c)
  /\ \A w \in Workers, d \in Chan!Dirs : In(fifo'[w][d], c) <=> In(fifo[w][d], c)

LEMMA Dirs == Chan!Dirs = {"accept", "commit"} /\ Master \in Threads /\ Workers \subseteq Threads
              /\ Master \notin Workers /\ Threads = Workers \cup {Master}
BY CtcAssumption DEF Chan!Dirs, Threads

\* A thread hands c to itself.
LEMMA PushSelfPlaces ==
  ASSUME QueuesOK, OnePlace, NEW t \in Threads, NEW c \in Ctcs, Chan!PushSelf(t, c)
  PROVE  /\ QueuesOK' /\ OnePlace' /\ c \in held[t]
         /\ \A x \in Ctcs \ {c} : Unmoved(x)
         /\ \A u \in Threads : c \notin held'[u]
         /\ \A u \in Threads : In(enter'[u], c) => u = t
         /\ \A w \in Workers, d \in Chan!Dirs : ~In(fifo'[w][d], c)
<1>0. /\ enter \in [Threads -> Seq(Ctcs)] /\ held \in [Threads -> SUBSET Ctcs]
      /\ fifo \in [Workers -> [Chan!Dirs -> Seq(Ctcs)]]
  BY DEF QueuesOK
<1>1. /\ c \in held[t] /\ fifo' = fifo
      /\ held' = [held EXCEPT ![t] = held[t] \ {c}]
      /\ enter' = [enter EXCEPT ![t] = Append(enter[t], c)]
  BY DEF Chan!PushSelf
<1>2. /\ \A u \in Threads : c \in held[u] => u = t
      /\ \A u \in Threads : ~In(enter[u], c)
      /\ \A w \in Workers, d \in Chan!Dirs : ~In(fifo[w][d], c)
  BY <1>1 DEF OnePlace, HeldOnce
<1>3. /\ Append(enter[t], c) \in Seq(Ctcs)
      /\ \A x \in Ctcs : In(Append(enter[t], c), x) <=> In(enter[t], x) \/ x = c
      /\ Distinct(Append(enter[t], c))
  <2>1. enter[t] \in Seq(Ctcs) /\ Distinct(enter[t]) /\ ~In(enter[t], c)
    BY <1>0, <1>2 DEF OnePlace, EnterOnce
  <2> QED BY <2>1, AppendSeq
<1>4. QueuesOK'
  BY <1>0, <1>1, <1>3 DEF QueuesOK
<1>5. \A u \in Threads : /\ u # t => enter'[u] = enter[u] /\ held'[u] = held[u]
                         /\ enter'[t] = Append(enter[t], c)
                         /\ held'[t] = held[t] \ {c}
  BY <1>0, <1>1
<1>6. \A u \in Threads, x \in Ctcs :
        /\ x # c => (In(enter'[u], x) <=> In(enter[u], x))
        /\ x # c => (x \in held'[u] <=> x \in held[u])
        /\ In(enter'[u], c) => u = t
        /\ c \notin held'[u]
  BY <1>2, <1>3, <1>5
<1>7. \A x \in Ctcs \ {c} : Unmoved(x)
  BY <1>1, <1>6 DEF Unmoved
<1>8. HeldOnce'
  BY <1>1, <1>6 DEF OnePlace, HeldOnce
<1>9. EnterOnce'
  <2>1. \A u \in Threads : Distinct(enter'[u])
    BY <1>3, <1>5 DEF OnePlace, EnterOnce
  <2>2. \A u, v \in Threads, x \in Ctcs : In(enter'[u], x) /\ In(enter'[v], x) => v = u
    BY <1>6 DEF OnePlace, EnterOnce
  <2>3. \A u \in Threads, x \in Ctcs : In(enter'[u], x) =>
          \A w \in Workers, d \in Chan!Dirs : ~In(fifo'[w][d], x)
    BY <1>1, <1>2, <1>6 DEF OnePlace, EnterOnce
  <2> QED BY <2>1, <2>2, <2>3 DEF EnterOnce
<1>10. FifoOnce'
  BY <1>1 DEF OnePlace, FifoOnce
<1> QED BY <1>1, <1>2, <1>4, <1>6, <1>7, <1>8, <1>9, <1>10 DEF OnePlace

\* The sender of a direction hands c over.
LEMMA PushPlaces ==
  ASSUME QueuesOK, OnePlace, NEW v \in Workers, NEW e \in Chan!Dirs, NEW c \in Ctcs,
         Chan!Push(v, e, c), NEW s \in Threads, Chan!Sender(v, e) = s
  PROVE  /\ QueuesOK' /\ OnePlace' /\ c \in held[s]
         /\ \A x \in Ctcs \ {c} : Unmoved(x)
         /\ \A u \in Threads : c \notin held'[u]
         /\ \A u \in Threads : ~In(enter'[u], c)
         /\ \A w \in Workers, d \in Chan!Dirs : In(fifo'[w][d], c) => w = v /\ d = e
<1>0. /\ enter \in [Threads -> Seq(Ctcs)] /\ held \in [Threads -> SUBSET Ctcs]
      /\ fifo \in [Workers -> [Chan!Dirs -> Seq(Ctcs)]]
  BY DEF QueuesOK
<1>1. /\ c \in held[s] /\ enter' = enter
      /\ held' = [held EXCEPT ![s] = held[s] \ {c}]
      /\ fifo' = [fifo EXCEPT ![v][e] = Append(fifo[v][e], c)]
  BY DEF Chan!Push
<1>2. /\ \A u \in Threads : c \in held[u] => u = s
      /\ \A u \in Threads : ~In(enter[u], c)
      /\ \A w \in Workers, d \in Chan!Dirs : ~In(fifo[w][d], c)
  BY <1>1 DEF OnePlace, HeldOnce
<1>3. /\ Append(fifo[v][e], c) \in Seq(Ctcs)
      /\ \A x \in Ctcs : In(Append(fifo[v][e], c), x) <=> In(fifo[v][e], x) \/ x = c
      /\ Distinct(Append(fifo[v][e], c))
  <2>1. fifo[v][e] \in Seq(Ctcs) /\ Distinct(fifo[v][e]) /\ ~In(fifo[v][e], c)
    BY <1>0, <1>2 DEF OnePlace, FifoOnce
  <2> QED BY <2>1, AppendSeq
<1>5. /\ \A u \in Threads : u # s => held'[u] = held[u]
      /\ held'[s] = held[s] \ {c}
      /\ \A w \in Workers, d \in Chan!Dirs :
           fifo'[w][d] = IF w = v /\ d = e THEN Append(fifo[v][e], c) ELSE fifo[w][d]
  BY <1>0, <1>1
<1>4. QueuesOK'
  <2>1. fifo' \in [Workers -> [Chan!Dirs -> Seq(Ctcs)]]
    BY <1>0, <1>1, <1>3
  <2>2. held' \in [Threads -> SUBSET Ctcs]
    BY <1>0, <1>1
  <2> QED BY <1>0, <1>1, <2>1, <2>2 DEF QueuesOK
<1>6. \A w \in Workers, d \in Chan!Dirs, x \in Ctcs :
        /\ x # c => (In(fifo'[w][d], x) <=> In(fifo[w][d], x))
        /\ In(fifo'[w][d], c) => w = v /\ d = e
  BY <1>2, <1>3, <1>5
<1>7. \A u \in Threads, x \in Ctcs :
        /\ x # c => (x \in held'[u] <=> x \in held[u])
        /\ c \notin held'[u]
  BY <1>2, <1>5
<1>8. \A x \in Ctcs \ {c} : Unmoved(x)
  BY <1>1, <1>6, <1>7 DEF Unmoved
<1>9. HeldOnce'
  BY <1>1, <1>6, <1>7 DEF OnePlace, HeldOnce
<1>10. EnterOnce'
  BY <1>1, <1>2, <1>6 DEF OnePlace, EnterOnce
<1>11. FifoOnce'
  <2>1. \A w \in Workers, d \in Chan!Dirs : Distinct(fifo'[w][d])
    BY <1>3, <1>5 DEF OnePlace, FifoOnce
  <2>2. \A w, y \in Workers, d, z \in Chan!Dirs, x \in Ctcs :
          In(fifo'[w][d], x) /\ In(fifo'[y][z], x) => y = w /\ z = d
    BY <1>6 DEF OnePlace, FifoOnce
  <2> QED BY <2>1, <2>2 DEF FifoOnce
<1> QED BY <1>1, <1>2, <1>4, <1>6, <1>7, <1>8, <1>9, <1>10, <1>11 DEF OnePlace

\* c is on its way from t to u, and nowhere else: in t's own enter queue, or in
\* the queue towards u or the master.
Sent(t, u, c) ==
  /\ \A x \in Threads : c \notin held'[x]
  /\ \A x \in Threads : In(enter'[x], c) => x = t /\ u = t
  /\ \A w \in Workers, d \in Chan!Dirs : In(fifo'[w][d], c) =>
       u # t /\ (IF t = Master THEN w = u /\ d = "accept" ELSE w = t /\ d = "commit")

\* commit_ctc_f, finish_ctc_f: one element moves.
LEMMA HandToPlaces ==
  ASSUME QueuesOK, OnePlace, NEW t \in Threads, NEW u \in Threads, NEW c \in Ctcs,
         HandTo(t, u, c)
  PROVE  /\ QueuesOK' /\ OnePlace' /\ c \in held[t]
         /\ \A x \in Ctcs \ {c} : Unmoved(x)
         /\ Sent(t, u, c)
<1>1. CASE u = t
  <2>1. Chan!PushSelf(t, c)
    BY <1>1 DEF HandTo
  <2> QED BY <1>1, <2>1, PushSelfPlaces DEF Sent
<1>2. CASE u # t /\ t = Master
  <2>1. Chan!Push(u, "accept", c)
    BY <1>2 DEF HandTo
  <2>2. u \in Workers /\ "accept" \in Chan!Dirs /\ Chan!Sender(u, "accept") = t
    BY <1>2, Dirs DEF Chan!Sender
  <2> QED BY <1>2, <2>1, <2>2, PushPlaces DEF Sent
<1>3. CASE u # t /\ t # Master
  <2>1. Chan!Push(t, "commit", c)
    BY <1>3 DEF HandTo
  <2>2. t \in Workers /\ "commit" \in Chan!Dirs /\ Chan!Sender(t, "commit") = t
    BY <1>3, Dirs DEF Chan!Sender
  <2> QED BY <1>3, <2>1, <2>2, PushPlaces DEF Sent
<1> QED BY <1>1, <1>2, <1>3

\* The first element of an enter queue is taken in hand.
LEMMA ReapPlaces ==
  ASSUME QueuesOK, OnePlace, NEW t \in Threads, Chan!Reap(t), NEW c, Head(enter[t]) = c
  PROVE  /\ QueuesOK' /\ OnePlace' /\ c \in Ctcs /\ In(enter[t], c)
         /\ \A x \in Ctcs \ {c} : Unmoved(x)
         /\ \A u \in Threads : c \in held'[u] <=> u = t
         /\ \A u \in Threads : ~In(enter'[u], c)
         /\ \A w \in Workers, d \in Chan!Dirs : ~In(fifo'[w][d], c)
<1>0. /\ enter \in [Threads -> Seq(Ctcs)] /\ held \in [Threads -> SUBSET Ctcs]
      /\ fifo \in [Workers -> [Chan!Dirs -> Seq(Ctcs)]]
  BY DEF QueuesOK
<1>1. /\ enter[t] # <<>> /\ fifo' = fifo
      /\ held' = [held EXCEPT ![t] = held[t] \cup {c}]
      /\ enter' = [enter EXCEPT ![t] = Tail(enter[t])]
  BY DEF Chan!Reap
<1>2. /\ c \in Ctcs /\ In(enter[t], c) /\ Tail(enter[t]) \in Seq(Ctcs)
      /\ Distinct(Tail(enter[t]))
      /\ \A x \in Ctcs : In(Tail(enter[t]), x) => In(enter[t], x) /\ x # c
      /\ \A x \in Ctcs : In(enter[t], x) => x = c \/ In(Tail(enter[t]), x)
  <2>1. enter[t] \in Seq(Ctcs) /\ Distinct(enter[t])
    BY <1>0 DEF OnePlace, EnterOnce
  <2> QED BY <1>1, <2>1, TailSeq
<1>3. /\ \A u \in Threads : c \notin held[u]
      /\ \A u \in Threads : In(enter[u], c) => u = t
      /\ \A w \in Workers, d \in Chan!Dirs : ~In(fifo[w][d], c)
  BY <1>2 DEF OnePlace, HeldOnce, EnterOnce
<1>4. QueuesOK'
  BY <1>0, <1>1, <1>2 DEF QueuesOK
<1>5. /\ \A u \in Threads : u # t => enter'[u] = enter[u] /\ held'[u] = held[u]
      /\ enter'[t] = Tail(enter[t]) /\ held'[t] = held[t] \cup {c}
  BY <1>0, <1>1
<1>6. \A u \in Threads, x \in Ctcs :
        /\ x # c => (In(enter'[u], x) <=> In(enter[u], x))
        /\ x # c => (x \in held'[u] <=> x \in held[u])
        /\ ~In(enter'[u], c)
        /\ c \in held'[u] <=> u = t
  BY <1>2, <1>3, <1>5
<1>7. \A x \in Ctcs \ {c} : Unmoved(x)
  BY <1>1, <1>6 DEF Unmoved
<1>8. HeldOnce'
  BY <1>1, <1>2, <1>3, <1>6 DEF OnePlace, HeldOnce
<1>9. EnterOnce'
  <2>1. \A u \in Threads : Distinct(enter'[u])
    BY <1>2, <1>5 DEF OnePlace, EnterOnce
  <2>2. \A u, v \in Threads, x \in Ctcs : In(enter'[u], x) /\ In(enter'[v], x) => v = u
    BY <1>6 DEF OnePlace, EnterOnce
  <2>3. \A u \in Threads, x \in Ctcs : In(enter'[u], x) =>
          \A w \in Workers, d \in Chan!Dirs : ~In(fifo'[w][d], x)
    BY <1>1, <1>6 DEF OnePlace, EnterOnce
  <2> QED BY <2>1, <2>2, <2>3 DEF EnterOnce
<1>10. FifoOnce'
  BY <1>1 DEF OnePlace, FifoOnce
<1> QED BY <1>1, <1>2, <1>3, <1>4, <1>6, <1>7, <1>8, <1>9, <1>10 DEF OnePlace

\* The queues deliver: elements move from one queue to the receiver's.
LEMMA DeliverPlaces ==
  ASSUME QueuesOK, OnePlace, NEW v \in Workers, NEW e \in Chan!Dirs, Chan!Deliver(v, e),
         NEW r \in Threads, Chan!Receiver(v, e) = r
  PROVE  /\ QueuesOK' /\ OnePlace' /\ held' = held
         /\ \A x \in Ctcs, u \in Threads :
              In(enter'[u], x) => In(enter[u], x) \/ (u = r /\ In(fifo[v][e], x))
         /\ \A x \in Ctcs, w \in Workers, d \in Chan!Dirs :
              In(fifo'[w][d], x) => In(fifo[w][d], x)
<1>0. /\ enter \in [Threads -> Seq(Ctcs)] /\ held \in [Threads -> SUBSET Ctcs]
      /\ fifo \in [Workers -> [Chan!Dirs -> Seq(Ctcs)]]
  BY DEF QueuesOK
<1>1. PICK n \in 1 .. Len(fifo[v][e]) :
        /\ enter' = [enter EXCEPT ![r] = enter[r] \o SubSeq(fifo[v][e], 1, n)]
        /\ fifo' = [fifo EXCEPT ![v][e] = SubSeq(fifo[v][e], n + 1, Len(fifo[v][e]))]
        /\ held' = held
  BY DEF Chan!Deliver
<1>2. PICK front \in Seq(Ctcs) : front = SubSeq(fifo[v][e], 1, n)
  <2>1. fifo[v][e] \in Seq(Ctcs) /\ Distinct(fifo[v][e])
    BY <1>0 DEF OnePlace, FifoOnce
  <2> QED BY <2>1, SplitSeq
<1>3. PICK back \in Seq(Ctcs) : back = SubSeq(fifo[v][e], n + 1, Len(fifo[v][e]))
  <2>1. fifo[v][e] \in Seq(Ctcs) /\ Distinct(fifo[v][e])
    BY <1>0 DEF OnePlace, FifoOnce
  <2> QED BY <2>1, SplitSeq
<1>4. /\ Distinct(front) /\ Distinct(back)
      /\ \A x \in Ctcs : In(front, x) => In(fifo[v][e], x) /\ ~In(back, x)
      /\ \A x \in Ctcs : In(back, x) => In(fifo[v][e], x)
  <2>1. fifo[v][e] \in Seq(Ctcs) /\ Distinct(fifo[v][e])
    BY <1>0 DEF OnePlace, FifoOnce
  <2> QED BY <2>1, <1>2, <1>3, SplitSeq
<1>5. /\ enter[r] \o front \in Seq(Ctcs) /\ Distinct(enter[r] \o front)
      /\ \A x \in Ctcs : In(enter[r] \o front, x) => In(enter[r], x) \/ In(front, x)
  <2>1. /\ enter[r] \in Seq(Ctcs) /\ Distinct(enter[r])
        /\ \A x \in Ctcs : ~(In(enter[r], x) /\ In(front, x))
    BY <1>0, <1>4 DEF OnePlace, EnterOnce
  <2> QED BY <2>1, <1>4, ConcatSeq
<1>6. /\ \A u \in Threads : u # r => enter'[u] = enter[u]
      /\ enter'[r] = enter[r] \o front
      /\ \A w \in Workers, d \in Chan!Dirs :
           fifo'[w][d] = IF w = v /\ d = e THEN back ELSE fifo[w][d]
  BY <1>0, <1>1, <1>2, <1>3
<1>7. QueuesOK'
  <2>1. fifo' \in [Workers -> [Chan!Dirs -> Seq(Ctcs)]]
    BY <1>0, <1>1, <1>3
  <2>2. enter' \in [Threads -> Seq(Ctcs)]
    BY <1>0, <1>1, <1>2, <1>5
  <2> QED BY <1>0, <1>1, <2>1, <2>2 DEF QueuesOK
<1>8. \A x \in Ctcs, w \in Workers, d \in Chan!Dirs :
        In(fifo'[w][d], x) => In(fifo[w][d], x)
  BY <1>4, <1>6
<1>9. \A x \in Ctcs, u \in Threads :
        In(enter'[u], x) => In(enter[u], x) \/ (u = r /\ In(front, x))
  BY <1>5, <1>6
<1>10. HeldOnce'
  BY <1>1, <1>4, <1>8, <1>9 DEF OnePlace, HeldOnce
<1>11. FifoOnce'
  <2>1. \A w \in Workers, d \in Chan!Dirs : Distinct(fifo'[w][d])
    BY <1>4, <1>6 DEF OnePlace, FifoOnce
  <2> QED BY <1>8, <2>1 DEF OnePlace, FifoOnce
<1>12. EnterOnce'
  <2>1. \A u \in Threads : Distinct(enter'[u])
    BY <1>5, <1>6 DEF OnePlace, EnterOnce
  <2>2. \A u, y \in Threads, x \in Ctcs : In(enter'[u], x) /\ In(enter'[y], x) => y = u
    BY <1>4, <1>9 DEF OnePlace, EnterOnce
  <2>3. \A x \in Ctcs, w \in Workers, d \in Chan!Dirs :
          In(front, x) => ~In(fifo'[w][d], x)
    BY <1>4, <1>6 DEF OnePlace, FifoOnce
  <2>4. \A u \in Threads, x \in Ctcs : In(enter'[u], x) =>
          \A w \in Workers, d \in Chan!Dirs : ~In(fifo'[w][d], x)
    BY <1>8, <1>9, <2>3 DEF OnePlace, EnterOnce
  <2> QED BY <2>1, <2>2, <2>4 DEF EnterOnce
<1> QED BY <1>1, <1>4, <1>7, <1>8, <1>9, <1>10, <1>11, <1>12 DEF OnePlace
-----------------------------------------------------------------------------
(* Type correctness of the elements and the threads. *)

DataOK ==
  /\ ctc \in [Ctcs -> CtcType]
  /\ obs \in [Ctcs -> ObsType]
  /\ pc \in [Threads -> {"loop", "add", "del", "reap"}]
  /\ cur \in [Threads -> Ctcs]

LEMMA TypeParts == (TypeOK <=> DataOK /\ QueuesOK) /\ (TypeOK' <=> DataOK' /\ QueuesOK')
BY DEF TypeOK, DataOK, QueuesOK

LEMMA RetType == /\ InProgress \in Cancelled .. MaxRounds /\ Repeat \in Cancelled .. MaxRounds
                 /\ Cancelled \in Cancelled .. MaxRounds
                 /\ 0 .. MaxRounds \subseteq Cancelled .. MaxRounds
BY CtcAssumption DEF InProgress, Repeat, Cancelled

LEMMA CtcUpdates ==
  ASSUME NEW r \in CtcType
  PROVE  /\ \A a \in {"submit", "syc"} :
              [r EXCEPT !.asc = a, !.stat = "COMMIT", !.reto = FALSE, !.cop = FALSE] \in CtcType
         /\ \A v \in Cancelled .. MaxRounds : [r EXCEPT !.ret = v] \in CtcType
         /\ [r EXCEPT !.cop = TRUE] \in CtcType
         /\ \A v \in Cancelled .. MaxRounds : [r EXCEPT !.stat = "CANCEL", !.ret = v] \in CtcType
         /\ [r EXCEPT !.refc = 0] \in CtcType
         /\ \A v \in BOOLEAN : [r EXCEPT !.alive = v] \in CtcType
<1>1. \A a \in {"submit", "syc"} :
        [r EXCEPT !.asc = a, !.stat = "COMMIT", !.reto = FALSE, !.cop = FALSE] \in CtcType
  BY DEF CtcType, Stats
<1>2. \A v \in Cancelled .. MaxRounds : [r EXCEPT !.ret = v] \in CtcType
  BY DEF CtcType
<1>3. [r EXCEPT !.cop = TRUE] \in CtcType
  BY DEF CtcType
<1>4. \A v \in Cancelled .. MaxRounds : [r EXCEPT !.stat = "CANCEL", !.ret = v] \in CtcType
  BY DEF CtcType, Stats
<1>5. [r EXCEPT !.refc = 0] \in CtcType
  BY DEF CtcType
<1>6. \A v \in BOOLEAN : [r EXCEPT !.alive = v] \in CtcType
  BY DEF CtcType
<1> QED BY <1>1, <1>2, <1>3, <1>4, <1>5, <1>6

LEMMA AddingType == \A c \in Ctcs : Adding(c) \in BOOLEAN
BY DEF Adding

LEMMA ReleasedType == ASSUME NEW r \in CtcType PROVE Released(r) \in CtcType
BY DEF Released, CtcType

\* The end of an operation leaves a call and its history what they are.
LEMMA AscOverType ==
  ASSUME DataOK, NEW t \in Threads, NEW c \in Ctcs, NEW r \in CtcType, AscOver(t, c, r)
  PROVE  ctc' \in [Ctcs -> CtcType] /\ obs' \in [Ctcs -> ObsType]
<1>0. ctc \in [Ctcs -> CtcType] /\ obs \in [Ctcs -> ObsType]
  BY DEF DataOK
<1>1. obs[c] \in ObsType /\ obs[c].round \in 0 .. MaxRounds /\ obs[c].runs + 1 \in Nat
  BY <1>0 DEF ObsType
<1>2. CASE r.stat = "RUNNING" /\ r.asc = "submit"
  <2>1. /\ ctc' = [ctc EXCEPT ![c] = r]
        /\ obs' = [obs EXCEPT ![c].runner = t, ![c].runs = @ + 1]
    BY <1>2 DEF AscOver
  <2> QED BY <1>0, <1>1, <2>1 DEF ObsType
<1>3. CASE ~(r.stat = "RUNNING" /\ r.asc = "submit")
  <2> DEFINE post == r.asc = "syc"
             s == [r EXCEPT !.asc = "none", !.cop = FALSE,
                            !.ret = IF post THEN obs[c].round ELSE @]
  <2>1. s \in CtcType
    BY <1>1, RetType DEF CtcType
  <2>2. Released(s) \in CtcType
    BY <2>1, ReleasedType
  <2>3. /\ ctc' = [ctc EXCEPT ![c] = Released(s)]
        /\ obs' = [obs EXCEPT ![c].runs = IF post THEN @ + 1 ELSE @,
                              ![c].result = IF post THEN obs[c].round ELSE @,
                              ![c].early = IF post THEN Adding(c) ELSE @,
                              ![c].pop = IF Released(s).alive /\ ~r.detach THEN t ELSE @]
    BY <1>3 DEF AscOver
  <2>4. Adding(c) \in BOOLEAN
    BY AddingType
  <2> HIDE DEF s
  <2> QED BY <1>0, <1>1, <2>2, <2>3, <2>4 DEF ObsType
<1> QED BY <1>2, <1>3

LEMMA DataStep == DataOK /\ QueuesOK /\ [Next]_vars => DataOK'
<1> SUFFICES ASSUME DataOK, QueuesOK, [Next]_vars PROVE DataOK'
  OBVIOUS
<1> USE RetType
<1>0. /\ ctc \in [Ctcs -> CtcType] /\ obs \in [Ctcs -> ObsType]
      /\ pc \in [Threads -> {"loop", "add", "del", "reap"}] /\ cur \in [Threads -> Ctcs]
  BY DEF DataOK
<1>1. ASSUME NEW t \in Threads, NEW c \in Ctcs, NEW a \in {"submit", "syc"}, Add(t, c, a)
      PROVE  DataOK'
  <2>1. ctc' \in [Ctcs -> CtcType]
    <3>1. [ctc[c] EXCEPT !.asc = a, !.stat = "COMMIT", !.reto = FALSE, !.cop = FALSE] \in CtcType
      BY <1>0, <1>1, CtcUpdates
    <3>2. ctc' = [ctc EXCEPT ![c] = [ctc[c] EXCEPT !.asc = a, !.stat = "COMMIT",
                                                   !.reto = FALSE, !.cop = FALSE]]
      BY <1>0, <1>1 DEF Add
    <3> QED BY <1>0, <3>1, <3>2
  <2>2. obs' \in [Ctcs -> ObsType]
    <3>1. obs[c].round + 1 \in 0 .. MaxRounds /\ obs[c].syc \in BOOLEAN
      BY <1>0, <1>1, CtcAssumption DEF Add, ObsType
    <3>2. (obs[c].syc \/ a = "syc") \in BOOLEAN
      BY <3>1
    <3>3. [round |-> obs[c].round + 1, retos |-> 0, runs |-> 0, result |-> 0,
           cancelled |-> FALSE, runner |-> None, pop |-> None,
           syc |-> obs[c].syc \/ a = "syc", early |-> FALSE] \in ObsType
      BY <3>1, <3>2, CtcAssumption DEF ObsType
    <3>4. obs' = [obs EXCEPT ![c] =
             [round |-> obs[c].round + 1, retos |-> 0, runs |-> 0, result |-> 0,
              cancelled |-> FALSE, runner |-> None, pop |-> None,
              syc |-> obs[c].syc \/ a = "syc", early |-> FALSE]]
      BY <1>1 DEF Add
    <3> QED BY <1>0, <3>3, <3>4
  <2> QED BY <1>0, <1>1, <2>1, <2>2 DEF Add, DataOK
<1>2. ASSUME NEW t \in Threads, NEW c \in Ctcs, AddRepeat(t, c) PROVE DataOK'
  BY <1>0, <1>2, ZenonT(40) DEF AddRepeat, DataOK, CtcType
<1>3. ASSUME NEW t \in Threads, AddStore(t) PROVE DataOK'
  <2>a. PICK c \in Ctcs : cur[t] = c
    BY <1>0
  <2>1. [ctc[c] EXCEPT !.ret = InProgress] \in CtcType
    BY <1>0, CtcUpdates
  <2>2. ctc' = [ctc EXCEPT ![c] = [ctc[c] EXCEPT !.ret = InProgress]]
    BY <1>0, <1>3, <2>a DEF AddStore
  <2>3. ctc' \in [Ctcs -> CtcType]
    BY <1>0, <2>1, <2>2
  <2> QED BY <1>0, <1>3, <2>3 DEF AddStore, DataOK
<1>4. ASSUME NEW t \in Threads, NEW c \in Ctcs, Await(t, c) PROVE DataOK'
  <2>1. [ctc[c] EXCEPT !.cop = TRUE] \in CtcType
    BY <1>0, CtcUpdates
  <2>2. ctc' = [ctc EXCEPT ![c] = [ctc[c] EXCEPT !.cop = TRUE]]
    BY <1>0, <1>4 DEF Await
  <2>3. ctc' \in [Ctcs -> CtcType]
    BY <1>0, <2>1, <2>2
  <2> QED BY <1>0, <1>4, <2>3 DEF Await, DataOK
<1>5. ASSUME NEW t \in Threads, NEW c \in Ctcs, End(t, c) PROVE DataOK'
  <2>1. [ctc[c] EXCEPT !.stat = "CANCEL", !.ret = Cancelled] \in CtcType
    BY <1>0, CtcUpdates
  <2>2. ctc' = [ctc EXCEPT ![c] = [ctc[c] EXCEPT !.stat = "CANCEL", !.ret = Cancelled]]
    BY <1>0, <1>5 DEF End
  <2>3. ctc' \in [Ctcs -> CtcType]
    BY <1>0, <2>1, <2>2
  <2>4. obs' \in [Ctcs -> ObsType]
    <3>1. [obs[c] EXCEPT !.cancelled = TRUE] \in ObsType
      <4>1. obs[c] \in ObsType
        BY <1>0
      <4> QED BY <4>1 DEF ObsType
    <3>2. obs' = [obs EXCEPT ![c] = [obs[c] EXCEPT !.cancelled = TRUE]]
      BY <1>0, <1>5 DEF End
    <3> QED BY <1>0, <3>1, <3>2
  <2> QED BY <1>0, <1>5, <2>3, <2>4 DEF End, DataOK
<1>6. ASSUME NEW t \in Threads, NEW c \in Ctcs, Del(t, c) PROVE DataOK'
  <2>1. [ctc[c] EXCEPT !.refc = 0] \in CtcType
    BY <1>0, CtcUpdates
  <2>2. ctc' = [ctc EXCEPT ![c] = [ctc[c] EXCEPT !.refc = 0]]
    BY <1>0, <1>6 DEF Del
  <2>3. ctc' \in [Ctcs -> CtcType]
    BY <1>0, <2>1, <2>2
  <2> QED BY <1>0, <1>6, <2>3 DEF Del, DataOK
<1>7. ASSUME NEW t \in Threads, DelCheck(t) PROVE DataOK'
  <2>a. PICK c \in Ctcs : cur[t] = c
    BY <1>0
  <2>0. (ctc[c].alive /\ Doing(c)) \in BOOLEAN
    BY <1>0 DEF CtcType, Doing
  <2>1. [ctc[c] EXCEPT !.alive = ctc[c].alive /\ Doing(c)] \in CtcType
    BY <1>0, <2>0, CtcUpdates
  <2>2. ctc' = [ctc EXCEPT ![c] = [ctc[c] EXCEPT !.alive = ctc[c].alive /\ Doing(c)]]
    BY <1>0, <1>7, <2>a DEF DelCheck
  <2>3. ctc' \in [Ctcs -> CtcType]
    BY <1>0, <2>1, <2>2
  <2> QED BY <1>0, <1>7, <2>3 DEF DelCheck, DataOK
<1>8. ASSUME NEW t \in Threads, PopFront(t) PROVE DataOK'
  <2>1. enter[t] \in Seq(Ctcs) /\ enter[t] # <<>>
    BY <1>8 DEF PopFront, Chan!Reap, QueuesOK
  <2>2. Head(enter[t]) \in Ctcs
    BY <2>1
  <2> QED BY <1>0, <1>8, <2>2 DEF PopFront, DataOK
<1>9. ASSUME NEW t \in Threads, Dispatch(t) PROVE DataOK'
  <2>0. pc' \in [Threads -> {"loop", "add", "del", "reap"}] /\ cur' = cur
    BY <1>0, <1>9 DEF Dispatch
  <2>a. PICK c \in Ctcs : cur[t] = c
    BY <1>0
  <2>b. ctc[c] \in CtcType /\ obs[c] \in ObsType
    BY <1>0
  <2>1. ASSUME ReapCancel(t, c) PROVE DataOK'
    <3>1. [ctc[c] EXCEPT !.stat = "FINISH"] \in CtcType
      BY <2>b DEF CtcType, Stats
    <3>2. Released([ctc[c] EXCEPT !.stat = "FINISH"]) \in CtcType
      BY <3>1, ReleasedType
    <3> QED BY <1>0, <2>0, <2>1, <3>2 DEF ReapCancel, DataOK
  <2>2. ASSUME ReapStart(t, c) PROVE DataOK'
    <3>1. [ctc[c] EXCEPT !.stat = "RUNNING"] \in CtcType
      BY <2>b DEF CtcType, Stats
    <3>2. ctc' \in [Ctcs -> CtcType] /\ obs' \in [Ctcs -> ObsType]
      BY <2>2, <3>1, AscOverType DEF ReapStart
    <3> QED BY <1>0, <2>0, <3>2 DEF DataOK
  <2>3. ASSUME ReapForward(t, c) PROVE DataOK'
    <3>1. [ctc[c] EXCEPT !.stat = "RUNNING"] \in CtcType
      BY <2>b DEF CtcType, Stats
    <3>2. ctc' = [ctc EXCEPT ![c] = [ctc[c] EXCEPT !.stat = "RUNNING"]] /\ obs' = obs
      BY <1>0, <2>3 DEF ReapForward
    <3> QED BY <1>0, <2>0, <3>1, <3>2 DEF DataOK
  <2>4. ASSUME ReapPost(t, c) PROVE DataOK'
    <3>1. obs[c].round \in 0 .. MaxRounds /\ obs[c].runs + 1 \in Nat
      BY <2>b DEF ObsType
    <3>2. ctc' \in [Ctcs -> CtcType]
      BY <1>0, <2>4, <3>1 DEF ReapPost, CtcType, Stats
    <3>3. obs' \in [Ctcs -> ObsType]
      <4>1. [obs[c] EXCEPT !.runs = obs[c].runs + 1, !.result = obs[c].round,
                           !.early = Adding(c)] \in ObsType
        BY <2>b, <3>1, AddingType DEF ObsType
      <4>2. obs' = [obs EXCEPT ![c] = [obs[c] EXCEPT !.runs = obs[c].runs + 1,
                                                     !.result = obs[c].round,
                                                     !.early = Adding(c)]]
        BY <1>0, <2>4 DEF ReapPost
      <4> QED BY <1>0, <4>1, <4>2
    <3> QED BY <1>0, <2>0, <3>2, <3>3 DEF DataOK
  <2>5. ASSUME ReapFinish(t, c) PROVE DataOK'
    <3>1. CASE UNCHANGED <<ctc, obs>>
      BY <1>0, <2>0, <3>1 DEF DataOK
    <3>2. CASE AscOver(t, c, ctc[c])
      BY <1>0, <2>0, <2>b, <3>2, AscOverType DEF DataOK
    <3>3. CASE ctc' = [ctc EXCEPT ![c] = Released(ctc[c])] /\ UNCHANGED obs
      <4>1. Released(ctc[c]) \in CtcType
        BY <2>b, ReleasedType
      <4> QED BY <1>0, <2>0, <3>3, <4>1 DEF DataOK
    <3> QED BY <2>5, <3>1, <3>2, <3>3 DEF ReapFinish
  <2> QED BY <1>9, <2>a, <2>1, <2>2, <2>3, <2>4, <2>5 DEF Dispatch
<1>10. ASSUME NEW t \in Threads, NEW c \in Ctcs, NEW u \in Targets, Reto(t, c, u) PROVE DataOK'
  <2>1. u \in Threads /\ obs[c].retos + 1 \in 0 .. MaxRetos
    BY <1>0, <1>10, CtcAssumption DEF Reto, ObsType, Threads
  <2>2. ctc' \in [Ctcs -> CtcType]
    BY <1>0, <1>10, <2>1 DEF Reto, CtcType
  <2>3. obs' \in [Ctcs -> ObsType]
    BY <1>0, <1>10, <2>1 DEF Reto, ObsType
  <2> QED BY <1>0, <1>10, <2>2, <2>3 DEF Reto, DataOK
<1>11. ASSUME NEW t \in Threads, NEW c \in Ctcs, EndCtc(t, c) PROVE DataOK'
  <2> DEFINE r == [ctc[c] EXCEPT !.ret = obs[c].round, !.reto = FALSE,
                                 !.stat = IF ctc[c].reto THEN "COMMIT" ELSE "FINISH"]
  <2>b. ctc[c] \in CtcType /\ obs[c] \in ObsType /\ obs[c].round \in 0 .. MaxRounds
    BY <1>0 DEF ObsType
  <2>1. r \in CtcType
    BY <2>b DEF CtcType, Stats
  <2>2. Released(r) \in CtcType
    BY <2>1, ReleasedType
  <2>3. ctc' = [ctc EXCEPT ![c] = r] \/ ctc' = [ctc EXCEPT ![c] = Released(r)]
    BY <1>11 DEF EndCtc
  <2>4. obs' \in [Ctcs -> ObsType]
    BY <1>0, <1>11, <2>b, AddingType DEF EndCtc, ObsType
  <2>5. pc' = pc /\ cur' = cur
    BY <1>11 DEF EndCtc
  <2> HIDE DEF r
  <2> QED BY <1>0, <2>1, <2>2, <2>3, <2>4, <2>5 DEF DataOK
<1>12. ASSUME NEW w \in Workers, NEW d \in Chan!Dirs, Transfer(w, d) PROVE DataOK'
  BY <1>0, <1>12 DEF Transfer, DataOK
<1>13. CASE UNCHANGED vars
  BY <1>0, <1>13 DEF vars, DataOK
<1> QED BY <1>1, <1>2, <1>3, <1>4, <1>5, <1>6, <1>7, <1>8, <1>9, <1>10, <1>11, <1>12, <1>13
        DEF Next, LoopStep, UserStep
-----------------------------------------------------------------------------
(* The invariant holds initially and every step keeps it. *)

\* What Track looks at.
SameCall(c) ==
  /\ ctc'[c].asc = ctc[c].asc /\ ctc'[c].stat = ctc[c].stat /\ ctc'[c].from = ctc[c].from
  /\ ctc'[c].alive = ctc[c].alive /\ ctc'[c].reto = ctc[c].reto /\ obs'[c] = obs[c]
  /\ ctc'[c].to = ctc[c].to

\* A call that a step does not touch or move is as before.
LEMMA TrackFrame ==
  ASSUME DataOK, NEW c \in Ctcs, ~obs[c].syc => Track(c), SameCall(c),
         Unmoved(c), \A u \in Threads : Reaps(u, c)' => Reaps(u, c)
  PROVE  ~obs'[c].syc => Track(c)'
<1> SUFFICES ASSUME Track(c) PROVE Track(c)'
  BY DEF SameCall
<1> USE DEF SameCall
<1>0. ctc[c].from \in Threads /\ obs[c].runner \in Threads \cup {None}
  BY DEF DataOK, CtcType, ObsType
<1>1. Idle(c)'
  BY <1>0 DEF Track, Idle, Unmoved, Doing
<1>2. Gone(c)'
  BY DEF Track, Gone, Unmoved
<1>3. Served(c)'
  BY <1>0 DEF Track, Served, Unmoved
<1>4. OnItsWay(c)'
  BY Dirs DEF Track, OnItsWay, Unmoved
<1>5. Runs(c)'
  BY DEF Track, Runs, Doing
<1>6. Popped(c)'
  BY DEF Track, Popped, Doing
<1> QED BY <1>1, <1>2, <1>3, <1>4, <1>5, <1>6 DEF Track

LEMMA HomeFrame ==
  ASSUME DataOK, NEW c \in Ctcs, Home(c),
         ctc'[c].asc = ctc[c].asc, ctc'[c].stat = ctc[c].stat, ctc'[c].from = ctc[c].from,
         ctc'[c].to = ctc[c].to, obs'[c].runner = obs[c].runner, obs'[c].pop = obs[c].pop,
         Unmoved(c), \A u \in Threads : Reaps(u, c)' => Reaps(u, c)
  PROVE  Home(c)'
<1>0. obs[c].runner \in Threads \cup {None}
  BY DEF DataOK, ObsType
<1> QED BY <1>0, Dirs DEF Home, Homing, Unmoved

\* A call that is in no queue and not turned over.
LEMMA RestHome ==
  ASSUME NEW c \in Ctcs,
         \A u \in Threads : ~In(enter'[u], c) /\ ~Reaps(u, c)',
         \A w \in Workers, d \in Chan!Dirs : ~In(fifo'[w][d], c),
         obs'[c].runner # None => /\ ctc'[c].stat = "RUNNING" /\ ctc'[c].asc = "submit"
                                  /\ c \in held'[obs'[c].runner],
         ctc'[c].asc = "syc" => ctc'[c].to \in Workers,
         obs'[c].pop \in {None, ctc'[c].from}
  PROVE  Homing(c)'
BY Dirs DEF Homing

\* A call that is sent.
LEMMA SentHome ==
  ASSUME NEW c \in Ctcs, NEW t \in Threads, NEW u \in Threads, Sent(t, u, c),
         \A v \in Threads : ~Reaps(v, c)',
         obs'[c].runner = None,
         ctc'[c].stat \notin {"COMMIT", "CANCEL", "RUNNING"} => u = ctc'[c].from,
         ctc'[c].stat = "COMMIT" /\ ctc'[c].asc = "syc" => t # Master /\ t = ctc'[c].from,
         ctc'[c].asc = "none" => ctc'[c].stat = "FINISH",
         ctc'[c].asc = "syc" => ctc'[c].to \in Workers,
         obs'[c].pop \in {None, ctc'[c].from}
  PROVE  Homing(c)'
BY Dirs DEF Homing, Sent

LEMMA StillPlaces ==
  ASSUME QueuesOK, OnePlace, UNCHANGED chanVars
  PROVE  QueuesOK' /\ OnePlace' /\ \A x \in Ctcs : Unmoved(x)
BY DEF chanVars, QueuesOK, OnePlace, HeldOnce, EnterOnce, FifoOnce, Unmoved

\* A step of t that does not go on turning over: nothing is newly turned over.
LEMMA ReapFrame ==
  ASSUME DataOK, NEW t \in Threads, NEW q, q # "reap", pc' = [pc EXCEPT ![t] = q],
         \A u \in Threads : u # t => cur'[u] = cur[u]
  PROVE  /\ \A u \in Threads, x \in Ctcs : Reaps(u, x)' => Reaps(u, x) /\ u # t
         /\ \A u \in Threads : u # t => pc'[u] = pc[u]
         /\ pc'[t] = q
BY DEF DataOK, Reaps

LEMMA InitGood == Init => IInv
<1> SUFFICES ASSUME Init PROVE IInv
  OBVIOUS
<1>1. /\ ctc \in [Ctcs -> [stat : {"INITIAL"}, asc : {"none"}, from : Owners,
                           to : Targets, reto : {FALSE}, detach : Detached,
                           ret : {0}, refc : {1}, alive : {TRUE}, cop : {FALSE}]]
      /\ obs = [c \in Ctcs |-> [round |-> 0, retos |-> 0, runs |-> 0, result |-> 0,
                 cancelled |-> FALSE, runner |-> None, pop |-> None, syc |-> FALSE,
                 early |-> FALSE]]
      /\ held = [t \in Threads |-> {c \in Ctcs : ctc[c].from = t}]
      /\ pc = [t \in Threads |-> "loop"]
      /\ cur = [t \in Threads |-> CHOOSE c \in Ctcs : TRUE]
  BY DEF Init
<1>2. /\ fifo = [w \in Workers |-> [d \in Chan!Dirs |-> <<>>]]
      /\ enter = [t \in Threads |-> <<>>]
  BY DEF Init, Chan!Init, Chan!Threads, Threads
<1>3. DataOK
  <2>1. ctc \in [Ctcs -> CtcType]
    <3>1. \A c \in Ctcs : ctc[c] \in CtcType
      <4>1. /\ Owners \subseteq Threads /\ Targets \subseteq Threads
            /\ Detached \subseteq BOOLEAN /\ 0 \in Cancelled .. MaxRounds
        BY CtcAssumption, RetType DEF Threads, Cancelled
      <4> TAKE c \in Ctcs
      <4>2. ctc[c] \in [stat : {"INITIAL"}, asc : {"none"}, from : Owners,
                        to : Targets, reto : {FALSE}, detach : Detached,
                        ret : {0}, refc : {1}, alive : {TRUE}, cop : {FALSE}]
        BY <1>1
      <4>3. PICK o \in Owners, to \in Targets, b \in Detached :
              ctc[c] = [stat |-> "INITIAL", asc |-> "none", from |-> o, to |-> to, reto |-> FALSE,
                        detach |-> b, ret |-> 0, refc |-> 1, alive |-> TRUE, cop |-> FALSE]
        BY <4>2
      <4>4. o \in Threads /\ to \in Threads /\ b \in BOOLEAN
        BY <4>1
      <4> QED BY <4>1, <4>3, <4>4 DEF CtcType, Stats
    <3> QED BY <1>1, <3>1
  <2>2. obs \in [Ctcs -> ObsType]
    BY <1>1, CtcAssumption DEF ObsType
  <2>3. cur \in [Threads -> Ctcs]
    <3>1. (CHOOSE c \in Ctcs : TRUE) \in Ctcs
      BY CtcAssumption
    <3> QED BY <1>1, <3>1
  <2> QED BY <1>1, <2>1, <2>2, <2>3 DEF DataOK
<1>4. QueuesOK
  <2>1. <<>> \in Seq(Ctcs)
    OBVIOUS
  <2> QED BY <1>1, <1>2, <2>1 DEF QueuesOK
<1>5. /\ \A t \in Threads, c \in Ctcs : ~In(enter[t], c) /\ ~Reaps(t, c)
      /\ \A w \in Workers, d \in Chan!Dirs, c \in Ctcs : ~In(fifo[w][d], c)
      /\ \A t \in Threads : Distinct(enter[t])
      /\ \A w \in Workers, d \in Chan!Dirs : Distinct(fifo[w][d])
  BY <1>1, <1>2 DEF In, Distinct, Reaps
<1>6. OnePlace
  BY <1>1, <1>5 DEF OnePlace, HeldOnce, EnterOnce, FifoOnce
<1>7. ReapedInHand
  BY <1>1 DEF ReapedInHand
<1>8. ASSUME NEW c \in Ctcs PROVE Track(c)
  <2>1. /\ ctc[c].stat = "INITIAL" /\ ctc[c].asc = "none" /\ ctc[c].alive
        /\ ctc[c].from \in Threads
    BY <1>1, CtcAssumption DEF Threads
  <2>2. obs[c].runner = None /\ obs[c].pop = None /\ ~obs[c].cancelled
    BY <1>1
  <2>3. c \in held[ctc[c].from]
    BY <1>1, <2>1
  <2> QED BY <1>5, <2>1, <2>2, <2>3
          DEF Track, Idle, Gone, Served, OnItsWay, Runs, Popped, Doing
<1>9. ASSUME NEW c \in Ctcs PROVE Home(c)
  <2>1. ctc[c].asc = "none" /\ obs[c].runner = None /\ obs[c].pop = None
    BY <1>1
  <2> QED BY <1>5, <2>1, Dirs DEF Home, Homing
<1> QED BY <1>3, <1>4, <1>6, <1>7, <1>8, <1>9, TypeParts DEF IInv, Good

\* What a step keeps besides the types of the elements.
Kept == QueuesOK' /\ Good'

LEMMA AddKeeps ==
  ASSUME DataOK, QueuesOK, Good, NEW t \in Threads, NEW c \in Ctcs,
         NEW a \in {"submit", "syc"}, Add(t, c, a),
         a = "syc" => t \in SycThreads /\ ctc[c].to \in SycThreads
  PROVE  Kept
<1>0. ctc \in [Ctcs -> CtcType] /\ obs \in [Ctcs -> ObsType] /\ cur \in [Threads -> Ctcs]
  BY DEF DataOK
<1>a. ctc[c].to \in Threads /\ ctc[c].alive /\ ctc[c].from = t
  BY <1>0 DEF Add, User, CtcType
<1>1. /\ QueuesOK' /\ OnePlace' /\ c \in held[t]
      /\ \A x \in Ctcs \ {c} : Unmoved(x)
      /\ Sent(t, ctc[c].to, c)
  BY <1>a, HandToPlaces DEF Add, Good
<1>2. /\ \A u \in Threads, x \in Ctcs : Reaps(u, x)' => Reaps(u, x) /\ u # t
      /\ pc'[t] = "add"
  <2>1. pc' = [pc EXCEPT ![t] = "add"] /\ \A u \in Threads : u # t => cur'[u] = cur[u]
    BY <1>0 DEF Add
  <2> QED BY <2>1, ReapFrame
<1>3. \A x \in Ctcs \ {c} : ctc'[x] = ctc[x] /\ obs'[x] = obs[x]
  BY <1>0 DEF Add
<1>4. /\ ctc'[c].stat = "COMMIT" /\ ctc'[c].asc = a /\ ~ctc'[c].reto /\ ctc'[c].alive
      /\ obs'[c].runs = 0 /\ obs'[c].retos = 0 /\ ~obs'[c].cancelled
      /\ obs'[c].runner = None /\ obs'[c].pop = None
      /\ obs'[c].syc = (obs[c].syc \/ a = "syc")
  BY <1>0, <1>a DEF Add, CtcType
<1>5. ReapedInHand'
  <2>1. \A u \in Threads : pc'[u] = "reap" => Reaps(u, cur[u]) /\ cur'[u] = cur[u] /\ u # t
    BY <1>0, <1>2 DEF Add, Reaps
  <2>2. \A u \in Threads : u # t => c \notin held[u]
    BY <1>1 DEF Good, OnePlace, HeldOnce
  <2>3. \A u \in Threads : pc'[u] = "reap" => cur[u] \in held[u] /\ cur[u] # c /\ cur[u] \in Ctcs
    BY <1>0, <2>1, <2>2 DEF Good, ReapedInHand, Reaps
  <2> QED BY <1>1, <2>1, <2>3 DEF ReapedInHand, Unmoved
<1>6. ASSUME NEW x \in Ctcs, ~obs'[x].syc PROVE Track(x)'
  <2>1. CASE x # c
    BY <1>1, <1>2, <1>3, <1>6, <2>1, TrackFrame DEF Good, SameCall
  <2>2. CASE x = c
    <3>1. a = "submit"
      BY <1>4, <1>6, <2>2
    <3> QED BY <1>4, <2>2, <3>1 DEF Track, Idle, Gone, Served, OnItsWay, Runs, Popped, Doing
  <2> QED BY <2>1, <2>2
<1>7. ASSUME NEW x \in Ctcs PROVE Home(x)'
  <2>1. CASE x # c
    BY <1>1, <1>2, <1>3, <2>1, HomeFrame DEF Good
  <2>2. CASE x = c
    <3>1. \A u \in Threads : ~Reaps(u, c)'
      BY <1>1, <1>2 DEF Good, OnePlace, HeldOnce, ReapedInHand, Reaps
    <3>2. ctc'[c].to = ctc[c].to /\ ctc'[c].from = t
      BY <1>0, <1>a DEF Add, CtcType
    <3>3. ASSUME SycThreads \subseteq Workers PROVE Homing(c)'
      <4>1. a = "syc" => t # Master /\ ctc[c].to \in Workers
        BY <3>3, Dirs
      <4> QED BY <1>1, <1>4, <1>a, <3>1, <3>2, <4>1, SentHome
    <3> QED BY <2>2, <3>3 DEF Home
  <2> QED BY <2>1, <2>2
<1> QED BY <1>1, <1>5, <1>6, <1>7 DEF Kept, Good

\* A step about c that moves nothing.
LEMMA LocalKeeps ==
  ASSUME DataOK, QueuesOK, Good, UNCHANGED chanVars, NEW c \in Ctcs,
         \A u \in Threads : pc'[u] = "reap" => pc[u] = "reap" /\ cur'[u] = cur[u],
         \A x \in Ctcs \ {c} : SameCall(x),
         SameCall(c) \/ (Home(c)' /\ (~obs'[c].syc => Track(c)'))
  PROVE  Kept
<1>1. QueuesOK' /\ OnePlace' /\ \A x \in Ctcs : Unmoved(x)
  BY StillPlaces DEF Good
<1>2. \A u \in Threads, x \in Ctcs : Reaps(u, x)' => Reaps(u, x)
  BY DEF Reaps
<1>3. ReapedInHand'
  BY DEF Good, ReapedInHand, chanVars
<1>4. ASSUME NEW x \in Ctcs, SameCall(x), ~obs'[x].syc PROVE Track(x)'
  BY <1>1, <1>2, <1>4, TrackFrame DEF Good
<1>5. ASSUME NEW x \in Ctcs, SameCall(x) PROVE Home(x)'
  BY <1>1, <1>2, <1>5, HomeFrame DEF Good, SameCall
<1> QED BY <1>1, <1>3, <1>4, <1>5 DEF Kept, Good

LEMMA AddRepeatKeeps ==
  ASSUME DataOK, QueuesOK, Good, NEW t \in Threads, NEW c \in Ctcs, AddRepeat(t, c)
  PROVE  Kept
<1>1. \A x \in Ctcs : SameCall(x)
  BY DEF DataOK, CtcType, AddRepeat, SameCall
<1> QED BY <1>1, LocalKeeps DEF AddRepeat

LEMMA AddStoreKeeps ==
  ASSUME DataOK, QueuesOK, Good, NEW t \in Threads, AddStore(t)
  PROVE  Kept
<1>1. PICK c \in Ctcs : cur[t] = c
  BY DEF DataOK
<1>2. \A x \in Ctcs : SameCall(x)
  BY <1>1 DEF DataOK, CtcType, AddStore, SameCall
<1>3. \A u \in Threads : pc'[u] = "reap" => pc[u] = "reap" /\ cur'[u] = cur[u]
  BY DEF DataOK, AddStore
<1> QED BY <1>2, <1>3, LocalKeeps DEF AddStore

LEMMA AwaitKeeps ==
  ASSUME DataOK, QueuesOK, Good, NEW t \in Threads, NEW c \in Ctcs, Await(t, c)
  PROVE  Kept
<1>1. \A x \in Ctcs : SameCall(x)
  BY DEF DataOK, CtcType, Await, SameCall
<1> QED BY <1>1, LocalKeeps DEF Await

LEMMA DelKeeps ==
  ASSUME DataOK, QueuesOK, Good, NEW t \in Threads, NEW c \in Ctcs, Del(t, c)
  PROVE  Kept
<1>1. \A x \in Ctcs : SameCall(x)
  BY DEF DataOK, CtcType, Del, SameCall
<1>2. \A u \in Threads : pc'[u] = "reap" => pc[u] = "reap" /\ cur'[u] = cur[u]
  BY DEF DataOK, Del
<1> QED BY <1>1, <1>2, LocalKeeps DEF Del

\* Freed by its owner: it is idle, so in its owner's hands.
LEMMA DelCheckKeeps ==
  ASSUME DataOK, QueuesOK, Good, NEW t \in Threads, DelCheck(t)
  PROVE  Kept
<1>0. ctc \in [Ctcs -> CtcType] /\ obs' = obs /\ UNCHANGED chanVars
  BY DEF DataOK, DelCheck
<1>1. PICK c \in Ctcs : cur[t] = c
  BY DEF DataOK
<1>2. \A u \in Threads : pc'[u] = "reap" => pc[u] = "reap" /\ cur'[u] = cur[u]
  BY DEF DataOK, DelCheck
<1>3. \A x \in Ctcs \ {c} : SameCall(x)
  BY <1>0, <1>1 DEF DelCheck, SameCall
<1>4. /\ ctc'[c].asc = ctc[c].asc /\ ctc'[c].stat = ctc[c].stat /\ ctc'[c].from = ctc[c].from
      /\ ctc'[c].alive = (ctc[c].alive /\ Doing(c)) /\ ctc'[c].reto = ctc[c].reto
      /\ ctc'[c].to = ctc[c].to
  BY <1>0, <1>1 DEF DelCheck, CtcType
<1>6. Home(c)'
  <2>1. Unmoved(c) /\ \A u \in Threads : Reaps(u, c)' => Reaps(u, c)
    BY <1>0, <1>2, StillPlaces DEF Good, Reaps
  <2> QED BY <1>0, <1>4, <2>1, HomeFrame DEF Good
<1>5. ASSUME ~obs'[c].syc PROVE Track(c)' \/ SameCall(c)
  <2>0. Track(c)
    BY <1>0, <1>5 DEF Good
  <2>1. CASE ~ctc[c].alive \/ Doing(c)
    BY <1>0, <1>4, <2>1 DEF SameCall, CtcType
  <2>2. CASE ctc[c].alive /\ ~Doing(c)
    <3>1. /\ c \in held[ctc[c].from] /\ ctc[c].from \in Threads
          /\ \A u \in Threads : ~Reaps(u, c)
      BY <1>0, <2>0, <2>2 DEF Track, Idle, CtcType
    <3>2. /\ \A u \in Threads : ~In(enter[u], c)
          /\ \A w \in Workers, d \in Chan!Dirs : ~In(fifo[w][d], c)
      BY <3>1 DEF Good, OnePlace, HeldOnce
    <3>3. obs[c].runner = None
      BY <2>0, <2>2 DEF Track, Served, Doing
    <3>4. \A u \in Threads : ~Reaps(u, c)'
      BY <1>2, <3>1 DEF Reaps
    <3>5. ~ctc'[c].alive /\ ~Doing(c)'
      BY <1>4, <2>2 DEF Doing
    <3>6. Gone(c)' /\ Idle(c)' /\ Served(c)' /\ OnItsWay(c)'
      BY <1>0, <3>2, <3>3, <3>4, <3>5, Dirs
         DEF Gone, Idle, Served, OnItsWay, chanVars
    <3>7. Runs(c)'
      BY <1>0, <1>4, <2>0 DEF Track, Runs, Doing
    <3>8. Popped(c)'
      BY <1>0, <1>4, <2>0, <3>5 DEF Track, Popped, Doing
    <3> QED BY <3>6, <3>7, <3>8 DEF Track
  <2> QED BY <2>1, <2>2
<1> QED BY <1>0, <1>2, <1>3, <1>5, <1>6, LocalKeeps

LEMMA EndKeeps ==
  ASSUME DataOK, QueuesOK, Good, NEW t \in Threads, NEW c \in Ctcs, End(t, c)
  PROVE  Kept
<1>0. /\ ctc \in [Ctcs -> CtcType] /\ obs \in [Ctcs -> ObsType]
      /\ pc' = pc /\ cur' = cur /\ UNCHANGED chanVars
  BY DEF DataOK, End
<1>1. \A x \in Ctcs \ {c} : SameCall(x)
  BY <1>0 DEF End, SameCall
<1>2. /\ ctc'[c].asc = ctc[c].asc /\ ctc'[c].stat = "CANCEL" /\ ctc'[c].from = ctc[c].from
      /\ ctc'[c].alive = ctc[c].alive /\ ctc'[c].reto = ctc[c].reto
      /\ ctc[c].stat = "COMMIT" /\ ctc[c].alive /\ Doing(c) /\ ctc'[c].to = ctc[c].to
  BY <1>0 DEF End, User, CtcType
<1>3. /\ obs'[c].runs = obs[c].runs /\ obs'[c].retos = obs[c].retos /\ obs'[c].cancelled
      /\ obs'[c].runner = obs[c].runner /\ obs'[c].pop = obs[c].pop /\ obs'[c].syc = obs[c].syc
  BY <1>0 DEF End, ObsType
<1>4. ASSUME ~obs'[c].syc PROVE Track(c)'
  <2>0. Track(c)
    BY <1>3, <1>4 DEF Good
  <2>1. Idle(c)' /\ Gone(c)' /\ Served(c)' /\ OnItsWay(c)'
    BY <1>2, <1>3, <2>0 DEF Track, Idle, Gone, Served, OnItsWay, Doing
  <2>2. Runs(c)' /\ Popped(c)'
    BY <1>2, <1>3, <2>0 DEF Track, Runs, Popped, Doing
  <2> QED BY <2>1, <2>2 DEF Track
<1>5. Home(c)'
  BY <1>2, <1>3 DEF Good, Home, Homing, Doing
<1> QED BY <1>0, <1>1, <1>4, <1>5, LocalKeeps

LEMMA RetoKeeps ==
  ASSUME DataOK, QueuesOK, Good, NEW t \in Threads, NEW c \in Ctcs, NEW u \in Targets,
         Reto(t, c, u)
  PROVE  Kept
<1>0. /\ ctc \in [Ctcs -> CtcType] /\ obs \in [Ctcs -> ObsType]
      /\ pc' = pc /\ cur' = cur /\ UNCHANGED chanVars
  BY DEF DataOK, Reto
<1>1. \A x \in Ctcs \ {c} : SameCall(x)
  BY <1>0 DEF Reto, SameCall
<1>2. /\ ctc'[c].asc = ctc[c].asc /\ ctc'[c].stat = ctc[c].stat /\ ctc'[c].from = ctc[c].from
      /\ ctc'[c].alive = ctc[c].alive /\ ctc'[c].reto /\ ~ctc[c].reto
      /\ ctc[c].stat = "RUNNING" /\ obs[c].runner = t
  BY <1>0 DEF Reto, CtcType
<1>3. /\ obs'[c].runs = obs[c].runs /\ obs'[c].retos = obs[c].retos + 1
      /\ obs'[c].cancelled = obs[c].cancelled
      /\ obs'[c].runner = obs[c].runner /\ obs'[c].pop = obs[c].pop /\ obs'[c].syc = obs[c].syc
      /\ obs[c].runs \in Nat /\ obs[c].retos \in Nat /\ t # None
  BY <1>0, CtcAssumption DEF Reto, ObsType, Threads, None
<1>4. ASSUME ~obs'[c].syc PROVE Track(c)'
  <2>0. Track(c)
    BY <1>3, <1>4 DEF Good
  <2>a. Unmoved(c) /\ \A v \in Threads : Reaps(v, c)' <=> Reaps(v, c)
    BY <1>0, StillPlaces DEF Good, Reaps
  <2>1. Idle(c)' /\ Gone(c)'
    BY <1>2, <1>3, <2>0, <2>a DEF Track, Served, Idle, Gone, Doing
  <2>2. Served(c)'
    BY <1>2, <1>3, <2>0, <2>a DEF Track, Served, Unmoved
  <2>3. OnItsWay(c)'
    BY <1>2, <2>0, <2>a, Dirs DEF Track, OnItsWay, Unmoved
  <2>4. Runs(c)'
    BY <1>2, <1>3, <2>0 DEF Track, Runs, Doing
  <2>5. Popped(c)'
    BY <1>2, <1>3, <2>0 DEF Track, Popped, Doing
  <2> QED BY <2>1, <2>2, <2>3, <2>4, <2>5 DEF Track
<1>5. Home(c)'
  <2>1. Unmoved(c) /\ \A v \in Threads : Reaps(v, c)' <=> Reaps(v, c)
    BY <1>0, StillPlaces DEF Good, Reaps
  <2> QED BY <1>2, <1>3, <2>1, Dirs DEF Good, Home, Homing, Unmoved
<1> QED BY <1>0, <1>1, <1>4, <1>5, LocalKeeps

\* A step of t about c that may send it.
LEMMA MoveKeeps ==
  ASSUME DataOK, QueuesOK, Good, NEW t \in Threads, NEW c \in Ctcs,
         UNCHANGED chanVars \/ \E u \in Threads : HandTo(t, u, c),
         pc'[t] # "reap", \A u \in Threads : u # t => pc'[u] = pc[u] /\ cur'[u] = cur[u],
         \A x \in Ctcs \ {c} : SameCall(x),
         Home(c)', ~obs'[c].syc => Track(c)'
  PROVE  Kept
<1>1. /\ QueuesOK' /\ OnePlace'
      /\ \A x \in Ctcs \ {c} : Unmoved(x)
      /\ UNCHANGED chanVars \/ c \in held[t]
  BY StillPlaces, HandToPlaces DEF Good
<1>2. \A u \in Threads, x \in Ctcs : Reaps(u, x)' => Reaps(u, x) /\ u # t
  BY DEF Reaps
<1>3. ReapedInHand'
  <2> SUFFICES ASSUME NEW u \in Threads, pc'[u] = "reap" PROVE cur'[u] \in held'[u]
    BY DEF ReapedInHand
  <2>1. u # t /\ pc[u] = "reap" /\ cur'[u] = cur[u]
    OBVIOUS
  <2>2. PICK x \in Ctcs : cur[u] = x
    BY DEF DataOK
  <2>3. x \in held[u]
    BY <2>1, <2>2 DEF Good, ReapedInHand
  <2>4. CASE UNCHANGED chanVars
    BY <2>1, <2>2, <2>3, <2>4 DEF chanVars
  <2>5. CASE c \in held[t]
    <3>1. x # c
      BY <2>1, <2>3, <2>5 DEF Good, OnePlace, HeldOnce
    <3> QED BY <1>1, <2>1, <2>2, <2>3, <3>1 DEF Unmoved
  <2> QED BY <1>1, <2>4, <2>5
<1>4. ASSUME NEW x \in Ctcs, x # c, ~obs'[x].syc PROVE Track(x)'
  BY <1>1, <1>2, <1>4, TrackFrame DEF Good
<1>5. ASSUME NEW x \in Ctcs, x # c PROVE Home(x)'
  BY <1>1, <1>2, <1>5, HomeFrame DEF Good, SameCall
<1> QED BY <1>1, <1>3, <1>4, <1>5 DEF Kept, Good

LEMMA PopFrontKeeps ==
  ASSUME DataOK, QueuesOK, Good, NEW t \in Threads, PopFront(t)
  PROVE  Kept
<1>1. PICK c : Head(enter[t]) = c
  OBVIOUS
<1>2. /\ Chan!Reap(t) /\ ctc' = ctc /\ obs' = obs
      /\ cur' = [cur EXCEPT ![t] = c] /\ pc' = [pc EXCEPT ![t] = "reap"]
  BY <1>1 DEF PopFront
<1>3. /\ QueuesOK' /\ OnePlace' /\ c \in Ctcs /\ In(enter[t], c)
      /\ \A x \in Ctcs \ {c} : Unmoved(x)
      /\ \A u \in Threads : c \in held'[u] <=> u = t
      /\ \A u \in Threads : ~In(enter'[u], c)
      /\ \A w \in Workers, d \in Chan!Dirs : ~In(fifo'[w][d], c)
  BY <1>1, <1>2, ReapPlaces DEF Good
<1>4. \A u \in Threads : c \notin held[u] /\ ~Reaps(u, c)
  BY <1>3 DEF Good, OnePlace, HeldOnce, ReapedInHand, Reaps
<1>5. /\ pc'[t] = "reap" /\ cur'[t] = c
      /\ \A u \in Threads : u # t => pc'[u] = pc[u] /\ cur'[u] = cur[u]
  BY <1>2 DEF DataOK
<1>6. ReapedInHand'
  <2> SUFFICES ASSUME NEW u \in Threads, pc'[u] = "reap", u # t PROVE cur'[u] \in held'[u]
    BY <1>3, <1>5 DEF ReapedInHand
  <2>1. PICK x \in Ctcs : cur[u] = x
    BY DEF DataOK
  <2>2. x \in held[u] /\ x # c
    BY <1>4, <1>5, <2>1 DEF Good, ReapedInHand
  <2> QED BY <1>3, <1>5, <2>1, <2>2 DEF Unmoved
<1>7. ASSUME NEW x \in Ctcs, ~obs'[x].syc PROVE Track(x)'
  <2>1. CASE x # c
    <3>1. \A u \in Threads : Reaps(u, x)' => Reaps(u, x)
      BY <1>5, <2>1 DEF Reaps
    <3> QED BY <1>2, <1>3, <1>7, <2>1, <3>1, TrackFrame DEF Good, SameCall
  <2>2. CASE x = c
    <3>0. Track(c) /\ ctc[c].from \in Threads /\ obs[c].runner \in Threads \cup {None}
      BY <1>2, <1>3, <1>7, <2>2 DEF Good, DataOK, CtcType, ObsType
    <3>1. ctc[c].alive /\ Doing(c) /\ obs[c].runner = None
      BY <1>3, <1>4, <3>0 DEF Track, Gone, Idle, Served
    <3>2. \A u \in Threads : Reaps(u, c)' => u = t
      BY <1>4, <1>5 DEF Reaps
    <3>3. Idle(c)' /\ Gone(c)' /\ Served(c)'
      BY <1>2, <3>1 DEF Idle, Gone, Served, Doing
    <3>4. OnItsWay(c)'
      BY <1>2, <1>3, <3>0, <3>2, Dirs DEF Track, OnItsWay
    <3>5. Runs(c)' /\ Popped(c)'
      BY <1>2, <3>0 DEF Track, Runs, Popped, Doing
    <3> QED BY <2>2, <3>3, <3>4, <3>5 DEF Track
  <2> QED BY <2>1, <2>2
<1>8. ASSUME NEW x \in Ctcs PROVE Home(x)'
  <2>1. CASE x # c
    <3>1. \A u \in Threads : Reaps(u, x)' => Reaps(u, x)
      BY <1>5, <2>1 DEF Reaps
    <3> QED BY <1>2, <1>3, <2>1, <3>1, HomeFrame DEF Good
  <2>2. CASE x = c
    <3>1. obs[c].runner \in Threads \cup {None} /\ Home(c)
      BY <1>3 DEF Good, DataOK, ObsType
    <3>2. \A u \in Threads : Reaps(u, c)' => u = t
      BY <1>4, <1>5 DEF Reaps
    <3> QED BY <1>2, <1>3, <1>4, <2>2, <3>1, <3>2, Dirs DEF Home, Homing
  <2> QED BY <2>1, <2>2
<1> QED BY <1>3, <1>6, <1>7, <1>8 DEF Kept, Good

LEMMA TransferKeeps ==
  ASSUME DataOK, QueuesOK, Good, NEW v \in Workers, NEW e \in Chan!Dirs, Transfer(v, e)
  PROVE  Kept
<1>1. PICK r \in Threads : Chan!Receiver(v, e) = r
  BY Dirs DEF Chan!Receiver
<1>2. /\ QueuesOK' /\ OnePlace' /\ held' = held
      /\ \A x \in Ctcs, u \in Threads :
           In(enter'[u], x) => In(enter[u], x) \/ (u = r /\ In(fifo[v][e], x))
      /\ \A x \in Ctcs, w \in Workers, d \in Chan!Dirs :
           In(fifo'[w][d], x) => In(fifo[w][d], x)
  BY <1>1, DeliverPlaces DEF Transfer, Good
<1>3. ctc' = ctc /\ obs' = obs /\ pc' = pc /\ cur' = cur
  BY DEF Transfer
<1>4. ReapedInHand'
  BY <1>2, <1>3 DEF Good, ReapedInHand
<1>5. \A u \in Threads, x \in Ctcs : Reaps(u, x)' <=> Reaps(u, x)
  BY <1>3 DEF Reaps
<1>6. ASSUME NEW x \in Ctcs, ~obs'[x].syc PROVE Track(x)'
  <2>0. Track(x)
    BY <1>3, <1>6 DEF Good
  <2>1. Idle(x)' /\ Served(x)'
    BY <1>2, <1>3, <1>5, <2>0 DEF Track, Idle, Served, Doing
  <2>2. Gone(x)'
    BY <1>2, <1>3, <1>5, <2>0 DEF Track, Gone
  <2>3. OnItsWay(x)'
    <3>1. e = "accept" => r = v
      BY <1>1 DEF Chan!Receiver
    <3>2. e = "commit" => r = Master
      BY <1>1 DEF Chan!Receiver
    <3>3. e \in {"accept", "commit"} /\ "accept" \in Chan!Dirs /\ "commit" \in Chan!Dirs
          /\ Master \in Threads /\ Workers \subseteq Threads /\ Master \notin Workers
      BY Dirs
    <3> QED BY <1>2, <1>3, <1>5, <2>0, <3>1, <3>2, <3>3 DEF Track, OnItsWay
  <2>4. Runs(x)' /\ Popped(x)'
    BY <1>3, <2>0 DEF Track, Runs, Popped, Doing
  <2> QED BY <2>1, <2>2, <2>3, <2>4 DEF Track
<1>7. ASSUME NEW x \in Ctcs PROVE Home(x)'
  <2>1. Home(x)
    BY DEF Good
  <2>2. e = "accept" => r = v
    BY <1>1 DEF Chan!Receiver
  <2>3. e = "commit" => r = Master
    BY <1>1 DEF Chan!Receiver
  <2>4. e \in {"accept", "commit"} /\ "accept" \in Chan!Dirs /\ "commit" \in Chan!Dirs
        /\ Master \in Threads /\ Workers \subseteq Threads /\ Master \notin Workers
    BY Dirs
  <2> QED BY <1>2, <1>3, <1>5, <2>1, <2>2, <2>3, <2>4 DEF Home, Homing
<1> QED BY <1>2, <1>4, <1>6, <1>7 DEF Kept, Good

LEMMA ReleasedFields ==
  ASSUME NEW r \in CtcType
  PROVE  /\ Released(r).asc = r.asc /\ Released(r).stat = r.stat /\ Released(r).from = r.from
         /\ Released(r).reto = r.reto /\ Released(r).ret = r.ret /\ Released(r).refc = r.refc
         /\ Released(r).detach = r.detach /\ Released(r).to = r.to
         /\ Released(r).alive = (r.alive /\ r.refc > 0)
BY DEF Released, CtcType

\* What a thread turns over is a call under way, and nobody else has it.
LEMMA Turned ==
  ASSUME DataOK, Good, NEW t \in Threads, NEW c \in Ctcs, pc[t] = "reap", cur[t] = c,
         pc' = [pc EXCEPT ![t] = "loop"], cur' = cur
  PROVE  /\ c \in held[t] /\ pc'[t] # "reap"
         /\ \A u \in Threads : u # t => pc'[u] = pc[u] /\ cur'[u] = cur[u]
         /\ \A u \in Threads : ~Reaps(u, c)'
         /\ \A u \in Threads : ~In(enter[u], c)
         /\ \A w \in Workers, d \in Chan!Dirs : ~In(fifo[w][d], c)
         /\ ~obs[c].syc =>
              /\ Track(c) /\ Reaps(t, c) /\ ctc[c].alive /\ ctc[c].asc = "submit"
              /\ obs[c].runner = None /\ obs[c].pop = None /\ ctc[c].stat # "INITIAL"
         /\ SycThreads \subseteq Workers =>
              /\ Homing(c) /\ Reaps(t, c) /\ obs[c].runner = None
              /\ obs[c].pop \in {None, ctc[c].from}
              /\ ctc[c].asc = "syc" => ctc[c].to \in Workers
              /\ ctc[c].asc = "none" => ctc[c].stat = "FINISH"
<1>1. c \in held[t] /\ Reaps(t, c)
  BY DEF Good, ReapedInHand, Reaps
<1>2. /\ pc'[t] # "reap" /\ \A u \in Threads : u # t => pc'[u] = pc[u] /\ cur'[u] = cur[u]
  BY DEF DataOK
<1>3. /\ \A u \in Threads : c \in held[u] => u = t
      /\ \A u \in Threads : ~In(enter[u], c)
      /\ \A w \in Workers, d \in Chan!Dirs : ~In(fifo[w][d], c)
  BY <1>1 DEF Good, OnePlace, HeldOnce
<1>4. \A u \in Threads : ~Reaps(u, c)'
  BY <1>2, <1>3 DEF Good, ReapedInHand, Reaps
<1>5. ASSUME ~obs[c].syc
      PROVE  /\ Track(c) /\ ctc[c].alive /\ ctc[c].asc = "submit"
             /\ obs[c].runner = None /\ obs[c].pop = None /\ ctc[c].stat # "INITIAL"
  <2>1. Track(c)
    BY <1>5 DEF Good
  <2>2. ctc[c].alive /\ Doing(c)
    BY <1>1, <2>1 DEF Track, Gone, Idle
  <2> QED BY <1>1, <2>1, <2>2 DEF Track, Served, Popped, Runs, Doing
<1>6. ASSUME SycThreads \subseteq Workers
      PROVE  /\ Homing(c) /\ obs[c].runner = None
             /\ obs[c].pop \in {None, ctc[c].from}
             /\ ctc[c].asc = "syc" => ctc[c].to \in Workers
             /\ ctc[c].asc = "none" => ctc[c].stat = "FINISH"
  <2>1. Homing(c)
    BY <1>6 DEF Good, Home
  <2> QED BY <1>1, <2>1 DEF Homing
<1> QED BY <1>1, <1>2, <1>3, <1>4, <1>5, <1>6

LEMMA ReapCancelKeeps ==
  ASSUME DataOK, QueuesOK, Good, NEW t \in Threads, NEW c \in Ctcs, pc[t] = "reap", cur[t] = c,
         pc' = [pc EXCEPT ![t] = "loop"], cur' = cur, ReapCancel(t, c)
  PROVE  Kept
<1> DEFINE r == [ctc[c] EXCEPT !.stat = "FINISH"]
<1>0. ctc \in [Ctcs -> CtcType] /\ ctc[c] \in CtcType /\ r \in CtcType /\ obs' = obs
      /\ ctc[c].from \in Threads
  <2>1. ctc \in [Ctcs -> CtcType] /\ obs' = obs
    BY DEF DataOK, ReapCancel
  <2>2. ctc[c] \in CtcType
    BY <2>1
  <2>3. r \in CtcType /\ ctc[c].from \in Threads
    BY <2>2 DEF CtcType, Stats
  <2> QED BY <2>1, <2>2, <2>3
<1>1. /\ r.asc = ctc[c].asc /\ r.stat = "FINISH" /\ r.from = ctc[c].from /\ r.reto = ctc[c].reto
      /\ r.alive = ctc[c].alive /\ r.refc = ctc[c].refc
  BY <1>0 DEF CtcType
<1>2. /\ ctc[c].stat = "CANCEL" /\ ctc' = [ctc EXCEPT ![c] = Released(r)]
      /\ \/ HandTo(t, r.from, c)
         \/ UNCHANGED chanVars
  BY DEF ReapCancel
<1> HIDE DEF r
<1>3. /\ ctc'[c].asc = ctc[c].asc /\ ctc'[c].stat = "FINISH" /\ ctc'[c].from = ctc[c].from
      /\ ctc'[c].reto = ctc[c].reto
      /\ \A x \in Ctcs \ {c} : SameCall(x)
  BY <1>0, <1>1, <1>2, ReleasedFields DEF SameCall
<1>4. ASSUME ~obs'[c].syc PROVE Track(c)'
  <2>0. /\ Track(c) /\ ctc[c].asc = "submit" /\ obs[c].runner = None /\ obs[c].pop = None
        /\ \A u \in Threads : ~Reaps(u, c)'
    BY <1>0, <1>4, Turned
  <2>1. Idle(c)' /\ Served(c)'
    BY <1>0, <1>3, <2>0 DEF Idle, Served, Doing
  <2>2. Runs(c)' /\ Popped(c)'
    <3>1. obs[c].retos \in Nat
      BY CtcAssumption DEF DataOK, ObsType
    <3> QED BY <1>0, <1>2, <1>3, <2>0, <3>1 DEF Track, Runs, Popped, Doing
  <2>3. CASE HandTo(t, r.from, c) /\ ~UNCHANGED chanVars
    <3>1. Sent(t, ctc[c].from, c)
      BY <1>0, <1>1, <2>3, HandToPlaces DEF Good
    <3>2. OnItsWay(c)'
      BY <1>3, <2>0, <3>1, Dirs DEF Sent, OnItsWay
    <3>3. ctc'[c].alive
      BY <1>0, <1>2, <2>3 DEF ReapCancel, r
    <3> QED BY <2>0, <2>1, <2>2, <3>2, <3>3 DEF Track, Gone
  <2>4. CASE UNCHANGED chanVars
    <3>1. /\ \A u \in Threads : ~In(enter'[u], c)
          /\ \A w \in Workers, d \in Chan!Dirs : ~In(fifo'[w][d], c)
      BY <2>4, Turned DEF chanVars
    <3> QED BY <1>0, <2>0, <2>1, <2>2, <3>1, Dirs DEF Track, Gone, OnItsWay
  <2> QED BY <1>2, <2>3, <2>4
<1>5. /\ pc'[t] # "reap"
      /\ \A u \in Threads : u # t => pc'[u] = pc[u] /\ cur'[u] = cur[u]
  BY Turned
<1>6. UNCHANGED chanVars \/ \E u \in Threads : HandTo(t, u, c)
  BY <1>0, <1>1, <1>2
<1>7. ASSUME SycThreads \subseteq Workers PROVE Homing(c)'
  <2>1. /\ obs[c].runner = None /\ obs[c].pop \in {None, ctc[c].from}
        /\ ctc[c].asc = "syc" => ctc[c].to \in Workers
        /\ \A u \in Threads : ~Reaps(u, c)'
    BY <1>7, Turned
  <2>2. ctc'[c].to = ctc[c].to
    BY <1>0, <1>2, ReleasedFields DEF r, CtcType
  <2>3. CASE HandTo(t, r.from, c)
    <3>1. Sent(t, ctc[c].from, c)
      BY <1>0, <1>1, <2>3, HandToPlaces DEF Good
    <3> QED BY <1>0, <1>3, <2>1, <2>2, <3>1, SentHome
  <2>4. CASE UNCHANGED chanVars
    <3>1. /\ \A u \in Threads : ~In(enter'[u], c)
          /\ \A w \in Workers, d \in Chan!Dirs : ~In(fifo'[w][d], c)
      BY <2>4, Turned DEF chanVars
    <3> QED BY <1>0, <1>3, <2>1, <2>2, <3>1, RestHome
  <2> QED BY <1>2, <2>3, <2>4
<1> QED BY <1>3, <1>4, <1>5, <1>6, <1>7, MoveKeeps DEF Home

LEMMA ReapStartKeeps ==
  ASSUME DataOK, QueuesOK, Good, NEW t \in Threads, NEW c \in Ctcs, pc[t] = "reap", cur[t] = c,
         pc' = [pc EXCEPT ![t] = "loop"], cur' = cur, ReapStart(t, c)
  PROVE  Kept
<1> DEFINE r == [ctc[c] EXCEPT !.stat = "RUNNING"]
<1>0. /\ ctc \in [Ctcs -> CtcType] /\ obs \in [Ctcs -> ObsType] /\ UNCHANGED chanVars
      /\ ctc[c] \in CtcType /\ obs[c] \in ObsType
  BY DEF DataOK, ReapStart
<1>1. r.asc = ctc[c].asc /\ r.stat = "RUNNING" /\ r.from = ctc[c].from /\ r.reto = ctc[c].reto
      /\ r.alive = ctc[c].alive
  BY <1>0 DEF CtcType
<1>2. AscOver(t, c, r) /\ ctc[c].stat \in {"COMMIT", "RUNNING"}
  BY DEF ReapStart
<1> HIDE DEF r
<1>3. /\ \A x \in Ctcs \ {c} : SameCall(x)
      /\ obs'[c].syc = obs[c].syc
  BY <1>0, <1>2 DEF AscOver, SameCall, ObsType
<1>4. ASSUME ~obs'[c].syc PROVE Track(c)'
  <2>0. /\ Track(c) /\ ctc[c].asc = "submit" /\ obs[c].runner = None /\ obs[c].pop = None
        /\ ctc[c].alive /\ \A u \in Threads : ~Reaps(u, c)'
    BY <1>3, <1>4, Turned
  <2>1. /\ ctc' = [ctc EXCEPT ![c] = r]
        /\ obs' = [obs EXCEPT ![c].runner = t, ![c].runs = @ + 1]
    BY <1>1, <1>2, <2>0 DEF AscOver
  <2>2. /\ ctc'[c] = r /\ obs'[c].runner = t /\ obs'[c].runs = obs[c].runs + 1
        /\ obs'[c].retos = obs[c].retos /\ obs'[c].cancelled = obs[c].cancelled
        /\ obs'[c].pop = obs[c].pop /\ obs[c].runs \in Nat /\ obs[c].retos \in Nat
    BY <1>0, <2>1, CtcAssumption DEF ObsType
  <2>3. /\ \A u \in Threads : ~In(enter'[u], c)
        /\ \A w \in Workers, d \in Chan!Dirs : ~In(fifo'[w][d], c)
        /\ c \in held'[t]
    BY <1>0, Turned DEF chanVars
  <2>4. Idle(c)' /\ Gone(c)' /\ Served(c)'
    BY <1>1, <2>0, <2>2, <2>3 DEF Idle, Gone, Served, Doing
  <2>5. OnItsWay(c)'
    BY <2>0, <2>3, Dirs DEF OnItsWay
  <2>6. Runs(c)'
    <3>1. t # None
      BY CtcAssumption DEF Threads, None
    <3> QED BY <1>1, <1>2, <2>0, <2>2, <3>1 DEF Track, Runs, Doing
  <2>7. Popped(c)'
    BY <1>1, <2>0, <2>2 DEF Popped, Doing
  <2> QED BY <2>4, <2>5, <2>6, <2>7 DEF Track
<1>5. /\ pc'[t] # "reap"
      /\ \A u \in Threads : u # t => pc'[u] = pc[u] /\ cur'[u] = cur[u]
  BY Turned
<1>6. ASSUME SycThreads \subseteq Workers PROVE Homing(c)'
  <2>0. /\ Homing(c) /\ Reaps(t, c) /\ obs[c].runner = None
        /\ obs[c].pop \in {None, ctc[c].from}
        /\ ctc[c].asc = "syc" => ctc[c].to \in Workers
        /\ ctc[c].asc # "none" /\ \A u \in Threads : ~Reaps(u, c)'
    BY <1>2, <1>6, Turned
  <2>1. /\ \A u \in Threads : ~In(enter'[u], c)
        /\ \A w \in Workers, d \in Chan!Dirs : ~In(fifo'[w][d], c)
        /\ c \in held'[t]
    BY <1>0, Turned DEF chanVars
  <2>2. CASE ctc[c].asc = "submit"
    <3>1. /\ ctc' = [ctc EXCEPT ![c] = r]
          /\ obs' = [obs EXCEPT ![c].runner = t, ![c].runs = @ + 1]
      BY <1>1, <1>2, <2>2 DEF AscOver
    <3>2. ctc'[c] = r /\ obs'[c].runner = t /\ obs'[c].pop = obs[c].pop
      BY <1>0, <3>1 DEF ObsType
    <3> QED BY <1>1, <2>0, <2>1, <2>2, <3>2, RestHome
  <2>3. CASE ctc[c].asc = "syc"
    <3>1. t = ctc[c].from
      <4>1. t \in Workers /\ ctc[c].stat = "COMMIT"
        BY <2>0, <2>3, Dirs DEF ReapStart
      <4> QED BY <2>0, <2>3, <4>1 DEF Homing
    <3> DEFINE s == [r EXCEPT !.asc = "none", !.cop = FALSE, !.ret = obs[c].round]
    <3>2. /\ ctc' = [ctc EXCEPT ![c] = Released(s)]
          /\ obs' = [obs EXCEPT ![c].runs = @ + 1, ![c].result = obs[c].round,
                                ![c].early = Adding(c),
                                ![c].pop = IF Released(s).alive /\ ~r.detach THEN t ELSE @]
      BY <1>1, <1>2, <2>3 DEF AscOver
    <3>3. s \in CtcType /\ s.asc = "none" /\ s.from = ctc[c].from
      <4>1. r \in CtcType
        BY <1>0 DEF r, CtcType, Stats
      <4>2. obs[c].round \in Cancelled .. MaxRounds
        BY <1>0, RetType DEF ObsType
      <4> QED BY <1>1, <4>1, <4>2 DEF CtcType
    <3> HIDE DEF s
    <3>4. ctc'[c].asc = "none" /\ ctc'[c].from = ctc[c].from
      BY <1>0, <3>2, <3>3, ReleasedFields
    <3>5. obs'[c].runner = None /\ obs'[c].pop \in {t, obs[c].pop}
      BY <1>0, <2>0, <3>2 DEF ObsType
    <3> QED BY <2>0, <2>1, <3>1, <3>4, <3>5, RestHome
  <2> QED BY <1>0, <2>0, <2>2, <2>3 DEF CtcType
<1> QED BY <1>0, <1>3, <1>4, <1>5, <1>6, MoveKeeps DEF Home

LEMMA ReapForwardKeeps ==
  ASSUME DataOK, QueuesOK, Good, NEW t \in Threads, NEW c \in Ctcs, pc[t] = "reap", cur[t] = c,
         pc' = [pc EXCEPT ![t] = "loop"], cur' = cur, ReapForward(t, c)
  PROVE  Kept
<1>0. /\ ctc \in [Ctcs -> CtcType] /\ obs' = obs /\ t = Master /\ ctc[c].stat = "COMMIT"
      /\ ctc[c].to # Master /\ HandTo(t, ctc[c].to, c)
  BY DEF DataOK, ReapForward
<1>1. /\ ctc'[c].asc = ctc[c].asc /\ ctc'[c].stat = "RUNNING" /\ ctc'[c].from = ctc[c].from
      /\ ctc'[c].reto = ctc[c].reto /\ ctc'[c].alive = ctc[c].alive
      /\ ctc[c].to \in Threads
  BY <1>0 DEF ReapForward, CtcType
<1>2. \A x \in Ctcs \ {c} : SameCall(x)
  BY <1>0 DEF ReapForward, SameCall
<1>3. Sent(t, ctc[c].to, c)
  BY <1>0, <1>1, HandToPlaces DEF Good
<1>4. ASSUME ~obs'[c].syc PROVE Track(c)'
  <2>0. /\ Track(c) /\ ctc[c].asc = "submit" /\ obs[c].runner = None /\ obs[c].pop = None
        /\ ctc[c].alive /\ \A u \in Threads : ~Reaps(u, c)'
    BY <1>0, <1>4, Turned
  <2>1. Idle(c)' /\ Gone(c)' /\ Served(c)'
    BY <1>0, <1>1, <2>0 DEF Idle, Gone, Served, Doing
  <2>2. OnItsWay(c)'
    BY <1>0, <1>1, <1>3, <2>0, Dirs DEF Sent, OnItsWay
  <2>3. Runs(c)' /\ Popped(c)'
    <3>1. obs[c].retos \in Nat
      BY CtcAssumption DEF DataOK, ObsType
    <3> QED BY <1>0, <1>1, <2>0, <3>1 DEF Track, Runs, Popped, Doing
  <2> QED BY <2>1, <2>2, <2>3 DEF Track
<1>5. /\ pc'[t] # "reap"
      /\ \A u \in Threads : u # t => pc'[u] = pc[u] /\ cur'[u] = cur[u]
  BY Turned
<1>6. ASSUME SycThreads \subseteq Workers PROVE Homing(c)'
  <2>1. /\ obs[c].runner = None /\ obs[c].pop \in {None, ctc[c].from}
        /\ ctc[c].asc = "syc" => ctc[c].to \in Workers
        /\ ctc[c].asc # "none" /\ \A u \in Threads : ~Reaps(u, c)'
    BY <1>0, <1>6, Turned
  <2>2. ctc'[c].to = ctc[c].to
    BY <1>0 DEF ReapForward, CtcType
  <2> QED BY <1>0, <1>1, <1>3, <2>1, <2>2, SentHome
<1> QED BY <1>0, <1>1, <1>2, <1>4, <1>5, <1>6, MoveKeeps DEF Home

\* dpsyc_* only.
LEMMA ReapPostKeeps ==
  ASSUME DataOK, QueuesOK, Good, NEW t \in Threads, NEW c \in Ctcs, pc[t] = "reap", cur[t] = c,
         pc' = [pc EXCEPT ![t] = "loop"], cur' = cur, ReapPost(t, c)
  PROVE  Kept
<1>0. /\ ctc \in [Ctcs -> CtcType] /\ obs \in [Ctcs -> ObsType]
      /\ ctc[c].asc = "syc" /\ HandTo(t, ctc[c].from, c) /\ ctc[c].from \in Threads
  BY DEF DataOK, ReapPost, CtcType
<1>1. \A x \in Ctcs \ {c} : SameCall(x)
  BY <1>0 DEF ReapPost, SameCall
<1>2. obs'[c].syc = obs[c].syc
  BY <1>0 DEF ReapPost, ObsType
<1>3. /\ obs[c].syc
      /\ pc'[t] # "reap"
      /\ \A u \in Threads : u # t => pc'[u] = pc[u] /\ cur'[u] = cur[u]
  BY <1>0, Turned
<1>4. ASSUME SycThreads \subseteq Workers PROVE Homing(c)'
  <2>1. /\ obs[c].runner = None /\ obs[c].pop \in {None, ctc[c].from}
        /\ \A u \in Threads : ~Reaps(u, c)'
    BY <1>4, Turned
  <2>2. ctc'[c].asc = "none" /\ ctc'[c].stat = "FINISH" /\ ctc'[c].from = ctc[c].from
    BY <1>0 DEF ReapPost, CtcType
  <2>3. obs'[c].runner = obs[c].runner /\ obs'[c].pop = obs[c].pop
    BY <1>0 DEF ReapPost, ObsType
  <2>4. Sent(t, ctc[c].from, c)
    BY <1>0, HandToPlaces DEF Good
  <2> QED BY <1>0, <2>1, <2>2, <2>3, <2>4, SentHome
<1> QED BY <1>0, <1>1, <1>2, <1>3, <1>4, MoveKeeps DEF Home

LEMMA ReapFinishKeeps ==
  ASSUME DataOK, QueuesOK, Good, NEW t \in Threads, NEW c \in Ctcs, pc[t] = "reap", cur[t] = c,
         pc' = [pc EXCEPT ![t] = "loop"], cur' = cur, ReapFinish(t, c)
  PROVE  Kept
<1>0. /\ ctc \in [Ctcs -> CtcType] /\ obs \in [Ctcs -> ObsType]
      /\ ctc[c] \in CtcType /\ obs[c] \in ObsType
  BY DEF DataOK
<1>a. ctc[c].from \in Threads
  BY <1>0 DEF CtcType
<1>5. /\ pc'[t] # "reap"
      /\ \A u \in Threads : u # t => pc'[u] = pc[u] /\ cur'[u] = cur[u]
  BY Turned
<1>6. ASSUME ~obs[c].syc
      PROVE  /\ Track(c) /\ Reaps(t, c) /\ ctc[c].asc = "submit" /\ obs[c].runner = None
             /\ obs[c].pop = None /\ ctc[c].alive /\ ctc[c].stat = "FINISH"
             /\ \A u \in Threads : ~Reaps(u, c)'
  <2>1. /\ Track(c) /\ Reaps(t, c) /\ ctc[c].asc = "submit" /\ obs[c].runner = None
        /\ obs[c].pop = None /\ ctc[c].alive /\ ctc[c].stat # "INITIAL"
        /\ \A u \in Threads : ~Reaps(u, c)'
    BY <1>6, Turned
  <2>2. ctc[c].stat # "RUNNING"
    BY <2>1 DEF ReapFinish, Track, OnItsWay
  <2>3. ctc[c].stat \in Stats /\ ctc[c].stat \notin {"COMMIT", "CANCEL"}
    BY <1>0 DEF CtcType, ReapFinish
  <2> QED BY <2>1, <2>2, <2>3 DEF Stats
<1>1. CASE t = Master /\ ctc[c].from # Master
  <2>0. HandTo(t, ctc[c].from, c) /\ ctc' = ctc /\ obs' = obs
    BY <1>1 DEF ReapFinish
  <2>1. Sent(t, ctc[c].from, c)
    BY <1>a, <2>0, HandToPlaces DEF Good
  <2>2. ASSUME ~obs'[c].syc PROVE Track(c)'
    <3>0. /\ Track(c) /\ ctc[c].asc = "submit" /\ obs[c].runner = None /\ obs[c].pop = None
          /\ ctc[c].alive /\ ctc[c].stat = "FINISH" /\ \A u \in Threads : ~Reaps(u, c)'
      BY <1>6, <2>0, <2>2
    <3>1. Idle(c)' /\ Gone(c)' /\ Served(c)'
      BY <2>0, <3>0 DEF Idle, Gone, Served, Doing
    <3>2. OnItsWay(c)'
      BY <1>1, <2>0, <2>1, <3>0, Dirs DEF Sent, OnItsWay
    <3>3. Runs(c)' /\ Popped(c)'
      BY <2>0, <3>0 DEF Track, Runs, Popped, Doing
    <3> QED BY <3>1, <3>2, <3>3 DEF Track
  <2>3. \A x \in Ctcs \ {c} : SameCall(x)
    BY <2>0 DEF SameCall
  <2>4. ASSUME SycThreads \subseteq Workers PROVE Homing(c)'
    <3>1. /\ obs[c].runner = None /\ obs[c].pop \in {None, ctc[c].from}
          /\ ctc[c].asc = "syc" => ctc[c].to \in Workers
          /\ ctc[c].asc = "none" => ctc[c].stat = "FINISH"
          /\ \A u \in Threads : ~Reaps(u, c)'
      BY <2>4, Turned
    <3>2. ctc[c].stat # "COMMIT"
      BY DEF ReapFinish
    <3> QED BY <1>a, <2>0, <2>1, <3>1, <3>2, SentHome
  <2> QED BY <1>5, <1>a, <2>0, <2>2, <2>3, <2>4, MoveKeeps DEF Home
<1>2. CASE ~(t = Master /\ ctc[c].from # Master)
  <2>0. /\ UNCHANGED chanVars
        /\ IF Released(ctc[c]).alive /\ ~ctc[c].detach THEN AscOver(t, c, ctc[c])
           ELSE ctc' = [ctc EXCEPT ![c] = Released(ctc[c])] /\ UNCHANGED obs
    BY <1>2 DEF ReapFinish
  <2>1. /\ \A u \in Threads : ~In(enter'[u], c)
        /\ \A w \in Workers, d \in Chan!Dirs : ~In(fifo'[w][d], c)
        /\ c \in held'[t]
    BY <2>0, Turned DEF chanVars
  <2>2. CASE Released(ctc[c]).alive /\ ~ctc[c].detach
    <3>0. AscOver(t, c, ctc[c])
      BY <2>0, <2>2
    <3>1. \A x \in Ctcs \ {c} : SameCall(x)
      BY <1>0, <3>0 DEF AscOver, SameCall
    <3>2. obs'[c].syc = obs[c].syc
      BY <1>0, <3>0 DEF AscOver, ObsType
    <3>3. ASSUME ~obs'[c].syc PROVE Track(c)'
      <4>0. /\ Track(c) /\ Reaps(t, c) /\ ctc[c].asc = "submit" /\ obs[c].runner = None
            /\ obs[c].pop = None
            /\ ctc[c].alive /\ ctc[c].stat = "FINISH" /\ \A u \in Threads : ~Reaps(u, c)'
        BY <1>6, <3>2, <3>3
      <4> DEFINE s == [ctc[c] EXCEPT !.asc = "none", !.cop = FALSE, !.ret = ctc[c].ret]
      <4>1. /\ s \in CtcType /\ s.asc = "none" /\ s.stat = "FINISH" /\ s.from = ctc[c].from
            /\ s.reto = ctc[c].reto /\ s.alive /\ s.refc = ctc[c].refc
        BY <1>0, <4>0 DEF CtcType
      <4>2. /\ ctc' = [ctc EXCEPT ![c] = Released(s)]
            /\ obs' = [obs EXCEPT ![c].runs = @, ![c].result = @, ![c].early = @,
                                  ![c].pop = IF Released(s).alive /\ ~ctc[c].detach THEN t ELSE @]
        BY <1>0, <3>0, <4>0 DEF AscOver
      <4> HIDE DEF s
      <4>3. Released(s).alive
        BY <1>0, <2>2, <4>1, ReleasedFields
      <4>4. /\ ctc'[c].asc = "none" /\ ctc'[c].stat = "FINISH" /\ ctc'[c].from = ctc[c].from
            /\ ctc'[c].reto = ctc[c].reto /\ ctc'[c].alive
        BY <1>0, <4>1, <4>2, <4>3, ReleasedFields
      <4>5. /\ obs'[c].runs = obs[c].runs /\ obs'[c].retos = obs[c].retos
            /\ obs'[c].cancelled = obs[c].cancelled /\ obs'[c].runner = None /\ obs'[c].pop = t
        BY <1>0, <2>2, <4>0, <4>2, <4>3 DEF ObsType
      <4>6. t = ctc[c].from
        BY <1>2, <4>0, Dirs DEF Track, OnItsWay
      <4>7. Idle(c)' /\ Gone(c)' /\ Served(c)'
        BY <2>1, <4>0, <4>4, <4>5, <4>6 DEF Idle, Gone, Served
      <4>8. OnItsWay(c)'
        BY <2>1, <4>0, Dirs DEF OnItsWay
      <4>9. Runs(c)' /\ Popped(c)'
        BY <4>0, <4>4, <4>5, <4>6 DEF Track, Runs, Popped, Doing
      <4> QED BY <4>7, <4>8, <4>9 DEF Track
    <3>4. ASSUME SycThreads \subseteq Workers PROVE Homing(c)'
      <4>0. /\ Homing(c) /\ Reaps(t, c) /\ obs[c].runner = None
            /\ obs[c].pop \in {None, ctc[c].from}
            /\ \A u \in Threads : ~Reaps(u, c)'
        BY <3>4, Turned
      <4>1. t = ctc[c].from
        <5>1. t # Master => t \in Workers /\ ctc[c].stat \notin {"COMMIT", "CANCEL", "RUNNING"}
          BY Dirs DEF ReapFinish
        <5> QED BY <1>2, <4>0, <5>1 DEF Homing
      <4>2. CASE ctc[c].stat = "RUNNING" /\ ctc[c].asc = "submit"
        <5>1. /\ ctc' = [ctc EXCEPT ![c] = ctc[c]]
              /\ obs' = [obs EXCEPT ![c].runner = t, ![c].runs = @ + 1]
          BY <3>0, <4>2 DEF AscOver
        <5>2. ctc'[c] = ctc[c] /\ obs'[c].runner = t /\ obs'[c].pop = obs[c].pop
          BY <1>0, <5>1 DEF ObsType
        <5> QED BY <2>1, <4>0, <4>2, <5>2, RestHome
      <4>3. CASE ~(ctc[c].stat = "RUNNING" /\ ctc[c].asc = "submit")
        <5> DEFINE post == ctc[c].asc = "syc"
                   s == [ctc[c] EXCEPT !.asc = "none", !.cop = FALSE,
                                       !.ret = IF post THEN obs[c].round ELSE @]
        <5>1. /\ ctc' = [ctc EXCEPT ![c] = Released(s)]
              /\ obs' = [obs EXCEPT ![c].runs = IF post THEN @ + 1 ELSE @,
                                    ![c].result = IF post THEN obs[c].round ELSE @,
                                    ![c].early = IF post THEN Adding(c) ELSE @,
                                    ![c].pop = IF Released(s).alive /\ ~ctc[c].detach
                                               THEN t ELSE @]
          BY <3>0, <4>3 DEF AscOver
        <5>2. s \in CtcType /\ s.asc = "none" /\ s.from = ctc[c].from
          <6>1. obs[c].round \in Cancelled .. MaxRounds
            BY <1>0, RetType DEF ObsType
          <6> QED BY <1>0, <6>1 DEF CtcType
        <5> HIDE DEF s
        <5>3. ctc'[c].asc = "none" /\ ctc'[c].from = ctc[c].from
          BY <1>0, <5>1, <5>2, ReleasedFields
        <5>4. obs'[c].runner = None /\ obs'[c].pop \in {t, obs[c].pop}
          BY <1>0, <4>0, <5>1 DEF ObsType
        <5> QED BY <2>1, <4>0, <4>1, <5>3, <5>4, RestHome
      <4> QED BY <4>2, <4>3
    <3> QED BY <1>5, <2>0, <3>1, <3>3, <3>4, MoveKeeps DEF Home
  <2>3. CASE ~(Released(ctc[c]).alive /\ ~ctc[c].detach)
    <3>0. ctc' = [ctc EXCEPT ![c] = Released(ctc[c])] /\ obs' = obs
      BY <2>0, <2>3
    <3>1. \A x \in Ctcs \ {c} : SameCall(x)
      BY <1>0, <3>0 DEF SameCall
    <3>2. /\ ctc'[c].asc = ctc[c].asc /\ ctc'[c].stat = ctc[c].stat
          /\ ctc'[c].from = ctc[c].from /\ ctc'[c].reto = ctc[c].reto
      BY <1>0, <3>0, ReleasedFields
    <3>3. ASSUME ~obs'[c].syc PROVE Track(c)'
      <4>0. /\ Track(c) /\ ctc[c].asc = "submit" /\ obs[c].runner = None
            /\ obs[c].pop = None
            /\ ctc[c].alive /\ ctc[c].stat = "FINISH" /\ \A u \in Threads : ~Reaps(u, c)'
        BY <1>6, <3>0, <3>3
      <4>1. Idle(c)' /\ Gone(c)' /\ Served(c)'
        BY <2>1, <3>0, <3>2, <4>0 DEF Idle, Gone, Served, Doing
      <4>2. OnItsWay(c)'
        BY <2>1, <4>0, Dirs DEF OnItsWay
      <4>3. Runs(c)' /\ Popped(c)'
        BY <3>0, <3>2, <4>0 DEF Track, Runs, Popped, Doing
      <4> QED BY <4>1, <4>2, <4>3 DEF Track
    <3>4. ASSUME SycThreads \subseteq Workers PROVE Homing(c)'
      <4>1. /\ obs[c].runner = None /\ obs[c].pop \in {None, ctc[c].from}
            /\ ctc[c].asc = "syc" => ctc[c].to \in Workers
            /\ \A u \in Threads : ~Reaps(u, c)'
        BY <3>4, Turned
      <4>2. ctc'[c].to = ctc[c].to
        BY <1>0, <3>0, ReleasedFields
      <4> QED BY <2>1, <3>0, <3>2, <4>1, <4>2, RestHome
    <3> QED BY <1>5, <2>0, <3>1, <3>3, <3>4, MoveKeeps DEF Home
  <2> QED BY <2>2, <2>3
<1> QED BY <1>1, <1>2

LEMMA EndCtcKeeps ==
  ASSUME DataOK, QueuesOK, Good, NEW t \in Threads, NEW c \in Ctcs, EndCtc(t, c)
  PROVE  Kept
<1> DEFINE r == [ctc[c] EXCEPT !.ret = obs[c].round, !.reto = FALSE,
                               !.stat = IF ctc[c].reto THEN "COMMIT" ELSE "FINISH"]
<1>0. /\ ctc \in [Ctcs -> CtcType] /\ obs \in [Ctcs -> ObsType]
      /\ ctc[c] \in CtcType /\ obs[c] \in ObsType /\ pc' = pc /\ cur' = cur
      /\ obs[c].runner = t /\ pc[t] = "loop"
  BY DEF DataOK, EndCtc, AtLoop
<1>1. /\ r \in CtcType /\ r.asc = ctc[c].asc /\ r.from = ctc[c].from /\ ~r.reto
      /\ r.alive = ctc[c].alive /\ r.to = ctc[c].to /\ r.from \in Threads /\ r.to \in Threads
      /\ r.stat = (IF ctc[c].reto THEN "COMMIT" ELSE "FINISH")
  <2>1. obs[c].round \in Cancelled .. MaxRounds
    BY <1>0, RetType DEF ObsType
  <2> QED BY <1>0, <2>1 DEF CtcType, Stats
<1>2. /\ obs' = [obs EXCEPT ![c].runner = None, ![c].result = obs[c].round,
                            ![c].early = Adding(c)]
      /\ \/ ctc[c].reto /\ ctc' = [ctc EXCEPT ![c] = r] /\ HandTo(t, r.to, c)
         \/ ~ctc[c].reto /\ ctc' = [ctc EXCEPT ![c] = Released(r)] /\ UNCHANGED chanVars
         \/ ~ctc[c].reto /\ ctc' = [ctc EXCEPT ![c] = r] /\ HandTo(t, r.from, c)
  BY DEF EndCtc
<1> HIDE DEF r
<1>3. /\ obs'[c].runner = None /\ obs'[c].runs = obs[c].runs /\ obs'[c].retos = obs[c].retos
      /\ obs'[c].cancelled = obs[c].cancelled /\ obs'[c].pop = obs[c].pop
      /\ obs'[c].syc = obs[c].syc /\ \A x \in Ctcs \ {c} : obs'[x] = obs[x]
  BY <1>0, <1>2 DEF ObsType
<1>4. /\ ctc'[c].asc = r.asc /\ ctc'[c].stat = r.stat /\ ctc'[c].from = r.from
      /\ ~ctc'[c].reto
  BY <1>0, <1>1, <1>2, ReleasedFields
<1>5. \A x \in Ctcs \ {c} : SameCall(x)
  BY <1>0, <1>2, <1>3 DEF SameCall
<1>6. ASSUME ~obs'[c].syc PROVE Track(c)'
  <2>0. /\ Track(c) /\ t # None
    BY <1>3, <1>6, CtcAssumption DEF Good, Threads, None
  <2>1. /\ ctc[c].stat = "RUNNING" /\ ctc[c].asc = "submit" /\ ctc[c].alive /\ c \in held[t]
        /\ \A u \in Threads : ~Reaps(u, c) /\ ~Reaps(u, c)'
    BY <1>0, <2>0 DEF Track, Served, Reaps
  <2>2. Idle(c)' /\ Served(c)'
    BY <1>1, <1>3, <1>4, <2>1 DEF Idle, Served, Doing
  <2>3. Runs(c)'
    <3>1. obs[c].retos \in Nat /\ obs[c].runs \in Nat
      BY <1>0, CtcAssumption DEF ObsType
    <3> QED BY <1>0, <1>1, <1>3, <1>4, <2>0, <2>1, <3>1 DEF Track, Runs, Doing
  <2>4. Popped(c)'
    BY <1>1, <1>3, <1>4, <2>0, <2>1 DEF Track, Popped, Doing
  <2>5. CASE ctc[c].reto /\ ctc' = [ctc EXCEPT ![c] = r]
    <3>1. ctc'[c].stat = "COMMIT" /\ ctc'[c].alive
      BY <1>0, <1>1, <2>1, <2>5
    <3> QED BY <2>2, <2>3, <2>4, <3>1 DEF Track, Gone, OnItsWay
  <2>6. CASE ~ctc[c].reto /\ ctc' = [ctc EXCEPT ![c] = Released(r)] /\ UNCHANGED chanVars
    <3>1. /\ \A u \in Threads : ~In(enter'[u], c)
          /\ \A w \in Workers, d \in Chan!Dirs : ~In(fifo'[w][d], c)
      BY <2>1, <2>6 DEF chanVars, Good, OnePlace, HeldOnce
    <3>2. Gone(c)' /\ OnItsWay(c)'
      BY <1>3, <2>1, <3>1, Dirs DEF Gone, OnItsWay
    <3> QED BY <2>2, <2>3, <2>4, <3>2 DEF Track
  <2>7. CASE ~ctc[c].reto /\ ctc' = [ctc EXCEPT ![c] = r] /\ HandTo(t, r.from, c)
    <3>1. ctc'[c].stat = "FINISH" /\ ctc'[c].alive
      BY <1>0, <1>1, <2>1, <2>7
    <3>2. Sent(t, r.from, c)
      BY <1>1, <2>7, HandToPlaces DEF Good
    <3>3. OnItsWay(c)'
      BY <1>4, <2>1, <3>1, <3>2, Dirs DEF Sent, OnItsWay
    <3> QED BY <2>2, <2>3, <2>4, <3>1, <3>3 DEF Track, Gone
  <2> QED BY <1>2, <2>5, <2>6, <2>7
<1>7. UNCHANGED chanVars \/ \E u \in Threads : HandTo(t, u, c)
  BY <1>1, <1>2
<1>8. ASSUME SycThreads \subseteq Workers PROVE Homing(c)'
  <2>0. /\ Homing(c) /\ t # None
    BY <1>8, CtcAssumption DEF Good, Home, Threads, None
  <2>1. /\ ctc[c].asc = "submit" /\ c \in held[t] /\ obs[c].pop \in {None, ctc[c].from}
        /\ \A u \in Threads : ~Reaps(u, c)'
    BY <1>0, <2>0 DEF Homing, Reaps
  <2>2. CASE UNCHANGED chanVars
    <3>1. /\ \A u \in Threads : ~In(enter'[u], c)
          /\ \A w \in Workers, d \in Chan!Dirs : ~In(fifo'[w][d], c)
      BY <2>1, <2>2 DEF chanVars, Good, OnePlace, HeldOnce
    <3> QED BY <1>1, <1>3, <1>4, <2>1, <3>1, RestHome
  <2>3. CASE ctc[c].reto /\ HandTo(t, r.to, c)
    <3>1. Sent(t, r.to, c)
      BY <1>1, <2>3, HandToPlaces DEF Good
    <3> QED BY <1>1, <1>3, <1>4, <2>1, <2>3, <3>1, SentHome
  <2>4. CASE ~ctc[c].reto /\ HandTo(t, r.from, c)
    <3>1. Sent(t, r.from, c)
      BY <1>1, <2>4, HandToPlaces DEF Good
    <3> QED BY <1>1, <1>3, <1>4, <2>1, <2>4, <3>1, SentHome
  <2> QED BY <1>2, <2>2, <2>3, <2>4
<1> QED BY <1>0, <1>5, <1>6, <1>7, <1>8, MoveKeeps DEF Home

LEMMA IInvStep == IInv /\ [Next]_vars => IInv'
<1> SUFFICES ASSUME IInv, [Next]_vars PROVE IInv'
  OBVIOUS
<1>0. DataOK /\ QueuesOK /\ Good
  BY TypeParts DEF IInv
<1>1. DataOK'
  BY <1>0, DataStep
<1>2. ASSUME NEW t \in Threads, Dispatch(t) PROVE Kept
  <2>1. PICK c \in Ctcs : cur[t] = c
    BY <1>0 DEF DataOK
  <2>2. /\ pc[t] = "reap" /\ pc' = [pc EXCEPT ![t] = "loop"] /\ cur' = cur
        /\ \/ ReapCancel(t, c) \/ ReapStart(t, c) \/ ReapForward(t, c)
           \/ ReapPost(t, c) \/ ReapFinish(t, c)
    BY <1>2, <2>1 DEF Dispatch
  <2> QED BY <1>0, <2>1, <2>2, ReapCancelKeeps, ReapStartKeeps, ReapForwardKeeps,
             ReapPostKeeps, ReapFinishKeeps
<1>3. ASSUME NEW t \in Threads, LoopStep(t) PROVE Kept
  BY <1>0, <1>2, <1>3, AddStoreKeeps, DelCheckKeeps, PopFrontKeeps DEF LoopStep
<1>4. ASSUME NEW t \in Threads, UserStep(t) PROVE Kept
  <2>1. PICK c \in Ctcs :
          \/ Add(t, c, "submit")
          \/ t \in SycThreads /\ ctc[c].to \in SycThreads /\ Add(t, c, "syc")
          \/ AddRepeat(t, c) \/ Await(t, c) \/ End(t, c) \/ Del(t, c) \/ EndCtc(t, c)
          \/ \E u \in Targets : Reto(t, c, u)
    BY <1>4 DEF UserStep
  <2>2. CASE Add(t, c, "submit")
    BY <1>0, <2>2, AddKeeps
  <2>4. CASE t \in SycThreads /\ ctc[c].to \in SycThreads /\ Add(t, c, "syc")
    BY <1>0, <2>4, AddKeeps
  <2>3. CASE \E u \in Targets : Reto(t, c, u)
    BY <1>0, <2>3, RetoKeeps
  <2> QED BY <1>0, <2>1, <2>2, <2>3, <2>4, AddRepeatKeeps, AwaitKeeps, EndKeeps, DelKeeps, EndCtcKeeps
<1>5. ASSUME NEW w \in Workers, NEW d \in Chan!Dirs, Transfer(w, d) PROVE Kept
  BY <1>0, <1>5, TransferKeeps
<1>6. CASE UNCHANGED vars
  <2>1. UNCHANGED chanVars /\ ctc' = ctc /\ obs' = obs /\ pc' = pc /\ cur' = cur
    BY <1>6 DEF vars, chanVars
  <2>2. \A x \in Ctcs : SameCall(x)
    BY <2>1 DEF SameCall
  <2>3. PICK c \in Ctcs : TRUE
    BY CtcAssumption
  <2>4. Kept
    BY <1>0, <2>1, <2>2, <2>3, LocalKeeps
  <2> QED BY <1>1, <2>4, TypeParts DEF Kept, IInv
<1> QED BY <1>1, <1>3, <1>4, <1>5, <1>6, TypeParts DEF Next, Kept, IInv

-----------------------------------------------------------------------------
(* Threads inside dpevp_addv and dpele_del, and the results of calls.       *)

\* A step of other threads spares a call its owner is about to touch: it takes
\* neither its reference nor, while there is one, the element.
Spares(c) ==
  /\ ctc'[c].from = ctc[c].from /\ ctc'[c].detach = ctc[c].detach
  /\ ctc'[c].refc = ctc[c].refc
  /\ obs'[c].cancelled = obs[c].cancelled /\ obs'[c].syc = obs[c].syc
  /\ ctc[c].alive /\ ctc[c].refc = 1 => ctc'[c].alive
  /\ ctc[c].alive /\ ~ctc[c].detach /\ ~obs[c].cancelled /\ ~obs[c].syc => ctc'[c].alive

LEMMA SparesSame ==
  ASSUME NEW c \in Ctcs, obs'[c] = obs[c], ctc'[c] = ctc[c]
  PROVE  Spares(c)
BY DEF Spares

LEMMA SparesEndCtc ==
  ASSUME DataOK, NEW t \in Threads, NEW e \in Ctcs,
         EndCtc(t, e) \/ (\E u \in Targets : Reto(t, e, u)), NEW c \in Ctcs
  PROVE  Spares(c)
<1>0. ctc \in [Ctcs -> CtcType] /\ obs \in [Ctcs -> ObsType]
  BY DEF DataOK
<1>1. CASE c # e
  <2>1. ctc'[c] = ctc[c] /\ obs'[c] = obs[c]
    BY <1>0, <1>1 DEF EndCtc, Reto
  <2> QED BY <2>1, SparesSame
<1>2. CASE c = e /\ \E u \in Targets : Reto(t, e, u)
  <2>0. PICK u \in Targets : Reto(t, e, u)
    BY <1>2
  <2>a. /\ ctc' = [ctc EXCEPT ![c].to = u, ![c].reto = TRUE]
        /\ obs' = [obs EXCEPT ![c].retos = @ + 1]
    BY <1>2, <2>0 DEF Reto
  <2>1. /\ ctc'[c].from = ctc[c].from /\ ctc'[c].detach = ctc[c].detach
        /\ ctc'[c].refc = ctc[c].refc /\ ctc'[c].alive = ctc[c].alive
    BY <1>0, <2>a DEF CtcType
  <2>2. obs'[c].cancelled = obs[c].cancelled /\ obs'[c].syc = obs[c].syc
    BY <1>0, <2>a DEF ObsType
  <2> QED BY <2>1, <2>2 DEF Spares
<1>3. CASE c = e /\ EndCtc(t, e)
  <2> DEFINE r == [ctc[c] EXCEPT !.ret = obs[c].round, !.reto = FALSE,
                                 !.stat = IF ctc[c].reto THEN "COMMIT" ELSE "FINISH"]
  <2>1. /\ r \in CtcType /\ r.from = ctc[c].from /\ r.detach = ctc[c].detach
        /\ r.refc = ctc[c].refc /\ r.alive = ctc[c].alive
    <3>1. obs[c].round \in Cancelled .. MaxRounds
      BY <1>0, RetType DEF ObsType
    <3>2. ctc[c] \in CtcType
      BY <1>0
    <3> QED BY <3>1, <3>2 DEF CtcType, Stats
  <2>2. ctc'[c] = r \/ (ctc'[c] = Released(r) /\ r.detach)
    BY <1>0, <1>3 DEF EndCtc
  <2>3. obs'[c].cancelled = obs[c].cancelled /\ obs'[c].syc = obs[c].syc
    BY <1>0, <1>3 DEF EndCtc, ObsType
  <2> HIDE DEF r
  <2> QED BY <2>1, <2>2, <2>3, ReleasedFields DEF Spares, Released, CtcType
<1> QED BY <1>1, <1>2, <1>3

\* What a turn of the reap loop leaves of the fields a deletion depends on.
SameHold(r, c) ==
  /\ r \in CtcType /\ r.from = ctc[c].from /\ r.detach = ctc[c].detach
  /\ r.refc = ctc[c].refc /\ r.alive = ctc[c].alive
Turns(c) ==
  /\ \E r \in CtcType : SameHold(r, c) /\ (ctc'[c] = r \/ ctc'[c] = Released(r))
  /\ obs'[c].cancelled = obs[c].cancelled /\ obs'[c].syc = obs[c].syc

LEMMA AscOverTurns ==
  ASSUME DataOK, NEW t \in Threads, NEW c \in Ctcs, NEW r, SameHold(r, c), AscOver(t, c, r)
  PROVE  Turns(c)
<1>0. ctc \in [Ctcs -> CtcType] /\ obs \in [Ctcs -> ObsType] /\ r \in CtcType
  BY DEF DataOK, SameHold
<1>1. obs'[c].cancelled = obs[c].cancelled /\ obs'[c].syc = obs[c].syc
  BY <1>0 DEF AscOver, ObsType
<1>2. CASE r.stat = "RUNNING" /\ r.asc = "submit"
  <2>1. ctc'[c] = r
    BY <1>0, <1>2 DEF AscOver
  <2> QED BY <1>0, <1>1, <2>1 DEF Turns
<1>3. CASE ~(r.stat = "RUNNING" /\ r.asc = "submit")
  <2> DEFINE s == [r EXCEPT !.asc = "none", !.cop = FALSE,
                            !.ret = IF r.asc = "syc" THEN obs[c].round ELSE @]
  <2>1. obs[c].round \in Cancelled .. MaxRounds
    BY <1>0, RetType DEF ObsType
  <2>2. s \in CtcType /\ SameHold(s, c)
    BY <1>0, <2>1 DEF CtcType, SameHold
  <2>3. ctc'[c] = Released(s)
    BY <1>0, <1>3 DEF AscOver
  <2> HIDE DEF s
  <2> QED BY <1>1, <2>2, <2>3 DEF Turns
<1> QED BY <1>2, <1>3

LEMMA ReapTurns ==
  ASSUME DataOK, NEW t \in Threads, NEW c \in Ctcs,
         \/ ReapCancel(t, c) \/ ReapStart(t, c) \/ ReapForward(t, c)
         \/ ReapPost(t, c) \/ ReapFinish(t, c)
  PROVE  Turns(c)
<1>0. ctc \in [Ctcs -> CtcType] /\ obs \in [Ctcs -> ObsType]
      /\ ctc[c] \in CtcType /\ SameHold(ctc[c], c)
  BY DEF DataOK, SameHold
<1>1. CASE ReapCancel(t, c)
  <2> DEFINE r == [ctc[c] EXCEPT !.stat = "FINISH"]
  <2>1. r \in CtcType /\ SameHold(r, c)
    BY <1>0 DEF CtcType, Stats, SameHold
  <2>2. ctc'[c] = Released(r) /\ obs' = obs
    BY <1>0, <1>1 DEF ReapCancel
  <2> HIDE DEF r
  <2> QED BY <2>1, <2>2 DEF Turns
<1>2. CASE ReapStart(t, c)
  <2> DEFINE r == [ctc[c] EXCEPT !.stat = "RUNNING"]
  <2>1. SameHold(r, c)
    BY <1>0 DEF CtcType, Stats, SameHold
  <2>2. AscOver(t, c, r)
    BY <1>2 DEF ReapStart
  <2> HIDE DEF r
  <2> QED BY <2>1, <2>2, AscOverTurns
<1>3. CASE ReapForward(t, c)
  <2> DEFINE r == [ctc[c] EXCEPT !.stat = "RUNNING"]
  <2>1. r \in CtcType /\ SameHold(r, c)
    BY <1>0 DEF CtcType, Stats, SameHold
  <2>2. ctc'[c] = r /\ obs' = obs
    BY <1>0, <1>3 DEF ReapForward
  <2> HIDE DEF r
  <2> QED BY <2>1, <2>2 DEF Turns
<1>4. CASE ReapPost(t, c)
  <2> DEFINE r == [ctc[c] EXCEPT !.ret = obs[c].round, !.asc = "none", !.stat = "FINISH"]
  <2>1. obs[c].round \in Cancelled .. MaxRounds
    BY <1>0, RetType DEF ObsType
  <2>2. r \in CtcType /\ SameHold(r, c)
    BY <1>0, <2>1 DEF CtcType, Stats, SameHold
  <2>3. ctc'[c] = r
    BY <1>0, <1>4 DEF ReapPost
  <2>4. obs'[c].cancelled = obs[c].cancelled /\ obs'[c].syc = obs[c].syc
    BY <1>0, <1>4 DEF ReapPost, ObsType
  <2> HIDE DEF r
  <2> QED BY <2>2, <2>3, <2>4 DEF Turns
<1>5. CASE ReapFinish(t, c)
  <2>1. CASE UNCHANGED <<ctc, obs>>
    BY <1>0, <2>1 DEF Turns
  <2>2. CASE AscOver(t, c, ctc[c])
    BY <1>0, <2>2, AscOverTurns
  <2>3. CASE ctc' = [ctc EXCEPT ![c] = Released(ctc[c])] /\ UNCHANGED obs
    <3>1. ctc'[c] = Released(ctc[c])
      BY <1>0, <2>3
    <3> QED BY <1>0, <2>3, <3>1 DEF Turns
  <2> QED BY <1>5, <2>1, <2>2, <2>3 DEF ReapFinish
<1> QED BY <1>1, <1>2, <1>3, <1>4, <1>5

LEMMA SparesReap ==
  ASSUME DataOK, Good, NEW t \in Threads, NEW e \in Ctcs, pc[t] = "reap", cur[t] = e,
         pc' = [pc EXCEPT ![t] = "loop"], cur' = cur,
         \/ ReapCancel(t, e) \/ ReapStart(t, e) \/ ReapForward(t, e)
         \/ ReapPost(t, e) \/ ReapFinish(t, e),
         NEW c \in Ctcs, ctc[c].from # t
  PROVE  Spares(c)
<1>0. ctc \in [Ctcs -> CtcType] /\ obs \in [Ctcs -> ObsType]
  BY DEF DataOK
<1>1. CASE c # e
  <2>1. ctc'[c] = ctc[c] /\ obs'[c] = obs[c]
    BY <1>0, <1>1 DEF ReapCancel, ReapStart, ReapForward, ReapPost, ReapFinish, AscOver
  <2> QED BY <2>1, SparesSame
<1>2. CASE c = e
  <2>1. PICK r \in CtcType : SameHold(r, c) /\ (ctc'[c] = r \/ ctc'[c] = Released(r))
    BY <1>2, ReapTurns DEF Turns
  <2>2. obs'[c].cancelled = obs[c].cancelled /\ obs'[c].syc = obs[c].syc
    BY <1>2, ReapTurns DEF Turns
  <2>3. /\ ctc'[c].from = ctc[c].from /\ ctc'[c].detach = ctc[c].detach
        /\ ctc'[c].refc = ctc[c].refc
        /\ ctc[c].alive /\ ctc[c].refc = 1 => ctc'[c].alive
    <3>1. CASE ctc'[c] = r
      BY <2>1, <3>1 DEF SameHold
    <3>2. CASE ctc'[c] = Released(r)
      <4>1. r.alive /\ r.refc = 1 => Released(r).alive
        <5>1. ASSUME r.refc = 1 PROVE r.refc > 0
          BY <5>1
        <5> QED BY <5>1, ReleasedFields
      <4> QED BY <2>1, <3>2, <4>1, ReleasedFields DEF SameHold
    <3> QED BY <2>1, <3>1, <3>2
  <2>4. ASSUME ~obs[c].syc, ~obs[c].cancelled PROVE ctc'[c].alive = ctc[c].alive
    <3>1. /\ Track(c) /\ Reaps(t, c) /\ ctc[c].asc = "submit"
          /\ ctc[c].stat \in Stats \ {"INITIAL"} /\ ctc[c] \in CtcType
      <4>1. ctc[c] \in CtcType /\ ctc[c].stat \in Stats
        BY <1>0 DEF CtcType
      <4> QED BY <1>2, <2>4, <4>1, Turned
    <3>2. CASE ReapCancel(t, c)
      BY <2>4, <3>1, <3>2 DEF ReapCancel, Track, Runs
    <3>3. CASE ReapStart(t, c)
      <4> DEFINE s == [ctc[c] EXCEPT !.stat = "RUNNING"]
      <4>1. s.alive = ctc[c].alive /\ s.stat = "RUNNING" /\ s.asc = "submit"
        BY <3>1 DEF CtcType
      <4>2. AscOver(t, c, s)
        BY <3>3 DEF ReapStart
      <4> HIDE DEF s
      <4>3. ctc'[c] = s
        BY <1>0, <4>1, <4>2 DEF AscOver
      <4> QED BY <4>1, <4>3
    <3>4. CASE ReapForward(t, c)
      BY <1>0, <3>1, <3>4 DEF ReapForward, CtcType
    <3>5. CASE ReapPost(t, c)
      BY <3>1, <3>5 DEF ReapPost
    <3>6. CASE ReapFinish(t, c)
      <4>1. ctc[c].stat = "FINISH"
        <5>1. ctc[c].stat # "RUNNING"
          BY <3>1, <3>6 DEF ReapFinish, Track, OnItsWay
        <5> QED BY <3>1, <3>6, <5>1 DEF Stats, ReapFinish
      <4>2. t = Master
        BY <3>1, <4>1, Dirs DEF Track, OnItsWay, Threads
      <4> QED BY <3>6, <4>2 DEF ReapFinish
    <3> QED BY <1>2, <3>2, <3>3, <3>4, <3>5, <3>6
  <2> QED BY <2>2, <2>3, <2>4 DEF Spares
<1> QED BY <1>1, <1>2

\* A step of thread t spares every call of another thread.
SparedBy(t) == \A c \in Ctcs : ctc[c].from # t => Spares(c)

LEMMA LoopSpares ==
  ASSUME DataOK, Good, Inside, NEW t \in Threads, LoopStep(t)
  PROVE  SparedBy(t)
<1>0. ctc \in [Ctcs -> CtcType] /\ obs \in [Ctcs -> ObsType]
  BY DEF DataOK
<1>1. PICK e \in Ctcs : cur[t] = e
  BY DEF DataOK
<1>2. CASE AddStore(t) \/ DelCheck(t)
  <2>1. ctc[e].from = t /\ obs' = obs /\ \A c \in Ctcs \ {e} : ctc'[c] = ctc[c]
    BY <1>0, <1>1, <1>2 DEF AddStore, DelCheck, Inside
  <2> QED BY <2>1, SparesSame DEF SparedBy
<1>3. CASE PopFront(t)
  BY <1>3, SparesSame DEF PopFront, SparedBy
<1>4. CASE Dispatch(t)
  <2>1. /\ pc[t] = "reap" /\ pc' = [pc EXCEPT ![t] = "loop"] /\ cur' = cur
        /\ \/ ReapCancel(t, e) \/ ReapStart(t, e) \/ ReapForward(t, e)
           \/ ReapPost(t, e) \/ ReapFinish(t, e)
    BY <1>1, <1>4 DEF Dispatch
  <2> QED BY <1>1, <2>1, SparesReap DEF SparedBy
<1> QED BY <1>2, <1>3, <1>4 DEF LoopStep

LEMMA UserSpares ==
  ASSUME DataOK, NEW t \in Threads, UserStep(t)
  PROVE  SparedBy(t)
<1>0. ctc \in [Ctcs -> CtcType] /\ obs \in [Ctcs -> ObsType]
  BY DEF DataOK
<1>1. PICK e \in Ctcs :
        \/ Add(t, e, "submit") \/ Add(t, e, "syc")
        \/ AddRepeat(t, e) \/ Await(t, e) \/ End(t, e) \/ Del(t, e) \/ EndCtc(t, e)
        \/ \E u \in Targets : Reto(t, e, u)
  BY DEF UserStep
<1>2. CASE \/ Add(t, e, "submit") \/ Add(t, e, "syc")
           \/ AddRepeat(t, e) \/ Await(t, e) \/ End(t, e) \/ Del(t, e)
  <2>1. ctc[e].from = t
    BY <1>2 DEF Add, AddRepeat, Await, End, Del, User
  <2>2. \A c \in Ctcs \ {e} : ctc'[c] = ctc[c] /\ obs'[c] = obs[c]
    BY <1>0, <1>2 DEF Add, AddRepeat, Await, End, Del
  <2> QED BY <2>1, <2>2, SparesSame DEF SparedBy
<1>3. CASE EndCtc(t, e) \/ \E u \in Targets : Reto(t, e, u)
  BY <1>3, SparesEndCtc DEF SparedBy
<1> QED BY <1>1, <1>2, <1>3

\* What a thread relies on inside dpevp_addv and dpele_del, for one thread.
InsideAt(t) ==
  /\ pc[t] \in {"add", "del"} => ctc[cur[t]].from = t
  /\ pc[t] = "add" =>
       ctc[cur[t]].alive /\ ctc[cur[t]].refc = 1 /\ ~obs[cur[t]].cancelled
  /\ pc[t] = "del" /\ ~ctc[cur[t]].detach /\ ~obs[cur[t]].cancelled /\ ~obs[cur[t]].syc
       => ctc[cur[t]].alive

\* Its own steps, and those of another.
LEMMA InsideOwn ==
  ASSUME DataOK, NEW t \in Threads, LoopStep(t) \/ UserStep(t)
  PROVE  /\ InsideAt(t)'
         /\ \A u \in Threads : u # t => pc'[u] = pc[u] /\ cur'[u] = cur[u]
<1>0. /\ ctc \in [Ctcs -> CtcType] /\ obs \in [Ctcs -> ObsType]
      /\ pc \in [Threads -> {"loop", "add", "del", "reap"}] /\ cur \in [Threads -> Ctcs]
  BY DEF DataOK
<1>1. ASSUME NEW c \in Ctcs, NEW a \in {"submit", "syc"}, Add(t, c, a)
      PROVE  InsideAt(t)' /\ \A u \in Threads : u # t => pc'[u] = pc[u] /\ cur'[u] = cur[u]
  <2>1. /\ pc'[t] = "add" /\ cur'[t] = c
        /\ \A u \in Threads : u # t => pc'[u] = pc[u] /\ cur'[u] = cur[u]
    BY <1>0, <1>1 DEF Add
  <2>2. ctc'[c].from = t /\ ctc'[c].alive /\ ctc'[c].refc = 1
    BY <1>0, <1>1 DEF Add, User, CtcType
  <2>3. ~obs'[c].cancelled
    BY <1>0, <1>1 DEF Add
  <2> QED BY <2>1, <2>2, <2>3 DEF InsideAt
<1>2. ASSUME NEW c \in Ctcs, Del(t, c)
      PROVE  InsideAt(t)' /\ \A u \in Threads : u # t => pc'[u] = pc[u] /\ cur'[u] = cur[u]
  <2>1. /\ pc'[t] = "del" /\ cur'[t] = c
        /\ \A u \in Threads : u # t => pc'[u] = pc[u] /\ cur'[u] = cur[u]
    BY <1>0, <1>2 DEF Del
  <2>2. ctc'[c].from = t /\ ctc'[c].alive
    BY <1>0, <1>2 DEF Del, User, CtcType
  <2> QED BY <2>1, <2>2 DEF InsideAt
<1>3. ASSUME pc'[t] \in {"loop", "reap"} PROVE InsideAt(t)'
  BY <1>3 DEF InsideAt
<1>4. ASSUME LoopStep(t)
      PROVE  /\ pc'[t] \in {"loop", "reap"}
             /\ \A u \in Threads : u # t => pc'[u] = pc[u] /\ cur'[u] = cur[u]
  BY <1>0, <1>4 DEF LoopStep, AddStore, DelCheck, PopFront, Dispatch
<1>5. CASE UserStep(t)
  <2>1. PICK c \in Ctcs :
          \/ Add(t, c, "submit") \/ Add(t, c, "syc")
          \/ AddRepeat(t, c) \/ Await(t, c) \/ End(t, c) \/ Del(t, c) \/ EndCtc(t, c)
          \/ \E u \in Targets : Reto(t, c, u)
    BY <1>5 DEF UserStep
  <2>2. AddRepeat(t, c) \/ Await(t, c) \/ End(t, c) \/ EndCtc(t, c)
          \/ (\E u \in Targets : Reto(t, c, u))
        => pc[t] = "loop" /\ pc' = pc /\ cur' = cur
    BY DEF AddRepeat, Await, End, EndCtc, Reto, User, AtLoop
  <2> QED BY <1>1, <1>2, <1>3, <2>1, <2>2
<1> QED BY <1>3, <1>4, <1>5

LEMMA InsideStep ==
  ASSUME DataOK, Good, Inside, [Next]_vars
  PROVE  Inside'
<1>1. (Inside <=> \A t \in Threads : InsideAt(t)) /\ (Inside' <=> \A t \in Threads : InsideAt(t)')
  BY DEF Inside, InsideAt
<1>2. CASE UNCHANGED <<ctc, obs, pc, cur>>
  BY <1>2 DEF Inside
<1>3. ASSUME NEW t \in Threads, LoopStep(t) \/ UserStep(t) PROVE Inside'
  <2>1. SparedBy(t)
    BY <1>3, LoopSpares, UserSpares
  <2>2. InsideAt(t)' /\ \A u \in Threads : u # t => pc'[u] = pc[u] /\ cur'[u] = cur[u]
    BY <1>3, InsideOwn
  <2>3. ASSUME NEW u \in Threads, u # t PROVE InsideAt(u)'
    <3>1. PICK c \in Ctcs : cur[u] = c
      BY DEF DataOK
    <3>2. pc'[u] = pc[u] /\ cur'[u] = c /\ InsideAt(u)
      BY <1>1, <2>2, <2>3, <3>1
    <3>3. CASE pc[u] \in {"add", "del"}
      <4>1. Spares(c)
        BY <2>1, <2>3, <3>1, <3>2, <3>3 DEF InsideAt, SparedBy
      <4> QED BY <3>1, <3>2, <4>1 DEF InsideAt, Spares
    <3>4. CASE pc[u] \notin {"add", "del"}
      BY <3>2, <3>4 DEF InsideAt
    <3> QED BY <3>3, <3>4
  <2> QED BY <1>1, <2>2, <2>3
<1> QED BY <1>2, <1>3 DEF Next, Transfer, vars

-----------------------------------------------------------------------------
(* What a step does to the outcome of a dpctc_submit call. *)

\* A pop is done by a thread in its loop and changes nothing else of the call's
\* history, a withdrawn call runs no more, and the result is what Result says.
Outcome(c) ==
  /\ PoppedNow(c) =>
       /\ obs'[c].cancelled = obs[c].cancelled /\ obs'[c].syc = obs[c].syc
       /\ obs'[c].early = obs[c].early /\ pc'[obs'[c].pop] = "loop"
  /\ obs[c].cancelled /\ obs'[c].cancelled => obs'[c].runs = obs[c].runs
  /\ Result(c) /\ Inside => Result(c)'

LEMMA OutcomeFrame ==
  ASSUME NEW c \in Ctcs, obs'[c] = obs[c], ctc'[c].stat = ctc[c].stat, ctc'[c].ret = ctc[c].ret,
         Adding(c)' <=> Adding(c)
  PROVE  Outcome(c)
BY DEF Outcome, Result, PoppedNow

\* Only the end and the beginning of dpevp_addv change who is inside it.
LEMMA AddingFrame ==
  ASSUME NEW t \in Threads, \A u \in Threads : u # t => pc'[u] = pc[u] /\ cur'[u] = cur[u],
         NEW c \in Ctcs, ~(pc[t] = "add" /\ cur[t] = c), ~(pc'[t] = "add" /\ cur'[t] = c)
  PROVE  Adding(c)' <=> Adding(c)
BY DEF Adding

LEMMA AddingSame ==
  ASSUME pc' = pc, cur' = cur, NEW c \in Ctcs
  PROVE  Adding(c)' <=> Adding(c)
BY DEF Adding

LEMMA OutcomeAdd ==
  ASSUME DataOK, NEW t \in Threads, NEW e \in Ctcs, NEW a \in {"submit", "syc"}, Add(t, e, a),
         NEW c \in Ctcs
  PROVE  Outcome(c)
<1>0. /\ ctc \in [Ctcs -> CtcType] /\ obs \in [Ctcs -> ObsType]
      /\ pc \in [Threads -> {"loop", "add", "del", "reap"}] /\ cur \in [Threads -> Ctcs]
  BY DEF DataOK
<1>1. CASE c # e
  <2>1. ctc'[c] = ctc[c] /\ obs'[c] = obs[c]
    BY <1>0, <1>1 DEF Add
  <2>2. /\ pc[t] = "loop" /\ cur'[t] = e
        /\ \A u \in Threads : u # t => pc'[u] = pc[u] /\ cur'[u] = cur[u]
    BY <1>0 DEF Add, User, AtLoop
  <2>3. Adding(c)' <=> Adding(c)
    BY <1>1, <2>2, AddingFrame
  <2> QED BY <2>1, <2>3, OutcomeFrame
<1>2. CASE c = e
  <2>1. ctc'[c].stat = "COMMIT" /\ ~obs'[c].cancelled /\ obs'[c].pop = None
    BY <1>0, <1>2 DEF Add, CtcType
  <2> QED BY <2>1 DEF Outcome, Result, PoppedNow
<1> QED BY <1>1, <1>2

LEMMA OutcomeOwner ==
  ASSUME DataOK, Good, NEW t \in Threads, NEW e \in Ctcs,
         AddRepeat(t, e) \/ Await(t, e) \/ End(t, e) \/ Del(t, e),
         NEW c \in Ctcs, ~obs[c].syc
  PROVE  Outcome(c)
<1>0. /\ ctc \in [Ctcs -> CtcType] /\ obs \in [Ctcs -> ObsType]
      /\ pc \in [Threads -> {"loop", "add", "del", "reap"}] /\ cur \in [Threads -> Ctcs]
  BY DEF DataOK
<1>a. Adding(c)' <=> Adding(c)
  <2>1. /\ pc[t] = "loop" /\ pc'[t] # "add"
        /\ \A u \in Threads : u # t => pc'[u] = pc[u] /\ cur'[u] = cur[u]
    BY <1>0 DEF AddRepeat, Await, End, Del, User, AtLoop
  <2> QED BY <2>1, AddingFrame
<1>1. CASE c # e
  <2>1. ctc'[c] = ctc[c] /\ obs'[c] = obs[c]
    BY <1>0, <1>1 DEF AddRepeat, Await, End, Del
  <2> QED BY <1>a, <2>1, OutcomeFrame
<1>2. CASE c = e
  <2>1. CASE AddRepeat(t, e)
    <3>1. ctc[c].alive /\ ~Doing(c) /\ ctc[c].stat \in {"COMMIT", "CANCEL", "RUNNING"}
      BY <1>2, <2>1 DEF AddRepeat, User
    <3> QED BY <3>1 DEF Good, Track, Idle
  <2>2. CASE Await(t, e) \/ Del(t, e)
    <3>1. ctc'[c].stat = ctc[c].stat /\ ctc'[c].ret = ctc[c].ret /\ obs' = obs
      BY <1>0, <1>2, <2>2 DEF Await, Del, CtcType
    <3> QED BY <1>a, <3>1, OutcomeFrame
  <2>3. CASE End(t, e)
    <3>1. ctc'[c].stat = "CANCEL" /\ ctc'[c].ret = Cancelled
      BY <1>0, <1>2, <2>3 DEF End, CtcType
    <3>2. obs'[c].pop = obs[c].pop /\ obs'[c].runs = obs[c].runs /\ obs'[c].cancelled
      BY <1>0, <1>2, <2>3 DEF End, ObsType
    <3> QED BY <3>1, <3>2 DEF Outcome, Result, PoppedNow
  <2> QED BY <2>1, <2>2, <2>3
<1> QED BY <1>1, <1>2

LEMMA OutcomeInside ==
  ASSUME DataOK, Good, NEW t \in Threads, AddStore(t) \/ DelCheck(t),
         NEW c \in Ctcs, ~obs[c].syc
  PROVE  Outcome(c)
<1>0. /\ ctc \in [Ctcs -> CtcType] /\ obs' = obs /\ cur' = cur /\ pc'[t] = "loop"
      /\ \A u \in Threads : u # t => pc'[u] = pc[u]
  BY DEF DataOK, AddStore, DelCheck
<1>1. PICK e \in Ctcs : cur[t] = e
  BY DEF DataOK
<1>2. CASE c # e
  <2>1. ctc'[c] = ctc[c]
    BY <1>0, <1>1, <1>2 DEF AddStore, DelCheck
  <2>2. Adding(c)' <=> Adding(c)
    BY <1>0, <1>1, <1>2, AddingFrame
  <2> QED BY <1>0, <2>1, <2>2, OutcomeFrame
<1>3. CASE c = e /\ DelCheck(t)
  <2>1. ctc'[c].stat = ctc[c].stat /\ ctc'[c].ret = ctc[c].ret /\ pc[t] = "del"
    BY <1>0, <1>1, <1>3 DEF DelCheck, CtcType
  <2>2. Adding(c)' <=> Adding(c)
    BY <1>0, <2>1, AddingFrame
  <2> QED BY <1>0, <2>1, <2>2, OutcomeFrame
<1>4. CASE c = e /\ AddStore(t)
  <2>1. /\ ctc'[c].stat = ctc[c].stat /\ pc[t] = "add" /\ Adding(c)
        /\ ctc'[c].ret = InProgress
    BY <1>0, <1>1, <1>4 DEF AddStore, CtcType, Adding
  <2>2. ASSUME Inside PROVE ~obs[c].cancelled /\ ~Adding(c)'
    BY <1>0, <1>1, <1>4, <2>1, <2>2 DEF Inside, Adding
  <2> QED BY <1>0, <2>1, <2>2 DEF Outcome, Result, PoppedNow
<1> QED BY <1>2, <1>3, <1>4

LEMMA OutcomeReto ==
  ASSUME DataOK, NEW t \in Threads, NEW e \in Ctcs, NEW u \in Targets, Reto(t, e, u),
         NEW c \in Ctcs
  PROVE  Outcome(c)
<1>0. ctc \in [Ctcs -> CtcType] /\ obs \in [Ctcs -> ObsType]
  BY DEF DataOK
<1>1. /\ ctc'[c].stat = ctc[c].stat /\ ctc'[c].ret = ctc[c].ret
  BY <1>0 DEF Reto, CtcType
<1>2. /\ obs'[c].pop = obs[c].pop /\ obs'[c].runs = obs[c].runs
      /\ obs'[c].cancelled = obs[c].cancelled /\ obs'[c].result = obs[c].result
      /\ obs'[c].early = obs[c].early
  BY <1>0 DEF Reto, ObsType
<1>3. Adding(c)' <=> Adding(c)
  BY AddingSame DEF Reto
<1> QED BY <1>1, <1>2, <1>3 DEF Outcome, Result, PoppedNow

LEMMA OutcomeEndCtc ==
  ASSUME DataOK, Good, NEW t \in Threads, NEW e \in Ctcs, EndCtc(t, e),
         NEW c \in Ctcs, ~obs[c].syc
  PROVE  Outcome(c)
<1>0. ctc \in [Ctcs -> CtcType] /\ obs \in [Ctcs -> ObsType] /\ t # None
  BY CtcAssumption DEF DataOK, Threads, None
<1>a. Adding(c)' <=> Adding(c)
  BY AddingSame DEF EndCtc
<1>1. CASE c # e
  <2>1. ctc'[c] = ctc[c] /\ obs'[c] = obs[c]
    BY <1>0, <1>1 DEF EndCtc
  <2> QED BY <1>a, <2>1, OutcomeFrame
<1>3. CASE c = e
  <2> DEFINE r == [ctc[c] EXCEPT !.ret = obs[c].round, !.reto = FALSE,
                                 !.stat = IF ctc[c].reto THEN "COMMIT" ELSE "FINISH"]
  <2>1. r \in CtcType /\ r.ret = obs[c].round
    <3>1. obs[c].round \in Cancelled .. MaxRounds
      BY <1>0, RetType DEF ObsType
    <3>2. ctc[c] \in CtcType
      BY <1>0
    <3> QED BY <3>1, <3>2 DEF CtcType, Stats
  <2>2. ctc'[c] = r \/ ctc'[c] = Released(r)
    BY <1>0, <1>3 DEF EndCtc
  <2> HIDE DEF r
  <2>3. ctc'[c].ret = obs[c].round
    BY <2>1, <2>2, ReleasedFields
  <2>4. /\ obs'[c].pop = obs[c].pop /\ obs'[c].runs = obs[c].runs
        /\ obs'[c].cancelled = obs[c].cancelled /\ obs'[c].result = obs[c].round
        /\ obs'[c].early = Adding(c)
    BY <1>0, <1>3 DEF EndCtc, ObsType
  <2>5. ~obs[c].cancelled
    BY <1>0, <1>3 DEF EndCtc, Good, Track, Served, Runs
  <2> QED BY <1>a, <2>3, <2>4, <2>5 DEF Outcome, Result, PoppedNow
<1> QED BY <1>1, <1>3

LEMMA OutcomeReap ==
  ASSUME DataOK, Good, NEW t \in Threads, NEW e \in Ctcs, pc[t] = "reap", cur[t] = e,
         pc' = [pc EXCEPT ![t] = "loop"], cur' = cur,
         \/ ReapCancel(t, e) \/ ReapStart(t, e) \/ ReapForward(t, e)
         \/ ReapPost(t, e) \/ ReapFinish(t, e),
         NEW c \in Ctcs, ~obs[c].syc
  PROVE  Outcome(c)
<1>0. ctc \in [Ctcs -> CtcType] /\ obs \in [Ctcs -> ObsType]
  BY DEF DataOK
<1>a. /\ pc'[t] = "loop" /\ \A u \in Threads : u # t => pc'[u] = pc[u] /\ cur'[u] = cur[u]
  BY DEF DataOK
<1>b. Adding(c)' <=> Adding(c)
  BY <1>a, AddingFrame
<1>1. CASE c # e
  <2>1. ctc'[c] = ctc[c] /\ obs'[c] = obs[c]
    BY <1>0, <1>1 DEF ReapCancel, ReapStart, ReapForward, ReapPost, ReapFinish, AscOver
  <2> QED BY <1>b, <2>1, OutcomeFrame
<1>2. CASE c = e
  <2>0. /\ Track(c) /\ Reaps(t, c) /\ ctc[c].asc = "submit" /\ ctc[c].stat # "INITIAL"
        /\ ctc[c] \in CtcType /\ obs[c] \in ObsType
    BY <1>0, <1>2, Turned
  <2>1. CASE ReapCancel(t, c)
    <3> DEFINE r == [ctc[c] EXCEPT !.stat = "FINISH"]
    <3>1. r \in CtcType /\ r.ret = ctc[c].ret /\ ctc' = [ctc EXCEPT ![c] = Released(r)]
      BY <1>0, <2>0, <2>1 DEF CtcType, Stats, ReapCancel
    <3> HIDE DEF r
    <3>2. ctc'[c].ret = ctc[c].ret /\ obs' = obs
      BY <1>0, <2>1, <3>1, ReleasedFields DEF ReapCancel
    <3>3. obs[c].cancelled
      BY <2>0, <2>1 DEF ReapCancel, Track, Runs
    <3> QED BY <1>a, <1>b, <3>2, <3>3 DEF Outcome, Result, PoppedNow
  <2>2. CASE ReapStart(t, c)
    <3>1. ctc'[c].stat = "RUNNING" /\ ctc[c].stat \in {"COMMIT", "RUNNING"}
      BY <1>0, <2>0, <2>2 DEF ReapStart, AscOver, CtcType
    <3>2. obs'[c].pop = obs[c].pop /\ obs'[c].cancelled = obs[c].cancelled
      BY <1>0, <2>0, <2>2 DEF ReapStart, AscOver, ObsType, CtcType
    <3>3. ~obs[c].cancelled
      BY <2>0, <3>1 DEF Track, Runs
    <3> QED BY <1>a, <1>b, <3>1, <3>2, <3>3 DEF Outcome, Result, PoppedNow
  <2>3. CASE ReapForward(t, c)
    <3>1. ctc'[c].stat = "RUNNING" /\ ctc[c].stat = "COMMIT" /\ obs' = obs
      BY <1>0, <2>3 DEF ReapForward, CtcType
    <3>2. ~obs[c].cancelled
      BY <2>0, <3>1 DEF Track, Runs
    <3> QED BY <1>a, <1>b, <3>1, <3>2 DEF Outcome, Result, PoppedNow
  <2>4. CASE ReapPost(t, c)
    BY <2>0, <2>4 DEF ReapPost
  <2>5. CASE ReapFinish(t, c)
    <3>1. ctc[c].stat = "FINISH"
      <4>1. ctc[c].stat # "RUNNING"
        BY <2>0, <2>5 DEF ReapFinish, Track, OnItsWay
      <4> QED BY <2>0, <2>5, <4>1 DEF CtcType, Stats, ReapFinish
    <3>2. ctc'[c].stat = ctc[c].stat /\ ctc'[c].ret = ctc[c].ret
      <4>1. CASE ctc' = ctc
        BY <4>1
      <4>2. CASE ctc' = [ctc EXCEPT ![c] = Released(ctc[c])]
        BY <1>0, <2>0, <4>2, ReleasedFields
      <4>3. CASE AscOver(t, c, ctc[c])
        <5> DEFINE s == [ctc[c] EXCEPT !.asc = "none", !.cop = FALSE, !.ret = ctc[c].ret]
        <5>1. s \in CtcType /\ s.stat = ctc[c].stat /\ s.ret = ctc[c].ret
          BY <2>0 DEF CtcType
        <5>2. ctc' = [ctc EXCEPT ![c] = Released(s)]
          BY <2>0, <3>1, <4>3 DEF AscOver
        <5> HIDE DEF s
        <5> QED BY <1>0, <5>1, <5>2, ReleasedFields
      <4> QED BY <2>5, <4>1, <4>2, <4>3 DEF ReapFinish
    <3>3. /\ obs'[c].cancelled = obs[c].cancelled /\ obs'[c].syc = obs[c].syc
          /\ obs'[c].runs = obs[c].runs /\ obs'[c].result = obs[c].result
          /\ obs'[c].early = obs[c].early /\ obs'[c].pop \in {obs[c].pop, t}
      <4>1. CASE obs' = obs
        BY <4>1
      <4>2. CASE AscOver(t, c, ctc[c])
        BY <1>0, <2>0, <3>1, <4>2 DEF AscOver, ObsType
      <4> QED BY <2>5, <4>1, <4>2 DEF ReapFinish
    <3> QED BY <1>a, <1>b, <3>1, <3>2, <3>3 DEF Outcome, Result, PoppedNow
  <2> QED BY <1>2, <2>1, <2>2, <2>3, <2>4, <2>5
<1> QED BY <1>1, <1>2

LEMMA OutcomeStep ==
  ASSUME IInv, [Next]_vars, NEW c \in Ctcs, ~obs[c].syc
  PROVE  Outcome(c)
<1>0. DataOK /\ Good
  BY TypeParts DEF IInv
<1>1. CASE \E t \in Threads : LoopStep(t)
  <2>1. PICK t \in Threads : LoopStep(t)
    BY <1>1
  <2>2. CASE Dispatch(t)
    <3>1. PICK e \in Ctcs : cur[t] = e
      BY <1>0 DEF DataOK
    <3>2. /\ pc[t] = "reap" /\ pc' = [pc EXCEPT ![t] = "loop"] /\ cur' = cur
          /\ \/ ReapCancel(t, e) \/ ReapStart(t, e) \/ ReapForward(t, e)
             \/ ReapPost(t, e) \/ ReapFinish(t, e)
      BY <2>2, <3>1 DEF Dispatch
    <3> QED BY <1>0, <3>1, <3>2, OutcomeReap
  <2>3. CASE PopFront(t)
    <3>1. /\ pc[t] = "loop" /\ pc'[t] = "reap" /\ ctc' = ctc /\ obs' = obs
          /\ \A u \in Threads : u # t => pc'[u] = pc[u] /\ cur'[u] = cur[u]
      BY <1>0, <2>3 DEF PopFront, AtLoop, DataOK
    <3>2. Adding(c)' <=> Adding(c)
      BY <3>1, AddingFrame
    <3> QED BY <3>1, <3>2, OutcomeFrame
  <2> QED BY <1>0, <2>1, <2>2, <2>3, OutcomeInside DEF LoopStep
<1>2. CASE \E t \in Threads : UserStep(t)
  <2>1. PICK t \in Threads, e \in Ctcs :
          \/ Add(t, e, "submit") \/ Add(t, e, "syc")
          \/ AddRepeat(t, e) \/ Await(t, e) \/ End(t, e) \/ Del(t, e) \/ EndCtc(t, e)
          \/ \E u \in Targets : Reto(t, e, u)
    BY <1>2 DEF UserStep
  <2> QED BY <1>0, <2>1, OutcomeAdd, OutcomeOwner, OutcomeReto, OutcomeEndCtc
<1>3. CASE UNCHANGED <<ctc, obs, pc, cur>>
  BY <1>3, AddingSame, OutcomeFrame
<1> QED BY <1>1, <1>2, <1>3 DEF Next, Transfer, vars

\* An element used for dpsyc_* stays so.
LEMMA SycKept ==
  ASSUME DataOK, [Next]_vars, NEW c \in Ctcs, obs[c].syc
  PROVE  obs'[c].syc
<1>0. obs \in [Ctcs -> ObsType]
  BY DEF DataOK
<1>1. CASE obs' = obs
  BY <1>1
<1>2. ASSUME NEW t \in Threads, Dispatch(t) PROVE obs'[c].syc
  <2>1. PICK e \in Ctcs : cur[t] = e
    BY DEF DataOK
  <2>2. \/ ReapCancel(t, e) \/ ReapStart(t, e) \/ ReapForward(t, e)
        \/ ReapPost(t, e) \/ ReapFinish(t, e)
    BY <1>2, <2>1 DEF Dispatch
  <2>3. \/ obs' = obs \/ ReapPost(t, e)
        \/ \E r : AscOver(t, e, r)
    BY <2>2 DEF ReapCancel, ReapStart, ReapForward, ReapFinish
  <2>4. ASSUME NEW r, AscOver(t, e, r) PROVE obs'[c].syc
    BY <1>0, <2>4 DEF AscOver, ObsType
  <2>5. CASE ReapPost(t, e)
    BY <1>0, <2>5 DEF ReapPost, ObsType
  <2> QED BY <1>1, <2>3, <2>4, <2>5
<1>3. ASSUME NEW t \in Threads, UserStep(t) PROVE obs'[c].syc
  <2>1. PICK e \in Ctcs :
          \/ Add(t, e, "submit") \/ Add(t, e, "syc") \/ End(t, e) \/ EndCtc(t, e) \/ obs' = obs
          \/ \E u \in Targets : Reto(t, e, u)
    BY <1>3 DEF UserStep, AddRepeat, Await, Del
  <2>2. CASE Add(t, e, "submit") \/ Add(t, e, "syc")
    <3>1. CASE c = e
      BY <1>0, <2>2, <3>1 DEF Add, ObsType
    <3>2. CASE c # e
      BY <1>0, <2>2, <3>2 DEF Add
    <3> QED BY <3>1, <3>2
  <2>3. CASE End(t, e) \/ EndCtc(t, e)
    BY <1>0, <2>3 DEF End, EndCtc, ObsType
  <2>4. CASE \E u \in Targets : Reto(t, e, u)
    BY <1>0, <2>4 DEF Reto, ObsType
  <2> QED BY <2>1, <2>2, <2>3, <2>4, <1>1
<1> QED BY <1>1, <1>2, <1>3 DEF Next, LoopStep, AddStore, DelCheck, PopFront, Transfer, vars

LEMMA JInvStep ==
  ASSUME IInv, JInv, [Next]_vars
  PROVE  JInv'
<1>1. Inside'
  BY TypeParts, InsideStep DEF IInv, JInv
<1>2. ASSUME NEW c \in Ctcs, ~obs'[c].syc PROVE Result(c)'
  <2>1. ~obs[c].syc
    BY <1>2, TypeParts, SycKept DEF IInv
  <2> QED BY <2>1, OutcomeStep DEF JInv, Outcome
<1> QED BY <1>1, <1>2 DEF JInv

-----------------------------------------------------------------------------
(* The theorems.  Elements used for dpsyc_* are left out of them, as of the *)
(* properties.                                                              *)

\* The state of every call, thread and queue stays within its type, no element
\* is in two places, and a dpctc_submit call is where its state says.
THEOREM CallsTracked == Spec => []IInv
BY InitGood, IInvStep, PTL DEF Spec

\* dpevp_pop returns a finished call on the thread that submitted it, and an
\* element looks idle only in its owner's hands, if dpsyc_* stays between workers.
THEOREM CallsReturnHome ==
  ASSUME SycThreads \subseteq Workers
  PROVE  Spec => []ReturnsHome
<1>1. IInv => ReturnsHome
  BY DEF IInv, Good, Home, Homing, ReturnsHome, HomeWhenIdle, Track, Idle
<1> QED BY <1>1, CallsTracked, PTL

\* A call runs once at every thread it is sent to, and not at all after
\* dpevp_end has withdrawn it.
THEOREM CallsRunOnce == Spec => []RunsOncePerHop
<1>1. IInv => RunsOncePerHop
  BY DEF IInv, Good, RunsOncePerHop, Track, Popped, Runs
<1> QED BY <1>1, CallsTracked, PTL

\* Once dpevp_end has withdrawn a dpctc_submit, nothing of it runs any more:
\* the compare-and-swap of dpevp_end and that of the reaping thread exclude each
\* other.
THEOREM WithdrawnNeverRuns == Spec => CancelledNeverRuns
<1>1. IInv /\ [Next]_vars =>
        \A c \in Ctcs : obs[c].cancelled /\ obs'[c].cancelled /\ ~obs[c].syc
                        => obs'[c].runs = obs[c].runs
  BY OutcomeStep DEF Outcome
<1> QED BY <1>1, CallsTracked, PTL DEF Spec, CancelledNeverRuns

\* What dpevp_addv (ele->ret = ... after the commit) and dpele_del (asc_type after
\* the last reference) find in an element other threads may have by then, and what
\* their interleavings make of its result.
THEOREM CallsShared == Spec => []JInv
<1>1. Init => JInv
  <2> SUFFICES ASSUME Init PROVE JInv
    OBVIOUS
  <2>1. \A t \in Threads : pc[t] = "loop"
    BY DEF Init
  <2>2. \A c \in Ctcs : ctc[c].stat = "INITIAL" /\ ~obs[c].cancelled
    BY DEF Init
  <2> QED BY <2>1, <2>2 DEF JInv, Inside, Result
<1>2. IInv /\ JInv /\ [Next]_vars => JInv'
  <2> SUFFICES ASSUME IInv, JInv, [Next]_vars PROVE JInv'
    OBVIOUS
  <2> QED BY JInvStep
<1> QED BY <1>1, <1>2, CallsTracked, PTL DEF Spec

\* A popped call carries the value given to dpevp_end, or DPE_INPROGRESS if its
\* callback returned before the dpevp_addv that submitted it did, or else what its
\* callback returned for this submission.
THEOREM ResultsKnown == Spec => ResultUnlessEarly
<1>1. ASSUME IInv, IInv', JInv', [Next]_vars, NEW c \in Ctcs, PoppedNow(c), ~obs[c].syc
      PROVE  ctc'[c].ret = IF obs[c].cancelled THEN Cancelled
                           ELSE IF obs[c].early THEN InProgress ELSE obs'[c].result
  <2>1. /\ obs'[c].cancelled = obs[c].cancelled /\ ~obs'[c].syc
        /\ obs'[c].early = obs[c].early /\ pc'[obs'[c].pop] = "loop"
    BY <1>1, OutcomeStep DEF Outcome
  <2>2. Result(c)' /\ ctc'[c].stat = "FINISH" /\ obs'[c].pop = ctc'[c].from
    BY <1>1, <2>1 DEF JInv, IInv, Good, Track, Popped, PoppedNow
  <2>3. ~Adding(c)'
    BY <1>1, <2>1, <2>2 DEF JInv, Inside, Adding
  <2> QED BY <2>1, <2>2, <2>3 DEF Result
<1>2. IInv /\ IInv' /\ JInv' /\ [Next]_vars =>
        \A c \in Ctcs : PoppedNow(c) /\ ~obs[c].syc =>
          ctc'[c].ret = IF obs[c].cancelled THEN Cancelled
                        ELSE IF obs[c].early THEN InProgress ELSE obs'[c].result
  BY <1>1
<1> QED BY <1>2, CallsTracked, CallsShared, PTL DEF Spec, ResultUnlessEarly

\* A freed element is in no queue, runs no callback and nobody touches it but its
\* owner's dpele_del, and that only if the call was detached or withdrawn.
THEOREM DanglesInDelOnly == Spec => []OnlyDelDangles
<1>1. IInv /\ JInv => OnlyDelDangles
  <2> SUFFICES ASSUME IInv, JInv, NEW c \in Ctcs, ~ctc[c].alive, ~obs[c].syc
               PROVE  /\ LetGo(c)
                      /\ \A t \in Threads :
                           Deleting(t, c) =>
                             t = ctc[c].from /\ (ctc[c].detach \/ obs[c].cancelled)
    BY DEF OnlyDelDangles
  <2>1. Gone(c)
    BY DEF IInv, Good, Track
  <2>2. ASSUME NEW t \in Threads, cur[t] = c PROVE pc[t] \in {"loop", "del"}
    <3>1. pc[t] \in {"loop", "add", "del", "reap"}
      BY DEF IInv, TypeOK
    <3> QED BY <2>1, <2>2, <3>1 DEF JInv, Inside, Gone, Reaps
  <2>3. LetGo(c)
    BY <2>1, <2>2 DEF LetGo, Gone, In
  <2>4. ASSUME NEW t \in Threads, Deleting(t, c)
        PROVE  t = ctc[c].from /\ (ctc[c].detach \/ obs[c].cancelled)
    BY <2>4 DEF JInv, Inside, Deleting
  <2> QED BY <2>3, <2>4
<1> QED BY <1>1, CallsTracked, CallsShared, PTL
=============================================================================
