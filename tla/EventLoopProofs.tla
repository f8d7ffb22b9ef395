-------------------------- MODULE EventLoopProofs --------------------------
(***************************************************************************)
(* Proofs about the event loop of one thread (EventLoop).                  *)
(***************************************************************************)
EXTENDS EventLoop, SequenceTheorems, WellFoundedInduction, TLAPS

In(s, e) == \E i \in DOMAIN s : s[i] = e
Distinct(s) == \A i, j \in DOMAIN s : s[i] = s[j] => i = j

\* r has its members in the order of s.
InOrder(r, s) ==
  \A i, j \in DOMAIN r : i <= j =>
    \E k, l \in DOMAIN s : k <= l /\ s[k] = r[i] /\ s[l] = r[j]

-----------------------------------------------------------------------------
(* The invariant of the loop, whatever the application does. *)

Types ==
  /\ ele \in [Eles -> EleType]
  /\ left \in [Eles -> Int] /\ \A e \in Eles : left[e] >= -1
  /\ ready \in Seq(Eles) /\ timer \in Seq(Eles)
  /\ batch \in Seq(Efds) /\ Len(batch) <= BatchSize
  /\ edge \in Seq(Efds)
  /\ limit \in 0 .. ReapLimit
  /\ pc \in {"user", "efd", "usd", "tmr", "wait"}
  /\ cb \in Tmrs \cup {None}
  /\ waitms \in Int
  /\ owed \in [Eles -> Int]

\* I/O is submitted on descriptors and user elements, timeouts on timers.
Kinds ==
  \A e \in Eles : /\ ele[e].asc = "io" => e \notin Tmrs
                  /\ ele[e].asc \in {"timeout", "callback"} => e \in Tmrs

\* The timer tree holds an element once and is in the order of the deadlines.
Ordered ==
  /\ Distinct(timer)
  /\ \A i, j \in DOMAIN timer : i <= j => left[timer[i]] <= left[timer[j]]

\* The queues are reaped below the limit only; callbacks run while they are.
Phases ==
  /\ pc \in {"usd", "tmr"} => limit < ReapLimit
  /\ cb # None => pc \in {"usd", "tmr"}

LInv == Types /\ Kinds /\ Ordered /\ Phases /\ NoOversleep

-----------------------------------------------------------------------------
(* The invariant of the elements, for an application that does none of      *)
(* these: submit a timer that was ended before it was popped, submit it     *)
(* without a callback while it is doing, delete or re-arm it inside its own *)
(* callback without a reference to it.                                      *)
Careful == Uses \cap {"rearm_ended", "null_callback", "own_delete", "orphan_rearm"} = {}

\* A freed element is idle and nowhere.
Gone(e) == ~Doing(e) /\ ~Queued(e) /\ ~Timing(e) /\ cb # e /\ owed[e] = 0

\* One result is to come for the operation, one for the callback that runs.
Owes(e) == owed[e] = (IF Doing(e) THEN 1 ELSE 0) + (IF cb = e THEN 1 ELSE 0)

\* It is in the ready queue or in the timer tree only while it is doing; in its
\* callback only a timer with a reference is armed again.
Placed(e) ==
  /\ Queued(e) \/ Timing(e) => Doing(e)
  /\ ~(Queued(e) /\ Timing(e))
  /\ cb = e /\ Doing(e) => ele[e].refc > 0

EInv ==
  /\ Distinct(ready)
  /\ \A e \in Eles : /\ ~ele[e].alive => Gone(e)
                     /\ ele[e].alive => Owes(e) /\ Placed(e)

-----------------------------------------------------------------------------
(* Sequences of elements. *)

Less == {p \in Nat \X Nat : p[1] < p[2]}

\* A non-empty set of naturals has a least member.
LEMMA Least ==
  ASSUME NEW T, T \subseteq Nat, T # {}
  PROVE  \E m \in T : \A k \in T : m <= k
<1>1. IsWellFoundedOn(Less, Nat)
  BY NatLessThanWellFounded, Zenon DEF OpToRel, Less
<1>2. PICK m \in T : \A k \in T : ~(<<k, m>> \in Less)
  BY <1>1, WFMin
<1>3. ASSUME NEW k \in T PROVE m <= k
  <2>1. ~(<<k, m>> \in Less)
    BY <1>2
  <2> QED BY <2>1 DEF Less
<1> QED BY <1>3

\* RemoveFirst by index.
LEMMA RemoveIndex ==
  ASSUME NEW S, NEW s \in Seq(S), NEW e
  PROVE  \/ RemoveFirst(s, e) = s /\ ~In(s, e)
         \/ \E n \in DOMAIN s :
              /\ s[n] = e /\ RemoveFirst(s, e) \in Seq(S)
              /\ DOMAIN RemoveFirst(s, e) = 1 .. Len(s) - 1
              /\ \A i \in 1 .. Len(s) - 1 :
                   RemoveFirst(s, e)[i] = IF i < n THEN s[i] ELSE s[i + 1]
<1>0. DOMAIN s = 1 .. Len(s) /\ Len(s) \in Nat
  OBVIOUS
<1>1. CASE ~In(s, e)
  BY <1>0, <1>1 DEF RemoveFirst, In
<1>2. CASE In(s, e)
  <2> DEFINE I == {i \in 1 .. Len(s) : s[i] = e}
  <2>1. PICK n \in I : Min(I) = n
    <3>1. I # {} /\ I \subseteq Nat
      BY <1>0, <1>2 DEF In
    <3>2. \E m \in I : \A k \in I : m <= k
      BY <3>1, Least
    <3> QED BY <3>2 DEF Min
  <2>a. n \in 1 .. Len(s) /\ s[n] = e
    OBVIOUS
  <2>b. SelectInSeq(s, LAMBDA v : v = e) = n
    BY <2>1 DEF SelectInSeq
  <2>2. RemoveFirst(s, e) = SubSeq(s, 1, n - 1) \o SubSeq(s, n + 1, Len(s))
    BY <1>0, <1>2, <2>b DEF RemoveFirst, RemoveAt, In
  <2> DEFINE p == SubSeq(s, 1, n - 1)
             q == SubSeq(s, n + 1, Len(s))
  <2>3. p \in Seq(S) /\ DOMAIN p = 1 .. n - 1 /\ Len(p) = n - 1 /\ \A i \in 1 .. n - 1 : p[i] = s[i]
    BY <1>0, <2>a
  <2>4. /\ q \in Seq(S) /\ DOMAIN q = 1 .. Len(s) - n /\ Len(q) = Len(s) - n
        /\ \A i \in 1 .. Len(s) - n : q[i] = s[i + n]
    <3>1. n \in Nat /\ n + 1 \in Nat /\ n + 1 <= Len(s) + 1 /\ Len(s) - (n + 1) + 1 = Len(s) - n
      BY <1>0, <2>a
    <3>2. \A i \in n + 1 .. Len(s) : s[i] \in S
      BY <1>0
    <3>3. /\ q \in Seq(S) /\ Len(q) = IF n + 1 <= Len(s) THEN Len(s) - (n + 1) + 1 ELSE 0
          /\ \A i \in 1 .. Len(s) - (n + 1) + 1 : q[i] = s[(n + 1) + i - 1]
      BY <1>0, <3>1, <3>2, SubSeqProperties
    <3> HIDE DEF q
    <3>4. \A i \in 1 .. Len(s) - n : (n + 1) + i - 1 = i + n
      BY <3>1
    <3>5. Len(q) = Len(s) - n
      <4>1. PICK l \in Nat : Len(s) = l
        BY <1>0
      <4>2. (IF n + 1 <= l THEN l - (n + 1) + 1 ELSE 0) = l - n
        BY <3>1, <4>1
      <4>3. Len(q) = IF n + 1 <= l THEN l - (n + 1) + 1 ELSE 0
        BY <3>3, <4>1
      <4> QED BY <4>1, <4>2, <4>3
    <3>6. \A i \in 1 .. Len(s) - n : q[i] = s[i + n]
      BY <3>1, <3>3, <3>4
    <3> QED BY <3>3, <3>5, <3>6
  <2> HIDE DEF p, q
  <2>5. /\ p \o q \in Seq(S) /\ DOMAIN (p \o q) = 1 .. Len(p) + Len(q)
        /\ \A i \in 1 .. Len(p) + Len(q) :
             (p \o q)[i] = IF i <= Len(p) THEN p[i] ELSE q[i - Len(p)]
    <3>1. /\ p \o q \in Seq(S) /\ Len(p \o q) = Len(p) + Len(q)
          /\ \A i \in 1 .. Len(p) + Len(q) :
               (p \o q)[i] = IF i <= Len(p) THEN p[i] ELSE q[i - Len(p)]
      BY <2>3, <2>4, ConcatProperties
    <3>2. DOMAIN (p \o q) = 1 .. Len(p \o q)
      BY <3>1, LenProperties
    <3> QED BY <3>1, <3>2
  <2>6. Len(p) + Len(q) = Len(s) - 1
    BY <1>0, <2>a, <2>3, <2>4
  <2>7. ASSUME NEW i \in 1 .. Len(s) - 1
        PROVE  (p \o q)[i] = IF i < n THEN s[i] ELSE s[i + 1]
    <3>1. CASE i < n
      BY <1>0, <2>a, <2>3, <2>5, <2>6, <3>1
    <3>2. CASE ~(i < n)
      <4>1. i - (n - 1) \in 1 .. Len(s) - n /\ i - (n - 1) + n = i + 1 /\ ~(i <= n - 1)
        BY <1>0, <2>a, <3>2
      <4> QED BY <2>3, <2>4, <2>5, <2>6, <3>2, <4>1
    <3> QED BY <3>1, <3>2
  <2> QED BY <1>0, <2>a, <2>2, <2>5, <2>6, <2>7 DEF p, q
<1> QED BY <1>1, <1>2

LEMMA RemoveSeq ==
  ASSUME NEW s \in Seq(Eles), Distinct(s), NEW e \in Eles, NEW r, r = RemoveFirst(s, e)
  PROVE  /\ r \in Seq(Eles) /\ Distinct(r)
         /\ \A x \in Eles : In(r, x) <=> In(s, x) /\ x # e
         /\ InOrder(r, s)
<1>0. DOMAIN s = 1 .. Len(s) /\ Len(s) \in Nat
  OBVIOUS
<1>1. CASE r = s /\ ~In(s, e)
  <2>1. \A x \in Eles : In(r, x) <=> In(s, x) /\ x # e
    BY <1>1
  <2> QED BY <1>1, <2>1 DEF InOrder
<1>2. CASE \E n \in DOMAIN s :
             /\ s[n] = e /\ r \in Seq(Eles) /\ DOMAIN r = 1 .. Len(s) - 1
             /\ \A i \in 1 .. Len(s) - 1 : r[i] = IF i < n THEN s[i] ELSE s[i + 1]
  <2> PICK n \in DOMAIN s :
        /\ s[n] = e /\ r \in Seq(Eles) /\ DOMAIN r = 1 .. Len(s) - 1
        /\ \A i \in 1 .. Len(s) - 1 : r[i] = IF i < n THEN s[i] ELSE s[i + 1]
    BY <1>2
  <2> DEFINE At(i) == IF i < n THEN i ELSE i + 1
  <2>1. /\ \A i \in DOMAIN r : At(i) \in DOMAIN s /\ At(i) # n /\ r[i] = s[At(i)]
        /\ \A i, j \in DOMAIN r : i <= j => At(i) <= At(j)
        /\ \A i, j \in DOMAIN r : At(i) = At(j) => i = j
    BY <1>0
  <2>2. ASSUME NEW k \in DOMAIN s, k # n PROVE \E i \in DOMAIN r : r[i] = s[k]
    <3>1. CASE k < n
      <4>1. k \in DOMAIN r /\ r[k] = s[k]
        BY <1>0, <3>1
      <4> QED BY <4>1
    <3>2. CASE ~(k < n)
      <4>1. k - 1 \in DOMAIN r /\ r[k - 1] = s[k]
        BY <1>0, <2>2, <3>2
      <4> QED BY <4>1
    <3> QED BY <3>1, <3>2
  <2> HIDE DEF At
  <2>3. Distinct(r)
    BY <2>1 DEF Distinct
  <2>4. \A x \in Eles : In(r, x) <=> In(s, x) /\ x # e
    <3> SUFFICES ASSUME NEW x \in Eles PROVE In(r, x) <=> In(s, x) /\ x # e
      OBVIOUS
    <3>1. ASSUME In(r, x) PROVE In(s, x) /\ x # e
      BY <2>1, <3>1 DEF In, Distinct
    <3>2. ASSUME In(s, x), x # e PROVE In(r, x)
      BY <2>2, <3>2 DEF In
    <3> QED BY <3>1, <3>2
  <2>5. InOrder(r, s)
    BY <2>1 DEF InOrder
  <2> QED BY <2>3, <2>4, <2>5
<1> QED BY <1>1, <1>2, RemoveIndex

LEMMA InsertSeq ==
  ASSUME NEW s \in Seq(Eles), NEW e \in Eles, NEW n \in 1 .. Len(s) + 1
  PROVE  LET r == InsertAt(s, n, e) IN
         /\ r \in Seq(Eles) /\ DOMAIN r = 1 .. Len(s) + 1
         /\ \A i \in DOMAIN r :
              r[i] = IF i < n THEN s[i] ELSE IF i = n THEN e ELSE s[i - 1]
<1> DEFINE p == SubSeq(s, 1, n - 1)
           q == SubSeq(s, n, Len(s))
           r == InsertAt(s, n, e)
<1>0. PICK l \in Nat : DOMAIN s = 1 .. l /\ Len(s) = l
  OBVIOUS
<1>a. n \in 1 .. l + 1 /\ n - 1 \in Int
  BY <1>0
<1>1. p \in Seq(Eles) /\ Len(p) = n - 1 /\ \A i \in 1 .. n - 1 : p[i] = s[i]
  <2>1. \A i \in 1 .. n - 1 : s[i] \in Eles
    BY <1>0, <1>a
  <2>2. /\ p \in Seq(Eles) /\ Len(p) = IF 1 <= n - 1 THEN (n - 1) - 1 + 1 ELSE 0
        /\ \A i \in 1 .. (n - 1) - 1 + 1 : p[i] = s[1 + i - 1]
    BY <1>a, <2>1, SubSeqProperties
  <2> HIDE DEF p
  <2>3. (IF 1 <= n - 1 THEN (n - 1) - 1 + 1 ELSE 0) = n - 1
    BY <1>a
  <2>4. \A i \in 1 .. n - 1 : i \in 1 .. (n - 1) - 1 + 1 /\ 1 + i - 1 = i
    BY <1>a
  <2> QED BY <2>2, <2>3, <2>4
<1>2. q \in Seq(Eles) /\ Len(q) = l - n + 1 /\ \A i \in 1 .. l - n + 1 : q[i] = s[n + i - 1]
  <2>1. \A i \in n .. l : s[i] \in Eles
    BY <1>0, <1>a
  <2>2. /\ q \in Seq(Eles) /\ Len(q) = IF n <= l THEN l - n + 1 ELSE 0
        /\ \A i \in 1 .. l - n + 1 : q[i] = s[n + i - 1]
    BY <1>0, <1>a, <2>1, SubSeqProperties
  <2> HIDE DEF q
  <2>3. (IF n <= l THEN l - n + 1 ELSE 0) = l - n + 1
    BY <1>a
  <2> QED BY <2>2, <2>3
<1>3. r = (p \o <<e>>) \o q
  BY DEF InsertAt
<1> HIDE DEF p, q, r
<1>4. /\ p \o <<e>> \in Seq(Eles) /\ Len(p \o <<e>>) = n
      /\ \A i \in 1 .. n : (p \o <<e>>)[i] = IF i < n THEN s[i] ELSE e
  <2>1. <<e>> \in Seq(Eles) /\ Len(<<e>>) = 1 /\ <<e>>[1] = e
    OBVIOUS
  <2>2. /\ p \o <<e>> \in Seq(Eles) /\ Len(p \o <<e>>) = Len(p) + Len(<<e>>)
        /\ \A i \in 1 .. Len(p) + Len(<<e>>) :
             (p \o <<e>>)[i] = IF i <= Len(p) THEN p[i] ELSE <<e>>[i - Len(p)]
    BY <1>1, <2>1, ConcatProperties
  <2>3. Len(p) + Len(<<e>>) = n
    BY <1>1, <1>a, <2>1
  <2>4. ASSUME NEW i \in 1 .. n PROVE (p \o <<e>>)[i] = IF i < n THEN s[i] ELSE e
    <3>1. CASE i < n
      BY <1>1, <1>a, <2>2, <2>3, <3>1
    <3>2. CASE ~(i < n)
      <4>1. ~(i <= n - 1) /\ i - (n - 1) = 1
        BY <1>a, <3>2
      <4> QED BY <1>1, <2>1, <2>2, <2>3, <3>2, <4>1
    <3> QED BY <3>1, <3>2
  <2> QED BY <2>2, <2>3, <2>4
<1>b. PICK pe : pe = p \o <<e>>
  OBVIOUS
<1>c. /\ pe \in Seq(Eles) /\ Len(pe) = n /\ r = pe \o q
      /\ \A i \in 1 .. n : pe[i] = IF i < n THEN s[i] ELSE e
  BY <1>3, <1>4, <1>b
<1>5. /\ pe \o q \in Seq(Eles) /\ Len(pe \o q) = Len(pe) + Len(q)
      /\ \A i \in 1 .. Len(pe) + Len(q) :
           (pe \o q)[i] = IF i <= Len(pe) THEN pe[i] ELSE q[i - Len(pe)]
  BY <1>2, <1>c, ConcatProperties
<1>6. Len(pe) = n /\ Len(pe) + Len(q) = l + 1 /\ r = pe \o q
  BY <1>2, <1>c, <1>a
<1>7. ASSUME NEW i \in 1 .. l + 1
      PROVE  r[i] = IF i < n THEN s[i] ELSE IF i = n THEN e ELSE s[i - 1]
  <2>1. CASE i <= n
    <3>1. i \in 1 .. n /\ r[i] = pe[i]
      BY <1>5, <1>6, <1>a, <2>1
    <3> QED BY <1>c, <1>a, <2>1, <3>1
  <2>2. CASE ~(i <= n)
    <3>1. i - n \in 1 .. l - n + 1 /\ n + (i - n) - 1 = i - 1 /\ ~(i < n) /\ i # n
      BY <1>a, <2>2
    <3>2. r[i] = q[i - n]
      BY <1>5, <1>6, <2>2
    <3>3. q[i - n] = s[n + (i - n) - 1]
      BY <1>2, <3>1
    <3> QED BY <3>1, <3>2, <3>3
  <2> QED BY <2>1, <2>2
<1>8. DOMAIN r = 1 .. l + 1
  BY <1>5, <1>6, LenProperties
<1> QED BY <1>0, <1>5, <1>6, <1>7, <1>8 DEF r
-----------------------------------------------------------------------------
(* The timer tree. *)

TimerOK ==
  /\ left \in [Eles -> Int] /\ \A e \in Eles : left[e] >= -1
  /\ timer \in Seq(Eles) /\ Ordered

LEMMA DisarmKeeps ==
  ASSUME TimerOK, NEW e \in Eles, Disarm(e)
  PROVE  TimerOK' /\ \A x \in Eles : Timing(x)' <=> Timing(x) /\ x # e
<1>1. PICK r : r = RemoveFirst(timer, e)
  OBVIOUS
<1>2. /\ r \in Seq(Eles) /\ Distinct(r)
      /\ \A x \in Eles : In(r, x) <=> In(timer, x) /\ x # e
      /\ InOrder(r, timer)
  <2>1. timer \in Seq(Eles) /\ Distinct(timer)
    BY DEF TimerOK, Ordered
  <2> QED BY <1>1, <2>1, RemoveSeq
<1>3. timer' = r /\ left' = [left EXCEPT ![e] = -1]
  BY <1>1 DEF Disarm
<1>4. \A i, j \in DOMAIN r : i <= j => left'[r[i]] <= left'[r[j]]
  <2> SUFFICES ASSUME NEW i \in DOMAIN r, NEW j \in DOMAIN r, i <= j
               PROVE  left'[r[i]] <= left'[r[j]]
    OBVIOUS
  <2>1. left[r[i]] <= left[r[j]]
    BY <1>2 DEF TimerOK, Ordered, InOrder
  <2>2. r[i] \in Eles /\ r[j] \in Eles /\ r[i] # e /\ r[j] # e
    BY <1>2 DEF In
  <2> QED BY <1>3, <2>1, <2>2 DEF TimerOK
<1>5. \A x \in Eles : Timing(x)' <=> Timing(x) /\ x # e
  BY <1>2, <1>3 DEF Timing, In
<1>6. left' \in [Eles -> Int] /\ \A x \in Eles : left'[x] >= -1
  BY <1>3 DEF TimerOK
<1> QED BY <1>2, <1>3, <1>4, <1>5, <1>6 DEF TimerOK, Ordered

LEMMA UpsertKeeps ==
  ASSUME TimerOK, NEW e \in Eles, NEW s \in Int, Upsert(e, s)
  PROVE  TimerOK' /\ \A x \in Eles : Timing(x)' <=> Timing(x) \/ (x = e /\ s >= 0)
<1>1. CASE s < 0
  <2>1. timer' = timer /\ left' = left
    BY <1>1 DEF Upsert
  <2> QED BY <1>1, <2>1 DEF TimerOK, Ordered, Timing
<1>2. CASE s >= 0
  <2>1. timer' \in Inserted(e, s) /\ left' = [left EXCEPT ![e] = s]
    BY <1>2 DEF Upsert
  <2>2. PICK r : r = RemoveFirst(timer, e)
    OBVIOUS
  <2>3. /\ r \in Seq(Eles) /\ Distinct(r)
        /\ \A x \in Eles : In(r, x) <=> In(timer, x) /\ x # e
        /\ InOrder(r, timer)
    <3>1. timer \in Seq(Eles) /\ Distinct(timer)
      BY DEF TimerOK, Ordered
    <3> QED BY <2>2, <3>1, RemoveSeq
  <2>4. PICK n \in 1 .. Len(r) + 1 :
          /\ timer' = InsertAt(r, n, e)
          /\ \A j \in 1 .. n - 1 : left[r[j]] <= s
          /\ \A j \in n .. Len(r) : left[r[j]] >= s
    BY <2>1, <2>2 DEF Inserted
  <2>5. /\ timer' \in Seq(Eles) /\ DOMAIN timer' = 1 .. Len(r) + 1
        /\ \A i \in DOMAIN timer' :
             timer'[i] = IF i < n THEN r[i] ELSE IF i = n THEN e ELSE r[i - 1]
    BY <2>3, <2>4, InsertSeq
  <2>6. PICK l \in Nat : Len(r) = l /\ DOMAIN r = 1 .. l
    BY <2>3
  <2>7. \A i \in DOMAIN r : r[i] \in Eles /\ r[i] # e
    BY <2>3 DEF In
  <2>a. /\ n \in 1 .. l + 1 /\ DOMAIN timer' = 1 .. l + 1 /\ timer'[n] = e
        /\ \A i \in 1 .. l + 1 : /\ i < n => timer'[i] = r[i] /\ i \in DOMAIN r
                                 /\ n < i => timer'[i] = r[i - 1] /\ i - 1 \in DOMAIN r
    <3>1. n \in 1 .. l + 1 /\ DOMAIN timer' = 1 .. l + 1
      BY <2>5, <2>6
    <3>2. timer'[n] = e
      BY <2>5, <3>1
    <3>3. ASSUME NEW i \in 1 .. l + 1, i < n PROVE timer'[i] = r[i] /\ i \in DOMAIN r
      BY <2>5, <2>6, <3>1, <3>3
    <3>4. ASSUME NEW i \in 1 .. l + 1, n < i PROVE timer'[i] = r[i - 1] /\ i - 1 \in DOMAIN r
      BY <2>5, <2>6, <3>1, <3>4
    <3> QED BY <3>1, <3>2, <3>3, <3>4
  <2>8. left' \in [Eles -> Int] /\ \A x \in Eles : left'[x] >= -1
    BY <1>2, <2>1 DEF TimerOK
  <2>9. \A i, j \in DOMAIN r : i <= j => left[r[i]] <= left[r[j]]
    BY <2>3 DEF TimerOK, Ordered, InOrder
  <2>10. Ordered'
    <3>1. \A i \in DOMAIN r : left'[r[i]] = left[r[i]] /\ left[r[i]] \in Int
      BY <2>1, <2>7 DEF TimerOK
    <3>2. left'[e] = s
      BY <2>1 DEF TimerOK
    <3>3. Distinct(timer')
      <4> SUFFICES ASSUME NEW i \in 1 .. l + 1, NEW j \in 1 .. l + 1, i < j
                   PROVE  timer'[i] # timer'[j]
        BY <2>5, <2>6 DEF Distinct
      <4>1. CASE j < n
        BY <2>3, <2>5, <2>6, <4>1 DEF Distinct
      <4>2. CASE j = n
        BY <2>5, <2>6, <2>7, <4>2
      <4>3. CASE n < j /\ i = n
        BY <2>5, <2>6, <2>7, <4>3
      <4>4. CASE n < j /\ i < n
        BY <2>3, <2>5, <2>6, <4>4 DEF Distinct
      <4>5. CASE n < i
        <5>1. /\ timer'[i] = r[i - 1] /\ timer'[j] = r[j - 1]
              /\ i - 1 \in DOMAIN r /\ j - 1 \in DOMAIN r /\ i - 1 # j - 1
          BY <2>a, <4>5
        <5> QED BY <2>3, <5>1 DEF Distinct
      <4> QED BY <4>1, <4>2, <4>3, <4>4, <4>5
    <3>4. ASSUME NEW i \in 1 .. l + 1, NEW j \in 1 .. l + 1, i < j
          PROVE  left'[timer'[i]] <= left'[timer'[j]]
      <4>1. CASE j < n
        BY <2>5, <2>6, <2>9, <3>1, <3>4, <4>1
      <4>2. CASE j = n
        <5>1. timer'[i] = r[i] /\ timer'[j] = e /\ i \in DOMAIN r /\ i \in 1 .. n - 1
          BY <2>5, <2>6, <3>4, <4>2
        <5> QED BY <2>4, <3>1, <3>2, <5>1
      <4>3. CASE n < j /\ i = n
        <5>1. timer'[i] = e /\ timer'[j] = r[j - 1] /\ j - 1 \in DOMAIN r /\ j - 1 \in n .. Len(r)
          BY <2>5, <2>6, <4>3
        <5> QED BY <2>4, <3>1, <3>2, <5>1
      <4>4. CASE n < j /\ i < n
        <5>1. /\ timer'[i] = r[i] /\ timer'[j] = r[j - 1]
              /\ i \in DOMAIN r /\ j - 1 \in DOMAIN r /\ i <= j - 1
          BY <2>a, <4>4
        <5> QED BY <2>9, <3>1, <5>1
      <4>5. CASE n < i
        <5>1. /\ timer'[i] = r[i - 1] /\ timer'[j] = r[j - 1]
              /\ i - 1 \in DOMAIN r /\ j - 1 \in DOMAIN r /\ i - 1 <= j - 1
          BY <2>a, <3>4, <4>5
        <5> QED BY <2>9, <3>1, <5>1
      <4> QED BY <3>4, <4>1, <4>2, <4>3, <4>4, <4>5
    <3>5. \A i \in 1 .. l + 1 : timer'[i] \in Eles /\ left'[timer'[i]] \in Int
      BY <2>5, <2>6, <2>8
    <3>6. \A i, j \in 1 .. l + 1 : i <= j => left'[timer'[i]] <= left'[timer'[j]]
      BY <3>4, <3>5
    <3>7. DOMAIN timer' = 1 .. l + 1
      BY <2>5, <2>6
    <3> QED BY <3>3, <3>6, <3>7 DEF Ordered
  <2>11. \A x \in Eles : Timing(x)' <=> Timing(x) \/ (x = e /\ s >= 0)
    <3> SUFFICES ASSUME NEW x \in Eles PROVE In(timer', x) <=> In(timer, x) \/ x = e
      BY <1>2 DEF In, Timing
    <3>1. ASSUME In(timer', x) PROVE In(r, x) \/ x = e
      <4>1. PICK i \in 1 .. l + 1 : timer'[i] = x
        BY <2>5, <2>6, <3>1 DEF In
      <4>2. CASE i < n
        BY <2>5, <2>6, <4>1, <4>2 DEF In
      <4>3. CASE n < i
        <5>1. r[i - 1] = x /\ i - 1 \in DOMAIN r
          BY <2>5, <2>6, <4>1, <4>3
        <5> QED BY <5>1 DEF In
      <4> QED BY <2>5, <2>6, <4>1, <4>2, <4>3
    <3>2. In(timer', e)
      BY <2>5, <2>6 DEF In
    <3>3. ASSUME In(r, x) PROVE In(timer', x)
      <4>1. PICK i \in DOMAIN r : r[i] = x
        BY <3>3 DEF In
      <4>2. CASE i < n
        BY <2>5, <2>6, <4>1, <4>2 DEF In
      <4>3. CASE ~(i < n)
        <5>1. timer'[i + 1] = x /\ i + 1 \in DOMAIN timer'
          BY <2>5, <2>6, <4>1, <4>3
        <5> QED BY <5>1 DEF In
      <4> QED BY <4>2, <4>3
    <3> QED BY <2>3, <3>1, <3>2, <3>3
  <2> QED BY <2>5, <2>8, <2>10, <2>11 DEF TimerOK
<1> QED BY <1>1, <1>2
-----------------------------------------------------------------------------
(* The steps keep the invariant of the loop. *)

\* An asc_type that suits the element.
Suits(e, a) == (a = "io" => e \notin Tmrs) /\ (a \in {"timeout", "callback"} => e \in Tmrs)

LEMMA EleStep ==
  ASSUME ele \in [Eles -> EleType], Kinds, NEW e \in Eles, NEW r \in EleType, Suits(e, r.asc),
         ele' = [ele EXCEPT ![e] = r]
  PROVE  /\ ele' \in [Eles -> EleType] /\ Kinds'
         /\ ele'[e] = r /\ \A x \in Eles : x # e => ele'[x] = ele[x]
BY DEF Kinds, Suits

Rets == {"OK", "ERR", "TIME", "INPROGRESS", "ENDED"}
Ascs == {"none", "io", "timeout", "callback"}

LEMMA FlipDetach ==
  ASSUME NEW r \in EleType
  PROVE  /\ [r EXCEPT !.detach = ~r.detach] \in EleType
         /\ [r EXCEPT !.detach = ~r.detach].asc = r.asc
         /\ [r EXCEPT !.detach = ~r.detach].alive = r.alive
         /\ [r EXCEPT !.detach = ~r.detach].refc = r.refc
BY DEF EleType

LEMMA AbsentType ==
  /\ Absent \in EleType /\ Absent.asc = "none" /\ ~Absent.alive
  /\ [Absent EXCEPT !.alive = TRUE, !.refc = 1] \in EleType
  /\ [Absent EXCEPT !.alive = TRUE, !.refc = 1].asc = "none"
  /\ [Absent EXCEPT !.alive = TRUE, !.refc = 1].alive
  /\ [Absent EXCEPT !.alive = TRUE, !.refc = 1].refc = 1
<1>1. Absent \in EleType /\ Absent.asc = "none" /\ ~Absent.alive
  BY DEF Absent, EleType
<1>2. ASSUME NEW r \in EleType
      PROVE  /\ [r EXCEPT !.alive = TRUE, !.refc = 1] \in EleType
             /\ [r EXCEPT !.alive = TRUE, !.refc = 1].asc = r.asc
             /\ [r EXCEPT !.alive = TRUE, !.refc = 1].alive = TRUE
             /\ [r EXCEPT !.alive = TRUE, !.refc = 1].refc = 1
  <2>1. 1 \in 0 .. 1
    OBVIOUS
  <2>2. PICK z \in 0 .. 1 : z = 1
    BY <2>1
  <2>3. PICK y \in BOOLEAN : y = TRUE
    OBVIOUS
  <2>4. /\ [r EXCEPT !.alive = y, !.refc = z] \in EleType
        /\ [r EXCEPT !.alive = y, !.refc = z].asc = r.asc
        /\ [r EXCEPT !.alive = y, !.refc = z].alive = y
        /\ [r EXCEPT !.alive = y, !.refc = z].refc = z
    BY DEF EleType
  <2> QED BY <2>2, <2>3, <2>4
<1> QED BY <1>1, <1>2

LEMMA SetAsc ==
  ASSUME ele \in [Eles -> EleType], Kinds, NEW e \in Eles, NEW a \in Ascs, NEW v \in Rets,
         Suits(e, a), ele' = [ele EXCEPT ![e].asc = a, ![e].ret = v]
  PROVE  /\ ele' \in [Eles -> EleType] /\ Kinds'
         /\ ele'[e].asc = a /\ ele'[e].alive = ele[e].alive /\ ele'[e].refc = ele[e].refc
         /\ \A x \in Eles : x # e => ele'[x] = ele[x]
<1> DEFINE r == [ele[e] EXCEPT !.asc = a, !.ret = v]
<1>1. r \in EleType /\ r.asc = a /\ r.alive = ele[e].alive /\ r.refc = ele[e].refc
  <2>1. PICK q \in EleType : q = ele[e]
    OBVIOUS
  <2>2. /\ [q EXCEPT !.asc = a, !.ret = v] \in EleType
        /\ [q EXCEPT !.asc = a, !.ret = v].asc = a
        /\ [q EXCEPT !.asc = a, !.ret = v].alive = q.alive
        /\ [q EXCEPT !.asc = a, !.ret = v].refc = q.refc
    BY DEF EleType, Ascs, Rets
  <2> QED BY <2>1, <2>2
<1>2. ele' = [ele EXCEPT ![e] = r]
  BY DEF EleType
<1> HIDE DEF r
<1> QED BY <1>1, <1>2, EleStep

LEMMA SetRet ==
  ASSUME ele \in [Eles -> EleType], Kinds, NEW e \in Eles, NEW v \in Rets,
         ele' = [ele EXCEPT ![e].ret = v]
  PROVE  /\ ele' \in [Eles -> EleType] /\ Kinds'
         /\ ele'[e].asc = ele[e].asc /\ ele'[e].alive = ele[e].alive /\ ele'[e].refc = ele[e].refc
         /\ \A x \in Eles : x # e => ele'[x] = ele[x]
<1> DEFINE r == [ele[e] EXCEPT !.ret = v]
<1>1. r \in EleType /\ r.asc = ele[e].asc /\ r.alive = ele[e].alive /\ r.refc = ele[e].refc
  <2>1. PICK q \in EleType : q = ele[e]
    OBVIOUS
  <2>2. /\ [q EXCEPT !.ret = v] \in EleType
        /\ [q EXCEPT !.ret = v].asc = q.asc
        /\ [q EXCEPT !.ret = v].alive = q.alive
        /\ [q EXCEPT !.ret = v].refc = q.refc
    BY DEF EleType, Rets
  <2> QED BY <2>1, <2>2
<1>2. ele' = [ele EXCEPT ![e] = r]
  BY DEF EleType
<1> HIDE DEF r
<1>3. Suits(e, r.asc)
  BY <1>1 DEF Suits, Kinds
<1> QED BY <1>1, <1>2, <1>3, EleStep

LEMMA SetRefc ==
  ASSUME ele \in [Eles -> EleType], Kinds, NEW e \in Eles, NEW a \in BOOLEAN,
         ele' = [ele EXCEPT ![e].refc = 0, ![e].alive = a]
  PROVE  /\ ele' \in [Eles -> EleType] /\ Kinds'
         /\ ele'[e].asc = ele[e].asc /\ ele'[e].alive = a /\ ele'[e].refc = 0
         /\ \A x \in Eles : x # e => ele'[x] = ele[x]
<1> DEFINE r == [ele[e] EXCEPT !.refc = 0, !.alive = a]
<1>1. r \in EleType /\ r.asc = ele[e].asc /\ r.alive = a /\ r.refc = 0
  <2>1. PICK q \in EleType : q = ele[e]
    OBVIOUS
  <2>2. PICK z \in 0 .. 1 : z = 0
    <3>1. 0 \in 0 .. 1
      OBVIOUS
    <3> QED BY <3>1
  <2>3. /\ [q EXCEPT !.refc = z, !.alive = a] \in EleType
        /\ [q EXCEPT !.refc = z, !.alive = a].asc = q.asc
        /\ [q EXCEPT !.refc = z, !.alive = a].alive = a
        /\ [q EXCEPT !.refc = z, !.alive = a].refc = z
    BY DEF EleType
  <2> QED BY <2>1, <2>2, <2>3
<1>2. ele' = [ele EXCEPT ![e] = r]
  BY DEF EleType
<1> HIDE DEF r
<1>3. Suits(e, r.asc)
  BY <1>1 DEF Suits, Kinds
<1> QED BY <1>1, <1>2, <1>3, EleStep

LEMMA EdgeLess == ASSUME edge \in Seq(Efds), NEW e PROVE RemoveFirst(edge, e) \in Seq(Efds)
BY RemoveIndex

LEMMA NoneIsNoEle == \A e \in Eles : e # None
BY LoopAssumption

LEMMA PushKeeps ==
  ASSUME ready \in Seq(Eles), NEW e \in Eles, PushReady(e)
  PROVE  /\ ready' \in Seq(Eles)
         /\ \A x \in Eles : Queued(x)' <=> Queued(x) \/ x = e
         /\ Distinct(ready) => Distinct(ready')
<1>1. CASE Queued(e)
  BY <1>1 DEF PushReady, Queued
<1>2. CASE ~Queued(e)
  <2>0. ready' = Append(ready, e)
    BY <1>2 DEF PushReady
  <2>1. PICK l \in Nat : Len(ready) = l /\ DOMAIN ready = 1 .. l
    OBVIOUS
  <2>2. /\ ready' \in Seq(Eles) /\ DOMAIN ready' = 1 .. l + 1
        /\ \A i \in 1 .. l : i \in 1 .. l + 1 /\ ready'[i] = ready[i]
        /\ ready'[l + 1] = e
    BY <2>0, <2>1
  <2>3. \A i \in 1 .. l + 1 : i \in 1 .. l \/ i = l + 1
    OBVIOUS
  <2>4. ASSUME NEW x \in Eles PROVE Queued(x)' <=> Queued(x) \/ x = e
    <3>1. ASSUME Queued(x)' PROVE Queued(x) \/ x = e
      BY <2>1, <2>2, <2>3, <3>1 DEF Queued
    <3>2. ASSUME Queued(x) PROVE Queued(x)'
      BY <2>1, <2>2, <3>2 DEF Queued
    <3>3. l + 1 \in DOMAIN ready'
      BY <2>2
    <3>4. Queued(e)'
      BY <2>2, <3>3 DEF Queued
    <3> QED BY <3>1, <3>2, <3>4
  <2>5. Distinct(ready) => Distinct(ready')
    BY <1>2, <2>1, <2>2, <2>3 DEF Distinct, Queued
  <2> QED BY <2>2, <2>4, <2>5
<1> QED BY <1>1, <1>2

\* A call of the application.
LEMMA UserKeeps ==
  ASSUME LInv, UNCHANGED loopVars, UserRuns, ele' \in [Eles -> EleType], Kinds', TimerOK',
         ready' \in Seq(Eles), edge' \in Seq(Efds), owed' \in [Eles -> Int]
  PROVE  LInv'
<1>1. pc # "wait"
  BY DEF LInv, Phases, UserRuns
<1>2. pc' = pc /\ cb' = cb /\ limit' = limit /\ batch' = batch /\ waitms' = waitms
  BY DEF loopVars
<1>3. Types'
  BY <1>2 DEF LInv, Types, TimerOK
<1> QED BY <1>1, <1>2, <1>3 DEF LInv, TimerOK, Phases, NoOversleep

LEMMA LTimer == LInv => TimerOK
BY DEF LInv, Types, TimerOK

LEMMA TimerFrame == ASSUME TimerOK, UNCHANGED <<left, timer>> PROVE TimerOK' /\ \A x \in Eles : Timing(x)' <=> Timing(x)
BY DEF TimerOK, Ordered, Timing

\* Of x nothing changes that the invariants look at.
Same(x) ==
  /\ ele'[x].alive = ele[x].alive /\ ele'[x].asc = ele[x].asc /\ ele'[x].refc = ele[x].refc
  /\ owed'[x] = owed[x] /\ (Queued(x)' <=> Queued(x)) /\ (Timing(x)' <=> Timing(x))
  /\ (cb' = x <=> cb = x)

\* The facts each of the following lemmas starts from.
Start ==
  /\ ele \in [Eles -> EleType] /\ Kinds /\ TimerOK /\ owed \in [Eles -> Int]
  /\ ready \in Seq(Eles) /\ edge \in Seq(Efds)

LEMMA StartFrom == LInv => Start
BY LTimer DEF LInv, Types, Start

LEMMA AcceptedBy ==
  ASSUME owed \in [Eles -> Int], NEW e \in Eles, owed' = Accepted(e)
  PROVE  /\ owed' \in [Eles -> Int] /\ \A x \in Eles : x # e => owed'[x] = owed[x]
         /\ owed'[e] = IF Doing(e) THEN owed[e] ELSE owed[e] + 1
BY DEF Accepted

\* One lemma per action: the invariant of the loop, and what the action does to
\* its element.
LEMMA NewDoes ==
  ASSUME LInv, NEW e \in Eles, New(e)
  PROVE  /\ LInv' /\ \A x \in Eles \ {e} : Same(x)
         /\ ready' = ready /\ ~ele[e].alive /\ ele'[e].alive /\ ~Doing(e)' /\ owed'[e] = 0
         /\ (Queued(e)' <=> Queued(e)) /\ (Timing(e)' <=> Timing(e)) /\ cb' = cb
<1>0. Start
  BY StartFrom
<1> DEFINE r == [Absent EXCEPT !.alive = TRUE, !.refc = 1]
<1>1. r \in EleType /\ r.asc = "none" /\ r.alive
  BY AbsentType
<1>2. ele' = [ele EXCEPT ![e] = r] /\ owed' = [owed EXCEPT ![e] = 0] /\ UNCHANGED loopVars
      /\ UNCHANGED <<left, timer>> /\ ready' = ready /\ edge' = edge /\ UserRuns /\ ~ele[e].alive
  BY DEF New
<1> HIDE DEF r
<1>3. /\ ele' \in [Eles -> EleType] /\ Kinds'
      /\ ele'[e] = r /\ \A x \in Eles : x # e => ele'[x] = ele[x]
  <2>1. Suits(e, r.asc)
    BY <1>1 DEF Suits
  <2> QED BY <1>0, <1>1, <1>2, <2>1, EleStep DEF Start
<1>4. TimerOK' /\ \A x \in Eles : Timing(x)' <=> Timing(x)
  BY <1>0, <1>2, TimerFrame DEF Start
<1>5. LInv'
  BY <1>0, <1>2, <1>3, <1>4, UserKeeps DEF Start
<1>6. \A x \in Eles \ {e} : Same(x)
  BY <1>0, <1>2, <1>3, <1>4 DEF Same, Queued, loopVars, Start
<1> QED BY <1>0, <1>1, <1>2, <1>3, <1>4, <1>5, <1>6 DEF Doing, Queued, loopVars, Start

LEMMA SetDetachDoes ==
  ASSUME LInv, NEW e \in Eles, SetDetach(e)
  PROVE  LInv' /\ ready' = ready /\ \A x \in Eles : Same(x)
<1>0. Start
  BY StartFrom
<1> DEFINE r == [ele[e] EXCEPT !.detach = ~ele[e].detach]
<1>1. r \in EleType /\ r.asc = ele[e].asc /\ r.alive = ele[e].alive /\ r.refc = ele[e].refc
  BY <1>0, FlipDetach DEF Start
<1>2. ele' = [ele EXCEPT ![e] = r] /\ owed' = owed /\ UNCHANGED loopVars
      /\ UNCHANGED <<left, timer>> /\ ready' = ready /\ edge' = edge /\ UserRuns
  BY <1>0 DEF SetDetach, User, Start, EleType
<1> HIDE DEF r
<1>3. /\ ele' \in [Eles -> EleType] /\ Kinds'
      /\ ele'[e] = r /\ \A x \in Eles : x # e => ele'[x] = ele[x]
  <2>1. Suits(e, r.asc)
    BY <1>0, <1>1 DEF Suits, Kinds, Start
  <2> QED BY <1>0, <1>1, <1>2, <2>1, EleStep DEF Start
<1>4. TimerOK' /\ \A x \in Eles : Timing(x)' <=> Timing(x)
  BY <1>0, <1>2, TimerFrame DEF Start
<1>5. LInv'
  BY <1>0, <1>2, <1>3, <1>4, UserKeeps DEF Start
<1>6. \A x \in Eles : Same(x)
  BY <1>0, <1>1, <1>2, <1>3, <1>4 DEF Same, Queued, loopVars
<1> QED BY <1>2, <1>5, <1>6

LEMMA AddIoDoes ==
  ASSUME LInv, NEW e \in Eles, NEW s \in Afters \cup {-1}, NEW o \in {"OK", "ERR", "WAIT"},
         AddIo(e, s, o)
  PROVE  /\ LInv' /\ \A x \in Eles \ {e} : Same(x)
         /\ Distinct(ready) => Distinct(ready')
         /\ ele[e].alive /\ ele'[e].alive /\ ele'[e].refc > 0 /\ ~Doing(e) /\ cb' = cb
         /\ \/ /\ owed'[e] = owed[e] + 1 /\ Doing(e)'
               /\ Queued(e)' /\ Timing(e)' => Queued(e) \/ Timing(e)
            \/ Same(e)
<1>0. Start /\ s \in Int
  BY StartFrom, LoopAssumption
<1>1. /\ UNCHANGED loopVars /\ edge' = edge /\ UserRuns /\ e \notin Tmrs /\ ~Doing(e)
      /\ cb' = cb /\ ele[e].alive /\ ele[e].refc > 0
  BY DEF AddIo, loopVars, User
<1>2. {"io"} \subseteq Ascs /\ {"OK", "ERR", "INPROGRESS"} \subseteq Rets /\ Suits(e, "io")
  BY <1>1 DEF Ascs, Rets, Suits
<1>3. CASE o = "OK"
  <2>2. /\ ele' = [ele EXCEPT ![e].asc = "io", ![e].ret = "OK"]
        /\ PushReady(e) /\ owed' = Accepted(e) /\ UNCHANGED <<left, timer>>
    BY <1>3 DEF AddIo
  <2>3. /\ ele' \in [Eles -> EleType] /\ Kinds'
        /\ ele'[e].asc = "io" /\ ele'[e].alive = ele[e].alive /\ ele'[e].refc = ele[e].refc
        /\ \A x \in Eles : x # e => ele'[x] = ele[x]
    BY <1>0, <1>2, <2>2, SetAsc DEF Start
  <2>4. TimerOK' /\ \A x \in Eles : Timing(x)' <=> Timing(x)
    BY <1>0, <2>2, TimerFrame DEF Start
  <2>5. /\ ready' \in Seq(Eles) /\ \A x \in Eles : Queued(x)' <=> Queued(x) \/ x = e
        /\ Distinct(ready) => Distinct(ready')
    BY <1>0, <2>2, PushKeeps DEF Start
  <2>6. /\ owed' \in [Eles -> Int] /\ \A x \in Eles : x # e => owed'[x] = owed[x]
        /\ owed'[e] = owed[e] + 1
    BY <1>0, <1>1, <2>2, AcceptedBy DEF Start
  <2>7. LInv'
    BY <1>0, <1>1, <2>3, <2>4, <2>5, <2>6, UserKeeps DEF Start
  <2>8. \A x \in Eles \ {e} : Same(x)
    BY <1>1, <2>3, <2>4, <2>5, <2>6 DEF Same
  <2> QED BY <1>1, <2>3, <2>4, <2>5, <2>6, <2>7, <2>8 DEF Doing
<1>4. CASE o = "ERR"
  <2>2. /\ ele' = [ele EXCEPT ![e].ret = "ERR"] /\ UNCHANGED <<left, timer>>
        /\ ready' = ready /\ owed' = owed
    BY <1>4 DEF AddIo
  <2>3. /\ ele' \in [Eles -> EleType] /\ Kinds'
        /\ ele'[e].asc = ele[e].asc /\ ele'[e].alive = ele[e].alive /\ ele'[e].refc = ele[e].refc
        /\ \A x \in Eles : x # e => ele'[x] = ele[x]
    BY <1>0, <1>2, <2>2, SetRet DEF Start
  <2>4. TimerOK' /\ \A x \in Eles : Timing(x)' <=> Timing(x)
    BY <1>0, <2>2, TimerFrame DEF Start
  <2>5. LInv'
    BY <1>0, <1>1, <2>2, <2>3, <2>4, UserKeeps DEF Start
  <2>6. \A x \in Eles : Same(x)
    BY <1>1, <2>2, <2>3, <2>4 DEF Same, Queued
  <2> QED BY <1>1, <2>2, <2>3, <2>5, <2>6
<1>5. CASE o = "WAIT"
  <2>2. /\ ele' = [ele EXCEPT ![e].asc = "io", ![e].ret = "INPROGRESS"]
        /\ Upsert(e, s) /\ owed' = Accepted(e) /\ ready' = ready
    BY <1>5 DEF AddIo
  <2>3. /\ ele' \in [Eles -> EleType] /\ Kinds'
        /\ ele'[e].asc = "io" /\ ele'[e].alive = ele[e].alive /\ ele'[e].refc = ele[e].refc
        /\ \A x \in Eles : x # e => ele'[x] = ele[x]
    BY <1>0, <1>2, <2>2, SetAsc DEF Start
  <2>4. TimerOK' /\ \A x \in Eles : Timing(x)' <=> Timing(x) \/ (x = e /\ s >= 0)
    BY <1>0, <2>2, UpsertKeeps DEF Start
  <2>5. \A x \in Eles : Queued(x)' <=> Queued(x)
    BY <2>2 DEF Queued
  <2>6. /\ owed' \in [Eles -> Int] /\ \A x \in Eles : x # e => owed'[x] = owed[x]
        /\ owed'[e] = owed[e] + 1
    BY <1>0, <1>1, <2>2, AcceptedBy DEF Start
  <2>7. LInv'
    BY <1>0, <1>1, <2>2, <2>3, <2>4, <2>6, UserKeeps DEF Start
  <2>8. \A x \in Eles \ {e} : Same(x)
    BY <1>1, <2>3, <2>4, <2>5, <2>6 DEF Same
  <2> QED BY <1>1, <2>2, <2>3, <2>5, <2>6, <2>7, <2>8 DEF Doing
<1> QED BY <1>3, <1>4, <1>5

LEMMA AddTmrDoes ==
  ASSUME LInv, NEW e \in Eles, NEW s \in Afters \cup {-1}, NEW a \in {"timeout", "callback"},
         AddTmr(e, a, s)
  PROVE  /\ LInv' /\ \A x \in Eles \ {e} : Same(x)
         /\ ready' = ready /\ TmrUser(e) /\ ele[e].alive /\ ele'[e].alive
         /\ ele'[e].refc = ele[e].refc /\ Doing(e)' /\ cb' = cb
         /\ owed'[e] = (IF Doing(e) THEN owed[e] ELSE owed[e] + 1)
         /\ (Queued(e)' <=> Queued(e)) /\ (Queued(e) => "rearm_ended" \in Uses)
<1>0. Start /\ s \in Int
  BY StartFrom, LoopAssumption
<1>1. /\ UNCHANGED loopVars /\ edge' = edge /\ UserRuns /\ e \in Tmrs
      /\ cb' = cb /\ ele[e].alive /\ TmrUser(e) /\ (Queued(e) => "rearm_ended" \in Uses)
  BY NoneIsNoEle DEF AddTmr, loopVars, User, TmrUser, UserRuns
<1>2. a \in Ascs /\ "INPROGRESS" \in Rets /\ Suits(e, a)
  BY <1>1 DEF Ascs, Rets, Suits
<1>3. /\ ele' = [ele EXCEPT ![e].asc = a, ![e].ret = "INPROGRESS"]
      /\ Upsert(e, s) /\ owed' = Accepted(e) /\ ready' = ready
  BY DEF AddTmr
<1>4. /\ ele' \in [Eles -> EleType] /\ Kinds'
      /\ ele'[e].asc = a /\ ele'[e].alive = ele[e].alive /\ ele'[e].refc = ele[e].refc
      /\ \A x \in Eles : x # e => ele'[x] = ele[x]
  BY <1>0, <1>2, <1>3, SetAsc DEF Start
<1>5. TimerOK' /\ \A x \in Eles : Timing(x)' <=> Timing(x) \/ (x = e /\ s >= 0)
  BY <1>0, <1>3, UpsertKeeps DEF Start
<1>6. /\ owed' \in [Eles -> Int] /\ \A x \in Eles : x # e => owed'[x] = owed[x]
      /\ owed'[e] = IF Doing(e) THEN owed[e] ELSE owed[e] + 1
  BY <1>0, <1>3, AcceptedBy DEF Start
<1>7. LInv'
  BY <1>0, <1>1, <1>3, <1>4, <1>5, <1>6, UserKeeps DEF Start
<1>8. \A x \in Eles : Queued(x)' <=> Queued(x)
  BY <1>3 DEF Queued
<1>9. \A x \in Eles \ {e} : Same(x)
  BY <1>1, <1>4, <1>5, <1>6, <1>8 DEF Same
<1> QED BY <1>1, <1>3, <1>4, <1>6, <1>7, <1>8, <1>9 DEF Doing

LEMMA AddTmrInvalidDoes ==
  ASSUME LInv, NEW e \in Eles, AddTmrInvalid(e)
  PROVE  /\ LInv' /\ ready' = ready /\ \A x \in Eles \ {e} : Same(x)
         /\ (Doing(e) => "null_callback" \in Uses) /\ (~Doing(e) => Same(e))
<1>0. Start
  BY StartFrom
<1>1. /\ UNCHANGED loopVars /\ edge' = edge /\ UserRuns /\ cb' = cb
      /\ (Doing(e) => "null_callback" \in Uses)
      /\ ele' = [ele EXCEPT ![e].asc = "none", ![e].ret = "ERR"]
      /\ UNCHANGED <<left, timer>> /\ owed' = owed /\ ready' = ready
  BY NoneIsNoEle DEF AddTmrInvalid, loopVars, User, TmrUser, UserRuns
<1>2. "none" \in Ascs /\ "ERR" \in Rets /\ Suits(e, "none")
  BY DEF Ascs, Rets, Suits
<1>3. /\ ele' \in [Eles -> EleType] /\ Kinds'
      /\ ele'[e].asc = "none" /\ ele'[e].alive = ele[e].alive /\ ele'[e].refc = ele[e].refc
      /\ \A x \in Eles : x # e => ele'[x] = ele[x]
  BY <1>0, <1>1, <1>2, SetAsc DEF Start
<1>4. TimerOK' /\ \A x \in Eles : Timing(x)' <=> Timing(x)
  BY <1>0, <1>1, TimerFrame DEF Start
<1>5. LInv'
  BY <1>0, <1>1, <1>3, <1>4, UserKeeps DEF Start
<1>6. \A x \in Eles \ {e} : Same(x)
  BY <1>1, <1>3, <1>4 DEF Same, Queued
<1>7. ~Doing(e) => Same(e)
  BY <1>1, <1>3, <1>4 DEF Same, Queued, Doing
<1> QED BY <1>1, <1>5, <1>6, <1>7

LEMMA EndDoes ==
  ASSUME LInv, NEW e \in Eles, End(e)
  PROVE  /\ LInv' /\ \A x \in Eles \ {e} : Same(x)
         /\ Distinct(ready) => Distinct(ready')
         /\ ele[e].alive /\ ele'[e].alive /\ ele'[e].refc > 0 /\ Doing(e) /\ Doing(e)'
         /\ cb' = cb /\ owed'[e] = owed[e] /\ ~Timing(e)'
<1>0. Start
  BY StartFrom
<1>1. /\ UNCHANGED loopVars /\ edge' = edge /\ UserRuns /\ cb' = cb
      /\ ele[e].alive /\ ele[e].refc > 0 /\ Doing(e) /\ Disarm(e) /\ PushReady(e)
      /\ ele' = [ele EXCEPT ![e].ret = "ENDED"] /\ owed' = owed
  BY DEF End, loopVars, User
<1>2. "ENDED" \in Rets
  BY DEF Rets
<1>3. /\ ele' \in [Eles -> EleType] /\ Kinds'
      /\ ele'[e].asc = ele[e].asc /\ ele'[e].alive = ele[e].alive /\ ele'[e].refc = ele[e].refc
      /\ \A x \in Eles : x # e => ele'[x] = ele[x]
  BY <1>0, <1>1, <1>2, SetRet DEF Start
<1>4. TimerOK' /\ \A x \in Eles : Timing(x)' <=> Timing(x) /\ x # e
  BY <1>0, <1>1, DisarmKeeps DEF Start
<1>5. /\ ready' \in Seq(Eles) /\ \A x \in Eles : Queued(x)' <=> Queued(x) \/ x = e
      /\ Distinct(ready) => Distinct(ready')
  BY <1>0, <1>1, PushKeeps DEF Start
<1>6. LInv'
  BY <1>0, <1>1, <1>3, <1>4, <1>5, UserKeeps DEF Start
<1>7. \A x \in Eles \ {e} : Same(x)
  BY <1>1, <1>3, <1>4, <1>5 DEF Same
<1> QED BY <1>1, <1>3, <1>4, <1>5, <1>6, <1>7 DEF Doing

LEMMA DelDoes ==
  ASSUME LInv, NEW e \in Eles, Del(e)
  PROVE  /\ LInv' /\ ready' = ready /\ \A x \in Eles \ {e} : Same(x)
         /\ ele[e].alive /\ ele'[e].alive = Doing(e) /\ ele'[e].asc = ele[e].asc
         /\ cb' = cb /\ owed'[e] = owed[e] /\ (cb = e => "own_delete" \in Uses)
         /\ (Queued(e)' <=> Queued(e)) /\ (Timing(e)' <=> Timing(e))
<1>0. Start
  BY StartFrom
<1>1. /\ UNCHANGED loopVars /\ UserRuns /\ cb' = cb
      /\ ele[e].alive /\ (cb = e => "own_delete" \in Uses)
      /\ ele' = [ele EXCEPT ![e].refc = 0, ![e].alive = Doing(e)]
      /\ edge' \in {edge, RemoveFirst(edge, e)}
      /\ UNCHANGED <<left, timer>> /\ owed' = owed /\ ready' = ready
  BY DEF Del, loopVars, User
<1>2. Doing(e) \in BOOLEAN
  BY DEF Doing
<1>3. /\ ele' \in [Eles -> EleType] /\ Kinds'
      /\ ele'[e].asc = ele[e].asc /\ ele'[e].alive = Doing(e)
      /\ \A x \in Eles : x # e => ele'[x] = ele[x]
  BY <1>0, <1>1, <1>2, SetRefc DEF Start
<1>4. TimerOK' /\ \A x \in Eles : Timing(x)' <=> Timing(x)
  BY <1>0, <1>1, TimerFrame DEF Start
<1>5. edge' \in Seq(Efds)
  BY <1>0, <1>1, EdgeLess DEF Start
<1>6. LInv'
  BY <1>0, <1>1, <1>3, <1>4, <1>5, UserKeeps DEF Start
<1>7. \A x \in Eles \ {e} : Same(x)
  BY <1>1, <1>3, <1>4 DEF Same, Queued
<1> QED BY <1>1, <1>3, <1>4, <1>6, <1>7 DEF Queued
-----------------------------------------------------------------------------
(* dpevp_pop *)

LEMMA TailSeq ==
  ASSUME NEW S, NEW s \in Seq(S), s # <<>>
  PROVE  /\ Tail(s) \in Seq(S) /\ Len(Tail(s)) = Len(s) - 1 /\ Head(s) \in S /\ In(s, Head(s))
         /\ \A x : x # Head(s) => (In(Tail(s), x) <=> In(s, x))
         /\ Distinct(s) => Distinct(Tail(s)) /\ ~In(Tail(s), Head(s))
<1>1. PICK l \in Nat : Len(s) = l /\ DOMAIN s = 1 .. l /\ l # 0
  OBVIOUS
<1>2. PICK t : t = Tail(s)
  OBVIOUS
<1>3. t \in Seq(S) /\ DOMAIN t = 1 .. l - 1 /\ Len(t) = l - 1 /\ \A i \in 1 .. l - 1 : t[i] = s[i + 1]
  BY <1>1, <1>2
<1>4. Head(s) = s[1] /\ 1 \in DOMAIN s /\ s[1] \in S
  BY <1>1
<1>5. ASSUME NEW x, x # s[1] PROVE In(t, x) <=> In(s, x)
  <2>1. ASSUME In(t, x) PROVE In(s, x)
    <3>1. PICK i \in 1 .. l - 1 : t[i] = x
      BY <1>3, <2>1 DEF In
    <3>2. i + 1 \in DOMAIN s /\ s[i + 1] = x
      BY <1>1, <1>3, <3>1
    <3> QED BY <3>2 DEF In
  <2>2. ASSUME In(s, x) PROVE In(t, x)
    <3>1. PICK i \in 1 .. l : s[i] = x
      BY <1>1, <2>2 DEF In
    <3>2. i - 1 \in DOMAIN t /\ i - 1 \in 1 .. l - 1 /\ (i - 1) + 1 = i
      BY <1>1, <1>3, <1>5, <3>1
    <3>3. t[i - 1] = x
      BY <1>3, <3>1, <3>2
    <3> QED BY <3>2, <3>3 DEF In
  <2> QED BY <2>1, <2>2
<1>6. ASSUME Distinct(s) PROVE Distinct(t) /\ ~In(t, s[1])
  <2>1. \A i \in DOMAIN t : i + 1 \in DOMAIN s /\ t[i] = s[i + 1] /\ i + 1 # 1 /\ i \in Int
    BY <1>1, <1>3
  <2>2. ~In(t, s[1])
    BY <1>4, <1>6, <2>1 DEF In, Distinct
  <2>3. ASSUME NEW i \in DOMAIN t, NEW j \in DOMAIN t, t[i] = t[j] PROVE i = j
    <3>1. i + 1 = j + 1
      BY <1>6, <2>1, <2>3 DEF Distinct
    <3> QED BY <2>1, <3>1
  <2> QED BY <2>2, <2>3 DEF Distinct
<1>7. In(s, s[1])
  BY <1>4 DEF In
<1> QED BY <1>1, <1>2, <1>3, <1>4, <1>5, <1>6, <1>7

\* A step of dpevp_pop that reaps an element.
LEMMA ReapKeeps ==
  ASSUME LInv, pc \in {"efd", "usd", "tmr"}, ele' \in [Eles -> EleType], Kinds', TimerOK',
         ready' \in Seq(Eles), edge' \in Seq(Efds), owed' \in [Eles -> Int],
         batch' \in Seq(Efds), Len(batch') <= BatchSize, waitms' = waitms,
         limit' \in 0 .. ReapLimit, pc' \in {pc, "user"}, pc' = pc => limit' = limit,
         cb' \in Tmrs \cup {None}, cb' # None => pc' = pc /\ pc \in {"usd", "tmr"}
  PROVE  LInv'
<1>1. Types'
  BY DEF LInv, Types, TimerOK
<1>2. Phases'
  BY DEF LInv, Phases
<1> QED BY <1>1, <1>2 DEF LInv, TimerOK, NoOversleep

\* What the loop does to pc and limit when it returns an element or goes on.
Onward == /\ limit' \in 0 .. ReapLimit /\ pc' \in {pc, "user"} /\ (pc' = pc => limit' = limit)

LEMMA OverDoes ==
  ASSUME LInv, NEW e \in Eles, NEW r \in EleType, Suits(e, r.asc), pc \in {"efd", "usd", "tmr"},
         Over(e, r)
  PROVE  /\ ele' \in [Eles -> EleType] /\ Kinds' /\ edge' \in Seq(Efds) /\ owed' \in [Eles -> Int]
         /\ Onward
         /\ ele'[e].asc = r.asc /\ ele'[e].refc = r.refc
         /\ (ele'[e].alive <=> r.alive /\ r.refc # 0)
         /\ owed'[e] = owed[e] - 1
         /\ \A x \in Eles : x # e => ele'[x] = ele[x] /\ owed'[x] = owed[x]
<1>0. Start
  BY StartFrom
<1>1. PICK a \in BOOLEAN : a = (r.alive /\ ~(r.refc = 0))
  OBVIOUS
<1>2. ele' = [ele EXCEPT ![e] = [r EXCEPT !.alive = a]]
  BY <1>1 DEF Over
<1>3. PICK q : q = [r EXCEPT !.alive = a]
  OBVIOUS
<1>4. q \in EleType /\ q.asc = r.asc /\ q.refc = r.refc /\ q.alive = a
  BY <1>3 DEF EleType
<1>5. ele' = [ele EXCEPT ![e] = q] /\ Suits(e, q.asc)
  BY <1>2, <1>3, <1>4
<1>6. /\ ele' \in [Eles -> EleType] /\ Kinds'
      /\ ele'[e] = q /\ \A x \in Eles : x # e => ele'[x] = ele[x]
  BY <1>0, <1>4, <1>5, EleStep DEF Start
<1>7. owed' = [owed EXCEPT ![e] = owed[e] - 1] /\ edge' \in {edge, RemoveFirst(edge, e)}
  BY DEF Over
<1>8. owed' \in [Eles -> Int] /\ owed'[e] = owed[e] - 1 /\ \A x \in Eles : x # e => owed'[x] = owed[x]
  BY <1>0, <1>7 DEF Start
<1>9. edge' \in Seq(Efds)
  BY <1>0, <1>7, EdgeLess DEF Start
<1>10. Onward
  <2>1. \/ pc' = pc /\ limit' = limit
        \/ pc' = "user" /\ limit' = IF pc = "efd" THEN limit ELSE limit + 1
    BY DEF Over
  <2>2. limit \in 0 .. ReapLimit /\ (pc # "efd" => limit < ReapLimit) /\ ReapLimit \in Nat
    BY LoopAssumption DEF LInv, Types, Phases
  <2> QED BY <2>1, <2>2 DEF Onward
<1> QED BY <1>1, <1>4, <1>6, <1>8, <1>9, <1>10

\* The outcome of _dpele_asc_over: the callback starts, or the operation is over.
Started(e) ==
  /\ cb' = e /\ e \in Tmrs /\ pc \in {"usd", "tmr"} /\ pc' = pc
  /\ ele'[e].alive = ele[e].alive /\ owed'[e] = owed[e]
Ended(e) ==
  /\ cb' = None
  /\ (ele'[e].alive <=> ele[e].alive /\ ele[e].refc # 0) /\ owed'[e] = owed[e] - 1

LEMMA AscOverDoes ==
  ASSUME LInv, cb = None, NEW e \in Eles, NEW v \in Rets, pc \in {"efd", "usd", "tmr"},
         pc = "efd" => e \in Efds, AscOver(e, v)
  PROVE  /\ ele' \in [Eles -> EleType] /\ Kinds' /\ edge' \in Seq(Efds) /\ owed' \in [Eles -> Int]
         /\ Onward
         /\ ele'[e].asc = "none" /\ ele'[e].refc = ele[e].refc
         /\ Started(e) \/ Ended(e)
         /\ \A x \in Eles : x # e => ele'[x] = ele[x] /\ owed'[x] = owed[x]
<1>0. Start
  BY StartFrom
<1>1. PICK r : r = [ele[e] EXCEPT !.asc = "none", !.ret = v]
  OBVIOUS
<1>2. r \in EleType /\ r.asc = "none" /\ r.alive = ele[e].alive /\ r.refc = ele[e].refc
  <2>1. PICK q \in EleType : q = ele[e]
    BY <1>0 DEF Start
  <2>2. PICK a \in Ascs : a = "none"
    BY DEF Ascs
  <2>3. /\ [q EXCEPT !.asc = a, !.ret = v] \in EleType /\ [q EXCEPT !.asc = a, !.ret = v].asc = a
        /\ [q EXCEPT !.asc = a, !.ret = v].alive = q.alive
        /\ [q EXCEPT !.asc = a, !.ret = v].refc = q.refc
    BY DEF EleType, Ascs, Rets
  <2> QED BY <1>1, <2>1, <2>2, <2>3
<1>3. Suits(e, r.asc)
  BY <1>2 DEF Suits
<1>4. CASE ele[e].asc = "callback"
  <2>1. cb' = e /\ ele' = [ele EXCEPT ![e] = r] /\ pc' = pc /\ limit' = limit /\ owed' = owed /\ edge' = edge
    BY <1>1, <1>4 DEF AscOver
  <2>2. e \in Tmrs /\ pc # "efd"
    BY <1>0, <1>4, LoopAssumption DEF Start, Kinds
  <2>3. /\ ele' \in [Eles -> EleType] /\ Kinds'
        /\ ele'[e] = r /\ \A x \in Eles : x # e => ele'[x] = ele[x]
    BY <1>0, <1>2, <1>3, <2>1, EleStep DEF Start
  <2>4. Onward
    BY <2>1 DEF Onward, LInv, Types
  <2>5. Started(e)
    BY <1>2, <2>1, <2>2, <2>3 DEF Started
  <2> QED BY <1>0, <1>2, <2>1, <2>3, <2>4, <2>5 DEF Start
<1>5. CASE ele[e].asc # "callback"
  <2>1. Over(e, r) /\ cb' = cb
    BY <1>1, <1>5 DEF AscOver
  <2>2. /\ ele' \in [Eles -> EleType] /\ Kinds' /\ edge' \in Seq(Efds) /\ owed' \in [Eles -> Int]
        /\ Onward
        /\ ele'[e].asc = r.asc /\ ele'[e].refc = r.refc
        /\ (ele'[e].alive <=> r.alive /\ r.refc # 0)
        /\ owed'[e] = owed[e] - 1
        /\ \A x \in Eles : x # e => ele'[x] = ele[x] /\ owed'[x] = owed[x]
    BY <1>2, <1>3, <2>1, OverDoes
  <2>3. Ended(e)
    BY <1>2, <2>1, <2>2 DEF Ended
  <2> QED BY <1>2, <2>2, <2>3
<1> QED BY <1>4, <1>5

\* Reaping e: the other elements stay as they are.
LEMMA ReapSame ==
  ASSUME NEW e \in Eles, cb = None, Started(e) \/ Ended(e),
         \A x \in Eles : x # e => ele'[x] = ele[x] /\ owed'[x] = owed[x],
         \A x \in Eles : x # e => (Queued(x)' <=> Queued(x)) /\ (Timing(x)' <=> Timing(x))
  PROVE  \A x \in Eles \ {e} : Same(x)
BY NoneIsNoEle DEF Same, Started, Ended

LEMMA CallbackDoes ==
  ASSUME LInv, CallbackReturns
  PROVE  /\ LInv' /\ ready' = ready /\ cb' = None
         /\ \E e \in Eles :
              /\ cb = e /\ \A x \in Eles \ {e} : Same(x)
              /\ ele'[e].asc = ele[e].asc /\ ele'[e].refc = ele[e].refc
              /\ owed'[e] = owed[e] - 1
              /\ (ele'[e].alive <=> ele[e].alive /\ ele[e].refc # 0)
              /\ (Queued(e)' <=> Queued(e)) /\ (Timing(e)' <=> Timing(e))
<1>0. Start /\ pc \in {"usd", "tmr"} /\ cb # None
  BY StartFrom DEF LInv, Phases, CallbackReturns
<1>1. PICK e \in Eles : e = cb
  BY <1>0 DEF LInv, Types, Eles
<1>2. PICK r : r = [ele[e] EXCEPT !.ret = "OK"]
  OBVIOUS
<1>3. r \in EleType /\ r.asc = ele[e].asc /\ r.alive = ele[e].alive /\ r.refc = ele[e].refc
  <2>1. PICK q \in EleType : q = ele[e]
    BY <1>0 DEF Start
  <2>2. PICK v \in Rets : v = "OK"
    BY DEF Rets
  <2>3. /\ [q EXCEPT !.ret = v] \in EleType /\ [q EXCEPT !.ret = v].asc = q.asc
        /\ [q EXCEPT !.ret = v].alive = q.alive /\ [q EXCEPT !.ret = v].refc = q.refc
    BY DEF EleType, Rets
  <2> QED BY <1>2, <2>1, <2>2, <2>3
<1>4. Over(e, r) /\ cb' = None /\ UNCHANGED <<left, timer>> /\ ready' = ready /\ batch' = batch
      /\ waitms' = waitms
  BY <1>1, <1>2 DEF CallbackReturns
<1>5. Suits(e, r.asc)
  BY <1>0, <1>3 DEF Suits, Start, Kinds
<1>6. /\ ele' \in [Eles -> EleType] /\ Kinds' /\ edge' \in Seq(Efds) /\ owed' \in [Eles -> Int]
      /\ Onward
      /\ ele'[e].asc = r.asc /\ ele'[e].refc = r.refc
      /\ (ele'[e].alive <=> r.alive /\ r.refc # 0)
      /\ owed'[e] = owed[e] - 1
      /\ \A x \in Eles : x # e => ele'[x] = ele[x] /\ owed'[x] = owed[x]
  BY <1>0, <1>3, <1>4, <1>5, OverDoes
<1>7. TimerOK' /\ \A x \in Eles : Timing(x)' <=> Timing(x)
  BY <1>0, <1>4, TimerFrame DEF Start
<1>8. \A x \in Eles : Queued(x)' <=> Queued(x)
  BY <1>4 DEF Queued
<1>9. LInv'
  <2>1. batch' \in Seq(Efds) /\ Len(batch') <= BatchSize
    BY <1>4 DEF LInv, Types
  <2>2. limit' \in 0 .. ReapLimit /\ pc' \in {pc, "user"} /\ (pc' = pc => limit' = limit)
    BY <1>6 DEF Onward
  <2>3. pc \in {"efd", "usd", "tmr"} /\ ready' \in Seq(Eles)
    BY <1>0, <1>4 DEF Start
  <2> QED BY <1>4, <1>6, <1>7, <2>1, <2>2, <2>3, ReapKeeps
<1>10. \A x \in Eles \ {e} : Same(x)
  BY <1>1, <1>4, <1>6, <1>7, <1>8, NoneIsNoEle DEF Same
<1> QED BY <1>1, <1>3, <1>4, <1>6, <1>7, <1>8, <1>9, <1>10

\* What a reaped element was, and what it is now.
Reaped(e) ==
  /\ e \in Eles /\ cb = None /\ \A x \in Eles \ {e} : Same(x)
  /\ ele'[e].asc = "none" /\ ele'[e].refc = ele[e].refc
  /\ Started(e) \/ Ended(e)

LEMMA ReapEfdDoes ==
  ASSUME LInv, ReapEfd
  PROVE  /\ LInv' /\ ready' = ready
         /\ \/ \A x \in Eles : Same(x)
            \/ \E e \in Eles : /\ Reaped(e) /\ ele[e].alive /\ Doing(e) /\ ~Queued(e)
                               /\ ~Queued(e)' /\ ~Timing(e)'
<1>0. Start /\ pc = "efd" /\ cb = None /\ batch # <<>> /\ batch \in Seq(Efds)
      /\ batch' = Tail(batch) /\ ready' = ready /\ waitms' = waitms
  BY StartFrom DEF ReapEfd, LInv, Types
<1>1. PICK e : e = Head(batch)
  OBVIOUS
<1>2. e \in Efds /\ e \in Eles /\ batch' \in Seq(Efds) /\ Len(batch') <= BatchSize
  <2>1. Tail(batch) \in Seq(Efds) /\ Len(Tail(batch)) = Len(batch) - 1 /\ Head(batch) \in Efds
    BY <1>0, TailSeq
  <2>2. Len(batch) \in Nat /\ BatchSize \in Nat /\ Len(batch) <= BatchSize
    BY <1>0, LoopAssumption DEF LInv, Types
  <2> QED BY <1>0, <1>1, <2>1, <2>2 DEF Eles
<1>3. \A x \in Eles : Queued(x)' <=> Queued(x)
  BY <1>0 DEF Queued
<1>4. CASE UNCHANGED <<ele, left, timer, edge, owed, pc, limit, cb>>
  <2>1. TimerOK' /\ \A x \in Eles : Timing(x)' <=> Timing(x)
    BY <1>0, <1>4, TimerFrame DEF Start
  <2>2. \A x \in Eles : Same(x)
    BY <1>3, <1>4, <2>1 DEF Same
  <2>3. Kinds' /\ limit' \in 0 .. ReapLimit
    BY <1>0, <1>4 DEF Start, Kinds, LInv, Types
  <2>4. LInv'
    BY <1>0, <1>2, <1>4, <2>1, <2>3, ReapKeeps DEF Start
  <2> QED BY <1>0, <2>2, <2>4
<1>5. ASSUME Wants(e), Disarm(e), NEW v \in {"OK", "ERR"}, AscOver(e, v)
      PROVE  /\ LInv' /\ Reaped(e) /\ ele[e].alive /\ Doing(e) /\ ~Queued(e)
             /\ ~Queued(e)' /\ ~Timing(e)'
  <2>1. TimerOK' /\ \A x \in Eles : Timing(x)' <=> Timing(x) /\ x # e
    BY <1>0, <1>2, <1>5, DisarmKeeps DEF Start
  <2>2. /\ ele' \in [Eles -> EleType] /\ Kinds' /\ edge' \in Seq(Efds) /\ owed' \in [Eles -> Int]
        /\ Onward
        /\ ele'[e].asc = "none" /\ ele'[e].refc = ele[e].refc
        /\ Started(e) \/ Ended(e)
        /\ \A x \in Eles : x # e => ele'[x] = ele[x] /\ owed'[x] = owed[x]
    <3>1. v \in Rets
      BY DEF Rets
    <3> QED BY <1>0, <1>2, <1>5, <3>1, AscOverDoes
  <2>3. LInv'
    <3>1. limit' \in 0 .. ReapLimit /\ pc' \in {pc, "user"} /\ (pc' = pc => limit' = limit)
      BY <2>2 DEF Onward
    <3>2. cb' \in Tmrs \cup {None} /\ (cb' # None => pc' = pc /\ pc \in {"usd", "tmr"})
      BY <2>2 DEF Started, Ended
    <3> QED BY <1>0, <1>2, <2>1, <2>2, <3>1, <3>2, ReapKeeps DEF Start
  <2>4. Reaped(e)
    <3>1. \A x \in Eles \ {e} : Same(x)
      BY <1>0, <1>2, <1>3, <2>1, <2>2, ReapSame
    <3> QED BY <1>0, <1>2, <2>2, <3>1 DEF Reaped
  <2> QED BY <1>2, <1>3, <1>5, <2>1, <2>3, <2>4 DEF Wants
<1>6. \/ Wants(e) /\ Disarm(e) /\ \E v \in {"OK", "ERR"} : AscOver(e, v)
      \/ UNCHANGED <<ele, left, timer, edge, owed, pc, limit, cb>>
  BY <1>1 DEF ReapEfd
<1>7. CASE Wants(e) /\ Disarm(e) /\ \E v \in {"OK", "ERR"} : AscOver(e, v)
  BY <1>0, <1>2, <1>5, <1>7
<1> QED BY <1>4, <1>6, <1>7

LEMMA ReapUsdDoes ==
  ASSUME LInv, ReapUsd
  PROVE  /\ LInv' /\ (Distinct(ready) => Distinct(ready'))
         /\ \E e \in Eles : /\ Reaped(e) /\ Queued(e) /\ (Distinct(ready) => ~Queued(e)')
                            /\ (Timing(e)' <=> Timing(e))
<1>0. Start /\ pc = "usd" /\ cb = None /\ ready # <<>>
      /\ ready' = Tail(ready) /\ batch' = batch /\ waitms' = waitms /\ UNCHANGED <<left, timer>>
  BY StartFrom DEF ReapUsd
<1>1. PICK e : e = Head(ready)
  OBVIOUS
<1>2. /\ e \in Eles /\ ready' \in Seq(Eles) /\ Queued(e)
      /\ \A x \in Eles : x # e => (Queued(x)' <=> Queued(x))
      /\ Distinct(ready) => Distinct(ready') /\ ~Queued(e)'
  <2>1. ready \in Seq(Eles)
    BY <1>0 DEF Start
  <2>2. /\ Tail(ready) \in Seq(Eles) /\ Head(ready) \in Eles /\ In(ready, Head(ready))
        /\ \A x : x # Head(ready) => (In(Tail(ready), x) <=> In(ready, x))
        /\ Distinct(ready) => Distinct(Tail(ready)) /\ ~In(Tail(ready), Head(ready))
    BY <1>0, <2>1, TailSeq
  <2>3. \A x : (Queued(x) <=> In(ready, x)) /\ (Queued(x)' <=> In(ready', x))
    BY DEF Queued, In
  <2> QED BY <1>0, <1>1, <2>2, <2>3
<1>3. PICK v \in Rets : v = ele[e].ret
  BY <1>0, <1>2 DEF Start, EleType, Rets
<1>4. AscOver(e, v)
  BY <1>1, <1>3 DEF ReapUsd
<1>5. TimerOK' /\ \A x \in Eles : Timing(x)' <=> Timing(x)
  BY <1>0, TimerFrame DEF Start
<1>6. /\ ele' \in [Eles -> EleType] /\ Kinds' /\ edge' \in Seq(Efds) /\ owed' \in [Eles -> Int]
      /\ Onward
      /\ ele'[e].asc = "none" /\ ele'[e].refc = ele[e].refc
      /\ Started(e) \/ Ended(e)
      /\ \A x \in Eles : x # e => ele'[x] = ele[x] /\ owed'[x] = owed[x]
  BY <1>0, <1>2, <1>4, AscOverDoes
<1>7. LInv'
  <2>1. limit' \in 0 .. ReapLimit /\ pc' \in {pc, "user"} /\ (pc' = pc => limit' = limit)
    BY <1>6 DEF Onward
  <2>2. cb' \in Tmrs \cup {None} /\ (cb' # None => pc' = pc /\ pc \in {"usd", "tmr"})
    BY <1>6 DEF Started, Ended
  <2>3. batch' \in Seq(Efds) /\ Len(batch') <= BatchSize
    BY <1>0 DEF LInv, Types
  <2> QED BY <1>0, <1>2, <1>5, <1>6, <2>1, <2>2, <2>3, ReapKeeps
<1>8. Reaped(e)
  <2>1. \A x \in Eles \ {e} : Same(x)
    BY <1>0, <1>2, <1>5, <1>6, ReapSame
  <2> QED BY <1>0, <1>2, <1>6, <2>1 DEF Reaped
<1> QED BY <1>2, <1>5, <1>7, <1>8

LEMMA ReapTmrDoes ==
  ASSUME LInv, ReapTmr
  PROVE  /\ LInv' /\ ready' = ready
         /\ \E e \in Eles : Reaped(e) /\ Timing(e) /\ ~Timing(e)' /\ (Queued(e)' <=> Queued(e))
<1>0. Start /\ pc = "tmr" /\ cb = None /\ timer # <<>> /\ timer \in Seq(Eles)
      /\ ready' = ready /\ batch' = batch /\ waitms' = waitms
  BY StartFrom DEF ReapTmr, Due, LInv, Types
<1>1. PICK e : e = Head(timer)
  OBVIOUS
<1>2. e \in Eles /\ Timing(e)
  <2>1. Head(timer) \in Eles /\ In(timer, Head(timer))
    BY <1>0, TailSeq
  <2> QED BY <1>1, <2>1 DEF Timing, In
<1>3. Disarm(e) /\ AscOver(e, "TIME")
  BY <1>1 DEF ReapTmr
<1>4. \A x \in Eles : Queued(x)' <=> Queued(x)
  BY <1>0 DEF Queued
<1>5. TimerOK' /\ \A x \in Eles : Timing(x)' <=> Timing(x) /\ x # e
  BY <1>0, <1>2, <1>3, DisarmKeeps DEF Start
<1>6. /\ ele' \in [Eles -> EleType] /\ Kinds' /\ edge' \in Seq(Efds) /\ owed' \in [Eles -> Int]
      /\ Onward
      /\ ele'[e].asc = "none" /\ ele'[e].refc = ele[e].refc
      /\ Started(e) \/ Ended(e)
      /\ \A x \in Eles : x # e => ele'[x] = ele[x] /\ owed'[x] = owed[x]
  <2>1. "TIME" \in Rets
    BY DEF Rets
  <2> QED BY <1>0, <1>2, <1>3, <2>1, AscOverDoes
<1>7. LInv'
  <2>1. limit' \in 0 .. ReapLimit /\ pc' \in {pc, "user"} /\ (pc' = pc => limit' = limit)
    BY <1>6 DEF Onward
  <2>2. cb' \in Tmrs \cup {None} /\ (cb' # None => pc' = pc /\ pc \in {"usd", "tmr"})
    BY <1>6 DEF Started, Ended
  <2>3. batch' \in Seq(Efds) /\ Len(batch') <= BatchSize /\ ready' \in Seq(Eles)
    BY <1>0 DEF LInv, Types
  <2> QED BY <1>0, <1>5, <1>6, <2>1, <2>2, <2>3, ReapKeeps
<1>8. Reaped(e)
  <2>1. \A x \in Eles \ {e} : Same(x)
    BY <1>0, <1>2, <1>4, <1>5, <1>6, ReapSame
  <2> QED BY <1>0, <1>2, <1>6, <2>1 DEF Reaped
<1> QED BY <1>0, <1>2, <1>4, <1>5, <1>7, <1>8

\* The steps that touch no element.
LEMMA IdleSame ==
  ASSUME UNCHANGED <<ele, timer, ready, cb, owed>>
  PROVE  \A x \in Eles : Same(x)
BY DEF Same, Queued, Timing

LEMMA PopDoes ==
  ASSUME LInv, Pop
  PROVE  LInv' /\ ready' = ready /\ \A x \in Eles : Same(x)
<1>1. /\ UNCHANGED <<ele, left, ready, timer, batch, edge, limit, cb, waitms, owed>>
      /\ pc = "user" /\ pc' = "efd" /\ cb = None
  BY DEF Pop
<1>2. \A x \in Eles : Same(x)
  BY <1>1, IdleSame
<1>3. Types' /\ Kinds' /\ Ordered' /\ Phases' /\ NoOversleep'
  BY <1>1 DEF LInv, Types, Kinds, Ordered, Phases, NoOversleep
<1> QED BY <1>1, <1>2, <1>3 DEF LInv

\* A timer that waits is due no earlier than the first one.
LEMMA FirstDue ==
  ASSUME TimerOK, NEW e \in Eles, Timing(e)
  PROVE  timer # <<>> /\ Head(timer) \in Eles /\ left[Head(timer)] <= left[e]
<1>1. PICK i \in DOMAIN timer : timer[i] = e
  BY DEF Timing
<1>2. PICK l \in Nat : DOMAIN timer = 1 .. l
  BY DEF TimerOK
<1>3. timer # <<>> /\ Head(timer) = timer[1] /\ 1 \in DOMAIN timer /\ 1 <= i
  BY <1>1, <1>2 DEF TimerOK
<1>4. timer[1] \in Eles
  BY <1>3 DEF TimerOK
<1> QED BY <1>1, <1>3, <1>4 DEF TimerOK, Ordered

LEMMA WaitDoes ==
  ASSUME LInv, cb = None, EnterWait, limit >= ReapLimit \/ ~Due,
         UNCHANGED <<ele, left, ready, timer, batch, edge, cb, owed>>
  PROVE  LInv'
<1>1. Start /\ pc' = "wait" /\ waitms' = Timeout /\ limit' = 0 /\ limit \in Int /\ ReapLimit \in Nat
  BY StartFrom, LoopAssumption DEF EnterWait, LInv, Types
<1>2. \A e \in Eles : left[e] \in Int
  BY <1>1 DEF Start, TimerOK
<1>3. Timeout \in Int
  <2>1. CASE timer = <<>>
    BY <2>1 DEF Timeout
  <2>2. CASE timer # <<>>
    <3>1. left[Head(timer)] \in Int
      BY <1>1, <1>2, <2>2, TailSeq DEF Start, TimerOK
    <3> QED BY <3>1 DEF Timeout
  <2> QED BY <2>1, <2>2
<1>4. Types' /\ Kinds' /\ Ordered' /\ Phases'
  BY <1>1, <1>3 DEF LInv, Types, Kinds, Ordered, Phases
<1>5. NoOversleep'
  <2> SUFFICES ASSUME Timeout # 0
               PROVE  ready = <<>> /\ \A e \in Eles : Timing(e) => Timeout \in 1 .. left[e]
    BY <1>1 DEF NoOversleep, Timing
  <2>1. limit < ReapLimit /\ ready = <<>> /\ ~Due
    BY <1>1 DEF Timeout
  <2>2. ASSUME NEW e \in Eles, Timing(e) PROVE Timeout \in 1 .. left[e]
    <3>1. timer # <<>> /\ Head(timer) \in Eles /\ left[Head(timer)] <= left[e]
      BY <1>1, <2>2, FirstDue DEF Start
    <3>2. left[Head(timer)] > 0 /\ left[Head(timer)] \in Int /\ left[e] \in Int
      BY <1>2, <2>1, <3>1 DEF Due
    <3>3. Timeout = IF left[Head(timer)] > 1 THEN left[Head(timer)] - 1 ELSE 1
      BY <2>1, <3>1, <1>1 DEF Timeout
    <3> QED BY <3>1, <3>2, <3>3
  <2> QED BY <2>1, <2>2
<1> QED BY <1>4, <1>5 DEF LInv

LEMMA AdvanceDoes ==
  ASSUME LInv, Advance
  PROVE  LInv' /\ ready' = ready /\ \A x \in Eles : Same(x)
<1>1. UNCHANGED <<ele, left, ready, timer, batch, edge, cb, owed>> /\ cb = None
  BY DEF Advance
<1>2. \A x \in Eles : Same(x)
  BY <1>1, IdleSame
<1>3. CASE pc' \in {"usd", "tmr"} /\ limit < ReapLimit /\ waitms' = waitms /\ limit' = limit
  <2>1. Types' /\ Kinds' /\ Ordered' /\ Phases' /\ NoOversleep'
    BY <1>1, <1>3 DEF LInv, Types, Kinds, Ordered, Phases, NoOversleep
  <2> QED BY <1>1, <1>2, <2>1 DEF LInv
<1>4. CASE EnterWait /\ (limit >= ReapLimit \/ ~Due)
  BY <1>1, <1>2, <1>4, WaitDoes
<1> QED BY <1>3, <1>4 DEF Advance, LInv, Phases

LEMMA EpollDoes ==
  ASSUME LInv, EpollWait
  PROVE  LInv' /\ ready' = ready /\ \A x \in Eles : Same(x)
<1>1. UNCHANGED <<ele, left, ready, timer, limit, cb, owed>> /\ pc = "wait" /\ pc' = "user" /\ waitms' = 0
  BY DEF EpollWait
<1>2. \A x \in Eles : Same(x)
  BY <1>1, IdleSame
<1>3. PICK l \in Nat : l = Len(edge) /\ DOMAIN edge = 1 .. l /\ edge \in Seq(Efds)
  BY DEF LInv, Types
<1>4. PICK n \in Nat : n <= l /\ n <= BatchSize /\ n = IF l < BatchSize THEN l ELSE BatchSize
  BY LoopAssumption
<1>5. batch' = SubSeq(edge, 1, n) /\ edge' = SubSeq(edge, n + 1, l)
  BY <1>3, <1>4 DEF EpollWait
<1>6. batch' \in Seq(Efds) /\ Len(batch') <= BatchSize
  <2>1. \A i \in 1 .. n : edge[i] \in Efds
    BY <1>3, <1>4
  <2>2. SubSeq(edge, 1, n) \in Seq(Efds) /\ Len(SubSeq(edge, 1, n)) = IF 1 <= n THEN n - 1 + 1 ELSE 0
    BY <2>1, SubSeqProperties
  <2>3. (IF 1 <= n THEN n - 1 + 1 ELSE 0) = n
    OBVIOUS
  <2> QED BY <1>4, <1>5, <2>2, <2>3
<1>7. edge' \in Seq(Efds)
  <2>1. \A i \in n + 1 .. l : edge[i] \in Efds
    BY <1>3, <1>4
  <2>2. SubSeq(edge, n + 1, l) \in Seq(Efds)
    BY <2>1, SubSeqProperties
  <2> QED BY <1>5, <2>2
<1>8. Types' /\ Kinds' /\ Ordered' /\ Phases' /\ NoOversleep'
  BY <1>1, <1>6, <1>7 DEF LInv, Types, Kinds, Ordered, Phases, NoOversleep
<1> QED BY <1>1, <1>2, <1>8 DEF LInv

LEMMA TickDoes ==
  ASSUME LInv, Tick
  PROVE  LInv' /\ ready' = ready /\ \A x \in Eles : Same(x)
<1>1. /\ UNCHANGED <<ele, ready, timer, batch, edge, limit, pc, cb, owed>>
      /\ left' = [e \in Eles |-> IF left[e] >= 0 THEN left[e] - 1 ELSE -1]
      /\ waitms' = IF waitms > 0 THEN waitms - 1 ELSE waitms
  BY DEF Tick
<1>2. \A x \in Eles : Same(x)
  BY <1>1, IdleSame
<1>3. /\ left' \in [Eles -> Int] /\ \A e \in Eles : left'[e] >= -1
      /\ \A e \in Eles : left'[e] = IF left[e] >= 0 THEN left[e] - 1 ELSE -1
      /\ \A e \in Eles : left[e] \in Int /\ left[e] >= -1
  BY <1>1 DEF LInv, Types
<1>4. waitms \in Int /\ waitms' \in Int
  BY <1>1 DEF LInv, Types
<1>5. Types' /\ Kinds' /\ Phases'
  BY <1>1, <1>3, <1>4 DEF LInv, Types, Kinds, Phases
<1>6. Ordered'
  <2>1. \A x, y \in Eles : left[x] <= left[y] => left'[x] <= left'[y]
    BY <1>3
  <2>2. \A i \in DOMAIN timer : timer[i] \in Eles
    BY DEF LInv, Types
  <2> QED BY <1>1, <2>1, <2>2 DEF LInv, Ordered
<1>7. NoOversleep'
  <2> SUFFICES ASSUME pc = "wait", waitms' # 0
               PROVE  ready = <<>> /\ \A e \in Eles : Timing(e) => waitms' \in 1 .. left'[e]
    BY <1>1 DEF NoOversleep, Timing
  <2>1. waitms # 0 /\ (waitms > 0 => waitms' = waitms - 1) /\ (waitms < 0 => waitms' = waitms)
    BY <1>1, <1>4
  <2>2. ready = <<>> /\ \A e \in Eles : Timing(e) => waitms \in 1 .. left[e]
    BY <2>1 DEF LInv, NoOversleep
  <2>3. ASSUME NEW e \in Eles, Timing(e) PROVE waitms' \in 1 .. left'[e]
    <3>1. waitms \in 1 .. left[e] /\ left[e] \in Int
      BY <1>3, <2>2, <2>3
    <3>2. left'[e] = left[e] - 1 /\ waitms' = waitms - 1
      BY <1>3, <1>4, <2>1, <3>1
    <3> QED BY <1>4, <3>1, <3>2
  <2> QED BY <2>2, <2>3
<1> QED BY <1>1, <1>2, <1>5, <1>6, <1>7 DEF LInv

LEMMA EdgeDoes ==
  ASSUME LInv, NEW e \in Efds, Edge(e)
  PROVE  LInv' /\ ready' = ready /\ \A x \in Eles : Same(x)
<1>1. /\ UNCHANGED <<ele, left, ready, timer, batch, limit, pc, cb, waitms, owed>>
      /\ edge' = Append(edge, e)
  BY DEF Edge
<1>2. \A x \in Eles : Same(x)
  BY <1>1, IdleSame
<1>3. edge' \in Seq(Efds)
  BY <1>1 DEF LInv, Types
<1>4. Types' /\ Kinds' /\ Ordered' /\ Phases' /\ NoOversleep'
  BY <1>1, <1>3 DEF LInv, Types, Kinds, Ordered, Phases, NoOversleep, Timing
<1> QED BY <1>1, <1>2, <1>4 DEF LInv
-----------------------------------------------------------------------------
(* Theorems about every application. *)

LEMMA LoopInit == Init => LInv
<1> SUFFICES ASSUME Init PROVE LInv
  OBVIOUS
<1>1. ele \in [Eles -> EleType] /\ \A e \in Eles : ele[e].asc = "none"
  BY AbsentType DEF Init
<1>2. Types
  BY <1>1, LoopAssumption DEF Init, Types
<1>3. Kinds /\ Ordered /\ Phases /\ NoOversleep
  BY <1>1 DEF Init, Kinds, Ordered, Distinct, Phases, NoOversleep
<1> QED BY <1>2, <1>3 DEF LInv

LEMMA UserStepKeepsL == ASSUME LInv, UserStep PROVE LInv'
<1> PICK e \in Eles :
      \/ New(e) \/ SetDetach(e) \/ End(e) \/ Del(e) \/ AddTmrInvalid(e)
      \/ \E s \in Afters \cup {-1}, r \in {"OK", "ERR", "WAIT"} : AddIo(e, s, r)
      \/ \E s \in Afters \cup {-1}, a \in {"timeout", "callback"} : AddTmr(e, a, s)
  BY DEF UserStep
<1>1. CASE New(e)
  BY <1>1, NewDoes
<1>2. CASE SetDetach(e)
  BY <1>2, SetDetachDoes
<1>3. CASE End(e)
  BY <1>3, EndDoes
<1>4. CASE Del(e)
  BY <1>4, DelDoes
<1>5. CASE AddTmrInvalid(e)
  BY <1>5, AddTmrInvalidDoes
<1>6. ASSUME NEW s \in Afters \cup {-1}, NEW r \in {"OK", "ERR", "WAIT"}, AddIo(e, s, r)
      PROVE  LInv'
  BY <1>6, AddIoDoes
<1>7. ASSUME NEW s \in Afters \cup {-1}, NEW a \in {"timeout", "callback"}, AddTmr(e, a, s)
      PROVE  LInv'
  BY <1>7, AddTmrDoes
<1> QED BY <1>1, <1>2, <1>3, <1>4, <1>5, <1>6, <1>7

LEMMA StutterKeepsL == ASSUME LInv, UNCHANGED vars PROVE LInv'
BY DEF vars, LInv, Types, Kinds, Ordered, Phases, NoOversleep, Timing

\* Whatever the application does, the timer tree holds each element once and in
\* the order of the deadlines, asc_type suits the element, the limit is kept, a
\* callback runs only inside dpevp_pop, and the loop does not oversleep.
THEOREM LoopKept == Spec => []LInv
<1>1. Init => LInv
  BY LoopInit
<1>2. LInv /\ [Next]_vars => LInv'
  <2> SUFFICES ASSUME LInv, [Next]_vars PROVE LInv'
    OBVIOUS
  <2>1. CASE UserStep
    BY <2>1, UserStepKeepsL
  <2>2. CASE LoopStep
    BY <2>2, PopDoes, CallbackDoes, ReapEfdDoes, ReapUsdDoes, ReapTmrDoes, AdvanceDoes, EpollDoes
       DEF LoopStep
  <2>3. CASE Tick
    BY <2>3, TickDoes
  <2>4. CASE \E e \in Efds : Edge(e)
    BY <2>4, EdgeDoes
  <2>5. CASE UNCHANGED vars
    BY <2>5, StutterKeepsL
  <2> QED BY <2>1, <2>2, <2>3, <2>4, <2>5 DEF Next
<1> QED BY <1>1, <1>2, PTL DEF Spec

\* dpevp_pop never sleeps in epoll_wait with elements in the ready queue or past
\* the first deadline, whatever the application does.
THEOREM NeverOversleeps == Spec => []NoOversleep
<1>1. LInv => NoOversleep
  BY DEF LInv
<1> QED BY <1>1, LoopKept, PTL

-----------------------------------------------------------------------------
(* The elements of a careful application. *)

Good(e) == (~ele[e].alive => Gone(e)) /\ (ele[e].alive => Owes(e) /\ Placed(e))

LEMMA SameGood == ASSUME NEW x \in Eles, Good(x), Same(x) PROVE Good(x)'
BY DEF Good, Same, Gone, Owes, Placed, Doing

LEMMA AllGood ==
  ASSUME EInv, NEW e \in Eles, \A x \in Eles \ {e} : Same(x), Good(e)', Distinct(ready')
  PROVE  EInv'
<1>1. \A x \in Eles : Good(x)
  BY DEF EInv, Good
<1>2. ASSUME NEW x \in Eles PROVE Good(x)'
  <2>1. CASE x = e
    BY <2>1
  <2>2. CASE x # e
    <3>1. Same(x) /\ Good(x)
      BY <1>1, <2>2
    <3> QED BY <3>1, SameGood
  <2> QED BY <2>1, <2>2
<1> QED BY <1>2 DEF EInv, Good

LEMMA AllSame ==
  ASSUME EInv, \A x \in Eles : Same(x), Distinct(ready') PROVE EInv'
<1>1. \A x \in Eles : Good(x)
  BY DEF EInv, Good
<1>2. \A x \in Eles : Good(x)'
  BY <1>1, SameGood
<1> QED BY <1>2 DEF EInv, Good

LEMMA UserStepKeepsE == ASSUME Careful, LInv, EInv, UserStep PROVE EInv'
<1> PICK e \in Eles :
      \/ New(e) \/ SetDetach(e) \/ End(e) \/ Del(e) \/ AddTmrInvalid(e)
      \/ \E s \in Afters \cup {-1}, r \in {"OK", "ERR", "WAIT"} : AddIo(e, s, r)
      \/ \E s \in Afters \cup {-1}, a \in {"timeout", "callback"} : AddTmr(e, a, s)
  BY DEF UserStep
<1>0. Good(e) /\ Distinct(ready) /\ owed[e] \in Int /\ ele[e].refc \in 0 .. 1
      /\ "rearm_ended" \notin Uses /\ "null_callback" \notin Uses
      /\ "own_delete" \notin Uses /\ "orphan_rearm" \notin Uses
  BY DEF EInv, Good, Careful, LInv, Types, EleType
<1>1. CASE New(e)
  <2>1. /\ \A x \in Eles \ {e} : Same(x)
        /\ ready' = ready /\ ~ele[e].alive /\ ele'[e].alive /\ ~Doing(e)' /\ owed'[e] = 0
        /\ (Queued(e)' <=> Queued(e)) /\ (Timing(e)' <=> Timing(e)) /\ cb' = cb
    BY <1>1, NewDoes
  <2>2. Good(e)'
    BY <1>0, <2>1 DEF Good, Gone, Owes, Placed
  <2> QED BY <1>0, <2>1, <2>2, AllGood
<1>2. CASE SetDetach(e)
  BY <1>0, <1>2, SetDetachDoes, AllSame
<1>3. CASE End(e)
  <2>1. /\ \A x \in Eles \ {e} : Same(x)
        /\ Distinct(ready) => Distinct(ready')
        /\ ele[e].alive /\ ele'[e].alive /\ ele'[e].refc > 0 /\ Doing(e) /\ Doing(e)'
        /\ cb' = cb /\ owed'[e] = owed[e] /\ ~Timing(e)'
    BY <1>3, EndDoes
  <2>2. Good(e)'
    BY <1>0, <2>1 DEF Good, Owes, Placed
  <2> QED BY <1>0, <2>1, <2>2, AllGood
<1>4. CASE Del(e)
  <2>1. /\ ready' = ready /\ \A x \in Eles \ {e} : Same(x)
        /\ ele[e].alive /\ ele'[e].alive = Doing(e) /\ ele'[e].asc = ele[e].asc
        /\ cb' = cb /\ owed'[e] = owed[e] /\ (cb = e => "own_delete" \in Uses)
        /\ (Queued(e)' <=> Queued(e)) /\ (Timing(e)' <=> Timing(e))
    BY <1>4, DelDoes
  <2>2. cb # e /\ (Doing(e)' <=> Doing(e))
    BY <1>0, <2>1 DEF Doing
  <2>3. Good(e)'
    BY <1>0, <2>1, <2>2 DEF Good, Gone, Owes, Placed
  <2> QED BY <1>0, <2>1, <2>3, AllGood
<1>5. CASE AddTmrInvalid(e)
  <2>1. /\ ready' = ready /\ \A x \in Eles \ {e} : Same(x)
        /\ (Doing(e) => "null_callback" \in Uses) /\ (~Doing(e) => Same(e))
    BY <1>5, AddTmrInvalidDoes
  <2> QED BY <1>0, <2>1, AllSame
<1>6. ASSUME NEW s \in Afters \cup {-1}, NEW r \in {"OK", "ERR", "WAIT"}, AddIo(e, s, r)
      PROVE  EInv'
  <2>1. /\ \A x \in Eles \ {e} : Same(x)
        /\ Distinct(ready) => Distinct(ready')
        /\ ele[e].alive /\ ele'[e].alive /\ ele'[e].refc > 0 /\ ~Doing(e) /\ cb' = cb
        /\ \/ /\ owed'[e] = owed[e] + 1 /\ Doing(e)'
              /\ Queued(e)' /\ Timing(e)' => Queued(e) \/ Timing(e)
           \/ Same(e)
    BY <1>6, AddIoDoes
  <2>2. CASE Same(e)
    BY <1>0, <2>1, <2>2, AllSame
  <2>3. CASE /\ owed'[e] = owed[e] + 1 /\ Doing(e)'
             /\ Queued(e)' /\ Timing(e)' => Queued(e) \/ Timing(e)
    <3>1. Good(e)'
      BY <1>0, <2>1, <2>3 DEF Good, Owes, Placed
    <3> QED BY <1>0, <2>1, <3>1, AllGood
  <2> QED BY <2>1, <2>2, <2>3
<1>7. ASSUME NEW s \in Afters \cup {-1}, NEW a \in {"timeout", "callback"}, AddTmr(e, a, s)
      PROVE  EInv'
  <2>1. /\ \A x \in Eles \ {e} : Same(x)
        /\ ready' = ready /\ TmrUser(e) /\ ele[e].alive /\ ele'[e].alive
        /\ ele'[e].refc = ele[e].refc /\ Doing(e)' /\ cb' = cb
        /\ owed'[e] = (IF Doing(e) THEN owed[e] ELSE owed[e] + 1)
        /\ (Queued(e)' <=> Queued(e)) /\ (Queued(e) => "rearm_ended" \in Uses)
    BY <1>7, AddTmrDoes
  <2>2. ele[e].refc > 0
    BY <1>0, <2>1 DEF TmrUser, User
  <2>3. Good(e)'
    BY <1>0, <2>1, <2>2 DEF Good, Owes, Placed
  <2> QED BY <1>0, <2>1, <2>3, AllGood
<1> QED BY <1>1, <1>2, <1>3, <1>4, <1>5, <1>6, <1>7

\* An element that was doing, alive, and is now nowhere.
LEMMA ReapedGood ==
  ASSUME NEW e \in Eles, owed[e] \in Int, Good(e), Reaped(e), ele[e].alive, Doing(e), ~Queued(e)', ~Timing(e)'
  PROVE  Good(e)'
<1>1. owed[e] = 1 /\ ~Doing(e)'
  BY NoneIsNoEle DEF Good, Owes, Reaped, Doing
<1>2. CASE Started(e)
  BY <1>1, <1>2 DEF Good, Owes, Placed, Started
<1>3. CASE Ended(e)
  BY <1>1, <1>3, NoneIsNoEle DEF Good, Gone, Owes, Placed, Ended
<1> QED BY <1>2, <1>3 DEF Reaped

LEMMA LoopStepKeepsE == ASSUME LInv, EInv, LoopStep PROVE EInv'
<1>0. Distinct(ready) /\ \A e \in Eles : Good(e) /\ owed[e] \in Int
  BY DEF EInv, Good, LInv, Types
<1>1. CASE Pop
  BY <1>0, <1>1, PopDoes, AllSame
<1>2. CASE CallbackReturns
  <2>1. ready' = ready /\ cb' = None
    BY <1>2, CallbackDoes
  <2>2. PICK e \in Eles :
          /\ cb = e /\ \A x \in Eles \ {e} : Same(x)
          /\ ele'[e].asc = ele[e].asc /\ ele'[e].refc = ele[e].refc
          /\ owed'[e] = owed[e] - 1
          /\ (ele'[e].alive <=> ele[e].alive /\ ele[e].refc # 0)
          /\ (Queued(e)' <=> Queued(e)) /\ (Timing(e)' <=> Timing(e))
    BY <1>2, CallbackDoes
  <2>3. ele[e].alive /\ (Doing(e)' <=> Doing(e))
    BY <1>0, <2>2 DEF Good, Gone, Doing
  <2>4. CASE ~Doing(e)
    BY <1>0, <2>1, <2>2, <2>3, <2>4, AllGood, NoneIsNoEle DEF Good, Gone, Owes, Placed
  <2>5. CASE Doing(e)
    BY <1>0, <2>1, <2>2, <2>3, <2>5, AllGood, NoneIsNoEle DEF Good, Gone, Owes, Placed
  <2> QED BY <2>4, <2>5
<1>3. CASE ReapEfd
  <2>1. ready' = ready
    BY <1>3, ReapEfdDoes
  <2>2. CASE \A x \in Eles : Same(x)
    BY <1>0, <2>1, <2>2, AllSame
  <2>3. ASSUME NEW e \in Eles, Reaped(e), ele[e].alive, Doing(e), ~Queued(e)', ~Timing(e)'
        PROVE  EInv'
    <3>1. Good(e)'
      BY <1>0, <2>3, ReapedGood
    <3>2. \A x \in Eles \ {e} : Same(x)
      BY <2>3 DEF Reaped
    <3> QED BY <1>0, <2>1, <3>1, <3>2, AllGood
  <2> QED BY <1>3, <2>2, <2>3, ReapEfdDoes
<1>4. CASE ReapUsd
  <2>1. PICK e \in Eles : /\ Reaped(e) /\ Queued(e) /\ (Distinct(ready) => ~Queued(e)')
                          /\ (Timing(e)' <=> Timing(e))
    BY <1>4, ReapUsdDoes
  <2>2. Distinct(ready')
    BY <1>0, <1>4, ReapUsdDoes
  <2>3. ele[e].alive /\ Doing(e) /\ ~Queued(e)' /\ ~Timing(e)'
    BY <1>0, <2>1 DEF Good, Gone, Placed
  <2>4. Good(e)'
    BY <1>0, <2>1, <2>3, ReapedGood
  <2>5. \A x \in Eles \ {e} : Same(x)
    BY <2>1 DEF Reaped
  <2> QED BY <2>2, <2>4, <2>5, AllGood
<1>5. CASE ReapTmr
  <2>1. PICK e \in Eles : Reaped(e) /\ Timing(e) /\ ~Timing(e)' /\ (Queued(e)' <=> Queued(e))
    BY <1>5, ReapTmrDoes
  <2>2. ready' = ready
    BY <1>5, ReapTmrDoes
  <2>3. ele[e].alive /\ Doing(e) /\ ~Queued(e)' /\ ~Timing(e)'
    BY <1>0, <2>1 DEF Good, Gone, Placed
  <2>4. Good(e)'
    BY <1>0, <2>1, <2>3, ReapedGood
  <2>5. \A x \in Eles \ {e} : Same(x)
    BY <2>1 DEF Reaped
  <2> QED BY <1>0, <2>2, <2>4, <2>5, AllGood
<1>6. CASE Advance
  BY <1>0, <1>6, AdvanceDoes, AllSame
<1>7. CASE EpollWait
  BY <1>0, <1>7, EpollDoes, AllSame
<1> QED BY <1>1, <1>2, <1>3, <1>4, <1>5, <1>6, <1>7 DEF LoopStep

\* For a careful application: a freed element is idle and in no queue; a live
\* one is owed what is under way; it is queued or timed only while it is doing.
THEOREM ElementsKept == ASSUME Careful PROVE Spec => []EInv
<1>1. Init => EInv
  BY AbsentType, NoneIsNoEle
     DEF Init, EInv, Distinct, Gone, Doing, Queued, Timing
<1>2. LInv /\ EInv /\ [Next]_vars => EInv'
  <2> SUFFICES ASSUME LInv, EInv, [Next]_vars PROVE EInv'
    OBVIOUS
  <2>0. Distinct(ready)
    BY DEF EInv
  <2>1. CASE UserStep
    BY <2>1, UserStepKeepsE
  <2>2. CASE LoopStep
    BY <2>2, LoopStepKeepsE
  <2>3. CASE Tick
    BY <2>0, <2>3, TickDoes, AllSame
  <2>4. ASSUME NEW e \in Efds, Edge(e) PROVE EInv'
    BY <2>0, <2>4, EdgeDoes, AllSame
  <2>5. CASE UNCHANGED vars
    BY <2>0, <2>5, IdleSame, AllSame DEF vars
  <2> QED BY <2>1, <2>2, <2>3, <2>4, <2>5 DEF Next
<1> QED BY <1>1, <1>2, LoopKept, PTL DEF Spec

\* The states have their types: at most two results are owed at any time.
THEOREM LoopTyped == ASSUME Careful PROVE Spec => []TypeOK
<1>1. LInv /\ EInv => TypeOK
  <2> SUFFICES ASSUME LInv, EInv PROVE TypeOK
    OBVIOUS
  <2>1. ASSUME NEW e \in Eles PROVE owed[e] \in 0 .. 2
    BY DEF EInv, Gone, Owes
  <2>2. owed \in [Eles -> 0 .. 2]
    BY <2>1 DEF LInv, Types
  <2> QED BY <2>2 DEF LInv, Types, TypeOK
<1> QED BY <1>1, LoopKept, ElementsKept, PTL

\* No freed element is in the ready queue or the timer tree or under its own
\* callback: dpele_del and _dpele_asc_over free an element only when it is in
\* none of them.
THEOREM NothingDangles == ASSUME Careful PROVE Spec => []NoDangling
<1>1. EInv => NoDangling
  BY DEF EInv, NoDangling, Gone
<1> QED BY <1>1, ElementsKept, PTL

\* Every accepted submission gets one result: an event, a timeout and dpevp_end
\* never deliver twice, and nothing that is over is still queued or timed.
THEOREM ResultsOnce == ASSUME Careful PROVE Spec => []OneResult
<1>1. EInv => OneResult
  BY DEF EInv, OneResult, Gone, Owes, Placed
<1> QED BY <1>1, ElementsKept, PTL
=============================================================================
