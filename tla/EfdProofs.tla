----------------------------- MODULE EfdProofs ------------------------------
(***************************************************************************)
(* Proofs about Efd for any sizes of buffers and operations.               *)
(***************************************************************************)
EXTENDS Efd, TLAPS

-----------------------------------------------------------------------------
(* The inductive invariant. *)

\* A post runs for an event that able_events has, and never after a hang-up;
\* a waiting operation wants the direction it works in.
Running ==
  /\ pc # "user" => stat = "wait" /\ able \cap want # {} /\ "HUP" \notin able
  /\ stat = "wait" => /\ want # {}
                      /\ op.kind \in Reads => want = {"IN"}
                      /\ op.kind \in Writes => want = {"OUT"}

Known == able \cup batch \cup handed

\* NoLostEdge inside posts too.  Without room, either the event is still known,
\* or a write has failed and room will be reported.  A hang-up never comes
\* without IN, so an IN withdrawn at end of file is on its way again.
Covered ==
  /\ closed => "HUP" \in able \cup batch \/ edge
  /\ avail > 0 \/ closed => "IN" \in Known \/ edge
  /\ room > 0 => "OUT" \in Known \/ edge
  /\ room = 0 => "OUT" \in Known \/ nospace
  /\ "HUP" \in able => "IN" \in able
  /\ "HUP" \in batch => "IN" \in batch

\* While an operation waits, what it has counted and what it asks for next fit
\* into its buffer; the operations that move a fixed number of bytes ask for all
\* the rest.
Sized ==
  /\ pc = "user" => got = 0
  /\ stat = "wait" => op.ret = WAIT
  /\ stat = "wait" /\ op.kind # "poll" =>
       /\ got < op.iolen /\ op.total + op.iolen <= op.size
       /\ op.kind \in {"read", "write"} => op.total = 0
       /\ op.kind = "read_some" => op.len = op.size
       /\ op.kind \in {"write_some", "read_data", "write_data"} =>
            op.total + op.iolen = op.size /\ op.len <= op.size

\* What the operation has counted is what was moved, until the end of file.
Counted ==
  /\ Accounted
  /\ stat = "wait" /\ ~closed =>
       IF op.kind = "poll" THEN moved = 0 ELSE op.total + got = moved

IInv == TypeOK /\ Running /\ Covered /\ Sized /\ Counted

-----------------------------------------------------------------------------
(* The posts. *)

\* An operation with something left to move.
Fits(o) ==
  /\ 0 < o.iolen /\ o.total + o.iolen <= o.size
  /\ o.kind \in {"read", "write"} => o.total = 0
  /\ o.kind = "read_some" => o.len = o.size
  /\ o.kind \in {"write_some", "read_data", "write_data"} =>
       o.total + o.iolen = o.size /\ o.len <= o.size

\* A post that is given the result r of its system calls counts r, and if it goes
\* on it asks for what is left: _dpaio_*_post.
LEMMA PostKeeps ==
  ASSUME NEW o \in OpType, o.kind # "poll", Fits(o), o.ret = WAIT,
         NEW r \in Int, r <= o.iolen
  PROVE  /\ Post(o, r) \in OpType
         /\ Post(o, r).kind = o.kind /\ Post(o, r).size = o.size
         /\ o.kind \notin Stream => Post(o, r).total = o.total /\ Post(o, r).ret = r
         /\ o.kind \in Stream =>
              Post(o, r).total = IF r > 0 THEN o.total + r ELSE o.total
         /\ Post(o, r).ret = WAIT => Fits(Post(o, r))
<1> DEFINE p == Post(o, r)
<1>0. /\ o.kind \in AllKinds /\ o.len \in Nat /\ o.size \in Nat /\ o.iolen \in Int
      /\ o.total \in Nat /\ o.ret \in Int /\ WAIT \in Int /\ WAIT < 0 /\ Batch \in Nat \ {0}
  BY EfdAssumption DEF OpType, WAIT
<1>1. CASE o.kind \in {"read", "write"}
  <2>1. p = [o EXCEPT !.ret = r]
    BY <1>1 DEF Post
  <2>2. /\ p \in OpType /\ p.kind = o.kind /\ p.size = o.size /\ p.total = o.total
        /\ p.ret = r /\ p.iolen = o.iolen /\ p.len = o.len
    BY <2>1 DEF OpType
  <2> QED BY <1>1, <2>2 DEF Fits, Stream
<1>2. ASSUME o.kind \in Stream, r <= 0, o.kind # "write_some", p = Cut(o, r)
      PROVE  /\ p \in OpType /\ p.kind = o.kind /\ p.size = o.size
             /\ p.total = o.total /\ p.iolen = o.iolen /\ p.len = o.len
  BY <1>0, <1>2 DEF Cut, OpType
<1>3. ASSUME NEW over \in BOOLEAN, NEW n \in Int, p = Count(o, r, over, n), r > 0
      PROVE  /\ p \in OpType /\ p.kind = o.kind /\ p.size = o.size /\ p.len = o.len
             /\ p.total = o.total + r
             /\ p.ret = WAIT => ~over /\ p.iolen = n
  <2> DEFINE t == o.total + r
             x == IF over THEN o.total + r ELSE WAIT
             m == IF over THEN o.iolen ELSE n
  <2>1. p = [o EXCEPT !.total = t, !.ret = x, !.iolen = m]
    BY <1>3 DEF Count
  <2>2. t \in Nat /\ x \in Int /\ m \in Int
    BY <1>0, <1>3
  <2>3. x = WAIT => ~over /\ m = n
    BY <1>0, <1>3
  <2>4. t = o.total + r
    OBVIOUS
  <2> HIDE DEF p, t, x, m
  <2>5. /\ p \in OpType /\ p.kind = o.kind /\ p.size = o.size /\ p.len = o.len
        /\ p.total = t /\ p.ret = x /\ p.iolen = m
    BY <2>1, <2>2 DEF OpType
  <2> QED BY <2>3, <2>4, <2>5
<1>4. CASE o.kind \in Stream /\ o.kind # "write_some" /\ r <= 0
  <2>1. p = Cut(o, r)
    BY <1>4 DEF Post, ReadSomePost, ReadMustPost, ReadDataPost, WriteMustPost, WriteDataPost,
                Stream, Reads, Writes
  <2> QED BY <1>0, <1>2, <1>4, <2>1 DEF Fits, Stream
<1>5. CASE o.kind = "write_some" /\ r <= 0
  <2>1. p = [o EXCEPT !.ret = IF o.total >= o.len THEN o.total ELSE r]
    BY <1>5 DEF Post, WriteSomePost
  <2>2. (IF o.total >= o.len THEN o.total ELSE r) \in Int
    BY <1>0
  <2>3. /\ p \in OpType /\ p.kind = o.kind /\ p.size = o.size
        /\ p.total = o.total /\ p.iolen = o.iolen /\ p.len = o.len
    BY <2>1, <2>2 DEF OpType
  <2> QED BY <1>0, <1>5, <2>3 DEF Fits, Stream, Reads, Writes
<1>6. CASE o.kind = "read_some" /\ r > 0
  <2> DEFINE over == r < o.iolen \/ o.total + r >= o.len
             n == Smaller(o.len - o.total - r, Batch)
  <2>1. p = Count(o, r, over, n)
    BY <1>6 DEF Post, ReadSomePost
  <2>2. /\ over \in BOOLEAN /\ n \in Int
        /\ ~over => 0 < n /\ o.total + r + n <= o.len
    BY <1>0 DEF Smaller
  <2> HIDE DEF over, n
  <2> QED BY <1>0, <1>3, <1>6, <2>1, <2>2 DEF Fits, Stream, Reads, Writes
<1>7. CASE o.kind \in {"write_some", "read_data", "write_data"} /\ r > 0
  <2> DEFINE over == o.total + r >= o.len
             n == o.iolen - r
  <2>1. p = Count(o, r, over, n)
    BY <1>7 DEF Post, WriteSomePost, ReadDataPost, WriteDataPost
  <2>2. /\ over \in BOOLEAN /\ n \in Int
        /\ ~over => 0 < n /\ o.total + r + n = o.size
    BY <1>0, <1>7 DEF Fits
  <2> HIDE DEF over, n
  <2> QED BY <1>0, <1>3, <1>7, <2>1, <2>2 DEF Fits, Stream, Reads, Writes
<1>8. CASE o.kind \in {"read_must", "write_must"} /\ r > 0
  <2> DEFINE over == o.total + r >= o.iolen
             n == o.iolen - r
  <2>1. p = Count(o, r, over, n)
    BY <1>8 DEF Post, ReadMustPost, WriteMustPost
  <2>2. /\ over \in BOOLEAN /\ n \in Int
        /\ ~over => 0 < n /\ o.total + r + n <= o.size
    BY <1>0, <1>8 DEF Fits
  <2> HIDE DEF over, n
  <2> QED BY <1>0, <1>3, <1>8, <2>1, <2>2 DEF Fits, Stream, Reads, Writes
<1> QED BY <1>0, <1>1, <1>4, <1>5, <1>6, <1>7, <1>8 DEF AllKinds, Stream, Reads, Writes

\* After a post the operation waits, with its events partly withdrawn, or it is
\* over: the loop in _dpefd_wake.
LEMMA PostStep ==
  ASSUME TypeOK, Running, Sized, pc # "user", op.kind # "poll",
         NEW r \in Int, r <= op.iolen, NEW inva \in SUBSET Evs, PostReturns(r, inva)
  PROVE  /\ able' = able \ inva /\ got' = 0 /\ ext' \in Nat
         /\ op' \in OpType /\ op'.kind = op.kind /\ op'.size = op.size
         /\ op.kind \notin Stream => op'.total = op.total /\ op'.ret = r
         /\ op.kind \in Stream => op'.total = IF r > 0 THEN op.total + r ELSE op.total
         /\ \/ /\ stat' = "wait" /\ want' = want /\ op'.ret = WAIT /\ Fits(op')
               /\ pc' = "user" \/ (pc' = pc /\ able' \cap want # {})
            \/ stat' \in {"idle", "ready"} /\ want' = {} /\ pc' = "user" /\ op'.ret # WAIT
<1> DEFINE o == Post(op, r)
<1>0. op \in OpType /\ Fits(op) /\ op.ret = WAIT /\ ext \in Nat /\ stat = "wait"
  <2>1. op \in OpType /\ ext \in Nat /\ got \in Nat
    BY DEF TypeOK
  <2>2. op.iolen \in Int
    BY <2>1 DEF OpType
  <2> QED BY <2>1, <2>2 DEF Running, Sized, Fits
<1>1. /\ o \in OpType /\ o.kind = op.kind /\ o.size = op.size
      /\ op.kind \notin Stream => o.total = op.total /\ o.ret = r
      /\ op.kind \in Stream => o.total = IF r > 0 THEN op.total + r ELSE op.total
      /\ o.ret = WAIT => Fits(o)
  BY <1>0, PostKeeps
<1>2. /\ able' = able \ inva
      /\ ext' = CASE op.kind = "read_some" -> 0
                  [] op.kind = "read_must" /\ r > 0 -> ext + r
                  [] OTHER -> ext
      /\ IF o.ret # WAIT THEN Finish(pc, o)
         ELSE /\ op' = o /\ got' = 0 /\ UNCHANGED <<want, stat>>
              /\ pc' = IF able' \cap want # {} THEN pc ELSE "user"
  BY DEF PostReturns
<1>3. ext' \in Nat
  <2>1. CASE op.kind = "read_some"
    BY <1>2, <2>1
  <2>2. CASE op.kind = "read_must" /\ r > 0
    BY <1>0, <1>2, <2>2
  <2>3. CASE op.kind # "read_some" /\ ~(op.kind = "read_must" /\ r > 0)
    BY <1>0, <1>2, <2>3
  <2> QED BY <2>1, <2>2, <2>3
<1> HIDE DEF o
<1>4. CASE o.ret # WAIT
  BY <1>1, <1>2, <1>3, <1>4 DEF Finish
<1>5. CASE o.ret = WAIT
  BY <1>0, <1>1, <1>2, <1>3, <1>5
<1> QED BY <1>4, <1>5

\* The head of _dpefd_wake: the operation fails with a hang-up, or waits.
LEMMA WakeStep ==
  ASSUME NEW p \in {"addv", "feed"}, NEW o \in OpType, o.ret = WAIT, NEW a, NEW w,
         Wake(p, o, a, w)
  PROVE  /\ got' = 0 /\ op' \in OpType /\ op'.kind = o.kind /\ op'.size = o.size
         /\ op'.total = o.total
         /\ \/ /\ stat' = "wait" /\ want' = w /\ op' = o
               /\ pc' = "user" \/ (pc' = p /\ a \cap w # {} /\ "HUP" \notin a)
            \/ /\ stat' \in {"idle", "ready"} /\ want' = {} /\ pc' = "user"
               /\ op'.ret = CONNRESET
<1>1. CASE "HUP" \in a
  <2>1. Finish(p, [o EXCEPT !.ret = CONNRESET])
    BY <1>1 DEF Wake
  <2>2. op' = [o EXCEPT !.ret = CONNRESET]
    BY <2>1 DEF Finish
  <2>3. CONNRESET \in Int
    BY DEF CONNRESET
  <2>4. /\ op' \in OpType /\ op'.kind = o.kind /\ op'.size = o.size
        /\ op'.total = o.total /\ op'.ret = CONNRESET
    BY <2>2, <2>3 DEF OpType
  <2>5. got' = 0 /\ want' = {} /\ pc' = "user" /\ stat' \in {"idle", "ready"}
    BY <2>1 DEF Finish
  <2> QED BY <2>4, <2>5
<1>2. CASE "HUP" \notin a
  BY <1>2 DEF Wake
<1> QED BY <1>1, <1>2

-----------------------------------------------------------------------------
(* The invariant holds initially and is kept by every action. *)

\* The results the code tells apart are different.
LEMMA Constants ==
  /\ WAIT \in Int /\ WAIT < 0 /\ EOF \in Int /\ EOF < 0 /\ TIME \in Int /\ TIME < 0
  /\ ENDED \in Int /\ ENDED < 0 /\ CONNRESET \in Int /\ CONNRESET < 0
  /\ TIME # WAIT /\ ENDED # WAIT /\ CONNRESET # WAIT /\ EOF # WAIT
  /\ READY \in Int /\ READY > 0
BY DEF WAIT, EOF, TIME, ENDED, CONNRESET, READY

\* A descriptor just registered: its first edge is on the way (_dpevp_watch_efd).
LEMMA InitInv == Init => IInv
<1> SUFFICES ASSUME Init PROVE IInv
  OBVIOUS
<1>0. Cap \in Nat \ {0}
  BY EfdAssumption
<1>1. op = [kind |-> "read", len |-> 0, size |-> 0, iolen |-> 0, total |-> 0, ret |-> 0]
  BY DEF Init
<1>2. op \in OpType /\ op.kind = "read" /\ op.ret = 0 /\ op.size = 0
  BY <1>1 DEF OpType, AllKinds, Reads
<1>3. /\ avail \in 0 .. Cap /\ room = Cap /\ closed = FALSE /\ nospace = FALSE
      /\ edge = TRUE /\ batch = {} /\ able = {} /\ want = {}
      /\ stat = "idle" /\ pc = "user" /\ got = 0 /\ ext = 0 /\ moved = 0 /\ handed = {}
  BY DEF Init
<1>4. TypeOK
  <2>1. avail \in 0 .. Cap /\ room \in 0 .. Cap
    BY <1>0, <1>3
  <2>2. closed \in BOOLEAN /\ nospace \in BOOLEAN /\ edge \in BOOLEAN
    BY <1>3
  <2>3. batch \subseteq Evs /\ able \subseteq Evs /\ want \subseteq {"IN", "OUT"}
        /\ handed \subseteq {"IN", "OUT"}
    BY <1>3
  <2> QED BY <1>2, <1>3, <2>1, <2>2, <2>3 DEF TypeOK
<1>5. Running /\ Sized
  BY <1>3 DEF Running, Sized
<1>6. Covered
  BY <1>0, <1>3 DEF Covered
<1>7. Counted
  BY <1>2, <1>3 DEF Counted, Accounted, Stream
<1> QED BY <1>4, <1>5, <1>6, <1>7 DEF IInv

\* What the actions below rely on.
LEMMA Facts ==
  ASSUME IInv
  PROVE  /\ avail \in Nat /\ avail <= Cap /\ room \in Nat /\ room <= Cap
         /\ Cap \in Nat \ {0} /\ Batch \in Nat \ {0}
         /\ closed \in BOOLEAN /\ nospace \in BOOLEAN /\ edge \in BOOLEAN
         /\ batch \subseteq Evs /\ able \subseteq Evs /\ want \subseteq {"IN", "OUT"}
         /\ stat \in {"idle", "wait", "ready"} /\ pc \in {"user", "addv", "feed"}
         /\ got \in Nat /\ op \in OpType /\ ext \in Nat /\ moved \in Nat
         /\ handed \subseteq {"IN", "OUT"}
         /\ op.kind \in AllKinds /\ op.len \in Nat /\ op.size \in Nat /\ op.iolen \in Int
         /\ op.total \in Nat /\ op.ret \in Int
<1>1. op \in OpType
  BY DEF IInv, TypeOK
<1>2. /\ op.kind \in AllKinds /\ op.len \in Nat /\ op.size \in Nat /\ op.iolen \in Int
      /\ op.total \in Nat /\ op.ret \in Int
  BY <1>1 DEF OpType
<1> QED BY <1>2, EfdAssumption DEF IInv, TypeOK

\* A post that returns keeps the counts and what the operation waits for: the
\* bytes of its last system call are in r, unless it met the end of file.
LEMMA PostCounted ==
  ASSUME IInv, pc # "user", op.kind \in Reads \cup Writes,
         NEW r \in Int, r <= op.iolen, NEW inva \in SUBSET Evs, PostReturns(r, inva),
         NEW k \in Nat, moved' = moved + k, closed' = closed,
         ~closed => got + k = IF r > 0 THEN r ELSE 0
  PROVE  Running' /\ Sized' /\ Counted'
<1> USE Facts
<1>a. /\ op.kind # "poll" /\ stat = "wait" /\ "HUP" \notin able
      /\ op.ret = WAIT /\ got < op.iolen /\ op.total + op.iolen <= op.size
      /\ op.kind \in Reads => want = {"IN"}
      /\ op.kind \in Writes => want = {"OUT"}
  BY DEF IInv, Running, Sized, Reads, Writes
<1>b. /\ able' = able \ inva /\ got' = 0 /\ ext' \in Nat
      /\ op' \in OpType /\ op'.kind = op.kind /\ op'.size = op.size
      /\ op.kind \notin Stream => op'.total = op.total /\ op'.ret = r
      /\ op.kind \in Stream => op'.total = IF r > 0 THEN op.total + r ELSE op.total
      /\ \/ /\ stat' = "wait" /\ want' = want /\ op'.ret = WAIT /\ Fits(op')
            /\ pc' = "user" \/ (pc' = pc /\ able' \cap want # {})
         \/ stat' \in {"idle", "ready"} /\ want' = {} /\ pc' = "user" /\ op'.ret # WAIT
  BY <1>a, PostStep DEF IInv
<1>c. Running'
  BY <1>a, <1>b DEF IInv, Running, Reads, Writes
<1>d. Sized'
  BY <1>a, <1>b DEF Sized, Fits
<1>0. closed' = closed
  OBVIOUS
<1>1. CASE closed
  BY <1>0, <1>1, <1>c, <1>d DEF Counted, Accounted
<1>2. CASE ~closed
  <2>1. op.total + got = moved /\ (op.kind \in {"read", "write"} => op.total = 0)
    BY <1>a, <1>2 DEF IInv, Counted, Sized
  <2>2. got + k = IF r > 0 THEN r ELSE 0
    BY <1>a, <1>2
  <2>a. moved' = op.total + (IF r > 0 THEN r ELSE 0)
    <3>1. moved' = moved + k
      BY <1>a
    <3>2. moved \in Nat /\ op.total \in Nat /\ got \in Nat
      OBVIOUS
    <3>3. moved' = op.total + (got + k)
      BY <2>1, <3>1, <3>2
    <3> QED BY <2>2, <3>3
  <2>b. 0 < op.iolen /\ op.total + op.iolen <= op.size /\ r <= op.iolen
    BY <1>a
  <2>3. moved' <= op'.size
    <3>1. op'.size = op.size
      BY <1>b
    <3> QED BY <2>a, <2>b, <3>1
  <2>4. op.kind \in Stream => op'.total = moved'
    <3>1. op.kind \in Stream => op'.total = IF r > 0 THEN op.total + r ELSE op.total
      BY <1>b
    <3> QED BY <2>a, <3>1
  <2>5. op.kind \notin Stream /\ op'.ret > 0 => op'.ret = moved'
    BY <1>a, <1>b, <2>1, <2>2 DEF Stream, Reads
  <2>6. op.kind \notin Stream /\ op'.ret = WAIT => op'.total = moved'
    <3>1. op.kind \notin Stream => op'.total = op.total /\ op'.ret = r
      BY <1>b
    <3> QED BY <2>a, <3>1, Constants
  <2> QED BY <1>a, <1>b, <1>c, <1>d, <2>3, <2>4, <2>5, <2>6 DEF Counted, Accounted
<1> QED BY <1>1, <1>2

\* One read or recv of _dpaio_buf_post.
LEMMA ReadCallStep == IInv /\ ReadCall => IInv'
<1> SUFFICES ASSUME IInv, ReadCall PROVE IInv'
  OBVIOUS
<1> USE Facts
<1>0. /\ pc # "user" /\ op.kind \in Reads /\ op.kind # "poll" /\ stat = "wait"
      /\ UNCHANGED <<room, closed, nospace, edge, batch, handed>>
      /\ want = {"IN"} /\ "IN" \in able /\ "HUP" \notin able
      /\ op.ret = WAIT /\ got < op.iolen /\ op.total + op.iolen <= op.size
  BY DEF ReadCall, IInv, Running, Sized, Reads
<1>1. ASSUME avail > 0, NEW k \in Nat, 0 < k, k <= avail, k <= op.iolen - got,
             avail' = avail - k, moved' = moved + k, got + k # op.iolen,
             got' = got + k, UNCHANGED <<able, want, stat, pc, op, ext>>
      PROVE  IInv'
  <2>1. TypeOK'
    BY <1>0, <1>1 DEF IInv, TypeOK
  <2>2. Running' /\ Sized'
    BY <1>0, <1>1 DEF IInv, Running, Sized
  <2>3. Covered'
    BY <1>0, <1>1 DEF IInv, Covered, Known
  <2>4. Counted'
    BY <1>0, <1>1 DEF IInv, Counted, Accounted
  <2> QED BY <2>1, <2>2, <2>3, <2>4 DEF IInv
<1>2. ASSUME NEW k \in Nat, k <= avail, avail' = avail - k, moved' = moved + k,
             NEW r \in Int, r <= op.iolen, NEW inva \in SUBSET {"IN"},
             PostReturns(r, inva),
             inva = {"IN"} => avail' = 0,
             ~closed => got + k = IF r > 0 THEN r ELSE 0
      PROVE  IInv'
  <2>0. inva \in SUBSET Evs
    BY DEF Evs
  <2>1. /\ able' = able \ inva /\ got' = 0 /\ ext' \in Nat
        /\ op' \in OpType /\ op'.kind = op.kind /\ op'.size = op.size
        /\ op.kind \notin Stream => op'.total = op.total /\ op'.ret = r
        /\ op.kind \in Stream => op'.total = IF r > 0 THEN op.total + r ELSE op.total
        /\ \/ /\ stat' = "wait" /\ want' = want /\ op'.ret = WAIT /\ Fits(op')
              /\ pc' = "user" \/ (pc' = pc /\ able' \cap want # {})
           \/ stat' \in {"idle", "ready"} /\ want' = {} /\ pc' = "user" /\ op'.ret # WAIT
    BY <1>0, <1>2, <2>0, PostStep DEF IInv
  <2>2. TypeOK'
    BY <1>0, <1>2, <2>1 DEF IInv, TypeOK
  <2>3. Running' /\ Sized' /\ Counted'
    BY <1>0, <1>2, <2>0, PostCounted
  <2>4. Covered'
    <3>1. Covered
      BY DEF IInv
    <3>2. /\ "HUP" \in able' <=> "HUP" \in able
          /\ "OUT" \in able' <=> "OUT" \in able
          /\ inva = {} => able' = able
      BY <1>2, <2>1
    <3>3. CASE inva = {}
      BY <1>0, <1>2, <3>1, <3>2, <3>3 DEF Covered, Known
    <3>4. CASE inva = {"IN"}
      BY <1>0, <1>2, <3>1, <3>2, <3>4 DEF Covered, Known
    <3> QED BY <3>3, <3>4
  <2> QED BY <2>2, <2>3, <2>4 DEF IInv
<1>3. CASE avail > 0
  <2> DEFINE k == Smaller(avail, op.iolen - got)
  <2>1. k \in Nat /\ 0 < k /\ k <= avail /\ k <= op.iolen - got
    BY <1>0, <1>3 DEF Smaller
  <2>2. /\ avail' = avail - k /\ moved' = moved + k
        /\ IF got + k = op.iolen THEN PostReturns(got + k, {})
           ELSE got' = got + k /\ UNCHANGED <<able, want, stat, pc, op, ext>>
    BY <1>3 DEF ReadCall
  <2> HIDE DEF k
  <2>3. CASE got + k = op.iolen
    <3>1. got + k \in Int /\ got + k <= op.iolen /\ got + k > 0
      BY <2>1, <2>3
    <3> QED BY <1>2, <2>1, <2>2, <2>3, <3>1
  <2>4. CASE got + k # op.iolen
    BY <1>1, <1>3, <2>1, <2>2, <2>4
  <2> QED BY <2>3, <2>4
<1>4. CASE avail = 0
  <2> DEFINE r == IF closed THEN EOF ELSE IF got > 0 THEN got ELSE WAIT
  <2>1. PostReturns(r, {"IN"}) /\ avail' = 0 /\ moved' = moved
    BY <1>0, <1>4 DEF ReadCall
  <2>2. r \in Int /\ r <= op.iolen /\ (~closed => got = IF r > 0 THEN r ELSE 0)
    BY <1>0, Constants
  <2> HIDE DEF r
  <2>3. 0 \in Nat /\ 0 <= avail /\ avail' = avail - 0 /\ moved' = moved + 0
        /\ (~closed => got + 0 = IF r > 0 THEN r ELSE 0)
    BY <1>4, <2>1, <2>2
  <2> QED BY <1>2, <2>1, <2>2, <2>3
<1> QED BY <1>3, <1>4

\* One write or send of _dpaio_buf_post.
LEMMA WriteCallStep == IInv /\ WriteCall => IInv'
<1> SUFFICES ASSUME IInv, WriteCall PROVE IInv'
  OBVIOUS
<1> USE Facts
<1>0. /\ pc # "user" /\ op.kind \in Writes /\ op.kind # "poll" /\ stat = "wait"
      /\ UNCHANGED <<avail, closed, edge, batch, handed>>
      /\ want = {"OUT"} /\ "OUT" \in able /\ "HUP" \notin able
      /\ op.ret = WAIT /\ got < op.iolen /\ op.total + op.iolen <= op.size
  BY DEF WriteCall, IInv, Running, Sized, Writes
<1>1. ASSUME room > 0, NEW k \in Nat, 0 < k, k <= room, k <= op.iolen - got,
             room' = room - k, moved' = moved + k, nospace' = nospace, got + k # op.iolen,
             got' = got + k, UNCHANGED <<able, want, stat, pc, op, ext>>
      PROVE  IInv'
  <2>1. TypeOK'
    BY <1>0, <1>1 DEF IInv, TypeOK
  <2>2. Running' /\ Sized'
    BY <1>0, <1>1 DEF IInv, Running, Sized
  <2>3. Covered'
    BY <1>0, <1>1 DEF IInv, Covered, Known
  <2>4. Counted'
    BY <1>0, <1>1 DEF IInv, Counted, Accounted
  <2> QED BY <2>1, <2>2, <2>3, <2>4 DEF IInv
<1>2. ASSUME NEW k \in Nat, k <= room, room' = room - k, moved' = moved + k,
             NEW r \in Int, r <= op.iolen, NEW inva \in SUBSET {"OUT"},
             PostReturns(r, inva),
             inva = {"OUT"} => room' = 0 /\ nospace' = TRUE,
             inva = {} => nospace' = nospace,
             ~closed => got + k = IF r > 0 THEN r ELSE 0
      PROVE  IInv'
  <2>0. inva \in SUBSET Evs
    BY DEF Evs
  <2>1. /\ able' = able \ inva /\ got' = 0 /\ ext' \in Nat
        /\ op' \in OpType /\ op'.kind = op.kind /\ op'.size = op.size
        /\ op.kind \notin Stream => op'.total = op.total /\ op'.ret = r
        /\ op.kind \in Stream => op'.total = IF r > 0 THEN op.total + r ELSE op.total
        /\ \/ /\ stat' = "wait" /\ want' = want /\ op'.ret = WAIT /\ Fits(op')
              /\ pc' = "user" \/ (pc' = pc /\ able' \cap want # {})
           \/ stat' \in {"idle", "ready"} /\ want' = {} /\ pc' = "user" /\ op'.ret # WAIT
    BY <1>0, <1>2, <2>0, PostStep DEF IInv
  <2>2. TypeOK'
    <3>1. nospace' \in BOOLEAN
      <4>1. CASE inva = {"OUT"}
        BY <1>2, <4>1
      <4>2. CASE inva = {}
        BY <1>2, <4>2
      <4> QED BY <4>1, <4>2
    <3> QED BY <1>0, <1>2, <2>1, <3>1 DEF IInv, TypeOK
  <2>3. Running' /\ Sized' /\ Counted'
    BY <1>0, <1>2, <2>0, PostCounted
  <2>4. Covered'
    <3>1. Covered
      BY DEF IInv
    <3>2. /\ "HUP" \in able' <=> "HUP" \in able
          /\ "IN" \in able' <=> "IN" \in able
          /\ inva = {} => able' = able
      BY <1>2, <2>1
    <3>3. CASE inva = {}
      BY <1>0, <1>2, <3>1, <3>2, <3>3 DEF Covered, Known
    <3>4. CASE inva = {"OUT"}
      BY <1>0, <1>2, <3>1, <3>2, <3>4 DEF Covered, Known
    <3> QED BY <3>3, <3>4
  <2> QED BY <2>2, <2>3, <2>4 DEF IInv
<1>3. CASE room > 0
  <2> DEFINE k == Smaller(room, op.iolen - got)
  <2>1. k \in Nat /\ 0 < k /\ k <= room /\ k <= op.iolen - got
    BY <1>0, <1>3 DEF Smaller
  <2>2. /\ room' = room - k /\ moved' = moved + k /\ nospace' = nospace
        /\ IF got + k = op.iolen THEN PostReturns(got + k, {})
           ELSE got' = got + k /\ UNCHANGED <<able, want, stat, pc, op, ext>>
    BY <1>3 DEF WriteCall
  <2> HIDE DEF k
  <2>3. CASE got + k = op.iolen
    <3>1. got + k \in Int /\ got + k <= op.iolen /\ got + k > 0
      BY <2>1, <2>3
    <3> QED BY <1>2, <2>1, <2>2, <2>3, <3>1
  <2>4. CASE got + k # op.iolen
    BY <1>1, <1>3, <2>1, <2>2, <2>4
  <2> QED BY <2>3, <2>4
<1>4. CASE room = 0
  <2> DEFINE r == IF got > 0 THEN got ELSE WAIT
  <2>1. PostReturns(r, {"OUT"}) /\ room' = 0 /\ moved' = moved /\ nospace' = TRUE
    BY <1>0, <1>4 DEF WriteCall
  <2>2. r \in Int /\ r <= op.iolen /\ (~closed => got = IF r > 0 THEN r ELSE 0)
    BY <1>0, Constants
  <2> HIDE DEF r
  <2>3. 0 \in Nat /\ 0 <= room /\ room' = room - 0 /\ moved' = moved + 0
        /\ (~closed => got + 0 = IF r > 0 THEN r ELSE 0)
    BY <1>4, <2>1, <2>2
  <2>4. {"OUT"} \in SUBSET {"OUT"} /\ {"OUT"} # {}
    OBVIOUS
  <2> QED BY <1>2, <2>1, <2>2, <2>3, <2>4
<1> QED BY <1>3, <1>4

\* _dpefd_poll_post
LEMMA PollPostStep == IInv /\ PollPost => IInv'
<1> SUFFICES ASSUME IInv, PollPost PROVE IInv'
  OBVIOUS
<1> USE Facts
<1>0. /\ pc # "user" /\ op.kind = "poll" /\ stat = "wait" /\ "HUP" \notin able
      /\ handed' = handed \cup want
      /\ UNCHANGED <<avail, room, closed, nospace, edge, batch, moved>>
  BY DEF PollPost, IInv, Running, kernel
<1>1. Post(op, READY) = [op EXCEPT !.ret = READY]
  BY <1>0 DEF Post
<1>2. /\ Post(op, READY) \in OpType /\ Post(op, READY).kind = "poll"
      /\ Post(op, READY).ret = READY /\ Post(op, READY).size = op.size
  BY <1>0, <1>1, Constants DEF OpType
<1>3. PostReturns(READY, want)
  BY DEF PollPost
<1>4. able' = able \ want /\ ext' = ext /\ Finish(pc, Post(op, READY))
  BY <1>0, <1>2, <1>3, Constants DEF PostReturns
<1>5. /\ op' = Post(op, READY) /\ want' = {} /\ pc' = "user" /\ got' = 0
      /\ stat' \in {"idle", "ready"}
  BY <1>4 DEF Finish
<1>6. TypeOK'
  BY <1>0, <1>2, <1>4, <1>5 DEF IInv, TypeOK
<1>7. Running' /\ Sized'
  BY <1>5 DEF Running, Sized
<1>8. Covered'
  BY <1>0, <1>4 DEF IInv, Covered, Known
<1>9. Counted'
  <2>1. ~closed => moved = 0
    BY <1>0 DEF IInv, Counted
  <2> QED BY <1>0, <1>2, <1>5, <2>1 DEF Counted, Accounted, Stream, Reads, Writes
<1> QED BY <1>6, <1>7, <1>8, <1>9 DEF IInv

\* A call of dpevp_addv that comes to _dpefd_wake with an operation that fits.
LEMMA StartWake ==
  ASSUME IInv, pc = "user", stat = "idle", NEW o \in OpType, o.ret = WAIT, o.total = 0,
         IF o.kind = "poll" THEN TRUE ELSE Fits(o),
         NEW w \in SUBSET {"IN", "OUT"}, w # {},
         o.kind \in Reads => w = {"IN"}, o.kind \in Writes => w = {"OUT"},
         Wake("addv", o, able, w), moved' = 0, ext' \in Nat,
         UNCHANGED <<avail, room, closed, nospace, edge, batch, able, handed>>
  PROVE  IInv'
<1> USE Facts
<1>1. /\ got' = 0 /\ op' \in OpType /\ op'.kind = o.kind /\ op'.size = o.size
      /\ op'.total = o.total
      /\ \/ /\ stat' = "wait" /\ want' = w /\ op' = o
            /\ pc' = "user" \/ (pc' = "addv" /\ able \cap w # {} /\ "HUP" \notin able)
         \/ /\ stat' \in {"idle", "ready"} /\ want' = {} /\ pc' = "user"
            /\ op'.ret = CONNRESET
  BY WakeStep
<1>2. op'.size \in Nat
  BY <1>1 DEF OpType
<1>3. TypeOK'
  BY <1>1 DEF IInv, TypeOK
<1>4. Running'
  BY <1>1 DEF Running
<1>5. Covered'
  BY DEF IInv, Covered, Known
<1>6. Sized'
  BY <1>1, Constants DEF Sized, Fits
<1>7. Counted'
  BY <1>1, <1>2, Constants DEF Counted, Accounted
<1> QED BY <1>3, <1>4, <1>5, <1>6, <1>7 DEF IInv

\* dpevp_addv of a read or a write: its prep asks for no more than there is.
LEMMA StartStep ==
  ASSUME IInv, NEW k \in Kinds, NEW size \in Lens, NEW n \in 1 .. size, Start(k, n, size)
  PROVE  IInv'
<1> USE Facts
<1> DEFINE sz == IF k = "read_must" THEN ReadMustPrep(n) ELSE size
           io == IoLen(k, n, size)
           o == [kind |-> k, len |-> n, size |-> sz, iolen |-> io, total |-> 0, ret |-> WAIT]
           w == IF k \in Reads THEN {"IN"} ELSE {"OUT"}
<1>0. /\ k \in AllKinds \ {"poll"} /\ size \in Nat /\ n \in Nat /\ 0 < n /\ n <= size
      /\ k = "write_some" \/ size = n
      /\ pc = "user" /\ stat = "idle"
      /\ k \in {"read_some", "read_must"} => ext < n
  BY EfdAssumption DEF Start, User, InBuffer
<1>1. sz \in Nat /\ io \in Int /\ 0 < io /\ io <= sz
      /\ (k = "read_some" => n = sz)
      /\ (k \in {"write_some", "read_data", "write_data"} => io = sz /\ n <= sz)
  BY <1>0 DEF IoLen, ReadSomePrep, ReadMustPrep, WriteSomePrep, WriteMustPrep, Smaller
<1>2. /\ Wake("addv", o, able, w) /\ moved' = 0
      /\ ext' = IF k = "read_some" THEN 0 ELSE ext
      /\ UNCHANGED <<avail, room, closed, nospace, edge, batch, able, handed>>
  BY DEF Start, kernel
<1> HIDE DEF sz, io
<1>3. o \in OpType /\ o.kind = k /\ o.ret = WAIT /\ o.total = 0 /\ Fits(o)
  <2>1. o \in OpType
    BY <1>0, <1>1, Constants DEF OpType
  <2>2. /\ o.kind = k /\ o.ret = WAIT /\ o.total = 0 /\ o.iolen = io /\ o.size = sz
        /\ o.len = n
    OBVIOUS
  <2> HIDE DEF o
  <2> QED BY <1>1, <2>1, <2>2 DEF Fits
<1>4. /\ w \in SUBSET {"IN", "OUT"} /\ w # {} /\ ext' \in Nat
      /\ k \in Reads => w = {"IN"}
      /\ k \in Writes => w = {"OUT"}
  BY <1>2 DEF Reads, Writes
<1> HIDE DEF o, w
<1> QED BY <1>0, <1>2, <1>3, <1>4, StartWake

\* dpevp_addv of dpefd_poll.
LEMMA StartPollStep ==
  ASSUME IInv, NEW w \in SUBSET {"IN", "OUT"}, StartPoll(w)
  PROVE  IInv'
<1> USE Facts
<1> DEFINE o == [kind |-> "poll", len |-> 0, size |-> 0, iolen |-> 0, total |-> 0,
                 ret |-> WAIT]
<1>1. /\ Wake("addv", o, able, w) /\ moved' = 0 /\ w # {} /\ pc = "user" /\ stat = "idle"
      /\ UNCHANGED <<avail, room, closed, nospace, edge, batch, able, ext, handed>>
  BY DEF StartPoll, User, kernel
<1>2. /\ o \in OpType /\ o.kind = "poll" /\ o.ret = WAIT /\ o.total = 0
      /\ o.kind \notin Reads /\ o.kind \notin Writes
  BY Constants DEF OpType, AllKinds, Reads, Writes
<1> HIDE DEF o
<1> QED BY <1>1, <1>2, StartWake

\* dpevp_addv when the prep finds enough in the dpbuf.
LEMMA StartBufferedStep ==
  ASSUME IInv, NEW k \in Kinds, NEW n \in Lens, StartBuffered(k, n)
  PROVE  IInv'
<1> USE Facts
<1> DEFINE x == IF k = "read_some" THEN ext ELSE n
           o == [kind |-> k, len |-> n, size |-> n, iolen |-> n, total |-> 0, ret |-> x]
<1>0. /\ k \in AllKinds /\ k \in {"read_some", "read_must"} /\ n \in Nat /\ n <= ext
      /\ pc = "user" /\ stat = "idle"
  BY EfdAssumption DEF StartBuffered, User, InBuffer
<1>1. /\ op' = o /\ moved' = 0 /\ stat' = "ready"
      /\ ext' = IF k = "read_some" THEN 0 ELSE ext - n
      /\ UNCHANGED <<avail, room, closed, nospace, edge, batch, able, want, pc, got, handed>>
  BY DEF StartBuffered, kernel
<1>2. x \in Int /\ ext' \in Nat
  BY <1>0, <1>1
<1> HIDE DEF x
<1>3. op' \in OpType /\ op'.kind = k /\ op'.size = n /\ op'.total = 0
  BY <1>0, <1>1, <1>2 DEF OpType
<1>4. TypeOK'
  BY <1>1, <1>2, <1>3 DEF IInv, TypeOK
<1>5. Running' /\ Sized'
  BY <1>0, <1>1 DEF IInv, Running, Sized
<1>6. Covered'
  BY <1>1 DEF IInv, Covered, Known
<1>7. Counted'
  BY <1>0, <1>1, <1>3 DEF Counted, Accounted, Stream, Reads, Writes
<1> QED BY <1>4, <1>5, <1>6, <1>7 DEF IInv

\* The user makes system calls after dpefd_poll: what it used up needs no event,
\* unless the peer has closed, and then IN is known as long as HUP is.
LEMMA UseUpStep ==
  ASSUME IInv, NEW ev \in {"IN", "OUT"}, UseUp(ev)
  PROVE  IInv'
<1> USE Facts
<1>0. /\ pc = "user" /\ stat = "idle" /\ handed' = handed \ {ev}
      /\ UNCHANGED <<closed, edge, batch, able, want, stat, pc, got, op, ext, moved>>
  BY DEF UseUp, User
<1>1. CASE ev = "IN"
  <2>1. avail' = 0 /\ room' = room /\ nospace' = nospace
    BY <1>1 DEF UseUp
  <2>2. TypeOK'
    BY <1>0, <2>1 DEF IInv, TypeOK
  <2>3. Covered'
    BY <1>0, <1>1, <2>1 DEF IInv, Covered, Known
  <2>4. Running' /\ Sized' /\ Counted'
    BY <1>0 DEF IInv, Running, Sized, Counted, Accounted
  <2> QED BY <2>2, <2>3, <2>4 DEF IInv
<1>2. CASE ev = "OUT"
  <2>1. room' = 0 /\ avail' = avail /\ nospace' = TRUE
    BY <1>2 DEF UseUp
  <2>2. TypeOK'
    BY <1>0, <2>1 DEF IInv, TypeOK
  <2>3. Covered'
    BY <1>0, <1>2, <2>1 DEF IInv, Covered, Known
  <2>4. Running' /\ Sized' /\ Counted'
    BY <1>0 DEF IInv, Running, Sized, Counted, Accounted
  <2> QED BY <2>2, <2>3, <2>4 DEF IInv
<1> QED BY <1>1, <1>2

\* dpbuf_rall
LEMMA TakeBufferStep == IInv /\ TakeBuffer => IInv'
<1> SUFFICES ASSUME IInv, TakeBuffer PROVE IInv'
  OBVIOUS
<1>1. /\ ext' = 0
      /\ UNCHANGED <<avail, room, closed, nospace, edge, batch, able, want, stat, pc, got,
                     op, moved, handed>>
  BY DEF TakeBuffer, kernel
<1>2. TypeOK'
  BY <1>1 DEF IInv, TypeOK
<1>3. Running' /\ Sized' /\ Counted' /\ Covered'
  BY <1>1 DEF IInv, Running, Sized, Counted, Accounted, Covered, Known
<1> QED BY <1>2, <1>3 DEF IInv

\* dpevp_end and an expired timeout end the operation with an error.
LEMMA CutShort ==
  ASSUME IInv, pc = "user", stat = "wait", NEW x \in Int, x < 0,
         op' = [op EXCEPT !.ret = x], want' = {}, stat' \in {"idle", "ready"},
         UNCHANGED <<avail, room, closed, nospace, edge, batch, able, pc, got, ext, moved,
                     handed>>
  PROVE  IInv'
<1> USE Facts
<1>1. /\ op' \in OpType /\ op'.kind = op.kind /\ op'.size = op.size /\ op'.total = op.total
      /\ op'.ret = x
  BY DEF OpType
<1>2. TypeOK'
  BY <1>1 DEF IInv, TypeOK
<1>3. Running' /\ Sized'
  BY DEF IInv, Running, Sized
<1>4. Covered'
  BY DEF IInv, Covered, Known
<1>5. Counted'
  BY <1>1 DEF IInv, Counted, Accounted
<1> QED BY <1>2, <1>3, <1>4, <1>5 DEF IInv

\* dpevp_end
LEMMA EndStep == IInv /\ End => IInv'
<1> SUFFICES ASSUME IInv, End PROVE IInv'
  OBVIOUS
<1>1. /\ pc = "user" /\ stat = "wait" /\ want' = {} /\ stat' = "ready"
      /\ op' = [op EXCEPT !.ret = ENDED]
      /\ UNCHANGED <<avail, room, closed, nospace, edge, batch, able, pc, got, ext, moved,
                     handed>>
  BY DEF End, kernel
<1> QED BY <1>1, CutShort, Constants

\* _dpevp_reap_tmr
LEMMA ExpireStep == IInv /\ Expire => IInv'
<1> SUFFICES ASSUME IInv, Expire PROVE IInv'
  OBVIOUS
<1>1. /\ pc = "user" /\ stat = "wait" /\ want' = {} /\ stat' = "idle"
      /\ op' = [op EXCEPT !.ret = TIME]
      /\ UNCHANGED <<avail, room, closed, nospace, edge, batch, able, pc, got, ext, moved,
                     handed>>
  BY DEF Expire, kernel
<1> QED BY <1>1, CutShort, Constants

\* _dpevp_reap_usd
LEMMA PopStep == IInv /\ Pop => IInv'
<1> SUFFICES ASSUME IInv, Pop PROVE IInv'
  OBVIOUS
<1>1. /\ pc = "user" /\ stat = "ready" /\ stat' = "idle"
      /\ UNCHANGED <<avail, room, closed, nospace, edge, batch, able, want, pc, got, op, ext,
                     moved, handed>>
  BY DEF Pop, kernel
<1>2. TypeOK'
  BY <1>1 DEF IInv, TypeOK
<1>3. Running' /\ Sized' /\ Counted' /\ Covered'
  BY <1>1 DEF IInv, Running, Sized, Counted, Accounted, Covered, Known
<1> QED BY <1>2, <1>3 DEF IInv

\* epoll_wait takes the edge; what is ready is in the batch then.
LEMMA EpollWaitStep == IInv /\ EpollWait => IInv'
<1> SUFFICES ASSUME IInv, EpollWait PROVE IInv'
  OBVIOUS
<1> USE Facts
<1>1. /\ pc = "user" /\ batch = {} /\ edge' = FALSE /\ batch' = {ev \in Evs : Ready(ev)}
      /\ UNCHANGED <<avail, room, closed, nospace, able, want, stat, pc, got, op, ext, moved,
                     handed>>
  BY DEF EpollWait
<1>2. /\ "IN" \in batch' <=> (avail > 0 \/ closed)
      /\ "OUT" \in batch' <=> room > 0
      /\ "HUP" \in batch' <=> closed
      /\ batch' \subseteq Evs
  BY <1>1 DEF Ready, Evs
<1>3. TypeOK'
  BY <1>1, <1>2 DEF IInv, TypeOK
<1>4. Running' /\ Sized' /\ Counted'
  BY <1>1 DEF IInv, Running, Sized, Counted, Accounted
<1>5. Covered'
  BY <1>1, <1>2 DEF IInv, Covered, Known
<1> QED BY <1>3, <1>4, <1>5 DEF IInv

\* _dpefd_feed: the batch goes into able_events; a waiting operation goes on.
LEMMA FeedStep == IInv /\ Feed => IInv'
<1> SUFFICES ASSUME IInv, Feed PROVE IInv'
  OBVIOUS
<1> USE Facts
<1>1. /\ pc = "user" /\ batch' = {} /\ able' = able \cup batch /\ handed' = handed \ batch
      /\ UNCHANGED <<avail, room, closed, nospace, edge, ext, moved>>
  BY DEF Feed, kernel
<1>2. Covered'
  BY <1>1 DEF IInv, Covered, Known
<1>3. CASE stat # "wait"
  <2>1. UNCHANGED <<want, stat, pc, got, op>>
    BY <1>3 DEF Feed
  <2>2. TypeOK'
    BY <1>1, <2>1 DEF IInv, TypeOK
  <2>3. Running' /\ Sized' /\ Counted'
    BY <1>1, <1>3, <2>1 DEF IInv, Running, Sized, Counted, Accounted
  <2> QED BY <1>2, <2>2, <2>3 DEF IInv
<1>4. CASE stat = "wait"
  <2>1. Wake("feed", op, able', want) /\ op.ret = WAIT /\ got = 0
    BY <1>1, <1>4 DEF Feed, IInv, Sized
  <2>2. /\ got' = 0 /\ op' \in OpType /\ op'.kind = op.kind /\ op'.size = op.size
        /\ op'.total = op.total
        /\ \/ /\ stat' = "wait" /\ want' = want /\ op' = op
              /\ pc' = "user" \/ (pc' = "feed" /\ able' \cap want # {} /\ "HUP" \notin able')
           \/ /\ stat' \in {"idle", "ready"} /\ want' = {} /\ pc' = "user"
              /\ op'.ret = CONNRESET
    BY <2>1, WakeStep
  <2>3. TypeOK'
    BY <1>1, <1>4, <2>2 DEF IInv, TypeOK
  <2>4. Running' /\ Sized'
    BY <1>1, <1>4, <2>1, <2>2, Constants DEF IInv, Running, Sized
  <2>5. Counted'
    BY <1>1, <1>4, <2>1, <2>2, Constants DEF IInv, Counted, Accounted
  <2> QED BY <1>2, <2>3, <2>4, <2>5 DEF IInv
<1> QED BY <1>3, <1>4

\* What the kernel and the peer do puts the descriptor on the ready list, except
\* room that no write has asked for.
LEMMA KernelStep ==
  ASSUME IInv, (\E n \in 1 .. Cap : Arrive(n) \/ Drain(n)) \/ Close
  PROVE  IInv'
<1> USE Facts
<1>1. ASSUME NEW n \in 1 .. Cap, Arrive(n) PROVE IInv'
  <2>1. /\ avail' = avail + n /\ avail + n <= Cap /\ edge' = TRUE
        /\ UNCHANGED <<room, closed, nospace, batch, able, want, stat, pc, got, op, ext,
                       moved, handed>>
    BY <1>1 DEF Arrive
  <2>2. TypeOK'
    BY <2>1 DEF IInv, TypeOK
  <2>3. Running' /\ Sized' /\ Counted' /\ Covered'
    BY <2>1 DEF IInv, Running, Sized, Counted, Accounted, Covered, Known
  <2> QED BY <2>2, <2>3 DEF IInv
<1>2. ASSUME NEW n \in 1 .. Cap, Drain(n) PROVE IInv'
  <2>1. /\ room' = room + n /\ room + n <= Cap /\ edge' = (edge \/ nospace)
        /\ nospace' = FALSE
        /\ UNCHANGED <<avail, closed, batch, able, want, stat, pc, got, op, ext, moved,
                       handed>>
    BY <1>2 DEF Drain
  <2>2. TypeOK'
    <3>1. edge' \in BOOLEAN /\ nospace' \in BOOLEAN
      BY <2>1
    <3> QED BY <2>1, <3>1 DEF IInv, TypeOK
  <2>3. Covered'
    BY <2>1 DEF IInv, Covered, Known
  <2>4. Running' /\ Sized' /\ Counted'
    BY <2>1 DEF IInv, Running, Sized, Counted, Accounted
  <2> QED BY <2>2, <2>3, <2>4 DEF IInv
<1>3. ASSUME Close PROVE IInv'
  <2>1. /\ closed' = TRUE /\ edge' = TRUE
        /\ UNCHANGED <<avail, room, nospace, batch, able, want, stat, pc, got, op, ext,
                       moved, handed>>
    BY <1>3 DEF Close
  <2>2. TypeOK'
    BY <2>1 DEF IInv, TypeOK
  <2>3. Running' /\ Sized' /\ Counted' /\ Covered'
    BY <2>1 DEF IInv, Running, Sized, Counted, Accounted, Covered, Known
  <2> QED BY <2>2, <2>3 DEF IInv
<1> QED BY <1>1, <1>2, <1>3

\* No step of the loop, the owner or the kernel breaks the invariant.
LEMMA NextInv == IInv /\ [Next]_vars => IInv'
<1> SUFFICES ASSUME IInv, [Next]_vars PROVE IInv'
  OBVIOUS
<1>1. CASE LoopStep
  BY <1>1, ReadCallStep, WriteCallStep, PollPostStep, PopStep, EpollWaitStep, FeedStep
  DEF LoopStep
<1>2. CASE UserStep
  BY <1>2, StartStep, StartBufferedStep, StartPollStep, UseUpStep, TakeBufferStep, EndStep,
     ExpireStep
  DEF UserStep
<1>3. CASE (\E n \in 1 .. Cap : Arrive(n) \/ Drain(n)) \/ Close
  BY <1>3, KernelStep
<1>4. CASE UNCHANGED vars
  <2>1. TypeOK'
    BY <1>4 DEF vars, IInv, TypeOK
  <2>2. Running' /\ Sized' /\ Counted' /\ Covered'
    BY <1>4 DEF vars, IInv, Running, Sized, Counted, Accounted, Covered, Known
  <2> QED BY <2>1, <2>2 DEF IInv
<1> QED BY <1>1, <1>2, <1>3, <1>4 DEF Next

-----------------------------------------------------------------------------
(* Theorems. *)

\* The inductive invariant of _dpefd_wake, _dpefd_feed and the posts holds always.
THEOREM Invariant == Spec => []IInv
BY InitInv, NextInv, PTL DEF Spec

\* Every variable of the descriptor stays in its type, and no waiting operation
\* waits for nothing.
THEOREM TypeCorrect == Spec => []TypeOK
<1>1. IInv => TypeOK
  BY DEF IInv
<1> QED BY <1>1, Invariant, PTL

\* The posts, _dpefd_wake and _dpefd_feed never lose an edge: what the descriptor
\* is ready for is in able_events, in the batch or still to be reported, whatever
\* the sizes of the buffers and of the operations.
THEOREM EdgesKept == Spec => []NoLostEdge
<1>1. IInv => NoLostEdge
  <2> SUFFICES ASSUME IInv, NEW ev \in Evs, Ready(ev)
               PROVE  ev \in able \cup batch \cup handed \/ edge
    BY DEF NoLostEdge
  <2>1. CASE ev = "IN"
    BY <2>1 DEF Ready, IInv, Covered, Known
  <2>2. CASE ev = "OUT"
    BY <2>2 DEF Ready, IInv, Covered, Known
  <2>3. CASE ev = "HUP"
    BY <2>3 DEF Ready, IInv, Covered, Known
  <2> QED BY <2>1, <2>2, <2>3 DEF Evs
<1> QED BY <1>1, Invariant, PTL

\* The stream operations count every byte that their system calls move, once, and
\* move no more than the buffer has, until the peer closes.
THEOREM BytesAccounted == Spec => []Accounted
<1>1. IInv => Accounted
  BY DEF IInv, Counted
<1> QED BY <1>1, Invariant, PTL
=============================================================================
