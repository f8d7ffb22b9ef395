------------------------------- MODULE Dpbuf -------------------------------
(***************************************************************************)
(* Growable byte buffers (dpbuf.c) and the read-until operation on them    *)
(* (dpasc.c).  A buffer is four cursors on a counted storage:              *)
(*                                                                         *)
(*     0 .. rbeg   consumed    rbeg .. rend   readable                     *)
(*     rend .. wbeg   slack    wbeg .. size   writable                     *)
(*                                                                         *)
(* A storage's mem holds the bytes below the highest wbeg of its buffers;  *)
(* what is above was not written, and is junk when a cursor exposes it.    *)
(***************************************************************************)
EXTENDS Integers, Sequences, FiniteSets, SequencesExt

CONSTANTS Buf,       \* the buffers; a storage has the name of its first one
          Data,      \* the strings the user writes
          Modes,     \* dpbuf_new_d: "dup", "own", "const"
          Until,     \* the delimiter of read_until
          Batch,     \* DPAIO_BATCH_SIZE
          SSize,     \* DPBUF_S_SIZE: below this nothing is moved
          MaxSize,   \* DPBUF_MAX_SIZE, a power of two
          MaxLen,    \* bound of the model: bytes in a buffer
          Peers,     \* bound of the model: buffers only created, copied to or from, and deleted;
                     \* meanwhile the others are only read and copied
          PairLen,   \* bound of the model: bytes in a buffer while there is one of those
          Reads,     \* kinds of stream read_until is used on: "file", "socket"
          FullDet    \* readto into a buffer that cannot take it is explored

ASSUME SizeAssumption == /\ SSize \in Nat /\ Batch \in Nat \ {0}
                         /\ MaxSize \in Nat /\ MaxLen \in 0 .. MaxSize /\ PairLen \in 0 .. MaxLen

VARIABLES buf,     \* dpbuf_t by buffer, None when it is not initialised
          store,   \* dpbuf_data_t by name
          op       \* the pending or just finished read_until

vars == <<buf, store, op>>

None == [st |-> "none"]
Junk == "u"
Nul == "0"
Lf == "n"
Cr == "r"
Byte == {Junk, Nul, Lf, Cr}

ASSUME DataAssumption == Data \subseteq Seq(Byte) /\ Until \in Seq(Byte) /\ Until # <<>>

NoOp == [st |-> "idle"]

Free == [mem |-> <<>>, alloc |-> 0, maxs |-> 0, const |-> FALSE, refc |-> 0, oob |-> FALSE]

Live(b) == buf[b] # None

TypeOK ==
  /\ buf \in [Buf -> {None} \cup
       [st : Buf, rbeg : Int, rend : Int, wbeg : Int, size : Int, norec : BOOLEAN]]
  /\ store \in [Buf -> [mem : Seq(Byte), alloc : Nat, maxs : Nat, const : BOOLEAN,
                        refc : Nat, oob : BOOLEAN]]
  /\ op.st \in {"idle", "wait", "done"}

Init == /\ buf = [b \in Buf |-> None]
        /\ store = [b \in Buf |-> Free]
        /\ op = NoOp

------------------------------------------------------------------------------
(* Storage and cursor arithmetic, on x = [b |-> a buffer, s |-> its storage]. *)

Smaller(m, n) == IF m < n THEN m ELSE n
Larger(m, n) == IF m > n THEN m ELSE n

\* data[i] = '\0'
PutNul(s, i) == [s EXCEPT !.mem = IF i < Len(@) THEN [@ EXCEPT ![i + 1] = Nul] ELSE @,
                          !.oob = @ \/ i < 0 \/ i >= s.alloc]

\* _pow_min_value of n > 1, if it is allowed: the 15 bits below the highest bit of n - 1 are set
\* as well, then 1 is added.  Up to 2^16 that is the least power of two that is not below n.
PowMin(n) ==
  {p \in n .. MaxSize :
     \E k \in 0 .. 30 :
       LET low == IF k > 15 THEN 2^(k - 15) ELSE 1
       IN 2^k < n /\ n - 1 < 2 * 2^k /\ p = (2 * 2^k - low) + ((n - 1) % low) + 1}

Resize(x, size) ==
  LET fits == PowMin(size + 1)
      newsz == CHOOSE p \in fits : TRUE
  IN
  CASE size <= 0 -> [x |-> x, ok |-> FALSE]
    [] size > 0 /\ x.s.maxs > size ->
         [x |-> [b |-> [x.b EXCEPT !.size = size], s |-> PutNul(x.s, size)], ok |-> TRUE]
    [] size > 0 /\ x.s.maxs <= size /\ ~x.s.const /\ fits # {} ->
         [x |-> [b |-> [x.b EXCEPT !.size = size],
                 s |-> PutNul([x.s EXCEPT !.alloc = newsz, !.maxs = newsz], size)], ok |-> TRUE]
    [] OTHER -> [x |-> x, ok |-> FALSE]

\* Faulty variant: the cursors are shifted and the bytes are not
RecycleNoMove(x) ==
  LET n == x.b.rbeg IN
  IF n = x.b.wbeg \/ (n > SSize /\ x.s.maxs \div n < 4)
    THEN [b |-> [x.b EXCEPT !.rbeg = 0, !.rend = @ - n, !.wbeg = @ - n, !.size = @ - n],
          s |-> [x.s EXCEPT !.mem = SubSeq(@, 1, x.b.wbeg - n)]]
  ELSE x
\* _dpbuf_recycle_data
Recycle(x) ==
  LET n == x.b.rbeg
      moved == [x.b EXCEPT !.rbeg = 0, !.rend = @ - n, !.wbeg = @ - n, !.size = @ - n]
  IN IF n = x.b.wbeg
       THEN [b |-> moved, s |-> PutNul([x.s EXCEPT !.mem = <<>>], x.b.size - n)]
     ELSE IF n > SSize /\ x.s.maxs \div n < 4
       THEN [b |-> moved,
             s |-> PutNul([x.s EXCEPT !.mem = SubSeq(@, n + 1, x.b.wbeg)], x.b.size - n)]
     ELSE x

ResizeW(x, n) == LET y == IF x.b.norec THEN x ELSE Recycle(x) IN Resize(y, y.b.wbeg + n)

\* Faulty variant: one byte less than needed is enough
WCheckLess(x, n) == IF x.b.size - x.b.wbeg < n - 1 THEN ResizeW(x, n) ELSE [x |-> x, ok |-> TRUE]
\* _dpbuf_wcheck
WCheck(x, n) == IF x.b.size - x.b.wbeg < n THEN ResizeW(x, n) ELSE [x |-> x, ok |-> TRUE]

\* memcpy to wbeg, which moves behind it
Store(x, d) ==
  [b |-> [x.b EXCEPT !.wbeg = @ + Len(d)],
   s |-> [x.s EXCEPT !.mem = SubSeq(@, 1, x.b.wbeg) \o d,
                     !.oob = @ \/ x.b.wbeg + Len(d) > x.s.alloc]]

\* other cursors on the same storage
Seek(x, cursors) == [b |-> cursors, s |-> x.s]

\* bytes of the storage between two offsets
Span(x, i, j) == [k \in 1 .. Larger(j - i, 0) |->
                    IF i + k \in DOMAIN x.s.mem THEN x.s.mem[i + k] ELSE Junk]

Hits(text, left) ==
  {i \in left .. Len(text) - Len(Until) : SubSeq(text, i + 1, i + Len(Until)) = Until}

\* dpbuf_cfind from an offset of the readable part; -1 for its errors
CFind(x, left) ==
  LET text == Span(x, x.b.rbeg, x.b.rend) IN
  IF Hits(text, left) = {} THEN 0 - 1 ELSE CHOOSE i \in Hits(text, left) : \A j \in Hits(text, left) : i <= j

------------------------------------------------------------------------------
(* The API.  A buffer is used by one thread at a time, not while read_until *)
(* has it, and the buffers of a shared storage are only read.               *)

At(b) == [b |-> buf[b], s |-> store[buf[b].st]]

Usable(b) == Live(b) /\ (op.st # "idle" => op.b # b)

Writable(b) == Usable(b) /\ store[buf[b].st].refc = 1

Becomes(b, x) == /\ buf' = [buf EXCEPT ![b] = x.b]
                 /\ store' = [store EXCEPT ![x.b.st] = x.s]

Cursors(st, r, w, size) ==
  [st |-> st, rbeg |-> 0, rend |-> r, wbeg |-> w, size |-> size, norec |-> FALSE]

Idle(b) == ~Live(b) /\ op.st = "idle"

Alone == \A p \in Peers : ~Live(p)

Room == IF Alone THEN MaxLen ELSE PairLen

\* malloc: the name is the buffer's own unless a view still holds that storage
FreeStores(b) == IF store[b].refc = 0 THEN {b} ELSE {s \in Buf : store[s].refc = 0}

New(b, size) ==
  \E st \in FreeStores(b) :
                  /\ Idle(b)
                  /\ Becomes(b, [b |-> Cursors(st, 0, 0, size),
                                 s |-> [Free EXCEPT !.alloc = size + 1, !.maxs = size, !.refc = 1]])

NewD(b, d, mode, r) ==
  \E st \in FreeStores(b) :
    /\ Idle(b)
    /\ Becomes(b, [b |-> IF r THEN Cursors(st, Len(d), Len(d), Len(d)) ELSE Cursors(st, 0, 0, Len(d)),
                   s |-> [Free EXCEPT !.mem = IF r THEN d ELSE <<>>,
                                      !.alloc = IF mode = "dup" THEN Len(d) + 1 ELSE Len(d),
                                      !.maxs = Len(d), !.const = mode = "const", !.refc = 1]])

\* Faulty variant: the view is not counted
NewRUncounted(b, c) ==
  /\ Idle(b) /\ Live(c)
  /\ Becomes(b, [b |-> [buf[c] EXCEPT !.wbeg = buf[c].rend, !.size = buf[c].rend],
                 s |-> store[buf[c].st]])
\* a second view of the readable part: the storage is shared and counted
NewR(b, c) ==
  /\ Idle(b) /\ Live(c)
  /\ Becomes(b, [b |-> [buf[c] EXCEPT !.wbeg = buf[c].rend, !.size = buf[c].rend],
                 s |-> [store[buf[c].st] EXCEPT !.refc = @ + 1]])

\* dup_r copies the readable part, dup_e the slack
Dup(b, c, part) ==
  LET d == IF part = "r" THEN Span(At(c), buf[c].rbeg, buf[c].rend)
                         ELSE Span(At(c), buf[c].rend, buf[c].wbeg)
  IN Live(c) /\ (IF d = <<>> THEN New(b, 0) ELSE NewD(b, d, "dup", TRUE))

Del(b) ==
  LET s == store[buf[b].st] IN
  /\ Usable(b)
  /\ buf' = [buf EXCEPT ![b] = None]
  /\ store' = [store EXCEPT ![buf[b].st] = IF s.refc = 1 THEN [Free EXCEPT !.oob = s.oob]
                                           ELSE [s EXCEPT !.refc = @ - 1]]

SetRecycle(b) == /\ Usable(b)
                 /\ buf' = [buf EXCEPT ![b].norec = ~@]
                 /\ UNCHANGED store

\* dpbuf_recycle; its trailing _dpbuf_resize(self, 0) is refused
Compact(b, force) == /\ Writable(b) /\ (force \/ ~buf[b].norec)
                     /\ Becomes(b, Resize(Recycle(At(b)), 0).x)

Reset(b, mode) ==
  LET s == IF mode = "none" THEN 0 ELSE buf[b].size
      r == IF mode = "r" THEN s ELSE 0
  IN /\ Writable(b) /\ s <= Room
     /\ Becomes(b, [b |-> [buf[b] EXCEPT !.rbeg = 0, !.rend = r, !.wbeg = r, !.size = s],
                    s |-> [At(b).s EXCEPT !.mem = Span(At(b), 0, r)]])

\* seeks clamp, so an offset can reach every place of the range and no other
RSeek(b) == \E p \in 0 .. buf[b].rend :
              Usable(b) /\ Becomes(b, Seek(At(b), [buf[b] EXCEPT !.rbeg = p]))
ESeek(b) == \E p \in buf[b].rbeg .. buf[b].wbeg :
              Usable(b) /\ Becomes(b, Seek(At(b), [buf[b] EXCEPT !.rend = p]))
WSeek(b) == \E p \in buf[b].rend .. Smaller(buf[b].size, Room) :
              /\ Writable(b)
              /\ Becomes(b, [b |-> [buf[b] EXCEPT !.wbeg = p],
                             s |-> [At(b).s EXCEPT !.mem = Span(At(b), 0, p)]])

\* wdata, wfill and (with room for its NUL) wstrv
Write(b, d, room) ==
  LET c == WCheck(At(b), room) IN
  /\ Writable(b) /\ buf[b].wbeg + Len(d) <= Room
  /\ Becomes(b, IF c.ok THEN Store(c.x, d) ELSE c.x)

WData(b, d) == d # <<>> /\ Write(b, d, Len(d))
WFill(b) == Write(b, <<Nul>>, 1)
WStr(b, d) == d # <<>> /\ Write(b, d, Len(d) + 1)

\* Copy up to len readable bytes of c (x after the call, x.n what it returns)
WBuf(b, c, src, len) ==
  LET alen == src.rend - src.rbeg
      n == IF len <= 0 THEN alen ELSE Smaller(alen, len)
      w == WCheck(At(b), n)
      d == SubSeq(Span(At(c), src.rbeg, src.rend), 1, n)
  IN [x |-> IF w.ok THEN Store(w.x, d) ELSE w.x, n |-> IF w.ok THEN n ELSE 0 - 12]

Pair(b, c) == Writable(b) /\ Usable(c) /\ b # c /\ buf[b].st # buf[c].st

Both(b, x, c, y) == /\ buf' = [buf EXCEPT ![b] = x.b, ![c] = y]
                    /\ store' = [store EXCEPT ![x.b.st] = x.s]

WBufR(b, c, len, consume) ==
  LET w == WBuf(b, c, buf[c], len) IN
  /\ Pair(b, c) /\ w.x.b.wbeg <= Room
  /\ Both(b, w.x, c, [buf[c] EXCEPT !.rbeg = IF consume /\ w.n > 0 THEN @ + w.n ELSE @])

\* readto: the slack of c goes to b; the cursor arithmetic is the code's, also when wbuf failed
ReadTo(c, b, size) ==
  LET sz == buf[c].wbeg - buf[c].rend
      w == WBuf(b, c, [buf[c] EXCEPT !.rbeg = buf[c].rend, !.rend = buf[c].wbeg], size)
      r == buf[c].wbeg - (sz - w.n)
  IN /\ Pair(b, c)
     /\ w.x.b.wbeg <= Room
     /\ w.n >= 0 \/ FullDet
     /\ IF sz = 0 THEN UNCHANGED store /\ buf' = [buf EXCEPT ![c].rbeg = buf[c].rend]
        ELSE Both(b, Seek(w.x, [w.x.b EXCEPT !.rend = w.x.b.wbeg]),
                  c, [buf[c] EXCEPT !.rbeg = r, !.rend = r])

\* The read functions: the readable part is consumed, the next n bytes of slack become readable
Read(b, n) == /\ Usable(b)
              /\ Becomes(b, Seek(At(b), [buf[b] EXCEPT !.rbeg = buf[b].rend, !.rend = buf[b].rend + n]))

Slack(b) == Span(At(b), buf[b].rend, buf[b].wbeg)

Leading(text, S) == LET i == SelectInSeq(text, LAMBDA c : c \notin S)
                    IN IF i = 0 THEN Len(text) ELSE i - 1

\* rdata takes what there is of len bytes, rmust all of them or none
RData(b) == \E n \in 0 .. Len(Slack(b)) : Read(b, n)
RMust(b) == \E n \in 0 .. Len(Slack(b)) + 1 : Read(b, IF n > Len(Slack(b)) THEN 0 ELSE n)
RAll(b) == Read(b, Len(Slack(b)))
RWs(b) == Read(b, Leading(Slack(b), {Cr, Lf}))
RCstr(b) == LET n == Leading(Slack(b), Byte \ {Nul})
            IN Read(b, IF n > 0 /\ n < Len(Slack(b)) THEN n + 1 ELSE n)
RUntil(b) == LET i == CFind(Seek(At(b), [buf[b] EXCEPT !.rbeg = buf[b].rend, !.rend = buf[b].wbeg]), 0)
             IN Read(b, IF i < 0 THEN 0 ELSE i + Len(Until))

------------------------------------------------------------------------------
(* dpaio_read_until: io.flag counts the bytes already searched, io.total    *)
(* those this call has read.                                                *)

\* the delimiter was found at i: it ends the readable part
Found(x, i) == Seek(x, [x.b EXCEPT !.rend = x.b.rbeg + i + Len(Until)])

Finish(ret) == op' = [st |-> "done", b |-> op.b, ret |-> ret]

UntilPrep(b, kind, max) ==
  LET e == Seek(At(b), [buf[b] EXCEPT !.rend = buf[b].wbeg])
      more == Slack(b) # <<>>
      x == IF more THEN e ELSE At(b)
      i == IF more THEN CFind(e, 0) ELSE 0 - 1
      w == ResizeW(x, Smaller(max, Batch))
  IN /\ op.st = "idle" /\ Writable(b)
     /\ IF i >= 0
          THEN /\ Becomes(b, Found(x, i))
               /\ op' = [st |-> "done", b |-> b, ret |-> "found"]
        ELSE /\ Becomes(b, w.x)
             /\ op' = IF ~w.ok THEN [st |-> "done", b |-> b, ret |-> "error"]
                      ELSE [st |-> "wait", b |-> b, kind |-> kind, max |-> max, total |-> 0,
                            flag |-> IF more THEN x.b.rend - x.b.rbeg ELSE 0,
                            room |-> w.x.b.size - w.x.b.wbeg]

\* The stream's read: bytes, or end of stream or an error (among them EAGAIN after a wake-up
\* for nothing).  recv takes io.flag for its flags; bit 0 is MSG_OOB, an error here.
Received == IF op.kind = "socket" /\ op.flag % 2 = 1 THEN {<<>>}
            ELSE UNION {[1 .. n -> {Cr, Lf}] : n \in 0 .. op.room}

\* Faulty variant: a delimiter that straddles two reads
ScanFromFlag == op.flag
\* where the search goes on: a delimiter may begin in what was searched
ScanFrom == Larger(0, op.flag - Len(Until) + 1)

UntilPost(d) ==
  LET x == Store(At(op.b), d)
      y == Seek(x, [x.b EXCEPT !.rend = x.b.wbeg])
      total == op.total + Len(d)
      i == CFind(y, ScanFrom)
      w == ResizeW(y, Smaller(op.max - total, Batch))
  IN /\ buf[op.b].wbeg + Len(d) <= Room
     /\ IF d = <<>>
          THEN UNCHANGED <<buf, store>> /\ Finish(IF op.total > 0 THEN "short" ELSE "error")
        ELSE IF i >= 0
          THEN Becomes(op.b, Found(y, i)) /\ Finish("found")
        ELSE IF total >= op.max
          THEN Becomes(op.b, y) /\ Finish("continue")
        ELSE /\ Becomes(op.b, w.x)
             /\ IF w.ok THEN op' = [op EXCEPT !.total = total, !.flag = total,
                                              !.room = w.x.b.size - w.x.b.wbeg]
                ELSE Finish("short")

UntilReturn == op.st = "done" /\ op' = NoOp /\ UNCHANGED <<buf, store>>

Create(b) == /\ b \notin Peers
             /\ New(b, 2) \/ \E d \in Data, m \in Modes, r \in BOOLEAN : NewD(b, d, m, r)

CreatePeer(b) == /\ b \in Peers
                 /\ \A c \in Buf : Live(c) => buf[c].wbeg <= PairLen
                 /\ \/ New(b, 0)
                    \/ \E c \in Buf \ {b} : NewR(b, c) \/ \E p \in {"r", "e"} : Dup(b, c, p)

Copy(b) == \E c \in Buf, n \in {0, 1} :
             WBufR(b, c, n, TRUE) \/ WBufR(b, c, n, FALSE) \/ ReadTo(c, b, n)

Edit(b) == \/ SetRecycle(b) \/ RSeek(b) \/ ESeek(b) \/ WSeek(b) \/ WFill(b)
           \/ \E f \in BOOLEAN : Compact(b, f)
           \/ \E m \in {"r", "w", "none"} : Reset(b, m)
           \/ \E d \in Data : WData(b, d) \/ WStr(b, d)

Fetch(b) == RData(b) \/ RMust(b) \/ RAll(b) \/ RWs(b) \/ RCstr(b) \/ RUntil(b)

Next == \/ \E b \in Buf : UNCHANGED op /\ (Create(b) \/ CreatePeer(b) \/ (Live(b) /\ (Del(b) \/ Copy(b))))
        \/ \E b \in Buf \ Peers : UNCHANGED op /\ Live(b) /\ (Fetch(b) \/ (Alone /\ Edit(b)))
        \/ \E b \in Buf \ Peers, k \in Reads, m \in {1, Batch + 1} : Alone /\ UntilPrep(b, k, m)
        \/ op.st = "wait" /\ \E d \in Received : UntilPost(d)
        \/ UntilReturn

Spec == Init /\ [][Next]_vars

------------------------------------------------------------------------------
(* Properties *)

\* Cursors stay in order and inside the allocation, and no byte, the terminating NUL of every
\* resize and compaction included, is stored outside it.
InStorage ==
  /\ TypeOK
  /\ \A b \in Buf : Live(b) =>
       /\ 0 <= buf[b].rbeg /\ buf[b].rbeg <= buf[b].rend /\ buf[b].rend <= buf[b].wbeg
       /\ buf[b].wbeg <= buf[b].size /\ buf[b].size <= store[buf[b].st].alloc
  /\ \A s \in Buf : ~store[s].oob

\* A storage lives exactly as long as some buffer or view uses it, however they are created
\* and deleted (_dpbuf_data_ref, _dpbuf_data_del).
RefCounted == \A s \in Buf : store[s].refc = Cardinality({b \in Buf : Live(b) /\ buf[b].st = s})

\* Growing, shrinking and compacting never lose, invent or reorder a byte: for its user every
\* buffer is a text with two cuts, to whose end bytes are added.
Abstract == INSTANCE ByteWindow WITH
  Bytes <- Byte,
  live <- [b \in Buf |-> Live(b)],
  past <- [b \in Buf |-> IF Live(b) THEN Span(At(b), 0, buf[b].rbeg) ELSE <<>>],
  read <- [b \in Buf |-> IF Live(b) THEN Span(At(b), buf[b].rbeg, buf[b].rend) ELSE <<>>],
  slack <- [b \in Buf |-> IF Live(b) THEN Span(At(b), buf[b].rend, buf[b].wbeg) ELSE <<>>]

ImplementsWindow == Abstract!Spec

\* However the delimiter is split over reads and wherever compaction moves the bytes, read_until
\* ends the readable part behind its first occurrence and never searches past one.
StopsAtFirst ==
  op.st = "done" =>
    LET x == At(op.b)
        rest == Span(x, x.b.rbeg, x.b.wbeg)
    IN IF op.ret = "found" THEN \E i \in Hits(rest, 0) : /\ x.b.rend = x.b.rbeg + i + Len(Until)
                                                         /\ \A j \in Hits(rest, 0) : i <= j
       ELSE op.ret # "error" => Hits(rest, 0) = {}

\* dpasc.h:295: read_until ends at the delimiter, or says DPE_CONTINUE.  A count without the
\* delimiter is neither.
FoundOrContinue == op.st = "done" => op.ret # "short"
=============================================================================
