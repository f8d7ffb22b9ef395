----------------------------- MODULE DpbufProofs -----------------------------
(****************************************************************************)
(* Proofs about buffers (Dpbuf), for any buffers, sizes and texts: storages *)
(* are counted right, nothing is stored outside an allocation, read_until   *)
(* ends at the first delimiter, and every buffer implements ByteWindow.     *)
(****************************************************************************)
EXTENDS Dpbuf, FiniteSetTheorems, SequenceTheorems, WellFoundedInduction, TLAPS

BufFields == {"st", "rbeg", "rend", "wbeg", "size", "norec"}
StFields == {"mem", "alloc", "maxs", "const", "refc", "oob"}

(* A storage is counted once for each of its users.                        *)
Users(s) == {b \in Buf : Live(b) /\ buf[b].st = s}
Counted == \A s \in Buf : IsFiniteSet(Users(s)) /\ store[s].refc = Cardinality(Users(s))

Shaped ==
  /\ DOMAIN buf = Buf /\ DOMAIN store = Buf
  /\ \A b \in Buf : Live(b) => DOMAIN buf[b] = BufFields /\ buf[b].st \in Buf
  /\ \A s \in Buf : DOMAIN store[s] = StFields

CInv == Shaped /\ Counted

(* read_until has a buffer to work on.                                     *)
Held == op.st = "wait" => /\ op.b \in Buf /\ Live(op.b)
                          /\ DOMAIN op = {"st", "b", "kind", "max", "total", "flag", "room"}

-----------------------------------------------------------------------------
BufRec == [st : Buf, rbeg : Int, rend : Int, wbeg : Int, size : Int, norec : BOOLEAN]
StRec == [mem : Seq(Byte), alloc : Nat, maxs : Nat, const : BOOLEAN, refc : Nat, oob : BOOLEAN]
WaitRec == [st : {"wait"}, b : Buf, kind : Reads, max : Nat, total : Nat, flag : Int, room : Int]

(* A buffer and its storage: the bytes up to wbeg are there, and behind     *)
(* data[size - 1] there is room for the NUL.                                *)
Within(k, s) ==
  /\ 0 <= k.rbeg /\ k.rbeg <= k.rend /\ k.rend <= k.wbeg /\ k.wbeg <= k.size
  /\ k.size < s.alloc /\ k.wbeg <= Len(s.mem)

Sound(s) == s \in StRec /\ s.maxs <= s.alloc /\ ~s.oob

Stored ==
  /\ buf \in [Buf -> {None} \cup BufRec] /\ store \in [Buf -> StRec]
  /\ \A b \in Buf : Live(b) => Within(buf[b], store[buf[b].st])
  /\ \A s \in Buf : Sound(store[s])

(* read_until is alone on its storage and knows how much fits into it.      *)
Waits ==
  /\ op.st \in {"idle", "wait", "done"}
  /\ op.st = "wait" =>
       /\ op \in WaitRec /\ store[buf[op.b].st].refc = 1
       /\ op.room = buf[op.b].size - buf[op.b].wbeg
       /\ op.total < op.max

BInv == CInv /\ Held /\ Stored /\ Waits

-----------------------------------------------------------------------------
(* References.  What the helpers do to a buffer and its storage leaves the  *)
(* count and the storage's name alone.                                      *)

Rec(x) == DOMAIN x.b = BufFields /\ DOMAIN x.s = StFields
Same(x, y) == Rec(y) /\ y.b.st = x.b.st /\ y.s.refc = x.s.refc

LEMMA PutNulSame ==
  ASSUME NEW s, DOMAIN s = StFields, NEW i
  PROVE  DOMAIN PutNul(s, i) = StFields /\ PutNul(s, i).refc = s.refc
BY DEF PutNul, StFields

LEMMA ResizeSame ==
  ASSUME NEW x, Rec(x), NEW size
  PROVE  Same(x, Resize(x, size).x)
<1> DEFINE newsz == CHOOSE p \in PowMin(size + 1) : TRUE
           k == [x.b EXCEPT !.size = size]
           s == [x.s EXCEPT !.alloc = newsz, !.maxs = newsz]
<1>1. DOMAIN k = BufFields /\ k.st = x.b.st
  BY DEF Rec, BufFields
<1>2. DOMAIN s = StFields /\ s.refc = x.s.refc
  BY DEF Rec, StFields
<1>3. DOMAIN PutNul(x.s, size) = StFields /\ PutNul(x.s, size).refc = x.s.refc
  BY PutNulSame DEF Rec
<1>4. DOMAIN PutNul(s, size) = StFields /\ PutNul(s, size).refc = x.s.refc
  <2> HIDE DEF s
  <2> QED BY <1>2, PutNulSame
<1>5. \/ Resize(x, size).x = x
      \/ Resize(x, size).x = [b |-> k, s |-> PutNul(x.s, size)]
      \/ Resize(x, size).x = [b |-> k, s |-> PutNul(s, size)]
  BY DEF Resize
<1> HIDE DEF k, s
<1> QED BY <1>1, <1>3, <1>4, <1>5 DEF Same, Rec

LEMMA RecycleSame ==
  ASSUME NEW x, Rec(x)
  PROVE  Same(x, Recycle(x))
<1> DEFINE n == x.b.rbeg
           k == [x.b EXCEPT !.rbeg = 0, !.rend = @ - n, !.wbeg = @ - n, !.size = @ - n]
           s1 == [x.s EXCEPT !.mem = <<>>]
           s2 == [x.s EXCEPT !.mem = SubSeq(@, n + 1, x.b.wbeg)]
           i == x.b.size - n
<1>1. DOMAIN k = BufFields /\ k.st = x.b.st
  BY DEF Rec, BufFields
<1>2. DOMAIN s1 = StFields /\ s1.refc = x.s.refc /\ DOMAIN s2 = StFields /\ s2.refc = x.s.refc
  BY DEF Rec, StFields
<1>3. \/ Recycle(x) = x
      \/ Recycle(x) = [b |-> k, s |-> PutNul(s1, i)]
      \/ Recycle(x) = [b |-> k, s |-> PutNul(s2, i)]
  BY DEF Recycle
<1> HIDE DEF k, s1, s2, i
<1>4. DOMAIN PutNul(s1, i) = StFields /\ PutNul(s1, i).refc = x.s.refc
  BY <1>2, PutNulSame
<1>5. DOMAIN PutNul(s2, i) = StFields /\ PutNul(s2, i).refc = x.s.refc
  BY <1>2, PutNulSame
<1> QED BY <1>1, <1>3, <1>4, <1>5 DEF Same, Rec

LEMMA ResizeWSame ==
  ASSUME NEW x, Rec(x), NEW n
  PROVE  Same(x, ResizeW(x, n).x) /\ Same(x, WCheck(x, n).x)
<1> DEFINE y == IF x.b.norec THEN x ELSE Recycle(x)
           m == y.b.wbeg + n
<1>1. Same(x, y)
  BY RecycleSame DEF Same
<1>2. ResizeW(x, n) = Resize(y, m)
  BY DEF ResizeW
<1> HIDE DEF y, m
<1>3. Same(y, Resize(y, m).x)
  BY <1>1, ResizeSame DEF Same
<1>4. Same(x, ResizeW(x, n).x)
  BY <1>1, <1>2, <1>3 DEF Same
<1>5. WCheck(x, n).x = ResizeW(x, n).x \/ WCheck(x, n).x = x
  BY DEF WCheck
<1> QED BY <1>4, <1>5 DEF Same

LEMMA StoreSame ==
  ASSUME NEW x, Rec(x), NEW d
  PROVE  Same(x, Store(x, d))
<1> DEFINE k == [x.b EXCEPT !.wbeg = @ + Len(d)]
           s == [x.s EXCEPT !.mem = SubSeq(@, 1, x.b.wbeg) \o d,
                            !.oob = @ \/ x.b.wbeg + Len(d) > x.s.alloc]
<1>1. DOMAIN k = BufFields /\ k.st = x.b.st
  BY DEF Rec, BufFields
<1>2. DOMAIN s = StFields /\ s.refc = x.s.refc
  BY DEF Rec, StFields
<1>3. Store(x, d) = [b |-> k, s |-> s]
  BY DEF Store
<1> HIDE DEF k, s
<1> QED BY <1>1, <1>2, <1>3 DEF Same, Rec

LEMMA NoneShape == DOMAIN None # BufFields
<1>1. "rbeg" \notin DOMAIN None
  BY DEF None
<1> QED BY <1>1 DEF BufFields

(* No buffer is created or deleted, and no storage changes hands.           *)
Kept == /\ CInv' /\ \A b \in Buf : Live(b)' <=> Live(b)
        /\ \A b \in Buf : Live(b) => buf'[b].st = buf[b].st
        /\ \A s \in Buf : store'[s].refc = store[s].refc

LEMMA SameUsers ==
  ASSUME CInv, Shaped',
         \A b \in Buf : Live(b)' <=> Live(b),
         \A b \in Buf : Live(b) => buf'[b].st = buf[b].st,
         \A s \in Buf : store'[s].refc = store[s].refc
  PROVE  Kept
<1>1. \A s \in Buf : Users(s)' = Users(s)
  BY DEF Users
<1> QED BY <1>1 DEF CInv, Counted, Kept

LEMMA BothSame ==
  ASSUME CInv, NEW b \in Buf, NEW c \in Buf, Live(b), Live(c), NEW x, NEW y,
         Same(At(b), x), DOMAIN y = BufFields, y.st = buf[c].st, Both(b, x, c, y)
  PROVE  Kept
<1>1. x.b.st = buf[b].st /\ x.s.refc = store[buf[b].st].refc /\ Rec(x) /\ buf[b].st \in Buf
  BY DEF CInv, Shaped, Same, At
<1>2. /\ DOMAIN buf' = Buf /\ \A a \in Buf : a # b /\ a # c => buf'[a] = buf[a]
      /\ buf'[c] = y /\ (b # c => buf'[b] = x.b)
  BY DEF Both, CInv, Shaped
<1>3. /\ DOMAIN store' = Buf /\ \A s \in Buf : s # buf[b].st => store'[s] = store[s]
      /\ store'[buf[b].st] = x.s
  BY <1>1 DEF Both, CInv, Shaped
<1>4. \A a \in Buf : Live(a)' <=> Live(a)
  BY <1>1, <1>2, NoneShape DEF Live, Rec
<1>5. \A a \in Buf : Live(a) => buf'[a].st = buf[a].st /\ DOMAIN buf'[a] = BufFields
  BY <1>1, <1>2 DEF Rec, CInv, Shaped
<1>6. \A s \in Buf : store'[s].refc = store[s].refc /\ DOMAIN store'[s] = StFields
  BY <1>1, <1>3 DEF Rec, CInv, Shaped
<1>7. Shaped'
  BY <1>2, <1>3, <1>4, <1>5, <1>6 DEF Shaped, CInv
<1> QED BY <1>4, <1>5, <1>6, <1>7, SameUsers

LEMMA BecomesSame ==
  ASSUME CInv, NEW b \in Buf, Live(b), NEW x, Same(At(b), x), Becomes(b, x)
  PROVE  Kept
<1>1. DOMAIN x.b = BufFields /\ x.b.st = buf[b].st
  BY DEF Same, Rec, At
<1>2. Both(b, x, b, x.b)
  BY <1>1 DEF Becomes, Both, CInv, Shaped
<1> QED BY <1>1, <1>2, BothSame

LEMMA AtRec ==
  ASSUME CInv, NEW b \in Buf, Live(b)
  PROVE  Rec(At(b)) /\ Same(At(b), At(b)) /\ At(b).b = buf[b] /\ At(b).s = store[buf[b].st]
BY DEF CInv, Shaped, Rec, Same, At

-----------------------------------------------------------------------------
(* Cursor moves, reads and writes.                                         *)

LEMMA SeekSame ==
  ASSUME NEW x, Rec(x), NEW k, DOMAIN k = BufFields, k.st = x.b.st
  PROVE  Same(x, Seek(x, k))
BY DEF Same, Rec, Seek

LEMMA SeekStep ==
  ASSUME CInv, NEW b \in Buf, Live(b), NEW k, DOMAIN k = BufFields, k.st = buf[b].st,
         Becomes(b, Seek(At(b), k))
  PROVE  Kept
<1>1. Same(At(b), Seek(At(b), k))
  BY AtRec, SeekSame
<1> DEFINE x == Seek(At(b), k)
<1> HIDE DEF x
<1>2. Becomes(b, x) /\ Same(At(b), x)
  BY <1>1 DEF x
<1> QED BY <1>2, BecomesSame

LEMMA EditSame ==
  ASSUME CInv, NEW b \in Buf, Live(b), Edit(b) \/ Fetch(b)
  PROVE  Kept
<1> USE AtRec
<1>0. DOMAIN buf[b] = BufFields /\ buf[b].st \in Buf
  BY DEF CInv, Shaped
<1>1. CASE SetRecycle(b)
  <2>1. /\ buf' = [buf EXCEPT ![b] = [buf[b] EXCEPT !.norec = ~buf[b].norec]]
        /\ store' = store
    BY <1>1 DEF SetRecycle
  <2>2. DOMAIN [buf[b] EXCEPT !.norec = ~buf[b].norec] = BufFields
        /\ [buf[b] EXCEPT !.norec = ~buf[b].norec].st = buf[b].st
    BY <1>0 DEF BufFields
  <2>3. /\ DOMAIN buf' = Buf /\ DOMAIN buf'[b] = BufFields /\ buf'[b].st = buf[b].st
        /\ \A a \in Buf : a # b => buf'[a] = buf[a]
    BY <2>1, <2>2 DEF CInv, Shaped
  <2>4. \A a \in Buf : Live(a)' <=> Live(a)
    BY <2>3, NoneShape DEF Live
  <2>5. Shaped'
    BY <1>0, <2>1, <2>3, <2>4 DEF CInv, Shaped
  <2> QED BY <2>1, <2>3, <2>4, <2>5, SameUsers
<1>2. CASE RSeek(b)
  <2>1. PICK p : Becomes(b, Seek(At(b), [buf[b] EXCEPT !.rbeg = p]))
    BY <1>2 DEF RSeek
  <2>2. DOMAIN [buf[b] EXCEPT !.rbeg = p] = BufFields /\ [buf[b] EXCEPT !.rbeg = p].st = buf[b].st
    BY <1>0 DEF BufFields
  <2> QED BY <2>1, <2>2, SeekStep
<1>3. CASE ESeek(b)
  <2>1. PICK p : Becomes(b, Seek(At(b), [buf[b] EXCEPT !.rend = p]))
    BY <1>3 DEF ESeek
  <2>2. DOMAIN [buf[b] EXCEPT !.rend = p] = BufFields /\ [buf[b] EXCEPT !.rend = p].st = buf[b].st
    BY <1>0 DEF BufFields
  <2> QED BY <2>1, <2>2, SeekStep
<1>4. CASE WSeek(b)
  <2>1. PICK p : Becomes(b, [b |-> [buf[b] EXCEPT !.wbeg = p],
                             s |-> [At(b).s EXCEPT !.mem = Span(At(b), 0, p)]])
    BY <1>4 DEF WSeek
  <2> DEFINE x == [b |-> [buf[b] EXCEPT !.wbeg = p], s |-> [At(b).s EXCEPT !.mem = Span(At(b), 0, p)]]
  <2>2. DOMAIN x.b = BufFields /\ x.b.st = buf[b].st
    BY <1>0 DEF BufFields
  <2>3. DOMAIN x.s = StFields /\ x.s.refc = At(b).s.refc
    BY <1>0 DEF Rec, StFields
  <2>4. Becomes(b, x)
    BY <2>1
  <2> HIDE DEF x
  <2>5. Same(At(b), x)
    BY <2>2, <2>3 DEF Same, Rec
  <2> QED BY <2>4, <2>5, BecomesSame
<1>5. ASSUME NEW d, NEW n, Write(b, d, n) PROVE Kept
  <2> DEFINE c == WCheck(At(b), n)
             x == IF c.ok THEN Store(c.x, d) ELSE c.x
  <2>1. Same(At(b), c.x)
    BY ResizeWSame
  <2>2. Becomes(b, x)
    BY <1>5 DEF Write
  <2>3. Same(At(b), x)
    <3> HIDE DEF c
    <3>1. Same(c.x, Store(c.x, d))
      BY <2>1, StoreSame DEF Same
    <3> QED BY <2>1, <3>1 DEF Same
  <2> HIDE DEF x
  <2> QED BY <2>2, <2>3, BecomesSame
<1>6. ASSUME NEW f, Compact(b, f) PROVE Kept
  <2> DEFINE r == Recycle(At(b))
             z == Resize(r, 0).x
  <2>1. Same(At(b), r)
    BY RecycleSame
  <2>2. Becomes(b, z)
    BY <1>6 DEF Compact
  <2>3. Same(At(b), z)
    <3> HIDE DEF r
    <3>1. PICK n : n = 0
      OBVIOUS
    <3>2. Same(r, Resize(r, n).x)
      BY <2>1, ResizeSame DEF Same
    <3> QED BY <2>1, <3>1, <3>2 DEF Same
  <2> HIDE DEF z
  <2> QED BY <2>2, <2>3, BecomesSame
<1>7. ASSUME NEW m, Reset(b, m) PROVE Kept
  <2>1. PICK r, s : Becomes(b, [b |-> [buf[b] EXCEPT !.rbeg = 0, !.rend = r, !.wbeg = r, !.size = s],
                                s |-> [At(b).s EXCEPT !.mem = Span(At(b), 0, r)]])
    BY <1>7 DEF Reset
  <2> DEFINE x == [b |-> [buf[b] EXCEPT !.rbeg = 0, !.rend = r, !.wbeg = r, !.size = s],
                   s |-> [At(b).s EXCEPT !.mem = Span(At(b), 0, r)]]
  <2>2. DOMAIN x.b = BufFields /\ x.b.st = buf[b].st
    BY <1>0 DEF BufFields
  <2>3. DOMAIN x.s = StFields /\ x.s.refc = At(b).s.refc
    BY <1>0 DEF Rec, StFields
  <2>4. Becomes(b, x)
    BY <2>1
  <2> HIDE DEF x
  <2>5. Same(At(b), x)
    BY <2>2, <2>3 DEF Same, Rec
  <2> QED BY <2>4, <2>5, BecomesSame
<1>8. ASSUME NEW n, Read(b, n) PROVE Kept
  <2> DEFINE k == [buf[b] EXCEPT !.rbeg = buf[b].rend, !.rend = buf[b].rend + n]
  <2>1. Becomes(b, Seek(At(b), k))
    BY <1>8 DEF Read
  <2>2. DOMAIN k = BufFields /\ k.st = buf[b].st
    BY <1>0 DEF BufFields
  <2> HIDE DEF k
  <2> QED BY <2>1, <2>2, SeekStep
<1>9. CASE Fetch(b)
  BY <1>8, <1>9 DEF Fetch, RData, RMust, RAll, RWs, RCstr, RUntil
<1>10. CASE Edit(b)
  <2>1. \/ SetRecycle(b) \/ RSeek(b) \/ ESeek(b) \/ WSeek(b)
        \/ \E d, n : Write(b, d, n) \/ \E f : Compact(b, f) \/ \E m : Reset(b, m)
    BY <1>10 DEF Edit, WFill, WData, WStr
  <2> QED BY <1>1, <1>2, <1>3, <1>4, <1>5, <1>6, <1>7, <2>1
<1> QED BY <1>9, <1>10

-----------------------------------------------------------------------------
(* Copies between buffers, and read_until.                                 *)

LEMMA CopySame ==
  ASSUME CInv, NEW b \in Buf, Copy(b)
  PROVE  Kept
<1> USE AtRec
<1>1. PICK c \in Buf, n \in {0, 1} : WBufR(b, c, n, TRUE) \/ WBufR(b, c, n, FALSE) \/ ReadTo(c, b, n)
  BY DEF Copy
<1>2. Live(b) /\ Live(c) /\ b # c
  BY <1>1 DEF WBufR, ReadTo, Pair, Writable, Usable
<1>3. DOMAIN buf[c] = BufFields /\ buf[c].st \in Buf
  BY <1>2 DEF CInv, Shaped
<1>4. ASSUME NEW src PROVE Same(At(b), WBuf(b, c, src, n).x)
  <2>1. PICK d, m : WBuf(b, c, src, n).x = IF WCheck(At(b), m).ok THEN Store(WCheck(At(b), m).x, d)
                                           ELSE WCheck(At(b), m).x
    BY DEF WBuf
  <2> DEFINE y == WCheck(At(b), m).x
  <2>2. Same(At(b), y)
    BY <1>2, ResizeWSame
  <2>3. WBuf(b, c, src, n).x = Store(y, d) \/ WBuf(b, c, src, n).x = y
    BY <2>1
  <2> HIDE DEF y
  <2>4. Same(y, Store(y, d))
    BY <2>2, StoreSame DEF Same
  <2> QED BY <2>2, <2>3, <2>4 DEF Same
<1>5. ASSUME NEW f, WBufR(b, c, n, f) PROVE Kept
  <2>1. PICK p : Both(b, WBuf(b, c, buf[c], n).x, c, [buf[c] EXCEPT !.rbeg = p])
    BY <1>5 DEF WBufR
  <2> DEFINE x == WBuf(b, c, buf[c], n).x
             k == [buf[c] EXCEPT !.rbeg = p]
  <2>2. DOMAIN k = BufFields /\ k.st = buf[c].st
    BY <1>3 DEF BufFields
  <2>3. Same(At(b), x) /\ Both(b, x, c, k)
    BY <1>4, <2>1
  <2> HIDE DEF x, k
  <2> QED BY <1>2, <2>2, <2>3, BothSame
<1>6. CASE ReadTo(c, b, n)
  <2> DEFINE src == [buf[c] EXCEPT !.rbeg = buf[c].rend, !.rend = buf[c].wbeg]
             w == WBuf(b, c, src, n)
             x == Seek(w.x, [w.x.b EXCEPT !.rend = w.x.b.wbeg])
  <2>1. CASE buf[c].wbeg - buf[c].rend = 0
    <3> DEFINE k == [buf[c] EXCEPT !.rbeg = buf[c].rend]
    <3>1. buf' = [buf EXCEPT ![c] = k] /\ store' = store
      BY <1>6, <2>1 DEF ReadTo
    <3>2. DOMAIN k = BufFields /\ k.st = buf[c].st
      BY <1>3 DEF BufFields
    <3> HIDE DEF k
    <3>3. /\ DOMAIN buf' = Buf /\ DOMAIN buf'[c] = BufFields /\ buf'[c].st = buf[c].st
          /\ \A a \in Buf : a # c => buf'[a] = buf[a]
      BY <3>1, <3>2 DEF CInv, Shaped
    <3>4. \A a \in Buf : Live(a)' <=> Live(a)
      BY <1>2, <3>3, NoneShape DEF Live
    <3>5. Shaped'
      BY <1>3, <3>1, <3>3, <3>4 DEF CInv, Shaped
    <3> QED BY <3>1, <3>3, <3>4, <3>5, SameUsers
  <2>2. CASE buf[c].wbeg - buf[c].rend # 0
    <3>1. PICK r : Both(b, x, c, [buf[c] EXCEPT !.rbeg = r, !.rend = r])
      BY <1>6, <2>2 DEF ReadTo
    <3> DEFINE k == [buf[c] EXCEPT !.rbeg = r, !.rend = r]
    <3>2. DOMAIN k = BufFields /\ k.st = buf[c].st
      BY <1>3 DEF BufFields
    <3>3. Same(At(b), w.x)
      <4> HIDE DEF src
      <4> QED BY <1>4
    <3>4. Same(At(b), x)
      <4> HIDE DEF w
      <4>1. DOMAIN [w.x.b EXCEPT !.rend = w.x.b.wbeg] = BufFields
            /\ [w.x.b EXCEPT !.rend = w.x.b.wbeg].st = w.x.b.st
        BY <3>3 DEF Same, Rec, BufFields
      <4> QED BY <3>3, <4>1, SeekSame DEF Same
    <3>5. Both(b, x, c, k)
      BY <3>1
    <3> HIDE DEF x, k
    <3> QED BY <1>2, <3>2, <3>4, <3>5, BothSame
  <2> QED BY <2>1, <2>2
<1> QED BY <1>1, <1>5, <1>6

LEMMA FoundSame ==
  ASSUME NEW x, Rec(x), NEW i
  PROVE  Same(x, Found(x, i)) /\ Same(x, Seek(x, [x.b EXCEPT !.rend = x.b.wbeg]))
<1>1. \A p : /\ DOMAIN [x.b EXCEPT !.rend = p] = BufFields
             /\ [x.b EXCEPT !.rend = p].st = x.b.st
  BY DEF Rec, BufFields
<1>2. \A p : Same(x, Seek(x, [x.b EXCEPT !.rend = p]))
  BY <1>1 DEF Same, Rec, Seek
<1> QED BY <1>2 DEF Found

LEMMA UntilSame ==
  ASSUME CInv,
         \/ \E b \in Buf : \E k, m : UntilPrep(b, k, m)
         \/ op.b \in Buf /\ Live(op.b) /\ \E d : UntilPost(d)
         \/ UntilReturn
  PROVE  Kept
<1> USE AtRec
<1>1. CASE UntilReturn
  BY <1>1 DEF UntilReturn, CInv, Shaped, Counted, Users, Live, Kept
<1>2. ASSUME NEW b \in Buf, NEW k, NEW m, UntilPrep(b, k, m) PROVE Kept
  <2>1. Live(b)
    BY <1>2 DEF UntilPrep, Writable, Usable
  <2>2. PICK x, i, n : /\ x = At(b) \/ x = Seek(At(b), [buf[b] EXCEPT !.rend = buf[b].wbeg])
                       /\ Becomes(b, Found(x, i)) \/ Becomes(b, ResizeW(x, n).x)
    BY <1>2 DEF UntilPrep
  <2>3. Same(At(b), x)
    <3>1. Same(At(b), Seek(At(b), [At(b).b EXCEPT !.rend = At(b).b.wbeg]))
      BY <2>1, FoundSame
    <3> QED BY <2>1, <2>2, <3>1
  <2>4. Same(At(b), Found(x, i)) /\ Same(At(b), ResizeW(x, n).x)
    <3>1. Same(x, Found(x, i))
      BY <2>3, FoundSame DEF Same
    <3>2. Same(x, ResizeW(x, n).x)
      BY <2>3, ResizeWSame DEF Same
    <3> QED BY <2>3, <3>1, <3>2 DEF Same
  <2>5. CASE Becomes(b, Found(x, i))
    BY <2>1, <2>4, <2>5, BecomesSame
  <2>6. CASE Becomes(b, ResizeW(x, n).x)
    <3> DEFINE y == ResizeW(x, n).x
    <3>1. Becomes(b, y) /\ Same(At(b), y)
      BY <2>4, <2>6
    <3> HIDE DEF y
    <3> QED BY <2>1, <3>1, BecomesSame
  <2> QED BY <2>2, <2>5, <2>6
<1>3. ASSUME op.b \in Buf, Live(op.b), NEW d, UntilPost(d) PROVE Kept
  <2>1. PICK b \in Buf : b = op.b
    BY <1>3
  <2> DEFINE x == Store(At(b), d)
             y == Seek(x, [x.b EXCEPT !.rend = x.b.wbeg])
  <2>2. \/ UNCHANGED <<buf, store>>
        \/ \E i : Becomes(b, Found(y, i)) \/ Becomes(b, y) \/ \E n : Becomes(b, ResizeW(y, n).x)
    BY <1>3, <2>1 DEF UntilPost
  <2>3. Same(At(b), y)
    <3>1. Same(At(b), x)
      BY <1>3, <2>1, StoreSame
    <3> HIDE DEF x
    <3>2. Same(x, y)
      BY <3>1, FoundSame DEF Same
    <3> HIDE DEF y
    <3> QED BY <3>1, <3>2 DEF Same
  <2> HIDE DEF y
  <2>4. CASE UNCHANGED <<buf, store>>
    BY <2>4 DEF CInv, Shaped, Counted, Users, Live, Kept
  <2>5. ASSUME NEW i, Becomes(b, Found(y, i)) PROVE Kept
    <3>1. Same(y, Found(y, i))
      BY <2>3, FoundSame DEF Same
    <3>2. Same(At(b), Found(y, i))
      BY <2>3, <3>1 DEF Same
    <3> QED BY <1>3, <2>1, <2>5, <3>2, BecomesSame
  <2>6. CASE Becomes(b, y)
    BY <1>3, <2>1, <2>3, <2>6, BecomesSame
  <2>7. ASSUME NEW n, Becomes(b, ResizeW(y, n).x) PROVE Kept
    <3> DEFINE z == ResizeW(y, n).x
    <3>1. Same(y, z)
      BY <2>3, ResizeWSame DEF Same
    <3>2. Same(At(b), z) /\ Becomes(b, z)
      BY <2>3, <2>7, <3>1 DEF Same
    <3> HIDE DEF z
    <3> QED BY <1>3, <2>1, <3>2, BecomesSame
  <2> QED BY <2>2, <2>4, <2>5, <2>6, <2>7
<1> QED BY <1>1, <1>2, <1>3

-----------------------------------------------------------------------------
(* Creation and deletion.                                                  *)

LEMMA FreshStep ==
  ASSUME CInv, NEW b \in Buf, ~Live(b), NEW st \in FreeStores(b), NEW x, Rec(x),
         x.b.st = st, x.s.refc = 1, Becomes(b, x)
  PROVE  CInv'
<1>1. st \in Buf /\ store[st].refc = 0
  BY DEF FreeStores
<1>2. Users(st) = {}
  BY <1>1, FS_EmptySet DEF CInv, Counted
<1>3. /\ DOMAIN buf' = Buf /\ buf'[b] = x.b /\ \A a \in Buf : a # b => buf'[a] = buf[a]
      /\ DOMAIN store' = Buf /\ store'[st] = x.s /\ \A s \in Buf : s # st => store'[s] = store[s]
  BY <1>1 DEF Becomes, CInv, Shaped
<1>4. Live(b)' /\ \A a \in Buf : a # b => (Live(a)' <=> Live(a))
  BY <1>3, NoneShape DEF Live, Rec
<1>5. Shaped'
  BY <1>1, <1>3, <1>4 DEF CInv, Shaped, Rec
<1>6. ASSUME NEW s \in Buf PROVE IsFiniteSet(Users(s)') /\ store'[s].refc = Cardinality(Users(s)')
  <2>1. CASE s = st
    <3>1. Users(s)' = {b}
      BY <1>2, <1>3, <1>4, <2>1 DEF Users
    <3> QED BY <1>3, <2>1, <3>1, FS_Singleton
  <2>2. CASE s # st
    <3>1. Users(s)' = Users(s)
      BY <1>3, <1>4, <2>2 DEF Users
    <3> QED BY <1>3, <2>2, <3>1 DEF CInv, Counted
  <2> QED BY <2>1, <2>2
<1> QED BY <1>5, <1>6 DEF CInv, Counted

LEMMA NewSame ==
  ASSUME CInv, NEW b \in Buf, Create(b) \/ CreatePeer(b)
  PROVE  CInv'
<1>1. ASSUME NEW n, New(b, n) PROVE CInv'
  <2>1. PICK st \in FreeStores(b) :
          Becomes(b, [b |-> Cursors(st, 0, 0, n),
                      s |-> [Free EXCEPT !.alloc = n + 1, !.maxs = n, !.refc = 1]])
    BY <1>1 DEF New
  <2> DEFINE x == [b |-> Cursors(st, 0, 0, n), s |-> [Free EXCEPT !.alloc = n + 1, !.maxs = n, !.refc = 1]]
  <2>2. DOMAIN x.b = BufFields /\ x.b.st = st
    BY DEF Cursors, BufFields
  <2>3. DOMAIN x.s = StFields /\ x.s.refc = 1
    BY DEF Free, StFields
  <2>4. Becomes(b, x) /\ ~Live(b)
    BY <1>1, <2>1 DEF New, Idle
  <2> HIDE DEF x
  <2> QED BY <2>2, <2>3, <2>4, FreshStep DEF Rec
<1>2. ASSUME NEW d, NEW m, NEW r, NewD(b, d, m, r) PROVE CInv'
  <2>1. PICK st \in FreeStores(b) : \E p, q, t, u, c :
          Becomes(b, [b |-> Cursors(st, p, p, q),
                      s |-> [Free EXCEPT !.mem = t, !.alloc = u, !.maxs = q, !.const = c, !.refc = 1]])
    <3>1. PICK st \in FreeStores(b) :
            Becomes(b, [b |-> IF r THEN Cursors(st, Len(d), Len(d), Len(d)) ELSE Cursors(st, 0, 0, Len(d)),
                        s |-> [Free EXCEPT !.mem = IF r THEN d ELSE <<>>,
                                           !.alloc = IF m = "dup" THEN Len(d) + 1 ELSE Len(d),
                                           !.maxs = Len(d), !.const = m = "const", !.refc = 1]])
      BY <1>2 DEF NewD
    <3>2. CASE r
      BY <3>1, <3>2
    <3>3. CASE ~r
      BY <3>1, <3>3
    <3> QED BY <3>2, <3>3
  <2>2. PICK p, q, t, u, c :
          Becomes(b, [b |-> Cursors(st, p, p, q),
                      s |-> [Free EXCEPT !.mem = t, !.alloc = u, !.maxs = q, !.const = c, !.refc = 1]])
    BY <2>1
  <2> DEFINE x == [b |-> Cursors(st, p, p, q),
                   s |-> [Free EXCEPT !.mem = t, !.alloc = u, !.maxs = q, !.const = c, !.refc = 1]]
  <2>3. DOMAIN x.b = BufFields /\ x.b.st = st
    BY DEF Cursors, BufFields
  <2>4. DOMAIN x.s = StFields /\ x.s.refc = 1
    BY DEF Free, StFields
  <2>5. Becomes(b, x) /\ ~Live(b)
    BY <1>2, <2>2 DEF NewD, Idle
  <2> HIDE DEF x
  <2> QED BY <2>3, <2>4, <2>5, FreshStep DEF Rec
<1>3. ASSUME NEW c \in Buf, NewR(b, c) PROVE CInv'
  <2> DEFINE st == buf[c].st
             k == [buf[c] EXCEPT !.wbeg = buf[c].rend, !.size = buf[c].rend]
             z == [store[st] EXCEPT !.refc = @ + 1]
  <2>1. ~Live(b) /\ Live(c) /\ Becomes(b, [b |-> k, s |-> z])
    BY <1>3 DEF NewR, Idle
  <2>2. st \in Buf /\ DOMAIN k = BufFields /\ k.st = st
    BY <2>1 DEF CInv, Shaped, BufFields
  <2>3. DOMAIN z = StFields /\ z.refc = store[st].refc + 1
    BY <2>2 DEF CInv, Shaped, StFields
  <2>4. buf' = [buf EXCEPT ![b] = k] /\ store' = [store EXCEPT ![st] = z]
    BY <2>1, <2>2 DEF Becomes
  <2> HIDE DEF st, k, z
  <2>5. /\ DOMAIN buf' = Buf /\ buf'[b] = k /\ \A a \in Buf : a # b => buf'[a] = buf[a]
        /\ DOMAIN store' = Buf /\ store'[st] = z /\ \A s \in Buf : s # st => store'[s] = store[s]
    BY <2>2, <2>4 DEF CInv, Shaped
  <2>6. Live(b)' /\ \A a \in Buf : a # b => (Live(a)' <=> Live(a))
    BY <2>2, <2>5, NoneShape DEF Live
  <2>7. Shaped'
    BY <2>2, <2>3, <2>5, <2>6 DEF CInv, Shaped
  <2>8. ASSUME NEW s \in Buf PROVE IsFiniteSet(Users(s)') /\ store'[s].refc = Cardinality(Users(s)')
    <3>1. CASE s = st
      <4>1. Users(s)' = Users(s) \cup {b} /\ b \notin Users(s)
        BY <2>1, <2>2, <2>5, <2>6, <3>1 DEF Users
      <4>2. IsFiniteSet(Users(s)) /\ store[s].refc = Cardinality(Users(s))
        BY DEF CInv, Counted
      <4>3. IsFiniteSet(Users(s) \cup {b}) /\ Cardinality(Users(s) \cup {b}) = Cardinality(Users(s)) + 1
        BY <4>1, <4>2, FS_AddElement
      <4> QED BY <2>3, <2>5, <3>1, <4>1, <4>2, <4>3
    <3>2. CASE s # st
      <4>1. Users(s)' = Users(s)
        BY <2>1, <2>2, <2>5, <2>6, <3>2 DEF Users
      <4> QED BY <2>5, <3>2, <4>1 DEF CInv, Counted
    <3> QED BY <3>1, <3>2
  <2> QED BY <2>7, <2>8 DEF CInv, Counted
<1>4. ASSUME NEW c, NEW p, Dup(b, c, p) PROVE CInv'
  <2>1. \/ \E n : New(b, n)
        \/ \E d, m, r : NewD(b, d, m, r)
    BY <1>4 DEF Dup
  <2> QED BY <1>1, <1>2, <2>1
<1> QED BY <1>1, <1>2, <1>3, <1>4 DEF Create, CreatePeer

LEMMA DelSame ==
  ASSUME CInv, NEW b \in Buf, Del(b)
  PROVE  CInv'
<1> DEFINE st == buf[b].st
           z == IF store[st].refc = 1 THEN [Free EXCEPT !.oob = store[st].oob]
                ELSE [store[st] EXCEPT !.refc = @ - 1]
<1>1. Live(b) /\ st \in Buf
  BY DEF Del, Usable, CInv, Shaped
<1>2. buf' = [buf EXCEPT ![b] = None] /\ store' = [store EXCEPT ![st] = z]
  BY DEF Del
<1>3. DOMAIN z = StFields /\ z.refc = IF store[st].refc = 1 THEN 0 ELSE store[st].refc - 1
  <2>1. CASE store[st].refc = 1
    BY <2>1 DEF Free, StFields
  <2>2. CASE store[st].refc # 1
    BY <1>1, <2>2 DEF CInv, Shaped, StFields
  <2> QED BY <2>1, <2>2
<1> HIDE DEF z
<1>4. /\ DOMAIN buf' = Buf /\ buf'[b] = None /\ \A a \in Buf : a # b => buf'[a] = buf[a]
      /\ DOMAIN store' = Buf /\ store'[st] = z /\ \A s \in Buf : s # st => store'[s] = store[s]
  BY <1>1, <1>2 DEF CInv, Shaped
<1>5. ~Live(b)' /\ \A a \in Buf : a # b => (Live(a)' <=> Live(a))
  BY <1>4 DEF Live
<1>6. Shaped'
  BY <1>1, <1>3, <1>4, <1>5 DEF CInv, Shaped
<1>7. ASSUME NEW s \in Buf PROVE IsFiniteSet(Users(s)') /\ store'[s].refc = Cardinality(Users(s)')
  <2>0. IsFiniteSet(Users(s)) /\ store[s].refc = Cardinality(Users(s))
    BY DEF CInv, Counted
  <2>1. CASE s = st
    <3>1. Users(s)' = Users(s) \ {b} /\ b \in Users(s)
      BY <1>1, <1>4, <1>5, <2>1 DEF Users
    <3>2. IsFiniteSet(Users(s) \ {b}) /\ Cardinality(Users(s) \ {b}) = Cardinality(Users(s)) - 1
      BY <2>0, <3>1, FS_RemoveElement
    <3>3. Cardinality(Users(s)) \in Nat
      BY <2>0, FS_CardinalityType
    <3> QED BY <1>3, <1>4, <2>0, <2>1, <3>1, <3>2, <3>3
  <2>2. CASE s # st
    <3>1. Users(s)' = Users(s)
      BY <1>4, <1>5, <2>2 DEF Users
    <3> QED BY <1>4, <2>0, <2>2, <3>1
  <2> QED BY <2>1, <2>2
<1> QED BY <1>6, <1>7 DEF CInv, Counted

LEMMA CInvInit == Init => CInv /\ Held
<1> SUFFICES ASSUME Init PROVE CInv /\ Held
  OBVIOUS
<1>1. \A b \in Buf : ~Live(b)
  BY DEF Init, Live
<1>2. \A s \in Buf : Users(s) = {} /\ store[s] = Free
  BY <1>1 DEF Users, Init
<1>3. DOMAIN Free = StFields /\ Free.refc = 0
  BY DEF Free, StFields
<1>4. Counted
  BY <1>2, <1>3, FS_EmptySet DEF Counted
<1>5. Shaped
  BY <1>1, <1>2, <1>3 DEF Shaped, Init
<1>6. Held
  BY DEF Held, Init, NoOp
<1> QED BY <1>4, <1>5, <1>6 DEF CInv

LEMMA CInvNext ==
  ASSUME CInv, Held, [Next]_vars
  PROVE  CInv' /\ Held'
<1> DEFINE Still == UNCHANGED op /\ (op.st = "wait" => Live(op.b)')
<1>1. ASSUME Still PROVE Held'
  BY <1>1 DEF Held
<1>2. ASSUME NEW b \in Buf, UNCHANGED op, Create(b) \/ CreatePeer(b) PROVE CInv' /\ Held'
  <2>1. op.st = "idle"
    BY <1>2 DEF Create, CreatePeer, New, NewD, NewR, Dup, Idle
  <2> QED BY <1>2, <2>1, NewSame DEF Held
<1>3. ASSUME NEW b \in Buf, UNCHANGED op, Del(b) PROVE CInv' /\ Held'
  <2>1. op.st = "wait" => op.b # b /\ op.b \in Buf
    BY <1>3 DEF Del, Usable, Held
  <2>2. \A a \in Buf : a # b => buf'[a] = buf[a]
    BY <1>3 DEF Del, CInv, Shaped
  <2>3. op.st = "wait" => Live(op.b)'
    BY <1>3, <2>1, <2>2 DEF Held, Live
  <2> QED BY <1>1, <1>3, <2>3, DelSame
<1>4. ASSUME NEW b \in Buf, UNCHANGED op, Live(b), Edit(b) \/ Fetch(b) \/ Copy(b) PROVE CInv' /\ Held'
  <2>1. Kept
    BY <1>4, EditSame, CopySame
  <2> QED BY <1>1, <1>4, <2>1 DEF Kept, Held
<1>5. ASSUME NEW b \in Buf, NEW k, NEW m, UntilPrep(b, k, m) PROVE CInv' /\ Held'
  <2>1. Kept
    BY <1>5, UntilSame
  <2>2. Live(b)
    BY <1>5 DEF UntilPrep, Writable, Usable
  <2>3. \/ op'.st = "done"
        \/ op'.b = b /\ DOMAIN op' = {"st", "b", "kind", "max", "total", "flag", "room"}
    BY <1>5 DEF UntilPrep
  <2> QED BY <2>1, <2>2, <2>3 DEF Kept, Held
<1>6. ASSUME op.st = "wait", NEW d, UntilPost(d) PROVE CInv' /\ Held'
  <2>1. op.b \in Buf /\ Live(op.b) /\ DOMAIN op = {"st", "b", "kind", "max", "total", "flag", "room"}
    BY <1>6 DEF Held
  <2>2. Kept
    BY <1>6, <2>1, UntilSame
  <2> DEFINE x == Store(At(op.b), d)
             y == Seek(x, [x.b EXCEPT !.rend = x.b.wbeg])
             total == op.total + Len(d)
             w == ResizeW(y, Smaller(op.max - total, Batch))
             room == w.x.b.size - w.x.b.wbeg
  <2>3. \/ \E s : Finish(s)
        \/ op' = [op EXCEPT !.total = total, !.flag = total, !.room = room]
    BY <1>6, Zenon DEF UntilPost
  <2> HIDE DEF total, room
  <2>4. ASSUME NEW t, NEW r, op' = [op EXCEPT !.total = t, !.flag = t, !.room = r]
        PROVE  op'.b = op.b /\ DOMAIN op' = DOMAIN op
    BY <2>1, <2>4
  <2>5. op'.st = "done" \/ (op'.b = op.b /\ DOMAIN op' = DOMAIN op)
    <3>1. ASSUME NEW s, Finish(s) PROVE op'.st = "done"
      BY <3>1 DEF Finish
    <3> QED BY <2>3, <2>4, <3>1, Zenon
  <2> QED BY <2>1, <2>2, <2>5 DEF Kept, Held
<1>7. CASE UntilReturn
  <2>1. Kept
    BY <1>7, UntilSame
  <2> QED BY <1>7, <2>1 DEF Kept, Held, UntilReturn, NoOp
<1>8. CASE UNCHANGED vars
  BY <1>8 DEF vars, CInv, Shaped, Counted, Users, Live, Held
<1> QED BY <1>2, <1>3, <1>4, <1>5, <1>6, <1>7, <1>8 DEF Next

\* The inductive invariant of the references: the count of a storage is the number of buffers
\* on it, whatever is done to them (_dpbuf_data_ref, _dpbuf_data_del).
THEOREM ReferencesKept == Spec => [](CInv /\ Held)
BY CInvInit, CInvNext, PTL DEF Spec

\* A storage lives exactly as long as some buffer or view uses it, for any buffers, texts, sizes
\* and modes (_dpbuf_data_ref, _dpbuf_data_del).
THEOREM StoragesCounted == Spec => []RefCounted
<1>1. CInv /\ Held => RefCounted
  BY DEF CInv, Counted, Users, RefCounted
<1> QED BY <1>1, ReferencesKept, PTL

-----------------------------------------------------------------------------
(* Bytes.  What the helpers do to a buffer and its storage leaves them      *)
(* within the allocation.                                                   *)

Good(x) == x.b \in BufRec /\ Sound(x.s) /\ Within(x.b, x.s)

LEMMA PutNulGood ==
  ASSUME NEW s, Sound(s), NEW i \in Int, 0 <= i, i < s.alloc
  PROVE  LET t == PutNul(s, i) IN
         Sound(t) /\ t.alloc = s.alloc /\ t.maxs = s.maxs /\ Len(t.mem) = Len(s.mem)
<1> DEFINE m == IF i < Len(s.mem) THEN [s.mem EXCEPT ![i + 1] = Nul] ELSE s.mem
           o == s.oob \/ i < 0 \/ i >= s.alloc
           t == [s EXCEPT !.mem = m, !.oob = o]
<1>1. s \in StRec /\ s.mem \in Seq(Byte) /\ Len(s.mem) \in Nat /\ s.alloc \in Nat
  BY DEF Sound, StRec
<1>2. m \in Seq(Byte) /\ Len(m) = Len(s.mem)
  <2>1. Nul \in Byte
    BY DEF Byte
  <2>2. CASE i < Len(s.mem)
    <3>1. i + 1 \in 1 .. Len(s.mem)
      BY <1>1, <2>2
    <3> QED BY <1>1, <2>1, <2>2, <3>1, ExceptSeq
  <2> QED BY <1>1, <2>2
<1>3. o = FALSE
  BY <1>1 DEF Sound
<1> HIDE DEF m, o
<1>4. t \in StRec /\ t.mem = m /\ t.oob = FALSE /\ t.alloc = s.alloc /\ t.maxs = s.maxs
  BY <1>1, <1>2, <1>3 DEF StRec
<1>5. PutNul(s, i) = t
  BY DEF PutNul, m, o
<1> QED BY <1>2, <1>4, <1>5 DEF Sound

LEMMA ResizeGood ==
  ASSUME NEW x, Good(x), NEW size \in Int, size >= x.b.wbeg
  PROVE  LET r == Resize(x, size) IN
         /\ Good(r.x) /\ r.x.b.wbeg = x.b.wbeg
         /\ r.ok => r.x.b.size = size
<1> DEFINE newsz == CHOOSE p \in PowMin(size + 1) : TRUE
           k == [x.b EXCEPT !.size = size]
           s == [x.s EXCEPT !.alloc = newsz, !.maxs = newsz]
<1>0. x.b \in BufRec /\ x.s \in StRec /\ Within(x.b, x.s) /\ Sound(x.s)
  BY DEF Good, Sound
<1>1. /\ k \in BufRec /\ k.size = size /\ k.rbeg = x.b.rbeg /\ k.rend = x.b.rend /\ k.wbeg = x.b.wbeg
  BY <1>0 DEF BufRec
<1>2. x.s.maxs \in Nat /\ x.s.alloc \in Nat /\ Len(x.s.mem) \in Nat
  BY <1>0 DEF StRec
<1>3. CASE Resize(x, size).x = x /\ Resize(x, size).ok = FALSE
  BY <1>3
<1>4. CASE /\ size > 0 /\ x.s.maxs > size
           /\ Resize(x, size) = [x |-> [b |-> k, s |-> PutNul(x.s, size)], ok |-> TRUE]
  <2> DEFINE t == PutNul(x.s, size)
  <2>1. size < x.s.alloc
    BY <1>0, <1>2, <1>4 DEF Sound
  <2>2. Sound(t) /\ t.alloc = x.s.alloc /\ Len(t.mem) = Len(x.s.mem)
    BY <1>0, <1>4, <2>1, PutNulGood
  <2> HIDE DEF t, k
  <2>3. Within(k, t)
    BY <1>0, <1>1, <1>2, <2>1, <2>2 DEF Within, BufRec
  <2>4. Resize(x, size) = [x |-> [b |-> k, s |-> t], ok |-> TRUE]
    BY <1>4 DEF t
  <2> QED BY <1>1, <2>2, <2>3, <2>4 DEF Good
<1>5. CASE /\ size > 0 /\ x.s.maxs <= size /\ PowMin(size + 1) # {}
           /\ Resize(x, size) = [x |-> [b |-> k, s |-> PutNul(s, size)], ok |-> TRUE]
  <2> DEFINE t == PutNul(s, size)
  <2>1. newsz \in Nat /\ newsz > size
    <3>1. newsz \in PowMin(size + 1)
      BY <1>5
    <3>2. PowMin(size + 1) \subseteq (size + 1) .. MaxSize
      BY DEF PowMin
    <3> HIDE DEF newsz
    <3> QED BY <1>5, <3>1, <3>2, SizeAssumption
  <2> HIDE DEF newsz
  <2>2. s \in StRec /\ s.alloc = newsz /\ s.maxs = newsz /\ s.mem = x.s.mem /\ s.oob = x.s.oob
    BY <1>0, <2>1 DEF StRec
  <2> HIDE DEF s, k
  <2>3. Sound(s)
    BY <1>0, <2>1, <2>2 DEF Sound
  <2>4. Sound(t) /\ t.alloc = newsz /\ Len(t.mem) = Len(x.s.mem)
    BY <1>5, <2>1, <2>2, <2>3, PutNulGood
  <2> HIDE DEF t
  <2>5. Within(k, t)
    BY <1>0, <1>1, <1>2, <2>1, <2>4 DEF Within, BufRec
  <2>6. Resize(x, size) = [x |-> [b |-> k, s |-> t], ok |-> TRUE]
    BY <1>5 DEF t
  <2> QED BY <1>1, <2>4, <2>5, <2>6 DEF Good
<1>6. \/ Resize(x, size).x = x /\ Resize(x, size).ok = FALSE
      \/ /\ size > 0 /\ x.s.maxs > size
         /\ Resize(x, size) = [x |-> [b |-> k, s |-> PutNul(x.s, size)], ok |-> TRUE]
      \/ /\ size > 0 /\ x.s.maxs <= size /\ PowMin(size + 1) # {}
         /\ Resize(x, size) = [x |-> [b |-> k, s |-> PutNul(s, size)], ok |-> TRUE]
  BY DEF Resize
<1> QED
  <2> HIDE DEF k, s
  <2> QED BY <1>3, <1>4, <1>5, <1>6

LEMMA RecycleGood ==
  ASSUME NEW x, Good(x)
  PROVE  Good(Recycle(x))
<1> DEFINE n == x.b.rbeg
           k == [x.b EXCEPT !.rbeg = 0, !.rend = @ - n, !.wbeg = @ - n, !.size = @ - n]
           s1 == [x.s EXCEPT !.mem = <<>>]
           s2 == [x.s EXCEPT !.mem = SubSeq(@, n + 1, x.b.wbeg)]
           i == x.b.size - n
<1>0. x.b \in BufRec /\ x.s \in StRec /\ Within(x.b, x.s) /\ Sound(x.s)
  BY DEF Good, Sound
<1>1. /\ n \in Int /\ x.b.rend \in Int /\ x.b.wbeg \in Int /\ x.b.size \in Int
      /\ x.s.maxs \in Nat /\ x.s.alloc \in Nat /\ x.s.mem \in Seq(Byte) /\ Len(x.s.mem) \in Nat
  BY <1>0 DEF BufRec, StRec
<1>2. /\ 0 <= n /\ n <= x.b.rend /\ x.b.rend <= x.b.wbeg /\ x.b.wbeg <= x.b.size
      /\ x.b.size < x.s.alloc /\ x.b.wbeg <= Len(x.s.mem)
  BY <1>0 DEF Within
<1>3. k \in BufRec /\ k.rbeg = 0 /\ k.rend = x.b.rend - n /\ k.wbeg = x.b.wbeg - n /\ k.size = i
  <2> DEFINE f == x.b.rend - n
             g == x.b.wbeg - n
  <2>1. f \in Int /\ g \in Int /\ i \in Int /\ 0 \in Int
    BY <1>1
  <2>2. k = [x.b EXCEPT !.rbeg = 0, !.rend = f, !.wbeg = g, !.size = i]
    BY <1>0 DEF BufRec
  <2> HIDE DEF f, g, i, k
  <2>3. /\ k \in BufRec /\ k.rbeg = 0 /\ k.rend = f /\ k.wbeg = g /\ k.size = i
    BY <1>0, <2>1, <2>2 DEF BufRec
  <2> QED BY <2>3 DEF f, g
<1>4. i \in Int /\ 0 <= i /\ i < x.s.alloc
  BY <1>1, <1>2
<1>5. s1 \in StRec /\ s1.mem = <<>> /\ s1.alloc = x.s.alloc /\ s1.maxs = x.s.maxs /\ s1.oob = x.s.oob
  <2>1. PICK e \in Seq(Byte) : e = <<>>
    BY EmptySeq
  <2>2. /\ [x.s EXCEPT !.mem = e] \in StRec /\ [x.s EXCEPT !.mem = e].mem = e
        /\ [x.s EXCEPT !.mem = e].alloc = x.s.alloc /\ [x.s EXCEPT !.mem = e].maxs = x.s.maxs
        /\ [x.s EXCEPT !.mem = e].oob = x.s.oob
    BY <1>0 DEF StRec
  <2> QED BY <2>1, <2>2
<1>6. SubSeq(x.s.mem, n + 1, x.b.wbeg) \in Seq(Byte) /\ Len(SubSeq(x.s.mem, n + 1, x.b.wbeg)) = x.b.wbeg - n
  <2>1. \A j \in n + 1 .. x.b.wbeg : x.s.mem[j] \in Byte
    BY <1>1, <1>2, ElementOfSeq
  <2>2. n + 1 \in Int
    BY <1>1
  <2> HIDE DEF n
  <2> QED BY <1>1, <1>2, <2>1, <2>2, SubSeqProperties
<1>7. /\ s2 \in StRec /\ Len(s2.mem) = x.b.wbeg - n
      /\ s2.alloc = x.s.alloc /\ s2.maxs = x.s.maxs /\ s2.oob = x.s.oob
  BY <1>0, <1>6 DEF StRec
<1>8. \/ Recycle(x) = x
      \/ n = x.b.wbeg /\ Recycle(x) = [b |-> k, s |-> PutNul(s1, i)]
      \/ Recycle(x) = [b |-> k, s |-> PutNul(s2, i)]
  BY DEF Recycle
<1> HIDE DEF k, s1, s2, i, n
<1>9. CASE n = x.b.wbeg /\ Recycle(x) = [b |-> k, s |-> PutNul(s1, i)]
  <2> DEFINE t == PutNul(s1, i)
  <2>1. Sound(s1)
    BY <1>0, <1>5 DEF Sound
  <2>2. Sound(t) /\ t.alloc = x.s.alloc /\ Len(t.mem) = 0
    BY <1>4, <1>5, <2>1, PutNulGood
  <2>3. Recycle(x) = [b |-> k, s |-> t]
    BY <1>9
  <2> HIDE DEF t
  <2>4. Within(k, t)
    BY <1>1, <1>2, <1>3, <1>4, <1>9, <2>2 DEF Within
  <2> QED BY <1>3, <2>2, <2>3, <2>4 DEF Good
<1>10. CASE Recycle(x) = [b |-> k, s |-> PutNul(s2, i)]
  <2> DEFINE t == PutNul(s2, i)
  <2>1. Sound(s2)
    BY <1>0, <1>7 DEF Sound
  <2>2. Sound(t) /\ t.alloc = x.s.alloc /\ Len(t.mem) = x.b.wbeg - n
    BY <1>4, <1>7, <2>1, PutNulGood
  <2>3. Recycle(x) = [b |-> k, s |-> t]
    BY <1>10
  <2> HIDE DEF t
  <2>4. Within(k, t)
    <3>1. i = x.b.size - n
      BY DEF i
    <3>2. 0 <= k.rbeg /\ k.rbeg <= k.rend /\ k.rend <= k.wbeg
      BY <1>1, <1>2, <1>3
    <3>3. k.wbeg <= k.size
      BY <1>1, <1>2, <1>3, <3>1
    <3>4. k.size < t.alloc
      BY <1>3, <1>4, <2>2
    <3>5. k.wbeg <= Len(t.mem)
      BY <1>1, <1>3, <2>2
    <3> QED BY <3>2, <3>3, <3>4, <3>5 DEF Within
  <2> QED BY <1>3, <2>2, <2>3, <2>4 DEF Good
<1> QED BY <1>8, <1>9, <1>10

LEMMA ResizeWGood ==
  ASSUME NEW x, Good(x), NEW n \in Nat
  PROVE  /\ LET r == ResizeW(x, n) IN Good(r.x) /\ (r.ok => r.x.b.size - r.x.b.wbeg >= n)
         /\ LET r == WCheck(x, n) IN Good(r.x) /\ (r.ok => r.x.b.size - r.x.b.wbeg >= n)
<1> DEFINE y == IF x.b.norec THEN x ELSE Recycle(x)
           m == y.b.wbeg + n
           r == ResizeW(x, n)
<1>1. Good(y)
  BY RecycleGood
<1>2. r = Resize(y, m)
  BY DEF ResizeW
<1> HIDE DEF y, r
<1>3. y.b.wbeg \in Int /\ m \in Int /\ m >= y.b.wbeg
  BY <1>1 DEF Good, BufRec
<1> HIDE DEF m
<1>4. Good(r.x) /\ r.x.b.wbeg = y.b.wbeg /\ (r.ok => r.x.b.size = m)
  BY <1>1, <1>2, <1>3, ResizeGood
<1>5. r.ok => r.x.b.size - r.x.b.wbeg >= n
  BY <1>3, <1>4 DEF m
<1>6. \/ WCheck(x, n) = r
      \/ ~(x.b.size - x.b.wbeg < n) /\ WCheck(x, n).x = x
  BY DEF WCheck, r
<1>7. x.b.size \in Int /\ x.b.wbeg \in Int
  BY DEF Good, BufRec
<1> QED BY <1>4, <1>5, <1>6, <1>7 DEF r

LEMMA StoreGood ==
  ASSUME NEW x, Good(x), NEW d \in Seq(Byte), Len(d) <= x.b.size - x.b.wbeg
  PROVE  LET y == Store(x, d) IN
         Good(y) /\ y.b.wbeg = x.b.wbeg + Len(d) /\ y.b.size = x.b.size
<1> DEFINE m == SubSeq(x.s.mem, 1, x.b.wbeg) \o d
           o == x.s.oob \/ x.b.wbeg + Len(d) > x.s.alloc
           k == [x.b EXCEPT !.wbeg = @ + Len(d)]
           s == [x.s EXCEPT !.mem = m, !.oob = o]
<1>0. x.b \in BufRec /\ x.s \in StRec /\ Within(x.b, x.s) /\ Sound(x.s)
  BY DEF Good, Sound
<1>1. /\ x.b.rbeg \in Int /\ x.b.rend \in Int /\ x.b.wbeg \in Int /\ x.b.size \in Int
      /\ x.s.maxs \in Nat /\ x.s.alloc \in Nat /\ x.s.mem \in Seq(Byte) /\ Len(x.s.mem) \in Nat
      /\ Len(d) \in Nat
  <2>1. x.b.rbeg \in Int /\ x.b.rend \in Int /\ x.b.wbeg \in Int /\ x.b.size \in Int
    BY <1>0 DEF BufRec
  <2>2. x.s.maxs \in Nat /\ x.s.alloc \in Nat /\ x.s.mem \in Seq(Byte)
    BY <1>0 DEF StRec
  <2>3. Len(x.s.mem) \in Nat /\ Len(d) \in Nat
    BY <2>2
  <2> QED BY <2>1, <2>2, <2>3
<1>2. /\ 0 <= x.b.rbeg /\ x.b.rbeg <= x.b.rend /\ x.b.rend <= x.b.wbeg /\ x.b.wbeg <= x.b.size
      /\ x.b.size < x.s.alloc /\ x.b.wbeg <= Len(x.s.mem)
  BY <1>0 DEF Within
<1>3. SubSeq(x.s.mem, 1, x.b.wbeg) \in Seq(Byte) /\ Len(SubSeq(x.s.mem, 1, x.b.wbeg)) = x.b.wbeg
  <2>1. \A j \in 1 .. x.b.wbeg : x.s.mem[j] \in Byte
    BY <1>1, <1>2, ElementOfSeq
  <2>2. PICK e \in Int : e = 1
    OBVIOUS
  <2> QED BY <1>1, <1>2, <2>1, <2>2, SubSeqProperties
<1>4. m \in Seq(Byte) /\ Len(m) = x.b.wbeg + Len(d)
  BY <1>3, ConcatProperties
<1>5. o = FALSE
  <2>1. ~x.s.oob
    BY <1>0 DEF Sound
  <2>2. ~(x.b.wbeg + Len(d) > x.s.alloc)
    BY <1>1, <1>2
  <2> QED BY <2>1, <2>2
<1>6. k \in BufRec /\ k.rbeg = x.b.rbeg /\ k.rend = x.b.rend /\ k.wbeg = x.b.wbeg + Len(d) /\ k.size = x.b.size
  <2>1. PICK e \in Int : e = x.b.wbeg + Len(d)
    BY <1>1
  <2>2. k = [x.b EXCEPT !.wbeg = e]
    BY <2>1
  <2> HIDE DEF k
  <2>3. k \in BufRec /\ k.rbeg = x.b.rbeg /\ k.rend = x.b.rend /\ k.wbeg = e /\ k.size = x.b.size
    BY <1>0, <2>2 DEF BufRec
  <2> QED BY <2>1, <2>3
<1>7. Store(x, d) = [b |-> k, s |-> s]
  BY DEF Store
<1> HIDE DEF m, o
<1>8. s \in StRec /\ s.mem = m /\ s.oob = FALSE /\ s.alloc = x.s.alloc /\ s.maxs = x.s.maxs
  BY <1>0, <1>4, <1>5 DEF StRec
<1> HIDE DEF k, s
<1>9. Sound(s)
  BY <1>0, <1>8 DEF Sound
<1>10. Within(k, s)
  <2>1. 0 <= k.rbeg /\ k.rbeg <= k.rend
    BY <1>2, <1>6
  <2>2. k.rend <= k.wbeg /\ k.wbeg <= k.size
    BY <1>1, <1>2, <1>6
  <2>3. k.size < s.alloc
    BY <1>2, <1>6, <1>8
  <2>4. k.wbeg <= Len(s.mem)
    BY <1>1, <1>4, <1>6, <1>8
  <2> QED BY <2>1, <2>2, <2>3, <2>4 DEF Within
<1> QED BY <1>6, <1>7, <1>9, <1>10 DEF Good

-----------------------------------------------------------------------------
(* Steps that keep the bytes in their storage.                             *)

LEMMA AtGood ==
  ASSUME CInv, Stored, NEW b \in Buf, Live(b)
  PROVE  /\ Good(At(b)) /\ At(b).b = buf[b] /\ At(b).s = store[buf[b].st]
         /\ buf[b] \in BufRec /\ buf[b].st \in Buf /\ Sound(store[buf[b].st])
         /\ Within(buf[b], store[buf[b].st])
<1>1. buf[b] \in BufRec /\ buf[b].st \in Buf
  BY DEF Stored, Live, CInv, Shaped
<1> QED BY <1>1 DEF Stored, Good, At

LEMMA OnlyUser ==
  ASSUME CInv, NEW b \in Buf, Live(b), store[buf[b].st].refc = 1, NEW a \in Buf, Live(a), a # b
  PROVE  buf[a].st # buf[b].st
<1> DEFINE st == buf[b].st
<1>1. st \in Buf /\ IsFiniteSet(Users(st)) /\ Cardinality(Users(st)) = 1
  BY DEF CInv, Shaped, Counted
<1>2. PICK e : Users(st) = {e}
  BY <1>1, FS_Singleton
<1>3. b \in Users(st)
  BY DEF Users
<1>4. buf[a].st = st => a \in Users(st)
  BY DEF Users
<1> QED BY <1>2, <1>3, <1>4

LEMMA BecomesGood ==
  ASSUME CInv, Stored, NEW b \in Buf, Live(b), NEW x, Good(x), x.b.st = buf[b].st,
         store[buf[b].st].refc = 1 \/ x.s = store[buf[b].st], Becomes(b, x)
  PROVE  Stored'
<1>1. x.b \in BufRec /\ Sound(x.s) /\ x.s \in StRec /\ Within(x.b, x.s) /\ buf[b].st \in Buf
  BY AtGood DEF Good, Sound
<1>2. /\ buf' \in [Buf -> {None} \cup BufRec] /\ buf'[b] = x.b
      /\ \A a \in Buf : a # b => buf'[a] = buf[a]
  BY <1>1 DEF Becomes, Stored
<1>3. /\ store' \in [Buf -> StRec] /\ store'[buf[b].st] = x.s
      /\ \A s \in Buf : s # buf[b].st => store'[s] = store[s]
  BY <1>1 DEF Becomes, Stored
<1>4. ASSUME NEW a \in Buf, Live(a)' PROVE Within(buf'[a], store'[buf'[a].st])
  <2>1. CASE a = b
    BY <1>1, <1>2, <1>3, <2>1
  <2>2. CASE a # b
    <3>1. Live(a) /\ buf'[a] = buf[a] /\ buf[a].st \in Buf
      BY <1>2, <1>4, <2>2 DEF Live, CInv, Shaped
    <3>2. store'[buf[a].st] = store[buf[a].st]
      <4>1. CASE store[buf[b].st].refc = 1
        BY <1>3, <2>2, <3>1, <4>1, OnlyUser
      <4>2. CASE x.s = store[buf[b].st]
        BY <1>3, <3>1, <4>2
      <4> QED BY <4>1, <4>2
    <3> QED BY <3>1, <3>2 DEF Stored
  <2> QED BY <2>1, <2>2
<1>5. \A s \in Buf : Sound(store'[s])
  BY <1>1, <1>3 DEF Stored
<1> QED BY <1>2, <1>3, <1>4, <1>5 DEF Stored

LEMMA BothGood ==
  ASSUME CInv, Stored, NEW b \in Buf, NEW c \in Buf, Live(b), Live(c), b # c,
         buf[b].st # buf[c].st, store[buf[b].st].refc = 1, NEW x, Good(x), x.b.st = buf[b].st,
         NEW y \in BufRec, y.st = buf[c].st, Within(y, store[buf[c].st]), Both(b, x, c, y)
  PROVE  Stored'
<1>1. /\ x.b \in BufRec /\ Sound(x.s) /\ x.s \in StRec /\ Within(x.b, x.s)
      /\ buf[b].st \in Buf /\ buf[c].st \in Buf
  BY AtGood DEF Good, Sound
<1>2. /\ buf' \in [Buf -> {None} \cup BufRec] /\ buf'[b] = x.b /\ buf'[c] = y
      /\ \A a \in Buf : a # b /\ a # c => buf'[a] = buf[a]
  BY <1>1 DEF Both, Stored
<1>3. /\ store' \in [Buf -> StRec] /\ store'[buf[b].st] = x.s
      /\ \A s \in Buf : s # buf[b].st => store'[s] = store[s]
  BY <1>1 DEF Both, Stored
<1>4. ASSUME NEW a \in Buf, Live(a)' PROVE Within(buf'[a], store'[buf'[a].st])
  <2>1. CASE a = b
    BY <1>1, <1>2, <1>3, <2>1
  <2>2. CASE a = c
    BY <1>1, <1>2, <1>3, <2>2
  <2>3. CASE a # b /\ a # c
    <3>1. Live(a) /\ buf'[a] = buf[a] /\ buf[a].st \in Buf
      BY <1>2, <1>4, <2>3 DEF Live, CInv, Shaped
    <3>2. store'[buf[a].st] = store[buf[a].st]
      BY <1>3, <2>3, <3>1, OnlyUser
    <3> QED BY <3>1, <3>2 DEF Stored
  <2> QED BY <2>1, <2>2, <2>3
<1>5. \A s \in Buf : Sound(store'[s])
  BY <1>1, <1>3 DEF Stored
<1> QED BY <1>2, <1>3, <1>4, <1>5 DEF Stored

-----------------------------------------------------------------------------
(* Texts and searches.                                                     *)

Less == {p \in Nat \X Nat : p[1] < p[2]}

\* A non-empty set of naturals has a least member.
LEMMA LeastOf ==
  ASSUME NEW T, T \subseteq Nat, T # {}
  PROVE  \E m \in T : \A k \in T : m <= k
<1>1. IsWellFoundedOn(Less, Nat)
  BY NatLessThanWellFounded, Zenon DEF OpToRel, Less
<1>2. PICK m \in T : \A k \in T : ~(<<k, m>> \in Less)
  BY <1>1, WFMin
<1>3. ASSUME NEW k \in T PROVE m <= k
  <2>1. ~(<<k, m>> \in Less)
    BY <1>2
  <2> QED BY <2>1 DEF Less
<1> QED BY <1>3

LEMMA SpanGood ==
  ASSUME NEW x, x.s.mem \in Seq(Byte), NEW i \in Int, NEW j \in Int
  PROVE  Span(x, i, j) \in Seq(Byte) /\ Len(Span(x, i, j)) = Larger(j - i, 0)
<1> DEFINE n == Larger(j - i, 0)
           e(k) == IF i + k \in DOMAIN x.s.mem THEN x.s.mem[i + k] ELSE Junk
<1>1. n \in Nat
  BY DEF Larger
<1>2. \A k \in 1 .. n : e(k) \in Byte
  <2> TAKE k \in 1 .. n
  <2>1. Junk \in Byte
    BY DEF Byte
  <2>2. i + k \in DOMAIN x.s.mem => x.s.mem[i + k] \in Byte
    BY ElementOfSeq
  <2> QED BY <2>1, <2>2
<1>3. Span(x, i, j) = [k \in 1 .. n |-> e(k)]
  BY DEF Span
<1> HIDE DEF n, e
<1>4. [k \in 1 .. n |-> e(k)] \in Seq(Byte) /\ Len([k \in 1 .. n |-> e(k)]) = n
  BY <1>1, <1>2
<1> QED BY <1>3, <1>4 DEF n

LEMMA CFindGood ==
  ASSUME NEW x, x.s.mem \in Seq(Byte), x.b.rbeg \in Int, x.b.rend \in Int, NEW left \in Nat,
         x.b.rbeg <= x.b.rend
  PROVE  LET i == CFind(x, left) IN
         i \in Int /\ (i >= 0 => i + Len(Until) <= x.b.rend - x.b.rbeg)
<1> DEFINE text == Span(x, x.b.rbeg, x.b.rend)
           H == Hits(text, left)
           i == CFind(x, left)
<1>1. Len(text) = x.b.rend - x.b.rbeg /\ Len(text) \in Nat
  BY SpanGood DEF Larger
<1>2. Len(Until) \in Nat
  BY DataAssumption
<1>3. i = IF H = {} THEN 0 - 1 ELSE CHOOSE m \in H : \A j \in H : m <= j
  BY DEF CFind
<1> HIDE DEF text, i
<1>4. H \subseteq left .. (Len(text) - Len(Until))
  BY DEF Hits
<1> HIDE DEF H
<1>5. CASE H # {}
  <2>1. \E m \in H : \A j \in H : m <= j
    <3>1. H \subseteq Nat
      BY <1>1, <1>2, <1>4
    <3> QED BY <1>5, <3>1, LeastOf
  <2>2. i \in H
    BY <1>3, <1>5, <2>1
  <2>3. i \in Int /\ i <= Len(text) - Len(Until)
    BY <1>1, <1>2, <1>4, <2>2
  <2>4. i + Len(Until) <= x.b.rend - x.b.rbeg
    BY <1>1, <1>2, <2>3
  <2> QED BY <2>3, <2>4 DEF i
<1>6. CASE H = {}
  <2>1. i = -1
    BY <1>3, <1>6
  <2> QED BY <2>1 DEF i
<1> QED BY <1>5, <1>6

LEMMA LeadingGood ==
  ASSUME NEW text \in Seq(Byte), NEW S
  PROVE  Leading(text, S) \in 0 .. Len(text)
<1> DEFINE I == {k \in 1 .. Len(text) : text[k] \notin S}
           i == IF I # {} THEN Min(I) ELSE 0
<1>1. Leading(text, S) = IF i = 0 THEN Len(text) ELSE i - 1
  BY DEF Leading, SelectInSeq
<1>2. i \in 0 .. Len(text)
  <2>1. CASE I # {}
    <3>1. \E m \in I : \A k \in I : m <= k
      <4>1. I \subseteq Nat
        OBVIOUS
      <4> HIDE DEF I
      <4> QED BY <2>1, <4>1, LeastOf
    <3>2. Min(I) \in I
      BY <3>1 DEF Min
    <3> QED BY <2>1, <3>2
  <2>2. CASE I = {}
    BY <2>2
  <2> QED BY <2>1, <2>2
<1> HIDE DEF i
<1> QED BY <1>1, <1>2

-----------------------------------------------------------------------------
(* Cursor moves, reads and writes.                                         *)

LEMMA SeekGood ==
  ASSUME CInv, Stored, NEW b \in Buf, Live(b), NEW k \in BufRec, k.st = buf[b].st,
         Within(k, store[buf[b].st]), Becomes(b, Seek(At(b), k))
  PROVE  Stored'
<1> DEFINE x == Seek(At(b), k)
<1>1. x.b = k /\ x.s = store[buf[b].st]
  BY AtGood DEF Seek
<1>2. Becomes(b, x)
  OBVIOUS
<1> HIDE DEF x
<1>3. Good(x)
  BY <1>1, AtGood DEF Good
<1> QED BY <1>1, <1>2, <1>3, BecomesGood

LEMMA RoomInt == Room \in Int
BY SizeAssumption DEF Room

LEMMA SlackGood ==
  ASSUME CInv, Stored, NEW b \in Buf, Live(b)
  PROVE  Slack(b) \in Seq(Byte) /\ Len(Slack(b)) = buf[b].wbeg - buf[b].rend
<1>1. /\ At(b).s.mem \in Seq(Byte) /\ buf[b].rend \in Int /\ buf[b].wbeg \in Int
      /\ buf[b].rend <= buf[b].wbeg
  BY AtGood DEF Sound, StRec, BufRec, Within
<1>2. /\ Slack(b) \in Seq(Byte) /\ Len(Slack(b)) = Larger(buf[b].wbeg - buf[b].rend, 0)
  BY <1>1, SpanGood DEF Slack
<1> QED BY <1>1, <1>2 DEF Larger

(* A read function takes no more than there is.                             *)
LEMMA FetchReads ==
  ASSUME CInv, Stored, NEW b \in Buf, Live(b), Fetch(b)
  PROVE  \E m \in 0 .. Len(Slack(b)) : Read(b, m)
<1> DEFINE n == Len(Slack(b))
<1>0. /\ buf[b] \in BufRec /\ buf[b].rbeg \in Int /\ buf[b].rend \in Int /\ buf[b].wbeg \in Int
      /\ buf[b].size \in Int /\ Within(buf[b], store[buf[b].st]) /\ At(b).s.mem \in Seq(Byte)
  BY AtGood DEF BufRec, Sound, StRec
<1>1. n = buf[b].wbeg - buf[b].rend /\ n \in Nat /\ Slack(b) \in Seq(Byte)
  BY <1>0, SlackGood DEF Within
<1> HIDE DEF n
<1>2. ASSUME NEW m \in 0 .. n, Read(b, m) PROVE \E l \in 0 .. Len(Slack(b)) : Read(b, l)
  BY <1>2 DEF n
<1>3. CASE RData(b)
  BY <1>2, <1>3 DEF RData, n
<1>4. CASE RMust(b)
  <2>1. PICK j \in 0 .. n + 1 : Read(b, IF j > n THEN 0 ELSE j)
    BY <1>4 DEF RMust, n
  <2>2. (IF j > n THEN 0 ELSE j) \in 0 .. n
    BY <1>1
  <2> QED BY <1>2, <2>1, <2>2
<1>5. CASE RAll(b)
  <2>1. n \in 0 .. n
    BY <1>1
  <2> QED BY <1>2, <1>5, <2>1 DEF RAll, n
<1>6. CASE RWs(b)
  <2>1. Leading(Slack(b), {Cr, Lf}) \in 0 .. n
    BY <1>1, LeadingGood DEF n
  <2> QED BY <1>2, <1>6, <2>1 DEF RWs
<1>7. CASE RCstr(b)
  <2> DEFINE l == Leading(Slack(b), Byte \ {Nul})
             m == IF l > 0 /\ l < n THEN l + 1 ELSE l
  <2>1. l \in 0 .. n
    BY <1>1, LeadingGood DEF n
  <2>2. Read(b, m)
    BY <1>7 DEF RCstr, n
  <2> HIDE DEF l
  <2>3. m \in 0 .. n
    BY <1>1, <2>1
  <2> HIDE DEF m
  <2> QED BY <1>2, <2>2, <2>3
<1>8. CASE RUntil(b)
  <2> DEFINE k == [buf[b] EXCEPT !.rbeg = buf[b].rend, !.rend = buf[b].wbeg]
             x == Seek(At(b), k)
             i == CFind(x, 0)
             m == IF i < 0 THEN 0 ELSE i + Len(Until)
  <2>1. k.rbeg = buf[b].rend /\ k.rend = buf[b].wbeg
    BY <1>0 DEF BufRec
  <2>2. Read(b, m)
    BY <1>8 DEF RUntil
  <2>3. x.b = k /\ x.s.mem = At(b).s.mem
    BY DEF Seek
  <2> HIDE DEF k, x
  <2>4. PICK z \in Nat : z = 0
    OBVIOUS
  <2>5. x.b.rbeg \in Int /\ x.b.rend \in Int /\ x.b.rbeg <= x.b.rend /\ x.s.mem \in Seq(Byte)
    BY <1>0, <2>1, <2>3 DEF Within
  <2>6. i \in Int /\ (i >= 0 => i + Len(Until) <= x.b.rend - x.b.rbeg)
    BY <2>4, <2>5, CFindGood
  <2>7. Len(Until) \in Nat
    BY DataAssumption
  <2> HIDE DEF i
  <2>8. m \in 0 .. n
    BY <1>0, <1>1, <2>1, <2>3, <2>6, <2>7
  <2> HIDE DEF m
  <2> QED BY <1>2, <2>2, <2>8
<1> QED BY <1>3, <1>4, <1>5, <1>6, <1>7, <1>8 DEF Fetch

(* What a read leaves of the cursors.                                       *)
LEMMA ReadCursors ==
  ASSUME CInv, Stored, NEW b \in Buf, Live(b), Fetch(b)
  PROVE  \E k \in BufRec : /\ k.st = buf[b].st /\ k.wbeg = buf[b].wbeg
                           /\ Within(k, store[buf[b].st]) /\ Becomes(b, Seek(At(b), k))
<1>1. PICK m \in 0 .. Len(Slack(b)) : Read(b, m)
  BY FetchReads
<1>2. /\ buf[b] \in BufRec /\ buf[b].rbeg \in Int /\ buf[b].rend \in Int /\ buf[b].wbeg \in Int
      /\ buf[b].size \in Int /\ Within(buf[b], store[buf[b].st])
  BY AtGood DEF BufRec
<1>3. Len(Slack(b)) = buf[b].wbeg - buf[b].rend
  BY SlackGood
<1> DEFINE e == buf[b].rend + m
           k == [buf[b] EXCEPT !.rbeg = buf[b].rend, !.rend = e]
<1>4. e \in Int /\ buf[b].rend <= e /\ e <= buf[b].wbeg
  <2>1. buf[b].wbeg - buf[b].rend \in Int /\ m \in 0 .. buf[b].wbeg - buf[b].rend
    BY <1>2, <1>3
  <2> QED BY <1>2, <2>1
<1>5. Becomes(b, Seek(At(b), k))
  BY <1>1 DEF Read
<1> HIDE DEF e
<1>6. /\ k \in BufRec /\ k.st = buf[b].st /\ k.rbeg = buf[b].rend /\ k.rend = e
      /\ k.wbeg = buf[b].wbeg /\ k.size = buf[b].size
  BY <1>2, <1>4 DEF BufRec
<1> HIDE DEF k
<1>7. Within(k, store[buf[b].st])
  BY <1>2, <1>4, <1>6 DEF Within
<1> QED BY <1>5, <1>6, <1>7

LEMMA FetchGood ==
  ASSUME CInv, Stored, NEW b \in Buf, Live(b), Fetch(b)
  PROVE  Stored'
<1>1. PICK k \in BufRec : /\ k.st = buf[b].st /\ k.wbeg = buf[b].wbeg
                          /\ Within(k, store[buf[b].st]) /\ Becomes(b, Seek(At(b), k))
  BY ReadCursors
<1> QED BY <1>1, SeekGood

LEMMA WriteGood ==
  ASSUME CInv, Stored, NEW b \in Buf, NEW d \in Seq(Byte), NEW n \in Nat, Len(d) <= n, Write(b, d, n)
  PROVE  Stored'
<1> DEFINE c == WCheck(At(b), n)
           x == IF c.ok THEN Store(c.x, d) ELSE c.x
<1>1. Live(b) /\ store[buf[b].st].refc = 1 /\ Becomes(b, x)
  BY DEF Write, Writable, Usable
<1>2. Good(c.x) /\ (c.ok => c.x.b.size - c.x.b.wbeg >= n)
  BY <1>1, AtGood, ResizeWGood
<1>3. Same(At(b), c.x)
  BY <1>1, AtRec, ResizeWSame
<1> HIDE DEF c
<1>4. c.x.b.size \in Int /\ c.x.b.wbeg \in Int /\ Len(d) \in Nat
  BY <1>2 DEF Good, BufRec
<1>5. c.ok => Good(Store(c.x, d)) /\ Same(c.x, Store(c.x, d))
  <2> SUFFICES ASSUME c.ok PROVE Good(Store(c.x, d)) /\ Same(c.x, Store(c.x, d))
    OBVIOUS
  <2>1. Len(d) <= c.x.b.size - c.x.b.wbeg
    BY <1>2, <1>4
  <2> QED BY <1>2, <1>3, <2>1, StoreGood, StoreSame DEF Same
<1>6. Good(x) /\ x.b.st = At(b).b.st
  BY <1>2, <1>3, <1>5 DEF Same
<1> HIDE DEF x
<1>7. x.b.st = buf[b].st
  BY <1>1, <1>6, AtGood
<1> QED BY <1>1, <1>6, <1>7, BecomesGood

LEMMA EditGood ==
  ASSUME CInv, Stored, NEW b \in Buf, Live(b), Edit(b)
  PROVE  Stored'
<1>0. /\ buf[b] \in BufRec /\ buf[b].rbeg \in Int /\ buf[b].rend \in Int /\ buf[b].wbeg \in Int
      /\ buf[b].size \in Int /\ Within(buf[b], store[buf[b].st]) /\ Sound(At(b).s)
      /\ At(b).s = store[buf[b].st] /\ At(b).s.mem \in Seq(Byte) /\ At(b).s.alloc \in Nat
      /\ buf[b].st \in Buf
  BY AtGood DEF BufRec, Sound, StRec
<1>1. CASE SetRecycle(b)
  <2> DEFINE k == [buf[b] EXCEPT !.norec = ~buf[b].norec]
  <2>1. buf' = [buf EXCEPT ![b] = k] /\ store' = store
    BY <1>1 DEF SetRecycle
  <2>2. /\ k \in BufRec /\ k.st = buf[b].st /\ k.rbeg = buf[b].rbeg /\ k.rend = buf[b].rend
        /\ k.wbeg = buf[b].wbeg /\ k.size = buf[b].size
    BY <1>0 DEF BufRec
  <2> HIDE DEF k
  <2>3. Within(k, store[buf[b].st])
    BY <1>0, <2>2 DEF Within
  <2>4. Becomes(b, Seek(At(b), k))
    BY <1>0, <2>1, <2>2 DEF Becomes, Seek, Stored
  <2> QED BY <2>2, <2>3, <2>4, SeekGood
<1>2. CASE RSeek(b)
  <2>1. PICK p \in 0 .. buf[b].rend : Becomes(b, Seek(At(b), [buf[b] EXCEPT !.rbeg = p]))
    BY <1>2 DEF RSeek
  <2> DEFINE k == [buf[b] EXCEPT !.rbeg = p]
  <2>2. /\ k \in BufRec /\ k.st = buf[b].st /\ k.rbeg = p /\ k.rend = buf[b].rend
        /\ k.wbeg = buf[b].wbeg /\ k.size = buf[b].size
    BY <1>0 DEF BufRec
  <2>3. Becomes(b, Seek(At(b), k))
    BY <2>1
  <2> HIDE DEF k
  <2>4. Within(k, store[buf[b].st])
    BY <1>0, <2>2 DEF Within
  <2> QED BY <2>2, <2>3, <2>4, SeekGood
<1>3. CASE ESeek(b)
  <2>1. PICK p \in buf[b].rbeg .. buf[b].wbeg : Becomes(b, Seek(At(b), [buf[b] EXCEPT !.rend = p]))
    BY <1>3 DEF ESeek
  <2> DEFINE k == [buf[b] EXCEPT !.rend = p]
  <2>2. /\ k \in BufRec /\ k.st = buf[b].st /\ k.rbeg = buf[b].rbeg /\ k.rend = p
        /\ k.wbeg = buf[b].wbeg /\ k.size = buf[b].size
    BY <1>0 DEF BufRec
  <2>3. Becomes(b, Seek(At(b), k))
    BY <2>1
  <2> HIDE DEF k
  <2>4. Within(k, store[buf[b].st])
    BY <1>0, <2>2 DEF Within
  <2> QED BY <2>2, <2>3, <2>4, SeekGood
<1>4. CASE WSeek(b)
  <2>1. PICK p \in buf[b].rend .. Smaller(buf[b].size, Room) :
          /\ Writable(b)
          /\ Becomes(b, [b |-> [buf[b] EXCEPT !.wbeg = p], s |-> [At(b).s EXCEPT !.mem = Span(At(b), 0, p)]])
    BY <1>4 DEF WSeek
  <2> DEFINE k == [buf[b] EXCEPT !.wbeg = p]
             m == Span(At(b), 0, p)
             s == [At(b).s EXCEPT !.mem = m]
             x == [b |-> k, s |-> s]
  <2>2. p \in Int /\ 0 <= p /\ buf[b].rend <= p /\ p <= buf[b].size
    BY <1>0, RoomInt DEF Smaller, Within
  <2>3. /\ k \in BufRec /\ k.st = buf[b].st /\ k.rbeg = buf[b].rbeg /\ k.rend = buf[b].rend
        /\ k.wbeg = p /\ k.size = buf[b].size
    BY <1>0, <2>2 DEF BufRec
  <2>4. m \in Seq(Byte) /\ Len(m) = p
    <3>1. PICK z \in Int : z = 0
      OBVIOUS
    <3>2. Span(At(b), z, p) \in Seq(Byte) /\ Len(Span(At(b), z, p)) = Larger(p - z, 0)
      BY <1>0, <2>2, SpanGood
    <3> QED BY <2>2, <3>1, <3>2 DEF Larger
  <2> HIDE DEF m
  <2>5. s \in StRec /\ s.mem = m /\ s.alloc = At(b).s.alloc /\ s.maxs = At(b).s.maxs /\ s.oob = At(b).s.oob
    BY <1>0, <2>4 DEF StRec, Sound
  <2>6. Becomes(b, x) /\ x.b = k /\ x.s = s
    BY <2>1 DEF m
  <2> HIDE DEF k, s, x
  <2>7. Within(k, s) /\ Sound(s)
    BY <1>0, <2>2, <2>3, <2>4, <2>5 DEF Within, Sound
  <2> QED BY <2>1, <2>3, <2>6, <2>7, BecomesGood DEF Good, Writable
<1>5. ASSUME NEW f, Compact(b, f) PROVE Stored'
  <2> DEFINE x == Recycle(At(b))
  <2>1. Good(x) /\ Same(At(b), x)
    BY AtGood, AtRec, RecycleGood, RecycleSame
  <2>2. Resize(x, 0).x = x
    BY DEF Resize
  <2>3. Writable(b) /\ Becomes(b, x)
    BY <1>5, <2>2 DEF Compact
  <2> HIDE DEF x
  <2> QED BY <2>1, <2>3, AtGood, BecomesGood DEF Same, Writable
<1>6. ASSUME NEW mode, Reset(b, mode) PROVE Stored'
  <2> DEFINE s == IF mode = "none" THEN 0 ELSE buf[b].size
             r == IF mode = "r" THEN s ELSE 0
             m == Span(At(b), 0, r)
             k == [buf[b] EXCEPT !.rbeg = 0, !.rend = r, !.wbeg = r, !.size = s]
             t == [At(b).s EXCEPT !.mem = m]
             x == [b |-> k, s |-> t]
  <2>1. Writable(b) /\ Becomes(b, x)
    BY <1>6 DEF Reset
  <2>2. s \in Int /\ r \in Int /\ 0 <= r /\ r <= s /\ s <= buf[b].size
    BY <1>0 DEF Within
  <2> HIDE DEF s, r
  <2>3. m \in Seq(Byte) /\ Len(m) = r
    <3>1. PICK z \in Int : z = 0
      OBVIOUS
    <3>2. Span(At(b), z, r) \in Seq(Byte) /\ Len(Span(At(b), z, r)) = Larger(r - z, 0)
      BY <1>0, <2>2, SpanGood
    <3> QED BY <2>2, <3>1, <3>2 DEF Larger
  <2> HIDE DEF m
  <2>4. k \in BufRec /\ k.st = buf[b].st /\ k.rbeg = 0 /\ k.rend = r /\ k.wbeg = r /\ k.size = s
    <3>1. PICK z \in Int : z = 0
      OBVIOUS
    <3>2. LET j == [buf[b] EXCEPT !.rbeg = z, !.rend = r, !.wbeg = r, !.size = s] IN
          j \in BufRec /\ j.st = buf[b].st /\ j.rbeg = z /\ j.rend = r /\ j.wbeg = r /\ j.size = s
      BY <1>0, <2>2 DEF BufRec
    <3> QED BY <3>1, <3>2
  <2>5. t \in StRec /\ t.mem = m /\ t.alloc = At(b).s.alloc /\ t.maxs = At(b).s.maxs /\ t.oob = At(b).s.oob
    BY <1>0, <2>3 DEF StRec, Sound
  <2>6. x.b = k /\ x.s = t
    OBVIOUS
  <2> HIDE DEF k, t, x
  <2>7. Within(k, t) /\ Sound(t)
    BY <1>0, <2>2, <2>3, <2>4, <2>5 DEF Within, Sound
  <2> QED BY <2>1, <2>4, <2>6, <2>7, BecomesGood DEF Good, Writable
<1>7. CASE WFill(b)
  <2>1. PICK v \in Byte : v = Nul
    BY DEF Byte
  <2>2. <<v>> \in Seq(Byte) /\ Len(<<v>>) = 1
    OBVIOUS
  <2>3. PICK d \in Seq(Byte) : d = <<v>> /\ Len(d) = 1
    BY <2>2
  <2>4. PICK n \in Nat : n = 1
    OBVIOUS
  <2>5. Write(b, d, n) /\ Len(d) <= n
    BY <1>7, <2>1, <2>3, <2>4 DEF WFill
  <2> QED BY <2>5, WriteGood
<1>8. ASSUME NEW d \in Data, WData(b, d) \/ WStr(b, d) PROVE Stored'
  <2>1. d \in Seq(Byte)
    BY DataAssumption
  <2>2. PICK n \in Nat : Write(b, d, n) /\ Len(d) <= n
    <3>1. Len(d) \in Nat /\ Len(d) + 1 \in Nat
      BY <2>1
    <3> QED BY <1>8, <3>1 DEF WData, WStr
  <2> QED BY <2>1, <2>2, WriteGood
<1> QED BY <1>1, <1>2, <1>3, <1>4, <1>5, <1>6, <1>7, <1>8 DEF Edit

-----------------------------------------------------------------------------
(* Copies between buffers.                                                 *)

LEMMA WBufGood ==
  ASSUME CInv, Stored, NEW b \in Buf, NEW c \in Buf, Live(b), Live(c), NEW src, NEW len \in Int,
         src.rbeg \in Int, src.rend \in Int, src.rbeg <= src.rend
  PROVE  LET w == WBuf(b, c, src, len) IN
         /\ Good(w.x) /\ Same(At(b), w.x)
         /\ w.n \in 0 .. (src.rend - src.rbeg) \/ w.n = 0 - 12
<1> DEFINE alen == src.rend - src.rbeg
           n == IF len <= 0 THEN alen ELSE Smaller(alen, len)
           c0 == WCheck(At(b), n)
           full == Span(At(c), src.rbeg, src.rend)
           d == SubSeq(full, 1, n)
           w == WBuf(b, c, src, len)
<1>1. alen \in Nat /\ n \in Nat /\ n <= alen
  BY DEF Smaller
<1>2. w.x = (IF c0.ok THEN Store(c0.x, d) ELSE c0.x) /\ w.n = (IF c0.ok THEN n ELSE 0 - 12)
  BY DEF WBuf
<1>3. full \in Seq(Byte) /\ Len(full) = alen
  <2>1. At(c).s.mem \in Seq(Byte)
    BY AtGood DEF Sound, StRec
  <2>2. full \in Seq(Byte) /\ Len(full) = Larger(alen, 0)
    BY <2>1, SpanGood
  <2> QED BY <1>1, <2>2 DEF Larger
<1> HIDE DEF alen, n, full
<1>4. d \in Seq(Byte) /\ Len(d) = n
  <2>1. \A i \in 1 .. n : full[i] \in Byte
    BY <1>1, <1>3, ElementOfSeq
  <2>2. PICK e \in Int : e = 1
    OBVIOUS
  <2>3. SubSeq(full, e, n) \in Seq(Byte) /\ Len(SubSeq(full, e, n)) = IF e <= n THEN n - e + 1 ELSE 0
    BY <1>1, <2>1, <2>2, SubSeqProperties
  <2> QED BY <1>1, <2>2, <2>3
<1> HIDE DEF d
<1>5. Good(c0.x) /\ Same(At(b), c0.x) /\ (c0.ok => c0.x.b.size - c0.x.b.wbeg >= n)
  BY <1>1, AtGood, AtRec, ResizeWGood, ResizeWSame
<1> HIDE DEF c0
<1>6. c0.ok => Good(Store(c0.x, d)) /\ Same(c0.x, Store(c0.x, d))
  <2> SUFFICES ASSUME c0.ok PROVE Good(Store(c0.x, d)) /\ Same(c0.x, Store(c0.x, d))
    OBVIOUS
  <2>1. c0.x.b.size \in Int /\ c0.x.b.wbeg \in Int
    BY <1>5 DEF Good, BufRec
  <2>2. Len(d) <= c0.x.b.size - c0.x.b.wbeg
    BY <1>1, <1>4, <1>5, <2>1
  <2> QED BY <1>4, <1>5, <2>2, StoreGood, StoreSame DEF Same
<1>7. Good(w.x) /\ Same(At(b), w.x)
  BY <1>2, <1>5, <1>6 DEF Same
<1>8. w.n \in 0 .. alen \/ w.n = 0 - 12
  BY <1>1, <1>2
<1> QED BY <1>7, <1>8 DEF alen

LEMMA CopyGood ==
  ASSUME CInv, Stored, FullDet = FALSE, NEW b \in Buf, Copy(b)
  PROVE  Stored'
<1>1. PICK c \in Buf, len \in {0, 1} :
        WBufR(b, c, len, TRUE) \/ WBufR(b, c, len, FALSE) \/ ReadTo(c, b, len)
  BY DEF Copy
<1>2. Live(b) /\ Live(c) /\ b # c /\ buf[b].st # buf[c].st /\ store[buf[b].st].refc = 1 /\ len \in Int
  BY <1>1 DEF WBufR, ReadTo, Pair, Writable, Usable
<1>3. /\ buf[c] \in BufRec /\ buf[c].rbeg \in Int /\ buf[c].rend \in Int /\ buf[c].wbeg \in Int
      /\ buf[c].size \in Int /\ Within(buf[c], store[buf[c].st])
  BY <1>2, AtGood DEF BufRec
<1>4. At(b).b.st = buf[b].st
  BY DEF At
<1>5. ASSUME NEW f, WBufR(b, c, len, f) PROVE Stored'
  <2> DEFINE w == WBuf(b, c, buf[c], len)
             p == IF f /\ w.n > 0 THEN buf[c].rbeg + w.n ELSE buf[c].rbeg
             k == [buf[c] EXCEPT !.rbeg = p]
  <2>1. Both(b, w.x, c, k)
    BY <1>5 DEF WBufR
  <2>2. Good(w.x) /\ Same(At(b), w.x) /\ (w.n \in 0 .. (buf[c].rend - buf[c].rbeg) \/ w.n = 0 - 12)
    <3> DEFINE src == buf[c]
    <3>1. src.rbeg \in Int /\ src.rend \in Int /\ src.rbeg <= src.rend
      BY <1>3 DEF Within
    <3> HIDE DEF src
    <3>2. LET v == WBuf(b, c, src, len) IN
          Good(v.x) /\ Same(At(b), v.x) /\ (v.n \in 0 .. (src.rend - src.rbeg) \/ v.n = 0 - 12)
      BY <1>2, <3>1, WBufGood
    <3> QED BY <3>2 DEF src
  <2> HIDE DEF w
  <2>3. p \in Int /\ buf[c].rbeg <= p /\ p <= buf[c].rend
    BY <1>3, <2>2 DEF Within
  <2> HIDE DEF p
  <2>4. /\ k \in BufRec /\ k.st = buf[c].st /\ k.rbeg = p /\ k.rend = buf[c].rend
        /\ k.wbeg = buf[c].wbeg /\ k.size = buf[c].size
    BY <1>3, <2>3 DEF BufRec
  <2> DEFINE x == w.x
  <2>5. Both(b, x, c, k) /\ Good(x) /\ x.b.st = buf[b].st
    BY <1>4, <2>1, <2>2 DEF Same
  <2> HIDE DEF k, x
  <2>6. Within(k, store[buf[c].st])
    BY <1>3, <2>3, <2>4 DEF Within
  <2> QED BY <1>2, <2>4, <2>5, <2>6, BothGood
<1>6. CASE ReadTo(c, b, len)
  <2> DEFINE src == [buf[c] EXCEPT !.rbeg = buf[c].rend, !.rend = buf[c].wbeg]
             w == WBuf(b, c, src, len)
             sz == buf[c].wbeg - buf[c].rend
             r == buf[c].wbeg - (sz - w.n)
             x == Seek(w.x, [w.x.b EXCEPT !.rend = w.x.b.wbeg])
             y == [buf[c] EXCEPT !.rbeg = r, !.rend = r]
             y0 == [buf[c] EXCEPT !.rbeg = buf[c].rend]
  <2>1. w.n >= 0 /\ IF sz = 0 THEN UNCHANGED store /\ buf' = [buf EXCEPT ![c] = y0] ELSE Both(b, x, c, y)
    BY <1>6 DEF ReadTo
  <2>2. src.rbeg = buf[c].rend /\ src.rend = buf[c].wbeg
    BY <1>3 DEF BufRec
  <2> HIDE DEF src
  <2>3. Good(w.x) /\ Same(At(b), w.x) /\ (w.n \in 0 .. (src.rend - src.rbeg) \/ w.n = 0 - 12)
    <3>1. src.rbeg \in Int /\ src.rend \in Int /\ src.rbeg <= src.rend
      BY <1>3, <2>2 DEF Within
    <3> QED BY <1>2, <3>1, WBufGood
  <2> HIDE DEF w
  <2>4. r \in Int /\ buf[c].rend <= r /\ r <= buf[c].wbeg
    BY <1>3, <2>1, <2>2, <2>3
  <2> HIDE DEF r
  <2>5. CASE sz = 0
    <3>1. /\ y0 \in BufRec /\ y0.st = buf[c].st /\ y0.rbeg = buf[c].rend /\ y0.rend = buf[c].rend
          /\ y0.wbeg = buf[c].wbeg /\ y0.size = buf[c].size
      BY <1>3 DEF BufRec
    <3>2. UNCHANGED store /\ buf' = [buf EXCEPT ![c] = y0]
      BY <2>1, <2>5
    <3> HIDE DEF y0
    <3>3. Within(y0, store[buf[c].st])
      BY <1>3, <3>1 DEF Within
    <3>4. buf[c].st \in Buf /\ At(c).s = store[buf[c].st]
      BY <1>2, AtGood
    <3>5. Becomes(c, Seek(At(c), y0))
      BY <3>1, <3>2, <3>4 DEF Becomes, Seek, Stored
    <3> QED BY <1>2, <3>1, <3>3, <3>5, SeekGood
  <2>6. CASE sz # 0
    <3> DEFINE k == [w.x.b EXCEPT !.rend = w.x.b.wbeg]
    <3>1. /\ y \in BufRec /\ y.st = buf[c].st /\ y.rbeg = r /\ y.rend = r
          /\ y.wbeg = buf[c].wbeg /\ y.size = buf[c].size
      BY <1>3, <2>4 DEF BufRec
    <3>2. Both(b, x, c, y)
      BY <2>1, <2>6
    <3>3. w.x.b \in BufRec /\ Within(w.x.b, w.x.s) /\ w.x.b.wbeg \in Int /\ w.x.b.rend \in Int /\ w.x.b.rbeg \in Int
      BY <2>3 DEF Good, BufRec
    <3>4. /\ k \in BufRec /\ k.st = w.x.b.st /\ k.rbeg = w.x.b.rbeg /\ k.rend = w.x.b.wbeg
          /\ k.wbeg = w.x.b.wbeg /\ k.size = w.x.b.size
      BY <3>3 DEF BufRec
    <3>5. x.b = k /\ x.s = w.x.s
      BY DEF Seek
    <3> HIDE DEF k, x, y
    <3>6. Within(k, w.x.s)
      BY <3>3, <3>4 DEF Within
    <3>7. Good(x) /\ x.b.st = buf[b].st
      BY <1>4, <2>3, <3>4, <3>5, <3>6 DEF Good, Same
    <3>8. Within(y, store[buf[c].st])
      BY <1>3, <2>4, <3>1 DEF Within
    <3> QED BY <1>2, <3>1, <3>2, <3>7, <3>8, BothGood
  <2> QED BY <2>5, <2>6
<1> QED BY <1>1, <1>5, <1>6

-----------------------------------------------------------------------------
(* Creation and deletion.                                                  *)

LEMMA FreshGood ==
  ASSUME CInv, Stored, NEW b \in Buf, ~Live(b), NEW st \in FreeStores(b), NEW x, Good(x),
         x.b.st = st, Becomes(b, x)
  PROVE  Stored'
<1>1. /\ st \in Buf /\ store[st].refc = 0
      /\ x.b \in BufRec /\ Sound(x.s) /\ x.s \in StRec /\ Within(x.b, x.s)
  BY DEF FreeStores, Good, Sound
<1>2. Users(st) = {}
  BY <1>1, FS_EmptySet DEF CInv, Counted
<1>3. /\ buf' \in [Buf -> {None} \cup BufRec] /\ buf'[b] = x.b
      /\ \A a \in Buf : a # b => buf'[a] = buf[a]
  BY <1>1 DEF Becomes, Stored
<1>4. /\ store' \in [Buf -> StRec] /\ store'[st] = x.s
      /\ \A s \in Buf : s # st => store'[s] = store[s]
  BY <1>1 DEF Becomes, Stored
<1>5. ASSUME NEW a \in Buf, Live(a)' PROVE Within(buf'[a], store'[buf'[a].st])
  <2>1. CASE a = b
    BY <1>1, <1>3, <1>4, <2>1
  <2>2. CASE a # b
    <3>1. Live(a) /\ buf'[a] = buf[a] /\ buf[a].st \in Buf
      BY <1>3, <1>5, <2>2 DEF Live, CInv, Shaped
    <3>2. buf[a].st # st
      BY <1>2, <3>1 DEF Users
    <3> QED BY <1>4, <3>1, <3>2 DEF Stored
  <2> QED BY <2>1, <2>2
<1>6. \A s \in Buf : Sound(store'[s])
  BY <1>1, <1>4 DEF Stored
<1> QED BY <1>3, <1>4, <1>5, <1>6 DEF Stored

LEMMA FreeGood ==
  Free \in StRec /\ Free.mem = <<>> /\ Free.alloc = 0 /\ Free.maxs = 0 /\ Free.oob = FALSE
<1>1. PICK e \in Seq(Byte) : e = <<>>
  BY EmptySeq
<1>2. LET f == [mem |-> e, alloc |-> 0, maxs |-> 0, const |-> FALSE, refc |-> 0, oob |-> FALSE] IN
      f \in StRec /\ f.mem = e /\ f.alloc = 0 /\ f.maxs = 0 /\ f.oob = FALSE
  BY DEF StRec
<1> QED BY <1>1, <1>2 DEF Free

LEMMA FirstGood ==
  ASSUME CInv, Stored, NEW b \in Buf, ~Live(b), NEW st \in FreeStores(b),
         NEW r \in Nat, NEW n \in Nat, r <= n,
         NEW s \in StRec, Len(s.mem) = r, s.alloc = n + 1, s.maxs = n, s.oob = FALSE,
         Becomes(b, [b |-> Cursors(st, r, r, n), s |-> s])
  PROVE  Stored'
<1> DEFINE k == Cursors(st, r, r, n)
           x == [b |-> k, s |-> s]
<1>2. st \in Buf
  BY DEF FreeStores
<1>3. k \in BufRec /\ k.st = st /\ k.rbeg = 0 /\ k.rend = r /\ k.wbeg = r /\ k.size = n
  BY <1>2 DEF Cursors, BufRec
<1>4. Becomes(b, x) /\ x.b = k /\ x.s = s
  OBVIOUS
<1> HIDE DEF k, x
<1>5. Sound(s) /\ Within(k, s)
  BY <1>3 DEF Sound, Within
<1> QED BY <1>3, <1>4, <1>5, FreshGood DEF Good

LEMMA NewGood ==
  ASSUME CInv, Stored, NEW b \in Buf, NEW n \in Nat, New(b, n)
  PROVE  Stored'
<1>1. PICK st \in FreeStores(b) :
        /\ ~Live(b)
        /\ Becomes(b, [b |-> Cursors(st, 0, 0, n),
                       s |-> [Free EXCEPT !.alloc = n + 1, !.maxs = n, !.refc = 1]])
  BY DEF New, Idle
<1> DEFINE s == [Free EXCEPT !.alloc = n + 1, !.maxs = n, !.refc = 1]
<1>2. s \in StRec /\ s.mem = Free.mem /\ s.alloc = n + 1 /\ s.maxs = n /\ s.oob = Free.oob
  <2>1. PICK a \in Nat, u \in Nat : a = n + 1 /\ u = 1
    OBVIOUS
  <2>2. LET j == [Free EXCEPT !.alloc = a, !.maxs = n, !.refc = u] IN
        j \in StRec /\ j.mem = Free.mem /\ j.alloc = a /\ j.maxs = n /\ j.oob = Free.oob
    BY FreeGood DEF StRec
  <2> QED BY <2>1, <2>2
<1>3. Len(s.mem) = 0 /\ s.oob = FALSE
  BY <1>2, FreeGood, EmptySeq
<1>4. PICK z \in Nat : z = 0
  OBVIOUS
<1>5. Becomes(b, [b |-> Cursors(st, z, z, n), s |-> s]) /\ z <= n
  BY <1>1, <1>4
<1> HIDE DEF s
<1> QED BY <1>1, <1>2, <1>3, <1>4, <1>5, FirstGood

LEMMA NewDGood ==
  ASSUME CInv, Stored, NEW b \in Buf, NEW d \in Seq(Byte), NEW m, m = "dup", NEW r, NewD(b, d, m, r)
  PROVE  Stored'
<1> DEFINE n == Len(d)
           t == IF r THEN d ELSE <<>>
           f == m = "const"
           s == [Free EXCEPT !.mem = t, !.alloc = n + 1, !.maxs = n, !.const = f, !.refc = 1]
<1>1. PICK st \in FreeStores(b) :
        /\ ~Live(b)
        /\ Becomes(b, [b |-> IF r THEN Cursors(st, n, n, n) ELSE Cursors(st, 0, 0, n), s |-> s])
  BY DEF NewD, Idle
<1>2. n \in Nat /\ t \in Seq(Byte) /\ f \in BOOLEAN
  BY EmptySeq
<1>3. Len(t) = IF r THEN n ELSE 0
  BY EmptySeq
<1> HIDE DEF n, t, f
<1>4. s \in StRec /\ s.mem = t /\ s.alloc = n + 1 /\ s.maxs = n /\ s.oob = Free.oob
  <2>1. PICK a \in Nat, u \in Nat : a = n + 1 /\ u = 1
    BY <1>2
  <2>2. LET j == [Free EXCEPT !.mem = t, !.alloc = a, !.maxs = n, !.const = f, !.refc = u] IN
        j \in StRec /\ j.mem = t /\ j.alloc = a /\ j.maxs = n /\ j.oob = Free.oob
    BY <1>2, FreeGood DEF StRec
  <2> QED BY <2>1, <2>2
<1>5. s.oob = FALSE
  BY <1>4, FreeGood
<1> HIDE DEF s
<1>6. CASE r
  <2>1. Becomes(b, [b |-> Cursors(st, n, n, n), s |-> s]) /\ Len(s.mem) = n /\ n <= n
    BY <1>1, <1>2, <1>3, <1>4, <1>6
  <2> QED BY <1>1, <1>2, <1>4, <1>5, <2>1, FirstGood
<1>7. CASE ~r
  <2>1. PICK z \in Nat : z = 0
    OBVIOUS
  <2>2. Becomes(b, [b |-> Cursors(st, z, z, n), s |-> s]) /\ Len(s.mem) = z /\ z <= n
    BY <1>1, <1>2, <1>3, <1>4, <1>7, <2>1
  <2> QED BY <1>1, <1>2, <1>4, <1>5, <2>2, FirstGood
<1> QED BY <1>6, <1>7

LEMMA ViewGood ==
  ASSUME CInv, Stored, NEW b \in Buf, NEW c \in Buf, NewR(b, c)
  PROVE  Stored'
<1> DEFINE st == buf[c].st
           k == [buf[c] EXCEPT !.wbeg = buf[c].rend, !.size = buf[c].rend]
           z == [store[st] EXCEPT !.refc = @ + 1]
<1>1. ~Live(b) /\ Live(c) /\ Becomes(b, [b |-> k, s |-> z])
  BY DEF NewR, Idle
<1>2. /\ buf[c] \in BufRec /\ buf[c].rbeg \in Int /\ buf[c].rend \in Int /\ buf[c].wbeg \in Int
      /\ buf[c].size \in Int /\ Within(buf[c], store[st]) /\ Sound(store[st]) /\ st \in Buf
      /\ store[st].alloc \in Nat /\ Len(store[st].mem) \in Nat /\ store[st] \in StRec
  BY <1>1, AtGood DEF BufRec, Sound, StRec
<1>3. /\ k \in BufRec /\ k.st = st /\ k.rbeg = buf[c].rbeg /\ k.rend = buf[c].rend
      /\ k.wbeg = buf[c].rend /\ k.size = buf[c].rend
  BY <1>2 DEF BufRec
<1>4. /\ z \in StRec /\ z.mem = store[st].mem /\ z.alloc = store[st].alloc
      /\ z.maxs = store[st].maxs /\ z.oob = store[st].oob
  <2>1. PICK u \in Nat : u = store[st].refc + 1
    BY <1>2 DEF StRec
  <2>2. LET j == [store[st] EXCEPT !.refc = u] IN
        /\ j \in StRec /\ j.mem = store[st].mem /\ j.alloc = store[st].alloc
        /\ j.maxs = store[st].maxs /\ j.oob = store[st].oob
    BY <1>2 DEF StRec
  <2>3. z = [store[st] EXCEPT !.refc = u]
    BY <2>1
  <2> QED BY <2>2, <2>3
<1>5. buf' = [buf EXCEPT ![b] = k] /\ store' = [store EXCEPT ![st] = z]
  BY <1>1, <1>3 DEF Becomes
<1> HIDE DEF k, z, st
<1>6. Within(k, z) /\ Sound(z)
  BY <1>2, <1>3, <1>4 DEF Within, Sound
<1>7. /\ buf' \in [Buf -> {None} \cup BufRec] /\ buf'[b] = k
      /\ \A a \in Buf : a # b => buf'[a] = buf[a]
  BY <1>3, <1>5 DEF Stored
<1>8. /\ store' \in [Buf -> StRec] /\ store'[st] = z
      /\ \A s \in Buf : s # st => store'[s] = store[s]
  BY <1>2, <1>4, <1>5 DEF Stored
<1>9. ASSUME NEW a \in Buf, Live(a)' PROVE Within(buf'[a], store'[buf'[a].st])
  <2>1. CASE a = b
    BY <1>3, <1>6, <1>7, <1>8, <2>1
  <2>2. CASE a # b
    <3>1. Live(a) /\ buf'[a] = buf[a] /\ buf[a].st \in Buf /\ Within(buf[a], store[buf[a].st])
      BY <1>7, <1>9, <2>2 DEF Live, CInv, Shaped, Stored
    <3>2. Within(buf[a], store'[buf[a].st])
      BY <1>4, <1>8, <3>1 DEF Within
    <3> QED BY <3>1, <3>2
  <2> QED BY <2>1, <2>2
<1>10. \A s \in Buf : Sound(store'[s])
  BY <1>6, <1>8 DEF Stored
<1> QED BY <1>7, <1>8, <1>9, <1>10 DEF Stored

LEMMA DelGood ==
  ASSUME CInv, Stored, NEW b \in Buf, Del(b)
  PROVE  Stored'
<1> DEFINE st == buf[b].st
           z0 == [Free EXCEPT !.oob = store[st].oob]
           z1 == [store[st] EXCEPT !.refc = @ - 1]
           z == IF store[st].refc = 1 THEN z0 ELSE z1
<1>1. Live(b)
  BY DEF Del, Usable
<1>2. /\ st \in Buf /\ Sound(store[st]) /\ store[st] \in StRec /\ store[st].refc \in Nat
      /\ store[st].oob = FALSE
  BY <1>1, AtGood DEF Sound, StRec
<1>3. store[st].refc # 0
  <2>1. Users(st) # {} /\ IsFiniteSet(Users(st)) /\ store[st].refc = Cardinality(Users(st))
    BY <1>1, <1>2 DEF Users, CInv, Counted
  <2> QED BY <2>1, FS_EmptySet
<1>4. Sound(z0)
  <2>1. z0 \in StRec /\ z0.maxs = Free.maxs /\ z0.alloc = Free.alloc /\ z0.oob = store[st].oob
    BY <1>2, FreeGood DEF StRec
  <2> HIDE DEF z0
  <2> QED BY <1>2, <2>1, FreeGood DEF Sound
<1>5. /\ z1 \in StRec /\ z1.mem = store[st].mem /\ z1.alloc = store[st].alloc
      /\ z1.maxs = store[st].maxs /\ z1.oob = store[st].oob
  BY <1>2, <1>3 DEF StRec
<1>6. buf' = [buf EXCEPT ![b] = None] /\ store' = [store EXCEPT ![st] = z]
  BY DEF Del
<1> HIDE DEF z0, z1, st
<1>7. Sound(z) /\ z \in StRec
  BY <1>2, <1>4, <1>5 DEF Sound
<1>8. /\ buf' \in [Buf -> {None} \cup BufRec] /\ buf'[b] = None
      /\ \A a \in Buf : a # b => buf'[a] = buf[a]
  BY <1>6 DEF Stored
<1>9. /\ store' \in [Buf -> StRec] /\ store'[st] = z
      /\ \A s \in Buf : s # st => store'[s] = store[s]
  BY <1>2, <1>6, <1>7 DEF Stored
<1>10. ASSUME NEW a \in Buf, Live(a)' PROVE Within(buf'[a], store'[buf'[a].st])
  <2>1. Live(a) /\ a # b /\ buf'[a] = buf[a] /\ buf[a].st \in Buf /\ Within(buf[a], store[buf[a].st])
    BY <1>8, <1>10 DEF Live, CInv, Shaped, Stored
  <2>2. CASE buf[a].st # st
    BY <1>9, <2>1, <2>2
  <2>3. CASE buf[a].st = st
    <3>1. store[st].refc # 1
      BY <1>1, <2>1, <2>3, OnlyUser DEF st
    <3>2. store'[buf[a].st] = z1
      BY <1>9, <2>3, <3>1
    <3>3. Within(buf[a], z1)
      BY <1>5, <2>1, <2>3 DEF Within
    <3> QED BY <2>1, <3>2, <3>3
  <2> QED BY <2>2, <2>3
<1>11. \A s \in Buf : Sound(store'[s])
  BY <1>7, <1>9 DEF Stored
<1> QED BY <1>8, <1>9, <1>10, <1>11 DEF Stored

-----------------------------------------------------------------------------
(* read_until.                                                             *)

LEMMA ToEndGood ==
  ASSUME NEW x, Good(x)
  PROVE  LET y == Seek(x, [x.b EXCEPT !.rend = x.b.wbeg]) IN
         /\ Good(y) /\ y.b.rend = y.b.wbeg /\ y.b.wbeg = x.b.wbeg /\ y.b.size = x.b.size
<1> DEFINE k == [x.b EXCEPT !.rend = x.b.wbeg]
           y == Seek(x, k)
<1>1. /\ x.b \in BufRec /\ Within(x.b, x.s) /\ x.b.wbeg \in Int /\ x.b.rend \in Int /\ x.b.rbeg \in Int
      /\ Sound(x.s)
  BY DEF Good, BufRec
<1>2. /\ k \in BufRec /\ k.rbeg = x.b.rbeg /\ k.rend = x.b.wbeg /\ k.wbeg = x.b.wbeg /\ k.size = x.b.size
  BY <1>1 DEF BufRec
<1>3. y.b = k /\ y.s = x.s
  BY DEF Seek
<1> HIDE DEF k
<1>4. Within(k, x.s)
  BY <1>1, <1>2 DEF Within
<1>5. Good(y)
  BY <1>1, <1>2, <1>3, <1>4 DEF Good
<1> QED BY <1>2, <1>3, <1>5 DEF k

LEMMA FoundGood ==
  ASSUME NEW x, Good(x), x.b.rend = x.b.wbeg, NEW left \in Nat, CFind(x, left) >= 0
  PROVE  Good(Found(x, CFind(x, left)))
<1> DEFINE i == CFind(x, left)
           e == x.b.rbeg + i + Len(Until)
           k == [x.b EXCEPT !.rend = e]
<1>1. /\ x.b \in BufRec /\ Within(x.b, x.s) /\ x.b.wbeg \in Int /\ x.b.rend \in Int /\ x.b.rbeg \in Int
      /\ Sound(x.s) /\ x.s.mem \in Seq(Byte) /\ x.b.rbeg <= x.b.rend
  BY DEF Good, BufRec, Sound, StRec, Within
<1>2. i \in Int /\ i >= 0 /\ i + Len(Until) <= x.b.rend - x.b.rbeg
  BY <1>1, CFindGood
<1>3. Len(Until) \in Nat
  BY DataAssumption
<1>4. Found(x, i) = [b |-> k, s |-> x.s]
  BY DEF Found, Seek
<1> HIDE DEF i
<1>5. e \in Int /\ x.b.rbeg <= e /\ e <= x.b.wbeg
  BY <1>1, <1>2, <1>3
<1> HIDE DEF e
<1>6. /\ k \in BufRec /\ k.rbeg = x.b.rbeg /\ k.rend = e /\ k.wbeg = x.b.wbeg /\ k.size = x.b.size
  BY <1>1, <1>5 DEF BufRec
<1> HIDE DEF k
<1>7. Within(k, x.s)
  BY <1>1, <1>5, <1>6 DEF Within
<1>8. Good(Found(x, i))
  BY <1>1, <1>4, <1>6, <1>7 DEF Good
<1> QED BY <1>8 DEF i

LEMMA PrepGood ==
  ASSUME CInv, Stored, NEW b \in Buf, NEW kind \in Reads, NEW max \in {1, Batch + 1},
         UntilPrep(b, kind, max)
  PROVE  Stored' /\ Waits'
<1> DEFINE e == Seek(At(b), [buf[b] EXCEPT !.rend = buf[b].wbeg])
           more == Slack(b) # <<>>
           x == IF more THEN e ELSE At(b)
           i == IF more THEN CFind(e, 0) ELSE 0 - 1
           n == Smaller(max, Batch)
           w == ResizeW(x, n)
           flag == IF more THEN x.b.rend - x.b.rbeg ELSE 0
           room == w.x.b.size - w.x.b.wbeg
<1>1. Live(b) /\ store[buf[b].st].refc = 1
  BY DEF UntilPrep, Writable, Usable
<1>2. \/ i >= 0 /\ Becomes(b, Found(x, i)) /\ op' = [st |-> "done", b |-> b, ret |-> "found"]
      \/ /\ Becomes(b, w.x)
         /\ \/ op' = [st |-> "done", b |-> b, ret |-> "error"]
            \/ op' = [st |-> "wait", b |-> b, kind |-> kind, max |-> max, total |-> 0,
                      flag |-> flag, room |-> room]
  BY DEF UntilPrep
<1>3. Good(e) /\ e.b.rend = e.b.wbeg /\ Same(At(b), e)
  <2>1. Good(At(b)) /\ Rec(At(b)) /\ At(b).b = buf[b]
    BY <1>1, AtGood, AtRec
  <2> DEFINE y == At(b)
  <2>2. e = Seek(y, [y.b EXCEPT !.rend = y.b.wbeg])
    BY <2>1
  <2> HIDE DEF y, e
  <2>3. Good(y) /\ Rec(y)
    BY <2>1 DEF y
  <2>4. Good(e) /\ e.b.rend = e.b.wbeg
    BY <2>2, <2>3, ToEndGood
  <2>5. Same(y, e)
    BY <2>2, <2>3, FoundSame
  <2> QED BY <2>4, <2>5 DEF y
<1> HIDE DEF e, more
<1>4. Good(x) /\ Same(At(b), x) /\ (i >= 0 => more)
  BY <1>1, <1>3, AtGood, AtRec
<1>5. n \in Nat /\ max \in Nat /\ 0 < max
  BY SizeAssumption DEF Smaller
<1>6. CASE i >= 0 /\ Becomes(b, Found(x, i)) /\ op' = [st |-> "done", b |-> b, ret |-> "found"]
  <2> DEFINE y == Found(x, i)
  <2>1. x = e /\ i = CFind(e, 0)
    BY <1>4, <1>6
  <2>2. PICK z \in Nat : z = 0
    OBVIOUS
  <2>3. Good(Found(e, CFind(e, z)))
    BY <1>3, <1>6, <2>1, <2>2, FoundGood
  <2>4. Good(y) /\ Becomes(b, y)
    BY <1>6, <2>1, <2>2, <2>3
  <2>5. y.b.st = buf[b].st
    <3>1. Same(e, y)
      BY <1>3, <2>1, FoundSame DEF Same
    <3> QED BY <1>1, <1>3, <3>1, AtGood DEF Same
  <2> HIDE DEF y
  <2>6. Stored'
    BY <1>1, <2>4, <2>5, BecomesGood
  <2>7. op'.st = "done"
    BY <1>6
  <2> QED BY <2>6, <2>7 DEF Waits
<1>7. CASE Becomes(b, w.x)
  <2> HIDE DEF x, n
  <2>1. Good(w.x) /\ Same(At(b), w.x)
    <3>1. Good(w.x)
      BY <1>4, <1>5, ResizeWGood
    <3>2. Same(x, w.x)
      BY <1>4, ResizeWSame DEF Same
    <3> QED BY <1>4, <3>1, <3>2 DEF Same
  <2> DEFINE y == w.x
  <2>2. Good(y) /\ Same(At(b), y) /\ Becomes(b, y)
    BY <1>7, <2>1
  <2>3. room = y.b.size - y.b.wbeg
    OBVIOUS
  <2> HIDE DEF y, w, room, flag
  <2>4. y.b.st = buf[b].st /\ y.s.refc = 1
    BY <1>1, <2>2, AtGood DEF Same
  <2>5. Stored'
    BY <1>1, <2>2, <2>4, BecomesGood
  <2>6. buf'[b] = y.b /\ store'[buf'[b].st] = y.s
    BY <1>1, <2>2, <2>4, AtGood DEF Becomes, Stored
  <2>7. room \in Int /\ flag \in Int
    <3>1. y.b.size \in Int /\ y.b.wbeg \in Int /\ x.b.rend \in Int /\ x.b.rbeg \in Int
      BY <1>4, <2>2 DEF Good, BufRec
    <3> QED BY <2>3, <3>1 DEF flag
  <2>8. CASE op' = [st |-> "wait", b |-> b, kind |-> kind, max |-> max, total |-> 0,
                    flag |-> flag, room |-> room]
    <3>1. PICK z \in Nat : z = 0
      OBVIOUS
    <3>2. [st |-> "wait", b |-> b, kind |-> kind, max |-> max, total |-> z,
           flag |-> flag, room |-> room] \in WaitRec
      BY <1>5, <2>7 DEF WaitRec
    <3>3. op' \in WaitRec /\ op'.b = b /\ op'.st = "wait" /\ op'.room = room /\ op'.total = 0 /\ op'.max = max
      BY <2>8, <3>1, <3>2
    <3> QED BY <1>5, <2>3, <2>4, <2>5, <2>6, <3>3 DEF Waits
  <2>9. CASE op' = [st |-> "done", b |-> b, ret |-> "error"]
    <3>1. op'.st = "done"
      BY <2>9
    <3> QED BY <2>5, <3>1 DEF Waits
  <2>10. CASE i >= 0 /\ Becomes(b, Found(x, i)) /\ op' = [st |-> "done", b |-> b, ret |-> "found"]
    BY <1>6, <2>10 DEF x
  <2> QED BY <1>2, <2>8, <2>9, <2>10 DEF w, room, flag
<1> QED BY <1>2, <1>6, <1>7

LEMMA ReceivedGood ==
  ASSUME op.room \in Nat, NEW d \in Received
  PROVE  d \in Seq(Byte) /\ Len(d) <= op.room /\ Len(d) \in Nat
<1>1. CASE d = <<>>
  BY <1>1, EmptySeq
<1>2. CASE d # <<>>
  <2>1. PICK n \in 0 .. op.room : d \in [1 .. n -> {Cr, Lf}]
    BY <1>2 DEF Received
  <2>2. {Cr, Lf} \subseteq Byte
    BY DEF Byte
  <2>3. \A j \in 1 .. n : d[j] \in Byte
    BY <2>1, <2>2
  <2>4. d = [j \in 1 .. n |-> d[j]] /\ n \in Nat
    BY <2>1
  <2>5. [j \in 1 .. n |-> d[j]] \in Seq(Byte) /\ Len([j \in 1 .. n |-> d[j]]) = n
    BY <2>3, <2>4
  <2> QED BY <2>1, <2>4, <2>5
<1> QED BY <1>1, <1>2

LEMMA PostGood ==
  ASSUME BInv, op.st = "wait", NEW d \in Received, UntilPost(d)
  PROVE  Stored' /\ Waits'
<1>1. PICK b \in Buf : b = op.b
  BY DEF BInv, Held
<1> DEFINE x == Store(At(b), d)
           y == Seek(x, [x.b EXCEPT !.rend = x.b.wbeg])
           total == op.total + Len(d)
           i == CFind(y, ScanFrom)
           n == Smaller(op.max - total, Batch)
           w == ResizeW(y, n)
           room == w.x.b.size - w.x.b.wbeg
<1>2. /\ CInv /\ Stored /\ Live(b) /\ store[buf[b].st].refc = 1 /\ op \in WaitRec
      /\ op.room = buf[b].size - buf[b].wbeg
  BY <1>1 DEF BInv, Held, Waits
<1>3. /\ op.max \in Nat /\ op.total \in Nat /\ op.flag \in Int /\ op.room \in Nat
  <2>1. buf[b].size \in Int /\ buf[b].wbeg \in Int /\ buf[b].wbeg <= buf[b].size
    BY <1>2, AtGood DEF BufRec, Within
  <2> QED BY <1>2, <2>1 DEF WaitRec
<1>4. d \in Seq(Byte) /\ Len(d) <= op.room /\ Len(d) \in Nat
  BY <1>3, ReceivedGood
<1>5. \/ UNCHANGED <<buf, store>> /\ \E r : Finish(r)
      \/ i >= 0 /\ Becomes(b, Found(y, i)) /\ \E r : Finish(r)
      \/ Becomes(b, y) /\ \E r : Finish(r)
      \/ /\ total < op.max /\ Becomes(b, w.x)
         /\ \/ \E r : Finish(r)
            \/ op' = [op EXCEPT !.total = total, !.flag = total, !.room = room]
  <2>1. ~(total >= op.max) => total < op.max
    BY <1>3, <1>4
  <2> QED BY <1>1, <2>1, Zenon DEF UntilPost
<1>6. Good(y) /\ y.b.rend = y.b.wbeg /\ Same(At(b), y)
  <2>1. Good(At(b)) /\ Rec(At(b)) /\ Len(d) <= At(b).b.size - At(b).b.wbeg
    BY <1>2, <1>4, AtGood, AtRec
  <2>2. Good(x) /\ Same(At(b), x)
    BY <1>4, <2>1, StoreGood, StoreSame
  <2> HIDE DEF x
  <2>3. Good(y) /\ y.b.rend = y.b.wbeg
    BY <2>2, ToEndGood
  <2>4. Same(x, y)
    BY <2>2, FoundSame DEF Same
  <2> HIDE DEF y
  <2> QED BY <2>2, <2>3, <2>4 DEF Same
<1>7. ScanFrom \in Nat
  <2>1. Len(Until) \in Nat
    BY DataAssumption
  <2> QED BY <1>3, <2>1 DEF ScanFrom, Larger
<1> HIDE DEF y
<1>8. ASSUME NEW r, Finish(r) PROVE Stored' => Waits'
  BY <1>8 DEF Finish, Waits
<1>9. CASE UNCHANGED <<buf, store>> /\ \E r : Finish(r)
  <2>1. Stored'
    BY <1>2, <1>9 DEF Stored, Live
  <2> QED BY <1>8, <1>9, <2>1
<1>10. CASE i >= 0 /\ Becomes(b, Found(y, i)) /\ \E r : Finish(r)
  <2> DEFINE z == Found(y, i)
  <2>1. Good(z)
    BY <1>6, <1>7, <1>10, FoundGood
  <2>2. Same(y, z)
    BY <1>6, FoundSame DEF Same
  <2>3. Becomes(b, z)
    BY <1>10
  <2> HIDE DEF z
  <2>4. z.b.st = buf[b].st
    BY <1>2, <1>6, <2>2, AtGood DEF Same
  <2>5. Stored'
    BY <1>2, <2>1, <2>3, <2>4, BecomesGood
  <2> QED BY <1>8, <1>10, <2>5
<1>11. CASE Becomes(b, y) /\ \E r : Finish(r)
  <2>1. y.b.st = buf[b].st
    BY <1>2, <1>6, AtGood DEF Same
  <2>2. Stored'
    BY <1>2, <1>6, <1>11, <2>1, BecomesGood
  <2> QED BY <1>8, <1>11, <2>2
<1>12. CASE /\ total < op.max /\ Becomes(b, w.x)
            /\ \/ \E r : Finish(r)
               \/ op' = [op EXCEPT !.total = total, !.flag = total, !.room = room]
  <2>1. n \in Nat /\ total \in Nat
    <3>1. total \in Nat
      BY <1>3, <1>4
    <3>2. op.max - total \in Nat
      BY <1>3, <1>12, <3>1
    <3> QED BY <3>1, <3>2, SizeAssumption DEF Smaller
  <2> HIDE DEF n
  <2> DEFINE z == w.x
  <2>2. Good(z) /\ Same(y, z) /\ Becomes(b, z)
    <3>1. Good(w.x)
      BY <1>6, <2>1, ResizeWGood
    <3>2. Same(y, w.x)
      BY <1>6, ResizeWSame DEF Same
    <3> QED BY <1>12, <3>1, <3>2
  <2>3. room = z.b.size - z.b.wbeg
    OBVIOUS
  <2> HIDE DEF z, w, room
  <2>4. z.b.st = buf[b].st /\ z.s.refc = 1
    BY <1>2, <1>6, <2>2, AtGood DEF Same
  <2>5. Stored'
    BY <1>2, <2>2, <2>4, BecomesGood
  <2>6. buf'[b] = z.b /\ store'[buf'[b].st] = z.s
    BY <1>2, <2>2, <2>4, AtGood DEF Becomes, Stored
  <2>7. room \in Int
    BY <2>2, <2>3 DEF Good, BufRec
  <2>8. CASE op' = [op EXCEPT !.total = total, !.flag = total, !.room = room]
    <3> HIDE DEF total
    <3>1. op \in WaitRec /\ total \in Nat /\ total \in Int /\ room \in Int
      BY <1>1, <1>2, <2>1, <2>7
    <3>2. LET o == [op EXCEPT !.total = total, !.flag = total, !.room = room] IN
          o \in WaitRec /\ o.b = op.b /\ o.st = op.st /\ o.room = room /\ o.total = total /\ o.max = op.max
      BY <3>1 DEF WaitRec
    <3>3. op'.b = b
      BY <1>1, <2>8, <3>2
    <3> QED BY <1>1, <1>12, <2>3, <2>4, <2>5, <2>6, <2>8, <3>2, <3>3 DEF Waits
  <2>9. CASE \E r : Finish(r)
    BY <1>8, <2>5, <2>9
  <2> QED BY <1>12, <2>8, <2>9 DEF room, w
<1> QED BY <1>5, <1>9, <1>10, <1>11, <1>12

LEMMA CreateGood ==
  ASSUME CInv, Stored, Modes \subseteq {"dup"}, NEW b \in Buf, Create(b) \/ CreatePeer(b)
  PROVE  Stored'
<1>1. ASSUME NEW n \in {0, 2}, New(b, n) PROVE Stored'
  <2>1. n \in Nat
    BY <1>1
  <2> QED BY <1>1, <2>1, NewGood
<1>2. ASSUME NEW d \in Data, NEW m \in Modes, NEW r \in BOOLEAN, NewD(b, d, m, r) PROVE Stored'
  <2>1. d \in Seq(Byte) /\ m = "dup"
    BY <1>2, DataAssumption
  <2> QED BY <1>2, <2>1, NewDGood
<1>3. ASSUME NEW c \in Buf, NEW p, Dup(b, c, p) PROVE Stored'
  <2> DEFINE d == IF p = "r" THEN Span(At(c), buf[c].rbeg, buf[c].rend)
                             ELSE Span(At(c), buf[c].rend, buf[c].wbeg)
  <2>1. Live(c) /\ (New(b, 0) \/ NewD(b, d, "dup", TRUE))
    BY <1>3, Zenon DEF Dup
  <2>2. /\ At(c).s.mem \in Seq(Byte)
        /\ buf[c].rbeg \in Int /\ buf[c].rend \in Int /\ buf[c].wbeg \in Int
    BY <2>1, AtGood DEF Sound, StRec, BufRec
  <2>3. d \in Seq(Byte)
    BY <2>2, SpanGood
  <2> HIDE DEF d
  <2>4. ASSUME NEW m, m = "dup", NEW r, NewD(b, d, m, r) PROVE Stored'
    BY <2>3, <2>4, NewDGood
  <2> QED BY <1>1, <2>1, <2>4
<1> QED BY <1>1, <1>2, <1>3, ViewGood DEF Create, CreatePeer

(* Nobody touches the buffer that read_until has.                           *)
LEMMA WaiterApart ==
  ASSUME CInv, NEW a \in Buf, Live(a), a = op.b, op.st # "idle", store[buf[a].st].refc = 1,
         NEW b \in Buf, Live(b), Del(b) \/ Copy(b) \/ Fetch(b) \/ Edit(b)
  PROVE  buf'[a] = buf[a] /\ store'[buf[a].st] = store[buf[a].st] /\ buf[a].st \in Buf
<1>1. DOMAIN buf = Buf /\ DOMAIN store = Buf /\ buf[a].st \in Buf
  BY DEF CInv, Shaped
<1>2. a # b => buf[a].st # buf[b].st
  BY OnlyUser
<1>3. CASE Del(b)
  <2>1. a # b
    BY <1>3 DEF Del, Usable
  <2> QED BY <1>1, <1>2, <1>3, <2>1 DEF Del
<1>4. ASSUME NEW x, Becomes(b, x), a # b, Kept PROVE buf'[a] = buf[a] /\ store'[buf[a].st] = store[buf[a].st]
  <2>1. buf'[b] = x.b /\ buf'[a] = buf[a]
    BY <1>1, <1>4 DEF Becomes
  <2>2. x.b.st # buf[a].st
    BY <1>2, <1>4, <2>1 DEF Kept
  <2> QED BY <1>1, <1>4, <2>1, <2>2 DEF Becomes
<1>5. ASSUME NEW x, NEW c \in Buf, NEW y, Both(b, x, c, y), a # b, a # c, b # c, Kept
      PROVE  buf'[a] = buf[a] /\ store'[buf[a].st] = store[buf[a].st]
  <2>1. buf'[b] = x.b /\ buf'[a] = buf[a]
    BY <1>1, <1>5 DEF Both
  <2>2. x.b.st # buf[a].st
    BY <1>2, <1>5, <2>1 DEF Kept
  <2> QED BY <1>1, <1>5, <2>1, <2>2 DEF Both
<1>6. CASE Copy(b)
  <2>1. Kept
    BY <1>6, CopySame
  <2>2. ASSUME NEW c \in Buf, NEW n, NEW f, WBufR(b, c, n, f)
        PROVE  buf'[a] = buf[a] /\ store'[buf[a].st] = store[buf[a].st]
    <3>1. a # b /\ a # c /\ b # c
      BY <2>2 DEF WBufR, Pair, Writable, Usable
    <3>2. \E x, y : Both(b, x, c, y)
      BY <2>2, Zenon DEF WBufR
    <3> QED BY <1>5, <2>1, <3>1, <3>2
  <2>3. ASSUME NEW c \in Buf, NEW n, ReadTo(c, b, n)
        PROVE  buf'[a] = buf[a] /\ store'[buf[a].st] = store[buf[a].st]
    <3>1. a # b /\ a # c /\ b # c
      BY <2>3 DEF ReadTo, Pair, Writable, Usable
    <3>2. (\E x, y : Both(b, x, c, y)) \/ (UNCHANGED store /\ buf' = [buf EXCEPT ![c].rbeg = buf[c].rend])
      BY <2>3, Zenon DEF ReadTo
    <3>3. CASE UNCHANGED store /\ buf' = [buf EXCEPT ![c].rbeg = buf[c].rend]
      BY <1>1, <3>1, <3>3
    <3> QED BY <1>5, <2>1, <3>1, <3>2, <3>3
  <2> QED BY <1>1, <1>6, <2>2, <2>3 DEF Copy
<1>7. CASE Fetch(b) \/ Edit(b)
  <2>1. Kept
    BY <1>7, EditSame
  <2> DEFINE Done == Usable(b) /\ \E x : Becomes(b, x)
  <2>2. Done \/ (SetRecycle(b) /\ Usable(b))
    <3>1. ASSUME NEW n, Read(b, n) PROVE Done
      BY <3>1, Zenon DEF Read
    <3>2. ASSUME Fetch(b) PROVE \E n : Read(b, n)
      BY <3>2, Zenon DEF Fetch, RData, RMust, RAll, RWs, RCstr, RUntil
    <3>3. ASSUME RSeek(b) \/ ESeek(b) \/ WSeek(b) PROVE Done
      BY <3>3, Zenon DEF RSeek, ESeek, WSeek, Writable
    <3>4. ASSUME NEW d, NEW n, Write(b, d, n) PROVE Done
      BY <3>4, Zenon DEF Write, Writable
    <3>5. ASSUME NEW f, Compact(b, f) PROVE Done
      BY <3>5, Zenon DEF Compact, Writable
    <3>6. ASSUME NEW m, Reset(b, m) PROVE Done
      BY <3>6, Zenon DEF Reset, Writable
    <3>7. ASSUME Edit(b) PROVE \/ SetRecycle(b) \/ RSeek(b) \/ ESeek(b) \/ WSeek(b)
                               \/ \E d, n : Write(b, d, n)
                               \/ \E f : Compact(b, f)
                               \/ \E m : Reset(b, m)
      BY <3>7, Zenon DEF Edit, WFill, WData, WStr
    <3>8. ASSUME SetRecycle(b) PROVE Usable(b)
      BY <3>8 DEF SetRecycle
    <3> HIDE DEF Done
    <3> QED BY <1>7, <3>1, <3>2, <3>3, <3>4, <3>5, <3>6, <3>7, <3>8, Zenon
  <2>3. a # b
    BY <2>2 DEF Usable
  <2>4. CASE SetRecycle(b)
    BY <1>1, <2>3, <2>4 DEF SetRecycle
  <2> QED BY <1>1, <1>4, <2>1, <2>2, <2>3, <2>4
<1> QED BY <1>3, <1>6, <1>7

LEMMA BInvInit == Init => BInv
<1> SUFFICES ASSUME Init PROVE BInv
  OBVIOUS
<1>1. CInv /\ Held
  BY CInvInit
<1>2. \A b \in Buf : ~Live(b)
  BY DEF Init, Live
<1>3. Sound(Free)
  BY FreeGood DEF Sound
<1>4. Stored
  BY <1>2, <1>3 DEF Init, Stored, Sound
<1>5. Waits
  BY DEF Init, Waits, NoOp
<1> QED BY <1>1, <1>4, <1>5 DEF BInv

LEMMA BInvNext ==
  ASSUME BInv, Modes \subseteq {"dup"}, FullDet = FALSE, [Next]_vars
  PROVE  BInv'
<1>1. CInv' /\ Held'
  BY CInvNext DEF BInv
<1>2. CInv /\ Held /\ Stored /\ Waits
  BY DEF BInv
<1>3. ASSUME NEW b \in Buf, UNCHANGED op, Create(b) \/ CreatePeer(b) PROVE Stored' /\ Waits'
  <2>1. op.st = "idle"
    BY <1>3 DEF Create, CreatePeer, New, NewD, NewR, Dup, Idle
  <2> QED BY <1>2, <1>3, <2>1, CreateGood DEF Waits
<1>4. ASSUME NEW b \in Buf, UNCHANGED op, Live(b), Del(b) \/ Copy(b) \/ Fetch(b) \/ Edit(b)
      PROVE  Stored' /\ Waits'
  <2>1. Stored'
    BY <1>2, <1>4, DelGood, CopyGood, FetchGood, EditGood
  <2>2. op.st = "wait" => /\ op.b \in Buf /\ Live(op.b) /\ store[buf[op.b].st].refc = 1
                          /\ op.st # "idle"
    BY <1>2 DEF Held, Waits
  <2>3. op.st = "wait" => buf'[op.b] = buf[op.b] /\ store'[buf[op.b].st] = store[buf[op.b].st]
    BY <1>2, <1>4, <2>2, WaiterApart
  <2>4. Waits'
    BY <1>2, <1>4, <2>3 DEF Waits
  <2> QED BY <2>1, <2>4
<1>5. ASSUME NEW b \in Buf, NEW k \in Reads, NEW m \in {1, Batch + 1}, UntilPrep(b, k, m)
      PROVE  Stored' /\ Waits'
  BY <1>2, <1>5, PrepGood
<1>6. ASSUME op.st = "wait", NEW d \in Received, UntilPost(d) PROVE Stored' /\ Waits'
  BY <1>6, PostGood
<1>7. ASSUME UntilReturn PROVE Stored' /\ Waits'
  <2>1. UNCHANGED <<buf, store>> /\ op' = NoOp
    BY <1>7 DEF UntilReturn
  <2>2. Stored'
    BY <1>2, <2>1 DEF Stored, Live
  <2>3. Waits'
    BY <2>1 DEF Waits, NoOp
  <2> QED BY <2>2, <2>3
<1>8. ASSUME UNCHANGED vars PROVE Stored' /\ Waits'
  <2>1. UNCHANGED <<buf, store>> /\ UNCHANGED op
    BY <1>8 DEF vars
  <2>2. Stored'
    BY <1>2, <2>1 DEF Stored, Live
  <2>3. Waits'
    BY <1>2, <2>1 DEF Waits
  <2> QED BY <2>2, <2>3
<1>9. Stored' /\ Waits'
  <2>1. ASSUME Next PROVE Stored' /\ Waits'
    BY <1>3, <1>4, <1>5, <1>6, <1>7, <2>1, Zenon DEF Next
  <2> QED BY <1>8, <2>1
<1> QED BY <1>1, <1>9 DEF BInv

\* The inductive invariant of the bytes: the bytes below wbeg are there, behind the last one
\* there is room for the NUL, and a waiting read_until is alone on its storage and asks for what
\* fits.  Storages taken over from the user (dpbuf_new_d) have no room for the NUL, and readto
\* moves the cursors when its copy failed: neither is promised anything.
THEOREM BytesKept ==
  ASSUME Modes \subseteq {"dup"}, FullDet = FALSE
  PROVE  Spec => []BInv
<1>1. BInv /\ [Next]_vars => BInv'
  BY BInvNext
<1> QED BY <1>1, BInvInit, PTL DEF Spec

\* The cursors of every buffer stay in order and inside the allocation and nothing is stored
\* outside it, for any buffers, texts, delimiter, batch and size limits: the writes grow the
\* storage first, and what is read into it was made room for (_dpbuf_wcheck, _dpbuf_resize_w).
THEOREM StaysInStorage ==
  ASSUME Modes \subseteq {"dup"}, FullDet = FALSE
  PROVE  Spec => []InStorage
<1>1. ASSUME BInv PROVE InStorage
  <2>1. \A b \in Buf : Live(b) => buf[b] \in BufRec /\ buf[b].st \in Buf
    BY <1>1, AtGood DEF BInv
  <2>2. TypeOK
    BY <1>1 DEF BInv, Stored, Waits, TypeOK, BufRec, StRec
  <2>3. \A b \in Buf : Live(b) => store[buf[b].st].alloc \in Nat
    BY <1>1, <2>1 DEF BInv, Stored, StRec
  <2>4. ASSUME NEW b \in Buf, Live(b)
        PROVE  /\ 0 <= buf[b].rbeg /\ buf[b].rbeg <= buf[b].rend /\ buf[b].rend <= buf[b].wbeg
               /\ buf[b].wbeg <= buf[b].size /\ buf[b].size <= store[buf[b].st].alloc
    BY <1>1, <2>1, <2>3, <2>4 DEF BInv, Stored, Within, BufRec
  <2>5. \A s \in Buf : ~store[s].oob
    BY <1>1 DEF BInv, Stored, Sound
  <2> QED BY <2>2, <2>4, <2>5 DEF InStorage
<1> QED BY <1>1, BytesKept, PTL

-----------------------------------------------------------------------------
(* Texts.  Growing and compacting carry the bytes of a buffer along.        *)

(* y has the cursors of x, back by as much as the bytes were moved.         *)
Carried(x, y) ==
  \E o \in {0, x.b.rbeg} :
    /\ y.b.rbeg = x.b.rbeg - o /\ y.b.rend = x.b.rend - o /\ y.b.wbeg = x.b.wbeg - o
    /\ \A k \in 1 .. y.b.wbeg : y.s.mem[k] = x.s.mem[o + k]

LEMMA GoodInts ==
  ASSUME NEW x, Good(x)
  PROVE  /\ x.b.rbeg \in Int /\ x.b.rend \in Int /\ x.b.wbeg \in Int /\ x.b.size \in Int
         /\ x.s.maxs \in Nat /\ x.s.alloc \in Nat /\ x.s.mem \in Seq(Byte) /\ Len(x.s.mem) \in Nat
         /\ 0 <= x.b.rbeg /\ x.b.rbeg <= x.b.rend /\ x.b.rend <= x.b.wbeg /\ x.b.wbeg <= x.b.size
         /\ x.b.size < x.s.alloc /\ x.b.wbeg <= Len(x.s.mem)
BY DEF Good, BufRec, Sound, StRec, Within

LEMMA GoodEnds ==
  ASSUME NEW x, Good(x)
  PROVE  x.b.rbeg \in Int /\ x.b.wbeg \in Int /\ 0 <= x.b.rbeg /\ x.b.rbeg <= x.b.wbeg
<1>1. /\ x.b.rbeg \in Int /\ x.b.rend \in Int /\ x.b.wbeg \in Int
      /\ 0 <= x.b.rbeg /\ x.b.rbeg <= x.b.rend /\ x.b.rend <= x.b.wbeg
  BY GoodInts
<1>2. x.b.rbeg <= x.b.wbeg
  BY <1>1
<1> QED BY <1>1, <1>2

LEMMA PutNulBytes ==
  ASSUME NEW s, s \in StRec, NEW i \in Int, NEW n \in Int, n <= i, 0 <= i
  PROVE  \A k \in 1 .. n : PutNul(s, i).mem[k] = s.mem[k]
<1> DEFINE m == IF i < Len(s.mem) THEN [s.mem EXCEPT ![i + 1] = Nul] ELSE s.mem
           o == s.oob \/ i < 0 \/ i >= s.alloc
<1>1. PutNul(s, i).mem = m
  <2> HIDE DEF m, o
  <2>1. [s EXCEPT !.mem = m, !.oob = o].mem = m
    BY DEF StRec
  <2> QED BY <2>1 DEF PutNul, m, o
<1>2. s.mem \in Seq(Byte) /\ Len(s.mem) \in Nat /\ DOMAIN s.mem = 1 .. Len(s.mem)
  BY DEF StRec
<1>3. ASSUME NEW k \in 1 .. n PROVE m[k] = s.mem[k]
  <2>1. k # i + 1
    OBVIOUS
  <2>2. CASE i < Len(s.mem)
    <3>1. k \in DOMAIN s.mem
      BY <1>2, <2>2
    <3> QED BY <2>1, <2>2, <3>1
  <2> QED BY <2>2
<1> HIDE DEF m
<1> QED BY <1>1, <1>3

LEMMA ResizeCarried ==
  ASSUME NEW x, Good(x), NEW size \in Int, size >= x.b.wbeg
  PROVE  Carried(x, Resize(x, size).x)
<1> DEFINE newsz == CHOOSE p \in PowMin(size + 1) : TRUE
           k == [x.b EXCEPT !.size = size]
           s == [x.s EXCEPT !.alloc = newsz, !.maxs = newsz]
           y == Resize(x, size).x
<1>0. x.b \in BufRec /\ x.s \in StRec
  BY DEF Good, Sound
<1>1. k.rbeg = x.b.rbeg /\ k.rend = x.b.rend /\ k.wbeg = x.b.wbeg
  BY <1>0 DEF BufRec
<1>2. \/ y = x
      \/ size > 0 /\ y = [b |-> k, s |-> PutNul(x.s, size)]
      \/ size > 0 /\ PowMin(size + 1) # {} /\ y = [b |-> k, s |-> PutNul(s, size)]
  BY DEF Resize
<1>3. PowMin(size + 1) # {} /\ size > 0 => s \in StRec /\ s.mem = x.s.mem
  <2> SUFFICES ASSUME PowMin(size + 1) # {}, size > 0 PROVE s \in StRec /\ s.mem = x.s.mem
    OBVIOUS
  <2>1. newsz \in PowMin(size + 1)
    OBVIOUS
  <2>2. PowMin(size + 1) \subseteq (size + 1) .. MaxSize
    BY DEF PowMin
  <2> HIDE DEF newsz
  <2>3. newsz \in Nat
    BY <2>1, <2>2, SizeAssumption
  <2> QED BY <1>0, <2>3 DEF StRec
<1> HIDE DEF k, s, y
<1>4. x.b.rbeg \in Int /\ x.b.rend \in Int /\ x.b.wbeg \in Int
  BY GoodInts
<1>5. ASSUME y.b.rbeg = x.b.rbeg, y.b.rend = x.b.rend, y.b.wbeg = x.b.wbeg,
             \A j \in 1 .. x.b.wbeg : y.s.mem[j] = x.s.mem[j]
      PROVE  Carried(x, y)
  <2>1. PICK z \in {0, x.b.rbeg} : z = 0
    OBVIOUS
  <2>2. /\ y.b.rbeg = x.b.rbeg - z /\ y.b.rend = x.b.rend - z /\ y.b.wbeg = x.b.wbeg - z
        /\ \A j \in 1 .. y.b.wbeg : y.s.mem[j] = x.s.mem[z + j]
    BY <1>4, <1>5, <2>1
  <2> QED BY <2>2 DEF Carried
<1>6. CASE y = x
  BY <1>5, <1>6 DEF y
<1>7. CASE size > 0 /\ y = [b |-> k, s |-> PutNul(x.s, size)]
  <2>1. \A j \in 1 .. x.b.wbeg : PutNul(x.s, size).mem[j] = x.s.mem[j]
    BY <1>0, <1>4, <1>7, PutNulBytes
  <2> QED BY <1>1, <1>5, <1>7, <2>1 DEF y
<1>8. CASE size > 0 /\ PowMin(size + 1) # {} /\ y = [b |-> k, s |-> PutNul(s, size)]
  <2>1. \A j \in 1 .. x.b.wbeg : PutNul(s, size).mem[j] = s.mem[j]
    BY <1>3, <1>4, <1>8, PutNulBytes
  <2> QED BY <1>1, <1>3, <1>5, <1>8, <2>1 DEF y
<1> QED BY <1>2, <1>6, <1>7, <1>8

LEMMA RecycleCarried ==
  ASSUME NEW x, Good(x)
  PROVE  Carried(x, Recycle(x))
<1> DEFINE n == x.b.rbeg
           k == [x.b EXCEPT !.rbeg = 0, !.rend = @ - n, !.wbeg = @ - n, !.size = @ - n]
           m == SubSeq(x.s.mem, n + 1, x.b.wbeg)
           s1 == [x.s EXCEPT !.mem = <<>>]
           s2 == [x.s EXCEPT !.mem = m]
           i == x.b.size - n
           y == Recycle(x)
<1>0. x.b \in BufRec /\ x.s \in StRec
  BY DEF Good, Sound
<1>1. /\ n \in Int /\ x.b.rend \in Int /\ x.b.wbeg \in Int /\ x.b.size \in Int
      /\ 0 <= n /\ n <= x.b.rend /\ x.b.rend <= x.b.wbeg /\ x.b.wbeg <= x.b.size
      /\ x.b.wbeg <= Len(x.s.mem) /\ x.s.mem \in Seq(Byte) /\ Len(x.s.mem) \in Nat
  BY GoodInts
<1>2. k.rbeg = 0 /\ k.rend = x.b.rend - n /\ k.wbeg = x.b.wbeg - n
  BY <1>0 DEF BufRec
<1>3. \/ y = x
      \/ n = x.b.wbeg /\ y = [b |-> k, s |-> PutNul(s1, i)]
      \/ y = [b |-> k, s |-> PutNul(s2, i)]
  BY DEF Recycle
<1>4. m \in Seq(Byte) /\ \A j \in 1 .. x.b.wbeg - n : m[j] = x.s.mem[n + j]
  <2>1. \A j \in n + 1 .. x.b.wbeg : x.s.mem[j] \in Byte
    BY <1>1, ElementOfSeq
  <2>2. n + 1 \in Int
    BY <1>1
  <2> HIDE DEF n
  <2> DEFINE h == n + 1
  <2> HIDE DEF h
  <2>3. /\ SubSeq(x.s.mem, h, x.b.wbeg) \in Seq(Byte)
        /\ \A j \in 1 .. x.b.wbeg - h + 1 : SubSeq(x.s.mem, h, x.b.wbeg)[j] = x.s.mem[h + j - 1]
    <3>1. h \in Int /\ x.b.wbeg \in Int /\ \A j \in h .. x.b.wbeg : x.s.mem[j] \in Byte
      BY <1>1, <2>1, <2>2 DEF h
    <3> QED BY <3>1, SubSeqProperties
  <2>4. x.b.wbeg - h + 1 = x.b.wbeg - n /\ \A j \in Int : h + j - 1 = n + j
    BY <1>1 DEF h
  <2>5. m = SubSeq(x.s.mem, h, x.b.wbeg)
    BY DEF h
  <2> HIDE DEF m
  <2>6. ASSUME NEW j \in 1 .. x.b.wbeg - n PROVE m[j] = x.s.mem[n + j]
    <3>1. j \in 1 .. x.b.wbeg - h + 1 /\ h + j - 1 = n + j
      BY <2>4
    <3>2. m[j] = x.s.mem[h + j - 1]
      BY <2>3, <2>5, <3>1
    <3> QED BY <3>1, <3>2
  <2>7. m \in Seq(Byte)
    BY <2>3, <2>5
  <2> QED BY <2>6, <2>7
<1> HIDE DEF m
<1>5. s2 \in StRec /\ s2.mem = m
  BY <1>0, <1>4 DEF StRec
<1> HIDE DEF k, s1, s2, y
<1>6. CASE y = x
  <2>1. PICK z \in {0, x.b.rbeg} : z = 0
    OBVIOUS
  <2>2. /\ y.b.rbeg = x.b.rbeg - z /\ y.b.rend = x.b.rend - z /\ y.b.wbeg = x.b.wbeg - z
        /\ \A j \in 1 .. y.b.wbeg : y.s.mem[j] = x.s.mem[z + j]
    BY <1>1, <1>6, <2>1
  <2> QED BY <2>2 DEF Carried, y
<1>7. ASSUME y.b = k, \A j \in 1 .. x.b.wbeg - n : y.s.mem[j] = x.s.mem[n + j]
      PROVE  Carried(x, y)
  <2>1. /\ y.b.rbeg = x.b.rbeg - n /\ y.b.rend = x.b.rend - n /\ y.b.wbeg = x.b.wbeg - n
        /\ \A j \in 1 .. y.b.wbeg : y.s.mem[j] = x.s.mem[n + j]
    BY <1>1, <1>2, <1>7
  <2> QED BY <2>1 DEF Carried
<1>8. CASE n = x.b.wbeg /\ y = [b |-> k, s |-> PutNul(s1, i)]
  <2>1. \A j \in 1 .. x.b.wbeg - n : FALSE
    BY <1>1, <1>8
  <2> QED BY <1>7, <1>8, <2>1 DEF y
<1>9. CASE y = [b |-> k, s |-> PutNul(s2, i)]
  <2> DEFINE w == x.b.wbeg - n
  <2>1. i \in Int /\ w \in Int /\ w <= i /\ 0 <= i
    BY <1>1
  <2> HIDE DEF i, w
  <2>2. \A j \in 1 .. w : PutNul(s2, i).mem[j] = s2.mem[j]
    BY <1>5, <2>1, PutNulBytes
  <2>3. y.b = k /\ y.s = PutNul(s2, i)
    BY <1>9
  <2> QED BY <1>4, <1>5, <1>7, <2>2, <2>3 DEF w, y
<1> QED BY <1>3, <1>6, <1>8, <1>9 DEF y

LEMMA ResizeWCarried ==
  ASSUME NEW x, Good(x), NEW n \in Nat
  PROVE  Carried(x, ResizeW(x, n).x) /\ Carried(x, WCheck(x, n).x)
<1> DEFINE y == IF x.b.norec THEN x ELSE Recycle(x)
           m == y.b.wbeg + n
           r == ResizeW(x, n).x
<1>0. Good(x) /\ x.b.rbeg \in Int /\ x.b.rend \in Int /\ x.b.wbeg \in Int
  BY GoodInts
<1>1. Carried(x, x)
  <2>1. PICK z \in {0, x.b.rbeg} : z = 0
    OBVIOUS
  <2>2. /\ x.b.rbeg = x.b.rbeg - z /\ x.b.rend = x.b.rend - z /\ x.b.wbeg = x.b.wbeg - z
        /\ \A j \in 1 .. x.b.wbeg : x.s.mem[j] = x.s.mem[z + j]
    BY <1>0, <2>1
  <2> QED BY <2>2 DEF Carried
<1>2. Good(y) /\ Carried(x, y)
  BY <1>1, RecycleGood, RecycleCarried
<1>3. ResizeW(x, n) = Resize(y, m)
  BY DEF ResizeW
<1> HIDE DEF y
<1>4. y.b.wbeg \in Int /\ m \in Int /\ m >= y.b.wbeg /\ y.b.rbeg \in Int /\ y.b.rend \in Int
  BY <1>2, GoodInts
<1> HIDE DEF m
<1>5. Carried(y, r) /\ Good(r)
  BY <1>2, <1>3, <1>4, ResizeCarried, ResizeGood
<1>6. r.b.rbeg \in Int /\ r.b.rend \in Int /\ r.b.wbeg \in Int
  BY <1>5, GoodInts
<1> HIDE DEF r
<1>7. PICK o \in {0, x.b.rbeg} :
        /\ y.b.rbeg = x.b.rbeg - o /\ y.b.rend = x.b.rend - o /\ y.b.wbeg = x.b.wbeg - o
        /\ \A k \in 1 .. y.b.wbeg : y.s.mem[k] = x.s.mem[o + k]
  BY <1>2 DEF Carried
<1>8. PICK p \in {0, y.b.rbeg} :
        /\ r.b.rbeg = y.b.rbeg - p /\ r.b.rend = y.b.rend - p /\ r.b.wbeg = y.b.wbeg - p
        /\ \A k \in 1 .. r.b.wbeg : r.s.mem[k] = y.s.mem[p + k]
  BY <1>5 DEF Carried
<1>9. PICK q \in Int : q = o + p
  BY <1>0, <1>4
<1>10. q \in {0, x.b.rbeg} /\ 0 <= p
  <2>1. 0 <= y.b.rbeg
    BY <1>2, GoodInts
  <2>2. CASE o = 0
    BY <1>0, <1>4, <1>7, <1>8, <1>9, <2>1, <2>2
  <2>3. CASE o = x.b.rbeg
    <3>1. y.b.rbeg = 0
      BY <1>0, <1>7, <2>3
    <3> QED BY <1>0, <1>8, <1>9, <2>3, <3>1
  <2> QED BY <1>7, <2>2, <2>3
<1>11. /\ r.b.rbeg = x.b.rbeg - q /\ r.b.rend = x.b.rend - q /\ r.b.wbeg = x.b.wbeg - q
  <2>1. o \in Int /\ p \in Int
    BY <1>0, <1>4
  <2>2. y.b.rbeg = x.b.rbeg - o /\ y.b.rend = x.b.rend - o /\ y.b.wbeg = x.b.wbeg - o
    BY <1>7
  <2>3. r.b.rbeg = y.b.rbeg - p /\ r.b.rend = y.b.rend - p /\ r.b.wbeg = y.b.wbeg - p
    BY <1>8
  <2>4. \A a \in Int : (a - o) - p = a - q
    BY <1>9, <2>1
  <2> QED BY <1>0, <2>2, <2>3, <2>4
<1>12. ASSUME NEW k \in 1 .. r.b.wbeg PROVE r.s.mem[k] = x.s.mem[q + k]
  <2>1. PICK j \in 1 .. y.b.wbeg : j = p + k
    BY <1>4, <1>6, <1>8, <1>10
  <2>2. r.s.mem[k] = y.s.mem[j] /\ y.s.mem[j] = x.s.mem[o + j]
    BY <1>7, <1>8, <2>1
  <2>3. o + j = q + k
    BY <1>0, <1>4, <1>9, <2>1
  <2> QED BY <2>2, <2>3
<1>13. Carried(x, r)
  BY <1>10, <1>11, <1>12 DEF Carried
<1>14. WCheck(x, n).x = r \/ WCheck(x, n).x = x
  BY DEF WCheck, r
<1> QED BY <1>1, <1>13, <1>14 DEF r

LEMMA SpanIs ==
  ASSUME NEW x, Good(x), NEW i \in Int, NEW j \in Int, 0 <= i, i <= j, j <= x.b.wbeg
  PROVE  LET t == Span(x, i, j) IN
         t \in Seq(Byte) /\ Len(t) = j - i /\ \A k \in 1 .. j - i : t[k] = x.s.mem[i + k]
<1> DEFINE t == Span(x, i, j)
<1>1. x.b.wbeg \in Int /\ x.s.mem \in Seq(Byte) /\ Len(x.s.mem) \in Nat /\ x.b.wbeg <= Len(x.s.mem)
  BY GoodInts
<1>2. t \in Seq(Byte) /\ Len(t) = Larger(j - i, 0)
  BY <1>1, SpanGood
<1>3. Larger(j - i, 0) = j - i
  BY DEF Larger
<1>4. ASSUME NEW k \in 1 .. j - i PROVE t[k] = x.s.mem[i + k]
  <2>1. i + k \in 1 .. Len(x.s.mem)
    BY <1>1
  <2>2. i + k \in DOMAIN x.s.mem
    BY <1>1, <2>1
  <2> QED BY <1>3, <2>2 DEF Span
<1> QED BY <1>2, <1>3, <1>4

(* What is readable or behind it.                                           *)
Rest(x) == Span(x, x.b.rbeg, x.b.wbeg)

LEMMA RestIs ==
  ASSUME NEW x, Good(x)
  PROVE  /\ Rest(x) \in Seq(Byte) /\ Len(Rest(x)) = x.b.wbeg - x.b.rbeg /\ Len(Rest(x)) \in Nat
         /\ \A k \in 1 .. Len(Rest(x)) : Rest(x)[k] = x.s.mem[x.b.rbeg + k]
<1>1. x.b.rbeg \in Int /\ x.b.wbeg \in Int /\ 0 <= x.b.rbeg /\ x.b.rbeg <= x.b.wbeg
  BY GoodInts
<1>2. PICK i \in Int, j \in Int : i = x.b.rbeg /\ j = x.b.wbeg
  BY <1>1
<1>3. LET t == Span(x, i, j) IN
      t \in Seq(Byte) /\ Len(t) = j - i /\ \A k \in 1 .. j - i : t[k] = x.s.mem[i + k]
  <2>1. 0 <= i /\ i <= j /\ j <= x.b.wbeg
    BY <1>1, <1>2
  <2> QED BY <2>1, SpanIs
<1>4. Span(x, i, j) = Rest(x) /\ j - i \in Nat
  BY <1>1, <1>2 DEF Rest
<1> QED BY <1>2, <1>3, <1>4

LEMMA CarriedRest ==
  ASSUME NEW x, Good(x), NEW y, Good(y), Carried(x, y)
  PROVE  Rest(y) = Rest(x)
<1>1. /\ x.b.rbeg \in Int /\ x.b.wbeg \in Int /\ 0 <= x.b.rbeg /\ x.b.rbeg <= x.b.wbeg
      /\ y.b.rbeg \in Int /\ y.b.wbeg \in Int /\ 0 <= y.b.rbeg /\ y.b.rbeg <= y.b.wbeg
  BY GoodEnds
<1>2. PICK o \in {0, x.b.rbeg} :
        /\ y.b.rbeg = x.b.rbeg - o /\ y.b.wbeg = x.b.wbeg - o
        /\ \A k \in 1 .. y.b.wbeg : y.s.mem[k] = x.s.mem[o + k]
  BY DEF Carried
<1>3. o \in Int
  BY <1>1
<1>4. x.b.wbeg - x.b.rbeg = y.b.wbeg - y.b.rbeg
  <2>1. \A a, c \in Int : (a - o) - (c - o) = a - c
    BY <1>3
  <2> QED BY <1>1, <1>2, <2>1
<1>5. ASSUME NEW k \in 1 .. x.b.wbeg - x.b.rbeg PROVE y.s.mem[y.b.rbeg + k] = x.s.mem[x.b.rbeg + k]
  <2>1. PICK j \in 1 .. y.b.wbeg : j = y.b.rbeg + k
    BY <1>1, <1>4
  <2>2. o + j = x.b.rbeg + k
    <3>1. \A a \in Int : o + ((a - o) + k) = a + k
      BY <1>1, <1>3
    <3> QED BY <1>1, <1>2, <2>1, <3>1
  <2> QED BY <1>2, <2>1, <2>2
<1>6. /\ Rest(x) \in Seq(Byte) /\ Len(Rest(x)) = x.b.wbeg - x.b.rbeg
      /\ \A k \in 1 .. Len(Rest(x)) : Rest(x)[k] = x.s.mem[x.b.rbeg + k]
  BY RestIs
<1>7. /\ Rest(y) \in Seq(Byte) /\ Len(Rest(y)) = y.b.wbeg - y.b.rbeg
      /\ \A k \in 1 .. Len(Rest(y)) : Rest(y)[k] = y.s.mem[y.b.rbeg + k]
  BY RestIs
<1>8. Len(Rest(y)) = Len(Rest(x)) /\ \A k \in 1 .. Len(Rest(y)) : Rest(y)[k] = Rest(x)[k]
  BY <1>4, <1>5, <1>6, <1>7
<1> QED BY <1>6, <1>7, <1>8, SeqEqual

(* Writing adds bytes and changes none.                                     *)
LEMMA StoreBytes ==
  ASSUME NEW x, Good(x), NEW d \in Seq(Byte), Len(d) <= x.b.size - x.b.wbeg
  PROVE  LET y == Store(x, d) IN
         /\ y.b.rbeg = x.b.rbeg /\ y.b.rend = x.b.rend /\ y.b.wbeg = x.b.wbeg + Len(d)
         /\ \A k \in 1 .. x.b.wbeg : y.s.mem[k] = x.s.mem[k]
         /\ \A k \in 1 .. Len(d) : y.s.mem[x.b.wbeg + k] = d[k]
<1> DEFINE p == SubSeq(x.s.mem, 1, x.b.wbeg)
           m == p \o d
           o == x.s.oob \/ x.b.wbeg + Len(d) > x.s.alloc
           k == [x.b EXCEPT !.wbeg = @ + Len(d)]
           s == [x.s EXCEPT !.mem = m, !.oob = o]
           y == Store(x, d)
<1>1. /\ x.b \in BufRec /\ x.s \in StRec /\ x.s.mem \in Seq(Byte) /\ Len(x.s.mem) \in Nat
      /\ x.b.wbeg \in Int /\ 0 <= x.b.wbeg /\ x.b.wbeg <= Len(x.s.mem) /\ Len(d) \in Nat
  BY GoodInts DEF Good, Sound
<1>2. /\ p \in Seq(Byte) /\ Len(p) = x.b.wbeg
      /\ \A j \in 1 .. x.b.wbeg : p[j] = x.s.mem[j]
  <2>1. \A j \in 1 .. x.b.wbeg : x.s.mem[j] \in Byte
    BY <1>1, ElementOfSeq
  <2>2. PICK e \in Int : e = 1
    OBVIOUS
  <2>3. p \in Seq(Byte) /\ Len(p) = x.b.wbeg
    BY <1>1, <2>1, <2>2, SubSeqProperties
  <2>4. \A j \in 1 .. x.b.wbeg : p[j] = x.s.mem[j]
    BY <1>1
  <2> QED BY <2>3, <2>4
<1> HIDE DEF p
<1>3. /\ \A j \in 1 .. x.b.wbeg : m[j] = x.s.mem[j]
      /\ \A j \in 1 .. Len(d) : m[x.b.wbeg + j] = d[j]
  BY <1>1, <1>2
<1> HIDE DEF m, o
<1>4. s.mem = m
  BY <1>1 DEF StRec
<1>5. k.rbeg = x.b.rbeg /\ k.rend = x.b.rend /\ k.wbeg = x.b.wbeg + Len(d)
  BY <1>1 DEF BufRec
<1>6. y.b = k /\ y.s = s
  BY DEF Store, m, p, o
<1> HIDE DEF k, s, y
<1> QED BY <1>3, <1>4, <1>5, <1>6 DEF y

LEMMA StoreRest ==
  ASSUME NEW x, Good(x), NEW d \in Seq(Byte), Len(d) <= x.b.size - x.b.wbeg
  PROVE  LET u == Rest(Store(x, d)) IN
         Len(u) = Len(Rest(x)) + Len(d) /\ \A k \in 1 .. Len(Rest(x)) : u[k] = Rest(x)[k]
<1> DEFINE y == Store(x, d)
           t == Rest(x)
           u == Rest(y)
<1>1. /\ x.b.rbeg \in Int /\ x.b.wbeg \in Int /\ 0 <= x.b.rbeg /\ x.b.rbeg <= x.b.wbeg
      /\ Len(d) \in Nat
  BY GoodInts
<1>2. Good(y) /\ y.b.rbeg = x.b.rbeg /\ y.b.wbeg = x.b.wbeg + Len(d)
  BY StoreGood, StoreBytes
<1>3. \A k \in 1 .. x.b.wbeg : y.s.mem[k] = x.s.mem[k]
  BY StoreBytes
<1>4. Len(t) = x.b.wbeg - x.b.rbeg /\ \A k \in 1 .. Len(t) : t[k] = x.s.mem[x.b.rbeg + k]
  BY RestIs
<1> HIDE DEF y
<1>5. Len(u) = y.b.wbeg - y.b.rbeg /\ \A k \in 1 .. Len(u) : u[k] = y.s.mem[y.b.rbeg + k]
  BY <1>2, RestIs
<1> HIDE DEF t, u
<1>6. Len(u) = Len(t) + Len(d)
  BY <1>1, <1>2, <1>4, <1>5
<1>7. ASSUME NEW k \in 1 .. Len(t) PROVE u[k] = t[k]
  <2>1. k \in 1 .. Len(u) /\ x.b.rbeg + k \in 1 .. x.b.wbeg
    BY <1>1, <1>4, <1>6
  <2> QED BY <1>2, <1>3, <1>4, <1>5, <2>1
<1> QED BY <1>6, <1>7 DEF t, u, y

-----------------------------------------------------------------------------
(* The delimiter.                                                           *)

(* Searching on from ScanFrom misses nothing: what begins before it ends in *)
(* the part that was searched.                                              *)
LEMMA HitsFrom ==
  ASSUME NEW t \in Seq(Byte), NEW u \in Seq(Byte), Len(t) <= Len(u),
         \A k \in 1 .. Len(t) : u[k] = t[k],
         NEW f \in Int, 0 <= f, f <= Len(t), f = 0 \/ Hits(t, 0) = {}
  PROVE  Hits(u, Larger(0, f - Len(Until) + 1)) = Hits(u, 0)
<1> DEFINE n == Len(Until)
           g == Larger(0, f - n + 1)
<1>1. n \in Nat /\ n > 0 /\ Len(t) \in Nat /\ Len(u) \in Nat
  BY DataAssumption, EmptySeq
<1>2. g \in Nat /\ (g = 0 \/ g = f - n + 1)
  BY <1>1 DEF Larger
<1> HIDE DEF g, n
<1>3. ASSUME NEW i \in Hits(u, g) PROVE i \in Hits(u, 0)
  <2>1. i \in g .. Len(u) - n /\ SubSeq(u, i + 1, i + n) = Until
    BY <1>3 DEF Hits, n
  <2>2. i \in 0 .. Len(u) - n
    BY <1>1, <1>2, <2>1
  <2> QED BY <2>1, <2>2 DEF Hits, n
<1>4. ASSUME NEW i \in Hits(u, 0) PROVE i \in Hits(u, g)
  <2>1. i \in 0 .. Len(u) - n /\ SubSeq(u, i + 1, i + n) = Until
    BY <1>4 DEF Hits, n
  <2>2. CASE i < g
    <3>1. g = f - n + 1 /\ i + n <= f /\ f # 0
      BY <1>1, <1>2, <2>1, <2>2
    <3>2. i \in 0 .. Len(t) - n /\ i + 1 \in Int /\ i + n \in Int
      BY <1>1, <2>1, <3>1
    <3>3. SubSeq(t, i + 1, i + n) = SubSeq(u, i + 1, i + n)
      <4>1. \A k \in i + 1 .. i + n : u[k] = t[k] /\ u[k] \in Byte /\ t[k] \in Byte
        BY <1>1, <2>1, <3>1, <3>2, ElementOfSeq
      <4>2. PICK p \in Int, q \in Int : p = i + 1 /\ q = i + n
        BY <3>2
      <4>3. /\ SubSeq(t, p, q) \in Seq(Byte) /\ Len(SubSeq(t, p, q)) = IF p <= q THEN q - p + 1 ELSE 0
            /\ \A k \in 1 .. q - p + 1 : SubSeq(t, p, q)[k] = t[p + k - 1]
        BY <4>1, <4>2, SubSeqProperties
      <4>4. /\ SubSeq(u, p, q) \in Seq(Byte) /\ Len(SubSeq(u, p, q)) = IF p <= q THEN q - p + 1 ELSE 0
            /\ \A k \in 1 .. q - p + 1 : SubSeq(u, p, q)[k] = u[p + k - 1]
        BY <4>1, <4>2, SubSeqProperties
      <4>5. \A k \in 1 .. q - p + 1 : p + k - 1 \in i + 1 .. i + n
        BY <2>1, <4>2
      <4>6. Len(SubSeq(t, p, q)) = Len(SubSeq(u, p, q)) /\ Len(SubSeq(t, p, q)) = q - p + 1
        BY <1>1, <2>1, <4>2, <4>3, <4>4
      <4>7. \A k \in 1 .. Len(SubSeq(t, p, q)) : SubSeq(t, p, q)[k] = SubSeq(u, p, q)[k]
        BY <4>1, <4>3, <4>4, <4>5, <4>6
      <4>8. SubSeq(t, p, q) = SubSeq(u, p, q)
        BY <4>3, <4>4, <4>6, <4>7, SeqEqual
      <4> QED BY <4>2, <4>8
    <3>4. i \in Hits(t, 0)
      BY <2>1, <3>2, <3>3 DEF Hits, n
    <3> QED BY <3>1, <3>4
  <2>3. CASE ~(i < g)
    <3>1. i \in g .. Len(u) - n
      BY <1>1, <1>2, <2>1, <2>3
    <3> QED BY <2>1, <3>1 DEF Hits, n
  <2> QED BY <2>2, <2>3
<1>5. Hits(u, g) = Hits(u, 0)
  BY <1>3, <1>4
<1> QED BY <1>5 DEF g, n

LEMMA CFindIs ==
  ASSUME NEW x, Good(x), x.b.rend = x.b.wbeg, NEW left \in Nat
  PROVE  LET i == CFind(x, left)
             H == Hits(Rest(x), left)
         IN \/ i \in Int /\ i < 0 /\ H = {}
            \/ i \in Int /\ i >= 0 /\ i \in H /\ \A j \in H : i <= j
<1> DEFINE i == CFind(x, left)
           H == Hits(Rest(x), left)
<1>1. i = IF H = {} THEN 0 - 1 ELSE CHOOSE m \in H : \A j \in H : m <= j
  BY DEF CFind, Rest
<1>2. H \subseteq Nat
  <2>1. Len(Rest(x)) \in Nat /\ Len(Until) \in Nat
    BY RestIs, DataAssumption
  <2> QED BY <2>1 DEF Hits
<1> HIDE DEF i, H
<1>3. CASE H = {}
  BY <1>1, <1>3 DEF i, H
<1>4. CASE H # {}
  <2>1. \E m \in H : \A j \in H : m <= j
    BY <1>2, <1>4, LeastOf
  <2>2. i \in H /\ \A j \in H : i <= j
    BY <1>1, <1>4, <2>1
  <2>3. i \in Int /\ i >= 0
    BY <1>2, <2>2
  <2> QED BY <2>2, <2>3 DEF i, H
<1> QED BY <1>3, <1>4

(* While read_until waits, what it has read or found at its start holds no  *)
(* delimiter; when it is done, its buffer is as it should be.               *)
Searched(x) ==
  /\ 0 <= op.flag /\ op.flag <= Len(Rest(x)) /\ op.total <= Len(Rest(x))
  /\ op.flag # 0 \/ op.total # 0 => Hits(Rest(x), 0) = {}

Ended(x) ==
  IF op.ret = "found" THEN \E i \in Hits(Rest(x), 0) : /\ x.b.rend = x.b.rbeg + i + Len(Until)
                                                       /\ \A j \in Hits(Rest(x), 0) : i <= j
  ELSE op.ret # "error" => Hits(Rest(x), 0) = {}

UInv ==
  /\ op.st # "idle" => op.b \in Buf /\ Live(op.b) /\ store[buf[op.b].st].refc = 1
  /\ op.st = "wait" => Searched(At(op.b))
  /\ op.st = "done" => Ended(At(op.b))

(* What a step of read_until leaves in its buffer.                          *)
LEMMA BecomesAt ==
  ASSUME CInv, NEW b \in Buf, Live(b), NEW z, Same(At(b), z), Becomes(b, z)
  PROVE  At(b)' = [b |-> z.b, s |-> z.s] /\ Live(b)' /\ store'[buf'[b].st].refc = store[buf[b].st].refc
<1>1. DOMAIN buf = Buf /\ DOMAIN store = Buf /\ buf[b].st \in Buf /\ At(b).b = buf[b] /\ At(b).s = store[buf[b].st]
  BY DEF CInv, Shaped, At
<1>2. z.b.st = buf[b].st /\ z.s.refc = store[buf[b].st].refc /\ DOMAIN z.b = BufFields
  BY <1>1 DEF Same, Rec
<1>3. buf'[b] = z.b /\ store'[buf'[b].st] = z.s
  BY <1>1, <1>2 DEF Becomes
<1>4. z.b # None
  BY <1>2, NoneShape
<1> QED BY <1>2, <1>3, <1>4 DEF At, Live

LEMMA RestOf ==
  ASSUME NEW x, NEW y, y.s.mem = x.s.mem, y.b.rbeg = x.b.rbeg, y.b.wbeg = x.b.wbeg
  PROVE  Rest(y) = Rest(x)
BY DEF Rest, Span

LEMMA AtEnd ==
  ASSUME CInv, NEW b \in Buf, Live(b), NEW z, Same(At(b), z), Becomes(b, z),
         store[buf[b].st].refc = 1, op'.b = b, op'.st = "done",
         IF op'.ret = "found" THEN \E i \in Hits(Rest(z), 0) : /\ z.b.rend = z.b.rbeg + i + Len(Until)
                                                               /\ \A j \in Hits(Rest(z), 0) : i <= j
         ELSE op'.ret # "error" => Hits(Rest(z), 0) = {}
  PROVE  UInv'
<1> DEFINE y == [b |-> z.b, s |-> z.s]
<1>1. At(b)' = y /\ Live(b)' /\ store'[buf'[b].st].refc = 1
  BY BecomesAt
<1>2. Rest(y) = Rest(z)
  BY RestOf
<1>3. y.b = z.b
  OBVIOUS
<1> HIDE DEF y
<1>4. Ended(At(op.b))'
  BY <1>1, <1>2, <1>3 DEF Ended, Rest, Span
<1> QED BY <1>1, <1>4 DEF UInv

LEMMA PrepSearched ==
  ASSUME CInv, Stored, NEW b \in Buf, NEW kind \in Reads, NEW max \in {1, Batch + 1},
         UntilPrep(b, kind, max)
  PROVE  UInv'
<1> DEFINE e == Seek(At(b), [buf[b] EXCEPT !.rend = buf[b].wbeg])
           more == Slack(b) # <<>>
           x == IF more THEN e ELSE At(b)
           i == IF more THEN CFind(e, 0) ELSE 0 - 1
           n == Smaller(max, Batch)
           w == ResizeW(x, n)
           flag == IF more THEN x.b.rend - x.b.rbeg ELSE 0
           room == w.x.b.size - w.x.b.wbeg
<1>1. Live(b) /\ store[buf[b].st].refc = 1
  BY DEF UntilPrep, Writable, Usable
<1>2. \/ i >= 0 /\ Becomes(b, Found(x, i)) /\ op' = [st |-> "done", b |-> b, ret |-> "found"]
      \/ /\ ~(i >= 0) /\ Becomes(b, w.x)
         /\ \/ op' = [st |-> "done", b |-> b, ret |-> "error"]
            \/ op' = [st |-> "wait", b |-> b, kind |-> kind, max |-> max, total |-> 0,
                      flag |-> flag, room |-> room]
  BY DEF UntilPrep
<1>3. Good(e) /\ e.b.rend = e.b.wbeg /\ Same(At(b), e)
  <2>1. Good(At(b)) /\ Rec(At(b)) /\ At(b).b = buf[b]
    BY <1>1, AtGood, AtRec
  <2> DEFINE y == At(b)
  <2>2. e = Seek(y, [y.b EXCEPT !.rend = y.b.wbeg])
    BY <2>1
  <2> HIDE DEF y, e
  <2>3. Good(y) /\ Rec(y)
    BY <2>1 DEF y
  <2>4. Good(e) /\ e.b.rend = e.b.wbeg
    BY <2>2, <2>3, ToEndGood
  <2>5. Same(y, e)
    BY <2>2, <2>3, FoundSame
  <2> QED BY <2>4, <2>5 DEF y
<1>4. PICK z \in Nat : z = 0
  OBVIOUS
<1> DEFINE H == Hits(Rest(e), 0)
<1>5. /\ CFind(e, 0) \in Int
      /\ CFind(e, 0) >= 0 => CFind(e, 0) \in H /\ \A m \in H : CFind(e, 0) <= m
      /\ ~(CFind(e, 0) >= 0) => H = {}
  <2> HIDE DEF e
  <2>1. LET j == CFind(e, z)
            K == Hits(Rest(e), z)
        IN j \in Int /\ (j >= 0 => j \in K /\ \A m \in K : j <= m) /\ (~(j >= 0) => K = {})
    BY <1>3, CFindIs
  <2> QED BY <1>4, <2>1
<1> HIDE DEF e, more
<1>6. Good(x) /\ Same(At(b), x) /\ (i >= 0 => more)
  BY <1>1, <1>3, AtGood, AtRec DEF Same
<1>7. n \in Nat
  BY SizeAssumption DEF Smaller
<1>8. CASE i >= 0 /\ Becomes(b, Found(x, i)) /\ op' = [st |-> "done", b |-> b, ret |-> "found"]
  <2> DEFINE y == Found(e, i)
  <2>1. x = e /\ i = CFind(e, 0) /\ i \in H /\ \A m \in H : i <= m
    <3>1. i = CFind(e, 0) /\ x = e
      BY <1>6, <1>8
    <3> HIDE DEF H, i, x
    <3> QED BY <1>5, <1>8, <3>1
  <2>2. Becomes(b, y) /\ op'.b = b /\ op'.st = "done" /\ op'.ret = "found"
    BY <1>8, <2>1
  <2> HIDE DEF i
  <2>3. Same(At(b), y)
    <3>1. Same(e, y)
      BY <1>3, FoundSame DEF Same
    <3> QED BY <1>3, <3>1 DEF Same
  <2>4. y.b.rend = y.b.rbeg + i + Len(Until) /\ Rest(y) = Rest(e)
    <3> DEFINE d == e.b.rbeg + i + Len(Until)
               k == [e.b EXCEPT !.rend = d]
    <3>1. y = [b |-> k, s |-> e.s]
      BY DEF Found, Seek
    <3> HIDE DEF d
    <3>2. k.rend = d /\ k.rbeg = e.b.rbeg /\ k.wbeg = e.b.wbeg
      BY <1>3 DEF Good, BufRec
    <3> HIDE DEF k
    <3>3. y.b = k /\ y.s = e.s
      BY <3>1
    <3> HIDE DEF y
    <3>4. Rest(y) = Rest(e)
      BY <3>2, <3>3, RestOf
    <3> QED BY <3>2, <3>3, <3>4 DEF d
  <2> HIDE DEF y
  <2>5. \E j \in Hits(Rest(y), 0) : y.b.rend = y.b.rbeg + j + Len(Until) /\ \A m \in Hits(Rest(y), 0) : j <= m
    BY <2>1, <2>4
  <2> QED BY <1>1, <2>2, <2>3, <2>5, AtEnd
<1>9. CASE /\ ~(i >= 0) /\ Becomes(b, w.x)
           /\ \/ op' = [st |-> "done", b |-> b, ret |-> "error"]
              \/ op' = [st |-> "wait", b |-> b, kind |-> kind, max |-> max, total |-> 0,
                        flag |-> flag, room |-> room]
  <2> DEFINE y == w.x
  <2>1. more => x = e /\ H = {} /\ flag = e.b.rend - e.b.rbeg
    <3>1. more => x = e /\ i = CFind(e, 0) /\ flag = e.b.rend - e.b.rbeg
      OBVIOUS
    <3> HIDE DEF H, x, i, flag
    <3> QED BY <1>5, <1>9, <3>1 DEF i
  <2>2. ~more => flag = 0
    OBVIOUS
  <2> HIDE DEF x, n, flag, i
  <2>3. Good(y) /\ Same(At(b), y) /\ Rest(y) = Rest(x)
    <3>1. Good(y) /\ Carried(x, y)
      BY <1>6, <1>7, ResizeWGood, ResizeWCarried
    <3>2. Same(x, y)
      BY <1>6, ResizeWSame DEF Same
    <3> HIDE DEF y
    <3>3. Rest(y) = Rest(x)
      BY <1>6, <3>1, CarriedRest
    <3> QED BY <1>6, <3>1, <3>2, <3>3 DEF Same
  <2>4. Becomes(b, y)
    BY <1>9
  <2> HIDE DEF y, w, room
  <2>5. CASE op' = [st |-> "done", b |-> b, ret |-> "error"]
    <3>1. op'.b = b /\ op'.st = "done" /\ op'.ret = "error"
      BY <2>5
    <3> QED BY <1>1, <2>3, <2>4, <3>1, AtEnd
  <2>6. CASE op' = [st |-> "wait", b |-> b, kind |-> kind, max |-> max, total |-> 0,
                    flag |-> flag, room |-> room]
    <3>1. op'.b = b /\ op'.st = "wait" /\ op'.flag = flag /\ op'.total = 0
      BY <2>6
    <3> DEFINE v == [b |-> y.b, s |-> y.s]
    <3>2. At(b)' = v /\ Live(b)' /\ store'[buf'[b].st].refc = 1
      BY <1>1, <2>3, <2>4, BecomesAt
    <3>3. Rest(v) = Rest(x)
      BY <2>3, RestOf
    <3> HIDE DEF v
    <3>4. Len(Rest(x)) \in Nat
      BY <1>6, RestIs
    <3>5. more => flag = Len(Rest(x))
      BY <1>3, <2>1, RestIs
    <3>6. 0 <= flag /\ flag <= Len(Rest(x)) /\ 0 <= Len(Rest(x))
      BY <2>2, <3>4, <3>5
    <3>7. flag # 0 => Hits(Rest(x), 0) = {}
      BY <2>1, <2>2
    <3>8. Searched(At(op.b))'
      BY <3>1, <3>2, <3>3, <3>6, <3>7 DEF Searched, Rest, Span
    <3> QED BY <3>1, <3>2, <3>8 DEF UInv
  <2> QED BY <1>9, <2>5, <2>6 DEF w, room
<1> QED BY <1>2, <1>8, <1>9

LEMMA PostSearched ==
  ASSUME BInv, UInv, op.st = "wait", NEW d \in Received, UntilPost(d)
  PROVE  UInv'
<1>1. PICK b \in Buf : b = op.b
  BY DEF BInv, Held
<1> DEFINE x == Store(At(b), d)
           y == Seek(x, [x.b EXCEPT !.rend = x.b.wbeg])
           total == op.total + Len(d)
           i == CFind(y, ScanFrom)
           n == Smaller(op.max - total, Batch)
           w == ResizeW(y, n)
           room == w.x.b.size - w.x.b.wbeg
<1>2. /\ CInv /\ Stored /\ Live(b) /\ store[buf[b].st].refc = 1 /\ op \in WaitRec
      /\ op.room = buf[b].size - buf[b].wbeg /\ Searched(At(b))
  BY <1>1 DEF BInv, Held, Waits, UInv
<1>3. /\ op.max \in Nat /\ op.total \in Nat /\ op.flag \in Int /\ op.room \in Nat
  <2>1. buf[b].size \in Int /\ buf[b].wbeg \in Int /\ buf[b].wbeg <= buf[b].size
    BY <1>2, AtGood DEF BufRec, Within
  <2> QED BY <1>2, <2>1 DEF WaitRec
<1>4. d \in Seq(Byte) /\ Len(d) <= op.room /\ Len(d) \in Nat
  BY <1>3, ReceivedGood
<1>5. \/ /\ UNCHANGED <<buf, store>>
         /\ op' = [st |-> "done", b |-> b, ret |-> IF op.total > 0 THEN "short" ELSE "error"]
      \/ i >= 0 /\ Becomes(b, Found(y, i)) /\ op' = [st |-> "done", b |-> b, ret |-> "found"]
      \/ ~(i >= 0) /\ Becomes(b, y) /\ op' = [st |-> "done", b |-> b, ret |-> "continue"]
      \/ /\ ~(i >= 0) /\ total < op.max /\ Becomes(b, w.x) /\ d # <<>>
         /\ \/ op' = [st |-> "done", b |-> b, ret |-> "short"]
            \/ op' = [op EXCEPT !.total = total, !.flag = total, !.room = room]
  <2>1. ~(total >= op.max) => total < op.max
    BY <1>3, <1>4
  <2> QED BY <1>1, <2>1, Zenon DEF UntilPost, Finish
<1> DEFINE t == Rest(At(b))
           u == Rest(y)
           H == Hits(u, 0)
<1>6. /\ Good(y) /\ y.b.rend = y.b.wbeg /\ Same(At(b), y)
      /\ Len(u) = Len(t) + Len(d) /\ \A k \in 1 .. Len(t) : u[k] = t[k]
  <2>1. Good(At(b)) /\ Rec(At(b)) /\ Len(d) <= At(b).b.size - At(b).b.wbeg
    BY <1>2, <1>4, AtGood, AtRec
  <2>2. Good(x) /\ Same(At(b), x)
    BY <1>4, <2>1, StoreGood, StoreSame
  <2>3. Len(Rest(x)) = Len(t) + Len(d) /\ \A k \in 1 .. Len(t) : Rest(x)[k] = t[k]
    BY <1>4, <2>1, StoreRest
  <2> HIDE DEF x
  <2>4. Good(y) /\ y.b.rend = y.b.wbeg
    BY <2>2, ToEndGood
  <2>5. Same(x, y)
    BY <2>2, FoundSame DEF Same
  <2>6. Rest(y) = Rest(x)
    <3>1. y.b.rbeg = x.b.rbeg /\ y.b.wbeg = x.b.wbeg /\ y.s = x.s
      BY <2>2 DEF Good, BufRec, Seek
    <3> HIDE DEF y
    <3> QED BY <3>1, RestOf
  <2> HIDE DEF y
  <2> QED BY <2>2, <2>3, <2>4, <2>5, <2>6 DEF Same
<1>7. t \in Seq(Byte) /\ Len(t) \in Nat
  BY <1>2, AtGood, RestIs
<1> HIDE DEF y
<1>8. u \in Seq(Byte) /\ Len(u) \in Nat
  BY <1>6, RestIs
<1>9. ScanFrom \in Nat /\ Hits(u, ScanFrom) = H
  <2>1. Len(Until) \in Nat
    BY DataAssumption
  <2>2. ScanFrom \in Nat
    BY <1>3, <2>1 DEF ScanFrom, Larger
  <2>3. 0 <= op.flag /\ op.flag <= Len(t) /\ (op.flag = 0 \/ Hits(t, 0) = {}) /\ Len(t) <= Len(u)
    BY <1>2, <1>4, <1>6, <1>7 DEF Searched
  <2> HIDE DEF t, u
  <2>4. Hits(u, Larger(0, op.flag - Len(Until) + 1)) = Hits(u, 0)
    BY <1>3, <1>6, <1>7, <1>8, <2>3, HitsFrom
  <2> QED BY <2>2, <2>4 DEF ScanFrom
<1>10. /\ i \in Int
       /\ i >= 0 => i \in H /\ \A m \in H : i <= m
       /\ ~(i >= 0) => H = {}
  <2>1. LET j == CFind(y, ScanFrom)
            K == Hits(Rest(y), ScanFrom)
        IN j \in Int /\ (j >= 0 => j \in K /\ \A m \in K : j <= m) /\ (~(j >= 0) => K = {})
    BY <1>6, <1>9, CFindIs
  <2> HIDE DEF H, u
  <2> QED BY <1>9, <2>1 DEF u
<1> HIDE DEF i
<1>11. CASE /\ UNCHANGED <<buf, store>>
            /\ op' = [st |-> "done", b |-> b, ret |-> IF op.total > 0 THEN "short" ELSE "error"]
  <2>1. op'.b = b /\ op'.st = "done" /\ op'.ret = IF op.total > 0 THEN "short" ELSE "error"
    BY <1>11
  <2>2. op.total > 0 => Hits(t, 0) = {}
    BY <1>2, <1>3 DEF Searched
  <2>3. At(b)' = At(b) /\ Live(b)' /\ store'[buf'[b].st].refc = 1
    BY <1>2, <1>11 DEF At, Live
  <2>4. Ended(At(op.b))'
    BY <2>1, <2>2, <2>3 DEF Ended, Rest, Span
  <2> QED BY <2>1, <2>3, <2>4 DEF UInv
<1>12. CASE i >= 0 /\ Becomes(b, Found(y, i)) /\ op' = [st |-> "done", b |-> b, ret |-> "found"]
  <2> DEFINE z == Found(y, i)
             e == y.b.rbeg + i + Len(Until)
             k == [y.b EXCEPT !.rend = e]
  <2>1. z = [b |-> k, s |-> y.s]
    BY DEF Found, Seek
  <2> HIDE DEF e
  <2>2. k.rend = e /\ k.rbeg = y.b.rbeg /\ k.wbeg = y.b.wbeg
    BY <1>6 DEF Good, BufRec
  <2> HIDE DEF k
  <2>3. z.b = k /\ z.s = y.s
    BY <2>1
  <2>4. Same(At(b), z)
    <3>1. Same(y, z)
      BY <1>6, FoundSame DEF Same
    <3> QED BY <1>6, <3>1 DEF Same
  <2>5. Becomes(b, z) /\ op'.b = b /\ op'.st = "done" /\ op'.ret = "found"
    BY <1>12
  <2> HIDE DEF z
  <2>6. Rest(z) = u
    BY <2>2, <2>3, RestOf
  <2>7. z.b.rend = z.b.rbeg + i + Len(Until)
    BY <2>2, <2>3 DEF e
  <2> HIDE DEF u
  <2>8. \E j \in Hits(Rest(z), 0) : z.b.rend = z.b.rbeg + j + Len(Until) /\ \A m \in Hits(Rest(z), 0) : j <= m
    BY <1>10, <1>12, <2>6, <2>7
  <2> QED BY <1>2, <2>4, <2>5, <2>8, AtEnd
<1>13. CASE ~(i >= 0) /\ Becomes(b, y) /\ op' = [st |-> "done", b |-> b, ret |-> "continue"]
  <2>1. op'.b = b /\ op'.st = "done" /\ op'.ret = "continue"
    BY <1>13
  <2> QED BY <1>2, <1>6, <1>10, <1>13, <2>1, AtEnd
<1>14. CASE /\ ~(i >= 0) /\ total < op.max /\ Becomes(b, w.x) /\ d # <<>>
            /\ \/ op' = [st |-> "done", b |-> b, ret |-> "short"]
               \/ op' = [op EXCEPT !.total = total, !.flag = total, !.room = room]
  <2>1. n \in Nat /\ total \in Nat
    <3>1. total \in Nat
      BY <1>3, <1>4
    <3>2. op.max - total \in Nat
      BY <1>3, <1>14, <3>1
    <3> QED BY <3>1, <3>2, SizeAssumption DEF Smaller
  <2> HIDE DEF n
  <2> DEFINE z == w.x
  <2>2. Good(z) /\ Same(At(b), z) /\ Becomes(b, z) /\ Rest(z) = u
    <3>1. Good(w.x) /\ Carried(y, w.x)
      BY <1>6, <2>1, ResizeWGood, ResizeWCarried
    <3>2. Same(y, w.x)
      BY <1>6, ResizeWSame DEF Same
    <3>3. Rest(w.x) = u
      BY <1>6, <3>1, CarriedRest
    <3> QED BY <1>6, <1>14, <3>1, <3>2, <3>3 DEF Same
  <2> HIDE DEF z, w, room
  <2>3. H = {}
    BY <1>10, <1>14
  <2>4. CASE op' = [st |-> "done", b |-> b, ret |-> "short"]
    <3>1. op'.b = b /\ op'.st = "done" /\ op'.ret = "short"
      BY <2>4
    <3> QED BY <1>2, <2>2, <2>3, <3>1, AtEnd
  <2>5. CASE op' = [op EXCEPT !.total = total, !.flag = total, !.room = room]
    <3>1. total <= Len(u) /\ 0 <= total
      <4>1. op.total <= Len(t)
        BY <1>2 DEF Searched
      <4> HIDE DEF t, u
      <4> QED BY <1>3, <1>4, <1>6, <1>7, <4>1
    <3> HIDE DEF total
    <3>2. op'.b = b /\ op'.st = "wait" /\ op'.flag = total /\ op'.total = total
      BY <1>1, <1>2, <2>5 DEF WaitRec
    <3> DEFINE v == [b |-> z.b, s |-> z.s]
    <3>3. At(b)' = v /\ Live(b)' /\ store'[buf'[b].st].refc = 1
      BY <1>2, <2>2, BecomesAt
    <3>4. Rest(v) = u
      BY <2>2, RestOf
    <3> HIDE DEF v, u
    <3>5. Searched(At(op.b))'
      BY <2>3, <3>1, <3>2, <3>3, <3>4 DEF Searched, Rest, Span
    <3> QED BY <3>2, <3>3, <3>5 DEF UInv
  <2> QED BY <1>14, <2>4, <2>5 DEF room, w
<1> QED BY <1>5, <1>11, <1>12, <1>13, <1>14

LEMMA UInvNext ==
  ASSUME BInv, UInv, [Next]_vars
  PROVE  UInv'
<1>1. CInv /\ Held /\ Stored /\ Waits
  BY DEF BInv
<1>2. ASSUME NEW b \in Buf, UNCHANGED op, Create(b) \/ CreatePeer(b) PROVE UInv'
  <2>1. op.st = "idle"
    BY <1>2 DEF Create, CreatePeer, New, NewD, NewR, Dup, Idle
  <2> QED BY <1>2, <2>1 DEF UInv
<1>3. ASSUME UNCHANGED op, op.st # "idle" => buf'[op.b] = buf[op.b] /\ store'[buf[op.b].st] = store[buf[op.b].st]
      PROVE  UInv'
  <2>1. op.st # "idle" => At(op.b)' = At(op.b) /\ (Live(op.b)' <=> Live(op.b))
    BY <1>3 DEF At, Live
  <2>2. op.st = "wait" => Searched(At(op.b))'
    BY <1>3, <2>1 DEF UInv, Searched, Rest, Span
  <2>3. op.st = "done" => Ended(At(op.b))'
    BY <1>3, <2>1 DEF UInv, Ended, Rest, Span
  <2> QED BY <1>3, <2>1, <2>2, <2>3 DEF UInv
<1>4. ASSUME NEW b \in Buf, UNCHANGED op, Live(b), Del(b) \/ Copy(b) \/ Fetch(b) \/ Edit(b)
      PROVE  UInv'
  <2>1. op.st # "idle" => op.b \in Buf /\ Live(op.b) /\ store[buf[op.b].st].refc = 1
    BY DEF UInv
  <2>2. op.st # "idle" => buf'[op.b] = buf[op.b] /\ store'[buf[op.b].st] = store[buf[op.b].st]
    BY <1>1, <1>4, <2>1, WaiterApart
  <2> QED BY <1>3, <1>4, <2>2
<1>5. ASSUME NEW b \in Buf, NEW k \in Reads, NEW m \in {1, Batch + 1}, UntilPrep(b, k, m)
      PROVE  UInv'
  BY <1>1, <1>5, PrepSearched
<1>6. ASSUME op.st = "wait", NEW d \in Received, UntilPost(d) PROVE UInv'
  BY <1>6, PostSearched
<1>7. CASE UntilReturn
  BY <1>7 DEF UntilReturn, NoOp, UInv
<1>8. CASE UNCHANGED vars
  <2>1. UNCHANGED <<buf, store, op>>
    BY <1>8 DEF vars
  <2> QED BY <1>3, <2>1
<1>9. CASE Next
  BY <1>2, <1>4, <1>5, <1>6, <1>7, <1>9, Zenon DEF Next
<1> QED BY <1>8, <1>9

\* However the delimiter is split over reads and wherever compaction moves the bytes, read_until
\* ends the readable part behind its first occurrence and never searches past one, for any
\* delimiter, texts, batch and sizes (_dpaio_read_until_prep, _dpaio_read_until_post).
THEOREM EndsAtFirst ==
  ASSUME Modes \subseteq {"dup"}, FullDet = FALSE
  PROVE  Spec => []StopsAtFirst
<1>1. Init => UInv
  BY DEF Init, UInv, NoOp
<1>2. BInv /\ UInv /\ [Next]_vars => UInv'
  BY UInvNext
<1>3. UInv => StopsAtFirst
  BY DEF UInv, StopsAtFirst, Ended, Rest
<1> QED BY <1>1, <1>2, <1>3, BytesKept, PTL DEF Spec

-----------------------------------------------------------------------------
(* The window.  What was consumed, what is readable, what is behind it.     *)

Gone(x) == Span(x, 0, x.b.rbeg)
Ready(x) == Span(x, x.b.rbeg, x.b.rend)
Behind(x) == Span(x, x.b.rend, x.b.wbeg)

(* Steps of one buffer, as ByteWindow has them.                             *)
Cuts(x, z) == Gone(z) \o Ready(z) \o Behind(z) = Gone(x) \o Ready(x) \o Behind(x)
Extends(x, z) == /\ Gone(z) \in {Gone(x), <<>>}
                 /\ IsPrefix(Ready(x) \o Behind(x), Ready(z) \o Behind(z))
Withdraws(x, z) == Gone(z) = Gone(x) /\ Ready(z) = Ready(x) /\ IsPrefix(Behind(z), Behind(x))
Restarts(x, z) == Gone(z) = <<>> /\ Behind(z) = <<>>

Steps(x, z) == Cuts(x, z) \/ Extends(x, z) \/ Withdraws(x, z) \/ Restarts(x, z)

(* No other buffer sees the step.                                           *)
Apart(S) == \A a \in Buf \ S : /\ Live(a)' <=> Live(a)
                               /\ Live(a) => /\ Gone(At(a))' = Gone(At(a)) /\ Ready(At(a))' = Ready(At(a))
                                             /\ Behind(At(a))' = Behind(At(a))

LEMMA ApartOthers ==
  ASSUME NEW S, Apart(S)
  PROVE  Abstract!Others(S)
BY DEF Apart, Abstract!Others, Gone, Ready, Behind, At

LEMMA SameLive ==
  ASSUME \A a \in Buf : Live(a)' <=> Live(a)
  PROVE  [b \in Buf |-> Live(b)]' = [b \in Buf |-> Live(b)]
<1>1. \A a \in Buf : Live(a)' = Live(a)
  BY DEF Live
<1> QED BY <1>1

LEMMA SamePrefix == \A s, t : Abstract!IsPrefix(s, t) <=> IsPrefix(s, t)
BY DEF Abstract!IsPrefix, IsPrefix

LEMMA OneSteps ==
  ASSUME NEW b \in Buf, Live(b), Live(b)', Apart({b}),
         Cuts(At(b), At(b)') \/ Extends(At(b), At(b)') \/ Withdraws(At(b), At(b)') \/ Restarts(At(b), At(b)')
  PROVE  Abstract!Next
<1>1. Abstract!Others({b})
  BY ApartOthers
<1>2. [a \in Buf |-> Live(a)]' = [a \in Buf |-> Live(a)]
  BY SameLive DEF Apart
<1>3. CASE Cuts(At(b), At(b)')
  <2>1. Abstract!Cut(b)
    BY <1>3 DEF Cuts, Abstract!Cut, Abstract!Text, Gone, Ready, Behind, At
  <2> QED BY <1>1, <1>2, <2>1 DEF Abstract!Next
<1>4. CASE Extends(At(b), At(b)')
  <2>1. Abstract!Extend(b)
    BY <1>4, SamePrefix DEF Extends, Abstract!Extend, Gone, Ready, Behind, At
  <2> QED BY <1>1, <1>2, <2>1 DEF Abstract!Next
<1>5. CASE Withdraws(At(b), At(b)')
  <2>1. Abstract!Withdraw(b)
    BY <1>5, SamePrefix DEF Withdraws, Abstract!Withdraw, Gone, Ready, Behind, At
  <2> QED BY <1>1, <1>2, <2>1 DEF Abstract!Next
<1>6. CASE Restarts(At(b), At(b)')
  <2>1. Abstract!Restart(b)
    BY <1>6 DEF Restarts, Abstract!Restart, Gone, Ready, Behind, At
  <2> QED BY <1>1, <1>2, <2>1 DEF Abstract!Next
<1> QED BY <1>3, <1>4, <1>5, <1>6

LEMMA TwoSteps ==
  ASSUME NEW b \in Buf, NEW c \in Buf, b # c, Live(b), Live(c), Live(b)', Live(c)', Apart({b, c}),
         Extends(At(b), At(b)'), Cuts(At(c), At(c)'), IsPrefix(Gone(At(c)), Gone(At(c))')
  PROVE  Abstract!Next
<1>1. Abstract!Others({b, c})
  BY ApartOthers
<1>2. [a \in Buf |-> Live(a)]' = [a \in Buf |-> Live(a)]
  BY SameLive DEF Apart
<1>3. Abstract!Extend(b)
  BY SamePrefix DEF Extends, Abstract!Extend, Gone, Ready, Behind, At
<1>4. Abstract!Cut(c)
  BY DEF Cuts, Abstract!Cut, Abstract!Text, Gone, Ready, Behind, At
<1>5. Abstract!Move(b, c)
  BY <1>3, <1>4, SamePrefix DEF Abstract!Move, Gone, At
<1> QED BY <1>1, <1>2, <1>5 DEF Abstract!Next

LEMMA Creates ==
  ASSUME NEW b \in Buf, ~Live(b), Live(b)', Apart({b})
  PROVE  Abstract!Next
<1>1. Abstract!Others({b})
  BY ApartOthers
<1>2. Abstract!Create(b)
  <2>1. \A a \in Buf : Live(a)' = IF a = b THEN TRUE ELSE Live(a)
    BY DEF Apart, Live
  <2> QED BY <2>1 DEF Abstract!Create
<1> QED BY <1>1, <1>2 DEF Abstract!Next

LEMMA Deletes ==
  ASSUME NEW b \in Buf, Live(b), ~Live(b)', Apart({b})
  PROVE  Abstract!Next
<1>1. Abstract!Others({b})
  BY ApartOthers
<1>2. Abstract!Delete(b)
  <2>1. \A a \in Buf : Live(a)' = IF a = b THEN FALSE ELSE Live(a)
    BY DEF Apart, Live
  <2> QED BY <2>1 DEF Abstract!Delete
<1> QED BY <1>1, <1>2 DEF Abstract!Next

(* A buffer keeps its texts when it keeps its cursors and its bytes.        *)
LEMMA TextsOf ==
  ASSUME NEW x, NEW z, z.s.mem = x.s.mem, z.b = x.b
  PROVE  Gone(z) = Gone(x) /\ Ready(z) = Ready(x) /\ Behind(z) = Behind(x)
BY DEF Gone, Ready, Behind, Span

LEMMA Unseen ==
  ASSUME CInv, NEW S, \A a \in Buf \ S : buf'[a] = buf[a],
         \A a \in Buf \ S : Live(a) => store'[buf[a].st].mem = store[buf[a].st].mem
  PROVE  Apart(S)
<1> SUFFICES ASSUME NEW a \in Buf \ S
             PROVE  /\ Live(a)' <=> Live(a)
                    /\ Live(a) => /\ Gone(At(a))' = Gone(At(a)) /\ Ready(At(a))' = Ready(At(a))
                                  /\ Behind(At(a))' = Behind(At(a))
  BY DEF Apart
<1>1. Live(a)' <=> Live(a)
  BY DEF Live
<1>2. ASSUME Live(a) PROVE /\ Gone(At(a))' = Gone(At(a)) /\ Ready(At(a))' = Ready(At(a))
                           /\ Behind(At(a))' = Behind(At(a))
  <2>1. At(a)'.s.mem = At(a).s.mem /\ At(a)'.b = At(a).b
    BY <1>2 DEF At
  <2> QED BY <2>1, <1>2 DEF Gone, Ready, Behind, Span
<1> QED BY <1>1, <1>2

(* One buffer becomes z; the others are on other storages, or its storage   *)
(* keeps its bytes.                                                         *)
LEMMA BecomesSteps ==
  ASSUME CInv, NEW b \in Buf, Live(b), NEW z, Same(At(b), z), Becomes(b, z),
         store[buf[b].st].refc = 1 \/ z.s.mem = store[buf[b].st].mem, Steps(At(b), z)
  PROVE  Abstract!Next
<1> DEFINE y == [b |-> z.b, s |-> z.s]
<1>1. At(b)' = y /\ Live(b)'
  BY BecomesAt
<1>2. Gone(y) = Gone(z) /\ Ready(y) = Ready(z) /\ Behind(y) = Behind(z)
  BY TextsOf
<1> HIDE DEF y
<1>3. Apart({b})
  <2>1. /\ DOMAIN buf = Buf /\ DOMAIN store = Buf /\ z.b.st = buf[b].st /\ buf[b].st \in Buf
        /\ \A a \in Buf : Live(a) => buf[a].st \in Buf
    BY DEF CInv, Shaped, Same, At
  <2>2. \A a \in Buf \ {b} : buf'[a] = buf[a]
    BY <2>1 DEF Becomes
  <2>3. ASSUME NEW a \in Buf \ {b}, Live(a) PROVE store'[buf[a].st].mem = store[buf[a].st].mem
    <3>1. CASE buf[a].st # buf[b].st
      BY <2>1, <2>3, <3>1 DEF Becomes
    <3>2. CASE buf[a].st = buf[b].st
      <4>1. z.s.mem = store[buf[b].st].mem
        BY <2>3, <3>2, OnlyUser
      <4> QED BY <2>1, <3>2, <4>1 DEF Becomes
    <3> QED BY <3>1, <3>2
  <2> QED BY <2>2, <2>3, Unseen
<1>4. Steps(At(b), y)
  BY <1>2 DEF Steps, Cuts, Extends, Withdraws, Restarts
<1> QED BY <1>1, <1>3, <1>4, OneSteps DEF Steps

LEMMA BothSteps ==
  ASSUME CInv, NEW b \in Buf, NEW c \in Buf, Live(b), Live(c), b # c, buf[b].st # buf[c].st,
         store[buf[b].st].refc = 1, NEW z, Same(At(b), z), NEW k, DOMAIN k = BufFields, k.st = buf[c].st,
         Both(b, z, c, k), Extends(At(b), z),
         Cuts(At(c), Seek(At(c), k)), IsPrefix(Gone(At(c)), Gone(Seek(At(c), k)))
  PROVE  Abstract!Next
<1> DEFINE y == [b |-> z.b, s |-> z.s]
           v == Seek(At(c), k)
<1>1. /\ DOMAIN buf = Buf /\ DOMAIN store = Buf /\ z.b.st = buf[b].st /\ buf[b].st \in Buf
      /\ DOMAIN z.b = BufFields /\ buf[c].st \in Buf
      /\ \A a \in Buf : Live(a) => buf[a].st \in Buf
  BY DEF CInv, Shaped, Same, At, Rec
<1>2. /\ buf'[b] = z.b /\ buf'[c] = k /\ store'[buf[b].st] = z.s
      /\ \A s \in Buf : s # buf[b].st => store'[s] = store[s]
      /\ \A a \in Buf \ {b, c} : buf'[a] = buf[a]
  BY <1>1 DEF Both
<1>3. Live(b)' /\ Live(c)'
  BY <1>1, <1>2, NoneShape DEF Live
<1>4. At(b)' = y
  BY <1>1, <1>2 DEF At
<1>5. At(c)' = v
  BY <1>1, <1>2 DEF At, Seek
<1>6. Extends(At(b), y)
  BY TextsOf DEF Extends
<1> HIDE DEF y, v
<1>7. Apart({b, c})
  <2>1. ASSUME NEW a \in Buf \ {b, c}, Live(a) PROVE store'[buf[a].st].mem = store[buf[a].st].mem
    <3>1. buf[a].st # buf[b].st
      BY <2>1, OnlyUser
    <3> QED BY <1>1, <1>2, <2>1, <3>1
  <2> QED BY <1>2, <2>1, Unseen
<1>8. Cuts(At(c), v) /\ IsPrefix(Gone(At(c)), Gone(v))
  BY DEF v
<1>9. Gone(At(c))' = Gone(v)
  BY <1>5 DEF Gone, Span
<1> QED BY <1>3, <1>4, <1>5, <1>6, <1>7, <1>8, <1>9, TwoSteps

-----------------------------------------------------------------------------
(* Texts put together.                                                      *)

LEMMA SpanJoin ==
  ASSUME NEW x, Good(x), NEW i \in Int, NEW j \in Int, NEW k \in Int,
         0 <= i, i <= j, j <= k, k <= x.b.wbeg
  PROVE  Span(x, i, j) \o Span(x, j, k) = Span(x, i, k)
<1> DEFINE s == Span(x, i, j)
           t == Span(x, j, k)
           u == Span(x, i, k)
<1>0. x.b.wbeg \in Int
  BY GoodInts
<1>1. s \in Seq(Byte) /\ Len(s) = j - i /\ \A m \in 1 .. j - i : s[m] = x.s.mem[i + m]
  BY <1>0, SpanIs
<1>2. t \in Seq(Byte) /\ Len(t) = k - j /\ \A m \in 1 .. k - j : t[m] = x.s.mem[j + m]
  BY <1>0, SpanIs
<1>3. u \in Seq(Byte) /\ Len(u) = k - i /\ \A m \in 1 .. k - i : u[m] = x.s.mem[i + m]
  BY <1>0, SpanIs
<1> HIDE DEF s, t, u
<1>4. s \o t \in Seq(Byte) /\ Len(s \o t) = k - i
  <2>1. s \o t \in Seq(Byte) /\ Len(s \o t) = Len(s) + Len(t)
    BY <1>1, <1>2, ConcatProperties
  <2>2. (j - i) + (k - j) = k - i
    OBVIOUS
  <2> QED BY <1>1, <1>2, <2>1, <2>2
<1>5. ASSUME NEW m \in 1 .. k - i PROVE (s \o t)[m] = u[m]
  <2>1. CASE m <= j - i
    <3>1. m \in 1 .. j - i
      BY <2>1
    <3>2. (s \o t)[m] = s[m]
      BY <1>1, <1>2, <3>1
    <3> QED BY <1>1, <1>3, <3>1, <3>2
  <2>2. CASE m > j - i
    <3>1. PICK n \in 1 .. k - j : m = (j - i) + n
      <4>1. m - (j - i) \in 1 .. k - j /\ m = (j - i) + (m - (j - i))
        BY <2>2
      <4> QED BY <4>1
    <3>2. (s \o t)[m] = t[n]
      BY <1>1, <1>2, <3>1
    <3>3. j + n = i + m
      BY <3>1
    <3> QED BY <1>2, <1>3, <3>1, <3>2, <3>3
  <2>3. m <= j - i \/ m > j - i
    <3>1. m \in Int /\ j - i \in Int
      OBVIOUS
    <3> QED BY <3>1
  <2> QED BY <2>1, <2>2, <2>3
<1> QED BY <1>3, <1>4, <1>5, SeqEqual DEF s, t, u

LEMMA Joined ==
  ASSUME NEW x, Good(x)
  PROVE  /\ Ready(x) \o Behind(x) = Rest(x)
         /\ Gone(x) \o Ready(x) \o Behind(x) = Span(x, 0, x.b.wbeg)
<1>0. /\ x.b.rbeg \in Int /\ x.b.rend \in Int /\ x.b.wbeg \in Int
      /\ 0 <= x.b.rbeg /\ x.b.rbeg <= x.b.rend /\ x.b.rend <= x.b.wbeg
  BY GoodInts
<1>1. PICK z \in Int, i \in Int, j \in Int, k \in Int :
        z = 0 /\ i = x.b.rbeg /\ j = x.b.rend /\ k = x.b.wbeg
  BY <1>0
<1>2. z <= i /\ i <= j /\ j <= k /\ k <= x.b.wbeg /\ 0 <= i /\ 0 <= z /\ z <= j /\ j <= x.b.wbeg /\ 0 <= j
  BY <1>0, <1>1
<1>3. Span(x, i, j) \o Span(x, j, k) = Span(x, i, k)
  BY <1>2, SpanJoin
<1>4. Span(x, z, i) \o Span(x, i, j) = Span(x, z, j)
  BY <1>2, SpanJoin
<1>5. Span(x, z, j) \o Span(x, j, k) = Span(x, z, k)
  BY <1>2, SpanJoin
<1> QED BY <1>1, <1>3, <1>4, <1>5 DEF Ready, Behind, Rest, Gone

(* u begins with t.                                                         *)
Begins(t, u) == Len(t) <= Len(u) /\ \A k \in 1 .. Len(t) : u[k] = t[k]

LEMMA BeginsPrefix ==
  ASSUME NEW t \in Seq(Byte), NEW u \in Seq(Byte), Begins(t, u)
  PROVE  IsPrefix(t, u)
<1>1. Len(t) \in Nat /\ Len(u) \in Nat /\ Len(t) <= Len(u)
  BY DEF Begins
<1>2. PICK e \in Int, n \in Int : e = 1 /\ n = Len(t)
  BY <1>1
<1>3. \A k \in e .. n : t[k] \in Byte /\ u[k] \in Byte /\ u[k] = t[k]
  BY <1>1, <1>2, ElementOfSeq DEF Begins
<1>4. SubSeq(t, e, n) = SubSeq(u, e, n)
  <2>1. /\ SubSeq(t, e, n) \in Seq(Byte) /\ Len(SubSeq(t, e, n)) = n
        /\ \A k \in 1 .. n : SubSeq(t, e, n)[k] = t[k]
    BY <1>1, <1>2, <1>3, SubSeqProperties
  <2>2. /\ SubSeq(u, e, n) \in Seq(Byte) /\ Len(SubSeq(u, e, n)) = n
        /\ \A k \in 1 .. n : SubSeq(u, e, n)[k] = u[k]
    BY <1>1, <1>2, <1>3, SubSeqProperties
  <2> QED BY <1>2, <1>3, <2>1, <2>2, SeqEqual
<1> QED BY <1>1, <1>2, <1>4 DEF IsPrefix

(* Nothing that was not consumed is lost, and bytes come at the end only.   *)
Onward(x, z) == Gone(z) \in {Gone(x), <<>>} /\ Begins(Rest(x), Rest(z))

LEMMA OnwardSteps ==
  ASSUME NEW x, Good(x), NEW z, Good(z), Onward(x, z)
  PROVE  Extends(x, z)
BY Joined, RestIs, BeginsPrefix DEF Onward, Extends

LEMMA OnwardTrans ==
  ASSUME NEW x, NEW y, NEW z, Good(x), Good(y), Good(z), Onward(x, y), Onward(y, z)
  PROVE  Onward(x, z)
<1>1. Len(Rest(x)) \in Nat /\ Len(Rest(y)) \in Nat /\ Len(Rest(z)) \in Nat
  BY RestIs
<1>2. Begins(Rest(x), Rest(z))
  BY <1>1 DEF Onward, Begins
<1> QED BY <1>2 DEF Onward

LEMMA SpanEmpty ==
  ASSUME NEW x, NEW i \in Int
  PROVE  Span(x, i, i) = <<>>
<1>1. Larger(i - i, 0) = 0
  BY DEF Larger
<1>2. 1 .. Larger(i - i, 0) = {}
  BY <1>1
<1> QED BY <1>2 DEF Span

(* The same bytes and the same place of the readable part.                  *)
LEMMA SameOnward ==
  ASSUME NEW x, Good(x), NEW z, z.s.mem = x.s.mem, z.b.rbeg = x.b.rbeg, z.b.wbeg = x.b.wbeg
  PROVE  Onward(x, z)
<1>1. Gone(z) = Gone(x) /\ Rest(z) = Rest(x)
  BY DEF Gone, Rest, Span
<1>2. Len(Rest(x)) \in Nat
  BY RestIs
<1> QED BY <1>1, <1>2 DEF Onward, Begins

LEMMA CarriedOnward ==
  ASSUME NEW x, Good(x), NEW z, Good(z), Carried(x, z)
  PROVE  Onward(x, z)
<1>1. Rest(z) = Rest(x) /\ Len(Rest(x)) \in Nat
  BY CarriedRest, RestIs
<1>2. /\ x.b.rbeg \in Int /\ 0 <= x.b.rbeg /\ x.b.rbeg <= x.b.wbeg /\ x.b.wbeg \in Int
      /\ z.b.rbeg \in Int /\ 0 <= z.b.rbeg /\ z.b.rbeg <= z.b.wbeg /\ z.b.wbeg \in Int
  BY GoodEnds
<1>3. PICK o \in {0, x.b.rbeg} : /\ z.b.rbeg = x.b.rbeg - o /\ z.b.wbeg = x.b.wbeg - o
                                 /\ \A k \in 1 .. z.b.wbeg : z.s.mem[k] = x.s.mem[o + k]
  BY DEF Carried
<1>4. CASE o = 0
  <2>1. z.b.rbeg = x.b.rbeg
    BY <1>2, <1>3, <1>4
  <2>2. PICK i \in Int, j \in Int : i = 0 /\ j = x.b.rbeg
    BY <1>2
  <2>3. 0 <= i /\ i <= j /\ j <= x.b.wbeg /\ j <= z.b.wbeg
    BY <1>2, <2>1, <2>2
  <2>4. LET t == Span(x, i, j) IN
        t \in Seq(Byte) /\ Len(t) = j - i /\ \A k \in 1 .. j - i : t[k] = x.s.mem[i + k]
    BY <2>3, SpanIs
  <2>5. LET t == Span(z, i, j) IN
        t \in Seq(Byte) /\ Len(t) = j - i /\ \A k \in 1 .. j - i : t[k] = z.s.mem[i + k]
    BY <2>3, SpanIs
  <2>6. \A k \in 1 .. j - i : z.s.mem[i + k] = x.s.mem[i + k]
    BY <1>2, <1>3, <1>4, <2>2, <2>3
  <2>7. Span(z, i, j) = Span(x, i, j)
    BY <2>4, <2>5, <2>6, SeqEqual
  <2>8. Gone(z) = Gone(x)
    BY <2>1, <2>2, <2>7 DEF Gone
  <2> QED BY <1>1, <2>8 DEF Onward, Begins
<1>5. CASE o = x.b.rbeg
  <2>1. z.b.rbeg = 0
    BY <1>2, <1>3, <1>5
  <2>2. PICK i \in Int : i = 0
    OBVIOUS
  <2>3. Span(z, i, i) = <<>>
    BY SpanEmpty
  <2>4. Gone(z) = <<>>
    BY <2>1, <2>2, <2>3 DEF Gone
  <2> QED BY <1>1, <2>4 DEF Onward, Begins
<1> QED BY <1>4, <1>5

LEMMA StoreOnward ==
  ASSUME NEW x, Good(x), NEW d \in Seq(Byte), Len(d) <= x.b.size - x.b.wbeg
  PROVE  Onward(x, Store(x, d))
<1> DEFINE z == Store(x, d)
<1>1. Len(Rest(z)) = Len(Rest(x)) + Len(d) /\ \A k \in 1 .. Len(Rest(x)) : Rest(z)[k] = Rest(x)[k]
  BY StoreRest
<1>2. Good(z) /\ z.b.rbeg = x.b.rbeg /\ z.b.wbeg = x.b.wbeg + Len(d)
  BY StoreGood, StoreBytes
<1>3. \A k \in 1 .. x.b.wbeg : z.s.mem[k] = x.s.mem[k]
  BY StoreBytes
<1> HIDE DEF z
<1>4. /\ x.b.rbeg \in Int /\ 0 <= x.b.rbeg /\ x.b.rbeg <= x.b.wbeg /\ x.b.wbeg \in Int /\ Len(d) \in Nat
  BY GoodInts
<1>5. PICK i \in Int, j \in Int : i = 0 /\ j = x.b.rbeg
  BY <1>4
<1>6. 0 <= i /\ i <= j /\ j <= x.b.wbeg /\ j <= z.b.wbeg
  BY <1>2, <1>4, <1>5
<1>7. LET t == Span(x, i, j) IN
      t \in Seq(Byte) /\ Len(t) = j - i /\ \A k \in 1 .. j - i : t[k] = x.s.mem[i + k]
  BY <1>6, SpanIs
<1>8. LET t == Span(z, i, j) IN
      t \in Seq(Byte) /\ Len(t) = j - i /\ \A k \in 1 .. j - i : t[k] = z.s.mem[i + k]
  BY <1>2, <1>6, SpanIs
<1>9. \A k \in 1 .. j - i : z.s.mem[i + k] = x.s.mem[i + k]
  BY <1>3, <1>4, <1>5, <1>6
<1>10. Span(z, i, j) = Span(x, i, j)
  BY <1>7, <1>8, <1>9, SeqEqual
<1>11. Gone(z) = Gone(x)
  BY <1>2, <1>5, <1>10 DEF Gone
<1>12. Len(Rest(x)) \in Nat
  BY RestIs
<1> QED BY <1>1, <1>4, <1>11, <1>12 DEF Onward, Begins, z

(* Moving the cuts of the same bytes.                                       *)
LEMMA MovesCuts ==
  ASSUME NEW x, Good(x), NEW z, Good(z), z.s.mem = x.s.mem, z.b.wbeg = x.b.wbeg
  PROVE  Cuts(x, z)
<1>1. Span(z, 0, z.b.wbeg) = Span(x, 0, x.b.wbeg)
  BY DEF Span
<1> QED BY <1>1, Joined DEF Cuts

LEMMA GoneOn ==
  ASSUME NEW x, Good(x), NEW z, Good(z), z.s.mem = x.s.mem, z.b.wbeg = x.b.wbeg, x.b.rbeg <= z.b.rbeg
  PROVE  IsPrefix(Gone(x), Gone(z))
<1>0. /\ x.b.rbeg \in Int /\ z.b.rbeg \in Int /\ x.b.wbeg \in Int /\ 0 <= x.b.rbeg
      /\ x.b.rbeg <= x.b.wbeg /\ z.b.rbeg <= x.b.wbeg
  <2>1. /\ x.b.rbeg \in Int /\ x.b.rend \in Int /\ x.b.wbeg \in Int
        /\ 0 <= x.b.rbeg /\ x.b.rbeg <= x.b.rend /\ x.b.rend <= x.b.wbeg
    BY GoodInts
  <2>2. /\ z.b.rbeg \in Int /\ z.b.rend \in Int /\ z.b.wbeg \in Int
        /\ z.b.rbeg <= z.b.rend /\ z.b.rend <= z.b.wbeg
    BY GoodInts
  <2> QED BY <2>1, <2>2
<1>1. PICK o \in Int, i \in Int, j \in Int : o = 0 /\ i = x.b.rbeg /\ j = z.b.rbeg
  BY <1>0
<1>2. 0 <= o /\ o <= i /\ i <= j /\ j <= x.b.wbeg /\ o <= j /\ i <= x.b.wbeg
  BY <1>0, <1>1
<1>3. LET t == Span(x, o, i) IN
      t \in Seq(Byte) /\ Len(t) = i - o /\ \A k \in 1 .. i - o : t[k] = x.s.mem[o + k]
  BY <1>2, SpanIs
<1>4. LET t == Span(x, o, j) IN
      t \in Seq(Byte) /\ Len(t) = j - o /\ \A k \in 1 .. j - o : t[k] = x.s.mem[o + k]
  BY <1>2, SpanIs
<1>5. Begins(Span(x, o, i), Span(x, o, j))
  <2> DEFINE t == Span(x, o, i)
             u == Span(x, o, j)
  <2>1. Len(t) = i - o /\ \A l \in 1 .. i - o : t[l] = x.s.mem[o + l]
    BY <1>3
  <2>2. Len(u) = j - o /\ \A l \in 1 .. j - o : u[l] = x.s.mem[o + l]
    BY <1>4
  <2> HIDE DEF t, u
  <2>3. Len(t) <= Len(u)
    BY <1>2, <2>1, <2>2
  <2>4. ASSUME NEW l \in 1 .. Len(t) PROVE u[l] = t[l]
    <3>1. l \in 1 .. i - o /\ l \in 1 .. j - o
      BY <1>2, <2>1
    <3> QED BY <2>1, <2>2, <3>1
  <2> QED BY <2>3, <2>4 DEF Begins, t, u
<1>6. IsPrefix(Span(x, o, i), Span(x, o, j))
  BY <1>3, <1>4, <1>5, BeginsPrefix
<1>7. Gone(x) = Span(x, o, i) /\ Gone(z) = Span(x, o, j)
  BY <1>1 DEF Gone, Span
<1> QED BY <1>6, <1>7

-----------------------------------------------------------------------------
(* Each operation is a step of the window.                                  *)

(* Moving cursors.                                                          *)
LEMMA SeekCuts ==
  ASSUME CInv, Stored, NEW b \in Buf, Live(b), NEW k \in BufRec, k.st = buf[b].st,
         Within(k, store[buf[b].st]), k.wbeg = buf[b].wbeg
  PROVE  /\ Good(Seek(At(b), k)) /\ Same(At(b), Seek(At(b), k)) /\ Cuts(At(b), Seek(At(b), k))
         /\ Seek(At(b), k).b = k /\ Seek(At(b), k).s = store[buf[b].st]
<1> DEFINE z == Seek(At(b), k)
<1>1. Good(At(b)) /\ Rec(At(b)) /\ At(b).b = buf[b] /\ At(b).s = store[buf[b].st] /\ Sound(store[buf[b].st])
  BY AtGood, AtRec
<1>2. z.b = k /\ z.s = At(b).s
  BY DEF Seek
<1>3. DOMAIN k = BufFields
  BY DEF BufRec, BufFields
<1> HIDE DEF z
<1>4. Good(z)
  BY <1>1, <1>2 DEF Good
<1>5. Same(At(b), z)
  BY <1>1, <1>2, <1>3 DEF Same, Rec
<1>6. Cuts(At(b), z)
  BY <1>1, <1>2, <1>4, MovesCuts
<1> QED BY <1>1, <1>2, <1>4, <1>5, <1>6 DEF z

LEMMA SeekSteps ==
  ASSUME CInv, Stored, NEW b \in Buf, Live(b), NEW k \in BufRec, k.st = buf[b].st,
         Within(k, store[buf[b].st]), k.wbeg = buf[b].wbeg, Becomes(b, Seek(At(b), k))
  PROVE  Abstract!Next
<1> DEFINE z == Seek(At(b), k)
<1>1. Same(At(b), z) /\ Cuts(At(b), z) /\ z.s = store[buf[b].st] /\ Becomes(b, z)
  BY SeekCuts
<1> HIDE DEF z
<1> QED BY <1>1, BecomesSteps DEF Steps

(* Making room and writing.                                                 *)
LEMMA WrittenOnward ==
  ASSUME NEW x, Good(x), Rec(x), NEW n \in Nat, NEW d \in Seq(Byte), Len(d) <= n
  PROVE  LET c == WCheck(x, n)
             z == IF c.ok THEN Store(c.x, d) ELSE c.x
         IN Good(z) /\ Same(x, z) /\ Onward(x, z)
<1> DEFINE c == WCheck(x, n)
           z == IF c.ok THEN Store(c.x, d) ELSE c.x
<1>1. Good(c.x) /\ (c.ok => c.x.b.size - c.x.b.wbeg >= n) /\ Carried(x, c.x) /\ Same(x, c.x)
  BY ResizeWGood, ResizeWCarried, ResizeWSame
<1> HIDE DEF c
<1>2. Onward(x, c.x) /\ Rec(c.x)
  BY <1>1, CarriedOnward DEF Same
<1>3. CASE c.ok
  <2>1. c.x.b.size \in Int /\ c.x.b.wbeg \in Int /\ Len(d) \in Nat
    BY <1>1, GoodInts
  <2>2. Len(d) <= c.x.b.size - c.x.b.wbeg
    BY <1>1, <1>3, <2>1
  <2>3. Good(Store(c.x, d)) /\ Same(c.x, Store(c.x, d)) /\ Onward(c.x, Store(c.x, d))
    BY <1>1, <1>2, <2>2, StoreGood, StoreSame, StoreOnward
  <2>4. Onward(x, Store(c.x, d))
    BY <1>1, <1>2, <2>3, OnwardTrans
  <2> QED BY <1>1, <1>3, <2>3, <2>4 DEF Same, c
<1>4. CASE ~c.ok
  BY <1>1, <1>2, <1>4 DEF c
<1> QED BY <1>3, <1>4

LEMMA OnwardNext ==
  ASSUME CInv, Stored, NEW b \in Buf, Live(b), store[buf[b].st].refc = 1,
         NEW z, Good(z), Same(At(b), z), Onward(At(b), z), Becomes(b, z)
  PROVE  Abstract!Next
<1>1. Extends(At(b), z)
  BY AtGood, OnwardSteps
<1> QED BY <1>1, BecomesSteps DEF Steps

LEMMA WriteSteps ==
  ASSUME CInv, Stored, NEW b \in Buf, NEW d \in Seq(Byte), NEW n \in Nat, Len(d) <= n, Write(b, d, n)
  PROVE  Abstract!Next
<1> DEFINE c == WCheck(At(b), n)
           z == IF c.ok THEN Store(c.x, d) ELSE c.x
<1>1. Live(b) /\ store[buf[b].st].refc = 1 /\ Becomes(b, z)
  BY DEF Write, Writable, Usable
<1>2. Good(At(b)) /\ Rec(At(b))
  BY <1>1, AtGood, AtRec
<1>3. Good(z) /\ Same(At(b), z) /\ Onward(At(b), z)
  BY <1>2, WrittenOnward
<1> HIDE DEF z
<1> QED BY <1>1, <1>3, OnwardNext

(* The place where writing goes on moves: behind are unwritten bytes, or    *)
(* bytes are taken back.                                                    *)
LEMMA WSeekSteps ==
  ASSUME CInv, Stored, NEW b \in Buf, Live(b), WSeek(b)
  PROVE  Abstract!Next
<1>1. PICK p \in buf[b].rend .. Smaller(buf[b].size, Room) :
        /\ Writable(b)
        /\ Becomes(b, [b |-> [buf[b] EXCEPT !.wbeg = p], s |-> [At(b).s EXCEPT !.mem = Span(At(b), 0, p)]])
  BY DEF WSeek
<1> DEFINE x == At(b)
           k == [buf[b] EXCEPT !.wbeg = p]
           m == Span(At(b), 0, p)
           s == [At(b).s EXCEPT !.mem = m]
           z == [b |-> k, s |-> s]
<1>2. /\ Good(x) /\ Rec(x) /\ x.b = buf[b] /\ x.s = store[buf[b].st] /\ x.b \in BufRec /\ Sound(x.s)
  BY AtGood, AtRec
<1>3. /\ x.b.rbeg \in Int /\ x.b.rend \in Int /\ x.b.wbeg \in Int /\ x.b.size \in Int
      /\ 0 <= x.b.rbeg /\ x.b.rbeg <= x.b.rend /\ x.b.rend <= x.b.wbeg /\ x.b.wbeg <= x.b.size
      /\ x.s.mem \in Seq(Byte) /\ Len(x.s.mem) \in Nat /\ x.b.wbeg <= Len(x.s.mem)
  BY <1>2, GoodInts
<1>4. p \in Int /\ 0 <= p /\ x.b.rend <= p /\ p <= x.b.size
  BY <1>2, <1>3, RoomInt DEF Smaller
<1>5. /\ k \in BufRec /\ k.st = x.b.st /\ k.rbeg = x.b.rbeg /\ k.rend = x.b.rend
      /\ k.wbeg = p /\ k.size = x.b.size
  BY <1>2, <1>4 DEF BufRec
<1>6. m \in Seq(Byte) /\ Len(m) = p /\ \A i \in 1 .. p : i <= x.b.wbeg => m[i] = x.s.mem[i]
  <2>1. PICK o \in Int : o = 0
    OBVIOUS
  <2>2. Span(x, o, p) \in Seq(Byte) /\ Len(Span(x, o, p)) = Larger(p - o, 0)
    BY <1>3, <1>4, SpanGood
  <2>3. Larger(p - o, 0) = p
    BY <1>4, <2>1 DEF Larger
  <2>4. ASSUME NEW i \in 1 .. p, i <= x.b.wbeg PROVE Span(x, o, p)[i] = x.s.mem[i]
    <3>1. i \in 1 .. Len(x.s.mem) /\ o + i = i
      BY <1>3, <1>4, <2>1, <2>4
    <3>2. o + i \in DOMAIN x.s.mem
      BY <1>3, <3>1
    <3> QED BY <2>3, <3>1, <3>2 DEF Span
  <2> QED BY <2>1, <2>2, <2>3, <2>4
<1> HIDE DEF m
<1>7. /\ s \in StRec /\ s.mem = m /\ s.alloc = x.s.alloc /\ s.maxs = x.s.maxs /\ s.oob = x.s.oob
      /\ s.refc = x.s.refc
  BY <1>2, <1>6 DEF StRec, Sound
<1>8. Becomes(b, z) /\ z.b = k /\ z.s = s /\ store[buf[b].st].refc = 1
  BY <1>1 DEF m, Writable
<1> HIDE DEF k, s, z
<1>9. Good(z)
  <2>1. Within(k, s) /\ Sound(s)
    BY <1>2, <1>3, <1>4, <1>5, <1>6, <1>7 DEF Good, Within, Sound
  <2> QED BY <1>5, <1>8, <2>1 DEF Good
<1>10. Same(x, z)
  BY <1>5, <1>7, <1>8 DEF Same, Rec, BufRec, StRec, BufFields, StFields
<1> HIDE DEF x
<1>11. ASSUME NEW i \in Int, NEW j \in Int, 0 <= i, i <= j, j <= x.b.wbeg, j <= p
       PROVE  Span(z, i, j) = Span(x, i, j)
  <2>1. LET t == Span(x, i, j) IN
        t \in Seq(Byte) /\ Len(t) = j - i /\ \A l \in 1 .. j - i : t[l] = x.s.mem[i + l]
    BY <1>2, <1>11, SpanIs
  <2>2. j <= z.b.wbeg
    BY <1>5, <1>8, <1>11
  <2>3. LET t == Span(z, i, j) IN
        t \in Seq(Byte) /\ Len(t) = j - i /\ \A l \in 1 .. j - i : t[l] = z.s.mem[i + l]
    BY <1>9, <1>11, <2>2, SpanIs
  <2>4. \A l \in 1 .. j - i : z.s.mem[i + l] = x.s.mem[i + l]
    <3> SUFFICES ASSUME NEW l \in 1 .. j - i PROVE z.s.mem[i + l] = x.s.mem[i + l]
      OBVIOUS
    <3>1. i + l \in 1 .. p /\ i + l <= x.b.wbeg
      BY <1>3, <1>4, <1>11
    <3> QED BY <1>6, <1>7, <1>8, <3>1
  <2> QED BY <2>1, <2>3, <2>4, SeqEqual
<1>12. PICK o \in Int, i \in Int, j \in Int, w \in Int : o = 0 /\ i = x.b.rbeg /\ j = x.b.rend /\ w = x.b.wbeg
  BY <1>3
<1>13. Gone(z) = Gone(x)
  <2>1. 0 <= o /\ o <= i /\ i <= x.b.wbeg /\ i <= p
    BY <1>3, <1>4, <1>12
  <2>2. Span(z, o, i) = Span(x, o, i)
    BY <1>11, <2>1
  <2> QED BY <1>5, <1>8, <1>12, <2>2 DEF Gone
<1>14. CASE x.b.wbeg <= p
  <2>1. 0 <= i /\ i <= w /\ w <= x.b.wbeg /\ w <= p
    BY <1>3, <1>12, <1>14
  <2>2. Span(z, i, w) = Rest(x)
    BY <1>11, <1>12, <2>1 DEF Rest
  <2>3. Len(Rest(z)) = p - x.b.rbeg /\ \A l \in 1 .. Len(Rest(z)) : Rest(z)[l] = z.s.mem[x.b.rbeg + l]
    BY <1>5, <1>8, <1>9, RestIs
  <2>4. /\ Len(Rest(x)) = x.b.wbeg - x.b.rbeg
        /\ \A l \in 1 .. Len(Rest(x)) : Rest(x)[l] = x.s.mem[x.b.rbeg + l]
    BY <1>2, RestIs
  <2>5. \A l \in 1 .. x.b.wbeg - x.b.rbeg : z.s.mem[x.b.rbeg + l] = x.s.mem[x.b.rbeg + l]
    <3> SUFFICES ASSUME NEW l \in 1 .. x.b.wbeg - x.b.rbeg
                 PROVE  z.s.mem[x.b.rbeg + l] = x.s.mem[x.b.rbeg + l]
      OBVIOUS
    <3>1. x.b.rbeg + l \in 1 .. p /\ x.b.rbeg + l <= x.b.wbeg
      BY <1>3, <1>4, <1>14
    <3> QED BY <1>6, <1>7, <1>8, <3>1
  <2>6. Begins(Rest(x), Rest(z))
    <3>1. Len(Rest(x)) <= Len(Rest(z))
      BY <1>3, <1>4, <1>14, <2>3, <2>4
    <3>2. ASSUME NEW l \in 1 .. Len(Rest(x)) PROVE Rest(z)[l] = Rest(x)[l]
      <4>1. l \in 1 .. Len(Rest(z)) /\ l \in 1 .. x.b.wbeg - x.b.rbeg
        BY <1>3, <1>4, <1>14, <2>3, <2>4
      <4> QED BY <2>3, <2>4, <2>5, <4>1
    <3> QED BY <3>1, <3>2 DEF Begins
  <2>7. Onward(x, z)
    BY <1>13, <2>6 DEF Onward
  <2> QED BY <1>8, <1>9, <1>10, <2>7, OnwardNext DEF x
<1>15. CASE p < x.b.wbeg
  <2>1. 0 <= i /\ i <= j /\ j <= x.b.wbeg /\ j <= p /\ 0 <= j /\ p <= x.b.wbeg /\ p <= p /\ w <= x.b.wbeg /\ j <= w
    BY <1>3, <1>4, <1>12, <1>15
  <2>2. Ready(z) = Ready(x)
    <3>1. Span(z, i, j) = Span(x, i, j)
      BY <1>11, <2>1
    <3> QED BY <1>5, <1>8, <1>12, <3>1 DEF Ready
  <2>3. Behind(z) = Span(x, j, p)
    <3>1. Span(z, j, p) = Span(x, j, p)
      BY <1>4, <1>11, <1>12, <2>1
    <3> QED BY <1>5, <1>8, <1>12, <3>1 DEF Behind
  <2>4. LET t == Span(x, j, p) IN
        t \in Seq(Byte) /\ Len(t) = p - j /\ \A l \in 1 .. p - j : t[l] = x.s.mem[j + l]
    <3>1. Good(x) /\ p \in Int
      BY <1>2, <1>4
    <3> QED BY <2>1, <3>1, SpanIs
  <2>5. LET t == Span(x, j, w) IN
        t \in Seq(Byte) /\ Len(t) = w - j /\ \A l \in 1 .. w - j : t[l] = x.s.mem[j + l]
    <3>1. Good(x)
      BY <1>2
    <3> QED BY <2>1, <3>1, SpanIs
  <2>6. Begins(Span(x, j, p), Span(x, j, w))
    <3> DEFINE t == Span(x, j, p)
               u == Span(x, j, w)
    <3>1. p \in Int /\ p <= w
      BY <1>4, <1>12, <1>15
    <3>2. Len(t) = p - j /\ \A l \in 1 .. p - j : t[l] = x.s.mem[j + l]
      BY <2>4
    <3>3. Len(u) = w - j /\ \A l \in 1 .. w - j : u[l] = x.s.mem[j + l]
      BY <2>5
    <3> HIDE DEF t, u
    <3>4. Len(t) <= Len(u)
      BY <3>1, <3>2, <3>3
    <3>5. ASSUME NEW l \in 1 .. Len(t) PROVE u[l] = t[l]
      <4>1. l \in 1 .. p - j /\ l \in 1 .. w - j
        BY <3>1, <3>2
      <4> QED BY <3>2, <3>3, <4>1
    <3> QED BY <3>4, <3>5 DEF Begins, t, u
  <2>7. IsPrefix(Behind(z), Behind(x))
    BY <1>12, <2>3, <2>4, <2>5, <2>6, BeginsPrefix DEF Behind
  <2>8. Withdraws(x, z)
    BY <1>13, <2>2, <2>7 DEF Withdraws
  <2> QED BY <1>8, <1>10, <2>8, BecomesSteps DEF Steps, x
<1> QED BY <1>3, <1>4, <1>14, <1>15

LEMMA FetchSteps ==
  ASSUME CInv, Stored, NEW b \in Buf, Live(b), Fetch(b)
  PROVE  Abstract!Next
<1>1. PICK k \in BufRec : /\ k.st = buf[b].st /\ k.wbeg = buf[b].wbeg
                          /\ Within(k, store[buf[b].st]) /\ Becomes(b, Seek(At(b), k))
  BY ReadCursors
<1> QED BY <1>1, SeekSteps

LEMMA EditSteps ==
  ASSUME CInv, Stored, NEW b \in Buf, Live(b), Edit(b)
  PROVE  Abstract!Next
<1>0. /\ buf[b] \in BufRec /\ buf[b].rbeg \in Int /\ buf[b].rend \in Int /\ buf[b].wbeg \in Int
      /\ buf[b].size \in Int /\ Within(buf[b], store[buf[b].st]) /\ At(b).b = buf[b]
      /\ At(b).s = store[buf[b].st] /\ buf[b].st \in Buf /\ Good(At(b)) /\ Rec(At(b))
  BY AtGood, AtRec DEF BufRec
<1>1. CASE SetRecycle(b)
  <2> DEFINE k == [buf[b] EXCEPT !.norec = ~buf[b].norec]
  <2>1. buf' = [buf EXCEPT ![b] = k] /\ store' = store
    BY <1>1 DEF SetRecycle
  <2>2. /\ k \in BufRec /\ k.st = buf[b].st /\ k.rbeg = buf[b].rbeg /\ k.rend = buf[b].rend
        /\ k.wbeg = buf[b].wbeg /\ k.size = buf[b].size
    BY <1>0 DEF BufRec
  <2> HIDE DEF k
  <2>3. Within(k, store[buf[b].st])
    BY <1>0, <2>2 DEF Within
  <2>4. Becomes(b, Seek(At(b), k))
    BY <1>0, <2>1, <2>2 DEF Becomes, Seek, Stored
  <2> QED BY <2>2, <2>3, <2>4, SeekSteps
<1>2. CASE RSeek(b)
  <2>1. PICK p \in 0 .. buf[b].rend : Becomes(b, Seek(At(b), [buf[b] EXCEPT !.rbeg = p]))
    BY <1>2 DEF RSeek
  <2> DEFINE k == [buf[b] EXCEPT !.rbeg = p]
  <2>2. /\ k \in BufRec /\ k.st = buf[b].st /\ k.rbeg = p /\ k.rend = buf[b].rend
        /\ k.wbeg = buf[b].wbeg /\ k.size = buf[b].size
    BY <1>0 DEF BufRec
  <2>3. Becomes(b, Seek(At(b), k))
    BY <2>1
  <2> HIDE DEF k
  <2>4. Within(k, store[buf[b].st])
    BY <1>0, <2>2 DEF Within
  <2> QED BY <2>2, <2>3, <2>4, SeekSteps
<1>3. CASE ESeek(b)
  <2>1. PICK p \in buf[b].rbeg .. buf[b].wbeg : Becomes(b, Seek(At(b), [buf[b] EXCEPT !.rend = p]))
    BY <1>3 DEF ESeek
  <2> DEFINE k == [buf[b] EXCEPT !.rend = p]
  <2>2. /\ k \in BufRec /\ k.st = buf[b].st /\ k.rbeg = buf[b].rbeg /\ k.rend = p
        /\ k.wbeg = buf[b].wbeg /\ k.size = buf[b].size
    BY <1>0 DEF BufRec
  <2>3. Becomes(b, Seek(At(b), k))
    BY <2>1
  <2> HIDE DEF k
  <2>4. Within(k, store[buf[b].st])
    BY <1>0, <2>2 DEF Within
  <2> QED BY <2>2, <2>3, <2>4, SeekSteps
<1>4. CASE WSeek(b)
  BY <1>4, WSeekSteps
<1>5. ASSUME NEW f, Compact(b, f) PROVE Abstract!Next
  <2> DEFINE z == Recycle(At(b))
  <2>1. Good(z) /\ Same(At(b), z) /\ Carried(At(b), z)
    BY <1>0, RecycleGood, RecycleSame, RecycleCarried
  <2>2. Resize(z, 0).x = z
    BY DEF Resize
  <2>3. store[buf[b].st].refc = 1 /\ Becomes(b, z)
    BY <1>5, <2>2 DEF Compact, Writable
  <2> HIDE DEF z
  <2>4. Onward(At(b), z)
    BY <1>0, <2>1, CarriedOnward
  <2> QED BY <2>1, <2>3, <2>4, OnwardNext
<1>6. ASSUME NEW mode, Reset(b, mode) PROVE Abstract!Next
  <2> DEFINE s == IF mode = "none" THEN 0 ELSE buf[b].size
             r == IF mode = "r" THEN s ELSE 0
             m == Span(At(b), 0, r)
             k == [buf[b] EXCEPT !.rbeg = 0, !.rend = r, !.wbeg = r, !.size = s]
             t == [At(b).s EXCEPT !.mem = m]
             z == [b |-> k, s |-> t]
  <2>1. store[buf[b].st].refc = 1 /\ Becomes(b, z)
    BY <1>6 DEF Reset, Writable
  <2>2. r \in Int
    BY <1>0
  <2> HIDE DEF s, r, m
  <2>3. DOMAIN k = BufFields /\ k.st = buf[b].st /\ k.rbeg = 0 /\ k.rend = r /\ k.wbeg = r
    BY <1>0 DEF BufRec, BufFields
  <2>4. DOMAIN t = StFields /\ t.refc = At(b).s.refc
    BY <1>0 DEF Rec, StFields
  <2>5. z.b = k /\ z.s = t
    OBVIOUS
  <2> HIDE DEF k, t, z
  <2>6. Same(At(b), z)
    BY <1>0, <2>3, <2>4, <2>5 DEF Same, Rec
  <2>7. PICK o \in Int : o = 0
    OBVIOUS
  <2>8. Span(z, o, o) = <<>> /\ Span(z, r, r) = <<>>
    BY <2>2, SpanEmpty
  <2>9. Restarts(At(b), z)
    BY <2>3, <2>5, <2>7, <2>8 DEF Restarts, Gone, Behind
  <2> QED BY <2>1, <2>6, <2>9, BecomesSteps DEF Steps
<1>7. CASE WFill(b)
  <2>1. PICK v \in Byte : v = Nul
    BY DEF Byte
  <2>2. <<v>> \in Seq(Byte) /\ Len(<<v>>) = 1
    OBVIOUS
  <2>3. PICK d \in Seq(Byte) : d = <<v>> /\ Len(d) = 1
    BY <2>2
  <2>4. PICK n \in Nat : n = 1
    OBVIOUS
  <2>5. Write(b, d, n) /\ Len(d) <= n
    BY <1>7, <2>1, <2>3, <2>4 DEF WFill
  <2> QED BY <2>5, WriteSteps
<1>8. ASSUME NEW d \in Data, WData(b, d) \/ WStr(b, d) PROVE Abstract!Next
  <2>1. d \in Seq(Byte)
    BY DataAssumption
  <2>2. PICK n \in Nat : Write(b, d, n) /\ Len(d) <= n
    <3>1. Len(d) \in Nat /\ Len(d) + 1 \in Nat
      BY <2>1
    <3> QED BY <1>8, <3>1 DEF WData, WStr
  <2> QED BY <2>1, <2>2, WriteSteps
<1> QED BY <1>1, <1>2, <1>3, <1>4, <1>5, <1>6, <1>7, <1>8 DEF Edit

(* Copies: the bytes of c go to the end of b.                               *)
LEMMA WBufOnward ==
  ASSUME CInv, Stored, NEW b \in Buf, NEW c \in Buf, Live(b), Live(c), NEW src, NEW len \in Int,
         src.rbeg \in Int, src.rend \in Int, src.rbeg <= src.rend
  PROVE  Onward(At(b), WBuf(b, c, src, len).x)
<1> DEFINE alen == src.rend - src.rbeg
           n == IF len <= 0 THEN alen ELSE Smaller(alen, len)
           full == Span(At(c), src.rbeg, src.rend)
           d == SubSeq(full, 1, n)
           w == WCheck(At(b), n)
           z == IF w.ok THEN Store(w.x, d) ELSE w.x
<1>1. alen \in Nat /\ n \in Nat /\ n <= alen
  BY DEF Smaller
<1>2. WBuf(b, c, src, len).x = z
  BY DEF WBuf
<1>3. full \in Seq(Byte) /\ Len(full) = alen
  <2>1. At(c).s.mem \in Seq(Byte)
    BY AtGood DEF Sound, StRec
  <2>2. full \in Seq(Byte) /\ Len(full) = Larger(alen, 0)
    BY <2>1, SpanGood
  <2> QED BY <1>1, <2>2 DEF Larger
<1> HIDE DEF alen, n, full
<1>4. d \in Seq(Byte) /\ Len(d) = n
  <2>1. \A i \in 1 .. n : full[i] \in Byte
    BY <1>1, <1>3, ElementOfSeq
  <2>2. PICK e \in Int : e = 1
    OBVIOUS
  <2>3. SubSeq(full, e, n) \in Seq(Byte) /\ Len(SubSeq(full, e, n)) = IF e <= n THEN n - e + 1 ELSE 0
    BY <1>1, <2>1, <2>2, SubSeqProperties
  <2> QED BY <1>1, <2>2, <2>3
<1> HIDE DEF d
<1>5. Good(At(b)) /\ Rec(At(b)) /\ Len(d) <= n
  BY <1>1, <1>4, AtGood, AtRec
<1>6. Onward(At(b), z)
  BY <1>1, <1>4, <1>5, WrittenOnward
<1> QED BY <1>2, <1>6

LEMMA CopySteps ==
  ASSUME CInv, Stored, FullDet = FALSE, NEW b \in Buf, Copy(b)
  PROVE  Abstract!Next
<1>1. PICK c \in Buf, len \in {0, 1} :
        WBufR(b, c, len, TRUE) \/ WBufR(b, c, len, FALSE) \/ ReadTo(c, b, len)
  BY DEF Copy
<1>2. Live(b) /\ Live(c) /\ b # c /\ buf[b].st # buf[c].st /\ store[buf[b].st].refc = 1 /\ len \in Int
  BY <1>1 DEF WBufR, ReadTo, Pair, Writable, Usable
<1>3. /\ buf[c] \in BufRec /\ buf[c].rbeg \in Int /\ buf[c].rend \in Int /\ buf[c].wbeg \in Int
      /\ buf[c].size \in Int /\ Within(buf[c], store[buf[c].st]) /\ Good(At(c)) /\ At(c).b = buf[c]
      /\ At(c).s = store[buf[c].st]
  BY <1>2, AtGood DEF BufRec
<1>4. Good(At(b))
  BY <1>2, AtGood
<1>a. ASSUME NEW k \in BufRec, k.st = buf[c].st, Within(k, store[buf[c].st]), k.wbeg = buf[c].wbeg,
             buf[c].rbeg <= k.rbeg, NEW z, Good(z), Same(At(b), z), Onward(At(b), z), Both(b, z, c, k)
      PROVE  Abstract!Next
  <2> DEFINE v == Seek(At(c), k)
  <2>1. Good(v) /\ Cuts(At(c), v) /\ v.b = k /\ v.s = At(c).s
    BY <1>2, <1>3, <1>a, SeekCuts
  <2>2. DOMAIN k = BufFields
    BY DEF BufRec, BufFields
  <2>3. Extends(At(b), z)
    BY <1>4, <1>a, OnwardSteps
  <2> HIDE DEF v
  <2>4. IsPrefix(Gone(At(c)), Gone(v))
    BY <1>3, <1>a, <2>1, GoneOn
  <2> QED BY <1>2, <1>a, <2>1, <2>2, <2>3, <2>4, BothSteps DEF v
<1>5. ASSUME NEW f, WBufR(b, c, len, f) PROVE Abstract!Next
  <2> DEFINE w == WBuf(b, c, buf[c], len)
             p == IF f /\ w.n > 0 THEN buf[c].rbeg + w.n ELSE buf[c].rbeg
             k == [buf[c] EXCEPT !.rbeg = p]
  <2>1. Both(b, w.x, c, k)
    BY <1>5 DEF WBufR
  <2>2. /\ Good(w.x) /\ Same(At(b), w.x) /\ (w.n \in 0 .. (buf[c].rend - buf[c].rbeg) \/ w.n = 0 - 12)
        /\ Onward(At(b), w.x)
    <3> DEFINE src == buf[c]
    <3>1. src.rbeg \in Int /\ src.rend \in Int /\ src.rbeg <= src.rend
      BY <1>3 DEF Within
    <3> HIDE DEF src
    <3>2. LET v == WBuf(b, c, src, len) IN
          Good(v.x) /\ Same(At(b), v.x) /\ (v.n \in 0 .. (src.rend - src.rbeg) \/ v.n = 0 - 12)
      BY <1>2, <3>1, WBufGood
    <3>3. Onward(At(b), WBuf(b, c, src, len).x)
      BY <1>2, <3>1, WBufOnward
    <3> QED BY <3>2, <3>3 DEF src
  <2> HIDE DEF w
  <2>3. p \in Int /\ buf[c].rbeg <= p /\ p <= buf[c].rend
    BY <1>3, <2>2 DEF Within
  <2> HIDE DEF p
  <2>4. /\ k \in BufRec /\ k.st = buf[c].st /\ k.rbeg = p /\ k.rend = buf[c].rend
        /\ k.wbeg = buf[c].wbeg /\ k.size = buf[c].size
    BY <1>3, <2>3 DEF BufRec
  <2> DEFINE z == w.x
  <2>5. Both(b, z, c, k) /\ Good(z) /\ Same(At(b), z) /\ Onward(At(b), z)
    BY <2>1, <2>2
  <2> HIDE DEF k, z
  <2>6. Within(k, store[buf[c].st]) /\ buf[c].rbeg <= k.rbeg
    BY <1>3, <2>3, <2>4 DEF Within
  <2> QED BY <1>a, <2>4, <2>5, <2>6
<1>6. CASE ReadTo(c, b, len)
  <2> DEFINE src == [buf[c] EXCEPT !.rbeg = buf[c].rend, !.rend = buf[c].wbeg]
             w == WBuf(b, c, src, len)
             sz == buf[c].wbeg - buf[c].rend
             r == buf[c].wbeg - (sz - w.n)
             z == Seek(w.x, [w.x.b EXCEPT !.rend = w.x.b.wbeg])
             y == [buf[c] EXCEPT !.rbeg = r, !.rend = r]
             y0 == [buf[c] EXCEPT !.rbeg = buf[c].rend]
  <2>1. w.n >= 0 /\ IF sz = 0 THEN UNCHANGED store /\ buf' = [buf EXCEPT ![c] = y0] ELSE Both(b, z, c, y)
    BY <1>6 DEF ReadTo
  <2>2. src.rbeg = buf[c].rend /\ src.rend = buf[c].wbeg
    BY <1>3 DEF BufRec
  <2> HIDE DEF src
  <2>3. /\ Good(w.x) /\ Same(At(b), w.x) /\ (w.n \in 0 .. (src.rend - src.rbeg) \/ w.n = 0 - 12)
        /\ Onward(At(b), w.x)
    <3>1. src.rbeg \in Int /\ src.rend \in Int /\ src.rbeg <= src.rend
      BY <1>3, <2>2 DEF Within
    <3>2. LET v == WBuf(b, c, src, len) IN
          Good(v.x) /\ Same(At(b), v.x) /\ (v.n \in 0 .. (src.rend - src.rbeg) \/ v.n = 0 - 12)
      BY <1>2, <3>1, WBufGood
    <3>3. Onward(At(b), WBuf(b, c, src, len).x)
      BY <1>2, <3>1, WBufOnward
    <3> QED BY <3>2, <3>3
  <2> HIDE DEF w
  <2>4. r \in Int /\ buf[c].rend <= r /\ r <= buf[c].wbeg
    BY <1>3, <2>1, <2>2, <2>3
  <2> HIDE DEF r
  <2>5. CASE sz = 0
    <3>1. /\ y0 \in BufRec /\ y0.st = buf[c].st /\ y0.rbeg = buf[c].rend /\ y0.rend = buf[c].rend
          /\ y0.wbeg = buf[c].wbeg /\ y0.size = buf[c].size
      BY <1>3 DEF BufRec
    <3>2. UNCHANGED store /\ buf' = [buf EXCEPT ![c] = y0]
      BY <2>1, <2>5
    <3> HIDE DEF y0
    <3>3. Within(y0, store[buf[c].st])
      BY <1>3, <3>1 DEF Within
    <3>4. buf[c].st \in Buf /\ At(c).s = store[buf[c].st]
      BY <1>2, AtGood
    <3>5. Becomes(c, Seek(At(c), y0))
      BY <3>1, <3>2, <3>4 DEF Becomes, Seek, Stored
    <3> QED BY <1>2, <3>1, <3>3, <3>5, SeekSteps
  <2>6. CASE sz # 0
    <3>1. /\ y \in BufRec /\ y.st = buf[c].st /\ y.rbeg = r /\ y.rend = r
          /\ y.wbeg = buf[c].wbeg /\ y.size = buf[c].size
      BY <1>3, <2>4 DEF BufRec
    <3>2. Both(b, z, c, y)
      BY <2>1, <2>6
    <3> DEFINE x == w.x
    <3>3. Good(x) /\ Rec(x) /\ Same(At(b), x) /\ Onward(At(b), x)
      BY <2>3 DEF Same
    <3>4. z = Seek(x, [x.b EXCEPT !.rend = x.b.wbeg])
      OBVIOUS
    <3> HIDE DEF x, z, y
    <3>5. Good(z)
      BY <3>3, <3>4, ToEndGood
    <3>6. z.s.mem = x.s.mem /\ z.b.rbeg = x.b.rbeg /\ z.b.wbeg = x.b.wbeg
      BY <3>3, <3>4 DEF Seek, Good, BufRec
    <3>7. Same(At(b), z)
      <4>1. Same(x, z)
        BY <3>3, <3>4, FoundSame
      <4> QED BY <3>3, <4>1 DEF Same
    <3>8. Onward(At(b), z)
      <4>1. Onward(x, z)
        BY <3>3, <3>6, SameOnward
      <4> QED BY <1>4, <3>3, <3>5, <4>1, OnwardTrans
    <3>9. Within(y, store[buf[c].st]) /\ buf[c].rbeg <= y.rbeg
      BY <1>3, <2>4, <3>1 DEF Within
    <3> QED BY <1>a, <3>1, <3>2, <3>5, <3>7, <3>8, <3>9
  <2> QED BY <2>5, <2>6
<1> QED BY <1>1, <1>5, <1>6

(* Creation and deletion.                                                   *)
LEMMA FreshSteps ==
  ASSUME CInv, NEW b \in Buf, ~Live(b), NEW st \in FreeStores(b), NEW k, DOMAIN k = BufFields, k.st = st,
         NEW s, Becomes(b, [b |-> k, s |-> s])
  PROVE  Abstract!Next
<1>1. /\ st \in Buf /\ store[st].refc = 0 /\ DOMAIN buf = Buf /\ DOMAIN store = Buf
      /\ \A a \in Buf : Live(a) => buf[a].st \in Buf
  BY DEF FreeStores, CInv, Shaped
<1>2. Users(st) = {}
  BY <1>1, FS_EmptySet DEF CInv, Counted
<1>3. buf' = [buf EXCEPT ![b] = k] /\ store' = [store EXCEPT ![st] = s]
  BY DEF Becomes
<1>4. Live(b)'
  BY <1>1, <1>3, NoneShape DEF Live
<1>5. \A a \in Buf \ {b} : buf'[a] = buf[a]
  BY <1>1, <1>3
<1>6. \A a \in Buf \ {b} : Live(a) => store'[buf[a].st].mem = store[buf[a].st].mem
  BY <1>1, <1>2, <1>3 DEF Users
<1>7. Apart({b})
  BY <1>5, <1>6, Unseen
<1> QED BY <1>4, <1>7, Creates

LEMMA CursorsShape ==
  ASSUME NEW st, NEW r, NEW w, NEW n
  PROVE  DOMAIN Cursors(st, r, w, n) = BufFields /\ Cursors(st, r, w, n).st = st
BY DEF Cursors, BufFields

LEMMA NewSteps ==
  ASSUME CInv, NEW b \in Buf, NEW n, New(b, n)
  PROVE  Abstract!Next
<1>1. PICK st \in FreeStores(b) :
        ~Live(b) /\ Becomes(b, [b |-> Cursors(st, 0, 0, n),
                                s |-> [Free EXCEPT !.alloc = n + 1, !.maxs = n, !.refc = 1]])
  BY DEF New, Idle
<1>2. PICK k, s : k = Cursors(st, 0, 0, n) /\ Becomes(b, [b |-> k, s |-> s])
  BY <1>1
<1>3. DOMAIN k = BufFields /\ k.st = st
  BY <1>2, CursorsShape
<1> QED BY <1>1, <1>2, <1>3, FreshSteps

LEMMA NewDSteps ==
  ASSUME CInv, NEW b \in Buf, NEW d, NEW m, NEW r, NewD(b, d, m, r)
  PROVE  Abstract!Next
<1>1. PICK st \in FreeStores(b) :
        ~Live(b) /\ \E s : Becomes(b, [b |-> IF r THEN Cursors(st, Len(d), Len(d), Len(d))
                                                  ELSE Cursors(st, 0, 0, Len(d)), s |-> s])
  BY DEF NewD, Idle
<1>2. PICK s : Becomes(b, [b |-> IF r THEN Cursors(st, Len(d), Len(d), Len(d))
                                 ELSE Cursors(st, 0, 0, Len(d)), s |-> s])
  BY <1>1
<1> DEFINE k == IF r THEN Cursors(st, Len(d), Len(d), Len(d)) ELSE Cursors(st, 0, 0, Len(d))
<1>3. DOMAIN k = BufFields /\ k.st = st
  BY CursorsShape
<1>4. Becomes(b, [b |-> k, s |-> s])
  BY <1>2
<1> HIDE DEF k
<1> QED BY <1>1, <1>3, <1>4, FreshSteps

LEMMA ViewSteps ==
  ASSUME CInv, Stored, NEW b \in Buf, NEW c \in Buf, NewR(b, c)
  PROVE  Abstract!Next
<1> DEFINE st == buf[c].st
           k == [buf[c] EXCEPT !.wbeg = buf[c].rend, !.size = buf[c].rend]
           z == [store[st] EXCEPT !.refc = @ + 1]
<1>1. ~Live(b) /\ Live(c) /\ Becomes(b, [b |-> k, s |-> z])
  BY DEF NewR, Idle
<1>2. /\ DOMAIN buf = Buf /\ DOMAIN store = Buf /\ st \in Buf /\ DOMAIN buf[c] = BufFields
      /\ DOMAIN store[st] = StFields /\ \A a \in Buf : Live(a) => buf[a].st \in Buf
  BY <1>1 DEF CInv, Shaped
<1>3. DOMAIN k = BufFields /\ k.st = st
  BY <1>2 DEF BufFields
<1>4. z.mem = store[st].mem
  BY <1>2 DEF StFields
<1>5. buf' = [buf EXCEPT ![b] = k] /\ store' = [store EXCEPT ![st] = z]
  BY <1>1, <1>3 DEF Becomes
<1> HIDE DEF k, z, st
<1>6. Live(b)'
  BY <1>2, <1>3, <1>5, NoneShape DEF Live
<1>7. \A a \in Buf \ {b} : buf'[a] = buf[a]
  BY <1>2, <1>5
<1>8. \A a \in Buf \ {b} : Live(a) => store'[buf[a].st].mem = store[buf[a].st].mem
  BY <1>2, <1>4, <1>5
<1>9. Apart({b})
  BY <1>7, <1>8, Unseen
<1> QED BY <1>1, <1>6, <1>9, Creates

LEMMA CreateSteps ==
  ASSUME CInv, Stored, NEW b \in Buf, Create(b) \/ CreatePeer(b)
  PROVE  Abstract!Next
<1>1. ASSUME NEW n, New(b, n) PROVE Abstract!Next
  BY <1>1, NewSteps
<1>2. ASSUME NEW d, NEW m, NEW r, NewD(b, d, m, r) PROVE Abstract!Next
  BY <1>2, NewDSteps
<1>3. ASSUME NEW c \in Buf, NewR(b, c) PROVE Abstract!Next
  BY <1>3, ViewSteps
<1>4. \/ \E n : New(b, n)
      \/ \E d, m, r : NewD(b, d, m, r)
      \/ \E c \in Buf : NewR(b, c)
  BY DEF Create, CreatePeer, Dup
<1> QED BY <1>1, <1>2, <1>3, <1>4

LEMMA DelSteps ==
  ASSUME CInv, NEW b \in Buf, Del(b)
  PROVE  Abstract!Next
<1> DEFINE st == buf[b].st
           z1 == [store[st] EXCEPT !.refc = @ - 1]
           z == IF store[st].refc = 1 THEN [Free EXCEPT !.oob = store[st].oob] ELSE z1
<1>1. Live(b)
  BY DEF Del, Usable
<1>2. /\ DOMAIN buf = Buf /\ DOMAIN store = Buf /\ st \in Buf /\ DOMAIN store[st] = StFields
      /\ \A a \in Buf : Live(a) => buf[a].st \in Buf
  BY <1>1 DEF CInv, Shaped
<1>3. buf' = [buf EXCEPT ![b] = None] /\ store' = [store EXCEPT ![st] = z]
  BY DEF Del
<1>4. z1.mem = store[st].mem
  BY <1>2 DEF StFields
<1>5. store[st].refc # 1 => z = z1
  OBVIOUS
<1> HIDE DEF z, z1
<1>6. ~Live(b)' /\ \A a \in Buf \ {b} : buf'[a] = buf[a]
  BY <1>2, <1>3 DEF Live
<1>7. ASSUME NEW a \in Buf \ {b}, Live(a) PROVE store'[buf[a].st].mem = store[buf[a].st].mem
  <2>1. CASE buf[a].st # st
    BY <1>2, <1>3, <1>7, <2>1
  <2>2. CASE buf[a].st = st
    <3>1. store[st].refc # 1
      BY <1>1, <1>7, <2>2, OnlyUser
    <3> QED BY <1>2, <1>3, <1>4, <1>5, <2>2, <3>1
  <2> QED BY <2>1, <2>2
<1>8. Apart({b})
  BY <1>6, <1>7, Unseen
<1> QED BY <1>1, <1>6, <1>8, Deletes

(* read_until.                                                              *)
LEMMA FoundOnward ==
  ASSUME NEW x, Good(x), NEW i
  PROVE  Onward(x, Found(x, i)) /\ Onward(x, Seek(x, [x.b EXCEPT !.rend = x.b.wbeg]))
<1> DEFINE p == x.b.rbeg + i + Len(Until)
<1>1. \A q : LET z == Seek(x, [x.b EXCEPT !.rend = q]) IN
             z.s.mem = x.s.mem /\ z.b.rbeg = x.b.rbeg /\ z.b.wbeg = x.b.wbeg
  BY DEF Good, BufRec, Seek
<1>2. \A q : Onward(x, Seek(x, [x.b EXCEPT !.rend = q]))
  BY <1>1, SameOnward
<1> QED BY <1>2 DEF Found

LEMMA PrepSteps ==
  ASSUME CInv, Stored, NEW b \in Buf, NEW kind \in Reads, NEW max \in {1, Batch + 1},
         UntilPrep(b, kind, max)
  PROVE  Abstract!Next
<1> DEFINE e == Seek(At(b), [buf[b] EXCEPT !.rend = buf[b].wbeg])
           more == Slack(b) # <<>>
           x == IF more THEN e ELSE At(b)
           i == IF more THEN CFind(e, 0) ELSE 0 - 1
           n == Smaller(max, Batch)
           w == ResizeW(x, n)
<1>1. Live(b) /\ store[buf[b].st].refc = 1
  BY DEF UntilPrep, Writable, Usable
<1>2. (i >= 0 /\ Becomes(b, Found(x, i))) \/ Becomes(b, w.x)
  BY DEF UntilPrep
<1>3. Good(At(b)) /\ Rec(At(b)) /\ At(b).b = buf[b]
  BY <1>1, AtGood, AtRec
<1>4. Good(e) /\ Same(At(b), e) /\ Onward(At(b), e) /\ e.b.rend = e.b.wbeg
  <2> DEFINE y == At(b)
  <2>1. e = Seek(y, [y.b EXCEPT !.rend = y.b.wbeg])
    BY <1>3
  <2> HIDE DEF y, e
  <2>2. Good(y) /\ Rec(y)
    BY <1>3 DEF y
  <2>3. Good(e) /\ e.b.rend = e.b.wbeg
    BY <2>1, <2>2, ToEndGood
  <2>4. Same(y, e) /\ Onward(y, e)
    BY <2>1, <2>2, FoundSame, FoundOnward
  <2> QED BY <2>3, <2>4 DEF y
<1>5. CASE i >= 0 /\ Becomes(b, Found(x, i))
  <2>1. more /\ x = e
    BY <1>5
  <2>2. PICK o \in Nat : o = 0
    OBVIOUS
  <2>3. i = CFind(e, o)
    BY <2>1, <2>2
  <2> HIDE DEF e, x, more, i
  <2> DEFINE z == Found(e, CFind(e, o))
  <2>4. Good(z)
    BY <1>4, <1>5, <2>3, FoundGood
  <2>5. Same(e, z) /\ Onward(e, z)
    BY <1>4, FoundSame, FoundOnward DEF Same
  <2>6. Becomes(b, z)
    BY <1>5, <2>1, <2>3
  <2> HIDE DEF z
  <2>7. Same(At(b), z)
    BY <1>4, <2>5 DEF Same
  <2>8. Onward(At(b), z)
    BY <1>3, <1>4, <2>4, <2>5, OnwardTrans
  <2> QED BY <1>1, <2>4, <2>6, <2>7, <2>8, OnwardNext
<1>6. CASE Becomes(b, w.x)
  <2>1. Len(Rest(At(b))) \in Nat
    BY <1>3, RestIs
  <2>2. Onward(At(b), At(b))
    BY <2>1 DEF Onward, Begins
  <2> HIDE DEF e, more
  <2>3. Good(x) /\ Same(At(b), x) /\ Onward(At(b), x)
    BY <1>1, <1>3, <1>4, <2>2, AtRec
  <2>4. n \in Nat
    BY SizeAssumption DEF Smaller
  <2> HIDE DEF x, n
  <2> DEFINE z == w.x
  <2>5. Good(z) /\ Carried(x, z) /\ Same(x, z)
    BY <2>3, <2>4, ResizeWGood, ResizeWCarried, ResizeWSame DEF Same
  <2>6. Becomes(b, z)
    BY <1>6
  <2> HIDE DEF z
  <2>7. Same(At(b), z)
    BY <2>3, <2>5 DEF Same
  <2>8. Onward(x, z)
    BY <2>3, <2>5, CarriedOnward
  <2>9. Onward(At(b), z)
    BY <1>3, <2>3, <2>5, <2>8, OnwardTrans
  <2> QED BY <1>1, <2>5, <2>6, <2>7, <2>9, OnwardNext
<1> QED BY <1>2, <1>5, <1>6

LEMMA PostSteps ==
  ASSUME BInv, op.st = "wait", NEW d \in Received, UntilPost(d)
  PROVE  Abstract!Next \/ UNCHANGED <<buf, store>>
<1>1. PICK b \in Buf : b = op.b
  BY DEF BInv, Held
<1> DEFINE x == Store(At(b), d)
           y == Seek(x, [x.b EXCEPT !.rend = x.b.wbeg])
           total == op.total + Len(d)
           i == CFind(y, ScanFrom)
           n == Smaller(op.max - total, Batch)
           w == ResizeW(y, n)
<1>2. /\ CInv /\ Stored /\ Live(b) /\ store[buf[b].st].refc = 1 /\ op \in WaitRec
      /\ op.room = buf[b].size - buf[b].wbeg
  BY <1>1 DEF BInv, Held, Waits
<1>3. op.max \in Nat /\ op.total \in Nat /\ op.flag \in Int /\ op.room \in Nat
  <2>1. buf[b].size \in Int /\ buf[b].wbeg \in Int /\ buf[b].wbeg <= buf[b].size
    BY <1>2, AtGood DEF BufRec, Within
  <2> QED BY <1>2, <2>1 DEF WaitRec
<1>4. d \in Seq(Byte) /\ Len(d) <= op.room /\ Len(d) \in Nat
  BY <1>3, ReceivedGood
<1>5. \/ UNCHANGED <<buf, store>>
      \/ i >= 0 /\ Becomes(b, Found(y, i))
      \/ Becomes(b, y)
      \/ total < op.max /\ Becomes(b, w.x)
  <2>1. ~(total >= op.max) => total < op.max
    BY <1>3, <1>4
  <2> QED BY <1>1, <2>1, Zenon DEF UntilPost
<1>6. Good(At(b)) /\ Rec(At(b)) /\ Len(d) <= At(b).b.size - At(b).b.wbeg
  BY <1>2, <1>4, AtGood, AtRec
<1>7. Good(x) /\ Same(At(b), x) /\ Onward(At(b), x)
  BY <1>4, <1>6, StoreGood, StoreSame, StoreOnward
<1> HIDE DEF x
<1>8. Good(y) /\ y.b.rend = y.b.wbeg
  BY <1>7, ToEndGood
<1>9. Same(x, y) /\ Onward(x, y)
  BY <1>7, FoundSame, FoundOnward DEF Same
<1> HIDE DEF y
<1>10. Same(At(b), y)
  BY <1>7, <1>9 DEF Same
<1>11. Onward(At(b), y)
  BY <1>6, <1>7, <1>8, <1>9, OnwardTrans
<1>12. CASE i >= 0 /\ Becomes(b, Found(y, i))
  <2>1. ScanFrom \in Nat
    <3>1. Len(Until) \in Nat
      BY DataAssumption
    <3> QED BY <1>3, <3>1 DEF ScanFrom, Larger
  <2> DEFINE z == Found(y, i)
  <2>2. Good(z)
    BY <1>8, <1>12, <2>1, FoundGood
  <2> HIDE DEF i
  <2>3. Same(y, z) /\ Onward(y, z)
    BY <1>8, <1>10, FoundSame, FoundOnward DEF Same
  <2>4. Becomes(b, z)
    BY <1>12
  <2> HIDE DEF z
  <2>5. Same(At(b), z)
    BY <1>10, <2>3 DEF Same
  <2>6. Onward(At(b), z)
    BY <1>6, <1>8, <1>11, <2>2, <2>3, OnwardTrans
  <2> QED BY <1>2, <2>2, <2>4, <2>5, <2>6, OnwardNext
<1>13. CASE Becomes(b, y)
  BY <1>2, <1>8, <1>10, <1>11, <1>13, OnwardNext
<1>14. CASE total < op.max /\ Becomes(b, w.x)
  <2>1. n \in Nat
    <3>1. total \in Nat
      BY <1>3, <1>4
    <3>2. op.max - total \in Nat
      BY <1>3, <1>14, <3>1
    <3> QED BY <3>2, SizeAssumption DEF Smaller
  <2> HIDE DEF n
  <2> DEFINE z == w.x
  <2>2. Good(z) /\ Carried(y, z) /\ Same(y, z) /\ Becomes(b, z)
    BY <1>8, <1>10, <1>14, <2>1, ResizeWGood, ResizeWCarried, ResizeWSame DEF Same
  <2> HIDE DEF z
  <2>3. Same(At(b), z)
    BY <1>10, <2>2 DEF Same
  <2>4. Onward(y, z)
    BY <1>8, <2>2, CarriedOnward
  <2>5. Onward(At(b), z)
    BY <1>6, <1>8, <1>11, <2>2, <2>4, OnwardTrans
  <2> QED BY <1>2, <2>2, <2>3, <2>5, OnwardNext
<1> QED BY <1>5, <1>12, <1>13, <1>14

LEMMA WindowStep ==
  ASSUME BInv, FullDet = FALSE, [Next]_vars
  PROVE  [Abstract!Next]_Abstract!vars
<1>1. CInv /\ Stored
  BY DEF BInv
<1>2. ASSUME UNCHANGED <<buf, store>> PROVE UNCHANGED Abstract!vars
  BY <1>2 DEF Abstract!vars, Live, At, Span
<1>3. ASSUME NEW b \in Buf, Create(b) \/ CreatePeer(b) PROVE Abstract!Next
  BY <1>1, <1>3, CreateSteps
<1>4. ASSUME NEW b \in Buf, Del(b) PROVE Abstract!Next
  BY <1>1, <1>4, DelSteps
<1>5. ASSUME NEW b \in Buf, Copy(b) PROVE Abstract!Next
  BY <1>1, <1>5, CopySteps
<1>6. ASSUME NEW b \in Buf, Live(b), Fetch(b) PROVE Abstract!Next
  BY <1>1, <1>6, FetchSteps
<1>7. ASSUME NEW b \in Buf, Live(b), Edit(b) PROVE Abstract!Next
  BY <1>1, <1>7, EditSteps
<1>8. ASSUME NEW b \in Buf, NEW k \in Reads, NEW m \in {1, Batch + 1}, UntilPrep(b, k, m)
      PROVE  Abstract!Next
  BY <1>1, <1>8, PrepSteps
<1>9. ASSUME op.st = "wait", NEW d \in Received, UntilPost(d)
      PROVE  Abstract!Next \/ UNCHANGED <<buf, store>>
  BY <1>9, PostSteps
<1>10. CASE UntilReturn
  BY <1>2, <1>10 DEF UntilReturn
<1>11. CASE UNCHANGED vars
  BY <1>2, <1>11 DEF vars
<1>12. CASE Next
  BY <1>2, <1>3, <1>4, <1>5, <1>6, <1>7, <1>8, <1>9, <1>10, <1>12, Zenon DEF Next
<1> QED BY <1>11, <1>12

\* For its user every buffer is a text with two cuts, to whose end bytes are added: growing,
\* shrinking, compacting and sharing a storage never lose, invent or reorder a byte, for any
\* buffers, texts and sizes (_dpbuf_resize, _dpbuf_recycle_data, dpbuf_new_r).
THEOREM BuffersAreWindows ==
  ASSUME Modes \subseteq {"dup"}, FullDet = FALSE
  PROVE  Spec => ImplementsWindow
<1>1. Init => Abstract!Init
  <2> SUFFICES ASSUME Init PROVE Abstract!Init
    OBVIOUS
  <2>1. \A b \in Buf : ~Live(b)
    BY DEF Init, Live
  <2>2. \A b \in Buf : Live(b) = FALSE
    BY <2>1 DEF Live
  <2> QED BY <2>1, <2>2 DEF Abstract!Init
<1>2. BInv /\ [Next]_vars => [Abstract!Next]_Abstract!vars
  BY WindowStep
<1> QED BY <1>1, <1>2, BytesKept, PTL DEF Spec, ImplementsWindow, Abstract!Spec
=============================================================================
