------------------------------ MODULE QicProofs ------------------------------
(***************************************************************************)
(* Proofs about QUIC (Qic): every connection and stream is handed to one   *)
(* place, a served call is not served again, and header sets are sound.    *)
(***************************************************************************)
EXTENDS Qic, SequenceTheorems, WellFoundedInduction, TLAPS

Kinds == {None, "accept", "connect", "new", "stream", "recv", "send"}
Places == {None, "ready", "user", "astray"}
Outs == {None, "cur", "old"}

OpType == [kind : Kinds, ended : BOOLEAN, ret : Int, len : Nat]
LsnType == [open : BOOLEAN, op : OpType, out : Outs, ready : Seq(Conns)]
ConnType == [made : BOOLEAN, live : BOOLEAN, quic : BOOLEAN, hsk : BOOLEAN, place : Places,
             op : OpType, out : Outs, ready : Seq(Stms), delayed : Nat]
StmType == [conn : 0 .. MaxConn, quic : BOOLEAN, ctx : BOOLEAN, place : Places, wr : BOOLEAN,
            ww : BOOLEAN, stale : BOOLEAN, dup : BOOLEAN, lost : BOOLEAN, used : BOOLEAN]
EleType == [live : BOOLEAN, owner : BOOLEAN, peer : BOOLEAN, stream : BOOLEAN, op : OpType]

Types ==
    /\ lsn \in LsnType /\ conn \in [Conns -> ConnType]
    /\ stm \in [Stms -> StmType] /\ ele \in [Stms -> [Copies -> EleType]]
    /\ cancelled \in BOOLEAN

(* A call that waits has left its variable; a variable left behind, or to   *)
(* be left behind by a call that has ended, is one of a cancelled call (z). *)
HandOK(op, out, z) ==
    /\ op.ended => op.kind # None
    /\ op.kind = None => out # "cur"
    /\ Waiting(op) => out = "cur"
    /\ out = "old" => z
    /\ op.ended /\ out = "cur" => z

ConnOK(k, z) ==
    /\ HandOK(k.op, k.out, z)
    /\ k.op.kind = "stream" /\ ~k.op.ended => k.ready = <<>>
    /\ k.place # "user" => k.op.kind = None
    /\ k.place = "astray" => z
    /\ k.live <=> k.place # None
    /\ k.live => k.made
    /\ ~k.live => k.ready = <<>>

(* The wishes of a stream k are those of its first element.                 *)
WishesOf(k, e) ==
    k.quic /\ ~k.stale /\ ~k.dup => /\ k.wr => e["a"].op.kind = "recv" /\ ~e["a"].op.ended
                                    /\ k.ww => e["a"].op.kind = "send" /\ ~e["a"].op.ended

(* A stream k and its elements e: the wish to read or to write is that of   *)
(* the operation that waits, until lsquic's stream is closed, unless one was*)
(* cancelled or there is a copy.                                            *)
StmOK(k, e, z) ==
    /\ \A x \in Copies : /\ e[x].op.ended => e[x].op.kind # None
                         /\ ~e[x].live => e[x].op.kind = None
                         /\ e[x].peer <=> e["a"].live /\ e["b"].live
    /\ ~k.dup => ~e["b"].live
    /\ WishesOf(k, e)
    /\ k.place = "ready" => e["a"].live
    /\ k.place = "astray" => z
    /\ k.conn = 0 => k.place = None /\ ~k.dup

LsnOK ==
    /\ HandOK(lsn.op, lsn.out, cancelled)
    /\ Waiting(lsn.op) \/ ~lsn.open => lsn.ready = <<>>

Queued == \A c \in Conns : Contains(lsn.ready, c) <=> conn[c].place = "ready"

Listed ==
    \A c \in Conns, s \in Stms :
        Contains(conn[c].ready, s) <=> stm[s].conn = c /\ stm[s].place = "ready"

Sorted(q) == \A i, j \in DOMAIN q : i < j => q[i] < q[j]

InOrder ==
    /\ Sorted(lsn.ready) /\ \A c \in Conns : Sorted(conn[c].ready)
    /\ \A c, d \in Conns : d < c /\ conn[c].made => conn[d].made
    /\ \A s, t \in Stms : t < s /\ stm[s].conn # 0 => stm[t].conn # 0

QInv ==
    /\ Types /\ LsnOK /\ Queued /\ Listed /\ InOrder
    /\ \A c \in Conns : ConnOK(conn[c], cancelled)
    /\ \A s \in Stms : StmOK(stm[s], ele[s], cancelled)

SlotType == [name : Names \cup {None}, val : Vals \cup {None}, buf : Nat]
HsType == [slots : Seq(SlotType), count : Nat, bufs : Nat, dup : BOOLEAN,
           last : [Names -> Vals \cup {None}]]

(* Of slots q the first c are headers; no buffer is used twice, or is newer *)
(* than the last one made, b.                                               *)
SlotsOK(q, c, b) ==
    /\ c <= Len(q) /\ \A i \in 1 .. c : q[i].name \in Names
    /\ \A i \in 1 .. Len(q) : q[i].buf <= b
    /\ \A i, j \in 1 .. Len(q) : q[i].buf # 0 /\ i # j => q[i].buf # q[j].buf

(* Each name is there once, with the value l set last.                      *)
ValuesOK(q, c, l) ==
    /\ \A i, j \in 1 .. c : i # j => q[i].name # q[j].name
    /\ \A i \in 1 .. c : q[i].val = l[q[i].name]
    /\ \A n \in Names : (\A i \in 1 .. c : q[i].name # n) => l[n] = None

HInv ==
    /\ hs \in HsType /\ SlotsOK(hs.slots, hs.count, hs.bufs)
    /\ ~hs.dup => ValuesOK(hs.slots, hs.count, hs.last)

-----------------------------------------------------------------------------
(* Lists.                                                                  *)

LEMMA AppendHas ==
    ASSUME NEW S, NEW q \in Seq(S), NEW x \in S, NEW y
    PROVE  Contains(Append(q, x), y) <=> Contains(q, y) \/ y = x
<1>1. Len(Append(q, x)) = Len(q) + 1 /\ Len(q) \in Nat
  OBVIOUS
<1>2. \A i \in 1 .. Len(q) : Append(q, x)[i] = q[i]
  OBVIOUS
<1>3. Append(q, x)[Len(q) + 1] = x
  OBVIOUS
<1>4. \A i \in 1 .. Len(q) + 1 : i \in 1 .. Len(q) \/ i = Len(q) + 1
  BY <1>1
<1>5. Len(q) + 1 \in 1 .. Len(q) + 1 /\ \A i \in 1 .. Len(q) : i \in 1 .. Len(q) + 1
  BY <1>1
<1> QED BY <1>1, <1>2, <1>3, <1>4, <1>5 DEF Contains

LEMMA AppendSorted ==
    ASSUME NEW S, S \subseteq Int, NEW q \in Seq(S), NEW x \in S, Sorted(q), \A y \in S : Contains(q, y) => y < x
    PROVE  Sorted(Append(q, x)) /\ Append(q, x) \in Seq(S)
<1>1. DOMAIN Append(q, x) = 1 .. Len(q) + 1 /\ Len(q) \in Nat /\ DOMAIN q = 1 .. Len(q)
  OBVIOUS
<1>2. \A i \in 1 .. Len(q) : Append(q, x)[i] = q[i] /\ q[i] \in S /\ q[i] < x
  <2>1. \A i \in 1 .. Len(q) : Append(q, x)[i] = q[i] /\ q[i] \in S
    OBVIOUS
  <2>2. \A i \in 1 .. Len(q) : Contains(q, q[i])
    BY DEF Contains
  <2> QED BY <2>1, <2>2
<1>3. Append(q, x)[Len(q) + 1] = x
  OBVIOUS
<1>4. ASSUME NEW i \in 1 .. Len(q) + 1, NEW j \in 1 .. Len(q) + 1, i < j
      PROVE  Append(q, x)[i] < Append(q, x)[j]
  <2>1. i \in 1 .. Len(q) /\ (j \in 1 .. Len(q) \/ j = Len(q) + 1)
    BY <1>1, <1>4
  <2> QED BY <1>1, <1>2, <1>3, <1>4, <2>1 DEF Sorted
<1> QED BY <1>1, <1>4 DEF Sorted

LEMMA EmptyHas == Sorted(<<>>) /\ \A y : ~Contains(<<>>, y)
BY DEF Sorted, Contains

LEMMA HeadHas ==
    ASSUME NEW S, NEW q \in Seq(S), q # <<>>
    PROVE  Head(q) \in S /\ Tail(q) \in Seq(S) /\ Contains(q, Head(q))
<1>1. Len(q) \in Nat /\ Len(q) # 0 /\ Head(q) = q[1]
  OBVIOUS
<1>2. 1 \in 1 .. Len(q)
  BY <1>1
<1> QED BY <1>1, <1>2 DEF Contains

LEMMA TailHas ==
    ASSUME NEW S, S \subseteq Int, NEW q \in Seq(S), q # <<>>, Sorted(q), NEW y
    PROVE  Sorted(Tail(q)) /\ (Contains(Tail(q), y) <=> Contains(q, y) /\ y # Head(q))
<1>1. Len(q) \in Nat /\ Len(q) >= 1 /\ Head(q) = q[1] /\ DOMAIN q = 1 .. Len(q)
  OBVIOUS
<1>2. Len(Tail(q)) = Len(q) - 1 /\ DOMAIN Tail(q) = 1 .. Len(q) - 1
  OBVIOUS
<1>3. \A i \in 1 .. Len(q) - 1 : Tail(q)[i] = q[i + 1] /\ i + 1 \in 1 .. Len(q)
  BY <1>1
<1>4. Sorted(Tail(q))
  BY <1>1, <1>2, <1>3 DEF Sorted
<1>5. ASSUME Contains(Tail(q), y) PROVE Contains(q, y) /\ y # Head(q)
  <2>1. PICK i \in 1 .. Len(q) - 1 : q[i + 1] = y
    BY <1>2, <1>3, <1>5 DEF Contains
  <2>2. i + 1 \in 1 .. Len(q) /\ 1 \in 1 .. Len(q) /\ 1 < i + 1
    BY <1>1
  <2>3. q[1] < q[i + 1] /\ q[1] \in Int /\ q[i + 1] \in Int
    <3>1. q[1] < q[i + 1]
      BY <1>1, <2>2 DEF Sorted
    <3>2. q[1] \in S /\ q[i + 1] \in S
      BY <1>1, <2>2
    <3> QED BY <3>1, <3>2
  <2>4. q[1] # q[i + 1]
    BY <2>3
  <2> QED BY <1>1, <2>1, <2>2, <2>4 DEF Contains
<1>6. ASSUME Contains(q, y), y # Head(q) PROVE Contains(Tail(q), y)
  <2>1. PICK i \in 1 .. Len(q) : q[i] = y
    BY <1>6 DEF Contains
  <2>2. i # 1
    BY <1>1, <1>6, <2>1
  <2>3. PICK m \in 1 .. Len(q) - 1 : i = m + 1
    BY <1>1, <2>2
  <2> QED BY <1>2, <1>3, <2>1, <2>3 DEF Contains
<1> QED BY <1>4, <1>5, <1>6

LEMMA RangeHas ==
    ASSUME NEW S, NEW q \in Seq(S), NEW y
    PROVE  y \in Range(q) <=> Contains(q, y)
BY DEF Range, Contains

-----------------------------------------------------------------------------
(* Operations.                                                             *)

LEMMA Numbers == /\ OK \in Int /\ TIME \in Int /\ CLOSED \in Int /\ CONNREFUSED \in Int
                 /\ MaxConn \in Nat /\ MaxStm \in Nat /\ MaxData \in Nat
                 /\ Conns \subseteq Int /\ Stms \subseteq Int /\ 0 \notin Conns
<1>1. MaxConn \in Nat /\ MaxStm \in Nat /\ MaxData \in Nat
  BY QicAssumption
<1> QED BY <1>1 DEF OK, TIME, CLOSED, CONNREFUSED, Conns, Stms

LEMMA EndFields ==
    ASSUME NEW op \in OpType, NEW r \in Int
    PROVE  /\ End(op, r) \in OpType /\ End(op, r).kind = op.kind
           /\ op.kind = None => End(op, r) = op
           /\ op.kind # None => End(op, r).ended /\ End(op, r).ret = r
<1>1. CASE op.kind = None
  BY <1>1 DEF End
<1>2. CASE op.kind # None
  <2>0. [op EXCEPT !.ended = TRUE] \in OpType /\ [op EXCEPT !.ended = TRUE].ended = TRUE
        /\ [op EXCEPT !.ended = TRUE].kind = op.kind
    BY DEF OpType
  <2>1. PICK o \in OpType : o = [op EXCEPT !.ended = TRUE] /\ o.ended = TRUE /\ o.kind = op.kind
    BY <2>0
  <2>2. [o EXCEPT !.ret = r] \in OpType /\ [o EXCEPT !.ret = r].ret = r /\ [o EXCEPT !.ret = r].kind = o.kind
        /\ [o EXCEPT !.ret = r].ended = o.ended
    BY DEF OpType
  <2> QED BY <1>2, <2>1, <2>2 DEF End
<1> QED BY <1>1, <1>2

LEMMA IdleIs == Idle \in OpType /\ Idle.kind = None /\ Idle.ended = FALSE
<1>1. 0 \in Nat /\ None \in Kinds /\ OK \in Int
  BY Numbers DEF Kinds
<1> QED BY <1>1 DEF Idle, OpType

LEMMA OpIs ==
    ASSUME NEW k \in Kinds, NEW n \in Nat
    PROVE  Op(k, n) \in OpType /\ Op(k, n).kind = k /\ Op(k, n).ended = FALSE
<1>1. PICK i \in OpType : i = Idle /\ i.ended = FALSE
  BY IdleIs
<1>0. [i EXCEPT !.kind = k] \in OpType /\ [i EXCEPT !.kind = k].kind = k /\ [i EXCEPT !.kind = k].ended = i.ended
  BY DEF OpType
<1>2. PICK o \in OpType : o = [i EXCEPT !.kind = k] /\ o.kind = k /\ o.ended = i.ended
  BY <1>0
<1>3. [o EXCEPT !.len = n] \in OpType /\ [o EXCEPT !.len = n].kind = o.kind /\ [o EXCEPT !.len = n].ended = o.ended
  BY DEF OpType
<1> QED BY <1>1, <1>2, <1>3 DEF Op

LEMMA HandEnd ==
    ASSUME NEW op \in OpType, NEW out \in Outs, NEW z \in BOOLEAN, NEW r \in Int, HandOK(op, out, z)
    PROVE  /\ HandOK(End(op, r), None, z) /\ HandOK(End(op, r), out, TRUE)
           /\ ~Waiting(End(op, r))
<1>1. None # "cur" /\ None # "old"
  BY DEF None
<1> QED BY <1>1, EndFields DEF HandOK, Waiting

LEMMA HandPop ==
    ASSUME NEW op \in OpType, NEW out \in Outs, NEW z \in BOOLEAN, HandOK(op, out, z), op.ended
    PROVE  HandOK(Idle, Old(out), z) /\ Old(out) \in Outs
<1>1. None # "cur" /\ None # "old"
  BY DEF None
<1> QED BY <1>1, IdleIs DEF HandOK, Waiting, Old, Outs

LEMMA HandCall ==
    ASSUME NEW k \in Kinds, k # None, NEW z \in BOOLEAN
    PROVE  HandOK(Op(k, 0), "cur", z)
BY OpIs DEF HandOK, Waiting

LEMMA HandAtOnce ==
    ASSUME NEW k \in Kinds, k # None, NEW op \in OpType, NEW out \in Outs, NEW z \in BOOLEAN, HandOK(op, out, z), op.kind = None
    PROVE  HandOK(End(Op(k, 0), OK), out, z) /\ ~Waiting(End(Op(k, 0), OK)) /\ End(Op(k, 0), OK) \in OpType /\ End(Op(k, 0), OK).kind = k
<1>1. PICK o \in OpType : o = Op(k, 0) /\ o.kind = k
  BY OpIs
<1>2. End(o, OK) \in OpType /\ End(o, OK).kind = k /\ End(o, OK).ended
  BY <1>1, Numbers, EndFields
<1> QED BY <1>1, <1>2 DEF HandOK, Waiting

LEMMA HandMore ==
    ASSUME NEW op \in OpType, NEW out \in Outs, NEW z \in BOOLEAN, HandOK(op, out, z)
    PROVE  HandOK(op, out, TRUE) /\ (op.kind = None => HandOK(op, None, z))
<1>1. None # "cur" /\ None # "old"
  BY DEF None
<1> QED BY <1>1 DEF HandOK, Waiting

-----------------------------------------------------------------------------
(* Steps that move no element between lists.                               *)

LEMMA Blanks ==
    /\ NoLsn \in LsnType /\ NoConn \in ConnType /\ NoStm \in StmType /\ NoEle \in EleType
    /\ [x \in Copies |-> NoEle] \in [Copies -> EleType]
<1>1. Idle \in OpType /\ None \in Outs /\ None \in Places /\ 0 \in Nat /\ 0 \in 0 .. MaxConn
  BY IdleIs, Numbers DEF Outs, Places
<1>2. <<>> \in Seq(Conns) /\ <<>> \in Seq(Stms)
  OBVIOUS
<1>3. NoLsn \in LsnType
  BY <1>1, <1>2 DEF NoLsn, LsnType
<1>4. NoConn \in ConnType
  BY <1>1, <1>2 DEF NoConn, ConnType
<1>5. NoStm \in StmType
  BY <1>1 DEF NoStm, StmType
<1>6. NoEle \in EleType
  BY <1>1 DEF NoEle, EleType
<1> QED BY <1>3, <1>4, <1>5, <1>6

LEMMA MoreHand ==
    ASSUME NEW op, NEW out, NEW y, NEW z, HandOK(op, out, y), y => z PROVE HandOK(op, out, z)
BY DEF HandOK

LEMMA MoreConn == ASSUME NEW k, NEW y, NEW z, ConnOK(k, y), y => z PROVE ConnOK(k, z)
BY MoreHand DEF ConnOK

LEMMA MoreStm == ASSUME NEW k, NEW e, NEW y, NEW z, StmOK(k, e, y), y => z PROVE StmOK(k, e, z)
BY DEF StmOK

LEMMA NothingMoves ==
    ASSUME QInv, Types', LsnOK', lsn'.ready = lsn.ready,
           \A c \in Conns :
               /\ conn'[c].place = "ready" <=> conn[c].place = "ready"
               /\ conn'[c].made = conn[c].made /\ conn'[c].ready = conn[c].ready
               /\ ConnOK(conn'[c], cancelled'),
           \A s \in Stms :
               /\ stm'[s].conn = stm[s].conn
               /\ stm'[s].place = "ready" <=> stm[s].place = "ready"
               /\ StmOK(stm'[s], ele'[s], cancelled')
    PROVE  QInv'
<1>1. Queued' /\ Listed'
  BY DEF QInv, Queued, Listed
<1>2. InOrder'
  BY DEF QInv, InOrder
<1> QED BY <1>1, <1>2 DEF QInv

LEMMA LsnMoves ==
    ASSUME QInv, lsn' \in LsnType, lsn'.ready = lsn.ready, LsnOK',
           UNCHANGED <<conn, stm, ele>>, cancelled' \in BOOLEAN, cancelled => cancelled'
    PROVE  QInv'
<1>1. Types'
  BY DEF QInv, Types
<1>2. \A c \in Conns : ConnOK(conn'[c], cancelled')
  BY MoreConn DEF QInv
<1>3. \A s \in Stms : StmOK(stm'[s], ele'[s], cancelled')
  BY MoreStm DEF QInv
<1> QED BY <1>1, <1>2, <1>3, NothingMoves

LEMMA LsnStays ==
    ASSUME LsnOK, UNCHANGED lsn, cancelled => cancelled' PROVE LsnOK'
BY MoreHand DEF LsnOK

LEMMA ConnMoves ==
    ASSUME QInv, NEW c \in Conns, NEW k \in ConnType, conn' = [conn EXCEPT ![c] = k],
           k.place = "ready" <=> conn[c].place = "ready", k.made = conn[c].made, k.ready = conn[c].ready,
           ConnOK(k, cancelled'),
           UNCHANGED <<lsn, stm, ele>>, cancelled' \in BOOLEAN, cancelled => cancelled'
    PROVE  QInv'
<1>1. Types'
  BY DEF QInv, Types
<1>2. conn'[c] = k /\ \A d \in Conns : d # c => conn'[d] = conn[d]
  BY DEF QInv, Types
<1>3. \A d \in Conns : ConnOK(conn[d], cancelled')
  BY MoreConn DEF QInv
<1>4. \A d \in Conns :
          /\ conn'[d].place = "ready" <=> conn[d].place = "ready"
          /\ conn'[d].made = conn[d].made /\ conn'[d].ready = conn[d].ready
          /\ ConnOK(conn'[d], cancelled')
  BY <1>2, <1>3
<1>5. \A s \in Stms : StmOK(stm'[s], ele'[s], cancelled')
  BY MoreStm DEF QInv
<1>6. LsnOK'
  BY LsnStays DEF QInv
<1> QED BY <1>1, <1>4, <1>5, <1>6, NothingMoves

LEMMA StmMoves ==
    ASSUME QInv, NEW s \in Stms, NEW k \in StmType, NEW e \in [Copies -> EleType],
           stm' = [stm EXCEPT ![s] = k], ele' = [ele EXCEPT ![s] = e],
           k.place = "ready" <=> stm[s].place = "ready", k.conn = stm[s].conn,
           StmOK(k, e, cancelled'),
           UNCHANGED <<lsn, conn>>, cancelled' \in BOOLEAN, cancelled => cancelled'
    PROVE  QInv'
<1>1. Types'
  BY DEF QInv, Types
<1>2. stm'[s] = k /\ ele'[s] = e /\ \A t \in Stms : t # s => stm'[t] = stm[t] /\ ele'[t] = ele[t]
  BY DEF QInv, Types
<1>3. \A t \in Stms : StmOK(stm[t], ele[t], cancelled')
  BY MoreStm DEF QInv
<1>4. \A t \in Stms :
          /\ stm'[t].place = "ready" <=> stm[t].place = "ready"
          /\ stm'[t].conn = stm[t].conn
          /\ StmOK(stm'[t], ele'[t], cancelled')
  BY <1>2, <1>3
<1>5. \A c \in Conns : ConnOK(conn'[c], cancelled')
  BY MoreConn DEF QInv
<1>6. LsnOK'
  BY LsnStays DEF QInv
<1> QED BY <1>1, <1>4, <1>5, <1>6, NothingMoves

LEMMA NothingChanges ==
    ASSUME QInv, UNCHANGED <<lsn, conn, stm, ele, cancelled>> PROVE QInv'
BY LsnMoves, LsnStays DEF QInv, Types

LEMMA LsnOp ==
    ASSUME NEW k \in LsnType, NEW o \in OpType
    PROVE  LET j == [k EXCEPT !.op = o]
           IN  j \in LsnType /\ j.op = o /\ j.open = k.open /\ j.out = k.out /\ j.ready = k.ready
BY DEF LsnType

LEMMA LsnOut ==
    ASSUME NEW k \in LsnType, NEW u \in Outs
    PROVE  LET j == [k EXCEPT !.out = u]
           IN  j \in LsnType /\ j.op = k.op /\ j.open = k.open /\ j.out = u /\ j.ready = k.ready
BY DEF LsnType

LEMMA LsnReady ==
    ASSUME NEW k \in LsnType, NEW q \in Seq(Conns)
    PROVE  LET j == [k EXCEPT !.ready = q]
           IN  j \in LsnType /\ j.op = k.op /\ j.open = k.open /\ j.out = k.out /\ j.ready = q
BY DEF LsnType

LEMMA ConnOp ==
    ASSUME NEW k \in ConnType, NEW o \in OpType
    PROVE  LET j == [k EXCEPT !.op = o]
           IN  j \in ConnType /\ j.op = o /\ j.out = k.out /\ j.ready = k.ready /\ j.place = k.place
               /\ j.live = k.live /\ j.made = k.made
BY DEF ConnType

LEMMA ConnOut ==
    ASSUME NEW k \in ConnType, NEW u \in Outs
    PROVE  LET j == [k EXCEPT !.out = u]
           IN  j \in ConnType /\ j.op = k.op /\ j.out = u /\ j.ready = k.ready /\ j.place = k.place
               /\ j.live = k.live /\ j.made = k.made
BY DEF ConnType

LEMMA ConnReady ==
    ASSUME NEW k \in ConnType, NEW q \in Seq(Stms)
    PROVE  LET j == [k EXCEPT !.ready = q]
           IN  j \in ConnType /\ j.op = k.op /\ j.out = k.out /\ j.ready = q /\ j.place = k.place
               /\ j.live = k.live /\ j.made = k.made
BY DEF ConnType

LEMMA ConnPlace ==
    ASSUME NEW k \in ConnType, NEW p \in Places
    PROVE  LET j == [k EXCEPT !.place = p]
           IN  j \in ConnType /\ j.op = k.op /\ j.out = k.out /\ j.ready = k.ready /\ j.place = p
               /\ j.live = k.live /\ j.made = k.made
BY DEF ConnType

LEMMA ConnMade ==
    ASSUME NEW k \in ConnType
    PROVE  LET j == [k EXCEPT !.made = TRUE]
           IN  j \in ConnType /\ j.op = k.op /\ j.out = k.out /\ j.ready = k.ready /\ j.place = k.place
               /\ j.live = k.live /\ j.made = TRUE
BY DEF ConnType

LEMMA ConnLive ==
    ASSUME NEW k \in ConnType
    PROVE  LET j == [k EXCEPT !.live = TRUE]
           IN  j \in ConnType /\ j.op = k.op /\ j.out = k.out /\ j.ready = k.ready /\ j.place = k.place
               /\ j.live = TRUE /\ j.made = k.made
BY DEF ConnType

LEMMA ConnDead ==
    ASSUME NEW k \in ConnType
    PROVE  LET j == [k EXCEPT !.live = FALSE]
           IN  j \in ConnType /\ j.op = k.op /\ j.out = k.out /\ j.ready = k.ready /\ j.place = k.place
               /\ j.live = FALSE /\ j.made = k.made
BY DEF ConnType

LEMMA ConnQuic ==
    ASSUME NEW k \in ConnType
    PROVE  LET j == [k EXCEPT !.quic = TRUE]
           IN  j \in ConnType /\ j.op = k.op /\ j.out = k.out /\ j.ready = k.ready /\ j.place = k.place
               /\ j.live = k.live /\ j.made = k.made
BY DEF ConnType

LEMMA ConnCut ==
    ASSUME NEW k \in ConnType
    PROVE  LET j == [k EXCEPT !.quic = FALSE]
           IN  j \in ConnType /\ j.op = k.op /\ j.out = k.out /\ j.ready = k.ready /\ j.place = k.place
               /\ j.live = k.live /\ j.made = k.made
BY DEF ConnType

LEMMA ConnHsk ==
    ASSUME NEW k \in ConnType
    PROVE  LET j == [k EXCEPT !.hsk = TRUE]
           IN  j \in ConnType /\ j.op = k.op /\ j.out = k.out /\ j.ready = k.ready /\ j.place = k.place
               /\ j.live = k.live /\ j.made = k.made
BY DEF ConnType

LEMMA ConnDelayed ==
    ASSUME NEW k \in ConnType, NEW b \in Nat
    PROVE  LET j == [k EXCEPT !.delayed = b]
           IN  j \in ConnType /\ j.op = k.op /\ j.out = k.out /\ j.ready = k.ready /\ j.place = k.place
               /\ j.live = k.live /\ j.made = k.made
BY DEF ConnType

-----------------------------------------------------------------------------
(* The listener.                                                           *)

LEMMA ConnMember == ASSUME QInv, NEW c \in Conns PROVE conn[c] \in ConnType /\ ConnOK(conn[c], cancelled) /\ conn[c].op \in OpType /\ conn[c].out \in Outs
<1>1. conn[c] \in ConnType /\ ConnOK(conn[c], cancelled)
  BY DEF QInv, Types
<1> QED BY <1>1 DEF ConnType

LEMMA LsnMember == ASSUME QInv PROVE /\ lsn \in LsnType /\ LsnOK /\ HandOK(lsn.op, lsn.out, cancelled) /\ cancelled \in BOOLEAN
                                     /\ lsn.op \in OpType /\ lsn.out \in Outs /\ lsn.ready \in Seq(Conns)
<1>1. lsn \in LsnType /\ LsnOK /\ cancelled \in BOOLEAN
  BY DEF QInv, Types
<1> QED BY <1>1 DEF LsnType, LsnOK

LEMMA OpenListenerStep == ASSUME QInv, OpenListener PROVE QInv'
<1>1. UNCHANGED <<conn, stm, ele, cancelled>> /\ ~lsn.open
  BY DEF OpenListener
<1>2. CASE lsn' = [NoLsn EXCEPT !.open = TRUE]
  <2>1. PICK k \in LsnType : k = [NoLsn EXCEPT !.open = TRUE] /\ k.op = Idle /\ k.out = None /\ k.ready = <<>>
    <3>1. PICK n \in LsnType : n = NoLsn /\ n.op = Idle /\ n.out = None /\ n.ready = <<>>
      BY Blanks DEF NoLsn
    <3>2. LET k == [n EXCEPT !.open = TRUE] IN k \in LsnType /\ k.op = n.op /\ k.out = n.out /\ k.ready = n.ready
      BY DEF LsnType
    <3> QED BY <3>1, <3>2
  <2>2. LsnOK'
    <3>1. HandOK(Idle, None, cancelled)
      BY IdleIs DEF HandOK, Waiting, None
    <3> QED BY <1>1, <1>2, <2>1, <3>1 DEF LsnOK
  <2>3. lsn'.ready = lsn.ready
    BY <1>1, <1>2, <2>1 DEF QInv, LsnOK
  <2> QED BY <1>1, <1>2, <2>1, <2>2, <2>3, LsnMoves, LsnMember
<1>3. CASE UNCHANGED lsn
  BY <1>1, <1>3, NothingChanges
<1> QED BY <1>2, <1>3 DEF OpenListener

(* A connection changes place, and the listener's list with it.            *)
LEMMA QueueMoves ==
    ASSUME QInv, NEW c \in Conns, NEW k \in ConnType, conn' = [conn EXCEPT ![c] = k],
           lsn' \in LsnType, LsnOK', Sorted(lsn'.ready),
           \A d \in Conns : Contains(lsn'.ready, d) <=> IF d = c THEN k.place = "ready" ELSE Contains(lsn.ready, d),
           k.ready = conn[c].ready, k.made, \A d \in Conns : d < c => conn[d].made,
           ConnOK(k, cancelled), UNCHANGED <<stm, ele, cancelled>>
    PROVE  QInv'
<1>1. Types'
  BY DEF QInv, Types
<1>2. conn'[c] = k /\ \A d \in Conns : d # c => conn'[d] = conn[d]
  BY DEF QInv, Types
<1>3. Queued'
  BY <1>2 DEF QInv, Queued
<1>4. Listed'
  BY <1>2 DEF QInv, Listed
<1>5. InOrder'
  <2>1. \A d \in Conns : Sorted(conn'[d].ready)
    BY <1>2 DEF QInv, InOrder
  <2>2. ASSUME NEW d \in Conns, NEW b \in Conns, b < d, conn'[d].made PROVE conn'[b].made
    BY <1>2, <2>2 DEF QInv, InOrder
  <2> QED BY <2>1, <2>2 DEF QInv, InOrder
<1>6. \A d \in Conns : ConnOK(conn'[d], cancelled')
  BY <1>2 DEF QInv
<1>7. \A s \in Stms : StmOK(stm'[s], ele'[s], cancelled')
  BY DEF QInv
<1> QED BY <1>1, <1>3, <1>4, <1>5, <1>6, <1>7 DEF QInv

LEMMA AcceptStep == ASSUME QInv, Accept PROVE QInv'
<1>1. lsn.op.kind = None /\ lsn.open /\ UNCHANGED <<stm, ele, cancelled>>
  BY DEF Accept
<1>2. lsn \in LsnType /\ cancelled \in BOOLEAN /\ lsn.ready \in Seq(Conns)
  BY LsnMember
<1>3. "accept" \in Kinds /\ "accept" # None /\ "cur" \in Outs /\ 0 \in Nat
  BY DEF Kinds, None, Outs
<1>4. CASE lsn.ready = <<>>
  <2>1. PICK o \in OpType : o = Op("accept", 0)
    BY <1>3, OpIs
  <2>2. PICK j \in LsnType : j = [lsn EXCEPT !.op = o] /\ j.op = o /\ j.ready = lsn.ready
    BY <1>2, LsnOp
  <2>3. [j EXCEPT !.out = "cur"] \in LsnType /\ [j EXCEPT !.out = "cur"].op = o
        /\ [j EXCEPT !.out = "cur"].out = "cur" /\ [j EXCEPT !.out = "cur"].ready = lsn.ready
    BY <1>3, <2>2, LsnOut
  <2>4. lsn' = [j EXCEPT !.out = "cur"] /\ UNCHANGED conn
    BY <1>4, <2>1, <2>2 DEF Accept
  <2>5. HandOK(o, "cur", cancelled)
    BY <1>2, <1>3, <2>1, HandCall
  <2>6. LsnOK'
    BY <1>1, <1>4, <2>3, <2>4, <2>5 DEF LsnOK
  <2> QED BY <1>1, <1>2, <2>3, <2>4, <2>6, LsnMoves
<1>5. CASE lsn.ready # <<>>
  <2>1. PICK h \in Conns : h = Head(lsn.ready) /\ Contains(lsn.ready, h)
    BY <1>2, <1>5, HeadHas
  <2>2. PICK q \in Seq(Conns) : q = Tail(lsn.ready)
    BY <1>2, <1>5, HeadHas
  <2>3. Sorted(q) /\ \A d \in Conns : Contains(q, d) <=> Contains(lsn.ready, d) /\ d # h
    BY <1>2, <1>5, <2>1, <2>2, Numbers, TailHas DEF QInv, InOrder
  <2>4. PICK o \in OpType : o = End(Op("accept", 0), OK) /\ HandOK(o, lsn.out, cancelled) /\ ~Waiting(o)
    BY <1>1, <1>2, <1>3, LsnMember, HandAtOnce
  <2>5. PICK j \in LsnType : j = [lsn EXCEPT !.op = o] /\ j.op = o /\ j.out = lsn.out /\ j.open = lsn.open /\ j.ready = lsn.ready
    BY <1>2, LsnOp
  <2>6. PICK i \in LsnType : i = [j EXCEPT !.ready = q] /\ i.op = o /\ i.out = lsn.out /\ i.open = lsn.open /\ i.ready = q
    <3>1. LET i == [j EXCEPT !.ready = q]
          IN  i \in LsnType /\ i.op = j.op /\ i.open = j.open /\ i.out = j.out /\ i.ready = q
      BY LsnReady
    <3> QED BY <2>5, <3>1
  <2>7. lsn' = i
    BY <1>5, <2>2, <2>4, <2>5, <2>6 DEF Accept
  <2>8. LsnOK'
    BY <1>1, <2>4, <2>6, <2>7 DEF LsnOK
  <2>9. conn[h] \in ConnType /\ ConnOK(conn[h], cancelled) /\ conn[h].place = "ready"
    BY <2>1, ConnMember DEF QInv, Queued
  <2>10. PICK k \in ConnType : /\ k = [conn[h] EXCEPT !.place = "user"] /\ k.op = conn[h].op /\ k.out = conn[h].out
                               /\ k.ready = conn[h].ready /\ k.place = "user" /\ k.live = conn[h].live /\ k.made = conn[h].made
    <3>1. "user" \in Places
      BY DEF Places
    <3> QED BY <2>9, <3>1, ConnPlace
  <2>11. conn' = [conn EXCEPT ![h] = k]
    BY <1>5, <2>1, <2>10 DEF Accept
  <2>12. ConnOK(k, cancelled) /\ k.made
    BY <2>9, <2>10 DEF ConnOK, None
  <2>13. \A d \in Conns : d < h => conn[d].made
    BY <2>10, <2>12 DEF QInv, InOrder
  <2>14. \A d \in Conns : Contains(lsn'.ready, d) <=> IF d = h THEN k.place = "ready" ELSE Contains(lsn.ready, d)
    BY <2>3, <2>6, <2>7, <2>10
  <2> QED BY <1>1, <2>3, <2>6, <2>7, <2>8, <2>10, <2>11, <2>12, <2>13, <2>14, QueueMoves
<1> QED BY <1>4, <1>5

LEMMA PlacedIs ==
    ASSUME NEW u \in Outs
    PROVE  /\ Placed(u) \in Places /\ Placed(u) # None
           /\ Placed(u) = "ready" <=> u = None
           /\ Placed(u) = "astray" <=> u = "old"
<1>1. None # "cur" /\ None # "old" /\ None # "user" /\ None # "astray" /\ None # "ready"
  BY DEF None
<1> QED BY <1>1 DEF Placed, Places, Outs

LEMMA BornIs ==
    LET k == [NoConn EXCEPT !.made = TRUE, !.live = TRUE, !.quic = TRUE]
    IN  /\ k \in ConnType /\ k.op = Idle /\ k.out = None /\ k.ready = <<>>
        /\ k.live = TRUE /\ k.made = TRUE
<1>1. PICK n \in ConnType : n = NoConn /\ n.op = Idle /\ n.out = None /\ n.ready = <<>>
  BY Blanks DEF NoConn
<1>2. PICK m \in ConnType : m = [n EXCEPT !.made = TRUE] /\ m.op = Idle /\ m.out = None /\ m.ready = <<>> /\ m.made = TRUE
  BY <1>1, ConnMade
<1>3. PICK l \in ConnType : l = [m EXCEPT !.live = TRUE] /\ l.op = Idle /\ l.out = None /\ l.ready = <<>> /\ l.made = TRUE /\ l.live = TRUE
  BY <1>2, ConnLive, ZenonT(40)
<1>4. PICK i \in ConnType : i = [l EXCEPT !.quic = TRUE] /\ i.op = Idle /\ i.out = None /\ i.ready = <<>> /\ i.made = TRUE /\ i.live = TRUE
  <2>1. LET j == [l EXCEPT !.quic = TRUE]
        IN  j \in ConnType /\ j.op = l.op /\ j.out = l.out /\ j.ready = l.ready /\ j.live = l.live /\ j.made = l.made
    BY ConnQuic
  <2> QED BY <1>3, <2>1
<1> QED BY <1>1, <1>2, <1>3, <1>4

LEMMA NewConnIs ==
    ASSUME NEW p \in Places
    PROVE  LET new == [NoConn EXCEPT !.made = TRUE, !.live = TRUE, !.quic = TRUE, !.hsk = TRUE]
               k == [new EXCEPT !.place = p]
           IN  /\ k \in ConnType /\ k.op = Idle /\ k.out = None /\ k.ready = <<>> /\ k.place = p
               /\ k.live = TRUE /\ k.made = TRUE
<1>1. PICK i \in ConnType : /\ i = [NoConn EXCEPT !.made = TRUE, !.live = TRUE, !.quic = TRUE]
                            /\ i.op = Idle /\ i.out = None /\ i.ready = <<>> /\ i.made = TRUE /\ i.live = TRUE
  BY BornIs
<1>2. PICK l \in ConnType : l = [i EXCEPT !.hsk = TRUE] /\ l.op = Idle /\ l.out = None /\ l.ready = <<>> /\ l.made = TRUE /\ l.live = TRUE
  <2>1. LET j == [i EXCEPT !.hsk = TRUE]
        IN  j \in ConnType /\ j.op = i.op /\ j.out = i.out /\ j.ready = i.ready /\ j.live = i.live /\ j.made = i.made
    BY ConnHsk
  <2> QED BY <1>1, <2>1
<1>3. LET k == [l EXCEPT !.place = p]
      IN  k \in ConnType /\ k.op = Idle /\ k.out = None /\ k.ready = <<>> /\ k.place = p /\ k.live = TRUE /\ k.made = TRUE
  BY <1>2, ConnPlace
<1> QED BY <1>1, <1>2, <1>3

LEMMA NewConnOK ==
    ASSUME NEW k, k.op = Idle, k.out = None, k.ready = <<>>, k.live = TRUE, k.made = TRUE, k.place # None,
           NEW z \in BOOLEAN, k.place = "astray" => z
    PROVE  ConnOK(k, z)
<1>1. HandOK(Idle, None, z)
  BY IdleIs DEF HandOK, Waiting, None
<1> QED BY <1>1, IdleIs DEF ConnOK

LEMMA FreshIs ==
    ASSUME QInv, NEW c \in Conns, FreshConn(c)
    PROVE  /\ conn[c].ready = <<>> /\ ~Contains(lsn.ready, c) /\ \A d \in Conns : d < c => conn[d].made
           /\ \A d \in Conns : Contains(lsn.ready, d) => d < c
<1>1. ~conn[c].made /\ \A d \in Conns : d < c => conn[d].made
  BY DEF FreshConn
<1>2. conn[c].ready = <<>> /\ conn[c].place # "ready"
  BY <1>1, ConnMember DEF ConnOK, None
<1>3. ASSUME NEW d \in Conns, Contains(lsn.ready, d) PROVE d < c
  <2>1. conn[d].place = "ready" /\ conn[d].made
    BY <1>3, ConnMember DEF QInv, Queued, ConnOK, None
  <2>2. d # c /\ ~(c < d)
    BY <1>1, <2>1 DEF QInv, InOrder
  <2> QED BY <2>2, Numbers
<1>4. ~Contains(lsn.ready, c)
  BY <1>2 DEF QInv, Queued
<1> QED BY <1>1, <1>2, <1>3, <1>4

LEMMA OnNewConnStep == ASSUME QInv, NEW c \in Conns, OnNewConn(c) PROVE QInv'
<1>1. FreshConn(c) /\ lsn.open /\ UNCHANGED <<stm, ele, cancelled>>
  BY DEF OnNewConn
<1>2. /\ lsn \in LsnType /\ HandOK(lsn.op, lsn.out, cancelled) /\ cancelled \in BOOLEAN
      /\ lsn.op \in OpType /\ lsn.out \in Outs /\ lsn.ready \in Seq(Conns)
      /\ (Waiting(lsn.op) => lsn.ready = <<>>)
  BY LsnMember DEF LsnOK
<1>3. Placed(lsn.out) \in Places /\ Placed(lsn.out) # None /\ (Placed(lsn.out) = "ready" <=> lsn.out = None)
      /\ (Placed(lsn.out) = "astray" <=> lsn.out = "old")
  BY <1>2, PlacedIs
<1>4. PICK k \in ConnType : /\ conn' = [conn EXCEPT ![c] = k]
                            /\ k.op = Idle /\ k.out = None /\ k.ready = <<>> /\ k.place = Placed(lsn.out)
                            /\ k.live = TRUE /\ k.made = TRUE
  BY <1>3, NewConnIs DEF OnNewConn
<1>5. ConnOK(k, cancelled)
  BY <1>2, <1>3, <1>4, NewConnOK DEF HandOK
<1>6. /\ k.ready = conn[c].ready /\ ~Contains(lsn.ready, c) /\ \A d \in Conns : d < c => conn[d].made
      /\ \A d \in Conns : Contains(lsn.ready, d) => d < c
  BY <1>1, <1>4, FreshIs
<1>7. CASE lsn.out = None
  <2>1. PICK q \in Seq(Conns) : q = Append(lsn.ready, c) /\ Sorted(q)
    BY <1>2, <1>6, Numbers, AppendSorted DEF QInv, InOrder
  <2>2. \A d \in Conns : Contains(q, d) <=> Contains(lsn.ready, d) \/ d = c
    BY <1>2, <2>1, AppendHas
  <2>3. PICK j \in LsnType : j = [lsn EXCEPT !.ready = q] /\ j.op = lsn.op /\ j.open = lsn.open /\ j.out = lsn.out /\ j.ready = q
    BY <1>2, LsnReady
  <2>4. lsn' = j
    BY <1>7, <2>1, <2>3 DEF OnNewConn
  <2>5. LsnOK'
    <3>1. ~Waiting(lsn.op)
      BY <1>2, <1>7 DEF HandOK, None
    <3> QED BY <1>1, <1>2, <2>3, <2>4, <3>1 DEF LsnOK
  <2>6. \A d \in Conns : Contains(lsn'.ready, d) <=> IF d = c THEN k.place = "ready" ELSE Contains(lsn.ready, d)
    BY <1>3, <1>4, <1>7, <2>2, <2>3, <2>4
  <2> QED BY <1>1, <1>4, <1>5, <1>6, <2>1, <2>3, <2>4, <2>5, <2>6, QueueMoves
<1>8. CASE lsn.out # None
  <2>0. None \in Outs
    BY DEF Outs
  <2>1. PICK j \in LsnType : j = [lsn EXCEPT !.out = None] /\ j.op = lsn.op /\ j.open = lsn.open /\ j.out = None /\ j.ready = lsn.ready
    BY <1>2, <2>0, LsnOut
  <2>2. PICK o \in OpType : o = End(lsn.op, OK) /\ HandOK(o, None, cancelled) /\ ~Waiting(o)
    <3>1. OK \in Int
      BY Numbers
    <3>2. End(lsn.op, OK) \in OpType
      BY <1>2, <3>1, EndFields
    <3>3. HandOK(End(lsn.op, OK), None, cancelled) /\ ~Waiting(End(lsn.op, OK))
      BY <1>2, <3>1, HandEnd
    <3> QED BY <3>2, <3>3
  <2>3. PICK i \in LsnType : i = [j EXCEPT !.op = o] /\ i.op = o /\ i.open = j.open /\ i.out = None /\ i.ready = lsn.ready
    <3>1. LET i == [j EXCEPT !.op = o]
          IN  i \in LsnType /\ i.op = o /\ i.open = j.open /\ i.out = j.out /\ i.ready = j.ready
      BY LsnOp
    <3> QED BY <2>1, <3>1
  <2>4. lsn' = i
    BY <1>8, <2>1, <2>2, <2>3 DEF OnNewConn
  <2>5. LsnOK'
    BY <1>1, <2>1, <2>2, <2>3, <2>4 DEF LsnOK
  <2>6. \A d \in Conns : Contains(lsn'.ready, d) <=> IF d = c THEN k.place = "ready" ELSE Contains(lsn.ready, d)
    BY <1>3, <1>4, <1>6, <1>8, <2>3, <2>4
  <2>7. Sorted(lsn'.ready)
    BY <2>3, <2>4 DEF QInv, InOrder
  <2> QED BY <1>1, <1>4, <1>5, <1>6, <2>3, <2>4, <2>5, <2>6, <2>7, QueueMoves
<1> QED BY <1>7, <1>8

LEMMA ConnectStep == ASSUME QInv, NEW c \in Conns, Connect(c) PROVE QInv'
<1>1. FreshConn(c) /\ UNCHANGED <<lsn, stm, ele, cancelled>>
  BY DEF Connect
<1>2. "user" \in Places /\ "user" # None
  BY DEF Places, None
<1>3. PICK k \in ConnType : /\ conn' = [conn EXCEPT ![c] = k]
                            /\ k.op = Idle /\ k.out = None /\ k.ready = <<>> /\ k.place = "user"
                            /\ k.live = TRUE /\ k.made = TRUE
  <2>1. PICK i \in ConnType : /\ i = [NoConn EXCEPT !.made = TRUE, !.live = TRUE, !.quic = TRUE]
                              /\ i.op = Idle /\ i.out = None /\ i.ready = <<>> /\ i.made = TRUE /\ i.live = TRUE
    BY BornIs
  <2>2. LET k == [i EXCEPT !.place = "user"]
        IN  k \in ConnType /\ k.op = Idle /\ k.out = None /\ k.ready = <<>> /\ k.place = "user" /\ k.live = TRUE /\ k.made = TRUE
    BY <1>2, <2>1, ConnPlace
  <2>3. conn' = [conn EXCEPT ![c] = [i EXCEPT !.place = "user"]]
    BY <2>1 DEF Connect
  <2> QED BY <2>2, <2>3
<1>4. ConnOK(k, cancelled)
  BY <1>2, <1>3, LsnMember, NewConnOK
<1>5. k.ready = conn[c].ready /\ ~Contains(lsn.ready, c) /\ \A d \in Conns : d < c => conn[d].made
  BY <1>1, <1>3, FreshIs
<1>6. \A d \in Conns : Contains(lsn'.ready, d) <=> IF d = c THEN k.place = "ready" ELSE Contains(lsn.ready, d)
  BY <1>1, <1>3, <1>5
<1>7. Sorted(lsn'.ready) /\ lsn' \in LsnType /\ LsnOK'
  BY <1>1, LsnMember, LsnStays DEF QInv, InOrder
<1> QED BY <1>1, <1>3, <1>4, <1>5, <1>6, <1>7, QueueMoves

-----------------------------------------------------------------------------
(* The client's handshake, and connections that wait.                      *)

LEMMA OnHskDoneStep == ASSUME QInv, NEW c \in Conns, OnHskDone(c) PROVE QInv'
<1>1. conn[c] \in ConnType /\ ConnOK(conn[c], cancelled) /\ cancelled \in BOOLEAN
  BY ConnMember, LsnMember
<1>2. PICK k \in ConnType : /\ k = [conn[c] EXCEPT !.hsk = TRUE] /\ k.op = conn[c].op /\ k.out = conn[c].out
                            /\ k.ready = conn[c].ready /\ k.place = conn[c].place /\ k.live = conn[c].live /\ k.made = conn[c].made
  BY <1>1, ConnHsk
<1>3. ConnOK(k, cancelled)
  BY <1>1, <1>2 DEF ConnOK
<1>4. conn' = [conn EXCEPT ![c] = k] /\ UNCHANGED <<lsn, stm, ele, cancelled>>
  BY <1>2 DEF OnHskDone
<1> QED BY <1>1, <1>2, <1>3, <1>4, ConnMoves

(* A call of kind o waits, in a connection of the user.                    *)
LEMMA AskedIs ==
    ASSUME QInv, NEW c \in Conns, Mine(c), NEW o \in {"new", "stream"}, o = "stream" => conn[c].ready = <<>>
    PROVE  LET k == [conn[c] EXCEPT !.op = Op(o, 0), !.out = "cur"]
           IN  /\ k \in ConnType /\ ConnOK(k, cancelled) /\ k.out = "cur" /\ k.place = conn[c].place
               /\ k.ready = conn[c].ready /\ k.made = conn[c].made /\ k.live
<1>1. conn[c] \in ConnType /\ ConnOK(conn[c], cancelled) /\ cancelled \in BOOLEAN
  BY ConnMember, LsnMember
<1>2. o \in Kinds /\ o # None /\ 0 \in Nat /\ "cur" \in Outs
  BY DEF Kinds, None, Outs
<1>3. PICK p \in OpType : p = Op(o, 0) /\ p.kind = o
  BY <1>2, OpIs
<1>4. HandOK(p, "cur", cancelled)
  BY <1>1, <1>2, <1>3, HandCall
<1>5. PICK i \in ConnType : /\ i = [conn[c] EXCEPT !.op = p] /\ i.op = p /\ i.ready = conn[c].ready /\ i.place = conn[c].place
                            /\ i.live = conn[c].live /\ i.made = conn[c].made
  BY <1>1, ConnOp
<1>6. PICK k \in ConnType : /\ k = [i EXCEPT !.out = "cur"] /\ k.op = p /\ k.out = "cur" /\ k.ready = conn[c].ready
                            /\ k.place = conn[c].place /\ k.live = conn[c].live /\ k.made = conn[c].made
  <2>1. LET j == [i EXCEPT !.out = "cur"]
        IN  j \in ConnType /\ j.op = i.op /\ j.out = "cur" /\ j.ready = i.ready /\ j.place = i.place
            /\ j.live = i.live /\ j.made = i.made
    BY <1>2, ConnOut
  <2> QED BY <1>5, <2>1
<1>7. ConnOK(k, cancelled) /\ k.live
  BY <1>1, <1>3, <1>4, <1>6 DEF ConnOK, Mine
<1> QED BY <1>3, <1>5, <1>6, <1>7

(* A connection's operation ends, or its result is taken.                  *)
LEMMA ConnCancel ==
    ASSUME QInv, NEW c \in Conns, Waiting(conn[c].op), conn' = [conn EXCEPT ![c].op = End(@, TIME)],
           cancelled' = TRUE, UNCHANGED <<lsn, stm, ele>>
    PROVE  QInv'
<1>1. /\ conn[c] \in ConnType /\ ConnOK(conn[c], cancelled) /\ cancelled \in BOOLEAN
      /\ conn[c].op \in OpType /\ conn[c].out \in Outs
  BY ConnMember, LsnMember
<1>2. PICK o \in OpType : o = End(conn[c].op, TIME) /\ HandOK(o, conn[c].out, TRUE) /\ ~Waiting(o) /\ o.kind = conn[c].op.kind /\ o.ended
  <2>1. TIME \in Int
    BY Numbers
  <2>2. End(conn[c].op, TIME) \in OpType /\ End(conn[c].op, TIME).kind = conn[c].op.kind /\ End(conn[c].op, TIME).ended
    BY <1>1, <2>1, EndFields DEF Waiting
  <2>3. HandOK(End(conn[c].op, TIME), conn[c].out, TRUE) /\ ~Waiting(End(conn[c].op, TIME))
    BY <1>1, <2>1, HandEnd DEF ConnOK
  <2> QED BY <2>2, <2>3
<1>3. PICK k \in ConnType : /\ k = [conn[c] EXCEPT !.op = o] /\ k.op = o /\ k.out = conn[c].out /\ k.ready = conn[c].ready
                            /\ k.place = conn[c].place /\ k.live = conn[c].live /\ k.made = conn[c].made
  BY <1>1, ConnOp, ZenonT(40)
<1>4. ConnOK(k, TRUE)
  BY <1>1, <1>2, <1>3 DEF ConnOK
<1>5. conn' = [conn EXCEPT ![c] = k]
  BY <1>2, <1>3
<1> QED BY <1>3, <1>4, <1>5, ConnMoves

LEMMA ConnPop ==
    ASSUME QInv, NEW c \in Conns, conn[c].op.ended, conn' = [conn EXCEPT ![c].op = Idle, ![c].out = Old(@)],
           UNCHANGED <<lsn, stm, ele, cancelled>>
    PROVE  QInv'
<1>1. /\ conn[c] \in ConnType /\ ConnOK(conn[c], cancelled) /\ cancelled \in BOOLEAN
      /\ conn[c].op \in OpType /\ conn[c].out \in Outs
  BY ConnMember, LsnMember
<1>2. PICK u \in Outs : u = Old(conn[c].out) /\ HandOK(Idle, u, cancelled)
  BY <1>1, HandPop DEF ConnOK
<1>3. PICK i \in ConnType : /\ i = [conn[c] EXCEPT !.op = Idle] /\ i.op = Idle /\ i.out = conn[c].out /\ i.ready = conn[c].ready
                            /\ i.place = conn[c].place /\ i.live = conn[c].live /\ i.made = conn[c].made
  BY <1>1, IdleIs, ConnOp
<1>4. PICK k \in ConnType : /\ k = [i EXCEPT !.out = u] /\ k.op = Idle /\ k.out = u /\ k.ready = conn[c].ready
                            /\ k.place = conn[c].place /\ k.live = conn[c].live /\ k.made = conn[c].made
  <2>1. LET j == [i EXCEPT !.out = u]
        IN  j \in ConnType /\ j.op = i.op /\ j.out = u /\ j.ready = i.ready /\ j.place = i.place
            /\ j.live = i.live /\ j.made = i.made
    BY ConnOut
  <2> QED BY <1>3, <2>1
<1>5. ConnOK(k, cancelled)
  BY <1>1, <1>2, <1>4, IdleIs DEF ConnOK, None
<1>6. conn' = [conn EXCEPT ![c] = k]
  <2>0. [conn EXCEPT ![c] = i] \in [Conns -> ConnType] /\ [conn EXCEPT ![c] = i][c] = i
    BY DEF QInv, Types
  <2>1. PICK g \in [Conns -> ConnType] : g = [conn EXCEPT ![c] = i] /\ g[c] = i
    BY <2>0
  <2>2. conn' = [g EXCEPT ![c] = [i EXCEPT !.out = u]]
    BY <1>2, <1>3, <2>1
  <2> QED BY <1>4, <2>1, <2>2
<1> QED BY <1>1, <1>4, <1>5, <1>6, ConnMoves

-----------------------------------------------------------------------------
(* New streams.                                                            *)

(* A stream and its connection's list change together.                     *)
LEMMA ListMoves ==
    ASSUME QInv, NEW c \in Conns, NEW s \in Stms, NEW k \in ConnType, NEW j \in StmType,
           NEW e \in [Copies -> EleType], conn' = [conn EXCEPT ![c] = k],
           stm' = [stm EXCEPT ![s] = j], ele' = [ele EXCEPT ![s] = e],
           ConnOK(k, cancelled), k.place = conn[c].place, k.made = conn[c].made,
           StmOK(j, e, cancelled), j.conn = c, stm[s].conn \in {0, c}, Sorted(k.ready),
           \A t \in Stms : Contains(k.ready, t) <=> IF t = s THEN j.place = "ready" ELSE Contains(conn[c].ready, t),
           \A t \in Stms : t < s => stm[t].conn # 0,
           UNCHANGED <<lsn, cancelled>>
    PROVE  QInv'
<1>1. Types'
  BY DEF QInv, Types
<1>2. conn'[c] = k /\ \A d \in Conns : d # c => conn'[d] = conn[d]
  BY DEF QInv, Types
<1>3. stm'[s] = j /\ ele'[s] = e /\ \A t \in Stms : t # s => stm'[t] = stm[t] /\ ele'[t] = ele[t]
  BY DEF QInv, Types
<1>4. Queued'
  BY <1>2 DEF QInv, Queued
<1>5. ASSUME NEW d \in Conns, NEW t \in Stms
      PROVE  Contains(conn'[d].ready, t) <=> stm'[t].conn = d /\ stm'[t].place = "ready"
  <2>1. Contains(conn[d].ready, t) <=> stm[t].conn = d /\ stm[t].place = "ready"
    BY DEF QInv, Listed
  <2>2. CASE d = c
    BY <1>2, <1>3, <2>1, <2>2
  <2>3. CASE d # c
    BY <1>2, <1>3, <2>1, <2>3, Numbers
  <2> QED BY <2>2, <2>3
<1>6. InOrder'
  <2>1. \A d \in Conns : Sorted(conn'[d].ready) /\ conn'[d].made = conn[d].made
    BY <1>2 DEF QInv, InOrder
  <2>2. ASSUME NEW t \in Stms, NEW r \in Stms, r < t, stm'[t].conn # 0 PROVE stm'[r].conn # 0
    BY <1>3, <2>2, Numbers DEF QInv, InOrder
  <2> QED BY <2>1, <2>2 DEF QInv, InOrder
<1>7. \A d \in Conns : ConnOK(conn'[d], cancelled')
  BY <1>2 DEF QInv
<1>8. \A t \in Stms : StmOK(stm'[t], ele'[t], cancelled')
  BY <1>3 DEF QInv
<1>9. LsnOK'
  BY LsnStays DEF QInv
<1> QED BY <1>1, <1>4, <1>5, <1>6, <1>7, <1>8, <1>9 DEF QInv, Listed

LEMMA StmMember ==
    ASSUME QInv, NEW s \in Stms
    PROVE  /\ stm[s] \in StmType /\ ele[s] \in [Copies -> EleType] /\ StmOK(stm[s], ele[s], cancelled)
           /\ ele[s]["a"] \in EleType /\ ele[s]["b"] \in EleType /\ cancelled \in BOOLEAN
           /\ ele[s]["a"].op \in OpType /\ ele[s]["b"].op \in OpType
<1>1. stm[s] \in StmType /\ ele[s] \in [Copies -> EleType] /\ StmOK(stm[s], ele[s], cancelled) /\ cancelled \in BOOLEAN
  BY DEF QInv, Types
<1>2. ele[s]["a"] \in EleType /\ ele[s]["b"] \in EleType
  BY <1>1 DEF Copies
<1> QED BY <1>1, <1>2 DEF EleType

LEMMA NewStmIs ==
    ASSUME NEW c \in Conns, NEW p \in Places
    PROVE  LET j == [NoStm EXCEPT !.conn = c, !.quic = TRUE, !.ctx = TRUE, !.place = p]
           IN  /\ j \in StmType /\ j.conn = c /\ j.place = p /\ j.wr = FALSE /\ j.ww = FALSE
               /\ j.stale = FALSE /\ j.dup = FALSE /\ j.lost = FALSE
<1>1. PICK n \in StmType : n = NoStm /\ n.wr = FALSE /\ n.ww = FALSE /\ n.stale = FALSE /\ n.dup = FALSE /\ n.lost = FALSE
  BY Blanks DEF NoStm
<1>2. c \in 0 .. MaxConn
  BY Numbers DEF Conns
<1>3. LET j == [n EXCEPT !.conn = c]
      IN  j \in StmType /\ j.conn = c /\ j.wr = n.wr /\ j.ww = n.ww /\ j.stale = n.stale /\ j.dup = n.dup /\ j.lost = n.lost
  BY <1>2 DEF StmType
<1>4. PICK m \in StmType : /\ m = [n EXCEPT !.conn = c] /\ m.conn = c /\ m.wr = FALSE /\ m.ww = FALSE
                           /\ m.stale = FALSE /\ m.dup = FALSE /\ m.lost = FALSE
  BY <1>1, <1>3
<1>5. LET j == [m EXCEPT !.quic = TRUE]
      IN  j \in StmType /\ j.conn = m.conn /\ j.wr = m.wr /\ j.ww = m.ww /\ j.stale = m.stale /\ j.dup = m.dup /\ j.lost = m.lost
  BY DEF StmType
<1>6. PICK l \in StmType : /\ l = [m EXCEPT !.quic = TRUE] /\ l.conn = c /\ l.wr = FALSE /\ l.ww = FALSE
                           /\ l.stale = FALSE /\ l.dup = FALSE /\ l.lost = FALSE
  BY <1>4, <1>5
<1>7. LET j == [l EXCEPT !.ctx = TRUE]
      IN  j \in StmType /\ j.conn = l.conn /\ j.wr = l.wr /\ j.ww = l.ww /\ j.stale = l.stale /\ j.dup = l.dup /\ j.lost = l.lost
  BY DEF StmType
<1>8. PICK i \in StmType : /\ i = [l EXCEPT !.ctx = TRUE] /\ i.conn = c /\ i.wr = FALSE /\ i.ww = FALSE
                           /\ i.stale = FALSE /\ i.dup = FALSE /\ i.lost = FALSE
  BY <1>6, <1>7
<1>9. LET j == [i EXCEPT !.place = p]
      IN  j \in StmType /\ j.place = p /\ j.conn = i.conn /\ j.wr = i.wr /\ j.ww = i.ww /\ j.stale = i.stale /\ j.dup = i.dup /\ j.lost = i.lost
  BY DEF StmType
<1> QED BY <1>1, <1>4, <1>6, <1>8, <1>9

LEMMA NewEleIs ==
    LET n == [NoEle EXCEPT !.live = TRUE, !.owner = TRUE, !.stream = TRUE]
    IN  n \in EleType /\ n.live = TRUE /\ n.peer = FALSE /\ n.op = Idle
<1>1. PICK n \in EleType : n = NoEle /\ n.peer = FALSE /\ n.op = Idle
  BY Blanks DEF NoEle
<1>2. LET j == [n EXCEPT !.live = TRUE] IN j \in EleType /\ j.live = TRUE /\ j.peer = n.peer /\ j.op = n.op
  BY DEF EleType
<1>3. PICK m \in EleType : m = [n EXCEPT !.live = TRUE] /\ m.live = TRUE /\ m.peer = FALSE /\ m.op = Idle
  BY <1>1, <1>2
<1>4. LET j == [m EXCEPT !.owner = TRUE] IN j \in EleType /\ j.live = m.live /\ j.peer = m.peer /\ j.op = m.op
  BY DEF EleType
<1>5. PICK l \in EleType : l = [m EXCEPT !.owner = TRUE] /\ l.live = TRUE /\ l.peer = FALSE /\ l.op = Idle
  BY <1>3, <1>4
<1>6. LET j == [l EXCEPT !.stream = TRUE] IN j \in EleType /\ j.live = l.live /\ j.peer = l.peer /\ j.op = l.op
  BY DEF EleType
<1> QED BY <1>1, <1>3, <1>5, <1>6

LEMMA OnNewStreamKeeps ==
    ASSUME QInv, NEW c \in Conns, NEW s \in Stms, FreshStm(s), NEW k \in ConnType, ConnOK(k, cancelled), k.live,
           k.ready = conn[c].ready, k.place = conn[c].place, k.made = conn[c].made,
           OnNewStream(c, k, s), UNCHANGED <<lsn, cancelled>>
    PROVE  QInv'
<1>1. k.out \in Outs /\ k.op \in OpType /\ k.ready \in Seq(Stms) /\ HandOK(k.op, k.out, cancelled)
  BY DEF ConnType, ConnOK
<1>2. /\ Placed(k.out) \in Places /\ Placed(k.out) # None /\ (Placed(k.out) = "ready" <=> k.out = None)
      /\ (Placed(k.out) = "astray" <=> k.out = "old")
  BY <1>1, PlacedIs
<1>3. PICK j \in StmType : /\ stm' = [stm EXCEPT ![s] = j] /\ j.conn = c /\ j.place = Placed(k.out) /\ j.wr = FALSE /\ j.ww = FALSE
                           /\ j.stale = FALSE /\ j.dup = FALSE /\ j.lost = FALSE
  <2> DEFINE m == [NoStm EXCEPT !.conn = c, !.quic = TRUE, !.ctx = TRUE, !.place = Placed(k.out)]
  <2>1. stm' = [stm EXCEPT ![s] = m]
    BY DEF OnNewStream
  <2>2. /\ m \in StmType /\ m.conn = c /\ m.place = Placed(k.out) /\ m.wr = FALSE /\ m.ww = FALSE
        /\ m.stale = FALSE /\ m.dup = FALSE /\ m.lost = FALSE
    BY <1>2, NewStmIs
  <2> HIDE DEF m
  <2> QED BY <2>1, <2>2
<1>4. PICK n \in EleType : n = [NoEle EXCEPT !.live = TRUE, !.owner = TRUE, !.stream = TRUE] /\ n.live = TRUE /\ n.peer = FALSE /\ n.op = Idle
  BY NewEleIs
<1>5. /\ stm[s].conn = 0 /\ ele[s] \in [Copies -> EleType] /\ ~ele[s]["b"].live
      /\ StmOK(stm[s], ele[s], cancelled) /\ ~ele[s]["b"].peer
  BY StmMember DEF FreshStm, StmOK, Copies
<1>6. PICK e \in [Copies -> EleType] : e = [ele[s] EXCEPT !["a"] = n] /\ e["a"] = n /\ e["b"] = ele[s]["b"]
  <2>1. LET e == [ele[s] EXCEPT !["a"] = n] IN e \in [Copies -> EleType] /\ e["a"] = n /\ e["b"] = ele[s]["b"]
    BY <1>5 DEF Copies
  <2> QED BY <2>1
<1>7. ele' = [ele EXCEPT ![s] = e]
  BY <1>4, <1>6 DEF OnNewStream
<1>8. c # 0
  BY Numbers
<1>9. StmOK(j, e, cancelled)
  <2>1. \A x \in Copies : /\ e[x].op.ended => e[x].op.kind # None
                          /\ ~e[x].live => e[x].op.kind = None
                          /\ e[x].peer <=> e["a"].live /\ e["b"].live
    BY <1>4, <1>5, <1>6, IdleIs DEF StmOK, Copies
  <2>2. j.place = "astray" => cancelled
    BY <1>1, <1>2, <1>3 DEF HandOK
  <2> QED BY <1>3, <1>4, <1>5, <1>6, <1>8, <2>1, <2>2 DEF StmOK, WishesOf
<1>10. \A t \in Stms : t < s => stm[t].conn # 0
  BY DEF FreshStm
<1>11. ~Contains(conn[c].ready, s) /\ \A t \in Stms : Contains(conn[c].ready, t) => t < s
  <2>1. ~Contains(conn[c].ready, s)
    BY <1>5, <1>8 DEF QInv, Listed
  <2>2. ASSUME NEW t \in Stms, Contains(conn[c].ready, t) PROVE t < s
    <3>1. stm[t].conn = c
      BY <2>2 DEF QInv, Listed
    <3>2. t # s /\ ~(s < t)
      BY <1>5, <1>8, <3>1 DEF QInv, InOrder
    <3> QED BY <3>2, Numbers
  <2> QED BY <2>1, <2>2
<1>12. CASE k.out = None
  <2>1. PICK q \in Seq(Stms) : q = Append(k.ready, s) /\ Sorted(q)
    BY <1>1, <1>11, Numbers, AppendSorted DEF QInv, InOrder
  <2>2. \A t \in Stms : Contains(q, t) <=> Contains(conn[c].ready, t) \/ t = s
    BY <1>1, <2>1, AppendHas
  <2>3. PICK m \in ConnType : /\ m = [k EXCEPT !.ready = q] /\ m.op = k.op /\ m.out = k.out /\ m.ready = q /\ m.place = k.place
                              /\ m.live = k.live /\ m.made = k.made
    BY ConnReady
  <2>4. conn' = [conn EXCEPT ![c] = m]
    BY <1>12, <2>1, <2>3 DEF OnNewStream
  <2>5. ConnOK(m, cancelled)
    <3>1. ~Waiting(k.op)
      BY <1>1, <1>12 DEF HandOK, None
    <3>2. "stream" # None
      BY DEF None
    <3> QED BY <2>3, <3>1, <3>2 DEF ConnOK, Waiting
  <2>6. \A t \in Stms : Contains(m.ready, t) <=> IF t = s THEN j.place = "ready" ELSE Contains(conn[c].ready, t)
    BY <1>2, <1>3, <1>12, <2>2, <2>3
  <2>7. m.place = conn[c].place /\ m.made = conn[c].made /\ Sorted(m.ready) /\ stm[s].conn \in {0, c}
    BY <1>5, <2>1, <2>3
  <2> QED BY <1>3, <1>7, <1>9, <1>10, <2>4, <2>5, <2>6, <2>7, ListMoves
<1>13. CASE k.out # None
  <2>0. None \in Outs /\ OK \in Int
    BY Numbers DEF Outs
  <2>1. PICK i \in ConnType : /\ i = [k EXCEPT !.out = None] /\ i.op = k.op /\ i.out = None /\ i.ready = k.ready /\ i.place = k.place
                              /\ i.live = k.live /\ i.made = k.made
    BY <2>0, ConnOut
  <2>2. PICK o \in OpType : o = End(k.op, OK) /\ HandOK(o, None, cancelled) /\ ~Waiting(o) /\ o.kind = k.op.kind
    <3>1. End(k.op, OK) \in OpType /\ End(k.op, OK).kind = k.op.kind
      BY <1>1, <2>0, EndFields
    <3>2. HandOK(End(k.op, OK), None, cancelled) /\ ~Waiting(End(k.op, OK))
      BY <1>1, <2>0, LsnMember, HandEnd
    <3> QED BY <3>1, <3>2
  <2>3. PICK m \in ConnType : /\ m = [i EXCEPT !.op = o] /\ m.op = o /\ m.out = None /\ m.ready = k.ready /\ m.place = k.place
                              /\ m.live = k.live /\ m.made = k.made
    <3>1. LET m == [i EXCEPT !.op = o]
          IN  m \in ConnType /\ m.op = o /\ m.out = i.out /\ m.ready = i.ready /\ m.place = i.place
              /\ m.live = i.live /\ m.made = i.made
      BY ConnOp
    <3> QED BY <2>1, <3>1
  <2>4. conn' = [conn EXCEPT ![c] = m]
    BY <1>13, <2>1, <2>2, <2>3 DEF OnNewStream
  <2>5. ConnOK(m, cancelled)
    <3>2. "stream" # None
      BY DEF None
    <3> QED BY <2>2, <2>3, <3>2 DEF ConnOK, Waiting
  <2>6. \A t \in Stms : Contains(m.ready, t) <=> IF t = s THEN j.place = "ready" ELSE Contains(conn[c].ready, t)
    BY <1>2, <1>3, <1>11, <1>13, <2>3
  <2>7. m.place = conn[c].place /\ m.made = conn[c].made /\ Sorted(m.ready) /\ stm[s].conn \in {0, c}
    BY <1>5, <2>3 DEF QInv, InOrder
  <2> QED BY <1>3, <1>7, <1>9, <1>10, <2>4, <2>5, <2>6, <2>7, ListMoves, ZenonT(40)
<1> QED BY <1>12, <1>13

LEMMA NewStreamStep == ASSUME QInv, NEW c \in Conns, NEW s \in Stms, NewStream(c, s) PROVE QInv'
<1>1. PICK k \in ConnType : /\ k = [conn[c] EXCEPT !.op = Op("new", 0), !.out = "cur"] /\ ConnOK(k, cancelled)
                            /\ k.place = conn[c].place /\ k.ready = conn[c].ready /\ k.made = conn[c].made /\ k.live
  <2>1. Mine(c) /\ "new" \in {"new", "stream"} /\ "new" # "stream"
    BY DEF NewStream
  <2> QED BY <2>1, AskedIs
<1>2. FreshStm(s) /\ UNCHANGED <<lsn, cancelled>>
  BY DEF NewStream
<1>3. CASE OnNewStream(c, k, s)
  BY <1>1, <1>2, <1>3, OnNewStreamKeeps
<1>4. CASE conn' = [conn EXCEPT ![c] = [k EXCEPT !.delayed = @ + 1]] /\ UNCHANGED <<stm, ele>>
  <2>1. k.delayed + 1 \in Nat
    BY DEF ConnType
  <2>2. PICK m \in ConnType : /\ m = [k EXCEPT !.delayed = k.delayed + 1] /\ m.op = k.op /\ m.out = k.out /\ m.ready = k.ready
                              /\ m.place = k.place /\ m.live = k.live /\ m.made = k.made
    <3>1. PICK n \in Nat : n = k.delayed + 1
      BY <2>1
    <3> QED BY <3>1, ConnDelayed
  <2>3. ConnOK(m, cancelled)
    BY <1>1, <2>2 DEF ConnOK
  <2>4. conn' = [conn EXCEPT ![c] = m]
    BY <1>4, <2>2
  <2> QED BY <1>1, <1>2, <1>4, <2>2, <2>3, <2>4, ConnMoves, LsnMember, ZenonT(40)
<1> QED BY <1>1, <1>3, <1>4 DEF NewStream

LEMMA StreamArrivesStep == ASSUME QInv, NEW c \in Conns, NEW s \in Stms, StreamArrives(c, s) PROVE QInv'
<1>1. PICK d \in {0, 1} : d <= conn[c].delayed /\ OnNewStream(c, [conn[c] EXCEPT !.delayed = @ - d], s)
  BY DEF StreamArrives
<1>2. conn[c] \in ConnType /\ ConnOK(conn[c], cancelled) /\ conn[c].live /\ FreshStm(s) /\ UNCHANGED <<lsn, cancelled>>
  BY ConnMember DEF StreamArrives
<1>3. PICK n \in Nat : n = conn[c].delayed - d
  <2>1. conn[c].delayed \in Nat
    BY <1>2 DEF ConnType
  <2> QED BY <1>1, <2>1
<1>4. PICK k \in ConnType : /\ k = [conn[c] EXCEPT !.delayed = n] /\ k.op = conn[c].op /\ k.out = conn[c].out
                            /\ k.ready = conn[c].ready /\ k.place = conn[c].place /\ k.live = conn[c].live /\ k.made = conn[c].made
  BY <1>2, ConnDelayed
<1>5. ConnOK(k, cancelled)
  BY <1>2, <1>4 DEF ConnOK
<1>6. OnNewStream(c, k, s)
  BY <1>1, <1>3, <1>4
<1> QED BY <1>2, <1>4, <1>5, <1>6, OnNewStreamKeeps

LEMMA GetStreamStep == ASSUME QInv, NEW c \in Conns, GetStream(c) PROVE QInv'
<1>1. Mine(c) /\ UNCHANGED <<lsn, ele, cancelled>> /\ conn[c].op.kind = None
  BY DEF GetStream, Mine
<1>2. /\ conn[c] \in ConnType /\ ConnOK(conn[c], cancelled) /\ cancelled \in BOOLEAN
      /\ conn[c].op \in OpType /\ conn[c].out \in Outs
  BY ConnMember, LsnMember
<1>3. conn[c].ready \in Seq(Stms)
  BY <1>2 DEF ConnType
<1>4. CASE conn[c].ready = <<>>
  <2>1. PICK k \in ConnType : /\ k = [conn[c] EXCEPT !.op = Op("stream", 0), !.out = "cur"] /\ ConnOK(k, cancelled)
                              /\ k.place = conn[c].place /\ k.ready = conn[c].ready /\ k.made = conn[c].made
    BY <1>1, <1>4, AskedIs
  <2>2. conn' = [conn EXCEPT ![c].op = Op("stream", 0), ![c].out = "cur"] /\ UNCHANGED stm
    BY <1>4 DEF GetStream
  <2>3. conn' = [conn EXCEPT ![c] = k]
    BY <1>2, <2>1, <2>2 DEF QInv, Types
  <2> QED BY <1>1, <1>2, <2>1, <2>2, <2>3, ConnMoves
<1>5. CASE conn[c].ready # <<>>
  <2>1. PICK s \in Stms : s = Head(conn[c].ready) /\ Contains(conn[c].ready, s)
    BY <1>3, <1>5, HeadHas
  <2>2. PICK q \in Seq(Stms) : q = Tail(conn[c].ready)
    BY <1>3, <1>5, HeadHas
  <2>3. Sorted(q) /\ \A t \in Stms : Contains(q, t) <=> Contains(conn[c].ready, t) /\ t # s
    BY <1>3, <1>5, <2>1, <2>2, Numbers, TailHas DEF QInv, InOrder
  <2>4. PICK o \in OpType : o = End(Op("stream", 0), OK) /\ HandOK(o, conn[c].out, cancelled) /\ ~Waiting(o) /\ o.kind = "stream"
    <3>1. "stream" \in Kinds /\ "stream" # None
      BY DEF Kinds, None
    <3> QED BY <1>1, <1>2, <3>1, HandAtOnce DEF ConnOK
  <2>5. PICK i \in ConnType : /\ i = [conn[c] EXCEPT !.op = o] /\ i.op = o /\ i.out = conn[c].out /\ i.ready = conn[c].ready
                              /\ i.place = conn[c].place /\ i.live = conn[c].live /\ i.made = conn[c].made
    BY <1>2, ConnOp, ZenonT(40)
  <2>6. PICK k \in ConnType : /\ k = [i EXCEPT !.ready = q] /\ k.op = o /\ k.out = conn[c].out /\ k.ready = q
                              /\ k.place = conn[c].place /\ k.live = conn[c].live /\ k.made = conn[c].made
    <3>1. LET j == [i EXCEPT !.ready = q]
          IN  j \in ConnType /\ j.op = i.op /\ j.out = i.out /\ j.ready = q /\ j.place = i.place
              /\ j.live = i.live /\ j.made = i.made
      BY ConnReady
    <3> QED BY <2>5, <3>1
  <2>7. conn' = [conn EXCEPT ![c] = k]
    <3>1. conn' = [conn EXCEPT ![c].op = End(Op("stream", 0), OK), ![c].ready = Tail(@)]
      BY <1>5 DEF GetStream
    <3>2. [conn EXCEPT ![c] = i] \in [Conns -> ConnType] /\ [conn EXCEPT ![c] = i][c] = i
      BY DEF QInv, Types
    <3>3. PICK g \in [Conns -> ConnType] : g = [conn EXCEPT ![c] = i] /\ g[c] = i
      BY <3>2
    <3>4. conn' = [g EXCEPT ![c] = [i EXCEPT !.ready = q]]
      BY <2>2, <2>4, <2>5, <3>1, <3>3
    <3> QED BY <2>6, <3>3, <3>4
  <2>8. ConnOK(k, cancelled)
    <3>1. k.live /\ k.place = "user"
      BY <1>1, <2>6 DEF Mine
    <3> QED BY <1>2, <2>4, <2>6, <3>1 DEF ConnOK, Waiting, None
  <2>9. /\ stm[s] \in StmType /\ ele[s] \in [Copies -> EleType] /\ StmOK(stm[s], ele[s], cancelled)
        /\ stm[s].conn = c /\ stm[s].place = "ready"
    BY <2>1, StmMember DEF QInv, Listed
  <2>10. PICK j \in StmType : /\ j = [stm[s] EXCEPT !.place = "user"] /\ j.place = "user" /\ j.conn = stm[s].conn
                              /\ j.wr = stm[s].wr /\ j.ww = stm[s].ww /\ j.stale = stm[s].stale /\ j.dup = stm[s].dup /\ j.quic = stm[s].quic
    <3>1. "user" \in Places
      BY DEF Places
    <3>2. LET j == [stm[s] EXCEPT !.place = "user"]
          IN  j \in StmType /\ j.place = "user" /\ j.conn = stm[s].conn
              /\ j.wr = stm[s].wr /\ j.ww = stm[s].ww /\ j.stale = stm[s].stale /\ j.dup = stm[s].dup /\ j.quic = stm[s].quic
      BY <2>9, <3>1 DEF StmType
    <3> QED BY <3>2
  <2>11. StmOK(j, ele[s], cancelled)
    <3>1. j.conn # 0
      BY <2>9, <2>10, Numbers
    <3> QED BY <2>9, <2>10, <3>1 DEF StmOK, WishesOf
  <2>12. stm' = [stm EXCEPT ![s] = j] /\ ele' = [ele EXCEPT ![s] = ele[s]]
    BY <1>1, <1>5, <2>1, <2>10 DEF GetStream, QInv, Types
  <2>13. \A t \in Stms : t < s => stm[t].conn # 0
    BY <2>9, Numbers DEF QInv, InOrder
  <2>14. \A t \in Stms : Contains(k.ready, t) <=> IF t = s THEN j.place = "ready" ELSE Contains(conn[c].ready, t)
    BY <2>3, <2>6, <2>10
  <2>15. PICK e \in [Copies -> EleType] : e = ele[s]
    BY <2>9
  <2>16. StmOK(j, e, cancelled) /\ ele' = [ele EXCEPT ![s] = e]
    BY <2>11, <2>12, <2>15
  <2>17. j.conn = c /\ stm[s].conn \in {0, c} /\ Sorted(k.ready)
    BY <2>3, <2>6, <2>9, <2>10
  <2>18. stm' = [stm EXCEPT ![s] = j] /\ k.place = conn[c].place /\ k.made = conn[c].made /\ UNCHANGED <<lsn, cancelled>>
    BY <1>1, <2>6, <2>12
  <2> QED BY <2>7, <2>8, <2>13, <2>14, <2>16, <2>17, <2>18, ListMoves, ZenonT(40)
<1> QED BY <1>4, <1>5

-----------------------------------------------------------------------------
(* Connections that are deleted, with the streams nobody has taken.        *)

LEMMA DroppedStm ==
    ASSUME NEW n \in 0 .. MaxConn, NEW z \in BOOLEAN
    PROVE  LET j == [NoStm EXCEPT !.conn = n]
           IN  j \in StmType /\ j.conn = n /\ j.place = None /\ StmOK(j, [x \in Copies |-> NoEle], z)
<1>1. PICK m \in StmType : m = NoStm /\ m.place = None /\ m.wr = FALSE /\ m.ww = FALSE /\ m.stale = FALSE /\ m.dup = FALSE /\ m.lost = FALSE
  BY Blanks DEF NoStm
<1>2. LET j == [m EXCEPT !.conn = n]
      IN  j \in StmType /\ j.conn = n /\ j.place = m.place /\ j.wr = m.wr /\ j.ww = m.ww /\ j.stale = m.stale /\ j.dup = m.dup /\ j.lost = m.lost
  BY DEF StmType
<1>3. PICK j \in StmType : /\ j = [NoStm EXCEPT !.conn = n] /\ j.conn = n /\ j.place = None /\ j.wr = FALSE /\ j.ww = FALSE
                           /\ j.stale = FALSE /\ j.dup = FALSE /\ j.lost = FALSE
  BY <1>1, <1>2
<1>4. PICK e : e = [x \in Copies |-> NoEle]
  OBVIOUS
<1>5. \A x \in Copies : e[x].live = FALSE /\ e[x].peer = FALSE /\ e[x].op = Idle
  BY <1>4 DEF NoEle
<1>6. "a" \in Copies /\ "b" \in Copies
  BY DEF Copies
<1>7. None # "ready" /\ None # "astray"
  BY DEF None
<1>8. StmOK(j, e, z)
  BY <1>3, <1>5, <1>6, <1>7, IdleIs DEF StmOK, WishesOf
<1> QED BY <1>3, <1>4, <1>8

LEMMA DropStmsKeeps ==
    ASSUME QInv, NEW ss, DropStms(ss)
    PROVE  /\ stm' \in [Stms -> StmType] /\ ele' \in [Stms -> [Copies -> EleType]]
           /\ \A s \in Stms : /\ stm'[s].conn = stm[s].conn
                              /\ stm'[s].place = IF s \in ss THEN None ELSE stm[s].place
                              /\ StmOK(stm'[s], ele'[s], cancelled)
<1>1. ASSUME NEW s \in Stms
      PROVE  /\ stm'[s] \in StmType /\ ele'[s] \in [Copies -> EleType]
             /\ stm'[s].conn = stm[s].conn
             /\ stm'[s].place = IF s \in ss THEN None ELSE stm[s].place
             /\ StmOK(stm'[s], ele'[s], cancelled)
  <2>0. /\ stm[s] \in StmType /\ ele[s] \in [Copies -> EleType] /\ StmOK(stm[s], ele[s], cancelled)
        /\ cancelled \in BOOLEAN
    BY StmMember
  <2>1. PICK n \in 0 .. MaxConn : n = stm[s].conn
    BY <2>0 DEF StmType
  <2>2. CASE s \in ss
    <3>1. stm'[s] = [NoStm EXCEPT !.conn = n] /\ ele'[s] = [x \in Copies |-> NoEle]
      BY <2>1, <2>2 DEF DropStms
    <3> QED BY <2>0, <2>1, <2>2, <3>1, DroppedStm, Blanks
  <2>3. CASE s \notin ss
    <3>1. stm'[s] = stm[s] /\ ele'[s] = ele[s]
      BY <2>3 DEF DropStms
    <3> QED BY <2>0, <2>3, <3>1
  <2> QED BY <2>2, <2>3
<1>2. stm' = [s \in Stms |-> stm'[s]] /\ ele' = [s \in Stms |-> ele'[s]]
  BY DEF DropStms
<1> QED BY <1>1, <1>2

LEMMA DroppedIs ==
    ASSUME QInv, NEW c \in Conns, conn[c].op.kind = None
    PROVE  /\ Dropped(c) \in ConnType /\ ConnOK(Dropped(c), cancelled)
           /\ Dropped(c).place = None /\ Dropped(c).ready = <<>> /\ Dropped(c).made = conn[c].made
<1>1. /\ conn[c] \in ConnType /\ ConnOK(conn[c], cancelled) /\ cancelled \in BOOLEAN
      /\ conn[c].op \in OpType /\ conn[c].out \in Outs
  BY ConnMember, LsnMember
<1>2. None \in Places /\ None \in Outs /\ <<>> \in Seq(Stms)
  BY DEF Places, Outs
<1>3. PICK k \in ConnType : k = [conn[c] EXCEPT !.live = FALSE] /\ k.op = conn[c].op /\ k.live = FALSE /\ k.made = conn[c].made
  BY <1>1, ConnDead
<1>4. PICK l \in ConnType : l = [k EXCEPT !.place = None] /\ l.op = conn[c].op /\ l.live = FALSE /\ l.made = conn[c].made /\ l.place = None
  <2>1. LET j == [k EXCEPT !.place = None]
        IN  j \in ConnType /\ j.op = k.op /\ j.place = None /\ j.live = k.live /\ j.made = k.made
    BY <1>2, ConnPlace
  <2> QED BY <1>3, <2>1
<1>5. PICK m \in ConnType : /\ m = [l EXCEPT !.out = None] /\ m.op = conn[c].op /\ m.live = FALSE /\ m.made = conn[c].made
                            /\ m.place = None /\ m.out = None
  <2>1. LET j == [l EXCEPT !.out = None]
        IN  j \in ConnType /\ j.op = l.op /\ j.out = None /\ j.place = l.place /\ j.live = l.live /\ j.made = l.made
    BY <1>2, ConnOut
  <2> QED BY <1>4, <2>1
<1>6. PICK n \in ConnType : /\ n = [m EXCEPT !.ready = <<>>] /\ n.op = conn[c].op /\ n.live = FALSE /\ n.made = conn[c].made
                            /\ n.place = None /\ n.out = None /\ n.ready = <<>>
  <2>1. LET j == [m EXCEPT !.ready = <<>>]
        IN  j \in ConnType /\ j.op = m.op /\ j.out = m.out /\ j.ready = <<>> /\ j.place = m.place /\ j.live = m.live /\ j.made = m.made
    BY <1>2, ConnReady
  <2> QED BY <1>5, <2>1
<1>7. n = Dropped(c)
  BY <1>3, <1>4, <1>5, <1>6 DEF Dropped
<1>8. HandOK(n.op, None, cancelled)
  BY <1>1, <1>6, HandMore DEF ConnOK
<1>9. ConnOK(n, cancelled)
  BY <1>1, <1>6, <1>8 DEF ConnOK, None
<1> QED BY <1>6, <1>7, <1>9

LEMMA DropConns ==
    ASSUME QInv, NEW cs, cs \subseteq Conns, \A c \in cs : conn[c].op.kind = None,
           conn' = [c \in Conns |-> IF c \in cs THEN Dropped(c) ELSE conn[c]],
           DropStms(UNION {Range(conn[c].ready) : c \in cs}),
           lsn' \in LsnType, LsnOK', Sorted(lsn'.ready),
           \A c \in Conns : Contains(lsn'.ready, c) <=> Contains(lsn.ready, c) /\ c \notin cs,
           UNCHANGED cancelled
    PROVE  QInv'
<1>1. PICK ss : ss = UNION {Range(conn[c].ready) : c \in cs}
  OBVIOUS
<1>2. DropStms(ss)
  BY <1>1
<1>3. /\ stm' \in [Stms -> StmType] /\ ele' \in [Stms -> [Copies -> EleType]]
      /\ \A s \in Stms : /\ stm'[s].conn = stm[s].conn
                         /\ stm'[s].place = IF s \in ss THEN None ELSE stm[s].place
                         /\ StmOK(stm'[s], ele'[s], cancelled')
  BY <1>2, DropStmsKeeps
<1>4. ASSUME NEW c \in Conns
      PROVE  /\ conn'[c] \in ConnType /\ ConnOK(conn'[c], cancelled') /\ conn'[c].made = conn[c].made
             /\ c \in cs => conn'[c].place = None /\ conn'[c].ready = <<>>
             /\ c \notin cs => conn'[c] = conn[c]
  <2>1. CASE c \in cs
    <3>1. conn'[c] = Dropped(c)
      BY <2>1
    <3> QED BY <2>1, <3>1, DroppedIs
  <2>2. CASE c \notin cs
    BY <2>2, ConnMember
  <2> QED BY <2>1, <2>2
<1>5. conn' \in [Conns -> ConnType]
  BY <1>4
<1>6. Types'
  BY <1>3, <1>5 DEF QInv, Types
<1>7. Queued'
  <2>1. None # "ready"
    BY DEF None
  <2> QED BY <1>4, <2>1 DEF QInv, Queued
<1>8. ASSUME NEW c \in Conns, NEW s \in Stms
      PROVE  Contains(conn'[c].ready, s) <=> stm'[s].conn = c /\ stm'[s].place = "ready"
  <2>0. None # "ready"
    BY DEF None
  <2>1. Contains(conn[c].ready, s) <=> stm[s].conn = c /\ stm[s].place = "ready"
    BY DEF QInv, Listed
  <2>2. \A d \in Conns : conn[d].ready \in Seq(Stms)
    BY ConnMember DEF ConnType
  <2>3. CASE c \in cs
    <3>1. ~Contains(conn'[c].ready, s)
      BY <1>4, <2>3, EmptyHas
    <3>2. ASSUME stm[s].conn = c, stm[s].place = "ready" PROVE s \in ss
      <4>1. Contains(conn[c].ready, s)
        BY <2>1, <3>2
      <4>2. s \in Range(conn[c].ready)
        BY <2>2, <4>1, RangeHas
      <4> QED BY <1>1, <2>3, <4>2
    <3> QED BY <1>3, <2>0, <3>1, <3>2
  <2>4. CASE c \notin cs
    <3>1. conn'[c].ready = conn[c].ready
      BY <1>4, <2>4
    <3>2. ASSUME s \in ss PROVE stm[s].conn # c
      <4>1. PICK d \in cs : s \in Range(conn[d].ready)
        BY <1>1, <3>2
      <4>2. Contains(conn[d].ready, s)
        BY <2>2, <4>1, RangeHas
      <4>3. stm[s].conn = d
        BY <4>2 DEF QInv, Listed
      <4> QED BY <2>4, <4>3
    <3> QED BY <1>3, <2>0, <2>1, <3>1, <3>2
  <2> QED BY <2>3, <2>4
<1>9. InOrder'
  <2>1. \A c \in Conns : Sorted(conn'[c].ready)
    BY <1>4, EmptyHas DEF QInv, InOrder
  <2> QED BY <1>3, <1>4, <2>1 DEF QInv, InOrder
<1> QED BY <1>3, <1>4, <1>6, <1>7, <1>8, <1>9 DEF QInv, Listed

LEMMA DelConnStep == ASSUME QInv, NEW c \in Conns, DelConn(c) PROVE QInv'
<1>1. conn[c].op.kind = None /\ conn[c].place = "user" /\ UNCHANGED <<lsn, cancelled>>
  BY DEF DelConn, Mine
<1>2. PICK cs : cs = {c}
  OBVIOUS
<1>3. conn' = [d \in Conns |-> IF d \in cs THEN Dropped(d) ELSE conn[d]]
  <2>1. conn' = [conn EXCEPT ![c] = Dropped(c)] /\ conn \in [Conns -> ConnType]
    BY DEF DelConn, QInv, Types
  <2> QED BY <1>2, <2>1
<1>4. UNION {Range(conn[d].ready) : d \in cs} = Range(conn[c].ready)
  BY <1>2
<1>5. DropStms(UNION {Range(conn[d].ready) : d \in cs})
  BY <1>4 DEF DelConn
<1>6. lsn' \in LsnType /\ LsnOK' /\ Sorted(lsn'.ready)
  BY <1>1, LsnMember, LsnStays DEF QInv, InOrder
<1>7. \A d \in Conns : Contains(lsn'.ready, d) <=> Contains(lsn.ready, d) /\ d \notin cs
  BY <1>1, <1>2 DEF QInv, Queued
<1>8. cs \subseteq Conns /\ \A d \in cs : conn[d].op.kind = None
  BY <1>1, <1>2
<1> QED BY <1>1, <1>3, <1>5, <1>6, <1>7, <1>8, DropConns

LEMMA CloseListenerStep == ASSUME QInv, CloseListener PROVE QInv'
<1>1. lsn.ready \in Seq(Conns) /\ UNCHANGED cancelled /\ lsn' = NoLsn
  BY LsnMember DEF CloseListener
<1>2. PICK cs : cs = Range(lsn.ready)
  OBVIOUS
<1>3. \A c : c \in cs <=> Contains(lsn.ready, c)
  BY <1>1, <1>2, RangeHas
<1>4. cs \subseteq Conns
  BY <1>1, <1>2 DEF Range
<1>5. \A c \in cs : conn[c].op.kind = None
  <2>1. \A c \in cs : conn[c].place = "ready"
    BY <1>3, <1>4 DEF QInv, Queued
  <2> QED BY <1>4, <2>1, ConnMember DEF ConnOK
<1>6. /\ conn' = [c \in Conns |-> IF c \in cs THEN Dropped(c) ELSE conn[c]]
      /\ DropStms(UNION {Range(conn[c].ready) : c \in cs})
  BY <1>2 DEF CloseListener
<1>7. lsn' \in LsnType /\ lsn'.ready = <<>> /\ LsnOK'
  <2>1. NoLsn.op = Idle /\ NoLsn.out = None /\ NoLsn.ready = <<>>
    BY DEF NoLsn
  <2>2. HandOK(Idle, None, cancelled')
    BY IdleIs DEF HandOK, Waiting, None
  <2> QED BY <1>1, <2>1, <2>2, Blanks DEF LsnOK
<1>8. Sorted(lsn'.ready) /\ \A c \in Conns : Contains(lsn'.ready, c) <=> Contains(lsn.ready, c) /\ c \notin cs
  BY <1>3, <1>7, EmptyHas
<1> QED BY <1>1, <1>4, <1>5, <1>6, <1>7, <1>8, DropConns

-----------------------------------------------------------------------------
(* Streams and connections that are closed by lsquic.                      *)

LEMMA EleOp ==
    ASSUME NEW e \in EleType, NEW o \in OpType
    PROVE  LET f == [e EXCEPT !.op = o] IN f \in EleType /\ f.op = o /\ f.live = e.live /\ f.peer = e.peer
BY DEF EleType

LEMMA EleCut ==
    ASSUME NEW e \in EleType
    PROVE  LET f == [e EXCEPT !.stream = FALSE] IN f \in EleType /\ f.op = e.op /\ f.live = e.live /\ f.peer = e.peer
BY DEF EleType

(* What a stream keeps when only its flags change.                         *)
SameBut(j, k) ==
    j \in StmType /\ j.conn = k.conn /\ j.place = k.place /\ j.dup = k.dup /\ (j.quic => k.quic)

LEMMA StmQuic ==
    ASSUME NEW k \in StmType
    PROVE  LET j == [k EXCEPT !.quic = FALSE] IN SameBut(j, k) /\ ~j.quic /\ j.wr = k.wr /\ j.ww = k.ww /\ j.stale = k.stale /\ j.lost = k.lost
BY DEF StmType, SameBut

LEMMA StmCtx ==
    ASSUME NEW k \in StmType
    PROVE  LET j == [k EXCEPT !.ctx = FALSE] IN SameBut(j, k) /\ j.wr = k.wr /\ j.ww = k.ww /\ j.stale = k.stale /\ j.lost = k.lost
BY DEF StmType, SameBut

LEMMA StmStale ==
    ASSUME NEW k \in StmType, NEW b \in BOOLEAN
    PROVE  LET j == [k EXCEPT !.stale = b] IN SameBut(j, k) /\ j.wr = k.wr /\ j.ww = k.ww /\ j.stale = b
BY DEF StmType, SameBut

LEMMA StmLost ==
    ASSUME NEW k \in StmType, NEW b \in BOOLEAN
    PROVE  LET j == [k EXCEPT !.lost = b] IN SameBut(j, k) /\ j.wr = k.wr /\ j.ww = k.ww /\ j.stale = k.stale /\ j.lost = b
BY DEF StmType, SameBut

LEMMA StmUsed ==
    ASSUME NEW k \in StmType, NEW b \in BOOLEAN
    PROVE  LET j == [k EXCEPT !.used = b] IN SameBut(j, k) /\ j.wr = k.wr /\ j.ww = k.ww /\ j.stale = k.stale
BY DEF StmType, SameBut

LEMMA StmWr ==
    ASSUME NEW k \in StmType, NEW b \in BOOLEAN
    PROVE  LET j == [k EXCEPT !.wr = b] IN SameBut(j, k) /\ j.wr = b /\ j.ww = k.ww /\ j.stale = k.stale /\ j.lost = k.lost
BY DEF StmType, SameBut

LEMMA StmWw ==
    ASSUME NEW k \in StmType, NEW b \in BOOLEAN
    PROVE  LET j == [k EXCEPT !.ww = b] IN SameBut(j, k) /\ j.wr = k.wr /\ j.ww = b /\ j.stale = k.stale /\ j.lost = k.lost
BY DEF StmType, SameBut

LEMMA CutIs ==
    ASSUME QInv, NEW s \in Stms
    PROVE  /\ Cut(s) \in [Copies -> EleType]
           /\ \A x \in Copies : /\ Cut(s)[x].live = ele[s][x].live /\ Cut(s)[x].peer = ele[s][x].peer
                                /\ Cut(s)[x].op.kind = ele[s][x].op.kind
                                /\ Cut(s)[x].op.ended => ele[s][x].op.kind # None
<1>1. ASSUME NEW x \in Copies
      PROVE  LET f == [ele[s][x] EXCEPT !.stream = FALSE, !.op = End(@, CLOSED)]
             IN  /\ f \in EleType /\ f.live = ele[s][x].live /\ f.peer = ele[s][x].peer
                 /\ f.op.kind = ele[s][x].op.kind /\ (f.op.ended => ele[s][x].op.kind # None)
  <2>1. PICK e \in EleType : e = ele[s][x] /\ e.op \in OpType /\ (e.op.ended => e.op.kind # None)
    <3>1. ele[s][x] \in EleType /\ (ele[s][x].op.ended => ele[s][x].op.kind # None)
      BY StmMember DEF StmOK
    <3>2. ele[s][x].op \in OpType
      BY <3>1 DEF EleType
    <3> QED BY <3>1, <3>2
  <2>2. PICK o \in OpType : o = End(e.op, CLOSED) /\ o.kind = e.op.kind /\ (o.ended => e.op.kind # None)
    <3>1. CLOSED \in Int
      BY Numbers
    <3>2. End(e.op, CLOSED) \in OpType /\ End(e.op, CLOSED).kind = e.op.kind /\ (e.op.kind = None => End(e.op, CLOSED) = e.op)
      BY <2>1, <3>1, EndFields
    <3> QED BY <2>1, <3>2
  <2>3. PICK g \in EleType : g = [e EXCEPT !.stream = FALSE] /\ g.op = e.op /\ g.live = e.live /\ g.peer = e.peer
    BY EleCut
  <2>4. LET f == [g EXCEPT !.op = o] IN f \in EleType /\ f.op = o /\ f.live = g.live /\ f.peer = g.peer
    BY EleOp
  <2>5. [e EXCEPT !.stream = FALSE, !.op = End(@, CLOSED)] = [g EXCEPT !.op = o]
    BY <2>2, <2>3
  <2> QED BY <2>1, <2>2, <2>3, <2>4, <2>5
<1> QED BY <1>1 DEF Cut

LEMMA OnCloseKeeps ==
    ASSUME QInv, NEW ss, OnClose(ss)
    PROVE  /\ stm' \in [Stms -> StmType] /\ ele' \in [Stms -> [Copies -> EleType]]
           /\ \A s \in Stms : /\ stm'[s].conn = stm[s].conn /\ stm'[s].place = stm[s].place
                              /\ StmOK(stm'[s], ele'[s], cancelled)
<1>1. ASSUME NEW s \in Stms
      PROVE  /\ stm'[s] \in StmType /\ ele'[s] \in [Copies -> EleType]
             /\ stm'[s].conn = stm[s].conn /\ stm'[s].place = stm[s].place
             /\ StmOK(stm'[s], ele'[s], cancelled)
  <2>0. /\ stm[s] \in StmType /\ ele[s] \in [Copies -> EleType] /\ StmOK(stm[s], ele[s], cancelled)
    BY StmMember
  <2>1. CASE s \notin ss
    <3>1. stm'[s] = stm[s] /\ ele'[s] = ele[s]
      BY <2>1 DEF OnClose
    <3> QED BY <2>0, <3>1
  <2>2. CASE s \in ss
    <3>1. PICK b \in BOOLEAN : b = (stm[s].lost \/ (stm[s].ctx /\ Unseen(s)))
      OBVIOUS
    <3>2. PICK k \in StmType : k = stm[s]
      BY <2>0
    <3>3. PICK l \in StmType : l = [k EXCEPT !.quic = FALSE] /\ SameBut(l, k) /\ ~l.quic /\ l.lost = k.lost
      <4>1. LET j == [k EXCEPT !.quic = FALSE] IN SameBut(j, k) /\ ~j.quic /\ j.lost = k.lost
        BY StmQuic
      <4> QED BY <4>1 DEF SameBut
    <3>4. PICK m \in StmType : m = [l EXCEPT !.ctx = FALSE] /\ SameBut(m, k) /\ ~m.quic /\ m.lost = k.lost
      <4>1. LET j == [l EXCEPT !.ctx = FALSE] IN SameBut(j, l) /\ j.lost = l.lost
        BY StmCtx
      <4> QED BY <3>3, <4>1 DEF SameBut
    <3>5. PICK n \in StmType : n = [m EXCEPT !.lost = b] /\ SameBut(n, k) /\ ~n.quic
      <4>1. LET j == [m EXCEPT !.lost = b] IN SameBut(j, m)
        BY StmLost
      <4> QED BY <3>4, <4>1 DEF SameBut
    <3>6. PICK u \in BOOLEAN, j \in StmType :
            u = (k.used \/ Freed(s)) /\ j = [n EXCEPT !.used = u] /\ SameBut(j, k) /\ ~j.quic
      <4>1. PICK u \in BOOLEAN : u = (k.used \/ Freed(s))
        OBVIOUS
      <4>2. LET j == [n EXCEPT !.used = u] IN SameBut(j, n)
        BY StmUsed
      <4> QED BY <3>5, <4>1, <4>2 DEF SameBut
    <3>7. stm'[s] = j
      <4>1. stm'[s] = [stm[s] EXCEPT !.quic = FALSE, !.ctx = FALSE,
                                     !.lost = @ \/ (stm[s].ctx /\ Unseen(s)), !.used = @ \/ Freed(s)]
        BY <2>2 DEF OnClose
      <4> QED BY <3>1, <3>2, <3>3, <3>4, <3>5, <3>6, <4>1
    <3>8. PICK e \in [Copies -> EleType] :
            /\ e = ele'[s]
            /\ \A x \in Copies : /\ e[x].live = ele[s][x].live /\ e[x].peer = ele[s][x].peer
                                 /\ e[x].op.kind = ele[s][x].op.kind
                                 /\ e[x].op.ended => ele[s][x].op.kind # None
      <4>0. ele'[s] = Cut(s) \/ ele'[s] = ele[s]
        BY DEF OnClose
      <4>1. CASE ele'[s] = Cut(s)
        BY <4>1, CutIs
      <4>2. CASE ele'[s] = ele[s]
        BY <2>0, <4>2 DEF StmOK
      <4> QED BY <4>0, <4>1, <4>2
    <3>9. "a" \in Copies /\ "b" \in Copies
      BY DEF Copies
    <3>10. StmOK(j, e, cancelled)
      BY <2>0, <3>2, <3>6, <3>8, <3>9 DEF StmOK, SameBut, WishesOf
    <3> QED BY <3>2, <3>6, <3>7, <3>8, <3>10 DEF SameBut
  <2> QED BY <2>1, <2>2
<1>2. stm' = [s \in Stms |-> stm'[s]] /\ ele' = [s \in Stms |-> ele'[s]]
  BY DEF OnClose
<1> QED BY <1>1, <1>2

LEMMA StreamClosesStep == ASSUME QInv, NEW s \in Stms, StreamCloses(s) PROVE QInv'
<1>1. OnClose({s}) /\ UNCHANGED <<lsn, conn, cancelled>>
  BY DEF StreamCloses
<1>2. /\ stm' \in [Stms -> StmType] /\ ele' \in [Stms -> [Copies -> EleType]]
      /\ \A t \in Stms : /\ stm'[t].conn = stm[t].conn /\ stm'[t].place = stm[t].place
                         /\ StmOK(stm'[t], ele'[t], cancelled')
  BY <1>1, OnCloseKeeps
<1>3. Types' /\ LsnOK'
  BY <1>1, <1>2, LsnStays DEF QInv, Types
<1>4. \A c \in Conns : ConnOK(conn'[c], cancelled')
  BY <1>1 DEF QInv
<1> QED BY <1>1, <1>2, <1>3, <1>4, NothingMoves

LEMMA OnConnClosedKeeps == ASSUME QInv, NEW cs, OnConnClosed(cs), UNCHANGED <<lsn, cancelled>> PROVE QInv'
<1>1. PICK ss : OnClose(ss)
  BY DEF OnConnClosed
<1>2. /\ stm' \in [Stms -> StmType] /\ ele' \in [Stms -> [Copies -> EleType]]
      /\ \A t \in Stms : /\ stm'[t].conn = stm[t].conn /\ stm'[t].place = stm[t].place
                         /\ StmOK(stm'[t], ele'[t], cancelled')
  BY <1>1, OnCloseKeeps
<1>3. ASSUME NEW c \in Conns
      PROVE  /\ conn'[c] \in ConnType /\ ConnOK(conn'[c], cancelled')
             /\ conn'[c].place = conn[c].place /\ conn'[c].made = conn[c].made /\ conn'[c].ready = conn[c].ready
  <2>1. /\ conn[c] \in ConnType /\ ConnOK(conn[c], cancelled) /\ cancelled \in BOOLEAN
        /\ conn[c].op \in OpType /\ conn[c].out \in Outs
    BY ConnMember, LsnMember
  <2>2. CASE c \notin cs
    <3>1. conn'[c] = conn[c]
      BY <2>2 DEF OnConnClosed
    <3> QED BY <2>1, <3>1
  <2>3. CASE c \in cs
    <3>0. None \in Outs /\ CLOSED \in Int
      BY Numbers DEF Outs
    <3>1. PICK k \in ConnType : /\ k = [conn[c] EXCEPT !.quic = FALSE] /\ k.op = conn[c].op /\ k.ready = conn[c].ready
                                /\ k.place = conn[c].place /\ k.live = conn[c].live /\ k.made = conn[c].made
      BY <2>1, ConnCut
    <3>2. PICK l \in ConnType : /\ l = [k EXCEPT !.out = None] /\ l.op = conn[c].op /\ l.out = None /\ l.ready = conn[c].ready
                                /\ l.place = conn[c].place /\ l.live = conn[c].live /\ l.made = conn[c].made
      <4>1. LET j == [k EXCEPT !.out = None]
            IN  j \in ConnType /\ j.op = k.op /\ j.out = None /\ j.ready = k.ready /\ j.place = k.place
                /\ j.live = k.live /\ j.made = k.made
        BY <3>0, ConnOut
      <4> QED BY <3>1, <4>1
    <3>3. PICK o \in OpType : o = End(conn[c].op, CLOSED) /\ HandOK(o, None, cancelled) /\ ~Waiting(o) /\ o.kind = conn[c].op.kind
      <4>1. End(conn[c].op, CLOSED) \in OpType /\ End(conn[c].op, CLOSED).kind = conn[c].op.kind
        BY <2>1, <3>0, EndFields
      <4>2. HandOK(End(conn[c].op, CLOSED), None, cancelled) /\ ~Waiting(End(conn[c].op, CLOSED))
        BY <2>1, <3>0, HandEnd DEF ConnOK
      <4> QED BY <4>1, <4>2
    <3>4. PICK m \in ConnType : /\ m = [l EXCEPT !.op = o] /\ m.op = o /\ m.out = None /\ m.ready = conn[c].ready
                                /\ m.place = conn[c].place /\ m.live = conn[c].live /\ m.made = conn[c].made
      <4>1. LET j == [l EXCEPT !.op = o]
            IN  j \in ConnType /\ j.op = o /\ j.out = l.out /\ j.ready = l.ready /\ j.place = l.place
                /\ j.live = l.live /\ j.made = l.made
        BY ConnOp
      <4> QED BY <3>2, <4>1
    <3>5. conn'[c] = m
      <4>1. conn'[c] = [conn[c] EXCEPT !.quic = FALSE, !.out = None, !.op = End(@, CLOSED)]
        BY <2>3 DEF OnConnClosed
      <4> QED BY <3>1, <3>2, <3>3, <3>4, <4>1
    <3>6. ConnOK(m, cancelled)
      <4>1. "stream" # None
        BY DEF None
      <4> QED BY <2>1, <3>3, <3>4, <4>1 DEF ConnOK, Waiting
    <3> QED BY <3>4, <3>5, <3>6
  <2> QED BY <2>2, <2>3
<1>4. conn' = [c \in Conns |-> conn'[c]]
  BY DEF OnConnClosed
<1>5. conn' \in [Conns -> ConnType]
  BY <1>3, <1>4
<1>6. Types' /\ LsnOK'
  BY <1>2, <1>5, LsnStays DEF QInv, Types
<1> QED BY <1>2, <1>3, <1>6, NothingMoves

LEMMA ConnClosesStep == ASSUME QInv, NEW c \in Conns, ConnCloses(c) PROVE QInv'
BY OnConnClosedKeeps DEF ConnCloses

LEMMA DelEngineStep == ASSUME QInv, DelEngine PROVE QInv'
BY OnConnClosedKeeps DEF DelEngine

-----------------------------------------------------------------------------
(* Operations of streams.                                                  *)

(* The elements f of a stream are the elements e but for their operations. *)
OpsOK(f, e) ==
    \A y \in Copies : /\ f[y].live = e[y].live /\ f[y].peer = e[y].peer
                      /\ f[y].op.ended => f[y].op.kind # None
                      /\ ~e[y].live => f[y].op.kind = None

WithOp(s, x, o) == [ele EXCEPT ![s][x].op = o]

(* Only flags of the stream, and operations of its elements, change.       *)
LEMMA OpsChange ==
    ASSUME NEW k, NEW e, NEW z, NEW j, NEW f, StmOK(k, e, z), SameBut(j, k), OpsOK(f, e),
           WishesOf(j, f)
    PROVE  StmOK(j, f, z)
<1>1. "a" \in Copies /\ "b" \in Copies
  BY DEF Copies
<1> QED BY <1>1 DEF StmOK, SameBut, OpsOK

(* The operation of one element becomes o.                                 *)
LEMMA OneOp ==
    ASSUME QInv, NEW s \in Stms, NEW x \in Copies, NEW o \in OpType, o.ended => o.kind # None,
           ~ele[s][x].live => o.kind = None
    PROVE  \E f \in [Copies -> EleType] :
              /\ WithOp(s, x, o) = [ele EXCEPT ![s] = f] /\ OpsOK(f, ele[s])
              /\ f[x].op = o /\ \A y \in Copies : y # x => f[y] = ele[s][y]
<1>1. ele[s] \in [Copies -> EleType] /\ StmOK(stm[s], ele[s], cancelled) /\ ele[s][x] \in EleType
  BY StmMember
<1>2. PICK g \in EleType : g = [ele[s][x] EXCEPT !.op = o] /\ g.op = o /\ g.live = ele[s][x].live /\ g.peer = ele[s][x].peer
  BY <1>1, EleOp, ZenonT(40)
<1>3. LET f == [ele[s] EXCEPT ![x] = g]
      IN  f \in [Copies -> EleType] /\ f[x] = g /\ \A y \in Copies : y # x => f[y] = ele[s][y]
  BY <1>1
<1>4. PICK f \in [Copies -> EleType] : f = [ele[s] EXCEPT ![x] = g] /\ f[x] = g /\ \A y \in Copies : y # x => f[y] = ele[s][y]
  BY <1>3
<1>5. WithOp(s, x, o) = [ele EXCEPT ![s] = f]
  BY <1>2, <1>4 DEF WithOp
<1>6. OpsOK(f, ele[s])
  BY <1>1, <1>2, <1>4 DEF StmOK, OpsOK
<1> QED BY <1>2, <1>4, <1>5, <1>6

(* Without a copy the element in use is the first.                         *)
LEMMA OnlyFirst ==
    ASSUME QInv, NEW s \in Stms, ~stm[s].dup
    PROVE  ele[s]["b"].op.kind = None /\ \A x \in Copies : ele[s][x].live => x = "a"
<1>1. StmOK(stm[s], ele[s], cancelled) /\ "b" \in Copies
  BY StmMember DEF Copies
<1> QED BY <1>1 DEF StmOK, Copies

(* Flags and operations of one stream change.                               *)
LEMMA StmOps ==
    ASSUME QInv, NEW s \in Stms, NEW j \in StmType, NEW f \in [Copies -> EleType],
           stm' = [stm EXCEPT ![s] = j], ele' = [ele EXCEPT ![s] = f],
           SameBut(j, stm[s]), OpsOK(f, ele[s]), WishesOf(j, f),
           UNCHANGED <<lsn, conn>>, cancelled' \in BOOLEAN, cancelled => cancelled'
    PROVE  QInv'
<1>1. StmOK(stm[s], ele[s], cancelled)
  BY StmMember
<1>2. StmOK(j, f, cancelled)
  BY <1>1, OpsChange
<1>3. StmOK(j, f, cancelled')
  BY <1>2, MoreStm
<1>4. j.place = stm[s].place /\ j.conn = stm[s].conn
  BY DEF SameBut
<1> QED BY <1>3, <1>4, StmMoves

LEMMA RecvStep ==
    ASSUME QInv, NEW s \in Stms, NEW x \in Copies, NEW n \in 1 .. MaxData, Recv(s, x, n) PROVE QInv'
<1>0. n \in Nat /\ "recv" \in Kinds /\ "recv" # None
  BY QicAssumption DEF Kinds, None
<1>1. PICK o \in OpType : o = Op("recv", n) /\ o.kind = "recv" /\ o.ended = FALSE
  BY <1>0, OpIs
<1>2. /\ stm[s] \in StmType /\ StmOK(stm[s], ele[s], cancelled) /\ cancelled \in BOOLEAN
      /\ ele[s][x].live /\ ele[s][x].op.kind = None
  BY StmMember DEF Recv, Usable
<1>3. PICK f \in [Copies -> EleType] :
              /\ WithOp(s, x, o) = [ele EXCEPT ![s] = f] /\ OpsOK(f, ele[s])
              /\ f[x].op = o /\ \A y \in Copies : y # x => f[y] = ele[s][y]
  <2>1. (o.ended => o.kind # None) /\ (~ele[s][x].live => o.kind = None)
    BY <1>0, <1>1, <1>2
  <2> QED BY <2>1, OneOp
<1>4. PICK b \in BOOLEAN : b = (stm[s].stale /\ stm[s].ww)
  OBVIOUS
<1>5. PICK i \in StmType : /\ i = [stm[s] EXCEPT !.wr = TRUE] /\ SameBut(i, stm[s]) /\ i.ww = stm[s].ww
  <2>1. LET j == [stm[s] EXCEPT !.wr = TRUE] IN SameBut(j, stm[s]) /\ j.ww = stm[s].ww
    BY <1>2, StmWr
  <2> QED BY <2>1 DEF SameBut
<1>6. PICK j \in StmType : /\ j = [i EXCEPT !.stale = b] /\ SameBut(j, stm[s]) /\ j.ww = stm[s].ww /\ j.stale = b
  <2>1. LET j == [i EXCEPT !.stale = b] IN SameBut(j, i) /\ j.ww = i.ww /\ j.stale = b
    BY StmStale
  <2> QED BY <1>5, <2>1 DEF SameBut
<1>7. /\ stm' = [stm EXCEPT ![s] = j] /\ ele' = [ele EXCEPT ![s] = f]
      /\ UNCHANGED <<lsn, conn, cancelled>>
  <2>1. stm' = [stm EXCEPT ![s].wr = TRUE, ![s].stale = @ /\ stm[s].ww]
    BY DEF Recv
  <2>2. PICK g \in [Stms -> StmType] : g = [stm EXCEPT ![s] = i] /\ g[s] = i
    <3>1. [stm EXCEPT ![s] = i] \in [Stms -> StmType] /\ [stm EXCEPT ![s] = i][s] = i
      BY DEF QInv, Types
    <3> QED BY <3>1
  <2>3. i.stale = stm[s].stale
    BY <1>2, <1>5 DEF StmType
  <2>4. stm' = [g EXCEPT ![s] = [i EXCEPT !.stale = b]]
    BY <1>4, <1>5, <2>1, <2>2, <2>3
  <2>5. stm' = [stm EXCEPT ![s] = j]
    BY <1>6, <2>2, <2>4
  <2> QED BY <1>1, <1>3, <2>5 DEF Recv, WithOp
<1>8. WishesOf(j, f)
  <2>1. SUFFICES ASSUME j.quic, ~j.stale, ~j.dup
                 PROVE  f["a"].op.kind = "recv" /\ ~f["a"].op.ended /\ ~j.ww
    BY DEF WishesOf
  <2>2. x = "a" /\ stm[s].quic /\ ~stm[s].dup
    BY <1>2, <1>6, <2>1, OnlyFirst DEF SameBut
  <2>3. "send" # None
    BY DEF None
  <2>4. CASE stm[s].stale
    BY <1>1, <1>3, <1>4, <1>6, <2>1, <2>2, <2>4
  <2>5. CASE ~stm[s].stale
    BY <1>1, <1>2, <1>3, <1>6, <2>2, <2>3, <2>5 DEF StmOK, WishesOf
  <2> QED BY <2>4, <2>5
<1>9. cancelled' \in BOOLEAN /\ (cancelled => cancelled') /\ UNCHANGED <<lsn, conn>>
  BY <1>2, <1>7
<1> QED BY <1>3, <1>6, <1>7, <1>8, <1>9, StmOps

LEMMA SendStep ==
    ASSUME QInv, NEW s \in Stms, NEW x \in Copies, Send(s, x) PROVE QInv'
<1>0. 1 \in Nat /\ "send" \in Kinds /\ "send" # None
  BY DEF Kinds, None
<1>1. PICK o \in OpType : o = Op("send", 1) /\ o.kind = "send" /\ o.ended = FALSE
  BY <1>0, OpIs
<1>2. /\ stm[s] \in StmType /\ StmOK(stm[s], ele[s], cancelled) /\ cancelled \in BOOLEAN
      /\ ele[s][x].live /\ ele[s][x].op.kind = None
  BY StmMember DEF Send, Usable
<1>3. PICK f \in [Copies -> EleType] :
              /\ WithOp(s, x, o) = [ele EXCEPT ![s] = f] /\ OpsOK(f, ele[s])
              /\ f[x].op = o /\ \A y \in Copies : y # x => f[y] = ele[s][y]
  <2>1. (o.ended => o.kind # None) /\ (~ele[s][x].live => o.kind = None)
    BY <1>0, <1>1, <1>2
  <2> QED BY <2>1, OneOp
<1>4. PICK b \in BOOLEAN : b = (stm[s].stale /\ stm[s].wr)
  OBVIOUS
<1>5. PICK i \in StmType : /\ i = [stm[s] EXCEPT !.ww = TRUE] /\ SameBut(i, stm[s]) /\ i.wr = stm[s].wr
  <2>1. LET j == [stm[s] EXCEPT !.ww = TRUE] IN SameBut(j, stm[s]) /\ j.wr = stm[s].wr
    BY <1>2, StmWw
  <2> QED BY <2>1 DEF SameBut
<1>6. PICK j \in StmType : /\ j = [i EXCEPT !.stale = b] /\ SameBut(j, stm[s]) /\ j.wr = stm[s].wr /\ j.stale = b
  <2>1. LET j == [i EXCEPT !.stale = b] IN SameBut(j, i) /\ j.wr = i.wr /\ j.stale = b
    BY StmStale
  <2> QED BY <1>5, <2>1 DEF SameBut
<1>7. /\ stm' = [stm EXCEPT ![s] = j] /\ ele' = [ele EXCEPT ![s] = f]
      /\ UNCHANGED <<lsn, conn, cancelled>>
  <2>1. stm' = [stm EXCEPT ![s].ww = TRUE, ![s].stale = @ /\ stm[s].wr]
    BY DEF Send
  <2>2. PICK g \in [Stms -> StmType] : g = [stm EXCEPT ![s] = i] /\ g[s] = i
    <3>1. [stm EXCEPT ![s] = i] \in [Stms -> StmType] /\ [stm EXCEPT ![s] = i][s] = i
      BY DEF QInv, Types
    <3> QED BY <3>1
  <2>3. i.stale = stm[s].stale
    BY <1>2, <1>5 DEF StmType
  <2>4. stm' = [g EXCEPT ![s] = [i EXCEPT !.stale = b]]
    BY <1>4, <1>5, <2>1, <2>2, <2>3
  <2>5. stm' = [stm EXCEPT ![s] = j]
    BY <1>6, <2>2, <2>4
  <2> QED BY <1>1, <1>3, <2>5 DEF Send, WithOp
<1>8. WishesOf(j, f)
  <2>1. SUFFICES ASSUME j.quic, ~j.stale, ~j.dup
                 PROVE  f["a"].op.kind = "send" /\ ~f["a"].op.ended /\ ~j.wr
    BY DEF WishesOf
  <2>2. x = "a" /\ stm[s].quic /\ ~stm[s].dup
    BY <1>2, <1>6, <2>1, OnlyFirst DEF SameBut
  <2>3. "recv" # None
    BY DEF None
  <2>4. CASE stm[s].stale
    BY <1>1, <1>3, <1>4, <1>6, <2>1, <2>2, <2>4
  <2>5. CASE ~stm[s].stale
    BY <1>1, <1>2, <1>3, <1>6, <2>2, <2>3, <2>5 DEF StmOK, WishesOf
  <2> QED BY <2>4, <2>5
<1>9. cancelled' \in BOOLEAN /\ (cancelled => cancelled') /\ UNCHANGED <<lsn, conn>>
  BY <1>2, <1>7
<1> QED BY <1>3, <1>6, <1>7, <1>8, <1>9, StmOps

(* The post of an operation of the first element moves n bytes.            *)
LEMMA PostIs ==
    ASSUME QInv, NEW s \in Stms, NEW n \in 0 .. MaxData, Post(s, n)
    PROVE  \E f \in [Copies -> EleType] :
              /\ ele' = [ele EXCEPT ![s] = f] /\ OpsOK(f, ele[s])
              /\ f["a"].op.kind = ele[s]["a"].op.kind
              /\ n = 0 => f["a"].op = ele[s]["a"].op
<1>0. n \in Int /\ "a" \in Copies
  BY QicAssumption DEF Copies
<1>1. ele[s] \in [Copies -> EleType] /\ ele[s]["a"].op \in OpType /\ StmOK(stm[s], ele[s], cancelled)
  BY StmMember
<1>2. CASE n = 0
  <2>1. ele' = [ele EXCEPT ![s] = ele[s]]
    BY <1>2 DEF Post, QInv, Types
  <2>2. OpsOK(ele[s], ele[s])
    BY <1>1 DEF StmOK, OpsOK
  <2> QED BY <1>1, <2>1, <2>2
<1>3. CASE n # 0
  <2>1. PICK o \in OpType : /\ o = End(ele[s]["a"].op, n) /\ o.kind = ele[s]["a"].op.kind
                            /\ (o.ended => o.kind # None)
    <3>1. /\ End(ele[s]["a"].op, n) \in OpType /\ End(ele[s]["a"].op, n).kind = ele[s]["a"].op.kind
          /\ (ele[s]["a"].op.kind = None => End(ele[s]["a"].op, n) = ele[s]["a"].op)
      BY <1>0, <1>1, EndFields
    <3>2. ele[s]["a"].op.ended => ele[s]["a"].op.kind # None
      BY <1>0, <1>1 DEF StmOK
    <3> QED BY <3>1, <3>2
  <2>2. ~ele[s]["a"].live => o.kind = None
    BY <1>0, <1>1, <2>1 DEF StmOK
  <2>3. PICK f \in [Copies -> EleType] : /\ WithOp(s, "a", o) = [ele EXCEPT ![s] = f] /\ OpsOK(f, ele[s])
                                         /\ f["a"].op = o
    <3>1. PICK x \in Copies : x = "a"
      BY <1>0
    <3>2. (o.ended => o.kind # None) /\ (~ele[s][x].live => o.kind = None)
      BY <2>1, <2>2, <3>1
    <3>3. \E f \in [Copies -> EleType] : /\ WithOp(s, x, o) = [ele EXCEPT ![s] = f] /\ OpsOK(f, ele[s])
                                         /\ f[x].op = o
      BY <3>2, OneOp
    <3> QED BY <3>1, <3>3
  <2>4. ele' = WithOp(s, "a", o)
    BY <1>3, <2>1 DEF Post, WithOp
  <2> QED BY <1>3, <2>1, <2>3, <2>4
<1> QED BY <1>2, <1>3

LEMMA WishesIs ==
    ASSUME NEW k \in StmType, NEW r \in BOOLEAN, NEW w \in BOOLEAN
    PROVE  LET j == Wishes(k, r, w)
           IN  SameBut(j, k) /\ j.wr = r /\ j.ww = w /\ (j.stale <=> k.stale /\ (r \/ w))
<1>1. PICK b \in BOOLEAN : b = (k.stale /\ (r \/ w))
  OBVIOUS
<1>2. PICK l \in StmType : l = [k EXCEPT !.wr = r] /\ SameBut(l, k) /\ l.wr = r /\ l.stale = k.stale
  <2>1. LET j == [k EXCEPT !.wr = r] IN SameBut(j, k) /\ j.wr = r /\ j.stale = k.stale
    BY StmWr
  <2> QED BY <2>1 DEF SameBut
<1>3. PICK m \in StmType : m = [l EXCEPT !.ww = w] /\ SameBut(m, k) /\ m.wr = r /\ m.ww = w /\ m.stale = k.stale
  <2>1. LET j == [l EXCEPT !.ww = w] IN SameBut(j, l) /\ j.wr = l.wr /\ j.ww = w /\ j.stale = l.stale
    BY StmWw
  <2> QED BY <1>2, <2>1 DEF SameBut
<1>4. PICK n \in StmType : n = [m EXCEPT !.stale = b] /\ SameBut(n, k) /\ n.wr = r /\ n.ww = w /\ n.stale = b
  <2>1. LET j == [m EXCEPT !.stale = b] IN SameBut(j, m) /\ j.wr = m.wr /\ j.ww = m.ww /\ j.stale = b
    BY StmStale
  <2> QED BY <1>3, <2>1 DEF SameBut
<1>5. n = Wishes(k, r, w)
  BY <1>1, <1>2, <1>3, <1>4 DEF Wishes
<1> QED BY <1>1, <1>4, <1>5

LEMMA OnReadStep ==
    ASSUME QInv, NEW s \in Stms, NEW n \in 0 .. MaxData, OnRead(s, n) PROVE QInv'
<1>1. stm[s] \in StmType /\ StmOK(stm[s], ele[s], cancelled) /\ cancelled \in BOOLEAN /\ stm[s].wr /\ Post(s, n)
  BY StmMember DEF OnRead
<1>2. PICK f \in [Copies -> EleType] :
              /\ ele' = [ele EXCEPT ![s] = f] /\ OpsOK(f, ele[s])
              /\ f["a"].op.kind = ele[s]["a"].op.kind
              /\ n = 0 => f["a"].op = ele[s]["a"].op
  BY <1>1, PostIs
<1>3. PICK b \in BOOLEAN, c \in BOOLEAN :
        stm' = [stm EXCEPT ![s] = Wishes(stm[s], b, c)] /\ (b => n = 0) /\ c = stm[s].ww
  <2>1. CASE Has(s, {None})
    BY <1>1, <2>1 DEF OnRead, StmType
  <2>2. CASE ~Has(s, {None})
    BY <1>1, <2>2 DEF OnRead, StmType
  <2> QED BY <2>1, <2>2
<1>4. PICK j \in StmType : /\ j = Wishes(stm[s], b, c) /\ SameBut(j, stm[s]) /\ j.wr = b /\ j.ww = c
                           /\ (j.stale <=> stm[s].stale /\ (b \/ c))
  <2>1. LET j == Wishes(stm[s], b, c)
        IN  SameBut(j, stm[s]) /\ j.wr = b /\ j.ww = c /\ (j.stale <=> stm[s].stale /\ (b \/ c))
    BY <1>1, WishesIs
  <2> QED BY <2>1 DEF SameBut
<1>5. stm' = [stm EXCEPT ![s] = j] /\ UNCHANGED <<lsn, conn, cancelled>>
  BY <1>3, <1>4 DEF OnRead
<1>6. WishesOf(j, f)
  <2>1. SUFFICES ASSUME j.quic, ~j.stale, ~j.dup
        PROVE  /\ j.wr => f["a"].op.kind = "recv" /\ ~f["a"].op.ended
               /\ ~j.ww
    BY DEF WishesOf
  <2>2. CASE stm[s].stale
    BY <1>4, <2>1, <2>2
  <2>3. CASE ~stm[s].stale
    <3>1. stm[s].quic /\ ~stm[s].dup
      BY <1>4, <2>1 DEF SameBut
    <3>2. ele[s]["a"].op.kind = "recv" /\ ~ele[s]["a"].op.ended /\ ~stm[s].ww
      BY <1>1, <2>3, <3>1 DEF StmOK, WishesOf
    <3> QED BY <1>2, <1>3, <1>4, <3>2
  <2> QED BY <2>2, <2>3
<1>7. cancelled' \in BOOLEAN /\ (cancelled => cancelled') /\ UNCHANGED <<lsn, conn>>
  BY <1>1, <1>5
<1> QED BY <1>2, <1>4, <1>5, <1>6, <1>7, StmOps

LEMMA OnWriteStep ==
    ASSUME QInv, NEW s \in Stms, NEW n \in 0 .. MaxData, OnWrite(s, n) PROVE QInv'
<1>1. stm[s] \in StmType /\ StmOK(stm[s], ele[s], cancelled) /\ cancelled \in BOOLEAN /\ stm[s].ww /\ Post(s, n)
  BY StmMember DEF OnWrite
<1>2. PICK f \in [Copies -> EleType] :
              /\ ele' = [ele EXCEPT ![s] = f] /\ OpsOK(f, ele[s])
              /\ f["a"].op.kind = ele[s]["a"].op.kind
              /\ n = 0 => f["a"].op = ele[s]["a"].op
  BY <1>1, PostIs
<1>3. PICK b \in BOOLEAN, c \in BOOLEAN :
        stm' = [stm EXCEPT ![s] = Wishes(stm[s], c, b)] /\ (b => n = 0) /\ c = stm[s].wr
  <2>1. CASE Has(s, {None})
    BY <1>1, <2>1 DEF OnWrite, StmType
  <2>2. CASE ~Has(s, {None})
    BY <1>1, <2>2 DEF OnWrite, StmType
  <2> QED BY <2>1, <2>2
<1>4. PICK j \in StmType : /\ j = Wishes(stm[s], c, b) /\ SameBut(j, stm[s]) /\ j.ww = b /\ j.wr = c
                           /\ (j.stale <=> stm[s].stale /\ (b \/ c))
  <2>1. LET j == Wishes(stm[s], c, b)
        IN  SameBut(j, stm[s]) /\ j.ww = b /\ j.wr = c /\ (j.stale <=> stm[s].stale /\ (b \/ c))
    BY <1>1, WishesIs
  <2> QED BY <2>1 DEF SameBut
<1>5. stm' = [stm EXCEPT ![s] = j] /\ UNCHANGED <<lsn, conn, cancelled>>
  BY <1>3, <1>4 DEF OnWrite
<1>6. WishesOf(j, f)
  <2>1. SUFFICES ASSUME j.quic, ~j.stale, ~j.dup
        PROVE  /\ j.ww => f["a"].op.kind = "send" /\ ~f["a"].op.ended
               /\ ~j.wr
    BY DEF WishesOf
  <2>2. CASE stm[s].stale
    BY <1>4, <2>1, <2>2
  <2>3. CASE ~stm[s].stale
    <3>1. stm[s].quic /\ ~stm[s].dup
      BY <1>4, <2>1 DEF SameBut
    <3>2. ele[s]["a"].op.kind = "send" /\ ~ele[s]["a"].op.ended /\ ~stm[s].wr
      BY <1>1, <2>3, <3>1 DEF StmOK, WishesOf
    <3> QED BY <1>2, <1>3, <1>4, <3>2
  <2> QED BY <2>2, <2>3
<1>7. cancelled' \in BOOLEAN /\ (cancelled => cancelled') /\ UNCHANGED <<lsn, conn>>
  BY <1>1, <1>5
<1> QED BY <1>2, <1>4, <1>5, <1>6, <1>7, StmOps

(* A callback that is given a freed element at most withdraws a wish.       *)
LEMMA OnFreedStep == ASSUME QInv, NEW s \in Stms, OnFreed(s) PROVE QInv'
<1>1. /\ stm[s] \in StmType /\ StmOK(stm[s], ele[s], cancelled) /\ cancelled \in BOOLEAN
      /\ ele[s] \in [Copies -> EleType]
  BY StmMember
<1>2. PICK a \in BOOLEAN, b \in BOOLEAN : a = stm[s].wr /\ b = stm[s].ww
  BY <1>1 DEF StmType
<1>3. PICK r \in BOOLEAN, w \in BOOLEAN :
        /\ stm' = [stm EXCEPT ![s] = [Wishes(stm[s], r, w) EXCEPT !.used = TRUE]]
        /\ (r => a) /\ (w => b)
  <2>1. PICK v \in BOOLEAN :
          \/ a /\ stm' = [stm EXCEPT ![s] = [Wishes(stm[s], v, b) EXCEPT !.used = TRUE]]
          \/ b /\ stm' = [stm EXCEPT ![s] = [Wishes(stm[s], a, v) EXCEPT !.used = TRUE]]
    BY <1>2 DEF OnFreed
  <2> QED BY <2>1
<1>4. PICK i \in StmType : /\ i = Wishes(stm[s], r, w) /\ SameBut(i, stm[s]) /\ i.wr = r /\ i.ww = w
                           /\ (i.stale <=> stm[s].stale /\ (r \/ w))
  <2>1. LET j == Wishes(stm[s], r, w)
        IN  SameBut(j, stm[s]) /\ j.wr = r /\ j.ww = w /\ (j.stale <=> stm[s].stale /\ (r \/ w))
    BY <1>1, WishesIs
  <2> QED BY <2>1 DEF SameBut
<1>5. PICK j \in StmType : /\ j = [i EXCEPT !.used = TRUE] /\ SameBut(j, stm[s]) /\ j.wr = r /\ j.ww = w
                           /\ (j.stale <=> stm[s].stale /\ (r \/ w))
  <2>1. LET j == [i EXCEPT !.used = TRUE] IN SameBut(j, i) /\ j.wr = i.wr /\ j.ww = i.ww /\ j.stale = i.stale
    BY StmUsed
  <2> QED BY <1>4, <2>1 DEF SameBut
<1>6. stm' = [stm EXCEPT ![s] = j]
  BY <1>3, <1>4, <1>5
<1>7. ele' = [ele EXCEPT ![s] = ele[s]] /\ UNCHANGED <<lsn, conn, cancelled>>
  BY DEF OnFreed, QInv, Types
<1>8. OpsOK(ele[s], ele[s])
  BY <1>1 DEF StmOK, OpsOK
<1>9. WishesOf(j, ele[s])
  <2>1. SUFFICES ASSUME j.quic, ~j.stale, ~j.dup, r \/ w PROVE WishesOf(j, ele[s])
    BY <1>5 DEF WishesOf
  <2>2. ~stm[s].stale /\ ~stm[s].dup /\ stm[s].quic
    BY <1>5, <2>1 DEF SameBut
  <2> QED BY <1>1, <1>2, <1>3, <1>5, <2>2 DEF StmOK, WishesOf
<1>10. PICK f \in [Copies -> EleType] : f = ele[s]
  BY <1>1
<1>11. OpsOK(f, ele[s]) /\ WishesOf(j, f) /\ ele' = [ele EXCEPT ![s] = f] /\ cancelled' \in BOOLEAN /\ (cancelled => cancelled')
  BY <1>1, <1>7, <1>8, <1>9, <1>10
<1> QED BY <1>5, <1>6, <1>7, <1>11, StmOps

(* The user takes back a stream's operation, or sees its result.           *)
LEMMA StmCancel ==
    ASSUME QInv, NEW s \in Stms, NEW x \in Copies, Waiting(ele[s][x].op),
           ele' = [ele EXCEPT ![s][x].op = End(@, TIME)], stm' = [stm EXCEPT ![s].stale = TRUE],
           cancelled' = TRUE, UNCHANGED <<lsn, conn>>
    PROVE  QInv'
<1>1. stm[s] \in StmType /\ StmOK(stm[s], ele[s], cancelled) /\ ele[s][x] \in EleType
  BY StmMember
<1>2. PICK o \in OpType : o = End(ele[s][x].op, TIME) /\ o.kind = ele[s][x].op.kind /\ o.kind # None
  <2>1. TIME \in Int /\ ele[s][x].op \in OpType
    BY <1>1, Numbers DEF EleType
  <2> QED BY <2>1, EndFields DEF Waiting
<1>3. PICK f \in [Copies -> EleType] : WithOp(s, x, o) = [ele EXCEPT ![s] = f] /\ OpsOK(f, ele[s])
  <2>1. (o.ended => o.kind # None) /\ (~ele[s][x].live => o.kind = None)
    BY <1>1, <1>2 DEF StmOK
  <2> QED BY <2>1, OneOp
<1>4. PICK j \in StmType : j = [stm[s] EXCEPT !.stale = TRUE] /\ SameBut(j, stm[s]) /\ j.stale = TRUE
  <2>1. LET j == [stm[s] EXCEPT !.stale = TRUE] IN SameBut(j, stm[s]) /\ j.stale = TRUE
    BY <1>1, StmStale
  <2> QED BY <2>1 DEF SameBut
<1>5. stm' = [stm EXCEPT ![s] = j] /\ ele' = [ele EXCEPT ![s] = f]
  BY <1>2, <1>3, <1>4 DEF WithOp
<1>6. WishesOf(j, f)
  BY <1>4 DEF WishesOf
<1>7. cancelled' \in BOOLEAN /\ (cancelled => cancelled') /\ UNCHANGED <<lsn, conn>>
  OBVIOUS
<1> QED BY <1>3, <1>4, <1>5, <1>6, <1>7, StmOps

LEMMA StmPop ==
    ASSUME QInv, NEW s \in Stms, NEW x \in Copies, ele[s][x].op.ended,
           ele' = [ele EXCEPT ![s][x].op = Idle], UNCHANGED <<lsn, conn, stm, cancelled>>
    PROVE  QInv'
<1>1. stm[s] \in StmType /\ StmOK(stm[s], ele[s], cancelled) /\ ele[s][x] \in EleType /\ cancelled \in BOOLEAN
  BY StmMember
<1>2. PICK o \in OpType : o = Idle /\ o.kind = None /\ o.ended = FALSE
  BY IdleIs
<1>3. PICK f \in [Copies -> EleType] :
              /\ WithOp(s, x, o) = [ele EXCEPT ![s] = f] /\ OpsOK(f, ele[s])
              /\ f[x].op = o /\ \A y \in Copies : y # x => f[y] = ele[s][y]
  <2>1. (o.ended => o.kind # None) /\ (~ele[s][x].live => o.kind = None)
    BY <1>2
  <2> QED BY <2>1, OneOp
<1>4. stm' = [stm EXCEPT ![s] = stm[s]] /\ ele' = [ele EXCEPT ![s] = f]
  BY <1>2, <1>3 DEF WithOp, QInv, Types
<1>5. SameBut(stm[s], stm[s])
  BY <1>1 DEF SameBut
<1>6. WishesOf(stm[s], f)
  <2>1. SUFFICES ASSUME stm[s].quic, ~stm[s].stale, ~stm[s].dup
        PROVE  /\ stm[s].wr => f["a"].op.kind = "recv" /\ ~f["a"].op.ended
               /\ stm[s].ww => f["a"].op.kind = "send" /\ ~f["a"].op.ended
    BY DEF WishesOf
  <2>2. CASE x = "a"
    BY <1>1, <2>1, <2>2 DEF StmOK, WishesOf
  <2>3. CASE x # "a"
    <3>1. f["a"] = ele[s]["a"]
      BY <1>3, <2>3 DEF Copies
    <3> QED BY <1>1, <2>1, <3>1 DEF StmOK, WishesOf
  <2> QED BY <2>2, <2>3
<1>7. cancelled' \in BOOLEAN /\ (cancelled => cancelled') /\ UNCHANGED <<lsn, conn>>
  BY <1>1
<1>8. PICK j \in StmType : j = stm[s]
  BY <1>1
<1> QED BY <1>3, <1>4, <1>5, <1>6, <1>7, <1>8, StmOps

-----------------------------------------------------------------------------
(* Copies of streams.                                                      *)

LEMMA EleFlags ==
    ASSUME NEW e \in EleType, NEW b \in BOOLEAN
    PROVE  LET f == [e EXCEPT !.stream = b] IN f \in EleType /\ f.op = e.op /\ f.live = e.live /\ f.peer = e.peer
BY DEF EleType

LEMMA CopyIs ==
    ASSUME NEW b \in BOOLEAN
    PROVE  LET n == [NoEle EXCEPT !.live = TRUE, !.peer = TRUE, !.stream = b]
           IN  n \in EleType /\ n.live = TRUE /\ n.peer = TRUE /\ n.op = Idle
<1>1. PICK n \in EleType : n = NoEle /\ n.op = Idle
  BY Blanks DEF NoEle
<1>2. LET j == [n EXCEPT !.live = TRUE] IN j \in EleType /\ j.live = TRUE /\ j.op = n.op
  BY DEF EleType
<1>3. PICK m \in EleType : m = [n EXCEPT !.live = TRUE] /\ m.live = TRUE /\ m.op = Idle
  BY <1>1, <1>2
<1>4. LET j == [m EXCEPT !.peer = TRUE] IN j \in EleType /\ j.live = m.live /\ j.peer = TRUE /\ j.op = m.op
  BY DEF EleType
<1>5. PICK l \in EleType : l = [m EXCEPT !.peer = TRUE] /\ l.live = TRUE /\ l.peer = TRUE /\ l.op = Idle
  BY <1>3, <1>4
<1>6. LET j == [l EXCEPT !.stream = b] IN j \in EleType /\ j.op = l.op /\ j.live = l.live /\ j.peer = l.peer
  BY EleFlags
<1> QED BY <1>1, <1>3, <1>5, <1>6

LEMMA DupStep == ASSUME QInv, NEW s \in Stms, Dup(s) PROVE QInv'
<1>0. "a" \in Copies /\ "b" \in Copies /\ "a" # "b"
  BY DEF Copies
<1>1. /\ stm[s] \in StmType /\ StmOK(stm[s], ele[s], cancelled) /\ ele[s]["a"] \in EleType
      /\ ele[s] \in [Copies -> EleType] /\ cancelled \in BOOLEAN /\ ele[s]["a"].stream \in BOOLEAN
  BY StmMember DEF EleType
<1>2. stm[s].place = "user" /\ ele[s]["a"].live /\ ele[s]["a"].op.kind = None
  BY DEF Dup, Usable
<1>3. PICK a \in EleType : a = [ele[s]["a"] EXCEPT !.peer = TRUE] /\ a.op = ele[s]["a"].op /\ a.live /\ a.peer
  <2>1. LET f == [ele[s]["a"] EXCEPT !.peer = TRUE]
        IN  f \in EleType /\ f.op = ele[s]["a"].op /\ f.live = ele[s]["a"].live /\ f.peer = TRUE
    BY <1>1 DEF EleType
  <2> QED BY <1>2, <2>1
<1>4. PICK b \in EleType : /\ b = [NoEle EXCEPT !.live = TRUE, !.peer = TRUE, !.stream = ele[s]["a"].stream]
                           /\ b.live = TRUE /\ b.peer = TRUE /\ b.op = Idle
  BY <1>1, CopyIs
<1>5. PICK g \in [Copies -> EleType] : g = [ele[s] EXCEPT !["a"] = a] /\ g["a"] = a
  <2>1. LET g == [ele[s] EXCEPT !["a"] = a] IN g \in [Copies -> EleType] /\ g["a"] = a
    BY <1>0, <1>1
  <2> QED BY <2>1
<1>6. PICK f \in [Copies -> EleType] : f = [g EXCEPT !["b"] = b] /\ f["a"] = a /\ f["b"] = b
  <2>1. LET f == [g EXCEPT !["b"] = b] IN f \in [Copies -> EleType] /\ f["a"] = a /\ f["b"] = b
    BY <1>0, <1>5
  <2> QED BY <2>1
<1>7. ele' = [ele EXCEPT ![s] = f]
  <2>1. PICK h \in [Stms -> [Copies -> EleType]] : h = [ele EXCEPT ![s] = g] /\ h[s] = g
    <3>1. LET h == [ele EXCEPT ![s] = g] IN h \in [Stms -> [Copies -> EleType]] /\ h[s] = g
      BY DEF QInv, Types
    <3> QED BY <3>1
  <2>2. ele' = [h EXCEPT ![s]["b"] = b]
    BY <1>3, <1>4, <1>5, <2>1 DEF Dup
  <2>3. [h EXCEPT ![s]["b"] = b] = [h EXCEPT ![s] = f]
    BY <1>6, <2>1
  <2>4. [h EXCEPT ![s] = f] = [ele EXCEPT ![s] = f]
    BY <2>1 DEF QInv, Types
  <2> QED BY <2>2, <2>3, <2>4
<1>8. PICK j \in StmType : /\ j = [stm[s] EXCEPT !.dup = TRUE] /\ j.conn = stm[s].conn /\ j.place = stm[s].place /\ j.dup = TRUE
  <2>1. LET j == [stm[s] EXCEPT !.dup = TRUE]
        IN  j \in StmType /\ j.conn = stm[s].conn /\ j.place = stm[s].place /\ j.dup = TRUE
    BY <1>1 DEF StmType
  <2> QED BY <2>1
<1>9. stm' = [stm EXCEPT ![s] = j] /\ UNCHANGED <<lsn, conn, cancelled>>
  BY <1>8 DEF Dup
<1>10. StmOK(j, f, cancelled)
  <2>1. ASSUME NEW x \in Copies
        PROVE  /\ f[x].op.ended => f[x].op.kind # None
               /\ ~f[x].live => f[x].op.kind = None
               /\ f[x].peer <=> f["a"].live /\ f["b"].live
    <3>1. CASE x = "a"
      <4>1. f[x].op = ele[s]["a"].op /\ f[x].peer /\ f["a"].live /\ f["b"].live
        BY <1>3, <1>4, <1>6, <3>1
      <4>2. ele[s]["a"].op.ended => ele[s]["a"].op.kind # None
        BY <1>0, <1>1 DEF StmOK
      <4> QED BY <3>1, <4>1, <4>2
    <3>2. CASE x = "b"
      BY <1>3, <1>4, <1>6, <3>2, IdleIs
    <3> QED BY <3>1, <3>2 DEF Copies
  <2>2. None # "user"
    BY DEF None
  <2> QED BY <1>1, <1>2, <1>8, <2>1, <2>2 DEF StmOK, WishesOf
<1>11. cancelled' \in BOOLEAN /\ (cancelled => cancelled') /\ StmOK(j, f, cancelled') /\ UNCHANGED <<lsn, conn>>
  BY <1>1, <1>9, <1>10
<1> QED BY <1>7, <1>8, <1>9, <1>11, StmMoves

LEMMA DelStmStep == ASSUME QInv, NEW s \in Stms, NEW x \in Copies, DelStm(s, x) PROVE QInv'
<1>0. PICK y \in Copies : y = (IF x = "a" THEN "b" ELSE "a") /\ x # y /\ {x, y} = Copies
  BY DEF Copies
<1>1. /\ stm[s] \in StmType /\ StmOK(stm[s], ele[s], cancelled) /\ ele[s][x] \in EleType /\ ele[s][y] \in EleType
      /\ ele[s] \in [Copies -> EleType] /\ cancelled \in BOOLEAN
  BY StmMember
<1>2. stm[s].place = "user" /\ ele[s][x].live /\ ele[s][x].op.kind = None /\ UNCHANGED <<lsn, conn, cancelled>>
  BY DEF DelStm, Usable
<1>3. PICK n \in EleType : n = NoEle /\ n.live = FALSE /\ n.peer = FALSE /\ n.op = Idle
  BY Blanks DEF NoEle
<1>4. PICK g \in [Copies -> EleType] : g = [ele[s] EXCEPT ![x] = n] /\ g[x] = n /\ g[y] = ele[s][y]
  <2>1. LET g == [ele[s] EXCEPT ![x] = n] IN g \in [Copies -> EleType] /\ g[x] = n /\ g[y] = ele[s][y]
    BY <1>0, <1>1
  <2> QED BY <2>1
<1>5. PICK h \in [Stms -> [Copies -> EleType]] : h = [ele EXCEPT ![s] = g] /\ h[s] = g
  <2>1. LET h == [ele EXCEPT ![s] = g] IN h \in [Stms -> [Copies -> EleType]] /\ h[s] = g
    BY DEF QInv, Types
  <2> QED BY <2>1
<1>6. {x, y} = {"a", "b"} /\ None # "user" /\ None # "ready" /\ None # "astray"
  BY <1>0 DEF Copies, None
<1>7. CASE ele[s][x].peer
  <2>1. ele' = [ele EXCEPT ![s][x] = NoEle, ![s][y].owner = TRUE, ![s][y].peer = FALSE] /\ UNCHANGED stm
    BY <1>0, <1>7 DEF DelStm
  <2>2. PICK p \in EleType : p = [ele[s][y] EXCEPT !.owner = TRUE] /\ p.op = ele[s][y].op /\ p.live = ele[s][y].live
    <3>1. LET p == [ele[s][y] EXCEPT !.owner = TRUE] IN p \in EleType /\ p.op = ele[s][y].op /\ p.live = ele[s][y].live
      BY <1>1 DEF EleType
    <3> QED BY <3>1
  <2>3. PICK q \in EleType : q = [p EXCEPT !.peer = FALSE] /\ q.op = ele[s][y].op /\ q.live = ele[s][y].live /\ q.peer = FALSE
    <3>1. LET q == [p EXCEPT !.peer = FALSE] IN q \in EleType /\ q.op = p.op /\ q.live = p.live /\ q.peer = FALSE
      BY DEF EleType
    <3> QED BY <2>2, <3>1
  <2>4. PICK i \in [Copies -> EleType] : i = [g EXCEPT ![y] = p] /\ i[y] = p
    <3>1. LET i == [g EXCEPT ![y] = p] IN i \in [Copies -> EleType] /\ i[y] = p
      OBVIOUS
    <3> QED BY <3>1
  <2>5. PICK f \in [Copies -> EleType] : f = [i EXCEPT ![y] = q] /\ f[y] = q /\ f[x] = n
    <3>1. LET f == [i EXCEPT ![y] = q] IN f \in [Copies -> EleType] /\ f[y] = q /\ f[x] = n
      BY <1>0, <1>4, <2>4
    <3> QED BY <3>1
  <2>6. ele' = [ele EXCEPT ![s] = f]
    <3>1. ele' = [h EXCEPT ![s][y].owner = TRUE, ![s][y].peer = FALSE]
      BY <1>3, <1>4, <1>5, <2>1
    <3>2. PICK u \in [Stms -> [Copies -> EleType]] : u = [h EXCEPT ![s] = i] /\ u[s] = i
      <4>1. LET u == [h EXCEPT ![s] = i] IN u \in [Stms -> [Copies -> EleType]] /\ u[s] = i
        OBVIOUS
      <4> QED BY <4>1
    <3>3. [h EXCEPT ![s][y].owner = TRUE] = u
      BY <1>4, <1>5, <2>2, <2>4, <3>2
    <3>4. ele' = [u EXCEPT ![s][y].peer = FALSE]
      BY <3>1, <3>3
    <3>5. [u EXCEPT ![s][y].peer = FALSE] = [u EXCEPT ![s] = f]
      BY <2>3, <2>4, <2>5, <3>2
    <3>6. [u EXCEPT ![s] = f] = [ele EXCEPT ![s] = f]
      BY <1>5, <3>2 DEF QInv, Types
    <3> QED BY <3>4, <3>5, <3>6
  <2>7. StmOK(stm[s], f, cancelled)
    <3>1. stm[s].dup /\ (ele[s][y].op.ended => ele[s][y].op.kind # None) /\ ele[s][y].live
      BY <1>1, <1>6, <1>7 DEF StmOK
    <3>2. ~(f["a"].live /\ f["b"].live)
      <4>1. x = "a" \/ x = "b"
        BY DEF Copies
      <4> QED BY <1>3, <2>5, <4>1
    <3>3. \A w \in Copies : /\ f[w].op.ended => f[w].op.kind # None
                            /\ ~f[w].live => f[w].op.kind = None
                            /\ ~f[w].peer
      BY <1>0, <1>3, <2>3, <2>5, <3>1, IdleIs
    <3> QED BY <1>1, <1>2, <1>6, <3>1, <3>2, <3>3 DEF StmOK, WishesOf
  <2>8. stm' = [stm EXCEPT ![s] = stm[s]]
    BY <2>1 DEF QInv, Types
  <2>9. cancelled' \in BOOLEAN /\ (cancelled => cancelled') /\ StmOK(stm[s], f, cancelled') /\ UNCHANGED <<lsn, conn>>
    BY <1>1, <1>2, <2>7
  <2> QED BY <1>1, <2>6, <2>8, <2>9, StmMoves
<1>8. CASE ~ele[s][x].peer
  <2>1. ele' = [ele EXCEPT ![s][x] = NoEle] /\ stm' = [stm EXCEPT ![s] = [NoStm EXCEPT !.conn = stm[s].conn]]
    BY <1>0, <1>8 DEF DelStm
  <2>2. ele' = [ele EXCEPT ![s] = g]
    BY <1>3, <1>4, <2>1
  <2>3. PICK c \in 0 .. MaxConn : c = stm[s].conn
    BY <1>1 DEF StmType
  <2>4. PICK j \in StmType : /\ stm' = [stm EXCEPT ![s] = j] /\ j.conn = stm[s].conn /\ j.place = None
                             /\ StmOK(j, [w \in Copies |-> NoEle], cancelled)
    BY <1>1, <2>1, <2>3, DroppedStm
  <2>5. ~g["a"].live /\ ~g["b"].live /\ ~g["a"].peer /\ ~g["b"].peer
    BY <1>0, <1>1, <1>2, <1>3, <1>4, <1>6, <1>8 DEF StmOK
  <2>6. StmOK(j, g, cancelled)
    <3>1. \A w \in Copies : g[w].op.kind = None /\ (g[w].op.ended => g[w].op.kind # None) /\ ~g[w].live /\ ~g[w].peer
      <4>1. g[x].op.kind = None /\ (g[x].op.ended => g[x].op.kind # None)
        BY <1>3, <1>4, IdleIs
      <4>2. g[y].op.kind = None /\ (g[y].op.ended => g[y].op.kind # None)
        BY <1>1, <1>4, <1>6, <2>5 DEF StmOK
      <4> QED BY <1>6, <2>5, <4>1, <4>2 DEF Copies
    <3>2. PICK e : e = [w \in Copies |-> NoEle]
      OBVIOUS
    <3>3. \A w \in Copies : e[w].op.kind = None /\ ~e[w].live
      BY <3>2, IdleIs DEF NoEle
    <3>4. "recv" # None /\ "send" # None /\ "a" \in Copies
      BY DEF None, Copies
    <3> QED BY <1>6, <2>4, <2>5, <3>1, <3>2, <3>3, <3>4 DEF StmOK, WishesOf
  <2>7. /\ cancelled' \in BOOLEAN /\ (cancelled => cancelled') /\ StmOK(j, g, cancelled') /\ UNCHANGED <<lsn, conn>>
        /\ (j.place = "ready" <=> stm[s].place = "ready")
    BY <1>1, <1>2, <1>6, <2>4, <2>6
  <2> QED BY <2>2, <2>4, <2>7, StmMoves
<1> QED BY <1>7, <1>8

-----------------------------------------------------------------------------
(* The listener's operation, and steps that touch none of this.            *)

LEMMA LsnCancel ==
    ASSUME QInv, Waiting(lsn.op), lsn' = [lsn EXCEPT !.op = End(@, TIME)], cancelled' = TRUE,
           UNCHANGED <<conn, stm, ele>>
    PROVE  QInv'
<1>1. /\ lsn \in LsnType /\ LsnOK /\ HandOK(lsn.op, lsn.out, cancelled) /\ cancelled \in BOOLEAN
      /\ lsn.op \in OpType /\ lsn.out \in Outs /\ TIME \in Int
  BY LsnMember, Numbers
<1>2. PICK o \in OpType : o = End(lsn.op, TIME) /\ HandOK(o, lsn.out, TRUE) /\ ~Waiting(o)
  <2>1. End(lsn.op, TIME) \in OpType
    BY <1>1, EndFields
  <2>2. HandOK(End(lsn.op, TIME), lsn.out, TRUE) /\ ~Waiting(End(lsn.op, TIME))
    BY <1>1, HandEnd
  <2> QED BY <2>1, <2>2
<1>3. PICK k \in LsnType : k = [lsn EXCEPT !.op = o] /\ k.op = o /\ k.out = lsn.out /\ k.ready = lsn.ready /\ k.open = lsn.open
  BY <1>1, LsnOp
<1>4. lsn' = k
  BY <1>2, <1>3
<1>5. LsnOK'
  BY <1>1, <1>2, <1>3, <1>4 DEF LsnOK
<1>6. lsn' \in LsnType /\ lsn'.ready = lsn.ready /\ cancelled' \in BOOLEAN /\ (cancelled => cancelled')
  BY <1>3, <1>4
<1> QED BY <1>5, <1>6, LsnMoves

LEMMA LsnPop ==
    ASSUME QInv, lsn.op.ended, lsn' = [lsn EXCEPT !.op = Idle, !.out = Old(@)],
           UNCHANGED <<conn, stm, ele, cancelled>>
    PROVE  QInv'
<1>1. /\ lsn \in LsnType /\ LsnOK /\ HandOK(lsn.op, lsn.out, cancelled) /\ cancelled \in BOOLEAN
      /\ lsn.op \in OpType /\ lsn.out \in Outs
  BY LsnMember
<1>2. PICK u \in Outs : u = Old(lsn.out) /\ HandOK(Idle, u, cancelled)
  BY <1>1, HandPop
<1>3. PICK i \in LsnType : i = [lsn EXCEPT !.op = Idle] /\ i.op = Idle /\ i.out = lsn.out /\ i.ready = lsn.ready /\ i.open = lsn.open
  BY <1>1, IdleIs, LsnOp
<1>4. PICK k \in LsnType : k = [i EXCEPT !.out = u] /\ k.op = Idle /\ k.out = u /\ k.ready = lsn.ready /\ k.open = lsn.open
  <2>1. LET j == [i EXCEPT !.out = u]
        IN  j \in LsnType /\ j.op = i.op /\ j.open = i.open /\ j.out = u /\ j.ready = i.ready
    BY LsnOut
  <2> QED BY <1>3, <2>1
<1>5. lsn' = k
  BY <1>2, <1>3, <1>4
<1>6. LsnOK'
  BY <1>1, <1>2, <1>4, <1>5, IdleIs DEF LsnOK, Waiting
<1>7. lsn' \in LsnType /\ lsn'.ready = lsn.ready /\ cancelled' \in BOOLEAN /\ (cancelled => cancelled')
  BY <1>1, <1>4, <1>5
<1> QED BY <1>6, <1>7, LsnMoves

LEMMA CancelStep == ASSUME QInv, Cancel PROVE QInv'
<1>1. cancelled' = TRUE
  BY DEF Cancel
<1>2. CASE Waiting(lsn.op) /\ lsn' = [lsn EXCEPT !.op = End(@, TIME)] /\ UNCHANGED <<cli, conn, stm, ele>>
  BY <1>1, <1>2, LsnCancel
<1>3. CASE UNCHANGED <<lsn, conn, stm, ele>>
  <2>1. lsn' \in LsnType /\ lsn'.ready = lsn.ready /\ cancelled' \in BOOLEAN /\ (cancelled => cancelled') /\ LsnOK'
    BY <1>1, <1>3, LsnMember, LsnStays
  <2> QED BY <1>3, <2>1, LsnMoves
<1>4. ASSUME NEW c \in Conns, Waiting(conn[c].op), conn' = [conn EXCEPT ![c].op = End(@, TIME)],
             UNCHANGED <<lsn, cli, stm, ele>>
      PROVE  QInv'
  BY <1>1, <1>4, ConnCancel
<1>5. ASSUME NEW s \in Stms, NEW x \in Copies, Waiting(ele[s][x].op),
             ele' = [ele EXCEPT ![s][x].op = End(@, TIME)], stm' = [stm EXCEPT ![s].stale = TRUE],
             UNCHANGED <<lsn, cli, conn>>
      PROVE  QInv'
  BY <1>1, <1>5, StmCancel
<1> QED BY <1>2, <1>3, <1>4, <1>5 DEF Cancel

LEMMA PopStep == ASSUME QInv, Pop PROVE QInv'
<1>1. UNCHANGED <<stm, cancelled>>
  BY DEF Pop
<1>2. CASE lsn.op.ended /\ lsn' = [lsn EXCEPT !.op = Idle, !.out = Old(@)] /\ UNCHANGED <<cli, conn, ele>>
  BY <1>1, <1>2, LsnPop
<1>3. CASE UNCHANGED <<lsn, conn, ele>>
  BY <1>1, <1>3, NothingChanges
<1>4. ASSUME NEW c \in Conns, conn[c].op.ended, conn' = [conn EXCEPT ![c].op = Idle, ![c].out = Old(@)],
             UNCHANGED <<lsn, cli, ele>>
      PROVE  QInv'
  BY <1>1, <1>4, ConnPop
<1>5. ASSUME NEW s \in Stms, NEW x \in Copies, ele[s][x].op.ended,
             ele' = [ele EXCEPT ![s][x].op = Idle], UNCHANGED <<lsn, cli, conn>>
      PROVE  QInv'
  BY <1>1, <1>5, StmPop
<1> QED BY <1>2, <1>3, <1>4, <1>5 DEF Pop

LEMMA FrameSteps ==
    ASSUME QInv, AddEngine \/ OpenClient \/ CloseClient \/ Tick \/ TickEnd \/ HdrDel
                 \/ (\E n \in Names, v \in Vals \cup {None} : HdrSet(n, v))
                 \/ (\E n \in Names, v \in Vals : HdrDecode(n, v))
    PROVE  QInv'
<1>1. UNCHANGED <<lsn, conn, stm, ele, cancelled>>
  BY DEF AddEngine, OpenClient, CloseClient, Tick, TickEnd, HdrDel, HdrSet, HdrDecode
<1> QED BY <1>1, NothingChanges

LEMMA InitHolds == Init => QInv
<1>1. SUFFICES ASSUME Init PROVE QInv
  OBVIOUS
<1>2. /\ lsn = NoLsn /\ conn = [c \in Conns |-> NoConn] /\ stm = [s \in Stms |-> NoStm]
      /\ ele = [s \in Stms |-> [x \in Copies |-> NoEle]] /\ cancelled = FALSE
  BY <1>1 DEF Init
<1>3. None # "ready" /\ None # "user" /\ None # "astray" /\ None # "cur" /\ None # "old" /\ None # "stream"
  BY DEF None
<1>4. Types
  BY <1>2, Blanks DEF Types
<1>5. lsn.op = Idle /\ lsn.out = None /\ lsn.ready = <<>>
  BY <1>2 DEF NoLsn
<1>6. \A c \in Conns : /\ conn[c].op = Idle /\ conn[c].out = None /\ conn[c].ready = <<>> /\ conn[c].place = None
                       /\ conn[c].live = FALSE /\ conn[c].made = FALSE
  BY <1>2 DEF NoConn
<1>7. HandOK(Idle, None, cancelled)
  BY <1>3, IdleIs DEF HandOK, Waiting
<1>8. LsnOK
  BY <1>5, <1>7 DEF LsnOK
<1>9. \A c \in Conns : ConnOK(conn[c], cancelled)
  BY <1>3, <1>6, <1>7, IdleIs DEF ConnOK
<1>10. \A s \in Stms : stm[s].conn = 0 /\ stm[s].place = None
  BY <1>2 DEF NoStm
<1>11. Queued /\ Listed /\ InOrder
  BY <1>3, <1>5, <1>6, <1>10, EmptyHas DEF Queued, Listed, InOrder
<1>12. ASSUME NEW s \in Stms PROVE StmOK(stm[s], ele[s], cancelled)
  <2>1. PICK n \in 0 .. MaxConn : n = 0
    BY QicAssumption
  <2>2. LET j == [NoStm EXCEPT !.conn = n]
        IN  j \in StmType /\ j.conn = n /\ j.place = None /\ StmOK(j, [x \in Copies |-> NoEle], cancelled)
    BY <1>2, DroppedStm
  <2>3. [NoStm EXCEPT !.conn = n] = NoStm
    <3>1. PICK m \in StmType : m = NoStm /\ m.conn = n
      BY <2>1, Blanks DEF NoStm
    <3>2. [m EXCEPT !.conn = n] = m
      BY <3>1 DEF StmType
    <3> QED BY <3>1, <3>2
  <2> QED BY <1>2, <2>2, <2>3
<1> QED BY <1>4, <1>8, <1>9, <1>11, <1>12 DEF QInv

LEMMA NextKeeps == QInv /\ [Next]_vars => QInv'
<1>1. SUFFICES ASSUME QInv, [Next]_vars PROVE QInv'
  OBVIOUS
<1>2. CASE UNCHANGED vars
  BY <1>1, <1>2, NothingChanges DEF vars
<1>3. CASE Callback
  BY <1>1, <1>3, OnNewConnStep, OnHskDoneStep, ConnClosesStep, StreamArrivesStep, OnReadStep, OnWriteStep,
     StreamClosesStep, OnFreedStep DEF Callback
<1>4. CASE User
  <2>1. CASE AddEngine \/ OpenClient \/ CloseClient \/ HdrDel
             \/ (\E n \in Names, v \in Vals \cup {None} : HdrSet(n, v))
             \/ (\E n \in Names, v \in Vals : HdrDecode(n, v))
    BY <1>1, <2>1, FrameSteps
  <2>2. CASE DelEngine \/ OpenListener \/ CloseListener \/ Accept
    BY <1>1, <2>2, DelEngineStep, OpenListenerStep, CloseListenerStep, AcceptStep
  <2>3. CASE \E c \in Conns : Connect(c) \/ GetStream(c) \/ DelConn(c)
    BY <1>1, <2>3, ConnectStep, GetStreamStep, DelConnStep
  <2>4. CASE \E c \in Conns, s \in Stms : NewStream(c, s)
    BY <1>1, <2>4, NewStreamStep
  <2>5. CASE \E s \in Stms : Dup(s)
    BY <1>1, <2>5, DupStep
  <2>6. CASE \E s \in Stms, x \in Copies : DelStm(s, x) \/ Send(s, x)
    BY <1>1, <2>6, DelStmStep, SendStep
  <2>7. CASE \E s \in Stms, x \in Copies, n \in 1 .. MaxData : Recv(s, x, n)
    BY <1>1, <2>7, RecvStep
  <2> QED BY <1>4, <2>1, <2>2, <2>3, <2>4, <2>5, <2>6, <2>7 DEF User
<1>5. CASE Tick \/ TickEnd
  BY <1>1, <1>5, FrameSteps
<1>6. CASE Cancel \/ Pop
  BY <1>1, <1>6, CancelStep, PopStep
<1> QED BY <1>1, <1>2, <1>3, <1>4, <1>5, <1>6 DEF Next

(* The elements of QUIC are in order in every reachable state, for any      *)
(* number of connections, streams, calls and bytes: every element is in the *)
(* place it says, a call that waits has left its variable, and a stream's   *)
(* wish to read or write is that of the operation that waits (dpqic.c).     *)
THEOREM ElementsPlaced == Spec => []QInv
<1>1. Init => QInv
  BY InitHolds
<1>2. QInv /\ [Next]_vars => QInv'
  BY NextKeeps
<1> QED BY <1>1, <1>2, PTL DEF Spec

(* Every connection and stream that lsquic reports reaches exactly one      *)
(* place, once and in order, and is only lost to a cancelled call           *)
(* (_dpqic_cb_on_new_conn, _dpqic_cb_on_new_stream and the two _prep).      *)
THEOREM ReachesOne == Spec => []HandedOnce
<1>1. QInv => HandedOnce
  <2>1. SUFFICES ASSUME QInv PROVE HandedOnce
    OBVIOUS
  <2>2. \A c \in Conns :
        /\ conn[c].place = "ready" <=> Contains(lsn.ready, c)
        /\ conn[c].place = "astray" => cancelled
        /\ conn[c].live <=> conn[c].place # None
        /\ conn[c].op.kind = "stream" /\ ~conn[c].op.ended => conn[c].ready = <<>>
    BY <2>1 DEF QInv, Queued, ConnOK
  <2>3. Waiting(lsn.op) => lsn.ready = <<>>
    BY <2>1 DEF QInv, LsnOK
  <2>4. ASSUME NEW s \in Stms
        PROVE  /\ stm[s].place = "ready" <=> stm[s].conn # 0 /\ Contains(conn[stm[s].conn].ready, s)
               /\ stm[s].place = "ready" => ele[s]["a"].live
               /\ stm[s].place = "astray" => cancelled
    <3>1. stm[s] \in StmType /\ StmOK(stm[s], ele[s], cancelled)
      BY <2>1, StmMember
    <3>2. stm[s].conn \in 0 .. MaxConn /\ MaxConn \in Nat
      BY <3>1, QicAssumption DEF StmType
    <3>3. stm[s].conn # 0 => stm[s].conn \in Conns
      BY <3>2 DEF Conns
    <3>4. stm[s].place = "ready" => stm[s].conn # 0
      BY <3>1 DEF StmOK, None
    <3>5. stm[s].conn # 0 => (Contains(conn[stm[s].conn].ready, s) <=> stm[s].place = "ready")
      BY <2>1, <3>3 DEF QInv, Listed
    <3> QED BY <3>1, <3>4, <3>5 DEF StmOK
  <2>5. \A q \in {lsn.ready} \cup {conn[c].ready : c \in Conns} : Sorted(q)
    BY <2>1 DEF QInv, InOrder
  <2> QED BY <2>2, <2>3, <2>4, <2>5 DEF HandedOnce, Sorted
<1> QED BY <1>1, ElementsPlaced, PTL

(* A call of a stream is served once: after its operation has ended no wish *)
(* is left of it that runs its post again, whatever calls, callbacks and    *)
(* closes come in which order. Excepted are a wish that a cancelled call    *)
(* has left, and a stream with a copy (_dpqic_cb_on_read,                   *)
(* _dpqic_cb_on_write).                                                     *)
THEOREM PostsOnce == Spec => []PostedOnce
<1>1. QInv => PostedOnce
  BY DEF QInv, StmOK, WishesOf, PostedOnce, WishLeft
<1> QED BY <1>1, ElementsPlaced, PTL

-----------------------------------------------------------------------------
(* Header sets.                                                            *)

Less == {p \in Nat \X Nat : p[1] < p[2]}

LEMMA Least ==
    ASSUME NEW T, T \subseteq Nat, T # {}
    PROVE  \E m \in T : \A k \in T : m <= k
<1>1. IsWellFoundedOn(Less, Nat)
  BY NatLessThanWellFounded, Zenon DEF OpToRel, Less
<1>2. PICK m \in T : \A k \in T : ~(<<k, m>> \in Less)
  BY <1>1, WFMin
<1>3. ASSUME NEW k \in T PROVE m <= k
  <2>1. ~(<<k, m>> \in Less)
    BY <1>2
  <2> QED BY <2>1 DEF Less
<1> QED BY <1>3

(* Find returns a header of that name, or 0 if there is none.              *)
LEMMA FindIs ==
    ASSUME HInv, NEW n
    PROVE  \/ Find(n) = 0 /\ \A i \in 1 .. hs.count : hs.slots[i].name # n
           \/ Find(n) \in 1 .. hs.count /\ hs.slots[Find(n)].name = n
<1>0. hs.count \in Nat
  BY DEF HInv, HsType
<1> DEFINE I == {i \in 1 .. hs.count : hs.slots[i].name = n}
<1>1. Find(n) = IF I # {} THEN Min(I) ELSE 0
  BY DEF Find, SelectInSubSeq
<1>2. CASE I = {}
  BY <1>1, <1>2
<1>3. CASE I # {}
  <2>1. I \subseteq Nat
    BY <1>0
  <2>2. \E m \in I : \A k \in I : m <= k
    <3> HIDE DEF I
    <3> QED BY <1>3, <2>1, Least
  <2>3. Min(I) \in I
    <3> HIDE DEF I
    <3> QED BY <2>2 DEF Min
  <2> QED BY <1>1, <1>3, <2>3
<1> QED BY <1>2, <1>3

LEMMA PutIs ==
    ASSUME NEW S, NEW q \in Seq(S), NEW k \in 1 .. Len(q), NEW x \in S
    PROVE  LET r == [q EXCEPT ![k] = x]
           IN  r \in Seq(S) /\ Len(r) = Len(q) /\ r[k] = x /\ \A i \in 1 .. Len(q) : i # k => r[i] = q[i]
OBVIOUS

LEMMA SlotIs ==
    ASSUME NEW n \in Names \cup {None}, NEW v \in Vals \cup {None}, NEW b \in Nat
    PROVE  Slot(n, v, b) \in SlotType /\ Slot(n, v, b).name = n /\ Slot(n, v, b).val = v /\ Slot(n, v, b).buf = b
BY DEF Slot, SlotType

LEMMA GrowIs ==
    ASSUME NEW S, NEW q \in Seq(S), NEW x \in S
    PROVE  LET r == q \o <<x, x>>
           IN  /\ r \in Seq(S) /\ Len(r) = Len(q) + 2 /\ \A i \in 1 .. Len(q) : r[i] = q[i]
               /\ r[Len(q) + 1] = x /\ r[Len(q) + 2] = x
OBVIOUS

(* Room for one more header.                                               *)
LEMMA GrownIs ==
    ASSUME HInv
    PROVE  /\ Grown(hs) \in Seq(SlotType) /\ hs.count < Len(Grown(hs))
           /\ SlotsOK(Grown(hs), hs.count, hs.bufs)
           /\ \A i \in 1 .. hs.count : Grown(hs)[i] = hs.slots[i]
<1>1. /\ hs.slots \in Seq(SlotType) /\ hs.count \in Nat /\ hs.bufs \in Nat /\ Len(hs.slots) \in Nat
      /\ SlotsOK(hs.slots, hs.count, hs.bufs)
  BY DEF HInv, HsType
<1>2. CASE hs.count < Len(hs.slots)
  BY <1>1, <1>2 DEF Grown
<1>3. CASE ~(hs.count < Len(hs.slots))
  <2>1. hs.count = Len(hs.slots)
    BY <1>1, <1>3 DEF SlotsOK
  <2>2. PICK x \in SlotType : x = Slot(None, None, 0) /\ x.buf = 0
    BY SlotIs
  <2>3. PICK q \in Seq(SlotType) : q = hs.slots
    BY <1>1
  <2>4. LET r == q \o <<x, x>>
        IN  /\ r \in Seq(SlotType) /\ Len(r) = Len(q) + 2 /\ \A i \in 1 .. Len(q) : r[i] = q[i]
            /\ r[Len(q) + 1] = x /\ r[Len(q) + 2] = x
    BY GrowIs
  <2>5. PICK r \in Seq(SlotType) : /\ r = q \o <<x, x>> /\ Len(r) = Len(q) + 2 /\ \A i \in 1 .. Len(q) : r[i] = q[i]
                                   /\ r[Len(q) + 1] = x /\ r[Len(q) + 2] = x
    BY <2>4
  <2>6. Grown(hs) = r
    BY <1>3, <2>2, <2>3, <2>5 DEF Grown
  <2>7. \A i \in 1 .. Len(r) : i \in 1 .. Len(q) \/ r[i].buf = 0
    BY <1>1, <2>2, <2>3, <2>5
  <2>8. \A i \in 1 .. Len(q) : r[i] = q[i] /\ q[i].buf <= hs.bufs
    BY <1>1, <2>3, <2>5 DEF SlotsOK
  <2>9. ASSUME NEW i \in 1 .. Len(r), NEW j \in 1 .. Len(r), r[i].buf # 0, i # j PROVE r[i].buf # r[j].buf
    <3>1. i \in 1 .. Len(q) /\ r[i] = q[i]
      BY <2>7, <2>8, <2>9
    <3>2. CASE j \in 1 .. Len(q)
      <4>1. r[j] = q[j]
        BY <2>8, <3>2
      <4>2. q[i].buf # q[j].buf
        BY <1>1, <2>3, <2>9, <3>1, <3>2 DEF SlotsOK
      <4> QED BY <3>1, <4>1, <4>2
    <3>3. CASE r[j].buf = 0
      BY <2>9, <3>3
    <3> QED BY <2>7, <3>2, <3>3
  <2>10. \A i \in 1 .. Len(r) : r[i].buf <= hs.bufs
    BY <1>1, <2>7, <2>8
  <2>11. hs.count <= Len(r) /\ hs.count < Len(r) /\ \A i \in 1 .. hs.count : r[i] = hs.slots[i] /\ r[i].name \in Names
    BY <1>1, <2>1, <2>3, <2>5 DEF SlotsOK
  <2> QED BY <2>6, <2>9, <2>10, <2>11 DEF SlotsOK
<1> QED BY <1>2, <1>3

NewBuf(q, c, b) == IF q[c + 1].buf = 0 THEN b + 1 ELSE q[c + 1].buf
Newest(u, b) == IF u > b THEN u ELSE b
Added(q, c, b, n, v) == [q EXCEPT ![c + 1] = Slot(n, v, NewBuf(q, c, b))]

Swapped(q, c, k) == [q EXCEPT ![k] = q[c], ![c] = Slot(None, None, q[k].buf)]
Valued(q, k, v) == [q EXCEPT ![k].val = v]

(* r is q without header k; q with v as the value of header k; the values m *)
(* are l after n was set to v.                                             *)
IsWithout(r, q, c, k) == \A i \in 1 .. c - 1 : r[i] = IF i = k THEN q[c] ELSE q[i]
IsWith(r, q, c, k, v) == \A i \in 1 .. c : r[i].name = q[i].name /\ r[i].val = IF i = k THEN v ELSE q[i].val
IsSet(m, l, n, v) == \A x \in Names : m[x] = IF x = n THEN v ELSE l[x]

(* One more header, in the slot behind the last, with that slot's buffer   *)
(* or a new one.                                                           *)
LEMMA PutSlot ==
    ASSUME NEW q \in Seq(SlotType), NEW c \in Nat, NEW b \in Nat, SlotsOK(q, c, b), c < Len(q),
           NEW n \in Names, NEW v \in Vals \cup {None}
    PROVE  LET r == Added(q, c, b, n, v)
           IN  /\ r \in Seq(SlotType) /\ SlotsOK(r, c + 1, Newest(NewBuf(q, c, b), b))
               /\ \A i \in 1 .. c : r[i] = q[i]
               /\ r[c + 1].name = n /\ r[c + 1].val = v
<1>u. PICK u \in Nat : u = NewBuf(q, c, b)
  <2>1. q[c + 1] \in SlotType
    OBVIOUS
  <2>2. q[c + 1].buf \in Nat
    BY <2>1 DEF SlotType
  <2> QED BY <2>2 DEF NewBuf
<1>d. PICK d \in Nat : d = Newest(u, b)
  BY DEF Newest
<1>r. PICK r : r = Added(q, c, b, n, v)
  OBVIOUS
<1>1. PICK x \in SlotType : x = Slot(n, v, u) /\ x.name = n /\ x.val = v /\ x.buf = u
  <2>1. LET x == Slot(n, v, u) IN x \in SlotType /\ x.name = n /\ x.val = v /\ x.buf = u
    BY DEF Slot, SlotType
  <2> QED BY <2>1
<1>2. PICK k \in 1 .. Len(q) : k = c + 1
  OBVIOUS
<1>3. r \in Seq(SlotType) /\ Len(r) = Len(q) /\ r[k] = x /\ \A i \in 1 .. Len(q) : i # k => r[i] = q[i]
  <2>1. LET s == [q EXCEPT ![k] = x]
        IN  s \in Seq(SlotType) /\ Len(s) = Len(q) /\ s[k] = x /\ \A i \in 1 .. Len(q) : i # k => s[i] = q[i]
    BY PutIs
  <2> QED BY <1>1, <1>2, <1>u, <1>r, <2>1 DEF Added
<1>4. \A i \in 1 .. c : i \in 1 .. Len(q) /\ i # k /\ r[i] = q[i]
  BY <1>2, <1>3
<1>5. \A i \in 1 .. Len(q) : q[i] \in SlotType /\ q[i].buf \in Nat /\ q[i].buf <= b
  <2>1. \A i \in 1 .. Len(q) : q[i] \in SlotType
    OBVIOUS
  <2>2. \A i \in 1 .. Len(q) : q[i].buf \in Nat
    BY <2>1 DEF SlotType
  <2> QED BY <2>1, <2>2 DEF SlotsOK
<1>6. u # 0 /\ u <= d /\ b <= d /\ \A i \in 1 .. Len(q) : i # k => q[i].buf # u
  <2>1. ASSUME NEW i \in 1 .. Len(q), i # k PROVE q[i].buf # u
    <3>1. CASE q[k].buf = 0
      BY <1>2, <1>5, <1>u, <2>1, <3>1 DEF NewBuf
    <3>2. CASE q[k].buf # 0
      BY <1>2, <1>u, <2>1, <3>2 DEF SlotsOK, NewBuf
    <3> QED BY <3>1, <3>2
  <2>2. u # 0 /\ u <= d /\ b <= d
    BY <1>2, <1>5, <1>u, <1>d DEF NewBuf, Newest
  <2> QED BY <2>1, <2>2
<1>7. \A i \in 1 .. c + 1 : r[i].name \in Names
  <2>1. \A i \in 1 .. c + 1 : i \in 1 .. c \/ i = k
    BY <1>2
  <2> QED BY <1>1, <1>3, <1>4, <2>1 DEF SlotsOK
<1>8. \A i \in 1 .. Len(r) : r[i].buf <= d
  BY <1>1, <1>3, <1>5, <1>6
<1>9. ASSUME NEW i \in 1 .. Len(r), NEW j \in 1 .. Len(r), r[i].buf # 0, i # j PROVE r[i].buf # r[j].buf
  <2>1. CASE i = k
    BY <1>1, <1>3, <1>6, <1>9, <2>1
  <2>2. CASE j = k
    BY <1>1, <1>3, <1>6, <1>9, <2>2
  <2>3. CASE i # k /\ j # k
    BY <1>3, <1>9, <2>3 DEF SlotsOK
  <2> QED BY <2>1, <2>2, <2>3
<1>10. c + 1 <= Len(r)
  BY <1>3
<1>11. SlotsOK(r, c + 1, d)
  BY <1>7, <1>8, <1>9, <1>10 DEF SlotsOK
<1> QED BY <1>1, <1>2, <1>3, <1>4, <1>11, <1>u, <1>d, <1>r

(* A header is taken out: the last one takes its place, and its buffer     *)
(* goes to the slot of the last one.                                       *)
LEMMA SwapSlot ==
    ASSUME NEW q \in Seq(SlotType), NEW c \in Nat, NEW b \in Nat, SlotsOK(q, c, b), NEW k \in 1 .. c
    PROVE  LET r == Swapped(q, c, k)
           IN  r \in Seq(SlotType) /\ SlotsOK(r, c - 1, b) /\ IsWithout(r, q, c, k)
<1>r. PICK r : r = Swapped(q, c, k)
  OBVIOUS
<1>0. c \in 1 .. Len(q) /\ k \in 1 .. Len(q) /\ Len(q) \in Nat
  BY DEF SlotsOK
<1>1. \A i \in 1 .. Len(q) : q[i] \in SlotType /\ q[i].buf \in Nat /\ q[i].buf <= b
  <2>1. \A i \in 1 .. Len(q) : q[i] \in SlotType
    OBVIOUS
  <2>2. \A i \in 1 .. Len(q) : q[i].buf \in Nat
    BY <2>1 DEF SlotType
  <2> QED BY <2>1, <2>2 DEF SlotsOK
<1>2. PICK x \in SlotType : x = Slot(None, None, q[k].buf) /\ x.buf = q[k].buf
  <2>1. LET x == Slot(None, None, q[k].buf) IN x \in SlotType /\ x.buf = q[k].buf
    BY <1>0, <1>1 DEF Slot, SlotType
  <2> QED BY <2>1
<1>3. PICK s \in Seq(SlotType) : /\ s = [q EXCEPT ![k] = q[c]] /\ Len(s) = Len(q) /\ s[k] = q[c]
                                 /\ \A i \in 1 .. Len(q) : i # k => s[i] = q[i]
  <2>1. LET s == [q EXCEPT ![k] = q[c]]
        IN  s \in Seq(SlotType) /\ Len(s) = Len(q) /\ s[k] = q[c] /\ \A i \in 1 .. Len(q) : i # k => s[i] = q[i]
    BY <1>0, <1>1, PutIs
  <2> QED BY <2>1
<1>4. r \in Seq(SlotType) /\ Len(r) = Len(q) /\ r[c] = x /\ \A i \in 1 .. Len(q) : i # c => r[i] = s[i]
  <2>1. LET t == [s EXCEPT ![c] = x]
        IN  t \in Seq(SlotType) /\ Len(t) = Len(s) /\ t[c] = x /\ \A i \in 1 .. Len(s) : i # c => t[i] = s[i]
    BY <1>0, <1>3, PutIs
  <2> QED BY <1>2, <1>3, <1>r, <2>1 DEF Swapped
<1>5. \A i \in 1 .. c - 1 : i \in 1 .. Len(q) /\ i # c /\ r[i] = IF i = k THEN q[c] ELSE q[i]
  BY <1>0, <1>3, <1>4
<1>6. c \in 1 .. c /\ \A i \in 1 .. c - 1 : i \in 1 .. c
  BY <1>0
<1>7. \A i \in 1 .. c - 1 : r[i].name \in Names
  BY <1>5, <1>6 DEF SlotsOK
<1>8. \A i \in 1 .. Len(r) : r[i].buf = q[IF i = c THEN k ELSE IF i = k THEN c ELSE i].buf
  BY <1>0, <1>2, <1>3, <1>4
<1>9. \A i \in 1 .. Len(r) : r[i].buf <= b
  BY <1>0, <1>1, <1>4, <1>8
<1>10. ASSUME NEW i \in 1 .. Len(r), NEW j \in 1 .. Len(r), r[i].buf # 0, i # j PROVE r[i].buf # r[j].buf
  <2>1. PICK m \in 1 .. Len(q) : m = (IF i = c THEN k ELSE IF i = k THEN c ELSE i)
    BY <1>0, <1>4
  <2>2. PICK l \in 1 .. Len(q) : l = (IF j = c THEN k ELSE IF j = k THEN c ELSE j)
    BY <1>0, <1>4
  <2>3. m # l /\ r[i].buf = q[m].buf /\ r[j].buf = q[l].buf
    BY <1>8, <1>10, <2>1, <2>2
  <2> QED BY <1>10, <2>3 DEF SlotsOK
<1>11. c - 1 <= Len(r)
  BY <1>0, <1>4
<1>12. SlotsOK(r, c - 1, b)
  BY <1>7, <1>9, <1>10, <1>11 DEF SlotsOK
<1> QED BY <1>4, <1>5, <1>12, <1>r DEF IsWithout

(* A header gets another value.                                            *)
LEMMA SetSlot ==
    ASSUME NEW q \in Seq(SlotType), NEW c \in Nat, NEW b \in Nat, SlotsOK(q, c, b), NEW k \in 1 .. c,
           NEW v \in Vals \cup {None}
    PROVE  LET r == Valued(q, k, v)
           IN  r \in Seq(SlotType) /\ SlotsOK(r, c, b) /\ IsWith(r, q, c, k, v)
<1>r. PICK r : r = Valued(q, k, v)
  OBVIOUS
<1>0. k \in 1 .. Len(q) /\ Len(q) \in Nat /\ q[k] \in SlotType
  BY DEF SlotsOK
<1>1. PICK x \in SlotType : x = [q[k] EXCEPT !.val = v] /\ x.val = v /\ x.name = q[k].name /\ x.buf = q[k].buf
  <2>1. LET x == [q[k] EXCEPT !.val = v] IN x \in SlotType /\ x.val = v /\ x.name = q[k].name /\ x.buf = q[k].buf
    BY <1>0 DEF SlotType
  <2> QED BY <2>1
<1>2. r \in Seq(SlotType) /\ Len(r) = Len(q) /\ r[k] = x /\ \A i \in 1 .. Len(q) : i # k => r[i] = q[i]
  <2>1. LET s == [q EXCEPT ![k] = x]
        IN  s \in Seq(SlotType) /\ Len(s) = Len(q) /\ s[k] = x /\ \A i \in 1 .. Len(q) : i # k => s[i] = q[i]
    BY <1>0, PutIs
  <2>2. r = [q EXCEPT ![k] = x]
    BY <1>1, <1>r DEF Valued
  <2> QED BY <2>1, <2>2
<1>3. \A i \in 1 .. Len(q) : r[i].buf = q[i].buf /\ r[i].name = q[i].name /\ r[i].val = IF i = k THEN v ELSE q[i].val
  BY <1>1, <1>2
<1>4. \A i \in 1 .. c : i \in 1 .. Len(q)
  BY DEF SlotsOK
<1>5. SlotsOK(r, c, b)
  BY <1>2, <1>3, <1>4 DEF SlotsOK
<1> QED BY <1>2, <1>3, <1>4, <1>5, <1>r DEF IsWith

-----------------------------------------------------------------------------
(* The operations of header sets.                                          *)

LEMMA HsMember ==
    ASSUME HInv
    PROVE  /\ hs \in HsType /\ hs.slots \in Seq(SlotType) /\ hs.count \in Nat /\ hs.bufs \in Nat
           /\ hs.dup \in BOOLEAN /\ hs.last \in [Names -> Vals \cup {None}]
           /\ SlotsOK(hs.slots, hs.count, hs.bufs)
           /\ ~hs.dup => ValuesOK(hs.slots, hs.count, hs.last)
BY DEF HInv, HsType

LEMMA HsSlots ==
    ASSUME NEW h \in HsType, NEW q \in Seq(SlotType)
    PROVE  LET j == [h EXCEPT !.slots = q]
           IN  j \in HsType /\ j.slots = q /\ j.count = h.count /\ j.bufs = h.bufs /\ j.dup = h.dup /\ j.last = h.last
BY DEF HsType

LEMMA HsCount ==
    ASSUME NEW h \in HsType, NEW c \in Nat
    PROVE  LET j == [h EXCEPT !.count = c]
           IN  j \in HsType /\ j.slots = h.slots /\ j.count = c /\ j.bufs = h.bufs /\ j.dup = h.dup /\ j.last = h.last
BY DEF HsType

LEMMA HsBufs ==
    ASSUME NEW h \in HsType, NEW b \in Nat
    PROVE  LET j == [h EXCEPT !.bufs = b]
           IN  j \in HsType /\ j.slots = h.slots /\ j.count = h.count /\ j.bufs = b /\ j.dup = h.dup /\ j.last = h.last
BY DEF HsType

LEMMA HsDup ==
    ASSUME NEW h \in HsType, NEW b \in BOOLEAN
    PROVE  LET j == [h EXCEPT !.dup = b]
           IN  j \in HsType /\ j.slots = h.slots /\ j.count = h.count /\ j.bufs = h.bufs /\ j.dup = b /\ j.last = h.last
BY DEF HsType

LEMMA HsLast ==
    ASSUME NEW h \in HsType, NEW n \in Names, NEW v \in Vals \cup {None}
    PROVE  LET j == [h EXCEPT !.last[n] = v]
           IN  /\ j \in HsType /\ j.slots = h.slots /\ j.count = h.count /\ j.bufs = h.bufs /\ j.dup = h.dup
               /\ \A m \in Names : j.last[m] = IF m = n THEN v ELSE h.last[m]
BY DEF HsType

(* dpqic_hdrset_add                                                        *)
LEMMA HdrAddIs ==
    ASSUME HInv, NEW n \in Names, NEW v \in Vals \cup {None}
    PROVE  \E h \in HsType :
              /\ h = HdrAdd(n, v) /\ SlotsOK(h.slots, h.count, h.bufs)
              /\ h.count = hs.count + 1 /\ h.dup = hs.dup /\ h.last = hs.last
              /\ \A i \in 1 .. hs.count : h.slots[i] = hs.slots[i]
              /\ h.slots[h.count].name = n /\ h.slots[h.count].val = v
<1>1. hs \in HsType /\ hs.count \in Nat /\ hs.bufs \in Nat
  BY HsMember
<1>2. PICK q \in Seq(SlotType) : /\ q = Grown(hs) /\ hs.count < Len(q) /\ SlotsOK(q, hs.count, hs.bufs)
                                 /\ \A i \in 1 .. hs.count : q[i] = hs.slots[i]
  BY GrownIs
<1>3. PICK c \in Nat, b \in Nat, k \in Nat : c = hs.count /\ b = hs.bufs /\ k = c + 1
  BY <1>1
<1>4. q[k].buf \in Nat
  <2>1. q[k] \in SlotType
    BY <1>2, <1>3
  <2> QED BY <2>1 DEF SlotType
<1>5. PICK u \in Nat : u = NewBuf(q, c, b)
  BY <1>3, <1>4 DEF NewBuf
<1>6. PICK d \in Nat : d = Newest(u, b)
  BY DEF Newest
<1>7. PICK r \in Seq(SlotType) : /\ r = Added(q, c, b, n, v) /\ SlotsOK(r, c + 1, d)
                                 /\ \A i \in 1 .. c : r[i] = q[i]
                                 /\ r[c + 1].name = n /\ r[c + 1].val = v
  <2>1. SlotsOK(q, c, b) /\ c < Len(q)
    BY <1>2, <1>3
  <2>2. LET r == Added(q, c, b, n, v)
        IN  /\ r \in Seq(SlotType) /\ SlotsOK(r, c + 1, Newest(NewBuf(q, c, b), b))
            /\ \A i \in 1 .. c : r[i] = q[i]
            /\ r[c + 1].name = n /\ r[c + 1].val = v
    BY <2>1, PutSlot
  <2> QED BY <1>5, <1>6, <2>2
<1>8. PICK f \in HsType : f = [hs EXCEPT !.slots = r] /\ f.slots = r /\ f.bufs = hs.bufs /\ f.dup = hs.dup /\ f.last = hs.last
  <2>1. LET j == [hs EXCEPT !.slots = r]
        IN  j \in HsType /\ j.slots = r /\ j.count = hs.count /\ j.bufs = hs.bufs /\ j.dup = hs.dup /\ j.last = hs.last
    BY <1>1, HsSlots
  <2> QED BY <2>1
<1>9. PICK g \in HsType : g = [f EXCEPT !.count = k] /\ g.slots = r /\ g.count = k /\ g.bufs = hs.bufs /\ g.dup = hs.dup /\ g.last = hs.last
  <2>1. LET j == [f EXCEPT !.count = k]
        IN  j \in HsType /\ j.slots = f.slots /\ j.count = k /\ j.bufs = f.bufs /\ j.dup = f.dup /\ j.last = f.last
    BY HsCount
  <2> QED BY <1>8, <2>1
<1>10. PICK h \in HsType : h = [g EXCEPT !.bufs = d] /\ h.slots = r /\ h.count = k /\ h.bufs = d /\ h.dup = hs.dup /\ h.last = hs.last
  <2>1. LET j == [g EXCEPT !.bufs = d]
        IN  j \in HsType /\ j.slots = g.slots /\ j.count = g.count /\ j.bufs = d /\ j.dup = g.dup /\ j.last = g.last
    BY HsBufs
  <2> QED BY <1>9, <2>1
<1>11. HdrAdd(n, v) = h
  <2>1. HdrAdd(n, v) = [hs EXCEPT !.slots = r, !.count = k, !.bufs = IF u > @ THEN u ELSE @]
    BY <1>2, <1>3, <1>5, <1>7 DEF HdrAdd, NewBuf, Added
  <2>2. HdrAdd(n, v) = [g EXCEPT !.bufs = IF u > @ THEN u ELSE @]
    BY <1>8, <1>9, <2>1
  <2> QED BY <1>3, <1>6, <1>9, <1>10, <2>2 DEF Newest
<1>12. /\ SlotsOK(h.slots, h.count, h.bufs) /\ h.count = hs.count + 1
       /\ h.slots[h.count].name = n /\ h.slots[h.count].val = v
  BY <1>3, <1>7, <1>10
<1>13. \A i \in 1 .. hs.count : h.slots[i] = hs.slots[i]
  BY <1>2, <1>3, <1>7, <1>10
<1> QED BY <1>10, <1>11, <1>12, <1>13

(* The values after a header is added, taken out or set.                   *)
LEMMA AddValues ==
    ASSUME NEW q, NEW c \in Nat, NEW l, ValuesOK(q, c, l), NEW n \in Names, \A i \in 1 .. c : q[i].name # n,
           \A i \in 1 .. c : q[i].name \in Names, NEW v,
           NEW r, \A i \in 1 .. c : r[i] = q[i], r[c + 1].name = n, r[c + 1].val = v,
           NEW m, IsSet(m, l, n, v)
    PROVE  ValuesOK(r, c + 1, m)
<1>1. \A i \in 1 .. c + 1 : i \in 1 .. c \/ i = c + 1
  OBVIOUS
<1>2. c + 1 \in 1 .. c + 1 /\ \A i \in 1 .. c : i \in 1 .. c + 1
  OBVIOUS
<1>3. \A i, j \in 1 .. c + 1 : i # j => r[i].name # r[j].name
  BY <1>1 DEF ValuesOK
<1>4. \A i \in 1 .. c + 1 : r[i].val = m[r[i].name]
  BY <1>1 DEF ValuesOK, IsSet
<1>5. ASSUME NEW x \in Names, \A i \in 1 .. c + 1 : r[i].name # x PROVE m[x] = None
  BY <1>2, <1>5 DEF ValuesOK, IsSet
<1> QED BY <1>3, <1>4, <1>5 DEF ValuesOK

LEMMA RemoveValues ==
    ASSUME NEW q, NEW c \in Nat, NEW l, ValuesOK(q, c, l), NEW k \in 1 .. c, NEW n \in Names, q[k].name = n,
           \A i \in 1 .. c : q[i].name \in Names,
           NEW r, IsWithout(r, q, c, k), NEW m, IsSet(m, l, n, None)
    PROVE  ValuesOK(r, c - 1, m)
<1>0. c \in 1 .. c /\ \A i \in 1 .. c - 1 : i \in 1 .. c /\ i # c
  OBVIOUS
<1>1. \A i \in 1 .. c - 1 : \E j \in 1 .. c : j = (IF i = k THEN c ELSE i) /\ j # k /\ r[i] = q[j]
  BY <1>0 DEF IsWithout
<1>2. ASSUME NEW i \in 1 .. c - 1, NEW j \in 1 .. c - 1, i # j PROVE r[i].name # r[j].name
  <2>1. PICK a \in 1 .. c : a = (IF i = k THEN c ELSE i) /\ r[i] = q[a]
    BY <1>1
  <2>2. PICK b \in 1 .. c : b = (IF j = k THEN c ELSE j) /\ r[j] = q[b]
    BY <1>1
  <2>3. a # b
    BY <1>0, <1>2, <2>1, <2>2
  <2> QED BY <2>1, <2>2, <2>3 DEF ValuesOK
<1>3. ASSUME NEW i \in 1 .. c - 1 PROVE r[i].val = m[r[i].name]
  <2>1. PICK a \in 1 .. c : a # k /\ r[i] = q[a]
    BY <1>1
  <2>2. q[a].name # n /\ q[a].val = l[q[a].name] /\ q[a].name \in Names
    BY <2>1 DEF ValuesOK
  <2> QED BY <2>1, <2>2 DEF IsSet
<1>4. ASSUME NEW x \in Names, \A i \in 1 .. c - 1 : r[i].name # x PROVE m[x] = None
  <2>1. CASE x = n
    BY <2>1 DEF IsSet
  <2>2. CASE x # n
    <3>1. ASSUME NEW a \in 1 .. c PROVE q[a].name # x
      <4>1. CASE a = k
        BY <2>2, <4>1
      <4>2. CASE a # k
        <5>1. PICK i \in 1 .. c - 1 : r[i] = q[a]
          <6>1. CASE a = c
            BY <4>2, <6>1 DEF IsWithout
          <6>2. CASE a # c
            BY <4>2, <6>2 DEF IsWithout
          <6> QED BY <6>1, <6>2
        <5> QED BY <1>4, <5>1
      <4> QED BY <4>1, <4>2
    <3> QED BY <2>2, <3>1 DEF ValuesOK, IsSet
  <2> QED BY <2>1, <2>2
<1> QED BY <1>2, <1>3, <1>4 DEF ValuesOK

LEMMA SetValues ==
    ASSUME NEW q, NEW c \in Nat, NEW l, ValuesOK(q, c, l), NEW k \in 1 .. c, NEW n \in Names, q[k].name = n,
           \A i \in 1 .. c : q[i].name \in Names, NEW v,
           NEW r, IsWith(r, q, c, k, v), NEW m, IsSet(m, l, n, v)
    PROVE  ValuesOK(r, c, m)
<1>1. \A i, j \in 1 .. c : i # j => r[i].name # r[j].name
  BY DEF ValuesOK, IsWith
<1>2. ASSUME NEW i \in 1 .. c PROVE r[i].val = m[r[i].name]
  <2>1. CASE i = k
    BY <2>1 DEF IsWith, IsSet
  <2>2. CASE i # k
    BY <2>2 DEF ValuesOK, IsWith, IsSet
  <2> QED BY <2>1, <2>2
<1>3. ASSUME NEW x \in Names, \A i \in 1 .. c : r[i].name # x PROVE m[x] = None
  BY <1>3 DEF ValuesOK, IsWith, IsSet
<1> QED BY <1>1, <1>2, <1>3 DEF ValuesOK

(* What hs' needs to be sound.                                             *)
LEMMA HsBecomes ==
    ASSUME NEW h \in HsType, hs' = h, SlotsOK(h.slots, h.count, h.bufs),
           ~h.dup => ValuesOK(h.slots, h.count, h.last)
    PROVE  HInv'
BY DEF HInv

LEMMA HdrSetStep == ASSUME HInv, NEW n \in Names, NEW v \in Vals \cup {None}, HdrSet(n, v) PROVE HInv'
<1>1. /\ hs \in HsType /\ hs.slots \in Seq(SlotType) /\ hs.count \in Nat /\ hs.bufs \in Nat
      /\ SlotsOK(hs.slots, hs.count, hs.bufs) /\ (~hs.dup => ValuesOK(hs.slots, hs.count, hs.last))
  BY HsMember
<1>2. PICK q \in Seq(SlotType), c \in Nat, b \in Nat, l \in {hs.last} :
        q = hs.slots /\ c = hs.count /\ b = hs.bufs /\ l = hs.last /\ SlotsOK(q, c, b) /\ (~hs.dup => ValuesOK(q, c, l))
  BY <1>1
<1>3. \A i \in 1 .. c : q[i].name \in Names
  BY <1>2 DEF SlotsOK
<1>4. CASE Find(n) = 0
  <2>1. PICK h \in HsType :
              /\ h = HdrAdd(n, v) /\ SlotsOK(h.slots, h.count, h.bufs)
              /\ h.count = c + 1 /\ h.dup = hs.dup /\ h.last = l
              /\ \A i \in 1 .. c : h.slots[i] = q[i]
              /\ h.slots[h.count].name = n /\ h.slots[h.count].val = v
    BY <1>2, HdrAddIs
  <2>2. PICK j \in HsType : /\ j = [h EXCEPT !.last[n] = v] /\ j.slots = h.slots /\ j.count = h.count /\ j.bufs = h.bufs
                            /\ j.dup = h.dup /\ \A m \in Names : j.last[m] = IF m = n THEN v ELSE h.last[m]
    <3>1. LET j == [h EXCEPT !.last[n] = v]
          IN  /\ j \in HsType /\ j.slots = h.slots /\ j.count = h.count /\ j.bufs = h.bufs /\ j.dup = h.dup
              /\ \A m \in Names : j.last[m] = IF m = n THEN v ELSE h.last[m]
      BY HsLast
    <3> QED BY <3>1
  <2>3. hs' = j
    BY <1>4, <2>1, <2>2 DEF HdrSet
  <2>4. SlotsOK(j.slots, j.count, j.bufs)
    BY <2>1, <2>2
  <2>5. ASSUME ~j.dup PROVE ValuesOK(j.slots, j.count, j.last)
    <3>1. ValuesOK(q, c, l)
      BY <1>2, <2>1, <2>2, <2>5
    <3>2. \A i \in 1 .. c : q[i].name # n
      BY <1>2, <1>4, FindIs
    <3>3. PICK r, m : r = j.slots /\ m = j.last
      OBVIOUS
    <3>4. /\ \A i \in 1 .. c : r[i] = q[i]
          /\ r[c + 1].name = n /\ r[c + 1].val = v
          /\ IsSet(m, l, n, v)
      BY <2>1, <2>2, <3>3 DEF IsSet
    <3>5. ValuesOK(r, c + 1, m)
      BY <1>3, <3>1, <3>2, <3>4, AddValues
    <3> QED BY <2>1, <2>2, <3>3, <3>5
  <2> QED BY <2>3, <2>4, <2>5, HsBecomes
<1>5. CASE Find(n) # 0
  <2>0. PICK k \in 1 .. c : k = Find(n) /\ q[k].name = n
    BY <1>2, <1>5, FindIs
  <2>1. CASE v = None
    <3>0. c - 1 \in Nat
      BY <2>0
    <3>1. PICK r \in Seq(SlotType) : r = Swapped(q, c, k) /\ SlotsOK(r, c - 1, b) /\ IsWithout(r, q, c, k)
      <4>1. LET r == Swapped(q, c, k) IN r \in Seq(SlotType) /\ SlotsOK(r, c - 1, b) /\ IsWithout(r, q, c, k)
        BY <1>2, SwapSlot
      <4> QED BY <4>1
    <3>2. PICK f \in HsType : f = [hs EXCEPT !.slots = r] /\ f.slots = r /\ f.count = c /\ f.bufs = b /\ f.dup = hs.dup /\ f.last = l
      <4>1. LET j == [hs EXCEPT !.slots = r]
            IN  j \in HsType /\ j.slots = r /\ j.count = hs.count /\ j.bufs = hs.bufs /\ j.dup = hs.dup /\ j.last = hs.last
        BY <1>1, HsSlots
      <4> QED BY <1>2, <4>1
    <3>3. PICK h \in HsType : h = [f EXCEPT !.count = c - 1] /\ h.slots = r /\ h.count = c - 1 /\ h.bufs = b /\ h.dup = hs.dup /\ h.last = l
      <4>1. LET j == [f EXCEPT !.count = c - 1]
            IN  j \in HsType /\ j.slots = f.slots /\ j.count = c - 1 /\ j.bufs = f.bufs /\ j.dup = f.dup /\ j.last = f.last
        BY <3>0, HsCount
      <4> QED BY <3>2, <4>1
    <3>4. PICK j \in HsType : /\ j = [h EXCEPT !.last[n] = v] /\ j.slots = h.slots /\ j.count = h.count /\ j.bufs = h.bufs
                              /\ j.dup = h.dup /\ \A m \in Names : j.last[m] = IF m = n THEN v ELSE h.last[m]
      <4>1. LET j == [h EXCEPT !.last[n] = v]
            IN  /\ j \in HsType /\ j.slots = h.slots /\ j.count = h.count /\ j.bufs = h.bufs /\ j.dup = h.dup
                /\ \A m \in Names : j.last[m] = IF m = n THEN v ELSE h.last[m]
        BY HsLast
      <4> QED BY <4>1
    <3>5. hs' = j
      <4>1. HdrRemove(k) = [hs EXCEPT !.slots = r, !.count = @ - 1]
        BY <1>2, <3>1 DEF HdrRemove, Swapped
      <4>2. HdrRemove(k) = h
        BY <1>2, <3>2, <3>3, <4>1
      <4> QED BY <1>5, <2>0, <2>1, <3>4, <4>2 DEF HdrSet
    <3>6. SlotsOK(j.slots, j.count, j.bufs)
      BY <3>1, <3>3, <3>4
    <3>7. ASSUME ~j.dup PROVE ValuesOK(j.slots, j.count, j.last)
      <4>1. ValuesOK(q, c, l)
        BY <1>2, <3>3, <3>4, <3>7
      <4>2. PICK m : m = j.last
        OBVIOUS
      <4>3. IsSet(m, l, n, None)
        BY <2>1, <3>3, <3>4, <4>2 DEF IsSet
      <4>4. ValuesOK(r, c - 1, m)
        BY <1>3, <2>0, <3>1, <4>1, <4>3, RemoveValues
      <4> QED BY <3>3, <3>4, <4>2, <4>4
    <3> QED BY <3>5, <3>6, <3>7, HsBecomes
  <2>2. CASE v # None
    <3>1. PICK r \in Seq(SlotType) : r = Valued(q, k, v) /\ SlotsOK(r, c, b) /\ IsWith(r, q, c, k, v)
      <4>1. LET r == Valued(q, k, v) IN r \in Seq(SlotType) /\ SlotsOK(r, c, b) /\ IsWith(r, q, c, k, v)
        BY <1>2, SetSlot
      <4> QED BY <4>1
    <3>2. PICK h \in HsType : h = [hs EXCEPT !.slots = r] /\ h.slots = r /\ h.count = c /\ h.bufs = b /\ h.dup = hs.dup /\ h.last = l
      <4>1. LET j == [hs EXCEPT !.slots = r]
            IN  j \in HsType /\ j.slots = r /\ j.count = hs.count /\ j.bufs = hs.bufs /\ j.dup = hs.dup /\ j.last = hs.last
        BY <1>1, HsSlots
      <4> QED BY <1>2, <4>1
    <3>3. PICK j \in HsType : /\ j = [h EXCEPT !.last[n] = v] /\ j.slots = h.slots /\ j.count = h.count /\ j.bufs = h.bufs
                              /\ j.dup = h.dup /\ \A m \in Names : j.last[m] = IF m = n THEN v ELSE h.last[m]
      <4>1. LET j == [h EXCEPT !.last[n] = v]
            IN  /\ j \in HsType /\ j.slots = h.slots /\ j.count = h.count /\ j.bufs = h.bufs /\ j.dup = h.dup
                /\ \A m \in Names : j.last[m] = IF m = n THEN v ELSE h.last[m]
        BY HsLast
      <4> QED BY <4>1
    <3>4. hs' = j
      <4>1. [hs EXCEPT !.slots[k].val = v] = h
        BY <1>2, <3>1, <3>2 DEF Valued
      <4> QED BY <1>5, <2>0, <2>2, <3>3, <4>1 DEF HdrSet
    <3>5. SlotsOK(j.slots, j.count, j.bufs)
      BY <3>1, <3>2, <3>3
    <3>6. ASSUME ~j.dup PROVE ValuesOK(j.slots, j.count, j.last)
      <4>1. ValuesOK(q, c, l)
        BY <1>2, <3>2, <3>3, <3>6
      <4>2. PICK m : m = j.last
        OBVIOUS
      <4>3. IsSet(m, l, n, v)
        BY <3>2, <3>3, <4>2 DEF IsSet
      <4>4. ValuesOK(r, c, m)
        BY <1>3, <2>0, <3>1, <4>1, <4>3, SetValues
      <4> QED BY <3>2, <3>3, <4>2, <4>4
    <3> QED BY <3>4, <3>5, <3>6, HsBecomes
  <2> QED BY <2>1, <2>2
<1> QED BY <1>4, <1>5

LEMMA HdrDecodeStep == ASSUME HInv, NEW n \in Names, NEW v \in Vals, HdrDecode(n, v) PROVE HInv'
<1>1. /\ hs \in HsType /\ hs.slots \in Seq(SlotType) /\ hs.count \in Nat /\ hs.bufs \in Nat
      /\ SlotsOK(hs.slots, hs.count, hs.bufs) /\ (~hs.dup => ValuesOK(hs.slots, hs.count, hs.last))
      /\ hs.last \in [Names -> Vals \cup {None}]
  BY HsMember
<1>2. PICK q \in Seq(SlotType), c \in Nat, b \in Nat, l \in [Names -> Vals \cup {None}] :
        q = hs.slots /\ c = hs.count /\ b = hs.bufs /\ l = hs.last /\ SlotsOK(q, c, b) /\ (~hs.dup => ValuesOK(q, c, l))
  BY <1>1
<1>3. PICK w \in Vals \cup {None} : w = v
  OBVIOUS
<1>4. PICK h \in HsType :
            /\ h = HdrAdd(n, v) /\ SlotsOK(h.slots, h.count, h.bufs)
            /\ h.count = c + 1 /\ h.dup = hs.dup /\ h.last = l
            /\ \A i \in 1 .. c : h.slots[i] = q[i]
            /\ h.slots[h.count].name = n /\ h.slots[h.count].val = v
  BY <1>2, <1>3, HdrAddIs
<1>5. PICK y \in Vals \cup {None} : y = (IF Find(n) = 0 THEN v ELSE l[n])
  OBVIOUS
<1>6. PICK f \in HsType : /\ f = [h EXCEPT !.last[n] = y] /\ f.slots = h.slots /\ f.count = h.count /\ f.bufs = h.bufs
                          /\ f.dup = h.dup /\ \A m \in Names : f.last[m] = IF m = n THEN y ELSE h.last[m]
  <2>1. LET j == [h EXCEPT !.last[n] = y]
        IN  /\ j \in HsType /\ j.slots = h.slots /\ j.count = h.count /\ j.bufs = h.bufs /\ j.dup = h.dup
            /\ \A m \in Names : j.last[m] = IF m = n THEN y ELSE h.last[m]
    BY HsLast
  <2> QED BY <2>1
<1>7. PICK d \in BOOLEAN : d = (hs.dup \/ Find(n) # 0)
  OBVIOUS
<1>8. PICK j \in HsType : /\ j = [f EXCEPT !.dup = d] /\ j.slots = f.slots /\ j.count = f.count /\ j.bufs = f.bufs
                          /\ j.dup = d /\ j.last = f.last
  <2>1. LET j == [f EXCEPT !.dup = d]
        IN  j \in HsType /\ j.slots = f.slots /\ j.count = f.count /\ j.bufs = f.bufs /\ j.dup = d /\ j.last = f.last
    BY HsDup
  <2> QED BY <2>1
<1>9. hs' = j
  <2>1. hs' = [h EXCEPT !.last[n] = IF Find(n) = 0 THEN v ELSE @, !.dup = @ \/ Find(n) # 0]
    BY <1>4 DEF HdrDecode
  <2>2. [h EXCEPT !.last[n] = IF Find(n) = 0 THEN v ELSE @] = f
    BY <1>4, <1>5, <1>6
  <2>3. hs' = [f EXCEPT !.dup = @ \/ Find(n) # 0]
    BY <2>1, <2>2
  <2> QED BY <1>4, <1>6, <1>7, <1>8, <2>3
<1>10. SlotsOK(j.slots, j.count, j.bufs)
  BY <1>4, <1>6, <1>8
<1>11. ASSUME ~j.dup PROVE ValuesOK(j.slots, j.count, j.last)
  <2>1. Find(n) = 0 /\ ~hs.dup
    BY <1>7, <1>8, <1>11
  <2>2. ValuesOK(q, c, l) /\ \A i \in 1 .. c : q[i].name # n
    BY <1>2, <2>1, FindIs
  <2>3. PICK r, m : r = j.slots /\ m = j.last
    OBVIOUS
  <2>4. /\ \A i \in 1 .. c : r[i] = q[i]
        /\ r[c + 1].name = n /\ r[c + 1].val = v
        /\ IsSet(m, l, n, v)
    BY <1>4, <1>5, <1>6, <1>8, <2>1, <2>3 DEF IsSet
  <2>5. \A i \in 1 .. c : q[i].name \in Names
    BY <1>2 DEF SlotsOK
  <2>6. ValuesOK(r, c + 1, m)
    BY <2>2, <2>4, <2>5, AddValues
  <2> QED BY <1>4, <1>6, <1>8, <2>3, <2>6
<1> QED BY <1>9, <1>10, <1>11, HsBecomes

LEMMA NoHsOK ==
    NoHs \in HsType /\ SlotsOK(NoHs.slots, NoHs.count, NoHs.bufs) /\ ValuesOK(NoHs.slots, NoHs.count, NoHs.last)
<1>1. NoHs \in HsType
  <2>1. <<>> \in Seq(SlotType) /\ [n \in Names |-> None] \in [Names -> Vals \cup {None}]
    OBVIOUS
  <2> QED BY <2>1 DEF NoHs, HsType
<1>2. NoHs.slots = <<>> /\ NoHs.count = 0 /\ NoHs.bufs = 0 /\ NoHs.last = [n \in Names |-> None]
  BY DEF NoHs
<1>3. SlotsOK(<<>>, 0, 0)
  BY DEF SlotsOK
<1>4. ValuesOK(<<>>, 0, [n \in Names |-> None])
  BY DEF ValuesOK
<1> QED BY <1>1, <1>2, <1>3, <1>4

LEMMA HNext == HInv /\ [Next]_vars => HInv'
<1>1. SUFFICES ASSUME HInv, [Next]_vars PROVE HInv'
  OBVIOUS
<1>2. CASE UNCHANGED hs
  BY <1>1, <1>2 DEF HInv
<1>3. CASE \E n \in Names, v \in Vals \cup {None} : HdrSet(n, v)
  BY <1>1, <1>3, HdrSetStep
<1>4. CASE \E n \in Names, v \in Vals : HdrDecode(n, v)
  BY <1>1, <1>4, HdrDecodeStep
<1>5. CASE HdrDel
  BY <1>5, NoHsOK DEF HdrDel, HInv
<1>6. CASE User
  <2>1. \/ UNCHANGED hs \/ HdrDel
        \/ \E n \in Names, v \in Vals \cup {None} : HdrSet(n, v)
        \/ \E n \in Names, v \in Vals : HdrDecode(n, v)
    BY <1>6 DEF User, AddEngine, DelEngine, OpenListener, OpenClient, CloseListener, CloseClient, Accept,
       Connect, GetStream, DelConn, NewStream, Dup, DelStm, Send, Recv
  <2> QED BY <1>2, <1>3, <1>4, <1>5, <2>1
<1>7. CASE Callback
  BY <1>2, <1>7 DEF Callback, OnNewConn, OnHskDone, ConnCloses, StreamArrives, OnRead, OnWrite, StreamCloses, OnFreed
<1>8. CASE Tick \/ TickEnd \/ Cancel \/ Pop
  BY <1>2, <1>8 DEF Tick, TickEnd, Cancel, Pop
<1> QED BY <1>1, <1>2, <1>6, <1>7, <1>8 DEF Next, vars

(* A header set is in order after any calls, of any length, over any names  *)
(* and values: the headers are in the first slots, each buffer belongs to   *)
(* one slot, and a name set by the user is there once (dpqic_hdrset_set,    *)
(* dpqic_hdrset_add, _dpqic_cb_hsi_append).                                 *)
THEOREM HeadersKept == Spec => []HInv
<1>1. Init => HInv
  BY NoHsOK DEF Init, HInv
<1>2. HInv /\ [Next]_vars => HInv'
  BY HNext
<1> QED BY <1>1, <1>2, PTL DEF Spec

(* Each buffer of a header set belongs to one slot, and dpqic_hdrset_get    *)
(* returns the value that dpqic_hdrset_set was given last.                  *)
THEOREM HeadersGood == Spec => []HeadersSound
<1>1. HInv => HeadersSound
  <2>1. SUFFICES ASSUME HInv PROVE HeadersSound
    OBVIOUS
  <2>2. /\ hs.slots \in Seq(SlotType) /\ SlotsOK(hs.slots, hs.count, hs.bufs)
        /\ (~hs.dup => ValuesOK(hs.slots, hs.count, hs.last)) /\ DOMAIN hs.slots = 1 .. Len(hs.slots)
    BY <2>1, HsMember
  <2>3. \A i, j \in DOMAIN hs.slots : hs.slots[i].buf # 0 /\ i # j => hs.slots[i].buf # hs.slots[j].buf
    BY <2>2 DEF SlotsOK
  <2>4. ASSUME ~hs.dup, NEW n \in Names PROVE Get(n) = hs.last[n]
    <3>1. ValuesOK(hs.slots, hs.count, hs.last)
      BY <2>2, <2>4
    <3>2. CASE Find(n) = 0 /\ \A i \in 1 .. hs.count : hs.slots[i].name # n
      BY <3>1, <3>2 DEF ValuesOK, Get
    <3>3. CASE Find(n) \in 1 .. hs.count /\ hs.slots[Find(n)].name = n
      <4>1. hs.slots[Find(n)].val = hs.last[n]
        BY <3>1, <3>3 DEF ValuesOK
      <4>2. Find(n) # 0
        BY <2>1, <3>3, HsMember
      <4> QED BY <4>1, <4>2 DEF Get
    <3> QED BY <2>1, <3>2, <3>3, FindIs
  <2> QED BY <2>3, <2>4 DEF HeadersSound
<1> QED BY <1>1, HeadersKept, PTL
=============================================================================
