------------------------------ MODULE SslProofs ------------------------------
(***************************************************************************)
(* Proofs about TLS sessions (Ssl): who owns the TCP element, which        *)
(* protocol is selected, and that no operation waits for what is there.    *)
(***************************************************************************)
EXTENDS Ssl, SequenceTheorems, TLAPS

Dirs == {"IN", "OUT"}
Kinds == {None, "handshake", "shutdown", "recv", "send"}

Records ==
    [kind : {"hs"}, sni : Snis, offer : Offers] \cup [kind : {"data"}, n : 1 .. MaxData]
        \cup [kind : {"update", "alert"}]

GrpType == [role : Roles \cup {None}, alpns : Seq(Alpns), wire : Seq(Alpns),
            dirty : BOOLEAN, certs : SUBSET (Snis \cup {Default})]

(* Of a session the proofs use the role and the flights left.              *)
SsnTyped ==
    /\ DOMAIN ssn = {"role", "hs", "offer", "alpn", "best", "cert", "rshut"}
    /\ ssn.role \in Roles \cup {None} /\ ssn.hs \in Seq({"r", "w"})

OpType == [kind : Kinds, len : Nat, total : Nat, ret : Int]

IoTyped ==
    /\ op \in OpType /\ able \in SUBSET Dirs /\ want \in SUBSET Dirs
    /\ pc \in {"user", "prep", "post"}

SockTyped ==
    /\ batch \in SUBSET Dirs /\ edge \in BOOLEAN /\ nospace \in BOOLEAN
    /\ inq \in Seq(Records) /\ room \in 0 .. Cap /\ pend \in Nat

Types == grp \in GrpType /\ SsnTyped /\ IoTyped /\ SockTyped

(* The TCP element: the caller's until a session takes it over, freed once  *)
(* with the session or by the caller, unless epoll_ctl failed.              *)
Owned ==
    /\ tcp \in {"none", "own", "ssl", "freed"}
    /\ HasSsn => tcp = "ssl"
    /\ ~HasSsn => ssn = NoSsn
    /\ tcp = "none" => ~HasSsn /\ fd = "closed" /\ frees = 0
    /\ tcp = "own" => ~HasSsn /\ fd = "open" /\ frees = 0 /\ ~out.lost /\ pend = 0
    /\ tcp = "ssl" => HasSsn /\ fd = "open" /\ frees = 0 /\ ~out.lost
    /\ tcp = "freed" => ~HasSsn /\ fd = "closed" /\ (frees = 1 \/ out.lost)

(* The wire form is the list, or marked as out of date.                     *)
Wired ==
    /\ IsInjective(grp.alpns) /\ (grp.dirty \/ grp.wire = grp.alpns)
    /\ HasSsn => ssn.alpn = ssn.best

(* A readiness that is not recorded in able_events is not there, or epoll   *)
(* is about to report it; plaintext in the engine keeps IN recorded.        *)
Ready ==
    HasSsn =>
        /\ "IN" \in able \/ "IN" \in batch \/ edge \/ inq = <<>>
        /\ "OUT" \in able \/ "OUT" \in batch \/ edge \/ (room = 0 /\ nospace)
        /\ pend # 0 => "IN" \in able
        /\ ssn.hs # <<>> => pend = 0

(* An operation that waits wants one event, which is not recorded; a recv   *)
(* gives IN up only when it waits for it.                                   *)
Waits ==
    /\ op.kind # None => HasSsn
    /\ op.kind # None /\ pc = "user" => want \in {{"IN"}, {"OUT"}} /\ able \cap want = {}
    /\ op.kind = "recv" => pc # "prep" /\ ("IN" \in able \/ (pc = "user" /\ want = {"IN"}))

SInv == Types /\ Owned /\ Wired /\ Ready /\ Waits

-----------------------------------------------------------------------------
(* What the helpers of the operations do.                                  *)

LEMMA FinishDoes ==
    ASSUME IoTyped, NEW r \in Int, NEW inva, Finish(r, inva)
    PROVE  IoTyped' /\ op'.kind = None /\ able' = able \ inva /\ pc' = "user"
<1>1. op' = [op EXCEPT !.kind = None, !.ret = r]
  BY DEF Finish
<1>2. PICK n \in Kinds : n = None
  BY DEF Kinds
<1>3. [op EXCEPT !.kind = n, !.ret = r] \in OpType /\ [op EXCEPT !.kind = n, !.ret = r].kind = n
  BY DEF OpType, IoTyped
<1>4. op' \in OpType /\ op'.kind = None
  BY <1>1, <1>2, <1>3
<1> QED BY <1>4 DEF Finish, IoTyped

LEMMA LacksDoes ==
    ASSUME IoTyped, pc \in {"prep", "post"}, NEW ev \in Dirs, Lacks(ev)
    PROVE  /\ IoTyped' /\ able' \subseteq able /\ able \ {ev} \subseteq able'
           /\ \/ op'.kind = None
              \/ /\ op' = op /\ want' = {ev} /\ pc' \in {"user", "post"}
                 /\ pc' = "user" => ev \notin able'
                 /\ pc = "post" => pc' = "user"
<1>1. CASE pc = "prep"
  BY <1>1 DEF Lacks, WakeWith, IoTyped
<1>2. CASE pc = "post" /\ op.total > 0
  <2>1. op.total \in Int /\ Finish(op.total, {ev})
    BY <1>2 DEF Lacks, IoTyped, OpType
  <2> QED BY <2>1, FinishDoes
<1>3. CASE pc = "post" /\ ~(op.total > 0)
  BY <1>3 DEF Lacks, WakeWith, IoTyped
<1> QED BY <1>1, <1>2, <1>3

LEMMA FailsDoes ==
    ASSUME IoTyped, NEW r \in Int, Fails(r)
    PROVE  IoTyped' /\ op'.kind = None /\ able' = able /\ pc' = "user"
<1>1. PICK q : q = IF op.total > 0 THEN op.total ELSE r
  OBVIOUS
<1>2. q \in Int /\ Finish(q, {})
  BY <1>1 DEF Fails, IoTyped, OpType
<1>3. IoTyped' /\ op'.kind = None /\ able' = able \ {} /\ pc' = "user"
  BY <1>2, FinishDoes
<1> QED BY <1>3

-----------------------------------------------------------------------------
(* The registry.                                                           *)

GrpOK == grp \in GrpType /\ IsInjective(grp.alpns) /\ (grp.dirty \/ grp.wire = grp.alpns)

LEMMA RegistryKeeps ==
    ASSUME SInv, GrpOK', UNCHANGED <<errno, own, io, sock, made, sent>>
    PROVE  SInv'
<1>1. /\ UNCHANGED <<tcp, frees, fd, ssn, out>> /\ UNCHANGED <<able, want, op, pc>>
      /\ UNCHANGED <<edge, batch, inq, room, nospace, pend>>
  BY DEF own, io, sock
<1>2. Types'
  BY <1>1 DEF SInv, Types, SsnTyped, IoTyped, SockTyped, GrpOK
<1>3. Owned'
  BY <1>1 DEF SInv, Owned, HasSsn
<1>4. Wired'
  BY <1>1 DEF SInv, Wired, GrpOK, HasSsn
<1>5. Ready' /\ Waits'
  BY <1>1 DEF SInv, Ready, Waits, HasSsn
<1> QED BY <1>2, <1>3, <1>4, <1>5 DEF SInv

LEMMA NoGroupOK == NoGroup \in GrpType /\ NoGroup.alpns = <<>> /\ NoGroup.wire = <<>>
BY DEF NoGroup, GrpType

LEMMA RegistryStep == ASSUME SInv, Registry PROVE SInv'
<1>0. GrpOK
  BY DEF SInv, Types, Wired, GrpOK
<1>a. /\ UNCHANGED <<errno, own, io, sock, made, sent>> /\ pc = "user"
  BY DEF Registry, Add, DelGroup, AddAlpn, AddCert, DelCerts
<1> SUFFICES GrpOK'
  BY <1>a, RegistryKeeps
<1>1. ASSUME NEW r \in Roles, Add(r) PROVE GrpOK'
  <2>1. CASE HasGroup
    BY <1>0, <1>1, <2>1 DEF Add, GrpOK
  <2>2. CASE ~HasGroup
    <3>1. grp' = [NoGroup EXCEPT !.role = r]
      BY <1>1, <2>2 DEF Add
    <3>2. ASSUME NEW g \in GrpType
          PROVE  /\ [g EXCEPT !.role = r] \in GrpType /\ [g EXCEPT !.role = r].alpns = g.alpns
                 /\ [g EXCEPT !.role = r].wire = g.wire
      BY DEF GrpType
    <3>3. grp' \in GrpType /\ grp'.alpns = <<>> /\ grp'.wire = <<>>
      BY <3>1, <3>2, NoGroupOK
    <3> QED BY <3>3 DEF GrpOK, IsInjective
  <2> QED BY <2>1, <2>2
<1>2. CASE DelGroup
  <2>1. grp' = NoGroup
    BY <1>2 DEF DelGroup
  <2>2. grp' \in GrpType /\ grp'.alpns = <<>> /\ grp'.wire = <<>>
    BY <2>1, NoGroupOK
  <2> QED BY <2>2 DEF GrpOK, IsInjective
<1>3. ASSUME NEW a \in Alpns, AddAlpn(a) PROVE GrpOK'
  <2>1. PICK s : s = Append(grp.alpns, a)
    OBVIOUS
  <2>2. grp' = [grp EXCEPT !.alpns = s, !.dirty = TRUE] /\ ~Contains(grp.alpns, a)
    BY <1>3, <2>1 DEF AddAlpn
  <2>3. PICK l \in Nat : Len(grp.alpns) = l /\ DOMAIN grp.alpns = 1 .. l /\ grp.alpns \in Seq(Alpns)
    BY <1>0 DEF GrpOK, GrpType
  <2>4. /\ s \in Seq(Alpns) /\ DOMAIN s = 1 .. l + 1 /\ s[l + 1] = a
        /\ \A i \in 1 .. l : s[i] = grp.alpns[i] /\ grp.alpns[i] # a
    BY <2>1, <2>2, <2>3 DEF Contains
  <2>5. IsInjective(s)
    <3> SUFFICES ASSUME NEW i \in 1 .. l + 1, NEW j \in 1 .. l + 1, s[i] = s[j] PROVE i = j
      BY <2>4 DEF IsInjective
    <3>1. (i \in 1 .. l \/ i = l + 1) /\ (j \in 1 .. l \/ j = l + 1)
      OBVIOUS
    <3>2. \A x, y \in 1 .. l : grp.alpns[x] = grp.alpns[y] => x = y
      BY <1>0, <2>3 DEF GrpOK, IsInjective
    <3> QED BY <2>4, <3>1, <3>2
  <2>6. PICK y \in BOOLEAN : y = TRUE
    OBVIOUS
  <2>7. /\ [grp EXCEPT !.alpns = s, !.dirty = y] \in GrpType
        /\ [grp EXCEPT !.alpns = s, !.dirty = y].alpns = s
        /\ [grp EXCEPT !.alpns = s, !.dirty = y].dirty = y
    BY <1>0, <2>4 DEF GrpOK, GrpType
  <2> QED BY <2>2, <2>5, <2>6, <2>7 DEF GrpOK
<1>4. ASSUME NEW c \in SUBSET (Snis \cup {Default}), grp' = [grp EXCEPT !.certs = c] PROVE GrpOK'
  <2>1. grp' \in GrpType /\ grp'.alpns = grp.alpns /\ grp'.wire = grp.wire /\ grp'.dirty = grp.dirty
    BY <1>0, <1>4 DEF GrpOK, GrpType
  <2> QED BY <1>0, <2>1 DEF GrpOK
<1>5. ASSUME NEW s \in Snis \cup {Default}, AddCert(s) PROVE GrpOK'
  <2>1. grp.certs \cup {s} \in SUBSET (Snis \cup {Default})
    BY <1>0 DEF GrpOK, GrpType
  <2>2. grp' = [grp EXCEPT !.certs = grp.certs \cup {s}]
    BY <1>5 DEF AddCert
  <2> QED BY <1>4, <2>1, <2>2
<1>6. ASSUME NEW ss \in SUBSET (Snis \cup {Default}), DelCerts(ss) PROVE GrpOK'
  <2>1. grp.certs \ ss \in SUBSET (Snis \cup {Default})
    BY <1>0 DEF GrpOK, GrpType
  <2>2. grp' = [grp EXCEPT !.certs = grp.certs \ ss]
    BY <1>6 DEF DelCerts
  <2> QED BY <1>4, <2>1, <2>2
<1> QED BY <1>1, <1>2, <1>3, <1>5, <1>6 DEF Registry

LEMMA SyncedOK ==
    ASSUME GrpOK
    PROVE  /\ Synced(grp) \in GrpType /\ Synced(grp).alpns = grp.alpns
           /\ Synced(grp).wire = grp.alpns
<1>1. CASE grp.dirty
  <2>1. PICK y \in BOOLEAN, w \in Seq(Alpns) : y = FALSE /\ w = grp.alpns
    BY DEF GrpOK, GrpType
  <2>2. /\ [grp EXCEPT !.wire = w, !.dirty = y] \in GrpType
        /\ [grp EXCEPT !.wire = w, !.dirty = y].alpns = grp.alpns
        /\ [grp EXCEPT !.wire = w, !.dirty = y].wire = w
    BY DEF GrpOK, GrpType
  <2> QED BY <1>1, <2>1, <2>2 DEF Synced
<1>2. CASE ~grp.dirty
  BY <1>2 DEF Synced, GrpOK
<1> QED BY <1>1, <1>2

-----------------------------------------------------------------------------
(* Sessions.                                                               *)

LEMMA NoSsnOK ==
    /\ DOMAIN NoSsn = {"role", "hs", "offer", "alpn", "best", "cert", "rshut"}
    /\ NoSsn.role = None /\ NoSsn.hs = <<>> /\ NoSsn.alpn = NoSsn.best
BY DEF NoSsn

LEMMA IdleOK == Idle \in OpType /\ Idle.kind = None
BY DEF Idle, OpType, Kinds

LEMMA EmptySock == {} \in SUBSET Dirs /\ <<>> \in Seq(Records) /\ <<>> \in Seq({"r", "w"})
OBVIOUS

LEMMA ConnectStep == ASSUME SInv, Connect PROVE SInv'
<1>1. /\ tcp' = "own" /\ frees' = 0 /\ fd' = "open" /\ out' = NoOut /\ edge' = TRUE /\ batch' = {}
      /\ inq' = <<>> /\ room' = Cap /\ nospace' = FALSE /\ pend' = 0 /\ able' = {} /\ want' = {}
      /\ op' = Idle /\ grp' = grp /\ ssn' = ssn /\ pc' = pc /\ ~HasSsn
  BY NoSsnOK DEF Connect, HasSsn
<1>2. ~HasSsn' /\ ~out'.lost /\ op'.kind = None
  BY <1>1, IdleOK DEF HasSsn, NoOut
<1>3. Types'
  <2>1. SockTyped'
    <3>1. Cap \in 0 .. Cap
      BY SslAssumption
    <3>2. batch' \in SUBSET Dirs /\ inq' \in Seq(Records) /\ room' \in 0 .. Cap
      BY <1>1, <3>1, EmptySock
    <3>3. edge' \in BOOLEAN /\ nospace' \in BOOLEAN /\ pend' \in Nat
      BY <1>1
    <3> QED BY <3>2, <3>3 DEF SockTyped
  <2>2. IoTyped'
    BY <1>1, IdleOK, EmptySock DEF SInv, Types, IoTyped
  <2> QED BY <1>1, <2>1, <2>2 DEF SInv, Types, SsnTyped
<1>4. Owned'
  BY <1>1, <1>2 DEF SInv, Owned
<1>5. Wired'
  BY <1>1, <1>2 DEF SInv, Wired
<1>6. Ready' /\ Waits'
  BY <1>1, <1>2 DEF Ready, Waits, Kinds, None
<1> QED BY <1>3, <1>4, <1>5, <1>6 DEF SInv

LEMMA FlightsOK == \A r \in Roles : Flights(r) \in Seq({"r", "w"})
<1>1. \A a, b \in {"r", "w"} : <<a, b, a>> \in Seq({"r", "w"})
  OBVIOUS
<1>2. "r" \in {"r", "w"} /\ "w" \in {"r", "w"}
  OBVIOUS
<1>3. <<"r", "w", "r">> \in Seq({"r", "w"}) /\ <<"w", "r", "w">> \in Seq({"r", "w"})
  BY <1>1, <1>2
<1> QED BY <1>3 DEF Flights

LEMMA NewSessionStep == ASSUME SInv, NEW r \in Roles, NewSession(r) PROVE SInv'
<1>1. /\ tcp = "own" /\ pc = "user" /\ ~HasSsn /\ fd = "open" /\ frees = 0 /\ ~out.lost /\ pend = 0
      /\ ssn = NoSsn
      /\ UNCHANGED <<able, want, op, pc>> /\ UNCHANGED <<batch, inq, room, nospace, pend>>
  BY DEF NewSession, SInv, Owned, io
<1>2. op.kind = None /\ op'.kind = None
  BY <1>1 DEF SInv, Waits
<1>g. GrpOK
  BY DEF SInv, Types, Wired, GrpOK
<1>3. CASE /\ tcp' = "ssl" /\ edge' = TRUE /\ out' = [NoOut EXCEPT !.ele = TRUE]
           /\ UNCHANGED <<frees, fd>>
           /\ grp' = IF r = "client" /\ grp.alpns # <<>> THEN Synced(grp) ELSE grp
           /\ ssn' = [NoSsn EXCEPT !.role = r, !.hs = Flights(r),
                                   !.offer = IF r = "client" THEN grp'.wire ELSE <<>>]
  <2>1. /\ DOMAIN ssn' = {"role", "hs", "offer", "alpn", "best", "cert", "rshut"}
        /\ ssn'.role = r /\ ssn'.hs = Flights(r) /\ ssn'.alpn = ssn'.best
    BY <1>3, NoSsnOK
  <2>2. HasSsn' /\ ~out'.lost
    BY <1>3, <2>1 DEF HasSsn, Roles, None, NoOut
  <2>3. GrpOK'
    BY <1>g, <1>3, SyncedOK DEF GrpOK
  <2>4. Types'
    BY <1>1, <1>3, <2>1, <2>3, FlightsOK DEF SInv, Types, SsnTyped, IoTyped, SockTyped, GrpOK
  <2>5. Owned'
    BY <1>1, <1>3, <2>2 DEF Owned
  <2>6. Wired'
    BY <2>1, <2>3 DEF Wired, GrpOK
  <2>7. Ready' /\ Waits'
    BY <1>1, <1>2, <1>3 DEF Ready, Waits, Kinds, None
  <2> QED BY <2>4, <2>5, <2>6, <2>7 DEF SInv
<1>4. CASE /\ tcp' = "freed" /\ fd' = "closed" /\ UNCHANGED <<grp, ssn, edge>>
           /\ frees' = 1 \/ out'.lost
  <2>1. ~HasSsn'
    BY <1>1, <1>4 DEF HasSsn
  <2>2. Types'
    BY <1>1, <1>4 DEF SInv, Types, SsnTyped, IoTyped, SockTyped
  <2>3. Owned'
    BY <1>1, <1>4, <2>1 DEF Owned
  <2>4. Wired'
    BY <1>4, <2>1 DEF SInv, Wired
  <2>5. Ready' /\ Waits'
    BY <1>2, <2>1 DEF Ready, Waits, Kinds, None
  <2> QED BY <2>2, <2>3, <2>4, <2>5 DEF SInv
<1>5. ASSUME NEW b \in BOOLEAN, out' = [ret |-> errno, ele |-> FALSE, lost |-> b] PROVE out'.lost = b
  BY <1>5
<1>6. \/ /\ HasGroup /\ grp.role = r
         /\ grp' = IF r = "client" /\ grp.alpns # <<>> THEN Synced(grp) ELSE grp
         /\ ssn' = [NoSsn EXCEPT !.role = r, !.hs = Flights(r),
                                 !.offer = IF r = "client" THEN grp'.wire ELSE <<>>]
         /\ tcp' = "ssl" /\ edge' = TRUE /\ out' = [NoOut EXCEPT !.ele = TRUE]
         /\ UNCHANGED <<frees, fd>>
      \/ tcp' = "freed" /\ frees' = frees + 1 /\ fd' = "closed" /\ UNCHANGED <<grp, ssn, edge>>
      \/ /\ tcp' = "freed" /\ fd' = "closed" /\ UNCHANGED <<grp, ssn, edge>>
         /\ out' = [ret |-> errno, ele |-> FALSE, lost |-> TRUE]
  BY Zenon DEF NewSession
<1>7. CASE tcp' = "freed" /\ frees' = frees + 1 /\ fd' = "closed" /\ UNCHANGED <<grp, ssn, edge>>
  <2>1. frees' = 1
    BY <1>1, <1>7
  <2> QED BY <1>4, <1>7, <2>1
<1>8. CASE /\ tcp' = "freed" /\ fd' = "closed" /\ UNCHANGED <<grp, ssn, edge>>
           /\ out' = [ret |-> errno, ele |-> FALSE, lost |-> TRUE]
  <2>1. out'.lost
    BY <1>8
  <2> QED BY <1>4, <1>8, <2>1
<1> QED BY <1>3, <1>6, <1>7, <1>8

LEMMA DelSessionStep == ASSUME SInv, DelSession PROVE SInv'
<1>1. /\ HasSsn /\ op.kind = None /\ ssn' = NoSsn /\ tcp' = "freed" /\ frees' = frees + 1
      /\ fd' = "closed" /\ able' = {} /\ batch' = {} /\ edge' = FALSE /\ UNCHANGED <<grp, out>>
      /\ UNCHANGED <<want, op, pc>> /\ UNCHANGED <<inq, room, nospace, pend>>
  BY DEF DelSession, group
<1>2. ~HasSsn' /\ frees' = 1
  BY <1>1, NoSsnOK DEF HasSsn, SInv, Owned
<1>3. Types'
  <2>1. SockTyped' /\ IoTyped'
    BY <1>1, EmptySock DEF SInv, Types, IoTyped, SockTyped
  <2>2. SsnTyped'
    BY <1>1, NoSsnOK, EmptySock DEF SsnTyped
  <2> QED BY <1>1, <2>1, <2>2 DEF SInv, Types
<1>4. Owned'
  BY <1>1, <1>2 DEF Owned
<1>5. Wired'
  BY <1>1, <1>2 DEF SInv, Wired
<1>6. Ready' /\ Waits'
  BY <1>1, <1>2 DEF Ready, Waits, Kinds, None
<1> QED BY <1>3, <1>4, <1>5, <1>6 DEF SInv

-----------------------------------------------------------------------------
(* Operations: the session stays, and with it the TCP element.             *)

SsnOK == SsnTyped /\ HasSsn /\ ssn.alpn = ssn.best

LEMMA SessionKeeps ==
    ASSUME SInv, HasSsn, UNCHANGED <<tcp, frees, fd, out>>, GrpOK', SsnOK', IoTyped', SockTyped',
           Ready', Waits'
    PROVE  SInv'
<1>1. Types'
  BY DEF Types, GrpOK, SsnOK
<1>2. Owned'
  BY DEF SInv, Owned, SsnOK
<1>3. Wired'
  BY DEF Wired, GrpOK, SsnOK
<1> QED BY <1>1, <1>2, <1>3 DEF SInv

LEMMA Parts ==
    ASSUME SInv
    PROVE  GrpOK /\ IoTyped /\ SockTyped /\ Ready /\ Waits /\ Owned /\ (HasSsn => SsnOK)
BY DEF SInv, Types, Wired, GrpOK, SsnOK

LEMMA SameSsn == ASSUME SsnOK, ssn' = ssn PROVE SsnOK'
BY DEF SsnOK, SsnTyped, HasSsn

LEMMA SameGrp == ASSUME GrpOK, grp' = grp PROVE GrpOK'
BY DEF GrpOK

LEMMA SameIo == ASSUME IoTyped, UNCHANGED io PROVE IoTyped'
BY DEF IoTyped, io

(* A flight is done; an update asks for one more.                          *)
LEMMA NextFlight ==
    ASSUME SsnOK, NEW s \in Seq({"r", "w"}), ssn' = [ssn EXCEPT !.hs = s]
    PROVE  SsnOK' /\ ssn'.hs = s
BY DEF SsnOK, SsnTyped, HasSsn

LEMMA StartStep == ASSUME SInv, NEW k \in Kinds \ {None}, NEW n \in Nat, Start(k, n) PROVE SInv'
<1>0. GrpOK /\ IoTyped /\ SockTyped /\ Ready /\ Waits /\ HasSsn /\ SsnOK /\ pc = "user"
  BY Parts DEF Start
<1>1. /\ UNCHANGED <<tcp, frees, fd, out>> /\ ssn' = ssn /\ grp' = grp
      /\ UNCHANGED <<edge, batch, inq, room, nospace, pend>>
      /\ op' = [kind |-> k, len |-> n, total |-> 0, ret |-> 0]
  BY DEF Start, own, group, sock
<1>2. op' \in OpType /\ op'.kind = k
  BY <1>1 DEF OpType
<1>3. \/ k = "recv" /\ WakeWith(able, {"IN"})
      \/ k = "send" /\ WakeWith(able, {"OUT"})
      \/ k \notin {"recv", "send"} /\ pc' = "prep" /\ UNCHANGED <<able, want>>
  BY DEF Start
<1>4. GrpOK' /\ SsnOK' /\ SockTyped'
  BY <1>0, <1>1, SameSsn, SameGrp DEF SockTyped
<1>5. IoTyped'
  BY <1>0, <1>2, <1>3 DEF IoTyped, WakeWith, Dirs
<1>6. Ready'
  BY <1>0, <1>1, <1>3 DEF Ready, WakeWith, HasSsn
<1>7. Waits'
  BY <1>0, <1>1, <1>2, <1>3, <1>4 DEF Waits, WakeWith, SsnOK
<1> QED BY <1>0, <1>1, <1>4, <1>5, <1>6, <1>7, SessionKeeps

(* What the operations of the engine start from.                           *)
LEMMA EngineParts ==
    ASSUME SInv, NEW k, Running(k)
    PROVE  /\ GrpOK /\ IoTyped /\ SockTyped /\ Ready /\ Waits /\ HasSsn /\ SsnOK
           /\ pc \in {"prep", "post"} /\ op.kind \in k
BY Parts DEF Running

(* An operation that lacks what is not there waits.                        *)
LEMMA LacksKeeps ==
    ASSUME SInv, HasSsn, pc \in {"prep", "post"}, op.kind # None, NEW ev \in Dirs, Lacks(ev),
           UNCHANGED <<grp, tcp, frees, fd, out, ssn, edge, batch, inq, room, pend>>,
           ev = "IN" => inq = <<>> /\ pend = 0 /\ nospace' = nospace,
           ev = "OUT" => room = 0 /\ nospace' = TRUE
    PROVE  SInv'
<1>0. GrpOK /\ IoTyped /\ SockTyped /\ Ready /\ Waits /\ SsnOK
  BY Parts
<1>1. /\ IoTyped' /\ able' \subseteq able /\ able \ {ev} \subseteq able'
      /\ \/ op'.kind = None
         \/ /\ op' = op /\ want' = {ev} /\ pc' \in {"user", "post"}
            /\ pc' = "user" => ev \notin able'
            /\ pc = "post" => pc' = "user"
  BY <1>0, LacksDoes
<1>2. GrpOK' /\ SsnOK' /\ HasSsn'
  BY <1>0, SameSsn, SameGrp DEF SsnOK
<1>3. SockTyped'
  BY <1>0 DEF SockTyped, Dirs
<1>4. Ready'
  <2>1. CASE ev = "IN"
    BY <1>0, <1>1, <2>1 DEF Ready
  <2>2. CASE ev = "OUT"
    BY <1>0, <1>1, <2>2 DEF Ready
  <2> QED BY <2>1, <2>2 DEF Dirs
<1>5. Waits'
  <2>1. CASE op'.kind = None
    BY <1>2, <2>1 DEF Waits, None
  <2>2. CASE /\ op' = op /\ want' = {ev} /\ pc' \in {"user", "post"}
             /\ pc' = "user" => ev \notin able'
             /\ pc = "post" => pc' = "user"
    BY <1>0, <1>1, <1>2, <2>2 DEF Waits, Dirs
  <2> QED BY <1>1, <2>1, <2>2
<1> QED BY <1>1, <1>2, <1>3, <1>4, <1>5, SessionKeeps

(* An operation that ends with all events kept.                            *)
LEMMA EndKeeps ==
    ASSUME SInv, HasSsn, UNCHANGED <<tcp, frees, fd, out>>, GrpOK', SsnOK', IoTyped', SockTyped',
           op'.kind = None, able' = able, pc' = "user", UNCHANGED <<edge, batch>>,
           inq = <<>> => inq' = <<>>,
           (room = 0 /\ nospace) => (room' = 0 /\ nospace'),
           pend' # 0 => pend # 0, ssn'.hs # <<>> => ssn.hs # <<>>
    PROVE  SInv'
<1>1. Waits'
  BY DEF Waits, None
<1>2. Ready'
  BY Parts DEF Ready, SsnOK
<1> QED BY <1>1, <1>2, SessionKeeps

(* The engine goes on: a step that leaves the operation where it is.       *)
LEMMA GoesOn ==
    ASSUME SInv, HasSsn, UNCHANGED <<tcp, frees, fd, out>>, GrpOK', SsnOK', SockTyped',
           IoTyped', op'.kind = op.kind, UNCHANGED <<able, want, pc>>, pc # "user",
           UNCHANGED <<edge, batch>>,
           inq = <<>> => inq' = <<>>,
           (room = 0 /\ nospace) => (room' = 0 /\ nospace'),
           pend' # 0 => "IN" \in able, ssn'.hs # <<>> => pend' = 0
    PROVE  SInv'
<1>1. Waits'
  BY Parts DEF Waits, SsnOK
<1>2. Ready'
  BY Parts DEF Ready, SsnOK
<1> QED BY <1>1, <1>2, SessionKeeps

LEMMA TailOK ==
    ASSUME NEW S, NEW s \in Seq(S), s # <<>>
    PROVE  Tail(s) \in Seq(S) /\ Head(s) \in S
OBVIOUS

(* _dpssl_alpn_select over the wire form gives what the list gives.        *)
LEMMA SelectOK ==
    ASSUME GrpOK, SsnOK, ssn.hs # <<>>, NEW name, NEW offer, Select(name, offer)
    PROVE  GrpOK' /\ SsnOK'
<1>1. grp' = Synced(grp) /\ grp' \in GrpType /\ grp'.alpns = grp.alpns /\ grp'.wire = grp.alpns
  BY SyncedOK DEF Select
<1>2. GrpOK'
  BY <1>1 DEF GrpOK
<1>3. PICK a : a = FirstCommon(offer, grp.alpns)
  OBVIOUS
<1>4. PICK h \in Seq({"r", "w"}) : h = Tail(ssn.hs)
  BY TailOK DEF SsnOK, SsnTyped
<1>5. ssn' = [ssn EXCEPT !.hs = h, !.offer = offer, !.cert = CertFor(name), !.alpn = a, !.best = a]
  BY <1>1, <1>3, <1>4 DEF Select
<1>6. /\ DOMAIN ssn' = DOMAIN ssn /\ ssn'.role = ssn.role /\ ssn'.hs = h
      /\ ssn'.alpn = a /\ ssn'.best = a
  BY <1>5 DEF SsnOK, SsnTyped
<1> QED BY <1>2, <1>6 DEF SsnOK, SsnTyped, HasSsn

LEMMA ReadFlightStep == ASSUME SInv, ReadFlight PROVE SInv'
<1>0. /\ GrpOK /\ IoTyped /\ SockTyped /\ Ready /\ Waits /\ HasSsn /\ SsnOK
      /\ pc \in {"prep", "post"} /\ op.kind \in {"handshake", "recv", "send"}
  BY EngineParts DEF ReadFlight
<1>1. /\ ssn.hs # <<>> /\ UNCHANGED <<tcp, frees, fd, out>> /\ UNCHANGED <<edge, batch, room, nospace, pend>>
  BY DEF ReadFlight
<1>2. pend = 0 /\ op.kind # None
  BY <1>0, <1>1 DEF Ready, None
<1>3. CASE inq = <<>>
  <2>1. Lacks("IN") /\ UNCHANGED <<grp, ssn, inq>>
    BY <1>3 DEF ReadFlight
  <2>2. "IN" \in Dirs
    BY DEF Dirs
  <2> QED BY <1>0, <1>1, <1>2, <1>3, <2>1, <2>2, LacksKeeps
<1>4. CASE inq # <<>>
  <2>1. inq' = Tail(inq)
    BY <1>4 DEF ReadFlight
  <2>2. SockTyped'
    BY <1>0, <1>1, <1>4, <2>1, TailOK DEF SockTyped
  <2>3. ASSUME GrpOK', SsnOK', UNCHANGED io PROVE SInv'
    <3>1. IoTyped' /\ op'.kind = op.kind /\ UNCHANGED <<able, want, pc>> /\ pc # "user"
      BY <1>0, <2>3, SameIo DEF io
    <3> QED BY <1>0, <1>1, <1>2, <1>4, <2>2, <2>3, <3>1, GoesOn
  <2>4. ASSUME NEW h, Select(h.sni, h.offer), UNCHANGED io PROVE SInv'
    <3>1. GrpOK' /\ SsnOK'
      BY <1>0, <1>1, <2>4, SelectOK
    <3> QED BY <2>3, <2>4, <3>1
  <2>5. ASSUME grp' = Synced(grp), Fails(InternalError), ssn' = ssn PROVE SInv'
    <3>1. GrpOK' /\ SsnOK'
      BY <1>0, <2>5, SyncedOK, SameSsn DEF GrpOK
    <3>2. InternalError \in Int
      BY DEF InternalError
    <3>3. IoTyped' /\ op'.kind = None /\ able' = able /\ pc' = "user"
      BY <1>0, <2>5, <3>2, FailsDoes
    <3> QED BY <1>0, <1>1, <1>4, <2>2, <2>5, <3>1, <3>3, EndKeeps
  <2>6. ASSUME ssn' = [ssn EXCEPT !.hs = Tail(ssn.hs)], grp' = grp, UNCHANGED io PROVE SInv'
    <3>1. PICK s \in Seq({"r", "w"}) : s = Tail(ssn.hs)
      BY <1>0, <1>1, TailOK DEF SsnOK, SsnTyped
    <3>2. SsnOK' /\ GrpOK'
      BY <1>0, <2>6, <3>1, NextFlight, SameGrp
    <3> QED BY <2>3, <2>6, <3>2
  <2>7. \/ \E h : Select(h.sni, h.offer) /\ UNCHANGED io
        \/ grp' = Synced(grp) /\ Fails(InternalError) /\ ssn' = ssn
        \/ ssn' = [ssn EXCEPT !.hs = Tail(ssn.hs)] /\ grp' = grp /\ UNCHANGED io
    BY <1>4, Zenon DEF ReadFlight
  <2> QED BY <2>4, <2>5, <2>6, <2>7
<1> QED BY <1>3, <1>4

LEMMA WriteFlightStep == ASSUME SInv, WriteFlight PROVE SInv'
<1>0. /\ GrpOK /\ IoTyped /\ SockTyped /\ Ready /\ Waits /\ HasSsn /\ SsnOK
      /\ pc \in {"prep", "post"} /\ op.kind \in {"handshake", "recv", "send"}
  BY EngineParts DEF WriteFlight
<1>1. /\ ssn.hs # <<>> /\ UNCHANGED <<tcp, frees, fd, out>> /\ grp' = grp
      /\ UNCHANGED <<edge, batch, inq, pend>>
  BY DEF WriteFlight, group
<1>2. pend = 0 /\ op.kind # None
  BY <1>0, <1>1 DEF Ready, None
<1>3. CASE room = 0
  <2>1. Lacks("OUT") /\ nospace' = TRUE /\ UNCHANGED <<ssn, room>>
    BY <1>3 DEF WriteFlight
  <2>2. "OUT" \in Dirs
    BY DEF Dirs
  <2> QED BY <1>0, <1>1, <1>2, <1>3, <2>1, <2>2, LacksKeeps
<1>4. CASE room # 0
  <2>1. room' = room - 1 /\ ssn' = [ssn EXCEPT !.hs = Tail(ssn.hs)] /\ UNCHANGED io /\ nospace' = nospace
    BY <1>4 DEF WriteFlight
  <2>2. PICK s \in Seq({"r", "w"}) : s = Tail(ssn.hs)
    BY <1>0, <1>1, TailOK DEF SsnOK, SsnTyped
  <2>3. SsnOK' /\ GrpOK'
    BY <1>0, <1>1, <2>1, <2>2, NextFlight, SameGrp
  <2>4. SockTyped'
    BY <1>0, <1>1, <1>4, <2>1, SslAssumption DEF SockTyped
  <2>5. IoTyped' /\ op'.kind = op.kind /\ UNCHANGED <<able, want, pc>> /\ pc # "user"
    BY <1>0, <2>1, SameIo DEF io
  <2> QED BY <1>0, <1>1, <1>2, <1>4, <2>3, <2>4, <2>5, GoesOn
<1> QED BY <1>3, <1>4

LEMMA HandshakeStep == ASSUME SInv, HandshakeDone PROVE SInv'
<1>0. /\ GrpOK /\ IoTyped /\ SockTyped /\ Ready /\ HasSsn /\ SsnOK
  BY EngineParts DEF HandshakeDone
<1>1. /\ UNCHANGED <<tcp, frees, fd, out>> /\ grp' = grp /\ ssn' = ssn
      /\ UNCHANGED <<edge, batch, inq, room, nospace, pend>> /\ Finish(0, {})
  BY DEF HandshakeDone, group, own, sock
<1>2. IoTyped' /\ op'.kind = None /\ able' = able \ {} /\ pc' = "user"
  BY <1>0, <1>1, FinishDoes
<1>3. GrpOK' /\ SsnOK' /\ SockTyped'
  BY <1>0, <1>1, SameGrp, SameSsn DEF SockTyped
<1> QED BY <1>0, <1>1, <1>2, <1>3, EndKeeps

LEMMA CancelStep == ASSUME SInv, Cancel PROVE SInv'
<1>0. /\ GrpOK /\ IoTyped /\ SockTyped /\ Ready /\ HasSsn /\ SsnOK
  BY Parts DEF Cancel, Waits
<1>1. /\ UNCHANGED <<tcp, frees, fd, out>> /\ grp' = grp /\ ssn' = ssn
      /\ UNCHANGED <<edge, batch, inq, room, nospace, pend>> /\ Finish(TIME, {})
  BY DEF Cancel, group, own, sock
<1>2. IoTyped' /\ op'.kind = None /\ able' = able \ {} /\ pc' = "user"
  <2>1. TIME \in Int
    BY DEF TIME
  <2> QED BY <1>0, <1>1, <2>1, FinishDoes
<1>3. GrpOK' /\ SsnOK' /\ SockTyped'
  BY <1>0, <1>1, SameGrp, SameSsn DEF SockTyped
<1> QED BY <1>0, <1>1, <1>2, <1>3, EndKeeps

LEMMA ReadDataStep == ASSUME SInv, ReadData PROVE SInv'
<1>0. /\ GrpOK /\ IoTyped /\ SockTyped /\ Ready /\ Waits /\ HasSsn /\ SsnOK
      /\ pc \in {"prep", "post"} /\ op.kind = "recv" /\ op.kind # None
  BY EngineParts DEF ReadData, None
<1>1. /\ ssn.hs = <<>> /\ UNCHANGED <<tcp, frees, fd, out>> /\ grp' = grp
      /\ UNCHANGED <<edge, batch, room, nospace>> /\ GrpOK'
  BY <1>0, SameGrp DEF ReadData, group
<1>2. "IN" \in able /\ pc # "user"
  BY <1>0 DEF Waits
<1>3. CASE pend > 0
  <2>1. PICK k : k = IF pend < op.len - op.total THEN pend ELSE op.len - op.total
    OBVIOUS
  <2>2. /\ pend' = pend - k /\ ssn' = ssn /\ inq' = inq
        /\ IF op.total + k = op.len THEN Finish(op.len, {})
           ELSE op' = [op EXCEPT !.total = op.total + k] /\ UNCHANGED <<able, want, pc>>
    BY <1>3, <2>1 DEF ReadData
  <2>3. op.len \in Nat /\ op.total \in Nat /\ pend \in Nat /\ k \in Int /\ pend - k \in Nat
    BY <1>0, <2>1 DEF IoTyped, OpType, SockTyped
  <2>4. SsnOK' /\ SockTyped' /\ ssn'.hs = <<>>
    BY <1>0, <1>1, <2>2, <2>3, SameSsn DEF SockTyped
  <2>5. CASE op.total + k = op.len
    <3>0. PICK l \in Int : l = op.len
      BY <2>3
    <3>a. Finish(l, {})
      BY <2>2, <2>5, <3>0
    <3>1. IoTyped' /\ op'.kind = None /\ able' = able \ {} /\ pc' = "user"
      BY <1>0, <3>a, FinishDoes
    <3>2. pend' # 0 => pend # 0
      BY <1>3
    <3> QED BY <1>0, <1>1, <2>2, <2>4, <3>1, <3>2, EndKeeps
  <2>6. CASE op.total + k # op.len
    <3>1. op' = [op EXCEPT !.total = op.total + k] /\ UNCHANGED <<able, want, pc>>
      BY <2>2, <2>6
    <3>2. op.total + k \in Nat
      BY <1>3, <2>1, <2>3
    <3>3. op' \in OpType /\ op'.kind = op.kind
      BY <1>0, <3>1, <3>2 DEF IoTyped, OpType
    <3>4. IoTyped'
      BY <1>0, <3>1, <3>3 DEF IoTyped
    <3> QED BY <1>0, <1>1, <1>2, <2>2, <2>4, <3>1, <3>3, <3>4, GoesOn
  <2> QED BY <2>5, <2>6
<1>4. CASE pend = 0 /\ inq = <<>>
  <2>1. Lacks("IN") /\ UNCHANGED <<ssn, inq, pend>>
    BY <1>4 DEF ReadData
  <2>2. "IN" \in Dirs
    BY DEF Dirs
  <2> QED BY <1>0, <1>1, <1>4, <2>1, <2>2, LacksKeeps
<1>5. CASE pend = 0 /\ inq # <<>>
  <2>0. Tail(inq) \in Seq(Records) /\ Head(inq) \in Records
    BY <1>0, <1>5, TailOK DEF SockTyped
  <2>1. PICK h \in Records : h = Head(inq)
    BY <2>0
  <2>2. \/ h.kind = "data" /\ pend' = h.n /\ inq' = Tail(inq) /\ UNCHANGED io /\ ssn' = ssn
        \/ /\ ssn' = [ssn EXCEPT !.hs = <<"w">>] /\ inq' = Tail(inq) /\ UNCHANGED io /\ pend' = pend
        \/ /\ ssn' = [ssn EXCEPT !.rshut = TRUE] /\ Fails(CONNRESET) /\ pend' = pend /\ inq' = inq
    BY <1>5, <2>1 DEF ReadData
  <2>3. CASE h.kind = "data" /\ pend' = h.n /\ inq' = Tail(inq) /\ UNCHANGED io /\ ssn' = ssn
    <3>1. h.n \in Nat
      BY <2>1, <2>3, SslAssumption DEF Records
    <3>2. SockTyped' /\ SsnOK' /\ ssn'.hs = <<>>
      BY <1>0, <1>1, <2>0, <2>3, <3>1, SameSsn DEF SockTyped
    <3>3. IoTyped' /\ op'.kind = op.kind /\ UNCHANGED <<able, want, pc>>
      BY <1>0, <2>3, SameIo DEF io
    <3> QED BY <1>0, <1>1, <1>2, <1>5, <2>3, <3>2, <3>3, GoesOn
  <2>4. CASE ssn' = [ssn EXCEPT !.hs = <<"w">>] /\ inq' = Tail(inq) /\ UNCHANGED io /\ pend' = pend
    <3>1. PICK s \in Seq({"r", "w"}) : s = <<"w">>
      <4>1. \A a \in {"r", "w"} : <<a>> \in Seq({"r", "w"})
        OBVIOUS
      <4>2. "w" \in {"r", "w"}
        OBVIOUS
      <4> QED BY <4>1, <4>2
    <3>2. SockTyped' /\ SsnOK'
      BY <1>0, <1>1, <2>0, <2>4, <3>1, NextFlight DEF SockTyped
    <3>3. IoTyped' /\ op'.kind = op.kind /\ UNCHANGED <<able, want, pc>>
      BY <1>0, <2>4, SameIo DEF io
    <3> QED BY <1>0, <1>1, <1>2, <1>5, <2>4, <3>2, <3>3, GoesOn
  <2>5. CASE ssn' = [ssn EXCEPT !.rshut = TRUE] /\ Fails(CONNRESET) /\ pend' = pend /\ inq' = inq
    <3>1. CONNRESET \in Int
      BY DEF CONNRESET
    <3>2. IoTyped' /\ op'.kind = None /\ able' = able /\ pc' = "user"
      BY <1>0, <2>5, <3>1, FailsDoes
    <3>3. SsnOK' /\ ssn'.hs = ssn.hs
      BY <1>0, <2>5 DEF SsnOK, SsnTyped, HasSsn
    <3>4. SockTyped'
      BY <1>0, <1>1, <2>5 DEF SockTyped
    <3> QED BY <1>0, <1>1, <2>5, <3>2, <3>3, <3>4, EndKeeps
  <2> QED BY <2>2, <2>3, <2>4, <2>5
<1>6. pend \in Nat
  BY <1>0 DEF SockTyped
<1> QED BY <1>3, <1>4, <1>5, <1>6

LEMMA WriteDataStep == ASSUME SInv, WriteData PROVE SInv'
<1>0. /\ GrpOK /\ IoTyped /\ SockTyped /\ Ready /\ HasSsn /\ SsnOK
      /\ pc \in {"prep", "post"} /\ op.kind = "send" /\ op.kind # None
  BY EngineParts DEF WriteData, None
<1>1. /\ UNCHANGED <<tcp, frees, fd, out>> /\ ssn' = ssn /\ grp' = grp
      /\ UNCHANGED <<edge, batch, inq, pend>> /\ GrpOK' /\ SsnOK'
  BY <1>0, SameGrp, SameSsn DEF WriteData, group, own
<1>2. CASE room = 0
  <2>1. Lacks("OUT") /\ nospace' = TRUE /\ room' = room
    BY <1>2 DEF WriteData
  <2>2. "OUT" \in Dirs
    BY DEF Dirs
  <2> QED BY <1>0, <1>1, <1>2, <2>1, <2>2, LacksKeeps
<1>3. CASE room # 0
  <2>1. room' = room - 1 /\ Finish(op.len, {}) /\ nospace' = nospace
    BY <1>3 DEF WriteData
  <2>2. PICK l \in Int : l = op.len
    BY <1>0 DEF IoTyped, OpType
  <2>3. Finish(l, {})
    BY <2>1, <2>2
  <2>4. IoTyped' /\ op'.kind = None /\ able' = able \ {} /\ pc' = "user"
    BY <1>0, <2>3, FinishDoes
  <2>5. SockTyped'
    BY <1>0, <1>1, <1>3, <2>1, SslAssumption DEF SockTyped
  <2> QED BY <1>0, <1>1, <1>3, <2>4, <2>5, EndKeeps
<1> QED BY <1>2, <1>3

LEMMA ShutdownStep == ASSUME SInv, Shutdown PROVE SInv'
<1>0. /\ GrpOK /\ IoTyped /\ SockTyped /\ Ready /\ HasSsn /\ SsnOK
      /\ pc \in {"prep", "post"} /\ op.kind = "shutdown" /\ op.kind # None
  BY EngineParts DEF Shutdown, None
<1>1. /\ UNCHANGED <<tcp, frees, fd, out>> /\ ssn' = ssn /\ grp' = grp
      /\ UNCHANGED <<edge, batch, inq, pend>> /\ GrpOK' /\ SsnOK'
  BY <1>0, SameGrp, SameSsn DEF Shutdown, group, own
<1>2. CASE ssn.hs # <<>>
  <2>1. Fails(InternalError) /\ nospace' = nospace /\ room' = room
    BY <1>2 DEF Shutdown
  <2>2. InternalError \in Int
    BY DEF InternalError
  <2>3. IoTyped' /\ op'.kind = None /\ able' = able /\ pc' = "user"
    BY <1>0, <2>1, <2>2, FailsDoes
  <2>4. SockTyped'
    BY <1>0, <1>1, <2>1 DEF SockTyped
  <2> QED BY <1>0, <1>1, <2>1, <2>3, <2>4, EndKeeps
<1>3. CASE ssn.hs = <<>> /\ room = 0
  <2>1. Lacks("OUT") /\ nospace' = TRUE /\ room' = room
    BY <1>3 DEF Shutdown
  <2>2. "OUT" \in Dirs
    BY DEF Dirs
  <2> QED BY <1>0, <1>1, <1>3, <2>1, <2>2, LacksKeeps
<1>4. CASE ssn.hs = <<>> /\ room # 0
  <2>1. room' = room - 1 /\ Finish(IF ssn.rshut THEN 0 ELSE EOF, {}) /\ nospace' = nospace
    BY <1>4 DEF Shutdown
  <2>2. PICK l \in Int : l = IF ssn.rshut THEN 0 ELSE EOF
    BY DEF EOF
  <2>3. Finish(l, {})
    BY <2>1, <2>2
  <2>4. IoTyped' /\ op'.kind = None /\ able' = able \ {} /\ pc' = "user"
    BY <1>0, <2>3, FinishDoes
  <2>5. SockTyped'
    BY <1>0, <1>1, <1>4, <2>1, SslAssumption DEF SockTyped
  <2> QED BY <1>0, <1>1, <1>4, <2>4, <2>5, EndKeeps
<1> QED BY <1>2, <1>3, <1>4

-----------------------------------------------------------------------------
(* epoll and the peer.                                                     *)

LEMMA EpollWaitStep == ASSUME SInv, EpollWait PROVE SInv'
<1>0. GrpOK /\ IoTyped /\ SockTyped /\ Ready /\ Waits /\ HasSsn /\ SsnOK
  BY Parts DEF EpollWait
<1>1. /\ UNCHANGED <<tcp, frees, fd, out>> /\ ssn' = ssn /\ grp' = grp
      /\ UNCHANGED <<able, want, op, pc>> /\ UNCHANGED io /\ UNCHANGED <<inq, room, pend>>
      /\ batch' = (IF inq # <<>> THEN {"IN"} ELSE {}) \cup (IF room > 0 THEN {"OUT"} ELSE {})
      /\ nospace' = (nospace \/ room = 0) /\ edge' = FALSE
  BY DEF EpollWait, group, own, io
<1>2. GrpOK' /\ SsnOK' /\ IoTyped' /\ HasSsn'
  BY <1>0, <1>1, SameGrp, SameSsn, SameIo DEF SsnOK
<1>3. SockTyped'
  <2>1. batch' \in SUBSET Dirs
    BY <1>1 DEF Dirs
  <2>2. nospace' \in BOOLEAN /\ edge' \in BOOLEAN
    BY <1>0, <1>1 DEF SockTyped
  <2> QED BY <1>0, <1>1, <2>1, <2>2 DEF SockTyped
<1>4. Ready'
  <2>1. (inq # <<>> => "IN" \in batch') /\ (room > 0 => "OUT" \in batch') /\ (room = 0 => nospace')
    BY <1>1
  <2>2. room \in Nat
    BY <1>0, SslAssumption DEF SockTyped
  <2> QED BY <1>0, <1>1, <2>1, <2>2 DEF Ready
<1>5. Waits'
  BY <1>0, <1>1, <1>2 DEF Waits
<1> QED BY <1>0, <1>1, <1>2, <1>3, <1>4, <1>5, SessionKeeps

LEMMA FeedStep == ASSUME SInv, Feed PROVE SInv'
<1>0. GrpOK /\ IoTyped /\ SockTyped /\ Ready /\ Waits /\ HasSsn /\ SsnOK /\ pc = "user"
  BY Parts DEF Feed
<1>1. /\ UNCHANGED <<tcp, frees, fd, out>> /\ ssn' = ssn /\ grp' = grp /\ op' = op
      /\ UNCHANGED <<edge, inq, room, nospace, pend>> /\ batch' = {} /\ able' = able \cup batch
      /\ want' = want
  BY DEF Feed, WakeWith, group, own
<1>2. /\ op.kind = None => pc' = pc
      /\ op.kind # None => pc' = IF (able \cup batch) \cap want # {} THEN "post" ELSE "user"
  BY DEF Feed, WakeWith
<1>3. GrpOK' /\ SsnOK' /\ HasSsn'
  BY <1>0, <1>1, SameGrp, SameSsn DEF SsnOK
<1>4. SockTyped'
  BY <1>0, <1>1, EmptySock DEF SockTyped
<1>5. IoTyped'
  <2>1. able' \in SUBSET Dirs
    BY <1>0, <1>1 DEF IoTyped, SockTyped
  <2>2. pc' \in {"user", "prep", "post"}
    BY <1>0, <1>2
  <2> QED BY <1>0, <1>1, <2>1, <2>2 DEF IoTyped
<1>6. Ready'
  BY <1>0, <1>1 DEF Ready
<1>7. Waits'
  BY <1>0, <1>1, <1>2, <1>3 DEF Waits
<1> QED BY <1>0, <1>1, <1>3, <1>4, <1>5, <1>6, <1>7, SessionKeeps

LEMMA ArrivesStep ==
    ASSUME SInv, HasSsn, NEW r \in Records, Arrives(r), UNCHANGED own, UNCHANGED io, grp' = grp,
           UNCHANGED <<batch, room, nospace, pend>>
    PROVE  SInv'
<1>0. GrpOK /\ IoTyped /\ SockTyped /\ Ready /\ Waits /\ SsnOK
  BY Parts
<1>1. /\ UNCHANGED <<tcp, frees, fd, out>> /\ ssn' = ssn /\ UNCHANGED <<able, want, op, pc>>
      /\ inq' = Append(inq, r) /\ edge' = TRUE
  BY DEF own, io, Arrives
<1>2. GrpOK' /\ SsnOK' /\ IoTyped' /\ HasSsn'
  BY <1>0, <1>1, SameGrp, SameSsn, SameIo DEF SsnOK
<1>3. SockTyped'
  BY <1>0, <1>1 DEF SockTyped
<1>4. Ready' /\ Waits'
  BY <1>0, <1>1, <1>2 DEF Ready, Waits
<1> QED BY <1>1, <1>2, <1>3, <1>4, SessionKeeps

LEMMA PeerStep == ASSUME SInv, PeerHandshake \/ PeerSends PROVE SInv'
<1>1. CASE PeerHandshake
  <2>1. PICK s \in Snis, o \in Offers : Arrives([kind |-> "hs", sni |-> s, offer |-> o])
    BY <1>1 DEF PeerHandshake
  <2>2. [kind |-> "hs", sni |-> s, offer |-> o] \in Records
    BY DEF Records
  <2> QED BY <1>1, <2>1, <2>2, ArrivesStep DEF PeerHandshake, group
<1>2. CASE PeerSends
  <2>0. /\ HasSsn /\ UNCHANGED own /\ UNCHANGED io /\ grp' = grp
        /\ UNCHANGED <<batch, room, nospace, pend>>
    BY <1>2 DEF PeerSends, group
  <2>1. CASE \E n \in 1 .. MaxData : Arrives([kind |-> "data", n |-> n])
    <3>1. PICK n \in 1 .. MaxData : Arrives([kind |-> "data", n |-> n])
      BY <2>1
    <3>2. [kind |-> "data", n |-> n] \in Records
      BY DEF Records
    <3> QED BY <2>0, <3>1, <3>2, ArrivesStep
  <2>2. ASSUME NEW k \in {"update", "alert"}, Arrives([kind |-> k]) PROVE SInv'
    <3>1. [kind |-> k] \in Records
      BY DEF Records
    <3> QED BY <2>0, <2>2, <3>1, ArrivesStep
  <2> QED BY <1>2, <2>1, <2>2 DEF PeerSends
<1> QED BY <1>1, <1>2

LEMMA PeerReadsStep == ASSUME SInv, PeerReads PROVE SInv'
<1>0. GrpOK /\ IoTyped /\ SockTyped /\ Ready /\ Waits /\ Owned
  BY Parts
<1>1. /\ UNCHANGED <<tcp, frees, fd, out>> /\ ssn' = ssn /\ grp' = grp
      /\ UNCHANGED <<able, want, op, pc>> /\ UNCHANGED <<inq, pend, batch>>
      /\ room < Cap /\ room' = room + 1
      /\ IF nospace THEN edge' = TRUE /\ nospace' = FALSE ELSE UNCHANGED <<edge, nospace>>
  BY DEF PeerReads, group, own, io
<1>2. SockTyped'
  <2>1. room' \in 0 .. Cap
    BY <1>0, <1>1, SslAssumption DEF SockTyped
  <2> QED BY <1>0, <1>1, <2>1 DEF SockTyped
<1>3. Types'
  BY <1>1, <1>2 DEF SInv, Types, SsnTyped, IoTyped
<1>4. Owned' /\ Wired' /\ Waits'
  BY <1>1 DEF SInv, Owned, Wired, Waits, HasSsn
<1>5. Ready'
  BY <1>0, <1>1 DEF Ready, HasSsn
<1> QED BY <1>3, <1>4, <1>5 DEF SInv

-----------------------------------------------------------------------------
(* Theorems.                                                               *)

LEMMA SslInit == Init => SInv
<1> SUFFICES ASSUME Init PROVE SInv
  OBVIOUS
<1>1. ~HasSsn /\ op.kind = None
  BY NoSsnOK, IdleOK DEF Init, HasSsn
<1>2. GrpOK
  <2>1. grp \in GrpType /\ grp.alpns = <<>> /\ grp.wire = <<>>
    BY NoGroupOK DEF Init
  <2> QED BY <2>1 DEF GrpOK, IsInjective
<1>3. SsnTyped
  BY NoSsnOK, EmptySock DEF Init, SsnTyped
<1>4. IoTyped
  BY IdleOK, EmptySock DEF Init, IoTyped
<1>5. SockTyped
  <2>1. Cap \in 0 .. Cap
    BY SslAssumption
  <2>2. batch \in SUBSET Dirs /\ inq \in Seq(Records) /\ room \in 0 .. Cap
    BY <2>1, EmptySock DEF Init
  <2>3. edge \in BOOLEAN /\ nospace \in BOOLEAN /\ pend \in Nat
    BY DEF Init
  <2> QED BY <2>2, <2>3 DEF SockTyped
<1>6. Types /\ Wired
  BY <1>1, <1>2, <1>3, <1>4, <1>5 DEF Types, Wired, GrpOK
<1>7. Owned /\ Ready /\ Waits
  BY <1>1 DEF Init, Owned, Ready, Waits, None
<1> QED BY <1>6, <1>7 DEF SInv

LEMMA StutterStep == ASSUME SInv, UNCHANGED vars PROVE SInv'
<1>1. /\ UNCHANGED <<tcp, frees, fd, ssn, out>> /\ UNCHANGED <<able, want, op, pc>>
      /\ UNCHANGED <<edge, batch, inq, room, nospace, pend>> /\ grp' = grp
      /\ UNCHANGED <<errno, own, io, sock, made, sent>>
  BY DEF vars, group, own, io, sock
<1>2. GrpOK'
  BY <1>1, Parts, SameGrp
<1> QED BY <1>1, <1>2, RegistryKeeps

(* The registry and the session are typed; the TCP element is the caller's *)
(* or the session's; the wire form is current or marked; what is readable  *)
(* or writable is recorded or about to be reported.                        *)
THEOREM SessionsKept == Spec => []SInv
<1>1. SInv /\ [Next]_vars => SInv'
  <2> SUFFICES ASSUME SInv, [Next]_vars PROVE SInv'
    OBVIOUS
  <2>1. CASE Registry
    BY <2>1, RegistryStep
  <2>2. CASE Connect \/ DelSession
    BY <2>2, ConnectStep, DelSessionStep
  <2>3. ASSUME NEW r \in Roles, NewSession(r) PROVE SInv'
    BY <2>3, NewSessionStep
  <2>4. ASSUME NEW k \in {"handshake", "shutdown"}, Start(k, 0) PROVE SInv'
    <3>1. k \in Kinds \ {None}
      BY DEF Kinds, None
    <3> QED BY <2>4, <3>1, StartStep
  <2>5. ASSUME NEW k \in {"recv", "send"}, NEW n \in 1 .. MaxData, Start(k, n) PROVE SInv'
    <3>1. k \in Kinds \ {None} /\ n \in Nat
      BY SslAssumption DEF Kinds, None
    <3> QED BY <2>5, <3>1, StartStep
  <2>6. CASE Engine
    BY <2>6, ReadFlightStep, WriteFlightStep, HandshakeStep, ReadDataStep, WriteDataStep, ShutdownStep
       DEF Engine
  <2>7. CASE Cancel \/ EpollWait \/ Feed
    BY <2>7, CancelStep, EpollWaitStep, FeedStep
  <2>8. CASE PeerHandshake \/ PeerSends \/ PeerReads
    BY <2>8, PeerStep, PeerReadsStep
  <2>9. CASE UNCHANGED vars
    BY <2>9, StutterStep
  <2> QED BY <2>1, <2>2, <2>3, <2>4, <2>5, <2>6, <2>7, <2>8, <2>9 DEF Next
<1> QED BY <1>1, SslInit, PTL DEF Spec

(* An operation that waits waits for what is not there or for what epoll   *)
(* is about to report, whatever the peer does between two records.         *)
THEOREM NothingStalls == Spec => []NoStall
<1>1. SInv => NoStall
  <2> SUFFICES ASSUME SInv, op.kind # None, pc = "user"
               PROVE  /\ want # {} /\ able \cap want = {}
                      /\ want = {"IN"} => /\ inq = <<>> \/ edge \/ "IN" \in batch
                                          /\ op.kind = "recv" => pend = 0
                      /\ want = {"OUT"} => room = 0 \/ edge \/ "OUT" \in batch
    BY DEF NoStall
  <2>1. HasSsn /\ want \in {{"IN"}, {"OUT"}} /\ able \cap want = {}
    BY DEF SInv, Waits
  <2>2. want = {"IN"} => "IN" \notin able
    BY <2>1
  <2>3. want = {"OUT"} => "OUT" \notin able
    BY <2>1
  <2> QED BY <2>1, <2>2, <2>3 DEF SInv, Ready
<1> QED BY <1>1, SessionsKept, PTL

(* The protocol a server selects is the one the group's list gives when it *)
(* is selected, and the list never holds a name twice.                     *)
THEOREM AlpnSelected == Spec => []AlpnCurrent
<1>1. SInv => AlpnCurrent
  BY DEF SInv, Wired, AlpnCurrent
<1> QED BY <1>1, SessionsKept, PTL

(* The TCP element is released once, by the session or by the caller whose *)
(* dpele_new failed, unless epoll_ctl failed.                              *)
THEOREM TcpOwnedOnce == Spec => []OwnedOnce
<1>1. SInv => OwnedOnce
  BY NoSsnOK DEF SInv, Owned, OwnedOnce, HasSsn
<1> QED BY <1>1, SessionsKept, PTL
=============================================================================
