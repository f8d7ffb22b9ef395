--------------------------------- MODULE Ssl ---------------------------------
(***************************************************************************)
(* TLS on top of a TCP element: the per-thread registry of groups, server  *)
(* certificates and ALPN names (dpssl_add ... dpssl_get_ctx), the session  *)
(* element that takes a TCP element over, and the four operations that run *)
(* the TLS engine under edge-triggered epoll (lib/dpapp/dpssl.c).          *)
(*                                                                         *)
(* One group name and one session at a time. The engine is external: it    *)
(* reads records from the socket, hands out their plaintext, writes one    *)
(* record per call and says what it lacks: input (WANT_READ) or room       *)
(* (WANT_WRITE). Every record is one step of the engine, so the peer acts  *)
(* between any two.                                                        *)
(***************************************************************************)
EXTENDS Integers, Sequences, SequencesExt, FiniteSets

CONSTANTS
    Alpns,        \* protocol names
    Snis,         \* server names a certificate may be added for
    Offers,       \* ALPN lists a client may offer
    Cap,          \* records that fit into the socket in either direction
    MaxData,      \* bytes of plaintext in a record, and in a buffer
    MaxSsn,       \* bound: session elements made in a behaviour
    MaxRecords    \* bound: records the peer sends after its handshake

ASSUME SslAssumption ==
    /\ Cap \in Nat \ {0} /\ MaxData \in Nat \ {0}
    /\ MaxSsn \in Nat /\ MaxRecords \in Nat
    /\ \A o \in Offers : o \in Seq(Alpns)

None == "none"
Default == "@default"       \* _DPSSL_DEFAULT_SNI
\* dpret_t
InternalError == -500
CONNRESET == -104
EOF == -156
TIME == -62
Roles == {"client", "server"}

VARIABLES
    grp,      \* the group: a record; role None if there is none
    tcp,      \* the TCP element: "none", "own" (the caller's), "ssl", "freed"
    frees,    \* times the TCP element was deleted
    fd,       \* "closed" or "open"
    ssn,      \* the session element: a record; role None if there is none
    out,      \* what ssl_client / ssl_accept gave its caller
    errno,    \* the thread's errno
    able, want, op, pc,    \* able_events, want_events, the operation, its place
    edge, batch,           \* on epoll's ready list; events fetched, not yet fed
    inq, room, nospace,    \* the socket: records to read, room to write
    pend,                  \* plaintext the engine holds
    made, sent             \* counters of the bounds

group == <<grp, errno>>
io == <<able, want, op, pc>>
sock == <<edge, batch, inq, room, nospace, pend>>
own == <<tcp, frees, fd, ssn, out>>
vars == <<group, own, io, sock, made, sent>>

NoGroup == [role |-> None, alpns |-> <<>>, wire |-> <<>>, dirty |-> FALSE, certs |-> {}]
NoSsn == [role |-> None, hs |-> <<>>, offer |-> <<>>, alpn |-> None, best |-> None,
          cert |-> None, rshut |-> FALSE]
HasGroup == grp.role # None
HasSsn == ssn.role # None

NoOut == [ret |-> 0, ele |-> FALSE, lost |-> FALSE]   \* lost: epoll_ctl failed

Idle == [kind |-> None, len |-> 0, total |-> 0, ret |-> 0]

Init ==
    /\ grp = NoGroup /\ errno = 0
    /\ tcp = "none" /\ frees = 0 /\ fd = "closed" /\ ssn = NoSsn /\ out = NoOut
    /\ able = {} /\ want = {} /\ op = Idle /\ pc = "user"
    /\ edge = FALSE /\ batch = {} /\ inq = <<>> /\ room = Cap /\ nospace = FALSE
    /\ pend = 0 /\ made = 0 /\ sent = 0

-----------------------------------------------------------------------------
(* The registry. Nothing here waits; sessions in use keep their SSL_CTX.   *)

(* dpssl_add: a group that exists is left as it is, whatever is asked for. *)
Add(role) ==
    /\ pc = "user"
    /\ grp' = IF HasGroup THEN grp ELSE [NoGroup EXCEPT !.role = role]
    /\ UNCHANGED <<errno, own, io, sock, made, sent>>

(* The group's callbacks (server role) point to the group, so deleting it  *)
(* is left to a caller that has no session in its handshake.               *)
DelGroup ==
    /\ pc = "user" /\ HasGroup /\ ssn = NoSsn
    /\ grp' = NoGroup
    /\ UNCHANGED <<errno, own, io, sock, made, sent>>

(* Faulty AddAlpn: the wire form is not marked as out of date.             *)
AddAlpnClean(a) ==
    /\ pc = "user" /\ HasGroup
    /\ ~Contains(grp.alpns, a)
    /\ grp' = [grp EXCEPT !.alpns = Append(@, a)]
    /\ UNCHANGED <<errno, own, io, sock, made, sent>>

(* _dpssl_add_alpn: a name that is there is not added again.               *)
AddAlpn(a) ==
    /\ pc = "user" /\ HasGroup
    /\ ~Contains(grp.alpns, a)
    /\ grp' = [grp EXCEPT !.alpns = Append(@, a), !.dirty = TRUE]
    /\ UNCHANGED <<errno, own, io, sock, made, sent>>

(* dpssl_add_ctx: server groups only, the certificate and key must load.   *)
AddCert(s) ==
    /\ pc = "user" /\ HasGroup /\ grp.role = "server" /\ s \notin grp.certs
    /\ grp' = [grp EXCEPT !.certs = @ \cup {s}]
    /\ UNCHANGED <<errno, own, io, sock, made, sent>>

(* dpssl_del_ctx, dpssl_del_all_ctx                                        *)
DelCerts(ss) ==
    /\ pc = "user" /\ HasGroup /\ ss \cap grp.certs # {}
    /\ ss = grp.certs \/ Cardinality(ss) = 1
    /\ grp' = [grp EXCEPT !.certs = @ \ ss]
    /\ UNCHANGED <<errno, own, io, sock, made, sent>>

(* _dpssl_alpns_wire_sync                                                  *)
Synced(g) == IF g.dirty THEN [g EXCEPT !.wire = g.alpns, !.dirty = FALSE] ELSE g

(* _dpssl_alpn_select: the first name of the client's list that is in the  *)
(* wire form (the client's list is what is walked).                        *)
FirstCommon(offer, names) ==
    LET k == SelectInSeq(offer, LAMBDA a : Contains(names, a))
    IN  IF k = 0 THEN None ELSE offer[k]

(* _dpssl_sni_select and dpssl_get_ctx: the certificate of the name, or    *)
(* the default one.                                                        *)
CertFor(name) ==
    IF name \in grp.certs THEN name
    ELSE IF Default \in grp.certs THEN Default ELSE None

-----------------------------------------------------------------------------
(* Session elements.                                                       *)

(* A connected TCP element: the caller's.                                  *)
Connect ==
    /\ pc = "user" /\ tcp \in {"none", "freed"} /\ ssn = NoSsn /\ made < MaxSsn
    /\ tcp' = "own" /\ frees' = 0 /\ fd' = "open" /\ out' = NoOut
    /\ edge' = TRUE /\ batch' = {} /\ inq' = <<>> /\ room' = Cap /\ nospace' = FALSE
    /\ pend' = 0 /\ able' = {} /\ want' = {} /\ op' = Idle
    /\ errno' = 11      \* left by an accept or connect that had to wait
    /\ made' = made + 1 /\ sent' = 0
    /\ UNCHANGED <<grp, ssn, pc>>

(* The handshake's flights: what the engine reads and writes.              *)
Flights(role) == IF role = "server" THEN <<"r", "w", "r">> ELSE <<"w", "r", "w">>

(* Faulty NewSession: the TCP element still closes the descriptor.         *)
NewSessionKeepsClose(role) ==
    /\ pc = "user" /\ tcp = "own" /\ HasGroup /\ grp.role = role
    /\ tcp' = "freed" /\ frees' = frees + 1 /\ fd' = "closed"
    /\ ssn' = [NoSsn EXCEPT !.role = role, !.hs = Flights(role)]
    /\ out' = [NoOut EXCEPT !.ele = TRUE]
    /\ UNCHANGED <<grp, errno, io, sock, made, sent>>

(* dpele_new(dpssl_client_type() / dpssl_server_type()) in ssl_client /    *)
(* ssl_accept. On success the session owns the TCP element and closes the  *)
(* descriptor, which epoll now reports to it (EPOLL_CTL_MOD). When the     *)
(* init function fails dpele_newv drops its result and does not set errno; *)
(* the caller deletes the TCP element and returns errno. When epoll_ctl    *)
(* fails the session's fini has deleted the TCP element already.           *)
NewSession(role) ==
    /\ pc = "user" /\ tcp = "own"
    /\ \/ /\ HasGroup /\ grp.role = role
          /\ grp' = IF role = "client" /\ grp.alpns # <<>> THEN Synced(grp) ELSE grp
          /\ ssn' = [NoSsn EXCEPT !.role = role, !.hs = Flights(role),
                                  !.offer = IF role = "client" THEN grp'.wire ELSE <<>>]
          /\ tcp' = "ssl" /\ edge' = TRUE /\ out' = [NoOut EXCEPT !.ele = TRUE]
          /\ UNCHANGED <<frees, fd>>
       \/ /\ ~HasGroup \/ grp.role # role
          /\ tcp' = "freed" /\ frees' = frees + 1 /\ fd' = "closed"
          /\ out' = [ret |-> errno, ele |-> FALSE, lost |-> FALSE]
          /\ UNCHANGED <<grp, ssn, edge>>
       \/ /\ HasGroup /\ grp.role = role
          /\ tcp' = "freed" /\ frees' = frees + 2 /\ fd' = "closed"
          /\ out' = [ret |-> errno, ele |-> FALSE, lost |-> TRUE]
          /\ UNCHANGED <<grp, ssn, edge>>
    /\ UNCHANGED <<errno, io, batch, inq, room, nospace, pend, made, sent>>

(* dpele_del of the session: unwatch, close, and _dpssl_ssn_ufini.         *)
DelSession ==
    /\ pc = "user" /\ HasSsn /\ op.kind = None
    /\ ssn' = NoSsn /\ tcp' = "freed" /\ frees' = frees + 1 /\ fd' = "closed"
    /\ able' = {} /\ batch' = {} /\ edge' = FALSE
    /\ UNCHANGED <<group, out, want, op, pc, inq, room, nospace, pend, made, sent>>

-----------------------------------------------------------------------------
(* The operations. pc is "prep" or "post" while the engine runs: "prep"    *)
(* only for handshake and shutdown, whose prep calls the engine too.       *)

(* The end of an operation with result r; events in inva are withdrawn.    *)
Finish(r, inva) ==
    /\ op' = [op EXCEPT !.kind = None, !.ret = r] /\ want' = {} /\ pc' = "user"
    /\ able' = able \ inva

(* _dpefd_wake: run the post while a wanted event is there.                *)
WakeWith(a, w) ==
    /\ able' = a /\ want' = w
    /\ pc' = IF a \cap w # {} THEN "post" ELSE "user"

(* dpevp_add                                                               *)
Start(k, n) ==
    /\ pc = "user" /\ HasSsn /\ op.kind = None
    /\ op' = [kind |-> k, len |-> n, total |-> 0, ret |-> 0]
    /\ CASE k = "recv" -> WakeWith(able, {"IN"})
         [] k = "send" -> WakeWith(able, {"OUT"})
         [] OTHER -> pc' = "prep" /\ UNCHANGED <<able, want>>
    /\ UNCHANGED <<group, own, sock, made, sent>>

(* Faulty Lacks: both directions are withdrawn.                            *)
LacksBoth(ev) ==
    IF pc = "prep" THEN WakeWith(able, {ev}) /\ UNCHANGED op
    ELSE IF op.total > 0 THEN Finish(op.total, {ev})
    ELSE /\ able' = able \ {"IN", "OUT"} /\ want' = {ev} /\ pc' = "user" /\ UNCHANGED op

(* _dpssl_prep_err, _dpssl_post_err for WANT_READ and WANT_WRITE; a recv   *)
(* that has bytes returns them.                                            *)
Lacks(ev) ==
    IF pc = "prep" THEN WakeWith(able, {ev}) /\ UNCHANGED op
    ELSE IF op.total > 0 THEN Finish(op.total, {ev})
    ELSE WakeWith(able \ {ev}, {ev}) /\ UNCHANGED op

(* A fatal result, after which a recv still returns the bytes it has.      *)
Fails(r) == Finish(IF op.total > 0 THEN op.total ELSE r, {})

(* The server's first flight: servername and ALPN callbacks.               *)
Select(name, offer) ==
    /\ grp' = Synced(grp)
    /\ ssn' = [ssn EXCEPT !.hs = Tail(@), !.offer = offer, !.cert = CertFor(name),
                          !.alpn = FirstCommon(offer, grp'.wire),
                          !.best = FirstCommon(offer, grp.alpns)]

Accepts(name, offer) ==
    /\ CertFor(name) # None
    /\ offer = <<>> \/ FirstCommon(offer, Synced(grp).wire) # None

Running(k) == pc \in {"prep", "post"} /\ HasSsn /\ op.kind \in k

(* The engine takes a handshake record from the socket.                    *)
ReadFlight ==
    /\ Running({"handshake", "recv", "send"})
    /\ ssn.hs # <<>> /\ Head(ssn.hs) = "r"
    /\ IF inq = <<>> THEN Lacks("IN") /\ UNCHANGED <<grp, ssn, inq>>
       ELSE /\ inq' = Tail(inq)
            /\ IF ssn.role = "server" /\ ssn.cert = None
               THEN LET h == Head(inq) IN
                    IF Accepts(h.sni, h.offer)
                    THEN Select(h.sni, h.offer) /\ UNCHANGED io
                    ELSE grp' = Synced(grp) /\ Fails(InternalError) /\ UNCHANGED ssn
               ELSE ssn' = [ssn EXCEPT !.hs = Tail(@)] /\ UNCHANGED <<grp, io>>
    /\ UNCHANGED <<errno, tcp, frees, fd, out, edge, batch, room, nospace, pend, made, sent>>

(* The engine writes one, or its answer to a key update.                   *)
WriteFlight ==
    /\ Running({"handshake", "recv", "send"})
    /\ ssn.hs # <<>> /\ Head(ssn.hs) = "w"
    /\ IF room = 0 THEN Lacks("OUT") /\ nospace' = TRUE /\ UNCHANGED <<ssn, room>>
       ELSE room' = room - 1 /\ ssn' = [ssn EXCEPT !.hs = Tail(@)] /\ UNCHANGED <<io, nospace>>
    /\ UNCHANGED <<group, tcp, frees, fd, out, edge, batch, inq, pend, made, sent>>

(* SSL_do_handshake returns 1.                                             *)
HandshakeDone ==
    /\ Running({"handshake"}) /\ ssn.hs = <<>>
    /\ Finish(0, {})
    /\ UNCHANGED <<group, own, sock, made, sent>>

(* _dpssl_recv_post: SSL_read until the buffer is full or the engine lacks *)
(* input. A close_notify is SSL_ERROR_ZERO_RETURN: DPE_CONNRESET.          *)
ReadData ==
    /\ Running({"recv"}) /\ ssn.hs = <<>>
    /\ IF pend > 0
       THEN LET k == IF pend < op.len - op.total THEN pend ELSE op.len - op.total IN
            /\ pend' = pend - k
            /\ IF op.total + k = op.len THEN Finish(op.len, {})
               ELSE op' = [op EXCEPT !.total = @ + k] /\ UNCHANGED <<able, want, pc>>
            /\ UNCHANGED <<ssn, inq>>
       ELSE IF inq = <<>> THEN Lacks("IN") /\ UNCHANGED <<ssn, inq, pend>>
       ELSE LET h == Head(inq) IN
            \/ /\ h.kind = "data"
               /\ pend' = h.n /\ inq' = Tail(inq) /\ UNCHANGED <<io, ssn>>
            \/ /\ h.kind = "update"
               /\ ssn' = [ssn EXCEPT !.hs = <<"w">>] /\ inq' = Tail(inq)
               /\ UNCHANGED <<io, pend>>
            \/ /\ h.kind = "alert"
               /\ ssn' = [ssn EXCEPT !.rshut = TRUE] /\ Fails(CONNRESET)
               /\ UNCHANGED <<pend, inq>>
    /\ UNCHANGED <<group, tcp, frees, fd, out, edge, batch, room, nospace, made, sent>>

(* _dpssl_send_post: without partial writes SSL_write takes all or nothing.*)
WriteData ==
    /\ Running({"send"}) /\ ssn.hs = <<>>
    /\ IF room = 0 THEN Lacks("OUT") /\ nospace' = TRUE /\ UNCHANGED room
       ELSE room' = room - 1 /\ Finish(op.len, {}) /\ UNCHANGED nospace
    /\ UNCHANGED <<group, own, edge, batch, inq, pend, made, sent>>

(* SSL_shutdown: the alert is written; until the peer's has been seen it   *)
(* returns 0, which SSL_get_error takes for SSL_ERROR_SYSCALL: DPE_EOF.    *)
(* In the handshake it is an error.                                        *)
Shutdown ==
    /\ Running({"shutdown"})
    /\ IF ssn.hs # <<>> THEN Fails(InternalError) /\ UNCHANGED <<nospace, room>>
       ELSE IF room = 0 THEN Lacks("OUT") /\ nospace' = TRUE /\ UNCHANGED room
       ELSE room' = room - 1 /\ Finish(IF ssn.rshut THEN 0 ELSE EOF, {}) /\ UNCHANGED nospace
    /\ UNCHANGED <<group, own, edge, batch, inq, pend, made, sent>>

(* dpevp_end or a timeout.                                                 *)
Cancel ==
    /\ pc = "user" /\ op.kind # None
    /\ Finish(TIME, {})
    /\ UNCHANGED <<group, own, sock, made, sent>>

-----------------------------------------------------------------------------
(* epoll and the peer.                                                     *)

EpollWait ==
    /\ pc = "user" /\ edge /\ batch = {} /\ HasSsn
    /\ edge' = FALSE
    /\ batch' = (IF inq # <<>> THEN {"IN"} ELSE {}) \cup (IF room > 0 THEN {"OUT"} ELSE {})
    /\ nospace' = (nospace \/ room = 0)      \* tcp_poll asks to be told
    /\ UNCHANGED <<group, own, io, inq, room, pend, made, sent>>

(* _dpefd_feed                                                             *)
Feed ==
    /\ pc = "user" /\ batch # {} /\ HasSsn
    /\ batch' = {}
    /\ IF op.kind = None THEN able' = able \cup batch /\ UNCHANGED <<want, pc>>
       ELSE WakeWith(able \cup batch, want)
    /\ UNCHANGED <<group, own, op, edge, inq, room, nospace, pend, made, sent>>

Arrives(r) == inq' = Append(inq, r) /\ edge' = TRUE

PeerHandshake ==
    /\ fd = "open" /\ HasSsn /\ Len(inq) < Cap
    /\ Len(SelectSeq(ssn.hs, LAMBDA f : f = "r")) > Len(inq)
    /\ \E s \in Snis, o \in Offers : Arrives([kind |-> "hs", sni |-> s, offer |-> o])
    /\ UNCHANGED <<group, own, io, batch, room, nospace, pend, made, sent>>

PeerSends ==
    /\ fd = "open" /\ HasSsn /\ Len(inq) < Cap /\ sent < MaxRecords
    /\ ~Contains(ssn.hs, "r")
    /\ \A k \in DOMAIN inq : inq[k].kind # "alert"
    /\ ~ssn.rshut
    /\ \/ \E n \in 1 .. MaxData : Arrives([kind |-> "data", n |-> n])
       \/ Arrives([kind |-> "update"])
       \/ Arrives([kind |-> "alert"])
    /\ sent' = sent + 1
    /\ UNCHANGED <<group, own, io, batch, room, nospace, pend, made>>

PeerReads ==
    /\ fd = "open" /\ room < Cap
    /\ room' = room + 1
    /\ IF nospace THEN edge' = TRUE /\ nospace' = FALSE ELSE UNCHANGED <<edge, nospace>>
    /\ UNCHANGED <<group, own, io, batch, inq, pend, made, sent>>

Registry ==
    \/ \E r \in Roles : Add(r)
    \/ DelGroup
    \/ \E a \in Alpns : AddAlpn(a)
    \/ \E s \in Snis \cup {Default} : AddCert(s)
    \/ \E ss \in SUBSET (Snis \cup {Default}) : DelCerts(ss)

Engine ==
    \/ ReadFlight \/ WriteFlight \/ HandshakeDone \/ ReadData \/ WriteData \/ Shutdown

Next ==
    \/ Registry
    \/ Connect \/ (\E r \in Roles : NewSession(r)) \/ DelSession
    \/ \E k \in {"handshake", "shutdown"} : Start(k, 0)
    \/ \E k \in {"recv", "send"}, n \in 1 .. MaxData : Start(k, n)
    \/ Engine \/ Cancel \/ EpollWait \/ Feed
    \/ PeerHandshake \/ PeerSends \/ PeerReads

Spec == Init /\ [][Next]_vars

-----------------------------------------------------------------------------
(* An operation that waits is waiting for something that has not happened  *)
(* or that epoll is about to report: no record lies in the socket and no   *)
(* plaintext in the engine for a recv, no room is there for what has to be *)
(* written (_dpssl_post_err, _dpssl_prep_err with _dpefd_wake).            *)
NoStall ==
    op.kind # None /\ pc = "user" =>
        /\ want # {} /\ able \cap want = {}
        /\ want = {"IN"} =>
            /\ inq = <<>> \/ edge \/ "IN" \in batch
            /\ op.kind = "recv" => pend = 0
        /\ want = {"OUT"} => room = 0 \/ edge \/ "OUT" \in batch

(* The protocol a server session settles on is the one the group's list    *)
(* gives at that moment: names added after the wire form was last built    *)
(* count too (_dpssl_alpns_wire_sync), and no name outside the list does.  *)
AlpnCurrent ==
    /\ HasSsn => ssn.alpn = ssn.best
    /\ HasGroup => IsInjective(grp.alpns) /\ (grp.dirty \/ grp.wire = grp.alpns)

(* The TCP element and the descriptor of a session live as long as it, are *)
(* released with it and released once, by the session or by the caller     *)
(* whose dpele_new failed (_dpssl_ssn_ufini, dpcwc_ssl_accept). It does    *)
(* not hold when epoll_ctl fails: then both release it.                    *)
OwnedOnce ==
  ~out.lost =>
    /\ HasSsn => tcp = "ssl" /\ fd = "open" /\ frees = 0
    /\ ssn = NoSsn => tcp # "ssl" /\ (fd = "open" <=> tcp = "own")
    /\ frees \in {0, 1} /\ (frees = 1 <=> tcp = "freed")

(* dpcwc_ssl_client and dpcwc_ssl_accept give the session to the caller    *)
(* when they report success.                                               *)
SuccessGivesSession == out.ret >= 0 /\ tcp # "own" /\ tcp # "none" => out.ele
=============================================================================
