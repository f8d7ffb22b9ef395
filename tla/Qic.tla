--------------------------------- MODULE Qic ---------------------------------
(***************************************************************************)
(* QUIC (lib/dpapp/dpqic.c): the engines of a thread and their timer, the  *)
(* listener, client, connection and stream elements, the callbacks through *)
(* which lsquic reports to them, and the header sets of HTTP/3.            *)
(*                                                                         *)
(* lsquic is external. It runs inside a tick: a timer or packets call      *)
(* lsquic_engine_process_conns (pc = "tick"), which makes callbacks in     *)
(* any order; no coroutine runs until it returns (pc = "user"). A callback *)
(* ends an operation with dpevp_end, which keeps it as the element's       *)
(* operation until the event loop pops it, so a later callback of the same *)
(* tick still finds it.                                                    *)
(***************************************************************************)
EXTENDS Integers, Sequences, SequencesExt, FiniteSets

CONSTANTS
    MaxConn,      \* bound: connections made in a behaviour
    MaxStm,       \* bound: streams made in a behaviour
    MaxData,      \* bytes in a buffer
    MaxCalls,     \* bound: calls of the user that make or start something
    Names,        \* header names
    Vals,         \* header values
    MaxSlots      \* bound: slots of a header set

ASSUME QicAssumption ==
    /\ {MaxConn, MaxStm, MaxData, MaxCalls, MaxSlots} \subseteq Nat
    /\ IsFiniteSet(Names) /\ IsFiniteSet(Vals)

None == "none"
Roles == {"server", "client"}
Conns == 1 .. MaxConn
Stms == 1 .. MaxStm
Copies == {"a", "b"}      \* a stream's element and the copy dpele_dup makes
\* dpret_t
OK == 0
TIME == -62
CLOSED == -154
CONNREFUSED == -111

VARIABLES
    eng,      \* the engine: its role (its group's), live, users, timer armed
    lsn, cli, \* the listener or the client element
    conn,     \* connection -> element, lsquic connection, list of ready streams
    stm,      \* stream -> lsquic stream
    ele,      \* stream -> copy -> element
    hs,       \* a header set
    pc,       \* "user" or "tick"
    calls, cancelled

vars == <<eng, lsn, cli, conn, stm, ele, hs, pc, calls, cancelled>>

\* an element's operation: ended is TRUE from dpevp_end until the loop pops it
Idle == [kind |-> None, ended |-> FALSE, ret |-> OK, len |-> 0]
Waiting(op) == op.kind # None /\ ~op.ended
Op(k, n) == [Idle EXCEPT !.kind = k, !.len = n]

(* dpevp_end: nothing to end if there is no operation; otherwise its       *)
(* result is set, also when it has ended and waits to be popped.           *)
End(op, r) == IF op.kind = None THEN op ELSE [op EXCEPT !.ended = TRUE, !.ret = r]

\* out is the variable a callback fills: of the call under way ("cur") or of
\* one that is over ("old")
NoLsn == [open |-> FALSE, op |-> Idle, out |-> None, ready |-> <<>>]
NoCli == [open |-> FALSE, op |-> Idle, conn |-> 0]
\* place: where the element is: a ready list, its user, or nowhere (astray)
NoConn == [made |-> FALSE, live |-> FALSE, quic |-> FALSE, hsk |-> FALSE, place |-> None,
           op |-> Idle, out |-> None, ready |-> <<>>, delayed |-> 0]
\* wr, ww: the wishes to read and to write; stale: one is left of a call that
\* was cancelled; used: a callback was given an element that was freed
NoStm == [conn |-> 0, quic |-> FALSE, ctx |-> FALSE, place |-> None, wr |-> FALSE, ww |-> FALSE,
          stale |-> FALSE, dup |-> FALSE, lost |-> FALSE, used |-> FALSE]
NoEle == [live |-> FALSE, owner |-> FALSE, peer |-> FALSE, stream |-> FALSE, op |-> Idle]
NoEng(r) == [role |-> r, live |-> FALSE, count |-> 0, armed |-> FALSE]
NoHs == [slots |-> <<>>, count |-> 0, bufs |-> 0, dup |-> FALSE,
         last |-> [n \in Names |-> None]]

Init ==
    /\ eng \in {NoEng(r) : r \in Roles} /\ lsn = NoLsn /\ cli = NoCli
    /\ conn = [c \in Conns |-> NoConn] /\ stm = [s \in Stms |-> NoStm]
    /\ ele = [s \in Stms |-> [x \in Copies |-> NoEle]]
    /\ hs = NoHs /\ pc = "user" /\ calls = 0 /\ cancelled = FALSE

Call == calls < MaxCalls /\ calls' = calls + 1
FreshConn(c) == ~conn[c].made /\ \A d \in Conns : d < c => conn[d].made
FreshStm(s) == stm[s].conn = 0 /\ \A t \in Stms : t < s => stm[t].conn # 0

-----------------------------------------------------------------------------
(* Engines. dpqic_thrd_init and dpqic_thrd_exit frame a behaviour.         *)

(* _dpqic_get_engine: one engine per group. Groups share nothing: there is *)
(* one here, of either role.                                               *)
GetEngine == [eng EXCEPT !.live = TRUE]

AddEngine ==
    /\ pc = "user" /\ ~eng.live /\ hs = NoHs /\ Call
    /\ eng' = GetEngine
    /\ UNCHANGED <<lsn, cli, conn, stm, ele, hs, pc, cancelled>>

(* _dpqic_start_process: the timer with no delay.                          *)
StartProcess == [eng EXCEPT !.armed = TRUE]

(* _dpqic_cb_timeout, and _dpqic_cb_recv_packets after datagrams came.     *)
Tick ==
    /\ pc = "user" /\ eng.live
    /\ \/ eng.armed /\ eng' = [eng EXCEPT !.armed = FALSE]
       \/ eng.count > 0 /\ UNCHANGED eng
    /\ pc' = "tick"
    /\ UNCHANGED <<lsn, cli, conn, stm, ele, hs, calls, cancelled>>


(* The end of _dpqic_process_conns: the timer is set for when lsquic wants *)
(* to run next (lsquic_engine_earliest_adv_tick), if it has connections.   *)
TickEnd ==
    /\ pc = "tick"
    /\ eng' = IF \E c \in Conns : conn[c].quic THEN StartProcess ELSE eng
    /\ pc' = "user"
    /\ UNCHANGED <<lsn, cli, conn, stm, ele, hs, calls, cancelled>>

-----------------------------------------------------------------------------
(* The listener and the client.                                            *)

(* _dpqic_listen_vopen, _dpqic_client_vopen: the engine stays even if the  *)
(* UDP socket cannot be set up.                                            *)
OpenListener ==
    /\ pc = "user" /\ eng.role = "server" /\ ~lsn.open /\ hs = NoHs /\ Call
    /\ \/ /\ lsn' = [NoLsn EXCEPT !.open = TRUE]
          /\ eng' = [GetEngine EXCEPT !.count = @ + 1]
       \/ eng' = GetEngine /\ UNCHANGED lsn
    /\ UNCHANGED <<cli, conn, stm, ele, hs, pc, cancelled>>

OpenClient ==
    /\ pc = "user" /\ eng.role = "client" /\ ~cli.open /\ hs = NoHs /\ Call
    /\ \/ /\ cli' = [NoCli EXCEPT !.open = TRUE]
          /\ eng' = [GetEngine EXCEPT !.count = @ + 1]
       \/ eng' = GetEngine /\ UNCHANGED cli
    /\ UNCHANGED <<lsn, conn, stm, ele, hs, pc, cancelled>>

(* The stream elements left of the streams of ss when their list is freed: *)
(* _dpqic_stream_clean closes the lsquic stream.                           *)
DropStms(ss) ==
    /\ stm' = [s \in Stms |-> IF s \in ss
                              THEN [NoStm EXCEPT !.conn = stm[s].conn]
                              ELSE stm[s]]
    /\ ele' = [s \in Stms |-> IF s \in ss THEN [x \in Copies |-> NoEle] ELSE ele[s]]

Dropped(c) == [conn[c] EXCEPT !.live = FALSE, !.place = None, !.out = None, !.ready = <<>>]

(* _dpqic_listen_clean: the queued connections go with the listener. lsquic*)
(* keeps the listener as the peer of its connections, so a caller deletes  *)
(* the ones it was given first.                                            *)
CloseListener ==
    /\ pc = "user" /\ lsn.open /\ lsn.op.kind = None
    /\ \A c \in Conns : conn[c].place # "user"
    /\ LET cs == Range(lsn.ready) IN
       /\ conn' = [c \in Conns |-> IF c \in cs THEN Dropped(c) ELSE conn[c]]
       /\ DropStms(UNION {Range(conn[c].ready) : c \in cs})
    /\ lsn' = NoLsn
    /\ eng' = [eng EXCEPT !.count = @ - 1]
    /\ UNCHANGED <<cli, hs, pc, calls, cancelled>>

(* _dpqic_client_clean                                                     *)
CloseClient ==
    /\ pc = "user" /\ cli.open /\ cli.op.kind = None
    /\ \A c \in Conns : ~conn[c].live
    /\ cli' = NoCli
    /\ eng' = [eng EXCEPT !.count = @ - 1]
    /\ UNCHANGED <<lsn, conn, stm, ele, hs, pc, calls, cancelled>>

(* Faulty Accept: the ready list is only looked at by the callback.        *)
AcceptWaits ==
    /\ pc = "user" /\ lsn.open /\ lsn.op.kind = None /\ Call
    /\ lsn' = [lsn EXCEPT !.op = Op("accept", 0), !.out = "cur"]
    /\ UNCHANGED <<eng, cli, conn, stm, ele, hs, pc, cancelled>>

(* _dpqic_accept_prep: the first connection of the list, or wait for one.  *)
Accept ==
    /\ pc = "user" /\ lsn.open /\ lsn.op.kind = None /\ Call
    /\ IF lsn.ready = <<>>
       THEN lsn' = [lsn EXCEPT !.op = Op("accept", 0), !.out = "cur"] /\ UNCHANGED conn
       ELSE /\ conn' = [conn EXCEPT ![Head(lsn.ready)].place = "user"]
            /\ lsn' = [lsn EXCEPT !.op = End(Op("accept", 0), OK), !.ready = Tail(@)]
    /\ UNCHANGED <<eng, cli, stm, ele, hs, pc, cancelled>>

(* Where a callback puts a new element, given the variable it has.         *)
Placed(out) == CASE out = "cur" -> "user" [] out = "old" -> "astray" [] out = None -> "ready"

(* _dpqic_cb_on_new_conn, server: to the variable of the call, or queued.  *)
OnNewConn(c) ==
    /\ pc = "tick" /\ lsn.open /\ FreshConn(c)
    /\ LET new == [NoConn EXCEPT !.made = TRUE, !.live = TRUE, !.quic = TRUE, !.hsk = TRUE]
       IN  conn' = [conn EXCEPT ![c] = [new EXCEPT !.place = Placed(lsn.out)]]
    /\ lsn' = IF lsn.out = None THEN [lsn EXCEPT !.ready = Append(@, c)]
              ELSE [lsn EXCEPT !.out = None, !.op = End(@, OK)]
    /\ UNCHANGED <<eng, cli, stm, ele, hs, pc, calls, cancelled>>

(* _dpqic_connect_prep: on_new_conn runs inside lsquic_engine_connect; the *)
(* caller has the connection while it waits for the handshake.             *)
Connect(c) ==
    /\ pc = "user" /\ cli.open /\ cli.op.kind = None /\ FreshConn(c) /\ Call
    /\ conn' = [conn EXCEPT ![c] = [NoConn EXCEPT !.made = TRUE, !.live = TRUE,
                                                  !.quic = TRUE, !.place = "user"]]
    /\ cli' = [cli EXCEPT !.op = Op("connect", 0), !.conn = c]
    /\ eng' = StartProcess
    /\ UNCHANGED <<lsn, stm, ele, hs, pc, cancelled>>

(* _dpqic_cb_on_hsk_done: whatever operation the client element has ends.  *)
OnHskDone(c) ==
    /\ pc = "tick" /\ eng.role = "client" /\ conn[c].quic /\ ~conn[c].hsk
    /\ conn' = [conn EXCEPT ![c].hsk = TRUE]
    /\ \E r \in {OK, CONNREFUSED} : cli' = [cli EXCEPT !.op = End(@, r)]
    /\ UNCHANGED <<eng, lsn, stm, ele, hs, pc, calls, cancelled>>

-----------------------------------------------------------------------------
(* Connections.                                                            *)

Mine(c) == conn[c].live /\ conn[c].place = "user" /\ conn[c].op.kind = None

(* _dpqic_cb_on_new_stream, for a connection in state k: to the variable   *)
(* of the call, or queued.                                                 *)
OnNewStream(c, k, s) ==
    /\ stm' = [stm EXCEPT ![s] = [NoStm EXCEPT !.conn = c, !.quic = TRUE, !.ctx = TRUE,
                                               !.place = Placed(k.out)]]
    /\ ele' = [ele EXCEPT ![s]["a"] = [NoEle EXCEPT !.live = TRUE, !.owner = TRUE, !.stream = TRUE]]
    /\ conn' = [conn EXCEPT ![c] = IF k.out = None THEN [k EXCEPT !.ready = Append(@, s)]
                                   ELSE [k EXCEPT !.out = None, !.op = End(@, OK)]]

(* _dpqic_stream_prep with create_new: lsquic makes the stream at once or, *)
(* without credit, in a later tick.                                        *)
NewStream(c, s) ==
    /\ pc = "user" /\ Mine(c) /\ conn[c].quic /\ FreshStm(s) /\ Call
    /\ LET asked == [conn[c] EXCEPT !.op = Op("new", 0), !.out = "cur"] IN
       \/ OnNewStream(c, asked, s)
       \/ /\ conn' = [conn EXCEPT ![c] = [asked EXCEPT !.delayed = @ + 1]]
          /\ UNCHANGED <<stm, ele>>
    /\ UNCHANGED <<eng, lsn, cli, hs, pc, cancelled>>

(* _dpqic_stream_prep without: the first of the list, or wait for one.     *)
GetStream(c) ==
    /\ pc = "user" /\ Mine(c) /\ conn[c].quic /\ Call
    /\ IF conn[c].ready = <<>>
       THEN conn' = [conn EXCEPT ![c].op = Op("stream", 0), ![c].out = "cur"] /\ UNCHANGED stm
       ELSE /\ stm' = [stm EXCEPT ![Head(conn[c].ready)].place = "user"]
            /\ conn' = [conn EXCEPT ![c].op = End(Op("stream", 0), OK), ![c].ready = Tail(@)]
    /\ UNCHANGED <<eng, lsn, cli, ele, hs, pc, cancelled>>

(* A stream the peer opened, or one asked for before.                      *)
StreamArrives(c, s) ==
    /\ pc = "tick" /\ conn[c].live /\ conn[c].quic /\ conn[c].hsk /\ FreshStm(s)
    /\ \E d \in {0, 1} :
          d <= conn[c].delayed /\ OnNewStream(c, [conn[c] EXCEPT !.delayed = @ - d], s)
    /\ UNCHANGED <<eng, lsn, cli, hs, pc, calls, cancelled>>

(* The user's dpele_del: _dpqic_conect_clean. Streams the user has stay.   *)
DelConn(c) ==
    /\ pc = "user" /\ Mine(c)
    /\ conn' = [conn EXCEPT ![c] = Dropped(c)]
    /\ DropStms(Range(conn[c].ready))
    /\ UNCHANGED <<eng, lsn, cli, hs, pc, calls, cancelled>>

(* lsquic's context is the first element, which may be deleted while the   *)
(* copy lives on.                                                          *)
Freed(s) == stm[s].ctx /\ ~ele[s]["a"].live

(* _dpqic_cb_on_close, for the element and its copy: the lsquic stream is  *)
(* gone, an operation ends with DPE_CLOSED. A result that has not been     *)
(* popped yet is overwritten. With an element that was freed, its memory   *)
(* may still lead to the copy, or (cs) no longer.                          *)
Cut(s) == [x \in Copies |-> [ele[s][x] EXCEPT !.stream = FALSE, !.op = End(@, CLOSED)]]
Unseen(s) == \E x \in Copies : LET op == ele[s][x].op IN op.kind # None /\ op.ended /\ op.ret > 0

OnClose(ss) ==
    /\ stm' = [s \in Stms |-> IF s \in ss
          THEN [stm[s] EXCEPT !.quic = FALSE, !.ctx = FALSE,
                              !.lost = @ \/ (stm[s].ctx /\ Unseen(s)), !.used = @ \/ Freed(s)]
          ELSE stm[s]]
    /\ \E cs \in SUBSET {s \in ss : Freed(s)} :
          ele' = [s \in Stms |-> IF s \in ss \ cs /\ stm[s].ctx THEN Cut(s) ELSE ele[s]]

StreamCloses(s) ==
    /\ stm[s].quic /\ pc = "tick"
    /\ OnClose({s})
    /\ UNCHANGED <<eng, lsn, cli, conn, hs, pc, calls, cancelled>>

(* Connections are closed: lsquic closes their streams, then calls         *)
(* _dpqic_cb_on_conn_closed.                                               *)
OnConnClosed(cs) ==
    /\ OnClose({s \in Stms : stm[s].conn \in cs /\ stm[s].quic})
    /\ conn' = [c \in Conns |-> IF c \in cs
          THEN [conn[c] EXCEPT !.quic = FALSE, !.out = None, !.op = End(@, CLOSED)]
          ELSE conn[c]]

(* By either side.                                                         *)
ConnCloses(c) ==
    /\ conn[c].quic /\ pc = "tick"
    /\ OnConnClosed({c})
    /\ UNCHANGED <<eng, lsn, cli, hs, pc, calls, cancelled>>

(* dpqic_del_engine: an engine without users; lsquic closes what is left   *)
(* of its connections. A timer that is still armed is not taken back; what *)
(* it then does is not followed.                                           *)
DelEngine ==
    /\ pc = "user" /\ eng.live /\ eng.count = 0
    /\ eng' = NoEng(eng.role)
    /\ OnConnClosed({c \in Conns : conn[c].quic})
    /\ UNCHANGED <<lsn, cli, hs, pc, calls, cancelled>>

-----------------------------------------------------------------------------
(* Streams.                                                                *)

Usable(s, x) == pc = "user" /\ stm[s].place = "user" /\ ele[s][x].live /\ ele[s][x].op.kind = None

(* dpele_dup: _dpqic_stream_copy                                           *)
Dup(s) ==
    /\ Usable(s, "a") /\ ~ele[s]["a"].peer /\ ~ele[s]["b"].live /\ Call
    /\ ele' = [ele EXCEPT ![s]["a"].peer = TRUE,
                          ![s]["b"] = [NoEle EXCEPT !.live = TRUE, !.peer = TRUE,
                                                    !.stream = ele[s]["a"].stream]]
    /\ stm' = [stm EXCEPT ![s].dup = TRUE]
    /\ UNCHANGED <<eng, lsn, cli, conn, hs, pc, cancelled>>

(* _dpqic_stream_clean: with a copy left the stream is the copy's, though  *)
(* lsquic still calls back with the first element.                         *)
DelStm(s, x) ==
    /\ Usable(s, x)
    /\ LET y == IF x = "a" THEN "b" ELSE "a" IN
       IF ele[s][x].peer
       THEN /\ ele' = [ele EXCEPT ![s][x] = NoEle, ![s][y].owner = TRUE, ![s][y].peer = FALSE]
            /\ UNCHANGED stm
       ELSE /\ ele' = [ele EXCEPT ![s][x] = NoEle]
            /\ stm' = [stm EXCEPT ![s] = [NoStm EXCEPT !.conn = stm[s].conn]]
    /\ UNCHANGED <<eng, lsn, cli, conn, hs, pc, calls, cancelled>>

(* _dpqic_recv_prep, _dpqic_recvv_prep, _dpqic_recv_hdrset_prep            *)
Recv(s, x, n) ==
    /\ Usable(s, x) /\ ele[s][x].stream /\ ele[s][x].owner /\ Call
    /\ ele' = [ele EXCEPT ![s][x].op = Op("recv", n)]
    /\ stm' = [stm EXCEPT ![s].wr = TRUE, ![s].stale = @ /\ stm[s].ww]
    /\ eng' = StartProcess
    /\ UNCHANGED <<lsn, cli, conn, hs, pc, cancelled>>

(* _dpqic_send_prep, _dpqic_sendv_prep, _dpqic_send_hdrset_prep            *)
Send(s, x) ==
    /\ Usable(s, x) /\ ele[s][x].stream /\ ~(ele[s][x].owner /\ ele[s][x].peer) /\ Call
    /\ ele' = [ele EXCEPT ![s][x].op = Op("send", 1)]
    /\ stm' = [stm EXCEPT ![s].ww = TRUE, ![s].stale = @ /\ stm[s].wr]
    /\ eng' = StartProcess
    /\ UNCHANGED <<lsn, cli, conn, hs, pc, cancelled>>

(* The post of the operation that the element lsquic knows has, ended or   *)
(* not, moves n bytes; 0 is DPE_WAIT (nothing to read, no room). Of a freed *)
(* element see OnFreed.                                                    *)
Post(s, n) ==
    /\ stm[s].ctx /\ ~Freed(s)
    /\ ele' = IF n = 0 THEN ele ELSE [ele EXCEPT ![s]["a"].op = End(@, n)]

Has(s, k) == ele[s]["a"].op.kind \in k

\* what is left of a stream's wishes after a callback
Wishes(k, r, w) == [k EXCEPT !.wr = r, !.ww = w, !.stale = @ /\ (r \/ w)]

(* Faulty OnRead: the stream still wants to be read.                       *)
OnReadStillWants(s, n) ==
    /\ pc = "tick" /\ stm[s].quic /\ stm[s].wr /\ Post(s, n)
    /\ IF Has(s, {None}) THEN n = 0 /\ stm' = [stm EXCEPT ![s] = Wishes(@, FALSE, @.ww)]
       ELSE n <= ele[s]["a"].op.len /\ (Has(s, {"recv"}) => n > 0) /\ UNCHANGED stm
    /\ UNCHANGED <<eng, lsn, cli, conn, hs, pc, calls, cancelled>>

(* _dpqic_cb_on_read, of a stream with something to read: the post of      *)
(* whatever operation the element has.                                     *)
OnRead(s, n) ==
    /\ pc = "tick" /\ stm[s].quic /\ stm[s].wr /\ Post(s, n)
    /\ IF Has(s, {None}) THEN n = 0 /\ stm' = [stm EXCEPT ![s] = Wishes(@, FALSE, @.ww)]
       ELSE /\ n <= ele[s]["a"].op.len /\ (Has(s, {"recv"}) => n > 0)
            /\ stm' = [stm EXCEPT ![s] = Wishes(@, n = 0, @.ww)]
    /\ UNCHANGED <<eng, lsn, cli, conn, hs, pc, calls, cancelled>>

(* _dpqic_cb_on_write, of a stream with room                               *)
OnWrite(s, n) ==
    /\ pc = "tick" /\ stm[s].quic /\ stm[s].ww /\ Post(s, n)
    /\ IF Has(s, {None}) THEN n = 0 /\ stm' = [stm EXCEPT ![s] = Wishes(@, @.wr, FALSE)]
       ELSE /\ n <= ele[s]["a"].op.len /\ (Has(s, {"send"}) => n > 0)
            /\ stm' = [stm EXCEPT ![s] = Wishes(@, @.wr, n = 0)]
    /\ UNCHANGED <<eng, lsn, cli, conn, hs, pc, calls, cancelled>>

(* Either of them with an element that was freed: by what its memory holds *)
(* now the wish is withdrawn or stays. What a post run from there does to  *)
(* other memory is not followed.                                           *)
OnFreed(s) ==
    /\ pc = "tick" /\ stm[s].quic /\ Freed(s)
    /\ \E w \in BOOLEAN :
        \/ stm[s].wr /\ stm' = [stm EXCEPT ![s] = [Wishes(@, w, @.ww) EXCEPT !.used = TRUE]]
        \/ stm[s].ww /\ stm' = [stm EXCEPT ![s] = [Wishes(@, @.wr, w) EXCEPT !.used = TRUE]]
    /\ UNCHANGED <<eng, lsn, cli, conn, ele, hs, pc, calls, cancelled>>

-----------------------------------------------------------------------------
(* The event loop: timeouts and dpevp_end by the user, and dpevp_pop.      *)

Old(out) == IF out = "cur" THEN "old" ELSE out

Cancel ==
    /\ pc = "user" /\ Call /\ cancelled' = TRUE
    /\ \/ /\ Waiting(lsn.op) /\ lsn' = [lsn EXCEPT !.op = End(@, TIME)]
          /\ UNCHANGED <<cli, conn, stm, ele>>
       \/ Waiting(cli.op) /\ cli' = [cli EXCEPT !.op = End(@, TIME)] /\ UNCHANGED <<lsn, conn, stm, ele>>
       \/ \E c \in Conns :
             /\ Waiting(conn[c].op)
             /\ conn' = [conn EXCEPT ![c].op = End(@, TIME)]
             /\ UNCHANGED <<lsn, cli, stm, ele>>
       \/ \E s \in Stms, x \in Copies :
             /\ Waiting(ele[s][x].op)
             /\ ele' = [ele EXCEPT ![s][x].op = End(@, TIME)]
             /\ stm' = [stm EXCEPT ![s].stale = TRUE]
             /\ UNCHANGED <<lsn, cli, conn>>
    /\ UNCHANGED <<eng, hs, pc>>

Pop ==
    /\ pc = "user"
    /\ \/ lsn.op.ended /\ lsn' = [lsn EXCEPT !.op = Idle, !.out = Old(@)] /\ UNCHANGED <<cli, conn, ele>>
       \/ cli.op.ended /\ cli' = [cli EXCEPT !.op = Idle] /\ UNCHANGED <<lsn, conn, ele>>
       \/ \E c \in Conns :
             /\ conn[c].op.ended
             /\ conn' = [conn EXCEPT ![c].op = Idle, ![c].out = Old(@)]
             /\ UNCHANGED <<lsn, cli, ele>>
       \/ \E s \in Stms, x \in Copies :
             /\ ele[s][x].op.ended
             /\ ele' = [ele EXCEPT ![s][x].op = Idle]
             /\ UNCHANGED <<lsn, cli, conn>>
    /\ UNCHANGED <<eng, stm, hs, pc, calls, cancelled>>

-----------------------------------------------------------------------------
(* Header sets: a list of slots, of which the first count are headers. The *)
(* ones behind keep the buffer they had. buf 0 is no buffer. They share    *)
(* nothing with the engines; a behaviour uses one or the other.            *)

Slot(n, v, b) == [name |-> n, val |-> v, buf |-> b]

Find(n) == SelectInSubSeq(hs.slots, 1, hs.count, LAMBDA h : h.name = n)

(* dpqic_hdrset_get                                                        *)
Get(n) == IF Find(n) = 0 THEN None ELSE hs.slots[Find(n)].val

(* dpqic_hdrset_add: two more slots if all are in use; a slot's old buffer *)
(* is reused.                                                              *)
Grown(h) == IF h.count < Len(h.slots) THEN h.slots
            ELSE h.slots \o <<Slot(None, None, 0), Slot(None, None, 0)>>

HdrAdd(n, v) ==
    LET ss == Grown(hs)
        k == hs.count + 1
        b == IF ss[k].buf = 0 THEN hs.bufs + 1 ELSE ss[k].buf
    IN  [hs EXCEPT !.slots = [ss EXCEPT ![k] = Slot(n, v, b)], !.count = k,
                   !.bufs = IF b > @ THEN b ELSE @]

(* Faulty HdrRemove: the last header is copied over, not swapped.          *)
HdrRemoveCopies(i) ==
    [hs EXCEPT !.slots = [@ EXCEPT ![i] = hs.slots[hs.count]], !.count = @ - 1]

(* dpqic_hdrset_set without a value: swap with the last header.            *)
HdrRemove(i) ==
    [hs EXCEPT !.slots = [@ EXCEPT ![i] = hs.slots[hs.count], ![hs.count] = Slot(None, None, hs.slots[i].buf)],
               !.count = @ - 1]

Plain == eng = NoEng(eng.role)

(* dpqic_hdrset_set                                                        *)
HdrSet(n, v) ==
    /\ Plain
    /\ Find(n) # 0 \/ v # None
    /\ Find(n) = 0 => hs.count < MaxSlots
    /\ LET i == Find(n)
           new == IF i = 0 THEN HdrAdd(n, v)
                  ELSE IF v = None THEN HdrRemove(i)
                  ELSE [hs EXCEPT !.slots[i].val = v]
       IN  hs' = [new EXCEPT !.last[n] = v]
    /\ UNCHANGED <<eng, lsn, cli, conn, stm, ele, pc, calls, cancelled>>

(* _dpqic_cb_hsi_predec and _dpqic_cb_hsi_append: a header of the peer is  *)
(* added, also when its name is there; get and set go by the first one.    *)
HdrDecode(n, v) ==
    /\ Plain /\ hs.count < MaxSlots
    /\ hs' = [HdrAdd(n, v) EXCEPT !.last[n] = IF Find(n) = 0 THEN v ELSE @,
                                  !.dup = @ \/ Find(n) # 0]
    /\ UNCHANGED <<eng, lsn, cli, conn, stm, ele, pc, calls, cancelled>>

(* dpqic_hdrset_del                                                        *)
HdrDel ==
    /\ hs # NoHs
    /\ hs' = NoHs
    /\ UNCHANGED <<eng, lsn, cli, conn, stm, ele, pc, calls, cancelled>>

-----------------------------------------------------------------------------
Callback ==
    \/ \E c \in Conns : OnNewConn(c) \/ OnHskDone(c) \/ ConnCloses(c)
    \/ \E c \in Conns, s \in Stms : StreamArrives(c, s)
    \/ \E s \in Stms, n \in 0 .. MaxData : OnRead(s, n) \/ OnWrite(s, n)
    \/ \E s \in Stms : StreamCloses(s) \/ OnFreed(s)

User ==
    \/ AddEngine \/ DelEngine
    \/ OpenListener \/ OpenClient \/ CloseListener \/ CloseClient \/ Accept
    \/ \E c \in Conns : Connect(c) \/ GetStream(c) \/ DelConn(c)
    \/ \E c \in Conns, s \in Stms : NewStream(c, s)
    \/ \E s \in Stms : Dup(s)
    \/ \E s \in Stms, x \in Copies : DelStm(s, x) \/ Send(s, x)
    \/ \E s \in Stms, x \in Copies, n \in 1 .. MaxData : Recv(s, x, n)
    \/ \E n \in Names, v \in Vals \cup {None} : HdrSet(n, v)
    \/ \E n \in Names, v \in Vals : HdrDecode(n, v)
    \/ HdrDel

Next == User \/ Callback \/ Tick \/ TickEnd \/ Cancel \/ Pop

Spec == Init /\ [][Next]_vars

-----------------------------------------------------------------------------
(* Every connection and every stream lsquic reports reaches exactly one    *)
(* place: the ready list of its listener or connection, once and in the    *)
(* order of arrival, or the caller that waits for it; nobody waits while   *)
(* the list has one for him, and what the list holds is alive. An element  *)
(* is only lost if a call was cancelled: it leaves its variable behind for *)
(* the next callback (_dpqic_accept_prep, _dpqic_cb_on_new_conn).          *)
HandedOnce ==
    /\ \A c \in Conns :
        /\ conn[c].place = "ready" <=> Contains(lsn.ready, c)
        /\ conn[c].place = "astray" => cancelled
        /\ conn[c].live <=> conn[c].place # None
        /\ conn[c].op.kind = "stream" /\ ~conn[c].op.ended => conn[c].ready = <<>>
    /\ Waiting(lsn.op) => lsn.ready = <<>>
    /\ \A s \in Stms :
        /\ stm[s].place = "ready" <=> stm[s].conn # 0 /\ Contains(conn[stm[s].conn].ready, s)
        /\ stm[s].place = "ready" => ele[s]["a"].live
        /\ stm[s].place = "astray" => cancelled
    /\ \A q \in {lsn.ready} \cup {conn[c].ready : c \in Conns} :
        \A i, j \in DOMAIN q : i < j => q[i] < q[j]

(* A call is served once: when its operation has ended, but waits to be    *)
(* popped, no wish is left that lets _dpqic_cb_on_read or on_write run its *)
(* post again, to read or to write twice. The two exceptions are a wish    *)
(* that a cancelled call has left and no other call has taken over, and a  *)
(* copy, whose wishes are answered by the first element's operation.       *)
WishLeft(s) == stm[s].quic /\ ele[s]["a"].op.ended /\ (stm[s].wr \/ stm[s].ww)

PostedOnce == \A s \in Stms : WishLeft(s) => stm[s].stale \/ stm[s].dup

(* The same for a stream with a copy: reads and writes may wait on one     *)
(* stream together (the comment of _dpqic_stream_copy).                    *)
CopyPostedOnce == \A s \in Stms : WishLeft(s) => stm[s].stale

(* The bytes a recv or a send has moved reach the caller as the result of  *)
(* the completed call: _dpqic_cb_on_close does not replace it by           *)
(* DPE_CLOSED before it is popped.                                         *)
ResultKept == \A s \in Stms : ~stm[s].lost

(* No callback is given an element that was freed: as the comment in       *)
(* _dpqic_cb_on_close says, _dpqic_stream_clean takes the context back.    *)
NoFreedUse == \A s \in Stms : ~stm[s].used

(* Each buffer belongs to one slot, so that dpqic_hdrset_del frees it once,*)
(* and get returns the value that was set last (dpqic_hdrset_set).         *)
HeadersSound ==
    /\ \A i, j \in DOMAIN hs.slots :
        hs.slots[i].buf # 0 /\ i # j => hs.slots[i].buf # hs.slots[j].buf
    /\ ~hs.dup => \A n \in Names : Get(n) = hs.last[n]
=============================================================================
