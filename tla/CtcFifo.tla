------------------------------ MODULE CtcFifo ------------------------------
(***************************************************************************)
(* What the cross-thread hand-over of dpevp promises, without eventfds,    *)
(* flags or shared lists: per worker and per direction one first-in        *)
(* first-out queue.  "accept" runs from the master to the worker, "commit" *)
(* from the worker to the master.  CtcChannel is shown to implement it.    *)
(***************************************************************************)
EXTENDS Naturals, Sequences

CONSTANTS Workers,   \* ids of the worker event loops (dpevp_t.id > 0)
          Master,    \* the master event loop (dpevp_t.id = 0)
          Ctcs       \* the cross-thread calls in the system

VARIABLES fifo,      \* fifo[w][d]: ctcs handed over and not yet received
          enter,     \* enter[t]: dpevp_t.enter_ctcs of thread t
          held       \* held[t]: ctcs thread t has in hand

vars == <<fifo, enter, held>>

Threads == Workers \cup {Master}
Dirs == {"accept", "commit"}

Sender(w, d) == IF d = "accept" THEN Master ELSE w
Receiver(w, d) == IF d = "accept" THEN w ELSE Master

Init ==
  /\ fifo = [w \in Workers |-> [d \in Dirs |-> <<>>]]
  /\ enter = [t \in Threads |-> <<>>]
  /\ held \in [Threads -> SUBSET Ctcs]

\* The sender of direction d hands c over.
Push(w, d, c) ==
  LET s == Sender(w, d) IN
  /\ c \in held[s]
  /\ held' = [held EXCEPT ![s] = @ \ {c}]
  /\ fifo' = [fifo EXCEPT ![w][d] = Append(@, c)]
  /\ UNCHANGED enter

\* A thread hands c to itself.
PushSelf(t, c) ==
  /\ c \in held[t]
  /\ held' = [held EXCEPT ![t] = @ \ {c}]
  /\ enter' = [enter EXCEPT ![t] = Append(@, c)]
  /\ UNCHANGED fifo

\* The receiver of direction d gets the n oldest entries, in order.
Deliver(w, d) ==
  LET r == Receiver(w, d) IN
  \E n \in 1 .. Len(fifo[w][d]) :
    /\ enter' = [enter EXCEPT ![r] = @ \o SubSeq(fifo[w][d], 1, n)]
    /\ fifo' = [fifo EXCEPT ![w][d] = SubSeq(@, n + 1, Len(@))]
    /\ UNCHANGED held

\* The receiver takes the oldest entry of its enter queue in hand.
Reap(t) ==
  /\ enter[t] # <<>>
  /\ held' = [held EXCEPT ![t] = @ \cup {Head(enter[t])}]
  /\ enter' = [enter EXCEPT ![t] = Tail(@)]
  /\ UNCHANGED fifo

Next ==
  \/ \E w \in Workers, d \in Dirs : Deliver(w, d) \/ \E c \in Ctcs : Push(w, d, c)
  \/ \E t \in Threads : Reap(t) \/ \E c \in Ctcs : PushSelf(t, c)

Spec == Init /\ [][Next]_vars

\* Nothing that was handed over stays undelivered.
FairSpec == Spec /\ \A w \in Workers, d \in Dirs : WF_vars(Deliver(w, d))
=============================================================================
