----------------------------- MODULE ByteWindow -----------------------------
(***************************************************************************)
(* What a dpbuf promises to its user (dpbuf.h, layout comment): one text,  *)
(* cut into what was consumed, what is readable and the slack behind it.   *)
(* Nothing here knows of storage, capacity or compaction.                  *)
(***************************************************************************)
EXTENDS Sequences, SequencesExt

CONSTANTS Buf,    \* the buffers
          Bytes   \* what a byte can be

VARIABLES live, past, read, slack

vars == <<live, past, read, slack>>

Text(b) == past[b] \o read[b] \o slack[b]

Init == /\ live = [b \in Buf |-> FALSE]
        /\ past = [b \in Buf |-> <<>>]
        /\ read = [b \in Buf |-> <<>>]
        /\ slack = [b \in Buf |-> <<>>]

\* A buffer comes into being, with any text, or goes.
Create(b) == /\ ~live[b]
             /\ live' = [live EXCEPT ![b] = TRUE]

Delete(b) == /\ live[b]
             /\ live' = [live EXCEPT ![b] = FALSE]
             /\ past'[b] = <<>> /\ read'[b] = <<>> /\ slack'[b] = <<>>

\* The user moves the cuts; the text stays, its consumed part may be forgotten.
Cut(b) == Text(b)' = Text(b)

Forget(b) == past'[b] = <<>> /\ read'[b] = read[b] /\ slack'[b] = slack[b]

\* Bytes are added at the end, and only there; they may become readable.
Extend(b) == /\ past'[b] \in {past[b], <<>>}
             /\ IsPrefix(read[b] \o slack[b], (read[b] \o slack[b])')

\* The user takes back bytes that were written and not yet read.
Withdraw(b) == /\ past'[b] = past[b] /\ read'[b] = read[b]
               /\ IsPrefix(slack'[b], slack[b])

\* dpbuf_reset: the window starts anew at the beginning of the memory.
Restart(b) == past'[b] = <<>> /\ slack'[b] = <<>>

Others(S) == \A b \in Buf \ S :
               /\ past'[b] = past[b] /\ read'[b] = read[b] /\ slack'[b] = slack[b]

\* Bytes move from c to the end of b: those of c keep their order and are consumed.
Move(b, c) == /\ Extend(b)
              /\ Cut(c)
              /\ IsPrefix(past[c], past'[c])

Next == \E b \in Buf :
          \/ Others({b}) /\ (Create(b) \/ Delete(b))
          \/ /\ UNCHANGED live
             /\ live[b]
             /\ \/ Others({b}) /\ (Cut(b) \/ Forget(b) \/ Extend(b) \/ Withdraw(b) \/ Restart(b))
                \/ \E c \in Buf \ {b} : Others({b, c}) /\ Move(b, c)

Spec == Init /\ [][Next]_vars
=============================================================================
