----------------------------- MODULE MCProcess -----------------------------
EXTENDS Process

(* One worker; two workers, of one type with a disabled one beside it or   *)
(* of two types; a disabled type before an enabled one; too many threads.  *)
MCLayouts == {<<1>>, <<2, -1>>, <<1, 1, -1>>, <<0, 1>>, <<2, 1>>}
=============================================================================
