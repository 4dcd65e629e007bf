---------------------------- MODULE MessageOrder ----------------------------
(***************************************************************************)
(* In what order messages reach their rooms.  Nothing numbers them: the    *)
(* gateway awaits each sendMessage RPC on its own, and messages sent over  *)
(* HTTP come back through the events queue.  What a client can rely on is  *)
(* that a message sent after another was acknowledged is emitted after it. *)
(*                                                                         *)
(* One combination is out: a message sent over a socket can overtake one   *)
(* acknowledged over HTTP, which may still be queued.                      *)
(***************************************************************************)
EXTENDS ChatMessages

VARIABLE known   \* (history) known[m]: messages acknowledged before m was sent

orderVars == <<allVars, known>>

Sent(m) == stage[m] # "unsent"

OrderInit == MessagesInit /\ known = [m \in Messages |-> {}]

OrderNext ==
    /\ MessagesNext
    /\ known' = [m \in Messages |-> IF ~Sent(m) /\ Sent(m)' THEN acked ELSE known[m]]

OrderSpec == OrderInit /\ [][OrderNext]_orderVars

\* A message is never emitted behind one that was sent, by whomever, after it
\* had been acknowledged, unless it came over HTTP and the other over a socket;
\* and a message acknowledged over a socket had been emitted by then.
AcknowledgedFirst ==
    [][\A m, n \in Messages :
         casts'[m] > casts[m] /\ m \in known[n] =>
             /\ casts[n] = 0 \/ ViaSocket(n)
             /\ ~ViaSocket(m)]_orderVars
=============================================================================
