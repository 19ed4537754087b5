----------------------------- MODULE MCDialogue -----------------------------
(* Dialogue with a client that starts afresh or brings a short history of  *)
(* another server's making; long conversations without faults and short    *)
(* ones with one.                                                          *)
EXTENDS Dialogue

History == << MsgItem("user", 1), MsgItem("assistant", 2), CallItem("none", 3),
              OutItem("none", 3, 4) >>

Bounds(r, c, f) == [responses |-> r, calls |-> c, faults |-> f]
MCStarts ==
  [history: {<<>>, History}, first: {10}, bounds: {Bounds(3, 2, 1), Bounds(3, 3, 0)}]
    \cup [history: {<<>>}, first: {10}, bounds: {Bounds(2, 3, 1)}]
=============================================================================
