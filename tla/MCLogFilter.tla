----------------------------- MODULE MCLogFilter -----------------------------
(* Lines may have two units and the queue holds two items: two chunks are   *)
(* enough to overrun both, to cut a line in two, and to find its end after  *)
(* its beginning was thrown away.  Reloads need little output.              *)
EXTENDS LogFilter

Piece(l, nl, m) == [len |-> l, nl |-> nl, match |-> m]
Short == Piece(1, TRUE, FALSE)
MCChunks ==
  {<<Short, Short>>, <<Short, Piece(3, FALSE, FALSE)>>, <<Piece(1, FALSE, TRUE)>>,
   <<Piece(2, TRUE, FALSE)>>}
MCBudgets == {[reads |-> 2, hups |-> 0], [reads |-> 1, hups |-> 2]}
=============================================================================
