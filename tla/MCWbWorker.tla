----------------------------- MODULE MCWbWorker -----------------------------
(* Instances of WbWorker for TLC: the ids the database rejects, and the part
   of a state its future depends on. *)
EXTENDS WbWorker

SecondMalformed == {2}

\* The states TLC need not tell apart: outside the buffer and Flush phases
\* next is set before it is read, Start sets first and cursor, and of the DLQ,
\* which the workers only append to, the properties ask for its members.
LiveNext ==
  [w \in Workers |-> IF pc[w] = "buffer" \/ pc[w] \in InFlush
                     THEN next[w] ELSE "read"]
LiveReclaim ==
  [w \in Workers |-> IF pc[w] \in {"down", "stopped"}
                     THEN <<TRUE, 0>> ELSE <<first[w], cursor[w]>>]
LiveState ==
  <<streamVars, db, SeqRange(dlq), dropped, pc, conn, stopReq, LiveReclaim,
    incoming, buf, LiveNext, flushVars, bounds>>

=============================================================================
