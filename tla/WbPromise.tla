----------------------------- MODULE WbPromise ------------------------------
(***************************************************************************)
(* What the write-behind path promises the chat server for the session     *)
(* events it emits (docs/db/write-behind.md, "at-least-once"): an event    *)
(* stays owed until it is accounted for, that is stored in the database or *)
(* in the dead letter queue, given up as configured, or trimmed from a     *)
(* length-limited stream; and no event is owed for ever.                   *)
(***************************************************************************)
CONSTANT Events
VARIABLES owed, accounted
vars == <<owed, accounted>>

Init == owed = {} /\ accounted = {}

\* A new event arrives; a length-limited stream may give up old ones for it.
Accept(e, cut, done) ==
  /\ e \notin owed \union accounted
  /\ accounted' = accounted \union cut
  /\ owed' = (owed \union {e}) \ done
  /\ done \subseteq cut

\* Events are accounted for, accounted ones are forgotten, or both at once.
Settle(cut, done) ==
  /\ accounted' = accounted \union cut
  /\ owed' = owed \ done
  /\ done \subseteq accounted'

Next ==
  \E cut, done \in SUBSET Events :
    Settle(cut, done) \/ \E e \in Events : Accept(e, cut, done)

Spec == Init /\ [][Next]_vars

Forgets(e) ==
  \E cut, done \in SUBSET Events : e \in done \intersect owed /\ Settle(cut, done)
FairSpec == Spec /\ \A e \in Events : WF_vars(Forgets(e))

=============================================================================
