------------------------------ MODULE UiSession ------------------------------
(***************************************************************************)
(* The questions an extension of pi puts to the user, as the session of    *)
(* apps/server/src/runtime/rpc-session.ts and the gateway book them.       *)
(*                                                                         *)
(* Questions are numbered in the order pi asks them.  A session deletes a  *)
(* question before it writes the answer, and the write may outlive the     *)
(* process it goes to.  What is asked and answered is left out.            *)
(***************************************************************************)
EXTENDS Integers, Sequences, FiniteSets

CONSTANTS UiMax  \* UI_PENDING_MAX

ASSUME UiAssumption == UiMax \in Nat \ {0}

(* gen: the generation that asked each question; now, phase: the process.
   pending: pendingUi of the session; gate: uiPending of the gateway.
   writes: answers on their way, `by' the page, the host or an overflow.
   lines: answers the process was given; failed: questions that got none. *)
FreshAsk ==
  [gen |-> << >>, now |-> 0, phase |-> "idle", pending |-> {}, gate |-> {},
   writes |-> {}, lines |-> << >>, failed |-> {}]

Writable(u, q) == u.phase = "running" /\ u.gen[q] = u.now
\* writeUiResponse() up to its wait; a process that is not running gets nothing.
StartWrite(u, q, by) ==
  IF Writable(u, q) THEN [u EXCEPT !.writes = @ \cup {[q |-> q, to |-> u.now, by |-> by]}] ELSE u
\* answerUi() up to its wait; the question is gone whatever becomes of the write.
AnswerUi(u, q, by) ==
  IF q \notin u.pending THEN u ELSE StartWrite([u EXCEPT !.pending = @ \ {q}], q, by)
EndWrite(u, w, ok) ==
  [u EXCEPT !.writes = @ \ {w},
            !.lines = IF ok THEN Append(@, [q |-> w.q, to |-> w.to]) ELSE @,
            !.failed = IF ok THEN @ ELSE @ \cup {w.q}]

Asked(u) == [u EXCEPT !.gen = Append(@, u.now)]
Full(u) == Cardinality(u.pending) >= UiMax
===============================================================================
