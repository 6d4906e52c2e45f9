------------------------------ MODULE WriteClient ------------------------------
(***************************************************************************)
(* The page's side of the write face: WriteClient in                       *)
(* apps/web/src/ws/write-client.ts.  An operator takes the client's record *)
(* u to the next one.  u.pending is the table of promises; u.inflight and  *)
(* u.resuming are the views of it that the snapshot publishes, and that    *)
(* decide whether a send is a duplicate.  A request the client refuses     *)
(* itself (bad text, bad file name) costs no frame and is no step.         *)
(***************************************************************************)
EXTENDS Naturals, FiniteSets

\* A request is named by its kind and a number; this is the name of none.
NoId == << "none", 0 >>

FreshClient ==
  [conn |-> "connecting", stopped |-> FALSE, pending |-> {}, inflight |-> {}, resuming |-> {}]

\* A promise of the table, named by its request.
Entry(id, kind, file) == [id |-> id, kind |-> kind, file |-> file]
Deaf(u) == u.stopped \/ u.conn \in {"closed", "error"}

\* launch() and resume(): what is refused before a frame is made.
MayLaunch(u, kind, file) ==
  /\ ~u.stopped
  /\ u.conn = "ready"
  /\ IF kind = "resume" THEN file \notin u.resuming ELSE << kind, file >> \notin u.inflight

\* The placeholder comes before the frame.
Placed(u, e) ==
  [u EXCEPT !.pending = @ \cup {e},
            !.inflight = IF e.kind = "resume" THEN @ ELSE @ \cup {<< e.kind, e.file >>},
            !.resuming = IF e.kind = "resume" THEN @ \cup {e.file} ELSE @]

\* One promise is settled, and leaves the table and its view.
Settled(u, e) ==
  [u EXCEPT !.pending = @ \ {e},
            !.inflight = IF e.kind = "resume" THEN @ ELSE @ \ {<< e.kind, e.file >>},
            !.resuming = IF e.kind = "resume" THEN @ \ {e.file} ELSE @]

\* rejectAllPending()
RejectAllPending(u) ==
  IF u.pending = {} THEN u
  ELSE [u EXCEPT !.pending = {}, !.inflight = {},
                 !.resuming = IF \E e \in u.pending : e.kind = "resume" THEN {} ELSE @]

FailConnection(u) == [RejectAllPending(u) EXCEPT !.conn = "error"]

\* close()
Stopped(u) ==
  [RejectAllPending(u) EXCEPT !.stopped = TRUE, !.conn = IF Deaf(u) THEN @ ELSE "closed"]

\* takePending(): request, kind and file must all agree.
HandleAck(u, f) ==
  LET e == Entry(f.id, f.kind, f.file)
  IN IF e \in u.pending THEN Settled(u, e) ELSE u

Shaking(u) == u.conn \in {"connecting", "authenticating"}

\* handleError(): the connection's error, one request's, or nobody's.
HandleError(u, f) ==
  LET mine == {e \in u.pending : e.id = f.id}
  IN IF f.code = 4401 \/ Shaking(u) THEN FailConnection(u)
     ELSE IF f.id # NoId /\ mine # {} THEN Settled(u, CHOOSE e \in mine : TRUE)
     ELSE IF f.id = NoId /\ f.code \in {4403, 4405, 4432} THEN FailConnection(u)
     ELSE u

\* handleClose()
HandleClose(u, code) ==
  IF code = 1008 /\ Shaking(u) THEN FailConnection(u)
  ELSE [RejectAllPending(u) EXCEPT !.conn = "closed"]

\* handleMessage() and the close event; a client at its end hears nothing.
Hears(u, f) ==
  IF Deaf(u) THEN u
  ELSE CASE f.t = "welcome" -> [u EXCEPT !.conn = IF @ = "authenticating" THEN "ready" ELSE @]
         [] f.t = "ack" -> HandleAck(u, f)
         [] f.t = "error" -> HandleError(u, f)
         [] f.t = "close" -> HandleClose(u, f.code)
================================================================================
