------------------------------ MODULE ListClient ------------------------------
(***************************************************************************)
(* The page's list of sessions: WsClient in apps/web/src/ws/ws-client.ts.  *)
(* An operator takes the client's record u to the next one; `sent' says    *)
(* whether the socket took the frame it makes, if it makes one.  u.version *)
(* is 0 while no list was received.  Malformed frames are ignored whole.   *)
(***************************************************************************)
EXTENDS Naturals, Sequences

FreshLister ==
  [conn |-> "connecting", stopped |-> FALSE,
   pending |-> FALSE, seq |-> 0, offset |-> 0, gen |-> 0, asked |-> 0, dirty |-> FALSE,
   sessions |-> {}, version |-> 0, more |-> FALSE, next |-> 0, page |-> "idle",
   models |-> "idle", modelsPending |-> FALSE,
   roots |-> "idle", rootsPending |-> FALSE, rootsSeq |-> 0]

Deaf(u) == u.stopped \/ u.conn \in {"closed", "error"}
Shaking(u) == u.conn \in {"connecting", "authenticating"}
Usable(u) == ~u.stopped /\ u.conn = "ready"

\* requestSessionsInternal(): a frame that was not sent leaves nothing in flight.
RequestSessionsInternal(u, offset, sent) ==
  LET asks == [u EXCEPT !.pending = sent, !.offset = offset, !.asked = u.gen, !.seq = @ + 1]
  IN CASE u.conn = "ready" /\ sent -> [asks EXCEPT !.page = "loading"]
       [] u.conn = "ready" /\ ~sent /\ offset > 0 -> [asks EXCEPT !.page = "error"]
       [] OTHER -> asks

\* requestSessions(): one request in flight, and at most one more after it.
RequestSessions(u, sent) ==
  LET n == [u EXCEPT !.gen = @ + 1]
  IN IF u.pending THEN [n EXCEPT !.dirty = TRUE] ELSE RequestSessionsInternal(n, 0, sent)

\* requestMoreSessions()
MayRequestMore(u) == Usable(u) /\ ~u.pending /\ u.more
RequestMoreSessions(u, sent) == RequestSessionsInternal(u, u.next, sent)

MayRequestModels(u) == Usable(u) /\ ~u.modelsPending /\ u.models # "ok"
RequestModels(u) == [u EXCEPT !.modelsPending = TRUE, !.models = "loading"]

\* requestRoots(): every request has a name of its own, and a timer.
MayRequestRoots(u) == Usable(u) /\ ~u.rootsPending /\ u.roots # "ok"
RequestRoots(u, sent) ==
  [u EXCEPT !.rootsSeq = @ + 1, !.rootsPending = sent, !.roots = IF sent THEN "loading" ELSE @]
SettleRoots(u, roots) == [u EXCEPT !.rootsPending = FALSE, !.roots = roots]

Quiet(u) ==
  [u EXCEPT !.pending = FALSE, !.dirty = FALSE, !.modelsPending = FALSE, !.rootsPending = FALSE]
Fail(u) == [Quiet(u) EXCEPT !.conn = "error"]
\* close()
Stopped(u) == [Quiet(u) EXCEPT !.stopped = TRUE, !.conn = IF Deaf(u) THEN @ ELSE "closed"]

HandleWelcome(u, sent) ==
  IF u.conn # "authenticating" THEN u
  ELSE [RequestSessionsInternal(u, 0, sent) EXCEPT !.conn = "ready"]

\* Mutant: the pages of two versions of the list are put together.
HandleSessionsMixed(u, f, sent) ==
  LET done == [u EXCEPT !.pending = FALSE, !.dirty = FALSE]
  IN IF ~u.pending \/ f.id[2] # u.seq THEN u
     ELSE IF u.dirty \/ u.asked # u.gen THEN RequestSessionsInternal(done, 0, sent)
     ELSE [done EXCEPT !.sessions = (IF u.offset > 0 THEN @ ELSE {}) \cup f.rows,
                       !.version = f.version, !.more = f.more, !.next = f.next, !.page = "idle"]
\* The answer to the list request: of an older generation, of another version, or good.
HandleSessions(u, f, sent) ==
  LET done == [u EXCEPT !.pending = FALSE, !.dirty = FALSE]
      anew == RequestSessionsInternal([done EXCEPT !.gen = @ + 1], 0, sent)
  IN IF ~u.pending \/ f.id[2] # u.seq THEN u
     ELSE IF u.dirty \/ u.asked # u.gen THEN RequestSessionsInternal(done, 0, sent)
     ELSE IF u.offset > 0 /\ f.version # u.version
     THEN [anew EXCEPT !.sessions = {}, !.version = 0, !.more = FALSE, !.next = 0, !.page = "loading"]
     ELSE [done EXCEPT !.sessions = (IF u.offset > 0 THEN @ ELSE {}) \cup f.rows,
                       !.version = f.version, !.more = f.more, !.next = f.next,
                       !.page = IF f.more /\ f.rows = {} THEN "error" ELSE "idle"]

HandleError(u, f) ==
  IF f.code = 4401 \/ Shaking(u) THEN Fail(u)
  ELSE IF f.kind = "list" /\ u.pending /\ f.id[2] = u.seq
  THEN IF u.offset > 0 THEN [u EXCEPT !.pending = FALSE, !.page = "error"] ELSE Fail(u)
  ELSE IF f.kind = "roots" /\ u.rootsPending /\ f.id[2] = u.rootsSeq THEN SettleRoots(u, "failed")
  ELSE u

\* onClose()
HandleClose(u, code) ==
  IF code = 1008 /\ Shaking(u) THEN Fail(u) ELSE [Quiet(u) EXCEPT !.conn = "closed"]

\* onMessage() and onclose
Hears(u, f, sent) ==
  IF Deaf(u) THEN u
  ELSE CASE f.t = "welcome" -> HandleWelcome(u, sent)
         [] f.t = "sessions" -> HandleSessions(u, f, sent)
         [] f.t = "models-list" -> IF u.modelsPending
                                   THEN [u EXCEPT !.modelsPending = FALSE, !.models = f.res] ELSE u
         [] f.t = "roots-list" -> IF u.rootsPending /\ f.id[2] = u.rootsSeq
                                  THEN SettleRoots(u, "ok") ELSE u
         [] f.t = "error" -> HandleError(u, f)
         [] f.t = "close" -> HandleClose(u, f.code)
===============================================================================
