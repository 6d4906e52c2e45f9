---------------------------- MODULE HistoryGateway ----------------------------
(***************************************************************************)
(* The subscriptions of one file in the gateway of the server              *)
(* (apps/server/src/ws/ws-gateway.ts) with the index of its rows           *)
(* (packages/protocol/src/read-index.ts) and the send queue of each        *)
(* connection (apps/server/src/ws/connection-queue.ts).                    *)
(*                                                                         *)
(* A handler that runs without waiting is an operator from the server's    *)
(* state g to the next.  g.log holds every stream ever made, g.cur is the  *)
(* one the registry knows, 0 for none; a watcher record of the file exists *)
(* exactly while g.refs is not empty, and g.bound says it has a sink.      *)
(***************************************************************************)
EXTENDS HistorySource, SubscriptionEngine, UiSession

CONSTANTS
  Conns,      \* connections that may subscribe to the file
  IndexMax,   \* maxEventsPerStream of the index
  QueueMax,   \* QUEUE_LIMITS.maxFrames
  StrikeMax   \* 4404 errors that close a connection

ASSUME GatewayAssumption ==
  IndexMax \in Nat \ {0} /\ QueueMax \in Nat \ {0} /\ StrikeMax \in Nat \ {0}

FreshConn == [open |-> TRUE, link |-> TRUE, eng |-> NoEngine, queue |-> << >>,
              wire |-> << >>, strikes |-> 0]
FreshGateway ==
  [slot |-> FreshSlot, log |-> << >>, cur |-> 0, spent |-> FALSE, refs |-> {},
   bound |-> FALSE, pump |-> FALSE, ask |-> FreshAsk, conn |-> [c \in Conns |-> FreshConn]]

CloseFrame == [NoFrame EXCEPT !.t = "close"]
HasSub(g, c) == g.conn[c].eng.phase # "none"
CurRows(g) == g.log[g.cur]
OverBudget(g) == g.cur # 0 /\ Len(CurRows(g)) > IndexMax
WithEngine(g, c, e) == [g EXCEPT !.conn[c].eng = e]
Schedule(g) == [g EXCEPT !.pump = TRUE]
\* forEachEngine(): the connections that follow the file.
Subscribed(g) == {c \in g.refs : HasSub(g, c)}

\* Mutant: the last subscriber leaves and pi is left waiting.
LeaveAsking(g) == g
\* cancelPendingUiForFile(): nobody is left to answer.
CancelAsking(g) ==
  [g EXCEPT !.ask = FoldSet(LAMBDA q, u : AnswerUi(u, q, "host"), [@ EXCEPT !.gate = {}], @.gate)]

\* releaseWatcher(): the last connection takes the observation with it.
ReleaseWatcher(g, c) ==
  LET rest == g.refs \ {c}
  IN IF g.refs = {} THEN g
     ELSE IF rest # {} THEN [g EXCEPT !.refs = rest]
     ELSE CancelAsking([g EXCEPT !.refs = {}, !.pump = FALSE, !.bound = FALSE,
                                 !.slot = IF g.bound THEN Unbind(@) ELSE @])

\* closeConn() and transportClosedInternal(); `last' is what still leaves.
CloseConn(g, c, last) ==
  LET closed == [g EXCEPT !.conn[c].open = FALSE, !.conn[c].eng = NoEngine,
                          !.conn[c].queue = << >>, !.conn[c].wire = @ \o last]
  IN IF ~g.conn[c].open THEN g
     ELSE IF HasSub(g, c) THEN ReleaseWatcher(closed, c) ELSE closed

\* enqueue() and ConnectionQueue.enqueue(): a full queue ends the connection.
Enqueue(g, c, f) ==
  IF ~g.conn[c].open THEN g
  ELSE IF Len(g.conn[c].queue) + 1 > QueueMax
       THEN CloseConn(g, c, << ErrorFrame(4431, << 0, 0 >>, 0), CloseFrame >>)
  ELSE [g EXCEPT !.conn[c].queue = Append(@, f)]

\* errFrame() and emitFrames(): the third 4404 closes the connection.
Emit(g, c, f) ==
  LET sent == Enqueue(g, c, f)
      n    == g.conn[c].strikes + 1
      hit  == [sent EXCEPT !.conn[c].strikes = n]
  IN IF f.code # 4404 \/ ~sent.conn[c].open THEN sent
     ELSE IF n >= StrikeMax THEN CloseConn(hit, c, hit.conn[c].queue \o << CloseFrame >>) ELSE hit
EmitAll(g, c, fs) == FoldLeft(LAMBDA acc, f : Emit(acc, c, f), g, fs)
Refuse(g, c, code, req) == Emit(g, c, ErrorFrame(code, req, 0))

\* cancelBySubscription()
KeptFrames(q, sub) == FoldLeft(LAMBDA acc, f : IF f.sub # sub THEN Append(acc, f) ELSE acc, << >>, q)
CancelFrames(g, c, sub) ==
  [g EXCEPT !.conn[c].queue = KeptFrames(@, sub)]

\* A subscription ends: its frames are withdrawn, then it is told why.
EndSub(g, c, code) ==
  LET sub  == g.conn[c].eng.sub
      told == Enqueue(CancelFrames(g, c, sub), c, ErrorFrame(code, << 0, 0 >>, sub))
  IN IF HasSub(g, c) THEN WithEngine(told, c, NoEngine) ELSE g
EndAndRelease(g, c, code) ==
  IF HasSub(g, c) THEN ReleaseWatcher(EndSub(g, c, code), c) ELSE g

\* retireEnginesForFile(): all but those of stream `keep'.
Retire(g, keep) ==
  FoldSet(LAMBDA c, acc : EndAndRelease(acc, c, 4409), g,
          {c \in g.refs : g.conn[c].open /\ g.conn[c].eng.stream # keep})

\* closeSubscriptionsFor()
CloseSubs(g) == FoldSet(LAMBDA c, acc : EndAndRelease(acc, c, 4402), g, g.refs)

-------------------------------------------------------------------------------
(* The index and its publication *)

NewStream(g) == [g EXCEPT !.log = Append(@, << >>), !.cur = Len(g.log) + 1]
Refused(g) == OverBudget(g) /\ g.spent
\* ReadIndexRegistry.get(): the first overflow of a file is forgiven.
GetIndex(g) ==
  IF g.cur = 0 THEN NewStream(g)
  ELSE IF OverBudget(g) /\ ~g.spent THEN NewStream([Retire(g, 0) EXCEPT !.spent = TRUE])
  ELSE g
\* ReadIndex.append()
IndexAppend(g, rows) == [g EXCEPT !.log[g.cur] = @ \o rows]

\* claimPublish() and publishLoop(): rows `first' and later, to whom they are new.
Publish(g, first) ==
  LET seqs == [i \in 1 .. Len(CurRows(g)) - first + 1 |-> first + i - 1]
      Push(c, acc) == WithEngine(acc, c, FoldLeft(HistoryAppend, acc.conn[c].eng, seqs))
      kept == Retire(g, g.cur)
  IN IF OverBudget(g) THEN CloseSubs(g)
     ELSE Schedule(FoldSet(Push, kept, Subscribed(kept)))

Grown(g, first) == IF first > Len(CurRows(g)) THEN g ELSE Publish(g, first)

\* syncIndex(): go on with the stream, or start another when the file was rewritten.
SyncIndex(g, rows) ==
  LET got   == GetIndex(g)
      first == Len(CurRows(got)) + 1
      more  == SubSeq(rows, first, Len(rows))
      anew  == IndexAppend(NewStream(got), rows)
  IN IF IsPrefix(CurRows(got), rows)
     THEN LET t == IndexAppend(got, more)
          IN IF OverBudget(t) THEN CloseSubs(t)
             ELSE Grown(IF first = 1 THEN Retire(t, t.cur) ELSE t, first)
     ELSE IF OverBudget(anew) THEN CloseSubs(anew) ELSE Grown(Retire(anew, anew.cur), 1)

-------------------------------------------------------------------------------
(* What the source delivers *)

\* pumpFile(): every engine's outbox goes to its connection's queue.
PumpOne(g, c) ==
  LET e  == g.conn[c].eng
      fs == DrainFrames(e, g.log[e.stream])
      t  == EmitAll(WithEngine(g, c, AfterDrain(e)), c, fs)
  IN IF ~HasSub(g, c) \/ e.outbox = << >> THEN g
     ELSE IF Len(fs) >= FrameMax THEN Schedule(t) ELSE t
PumpFile(g) == FoldSet(LAMBDA c, acc : PumpOne(acc, c), g, g.refs)

Backlogged(g) == \E c \in g.refs : Len(g.conn[c].eng.outbox) >= PerFrame

\* onAppend of watchFile(): index first, then everyone who follows.
OnAppend(g, row) ==
  LET t == IndexAppend(GetIndex(g), << row >>)
      p == Publish(t, Len(CurRows(t)))
  IN IF Refused(g) THEN CloseSubs(g)
     ELSE IF Backlogged(p) THEN PumpFile(p) ELSE Schedule(p)

\* registry.replace(): the next load makes a new stream.
ForgetStream(g) == [g EXCEPT !.cur = 0]
\* onInvalidate and onUnavailable, after closeEntry(); nobody bound hears nothing.
Terminal(g, code) ==
  LET dead == [g EXCEPT !.slot = CloseEntry(@)]
      gone == ForgetStream(dead)
  IN IF ~g.bound THEN dead
     ELSE LET ended == IF code = 4409 THEN Retire(gone, 0) ELSE CloseSubs(gone)
          IN FoldSet(LAMBDA c, acc : ReleaseWatcher(acc, c), ended,
                     IF code = 4409 /\ ended.refs = g.refs THEN g.refs ELSE {})

\* rearmWatcher(): no watch, no history.
RearmWatch(g, disk) ==
  IF ~g.slot.active THEN g
  ELSE IF ~disk.there THEN Terminal(g, 4402)
  ELSE [g EXCEPT !.slot = Rearm(@, disk)]

\* genError(): the watch itself failed; a fresh one is set and the file read again.
WatchFails(g, disk) ==
  LET t == RearmWatch(g, disk)
  IN IF g.slot.scan = "first" THEN [g EXCEPT !.slot.early = TRUE, !.slot.dirty = TRUE]
     ELSE IF t.slot.scan # "none" THEN [t EXCEPT !.slot.dirty = TRUE]
     ELSE [t EXCEPT !.slot = StartRescan(@)]

\* One row of the delivery loop of rescanOnce(); a dead entry ends the loop.
Deliver(g, row) ==
  LET t == OnAppend(g, row)
  IN IF ~g.slot.active \/ ~g.slot.bound THEN g
     ELSE [t EXCEPT !.slot.rows = IF t.slot.active THEN Append(@, row) ELSE @]

\* rescanOnce() after its read, up to the follow-up of runRescan().
FinishAgain(g, disk) ==
  LET s       == g.slot
      handoff == s.active /\ s.got.ino # s.ino
      new     == SubSeq(s.got.rows, Len(s.rows) + 1, Len(s.got.rows))
      kept    == [g EXCEPT !.slot.ino = s.got.ino]
      v       == Verdict(s)
      t       == CASE v = "stale" -> g
                   [] v = "unavailable" -> Terminal(g, 4402)
                   [] v = "invalid" -> Terminal(g, 4409)
                   [] v \in {"same", "append"} ->
                        RearmWatch(FoldLeft(Deliver, kept, new), disk)
      \* a load that joined this scan gets its result, which is no snapshot
      lost == [t EXCEPT !.slot = FinishRescan([@ EXCEPT !.tickets = << >>],
                                              handoff /\ v \in {"same", "append"})]
  IN FoldLeft(LAMBDA acc, k : Refuse(acc, k.by, 4402, k.req), lost, s.tickets)

-------------------------------------------------------------------------------
(* handleSubscribe() *)

\* watchFile(): the first subscription binds, and so consumes its load.
Consumes(g) == ~g.bound /\ g.slot.active
WatchFile(g, c) ==
  LET t == [g EXCEPT !.refs = @ \cup {c}]
  IN IF Consumes(g) THEN [t EXCEPT !.bound = TRUE, !.slot = Observe(@)] ELSE t

\* settleLoadRef(): a load is either bound or given back, once.
SettleLoadRef(g, c, consumed) ==
  LET missed == IF g.refs # {} /\ ~g.bound
                THEN ReleaseWatcher(EndSub(g, c, 4409), c) ELSE g
  IN IF consumed THEN g ELSE [missed EXCEPT !.slot = Release(@)]

GiveBack(g) == [g EXCEPT !.slot = Release(@)]

\* The commit of a subscription: the old one of the connection is retired first.
Commit(g, k, e, first) ==
  LET c    == k.by
      old  == EndSub(g, c, 4409)
      set  == WatchFile(WithEngine(old, c, e), c)
      sent == Emit(set, c, PageFrame(e, k.req, first, g.log[e.stream]))
  IN IF ~old.conn[c].open THEN GiveBack(old)
     ELSE SettleLoadRef(Schedule(sent), c, Consumes(old))

\* handleSubscribe() from the return of load(), k is the request; t has the rows.
LoadedWith(t, k) ==
  LET c      == k.by
      resync == k.cursor.stream # 0
      first  == IF resync THEN k.cursor.seq ELSE 1
      e      == ServePage(NewEngine(k.req[1], t.cur, Len(CurRows(t))), first)
  IN IF OverBudget(t) THEN GiveBack(Refuse(t, c, 4402, k.req))
     ELSE IF resync /\ t.cur # k.cursor.stream THEN GiveBack(Refuse(t, c, 4404, k.req))
     ELSE IF first > e.barrier + 1 THEN GiveBack(Refuse(t, c, 4409, k.req))
     ELSE IF ~t.conn[c].open THEN GiveBack(t)
     ELSE Commit(t, k, e, first)
Loaded(g, k, rows) ==
  IF ~g.conn[k.by].open THEN GiveBack(g)
  ELSE IF Refused(g) THEN GiveBack(Refuse(g, k.by, 4402, k.req))
  ELSE LoadedWith(SyncIndex(g, rows), k)

\* Those who still wait for the first scan, and those it turns away.
Standing(q) == FoldLeft(LAMBDA acc, k : IF ~k.released THEN Append(acc, k) ELSE acc, << >>, q)
Denied(q, open) == FoldLeft(LAMBDA acc, k : IF ~open \/ k.released THEN Append(acc, k) ELSE acc,
                            << >>, q)

\* The first scan ends: all who waited for it count their load, then go on.
FinishFirst(g, disk) ==
  LET done    == CommitFirst(g.slot)
      granted == IF done.active THEN Standing(g.slot.tickets) ELSE << >>
      denied  == Denied(g.slot.tickets, done.active)
      counted == FoldLeft(LAMBDA acc, k : TakeHeldCount(acc), [done EXCEPT !.tickets = << >>], granted)
      refused == FoldLeft(LAMBDA acc, k : Refuse(acc, k.by, 4402, k.req),
                          [g EXCEPT !.slot = counted], denied)
  IN FoldLeft(LAMBDA acc, k : Loaded(acc, k, done.rows), refused, granted)

\* handleSubscribe() up to load(), for a new subscription or a resync.
AskLoad(g, k, disk) ==
  LET s == g.slot
      wait == [s EXCEPT !.tickets = Append(@, k)]
  IN IF k.cursor.stream # 0 /\ g.cur # k.cursor.stream THEN Refuse(g, k.by, 4404, k.req)
     ELSE IF s.active THEN Loaded([g EXCEPT !.slot = TakeHeldCount(@)], k, s.rows)
     ELSE IF s.scan # "none" THEN [g EXCEPT !.slot = wait]
     ELSE IF ~disk.there THEN Refuse([g EXCEPT !.slot.dirty = FALSE], k.by, 4402, k.req)
     ELSE [g EXCEPT !.slot = StartFirstScan(wait, disk)]

\* handle(): the next page of a snapshot, if it is this snapshot and its next page.
AskPage(g, c, m) ==
  LET e == g.conn[c].eng
      t == Emit(WithEngine(g, c, ServePage(e, m.from)), c,
                PageFrame(e, m.req, m.from, g.log[e.stream]))
  IN IF ~HasSub(g, c) THEN Refuse(g, c, 4404, m.req)
     ELSE Schedule(IF e.phase = "closed" \/ e.sub # m.sub THEN Refuse(g, c, 4404, m.req)
                   ELSE IF e.next # m.from THEN Refuse(g, c, 4409, m.req) ELSE t)

\* handleUnsubscribe()
EndQuietly(g, c, sub) ==
  IF ~HasSub(g, c) \/ g.conn[c].eng.sub # sub THEN g
  ELSE CancelFrames(WithEngine(ReleaseWatcher(g, c), c, NoEngine), c, sub)

-------------------------------------------------------------------------------
(* pi asks the user *)

AskId(q) == << 0, q >>
AskFrame(t, q) == [NoFrame EXCEPT !.t = t, !.req = AskId(q)]
Broadcast(g, f) == FoldSet(LAMBDA c, acc : Enqueue(acc, c, f), g, Subscribed(g))

\* broadcastUiClosed(): the question is withdrawn from every page.
BroadcastUiClosed(g, q) ==
  Broadcast([g EXCEPT !.ask.gate = @ \ {q}], AskFrame("ui-closed", q))
\* broadcastUiRequest() and its caller: with nobody to ask, pi is told at once.
BroadcastUiRequest(g, q) ==
  IF \A c \in g.refs : ~HasSub(g, c)
  THEN BroadcastUiClosed([g EXCEPT !.ask = AnswerUi(@, q, "host")], q)
  ELSE Broadcast([g EXCEPT !.ask.gate = @ \cup {q}], AskFrame("ui-request", q))

\* handleUiRequest(), of a dialog.
HandleUiRequest(g) ==
  LET q    == Len(g.ask.gen) + 1
      base == Asked(g.ask)
  IN IF Full(g.ask)
     THEN BroadcastUiClosed([g EXCEPT !.ask = StartWrite(base, q, "overflow")], q)
     ELSE BroadcastUiRequest([g EXCEPT !.ask = [base EXCEPT !.pending = @ \cup {q}]], q)

\* handleUiAnswer(): the first answer wins; one that came too late for the
\* process, or was not written, withdraws the question.
HandleUiAnswer(g, c, q, fits) ==
  LET t == [g EXCEPT !.ask = AnswerUi([g.ask EXCEPT !.gate = @ \ {q}], q, "page")]
  IN IF q \notin g.ask.gate \/ ~HasSub(g, c) \/ ~fits THEN Refuse(g, c, 4404, AskId(q))
     ELSE IF Writable(g.ask, q) THEN t ELSE BroadcastUiClosed(t, q)

\* What follows the wait of answerUi(), in the session and in the gateway.
AnswerWritten(g, w, ok) ==
  LET t == [g EXCEPT !.ask = EndWrite(@, w, ok)]
  IN IF w.by = "page" \/ (w.by = "host" /\ ~ok) THEN BroadcastUiClosed(t, w.q) ELSE t

\* closeUiForGeneration()
CloseUiForGeneration(g) ==
  LET mine == {q \in g.ask.pending : g.ask.gen[q] = g.ask.now}
  IN FoldSet(LAMBDA q, acc : BroadcastUiClosed(acc, q), [g EXCEPT !.ask.pending = @ \ mine], mine)
===============================================================================
