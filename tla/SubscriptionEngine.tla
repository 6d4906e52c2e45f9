-------------------------- MODULE SubscriptionEngine --------------------------
(***************************************************************************)
(* One subscription: packages/protocol/src/subscription-engine.ts.  The    *)
(* history up to the barrier goes out in pages the client asks for; rows   *)
(* that arrive meanwhile wait in `buffered', then join the `outbox' of the *)
(* live stream.  An item is the position of a row, or 0 for the one error  *)
(* frame of a backlog overflow.  Live and status frames share the outbox   *)
(* and add no order of their own: they are left out.                       *)
(***************************************************************************)
EXTENDS Integers, Sequences, FiniteSetsExt

CONSTANTS
  PageMax,     \* LIMITS.pageMaxEvents
  BacklogMax,  \* LIMITS.subscriptionBacklogMax
  PerFrame,    \* LIMITS.maxEventsPerLiveFrame
  FrameMax     \* LIMITS.liveFramesPerDrain

ASSUME EngineAssumption ==
  /\ PageMax \in Nat \ {0} /\ BacklogMax \in Nat \ {0}
  /\ PerFrame \in 1 .. BacklogMax /\ FrameMax \in Nat \ {0}

NoEngine == [sub |-> 0, stream |-> 0, phase |-> "none", barrier |-> 0, next |-> 0,
             buffered |-> << >>, outbox |-> << >>]

NewEngine(sub, stream, waterMark) ==
  [NoEngine EXCEPT !.sub = sub, !.stream = stream, !.phase = "init", !.barrier = waterMark]

LastOfPage(e, from) == Min({e.barrier, from + PageMax - 1})

\* enterLive()
EnterLive(e) ==
  [e EXCEPT !.phase = "live", !.outbox = @ \o e.buffered, !.buffered = << >>]

\* servePageFrom(): the state after the page that starts at `from'.
ServePage(e, from) ==
  LET last == LastOfPage(e, from)
  IN IF last >= e.barrier THEN EnterLive([e EXCEPT !.next = 0])
     ELSE [e EXCEPT !.phase = "paging", !.next = last + 1]

NoFrame == [t |-> "none", req |-> << 0, 0 >>, sub |-> 0, stream |-> 0, barrier |-> 0,
            from |-> 0, rows |-> << >>, more |-> FALSE, code |-> 0]

\* emitPage(): the frame of that page.
PageFrame(e, req, from, rows) ==
  LET last == LastOfPage(e, from)
  IN [NoFrame EXCEPT !.t = "snapshot", !.req = req, !.sub = e.sub, !.stream = e.stream,
        !.barrier = e.barrier, !.from = from,
        !.rows = SubSeq(rows, from, last), !.more = last < e.barrier]

CloseSilent(e) == [e EXCEPT !.phase = "closed", !.buffered = << >>, !.outbox = << >>, !.next = 0]

\* pushBacklog(): one item too many closes the engine with a single error.
Checked(e) ==
  IF Len(e.buffered) + Len(e.outbox) <= BacklogMax THEN e
  ELSE [CloseSilent(e) EXCEPT !.outbox = << 0 >>]

\* Mutant: a row that arrives while paging overtakes the pages that are left.
AppendOvertakes(e, seq) ==
  IF e.phase \in {"paging", "live"} /\ e.barrier < seq
  THEN Checked([e EXCEPT !.outbox = Append(@, seq)]) ELSE e
\* onHistoryAppend(), behind the publisher's test of historyBarrier.
HistoryAppend(e, seq) ==
  CASE e.phase = "paging" /\ e.barrier < seq -> Checked([e EXCEPT !.buffered = Append(@, seq)])
    [] e.phase = "live" /\ e.barrier < seq -> Checked([e EXCEPT !.outbox = Append(@, seq)])
    [] OTHER -> e

\* drain(): whole frames of PerFrame rows; the last frame may take one row only.
DrainCount(e) == Min({Len(e.outbox), PerFrame * (FrameMax - 1) + 1})

EventFrame(e, rows, seqs) ==
  [NoFrame EXCEPT !.t = "events", !.sub = e.sub, !.stream = e.stream, !.from = seqs[1],
                  !.rows = [i \in DOMAIN seqs |-> rows[seqs[i]]]]

ErrorFrame(code, req, sub) ==
  [NoFrame EXCEPT !.t = "error", !.code = code, !.req = req, !.sub = sub]

DrainFrames(e, rows) ==
  LET n == DrainCount(e)
      frames == (n + PerFrame - 1) \div PerFrame
  IN IF e.outbox = << 0 >> THEN << ErrorFrame(4431, << 0, 0 >>, e.sub) >>
     ELSE [k \in 1 .. frames |->
             EventFrame(e, rows, SubSeq(e.outbox, (k - 1) * PerFrame + 1, Min({n, k * PerFrame})))]

AfterDrain(e) == [e EXCEPT !.outbox = SubSeq(@, DrainCount(e) + 1, Len(@))]
===============================================================================
