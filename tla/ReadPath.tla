------------------------------- MODULE ReadPath -------------------------------
(***************************************************************************)
(* A history file, the server that watches it, and the page that shows it: *)
(* HistoryGateway with the client of apps/web/src/ws/subscribe-client.ts.  *)
(*                                                                         *)
(* Connections in Clients have a modelled page.  The page is ready: the    *)
(* handshake is over.  Other connections subscribe and go, and what they   *)
(* are sent is of no interest.  A wire keeps its order, and dies with its  *)
(* connection.  There is one file and one index, so no stream is evicted.  *)
(*                                                                         *)
(* The process of the file's session comes and goes and asks the viewers   *)
(* questions: UiSession.  Its own turns are modelled in RpcSession.        *)
(***************************************************************************)
EXTENDS HistoryGateway

CONSTANTS
  Clients,  \* connections with a page
  Bounds    \* what may happen in one behaviour: the records a behaviour chooses from

(* conns: the connections there are; rows: what the file holds at first; edits:
   changes of the file and failures of the watch; requests: subscribe requests
   of a page; drops: connections the network cuts; asks: questions of pi; gens:
   processes of the session. *)
ASSUME ReadPathAssumption ==
  /\ Clients \subseteq Conns
  /\ Bounds \subseteq [conns : SUBSET Conns, rows : Seq(Nat), edits : Nat, requests : Nat,
                       drops : Nat, asks : Nat, gens : Nat]

VARIABLES
  bound,   \* the bounds of this behaviour
  disk,    \* the file: rows, inode, whether it exists
  edits,   \* changes made so far; names the next row
  drops,   \* connections cut so far
  g,       \* the server
  inbox,   \* inbox[c]: what the server has yet to read of c
  ui       \* ui[c]: the page of c

vars == << bound, disk, edits, drops, g, inbox, ui >>

NoCursor == [stream |-> 0, seq |-> 0]
FreshPage ==
  [phase |-> "idle", live |-> TRUE, asked |-> 0, pend |-> << 0, 0 >>, kind |-> "none",
   sub |-> 0, stream |-> 0, barrier |-> 0, shown |-> << >>, cursor |-> NoCursor, cancelled |-> {},
   dialogs |-> {}, said |-> FALSE]

Init ==
  /\ bound \in Bounds
  /\ disk = [rows |-> bound.rows, ino |-> 1, there |-> TRUE]
  /\ edits = 0
  /\ drops = 0
  /\ g = FreshGateway
  /\ inbox = [c \in Conns |-> << >>]
  /\ ui = [c \in Conns |-> FreshPage]

-------------------------------------------------------------------------------
(* The file *)

New == edits + 3

\* A change of the watched inode is news for the watch.
Becomes(d) ==
  /\ edits < bound.edits
  /\ edits' = edits + 1
  /\ disk' = d
  /\ g' = [g EXCEPT !.slot.news = @ \/ g.slot.watch = disk.ino]
  /\ UNCHANGED << bound, drops, inbox, ui >>

AppendOne == disk.there /\ Becomes([disk EXCEPT !.rows = Append(@, New)])
AppendTwo == disk.there /\ Becomes([disk EXCEPT !.rows = @ \o << New, New + 100 >>])
Truncate == disk.there /\ disk.rows # << >> /\ Becomes([disk EXCEPT !.rows = Front(@)])
Rewrite ==
  /\ disk.there
  /\ disk.rows # << >>
  /\ Becomes([disk EXCEPT !.rows = Append(Front(@), New)])
\* A file is renamed over this one, with the same rows, more, or others.
Replace ==
  /\ disk.there
  /\ \E rows \in {disk.rows, Append(disk.rows, New), << New >>} :
       Becomes([disk EXCEPT !.ino = @ + 1, !.rows = rows])
Delete == disk.there /\ Becomes([disk EXCEPT !.there = FALSE])

WatchError ==
  /\ edits < bound.edits
  /\ g.slot.watch # 0
  /\ edits' = edits + 1
  /\ g' = WatchFails(g, disk)
  /\ UNCHANGED << bound, disk, drops, inbox, ui >>

Edit == AppendOne \/ AppendTwo \/ Truncate \/ Rewrite \/ Replace \/ Delete \/ WatchError

-------------------------------------------------------------------------------
(* The server *)

Serve(next) == g' = next /\ UNCHANGED << bound, disk, edits, drops, inbox, ui >>

DeliverNotice == g.slot.news /\ Serve([g EXCEPT !.slot = Notice(@)])
ReadFile ==
  /\ g.slot.scan # "none"
  /\ ~g.slot.got.done
  /\ Serve([g EXCEPT !.slot.got = ReadOf(disk)])
FinishScan ==
  /\ g.slot.got.done
  /\ Serve(IF g.slot.scan = "first" THEN FinishFirst(g, disk) ELSE FinishAgain(g, disk))
RunPump == g.pump /\ Serve(PumpFile([g EXCEPT !.pump = FALSE]))

\* drainOnce() of the connection's queue; on a cut line the frame is lost.
Drain(c) ==
  LET q == g.conn[c].queue
  IN /\ g.conn[c].open
     /\ q # << >>
     /\ Serve([g EXCEPT !.conn[c].queue = Tail(@),
                        !.conn[c].wire = IF g.conn[c].link /\ c \in Clients
                                         THEN Append(@, Head(q)) ELSE @])

Handle(c, m) ==
  CASE m.t = "subscribe" -> AskLoad(g, [by |-> c, req |-> m.req, cursor |-> m.cursor, released |-> FALSE], disk)
    [] m.t = "page" -> AskPage(g, c, m)
    [] m.t = "unsubscribe" -> EndQuietly(g, c, m.sub)
    [] m.t \in {"ui-answer", "bad-answer"} -> HandleUiAnswer(g, c, m.req[2], m.t = "ui-answer")
Receive(c) ==
  /\ inbox[c] # << >>
  /\ inbox' = [inbox EXCEPT ![c] = Tail(@)]
  /\ g' = IF g.conn[c].open THEN Handle(c, Head(inbox[c])) ELSE g
  /\ UNCHANGED << bound, disk, edits, drops, ui >>

\* handleClose(): the page's side of a connection that is gone.
Lost(u) == [u EXCEPT !.live = FALSE, !.pend = << 0, 0 >>, !.dialogs = {}]

\* The network cuts a connection; each side learns of it on its own.
Cut(c) ==
  /\ c \in bound.conns
  /\ drops < bound.drops
  /\ g.conn[c].link /\ g.conn[c].open
  /\ drops' = drops + 1
  /\ g' = [g EXCEPT !.conn[c].link = FALSE, !.conn[c].wire = << >>]
  /\ inbox' = [inbox EXCEPT ![c] = << >>]
  /\ ui' = [ui EXCEPT ![c] = Lost(@)]
  /\ UNCHANGED << bound, disk, edits >>
TransportClosed(c) ==
  /\ ~g.conn[c].link /\ g.conn[c].open
  /\ Serve(CloseConn(g, c, << >>))

-------------------------------------------------------------------------------
(* The page: SubscribeClient, ready, its file chosen *)

Message(t, req, cursor, from, sub) == [t |-> t, req |-> req, cursor |-> cursor, from |-> from, sub |-> sub]
SubscribeMessage(n, cursor) == Message("subscribe", << n, 0 >>, cursor, 0, 0)
LeaveMessage(sub) == Message("unsubscribe", << 0, 0 >>, NoCursor, 0, sub)
Leaving(u) == IF u.sub = 0 THEN << >> ELSE << LeaveMessage(u.sub) >>

Acts(c, u, msgs) ==
  /\ ui' = [ui EXCEPT ![c] = u]
  /\ inbox' = [inbox EXCEPT ![c] = @ \o (IF g.conn[c].link THEN msgs ELSE << >>)]
  /\ UNCHANGED << bound, disk, edits, drops >>

\* noteCancelledBuild()
NoteCancelledBuild(u) ==
  [u EXCEPT !.cancelled = IF u.kind \in {"init", "resync"} THEN @ \cup {u.pend[1]} ELSE @,
            !.pend = << 0, 0 >>, !.kind = "none"]
\* dropActiveSubscription()
Dropped(u) == [u EXCEPT !.sub = 0]
Asks(u, kind) ==
  [u EXCEPT !.phase = "subscribing", !.asked = @ + 1, !.pend = << u.asked + 1, 0 >>, !.kind = kind]

\* subscribeSession(): a new subscription forgets what was shown.
SubscribeSession(c) ==
  LET u == ui[c]
      n == [Dropped(NoteCancelledBuild(u)) EXCEPT
              !.shown = << >>, !.stream = 0, !.cursor = NoCursor, !.dialogs = {}]
  IN /\ c \in bound.conns
     /\ u.live
     /\ u.asked < bound.requests
     /\ c \in Clients \/ u.asked = 0
     /\ Acts(c, Asks(n, "init"), Leaving(u) \o << SubscribeMessage(u.asked + 1, NoCursor) >>)
     /\ UNCHANGED g

\* unsubscribeSession()
UnsubscribeSession(c) ==
  LET u == ui[c]
  IN /\ u.live
     /\ c \in Clients
     /\ u.phase # "idle"
     /\ Acts(c, [Dropped(NoteCancelledBuild(u)) EXCEPT !.phase = "idle", !.cursor = NoCursor,
                                                          !.dialogs = {}], Leaving(u))
     /\ UNCHANGED g

\* resyncFromCursor(): only by the user, only after a 4409.
ResyncFromCursor(c) ==
  LET u == ui[c]
  IN /\ u.live
     /\ u.phase = "resync-needed"
     /\ u.cursor # NoCursor
     /\ u.asked < bound.requests
     /\ Acts(c, Asks(Dropped(NoteCancelledBuild(u)), "resync"),
             << SubscribeMessage(u.asked + 1, u.cursor) >>)
     /\ UNCHANGED g

\* seenSeqs: a position already shown is not shown again.
Absorb(shown, f) ==
  LET items == [i \in DOMAIN f.rows |-> [seq |-> f.from + i - 1, row |-> f.rows[i]]]
  IN shown \o SelectSeq(items, LAMBDA x : \A j \in DOMAIN shown : shown[j].seq # x.seq)

\* handleSnapshot()
Foreign(u, f) == u.kind = "page" /\ (f.sub # u.sub \/ f.stream # u.stream \/ f.barrier # u.barrier)
HandleSnapshot(c, f) ==
  LET u    == ui[c]
      next == f.from + Len(f.rows)
      base == [u EXCEPT !.sub = f.sub, !.stream = f.stream, !.barrier = f.barrier,
                        !.shown = Absorb(@, f)]
  IN IF f.req[2] = 0 /\ f.req[1] \in u.cancelled
     THEN Acts(c, [u EXCEPT !.cancelled = @ \ {f.req[1]}], << LeaveMessage(f.sub) >>)
     ELSE IF f.req # u.pend \/ Foreign(u, f) THEN Acts(c, u, << >>)
     ELSE IF f.more
     THEN Acts(c, [base EXCEPT !.phase = "paging", !.cursor = [stream |-> f.stream, seq |-> next],
                               !.pend = << f.sub, next >>, !.kind = "page"],
               << Message("page", << f.sub, next >>, NoCursor, next, f.sub) >>)
     ELSE Acts(c, [base EXCEPT !.phase = "live", !.cursor = [stream |-> f.stream, seq |-> f.barrier + 1],
                               !.pend = << 0, 0 >>, !.kind = "none"], << >>)

\* handleEvents()
HandleEvents(c, f) ==
  LET u == ui[c]
  IN Acts(c, IF u.sub # f.sub THEN u ELSE [u EXCEPT !.shown = Absorb(@, f)], << >>)

\* handleStreamTerminal()
Terminated(u, sub, code) ==
  IF u.sub = 0 \/ u.sub # sub THEN u
  ELSE [u EXCEPT !.sub = 0, !.pend = << 0, 0 >>, !.kind = "none", !.dialogs = {},
                 !.phase = IF code = 4409 THEN "resync-needed" ELSE "closed"]

\* handleError()
HandleError(c, f) ==
  LET u        == ui[c]
      answered == [u EXCEPT !.pend = << 0, 0 >>, !.kind = "none"]
      resume   == f.code = 4409 /\ u.kind \in {"page", "resync"} /\ u.cursor # NoCursor
  IN IF f.sub # 0 THEN Acts(c, Terminated(u, f.sub, f.code), << >>)
     ELSE IF f.req = << 0, 0 >> THEN Acts(c, Terminated(u, u.sub, f.code), << >>)
     ELSE IF f.req # u.pend THEN Acts(c, u, << >>)
     ELSE IF resume THEN Acts(c, [answered EXCEPT !.phase = "resync-needed"], << >>)
     ELSE Acts(c, [Dropped(answered) EXCEPT !.phase = "closed", !.dialogs = {}], Leaving(u))

\* handleMessage(): a question is shown while a subscription is at work.
ShowDialog(c, f) ==
  LET u == ui[c]
  IN Acts(c, IF u.phase \in {"subscribing", "paging", "live"}
             THEN [u EXCEPT !.dialogs = @ \cup {[q |-> f.req[2], sub |-> u.sub]}] ELSE u, << >>)
HideDialog(c, f) ==
  Acts(c, [ui[c] EXCEPT !.dialogs = {d \in @ : d.q # f.req[2]}], << >>)

PageReceives(c) ==
  LET f == Head(g.conn[c].wire)
  IN /\ g.conn[c].wire # << >>
     /\ g' = [g EXCEPT !.conn[c].wire = Tail(@)]
     /\ IF ~ui[c].live THEN Acts(c, ui[c], << >>)
        ELSE CASE f.t = "snapshot" -> HandleSnapshot(c, f)
               [] f.t = "events" -> HandleEvents(c, f)
               [] f.t = "error" -> HandleError(c, f)
               [] f.t = "ui-request" -> ShowDialog(c, f)
               [] f.t = "ui-closed" -> HideDialog(c, f)
               [] f.t = "close" -> Acts(c, Lost(ui[c]), << >>)

\* answerUi(): the page answers what it shows, once.
Answers(c, u, t, q) == Acts(c, u, << Message(t, AskId(q), NoCursor, 0, 0) >>) /\ UNCHANGED g
AnswerDialog(c) ==
  \E d \in ui[c].dialogs :
    /\ ui[c].live
    /\ Answers(c, [ui[c] EXCEPT !.dialogs = @ \ {d}], "ui-answer", d.q)
\* A page that is not modelled may answer one question, well or badly.
AnswerUnseen(c) ==
  /\ c \in bound.conns \ Clients
  /\ ui[c].live /\ ~ui[c].said
  /\ \E q \in DOMAIN g.ask.gen, t \in {"ui-answer", "bad-answer"} :
       Answers(c, [ui[c] EXCEPT !.said = TRUE], t, q)

-------------------------------------------------------------------------------
(* The process of the session *)

ProcessStarts ==
  /\ g.ask.phase = "idle"
  /\ g.ask.now < bound.gens
  /\ Serve([g EXCEPT !.ask.phase = "running", !.ask.now = @ + 1])
ProcessStops == g.ask.phase = "running" /\ Serve([g EXCEPT !.ask.phase = "stopping"])
\* finalizeRetire(): of a process that was stopped, or died.
ProcessEnds ==
  /\ g.ask.phase # "idle"
  /\ Serve(CloseUiForGeneration([g EXCEPT !.ask.phase = "idle"]))
\* What a process says while it is being stopped is still heard.
PiAsks ==
  /\ g.ask.phase # "idle"
  /\ Len(g.ask.gen) < bound.asks
  /\ Serve(HandleUiRequest(g))
WriteEnds ==
  \E w \in g.ask.writes, ok \in BOOLEAN : Serve(AnswerWritten(g, w, ok))

Process == ProcessStarts \/ ProcessStops \/ ProcessEnds \/ PiAsks \/ WriteEnds

-------------------------------------------------------------------------------
User(c) == SubscribeSession(c) \/ UnsubscribeSession(c) \/ ResyncFromCursor(c) \/ AnswerDialog(c) \/ AnswerUnseen(c)
Network(c) == Cut(c) \/ TransportClosed(c)
Server == DeliverNotice \/ ReadFile \/ FinishScan \/ RunPump
Traffic(c) == Drain(c) \/ Receive(c) \/ PageReceives(c)

Next == Edit \/ Process \/ Server \/ \E c \in Conns : User(c) \/ Network(c) \/ Traffic(c)

\* The server's own work and the transport go on; users, files and cuts need not.
\* WF_vars of each action, with its guard in the place of ENABLED.
Fairness ==
  /\ []<>(~g.slot.news) \/ []<><< DeliverNotice >>_vars
  /\ []<>(g.slot.scan = "none" \/ g.slot.got.done) \/ []<><< ReadFile >>_vars
  /\ []<>(~g.slot.got.done) \/ []<><< FinishScan >>_vars
  /\ []<>(~g.pump) \/ []<><< RunPump >>_vars
  /\ \A c \in Conns :
       /\ []<>(~g.conn[c].open \/ g.conn[c].queue = << >>) \/ []<><< Drain(c) >>_vars
       /\ []<>(inbox[c] = << >>) \/ []<><< Receive(c) >>_vars
       /\ []<>(g.conn[c].wire = << >>) \/ []<><< PageReceives(c) >>_vars

Spec == Init /\ [][Next]_vars /\ Fairness

-------------------------------------------------------------------------------
(* Whatever the file does and however requests, retirements and cuts fall, a
   page shows the beginning of one stream of the file, each row once and in its
   order: subscribe-client.ts keeps rows by position and checks no gap, so the
   server's barrier, buffer, cancellation and stream identity must add up. *)
Followed == INSTANCE RowStream WITH
  Viewers <- Clients, streams <- g.log,
  view <- [c \in Clients |->
             [of |-> IF ui[c].shown = << >> THEN 0 ELSE ui[c].stream,
              has |-> [i \in DOMAIN ui[c].shown |-> ui[c].shown[i].row]]]
FollowsAStream == Followed!StreamSpec

(* What the watcher of the file has published is exactly what the index holds,
   and somebody follows it: no row is lost or doubled between history-source.ts
   and the index, no load stays counted after its request was answered, and no
   watch is left open when the last subscription is gone. *)
ObservationSound ==
  LET s == g.slot
  IN /\ s.awaiting = 0 /\ s.carry = 0
     /\ s.active => s.bound /\ g.bound /\ g.cur # 0 /\ CurRows(g) = s.rows
     /\ g.bound => s.active /\ g.refs # {}
     /\ g.refs = {c \in Conns : HasSub(g, c)}
     /\ \A c \in g.refs : g.conn[c].eng.stream = g.cur

(* A question of pi is answered at most once, and to the process that asked it;
   session and gateway agree on what is open; while the process runs no question
   of its is forgotten, and none waits with nobody to see it; and a dialog that
   a page shows for its subscription can be answered, or is about to go.  Four
   books (rpc-session.ts, ws-gateway.ts, composition.ts, subscribe-client.ts) are
   kept in step by callbacks, and a subscriber, the process and a write may each
   end at any time. *)
AnsweredOnce ==
  LET u == g.ask
  IN \A q \in DOMAIN u.gen :
       LET given == {i \in DOMAIN u.lines : u.lines[i].q = q}
           going == {w \in u.writes : w.q = q}
       IN /\ Cardinality(given) + Cardinality(going) <= 1
          /\ \A i \in given : u.lines[i].to = u.gen[q]
BooksAgree ==
  /\ g.ask.pending = g.ask.gate
  /\ g.ask.gate # {} => g.refs # {}
  /\ \A q \in g.ask.pending : g.ask.gen[q] = g.ask.now /\ g.ask.phase # "idle"
NoneForgotten ==
  LET u == g.ask
      settled == {w.q : w \in u.writes} \cup {l.q : l \in ToSet(u.lines)} \cup u.failed
  IN u.phase = "running" =>
       \A q \in DOMAIN u.gen : u.gen[q] = u.now => q \in u.pending \cup settled
Coming(c) == g.conn[c].wire \o g.conn[c].queue
Goes(c, d) ==
  \E f \in ToSet(Coming(c)) :
    \/ f.t = "close"
    \/ f.t = "ui-closed" /\ f.req = AskId(d.q)
    \/ f.t = "error" /\ f.req = << 0, 0 >>
NoDeadDialog ==
  \A c \in Clients : \A d \in ui[c].dialogs :
    ui[c].live /\ ui[c].sub # 0 /\ d.sub = ui[c].sub =>
      \/ d.q \in g.ask.gate
      \/ \E w \in g.ask.writes : w.q = d.q /\ w.by = "page"
      \/ Goes(c, d)
DialogsAgree == AnsweredOnce /\ BooksAgree /\ NoneForgotten /\ NoDeadDialog

(* Once the watch looks at the file there is, and no read is under way, asked for
   or announced, what is published is what the file holds.  The source sets the new
   watch before it closes the old one and says that this leaves no window
   (history-source.ts, rearmWatcher). *)
Resting(s) == s.active /\ s.bound /\ s.scan = "none" /\ ~s.dirty /\ ~s.news
NothingMissed ==
  Resting(g.slot) /\ disk.there /\ g.slot.watch = disk.ino => g.slot.rows = disk.rows

(* While a page follows a file that is watched and has only grown, the page
   catches up with it: every hand-over on the way (notice to rescan, rescan to
   index, page buffer to outbox, outbox to queue) passes on what is waiting.
   Left out is the way to miss a row that refutes NothingMissed: a rescan has read
   the inode it knows, the file has changed since, and the watch, still on another
   inode, is about to move to it. *)
Following(c) == ui[c].live /\ ui[c].sub # 0 /\ g.conn[c].eng.sub = ui[c].sub
OnlyGrown ==
  /\ g.slot.active /\ g.slot.watch = disk.ino /\ disk.there
  /\ IsPrefix(g.slot.rows, disk.rows)
RearmsLate ==
  /\ g.slot.scan = "again" /\ g.slot.got.done /\ g.slot.got.ino = g.slot.ino
  /\ g.slot.got.rows # disk.rows
  /\ g.slot.watch # disk.ino /\ ~g.slot.dirty
CaughtUp(c) == Len(ui[c].shown) = Len(disk.rows)
RowsArrive ==
  \A c \in Clients :
    \/ <>RearmsLate
    \/ (Following(c) /\ OnlyGrown) ~> (CaughtUp(c) \/ ~Following(c) \/ ~OnlyGrown)
===============================================================================
