---------------------------- MODULE ReadPathProofs -----------------------------
(***************************************************************************)
(* What holds of the read path of ReadPath, whatever the file, the pages, the *)
(* network and pi do, and for any bounds.                                  *)
(*                                                                         *)
(* ReadInv is the inductive invariant: the server watches as it should     *)
(* (Watching of HistoryGatewayProofs), what it has yet to read is of the kinds *)
(* it can handle, and each question of pi is in the one book it belongs to. *)
(*                                                                         *)
(* TalkInv adds what passes between a page and its connection.  The numbers a *)
(* page gives its subscriptions are granted to one connection, so that no other *)
(* connection names them (Numbered); and along the line of a connection, a page *)
(* that reads the frames in their order meets each question it will show either *)
(* still open or withdrawn further on, unless it is told first that its    *)
(* subscription has ended (Hears for the subscription it shows, Will for the one *)
(* it builds).                                                             *)
(***************************************************************************)
EXTENDS ReadPath, HistoryGatewayProofs

-------------------------------------------------------------------------------
(* The state of the read path *)

Disks == [rows : Seq(Nat), ino : Nat, there : BOOLEAN]
MessageKinds == {"subscribe", "page", "unsubscribe", "ui-answer", "bad-answer"}
IsMessage(m) ==
  /\ m.t \in MessageKinds
  /\ m.t = "subscribe" => m.req[1] # 0
  /\ m.t = "page" => m.req[1] = m.sub
IsInbox(q) == IsSeq(q) /\ \A i \in DOMAIN q : IsMessage(q[i])
Inboxes == DOMAIN inbox = Conns /\ \A c \in Conns : IsInbox(inbox[c])
IsPage(u) ==
  /\ DOMAIN u = {"phase", "live", "asked", "pend", "kind", "sub", "stream", "barrier", "shown",
                 "cursor", "cancelled", "dialogs", "said"}
  /\ u.asked \in Nat
Pages == DOMAIN ui = Conns /\ \A c \in Conns : IsPage(ui[c])

ReadInv ==
  /\ Watching(g)
  /\ disk \in Disks
  /\ edits \in Nat
  /\ Inboxes
  /\ Pages

LEMMA FreshWatching == Watching(FreshGateway)
<1> DEFINE e == << >>
           u == Unread
           x == FreshConn
           h == FreshGateway
           s == FreshSlot
           a == FreshAsk
           n == NoEngine
           ne == {}
           cs == [c \in Conns |-> x]
<1>1. /\ Framed(e) /\ Ticketed(e) /\ e \in Seq(Nat) /\ e \in Seq(Seq(Nat)) /\ e \in Seq(Lines)
      /\ DOMAIN e = {} /\ Len(e) = 0 /\ e = << >>
  BY EmptyIsSeq
<1>a. ne = {} /\ ne \in SUBSET Nat /\ ne \in SUBSET Writes /\ ne \in SUBSET Conns /\ IsFiniteSet(ne)
  BY FS_EmptySet
<1>2. u \in Reads /\ ~u.done
  BY UnreadIs
<1>3. IsEngine(n) /\ n.phase = "none"
  BY NoEngineIsEngine
<1>4. s = [active |-> FALSE, bound |-> FALSE, rows |-> e, ino |-> 0,
           watch |-> 0, news |-> FALSE, scan |-> "none", got |-> u,
           dirty |-> FALSE, early |-> FALSE, awaiting |-> 0, carry |-> 0, tickets |-> e]
  BY DEF FreshSlot
<1>5. x = [open |-> TRUE, link |-> TRUE, eng |-> n, queue |-> e, wire |-> e, strikes |-> 0]
  BY DEF FreshConn
<1>6. a = [gen |-> e, now |-> 0, phase |-> "idle", pending |-> ne, gate |-> ne,
           writes |-> ne, lines |-> e, failed |-> ne]
  BY DEF FreshAsk
<1>7. h = [slot |-> s, log |-> e, cur |-> 0, spent |-> FALSE, refs |-> ne,
           bound |-> FALSE, pump |-> FALSE, ask |-> a, conn |-> cs]
  BY DEF FreshGateway
<1> HIDE DEF e, u, x, h, s, a, n, ne
<1>8. IsSlot(s) /\ Ticks(s) /\ s.awaiting = 0 /\ s.carry = 0 /\ s.bound = FALSE /\ s.active = FALSE
  BY <1>1, <1>2, <1>4 DEF IsSlot, Ticks
<1>9. IsConn(x) /\ ~Follows(x)
  BY <1>1, <1>3, <1>5 DEF IsConn, Follows
<1>10. AskOK(a) /\ a.pending = ne /\ a.gate = ne
  <2>1. a \in AskBooks
    BY <1>1, <1>6, <1>a DEF AskBooks
  <2>2. a.gen = e /\ a.pending = ne /\ a.gate = ne /\ a.writes = ne /\ a.lines = e
    BY <1>6
  <2> QED BY <2>1, <2>2, <1>1, <1>a DEF AskOK, OpenAsked, AskAges, WritesOnce, LinesOnce, Remembers
<1>11. /\ DOMAIN h = {"slot", "log", "cur", "spent", "refs", "bound", "pump", "ask", "conn"}
       /\ h.slot = s /\ h.log = e /\ h.cur = 0 /\ h.spent = FALSE /\ h.refs = ne /\ h.bound = FALSE
       /\ h.pump = FALSE /\ h.ask = a /\ h.conn = cs
  BY <1>7
<1>12. IsGateway(h)
  <2>1. 0 \in 0 .. 0
    OBVIOUS
  <2>2. DOMAIN cs = Conns /\ \A c \in Conns : cs[c] = x
    OBVIOUS
  <2> HIDE DEF cs
  <2> QED BY <2>1, <2>2, <1>1, <1>a, <1>8, <1>9, <1>10, <1>11 DEF IsGateway
<1>13. Matched(h)
  BY <1>9, <1>11, <1>a DEF Matched
<1>14. Held(h, 0)
  <2>1. h.slot.awaiting = 0 /\ h.slot.carry = 0 /\ h.slot.bound = h.bound
    BY <1>8, <1>11
  <2>2. (h.bound <=> h.refs # {}) /\ (h.slot.active <=> h.bound \/ 0 > 0)
    <3>1. h.refs = {}
      BY <1>11, <1>a
    <3>2. h.slot.active = FALSE /\ h.bound = FALSE
      BY <1>8, <1>11
    <3> QED BY <3>1, <3>2
  <2> QED BY <2>1, <2>2, <1>13 DEF Held
<1>15. Even(h)
  BY <1>10, <1>11 DEF Even
<1>16. Sound(h, h.slot.rows, 0)
  BY <1>11, <1>12, <1>14, <1>15, <1>a, UnfollowedSound
<1> QED
  BY <1>8, <1>11, <1>16 DEF Watching, h

LEMMA InboxFacts ==
  /\ IsInbox(<< >>)
  /\ \A m : IsMessage(m) => IsInbox(<< m >>)
  /\ \A q, r : IsInbox(q) /\ IsInbox(r) => IsInbox(q \o r)
  /\ \A q : IsInbox(q) /\ q # << >> => IsInbox(Tail(q)) /\ IsMessage(Head(q))
<1>1. IsInbox(<< >>)
  BY EmptyIsSeq DEF IsInbox
<1>2. ASSUME NEW m, IsMessage(m) PROVE IsInbox(<< m >>)
  <2>1. << m >> \in Seq({m}) /\ DOMAIN << m >> = {1} /\ << m >>[1] = m
    OBVIOUS
  <2> QED BY <2>1, <1>2 DEF IsInbox, IsSeq
<1>3. ASSUME NEW q, NEW r, IsInbox(q), IsInbox(r) PROVE IsInbox(q \o r)
  <2>1. PICK S : q \in Seq(S)
    BY <1>3 DEF IsInbox, IsSeq
  <2>2. PICK T : r \in Seq(T)
    BY <1>3 DEF IsInbox, IsSeq
  <2>3. q \in Seq(S \cup T) /\ r \in Seq(S \cup T)
    BY <2>1, <2>2
  <2> DEFINE z == q \o r
  <2>4. z \in Seq(S \cup T) /\ Len(z) = Len(q) + Len(r) /\ Len(q) \in Nat /\ Len(r) \in Nat
        /\ DOMAIN z = 1 .. Len(q) + Len(r) /\ DOMAIN q = 1 .. Len(q) /\ DOMAIN r = 1 .. Len(r)
        /\ \A i \in 1 .. Len(q) + Len(r) : z[i] = IF i <= Len(q) THEN q[i] ELSE r[i - Len(q)]
    BY <2>3
  <2> HIDE DEF z
  <2>5. ASSUME NEW i \in DOMAIN z PROVE IsMessage(z[i])
    <3>1. i \in 1 .. Len(q) + Len(r) /\ i \in Nat
      BY <2>4
    <3>2. CASE i <= Len(q)
      <4>1. i \in DOMAIN q
        BY <3>1, <3>2, <2>4
      <4> QED BY <3>1, <3>2, <4>1, <2>4, <1>3 DEF IsInbox
    <3>3. CASE ~(i <= Len(q))
      <4>1. i - Len(q) \in DOMAIN r
        BY <3>1, <3>3, <2>4
      <4> QED BY <3>1, <3>3, <4>1, <2>4, <1>3 DEF IsInbox
    <3> QED BY <3>2, <3>3
  <2> QED BY <2>4, <2>5 DEF IsInbox, IsSeq, z
<1>4. ASSUME NEW q, IsInbox(q), q # << >> PROVE IsInbox(Tail(q)) /\ IsMessage(Head(q))
  <2>1. PICK S : q \in Seq(S)
    BY <1>4 DEF IsInbox, IsSeq
  <2> DEFINE z == Tail(q)
  <2>2. /\ z \in Seq(S) /\ DOMAIN z = 1 .. Len(q) - 1 /\ Len(q) \in Nat /\ DOMAIN q = 1 .. Len(q)
        /\ \A i \in 1 .. Len(q) - 1 : z[i] = q[i + 1]
        /\ Head(q) = q[1] /\ 1 \in DOMAIN q
    BY <2>1, <1>4
  <2> HIDE DEF z
  <2>3. \A i \in DOMAIN z : IsMessage(z[i])
    BY <2>2, <1>4 DEF IsInbox
  <2> QED BY <2>2, <2>3, <1>4 DEF IsInbox, IsSeq, z
<1> QED
  BY <1>1, <1>2, <1>3, <1>4

LEMMA FramedTail ==
  ASSUME NEW q, Framed(q), q # << >>
  PROVE Framed(Tail(q)) /\ IsFrame(Head(q))
<1>1. PICK S : q \in Seq(S)
  BY DEF Framed, IsSeq
<1> DEFINE z == Tail(q)
<1>2. /\ z \in Seq(S) /\ DOMAIN z = 1 .. Len(q) - 1 /\ Len(q) \in Nat /\ DOMAIN q = 1 .. Len(q)
      /\ \A i \in 1 .. Len(q) - 1 : z[i] = q[i + 1]
      /\ Head(q) = q[1] /\ 1 \in DOMAIN q
  BY <1>1
<1> HIDE DEF z
<1>3. \A i \in DOMAIN z : IsFrame(z[i])
  BY <1>2 DEF Framed
<1> QED BY <1>2, <1>3 DEF Framed, IsSeq, z

LEMMA MessagesTyped ==
  /\ \A n, cursor : n # 0 => IsInbox(<< SubscribeMessage(n, cursor) >>)
  /\ \A n : IsInbox(<< LeaveMessage(n) >>)
  /\ \A n, cursor, from, sub : IsInbox(<< Message("page", << sub, n >>, cursor, from, sub) >>)
  /\ \A req, cursor, from, sub : IsInbox(<< Message("ui-answer", req, cursor, from, sub) >>)
  /\ \A req, cursor, from, sub : IsInbox(<< Message("bad-answer", req, cursor, from, sub) >>)
  /\ \A u : IsInbox(Leaving(u))
<1>1. \A t, req, cursor, from, sub :
        LET m == Message(t, req, cursor, from, sub) IN m.t = t /\ m.req = req /\ m.sub = sub
  BY DEF Message
<1>2. ASSUME NEW t \in MessageKinds, NEW req, NEW cursor, NEW from, NEW sub,
             t = "subscribe" => req[1] # 0, t = "page" => req[1] = sub
      PROVE IsInbox(<< Message(t, req, cursor, from, sub) >>)
  <2> DEFINE m == Message(t, req, cursor, from, sub)
  <2>1. IsMessage(m)
    BY <1>1, <1>2 DEF IsMessage
  <2> HIDE DEF m
  <2>2. IsInbox(<< m >>)
    BY <2>1, InboxFacts
  <2> QED BY <2>2 DEF m
<1>3. /\ "subscribe" \in MessageKinds /\ "page" \in MessageKinds /\ "unsubscribe" \in MessageKinds
      /\ "ui-answer" \in MessageKinds /\ "bad-answer" \in MessageKinds
  BY DEF MessageKinds
<1>7. \A a, b : << a, b >>[1] = a
  OBVIOUS
<1>4. \A n, cursor : n # 0 => IsInbox(<< SubscribeMessage(n, cursor) >>)
  BY <1>2, <1>3, <1>7 DEF SubscribeMessage
<1>5. \A n : IsInbox(<< LeaveMessage(n) >>)
  BY <1>2, <1>3 DEF LeaveMessage
<1>6. \A u : IsInbox(Leaving(u))
  BY <1>5, InboxFacts DEF Leaving
<1>8. \A n, cursor, from, sub : IsInbox(<< Message("page", << sub, n >>, cursor, from, sub) >>)
  BY <1>2, <1>3, <1>7
<1>9. /\ \A req, cursor, from, sub : IsInbox(<< Message("ui-answer", req, cursor, from, sub) >>)
      /\ \A req, cursor, from, sub : IsInbox(<< Message("bad-answer", req, cursor, from, sub) >>)
  BY <1>2, <1>3
<1> QED
  BY <1>4, <1>5, <1>6, <1>8, <1>9

LEMMA ActsInbox ==
  ASSUME Inboxes, NEW c \in Conns, NEW u, NEW msgs, IsInbox(msgs), Acts(c, u, msgs), Pages, IsPage(u)
  PROVE Inboxes' /\ Pages' /\ disk' = disk /\ edits' = edits /\ bound' = bound /\ drops' = drops
<1> DEFINE e == << >>
           more == IF g.conn[c].link THEN msgs ELSE e
           q == inbox[c] \o more
<1>1. IsInbox(e)
  BY InboxFacts
<1>2. inbox' = [inbox EXCEPT ![c] = q]
  BY DEF Acts
<1> HIDE DEF e
<1>3. IsInbox(more)
  BY <1>1
<1> HIDE DEF more
<1>4. IsInbox(q)
  BY <1>3, InboxFacts DEF Inboxes
<1> HIDE DEF q
<1>5. Inboxes'
  BY <1>2, <1>4 DEF Inboxes
<1>6. Pages'
  BY DEF Pages, Acts
<1> QED BY <1>5, <1>6 DEF Acts

\* A connection changes but for its engine and for being open.
LEMMA ConnWatching ==
  ASSUME NEW h, Watching(h), NEW c \in Conns, NEW y, IsConn(y), y.open = h.conn[c].open,
         y.eng = h.conn[c].eng
  PROVE LET k == [h EXCEPT !.conn[c] = y]
        IN /\ Watching(k) /\ k.slot = h.slot /\ k.ask = h.ask /\ k.conn[c] = y
           /\ \A d \in Conns \ {c} : k.conn[d] = h.conn[d]
<1> DEFINE k == [h EXCEPT !.conn[c] = y]
           x == h.conn[c]
<1>1. IsGateway(h)
  BY DEF Watching, Sound
<1>2. Follows(x) <=> Follows(y)
  BY DEF Follows
<1>3. Became(h, k, c, y)
  BY <1>1, <1>2, PutBecame
<1> HIDE DEF k
<1>4. /\ IsGateway(k) /\ SameIndex(h, k) /\ k.refs = h.refs
      /\ \A d \in Conns \ {c} : k.conn[d] = h.conn[d]
      /\ k.conn[c] = y
  BY <1>2, <1>3 DEF Became
<1>5. k.slot = h.slot /\ k.bound = h.bound /\ k.ask = h.ask
  BY <1>3, <1>4 DEF Became, Loses, Watched
<1>6. \A d \in Conns : k.conn[d].eng = h.conn[d].eng /\ k.conn[d].open = h.conn[d].open
  BY <1>4
<1>7. Matched(k)
  BY <1>1, <1>4, <1>6 DEF Watching, Sound, Held, Matched, Follows, IsGateway
<1>8. Held(k, 0)
  BY <1>4, <1>5, <1>7 DEF Watching, Sound, Held
<1>9. Current(k)
  <2>1. \A d \in h.refs : d \in Conns
    BY <1>1 DEF IsGateway
  <2> QED BY <2>1, <1>4, <1>6 DEF Watching, Sound, Current, SameIndex
<1>10. Indexed(k, h.slot.rows) /\ Even(k)
  BY <1>4, <1>5 DEF Watching, Sound, Indexed, Even, SameIndex, CurRows
<1> QED
  BY <1>4, <1>5, <1>8, <1>9, <1>10 DEF Watching, Sound, k

-------------------------------------------------------------------------------
(* Each step keeps the state of the read path sound *)

LEMMA InitReads == Init => ReadInv
<1> SUFFICES ASSUME Init PROVE ReadInv
  OBVIOUS
<1>1. Watching(g)
  BY FreshWatching DEF Init
<1>2. bound.rows \in Seq(Nat)
  BY ReadPathAssumption DEF Init
<1>3. disk \in Disks
  BY <1>2 DEF Init, Disks
<1> DEFINE e == << >>
<1>4. IsInbox(e) /\ inbox = [c \in Conns |-> e]
  BY InboxFacts DEF Init
<1> HIDE DEF e
<1>5. Inboxes
  BY <1>4 DEF Inboxes
<1>6. Pages
  <2> DEFINE u == FreshPage
  <2>1. IsPage(u)
    BY DEF FreshPage, IsPage
  <2> HIDE DEF u
  <2>2. ui = [c \in Conns |-> u]
    BY DEF Init, u
  <2> QED BY <2>1, <2>2 DEF Pages
<1> QED BY <1>1, <1>3, <1>5, <1>6 DEF ReadInv, Init

\* Nothing is said or read but by the server.
Alone == Tells(g, g') /\ ui' = ui /\ inbox' = inbox

\* The server alone moves.
LEMMA ServeKept ==
  ASSUME ReadInv, NEW next, Watching(next), Tells(g, next), Serve(next)
  PROVE ReadInv' /\ Alone
BY DEF ReadInv, Serve, Inboxes, Pages, Alone

LEMMA WatchingSlot ==
  ASSUME NEW h, Watching(h) PROVE IsGateway(h) /\ IsSlot(h.slot) /\ Ticks(h.slot) /\ h.slot.rows \in Seq(Nat)
BY DEF Watching, Sound, IsGateway, IsSlot

\* The slot learns something, and the watch stays as it was.
LEMMA BecomesKept ==
  ASSUME ReadInv, NEW d \in Disks, Becomes(d) PROVE ReadInv' /\ Alone
<1> DEFINE n == g.slot.news \/ g.slot.watch = disk.ino
           s == [g.slot EXCEPT !.news = n]
<1>1. g' = [g EXCEPT !.slot = s]
  BY DEF Becomes
<1>2. Watching(g) /\ IsSlot(g.slot) /\ Ticks(g.slot)
  BY WatchingSlot DEF ReadInv
<1>3. n \in BOOLEAN
  BY <1>2 DEF IsSlot
<1> HIDE DEF n
<1>4. IsSlot(s) /\ SameWatch(g.slot, s) /\ s.rows = g.slot.rows /\ Ticks(s)
      /\ s.tickets = g.slot.tickets
  BY <1>2, <1>3 DEF IsSlot, SameWatch, Ticks
<1> HIDE DEF s
<1>5. Watching(g') /\ Tells(g, g')
  BY <1>1, <1>2, <1>4, SlotKeepsWatching
<1>6. disk' \in Disks /\ edits' \in Nat /\ Inboxes' /\ Pages' /\ ui' = ui /\ inbox' = inbox
  BY DEF Becomes, ReadInv, Inboxes, Pages
<1> QED BY <1>5, <1>6 DEF ReadInv, Alone

LEMMA FrontOf ==
  ASSUME NEW q \in Seq(Nat), q # << >> PROVE Front(q) \in Seq(Nat)
<1>1. Len(q) \in Nat /\ Len(q) > 0
  OBVIOUS
<1> QED BY <1>1 DEF Front

LEMMA EditKept == ReadInv /\ Edit => ReadInv' /\ Alone
<1> SUFFICES ASSUME ReadInv, Edit PROVE ReadInv' /\ Alone
  OBVIOUS
<1>1. disk \in Disks /\ disk.rows \in Seq(Nat) /\ disk.ino \in Nat /\ disk.there \in BOOLEAN
      /\ New \in Nat /\ New + 100 \in Nat
  BY DEF ReadInv, Disks, New
<1>2. /\ Append(disk.rows, New) \in Seq(Nat) /\ disk.rows \o << New, New + 100 >> \in Seq(Nat)
      /\ << New >> \in Seq(Nat)
  BY <1>1
<1>3. \A q \in Seq(Nat), i \in Nat, b \in BOOLEAN :
        /\ [disk EXCEPT !.rows = q] \in Disks
        /\ [disk EXCEPT !.ino = i, !.rows = q] \in Disks
        /\ [disk EXCEPT !.there = b] \in Disks
  BY <1>1 DEF Disks
<1>4. CASE AppendOne
  <2>1. Becomes([disk EXCEPT !.rows = Append(disk.rows, New)])
    BY <1>4 DEF AppendOne
  <2> QED BY <2>1, <1>2, <1>3, BecomesKept
<1>5. CASE AppendTwo
  <2>1. Becomes([disk EXCEPT !.rows = disk.rows \o << New, New + 100 >>])
    BY <1>5 DEF AppendTwo
  <2> QED BY <2>1, <1>2, <1>3, BecomesKept
<1>6. CASE Truncate
  <2>1. Becomes([disk EXCEPT !.rows = Front(disk.rows)]) /\ disk.rows # << >>
    BY <1>6 DEF Truncate
  <2>2. Front(disk.rows) \in Seq(Nat)
    BY <2>1, <1>1, FrontOf
  <2> QED BY <2>1, <2>2, <1>3, BecomesKept
<1>7. CASE Rewrite
  <2>1. Becomes([disk EXCEPT !.rows = Append(Front(disk.rows), New)]) /\ disk.rows # << >>
    BY <1>7 DEF Rewrite
  <2>2. Front(disk.rows) \in Seq(Nat)
    BY <2>1, <1>1, FrontOf
  <2>3. Append(Front(disk.rows), New) \in Seq(Nat)
    BY <2>2, <1>1
  <2> QED BY <2>1, <2>3, <1>3, BecomesKept
<1>8. CASE Replace
  <2>1. PICK q \in {disk.rows, Append(disk.rows, New), << New >>} :
          Becomes([disk EXCEPT !.ino = disk.ino + 1, !.rows = q])
    BY <1>8 DEF Replace
  <2>a. q = disk.rows \/ q = Append(disk.rows, New) \/ q = << New >>
    BY <2>1, Zenon
  <2>2. q \in Seq(Nat)
    BY <2>a, <1>1, <1>2, Zenon
  <2>3. disk.ino + 1 \in Nat
    BY <1>1
  <2> QED BY <2>1, <2>2, <2>3, <1>3, BecomesKept
<1>9. CASE Delete
  <2>1. Becomes([disk EXCEPT !.there = FALSE])
    BY <1>9 DEF Delete
  <2>2. [disk EXCEPT !.there = FALSE] \in Disks
    BY <1>1 DEF Disks
  <2> QED BY <2>1, <2>2, BecomesKept
<1>10. CASE WatchError
  <2>1. Watching(g') /\ Rings(g, g') /\ g'.slot.tickets = g.slot.tickets
    BY <1>10, WatchFailsWatching DEF WatchError, ReadInv
  <2>2. Tells(g, g')
    BY <2>1, RingsTells
  <2> QED BY <1>10, <2>1, <2>2 DEF WatchError, ReadInv, Inboxes, Pages, Alone
<1> QED BY <1>4, <1>5, <1>6, <1>7, <1>8, <1>9, <1>10 DEF Edit

LEMMA NoticeSlot ==
  ASSUME NEW s, IsSlot(s), Ticks(s)
  PROVE LET t == Notice(s) IN IsSlot(t) /\ SameWatch(s, t) /\ t.rows = s.rows /\ Ticks(t) /\ t.tickets = s.tickets
<1> DEFINE a == [s EXCEPT !.news = FALSE]
           d == [a EXCEPT !.dirty = TRUE]
           t == Notice(s)
<1>1. t = IF s.scan = "first" \/ ~s.bound \/ s.scan # "none" THEN d ELSE StartRescan(a)
  BY DEF Notice
<1>2. IsSlot(a) /\ SameWatch(s, a) /\ a.rows = s.rows /\ Ticks(a) /\ a.tickets = s.tickets
  BY DEF IsSlot, SameWatch, Ticks
<1>3. IsSlot(d) /\ SameWatch(s, d) /\ d.rows = s.rows /\ Ticks(d) /\ d.tickets = s.tickets
  BY DEF IsSlot, SameWatch, Ticks
<1> HIDE DEF a, d, t
<1>4. IsSlot(StartRescan(a)) /\ SameWatch(a, StartRescan(a)) /\ StartRescan(a).rows = a.rows /\ Ticks(StartRescan(a))
      /\ StartRescan(a).tickets = a.tickets
  BY <1>2, StartRescanSlot
<1>5. SameWatch(s, StartRescan(a)) /\ StartRescan(a).rows = s.rows /\ StartRescan(a).tickets = s.tickets
  BY <1>2, <1>4 DEF SameWatch
<1>6. IsSlot(t) /\ SameWatch(s, t) /\ t.rows = s.rows /\ Ticks(t) /\ t.tickets = s.tickets
  BY <1>1, <1>3, <1>4, <1>5
<1> QED BY <1>6 DEF t

LEMMA ServerKept == ReadInv /\ Server => ReadInv' /\ Alone
<1> SUFFICES ASSUME ReadInv, Server PROVE ReadInv' /\ Alone
  OBVIOUS
<1>1. Watching(g) /\ IsGateway(g) /\ IsSlot(g.slot) /\ Ticks(g.slot)
  BY WatchingSlot DEF ReadInv
<1>2. CASE DeliverNotice
  <2> DEFINE s == Notice(g.slot)
  <2>1. IsSlot(s) /\ SameWatch(g.slot, s) /\ s.rows = g.slot.rows /\ Ticks(s)
        /\ s.tickets = g.slot.tickets
    BY <1>1, NoticeSlot
  <2>2. Serve([g EXCEPT !.slot = s])
    BY <1>2 DEF DeliverNotice
  <2> HIDE DEF s
  <2>3. Watching([g EXCEPT !.slot = s]) /\ Tells(g, [g EXCEPT !.slot = s])
    BY <1>1, <2>1, SlotKeepsWatching
  <2> QED BY <2>2, <2>3, ServeKept
<1>3. CASE ReadFile
  <2> DEFINE r == ReadOf(disk)
             s == [g.slot EXCEPT !.got = r]
  <2>1. Serve([g EXCEPT !.slot = s]) /\ g.slot.scan # "none"
    BY <1>3 DEF ReadFile
  <2>2. r \in Reads
    BY DEF ReadOf, Reads, ReadInv, Disks
  <2> HIDE DEF r
  <2>3. IsSlot(s) /\ SameWatch(g.slot, s) /\ s.rows = g.slot.rows /\ Ticks(s)
        /\ s.tickets = g.slot.tickets
    BY <1>1, <2>1, <2>2 DEF IsSlot, SameWatch, Ticks
  <2> HIDE DEF s
  <2>4. Watching([g EXCEPT !.slot = s]) /\ Tells(g, [g EXCEPT !.slot = s])
    BY <1>1, <2>3, SlotKeepsWatching
  <2> QED BY <2>1, <2>4, ServeKept
<1>4. CASE FinishScan
  <2>1. CASE g.slot.scan = "first"
    <3>1. Serve(FinishFirst(g, disk))
      BY <1>4, <2>1 DEF FinishScan
    <3>2. Watching(FinishFirst(g, disk)) /\ Tells(g, FinishFirst(g, disk))
      BY <1>1, <2>1, FinishFirstWatching
    <3> QED BY <3>1, <3>2, ServeKept
  <2>2. CASE g.slot.scan # "first"
    <3>1. Serve(FinishAgain(g, disk))
      BY <1>4, <2>2 DEF FinishScan
    <3> DEFINE h == FinishAgain(g, disk)
    <3>2. Watching(h) /\ Rings(g, h) /\ h.slot.tickets = << >>
      BY <1>1, FinishAgainWatching
    <3> HIDE DEF h
    <3>3. Tells(g, h)
      BY <3>2, RingsTells
    <3> QED BY <3>1, <3>2, <3>3, ServeKept DEF h
  <2> QED BY <2>1, <2>2
<1>5. CASE RunPump
  <2> DEFINE h == [g EXCEPT !.pump = FALSE]
  <2>1. Serve(PumpFile(h))
    BY <1>5 DEF RunPump
  <2>2. IsGateway(h) /\ h.slot = g.slot /\ SameIndex(g, h) /\ h.refs = g.refs /\ h.bound = g.bound
        /\ h.ask = g.ask /\ h.conn = g.conn
    BY <1>1 DEF IsGateway, SameIndex
  <2>3. Watching(h)
    BY <1>1, <2>2 DEF Watching, Sound, Held, Matched, Current, Indexed, CurRows, Even, SameIndex
  <2> HIDE DEF h
  <2>4. Moves(h, PumpFile(h))
    BY <2>2, PumpFileMoves
  <2>5. Watching(PumpFile(h)) /\ Tells(h, PumpFile(h))
    BY <2>3, <2>4, MovesKeepWatching
  <2>6. Tells(g, h)
    BY <2>2, MoreTells DEF Ans
  <2>7. Tells(g, PumpFile(h))
    BY <2>5, <2>6, TellsTwice
  <2> QED BY <2>1, <2>5, <2>7, ServeKept
<1> QED BY <1>2, <1>3, <1>4, <1>5 DEF Server

LEMMA GateFinite == ASSUME NEW h, Watching(h) PROVE IsFiniteSet(h.ask.gate)
<1>1. h.ask.gen \in Seq(Nat) /\ h.ask.gate \subseteq DOMAIN h.ask.gen
  BY WatchingAsk DEF AskOK, AskBooks, OpenAsked
<1>2. DOMAIN h.ask.gen = 1 .. Len(h.ask.gen) /\ Len(h.ask.gen) \in Nat
  BY <1>1
<1>3. IsFiniteSet(1 .. Len(h.ask.gen))
  BY <1>2, FS_Interval
<1> QED BY <1>1, <1>2, <1>3, FS_Subset

LEMMA ProcessKept == ReadInv /\ Process => ReadInv' /\ Alone
<1> SUFFICES ASSUME ReadInv, Process PROVE ReadInv' /\ Alone
  OBVIOUS
<1> DEFINE u == g.ask
<1>1. Watching(g) /\ AskOK(u) /\ u.pending = u.gate /\ (u.gate # {} => g.refs # {})
  BY WatchingAsk DEF ReadInv
<1>2. CASE ProcessStarts
  <2> DEFINE v == [u EXCEPT !.phase = "running", !.now = @ + 1]
  <2>1. Serve([g EXCEPT !.ask = v]) /\ u.phase = "idle"
    BY <1>2 DEF ProcessStarts
  <2> HIDE DEF u
  <2>2. AskOK(v) /\ v.pending = v.gate /\ v.gate = u.gate /\ v.writes = u.writes
    BY <1>1, <2>1, PhaseOK
  <2> HIDE DEF v
  <2> DEFINE k == [g EXCEPT !.ask = v]
  <2>3. Watching(k) /\ k.ask = v /\ k.slot = g.slot /\ k.conn = g.conn
    BY <1>1, <2>2, AskWatching DEF u
  <2> HIDE DEF k
  <2>4. Ans(g) \subseteq Ans(k)
    BY <2>2, <2>3 DEF Ans, u
  <2>5. Tells(g, k)
    BY <2>3, <2>4, MoreTells
  <2> QED BY <2>1, <2>3, <2>5, ServeKept DEF k
<1>3. CASE ProcessStops
  <2> DEFINE v == [u EXCEPT !.phase = "stopping"]
  <2>1. Serve([g EXCEPT !.ask = v]) /\ u.phase = "running"
    BY <1>3 DEF ProcessStops
  <2> HIDE DEF u
  <2>2. AskOK(v) /\ v.pending = v.gate /\ v.gate = u.gate /\ v.writes = u.writes
    BY <1>1, <2>1, PhaseOK
  <2> HIDE DEF v
  <2> DEFINE k == [g EXCEPT !.ask = v]
  <2>3. Watching(k) /\ k.ask = v /\ k.slot = g.slot /\ k.conn = g.conn
    BY <1>1, <2>2, AskWatching DEF u
  <2> HIDE DEF k
  <2>4. Ans(g) \subseteq Ans(k)
    BY <2>2, <2>3 DEF Ans, u
  <2>5. Tells(g, k)
    BY <2>3, <2>4, MoreTells
  <2> QED BY <2>1, <2>3, <2>5, ServeKept DEF k
<1>4. CASE ProcessEnds
  <2> DEFINE k == CloseUiForGeneration([g EXCEPT !.ask.phase = "idle"])
  <2>1. Watching(k) /\ Tells(g, k)
    BY <1>1, GateFinite, CloseUiWatching
  <2> QED BY <1>4, <2>1, ServeKept DEF ProcessEnds
<1>5. CASE PiAsks
  <2>1. Watching(HandleUiRequest(g)) /\ Tells(g, HandleUiRequest(g))
    BY <1>1, <1>5, HandleUiRequestWatching DEF PiAsks
  <2> QED BY <1>5, <2>1, ServeKept DEF PiAsks
<1>6. CASE WriteEnds
  <2>1. PICK w \in g.ask.writes, ok \in BOOLEAN : Serve(AnswerWritten(g, w, ok))
    BY <1>6 DEF WriteEnds
  <2>2. Watching(AnswerWritten(g, w, ok)) /\ Tells(g, AnswerWritten(g, w, ok))
    BY <1>1, AnswerWrittenWatching
  <2> QED BY <2>1, <2>2, ServeKept
<1> QED BY <1>2, <1>3, <1>4, <1>5, <1>6 DEF Process

-------------------------------------------------------------------------------
(* What leaves a line *)

\* Every frame of y is a frame of x.
Fewer(x, y) ==
  /\ \A i \in DOMAIN y.wire : \/ \E j \in DOMAIN x.wire : x.wire[j] = y.wire[i]
                              \/ \E j \in DOMAIN x.queue : x.queue[j] = y.wire[i]
  /\ \A i \in DOMAIN y.queue : \E j \in DOMAIN x.queue : x.queue[j] = y.queue[i]

LEMMA FewerWithin ==
  ASSUME NEW x, NEW y, IsConn(x), IsConn(y), Fewer(x, y), Follows(y) => Follows(x) /\ y.eng.sub = x.eng.sub,
         NEW T, Within(x, T), y.link \/ 0 \in T
  PROVE Within(y, T)
<1>1. ASSUME NEW k \in DOMAIN Line(y) PROVE \E j \in DOMAIN Line(x) : Line(x)[j] = Line(y)[k]
  <2> DEFINE f == Line(y)[k]
             z == Line(y)
             m == k - Len(y.wire)
  <2>a. /\ \A i \in DOMAIN x.wire : i \in DOMAIN Line(x) /\ Line(x)[i] = x.wire[i]
        /\ \A i \in DOMAIN x.queue : Len(x.wire) + i \in DOMAIN Line(x)
                                     /\ Line(x)[Len(x.wire) + i] = x.queue[i]
    BY LineIs
  <2>b. /\ k \in DOMAIN y.wire \/ (m \in DOMAIN y.queue /\ k = Len(y.wire) + m)
        /\ k \in DOMAIN y.wire => f = y.wire[k]
        /\ \A i \in DOMAIN y.queue : Line(y)[Len(y.wire) + i] = y.queue[i]
    BY <1>1, LineIs
  <2> HIDE DEF m
  <2>1. (\E i \in DOMAIN y.wire : y.wire[i] = f) \/ (\E i \in DOMAIN y.queue : y.queue[i] = f)
    BY <2>b
  <2>2. (\E j \in DOMAIN x.wire : x.wire[j] = f) \/ (\E j \in DOMAIN x.queue : x.queue[j] = f)
    BY <2>1 DEF Fewer
  <2>3. CASE \E j \in DOMAIN x.wire : x.wire[j] = f
    BY <2>3, <2>a
  <2>4. CASE \E j \in DOMAIN x.queue : x.queue[j] = f
    BY <2>4, <2>a
  <2> QED BY <2>2, <2>3, <2>4
<1>2. \A k \in DOMAIN Line(y) : Line(y)[k].t = "snapshot" =>
         Line(y)[k].req[1] = Line(y)[k].sub /\ Line(y)[k].sub \in T
  BY <1>1 DEF Within
<1> QED BY <1>2 DEF Within

\* What holds of the grants of a state holds of larger ones.
Grant(M, c, T) == [d \in Conns |-> IF d = c THEN M[d] \cup T ELSE M[d]]
LEMMA GrantFacts ==
  ASSUME NEW M, NEW c \in Conns, NEW T
  PROVE Grant(M, c, T)[c] = M[c] \cup T /\ \A d \in Conns \ {c} : Grant(M, c, T)[d] = M[d]
BY DEF Grant

LEMMA WithinMore ==
  ASSUME NEW x, NEW S, NEW T, S \subseteq T, Within(x, S) PROVE Within(x, T)
BY DEF Within

LEMMA TicketsBy ==
  ASSUME NEW h, Watching(h) PROVE \A i \in DOMAIN h.slot.tickets : h.slot.tickets[i].by \in Conns
BY WatchingSlot DEF IsSlot, Ticketed, IsTicket

LEMMA GrantNumbered ==
  ASSUME NEW h, Watching(h), NEW M, Numbered(h, M), NEW c \in Conns, NEW T
  PROVE Numbered(h, Grant(M, c, T))
<1> DEFINE N == Grant(M, c, T)
<1>1. \A d \in Conns : M[d] \subseteq N[d]
  BY GrantFacts
<1> HIDE DEF N
<1>2. \A d \in Conns : Within(h.conn[d], N[d])
  BY <1>1, WithinMore DEF Numbered
<1>3. Issued(h.slot.tickets, N)
  BY <1>1, TicketsBy DEF Issued, Numbered
<1> QED BY <1>2, <1>3 DEF Numbered, N

\* The first frame of a line leaves it.
Shorter(z, w) ==
  \E n \in Nat : /\ DOMAIN z = 1 .. (n + 1) /\ DOMAIN w = 1 .. n
                 /\ \A i \in 1 .. n : w[i] = z[i + 1]

LEMMA TailShorter ==
  ASSUME NEW x, IsConn(x), NEW y, x.wire # << >>, y.wire = Tail(x.wire), y.queue = x.queue
  PROVE Shorter(Line(x), Line(y)) /\ Line(x)[1] = Head(x.wire)
<1>1. PICK S : x.wire \in Seq(S)
  BY DEF IsConn, Framed, IsSeq
<1>2. PICK U : x.queue \in Seq(U)
  BY DEF IsConn, Framed, IsSeq
<1> DEFINE V == S \cup U
           p == x.wire
           q == x.queue
           r == Tail(p)
           z == p \o q
           w == r \o q
<1>3. p \in Seq(V) /\ q \in Seq(V)
  BY <1>1, <1>2
<1>4. z = Line(x) /\ w = Line(y)
  BY DEF Line
<1>0. p # << >>
  OBVIOUS
<1> HIDE DEF V, p, q
<1>5. r \in Seq(V) /\ Len(p) \in Nat /\ Len(p) > 0 /\ Len(r) = Len(p) - 1 /\ Len(r) \in Nat
      /\ (\A i \in 1 .. Len(r) : r[i] = p[i + 1]) /\ Head(p) = p[1] /\ Len(q) \in Nat
  BY <1>3, <1>0
<1> HIDE DEF r
<1>6. /\ DOMAIN z = 1 .. Len(p) + Len(q) /\ DOMAIN w = 1 .. Len(r) + Len(q)
      /\ \A i \in 1 .. Len(p) + Len(q) : z[i] = IF i <= Len(p) THEN p[i] ELSE q[i - Len(p)]
      /\ \A i \in 1 .. Len(r) + Len(q) : w[i] = IF i <= Len(r) THEN r[i] ELSE q[i - Len(r)]
  <2>1. DOMAIN z = 1 .. Len(p) + Len(q) /\ \A i \in 1 .. Len(p) + Len(q) : z[i] = IF i <= Len(p) THEN p[i] ELSE q[i - Len(p)]
    BY <1>3
  <2>2. DOMAIN w = 1 .. Len(r) + Len(q) /\ \A i \in 1 .. Len(r) + Len(q) : w[i] = IF i <= Len(r) THEN r[i] ELSE q[i - Len(r)]
    BY <1>3, <1>5
  <2> QED BY <2>1, <2>2
<1> HIDE DEF z, w
<1> DEFINE n == Len(r) + Len(q)
<1>7. n \in Nat /\ DOMAIN z = 1 .. (n + 1) /\ DOMAIN w = 1 .. n
  BY <1>5, <1>6
<1>8. ASSUME NEW i \in 1 .. n PROVE w[i] = z[i + 1]
  <2>1. CASE i <= Len(r)
    <3>1. w[i] = r[i] /\ r[i] = p[i + 1] /\ z[i + 1] = p[i + 1]
      BY <2>1, <1>5, <1>6
    <3> QED BY <3>1
  <2>2. CASE ~(i <= Len(r))
    <3>1. w[i] = q[i - Len(r)] /\ z[i + 1] = q[(i + 1) - Len(p)] /\ (i + 1) - Len(p) = i - Len(r)
      BY <2>2, <1>5, <1>6
    <3> QED BY <3>1
  <2> QED BY <2>1, <2>2
<1>9. z[1] = Head(p)
  BY <1>5, <1>6
<1> HIDE DEF n
<1> QED BY <1>4, <1>7, <1>8, <1>9 DEF Shorter, p

\* D holds the questions behind k that have been read before.
LEMMA FineShorter ==
  ASSUME NEW z, NEW w, Shorter(z, w), NEW a, NEW k \in Nat, NEW s, NEW A, NEW D, NEW E,
         ~(k = 0 /\ Bids(z[1], s)),
         Fine(z, a, k, s, D, A),
         \A q \in E : q \in D \/ (k = 0 /\ z[1].t = "ui-request" /\ z[1].req[2] = q),
         k = 0 /\ z[1].t = "ui-closed" => \A q \in E : z[1].req # AskId(q)
  PROVE Fine(w, a, IF k = 0 THEN 0 ELSE k - 1, s, E, A)
<1> DEFINE m == IF k = 0 THEN 0 ELSE k - 1
<1>1. PICK n \in Nat : /\ DOMAIN z = 1 .. (n + 1) /\ DOMAIN w = 1 .. n
                       /\ \A i \in 1 .. n : w[i] = z[i + 1]
  BY DEF Shorter
<1>0. m \in Nat /\ (k # 0 => m = k - 1) /\ (k = 0 => m = 0)
  OBVIOUS
<1> HIDE DEF m
<1>2. \A j \in DOMAIN z : j > k /\ j # 1 => j - 1 \in DOMAIN w /\ w[j - 1] = z[j] /\ j - 1 > m
  BY <1>0, <1>1
<1>3. CASE Parted(z, k, s)
  <2>1. PICK j \in DOMAIN z : j > k /\ Bids(z[j], s)
    BY <1>3 DEF Parted
  <2>2. j # 1
    BY <2>1
  <2>3. Parted(w, m, s)
    BY <1>2, <2>1, <2>2 DEF Parted
  <2> QED BY <2>3 DEF Fine, m
<1>4. CASE ~Parted(z, k, s)
  <2>1. /\ a = s
        /\ \A i \in DOMAIN z : i > k /\ z[i].t = "ui-request" => Settled(z, i, z[i].req[2], A)
        /\ \A q \in D : Settled(z, k, q, A)
    BY <1>4 DEF Fine
  <2>2. ASSUME NEW i \in DOMAIN w, i > m, w[i].t = "ui-request" PROVE Settled(w, i, w[i].req[2], A)
    <3>1. i + 1 \in DOMAIN z /\ z[i + 1] = w[i] /\ i + 1 > k /\ i \in Nat
      BY <1>0, <1>1, <2>2
    <3>2. Settled(z, i + 1, w[i].req[2], A)
      BY <2>1, <2>2, <3>1
    <3>3. ASSUME NEW j \in DOMAIN z, j > i + 1 PROVE j - 1 \in DOMAIN w /\ w[j - 1] = z[j] /\ j - 1 > i
      BY <1>1, <3>1, <3>3
    <3> QED BY <3>2, <3>3 DEF Settled, Hidden
  <2>3. ASSUME NEW q \in E PROVE Settled(w, m, q, A)
    <3>1. CASE q \in D
      <4>1. Settled(z, k, q, A)
        BY <2>1, <3>1
      <4>2. CASE q \in A
        BY <4>2 DEF Settled
      <4>3. CASE Hidden(z, k, q)
        <5>1. PICK j \in DOMAIN z : j > k /\ z[j].t = "ui-closed" /\ z[j].req = AskId(q)
          BY <4>3 DEF Hidden
        <5>2. j # 1
          <6> SUFFICES ASSUME j = 1 PROVE FALSE
            OBVIOUS
          <6>1. k = 0
            BY <5>1
          <6> QED BY <5>1, <6>1
        <5>3. Hidden(w, m, q)
          BY <5>1, <5>2, <1>2 DEF Hidden
        <5> QED BY <5>3 DEF Settled
      <4> QED BY <4>1, <4>2, <4>3 DEF Settled
    <3>2. CASE q \notin D
      <4>1. k = 0 /\ z[1].t = "ui-request" /\ z[1].req[2] = q
        BY <3>2
      <4>2. 1 \in DOMAIN z /\ 1 > k
        BY <1>1, <4>1
      <4>3. Settled(z, 1, q, A)
        BY <2>1, <4>1, <4>2
      <4>4. ASSUME NEW j \in DOMAIN z, j > 1 PROVE j - 1 \in DOMAIN w /\ w[j - 1] = z[j] /\ j - 1 > m
        <5>1. j > k /\ j # 1
          BY <1>1, <4>1, <4>4
        <5> QED BY <1>2, <5>1
      <4> QED BY <4>3, <4>4 DEF Settled, Hidden
    <3> QED BY <3>1, <3>2
  <2> QED BY <2>1, <2>2, <2>3 DEF Fine, m
<1> QED BY <1>3, <1>4

LEMMA TwoMessages ==
  ASSUME NEW q, IsInbox(q), NEW m, IsInbox(<< m >>) PROVE IsInbox(q \o << m >>)
BY InboxFacts

\* What a page does with itself leaves it a page.
LEMMA PageSteps ==
  ASSUME NEW u, IsPage(u)
  PROVE /\ IsPage(NoteCancelledBuild(u)) /\ IsPage(Dropped(u)) /\ IsPage(Lost(u))
        /\ u.asked + 1 # 0
        /\ \A kind : IsPage(Asks(u, kind))
        /\ \A sub, code : IsPage(Terminated(u, sub, code))
        /\ \A v : IsPage([u EXCEPT !.dialogs = v]) /\ IsPage([u EXCEPT !.cancelled = v])
        /\ \A v, w : IsPage([u EXCEPT !.phase = v, !.cursor = NoCursor, !.dialogs = w])
        /\ \A v, w : IsPage([u EXCEPT !.shown = v, !.stream = 0, !.cursor = NoCursor, !.dialogs = w])
        /\ IsPage([u EXCEPT !.said = TRUE]) /\ IsPage([u EXCEPT !.phase = "resync-needed"])
        /\ \A v : IsPage([u EXCEPT !.shown = v]) /\ IsPage([u EXCEPT !.phase = "closed", !.dialogs = v])
        /\ \A v : IsPage([u EXCEPT !.pend = v, !.kind = "none"])
        /\ \A s, t, b, v : IsPage([u EXCEPT !.sub = s, !.stream = t, !.barrier = b, !.shown = v])
        /\ \A p, k, q, d : IsPage([u EXCEPT !.phase = p, !.cursor = k, !.pend = q, !.kind = d])
<1>1. u.asked + 1 \in Nat /\ u.asked + 1 # 0
  BY DEF IsPage
<1>2. \A kind : IsPage(Asks(u, kind))
  BY <1>1 DEF IsPage, Asks
<1>3. IsPage(NoteCancelledBuild(u)) /\ IsPage(Dropped(u)) /\ IsPage(Lost(u))
  BY DEF IsPage, NoteCancelledBuild, Dropped, Lost
<1>4. \A sub, code : IsPage(Terminated(u, sub, code))
  BY DEF IsPage, Terminated
<1>5. /\ \A v : IsPage([u EXCEPT !.dialogs = v]) /\ IsPage([u EXCEPT !.cancelled = v])
      /\ \A v, w : IsPage([u EXCEPT !.phase = v, !.cursor = NoCursor, !.dialogs = w])
      /\ \A v, w : IsPage([u EXCEPT !.shown = v, !.stream = 0, !.cursor = NoCursor, !.dialogs = w])
      /\ IsPage([u EXCEPT !.said = TRUE]) /\ IsPage([u EXCEPT !.phase = "resync-needed"])
      /\ \A v : IsPage([u EXCEPT !.shown = v]) /\ IsPage([u EXCEPT !.phase = "closed", !.dialogs = v])
      /\ \A v : IsPage([u EXCEPT !.pend = v, !.kind = "none"])
  BY DEF IsPage
<1>6. /\ \A s, t, b, v : IsPage([u EXCEPT !.sub = s, !.stream = t, !.barrier = b, !.shown = v])
      /\ \A p, k, q, d : IsPage([u EXCEPT !.phase = p, !.cursor = k, !.pend = q, !.kind = d])
  BY DEF IsPage
<1> QED BY <1>1, <1>2, <1>3, <1>4, <1>5, <1>6

LEMMA UserKept ==
  ASSUME ReadInv, NEW c \in Conns, User(c) PROVE ReadInv'
<1>1. SUFFICES Inboxes' /\ Pages' /\ disk' = disk /\ edits' = edits /\ g' = g
  BY DEF ReadInv
<1>p. IsPage(ui[c])
  BY DEF ReadInv, Pages
<1> USE DEF ReadInv
<1>2. CASE SubscribeSession(c)
  <2> DEFINE u == ui[c]
             n == [Dropped(NoteCancelledBuild(u)) EXCEPT
                     !.shown = << >>, !.stream = 0, !.cursor = NoCursor, !.dialogs = {}]
             a == Asks(n, "init")
             m == SubscribeMessage(u.asked + 1, NoCursor)
             q == Leaving(u) \o << m >>
  <2>1. Acts(c, a, q) /\ g' = g
    BY <1>2 DEF SubscribeSession
  <2>2. IsInbox(q)
    BY <1>p, PageSteps, MessagesTyped, TwoMessages
  <2> DEFINE b == NoteCancelledBuild(u)
             d == Dropped(b)
             e == << >>
             v == {}
             w == [d EXCEPT !.shown = e, !.stream = 0, !.cursor = NoCursor, !.dialogs = v]
  <2>3. IsPage(b)
    BY <1>p, PageSteps
  <2>4. IsPage(d)
    <3> HIDE DEF b
    <3> QED BY <2>3, PageSteps
  <2>5. IsPage(w)
    <3> HIDE DEF d, e, v
    <3> QED BY <2>4, PageSteps
  <2>6. IsPage(Asks(w, "init"))
    <3> HIDE DEF w
    <3> QED BY <2>5, PageSteps
  <2>7. IsPage(a)
    BY <2>6
  <2> HIDE DEF a, q
  <2> QED BY <2>1, <2>2, <2>7, ActsInbox
<1>3. CASE UnsubscribeSession(c)
  <2> DEFINE u == ui[c]
             a == [Dropped(NoteCancelledBuild(u)) EXCEPT !.phase = "idle", !.cursor = NoCursor, !.dialogs = {}]
             q == Leaving(u)
  <2>1. Acts(c, a, q) /\ g' = g
    BY <1>3 DEF UnsubscribeSession
  <2>2. IsInbox(q)
    BY MessagesTyped
  <2> DEFINE b == NoteCancelledBuild(u)
             d == Dropped(b)
             v == {}
  <2>3. IsPage(b)
    BY <1>p, PageSteps
  <2>4. IsPage(d)
    <3> HIDE DEF b
    <3> QED BY <2>3, PageSteps
  <2>5. IsPage([d EXCEPT !.phase = "idle", !.cursor = NoCursor, !.dialogs = v])
    <3> HIDE DEF d, v
    <3> QED BY <2>4, PageSteps
  <2>6. IsPage(a)
    BY <2>5
  <2> HIDE DEF a, q
  <2> QED BY <2>1, <2>2, <2>6, ActsInbox
<1>4. CASE ResyncFromCursor(c)
  <2> DEFINE u == ui[c]
             a == Asks(Dropped(NoteCancelledBuild(u)), "resync")
             q == << SubscribeMessage(u.asked + 1, u.cursor) >>
  <2>1. Acts(c, a, q) /\ g' = g
    BY <1>4 DEF ResyncFromCursor
  <2>2. IsInbox(q)
    BY <1>p, PageSteps, MessagesTyped
  <2> DEFINE b == NoteCancelledBuild(u)
             d == Dropped(b)
  <2>3. IsPage(b)
    BY <1>p, PageSteps
  <2>4. IsPage(d)
    <3> HIDE DEF b
    <3> QED BY <2>3, PageSteps
  <2>5. IsPage(Asks(d, "resync"))
    <3> HIDE DEF d
    <3> QED BY <2>4, PageSteps
  <2>6. IsPage(a)
    BY <2>5
  <2> HIDE DEF a, q
  <2> QED BY <2>1, <2>2, <2>6, ActsInbox
<1>5. CASE AnswerDialog(c)
  <2>1. PICK d \in ui[c].dialogs : Answers(c, [ui[c] EXCEPT !.dialogs = @ \ {d}], "ui-answer", d.q)
    BY <1>5 DEF AnswerDialog
  <2> DEFINE a == [ui[c] EXCEPT !.dialogs = @ \ {d}]
             q == << Message("ui-answer", AskId(d.q), NoCursor, 0, 0) >>
  <2>2. Acts(c, a, q) /\ g' = g
    BY <2>1 DEF Answers
  <2>3. IsInbox(q)
    BY MessagesTyped
  <2>4. IsPage(a)
    BY <1>p, PageSteps
  <2> HIDE DEF a, q
  <2> QED BY <2>2, <2>3, <2>4, ActsInbox
<1>6. CASE AnswerUnseen(c)
  <2>1. PICK i \in DOMAIN g.ask.gen, t \in {"ui-answer", "bad-answer"} :
          Answers(c, [ui[c] EXCEPT !.said = TRUE], t, i)
    BY <1>6 DEF AnswerUnseen
  <2> DEFINE a == [ui[c] EXCEPT !.said = TRUE]
             q == << Message(t, AskId(i), NoCursor, 0, 0) >>
  <2>2. Acts(c, a, q) /\ g' = g
    BY <2>1 DEF Answers
  <2>3. IsInbox(q)
    <3>1. CASE t = "ui-answer"
      BY <3>1, MessagesTyped
    <3>2. CASE t = "bad-answer"
      BY <3>2, MessagesTyped
    <3> QED BY <2>1, <3>1, <3>2
  <2>4. IsPage(a)
    BY <1>p, PageSteps
  <2> HIDE DEF a, q
  <2> QED BY <2>2, <2>3, <2>4, ActsInbox
<1> QED BY <1>2, <1>3, <1>4, <1>5, <1>6 DEF User

LEMMA NoFrames == Framed(<< >>) /\ IsInbox(<< >>)
BY EmptyIsSeq, InboxFacts

\* What a connection heard is as it was: all but c.
HeardBut(c) ==
  \A d \in Conns \ {c} : \A s : s # 0 => HearsOf(g.conn[d], g'.conn[d], s, Ans(g), Ans(g'))

LEMMA SameHeard ==
  ASSUME NEW d, g'.conn[d] = g.conn[d], g'.ask = g.ask
  PROVE \A s : s # 0 => HearsOf(g.conn[d], g'.conn[d], s, Ans(g), Ans(g'))
<1>1. Ans(g') = Ans(g)
  BY DEF Ans
<1> QED BY <1>1, MoreHears

LEMMA CutKept ==
  ASSUME ReadInv, NEW c \in Conns, Cut(c)
  PROVE /\ ReadInv' /\ HeardBut(c)
        /\ \A M : Numbered(g, M) => Numbered(g', Grant(M, c, {0}))
        /\ ui' = [ui EXCEPT ![c] = Lost(ui[c])] /\ inbox' = [inbox EXCEPT ![c] = << >>]
<1> DEFINE e == << >>
           x == g.conn[c]
           y == [x EXCEPT !.link = FALSE, !.wire = e]
<1>1. Framed(e) /\ IsInbox(e)
  BY NoFrames
<1>2. Watching(g) /\ IsGateway(g) /\ IsConn(x) /\ "conn" \in DOMAIN g
  BY WatchingSlot DEF ReadInv, IsGateway
<1>3. g' = [g EXCEPT !.conn[c] = y] /\ inbox' = [inbox EXCEPT ![c] = e]
      /\ disk' = disk /\ edits' = edits /\ ui' = [ui EXCEPT ![c] = Lost(ui[c])]
  BY DEF Cut
<1>e. e \in Seq({}) /\ Len(e) = 0
  OBVIOUS
<1> HIDE DEF e
<1>4. IsConn(y) /\ y.open = x.open /\ y.eng = x.eng /\ y.link = FALSE /\ y.wire = e /\ y.queue = x.queue
  BY <1>1, <1>2 DEF IsConn
<1> HIDE DEF y
<1>5. Watching(g') /\ g'.slot = g.slot /\ g'.ask = g.ask /\ g'.conn[c] = y
      /\ \A d \in Conns \ {c} : g'.conn[d] = g.conn[d]
  BY <1>2, <1>3, <1>4, ConnWatching
<1>6. Inboxes'
  BY <1>1, <1>3 DEF ReadInv, Inboxes
<1>7. Pages'
  <2>1. IsPage(Lost(ui[c]))
    BY PageSteps DEF ReadInv, Pages
  <2> QED BY <1>3, <2>1 DEF ReadInv, Pages
<1>8. HeardBut(c)
  BY <1>5, SameHeard DEF HeardBut
<1>9. ASSUME NEW M, Numbered(g, M) PROVE Numbered(g', Grant(M, c, {0}))
  <2> DEFINE z == {0}
             N == Grant(M, c, z)
  <2>z. 0 \in z
    OBVIOUS
  <2> HIDE DEF z
  <2>1. N[c] = M[c] \cup z /\ \A d \in Conns \ {c} : N[d] = M[d]
    BY DEF Grant
  <2>2. Numbered(g, N)
    BY <1>2, <1>9, GrantNumbered
  <2> HIDE DEF N
  <2>3. Fewer(x, y)
    BY <1>e, <1>4 DEF Fewer
  <2>4. Within(y, N[c])
    <3>1. Within(x, N[c]) /\ 0 \in N[c] /\ IsConn(x) /\ IsConn(y)
      BY <2>z, <2>1, <2>2, <1>2, <1>4 DEF Numbered
    <3>2. Follows(y) => Follows(x) /\ y.eng.sub = x.eng.sub
      BY <1>4 DEF Follows
    <3> HIDE DEF x
    <3> QED BY <3>1, <3>2, <2>3, FewerWithin
  <2>5. Numbered(g', N)
    BY <1>5, <2>2, <2>4 DEF Numbered
  <2> QED BY <2>5 DEF N, z
<1>10. ReadInv'
  BY <1>3, <1>5, <1>6, <1>7 DEF ReadInv
<1> QED BY <1>3, <1>8, <1>9, <1>10 DEF e

LEMMA ClosedKept ==
  ASSUME ReadInv, NEW c \in Conns, TransportClosed(c)
  PROVE /\ ReadInv' /\ HeardBut(c) /\ ~g.conn[c].link
        /\ \A M : Numbered(g, M) => Numbered(g', M)
        /\ ui' = ui /\ inbox' = inbox
<1> DEFINE e == << >>
           x == g.conn[c]
           k == CloseConn(g, c, e)
           y == ClosedC(x, e)
           z == [x EXCEPT !.open = FALSE, !.eng = NoEngine, !.queue = e, !.wire = x.wire \o e]
<1>1. Framed(e) /\ IsInbox(e)
  BY NoFrames
<1>2. Watching(g) /\ IsGateway(g) /\ IsConn(x)
  BY WatchingSlot DEF ReadInv, IsGateway
<1>3. g' = k /\ ui' = ui /\ inbox' = inbox /\ disk' = disk /\ edits' = edits /\ ~x.link /\ x.open
  BY DEF TransportClosed, Serve
<1>4. y = z
  BY <1>3 DEF ClosedC
<1>w. x.wire \o e = x.wire
  <2>1. PICK S : x.wire \in Seq(S)
    BY <1>2 DEF IsConn, Framed, IsSeq
  <2> QED BY <2>1
<1>e. Len(e) = 0 /\ e \in Seq({})
  OBVIOUS
<1> HIDE DEF e
<1>5. z.link = x.link /\ z.wire = x.wire /\ z.queue = e /\ z.eng = NoEngine
  BY <1>2, <1>w DEF IsConn
<1> HIDE DEF z
<1>6. Became(g, k, c, y)
  BY <1>1, <1>2, CloseConnBecame
<1>7. Fades(x, y) /\ IsConn(y) /\ ~Follows(y)
  BY <1>1, <1>2, <1>3, ClosedCFades
<1> HIDE DEF k, y
<1>8. Glides(g, k)
  BY <1>2, <1>6, <1>7, BecameGlides
<1>9. Watching(k) /\ k.slot.tickets = g.slot.tickets /\ (k.ask = g.ask \/ k.refs = {}) /\ Matched(k)
  BY <1>2, <1>8, GlidesKeepWatching
<1>10. k.conn[c] = y /\ \A d \in Conns \ {c} : k.conn[d] = g.conn[d]
  BY <1>6 DEF Became
<1>11. HeardBut(c)
  <2> SUFFICES ASSUME NEW d \in Conns \ {c}, NEW s, s # 0 PROVE HearsOf(g.conn[d], k.conn[d], s, Ans(g), Ans(k))
    BY <1>3 DEF HeardBut
  <2>1. CASE k.ask = g.ask
    <3>1. Ans(k) = Ans(g)
      BY <2>1 DEF Ans
    <3> QED BY <3>1, <1>10, MoreHears
  <2>2. CASE k.refs = {}
    <3>1. ~Follows(k.conn[d])
      BY <1>9, <2>2 DEF Matched
    <3>2. SubOf(g.conn[d]) # s
      BY <3>1, <1>10 DEF SubOf
    <3> QED BY <3>2, <1>10, ElsewhereHears
  <2> QED BY <1>9, <2>1, <2>2
<1>12. ASSUME NEW M, Numbered(g, M) PROVE Numbered(k, M)
  <2>1. Within(x, M[c]) /\ 0 \in M[c]
    BY <1>3, <1>12 DEF Numbered, Within
  <2>2. Fewer(x, y)
    BY <1>e, <1>4, <1>5 DEF Fewer
  <2>3. Within(y, M[c])
    <3> HIDE DEF x
    <3> QED BY <1>2, <1>7, <2>1, <2>2, FewerWithin
  <2> QED BY <1>9, <1>10, <1>12, <2>3 DEF Numbered
<1>13. ReadInv'
  BY <1>3, <1>9 DEF ReadInv, Inboxes, Pages
<1> QED BY <1>3, <1>11, <1>12, <1>13

LEMMA DrainKept ==
  ASSUME ReadInv, NEW c \in Conns, Drain(c)
  PROVE /\ ReadInv' /\ HeardBut(c)
        /\ g.conn[c].link /\ c \in Clients =>
             \A s : s # 0 => HearsOf(g.conn[c], g'.conn[c], s, Ans(g), Ans(g'))
        /\ \A M : Numbered(g, M) => Numbered(g', M)
        /\ ui' = ui /\ inbox' = inbox
<1> DEFINE x == g.conn[c]
           p == x.wire
           o == x.queue
           f == Head(o)
           q == Tail(o)
           w == IF x.link /\ c \in Clients THEN Append(p, f) ELSE p
           y == [x EXCEPT !.queue = q, !.wire = w]
<1>1. g' = [g EXCEPT !.conn[c] = y] /\ x.queue # << >> /\ ui' = ui /\ inbox' = inbox
      /\ disk' = disk /\ edits' = edits
  BY DEF Drain, Serve
<1>2. Watching(g) /\ IsGateway(g) /\ IsConn(x)
  BY WatchingSlot DEF ReadInv, IsGateway
<1>3. Framed(q) /\ IsFrame(f) /\ Framed(p)
  BY <1>1, <1>2, FramedTail DEF IsConn
<1>4. Framed(w)
  BY <1>3, AppendFramed
<1>s. PICK S : p \in Seq(S)
  BY <1>2 DEF IsConn, Framed, IsSeq
<1>u. PICK U : o \in Seq(U)
  BY <1>2 DEF IsConn, Framed, IsSeq
<1> DEFINE V == S \cup U
<1>v. p \in Seq(V) /\ o \in Seq(V) /\ o # << >>
  BY <1>s, <1>u, <1>1
<1> HIDE DEF V, p, o
<1>a. Append(p, f) \o q = p \o o
  BY <1>v
<1>b. /\ \A i \in DOMAIN q : \E j \in DOMAIN o : o[j] = q[i]
      /\ \A i \in DOMAIN w : (\E j \in DOMAIN p : p[j] = w[i]) \/ (\E j \in DOMAIN o : o[j] = w[i])
  <2>1. /\ Len(o) \in Nat /\ Len(o) > 0 /\ DOMAIN o = 1 .. Len(o) /\ DOMAIN q = 1 .. Len(o) - 1
        /\ \A i \in 1 .. Len(o) - 1 : q[i] = o[i + 1]
        /\ f = o[1]
    BY <1>v
  <2>2. \A i \in DOMAIN q : i + 1 \in DOMAIN o /\ o[i + 1] = q[i]
    BY <2>1
  <2>3. 1 \in DOMAIN o /\ o[1] = f
    BY <2>1
  <2>4. \A i \in DOMAIN w : (i \in DOMAIN p /\ p[i] = w[i]) \/ w[i] = f
    <3> HIDE DEF f
    <3>1. DOMAIN Append(p, f) = 1 .. Len(p) + 1 /\ DOMAIN p = 1 .. Len(p) /\ Len(p) \in Nat
          /\ \A i \in 1 .. Len(p) + 1 : Append(p, f)[i] = IF i <= Len(p) THEN p[i] ELSE f
      BY <1>s
    <3> QED BY <3>1
  <2> HIDE DEF w, q, f
  <2> QED BY <2>2, <2>3, <2>4
<1>c. x.link /\ c \in Clients => w = Append(p, f)
  OBVIOUS
<1> HIDE DEF q, w
<1>5. IsConn(y) /\ y.open = x.open /\ y.eng = x.eng /\ y.link = x.link /\ y.wire = w /\ y.queue = q
  BY <1>2, <1>3, <1>4 DEF IsConn
<1> HIDE DEF y
<1>6. Watching(g') /\ g'.slot = g.slot /\ g'.ask = g.ask /\ g'.conn[c] = y
      /\ \A d \in Conns \ {c} : g'.conn[d] = g.conn[d]
  BY <1>1, <1>2, <1>5, ConnWatching
<1>7. HeardBut(c)
  BY <1>6, SameHeard DEF HeardBut
<1>8. ASSUME x.link, c \in Clients, NEW s, s # 0 PROVE HearsOf(x, y, s, Ans(g), Ans(g'))
  <2>1. Line(y) = Line(x)
    BY <1>5, <1>8, <1>a, <1>c DEF Line, p, o
  <2>2. Flows(x, y)
    <3>1. SubOf(y) = SubOf(x) /\ (Follows(y) <=> Follows(x)) /\ y.eng = x.eng
      BY <1>5 DEF SubOf, Follows
    <3> QED BY <2>1, <3>1, <1>5, SameLineFlows
  <2>3. Ans(g') = Ans(g)
    BY <1>6 DEF Ans
  <2> QED BY <2>2, <2>3, <1>8 DEF Flows
<1>9. ASSUME NEW M, Numbered(g, M) PROVE Numbered(g', M)
  <2>1. Fewer(x, y)
    BY <1>b, <1>5 DEF Fewer, p, o
  <2>2. Within(x, M[c]) /\ (Follows(y) => Follows(x) /\ y.eng.sub = x.eng.sub)
    BY <1>5, <1>9 DEF Numbered, Follows
  <2>3. y.link \/ 0 \in M[c]
    BY <2>2, <1>5 DEF Within
  <2>4. Within(y, M[c])
    <3> HIDE DEF x
    <3> QED BY <1>2, <1>5, <2>1, <2>2, <2>3, FewerWithin
  <2> QED BY <1>6, <1>9, <2>4 DEF Numbered
<1>10. ReadInv'
  BY <1>1, <1>6 DEF ReadInv, Inboxes, Pages
<1> QED BY <1>1, <1>6, <1>7, <1>8, <1>9, <1>10

\* What a message does to what the pages are told: only an unsubscription takes
\* from the line, and only a subscription brings a new number.
Heeds(h, k, c, m) ==
  /\ \A d \in Conns : \A s : s # 0 /\ ~(m.t = "unsubscribe" /\ d = c /\ s = m.sub) =>
       HearsOf(h.conn[d], k.conn[d], s, Ans(h), Ans(k))
  /\ \A M : Numbered(h, M) /\ (m.t = "subscribe" => m.req[1] \in M[c]) => Numbered(k, M)

LEMMA TellsHeeds ==
  ASSUME NEW h, NEW k, Tells(h, k), NEW c, NEW m PROVE Heeds(h, k, c, m)
BY DEF Tells, HearsOn, Heeds

LEMMA HandleWatching ==
  ASSUME NEW h, h = g, Watching(h), NEW c \in Conns, NEW m, IsMessage(m)
  PROVE Watching(Handle(c, m)) /\ Heeds(h, Handle(c, m), c, m)
<1>1. CASE m.t = "subscribe"
  <2> DEFINE k == [by |-> c, req |-> m.req, cursor |-> m.cursor, released |-> FALSE]
             z == AskLoad(h, k, disk)
  <2>1. Handle(c, m) = z
    BY <1>1 DEF Handle
  <2>2. IsTicket(k) /\ ~k.released /\ k.by = c /\ k.req = m.req
    BY <1>1 DEF IsTicket, IsMessage
  <2> HIDE DEF k
  <2>3. /\ Watching(z) /\ HearsOn(h, z)
        /\ \A M : Numbered(h, M) /\ k.req[1] \in M[k.by] => Numbered(z, M)
    BY <2>2, AskLoadWatching
  <2> HIDE DEF z
  <2>4. Heeds(h, z, c, m)
    BY <1>1, <2>2, <2>3 DEF Heeds, HearsOn
  <2> QED BY <2>1, <2>3, <2>4
<1>2. CASE m.t = "page"
  <2>1. Handle(c, m) = AskPage(h, c, m)
    BY <1>2 DEF Handle
  <2>2. Watching(AskPage(h, c, m)) /\ Tells(h, AskPage(h, c, m))
    BY <1>2, AskPageWatching DEF IsMessage
  <2> QED BY <2>1, <2>2, TellsHeeds
<1>3. CASE m.t = "unsubscribe"
  <2> DEFINE z == EndQuietly(h, c, m.sub)
  <2>1. Handle(c, m) = z
    BY <1>3 DEF Handle
  <2>2. /\ Watching(z)
        /\ \A d \in Conns : \A s : s # 0 /\ (d # c \/ s # m.sub) =>
             HearsOf(h.conn[d], z.conn[d], s, Ans(h), Ans(z))
        /\ \A M : Numbered(h, M) => Numbered(z, M)
    BY EndQuietlyWatching
  <2> HIDE DEF z
  <2>3. Heeds(h, z, c, m)
    BY <1>3, <2>2 DEF Heeds
  <2> QED BY <2>1, <2>2, <2>3
<1>4. CASE m.t \in {"ui-answer", "bad-answer"}
  <2> DEFINE z == HandleUiAnswer(h, c, m.req[2], m.t = "ui-answer")
  <2>1. Handle(c, m) = z
    BY <1>4 DEF Handle
  <2>2. Watching(z) /\ Tells(h, z)
    BY HandleUiAnswerWatching
  <2> QED BY <2>1, <2>2, TellsHeeds
<1> QED BY <1>1, <1>2, <1>3, <1>4 DEF IsMessage, MessageKinds

LEMMA HeedsSelf ==
  ASSUME NEW h, NEW c, NEW m PROVE Heeds(h, h, c, m)
BY TellsSelf, TellsHeeds

LEMMA ReceiveKept ==
  ASSUME ReadInv, NEW c \in Conns, Receive(c)
  PROVE /\ ReadInv' /\ inbox[c] # << >> /\ Heeds(g, g', c, Head(inbox[c]))
        /\ ui' = ui /\ inbox' = [inbox EXCEPT ![c] = Tail(inbox[c])]
<1> DEFINE q == inbox[c]
           m == Head(q)
           r == Tail(q)
<1>1. q # << >> /\ inbox' = [inbox EXCEPT ![c] = r] /\ disk' = disk /\ edits' = edits /\ ui' = ui
      /\ g' = IF g.conn[c].open THEN Handle(c, m) ELSE g
  BY DEF Receive
<1>2. IsInbox(q)
  BY DEF ReadInv, Inboxes
<1>3. IsInbox(r) /\ IsMessage(m)
  BY <1>1, <1>2, InboxFacts
<1> HIDE DEF r, m, q
<1>4. Watching(Handle(c, m)) /\ Heeds(g, Handle(c, m), c, m)
  BY <1>3, HandleWatching DEF ReadInv
<1>5. Watching(g') /\ Heeds(g, g', c, m)
  BY <1>1, <1>4, HeedsSelf DEF ReadInv
<1>6. Inboxes'
  BY <1>1, <1>3 DEF ReadInv, Inboxes
<1>7. ReadInv'
  BY <1>1, <1>5, <1>6 DEF ReadInv, Pages
<1> QED BY <1>1, <1>5, <1>7 DEF q, m, r

\* What a page does on what it is sent, and what it sends.
Reacts(c) == \E u, q : Acts(c, u, q) /\ IsPage(u) /\ IsInbox(q)

LEMMA SnapshotActs ==
  ASSUME NEW c, IsPage(ui[c]), NEW f, HandleSnapshot(c, f) PROVE Reacts(c)
<1> DEFINE u == ui[c]
           e == << >>
           leave == << LeaveMessage(f.sub) >>
           next == f.from + Len(f.rows)
           page == << Message("page", << f.sub, next >>, NoCursor, next, f.sub) >>
           n == << f.sub, next >>
           none == << 0, 0 >>
           v == Absorb(u.shown, f)
           k1 == [stream |-> f.stream, seq |-> next]
           k2 == [stream |-> f.stream, seq |-> f.barrier + 1]
           base == [u EXCEPT !.sub = f.sub, !.stream = f.stream, !.barrier = f.barrier, !.shown = v]
           w == u.cancelled \ {f.req[1]}
           u1 == [u EXCEPT !.cancelled = w]
           u2 == [base EXCEPT !.phase = "paging", !.cursor = k1, !.pend = n, !.kind = "page"]
           u3 == [base EXCEPT !.phase = "live", !.cursor = k2, !.pend = none, !.kind = "none"]
<1>1. IsInbox(e) /\ IsInbox(leave) /\ IsInbox(page)
  BY MessagesTyped, InboxFacts
<1>2. Acts(c, u1, leave) \/ Acts(c, u, e) \/ Acts(c, u2, page) \/ Acts(c, u3, e)
  <2> DEFINE a == f.req[2] = 0 /\ f.req[1] \in u.cancelled
             b == f.req # u.pend \/ Foreign(u, f)
  <2>1. IF a THEN Acts(c, u1, leave)
        ELSE IF b THEN Acts(c, u, e)
        ELSE IF f.more THEN Acts(c, u2, page) ELSE Acts(c, u3, e)
    <3> QED BY Zenon DEF HandleSnapshot
  <2> HIDE DEF a, b, u1, u2, u3, u, leave, e, page
  <2> QED BY <2>1
<1>3. IsPage(u)
  OBVIOUS
<1> HIDE DEF w, v, k1, k2, none, n
<1>4. IsPage(u1) /\ IsPage(base)
  <2> HIDE DEF u
  <2> QED BY <1>3, PageSteps
<1> HIDE DEF base
<1>5. IsPage(u2) /\ IsPage(u3)
  BY <1>4, PageSteps
<1> HIDE DEF u, u1, u2, u3, e, leave, page
<1> QED BY <1>1, <1>2, <1>3, <1>4, <1>5 DEF Reacts

LEMMA ErrorActs ==
  ASSUME NEW c, IsPage(ui[c]), NEW f, HandleError(c, f) PROVE Reacts(c)
<1> DEFINE u == ui[c]
           e == << >>
           gone == Leaving(u)
           none == << 0, 0 >>
           d == {}
           answered == [u EXCEPT !.pend = none, !.kind = "none"]
           left == Dropped(answered)
           resume   == f.code = 4409 /\ u.kind \in {"page", "resync"} /\ u.cursor # NoCursor
           u1 == Terminated(u, f.sub, f.code)
           u2 == Terminated(u, u.sub, f.code)
           u3 == [answered EXCEPT !.phase = "resync-needed"]
           u4 == [left EXCEPT !.phase = "closed", !.dialogs = d]
<1>1. IsInbox(e) /\ IsInbox(gone)
  BY MessagesTyped, InboxFacts
<1>2. Acts(c, u1, e) \/ Acts(c, u2, e) \/ Acts(c, u, e) \/ Acts(c, u3, e) \/ Acts(c, u4, gone)
  <2>1. IF f.sub # 0 THEN Acts(c, u1, e)
        ELSE IF f.req = none THEN Acts(c, u2, e)
        ELSE IF f.req # u.pend THEN Acts(c, u, e)
        ELSE IF resume THEN Acts(c, u3, e)
        ELSE Acts(c, u4, gone)
    BY Zenon DEF HandleError
  <2> HIDE DEF u, e, gone, none, u1, u2, u3, u4, resume
  <2> QED BY <2>1, Zenon
<1>3. IsPage(u)
  OBVIOUS
<1> HIDE DEF u, e, gone, none, d
<1>4. IsPage(u1) /\ IsPage(u2) /\ IsPage(answered)
  BY <1>3, PageSteps
<1> HIDE DEF answered
<1>5. IsPage(u3) /\ IsPage(left)
  BY <1>4, PageSteps
<1> HIDE DEF left
<1>6. IsPage(u4)
  BY <1>5, PageSteps
<1> HIDE DEF u1, u2, u3, u4
<1> QED BY <1>1, <1>2, <1>3, <1>4, <1>5, <1>6 DEF Reacts

LEMMA PageActs ==
  ASSUME NEW c, IsPage(ui[c]), NEW f
  PROVE /\ HandleSnapshot(c, f) => Reacts(c)
        /\ HandleEvents(c, f) => Reacts(c)
        /\ HandleError(c, f) => Reacts(c)
        /\ ShowDialog(c, f) => Reacts(c)
        /\ HideDialog(c, f) => Reacts(c)
        /\ Acts(c, Lost(ui[c]), << >>) => Reacts(c)
        /\ Acts(c, ui[c], << >>) => Reacts(c)
<1> DEFINE e == << >>
           u == ui[c]
<1>1. IsInbox(e)
  BY InboxFacts
<1>2. IsPage(u)
  OBVIOUS
<1>3. HandleEvents(c, f) => \E v : Acts(c, IF u.sub # f.sub THEN u ELSE [u EXCEPT !.shown = v], e)
  BY DEF HandleEvents
<1>4. ShowDialog(c, f) => \E v, b : Acts(c, IF b THEN [u EXCEPT !.dialogs = v] ELSE u, e)
  <2> DEFINE b == u.phase \in {"subscribing", "paging", "live"}
             v == u.dialogs \cup {[q |-> f.req[2], sub |-> u.sub]}
  <2>1. ShowDialog(c, f) => Acts(c, IF b THEN [u EXCEPT !.dialogs = v] ELSE u, e)
    BY DEF ShowDialog
  <2> HIDE DEF b, v, u, e
  <2> QED BY <2>1
<1>5. HideDialog(c, f) => \E v : Acts(c, [u EXCEPT !.dialogs = v], e)
  <2> DEFINE v == {d \in u.dialogs : d.q # f.req[2]}
  <2>1. HideDialog(c, f) => Acts(c, [u EXCEPT !.dialogs = v], e)
    BY DEF HideDialog
  <2> HIDE DEF v, u, e
  <2> QED BY <2>1
<1>a. /\ Acts(c, Lost(ui[c]), << >>) => Acts(c, Lost(u), e)
      /\ Acts(c, ui[c], << >>) => Acts(c, u, e)
  OBVIOUS
<1> HIDE DEF e, u
<1>6. HandleEvents(c, f) => Reacts(c)
  <2> SUFFICES ASSUME NEW v, Acts(c, IF u.sub # f.sub THEN u ELSE [u EXCEPT !.shown = v], e) PROVE Reacts(c)
    BY <1>3
  <2> DEFINE w == IF u.sub # f.sub THEN u ELSE [u EXCEPT !.shown = v]
  <2>1. IsPage(w) /\ Acts(c, w, e)
    BY <1>2, PageSteps
  <2> HIDE DEF w
  <2> QED BY <2>1, <1>1 DEF Reacts
<1>7. ShowDialog(c, f) => Reacts(c)
  <2> SUFFICES ASSUME NEW v, NEW b, Acts(c, IF b THEN [u EXCEPT !.dialogs = v] ELSE u, e) PROVE Reacts(c)
    BY <1>4
  <2> DEFINE w == IF b THEN [u EXCEPT !.dialogs = v] ELSE u
  <2>1. IsPage([u EXCEPT !.dialogs = v])
    BY <1>2, PageSteps
  <2>2. IsPage(w) /\ Acts(c, w, e)
    BY <1>2, <2>1
  <2> HIDE DEF w
  <2> QED BY <2>2, <1>1 DEF Reacts
<1>8. HideDialog(c, f) => Reacts(c)
  <2> SUFFICES ASSUME NEW v, Acts(c, [u EXCEPT !.dialogs = v], e) PROVE Reacts(c)
    BY <1>5
  <2> DEFINE w == [u EXCEPT !.dialogs = v]
  <2>1. IsPage(w) /\ Acts(c, w, e)
    BY <1>2, PageSteps
  <2> HIDE DEF w
  <2> QED BY <2>1, <1>1 DEF Reacts
<1>9. Acts(c, Lost(u), e) \/ Acts(c, u, e) => Reacts(c)
  BY <1>1, <1>2, PageSteps DEF Reacts
<1> QED BY <1>a, <1>6, <1>7, <1>8, <1>9, SnapshotActs, ErrorActs

\* Which handler a page runs.
LEMMA PageRuns ==
  ASSUME NEW c, PageReceives(c), IsFrame(Head(g.conn[c].wire)), NEW f, f = Head(g.conn[c].wire)
  PROVE IF ~ui[c].live THEN Acts(c, ui[c], << >>)
        ELSE \/ f.t = "snapshot" /\ HandleSnapshot(c, f)
             \/ f.t = "events" /\ HandleEvents(c, f)
             \/ f.t = "error" /\ HandleError(c, f)
             \/ f.t = "ui-request" /\ ShowDialog(c, f)
             \/ f.t = "ui-closed" /\ HideDialog(c, f)
             \/ f.t = "close" /\ Acts(c, Lost(ui[c]), << >>)
<1>1. CASE ~ui[c].live
  BY <1>1 DEF PageReceives
<1>2. CASE ui[c].live
  <2>1. f.t \in FrameKinds
    BY DEF IsFrame
  <2>2. CASE f.t = "snapshot"
    BY <1>2, <2>2 DEF PageReceives
  <2>3. CASE f.t = "events"
    BY <1>2, <2>3 DEF PageReceives
  <2>4. CASE f.t = "error"
    BY <1>2, <2>4 DEF PageReceives
  <2>5. CASE f.t = "ui-request"
    BY <1>2, <2>5 DEF PageReceives
  <2>6. CASE f.t = "ui-closed"
    BY <1>2, <2>6 DEF PageReceives
  <2>7. CASE f.t = "close"
    BY <1>2, <2>7 DEF PageReceives
  <2> QED BY <2>1, <2>2, <2>3, <2>4, <2>5, <2>6, <2>7 DEF FrameKinds
<1> QED BY <1>1, <1>2

LEMMA PageKept ==
  ASSUME ReadInv, NEW c \in Conns, PageReceives(c)
  PROVE /\ ReadInv' /\ HeardBut(c) /\ Ans(g') = Ans(g)
        /\ \A M : Numbered(g, M) => Numbered(g', M)
        /\ Shorter(Line(g.conn[c]), Line(g'.conn[c])) /\ SubOf(g'.conn[c]) = SubOf(g.conn[c])
        /\ Line(g.conn[c])[1] = Head(g.conn[c].wire) /\ IsFrame(Head(g.conn[c].wire))
<1> DEFINE x == g.conn[c]
           f == Head(x.wire)
           w == Tail(x.wire)
           y == [x EXCEPT !.wire = w]
<1>1. x.wire # << >> /\ g' = [g EXCEPT !.conn[c] = y]
  BY DEF PageReceives
<1>2. Watching(g) /\ IsGateway(g) /\ IsConn(x)
  BY WatchingSlot DEF ReadInv, IsGateway
<1>3. Framed(w) /\ IsFrame(f)
  BY <1>1, <1>2, FramedTail DEF IsConn
<1>4. Reacts(c)
  <2>1. IsPage(ui[c])
    BY DEF ReadInv, Pages
  <2>2. IF ~ui[c].live THEN Acts(c, ui[c], << >>)
        ELSE \/ f.t = "snapshot" /\ HandleSnapshot(c, f)
             \/ f.t = "events" /\ HandleEvents(c, f)
             \/ f.t = "error" /\ HandleError(c, f)
             \/ f.t = "ui-request" /\ ShowDialog(c, f)
             \/ f.t = "ui-closed" /\ HideDialog(c, f)
             \/ f.t = "close" /\ Acts(c, Lost(ui[c]), << >>)
    BY <1>3, PageRuns
  <2> HIDE DEF f
  <2> QED BY <2>1, <2>2, PageActs, Zenon
<1>5. PICK u, q : Acts(c, u, q) /\ IsPage(u) /\ IsInbox(q)
  BY <1>4 DEF Reacts
<1>6. Inboxes' /\ Pages' /\ disk' = disk /\ edits' = edits
  BY <1>5, ActsInbox DEF ReadInv
<1>b. \A i \in DOMAIN w : \E j \in DOMAIN x.wire : x.wire[j] = w[i]
  <2>1. PICK S : x.wire \in Seq(S)
    BY <1>2 DEF IsConn, Framed, IsSeq
  <2> DEFINE p == x.wire
  <2>2. p \in Seq(S) /\ p # << >>
    BY <1>1, <2>1
  <2> HIDE DEF p
  <2>3. Len(p) \in Nat /\ DOMAIN p = 1 .. Len(p) /\ DOMAIN Tail(p) = 1 .. Len(p) - 1
        /\ \A i \in 1 .. Len(p) - 1 : Tail(p)[i] = p[i + 1]
    BY <2>2
  <2>4. \A i \in DOMAIN Tail(p) : i + 1 \in DOMAIN p /\ p[i + 1] = Tail(p)[i]
    BY <2>3
  <2> QED BY <2>4 DEF p
<1>t. w = Tail(x.wire)
  OBVIOUS
<1> HIDE DEF w
<1>7. IsConn(y) /\ y.open = x.open /\ y.eng = x.eng /\ y.link = x.link /\ y.wire = w /\ y.queue = x.queue
  BY <1>2, <1>3 DEF IsConn
<1> HIDE DEF y
<1>8. Watching(g') /\ g'.slot = g.slot /\ g'.ask = g.ask /\ g'.conn[c] = y
      /\ \A d \in Conns \ {c} : g'.conn[d] = g.conn[d]
  BY <1>1, <1>2, <1>7, ConnWatching
<1>9. HeardBut(c) /\ Ans(g') = Ans(g)
  BY <1>8, SameHeard DEF HeardBut, Ans
<1>10. Shorter(Line(x), Line(y)) /\ Line(x)[1] = f
  BY <1>1, <1>2, <1>7, <1>t, TailShorter
<1>11. SubOf(y) = SubOf(x) /\ (Follows(y) => Follows(x) /\ y.eng.sub = x.eng.sub)
  BY <1>7 DEF SubOf, Follows
<1>12. ASSUME NEW M, Numbered(g, M) PROVE Numbered(g', M)
  <2>1. Fewer(x, y)
    BY <1>b, <1>7 DEF Fewer
  <2>2. Within(x, M[c])
    BY <1>12 DEF Numbered
  <2>3. y.link \/ 0 \in M[c]
    BY <2>2, <1>7 DEF Within
  <2>4. Within(y, M[c])
    <3> HIDE DEF x
    <3> QED BY <1>2, <1>7, <1>11, <2>1, <2>2, <2>3, FewerWithin
  <2> QED BY <1>8, <1>12, <2>4 DEF Numbered
<1>13. ReadInv'
  BY <1>6, <1>8 DEF ReadInv
<1> QED BY <1>3, <1>8, <1>9, <1>10, <1>11, <1>12, <1>13

LEMMA NextReads == ReadInv /\ [Next]_vars => ReadInv'
<1> SUFFICES ASSUME ReadInv, [Next]_vars PROVE ReadInv'
  OBVIOUS
<1>1. CASE UNCHANGED vars
  BY <1>1 DEF vars, ReadInv, Inboxes, Pages
<1>2. CASE Edit
  BY <1>2, EditKept
<1>3. CASE Process
  BY <1>3, ProcessKept
<1>4. CASE Server
  BY <1>4, ServerKept
<1>5. ASSUME NEW c \in Conns, User(c) PROVE ReadInv'
  BY <1>5, UserKept
<1>6. ASSUME NEW c \in Conns, Network(c) PROVE ReadInv'
  BY <1>6, CutKept, ClosedKept DEF Network
<1>7. ASSUME NEW c \in Conns, Traffic(c) PROVE ReadInv'
  BY <1>7, DrainKept, ReceiveKept, PageKept DEF Traffic
<1> QED BY <1>1, <1>2, <1>3, <1>4, <1>5, <1>6, <1>7 DEF Next

\* The read path stays sound.
THEOREM ReadPathInvariant == Spec => []ReadInv
<1>1. Init => ReadInv
  BY InitReads
<1>2. ReadInv /\ [Next]_vars => ReadInv'
  BY NextReads
<1> QED BY <1>1, <1>2, PTL DEF Spec

LEMMA ReadInvSound == ReadInv => ObservationSound
<1> SUFFICES ASSUME ReadInv PROVE ObservationSound
  OBVIOUS
<1>1. Sound(g, g.slot.rows, 0)
  BY DEF ReadInv, Watching
<1>2. IsGateway(g) /\ g.refs \subseteq Conns
  BY <1>1 DEF Sound, IsGateway
<1> QED BY <1>1, <1>2 DEF ObservationSound, Sound, Held, Matched, Current, Indexed, Follows, HasSub

(* A file is observed exactly while a connected client follows it: whatever the
   order of subscriptions, cancellations, cuts and overflows, the observation of
   the gateway has as references those who follow it, a scan it keeps is of that
   observation, and its row index holds what it published (acquireObservation,
   releaseObservation and drainSlot). *)
THEOREM ObservationHolds == Spec => []ObservationSound
<1>1. ReadInv => ObservationSound
  BY ReadInvSound
<1> QED BY <1>1, ReadPathInvariant, PTL

-------------------------------------------------------------------------------
(* The books on pi's questions *)

LEMMA AtMostOne ==
  ASSUME NEW S, IsFiniteSet(S), \A x, y \in S : x = y
  PROVE Cardinality(S) \in Nat /\ Cardinality(S) <= 1 /\ (S = {} => Cardinality(S) = 0)
<1>1. CASE S = {}
  BY <1>1, FS_EmptySet
<1>2. CASE S # {}
  <2>1. PICK x : x \in S
    BY <1>2
  <2>2. S = {x}
    BY <2>1
  <2>3. Cardinality(S) = 1
    BY <2>2, FS_Singleton
  <2> QED BY <1>2, <2>3
<1> QED BY <1>1, <1>2

LEMMA ReadInvBooks == ReadInv => AnsweredOnce /\ BooksAgree /\ NoneForgotten
<1> SUFFICES ASSUME ReadInv PROVE AnsweredOnce /\ BooksAgree /\ NoneForgotten
  OBVIOUS
<1> DEFINE u == g.ask
<1>1. AskOK(u) /\ u.pending = u.gate /\ (u.gate # {} => g.refs # {})
  BY WatchingAsk DEF ReadInv
<1>2. u \in AskBooks /\ OpenAsked(u) /\ WritesOnce(u) /\ LinesOnce(u) /\ Remembers(u)
  BY <1>1 DEF AskOK
<1>3. u.lines \in Seq(Lines) /\ DOMAIN u.lines = 1 .. Len(u.lines) /\ Len(u.lines) \in Nat
  BY <1>2 DEF AskBooks
<1>4. AnsweredOnce
  <2> SUFFICES ASSUME NEW q \in DOMAIN u.gen
               PROVE LET given == {i \in DOMAIN u.lines : u.lines[i].q = q}
                         going == {w \in u.writes : w.q = q}
                     IN /\ Cardinality(given) + Cardinality(going) <= 1
                        /\ \A i \in given : u.lines[i].to = u.gen[q]
    BY DEF AnsweredOnce
  <2> DEFINE given == {i \in DOMAIN u.lines : u.lines[i].q = q}
             going == {w \in u.writes : w.q = q}
  <2> HIDE DEF u
  <2>1. \A i, j \in given : i = j
    BY <1>2 DEF LinesOnce
  <2>2. \A v, w \in going : v = w
    BY <1>2 DEF WritesOnce
  <2>3. given = {} \/ going = {}
    BY <1>2 DEF LinesOnce
  <2>4. \A i \in given : u.lines[i].to = u.gen[q]
    BY <1>2 DEF LinesOnce
  <2>5. IsFiniteSet(given)
    <3>1. given \subseteq 1 .. Len(u.lines) /\ IsFiniteSet(1 .. Len(u.lines))
      BY <1>3, FS_Interval
    <3> QED BY <3>1, FS_Subset
  <2>6. IsFiniteSet(going)
    <3>1. CASE going = {}
      BY <3>1, FS_EmptySet
    <3>2. CASE going # {}
      <4>1. PICK w : w \in going
        BY <3>2
      <4>2. going = {w}
        BY <4>1, <2>2
      <4> QED BY <4>2, FS_Singleton
    <3> QED BY <3>1, <3>2
  <2> HIDE DEF given, going
  <2>7. Cardinality(given) \in Nat /\ Cardinality(given) <= 1 /\ (given = {} => Cardinality(given) = 0)
    BY <2>1, <2>5, AtMostOne
  <2>8. Cardinality(going) \in Nat /\ Cardinality(going) <= 1 /\ (going = {} => Cardinality(going) = 0)
    BY <2>2, <2>6, AtMostOne
  <2>9. Cardinality(given) + Cardinality(going) <= 1
    BY <2>3, <2>7, <2>8
  <2> QED BY <2>4, <2>9 DEF given, going
<1>5. BooksAgree
  BY <1>1, <1>2 DEF BooksAgree, OpenAsked
<1>6. NoneForgotten
  <2> DEFINE settled == {w.q : w \in u.writes} \cup {l.q : l \in ToSet(u.lines)} \cup u.failed
  <2> SUFFICES ASSUME u.phase = "running", NEW q \in DOMAIN u.gen, u.gen[q] = u.now
               PROVE q \in u.pending \cup settled
    BY DEF NoneForgotten
  <2>1. Known(u, q)
    BY <1>2 DEF Remembers
  <2>2. CASE q \in u.pending \cup u.failed
    BY <2>2
  <2>3. CASE \E w \in u.writes : w.q = q
    BY <2>3
  <2>4. CASE \E i \in DOMAIN u.lines : u.lines[i].q = q
    <3>1. PICK i \in DOMAIN u.lines : u.lines[i].q = q
      BY <2>4
    <3>2. u.lines[i] \in ToSet(u.lines)
      BY DEF ToSet
    <3> QED BY <3>1, <3>2
  <2> QED BY <2>1, <2>2, <2>3, <2>4 DEF Known
<1> QED BY <1>4, <1>5, <1>6

(* A question of pi is answered at most once, and to the process that asked it;
   session and gateway agree on what is open; while the process runs no question
   of its is forgotten, and none waits with nobody to see it, whatever ends when
   (rpc-session.ts, ws-gateway.ts and composition.ts). *)
THEOREM BooksHold == Spec => [](AnsweredOnce /\ BooksAgree /\ NoneForgotten)
<1>1. ReadInv => AnsweredOnce /\ BooksAgree /\ NoneForgotten
  BY ReadInvBooks
<1> QED BY <1>1, ReadPathInvariant, PTL

-------------------------------------------------------------------------------
(* What a page shows, and what is on its way to it *)

Building(u) == u.kind \in {"init", "resync"}
PageOK(u) ==
  /\ u.sub \in 0 .. u.asked
  /\ u.cancelled \subseteq 1 .. u.asked
  /\ u.sub \notin u.cancelled
  /\ u.kind \in {"none", "init", "resync", "page"}
  /\ \A d \in u.dialogs : d.sub \in 0 .. u.asked
  /\ Building(u) => /\ u.sub = 0 /\ u.asked > 0 /\ u.pend = << u.asked, 0 >>
                    /\ u.asked \notin u.cancelled
                    /\ \A d \in u.dialogs : d.sub # u.asked
  /\ u.kind = "page" => u.sub # 0 /\ u.pend[1] = u.sub
  /\ u.kind = "none" => u.pend = << 0, 0 >>
MsgOK(m, u) ==
  /\ m.t = "subscribe" => m.req[1] \in 1 .. u.asked
  /\ m.t = "unsubscribe" => /\ m.sub \in 1 .. u.asked /\ m.sub # u.sub
                            /\ Building(u) => m.sub # u.asked
Heeded(q, u) == \A i \in DOMAIN q : MsgOK(q[i], u)
Shown(u) == {d.q : d \in {v \in u.dialogs : v.sub = u.sub}}

\* While page u is live: its connection carries only numbers it gave out, what it
\* still asks suits it, and every question it shows or will show is accounted for.
Talk(u, x, q, A, T) ==
  u.live =>
    /\ T \subseteq 1 .. u.asked
    /\ PageOK(u)
    /\ Heeded(q, u)
    /\ u.sub # 0 => Hears(x, u.sub, Shown(u), A)
    /\ Building(u) => Will(x, u.asked, A)
Talks(M) == \A c \in Clients : Talk(ui[c], g.conn[c], inbox[c], Ans(g), M[c])
TalkInv == ReadInv /\ \E M : Numbered(g, M) /\ Talks(M)

LEMMA TalkOn ==
  ASSUME NEW u, NEW x, NEW y, NEW q, NEW A, NEW B, NEW T, Talk(u, x, q, A, T), IsPage(u),
         u.live => \A s : s \in {u.sub, u.asked} /\ s # 0 => HearsOf(x, y, s, A, B)
  PROVE Talk(u, y, q, B, T)
<1> SUFFICES ASSUME u.live PROVE Talk(u, y, q, B, T)
  BY DEF Talk
<1>1. Building(u) => u.asked # 0
  BY DEF Talk, PageOK, IsPage
<1>2. u.sub # 0 => Hears(y, u.sub, Shown(u), B)
  BY DEF Talk, HearsOf
<1>3. Building(u) => Will(y, u.asked, B)
  BY <1>1 DEF Talk, HearsOf
<1> QED BY <1>2, <1>3 DEF Talk

LEMMA ClientsAreConns == Clients \subseteq Conns
BY ReadPathAssumption

LEMMA InitTalks == Init => TalkInv
<1> SUFFICES ASSUME Init PROVE TalkInv
  OBVIOUS
<1> DEFINE e == << >>
           z == {}
           M == [c \in Conns |-> z]
           x == FreshConn
           u == FreshPage
<1>z. \A n \in Nat : z \subseteq 1 .. n
  OBVIOUS
<1>e. e \o e = e /\ DOMAIN e = {}
  OBVIOUS
<1>1. g = FreshGateway /\ inbox = [c \in Conns |-> e] /\ ui = [c \in Conns |-> u]
  BY DEF Init
<1>2. ReadInv
  BY InitReads
<1>3. /\ g.conn = [c \in Conns |-> x] /\ g.slot.tickets = e
  BY <1>1 DEF FreshGateway, FreshSlot
<1>u. /\ u.sub = 0 /\ u.kind = "none" /\ u.asked = 0 /\ u.cancelled = z /\ u.dialogs = z
      /\ u.pend = << 0, 0 >>
  BY DEF FreshPage
<1> HIDE DEF e
<1>4. x.link /\ x.wire = e /\ x.queue = e /\ x.eng = NoEngine
  BY DEF FreshConn, e
<1>5. Line(x) = e /\ ~Follows(x)
  BY <1>4, <1>e, NoEngineIsEngine DEF Line, Follows
<1> HIDE DEF x, u
<1>6. Within(x, z)
  BY <1>4, <1>5, <1>e DEF Within
<1>7. Numbered(g, M)
  BY <1>3, <1>6, <1>e DEF Numbered, Issued
<1>8. Talk(u, x, e, Ans(g), z)
  <2>1. PageOK(u) /\ ~Building(u) /\ z \subseteq 1 .. u.asked
    BY <1>u DEF PageOK, Building
  <2> QED BY <2>1, <1>u, <1>e DEF Talk, Heeded
<1> HIDE DEF z
<1>9. Talks(M)
  BY <1>1, <1>3, <1>8, ClientsAreConns DEF Talks
<1> QED BY <1>2, <1>7, <1>9 DEF TalkInv

\* The pages hear on, and do nothing themselves.
LEMMA AloneTalks ==
  ASSUME TalkInv, ReadInv', Alone PROVE TalkInv'
<1>1. PICK M : Numbered(g, M) /\ Talks(M)
  BY DEF TalkInv
<1>2. Numbered(g', M)
  BY <1>1 DEF Alone, Tells
<1>3. ASSUME NEW c \in Clients PROVE Talk(ui'[c], g'.conn[c], inbox'[c], Ans(g'), M[c])
  <2>1. c \in Conns
    BY ClientsAreConns
  <2>2. Talk(ui[c], g.conn[c], inbox[c], Ans(g), M[c])
    BY <1>1 DEF Talks
  <2>3. \A s : s # 0 => HearsOf(g.conn[c], g'.conn[c], s, Ans(g), Ans(g'))
    BY <2>1 DEF Alone, Tells, HearsOn
  <2>4. IsPage(ui[c])
    BY <2>1 DEF TalkInv, ReadInv, Pages
  <2>5. Talk(ui[c], g'.conn[c], inbox[c], Ans(g'), M[c])
    BY <2>2, <2>3, <2>4, TalkOn
  <2> QED BY <2>5 DEF Alone
<1>4. Talks(M)'
  BY <1>3 DEF Talks
<1> QED BY <1>2, <1>4 DEF TalkInv

\* The page of c is u then, and q what the server has yet to read of it.
Puts(c, u, q) ==
  /\ ui'[c] = u /\ \A d \in Conns \ {c} : ui'[d] = ui[d]
  /\ inbox'[c] = q /\ \A d \in Conns \ {c} : inbox'[d] = inbox[d]

LEMMA ExceptPuts ==
  ASSUME ReadInv, NEW c \in Conns, NEW u, NEW q
  PROVE /\ ui' = ui /\ inbox' = inbox => Puts(c, ui[c], inbox[c])
        /\ ui' = ui /\ inbox' = [inbox EXCEPT ![c] = q] => Puts(c, ui[c], q)
        /\ ui' = [ui EXCEPT ![c] = u] /\ inbox' = [inbox EXCEPT ![c] = q] => Puts(c, u, q)
BY DEF ReadInv, Pages, Inboxes, Puts

\* Connection c has its own step; the others are as they were.
LEMMA OneTalks ==
  ASSUME NEW c \in Conns, ReadInv, ReadInv', NEW M, Talks(M), NEW N, Numbered(g', N),
         \A d \in Conns \ {c} : N[d] = M[d], HeardBut(c), NEW u, NEW q, Puts(c, u, q),
         c \in Clients => Talk(u, g'.conn[c], q, Ans(g'), N[c])
  PROVE TalkInv'
<1>1. ASSUME NEW d \in Clients PROVE Talk(ui'[d], g'.conn[d], inbox'[d], Ans(g'), N[d])
  <2>1. d \in Conns /\ DOMAIN ui = Conns /\ DOMAIN inbox = Conns
    BY ClientsAreConns DEF ReadInv, Pages, Inboxes
  <2>2. CASE d = c
    <3>1. ui'[d] = u /\ inbox'[d] = q
      BY <2>2 DEF Puts
    <3> QED BY <3>1, <2>2, <1>1
  <2>3. CASE d # c
    <3>1. ui'[d] = ui[d] /\ inbox'[d] = inbox[d] /\ N[d] = M[d]
      BY <2>1, <2>3 DEF Puts
    <3>2. Talk(ui[d], g.conn[d], inbox[d], Ans(g), M[d])
      BY DEF Talks
    <3>3. \A s : s # 0 => HearsOf(g.conn[d], g'.conn[d], s, Ans(g), Ans(g'))
      BY <2>1, <2>3 DEF HeardBut
    <3>4. IsPage(ui[d])
      BY <2>1 DEF ReadInv, Pages
    <3>5. Talk(ui[d], g'.conn[d], inbox[d], Ans(g'), M[d])
      BY <3>2, <3>3, <3>4, TalkOn
    <3> QED BY <3>1, <3>5
  <2> QED BY <2>2, <2>3
<1>2. Talks(N)'
  BY <1>1 DEF Talks
<1> QED BY <1>2 DEF TalkInv

LEMMA CutTalks ==
  ASSUME TalkInv, NEW c \in Conns, Cut(c) PROVE TalkInv'
<1>1. PICK M : Numbered(g, M) /\ Talks(M)
  BY DEF TalkInv
<1> DEFINE z == {0}
           N == Grant(M, c, z)
           u == Lost(ui[c])
           e == << >>
<1>2. /\ ReadInv' /\ HeardBut(c) /\ Numbered(g', N)
      /\ ui' = [ui EXCEPT ![c] = u] /\ inbox' = [inbox EXCEPT ![c] = e]
  BY <1>1, CutKept DEF TalkInv
<1>3. IsPage(ui[c])
  BY DEF TalkInv, ReadInv, Pages
<1>4. ~u.live
  BY <1>3 DEF Lost, IsPage
<1> HIDE DEF u, e, z
<1>5. \A d \in Conns \ {c} : N[d] = M[d]
  BY DEF Grant
<1> HIDE DEF N
<1>6. Talk(u, g'.conn[c], e, Ans(g'), N[c])
  BY <1>4 DEF Talk
<1>7. Puts(c, u, e)
  BY <1>2, ExceptPuts DEF TalkInv
<1> QED BY <1>1, <1>2, <1>5, <1>6, <1>7, OneTalks DEF TalkInv

\* A live page is connected.
LEMMA LiveLinked ==
  ASSUME NEW u, NEW x, NEW q, NEW A, NEW T, Talk(u, x, q, A, T), Within(x, T), u.live
  PROVE x.link
BY DEF Talk, Within

LEMMA ClosedTalks ==
  ASSUME TalkInv, NEW c \in Conns, TransportClosed(c) PROVE TalkInv'
<1>1. PICK M : Numbered(g, M) /\ Talks(M)
  BY DEF TalkInv
<1>2. /\ ReadInv' /\ HeardBut(c) /\ ~g.conn[c].link /\ Numbered(g', M) /\ ui' = ui /\ inbox' = inbox
  BY <1>1, ClosedKept DEF TalkInv
<1>3. Puts(c, ui[c], inbox[c])
  BY <1>2, ExceptPuts DEF TalkInv
<1>4. c \in Clients => Talk(ui[c], g'.conn[c], inbox[c], Ans(g'), M[c])
  <2> SUFFICES ASSUME c \in Clients PROVE Talk(ui[c], g'.conn[c], inbox[c], Ans(g'), M[c])
    OBVIOUS
  <2>1. Talk(ui[c], g.conn[c], inbox[c], Ans(g), M[c]) /\ Within(g.conn[c], M[c])
    BY <1>1 DEF Talks, Numbered
  <2>2. ~ui[c].live
    BY <1>2, <2>1, LiveLinked
  <2> QED BY <2>2 DEF Talk
<1> QED BY <1>1, <1>2, <1>3, <1>4, OneTalks DEF TalkInv

LEMMA DrainTalks ==
  ASSUME TalkInv, NEW c \in Conns, Drain(c) PROVE TalkInv'
<1>1. PICK M : Numbered(g, M) /\ Talks(M)
  BY DEF TalkInv
<1>2. /\ ReadInv' /\ HeardBut(c) /\ Numbered(g', M) /\ ui' = ui /\ inbox' = inbox
      /\ g.conn[c].link /\ c \in Clients =>
           \A s : s # 0 => HearsOf(g.conn[c], g'.conn[c], s, Ans(g), Ans(g'))
  BY <1>1, DrainKept DEF TalkInv
<1>3. Puts(c, ui[c], inbox[c])
  BY <1>2, ExceptPuts DEF TalkInv
<1>4. c \in Clients => Talk(ui[c], g'.conn[c], inbox[c], Ans(g'), M[c])
  <2> SUFFICES ASSUME c \in Clients PROVE Talk(ui[c], g'.conn[c], inbox[c], Ans(g'), M[c])
    OBVIOUS
  <2>1. Talk(ui[c], g.conn[c], inbox[c], Ans(g), M[c]) /\ Within(g.conn[c], M[c])
    BY <1>1 DEF Talks, Numbered
  <2>2. ui[c].live => g.conn[c].link
    BY <2>1, LiveLinked
  <2>3. IsPage(ui[c])
    BY DEF TalkInv, ReadInv, Pages
  <2> QED BY <1>2, <2>1, <2>2, <2>3, TalkOn
<1> QED BY <1>1, <1>2, <1>3, <1>4, OneTalks DEF TalkInv

LEMMA HeededTail ==
  ASSUME NEW q, IsInbox(q), q # << >>, NEW u, Heeded(q, u)
  PROVE Heeded(Tail(q), u) /\ MsgOK(Head(q), u)
<1>1. PICK S : q \in Seq(S)
  BY DEF IsInbox, IsSeq
<1>2. /\ Len(q) \in Nat /\ Len(q) > 0 /\ DOMAIN q = 1 .. Len(q) /\ DOMAIN Tail(q) = 1 .. Len(q) - 1
      /\ \A i \in 1 .. Len(q) - 1 : Tail(q)[i] = q[i + 1]
      /\ Head(q) = q[1]
  BY <1>1
<1>3. \A i \in DOMAIN Tail(q) : i + 1 \in DOMAIN q /\ q[i + 1] = Tail(q)[i]
  BY <1>2
<1>4. 1 \in DOMAIN q
  BY <1>2
<1> QED BY <1>2, <1>3, <1>4 DEF Heeded

LEMMA ReceiveTalks ==
  ASSUME TalkInv, NEW c \in Conns, Receive(c) PROVE TalkInv'
<1>1. PICK M : Numbered(g, M) /\ Talks(M)
  BY DEF TalkInv
<1> DEFINE p == inbox[c]
           m == Head(p)
           q == Tail(p)
           z == IF m.t = "subscribe" THEN {m.req[1]} ELSE {}
           N == Grant(M, c, z)
           x == g.conn[c]
           y == g'.conn[c]
<1>2. /\ ReadInv' /\ p # << >> /\ Heeds(g, g', c, m)
      /\ ui' = ui /\ inbox' = [inbox EXCEPT ![c] = q]
  BY ReceiveKept DEF TalkInv
<1>z. m.t = "subscribe" => m.req[1] \in z
  OBVIOUS
<1>y. \A i \in z : m.t = "subscribe" /\ i = m.req[1]
  OBVIOUS
<1> HIDE DEF q, m, p, z
<1>3. Puts(c, ui[c], q)
  BY <1>2, ExceptPuts DEF TalkInv
<1>4. N[c] = M[c] \cup z /\ \A d \in Conns \ {c} : N[d] = M[d]
  BY DEF Grant
<1>5. Numbered(g, N)
  BY <1>1, GrantNumbered DEF TalkInv, ReadInv
<1> HIDE DEF N
<1>6. Numbered(g', N)
  BY <1>2, <1>4, <1>5, <1>z DEF Heeds
<1>7. HeardBut(c)
  BY <1>2 DEF Heeds, HeardBut
<1>8. c \in Clients => Talk(ui[c], y, q, Ans(g'), N[c])
  <2> DEFINE u == ui[c]
  <2> SUFFICES ASSUME c \in Clients, u.live PROVE Talk(u, y, q, Ans(g'), N[c])
    BY DEF Talk
  <2>1. Talk(u, x, p, Ans(g), M[c])
    BY <1>1 DEF Talks, p
  <2>2. IsPage(u) /\ IsInbox(p)
    BY DEF TalkInv, ReadInv, Pages, Inboxes, p
  <2> HIDE DEF u
  <2>3. Heeded(q, u) /\ MsgOK(m, u)
    BY <1>2, <2>1, <2>2, HeededTail DEF Talk, q, m
  <2>4. N[c] \subseteq 1 .. u.asked
    BY <1>4, <1>y, <2>1, <2>3 DEF Talk, MsgOK
  <2>5. ~Building(u) \/ (m.t = "unsubscribe" => u.asked # m.sub)
    BY <2>3 DEF MsgOK
  <2>6. m.t = "unsubscribe" => u.sub # m.sub
    BY <2>3 DEF MsgOK
  <2>7. u.sub # 0 => Hears(y, u.sub, Shown(u), Ans(g'))
    <3> SUFFICES ASSUME u.sub # 0 PROVE Hears(y, u.sub, Shown(u), Ans(g'))
      OBVIOUS
    <3>1. HearsOf(x, y, u.sub, Ans(g), Ans(g'))
      BY <1>2, <2>6 DEF Heeds
    <3> QED BY <3>1, <2>1 DEF Talk, HearsOf
  <2>8. Building(u) => Will(y, u.asked, Ans(g'))
    <3> SUFFICES ASSUME Building(u) PROVE Will(y, u.asked, Ans(g'))
      OBVIOUS
    <3>1. u.asked # 0
      BY <2>1, <2>2 DEF Talk, PageOK, IsPage
    <3>2. HearsOf(x, y, u.asked, Ans(g), Ans(g'))
      BY <1>2, <2>5, <3>1 DEF Heeds
    <3> QED BY <3>2, <2>1 DEF Talk, HearsOf
  <2> QED BY <2>1, <2>3, <2>4, <2>7, <2>8 DEF Talk
<1> QED BY <1>1, <1>2, <1>3, <1>4, <1>6, <1>7, <1>8, OneTalks DEF TalkInv

-------------------------------------------------------------------------------
(* What a page does of itself *)

LEMMA HeededConcat ==
  ASSUME NEW p, IsInbox(p), NEW q, IsInbox(q), NEW u, Heeded(p, u), Heeded(q, u)
  PROVE Heeded(p \o q, u)
<1>1. PICK S : p \in Seq(S)
  BY DEF IsInbox, IsSeq
<1>2. PICK U : q \in Seq(U)
  BY DEF IsInbox, IsSeq
<1> DEFINE V == S \cup U
           w == p \o q
<1>3. p \in Seq(V) /\ q \in Seq(V)
  BY <1>1, <1>2
<1> HIDE DEF V
<1>4. /\ DOMAIN w = 1 .. Len(p) + Len(q) /\ DOMAIN p = 1 .. Len(p) /\ DOMAIN q = 1 .. Len(q)
      /\ Len(p) \in Nat /\ Len(q) \in Nat
      /\ \A i \in 1 .. Len(p) + Len(q) : w[i] = IF i <= Len(p) THEN p[i] ELSE q[i - Len(p)]
  BY <1>3
<1> HIDE DEF w
<1>5. ASSUME NEW i \in DOMAIN w PROVE MsgOK(w[i], u)
  <2>1. CASE i <= Len(p)
    <3>1. i \in DOMAIN p /\ w[i] = p[i]
      BY <1>4, <2>1
    <3> QED BY <3>1 DEF Heeded
  <2>2. CASE ~(i <= Len(p))
    <3>1. i - Len(p) \in DOMAIN q /\ w[i] = q[i - Len(p)]
      BY <1>4, <2>2
    <3> QED BY <3>1 DEF Heeded
  <2> QED BY <2>1, <2>2
<1> QED BY <1>5 DEF Heeded, w

LEMMA HeededOne == ASSUME NEW m, NEW u, MsgOK(m, u) PROVE Heeded(<< m >>, u)
BY DEF Heeded

LEMMA HeededNone == ASSUME NEW u PROVE Heeded(<< >>, u)
BY DEF Heeded

\* Messages that suit u suit v, which has asked more and follows none of old.
LEMMA HeededOn ==
  ASSUME NEW u, IsPage(u), NEW v, IsPage(v), u.asked <= v.asked, v.sub = u.sub \/ v.sub = 0,
         Building(v) => (Building(u) /\ v.asked = u.asked) \/ v.asked = u.asked + 1,
         NEW q, Heeded(q, u)
  PROVE Heeded(q, v)
<1>1. u.asked \in Nat /\ v.asked \in Nat
  BY DEF IsPage
<1>2. ASSUME NEW m, MsgOK(m, u) PROVE MsgOK(m, v)
  <2>1. m.t = "subscribe" => m.req[1] \in 1 .. v.asked
    BY <1>1, <1>2 DEF MsgOK
  <2>2. m.t = "unsubscribe" => m.sub \in 1 .. v.asked
    BY <1>1, <1>2 DEF MsgOK
  <2>3. m.t = "unsubscribe" => m.sub # v.sub
    BY <1>1, <1>2 DEF MsgOK
  <2>4. m.t = "unsubscribe" => (Building(v) => m.sub # v.asked)
    BY <1>1, <1>2 DEF MsgOK
  <2> QED BY <2>1, <2>2, <2>3, <2>4 DEF MsgOK
<1> QED BY <1>2 DEF Heeded

\* The subscription that a page gives up is none it will give up again.
LEMMA HeededLeaving ==
  ASSUME NEW u, IsPage(u), PageOK(u), NEW v, IsPage(v), u.asked <= v.asked, v.sub = 0,
         Building(v) => v.asked = u.asked + 1
  PROVE Heeded(Leaving(u), v)
<1>1. u.asked \in Nat /\ v.asked \in Nat /\ u.sub \in 0 .. u.asked
  BY DEF IsPage, PageOK
<1>2. CASE u.sub = 0
  BY <1>2, HeededNone DEF Leaving
<1>3. CASE u.sub # 0
  <2> DEFINE m == LeaveMessage(u.sub)
  <2>1. m.t = "unsubscribe" /\ m.sub = u.sub
    BY DEF LeaveMessage, Message
  <2> HIDE DEF m
  <2>2. MsgOK(m, v)
    BY <1>1, <1>3, <2>1 DEF MsgOK
  <2>3. Heeded(<< m >>, v)
    BY <2>2, HeededOne
  <2> QED BY <2>3, <1>3 DEF Leaving, m
<1> QED BY <1>2, <1>3

LEMMA HeededAsk ==
  ASSUME NEW n, NEW cursor, NEW v, n \in 1 .. v.asked PROVE Heeded(<< SubscribeMessage(n, cursor) >>, v)
<1> DEFINE m == SubscribeMessage(n, cursor)
           r == << n, 0 >>
<1>r. r[1] = n
  OBVIOUS
<1>1. m.t = "subscribe" /\ m.req = r
  BY DEF SubscribeMessage, Message
<1> HIDE DEF m, r
<1>2. MsgOK(m, v)
  BY <1>1, <1>r DEF MsgOK
<1>3. Heeded(<< m >>, v)
  BY <1>2, HeededOne
<1> QED BY <1>3 DEF m

LEMMA HeededOther ==
  ASSUME NEW m, m.t \notin {"subscribe", "unsubscribe"}, NEW v PROVE Heeded(<< m >>, v)
<1>1. MsgOK(m, v)
  BY DEF MsgOK
<1> QED BY <1>1, HeededOne

\* noteCancelledBuild() and dropActiveSubscription()
LEMMA LetGo ==
  ASSUME NEW u, IsPage(u), PageOK(u)
  PROVE LET v == Dropped(NoteCancelledBuild(u))
        IN /\ IsPage(v) /\ v.asked = u.asked /\ v.sub = 0 /\ v.kind = "none" /\ v.pend = << 0, 0 >>
           /\ v.cancelled \subseteq 1 .. u.asked /\ v.dialogs = u.dialogs /\ v.live = u.live
<1> DEFINE b == NoteCancelledBuild(u)
           v == Dropped(b)
           none == << 0, 0 >>
<1>1. IsPage(b) /\ b.asked = u.asked /\ b.kind = "none" /\ b.pend = none
      /\ b.dialogs = u.dialogs /\ b.live = u.live
      /\ b.cancelled = IF Building(u) THEN u.cancelled \cup {u.pend[1]} ELSE u.cancelled
  BY DEF IsPage, NoteCancelledBuild, Building
<1>2. b.cancelled \subseteq 1 .. u.asked
  <2>1. CASE Building(u)
    <3> DEFINE r == << u.asked, 0 >>
    <3>1. r[1] = u.asked /\ u.pend = r /\ u.asked \in Nat /\ u.asked > 0
      BY <2>1 DEF PageOK, IsPage
    <3> HIDE DEF r
    <3> QED BY <1>1, <2>1, <3>1 DEF PageOK
  <2>2. CASE ~Building(u)
    BY <1>1, <2>2 DEF PageOK
  <2> QED BY <2>1, <2>2
<1> HIDE DEF b, none
<1>3. IsPage(v) /\ v.asked = b.asked /\ v.sub = 0 /\ v.kind = b.kind /\ v.pend = b.pend
      /\ v.cancelled = b.cancelled /\ v.dialogs = b.dialogs /\ v.live = b.live
  BY <1>1 DEF IsPage, Dropped
<1> QED BY <1>1, <1>2, <1>3 DEF b, v, none

LEMMA AskedTalks ==
  ASSUME NEW v, IsPage(v), v.sub = 0, v.kind = "none", v.cancelled \subseteq 1 .. v.asked,
         \A d \in v.dialogs : d.sub \in 0 .. v.asked,
         NEW kind \in {"init", "resync"}, NEW x, NEW T, Within(x, T), T \subseteq 1 .. v.asked, NEW q, NEW A,
         Heeded(q, Asks(v, kind))
  PROVE Talk(Asks(v, kind), x, q, A, T)
<1> DEFINE a == Asks(v, kind)
           n == v.asked + 1
           r == << n, 0 >>
<1>1. a.asked = n /\ a.sub = 0 /\ a.kind = kind /\ a.pend = r /\ a.cancelled = v.cancelled
      /\ a.dialogs = v.dialogs
  BY DEF Asks, IsPage
<1>2. v.asked \in Nat
  BY DEF IsPage
<1> HIDE DEF a, r
<1>3. T \subseteq 1 .. a.asked
  BY <1>1, <1>2
<1>4. PageOK(a)
  <2>1. a.sub \in 0 .. a.asked /\ a.cancelled \subseteq 1 .. a.asked /\ a.sub \notin a.cancelled
        /\ a.asked > 0 /\ a.asked \notin a.cancelled
    BY <1>1, <1>2
  <2>2. \A d \in a.dialogs : d.sub \in 0 .. a.asked /\ d.sub # a.asked
    BY <1>1, <1>2
  <2>3. a.kind \in {"init", "resync"} /\ a.pend = << a.asked, 0 >>
    BY <1>1 DEF r
  <2> QED BY <1>1, <2>1, <2>2, <2>3 DEF PageOK, Building
<1>5. Will(x, a.asked, A)
  <2> SUFFICES ASSUME NEW k \in DOMAIN Line(x), Line(x)[k].t = "snapshot", Line(x)[k].sub = n PROVE FALSE
    BY <1>1 DEF Will
  <2>1. n \in 1 .. v.asked
    BY DEF Within
  <2> QED BY <2>1, <1>2
<1> QED BY <1>1, <1>3, <1>4, <1>5 DEF Talk, a

\* Fewer dialogs are shown.
LEMMA HearsLess ==
  ASSUME NEW x, NEW s, NEW D, NEW E, E \subseteq D, NEW A, Hears(x, s, D, A) PROVE Hears(x, s, E, A)
BY DEF Hears, Fine

LEMMA SubscribeTalk ==
  ASSUME NEW u, IsPage(u), u.live, NEW x, NEW T, Within(x, T), NEW p, IsInbox(p), NEW A, Talk(u, x, p, A, T)
  PROVE LET n == [Dropped(NoteCancelledBuild(u)) EXCEPT
                    !.shown = << >>, !.stream = 0, !.cursor = NoCursor, !.dialogs = {}]
            q == Leaving(u) \o << SubscribeMessage(u.asked + 1, NoCursor) >>
        IN Talk(Asks(n, "init"), x, p \o q, A, T)
<1> DEFINE d == Dropped(NoteCancelledBuild(u))
           e == << >>
           z == {}
           n == [d EXCEPT !.shown = e, !.stream = 0, !.cursor = NoCursor, !.dialogs = z]
           o == << SubscribeMessage(u.asked + 1, NoCursor) >>
           l == Leaving(u)
           q == l \o o
           a == Asks(n, "init")
<1>1. PageOK(u) /\ T \subseteq 1 .. u.asked /\ Heeded(p, u) /\ u.asked \in Nat
  BY DEF Talk, IsPage
<1>2. /\ IsPage(d) /\ d.asked = u.asked /\ d.sub = 0 /\ d.kind = "none"
      /\ d.cancelled \subseteq 1 .. u.asked
  BY <1>1, LetGo
<1>z. \A v \in z : FALSE
  OBVIOUS
<1> HIDE DEF d, e, z
<1>3. /\ n.asked = d.asked /\ n.sub = d.sub /\ n.kind = d.kind /\ n.cancelled = d.cancelled
      /\ n.dialogs = z /\ IsPage(n)
  BY <1>2 DEF IsPage
<1> HIDE DEF n
<1>4. IsPage(a)
  BY <1>3, PageSteps
<1>5. a.asked = u.asked + 1 /\ a.sub = 0 /\ a.kind = "init"
  BY <1>2, <1>3 DEF Asks, IsPage
<1>i. IsInbox(l) /\ IsInbox(o) /\ IsInbox(q)
  <2>1. IsInbox(l) /\ IsInbox(o)
    BY <1>1, MessagesTyped
  <2> HIDE DEF l, o
  <2> QED BY <2>1, InboxFacts
<1> HIDE DEF a
<1>6. Heeded(p, a)
  BY <1>1, <1>4, <1>5, HeededOn
<1>7. Heeded(l, a)
  BY <1>1, <1>4, <1>5, HeededLeaving
<1>8. Heeded(o, a)
  BY <1>1, <1>5, HeededAsk
<1> HIDE DEF l, o
<1>9. Heeded(q, a)
  BY <1>7, <1>8, <1>i, HeededConcat
<1> HIDE DEF q
<1>10. Heeded(p \o q, a)
  BY <1>6, <1>9, <1>i, HeededConcat
<1> DEFINE w == p \o q
<1> HIDE DEF w
<1>11. Heeded(w, Asks(n, "init"))
  BY <1>10 DEF w, a
<1>12. \A v \in n.dialogs : v.sub \in 0 .. n.asked
  BY <1>3, <1>z
<1>13. Talk(Asks(n, "init"), x, w, A, T)
  BY <1>1, <1>2, <1>3, <1>11, <1>12, AskedTalks
<1> QED BY <1>13 DEF w, q, l, o, n, d, e, z

LEMMA ResyncTalk ==
  ASSUME NEW u, IsPage(u), u.live, NEW x, NEW T, Within(x, T), NEW p, IsInbox(p), NEW A, Talk(u, x, p, A, T)
  PROVE Talk(Asks(Dropped(NoteCancelledBuild(u)), "resync"), x,
             p \o << SubscribeMessage(u.asked + 1, u.cursor) >>, A, T)
<1> DEFINE d == Dropped(NoteCancelledBuild(u))
           o == << SubscribeMessage(u.asked + 1, u.cursor) >>
           a == Asks(d, "resync")
           w == p \o o
<1>1. PageOK(u) /\ T \subseteq 1 .. u.asked /\ Heeded(p, u) /\ u.asked \in Nat
  BY DEF Talk, IsPage
<1>2. /\ IsPage(d) /\ d.asked = u.asked /\ d.sub = 0 /\ d.kind = "none"
      /\ d.cancelled \subseteq 1 .. u.asked /\ d.dialogs = u.dialogs
  BY <1>1, LetGo
<1> HIDE DEF d
<1>4. IsPage(a)
  BY <1>2, PageSteps
<1>5. a.asked = u.asked + 1 /\ a.sub = 0 /\ a.kind = "resync"
  BY <1>2 DEF Asks, IsPage
<1>i. IsInbox(o)
  BY <1>1, MessagesTyped
<1> HIDE DEF a
<1>6. Heeded(p, a)
  BY <1>1, <1>4, <1>5, HeededOn
<1>8. Heeded(o, a)
  BY <1>1, <1>5, HeededAsk
<1> HIDE DEF o
<1>10. Heeded(w, a)
  BY <1>6, <1>8, <1>i, HeededConcat
<1> HIDE DEF w
<1>11. Heeded(w, Asks(d, "resync"))
  BY <1>10 DEF a
<1>12. \A v \in d.dialogs : v.sub \in 0 .. d.asked
  BY <1>1, <1>2 DEF PageOK
<1>13. Talk(Asks(d, "resync"), x, w, A, T)
  BY <1>1, <1>2, <1>11, <1>12, AskedTalks
<1> QED BY <1>13 DEF w, o, d

\* A page that follows nothing and builds nothing hears nothing.
LEMMA QuietTalks ==
  ASSUME NEW v, IsPage(v), v.sub = 0, v.kind = "none", v.pend = << 0, 0 >>, v.cancelled \subseteq 1 .. v.asked,
         \A d \in v.dialogs : d.sub \in 0 .. v.asked,
         NEW x, NEW T, T \subseteq 1 .. v.asked, NEW q, NEW A, Heeded(q, v)
  PROVE Talk(v, x, q, A, T)
<1>1. v.asked \in Nat
  BY DEF IsPage
<1>2. PageOK(v) /\ ~Building(v)
  BY <1>1 DEF PageOK, Building
<1> QED BY <1>2 DEF Talk

LEMMA UnsubscribeTalk ==
  ASSUME NEW u, IsPage(u), u.live, NEW x, NEW T, Within(x, T), NEW p, IsInbox(p), NEW A, Talk(u, x, p, A, T)
  PROVE Talk([Dropped(NoteCancelledBuild(u)) EXCEPT !.phase = "idle", !.cursor = NoCursor, !.dialogs = {}],
             x, p \o Leaving(u), A, T)
<1> DEFINE d == Dropped(NoteCancelledBuild(u))
           z == {}
           a == [d EXCEPT !.phase = "idle", !.cursor = NoCursor, !.dialogs = z]
           l == Leaving(u)
           w == p \o l
<1>1. PageOK(u) /\ T \subseteq 1 .. u.asked /\ Heeded(p, u) /\ u.asked \in Nat
  BY DEF Talk, IsPage
<1>2. /\ IsPage(d) /\ d.asked = u.asked /\ d.sub = 0 /\ d.kind = "none" /\ d.pend = << 0, 0 >>
      /\ d.cancelled \subseteq 1 .. u.asked
  BY <1>1, LetGo
<1>z. \A v \in z : FALSE
  OBVIOUS
<1> HIDE DEF d, z
<1>3. /\ a.asked = d.asked /\ a.sub = d.sub /\ a.kind = d.kind /\ a.cancelled = d.cancelled
      /\ a.dialogs = z /\ IsPage(a) /\ a.pend = d.pend
  BY <1>2 DEF IsPage
<1> HIDE DEF a
<1>i. IsInbox(l)
  BY MessagesTyped
<1>5. a.asked = u.asked /\ a.sub = 0 /\ a.kind = "none" /\ ~Building(a)
  BY <1>2, <1>3 DEF Building
<1>6. Heeded(p, a)
  BY <1>1, <1>3, <1>5, HeededOn
<1>7. Heeded(l, a)
  BY <1>1, <1>3, <1>5, HeededLeaving
<1> HIDE DEF l
<1>8. Heeded(w, a)
  BY <1>6, <1>7, <1>i, HeededConcat
<1> HIDE DEF w
<1>9. Talk(a, x, w, A, T)
  BY <1>1, <1>2, <1>3, <1>5, <1>8, <1>z, QuietTalks
<1> QED BY <1>9 DEF a, w, l, d, z

\* A page that shows less.
LEMMA LessTalks ==
  ASSUME NEW u, IsPage(u), NEW x, NEW T, NEW q, NEW A, Talk(u, x, q, A, T), NEW v, v \subseteq u.dialogs
  PROVE Talk([u EXCEPT !.dialogs = v], x, q, A, T)
<1> DEFINE a == [u EXCEPT !.dialogs = v]
<1>1. /\ a.live = u.live /\ a.asked = u.asked /\ a.sub = u.sub /\ a.cancelled = u.cancelled
      /\ a.kind = u.kind /\ a.pend = u.pend /\ a.dialogs = v
  BY DEF IsPage
<1> HIDE DEF a
<1> SUFFICES ASSUME u.live PROVE Talk(a, x, q, A, T)
  BY <1>1 DEF Talk, a
<1>2. PageOK(a) /\ (Building(a) <=> Building(u))
  BY <1>1 DEF Talk, PageOK, Building
<1>3. Heeded(q, a)
  BY <1>1, <1>2 DEF Talk, Heeded, MsgOK
<1>4. Shown(a) \subseteq Shown(u)
  BY <1>1 DEF Shown
<1>5. a.sub # 0 => Hears(x, a.sub, Shown(a), A)
  BY <1>1, <1>4, HearsLess DEF Talk
<1> QED BY <1>1, <1>2, <1>3, <1>5 DEF Talk

LEMMA HeededMore ==
  ASSUME NEW u, NEW x, NEW T, NEW p, IsInbox(p), NEW A, Talk(u, x, p, A, T), NEW q, IsInbox(q), Heeded(q, u)
  PROVE Talk(u, x, p \o q, A, T)
<1>1. u.live => Heeded(p \o q, u)
  BY HeededConcat DEF Talk
<1> QED BY <1>1 DEF Talk

LEMMA AnswerTalk ==
  ASSUME NEW u, IsPage(u), NEW x, NEW T, NEW p, IsInbox(p), NEW A, Talk(u, x, p, A, T), NEW d, NEW req
  PROVE Talk([u EXCEPT !.dialogs = u.dialogs \ {d}], x,
             p \o << Message("ui-answer", req, NoCursor, 0, 0) >>, A, T)
<1> DEFINE v == u.dialogs \ {d}
           a == [u EXCEPT !.dialogs = v]
           m == Message("ui-answer", req, NoCursor, 0, 0)
           q == << m >>
<1>1. v \subseteq u.dialogs
  OBVIOUS
<1> HIDE DEF v
<1>2. Talk(a, x, p, A, T)
  BY <1>1, LessTalks
<1>3. m.t \notin {"subscribe", "unsubscribe"}
  BY DEF Message
<1>4. IsInbox(q)
  BY MessagesTyped
<1> HIDE DEF m, a
<1>5. Heeded(q, a)
  BY <1>3, HeededOther
<1> HIDE DEF q
<1>6. Talk(a, x, p \o q, A, T)
  BY <1>2, <1>4, <1>5, HeededMore
<1> QED BY <1>6 DEF a, q, m, v

LEMMA ActsPuts ==
  ASSUME ReadInv, NEW c \in Conns, NEW u, NEW q, Acts(c, u, q)
  PROVE Puts(c, u, inbox[c] \o (IF g.conn[c].link THEN q ELSE << >>))
BY ExceptPuts DEF Acts

LEMMA UserTalks ==
  ASSUME TalkInv, NEW c \in Conns, User(c) PROVE TalkInv'
<1>1. PICK M : Numbered(g, M) /\ Talks(M)
  BY DEF TalkInv
<1> DEFINE u == ui[c]
           p == inbox[c]
           x == g.conn[c]
           T == M[c]
           A == Ans(g)
           Out(a, q) == Acts(c, a, q) /\ (c \in Clients => Talk(a, x, p \o q, A, T))
<1>2. ReadInv /\ ReadInv'
  BY UserKept DEF TalkInv
<1>3. IsPage(u) /\ IsInbox(p) /\ Within(x, T)
  BY <1>1, <1>2 DEF ReadInv, Pages, Inboxes, Numbered
<1>4. c \in Clients => Talk(u, x, p, A, T)
  BY <1>1 DEF Talks
<1>5. g' = g /\ u.live /\ \E a, q : Out(a, q)
  <2>1. CASE SubscribeSession(c)
    <3> DEFINE n == [Dropped(NoteCancelledBuild(u)) EXCEPT
                       !.shown = << >>, !.stream = 0, !.cursor = NoCursor, !.dialogs = {}]
               a == Asks(n, "init")
               q == Leaving(u) \o << SubscribeMessage(u.asked + 1, NoCursor) >>
    <3>1. Acts(c, a, q) /\ g' = g /\ u.live
      BY <2>1 DEF SubscribeSession
    <3> HIDE DEF u, x, p, A, T
    <3>2. c \in Clients => Talk(a, x, p \o q, A, T)
      BY <1>3, <1>4, <3>1, SubscribeTalk
    <3> HIDE DEF a, q
    <3> QED BY <3>1, <3>2
  <2>2. CASE UnsubscribeSession(c)
    <3> DEFINE a == [Dropped(NoteCancelledBuild(u)) EXCEPT !.phase = "idle", !.cursor = NoCursor, !.dialogs = {}]
               q == Leaving(u)
    <3>1. Acts(c, a, q) /\ g' = g /\ u.live
      BY <2>2 DEF UnsubscribeSession
    <3> HIDE DEF u, x, p, A, T
    <3>2. c \in Clients => Talk(a, x, p \o q, A, T)
      BY <1>3, <1>4, <3>1, UnsubscribeTalk
    <3> HIDE DEF a, q
    <3> QED BY <3>1, <3>2
  <2>3. CASE ResyncFromCursor(c)
    <3> DEFINE a == Asks(Dropped(NoteCancelledBuild(u)), "resync")
               q == << SubscribeMessage(u.asked + 1, u.cursor) >>
    <3>1. Acts(c, a, q) /\ g' = g /\ u.live
      BY <2>3 DEF ResyncFromCursor
    <3> HIDE DEF u, x, p, A, T
    <3>2. c \in Clients => Talk(a, x, p \o q, A, T)
      BY <1>3, <1>4, <3>1, ResyncTalk
    <3> HIDE DEF a, q
    <3> QED BY <3>1, <3>2
  <2>4. CASE AnswerDialog(c)
    <3>0. PICK d \in u.dialogs : u.live /\ Answers(c, [ui[c] EXCEPT !.dialogs = @ \ {d}], "ui-answer", d.q)
      BY <2>4 DEF AnswerDialog
    <3> DEFINE a == [u EXCEPT !.dialogs = u.dialogs \ {d}]
               r == AskId(d.q)
               q == << Message("ui-answer", r, NoCursor, 0, 0) >>
    <3>1. Acts(c, a, q) /\ g' = g /\ u.live
      BY <3>0 DEF Answers
    <3> HIDE DEF u, x, p, A, T, r
    <3>2. c \in Clients => Talk(a, x, p \o q, A, T)
      BY <1>3, <1>4, AnswerTalk
    <3> HIDE DEF a, q
    <3> QED BY <3>1, <3>2
  <2>5. CASE AnswerUnseen(c)
    <3>1. PICK i \in DOMAIN g.ask.gen, t \in {"ui-answer", "bad-answer"} :
            Answers(c, [ui[c] EXCEPT !.said = TRUE], t, i)
      BY <2>5 DEF AnswerUnseen
    <3>2. c \notin Clients /\ u.live
      BY <2>5 DEF AnswerUnseen
    <3> DEFINE a == [ui[c] EXCEPT !.said = TRUE]
               q == << Message(t, AskId(i), NoCursor, 0, 0) >>
    <3>3. Acts(c, a, q) /\ g' = g
      BY <3>1 DEF Answers
    <3> HIDE DEF a, q
    <3> QED BY <3>2, <3>3
  <2> QED BY <2>1, <2>2, <2>3, <2>4, <2>5 DEF User
<1>6. PICK a, q : Out(a, q)
  BY <1>5
<1> DEFINE r == p \o (IF x.link THEN q ELSE << >>)
<1>7. Puts(c, a, r)
  BY <1>2, <1>6, ActsPuts
<1>8. c \in Clients => r = p \o q
  <2>1. c \in Clients => x.link
    BY <1>3, <1>4, <1>5, LiveLinked
  <2> QED BY <2>1
<1>9. HeardBut(c) /\ Numbered(g', M) /\ g'.conn[c] = x /\ Ans(g') = A
  <2>1. HeardBut(c)
    BY <1>5, SameHeard DEF HeardBut
  <2> QED BY <1>1, <1>5, <2>1
<1>10. c \in Clients => Talk(a, g'.conn[c], r, Ans(g'), M[c])
  BY <1>6, <1>8, <1>9
<1> HIDE DEF r, Out
<1> QED BY <1>1, <1>2, <1>7, <1>9, <1>10, OneTalks

-------------------------------------------------------------------------------
(* What a page makes of what it is sent *)

\* The line of x has lost its first frame, f, and become the line of y.
Read(x, y, f) ==
  /\ Shorter(Line(x), Line(y)) /\ SubOf(y) = SubOf(x)
  /\ Line(x)[1] = f

LEMMA ReadWill ==
  ASSUME NEW x, NEW y, NEW f, Read(x, y, f), NEW s, NEW A, Will(x, s, A)
  PROVE /\ Will(y, s, A)
        /\ f.t = "snapshot" /\ f.sub = s => Hears(y, s, {}, A)
<1> DEFINE z == Line(x)
           w == Line(y)
           a == SubOf(x)
           e == {}
<1>1. PICK n \in Nat : /\ DOMAIN z = 1 .. (n + 1) /\ DOMAIN w = 1 .. n
                       /\ \A i \in 1 .. n : w[i] = z[i + 1]
  BY DEF Read, Shorter
<1>2. Shorter(z, w) /\ SubOf(y) = a /\ z[1] = f
  BY DEF Read
<1>3. \A k \in DOMAIN z : z[k].t = "snapshot" /\ z[k].sub = s => Fine(z, a, k, s, e, A)
  BY DEF Will
<1>e. \A q \in e : FALSE
  OBVIOUS
<1> HIDE DEF z, w, a, e
<1>4. ASSUME NEW k \in DOMAIN z, Fine(z, a, k, s, e, A) PROVE Fine(w, a, k - 1, s, e, A)
  <2>1. k \in Nat /\ k # 0
    BY <1>1
  <2>2. Fine(w, a, IF k = 0 THEN 0 ELSE k - 1, s, e, A)
    BY <1>2, <1>4, <1>e, <2>1, FineShorter
  <2> QED BY <2>1, <2>2
<1>5. ASSUME NEW k \in DOMAIN w, w[k].t = "snapshot", w[k].sub = s PROVE Fine(w, a, k, s, e, A)
  <2>1. k + 1 \in DOMAIN z /\ z[k + 1] = w[k] /\ (k + 1) - 1 = k
    BY <1>1
  <2>2. Fine(z, a, k + 1, s, e, A)
    BY <1>3, <1>5, <2>1
  <2>3. Fine(w, a, (k + 1) - 1, s, e, A)
    BY <1>4, <2>1, <2>2
  <2> QED BY <2>1, <2>3
<1>6. f.t = "snapshot" /\ f.sub = s => Fine(w, a, 0, s, e, A)
  <2> SUFFICES ASSUME f.t = "snapshot", f.sub = s PROVE Fine(w, a, 0, s, e, A)
    OBVIOUS
  <2>1. 1 \in DOMAIN z
    BY <1>1
  <2>2. Fine(z, a, 1, s, e, A)
    BY <1>2, <1>3, <2>1
  <2>3. Fine(w, a, 1 - 1, s, e, A)
    BY <1>4, <2>1, <2>2
  <2> QED BY <2>3
<1> QED BY <1>2, <1>5, <1>6 DEF Will, Hears, w, e

LEMMA ReadHears ==
  ASSUME NEW x, NEW y, NEW f, Read(x, y, f), NEW s, NEW A, NEW D, NEW E, Hears(x, s, D, A), ~Bids(f, s),
         \A q \in E : q \in D \/ (f.t = "ui-request" /\ f.req[2] = q),
         f.t = "ui-closed" => \A q \in E : f.req # AskId(q)
  PROVE Hears(y, s, E, A)
<1> DEFINE z == Line(x)
           w == Line(y)
           a == SubOf(x)
<1>1. Shorter(z, w) /\ SubOf(y) = a /\ z[1] = f /\ Fine(z, a, 0, s, D, A) /\ 0 \in Nat
  BY DEF Read, Hears
<1> HIDE DEF z, w, a
<1>2. Fine(w, a, IF 0 = 0 THEN 0 ELSE 0 - 1, s, E, A)
  BY <1>1, FineShorter
<1> QED BY <1>1, <1>2 DEF Hears, w

\* The page stays with what it follows, and the frame does not end that.
Remains(u, v, f) ==
  /\ v.live = u.live /\ v.asked = u.asked /\ v.sub = u.sub
  /\ \/ v.kind = u.kind /\ v.pend = u.pend
     \/ v.kind = "none" /\ v.pend = << 0, 0 >>
     \/ v.kind = "page" /\ u.sub # 0 /\ v.pend[1] = u.sub
  /\ v.cancelled \subseteq u.cancelled
  /\ \A d \in v.dialogs : d \in u.dialogs \/ (f.t = "ui-request" /\ d.q = f.req[2] /\ d.sub = u.sub)
  /\ u.sub # 0 => ~Bids(f, u.sub)
  /\ f.t = "ui-closed" => \A d \in v.dialogs : f.req # AskId(d.q)

LEMMA StaysTalk ==
  ASSUME NEW u, IsPage(u), NEW x, NEW y, NEW f, Read(x, y, f), NEW q, NEW A, NEW T, Talk(u, x, q, A, T),
         NEW v, Remains(u, v, f)
  PROVE Talk(v, y, q, A, T)
<1> SUFFICES ASSUME u.live PROVE Talk(v, y, q, A, T)
  BY DEF Talk, Remains
<1>0. u.asked \in Nat
  BY DEF IsPage
<1>1. PageOK(v) /\ (Building(v) => Building(u))
  <2>1. PageOK(u) /\ (Building(v) => Building(u) /\ v.pend = u.pend)
    BY DEF Talk, Building, Remains
  <2>2. \A d \in v.dialogs : d.sub \in 0 .. v.asked
    BY <2>1 DEF PageOK, Remains
  <2>3. Building(v) => \A d \in v.dialogs : d.sub # v.asked
    BY <2>1, <1>0 DEF PageOK, Remains
  <2>4. /\ v.kind \in {"none", "init", "resync", "page"}
        /\ v.kind = "page" => v.sub # 0 /\ v.pend[1] = v.sub
        /\ v.kind = "none" => v.pend = << 0, 0 >>
    BY <2>1 DEF PageOK, Remains
  <2>5. /\ v.sub \in 0 .. v.asked
        /\ v.cancelled \subseteq 1 .. v.asked
        /\ v.sub \notin v.cancelled
        /\ Building(v) => /\ v.sub = 0 /\ v.asked > 0 /\ v.pend = << v.asked, 0 >>
                          /\ v.asked \notin v.cancelled
    BY <2>1 DEF PageOK, Remains
  <2> QED BY <2>1, <2>2, <2>3, <2>4, <2>5 DEF PageOK
<1>2. Heeded(q, v)
  BY <1>1 DEF Talk, Heeded, MsgOK, Remains
<1>3. Building(v) => Will(y, v.asked, A)
  BY <1>1, ReadWill DEF Talk, Remains
<1>4. ASSUME v.sub # 0 PROVE Hears(y, v.sub, Shown(v), A)
  <2>1. Hears(x, u.sub, Shown(u), A) /\ ~Bids(f, u.sub)
    BY <1>4 DEF Talk, Remains
  <2>2. \A i \in Shown(v) : i \in Shown(u) \/ (f.t = "ui-request" /\ f.req[2] = i)
    BY DEF Shown, Remains
  <2>3. f.t = "ui-closed" => \A i \in Shown(v) : f.req # AskId(i)
    BY DEF Shown, Remains
  <2>4. Hears(y, u.sub, Shown(v), A)
    BY <2>1, <2>2, <2>3, ReadHears
  <2> QED BY <2>4 DEF Remains
<1> QED BY <1>1, <1>2, <1>3, <1>4 DEF Talk, Remains

\* What page c does with frame f leaves its talk sound.
TalksOn(c, y, A, T) ==
  \E u, q : Acts(c, u, q) /\ Talk(u, y, inbox[c] \o (IF g.conn[c].link THEN q ELSE << >>), A, T)

LEMMA EmptyMore == ASSUME NEW p, IsInbox(p) PROVE p \o << >> = p /\ \A b : p \o (IF b THEN << >> ELSE << >>) = p
BY DEF IsInbox, IsSeq

LEMMA EmptyTalks ==
  ASSUME NEW c, NEW y, NEW A, NEW T, IsInbox(inbox[c]), NEW u, Acts(c, u, << >>), Talk(u, y, inbox[c], A, T)
  PROVE TalksOn(c, y, A, T)
<1> DEFINE e == << >>
           p == inbox[c]
           r == p \o (IF g.conn[c].link THEN e ELSE << >>)
<1>1. r = p
  BY EmptyMore
<1>2. Acts(c, u, e) /\ Talk(u, y, r, A, T)
  BY <1>1
<1> HIDE DEF e
<1> QED BY <1>2 DEF TalksOn

LEMMA SentTalks ==
  ASSUME NEW c, NEW y, NEW A, NEW T, IsInbox(inbox[c]), g.conn[c].link, NEW u, NEW q, Acts(c, u, q),
         IsInbox(q), Talk(u, y, inbox[c], A, T), Heeded(q, u)
  PROVE TalksOn(c, y, A, T)
<1>1. Talk(u, y, inbox[c] \o q, A, T)
  BY HeededMore
<1> QED BY <1>1 DEF TalksOn

LEMMA EventsTalk ==
  ASSUME NEW c, NEW u, u = ui[c], IsPage(u), u.live, NEW x, NEW y, NEW f, Read(x, y, f), f.t = "events",
         IsInbox(inbox[c]), NEW A, NEW T, Talk(u, x, inbox[c], A, T), HandleEvents(c, f)
  PROVE TalksOn(c, y, A, T)
<1> DEFINE b == u.sub # f.sub
           s == Absorb(u.shown, f)
           v == IF b THEN u ELSE [u EXCEPT !.shown = s]
<1>1. Acts(c, v, << >>)
  BY DEF HandleEvents
<1> HIDE DEF b, s
<1>2. /\ v.live = u.live /\ v.asked = u.asked /\ v.sub = u.sub /\ v.kind = u.kind /\ v.pend = u.pend
      /\ v.cancelled = u.cancelled /\ v.dialogs = u.dialogs
  BY DEF IsPage
<1> HIDE DEF v
<1>3. \A i : ~Bids(f, i)
  BY DEF Bids
<1>c. Remains(u, v, f)
  BY <1>2, <1>3 DEF Remains
<1>4. Talk(v, y, inbox[c], A, T)
  BY <1>c, StaysTalk
<1> QED BY <1>1, <1>4, EmptyTalks

LEMMA ShowTalk ==
  ASSUME NEW c, NEW u, u = ui[c], IsPage(u), u.live, NEW x, NEW y, NEW f, Read(x, y, f), f.t = "ui-request",
         IsInbox(inbox[c]), NEW A, NEW T, Talk(u, x, inbox[c], A, T), ShowDialog(c, f)
  PROVE TalksOn(c, y, A, T)
<1> DEFINE b == u.phase \in {"subscribing", "paging", "live"}
           d == [q |-> f.req[2], sub |-> u.sub]
           s == u.dialogs \cup {d}
           v == IF b THEN [u EXCEPT !.dialogs = s] ELSE u
<1>1. Acts(c, v, << >>)
  BY DEF ShowDialog
<1>d. d.q = f.req[2] /\ d.sub = u.sub
  OBVIOUS
<1>s. \A i \in s : i \in u.dialogs \/ i = d
  OBVIOUS
<1> HIDE DEF b, s, d
<1>2. /\ v.live = u.live /\ v.asked = u.asked /\ v.sub = u.sub /\ v.kind = u.kind /\ v.pend = u.pend
      /\ v.cancelled = u.cancelled /\ (v.dialogs = u.dialogs \/ v.dialogs = s)
  BY DEF IsPage
<1> HIDE DEF v
<1>3. \A i : ~Bids(f, i)
  BY DEF Bids
<1>4. \A i \in v.dialogs : i \in u.dialogs \/ (f.t = "ui-request" /\ i.q = f.req[2] /\ i.sub = u.sub)
  BY <1>2, <1>d, <1>s
<1>c. Remains(u, v, f)
  BY <1>2, <1>3, <1>4 DEF Remains
<1>5. Talk(v, y, inbox[c], A, T)
  BY <1>c, StaysTalk
<1> QED BY <1>1, <1>5, EmptyTalks

LEMMA HideTalk ==
  ASSUME NEW c, NEW u, u = ui[c], IsPage(u), u.live, NEW x, NEW y, NEW f, Read(x, y, f), f.t = "ui-closed",
         IsInbox(inbox[c]), NEW A, NEW T, Talk(u, x, inbox[c], A, T), HideDialog(c, f)
  PROVE TalksOn(c, y, A, T)
<1> DEFINE s == {d \in u.dialogs : d.q # f.req[2]}
           v == [u EXCEPT !.dialogs = s]
<1>1. Acts(c, v, << >>)
  BY DEF HideDialog
<1>s. s \subseteq u.dialogs /\ \A d \in s : f.req # AskId(d.q)
  <2>1. \A i : << 0, i >>[2] = i
    OBVIOUS
  <2>2. \A d \in s : d.q # f.req[2]
    OBVIOUS
  <2> QED BY <2>1, <2>2 DEF AskId
<1> HIDE DEF s
<1>2. /\ v.live = u.live /\ v.asked = u.asked /\ v.sub = u.sub /\ v.kind = u.kind /\ v.pend = u.pend
      /\ v.cancelled = u.cancelled /\ v.dialogs = s
  BY DEF IsPage
<1> HIDE DEF v
<1>3. \A i : ~Bids(f, i)
  BY DEF Bids
<1>4. \A d \in v.dialogs : d \in u.dialogs \/ (f.t = "ui-request" /\ d.q = f.req[2] /\ d.sub = u.sub)
  BY <1>2, <1>s
<1>c. Remains(u, v, f)
  BY <1>2, <1>3, <1>4, <1>s DEF Remains
<1>5. Talk(v, y, inbox[c], A, T)
  BY <1>c, StaysTalk
<1> QED BY <1>1, <1>5, EmptyTalks

\* The page lets go of what it follows, and of what it asked.
LEMMA EndsTalk ==
  ASSUME NEW u, IsPage(u), u.live, NEW x, NEW y, NEW q, NEW A, NEW T, Talk(u, x, q, A, T),
         NEW v, IsPage(v), v.live = u.live, v.asked = u.asked, v.sub = 0, v.kind = "none", v.pend = << 0, 0 >>,
         v.cancelled = u.cancelled, v.dialogs = {}
  PROVE Talk(v, y, q, A, T) /\ Heeded(Leaving(u), v)
<1>1. PageOK(u) /\ T \subseteq 1 .. u.asked /\ Heeded(q, u) /\ u.asked \in Nat
  BY DEF Talk, IsPage
<1>2. ~Building(v)
  BY DEF Building
<1>3. Heeded(q, v)
  BY <1>1, <1>2, HeededOn
<1>4. Heeded(Leaving(u), v)
  BY <1>1, <1>2, HeededLeaving
<1>5. v.cancelled \subseteq 1 .. v.asked /\ (\A d \in v.dialogs : d.sub \in 0 .. v.asked)
  BY <1>1 DEF PageOK
<1>6. Talk(v, y, q, A, T)
  BY <1>1, <1>3, <1>5, QuietTalks
<1> QED BY <1>4, <1>6

LEMMA TerminatedTalk ==
  ASSUME NEW u, IsPage(u), u.live, NEW x, NEW y, NEW f, Read(x, y, f), f.t = "error", NEW q, NEW A, NEW T,
         Talk(u, x, q, A, T), NEW sub, NEW code, sub = u.sub \/ ~Bids(f, u.sub)
  PROVE Talk(Terminated(u, sub, code), y, q, A, T)
<1> DEFINE z == {}
           none == << 0, 0 >>
           p == IF code = 4409 THEN "resync-needed" ELSE "closed"
           w == [u EXCEPT !.sub = 0, !.pend = none, !.kind = "none", !.dialogs = z, !.phase = p]
           v == Terminated(u, sub, code)
<1>1. v = IF u.sub = 0 \/ u.sub # sub THEN u ELSE w
  BY DEF Terminated
<1>2. IsPage(v)
  BY PageSteps
<1> HIDE DEF p, z, none, v
<1>3. CASE u.sub = 0 \/ u.sub # sub
  <2>1. v = u
    BY <1>1, <1>3
  <2>2. u.sub # 0 => ~Bids(f, u.sub)
    BY <1>3
  <2>3. f.t # "ui-closed"
    OBVIOUS
  <2>4. Remains(u, u, f)
    BY <2>2, <2>3 DEF Remains
  <2>5. Talk(u, y, q, A, T)
    BY <2>4, StaysTalk
  <2> QED BY <2>1, <2>5 DEF v
<1>4. CASE ~(u.sub = 0 \/ u.sub # sub)
  <2>1. /\ v.live = u.live /\ v.asked = u.asked /\ v.sub = 0 /\ v.kind = "none" /\ v.pend = none
        /\ v.cancelled = u.cancelled /\ v.dialogs = z
    BY <1>1, <1>4 DEF IsPage
  <2>2. Talk(v, y, q, A, T)
    BY <1>2, <2>1, EndsTalk DEF z, none
  <2> QED BY <2>2 DEF v
<1> QED BY <1>3, <1>4

LEMMA ErrorTalk ==
  ASSUME NEW c, IsPage(ui[c]), ui[c].live, NEW x, NEW y, NEW f, Read(x, y, f), f.t = "error",
         g.conn[c].link, IsInbox(inbox[c]), NEW A, NEW T, Talk(ui[c], x, inbox[c], A, T), HandleError(c, f)
  PROVE TalksOn(c, y, A, T)
<1> DEFINE u == ui[c]
           e == << >>
           p == inbox[c]
           gone == Leaving(u)
           none == << 0, 0 >>
           z == {}
           answered == [u EXCEPT !.pend = none, !.kind = "none"]
           left == Dropped(answered)
           resume   == f.code = 4409 /\ u.kind \in {"page", "resync"} /\ u.cursor # NoCursor
           u1 == Terminated(u, f.sub, f.code)
           u2 == Terminated(u, u.sub, f.code)
           u3 == [answered EXCEPT !.phase = "resync-needed"]
           u4 == [left EXCEPT !.phase = "closed", !.dialogs = z]
<1>1. IF f.sub # 0 THEN Acts(c, u1, e)
      ELSE IF f.req = none THEN Acts(c, u2, e)
      ELSE IF f.req # u.pend THEN Acts(c, u, e)
      ELSE IF resume THEN Acts(c, u3, e)
      ELSE Acts(c, u4, gone)
  BY Zenon DEF HandleError
<1>u. IsPage(u) /\ u.live /\ Talk(u, x, p, A, T) /\ u = ui[c]
  OBVIOUS
<1> HIDE DEF resume, u
<1>b. /\ f.sub # 0 => f.sub = u.sub \/ ~Bids(f, u.sub)
      /\ f.req # none => ~Bids(f, u.sub)
  BY DEF Bids
<1>2. CASE f.sub # 0
  <2>1. Talk(u1, y, p, A, T)
    BY <1>b, <1>2, <1>u, TerminatedTalk
  <2> HIDE DEF u1, u2, u3, u4
  <2> QED BY <1>1, <1>2, <2>1, EmptyTalks
<1>3. CASE f.sub = 0 /\ f.req = none
  <2>1. Talk(u2, y, p, A, T)
    BY <1>u, TerminatedTalk
  <2> HIDE DEF u1, u2, u3, u4
  <2> QED BY <1>1, <1>3, <2>1, EmptyTalks
<1>4. CASE f.sub = 0 /\ f.req # none /\ f.req # u.pend
  <2>0. Remains(u, u, f)
    BY <1>4, <1>b DEF Remains
  <2>1. Talk(u, y, p, A, T)
    BY <2>0, <1>u, StaysTalk
  <2> HIDE DEF u1, u2, u3, u4
  <2> QED BY <1>1, <1>4, <2>1, EmptyTalks
<1>5. CASE f.sub = 0 /\ f.req # none /\ f.req = u.pend /\ resume
  <2>1. Acts(c, u3, e)
    <3> HIDE DEF u1, u2, u3, u4
    <3> QED BY <1>1, <1>5
  <2> HIDE DEF none
  <2>2. /\ u3.live = u.live /\ u3.asked = u.asked /\ u3.sub = u.sub /\ u3.kind = "none"
        /\ u3.pend = none /\ u3.cancelled = u.cancelled /\ u3.dialogs = u.dialogs
    BY <1>u DEF IsPage
  <2> HIDE DEF u3
  <2>0. Remains(u, u3, f)
    BY <1>5, <1>b, <2>2 DEF Remains, none
  <2>3. Talk(u3, y, p, A, T)
    BY <2>0, <1>u, StaysTalk
  <2> QED BY <2>1, <2>3, EmptyTalks
<1>6. CASE f.sub = 0 /\ f.req # none /\ f.req = u.pend /\ ~resume
  <2>1. Acts(c, u4, gone)
    <3> HIDE DEF u1, u2, u3, u4, gone, e
    <3> QED BY <1>1, <1>6
  <2> HIDE DEF none, z
  <2>2. /\ answered.live = u.live /\ answered.asked = u.asked /\ answered.kind = "none"
        /\ answered.pend = none /\ answered.cancelled = u.cancelled /\ IsPage(answered)
    BY <1>u DEF IsPage
  <2> HIDE DEF answered
  <2>3. /\ left.live = u.live /\ left.asked = u.asked /\ left.kind = "none" /\ left.sub = 0
        /\ left.pend = none /\ left.cancelled = u.cancelled /\ IsPage(left)
    BY <2>2 DEF IsPage, Dropped
  <2> HIDE DEF left
  <2>4. /\ u4.live = u.live /\ u4.asked = u.asked /\ u4.kind = "none" /\ u4.sub = 0
        /\ u4.pend = none /\ u4.cancelled = u.cancelled /\ u4.dialogs = z /\ IsPage(u4)
    BY <2>3 DEF IsPage
  <2> HIDE DEF u4
  <2>5. Talk(u4, y, p, A, T) /\ Heeded(gone, u4)
    BY <1>u, <2>4, EndsTalk DEF z, none
  <2>6. IsInbox(gone)
    BY MessagesTyped
  <2> HIDE DEF gone
  <2> QED BY <2>1, <2>5, <2>6, SentTalks
<1> QED BY <1>2, <1>3, <1>4, <1>5, <1>6

\* The first page of what was asked last: the page follows it now.
LEMMA StartsTalk ==
  ASSUME NEW u, IsPage(u), u.live, NEW x, NEW y, NEW f, Read(x, y, f), f.t = "snapshot", f.sub = u.asked,
         NEW q, NEW A, NEW T, Talk(u, x, q, A, T), Building(u),
         NEW v, v.live = u.live, v.asked = u.asked, v.sub = u.asked, v.cancelled = u.cancelled,
         v.dialogs = u.dialogs,
         (v.kind = "none" /\ v.pend = << 0, 0 >>) \/ (v.kind = "page" /\ v.pend[1] = u.asked)
  PROVE Talk(v, y, q, A, T)
<1>1. /\ PageOK(u) /\ T \subseteq 1 .. u.asked /\ Heeded(q, u) /\ u.asked \in Nat /\ Will(x, u.asked, A)
      /\ u.asked > 0 /\ u.asked \notin u.cancelled /\ \A d \in u.dialogs : d.sub # u.asked
  BY DEF Talk, IsPage, PageOK
<1>2. ~Building(v)
  BY DEF Building
<1>3. PageOK(v)
  <2>1. v.sub \in 0 .. v.asked /\ v.sub \notin v.cancelled /\ v.sub # 0
    BY <1>1
  <2>2. v.cancelled \subseteq 1 .. v.asked /\ \A d \in v.dialogs : d.sub \in 0 .. v.asked
    BY <1>1 DEF PageOK
  <2> QED BY <1>2, <2>1, <2>2 DEF PageOK
<1>4. Heeded(q, v)
  <2>1. ASSUME NEW m, MsgOK(m, u) PROVE MsgOK(m, v)
    BY <1>2, <2>1 DEF MsgOK
  <2> QED BY <1>1, <2>1 DEF Heeded
<1>5. Hears(y, v.sub, Shown(v), A)
  <2>1. Hears(y, u.asked, {}, A)
    BY <1>1, ReadWill
  <2>2. Shown(v) = {}
    BY <1>1 DEF Shown
  <2> QED BY <2>1, <2>2
<1> QED BY <1>1, <1>2, <1>3, <1>4, <1>5 DEF Talk

\* The next page, or the last, of what the page asked.
LEMMA ArrivesTalk ==
  ASSUME NEW u, IsPage(u), u.live, NEW x, NEW y, NEW f, Read(x, y, f), f.t = "snapshot",
         f.req[1] = f.sub, NEW q, NEW A, NEW T, f.sub \in T, Talk(u, x, q, A, T), f.req = u.pend,
         NEW v, v.live = u.live, v.asked = u.asked, v.sub = f.sub, v.cancelled = u.cancelled,
         v.dialogs = u.dialogs,
         (v.kind = "none" /\ v.pend = << 0, 0 >>) \/ (v.kind = "page" /\ v.pend[1] = f.sub)
  PROVE Talk(v, y, q, A, T)
<1>1. PageOK(u) /\ T \subseteq 1 .. u.asked /\ u.asked \in Nat
  BY DEF Talk, IsPage
<1>2. f.sub # 0 /\ u.pend[1] = f.sub
  BY <1>1
<1>3. CASE Building(u)
  <2> DEFINE r == << u.asked, 0 >>
  <2>1. u.pend = r /\ r[1] = u.asked
    BY <1>1, <1>3 DEF PageOK
  <2> HIDE DEF r
  <2>2. f.sub = u.asked
    BY <1>2, <2>1
  <2> QED BY <1>3, <2>2, StartsTalk
<1>4. CASE u.kind = "page"
  <2>1. u.sub = f.sub
    BY <1>1, <1>2, <1>4 DEF PageOK
  <2>2. \A i : ~Bids(f, i)
    BY DEF Bids
  <2>3. Remains(u, v, f)
    BY <1>2, <2>1, <2>2 DEF Remains
  <2> QED BY <2>3, StaysTalk
<1>5. u.kind # "none"
  <2> DEFINE r == << 0, 0 >>
  <2>1. r[1] = 0
    OBVIOUS
  <2>2. u.kind = "none" => u.pend = r
    BY <1>1 DEF PageOK
  <2> HIDE DEF r
  <2> QED BY <1>2, <2>1, <2>2
<1> QED BY <1>1, <1>3, <1>4, <1>5 DEF PageOK, Building

LEMMA SnapshotTalk ==
  ASSUME NEW c, IsPage(ui[c]), ui[c].live, NEW x, NEW y, NEW f, Read(x, y, f), f.t = "snapshot",
         f.req[1] = f.sub, NEW T, f.sub \in T, g.conn[c].link, IsInbox(inbox[c]), NEW A,
         Talk(ui[c], x, inbox[c], A, T), HandleSnapshot(c, f)
  PROVE TalksOn(c, y, A, T)
<1> DEFINE u == ui[c]
           p == inbox[c]
           e == << >>
           leave == << LeaveMessage(f.sub) >>
           next == f.from + Len(f.rows)
           n == << f.sub, next >>
           page == << Message("page", n, NoCursor, next, f.sub) >>
           none == << 0, 0 >>
           s == Absorb(u.shown, f)
           k1 == [stream |-> f.stream, seq |-> next]
           k2 == [stream |-> f.stream, seq |-> f.barrier + 1]
           base == [u EXCEPT !.sub = f.sub, !.stream = f.stream, !.barrier = f.barrier, !.shown = s]
           w == u.cancelled \ {f.req[1]}
           u1 == [u EXCEPT !.cancelled = w]
           u2 == [base EXCEPT !.phase = "paging", !.cursor = k1, !.pend = n, !.kind = "page"]
           u3 == [base EXCEPT !.phase = "live", !.cursor = k2, !.pend = none, !.kind = "none"]
           a == f.req[2] = 0 /\ f.req[1] \in u.cancelled
           b == f.req # u.pend \/ Foreign(u, f)
<1>1. IF a THEN Acts(c, u1, leave)
      ELSE IF b THEN Acts(c, u, e)
      ELSE IF f.more THEN Acts(c, u2, page) ELSE Acts(c, u3, e)
  BY Zenon DEF HandleSnapshot
<1>b. ~b => f.req = u.pend
  OBVIOUS
<1>a. a => f.sub \in u.cancelled
  OBVIOUS
<1>n. n[1] = f.sub
  OBVIOUS
<1>w. w \subseteq u.cancelled
  OBVIOUS
<1>u. IsPage(u) /\ u.live /\ Talk(u, x, p, A, T) /\ u = ui[c]
  OBVIOUS
<1> HIDE DEF a, b, u, s, k1, k2, n, none, w
<1>2. \A i : ~Bids(f, i)
  BY DEF Bids
<1>3. CASE a
  <2>1. /\ u1.live = u.live /\ u1.asked = u.asked /\ u1.sub = u.sub /\ u1.kind = u.kind
        /\ u1.pend = u.pend /\ u1.cancelled = w /\ u1.dialogs = u.dialogs
    BY <1>u DEF IsPage
  <2>2. Acts(c, u1, leave)
    <3> HIDE DEF u1, u2, u3, leave, page, e
    <3> QED BY <1>1, <1>3
  <2> HIDE DEF u1
  <2>3. Remains(u, u1, f)
    BY <2>1, <1>2, <1>w DEF Remains
  <2>4. Talk(u1, y, p, A, T)
    BY <2>3, <1>u, StaysTalk
  <2>5. f.sub \in 1 .. u.asked /\ f.sub # u.sub /\ (Building(u) => f.sub # u.asked)
    BY <1>a, <1>3, <1>u DEF Talk, PageOK
  <2> DEFINE m == LeaveMessage(f.sub)
  <2>6. m.t = "unsubscribe" /\ m.sub = f.sub
    BY DEF LeaveMessage, Message
  <2> HIDE DEF m
  <2>7. MsgOK(m, u1)
    BY <2>1, <2>5, <2>6 DEF MsgOK, Building
  <2>8. Heeded(leave, u1)
    BY <2>7, HeededOne DEF m
  <2>9. IsInbox(leave)
    BY MessagesTyped
  <2> HIDE DEF leave
  <2> QED BY <2>2, <2>4, <2>8, <2>9, SentTalks
<1>4. CASE ~a /\ b
  <2>1. Acts(c, u, e)
    <3> HIDE DEF u1, u2, u3, leave, page, e
    <3> QED BY <1>1, <1>4
  <2>2. Remains(u, u, f)
    BY <1>2 DEF Remains
  <2>3. Talk(u, y, p, A, T)
    BY <2>2, <1>u, StaysTalk
  <2> QED BY <2>1, <2>3, EmptyTalks
<1>5. ~b => Talk(u2, y, p, A, T) /\ Talk(u3, y, p, A, T)
  <2> SUFFICES ASSUME ~b PROVE Talk(u2, y, p, A, T) /\ Talk(u3, y, p, A, T)
    OBVIOUS
  <2>1. /\ base.live = u.live /\ base.asked = u.asked /\ base.sub = f.sub
        /\ base.cancelled = u.cancelled /\ base.dialogs = u.dialogs /\ IsPage(base)
    BY <1>u DEF IsPage
  <2> HIDE DEF base
  <2>2. /\ u2.live = u.live /\ u2.asked = u.asked /\ u2.sub = f.sub /\ u2.kind = "page"
        /\ u2.pend = n /\ u2.cancelled = u.cancelled /\ u2.dialogs = u.dialogs
    BY <2>1 DEF IsPage
  <2>3. /\ u3.live = u.live /\ u3.asked = u.asked /\ u3.sub = f.sub /\ u3.kind = "none"
        /\ u3.pend = none /\ u3.cancelled = u.cancelled /\ u3.dialogs = u.dialogs
    BY <2>1 DEF IsPage
  <2> HIDE DEF u2, u3
  <2>4. Talk(u2, y, p, A, T)
    BY <1>b, <1>n, <1>u, <2>2, ArrivesTalk
  <2>5. Talk(u3, y, p, A, T)
    BY <1>b, <1>u, <2>3, ArrivesTalk DEF none
  <2> QED BY <2>4, <2>5
<1>6. CASE ~a /\ ~b /\ f.more
  <2>1. Acts(c, u2, page)
    <3> HIDE DEF u1, u2, u3, leave, page, e
    <3> QED BY <1>1, <1>6
  <2> DEFINE m == Message("page", n, NoCursor, next, f.sub)
  <2>2. m.t \notin {"subscribe", "unsubscribe"}
    BY DEF Message
  <2> HIDE DEF u2
  <2>3. Heeded(page, u2)
    <3> HIDE DEF m
    <3>1. Heeded(<< m >>, u2)
      BY <2>2, HeededOther
    <3> QED BY <3>1 DEF m
  <2>4. IsInbox(page)
    BY MessagesTyped DEF n
  <2> HIDE DEF page
  <2> QED BY <1>5, <1>6, <2>1, <2>3, <2>4, SentTalks
<1>7. CASE ~a /\ ~b /\ ~f.more
  <2>1. Acts(c, u3, e)
    <3> HIDE DEF u1, u2, u3, leave, page, e
    <3> QED BY <1>1, <1>7
  <2> HIDE DEF u3
  <2> QED BY <1>5, <1>7, <2>1, EmptyTalks
<1> QED BY <1>3, <1>4, <1>6, <1>7

LEMMA PageTalks ==
  ASSUME TalkInv, NEW c \in Conns, PageReceives(c) PROVE TalkInv'
<1>1. PICK M : Numbered(g, M) /\ Talks(M)
  BY DEF TalkInv
<1> DEFINE u == ui[c]
           p == inbox[c]
           x == g.conn[c]
           y == g'.conn[c]
           f == Head(x.wire)
           T == M[c]
           A == Ans(g)
<1>2. /\ ReadInv /\ ReadInv' /\ HeardBut(c) /\ Ans(g') = A /\ Numbered(g', M)
      /\ Read(x, y, f) /\ IsFrame(f)
  BY <1>1, PageKept DEF TalkInv, Read
<1>3. IsPage(u) /\ IsInbox(p) /\ Within(x, T) /\ IsConn(x)
  BY <1>1, <1>2, WatchingSlot DEF ReadInv, Pages, Inboxes, Numbered, IsGateway
<1>4. c \in Clients => Talk(u, x, p, A, T)
  BY <1>1 DEF Talks
<1>5. f.t = "snapshot" => f.req[1] = f.sub /\ f.sub \in T
  <2>1. 1 \in DOMAIN Line(x) /\ Line(x)[1] = f
    BY <1>2 DEF Read, Shorter
  <2> HIDE DEF x, f
  <2> QED BY <1>3, <2>1 DEF Within
<1>6. IF ~u.live THEN Acts(c, u, << >>)
      ELSE \/ f.t = "snapshot" /\ HandleSnapshot(c, f)
           \/ f.t = "events" /\ HandleEvents(c, f)
           \/ f.t = "error" /\ HandleError(c, f)
           \/ f.t = "ui-request" /\ ShowDialog(c, f)
           \/ f.t = "ui-closed" /\ HideDialog(c, f)
           \/ f.t = "close" /\ Acts(c, Lost(u), << >>)
  BY <1>2, PageRuns
<1>e. Reacts(c)
  <2>1. IsPage(ui[c])
    BY <1>3
  <2>2. IF ~ui[c].live THEN Acts(c, ui[c], << >>)
        ELSE \/ f.t = "snapshot" /\ HandleSnapshot(c, f)
             \/ f.t = "events" /\ HandleEvents(c, f)
             \/ f.t = "error" /\ HandleError(c, f)
             \/ f.t = "ui-request" /\ ShowDialog(c, f)
             \/ f.t = "ui-closed" /\ HideDialog(c, f)
             \/ f.t = "close" /\ Acts(c, Lost(ui[c]), << >>)
    BY <1>6
  <2> HIDE DEF f
  <2> QED BY <2>1, <2>2, PageActs, Zenon
<1>7. c \in Clients => TalksOn(c, y, A, T)
  <2> SUFFICES ASSUME c \in Clients PROVE TalksOn(c, y, A, T)
    OBVIOUS
  <2>1. Talk(u, x, p, A, T)
    BY <1>4
  <2>2. u.live => x.link
    BY <1>3, <2>1, LiveLinked
  <2>3. CASE ~u.live
    <3>1. Talk(u, y, p, A, T) /\ Acts(c, u, << >>)
      BY <1>6, <2>3 DEF Talk
    <3> QED BY <1>3, <3>1, EmptyTalks
  <2>4. CASE u.live
    <3> HIDE DEF y, f, T, A
    <3>1. CASE f.t = "snapshot" /\ HandleSnapshot(c, f)
      BY <1>2, <1>3, <1>5, <2>1, <2>2, <2>4, <3>1, SnapshotTalk
    <3>2. CASE f.t = "events" /\ HandleEvents(c, f)
      BY <1>2, <1>3, <2>1, <2>4, <3>2, EventsTalk
    <3>3. CASE f.t = "error" /\ HandleError(c, f)
      BY <1>2, <1>3, <2>1, <2>2, <2>4, <3>3, ErrorTalk
    <3>4. CASE f.t = "ui-request" /\ ShowDialog(c, f)
      BY <1>2, <1>3, <2>1, <2>4, <3>4, ShowTalk
    <3>5. CASE f.t = "ui-closed" /\ HideDialog(c, f)
      BY <1>2, <1>3, <2>1, <2>4, <3>5, HideTalk
    <3>6. CASE f.t = "close" /\ Acts(c, Lost(u), << >>)
      <4> DEFINE v == Lost(u)
      <4>1. ~v.live
        BY <1>3 DEF Lost, IsPage
      <4>2. Acts(c, v, << >>)
        BY <3>6
      <4> HIDE DEF v
      <4>3. Talk(v, y, p, A, T)
        BY <4>1 DEF Talk
      <4> QED BY <1>3, <4>2, <4>3, EmptyTalks
    <3> QED BY <1>6, <2>4, <3>1, <3>2, <3>3, <3>4, <3>5, <3>6
  <2> QED BY <2>3, <2>4
<1>8. \E a, q : Acts(c, a, q) /\ (c \in Clients => Talk(a, y, p \o (IF x.link THEN q ELSE << >>), A, T))
  <2>1. CASE c \in Clients
    BY <1>7, <2>1 DEF TalksOn
  <2>2. CASE c \notin Clients
    <3>1. PICK a, q : Acts(c, a, q)
      BY <1>e DEF Reacts
    <3> QED BY <2>2, <3>1
  <2> QED BY <2>1, <2>2
<1>9. PICK a, q : Acts(c, a, q) /\ (c \in Clients => Talk(a, y, p \o (IF x.link THEN q ELSE << >>), A, T))
  BY <1>8
<1> DEFINE r == p \o (IF x.link THEN q ELSE << >>)
<1>10. Puts(c, a, r)
  BY <1>2, <1>9, ActsPuts
<1>11. c \in Clients => Talk(a, g'.conn[c], r, Ans(g'), M[c])
  BY <1>2, <1>9
<1> HIDE DEF r
<1> QED BY <1>1, <1>2, <1>10, <1>11, OneTalks

LEMMA NextTalks == TalkInv /\ [Next]_vars => TalkInv'
<1> SUFFICES ASSUME TalkInv, [Next]_vars PROVE TalkInv'
  OBVIOUS
<1>r. ReadInv /\ ReadInv'
  BY NextReads DEF TalkInv
<1>1. CASE UNCHANGED vars
  <2>1. Alone
    BY <1>1, TellsSelf DEF vars, Alone
  <2> QED BY <1>r, <2>1, AloneTalks
<1>2. CASE Edit
  BY <1>2, <1>r, EditKept, AloneTalks
<1>3. CASE Process
  BY <1>3, <1>r, ProcessKept, AloneTalks
<1>4. CASE Server
  BY <1>4, <1>r, ServerKept, AloneTalks
<1>5. ASSUME NEW c \in Conns, User(c) PROVE TalkInv'
  BY <1>5, UserTalks
<1>6. ASSUME NEW c \in Conns, Network(c) PROVE TalkInv'
  BY <1>6, CutTalks, ClosedTalks DEF Network
<1>7. ASSUME NEW c \in Conns, Traffic(c) PROVE TalkInv'
  BY <1>7, DrainTalks, ReceiveTalks, PageTalks DEF Traffic
<1> QED BY <1>1, <1>2, <1>3, <1>4, <1>5, <1>6, <1>7 DEF Next

LEMMA TalkInvDialogs == TalkInv => NoDeadDialog
<1> SUFFICES ASSUME TalkInv, NEW c \in Clients, NEW d \in ui[c].dialogs, ui[c].live, ui[c].sub # 0,
                    d.sub = ui[c].sub
             PROVE \/ d.q \in g.ask.gate
                   \/ \E w \in g.ask.writes : w.q = d.q /\ w.by = "page"
                   \/ Goes(c, d)
  BY DEF NoDeadDialog
<1> DEFINE z == Line(g.conn[c])
           s == ui[c].sub
           A == Ans(g)
<1>1. PICK M : Talks(M)
  BY DEF TalkInv
<1>2. Hears(g.conn[c], s, Shown(ui[c]), A)
  BY <1>1 DEF Talks, Talk
<1>3. d.q \in Shown(ui[c])
  BY DEF Shown
<1>4. \A j \in DOMAIN z : z[j] \in ToSet(Coming(c))
  BY DEF ToSet, Coming, Line
<1>5. Parted(z, 0, s) \/ Settled(z, 0, d.q, A)
  BY <1>2, <1>3 DEF Hears, Fine
<1> HIDE DEF z
<1>6. CASE Parted(z, 0, s)
  <2>1. PICK j \in DOMAIN z : Bids(z[j], s)
    BY <1>6 DEF Parted
  <2> QED BY <2>1, <1>4 DEF Bids, Goes
<1>7. CASE Hidden(z, 0, d.q)
  <2>1. PICK j \in DOMAIN z : z[j].t = "ui-closed" /\ z[j].req = AskId(d.q)
    BY <1>7 DEF Hidden
  <2> QED BY <2>1, <1>4 DEF Goes
<1>8. CASE d.q \in A
  BY <1>8 DEF Ans
<1> QED BY <1>5, <1>6, <1>7, <1>8 DEF Settled

(* A dialog that a page shows for its subscription can be answered, or is about
   to go: the frames on the line, the questions the gateway keeps open and what
   the page shows agree, whatever subscriptions, cancellations, cuts, overflows
   and deaths of the process come between (broadcastUiRequest, broadcastUiClosed
   and cancelBySubscription with handleMessage of the page). *)
THEOREM DialogsHold == Spec => []DialogsAgree
<1>1. Init => TalkInv
  BY InitTalks
<1>2. TalkInv /\ [Next]_vars => TalkInv'
  BY NextTalks
<1>3. TalkInv => DialogsAgree
  BY TalkInvDialogs, ReadInvBooks DEF TalkInv, DialogsAgree
<1> QED BY <1>1, <1>2, <1>3, PTL DEF Spec
================================================================================
