------------------------- MODULE HistoryGatewayProofs --------------------------
(***************************************************************************)
(* What the gateway of HistoryGateway does, for ReadPathProofs.            *)
(*                                                                         *)
(* Handlers take the server's record to the next one, and so do the lemmas: *)
(* each says what one operator leaves of the record.  A connection only    *)
(* fades (Fades): it closes, or its subscription ends, but it never follows *)
(* what it did not follow.  When the last reference goes, the observation of *)
(* the file and the open questions go with it (Loses), and a server that   *)
(* moved so (Moves) stays Sound: the slot has the loads it says it has, who *)
(* is referred to is who follows, and the index holds what the slot has    *)
(* published.  Watching adds what holds of the scan in flight.             *)
(*                                                                         *)
(* A handler that goes over a set or a sequence is a fold: an instance of  *)
(* FoldRules names the step and what each step keeps.                      *)
(***************************************************************************)
EXTENDS HistoryGateway, FiniteSetTheorems, SequenceTheorems, TLAPS

-------------------------------------------------------------------------------
(* What the folds are founded on *)

LEMMA MinimalSet ==
  ASSUME NEW S, IsFiniteSet(S), NEW N, N \subseteq SUBSET S, N # {}
  PROVE \E T \in N : \A U \in N : U \subseteq T => U = T
<1>1. IsWellFoundedOn(StrictSubsetOrdering(S), FiniteSubsetsOf(S))
  BY FS_StrictSubsetOrderingWellFounded
<1>2. FiniteSubsetsOf(S) = SUBSET S
  BY FS_FiniteSubsetsOfFinite
<1>3. N \subseteq FiniteSubsetsOf(S)
  BY <1>2
<1>4. PICK T \in N : \A U \in N : ~(<< U, T >> \in StrictSubsetOrdering(S))
  BY <1>1, <1>3, WFMin
<1>5. ASSUME NEW U \in N, U \subseteq T, U # T PROVE FALSE
  <2>1. << U, T >> \in (SUBSET S) \X (SUBSET S)
    OBVIOUS
  <2>2. << U, T >> \in StrictSubsetOrdering(S)
    BY <2>1, <1>5 DEF StrictSubsetOrdering
  <2> QED BY <2>2, <1>4
<1> QED
  BY <1>5

LEMMA SubsetsFounded ==
  ASSUME NEW S, IsFiniteSet(S)
  PROVE \A fam \in SUBSET SUBSET S : fam # {} => \E low \in fam : \A any \in fam : any \subseteq low => any = low
BY MinimalSet

LEMMA IntervalFounded ==
  \A n \in Nat :
    \A fam \in SUBSET SUBSET (1 .. n) : fam # {} => \E low \in fam : \A any \in fam : any \subseteq low => any = low
<1> TAKE n \in Nat
<1> DEFINE S == 1 .. n
<1>1. IsFiniteSet(S)
  BY FS_Interval
<1> HIDE DEF S
<1>2. \A fam \in SUBSET SUBSET S : fam # {} => \E low \in fam : \A any \in fam : any \subseteq low => any = low
  BY <1>1, SubsetsFounded
<1> QED BY <1>2 DEF S

-------------------------------------------------------------------------------
\* Types of the records.
Writers == {"page", "host", "overflow"}
Writes == [q : Nat, to : Nat, by : Writers]
Lines == [q : Nat, to : Nat]
AskBooks == [gen : Seq(Nat), now : Nat, phase : {"idle", "running", "stopping"}, pending : SUBSET Nat,
         gate : SUBSET Nat, writes : SUBSET Writes, lines : Seq(Lines), failed : SUBSET Nat]

\* A question that is open is of the running process, and known to the gateway.
OpenAsked(u) ==
  /\ u.pending \subseteq u.gate
  /\ u.gate \subseteq DOMAIN u.gen
  /\ \A q \in u.pending : u.gen[q] = u.now /\ u.phase # "idle"
AskAges(u) == \A q \in DOMAIN u.gen : u.gen[q] <= u.now
\* A question is open, or being answered once, or answered once.
WritesOnce(u) ==
  /\ \A w \in u.writes : w.q \in DOMAIN u.gen /\ w.to = u.gen[w.q] /\ w.q \notin u.pending
  /\ \A v, w \in u.writes : v.q = w.q => v = w
LinesOnce(u) ==
  /\ \A i \in DOMAIN u.lines :
       /\ u.lines[i].q \in DOMAIN u.gen
       /\ u.lines[i].to = u.gen[u.lines[i].q]
       /\ u.lines[i].q \notin u.pending
       /\ \A w \in u.writes : w.q # u.lines[i].q
  /\ \A i, j \in DOMAIN u.lines : u.lines[i].q = u.lines[j].q => i = j
Known(u, q) ==
  \/ q \in u.pending \cup u.failed
  \/ \E w \in u.writes : w.q = q
  \/ \E i \in DOMAIN u.lines : u.lines[i].q = q
Remembers(u) == u.phase = "running" => \A q \in DOMAIN u.gen : u.gen[q] = u.now => Known(u, q)
AskOK(u) ==
  u \in AskBooks /\ OpenAsked(u) /\ AskAges(u) /\ WritesOnce(u) /\ LinesOnce(u) /\ Remembers(u)

-------------------------------------------------------------------------------
(* Giving up the open questions *)

\* What CancelAsking() makes of the questions of T.
HostWrites(u, T) ==
  {w \in [q : T \cap u.pending, to : {u.now}, by : {"host"}] : Writable(u, w.q)}
CancelOf(u, T) ==
  [u EXCEPT !.gate = {}, !.pending = @ \ T, !.writes = @ \cup HostWrites(u, T)]
GivenUp(u) == CancelOf(u, u.gate)

Cancelled(u, T, acc) == acc = CancelOf(u, T)
Cancels == INSTANCE FoldRules WITH
  op <- LAMBDA ctx, q, acc : AnswerUi(acc, q, "host"),
  P <- LAMBDA u, ctx, T, acc : Cancelled(u, T, acc)

LEMMA CancelStep ==
  ASSUME NEW u \in AskBooks, NEW T, NEW x, x \notin T
  PROVE AnswerUi(CancelOf(u, T), x, "host") = CancelOf(u, T \cup {x})
<1> DEFINE v == CancelOf(u, T)
           w == [q |-> x, to |-> u.now, by |-> "host"]
<1>1. v.pending = u.pending \ T /\ v.phase = u.phase /\ v.gen = u.gen /\ v.now = u.now
  BY DEF CancelOf, AskBooks
<1>2. CASE x \notin u.pending
  <2>1. HostWrites(u, T \cup {x}) = HostWrites(u, T)
    <3>1. (T \cup {x}) \cap u.pending = T \cap u.pending
      BY <1>2
    <3> QED BY <3>1 DEF HostWrites
  <2>2. u.pending \ (T \cup {x}) = u.pending \ T
    BY <1>2
  <2>3. AnswerUi(v, x, "host") = v
    <3> HIDE DEF v
    <3> QED BY <1>1, <1>2 DEF AnswerUi
  <2> QED BY <2>1, <2>2, <2>3 DEF CancelOf
<1>3. CASE x \in u.pending
  <2> DEFINE t == [v EXCEPT !.pending = @ \ {x}]
  <2>0. v \in [gen : Seq(Nat), now : Nat, phase : {"idle", "running", "stopping"}, pending : SUBSET Nat,
                gate : SUBSET Nat, writes : {v.writes}, lines : Seq(Lines), failed : SUBSET Nat]
    BY DEF CancelOf, AskBooks
  <2>1. AnswerUi(v, x, "host") = StartWrite(t, x, "host")
    <3> HIDE DEF v
    <3> QED BY <1>1, <1>3 DEF AnswerUi
  <2>2. t.phase = u.phase /\ t.gen = u.gen /\ t.now = u.now
    <3> HIDE DEF v
    <3> QED BY <1>1, <2>0
  <2>3. Writable(t, x) = Writable(u, x)
    <3> HIDE DEF t
    <3> QED BY <2>2 DEF Writable
  <2>4. t = [u EXCEPT !.gate = {}, !.pending = @ \ (T \cup {x}), !.writes = @ \cup HostWrites(u, T)]
    <3>1. (u.pending \ T) \ {x} = u.pending \ (T \cup {x})
      OBVIOUS
    <3> QED BY <3>1 DEF CancelOf, AskBooks
  <2>5. CASE Writable(u, x)
    <3>1. HostWrites(u, T \cup {x}) = HostWrites(u, T) \cup {w}
      <4>1. HostWrites(u, T \cup {x}) \subseteq HostWrites(u, T) \cup {w}
        BY <1>3, <2>5 DEF HostWrites
      <4>2. HostWrites(u, T) \subseteq HostWrites(u, T \cup {x})
        BY DEF HostWrites
      <4>3. w \in HostWrites(u, T \cup {x})
        BY <1>3, <2>5 DEF HostWrites
      <4> QED BY <4>1, <4>2, <4>3
    <3>2. StartWrite(t, x, "host") = [t EXCEPT !.writes = @ \cup {w}]
      <4> HIDE DEF t
      <4> QED BY <2>2, <2>3, <2>5 DEF StartWrite
    <3> HIDE DEF w
    <3>3. [t EXCEPT !.writes = @ \cup {w}] = CancelOf(u, T \cup {x})
      BY <2>4, <3>1 DEF CancelOf, AskBooks
    <3> QED BY <2>1, <3>2, <3>3
  <2>6. CASE ~Writable(u, x)
    <3>1. HostWrites(u, T \cup {x}) = HostWrites(u, T)
      BY <2>6 DEF HostWrites
    <3>2. StartWrite(t, x, "host") = t
      <4> HIDE DEF t
      <4> QED BY <2>3, <2>6 DEF StartWrite
    <3> QED BY <2>1, <3>1, <3>2, <2>4 DEF CancelOf
  <2> QED BY <2>5, <2>6
<1> QED BY <1>2, <1>3

LEMMA GiveUpIsFold ==
  ASSUME NEW h, h.ask \in AskBooks, IsFiniteSet(h.ask.gate)
  PROVE CancelAsking(h) = [h EXCEPT !.ask = GivenUp(h.ask)]
<1> DEFINE u == h.ask
           base == [u EXCEPT !.gate = {}]
           FF == FoldSet(LAMBDA q, acc : AnswerUi(acc, q, "host"), base, u.gate)
<1>1. CancelAsking(h) = [h EXCEPT !.ask = FF]
  BY DEF CancelAsking
<1>2. FF = Cancels!Over(u, base, u.gate)
  BY DEF Cancels!Over, Cancels!Some, FoldSet, MapThenFoldSet
<1>3. base = CancelOf(u, {})
  <2>1. HostWrites(u, {}) = {}
    BY DEF HostWrites
  <2> QED BY <2>1 DEF CancelOf, AskBooks
<1>4. \A T \in SUBSET u.gate : \A x \in u.gate \ T : \A acc :
        Cancelled(u, T, acc) => Cancelled(u, T \cup {x}, AnswerUi(acc, x, "host"))
  BY CancelStep DEF Cancelled
<1>5. \A fam \in SUBSET SUBSET u.gate : fam # {} => \E low \in fam : \A any \in fam : any \subseteq low => any = low
  BY SubsetsFounded
<1> HIDE DEF u, base, FF
<1>7. Cancelled(u, {}, base)
  BY <1>3 DEF Cancelled
<1>6. Cancelled(u, u.gate, Cancels!Over(u, base, u.gate))
  BY <1>7, <1>4, <1>5, Cancels!FoldSetRule
<1> QED
  BY <1>1, <1>2, <1>6 DEF GivenUp, u, Cancelled

LEMMA GivenUpFields ==
  ASSUME NEW u \in AskBooks, OpenAsked(u)
  PROVE /\ GivenUp(u).gen = u.gen /\ GivenUp(u).now = u.now /\ GivenUp(u).phase = u.phase
        /\ GivenUp(u).pending = {} /\ GivenUp(u).gate = {}
        /\ GivenUp(u).writes = u.writes \cup HostWrites(u, u.gate)
        /\ GivenUp(u).lines = u.lines /\ GivenUp(u).failed = u.failed
        /\ GivenUp(u) \in AskBooks
<1>1. HostWrites(u, u.gate) \subseteq Writes
  BY DEF HostWrites, AskBooks, Writes, Writers
<1>2. u.pending \ u.gate = {}
  BY DEF OpenAsked
<1> QED
  BY <1>1, <1>2 DEF GivenUp, CancelOf, AskBooks

LEMMA GivenUpOK ==
  ASSUME NEW u, AskOK(u)
  PROVE AskOK(GivenUp(u))
<1> DEFINE v == GivenUp(u)
           H == HostWrites(u, u.gate)
<1>0. u \in AskBooks /\ OpenAsked(u) /\ AskAges(u) /\ WritesOnce(u) /\ LinesOnce(u) /\ Remembers(u)
  BY DEF AskOK
<1>1. /\ v.gen = u.gen /\ v.now = u.now /\ v.phase = u.phase /\ v.pending = {} /\ v.gate = {}
      /\ v.writes = u.writes \cup H /\ v.lines = u.lines /\ v.failed = u.failed /\ v \in AskBooks
  BY <1>0, GivenUpFields
<1>2. \A w \in H : w.q \in u.pending /\ w.to = u.now /\ w.by = "host" /\ w = [q |-> w.q, to |-> u.now, by |-> "host"]
  BY DEF HostWrites
<1>3. u.phase = "running" => \A q \in u.pending : [q |-> q, to |-> u.now, by |-> "host"] \in H
  <2> SUFFICES ASSUME u.phase = "running", NEW q \in u.pending
               PROVE [q |-> q, to |-> u.now, by |-> "host"] \in H
    OBVIOUS
  <2>1. q \in u.gate \cap u.pending /\ Writable(u, q)
    BY <1>0 DEF OpenAsked, Writable
  <2> QED BY <2>1 DEF HostWrites
<1> HIDE DEF v, H
<1>4. OpenAsked(v)
  BY <1>1 DEF OpenAsked
<1>5. AskAges(v)
  BY <1>0, <1>1 DEF AskAges
<1>6. WritesOnce(v)
  <2>1. \A w \in H : w.q \in DOMAIN u.gen /\ w.to = u.gen[w.q]
    BY <1>0, <1>2 DEF OpenAsked
  <2>2. \A x, w \in v.writes : x.q = w.q => x = w
    <3>1. ASSUME NEW x \in v.writes, NEW w \in v.writes, x.q = w.q PROVE x = w
      <4>1. CASE x \in u.writes /\ w \in u.writes
        BY <4>1, <3>1, <1>0 DEF WritesOnce
      <4>2. CASE x \in H /\ w \in H
        BY <4>2, <3>1, <1>2
      <4>3. CASE x \in u.writes /\ w \in H
        BY <4>3, <3>1, <1>2, <1>0 DEF WritesOnce
      <4>4. CASE x \in H /\ w \in u.writes
        BY <4>4, <3>1, <1>2, <1>0 DEF WritesOnce
      <4> QED BY <4>1, <4>2, <4>3, <4>4, <1>1
    <3> QED BY <3>1
  <2>3. \A w \in v.writes : w.q \in DOMAIN v.gen /\ w.to = v.gen[w.q] /\ w.q \notin v.pending
    BY <2>1, <1>0, <1>1 DEF WritesOnce
  <2> QED BY <2>2, <2>3 DEF WritesOnce
<1>7. LinesOnce(v)
  <2>1. \A i \in DOMAIN u.lines : \A w \in H : w.q # u.lines[i].q
    BY <1>0, <1>2 DEF LinesOnce
  <2> QED BY <2>1, <1>0, <1>1 DEF LinesOnce
<1>8. Remembers(v)
  <2> SUFFICES ASSUME v.phase = "running", NEW q \in DOMAIN v.gen, v.gen[q] = v.now PROVE Known(v, q)
    BY DEF Remembers
  <2>1. Known(u, q)
    BY <1>0, <1>1 DEF Remembers
  <2>2. q \in u.pending => \E w \in H : w.q = q
    BY <1>3, <1>1
  <2> QED BY <2>1, <2>2, <1>1 DEF Known
<1> QED
  BY <1>1, <1>4, <1>5, <1>6, <1>7, <1>8 DEF AskOK, v

-------------------------------------------------------------------------------
(* The server's state *)

IsSeq(q) == \E S : q \in Seq(S)
FrameKinds == {"snapshot", "events", "error", "ui-request", "ui-closed", "close"}
IsFrame(f) == f.t \in FrameKinds
Framed(q) == IsSeq(q) /\ \A i \in DOMAIN q : IsFrame(q[i])

IsTicket(k) ==
  /\ DOMAIN k = {"by", "req", "cursor", "released"}
  /\ k.by \in Conns /\ k.req[1] # 0 /\ k.released \in BOOLEAN
Ticketed(q) == IsSeq(q) /\ \A i \in DOMAIN q : IsTicket(q[i])
Reads == [rows : Seq(Nat), ino : Nat, there : BOOLEAN, done : BOOLEAN]
IsSlot(s) ==
  /\ DOMAIN s = {"active", "bound", "rows", "ino", "watch", "news", "scan", "got", "dirty",
                 "early", "awaiting", "carry", "tickets"}
  /\ s.active \in BOOLEAN /\ s.bound \in BOOLEAN /\ s.rows \in Seq(Nat)
  /\ s.news \in BOOLEAN /\ s.dirty \in BOOLEAN /\ s.early \in BOOLEAN
  /\ s.scan \in {"none", "first", "again"} /\ s.got \in Reads
  /\ s.awaiting \in Nat /\ s.carry \in Nat /\ Ticketed(s.tickets)

IsEngine(e) ==
  /\ DOMAIN e = {"sub", "stream", "phase", "barrier", "next", "buffered", "outbox"}
  /\ IsSeq(e.buffered) /\ IsSeq(e.outbox)
  /\ e.phase # "none" => e.sub # 0
IsConn(x) ==
  /\ DOMAIN x = {"open", "link", "eng", "queue", "wire", "strikes"}
  /\ x.open \in BOOLEAN /\ x.link \in BOOLEAN /\ IsEngine(x.eng)
  /\ Framed(x.queue) /\ Framed(x.wire)
Follows(x) == x.eng.phase # "none"

IsGateway(h) ==
  /\ DOMAIN h = {"slot", "log", "cur", "spent", "refs", "bound", "pump", "ask", "conn"}
  /\ IsSlot(h.slot)
  /\ h.log \in Seq(Seq(Nat)) /\ h.cur \in 0 .. Len(h.log)
  /\ h.spent \in BOOLEAN /\ h.bound \in BOOLEAN /\ h.pump \in BOOLEAN
  /\ h.refs \subseteq Conns /\ IsFiniteSet(h.refs)
  /\ AskOK(h.ask) /\ (h.ask.gate # {} => h.refs # {})
  /\ DOMAIN h.conn = Conns
  /\ \A c \in Conns : IsConn(h.conn[c])

\* The observation once nobody follows the file.
Unwatched(h, k) ==
  /\ k.bound = FALSE
  /\ k.slot = (IF h.bound THEN Unbind(h.slot) ELSE h.slot)
  /\ k.ask = GivenUp(h.ask)
Watched(h, k) == k.bound = h.bound /\ k.slot = h.slot /\ k.ask = h.ask
\* References are only given up, and the last one ends the observation.
Loses(h, k) ==
  /\ k.refs \subseteq h.refs
  /\ IF h.refs # {} /\ k.refs = {} THEN Unwatched(h, k) ELSE Watched(h, k)
SameIndex(h, k) == k.log = h.log /\ k.cur = h.cur /\ k.spent = h.spent

\* Connection c became x; if it follows no longer, its reference went with it.
Became(h, k, c, x) ==
  /\ IsGateway(k)
  /\ SameIndex(h, k)
  /\ \A d \in Conns \ {c} : k.conn[d] = h.conn[d]
  /\ k.conn[c] = x
  /\ Loses(h, k)
  /\ k.refs = IF Follows(h.conn[c]) /\ ~Follows(x) THEN h.refs \ {c} ELSE h.refs

\* What a connection may become while nobody subscribes.
Fades(x, y) ==
  /\ y.link = x.link
  /\ y.open => x.open
  /\ Follows(y) => /\ Follows(x)
                   /\ y.eng.stream = x.eng.stream /\ y.eng.sub = x.eng.sub
                   /\ (x.open => y.open)

LEMMA EmptyIsSeq == IsSeq(<< >>) /\ Framed(<< >>) /\ Ticketed(<< >>)
BY DEF IsSeq, Framed, Ticketed

LEMMA CloseEntrySlots ==
  ASSUME NEW s, IsSlot(s)
  PROVE /\ IsSlot(CloseEntry(s))
        /\ CloseEntry(s).active = FALSE /\ CloseEntry(s).bound = FALSE
        /\ CloseEntry(s).awaiting = s.awaiting /\ CloseEntry(s).carry = s.carry
        /\ CloseEntry(s).scan = s.scan /\ CloseEntry(s).got = s.got
        /\ CloseEntry(s).tickets = s.tickets
<1> DEFINE e == << >>
           t == [s EXCEPT !.active = FALSE, !.bound = FALSE, !.rows = e, !.ino = 0,
                          !.watch = 0, !.news = FALSE]
<1>1. e \in Seq(Nat)
  OBVIOUS
<1>2. CloseEntry(s) = t
  BY DEF CloseEntry
<1> HIDE DEF e
<1>3. /\ IsSlot(t)
      /\ t.active = FALSE /\ t.bound = FALSE /\ t.awaiting = s.awaiting /\ t.carry = s.carry
      /\ t.scan = s.scan /\ t.got = s.got /\ t.tickets = s.tickets
  BY <1>1 DEF IsSlot
<1> HIDE DEF t
<1> QED
  BY <1>2, <1>3

\* What unbind() leaves of a slot.
LEMMA UnbindSlots ==
  ASSUME NEW s, IsSlot(s)
  PROVE /\ IsSlot(Unbind(s))
        /\ Unbind(s).awaiting = s.awaiting /\ Unbind(s).carry = s.carry
        /\ Unbind(s).scan = s.scan /\ Unbind(s).got = s.got /\ Unbind(s).tickets = s.tickets
        /\ (~s.active => Unbind(s) = s)
        /\ (s.active => Unbind(s).bound = FALSE /\ (Unbind(s).active <=> s.awaiting > 0))
        /\ (Unbind(s).active => Unbind(s).rows = s.rows)
<1> DEFINE t == [s EXCEPT !.bound = FALSE]
<1>1. /\ IsSlot(t) /\ t.active = s.active /\ t.bound = FALSE /\ t.awaiting = s.awaiting
      /\ t.carry = s.carry /\ t.scan = s.scan /\ t.got = s.got /\ t.tickets = s.tickets /\ t.rows = s.rows
  BY DEF IsSlot
<1>2. Unbind(s) = IF ~s.active THEN s ELSE IF Nobody(t) THEN CloseEntry(t) ELSE t
  BY DEF Unbind
<1> HIDE DEF t
<1>3. s.awaiting \in Nat
  BY DEF IsSlot
<1>4. CASE ~s.active
  BY <1>4, <1>2
<1>5. CASE s.active /\ Nobody(t)
  <2>1. Unbind(s) = CloseEntry(t)
    BY <1>5, <1>2
  <2>2. s.awaiting = 0
    BY <1>5, <1>1 DEF Nobody
  <2>3. /\ IsSlot(CloseEntry(t)) /\ CloseEntry(t).active = FALSE /\ CloseEntry(t).bound = FALSE
        /\ CloseEntry(t).awaiting = t.awaiting /\ CloseEntry(t).carry = t.carry
        /\ CloseEntry(t).scan = t.scan /\ CloseEntry(t).got = t.got
        /\ CloseEntry(t).tickets = t.tickets
    BY <1>1, CloseEntrySlots
  <2> QED BY <2>1, <2>2, <2>3, <1>1, <1>5
<1>6. CASE s.active /\ ~Nobody(t)
  <2>1. Unbind(s) = t
    BY <1>6, <1>2
  <2>2. s.awaiting > 0
    BY <1>6, <1>1, <1>3 DEF Nobody
  <2> QED BY <2>1, <2>2, <1>1, <1>6
<1> QED BY <1>4, <1>5, <1>6

LEMMA AppendFramed ==
  ASSUME NEW q, Framed(q), NEW f, IsFrame(f)
  PROVE Framed(Append(q, f)) /\ Len(q) \in Nat
<1>1. PICK S : q \in Seq(S)
  BY DEF IsSeq, Framed
<1>2. q \in Seq(S \cup {f})
  BY <1>1
<1>3. Append(q, f) \in Seq(S \cup {f})
  BY <1>2
<1>4. \A i \in DOMAIN Append(q, f) : Append(q, f)[i] = f \/ (i \in DOMAIN q /\ Append(q, f)[i] = q[i])
  BY <1>1
<1>5. IsSeq(Append(q, f))
  BY <1>3 DEF IsSeq
<1> QED
  BY <1>1, <1>4, <1>5 DEF Framed

LEMMA ConcatFramed ==
  ASSUME NEW q, Framed(q), NEW r, Framed(r)
  PROVE Framed(q \o r)
<1>1. PICK S : q \in Seq(S)
  BY DEF IsSeq, Framed
<1>2. PICK T : r \in Seq(T)
  BY DEF IsSeq, Framed
<1>3. q \in Seq(S \cup T) /\ r \in Seq(S \cup T)
  BY <1>1, <1>2
<1>4. q \o r \in Seq(S \cup T)
  BY <1>3
<1>5. \A i \in DOMAIN (q \o r) : \/ i \in DOMAIN q /\ (q \o r)[i] = q[i]
                                 \/ i - Len(q) \in DOMAIN r /\ (q \o r)[i] = r[i - Len(q)]
  BY <1>3
<1>6. IsSeq(q \o r)
  BY <1>4 DEF IsSeq
<1> QED
  BY <1>5, <1>6 DEF Framed

LEMMA PairFramed ==
  ASSUME NEW a, NEW b, IsFrame(a), IsFrame(b) PROVE Framed(<< a, b >>) /\ Framed(<< a >>)
<1>1. << a, b >> \in Seq({a, b}) /\ << a >> \in Seq({a})
  OBVIOUS
<1>2. \A i \in DOMAIN << a, b >> : << a, b >>[i] \in {a, b}
  OBVIOUS
<1>3. \A i \in DOMAIN << a >> : << a >>[i] \in {a}
  OBVIOUS
<1>4. IsSeq(<< a, b >>) /\ IsSeq(<< a >>)
  BY <1>1 DEF IsSeq
<1> QED BY <1>2, <1>3, <1>4 DEF Framed

LEMMA NoEngineIsEngine == IsEngine(NoEngine) /\ NoEngine.phase = "none"
<1> DEFINE e == << >>
<1>1. IsSeq(e)
  BY EmptyIsSeq
<1>2. NoEngine = [sub |-> 0, stream |-> 0, phase |-> "none", barrier |-> 0, next |-> 0,
             buffered |-> e, outbox |-> e]
  BY DEF NoEngine
<1> HIDE DEF e
<1> QED BY <1>1, <1>2 DEF IsEngine

LEMMA ErrorIsFrame ==
  ASSUME NEW code, NEW req, NEW sub
  PROVE /\ IsFrame(ErrorFrame(code, req, sub))
        /\ ErrorFrame(code, req, sub).code = code
        /\ IsFrame(CloseFrame)
<1>1. ErrorFrame(code, req, sub).t = "error" /\ ErrorFrame(code, req, sub).code = code
  BY DEF ErrorFrame, NoFrame
<1>2. CloseFrame.t = "close"
  BY DEF CloseFrame, NoFrame
<1> QED BY <1>1, <1>2 DEF IsFrame, FrameKinds

LEMMA LosesOK ==
  ASSUME NEW h, NEW k, IsGateway(h), Loses(h, k)
  PROVE /\ IsSlot(k.slot) /\ k.bound \in BOOLEAN /\ k.refs \subseteq Conns
        /\ IsFiniteSet(k.refs) /\ AskOK(k.ask) /\ (k.ask.gate # {} => k.refs # {})
<1>0. k.refs \subseteq Conns /\ IsFiniteSet(k.refs)
  BY FS_Subset DEF Loses, IsGateway
<1>1. CASE h.refs # {} /\ k.refs = {}
  <2>1. Unwatched(h, k)
    BY <1>1 DEF Loses
  <2>2. IsSlot(k.slot) /\ k.bound \in BOOLEAN
    BY <2>1, UnbindSlots DEF IsGateway, Unwatched
  <2>3. AskOK(k.ask) /\ k.ask.gate = {}
    <3>1. AskOK(h.ask)
      BY DEF IsGateway
    <3>2. h.ask \in AskBooks /\ OpenAsked(h.ask)
      BY <3>1 DEF AskOK
    <3> QED BY <2>1, <3>1, <3>2, GivenUpOK, GivenUpFields DEF Unwatched
  <2> QED BY <2>2, <2>3, <1>0
<1>2. CASE ~(h.refs # {} /\ k.refs = {})
  BY <1>0, <1>2 DEF Loses, Watched, IsGateway
<1> QED BY <1>1, <1>2

-------------------------------------------------------------------------------
(* What the handlers make of one connection *)

ClosedC(x, last) ==
  IF ~x.open THEN x
  ELSE [x EXCEPT !.open = FALSE, !.eng = NoEngine, !.queue = << >>, !.wire = @ \o last]
OverflowLast == << ErrorFrame(4431, << 0, 0 >>, 0), CloseFrame >>
EnqueueC(x, f) ==
  IF ~x.open THEN x
  ELSE IF Len(x.queue) + 1 > QueueMax THEN ClosedC(x, OverflowLast)
  ELSE [x EXCEPT !.queue = Append(@, f)]
StruckC(x, f) == [EnqueueC(x, f) EXCEPT !.strikes = x.strikes + 1]
EmitC(x, f) ==
  IF f.code # 4404 \/ ~EnqueueC(x, f).open THEN EnqueueC(x, f)
  ELSE IF x.strikes + 1 >= StrikeMax
       THEN ClosedC(StruckC(x, f), StruckC(x, f).queue \o << CloseFrame >>)
  ELSE StruckC(x, f)

LEMMA ClosedCFades ==
  ASSUME NEW x, IsConn(x), NEW last, Framed(last)
  PROVE IsConn(ClosedC(x, last)) /\ Fades(x, ClosedC(x, last)) /\ ~ClosedC(x, last).open
        /\ (Follows(ClosedC(x, last)) => ~x.open)
<1> DEFINE e == << >>
           y == [x EXCEPT !.open = FALSE, !.eng = NoEngine, !.queue = e, !.wire = @ \o last]
<1>1. Framed(e)
  BY EmptyIsSeq
<1>2. ClosedC(x, last) = IF ~x.open THEN x ELSE y
  BY DEF ClosedC
<1>3. Framed(x.wire \o last)
  BY ConcatFramed DEF IsConn
<1> HIDE DEF e
<1>4. IsConn(y) /\ y.link = x.link /\ y.open = FALSE /\ y.eng = NoEngine
  BY <1>1, <1>3, NoEngineIsEngine DEF IsConn
<1> HIDE DEF y
<1>5. ~Follows(y)
  BY <1>4, NoEngineIsEngine DEF Follows
<1>6. x.open \in BOOLEAN
  BY DEF IsConn
<1> QED
  BY <1>2, <1>4, <1>5, <1>6 DEF Fades

LEMMA OverflowFramed == Framed(OverflowLast)
<1> DEFINE a == ErrorFrame(4431, << 0, 0 >>, 0)
           b == CloseFrame
<1>1. OverflowLast = << a, b >>
  BY DEF OverflowLast
<1>2. IsFrame(a) /\ IsFrame(b)
  BY ErrorIsFrame
<1> HIDE DEF a, b
<1> QED BY <1>1, <1>2, PairFramed

LEMMA EnqueueCFades ==
  ASSUME NEW x, IsConn(x), NEW f, IsFrame(f)
  PROVE IsConn(EnqueueC(x, f)) /\ Fades(x, EnqueueC(x, f))
        /\ (EnqueueC(x, f).open => EnqueueC(x, f) = [x EXCEPT !.queue = Append(@, f)])
<1>1. CASE ~x.open
  BY <1>1 DEF EnqueueC, Fades
<1>2. CASE x.open /\ Len(x.queue) + 1 > QueueMax
  <2>1. EnqueueC(x, f) = ClosedC(x, OverflowLast)
    BY <1>2 DEF EnqueueC
  <2> QED BY <2>1, OverflowFramed, ClosedCFades
<1>3. CASE x.open /\ ~(Len(x.queue) + 1 > QueueMax)
  <2> DEFINE y == [x EXCEPT !.queue = Append(@, f)]
  <2>1. EnqueueC(x, f) = y
    BY <1>3 DEF EnqueueC
  <2>2. Framed(Append(x.queue, f))
    BY AppendFramed DEF IsConn
  <2>3. IsConn(y) /\ y.link = x.link /\ y.open = x.open /\ y.eng = x.eng
    BY <2>2 DEF IsConn
  <2>4. Fades(x, y)
    BY <2>3 DEF Fades, Follows
  <2> QED BY <2>1, <2>3, <2>4
<1> QED BY <1>1, <1>2, <1>3 DEF IsConn

LEMMA FadesTransitive ==
  ASSUME NEW x, NEW y, NEW z, Fades(x, y), Fades(y, z)
  PROVE Fades(x, z)
BY DEF Fades

LEMMA FadesSelf == ASSUME NEW x PROVE Fades(x, x)
BY DEF Fades

LEMMA EmitCFades ==
  ASSUME NEW x, IsConn(x), NEW f, IsFrame(f)
  PROVE IsConn(EmitC(x, f)) /\ Fades(x, EmitC(x, f))
<1> DEFINE y == EnqueueC(x, f)
           z == StruckC(x, f)
           last == z.queue \o << CloseFrame >>
<1>1. IsConn(y) /\ Fades(x, y)
  BY EnqueueCFades
<1>2. IsConn(z) /\ Fades(x, z) /\ Framed(z.queue)
  BY <1>1 DEF StruckC, IsConn, Fades, Follows
<1>3. Framed(last)
  <2>1. Framed(<< CloseFrame >>)
    BY ErrorIsFrame, PairFramed
  <2> QED BY <2>1, <1>2, ConcatFramed
<1> HIDE DEF y, z, last
<1>4. IsConn(ClosedC(z, last)) /\ Fades(z, ClosedC(z, last))
  BY <1>2, <1>3, ClosedCFades
<1>5. Fades(x, ClosedC(z, last))
  BY <1>4, <1>2, FadesTransitive
<1>6. EmitC(x, f) = y \/ EmitC(x, f) = ClosedC(z, last) \/ EmitC(x, f) = z
  BY DEF EmitC, y, z, last
<1> QED
  BY <1>1, <1>2, <1>4, <1>5, <1>6

-------------------------------------------------------------------------------
(* The same, in the server *)

LEMMA BecameSelf ==
  ASSUME NEW h, IsGateway(h), NEW c
  PROVE Became(h, h, c, h.conn[c])
BY DEF Became, Loses, Watched, SameIndex

LEMMA ReleaseWatcherFrees ==
  ASSUME NEW h, IsGateway(h), NEW c
  PROVE /\ Loses(h, ReleaseWatcher(h, c))
        /\ ReleaseWatcher(h, c).refs = h.refs \ {c}
        /\ DOMAIN ReleaseWatcher(h, c) = DOMAIN h
        /\ SameIndex(h, ReleaseWatcher(h, c)) /\ ReleaseWatcher(h, c).conn = h.conn
        /\ ReleaseWatcher(h, c).pump \in BOOLEAN
<1> DEFINE sl == IF h.bound THEN Unbind(h.slot) ELSE h.slot
           t == [h EXCEPT !.refs = {}, !.pump = FALSE, !.bound = FALSE, !.slot = sl]
           r == h.refs \ {c}
<1>1. CASE h.refs = {}
  <2>1. ReleaseWatcher(h, c) = h
    BY <1>1 DEF ReleaseWatcher
  <2> QED BY <1>1, <2>1 DEF Loses, Watched, SameIndex, IsGateway
<1>2. CASE h.refs # {} /\ r # {}
  <2>1. ReleaseWatcher(h, c) = [h EXCEPT !.refs = r]
    BY <1>2 DEF ReleaseWatcher
  <2> QED BY <1>2, <2>1 DEF Loses, Watched, SameIndex, IsGateway
<1>3. CASE h.refs # {} /\ r = {}
  <2>1. ReleaseWatcher(h, c) = CancelAsking(t)
    BY <1>3 DEF ReleaseWatcher
  <2>2. AskOK(h.ask) /\ t.ask = h.ask
    BY DEF IsGateway
  <2>3. h.ask \in AskBooks /\ IsFiniteSet(h.ask.gate)
    <3>1. h.ask.gate \subseteq 1 .. Len(h.ask.gen) /\ Len(h.ask.gen) \in Nat
      BY <2>2 DEF AskOK, OpenAsked, AskBooks
    <3>2. IsFiniteSet(1 .. Len(h.ask.gen))
      BY <3>1, FS_Interval
    <3> QED BY <3>1, <3>2, <2>2, FS_Subset DEF AskOK
  <2> HIDE DEF t
  <2>4. ReleaseWatcher(h, c) = [t EXCEPT !.ask = GivenUp(h.ask)]
    BY <2>1, <2>2, <2>3, GiveUpIsFold
  <2>5. /\ DOMAIN t = DOMAIN h /\ t.refs = {} /\ t.pump = FALSE /\ t.bound = FALSE /\ t.slot = sl
        /\ t.log = h.log /\ t.cur = h.cur /\ t.spent = h.spent /\ t.conn = h.conn
    BY DEF t, IsGateway
  <2> DEFINE k == [t EXCEPT !.ask = GivenUp(h.ask)]
  <2>6. /\ DOMAIN k = DOMAIN h /\ k.refs = {} /\ k.pump = FALSE /\ k.bound = FALSE /\ k.slot = sl
        /\ k.log = h.log /\ k.cur = h.cur /\ k.spent = h.spent /\ k.conn = h.conn /\ k.ask = GivenUp(h.ask)
    BY <2>5 DEF IsGateway
  <2> HIDE DEF k, sl
  <2>7. Unwatched(h, k)
    BY <2>6 DEF Unwatched, sl
  <2> QED BY <1>3, <2>4, <2>6, <2>7 DEF Loses, SameIndex, k
<1> QED BY <1>1, <1>2, <1>3

\* A handler that leaves the rest of the server alone, or releases the watcher.
Leaves(h, k, c, x) ==
  /\ DOMAIN k = DOMAIN h /\ k.pump \in BOOLEAN
  /\ SameIndex(h, k)
  /\ k.conn = [h.conn EXCEPT ![c] = x]
  /\ Loses(h, k)
  /\ k.refs = IF Follows(h.conn[c]) /\ ~Follows(x) THEN h.refs \ {c} ELSE h.refs

LEMMA LeavesBecame ==
  ASSUME NEW h, IsGateway(h), NEW c \in Conns, NEW k, NEW x, IsConn(x), Leaves(h, k, c, x)
  PROVE Became(h, k, c, x)
<1>1. \A d \in Conns \ {c} : k.conn[d] = h.conn[d]
  BY DEF Leaves, IsGateway
<1>2. k.conn[c] = x /\ DOMAIN k.conn = Conns
  BY DEF Leaves, IsGateway
<1>3. \A d \in Conns : IsConn(k.conn[d])
  BY <1>1, <1>2 DEF IsGateway
<1>4. /\ IsSlot(k.slot) /\ k.bound \in BOOLEAN /\ k.refs \subseteq Conns
      /\ IsFiniteSet(k.refs) /\ AskOK(k.ask) /\ (k.ask.gate # {} => k.refs # {})
  BY LosesOK DEF Leaves
<1>5. IsGateway(k)
  BY <1>2, <1>3, <1>4 DEF IsGateway, Leaves, SameIndex
<1> QED
  BY <1>1, <1>2, <1>5 DEF Became, Leaves

\* The connection c of h is replaced by y, and the watcher released if y follows no longer.
Swapped(h, c, y) == [h EXCEPT !.conn[c] = y]

LEMMA SwappedFields ==
  ASSUME NEW h, IsGateway(h), NEW c \in Conns, NEW y, IsConn(y)
  PROVE /\ IsGateway(Swapped(h, c, y))
        /\ DOMAIN Swapped(h, c, y) = DOMAIN h
        /\ Swapped(h, c, y).slot = h.slot /\ SameIndex(h, Swapped(h, c, y))
        /\ Swapped(h, c, y).refs = h.refs /\ Swapped(h, c, y).bound = h.bound
        /\ Swapped(h, c, y).pump = h.pump /\ Swapped(h, c, y).ask = h.ask
        /\ Swapped(h, c, y).conn = [h.conn EXCEPT ![c] = y]
        /\ Swapped(h, c, y).conn[c] = y
<1> DEFINE t == Swapped(h, c, y)
<1>1. /\ DOMAIN t = DOMAIN h /\ t.slot = h.slot /\ t.log = h.log /\ t.cur = h.cur /\ t.spent = h.spent
      /\ t.refs = h.refs /\ t.bound = h.bound /\ t.pump = h.pump /\ t.ask = h.ask
      /\ t.conn = [h.conn EXCEPT ![c] = y]
  BY DEF IsGateway, Swapped
<1>2. DOMAIN t.conn = Conns /\ t.conn[c] = y /\ \A d \in Conns : IsConn(t.conn[d])
  BY <1>1 DEF IsGateway
<1> HIDE DEF t
<1>3. IsGateway(t)
  BY <1>1, <1>2 DEF IsGateway
<1> QED
  BY <1>1, <1>2, <1>3 DEF SameIndex, t

LEMMA SwapRelease ==
  ASSUME NEW h, IsGateway(h), NEW c \in Conns, NEW y, IsConn(y),
         ~Follows(h.conn[c]) => ~Follows(y),
         NEW k, k = IF Follows(h.conn[c]) /\ ~Follows(y) THEN ReleaseWatcher(Swapped(h, c, y), c)
                    ELSE Swapped(h, c, y)
  PROVE Became(h, k, c, y)
<1> DEFINE t == Swapped(h, c, y)
<1>1. /\ IsGateway(t) /\ DOMAIN t = DOMAIN h /\ t.slot = h.slot /\ SameIndex(h, t)
      /\ t.refs = h.refs /\ t.bound = h.bound /\ t.pump = h.pump /\ t.ask = h.ask
      /\ t.conn = [h.conn EXCEPT ![c] = y]
  BY SwappedFields
<1>2. k = IF Follows(h.conn[c]) /\ ~Follows(y) THEN ReleaseWatcher(t, c) ELSE t
  OBVIOUS
<1> HIDE DEF t
<1>3. CASE Follows(h.conn[c]) /\ ~Follows(y)
  <2>1. /\ Loses(t, k) /\ DOMAIN k = DOMAIN t /\ SameIndex(t, k) /\ k.conn = t.conn
        /\ k.pump \in BOOLEAN /\ k.refs = h.refs \ {c}
    BY <1>1, <1>2, <1>3, ReleaseWatcherFrees
  <2>2. Loses(h, k)
    BY <1>1, <2>1 DEF Loses, Watched, Unwatched
  <2>3. Leaves(h, k, c, y)
    BY <1>1, <1>3, <2>1, <2>2 DEF Leaves, SameIndex
  <2> QED BY <2>3, LeavesBecame
<1>4. CASE ~(Follows(h.conn[c]) /\ ~Follows(y))
  <2>1. Leaves(h, t, c, y)
    BY <1>1, <1>4 DEF Leaves, Loses, Watched, IsGateway
  <2> QED BY <2>1, <1>2, <1>4, LeavesBecame
<1> QED BY <1>3, <1>4

LEMMA CloseConnBecame ==
  ASSUME NEW h, IsGateway(h), NEW c \in Conns, NEW last, Framed(last)
  PROVE Became(h, CloseConn(h, c, last), c, ClosedC(h.conn[c], last))
<1> DEFINE x == h.conn[c]
           y == ClosedC(x, last)
<1>0. IsConn(x)
  BY DEF IsGateway
<1>1. CASE ~x.open
  <2>1. CloseConn(h, c, last) = h /\ ClosedC(x, last) = x
    BY <1>1 DEF CloseConn, ClosedC
  <2> QED BY <2>1, BecameSelf
<1>2. CASE x.open
  <2>1. IsConn(y) /\ ~Follows(y)
    BY <1>0, <1>2, ClosedCFades
  <2> DEFINE u == [h EXCEPT !.conn[c].open = FALSE, !.conn[c].eng = NoEngine,
                            !.conn[c].queue = << >>, !.conn[c].wire = @ \o last]
  <2>2. Swapped(h, c, y) = u
    <3>1. y = [x EXCEPT !.open = FALSE, !.eng = NoEngine, !.queue = << >>, !.wire = @ \o last]
      BY <1>2 DEF ClosedC
    <3> HIDE DEF y
    <3>2. Swapped(h, c, y).conn[c] = u.conn[c]
      BY <3>1 DEF IsGateway, IsConn, Swapped
    <3> QED BY <3>1, <3>2 DEF IsGateway, IsConn, Swapped
  <2>3. CloseConn(h, c, last) = IF HasSub(h, c) THEN ReleaseWatcher(u, c) ELSE u
    <3>1. h.conn[c].open
      BY <1>2
    <3> QED BY <3>1 DEF CloseConn
  <2>4. HasSub(h, c) = Follows(x)
    BY DEF HasSub, Follows
  <2> DEFINE k == CloseConn(h, c, last)
  <2>5. k = IF Follows(h.conn[c]) /\ ~Follows(y) THEN ReleaseWatcher(Swapped(h, c, y), c) ELSE Swapped(h, c, y)
    <3> HIDE DEF u, y
    <3> QED BY <2>1, <2>2, <2>3, <2>4
  <2> HIDE DEF k, y
  <2>6. Became(h, k, c, y)
    BY <2>1, <2>5, SwapRelease
  <2> QED BY <2>6 DEF k, y
<1> QED BY <1>1, <1>2

LEMMA PutBecame ==
  ASSUME NEW h, IsGateway(h), NEW c \in Conns, NEW y, IsConn(y), Follows(h.conn[c]) <=> Follows(y)
  PROVE Became(h, [h EXCEPT !.conn[c] = y], c, y)
<1> DEFINE k == Swapped(h, c, y)
<1>1. k = IF Follows(h.conn[c]) /\ ~Follows(y) THEN ReleaseWatcher(Swapped(h, c, y), c) ELSE Swapped(h, c, y)
  OBVIOUS
<1> HIDE DEF k
<1>2. Became(h, k, c, y)
  BY <1>1, SwapRelease
<1> QED
  BY <1>2 DEF k, Swapped

LEMMA LosesTwice ==
  ASSUME NEW h, NEW k, NEW m, Loses(h, k), Loses(k, m)
  PROVE Loses(h, m)
<1>1. m.refs \subseteq h.refs
  BY DEF Loses
<1>2. CASE h.refs # {} /\ k.refs = {}
  <2>1. Unwatched(h, k) /\ Watched(k, m) /\ m.refs = {}
    BY <1>2 DEF Loses
  <2> QED BY <1>1, <1>2, <2>1 DEF Loses, Unwatched, Watched
<1>3. CASE k.refs # {} /\ m.refs = {}
  <2>1. Watched(h, k) /\ Unwatched(k, m) /\ h.refs # {}
    BY <1>3 DEF Loses
  <2> QED BY <1>1, <1>3, <2>1 DEF Loses, Unwatched, Watched
<1>4. CASE ~(h.refs # {} /\ k.refs = {}) /\ ~(k.refs # {} /\ m.refs = {})
  <2>1. Watched(h, k) /\ Watched(k, m) /\ ~(h.refs # {} /\ m.refs = {})
    BY <1>4 DEF Loses
  <2> QED BY <1>1, <2>1 DEF Loses, Watched
<1> QED BY <1>2, <1>3, <1>4

LEMMA BecameTwice ==
  ASSUME NEW h, NEW k, NEW m, NEW c \in Conns, NEW x, NEW y, Became(h, k, c, x), Became(k, m, c, y),
         Fades(h.conn[c], x), Fades(x, y)
  PROVE Became(h, m, c, y) /\ Fades(h.conn[c], y)
<1>1. k.conn[c] = x
  BY DEF Became
<1>2. Follows(y) => Follows(x) /\ Follows(h.conn[c])
  BY DEF Fades
<1>3. Follows(x) => Follows(h.conn[c])
  BY DEF Fades
<1>4. m.refs = IF Follows(h.conn[c]) /\ ~Follows(y) THEN h.refs \ {c} ELSE h.refs
  BY <1>1, <1>2, <1>3 DEF Became
<1>5. Loses(h, m)
  BY LosesTwice DEF Became
<1>6. Fades(h.conn[c], y)
  BY FadesTransitive
<1> QED
  BY <1>4, <1>5, <1>6 DEF Became, SameIndex

LEMMA EnqueueBecame ==
  ASSUME NEW h, IsGateway(h), NEW c \in Conns, NEW f, IsFrame(f)
  PROVE /\ Became(h, Enqueue(h, c, f), c, EnqueueC(h.conn[c], f))
        /\ IsConn(EnqueueC(h.conn[c], f)) /\ Fades(h.conn[c], EnqueueC(h.conn[c], f))
<1> DEFINE x == h.conn[c]
           y == EnqueueC(x, f)
<1>0. IsConn(x)
  BY DEF IsGateway
<1>a. IsConn(y) /\ Fades(x, y)
  BY <1>0, EnqueueCFades
<1>1. CASE ~x.open
  <2>1. Enqueue(h, c, f) = h /\ y = x
    BY <1>1 DEF Enqueue, EnqueueC
  <2> QED BY <2>1, BecameSelf, <1>a
<1>2. CASE x.open /\ Len(x.queue) + 1 > QueueMax
  <2> DEFINE a == ErrorFrame(4431, << 0, 0 >>, 0)
             b == CloseFrame
             l == << a, b >>
  <2>1. Enqueue(h, c, f) = CloseConn(h, c, l) /\ y = ClosedC(x, l) /\ l = OverflowLast
    BY <1>2 DEF Enqueue, EnqueueC, OverflowLast
  <2> HIDE DEF l, x, y
  <2>2. Framed(l)
    BY <2>1, OverflowFramed
  <2>3. Became(h, CloseConn(h, c, l), c, ClosedC(h.conn[c], l))
    BY <2>2, CloseConnBecame
  <2> QED BY <2>1, <2>3, <1>a DEF x, y
<1>3. CASE x.open /\ ~(Len(x.queue) + 1 > QueueMax)
  <2>1. Enqueue(h, c, f) = [h EXCEPT !.conn[c].queue = Append(@, f)] /\ y = [x EXCEPT !.queue = Append(@, f)]
    BY <1>3 DEF Enqueue, EnqueueC
  <2> HIDE DEF y
  <2>2. [h EXCEPT !.conn[c].queue = Append(@, f)] = [h EXCEPT !.conn[c] = y]
    BY <2>1 DEF IsGateway, IsConn
  <2>4. Follows(x) <=> Follows(y)
    BY <1>0, <2>1 DEF Follows, IsConn
  <2>5. Became(h, [h EXCEPT !.conn[c] = y], c, y)
    BY <1>a, <2>4, PutBecame
  <2> HIDE DEF x
  <2> QED BY <2>1, <2>2, <2>5, <1>a DEF x, y
<1> QED BY <1>1, <1>2, <1>3

LEMMA EmitBecame ==
  ASSUME NEW h, IsGateway(h), NEW c \in Conns, NEW f, IsFrame(f)
  PROVE /\ Became(h, Emit(h, c, f), c, EmitC(h.conn[c], f))
        /\ IsConn(EmitC(h.conn[c], f)) /\ Fades(h.conn[c], EmitC(h.conn[c], f))
<1> DEFINE x == h.conn[c]
           y == EnqueueC(x, f)
           sent == Enqueue(h, c, f)
           n == h.conn[c].strikes + 1
           hit == [sent EXCEPT !.conn[c].strikes = n]
           z == StruckC(x, f)
           last == z.queue \o << CloseFrame >>
<1>0. IsConn(x) /\ IsConn(EmitC(x, f)) /\ Fades(x, EmitC(x, f))
  <2>1. IsConn(x)
    BY DEF IsGateway
  <2> HIDE DEF x
  <2> QED BY <2>1, EmitCFades
<1>1. Became(h, sent, c, y) /\ IsConn(y) /\ Fades(x, y)
  BY EnqueueBecame
<1>2. sent.conn[c] = y /\ IsGateway(sent)
  BY <1>1 DEF Became
<1>3. Emit(h, c, f) = IF f.code # 4404 \/ ~y.open THEN sent
                      ELSE IF n >= StrikeMax THEN CloseConn(hit, c, hit.conn[c].queue \o << CloseFrame >>)
                      ELSE hit
  <2>1. Emit(h, c, f) = IF f.code # 4404 \/ ~sent.conn[c].open THEN sent
                        ELSE IF n >= StrikeMax THEN CloseConn(hit, c, hit.conn[c].queue \o << CloseFrame >>)
                        ELSE hit
    BY DEF Emit
  <2> HIDE DEF sent, y, hit
  <2> QED BY <2>1, <1>2
<1>4. CASE f.code # 4404 \/ ~y.open
  <2>1. EmitC(x, f) = y /\ Emit(h, c, f) = sent
    BY <1>4, <1>3 DEF EmitC
  <2> HIDE DEF x, y, sent
  <2> QED BY <2>1, <1>0, <1>1 DEF x
<1>5. CASE ~(f.code # 4404 \/ ~y.open)
  <2>0. z = [y EXCEPT !.strikes = n]
    BY DEF StruckC
  <2>1. IsConn(z) /\ Fades(y, z) /\ (Follows(y) <=> Follows(z)) /\ z.queue = y.queue
    <3> HIDE DEF y, x, z, n
    <3> QED BY <2>0, <1>1, <1>0 DEF IsConn, Fades, Follows
  <2>2. hit = [sent EXCEPT !.conn[c] = z]
    <3> HIDE DEF z, y, sent, n
    <3> QED BY <2>0, <1>2 DEF IsGateway, IsConn, hit
  <2>a. Framed(z.queue)
    BY <2>1, <1>1 DEF IsConn
  <2> HIDE DEF sent, y, z, x, n
  <2>3. Became(sent, hit, c, z)
    <3> HIDE DEF hit
    <3> QED BY <2>1, <2>2, <1>2, PutBecame
  <2> HIDE DEF hit
  <2>4. Became(h, hit, c, z) /\ Fades(h.conn[c], z)
    BY <2>1, <2>3, <1>1, BecameTwice DEF x
  <2>5. CASE n >= StrikeMax
    <3>1. hit.conn[c] = z /\ IsGateway(hit)
      BY <2>4 DEF Became
    <3>2. Framed(last)
      <4>1. Framed(<< CloseFrame >>)
        BY ErrorIsFrame, PairFramed
      <4> QED BY <2>a, <4>1, ConcatFramed
    <3>3. Emit(h, c, f) = CloseConn(hit, c, last)
      BY <1>3, <1>5, <2>5, <3>1
    <3>4. EmitC(x, f) = ClosedC(z, last)
      BY <1>5, <2>5 DEF EmitC, y, z, n, x
    <3> HIDE DEF last
    <3>5. Became(hit, CloseConn(hit, c, last), c, ClosedC(z, last))
      BY <3>1, <3>2, CloseConnBecame
    <3>6. Fades(z, ClosedC(z, last))
      BY <2>1, <3>2, ClosedCFades
    <3>7. Became(h, CloseConn(hit, c, last), c, ClosedC(z, last))
      BY <2>4, <3>5, <3>6, BecameTwice
    <3> QED BY <3>7, <3>3, <3>4, <1>0 DEF x
  <2>6. CASE ~(n >= StrikeMax)
    <3>1. Emit(h, c, f) = hit
      BY <1>3, <1>5, <2>6
    <3>2. EmitC(x, f) = z
      BY <1>5, <2>6 DEF EmitC, y, z, n, x
    <3> QED BY <2>4, <3>1, <3>2, <1>0 DEF x
  <2> QED BY <2>5, <2>6
<1> QED BY <1>4, <1>5

-------------------------------------------------------------------------------
(* A subscription ends *)

Keeps == INSTANCE FoldRules WITH
  op <- LAMBDA sub, f, acc : IF f.sub # sub THEN Append(acc, f) ELSE acc,
  P <- LAMBDA aux, sub, i, acc : Framed(acc)

LEMMA KeptFramed ==
  ASSUME NEW q, Framed(q), NEW sub
  PROVE Framed(KeptFrames(q, sub))
<1> DEFINE e == << >>
           n == Len(q)
<1>1. KeptFrames(q, sub) = Keeps!Along(sub, << >>, q)
  BY DEF KeptFrames, Keeps!Along, Keeps!Largest, FoldLeft, MapThenFoldSet, Max
<1>2. Framed(e)
  BY EmptyIsSeq
<1>3. n \in Nat /\ DOMAIN q = 1 .. n
  <2>1. PICK S : q \in Seq(S)
    BY DEF IsSeq, Framed
  <2> QED BY <2>1
<1>4. \A i \in 1 .. n : \A acc : Framed(acc) => Framed(IF q[i].sub # sub THEN Append(acc, q[i]) ELSE acc)
  BY <1>3, AppendFramed DEF Framed
<1> HIDE DEF n, e
<1>5. Framed(Keeps!Along(sub, e, q))
  BY <1>2, <1>3, <1>4, IntervalFounded, Keeps!FoldLeftRule
<1> QED
  BY <1>1, <1>5 DEF e

CancelC(x, sub) == [x EXCEPT !.queue = KeptFrames(@, sub)]
ToldC(x, code) == EnqueueC(CancelC(x, x.eng.sub), ErrorFrame(code, << 0, 0 >>, x.eng.sub))
EndedC(x, code) == IF Follows(x) THEN [ToldC(x, code) EXCEPT !.eng = NoEngine] ELSE x

LEMMA CancelCFades ==
  ASSUME NEW x, IsConn(x), NEW sub
  PROVE /\ IsConn(CancelC(x, sub)) /\ Fades(x, CancelC(x, sub))
        /\ (Follows(x) <=> Follows(CancelC(x, sub))) /\ CancelC(x, sub).open = x.open
        /\ CancelC(x, sub).eng = x.eng
<1> DEFINE y == [x EXCEPT !.queue = KeptFrames(@, sub)]
<1>1. Framed(KeptFrames(x.queue, sub))
  BY KeptFramed DEF IsConn
<1>2. IsConn(y) /\ y.link = x.link /\ y.open = x.open /\ y.eng = x.eng
  BY <1>1 DEF IsConn
<1>3. CancelC(x, sub) = y
  BY DEF CancelC
<1> HIDE DEF y
<1> QED
  BY <1>2, <1>3 DEF Fades, Follows

LEMMA CancelFramesBecame ==
  ASSUME NEW h, IsGateway(h), NEW c \in Conns, NEW sub
  PROVE /\ CancelFrames(h, c, sub) = Swapped(h, c, CancelC(h.conn[c], sub))
        /\ Became(h, CancelFrames(h, c, sub), c, CancelC(h.conn[c], sub))
<1> DEFINE x == h.conn[c]
           y == CancelC(x, sub)
<1>1. y = [x EXCEPT !.queue = KeptFrames(@, sub)]
  BY DEF CancelC
<1>2. IsConn(x)
  BY DEF IsGateway
<1>3. IsConn(y) /\ (Follows(x) <=> Follows(y))
  BY <1>2, CancelCFades
<1>4. CancelFrames(h, c, sub) = [h EXCEPT !.conn[c].queue = KeptFrames(@, sub)]
  BY DEF CancelFrames
<1> HIDE DEF y
<1>5. [h EXCEPT !.conn[c].queue = KeptFrames(@, sub)] = Swapped(h, c, y)
  BY <1>1 DEF IsGateway, IsConn, Swapped
<1>6. Became(h, [h EXCEPT !.conn[c] = y], c, y)
  BY <1>3, PutBecame
<1> QED
  BY <1>4, <1>5, <1>6 DEF y, Swapped

LEMMA WithEngineSwaps ==
  ASSUME NEW h, IsGateway(h), NEW c \in Conns, NEW e, IsEngine(e)
  PROVE /\ WithEngine(h, c, e) = Swapped(h, c, [h.conn[c] EXCEPT !.eng = e])
        /\ IsConn([h.conn[c] EXCEPT !.eng = e])
BY DEF WithEngine, Swapped, IsGateway, IsConn

LEMMA EndedCFades ==
  ASSUME NEW x, IsConn(x), NEW code
  PROVE /\ IsConn(EndedC(x, code)) /\ Fades(x, EndedC(x, code)) /\ ~Follows(EndedC(x, code))
        /\ (Follows(x) => /\ IsConn(ToldC(x, code)) /\ Fades(x, ToldC(x, code))
                          /\ EndedC(x, code) = [ToldC(x, code) EXCEPT !.eng = NoEngine]
                          /\ EndedC(x, code).open = ToldC(x, code).open
                          /\ Fades(ToldC(x, code), EndedC(x, code)))
<1> DEFINE f == ErrorFrame(code, << 0, 0 >>, x.eng.sub)
           u == CancelC(x, x.eng.sub)
           y == ToldC(x, code)
           z == [y EXCEPT !.eng = NoEngine]
<1>1. IsConn(u) /\ Fades(x, u)
  BY CancelCFades
<1>2. y = EnqueueC(u, f)
  BY DEF ToldC
<1>3. IsFrame(f)
  BY ErrorIsFrame
<1> HIDE DEF f, u
<1>4. IsConn(y) /\ Fades(u, y)
  BY <1>1, <1>2, <1>3, EnqueueCFades
<1> HIDE DEF y
<1>5. Fades(x, y)
  BY <1>1, <1>4, FadesTransitive
<1>6. IsConn(z) /\ z.open = y.open /\ z.link = y.link /\ z.eng = NoEngine
  BY <1>4, NoEngineIsEngine DEF IsConn
<1>7. ~Follows(z)
  BY <1>6, NoEngineIsEngine DEF Follows
<1>8. Fades(y, z)
  BY <1>6, <1>7 DEF Fades
<1>9. Fades(x, z)
  BY <1>5, <1>8, FadesTransitive
<1> HIDE DEF z
<1>10. EndedC(x, code) = IF Follows(x) THEN z ELSE x
  BY DEF EndedC, y, z
<1> QED
  BY <1>4, <1>5, <1>6, <1>7, <1>8, <1>9, <1>10, FadesSelf DEF y, z

\* The told state of the server: c has been sent the end of its subscription.
Told(h, c, code) ==
  Enqueue(CancelFrames(h, c, h.conn[c].eng.sub), c, ErrorFrame(code, << 0, 0 >>, h.conn[c].eng.sub))

LEMMA ToldBecame ==
  ASSUME NEW h, IsGateway(h), NEW c \in Conns, NEW code, Follows(h.conn[c])
  PROVE /\ Became(h, Told(h, c, code), c, ToldC(h.conn[c], code))
        /\ EndSub(h, c, code) = Swapped(Told(h, c, code), c, EndedC(h.conn[c], code))
<1> DEFINE x == h.conn[c]
           sub == x.eng.sub
           f == ErrorFrame(code, << 0, 0 >>, sub)
           u == CancelFrames(h, c, sub)
           v == CancelC(x, sub)
           t == Told(h, c, code)
           y == ToldC(x, code)
<1>0. IsConn(x)
  BY DEF IsGateway
<1>1. Became(h, u, c, v) /\ Fades(x, v)
  BY <1>0, CancelFramesBecame, CancelCFades
<1>2. IsFrame(f)
  BY ErrorIsFrame
<1>3. t = Enqueue(u, c, f) /\ y = EnqueueC(v, f)
  BY DEF Told, ToldC
<1>4. EndSub(h, c, code) = IF HasSub(h, c) THEN WithEngine(t, c, NoEngine) ELSE h
  BY DEF EndSub, Told
<1>a. HasSub(h, c)
  BY DEF HasSub, Follows
<1> HIDE DEF f, u, v, t, y
<1>5. IsGateway(u) /\ u.conn[c] = v
  BY <1>1 DEF Became
<1>6. Became(u, t, c, y) /\ Fades(v, y)
  BY <1>2, <1>3, <1>5, EnqueueBecame
<1>7. Became(h, t, c, y)
  BY <1>1, <1>6, BecameTwice
<1>8. IsGateway(t) /\ t.conn[c] = y
  BY <1>7 DEF Became
<1>9. WithEngine(t, c, NoEngine) = Swapped(t, c, [y EXCEPT !.eng = NoEngine])
  BY <1>8, NoEngineIsEngine, WithEngineSwaps
<1>10. EndedC(x, code) = [y EXCEPT !.eng = NoEngine]
  BY DEF EndedC, y
<1> QED
  BY <1>4, <1>a, <1>7, <1>9, <1>10 DEF t, y

LEMMA EndAndReleaseBecame ==
  ASSUME NEW h, IsGateway(h), NEW c \in Conns, NEW code
  PROVE Became(h, EndAndRelease(h, c, code), c, EndedC(h.conn[c], code))
<1> DEFINE x == h.conn[c]
           t == Told(h, c, code)
           y == ToldC(x, code)
           z == EndedC(x, code)
           w == Swapped(t, c, z)
           k == EndAndRelease(h, c, code)
<1>0. IsConn(x)
  BY DEF IsGateway
<1>1. CASE ~Follows(x)
  <2>1. k = h /\ z = x
    BY <1>1 DEF EndAndRelease, HasSub, Follows, EndedC
  <2> QED BY <2>1, BecameSelf
<1>2. CASE Follows(x)
  <2>1. Became(h, t, c, y) /\ EndSub(h, c, code) = w
    BY <1>2, ToldBecame
  <2>2. k = ReleaseWatcher(w, c)
    <3>1. HasSub(h, c)
      BY <1>2 DEF HasSub, Follows
    <3>2. k = ReleaseWatcher(EndSub(h, c, code), c)
      BY <3>1 DEF EndAndRelease
    <3> QED BY <3>2, <2>1
  <2>3. IsConn(z) /\ ~Follows(z) /\ Fades(x, y) /\ Fades(y, z)
    BY <1>0, <1>2, EndedCFades
  <2> HIDE DEF t, y, z, k, w
  <2>4. IsGateway(t) /\ t.conn[c] = y
    BY <2>1 DEF Became
  <2>5. Became(t, k, c, z)
    <3>1. CASE Follows(y)
      <4>1. k = IF Follows(t.conn[c]) /\ ~Follows(z) THEN ReleaseWatcher(Swapped(t, c, z), c) ELSE Swapped(t, c, z)
        BY <3>1, <2>2, <2>3, <2>4 DEF w
      <4> QED BY <4>1, <2>3, <2>4, <3>1, SwapRelease
    <3>2. CASE ~Follows(y)
      <4>1. c \notin t.refs
        BY <2>1, <1>2, <3>2 DEF Became
      <4>2. /\ IsGateway(w) /\ DOMAIN w = DOMAIN t /\ w.slot = t.slot /\ SameIndex(t, w)
            /\ w.refs = t.refs /\ w.bound = t.bound /\ w.pump = t.pump /\ w.ask = t.ask
            /\ w.conn = [t.conn EXCEPT ![c] = z]
        BY <2>3, <2>4, SwappedFields DEF w
      <4>3. /\ Loses(w, k) /\ k.refs = w.refs \ {c} /\ DOMAIN k = DOMAIN w /\ SameIndex(w, k)
            /\ k.conn = w.conn /\ k.pump \in BOOLEAN
        BY <2>2, <4>2, ReleaseWatcherFrees
      <4>4. k.refs = t.refs
        BY <4>1, <4>2, <4>3
      <4>5. Loses(t, k)
        BY <4>2, <4>3 DEF Loses, Watched, Unwatched
      <4>6. Leaves(t, k, c, z)
        BY <4>2, <4>3, <4>4, <4>5, <2>4, <3>2 DEF Leaves, SameIndex
      <4> QED BY <4>6, <2>3, <2>4, LeavesBecame
    <3> QED BY <3>1, <3>2
  <2>6. Became(h, k, c, z)
    BY <2>1, <2>3, <2>5, BecameTwice
  <2> QED BY <2>6 DEF k, z
<1> QED BY <1>1, <1>2

-------------------------------------------------------------------------------
(* What is on its way to a page *)

Line(x) == x.wire \o x.queue
SubOf(x) == IF Follows(x) THEN x.eng.sub ELSE 0
\* The frame ends subscription s for the page that reads it.
Bids(f, s) == f.sub \in {0, s} /\ (f.t = "close" \/ (f.t = "error" /\ f.req = << 0, 0 >>))
Parted(z, k, s) == \E j \in DOMAIN z : j > k /\ Bids(z[j], s)
Hidden(z, k, q) == \E j \in DOMAIN z : j > k /\ z[j].t = "ui-closed" /\ z[j].req = AskId(q)
\* A question met behind position k can be answered (A), or is withdrawn later.
Settled(z, k, q, A) == q \in A \/ Hidden(z, k, q)
(* What a page of subscription s, with the questions D on its screen, meets
   behind position k: the end of the subscription, or, while the server's own
   subscription is a, no question that stays and nobody answers. *)
Fine(z, a, k, s, D, A) ==
  \/ Parted(z, k, s)
  \/ /\ a = s
     /\ \A i \in DOMAIN z : i > k /\ z[i].t = "ui-request" => Settled(z, i, z[i].req[2], A)
     /\ \A q \in D : Settled(z, k, q, A)
Hears(x, s, D, A) == Fine(Line(x), SubOf(x), 0, s, D, A)
\* The same for a page that has yet to read the snapshot of s.
Will(x, s, A) ==
  \A k \in DOMAIN Line(x) :
    Line(x)[k].t = "snapshot" /\ Line(x)[k].sub = s => Fine(Line(x), SubOf(x), k, s, {}, A)
\* The numbers of subscriptions a connection speaks of; 0 is the number of one
\* whose line was cut.
Within(x, T) ==
  /\ x.link \/ 0 \in T
  /\ \A k \in DOMAIN Line(x) :
       Line(x)[k].t = "snapshot" => Line(x)[k].req[1] = Line(x)[k].sub /\ Line(x)[k].sub \in T
  /\ Follows(x) => x.eng.sub \in T

\* Whoever was fine with x is fine with y; A and B can be answered before and after.
HearsOf(x, y, s, A, B) ==
  /\ \A D : Hears(x, s, D, A) => Hears(y, s, D, B)
  /\ Will(x, s, A) => Will(y, s, B)
Numbers(x, y) == \A T : Within(x, T) => Within(y, T)
Flows(x, y) == Numbers(x, y) /\ \A s, A : s # 0 => HearsOf(x, y, s, A, A)

LEMMA FlowsSelf == ASSUME NEW x PROVE Flows(x, x)
BY DEF Flows, Numbers, HearsOf
LEMMA FlowsTwice == ASSUME NEW x, NEW y, NEW z, Flows(x, y), Flows(y, z) PROVE Flows(x, z)
BY DEF Flows, Numbers, HearsOf

\* A frame is put behind the others.
Longer(z, w, f) ==
  \E n \in Nat : /\ DOMAIN z = 1 .. n /\ DOMAIN w = 1 .. (n + 1)
                 /\ w[n + 1] = f /\ \A i \in 1 .. n : w[i] = z[i]

LEMMA FineLonger ==
  ASSUME NEW z, NEW w, NEW f, Longer(z, w, f), NEW a, NEW k, k = 0 \/ k \in DOMAIN z, NEW s, NEW D,
         NEW A, NEW B, f.t = "ui-request" => f.req[2] \in B,
         \A q \in A : q \in B \/ (f.t = "ui-closed" /\ f.req = AskId(q)),
         Fine(z, a, k, s, D, A)
  PROVE Fine(w, a, k, s, D, B)
<1>1. PICK n \in Nat : /\ DOMAIN z = 1 .. n /\ DOMAIN w = 1 .. (n + 1)
                       /\ w[n + 1] = f /\ \A i \in 1 .. n : w[i] = z[i]
  BY DEF Longer
<1>2. Parted(z, k, s) => Parted(w, k, s)
  BY <1>1 DEF Parted
<1>3. ASSUME NEW i, i = 0 \/ i \in DOMAIN z, NEW q, Settled(z, i, q, A) PROVE Settled(w, i, q, B)
  <2>1. CASE Hidden(z, i, q)
    <3>1. Hidden(w, i, q)
      BY <1>1, <2>1 DEF Hidden
    <3> QED BY <3>1 DEF Settled
  <2>2. CASE q \in A /\ q \notin B
    <3>1. n + 1 \in DOMAIN w /\ n + 1 > i /\ w[n + 1].t = "ui-closed" /\ w[n + 1].req = AskId(q)
      BY <1>1, <1>3, <2>2
    <3>2. Hidden(w, i, q)
      BY <3>1 DEF Hidden
    <3> QED BY <3>2 DEF Settled
  <2> QED BY <1>3, <2>1, <2>2 DEF Settled
<1>4. ASSUME ~Parted(z, k, s), NEW i \in DOMAIN w, i > k, w[i].t = "ui-request"
      PROVE Settled(w, i, w[i].req[2], B)
  <2>1. CASE i = n + 1
    BY <1>1, <1>4, <2>1 DEF Settled
  <2>2. CASE i # n + 1
    <3>1. i \in DOMAIN z /\ w[i] = z[i]
      BY <1>1, <2>2
    <3>2. Settled(z, i, z[i].req[2], A)
      BY <1>4, <3>1 DEF Fine
    <3> QED BY <1>3, <3>1, <3>2
  <2> QED BY <2>1, <2>2
<1>5. ASSUME ~Parted(z, k, s), NEW q \in D PROVE Settled(w, k, q, B)
  <2>1. Settled(z, k, q, A)
    BY <1>5 DEF Fine
  <2> QED BY <1>3, <2>1
<1> QED
  BY <1>2, <1>4, <1>5 DEF Fine

LEMMA FineLast ==
  ASSUME NEW w, NEW m \in Nat, DOMAIN w = 1 .. m, NEW k \in Nat, k < m, NEW s, Bids(w[m], s), NEW a, NEW D, NEW A
  PROVE Fine(w, a, k, s, D, A)
<1>1. m \in DOMAIN w /\ m > k
  OBVIOUS
<1> QED BY <1>1 DEF Fine, Parted

LEMMA AppendLonger ==
  ASSUME NEW x, IsConn(x), NEW f, NEW y, y.wire = x.wire, y.queue = Append(x.queue, f)
  PROVE Longer(Line(x), Line(y), f)
<1>1. PICK S : x.wire \in Seq(S)
  BY DEF IsConn, Framed, IsSeq
<1>2. PICK U : x.queue \in Seq(U)
  BY DEF IsConn, Framed, IsSeq
<1> DEFINE V == S \cup U \cup {f}
           p == x.wire
           q == x.queue
<1>3. p \in Seq(V) /\ q \in Seq(V) /\ f \in V
  BY <1>1, <1>2
<1>4. y.wire = p /\ y.queue = Append(q, f)
  OBVIOUS
<1>a. Line(x) = p \o q /\ Line(y) = p \o Append(q, f)
  BY <1>4 DEF Line
<1> HIDE DEF V, p, q
<1>5. Len(p) \in Nat /\ Len(q) \in Nat
  BY <1>3
<1> DEFINE n == Len(p) + Len(q)
<1>6. n \in Nat /\ DOMAIN (p \o q) = 1 .. n /\ DOMAIN (p \o Append(q, f)) = 1 .. (n + 1)
  BY <1>3, <1>5
<1>7. (p \o Append(q, f))[n + 1] = f
  BY <1>3, <1>5
<1>8. \A i \in 1 .. n : (p \o Append(q, f))[i] = (p \o q)[i]
  BY <1>3, <1>5
<1> HIDE DEF n
<1> QED
  BY <1>6, <1>7, <1>8, <1>a DEF Longer

-------------------------------------------------------------------------------
(* What the handlers put on the line of one connection *)

\* A snapshot belongs to the subscription that is at work.
Says(x, f) == f.t = "snapshot" => Follows(x) /\ f.sub = x.eng.sub /\ f.req[1] = f.sub

LEMMA ElsewhereHears ==
  ASSUME NEW x, NEW y, Line(y) = Line(x), NEW s, s # 0, SubOf(x) # s, NEW A, NEW B
  PROVE HearsOf(x, y, s, A, B)
BY DEF HearsOf, Hears, Will, Fine

LEMMA SameLineFlows ==
  ASSUME NEW x, NEW y, Line(y) = Line(x), SubOf(y) = SubOf(x), Follows(y) => Follows(x) /\ y.eng.sub = x.eng.sub,
         y.link = x.link
  PROVE Flows(x, y)
BY DEF Flows, Numbers, HearsOf, Hears, Will, Within

LEMMA FineMore ==
  ASSUME NEW z, NEW a, NEW k, NEW s, NEW D, NEW A, NEW B, A \subseteq B, Fine(z, a, k, s, D, A)
  PROVE Fine(z, a, k, s, D, B)
BY DEF Fine, Settled

LEMMA MoreHears ==
  ASSUME NEW x, NEW s, NEW A, NEW B, A \subseteq B PROVE HearsOf(x, x, s, A, B)
BY FineMore DEF HearsOf, Hears, Will

LEMMA HearsOfTwice ==
  ASSUME NEW x, NEW y, NEW z, NEW s, NEW A, NEW B, NEW C, HearsOf(x, y, s, A, B), HearsOf(y, z, s, B, C)
  PROVE HearsOf(x, z, s, A, C)
BY DEF HearsOf

LEMMA LineIs ==
  ASSUME NEW x, IsConn(x)
  PROVE /\ Framed(Line(x)) /\ Len(Line(x)) \in Nat /\ DOMAIN Line(x) = 1 .. Len(Line(x))
        /\ Len(x.wire) \in Nat /\ Len(x.queue) \in Nat /\ Len(Line(x)) = Len(x.wire) + Len(x.queue)
        /\ DOMAIN x.wire = 1 .. Len(x.wire) /\ DOMAIN x.queue = 1 .. Len(x.queue)
        /\ \A i \in DOMAIN x.wire : i \in DOMAIN Line(x) /\ Line(x)[i] = x.wire[i]
        /\ \A i \in DOMAIN x.queue : Len(x.wire) + i \in DOMAIN Line(x)
                                     /\ Line(x)[Len(x.wire) + i] = x.queue[i]
        /\ \A i \in DOMAIN Line(x) : i \in DOMAIN x.wire
             \/ (i - Len(x.wire) \in DOMAIN x.queue /\ i = Len(x.wire) + (i - Len(x.wire)))
<1>1. PICK S : x.wire \in Seq(S)
  BY DEF IsConn, Framed, IsSeq
<1>2. PICK U : x.queue \in Seq(U)
  BY DEF IsConn, Framed, IsSeq
<1> DEFINE V == S \cup U
           p == x.wire
           q == x.queue
           z == p \o q
<1>3. p \in Seq(V) /\ q \in Seq(V)
  BY <1>1, <1>2
<1>4. z = Line(x)
  BY DEF Line
<1>5. Framed(z)
  BY ConcatFramed DEF IsConn
<1> HIDE DEF V, p, q
<1>6. /\ z \in Seq(V) /\ Len(p) \in Nat /\ Len(q) \in Nat /\ Len(z) = Len(p) + Len(q)
      /\ DOMAIN p = 1 .. Len(p) /\ DOMAIN q = 1 .. Len(q) /\ DOMAIN z = 1 .. Len(p) + Len(q)
      /\ \A i \in 1 .. Len(p) + Len(q) : z[i] = IF i <= Len(p) THEN p[i] ELSE q[i - Len(p)]
  BY <1>3
<1> HIDE DEF z
<1>7. \A i \in DOMAIN p : i \in DOMAIN z /\ z[i] = p[i]
  BY <1>6
<1>8. \A i \in DOMAIN q : Len(p) + i \in DOMAIN z /\ z[Len(p) + i] = q[i]
  BY <1>6
<1>9. \A i \in DOMAIN z : i \in DOMAIN p \/ (i - Len(p) \in DOMAIN q /\ i = Len(p) + (i - Len(p)))
  BY <1>6
<1>10. /\ Framed(z) /\ Len(z) \in Nat /\ DOMAIN z = 1 .. Len(z)
       /\ Len(p) \in Nat /\ Len(q) \in Nat /\ Len(z) = Len(p) + Len(q)
       /\ DOMAIN p = 1 .. Len(p) /\ DOMAIN q = 1 .. Len(q)
  BY <1>5, <1>6
<1> QED BY <1>4, <1>7, <1>8, <1>9, <1>10 DEF p, q

\* The connection is closed, and is told so.
Final(last) == last # << >> /\ \A s : Bids(last[Len(last)], s)
LEMMA ClosedHears ==
  ASSUME NEW x, IsConn(x), x.open, NEW last, Framed(last), Final(last),
         \A i \in DOMAIN last : last[i].t = "snapshot" => \E j \in DOMAIN x.queue : x.queue[j] = last[i]
  PROVE /\ Numbers(x, ClosedC(x, last))
        /\ \A v, s, A, B : HearsOf(v, ClosedC(x, last), s, A, B)
<1> DEFINE e == << >>
           y == [x EXCEPT !.open = FALSE, !.eng = NoEngine, !.queue = e, !.wire = @ \o last]
           z == ClosedC(x, last)
<1>0. Framed(e)
  BY EmptyIsSeq
<1>1. z = y
  BY DEF ClosedC
<1>2. PICK S : x.wire \in Seq(S)
  BY DEF IsConn, Framed, IsSeq
<1>3. PICK U : last \in Seq(U)
  BY DEF Framed, IsSeq
<1> DEFINE V == S \cup U
           p == x.wire
           w == p \o last
           m == Len(p) + Len(last)
<1>4. p \in Seq(V) /\ last \in Seq(V) /\ w \o e = w
  BY <1>2, <1>3
<1> HIDE DEF e
<1>5. z.wire = w /\ z.queue = e /\ z.eng = NoEngine /\ z.link = x.link
  BY <1>1 DEF IsConn
<1>6. Line(z) = w
  BY <1>4, <1>5 DEF Line
<1>7. ~Follows(z)
  BY <1>5, NoEngineIsEngine DEF Follows
<1> HIDE DEF y, z, V
<1>8. /\ w \in Seq(V) /\ Len(p) \in Nat /\ Len(last) \in Nat /\ Len(last) > 0
      /\ DOMAIN last = 1 .. Len(last) /\ DOMAIN w = 1 .. m /\ DOMAIN p = 1 .. Len(p) /\ m \in Nat
      /\ \A i \in 1 .. m : w[i] = IF i <= Len(p) THEN p[i] ELSE last[i - Len(p)]
      /\ m = Len(p) + Len(last)
  BY <1>4 DEF Final
<1>9. w[m] = last[Len(last)] /\ 0 < m /\ m \in DOMAIN w
  BY <1>8
<1> HIDE DEF w, m
<1>10. \A s : Bids(w[m], s)
  BY <1>9 DEF Final
<1>11. \A s, D, B : Hears(z, s, D, B)
  <2> TAKE s, D, B
  <2>1. 0 \in Nat /\ 0 < m /\ DOMAIN w = 1 .. m /\ m \in Nat
    BY <1>8, <1>9
  <2>2. Fine(w, SubOf(z), 0, s, D, B)
    BY <2>1, <1>10, FineLast
  <2> QED BY <2>2, <1>6 DEF Hears
<1>12. \A s, B : Will(z, s, B)
  <2> SUFFICES ASSUME NEW s, NEW B, NEW k \in DOMAIN w, w[k].t = "snapshot"
               PROVE Fine(w, SubOf(z), k, s, {}, B)
    BY <1>6 DEF Will
  <2>1. k # m
    BY <1>10 DEF Bids
  <2>2. k \in Nat /\ k < m /\ DOMAIN w = 1 .. m /\ m \in Nat
    BY <1>8, <2>1
  <2> QED BY <2>2, <1>10, FineLast
<1>13. ASSUME NEW T, Within(x, T) PROVE Within(z, T)
  <2> SUFFICES ASSUME NEW k \in DOMAIN w, w[k].t = "snapshot"
               PROVE w[k].req[1] = w[k].sub /\ w[k].sub \in T
    BY <1>5, <1>6, <1>7, <1>13 DEF Within
  <2>1. CASE k <= Len(p)
    <3>1. k \in DOMAIN p /\ w[k] = p[k]
      BY <1>8, <2>1
    <3>2. k \in DOMAIN Line(x) /\ Line(x)[k] = p[k]
      BY <3>1, LineIs
    <3> QED BY <3>1, <3>2, <1>13 DEF Within
  <2>2. CASE ~(k <= Len(p))
    <3>1. k - Len(p) \in DOMAIN last /\ w[k] = last[k - Len(p)]
      BY <1>8, <2>2
    <3>2. PICK j \in DOMAIN x.queue : x.queue[j] = w[k]
      BY <3>1
    <3>3. Len(p) + j \in DOMAIN Line(x) /\ Line(x)[Len(p) + j] = w[k]
      BY <3>2, LineIs
    <3> QED BY <3>3, <1>13 DEF Within
  <2> QED BY <2>1, <2>2
<1> QED
  BY <1>11, <1>12, <1>13 DEF z, HearsOf, Numbers

LEMMA OverflowFinal ==
  /\ Final(OverflowLast)
  /\ \A i \in DOMAIN OverflowLast : OverflowLast[i].t # "snapshot"
<1> DEFINE a == ErrorFrame(4431, << 0, 0 >>, 0)
           b == CloseFrame
           w == << a, b >>
<1>1. OverflowLast = w
  BY DEF OverflowLast
<1>2. a.t = "error" /\ b.t = "close" /\ b.sub = 0
  BY DEF ErrorFrame, CloseFrame, NoFrame
<1> HIDE DEF a, b
<1>3. Len(w) = 2 /\ w # << >> /\ w[1] = a /\ w[2] = b /\ DOMAIN w = {1, 2}
  OBVIOUS
<1> HIDE DEF w
<1>4. \A s : Bids(w[Len(w)], s)
  BY <1>2, <1>3 DEF Bids
<1>5. \A i \in DOMAIN w : w[i].t # "snapshot"
  BY <1>2, <1>3
<1> QED BY <1>1, <1>3, <1>4, <1>5 DEF Final

LEMMA FullHears ==
  ASSUME NEW x, IsConn(x), x.open
  PROVE /\ Numbers(x, ClosedC(x, OverflowLast))
        /\ \A v, s, A, B : HearsOf(v, ClosedC(x, OverflowLast), s, A, B)
BY OverflowFinal, OverflowFramed, ClosedHears

LEMMA AppendHears ==
  ASSUME NEW x, IsConn(x), NEW f, Says(x, f), NEW y, y.wire = x.wire, y.queue = Append(x.queue, f),
         y.eng = x.eng, NEW s, NEW A, NEW B, f.t = "ui-request" => f.req[2] \in B,
         \A q \in A : q \in B \/ (f.t = "ui-closed" /\ f.req = AskId(q))
  PROVE HearsOf(x, y, s, A, B)
<1> DEFINE z == Line(x)
           w == Line(y)
           a == SubOf(x)
<1>1. SubOf(y) = a /\ (Follows(y) <=> Follows(x))
  BY DEF SubOf, Follows
<1>2. Longer(z, w, f)
  BY AppendLonger
<1> HIDE DEF z, w, a
<1>3. PICK n \in Nat : /\ DOMAIN z = 1 .. n /\ DOMAIN w = 1 .. (n + 1)
                       /\ w[n + 1] = f /\ \A i \in 1 .. n : w[i] = z[i]
  BY <1>2 DEF Longer
<1>4. ASSUME NEW k, k = 0 \/ k \in DOMAIN z, NEW D, Fine(z, a, k, s, D, A) PROVE Fine(w, a, k, s, D, B)
  BY <1>2, <1>4, FineLonger
<1>5. ASSUME NEW D, Hears(x, s, D, A) PROVE Hears(y, s, D, B)
  BY <1>1, <1>4, <1>5 DEF Hears, z, w, a
<1>6. ASSUME Will(x, s, A), NEW k \in DOMAIN w, w[k].t = "snapshot", w[k].sub = s
      PROVE Fine(w, a, k, s, {}, B)
  <2>1. CASE k = n + 1
    <3>1. f.t = "snapshot" /\ f.sub = s
      BY <1>3, <1>6, <2>1
    <3>2. a = s
      BY <3>1 DEF Says, SubOf, a
    <3>3. ~\E i \in DOMAIN w : i > k
      BY <1>3, <2>1
    <3> QED BY <3>2, <3>3 DEF Fine
  <2>2. CASE k # n + 1
    <3>1. k \in DOMAIN z /\ z[k] = w[k]
      BY <1>3, <2>2
    <3>2. Fine(z, a, k, s, {}, A)
      BY <3>1, <1>6 DEF Will, z, a
    <3> QED BY <1>4, <3>1, <3>2
  <2> QED BY <2>1, <2>2
<1>7. Will(x, s, A) => Will(y, s, B)
  BY <1>1, <1>6 DEF Will, w
<1> QED BY <1>5, <1>7 DEF HearsOf

LEMMA AppendNumbers ==
  ASSUME NEW x, IsConn(x), NEW f, Says(x, f), NEW y, y.wire = x.wire, y.queue = Append(x.queue, f),
         y.eng = x.eng, y.link = x.link
  PROVE Numbers(x, y)
<1> DEFINE z == Line(x)
           w == Line(y)
<1>1. Follows(y) <=> Follows(x)
  BY DEF Follows
<1>2. Longer(z, w, f)
  BY AppendLonger
<1> HIDE DEF z, w
<1>3. PICK n \in Nat : /\ DOMAIN z = 1 .. n /\ DOMAIN w = 1 .. (n + 1)
                       /\ w[n + 1] = f /\ \A i \in 1 .. n : w[i] = z[i]
  BY <1>2 DEF Longer
<1>4. ASSUME NEW T, Within(x, T), NEW k \in DOMAIN w, w[k].t = "snapshot"
      PROVE w[k].req[1] = w[k].sub /\ w[k].sub \in T
  <2>1. CASE k = n + 1
    <3>1. f = w[k] /\ f.t = "snapshot"
      BY <1>3, <1>4, <2>1
    <3>2. Follows(x) /\ f.sub = x.eng.sub /\ f.req[1] = f.sub
      BY <3>1 DEF Says
    <3> QED BY <3>1, <3>2, <1>4 DEF Within
  <2>2. CASE k # n + 1
    <3>1. k \in DOMAIN z /\ z[k] = w[k]
      BY <1>3, <2>2
    <3> QED BY <3>1, <1>4 DEF Within, z
  <2> QED BY <2>1, <2>2
<1>5. ASSUME NEW T, Within(x, T) PROVE (Follows(y) => y.eng.sub \in T) /\ (y.link \/ 0 \in T)
  BY <1>1, <1>5 DEF Within
<1> QED
  BY <1>4, <1>5 DEF Numbers, Within, w

LEMMA EnqueueHears ==
  ASSUME NEW x, IsConn(x), NEW f, IsFrame(f), Says(x, f), NEW s, NEW A, NEW B,
         f.t = "ui-request" => f.req[2] \in B,
         \A q \in A : q \in B \/ (f.t = "ui-closed" /\ f.req = AskId(q) /\ x.open)
  PROVE HearsOf(x, EnqueueC(x, f), s, A, B) /\ Numbers(x, EnqueueC(x, f))
<1>1. CASE ~x.open
  <2>1. EnqueueC(x, f) = x /\ A \subseteq B
    BY <1>1 DEF EnqueueC
  <2> QED BY <2>1, MoreHears DEF Numbers
<1>2. CASE x.open /\ Len(x.queue) + 1 > QueueMax
  <2>1. EnqueueC(x, f) = ClosedC(x, OverflowLast)
    BY <1>2 DEF EnqueueC
  <2> QED BY <1>2, <2>1, FullHears
<1>3. CASE x.open /\ ~(Len(x.queue) + 1 > QueueMax)
  <2> DEFINE y == [x EXCEPT !.queue = Append(@, f)]
  <2>1. EnqueueC(x, f) = y
    BY <1>3 DEF EnqueueC
  <2>2. y.wire = x.wire /\ y.queue = Append(x.queue, f) /\ y.eng = x.eng /\ y.link = x.link
    BY DEF IsConn
  <2> HIDE DEF y
  <2>3. HearsOf(x, y, s, A, B)
    BY <2>2, AppendHears
  <2>4. Numbers(x, y)
    BY <2>2, AppendNumbers
  <2> QED BY <2>1, <2>3, <2>4
<1> QED BY <1>1, <1>2, <1>3 DEF IsConn

LEMMA EnqueueFlows ==
  ASSUME NEW x, IsConn(x), NEW f, IsFrame(f), Says(x, f), f.t # "ui-request"
  PROVE Flows(x, EnqueueC(x, f))
<1>1. Numbers(x, EnqueueC(x, f))
  BY EnqueueHears
<1>2. \A s, A : HearsOf(x, EnqueueC(x, f), s, A, A)
  BY EnqueueHears
<1> QED BY <1>1, <1>2 DEF Flows

LEMMA EmitFlows ==
  ASSUME NEW x, IsConn(x), NEW f, IsFrame(f), Says(x, f), f.t # "ui-request"
  PROVE Flows(x, EmitC(x, f))
<1> DEFINE y == EnqueueC(x, f)
           z == StruckC(x, f)
           cl == << CloseFrame >>
           last == z.queue \o cl
<1>1. IsConn(y) /\ Flows(x, y)
  BY EnqueueCFades, EnqueueFlows
<1>2. IsConn(z) /\ z.wire = y.wire /\ z.queue = y.queue /\ z.eng = y.eng /\ z.open = y.open /\ z.link = y.link
  BY <1>1 DEF StruckC, IsConn
<1>3. Flows(y, z)
  <2>1. Line(z) = Line(y) /\ SubOf(z) = SubOf(y) /\ (Follows(z) <=> Follows(y))
    BY <1>2 DEF Line, SubOf, Follows
  <2> QED BY <2>1, <1>2, SameLineFlows
<1>4. Framed(cl) /\ Len(cl) = 1 /\ DOMAIN cl = {1} /\ cl[1].t = "close" /\ cl[1].sub = 0
  <2>1. Framed(cl)
    BY ErrorIsFrame, PairFramed
  <2>2. CloseFrame.t = "close" /\ CloseFrame.sub = 0
    BY DEF CloseFrame, NoFrame
  <2> QED BY <2>1, <2>2
<1> HIDE DEF y, z, cl
<1>5. Framed(z.queue) /\ Framed(last)
  BY <1>2, <1>4, ConcatFramed DEF IsConn
<1>6. /\ Len(z.queue) \in Nat /\ Len(last) = Len(z.queue) + 1 /\ DOMAIN last = 1 .. Len(last)
      /\ DOMAIN z.queue = 1 .. Len(z.queue)
      /\ last[Len(last)] = cl[1] /\ last # << >>
      /\ \A i \in 1 .. Len(z.queue) : last[i] = z.queue[i]
  <2>1. PICK S : z.queue \in Seq(S)
    BY <1>5 DEF Framed, IsSeq
  <2>2. PICK U : cl \in Seq(U)
    BY <1>4 DEF Framed, IsSeq
  <2> DEFINE q == z.queue
  <2>3. q \in Seq(S \cup U) /\ cl \in Seq(S \cup U)
    BY <2>1, <2>2
  <2> DEFINE V == S \cup U
           w == q \o cl
  <2> HIDE DEF q, V
  <2>a. q \in Seq(V) /\ cl \in Seq(V)
    BY <2>3 DEF V
  <2>b. /\ w \in Seq(V) /\ Len(q) \in Nat /\ Len(w) = Len(q) + Len(cl) /\ DOMAIN w = 1 .. Len(q) + Len(cl)
        /\ DOMAIN q = 1 .. Len(q)
        /\ \A i \in 1 .. Len(q) + Len(cl) : w[i] = IF i <= Len(q) THEN q[i] ELSE cl[i - Len(q)]
    BY <2>a
  <2> HIDE DEF w
  <2>c. w[Len(q) + 1] = cl[1]
    BY <2>b, <1>4
  <2>d. \A i \in 1 .. Len(q) : w[i] = q[i]
    BY <2>b, <1>4
  <2>e. Len(w) = Len(q) + 1 /\ w # << >>
    BY <2>b, <1>4
  <2> QED BY <2>b, <2>c, <2>d, <2>e, <1>4 DEF q, w, last
<1> HIDE DEF last
<1>7. Final(last)
  BY <1>4, <1>6 DEF Final, Bids
<1>8. \A i \in DOMAIN last : last[i].t = "snapshot" => \E j \in DOMAIN z.queue : z.queue[j] = last[i]
  <2> SUFFICES ASSUME NEW i \in DOMAIN last, last[i].t = "snapshot" PROVE \E j \in DOMAIN z.queue : z.queue[j] = last[i]
    OBVIOUS
  <2>1. i # Len(last)
    BY <1>4, <1>6
  <2>2. i \in 1 .. Len(z.queue)
    BY <1>6, <2>1
  <2> QED BY <2>2, <1>6
<1>9. z.open => Flows(z, ClosedC(z, last))
  BY <1>2, <1>5, <1>7, <1>8, ClosedHears DEF Flows
<1>10. EmitC(x, f) = IF f.code # 4404 \/ ~y.open THEN y
                     ELSE IF x.strikes + 1 >= StrikeMax THEN ClosedC(z, last) ELSE z
  BY DEF EmitC, y, z, last, cl
<1>11. Flows(x, z)
  BY <1>1, <1>3, FlowsTwice
<1>12. z.open => Flows(x, ClosedC(z, last))
  BY <1>9, <1>11, FlowsTwice
<1> QED
  BY <1>1, <1>2, <1>10, <1>11, <1>12

-------------------------------------------------------------------------------
(* The frames of a subscription are withdrawn, the others keep their order *)

StayBehind(z, i, w, n, t) == \A j \in 1 .. i : z[j].sub # t => \E m \in DOMAIN w : m > n /\ w[m] = z[j]
StaysOf(z, i, w, t) ==
  /\ \A j \in 1 .. i : z[j].sub # t => \E m \in DOMAIN w : w[m] = z[j]
  /\ \A n \in DOMAIN w : \E k \in 1 .. i :
       /\ z[k] = w[n]
       /\ \A j \in 1 .. i : j > k /\ z[j].sub # t => \E m \in DOMAIN w : m > n /\ w[m] = z[j]
KeepsTo(z, i, w, t) == Framed(w) /\ StaysOf(z, i, w, t)
Survive == INSTANCE FoldRules WITH
  op <- LAMBDA sub, f, acc : IF f.sub # sub THEN Append(acc, f) ELSE acc,
  P <- LAMBDA z, sub, i, acc : KeepsTo(z, i, acc, sub)

LEMMA KeepsStep ==
  ASSUME NEW z, Framed(z), NEW t, NEW i \in DOMAIN z, NEW w, KeepsTo(z, i - 1, w, t)
  PROVE KeepsTo(z, i, IF z[i].sub # t THEN Append(w, z[i]) ELSE w, t)
<1>1. i \in Nat \ {0}
  <2>1. PICK S : z \in Seq(S)
    BY DEF Framed, IsSeq
  <2> QED BY <2>1
<1>2. \A j \in 1 .. i : j \in 1 .. i - 1 \/ j = i
  BY <1>1
<1>3. \A j \in 1 .. i - 1 : j \in 1 .. i
  BY <1>1
<1>4. CASE z[i].sub = t
  <2>1. \A j \in 1 .. i : z[j].sub # t => j \in 1 .. i - 1
    BY <1>2, <1>4
  <2>2. \A j \in 1 .. i : z[j].sub # t => \E m \in DOMAIN w : w[m] = z[j]
    BY <2>1 DEF KeepsTo, StaysOf
  <2>3. ASSUME NEW n \in DOMAIN w
        PROVE \E k \in 1 .. i : z[k] = w[n] /\ \A j \in 1 .. i : j > k /\ z[j].sub # t =>
                \E m \in DOMAIN w : m > n /\ w[m] = z[j]
    <3>1. PICK k \in 1 .. i - 1 : z[k] = w[n] /\ \A j \in 1 .. i - 1 : j > k /\ z[j].sub # t =>
                \E m \in DOMAIN w : m > n /\ w[m] = z[j]
      BY DEF KeepsTo, StaysOf
    <3> QED BY <3>1, <1>3, <2>1
  <2> QED BY <1>4, <2>2, <2>3 DEF KeepsTo, StaysOf
<1>5. CASE z[i].sub # t
  <2> DEFINE v == Append(w, z[i])
  <2>1. PICK S : w \in Seq(S)
    BY DEF KeepsTo, Framed, IsSeq
  <2> DEFINE V == S \cup {z[i]}
  <2>2. w \in Seq(V) /\ z[i] \in V
    BY <2>1
  <2> HIDE DEF V
  <2>3. /\ Len(w) \in Nat /\ DOMAIN w = 1 .. Len(w) /\ DOMAIN v = 1 .. (Len(w) + 1)
        /\ v[Len(w) + 1] = z[i] /\ \A m \in 1 .. Len(w) : v[m] = w[m]
    BY <2>2
  <2>4. IsFrame(z[i]) /\ Framed(w)
    BY DEF Framed, KeepsTo
  <2>5. Framed(v)
    BY <2>4, AppendFramed
  <2> HIDE DEF v
  <2>6. Len(w) + 1 \in DOMAIN v /\ \A m \in DOMAIN w : m \in DOMAIN v /\ v[m] = w[m] /\ Len(w) + 1 > m
    BY <2>3
  <2>7. ASSUME NEW j \in 1 .. i, z[j].sub # t PROVE \E m \in DOMAIN v : v[m] = z[j]
    <3>1. CASE j = i
      BY <3>1, <2>3, <2>6
    <3>2. CASE j \in 1 .. i - 1
      <4>1. PICK m \in DOMAIN w : w[m] = z[j]
        BY <3>2, <2>7 DEF KeepsTo, StaysOf
      <4> QED BY <4>1, <2>6
    <3> QED BY <1>2, <3>1, <3>2
  <2>8. ASSUME NEW n \in DOMAIN v
        PROVE \E k \in 1 .. i : z[k] = v[n] /\ \A j \in 1 .. i : j > k /\ z[j].sub # t =>
                \E m \in DOMAIN v : m > n /\ v[m] = z[j]
    <3>1. CASE n = Len(w) + 1
      <4>1. ~\E j \in 1 .. i : j > i
        BY <1>1
      <4>2. i \in 1 .. i /\ z[i] = v[n]
        BY <1>1, <3>1, <2>3
      <4> QED BY <4>1, <4>2
    <3>2. CASE n # Len(w) + 1
      <4>1. n \in DOMAIN w /\ v[n] = w[n]
        BY <3>2, <2>3
      <4>2. PICK k \in 1 .. i - 1 : z[k] = w[n] /\ \A j \in 1 .. i - 1 : j > k /\ z[j].sub # t =>
                \E m \in DOMAIN w : m > n /\ w[m] = z[j]
        BY <4>1 DEF KeepsTo, StaysOf
      <4>3. ASSUME NEW j \in 1 .. i, j > k, z[j].sub # t PROVE \E m \in DOMAIN v : m > n /\ v[m] = z[j]
        <5>1. CASE j = i
          BY <5>1, <4>1, <2>3, <2>6
        <5>2. CASE j \in 1 .. i - 1
          <6>1. PICK m \in DOMAIN w : m > n /\ w[m] = z[j]
            BY <5>2, <4>2, <4>3
          <6> QED BY <6>1, <2>6
        <5> QED BY <1>2, <5>1, <5>2
      <4> QED BY <4>1, <4>2, <4>3, <1>3
    <3> QED BY <3>1, <3>2
  <2> QED BY <1>5, <2>5, <2>7, <2>8 DEF KeepsTo, StaysOf, v
<1> QED BY <1>4, <1>5

LEMMA KeptStay ==
  ASSUME NEW q, Framed(q), NEW t PROVE StaysOf(q, Len(q), KeptFrames(q, t), t)
<1> DEFINE e == << >>
           n == Len(q)
<1>1. KeptFrames(q, t) = Survive!Along(t, << >>, q)
  BY DEF KeptFrames, Survive!Along, Survive!Largest, FoldLeft, MapThenFoldSet, Max
<1>2. KeepsTo(q, 0, e, t)
  BY EmptyIsSeq DEF KeepsTo, StaysOf
<1>3. n \in Nat /\ DOMAIN q = 1 .. n
  <2>1. PICK S : q \in Seq(S)
    BY DEF IsSeq, Framed
  <2> QED BY <2>1
<1>4. \A i \in 1 .. n : \A acc : KeepsTo(q, i - 1, acc, t) =>
        KeepsTo(q, i, IF q[i].sub # t THEN Append(acc, q[i]) ELSE acc, t)
  BY <1>3, KeepsStep
<1> HIDE DEF n, e
<1>5. KeepsTo(q, n, Survive!Along(t, e, q), t)
  BY <1>2, <1>3, <1>4, IntervalFounded, Survive!FoldLeftRule
<1> QED
  BY <1>1, <1>5 DEF e, n, KeepsTo

LEMMA CancelLine ==
  ASSUME NEW x, IsConn(x), NEW t
  PROVE StaysOf(Line(x), Len(Line(x)), Line(CancelC(x, t)), t)
<1> DEFINE y == CancelC(x, t)
           p == x.wire
           q == x.queue
           r == KeptFrames(q, t)
           z == Line(x)
           w == Line(y)
           a == Len(p)
<1>1. IsConn(y) /\ y.wire = p /\ y.queue = r
  <2>1. IsConn(y)
    BY CancelCFades
  <2> QED BY <2>1 DEF CancelC, IsConn
<1>2. StaysOf(q, Len(q), r, t)
  BY KeptStay DEF IsConn
<1> HIDE DEF y, r
<1>3. /\ a \in Nat /\ Len(q) \in Nat /\ Len(z) \in Nat /\ DOMAIN z = 1 .. Len(z) /\ Len(z) = a + Len(q)
      /\ DOMAIN p = 1 .. a /\ DOMAIN q = 1 .. Len(q)
      /\ \A i \in DOMAIN p : i \in DOMAIN z /\ z[i] = p[i]
      /\ \A i \in DOMAIN q : a + i \in DOMAIN z /\ z[a + i] = q[i]
      /\ \A i \in DOMAIN z : i \in DOMAIN p \/ (i - a \in DOMAIN q /\ i = a + (i - a))
  BY LineIs
<1>4. /\ Len(r) \in Nat /\ DOMAIN r = 1 .. Len(r)
      /\ \A i \in DOMAIN p : i \in DOMAIN w /\ w[i] = p[i]
      /\ \A i \in DOMAIN r : a + i \in DOMAIN w /\ w[a + i] = r[i]
      /\ \A i \in DOMAIN w : i \in DOMAIN p \/ (i - a \in DOMAIN r /\ i = a + (i - a))
  <2> DEFINE pp == y.wire
             rr == y.queue
  <2>1. /\ Len(rr) \in Nat /\ DOMAIN rr = 1 .. Len(rr)
        /\ \A i \in DOMAIN pp : i \in DOMAIN w /\ w[i] = pp[i]
        /\ \A i \in DOMAIN rr : Len(pp) + i \in DOMAIN w /\ w[Len(pp) + i] = rr[i]
        /\ \A i \in DOMAIN w : i \in DOMAIN pp \/ (i - Len(pp) \in DOMAIN rr /\ i = Len(pp) + (i - Len(pp)))
    BY <1>1, LineIs
  <2>2. pp = p /\ rr = r /\ Len(pp) = a
    BY <1>1
  <2> HIDE DEF pp, rr, w, p, a
  <2> QED BY <2>1, <2>2
<1> HIDE DEF z, w, p, q, a
<1>5. ASSUME NEW j \in DOMAIN z, z[j].sub # t, ~(j \in DOMAIN p)
      PROVE \E m \in DOMAIN r : r[m] = z[j] /\ a + m \in DOMAIN w /\ w[a + m] = z[j] /\ a + m > a
  <2>1. j - a \in DOMAIN q /\ z[j] = q[j - a]
    BY <1>3, <1>5
  <2>2. PICK m \in DOMAIN r : r[m] = q[j - a]
    BY <2>1, <1>2, <1>3, <1>5 DEF StaysOf
  <2> QED BY <2>1, <2>2, <1>3, <1>4
<1>6. ASSUME NEW j \in DOMAIN z, z[j].sub # t PROVE \E m \in DOMAIN w : w[m] = z[j]
  <2>1. CASE j \in DOMAIN p
    BY <2>1, <1>3, <1>4
  <2>2. CASE ~(j \in DOMAIN p)
    BY <2>2, <1>5, <1>6
  <2> QED BY <2>1, <2>2
<1>7. ASSUME NEW n \in DOMAIN w
      PROVE \E k \in DOMAIN z : z[k] = w[n] /\ \A j \in DOMAIN z : j > k /\ z[j].sub # t =>
                \E m \in DOMAIN w : m > n /\ w[m] = z[j]
  <2>1. CASE n \in DOMAIN p
    <3>1. n \in DOMAIN z /\ z[n] = w[n]
      BY <2>1, <1>3, <1>4
    <3>2. ASSUME NEW j \in DOMAIN z, j > n, z[j].sub # t PROVE \E m \in DOMAIN w : m > n /\ w[m] = z[j]
      <4>1. CASE j \in DOMAIN p
        BY <4>1, <3>2, <1>3, <1>4
      <4>2. CASE ~(j \in DOMAIN p)
        <5>1. PICK m \in DOMAIN r : a + m \in DOMAIN w /\ w[a + m] = z[j] /\ a + m > a
          BY <4>2, <3>2, <1>5
        <5>2. a + m > n
          BY <5>1, <2>1, <1>3, <1>4
        <5> QED BY <5>1, <5>2
      <4> QED BY <4>1, <4>2
    <3> QED BY <3>1, <3>2
  <2>2. CASE ~(n \in DOMAIN p)
    <3>1. n - a \in DOMAIN r /\ n = a + (n - a) /\ w[n] = r[n - a] /\ n \in Nat
      BY <2>2, <1>3, <1>4
    <3>2. PICK k \in 1 .. Len(q) : q[k] = r[n - a] /\ \A j \in 1 .. Len(q) : j > k /\ q[j].sub # t =>
                \E m \in DOMAIN r : m > n - a /\ r[m] = q[j]
      BY <3>1, <1>2 DEF StaysOf
    <3>3. a + k \in DOMAIN z /\ z[a + k] = w[n]
      BY <3>1, <3>2, <1>3
    <3>4. ASSUME NEW j \in DOMAIN z, j > a + k, z[j].sub # t PROVE \E m \in DOMAIN w : m > n /\ w[m] = z[j]
      <4>1. ~(j \in DOMAIN p)
        BY <3>4, <3>2, <1>3
      <4>2. j - a \in 1 .. Len(q) /\ j - a > k /\ z[j] = q[j - a]
        BY <4>1, <3>4, <3>2, <1>3
      <4>3. PICK m \in DOMAIN r : m > n - a /\ r[m] = q[j - a]
        BY <4>2, <3>2, <3>4
      <4>4. a + m \in DOMAIN w /\ w[a + m] = z[j] /\ a + m > n
        BY <4>2, <4>3, <3>1, <1>3, <1>4
      <4> QED BY <4>4
    <3> QED BY <3>3, <3>4
  <2> QED BY <2>1, <2>2
<1>8. \A j : j \in 1 .. Len(z) <=> j \in DOMAIN z
  BY <1>3
<1>9. StaysOf(z, Len(z), w, t)
  BY <1>6, <1>7, <1>8 DEF StaysOf
<1> QED BY <1>9 DEF z, w, y

LEMMA StayParted ==
  ASSUME NEW z, DOMAIN z = 1 .. Len(z), NEW w, DOMAIN w \subseteq Nat \ {0}, NEW t, StaysOf(z, Len(z), w, t), NEW s, s # t, t # 0
  PROVE /\ Parted(z, 0, s) => Parted(w, 0, s)
        /\ \A n \in DOMAIN w : \E k \in DOMAIN z : z[k] = w[n] /\ (Parted(z, k, s) => Parted(w, n, s))
<1>1. \A f : Bids(f, s) => f.sub # t
  BY DEF Bids
<1>2. ASSUME Parted(z, 0, s) PROVE Parted(w, 0, s)
  <2>1. PICK j \in DOMAIN z : j > 0 /\ Bids(z[j], s)
    BY <1>2 DEF Parted
  <2>2. PICK m \in DOMAIN w : w[m] = z[j]
    BY <1>1, <2>1 DEF StaysOf
  <2>3. m > 0
    OBVIOUS
  <2> QED BY <2>1, <2>2, <2>3 DEF Parted
<1>3. ASSUME NEW n \in DOMAIN w PROVE \E k \in DOMAIN z : z[k] = w[n] /\ (Parted(z, k, s) => Parted(w, n, s))
  <2>1. PICK k \in 1 .. Len(z) : z[k] = w[n] /\ \A j \in 1 .. Len(z) : j > k /\ z[j].sub # t =>
            \E m \in DOMAIN w : m > n /\ w[m] = z[j]
    BY DEF StaysOf
  <2>2. ASSUME Parted(z, k, s) PROVE Parted(w, n, s)
    <3>1. PICK j \in DOMAIN z : j > k /\ Bids(z[j], s)
      BY <2>2 DEF Parted
    <3>2. PICK m \in DOMAIN w : m > n /\ w[m] = z[j]
      BY <1>1, <2>1, <3>1
    <3> QED BY <3>1, <3>2 DEF Parted
  <2> QED BY <2>1, <2>2
<1> QED BY <1>2, <1>3

\* For the pages of other subscriptions nothing is lost.
LEMMA CancelHears ==
  ASSUME NEW x, IsConn(x), NEW t, t # 0
  PROVE /\ Numbers(x, CancelC(x, t))
        /\ \A s, A, B : s # t /\ SubOf(x) # s => HearsOf(x, CancelC(x, t), s, A, B)
<1> DEFINE y == CancelC(x, t)
           z == Line(x)
           w == Line(y)
<1>1. IsConn(y) /\ y.eng = x.eng /\ (Follows(y) <=> Follows(x)) /\ y.link = x.link
  BY CancelCFades DEF Fades
<1>2. StaysOf(z, Len(z), w, t)
  BY CancelLine
<1>3. DOMAIN z = 1 .. Len(z) /\ Len(z) \in Nat
  BY LineIs
<1> HIDE DEF y
<1>4. DOMAIN w = 1 .. Len(w) /\ Len(w) \in Nat
  BY <1>1, LineIs
<1>a. DOMAIN w \subseteq Nat \ {0}
  BY <1>4
<1> HIDE DEF z, w
<1>5. ASSUME NEW T, Within(x, T) PROVE Within(y, T)
  <2>1. ASSUME NEW n \in DOMAIN w, w[n].t = "snapshot" PROVE w[n].req[1] = w[n].sub /\ w[n].sub \in T
    <3>1. PICK k \in 1 .. Len(z) : z[k] = w[n]
      BY <1>2 DEF StaysOf
    <3> QED BY <1>3, <1>5, <2>1, <3>1 DEF Within, z
  <2>2. Follows(y) => y.eng.sub \in T
    BY <1>1, <1>5 DEF Within
  <2> QED BY <1>1, <1>5, <2>1, <2>2 DEF Within, w
<1>6. ASSUME NEW s, NEW A, NEW B, s # t, SubOf(x) # s PROVE HearsOf(x, y, s, A, B)
  <2>1. /\ Parted(z, 0, s) => Parted(w, 0, s)
        /\ \A n \in DOMAIN w : \E k \in DOMAIN z : z[k] = w[n] /\ (Parted(z, k, s) => Parted(w, n, s))
    BY <1>2, <1>3, <1>a, <1>6, StayParted
  <2>2. ASSUME NEW D, Hears(x, s, D, A) PROVE Hears(y, s, D, B)
    <3>1. Parted(z, 0, s)
      BY <1>6, <2>2 DEF Hears, Fine, z
    <3> QED BY <2>1, <3>1 DEF Hears, Fine, w
  <2>3. ASSUME Will(x, s, A), NEW n \in DOMAIN w, w[n].t = "snapshot", w[n].sub = s
        PROVE Fine(w, SubOf(y), n, s, {}, B)
    <3>1. PICK k \in DOMAIN z : z[k] = w[n] /\ (Parted(z, k, s) => Parted(w, n, s))
      BY <2>1
    <3>2. Fine(z, SubOf(x), k, s, {}, A)
      BY <2>3, <3>1 DEF Will, z
    <3>3. Parted(z, k, s)
      BY <3>2, <1>6 DEF Fine
    <3> QED BY <3>1, <3>3 DEF Fine
  <2> QED BY <2>2, <2>3 DEF HearsOf, Will, w
<1> QED BY <1>5, <1>6 DEF Numbers, y

LEMMA LastHears ==
  ASSUME NEW y, IsConn(y), NEW s, Line(y) # << >>, Bids(Line(y)[Len(Line(y))], s), NEW x, NEW A, NEW B
  PROVE HearsOf(x, y, s, A, B)
<1> DEFINE w == Line(y)
           m == Len(w)
<1>1. m \in Nat /\ DOMAIN w = 1 .. m /\ m > 0 /\ m \in DOMAIN w
  <2>1. Framed(w) /\ m \in Nat /\ DOMAIN w = 1 .. m
    BY LineIs
  <2>2. PICK S : w \in Seq(S)
    BY <2>1 DEF Framed, IsSeq
  <2> QED BY <2>1, <2>2
<1>2. Bids(w[m], s)
  OBVIOUS
<1> HIDE DEF w, m
<1>3. \A D, C : Hears(y, s, D, C)
  BY <1>1, <1>2, FineLast DEF Hears, w
<1>4. ASSUME NEW k \in DOMAIN w, w[k].t = "snapshot" PROVE Fine(w, SubOf(y), k, s, {}, B)
  <2>1. k # m
    BY <1>2, <1>4 DEF Bids
  <2>2. k \in Nat /\ k < m
    BY <1>1, <2>1
  <2> QED BY <1>1, <1>2, <2>2, FineLast
<1> QED BY <1>3, <1>4 DEF HearsOf, Will, w

\* The line ends with the end of subscription s.
Ends0(w, s) == w # << >> /\ Bids(w[Len(w)], s)
LEMMA ToldHears ==
  ASSUME NEW x, IsConn(x), x.open, NEW f, IsFrame(f), f.t = "error", f.req = << 0, 0 >>, f.sub # 0,
         NEW z, IsConn(z), Line(z) = Line(EnqueueC(x, f)),
         SubOf(z) = 0 \/ z = EnqueueC(x, f), NEW v, NEW A, NEW B
  PROVE HearsOf(v, z, f.sub, A, B)
<1> DEFINE y == EnqueueC(x, f)
           s == f.sub
<1>1. CASE Len(x.queue) + 1 > QueueMax
  <2>1. y = ClosedC(x, OverflowLast)
    BY <1>1 DEF EnqueueC
  <2>2. HearsOf(v, y, s, A, B)
    BY <2>1, FullHears
  <2>3. ~Follows(y)
    BY <2>1, OverflowFramed, ClosedCFades
  <2>a. z = y \/ (Line(z) = Line(y) /\ SubOf(z) = 0)
    OBVIOUS
  <2> HIDE DEF y
  <2>4. SubOf(y) = 0
    BY <2>3 DEF SubOf
  <2> QED BY <2>2, <2>4, <2>a DEF HearsOf, Hears, Will
<1>2. CASE ~(Len(x.queue) + 1 > QueueMax)
  <2> DEFINE u == [x EXCEPT !.queue = Append(@, f)]
             w == Line(z)
  <2>1. y = u
    BY <1>2 DEF EnqueueC
  <2>2. u.wire = x.wire /\ u.queue = Append(x.queue, f)
    BY DEF IsConn
  <2> HIDE DEF u
  <2>3. Longer(Line(x), Line(u), f)
    BY <2>2, AppendLonger
  <2>4. Longer(Line(x), w, f)
    BY <2>1, <2>3
  <2> HIDE DEF y, w
  <2>5. PICK n \in Nat : DOMAIN w = 1 .. (n + 1) /\ w[n + 1] = f
    BY <2>4 DEF Longer
  <2>6. Len(w) \in Nat /\ DOMAIN w = 1 .. Len(w)
    BY LineIs DEF w
  <2>7. Len(w) = n + 1 /\ w # << >>
    BY <2>5, <2>6
  <2>8. Bids(w[Len(w)], s)
    BY <2>5, <2>7 DEF Bids
  <2> QED BY <2>7, <2>8, LastHears DEF w
<1> QED BY <1>1, <1>2

LEMMA EndedFlows ==
  ASSUME NEW x, IsConn(x), NEW code, Follows(x) => x.open
  PROVE /\ Flows(x, EndedC(x, code))
        /\ Follows(x) => Flows(x, ToldC(x, code)) /\ Flows(ToldC(x, code), EndedC(x, code))
<1>1. CASE ~Follows(x)
  BY <1>1, FlowsSelf DEF EndedC
<1>2. CASE Follows(x)
  <2> DEFINE sub == x.eng.sub
             u == CancelC(x, sub)
             f == ErrorFrame(code, << 0, 0 >>, sub)
             y == EnqueueC(u, f)
             z == EndedC(x, code)
  <2>1. sub # 0 /\ SubOf(x) = sub
    BY <1>2 DEF IsConn, IsEngine, Follows, SubOf
  <2>2. IsConn(u) /\ u.open = x.open /\ u.eng = x.eng
    BY CancelCFades
  <2>3. IsFrame(f) /\ f.t = "error" /\ f.req = << 0, 0 >> /\ f.sub = sub
    BY ErrorIsFrame DEF ErrorFrame, NoFrame
  <2>4. y = ToldC(x, code)
    BY DEF ToldC
  <2>5. IsConn(z) /\ ~Follows(z) /\ IsConn(y) /\ z = [y EXCEPT !.eng = NoEngine]
    BY <1>2, <2>4, EndedCFades
  <2>6. Line(z) = Line(y) /\ SubOf(z) = 0 /\ z.link = y.link
    BY <2>5 DEF Line, SubOf, IsConn
  <2>7. Numbers(x, u) /\ \A s, A, B : s # sub /\ SubOf(x) # s => HearsOf(x, u, s, A, B)
    BY <2>1, CancelHears
  <2> HIDE DEF u, f, y, z, sub
  <2>8. Says(u, f) /\ f.t # "ui-request"
    BY <2>3 DEF Says
  <2>9. Numbers(u, y) /\ \A s, A : HearsOf(u, y, s, A, A)
    BY <2>2, <2>3, <2>8, EnqueueHears DEF y
  <2>10. Numbers(y, z)
    BY <2>5, <2>6 DEF Numbers, Within
  <2>11. Numbers(x, z)
    BY <2>7, <2>9, <2>10 DEF Numbers
  <2>12. SubOf(y) \in {0, sub}
    <3>1. Fades(u, y)
      BY <2>2, <2>3, EnqueueCFades DEF y
    <3> QED BY <3>1, <2>2 DEF Fades, SubOf, sub
  <2>13. ASSUME NEW s, s # 0, NEW A PROVE HearsOf(x, z, s, A, A)
    <3>1. CASE s = sub
      BY <3>1, <1>2, <2>1, <2>2, <2>3, <2>5, <2>6, ToldHears DEF y
    <3>2. CASE s # sub
      <4>1. HearsOf(x, u, s, A, A)
        BY <3>2, <2>1, <2>7
      <4>2. HearsOf(u, y, s, A, A)
        BY <2>9
      <4>3. HearsOf(y, z, s, A, A)
        BY <3>2, <2>6, <2>12, <2>13, ElsewhereHears
      <4> QED BY <4>1, <4>2, <4>3, HearsOfTwice
    <3> QED BY <3>1, <3>2
  <2>14. Numbers(x, y)
    BY <2>7, <2>9 DEF Numbers
  <2>15. ASSUME NEW s, s # 0, NEW A PROVE HearsOf(x, y, s, A, A) /\ HearsOf(y, z, s, A, A)
    <3>1. CASE s = sub
      <4>1. \A v : HearsOf(v, y, s, A, A)
        BY <3>1, <1>2, <2>1, <2>2, <2>3, <2>5, ToldHears DEF y
      <4>2. \A v : HearsOf(v, z, s, A, A)
        BY <3>1, <1>2, <2>1, <2>2, <2>3, <2>5, <2>6, ToldHears DEF y
      <4> QED BY <4>1, <4>2
    <3>2. CASE s # sub
      <4>1. HearsOf(x, u, s, A, A)
        BY <3>2, <2>1, <2>7
      <4>2. HearsOf(u, y, s, A, A)
        BY <2>9
      <4>3. HearsOf(y, z, s, A, A)
        BY <3>2, <2>6, <2>12, <2>15, ElsewhereHears
      <4> QED BY <4>1, <4>2, <4>3, HearsOfTwice
    <3> QED BY <3>1, <3>2
  <2>16. y = ToldC(x, code)
    BY <2>4
  <2> QED BY <2>10, <2>11, <2>13, <2>14, <2>15, <2>16 DEF Flows, z
<1> QED BY <1>1, <1>2

\* A connection without a subscription is given one, and its first snapshot.
LEMMA StartHears ==
  ASSUME NEW x, IsConn(x), ~Follows(x), NEW e, IsEngine(e), e.phase # "none",
         NEW f, IsFrame(f), f.t = "snapshot", f.sub = e.sub, f.req[1] = f.sub
  PROVE LET z == EmitC([x EXCEPT !.eng = e], f)
        IN /\ \A s, A : s # 0 => HearsOf(x, z, s, A, A)
           /\ \A T : Within(x, T) /\ e.sub \in T => Within(z, T)
<1> DEFINE y == [x EXCEPT !.eng = e]
           z == EmitC(y, f)
<1>1. IsConn(y) /\ y.eng = e /\ Line(y) = Line(x) /\ Follows(y) /\ y.link = x.link
  BY DEF IsConn, Line, Follows
<1>2. SubOf(x) = 0
  BY DEF SubOf
<1> HIDE DEF y
<1>3. Flows(y, z)
  BY <1>1, EmitFlows DEF Says
<1> HIDE DEF z
<1>4. \A s, A : s # 0 => HearsOf(x, y, s, A, A)
  BY <1>1, <1>2, ElsewhereHears
<1>5. ASSUME NEW s, s # 0, NEW A PROVE HearsOf(x, z, s, A, A)
  BY <1>3, <1>4, <1>5, HearsOfTwice DEF Flows
<1>6. ASSUME NEW T, Within(x, T), e.sub \in T PROVE Within(z, T)
  <2>1. Within(y, T)
    BY <1>1, <1>6 DEF Within
  <2> QED BY <2>1, <1>3 DEF Flows, Numbers
<1> QED BY <1>5, <1>6 DEF z, y

-------------------------------------------------------------------------------
(* Connections fade, and references are given up *)

Matched(h) ==
  /\ h.refs = {c \in Conns : Follows(h.conn[c])}
  /\ \A c \in h.refs : h.conn[c].open
Glides(h, k) ==
  /\ IsGateway(k)
  /\ SameIndex(h, k)
  /\ Loses(h, k)
  /\ \A c \in Conns : Fades(h.conn[c], k.conn[c])
  /\ Matched(h) => Matched(k)
\* And whoever was fine with a line is fine with it still.
Moves(h, k) ==
  /\ Glides(h, k)
  /\ Matched(h) => \A c \in Conns : Flows(h.conn[c], k.conn[c])

LEMMA MovesSelf == ASSUME NEW h, IsGateway(h) PROVE Moves(h, h) /\ Glides(h, h)
BY FadesSelf, FlowsSelf DEF Moves, Glides, SameIndex, Loses, Watched

LEMMA GlidesTwice ==
  ASSUME NEW h, NEW k, NEW m, Glides(h, k), Glides(k, m)
  PROVE Glides(h, m)
<1>1. Loses(h, m)
  BY LosesTwice DEF Glides
<1>2. \A c \in Conns : Fades(h.conn[c], m.conn[c])
  BY FadesTransitive DEF Glides
<1> QED
  BY <1>1, <1>2 DEF Glides, SameIndex

LEMMA MovesTwice ==
  ASSUME NEW h, NEW k, NEW m, Moves(h, k), Moves(k, m)
  PROVE Moves(h, m)
<1>1. Glides(h, m)
  BY GlidesTwice DEF Moves
<1>2. ASSUME Matched(h), NEW c \in Conns PROVE Flows(h.conn[c], m.conn[c])
  <2>1. Matched(k)
    BY <1>2 DEF Moves, Glides
  <2>2. Flows(h.conn[c], k.conn[c]) /\ Flows(k.conn[c], m.conn[c])
    BY <1>2, <2>1 DEF Moves
  <2> QED BY <2>2, FlowsTwice
<1> QED
  BY <1>1, <1>2 DEF Moves

LEMMA BecameGlides ==
  ASSUME NEW h, IsGateway(h), NEW k, NEW c \in Conns, NEW x, Became(h, k, c, x), Fades(h.conn[c], x)
  PROVE Glides(h, k)
<1>1. \A d \in Conns : Fades(h.conn[d], k.conn[d])
  BY FadesSelf DEF Became
<1>2. ASSUME Matched(h) PROVE Matched(k)
  <2>1. \A d \in Conns : d \in k.refs <=> Follows(k.conn[d])
    BY <1>2 DEF Became, Matched, Fades
  <2>2. k.refs \subseteq Conns
    BY DEF Became, IsGateway
  <2>3. \A d \in k.refs : k.conn[d].open
    BY <1>1, <1>2, <2>1, <2>2 DEF Fades, Matched
  <2> QED BY <2>1, <2>2, <2>3 DEF Matched
<1> QED
  BY <1>1, <1>2 DEF Glides, Became

LEMMA BecameMoves ==
  ASSUME NEW h, IsGateway(h), NEW k, NEW c \in Conns, NEW x, Became(h, k, c, x), Fades(h.conn[c], x),
         Matched(h) => Flows(h.conn[c], x)
  PROVE Moves(h, k)
<1>1. Glides(h, k)
  BY BecameGlides
<1>2. ASSUME Matched(h), NEW d \in Conns PROVE Flows(h.conn[d], k.conn[d])
  BY <1>2, FlowsSelf DEF Became
<1> QED BY <1>1, <1>2 DEF Moves

LEMMA ScheduleMoves ==
  ASSUME NEW h, NEW k, Moves(h, k) PROVE Moves(h, Schedule(k)) /\ Schedule(k).conn = k.conn
<1> DEFINE m == [k EXCEPT !.pump = TRUE]
<1>0. IsGateway(k)
  BY DEF Moves, Glides
<1>1. /\ DOMAIN m = DOMAIN k /\ m.slot = k.slot /\ m.log = k.log /\ m.cur = k.cur /\ m.spent = k.spent
      /\ m.refs = k.refs /\ m.bound = k.bound /\ m.pump = TRUE /\ m.ask = k.ask /\ m.conn = k.conn
  BY <1>0 DEF IsGateway
<1>2. Schedule(k) = m
  BY DEF Schedule
<1> HIDE DEF m
<1>3. IsGateway(m)
  BY <1>0, <1>1 DEF IsGateway
<1>4. Loses(h, m)
  BY <1>1 DEF Moves, Glides, Loses, Watched, Unwatched
<1>5. Matched(k) => Matched(m)
  BY <1>1 DEF Matched
<1> QED
  BY <1>1, <1>2, <1>3, <1>4, <1>5 DEF Moves, Glides, SameIndex

-------------------------------------------------------------------------------
(* Subscriptions are ended together *)

\* The connections of T have been told that their subscription is over.
EndedAll(h, code, T, k) ==
  /\ Moves(h, k)
  /\ \A c \in T : k.conn[c] = EndedC(h.conn[c], code)
  /\ \A c \in Conns \ T : k.conn[c] = h.conn[c]

Ends == INSTANCE FoldRules WITH
  op <- LAMBDA code, c, acc : EndAndRelease(acc, c, code),
  P <- LAMBDA h, code, T, acc : EndedAll(h, code, T, acc)

LEMMA EndedAllStep ==
  ASSUME NEW h, IsGateway(h), NEW code, NEW T \in SUBSET Conns, NEW c \in Conns, c \notin T,
         NEW k, EndedAll(h, code, T, k)
  PROVE EndedAll(h, code, T \cup {c}, EndAndRelease(k, c, code))
<1> DEFINE m == EndAndRelease(k, c, code)
           z == EndedC(h.conn[c], code)
<1>1. IsGateway(k) /\ k.conn[c] = h.conn[c] /\ Moves(h, k)
  BY DEF EndedAll, Moves, Glides
<1>2. Became(k, m, c, z)
  BY <1>1, EndAndReleaseBecame
<1>3. Fades(k.conn[c], z)
  BY <1>1, EndedCFades DEF IsGateway
<1>a. ASSUME Matched(k) PROVE Flows(k.conn[c], z)
  <2>1. Follows(k.conn[c]) => k.conn[c].open
    BY <1>a DEF Matched
  <2>2. IsConn(k.conn[c])
    BY <1>1 DEF IsGateway
  <2> QED BY <1>1, <2>1, <2>2, EndedFlows
<1> HIDE DEF m, z
<1>4. Moves(k, m)
  BY <1>1, <1>2, <1>3, <1>a, BecameMoves
<1>5. Moves(h, m)
  BY <1>1, <1>4, MovesTwice
<1>6. \A d \in T : m.conn[d] = EndedC(h.conn[d], code)
  BY <1>2 DEF EndedAll, Became
<1>7. \A d \in Conns \ (T \cup {c}) : m.conn[d] = h.conn[d]
  BY <1>2 DEF EndedAll, Became
<1> QED
  BY <1>2, <1>5, <1>6, <1>7 DEF EndedAll, m, z, Became

LEMMA EndsAll ==
  ASSUME NEW h, IsGateway(h), NEW code, NEW T \in SUBSET h.refs
  PROVE EndedAll(h, code, T, Ends!Over(code, h, T))
<1>1. \A fam \in SUBSET SUBSET T : fam # {} => \E low \in fam : \A any \in fam : any \subseteq low => any = low
  BY FS_Subset, SubsetsFounded DEF IsGateway
<1>2. EndedAll(h, code, {}, h)
  BY MovesSelf DEF EndedAll
<1>3. h.refs \subseteq Conns
  BY DEF IsGateway
<1>4. \A U \in SUBSET T : \A c \in T \ U : \A acc :
        EndedAll(h, code, U, acc) => EndedAll(h, code, U \cup {c}, EndAndRelease(acc, c, code))
  BY <1>3, EndedAllStep
<1> QED
  BY <1>1, <1>2, <1>4, Ends!FoldSetRule

RetireSet(h, keep) == {c \in h.refs : h.conn[c].open /\ h.conn[c].eng.stream # keep}

LEMMA RetireEnds ==
  ASSUME NEW h, IsGateway(h), NEW keep
  PROVE EndedAll(h, 4409, RetireSet(h, keep), Retire(h, keep))
<1>1. Retire(h, keep) = Ends!Over(4409, h, RetireSet(h, keep))
  BY DEF Retire, RetireSet, Ends!Over, Ends!Some, FoldSet, MapThenFoldSet
<1>2. RetireSet(h, keep) \in SUBSET h.refs
  BY DEF RetireSet
<1> QED
  BY <1>1, <1>2, EndsAll

LEMMA CloseSubsEnds ==
  ASSUME NEW h, IsGateway(h)
  PROVE EndedAll(h, 4402, h.refs, CloseSubs(h))
<1>1. CloseSubs(h) = Ends!Over(4402, h, h.refs)
  BY DEF CloseSubs, Ends!Over, Ends!Some, FoldSet, MapThenFoldSet
<1> QED
  BY <1>1, EndsAll

LEMMA EndedAllLeave ==
  ASSUME NEW h, IsGateway(h), Matched(h), NEW code, NEW T, NEW k, EndedAll(h, code, T, k),
         T \subseteq Conns
  PROVE k.refs = h.refs \ T
<1>1. \A c \in T : ~Follows(k.conn[c])
  BY EndedCFades DEF EndedAll, IsGateway
<1>2. Matched(k) /\ k.refs \subseteq Conns
  BY DEF EndedAll, Moves, Glides, IsGateway
<1>3. \A c \in Conns : c \in k.refs <=> c \in h.refs \ T
  BY <1>1, <1>2 DEF Matched, EndedAll
<1>4. h.refs \subseteq Conns
  BY DEF IsGateway
<1> QED
  BY <1>2, <1>3, <1>4

LEMMA RetireMoves ==
  ASSUME NEW h, IsGateway(h), NEW keep
  PROVE /\ Moves(h, Retire(h, keep))
        /\ Matched(h) => \A c \in Retire(h, keep).refs : Retire(h, keep).conn[c].eng.stream = keep
<1> DEFINE k == Retire(h, keep)
<1>1. EndedAll(h, 4409, RetireSet(h, keep), k)
  BY RetireEnds
<1> HIDE DEF k
<1>2. ASSUME Matched(h) PROVE \A c \in k.refs : k.conn[c].eng.stream = keep
  <2>1. RetireSet(h, keep) \subseteq Conns
    BY DEF RetireSet, IsGateway
  <2>2. k.refs = h.refs \ RetireSet(h, keep)
    BY <1>1, <1>2, <2>1, EndedAllLeave
  <2>3. \A c \in k.refs : c \in Conns /\ k.conn[c] = h.conn[c] /\ c \in h.refs
    BY <1>1, <2>2 DEF EndedAll, IsGateway
  <2> QED BY <1>2, <2>2, <2>3 DEF RetireSet, Matched
<1> QED
  BY <1>1, <1>2 DEF EndedAll, k

LEMMA CloseSubsMoves ==
  ASSUME NEW h, IsGateway(h)
  PROVE /\ Moves(h, CloseSubs(h))
        /\ Matched(h) => CloseSubs(h).refs = {}
<1>1. EndedAll(h, 4402, h.refs, CloseSubs(h))
  BY CloseSubsEnds
<1>2. h.refs \subseteq Conns
  BY DEF IsGateway
<1>3. ASSUME Matched(h) PROVE CloseSubs(h).refs = {}
  <2>1. CloseSubs(h).refs = h.refs \ h.refs
    BY <1>1, <1>2, <1>3, EndedAllLeave
  <2> QED BY <2>1
<1> QED
  BY <1>1, <1>3 DEF EndedAll

-------------------------------------------------------------------------------
(* Frames are sent *)

\* A connection has only faded, and with it what it followed.
Worn(h, c, k) ==
  Became(h, k, c, k.conn[c]) /\ Fades(h.conn[c], k.conn[c]) /\ Flows(h.conn[c], k.conn[c])

LEMMA WornTwice ==
  ASSUME NEW h, NEW k, NEW m, NEW c \in Conns, Worn(h, c, k), Worn(k, c, m)
  PROVE Worn(h, c, m)
BY BecameTwice, FlowsTwice DEF Worn

LEMMA WornMoves ==
  ASSUME NEW h, IsGateway(h), NEW c \in Conns, NEW k, Worn(h, c, k)
  PROVE Moves(h, k) /\ IsGateway(k)
BY BecameMoves DEF Worn, Became

LEMMA WornSelf == ASSUME NEW h, IsGateway(h), NEW c PROVE Worn(h, c, h)
BY BecameSelf, FadesSelf, FlowsSelf DEF Worn

LEMMA EmitWorn ==
  ASSUME NEW h, IsGateway(h), NEW c \in Conns, NEW f, IsFrame(f), Says(h.conn[c], f), f.t # "ui-request"
  PROVE Worn(h, c, Emit(h, c, f))
<1>0. Flows(h.conn[c], EmitC(h.conn[c], f))
  BY EmitFlows DEF IsGateway
<1>1. Became(h, Emit(h, c, f), c, EmitC(h.conn[c], f)) /\ Fades(h.conn[c], EmitC(h.conn[c], f))
  BY EmitBecame
<1> QED BY <1>0, <1>1 DEF Worn, Became

LEMMA EnqueueWorn ==
  ASSUME NEW h, IsGateway(h), NEW c \in Conns, NEW f, IsFrame(f), Says(h.conn[c], f), f.t # "ui-request"
  PROVE Worn(h, c, Enqueue(h, c, f))
<1>0. Flows(h.conn[c], EnqueueC(h.conn[c], f))
  BY EnqueueFlows DEF IsGateway
<1>1. Became(h, Enqueue(h, c, f), c, EnqueueC(h.conn[c], f)) /\ Fades(h.conn[c], EnqueueC(h.conn[c], f))
  BY EnqueueBecame
<1> QED BY <1>0, <1>1 DEF Worn, Became

LEMMA RefuseWorn ==
  ASSUME NEW h, IsGateway(h), NEW c \in Conns, NEW code, NEW req
  PROVE Worn(h, c, Refuse(h, c, code, req))
<1> DEFINE f == ErrorFrame(code, req, 0)
<1>1. IsFrame(f) /\ f.t = "error"
  BY ErrorIsFrame DEF ErrorFrame, NoFrame
<1> HIDE DEF f
<1>2. Worn(h, c, Emit(h, c, f))
  BY <1>1, EmitWorn DEF Says
<1> QED BY <1>2 DEF Refuse, f

\* A frame of the history itself, or of its end.
Plain(f) == IsFrame(f) /\ f.t \in {"events", "error"}

Emits == INSTANCE FoldRules WITH
  op <- LAMBDA c, f, acc : Emit(acc, c, f),
  P <- LAMBDA h, c, i, acc : Worn(h, c, acc)

LEMMA EmitAllWorn ==
  ASSUME NEW h, IsGateway(h), NEW c \in Conns, NEW n \in Nat, NEW fs, DOMAIN fs = 1 .. n,
         \A i \in 1 .. n : Plain(fs[i])
  PROVE Worn(h, c, EmitAll(h, c, fs))
<1>1. EmitAll(h, c, fs) = Emits!Along(c, h, fs)
  BY DEF EmitAll, Emits!Along, Emits!Largest, FoldLeft, MapThenFoldSet, Max
<1>2. Worn(h, c, h)
  BY WornSelf
<1>3. \A i \in 1 .. n : \A acc : Worn(h, c, acc) => Worn(h, c, Emit(acc, c, fs[i]))
  <2>1. ASSUME NEW i \in 1 .. n, NEW acc, Worn(h, c, acc) PROVE Worn(h, c, Emit(acc, c, fs[i]))
    <3>1. IsGateway(acc)
      BY <2>1, WornMoves
    <3>2. Worn(acc, c, Emit(acc, c, fs[i]))
      BY <3>1, EmitWorn DEF Plain, Says
    <3> QED BY <3>2, <2>1, WornTwice
  <2> QED BY <2>1
<1>4. Worn(h, c, Emits!Along(c, h, fs))
  BY <1>2, <1>3, IntervalFounded, Emits!FoldLeftRule
<1> QED
  BY <1>1, <1>4

-------------------------------------------------------------------------------
(* Engines *)

LEMMA LeastOfTwo == ASSUME NEW a \in Int, NEW b \in Int PROVE Min({a, b}) \in {a, b} /\ Min({a, b}) <= a /\ Min({a, b}) <= b
<1>1. \E x \in {a, b} : \A y \in {a, b} : x <= y
  <2>1. CASE a <= b
    BY <2>1
  <2>2. CASE b <= a
    BY <2>2
  <2> QED BY <2>1, <2>2
<1> QED
  BY <1>1 DEF Min

LEMMA SeqFacts ==
  ASSUME NEW q, IsSeq(q)
  PROVE /\ Len(q) \in Nat /\ DOMAIN q = 1 .. Len(q)
        /\ \A r : IsSeq(r) => IsSeq(q \o r)
        /\ \A x : IsSeq(Append(q, x))
        /\ \A m \in Nat : IsSeq(SubSeq(q, m + 1, Len(q)))
<1>1. PICK S : q \in Seq(S)
  BY DEF IsSeq
<1>2. ASSUME NEW r, IsSeq(r) PROVE IsSeq(q \o r)
  <2>1. PICK T : r \in Seq(T)
    BY <1>2 DEF IsSeq
  <2>2. q \in Seq(S \cup T) /\ r \in Seq(S \cup T)
    BY <1>1, <2>1
  <2>3. q \o r \in Seq(S \cup T)
    BY <2>2
  <2> QED BY <2>3 DEF IsSeq
<1>3. ASSUME NEW x PROVE IsSeq(Append(q, x))
  <2>1. q \in Seq(S \cup {x})
    BY <1>1
  <2>2. Append(q, x) \in Seq(S \cup {x})
    BY <2>1
  <2> QED BY <2>2 DEF IsSeq
<1>4. ASSUME NEW m \in Nat PROVE IsSeq(SubSeq(q, m + 1, Len(q)))
  <2>1. SubSeq(q, m + 1, Len(q)) \in Seq(S)
    BY <1>1
  <2> QED BY <2>1 DEF IsSeq
<1> QED
  BY <1>1, <1>2, <1>3, <1>4

\* An engine goes on with the same subscription.
GoesOn(e, f) ==
  /\ IsEngine(f)
  /\ f.sub = e.sub /\ f.stream = e.stream
  /\ f.phase = "none" <=> e.phase = "none"

LEMMA CheckedGoesOn ==
  ASSUME NEW e, IsEngine(e), e.phase # "none"
  PROVE GoesOn(e, Checked(e))
<1> DEFINE b == << >>
           o == << 0 >>
           f == [e EXCEPT !.phase = "closed", !.buffered = b, !.outbox = b, !.next = 0]
           k == [f EXCEPT !.outbox = o]
<1>1. IsSeq(b) /\ IsSeq(o)
  <2>1. o \in Seq({0})
    OBVIOUS
  <2> QED BY <2>1, EmptyIsSeq DEF IsSeq
<1>2. Checked(e) = e \/ Checked(e) = k
  BY DEF Checked, CloseSilent
<1> HIDE DEF b, o
<1>3. GoesOn(e, k)
  BY <1>1 DEF GoesOn, IsEngine
<1>4. GoesOn(e, e)
  BY DEF GoesOn
<1> HIDE DEF k
<1> QED
  BY <1>2, <1>3, <1>4

LEMMA HistoryAppendGoesOn ==
  ASSUME NEW e, IsEngine(e), NEW seq
  PROVE GoesOn(e, HistoryAppend(e, seq))
<1> DEFINE f == [e EXCEPT !.buffered = Append(@, seq)]
           k == [e EXCEPT !.outbox = Append(@, seq)]
<1>1. /\ IsEngine(f) /\ f.sub = e.sub /\ f.stream = e.stream /\ f.phase = e.phase
      /\ IsEngine(k) /\ k.sub = e.sub /\ k.stream = e.stream /\ k.phase = e.phase
  BY SeqFacts DEF IsEngine
<1>2. \/ e.phase = "paging" /\ HistoryAppend(e, seq) = Checked(f)
      \/ e.phase = "live" /\ HistoryAppend(e, seq) = Checked(k)
      \/ HistoryAppend(e, seq) = e
  BY DEF HistoryAppend
<1> HIDE DEF f, k
<1>3. CASE e.phase = "paging" /\ HistoryAppend(e, seq) = Checked(f)
  <2>1. GoesOn(f, Checked(f))
    BY <1>1, <1>3, CheckedGoesOn
  <2> QED BY <2>1, <1>1, <1>3 DEF GoesOn
<1>4. CASE e.phase = "live" /\ HistoryAppend(e, seq) = Checked(k)
  <2>1. GoesOn(k, Checked(k))
    BY <1>1, <1>4, CheckedGoesOn
  <2> QED BY <2>1, <1>1, <1>4 DEF GoesOn
<1>5. CASE HistoryAppend(e, seq) = e
  BY <1>5 DEF GoesOn
<1> QED BY <1>2, <1>3, <1>4, <1>5

Appends == INSTANCE FoldRules WITH
  op <- LAMBDA ctx, seq, acc : HistoryAppend(acc, seq),
  P <- LAMBDA e, ctx, i, acc : GoesOn(e, acc)

LEMMA HistoryAppendsGoOn ==
  ASSUME NEW e, IsEngine(e), NEW n \in Nat, NEW seqs, DOMAIN seqs = 1 .. n
  PROVE GoesOn(e, FoldLeft(HistoryAppend, e, seqs))
<1>1. FoldLeft(HistoryAppend, e, seqs) = Appends!Along(0, e, seqs)
  BY DEF Appends!Along, Appends!Largest, FoldLeft, MapThenFoldSet, Max
<1>2. GoesOn(e, e)
  BY DEF GoesOn
<1>3. \A i \in 1 .. n : \A acc : GoesOn(e, acc) => GoesOn(e, HistoryAppend(acc, seqs[i]))
  <2>1. ASSUME NEW i \in 1 .. n, NEW acc, GoesOn(e, acc) PROVE GoesOn(e, HistoryAppend(acc, seqs[i]))
    <3>1. GoesOn(acc, HistoryAppend(acc, seqs[i]))
      BY <2>1, HistoryAppendGoesOn DEF GoesOn
    <3> QED BY <3>1, <2>1 DEF GoesOn
  <2> QED BY <2>1
<1>4. GoesOn(e, Appends!Along(0, e, seqs))
  BY <1>2, <1>3, IntervalFounded, Appends!FoldLeftRule
<1> QED
  BY <1>1, <1>4

LEMMA SwapEngineWorn ==
  ASSUME NEW h, IsGateway(h), NEW c \in Conns, NEW e, GoesOn(h.conn[c].eng, e)
  PROVE Worn(h, c, WithEngine(h, c, e))
<1> DEFINE x == h.conn[c]
           y == [x EXCEPT !.eng = e]
<1>1. WithEngine(h, c, e) = Swapped(h, c, y) /\ IsConn(y)
  BY WithEngineSwaps DEF GoesOn
<1>2. IsConn(x)
  BY DEF IsGateway
<1>3. y.eng = e /\ y.link = x.link /\ y.open = x.open
  BY <1>2 DEF IsConn
<1>7. Line(y) = Line(x)
  BY <1>2 DEF IsConn, Line
<1> HIDE DEF y
<1>4. (Follows(x) <=> Follows(y)) /\ Fades(x, y)
  BY <1>3 DEF GoesOn, Fades, Follows
<1>6. Flows(x, y)
  BY <1>3, <1>4, <1>7, SameLineFlows DEF SubOf, GoesOn
<1>5. Became(h, [h EXCEPT !.conn[c] = y], c, y)
  BY <1>1, <1>4, PutBecame
<1> QED
  BY <1>1, <1>4, <1>5, <1>6 DEF Worn, Became, Swapped

LEMMA DrainCountNat == ASSUME NEW e, IsEngine(e) PROVE DrainCount(e) \in Nat
<1> DEFINE a == Len(e.outbox)
           b == PerFrame * (FrameMax - 1) + 1
<1>1. a \in Nat
  BY SeqFacts DEF IsEngine
<1>2. b \in Nat
  BY EngineAssumption
<1>3. DrainCount(e) = Min({a, b})
  BY DEF DrainCount
<1> HIDE DEF a, b
<1>4. Min({a, b}) \in {a, b}
  BY <1>1, <1>2, LeastOfTwo
<1> QED
  BY <1>1, <1>2, <1>3, <1>4

LEMMA DrainFramesFramed ==
  ASSUME NEW e, IsEngine(e), NEW rows
  PROVE \E n \in Nat : DOMAIN DrainFrames(e, rows) = 1 .. n /\ \A i \in 1 .. n : Plain(DrainFrames(e, rows)[i])
<1> DEFINE fs == DrainFrames(e, rows)
           f == ErrorFrame(4431, << 0, 0 >>, e.sub)
           n == DrainCount(e)
           frames == (n + PerFrame - 1) \div PerFrame
           F(k) == EventFrame(e, rows, SubSeq(e.outbox, (k - 1) * PerFrame + 1, Min({n, k * PerFrame})))
<1>1. fs = IF e.outbox = << 0 >> THEN << f >> ELSE [k \in 1 .. frames |-> F(k)]
  BY DEF DrainFrames
<1>2. CASE e.outbox = << 0 >>
  <2>1. fs = << f >>
    BY <1>1, <1>2
  <2>2. Plain(f)
    <3>1. IsFrame(f)
      BY ErrorIsFrame
    <3>2. f.t = "error"
      BY DEF ErrorFrame, NoFrame
    <3> HIDE DEF f
    <3> QED BY <3>1, <3>2 DEF Plain
  <2> HIDE DEF fs, f
  <2>3. DOMAIN fs = 1 .. 1 /\ \A i \in 1 .. 1 : Plain(fs[i])
    BY <2>1, <2>2
  <2> HIDE DEF fs
  <2> QED BY <2>3 DEF fs
<1>3. CASE e.outbox # << 0 >>
  <2>1. n \in Nat
    BY DrainCountNat
  <2> HIDE DEF n
  <2>2. frames \in Nat
    <3>1. PerFrame \in Nat \ {0} /\ n + PerFrame - 1 \in Nat
      BY <2>1, EngineAssumption
    <3> DEFINE a == n + PerFrame - 1
    <3> HIDE DEF a
    <3>2. a \div PerFrame \in Nat
      BY <3>1 DEF a
    <3> QED BY <3>2 DEF a
  <2> HIDE DEF frames
  <2>3. \A k \in 1 .. frames : Plain(F(k))
    BY DEF Plain, EventFrame, NoFrame, IsFrame, FrameKinds
  <2> HIDE DEF F
  <2>4. fs = [k \in 1 .. frames |-> F(k)]
    BY <1>1, <1>3
  <2>5. DOMAIN fs = 1 .. frames /\ \A i \in 1 .. frames : fs[i] = F(i)
    <3> HIDE DEF fs
    <3> QED BY <2>4
  <2> HIDE DEF fs
  <2> QED BY <2>2, <2>3, <2>5 DEF fs
<1> QED BY <1>2, <1>3

LEMMA AfterDrainGoesOn ==
  ASSUME NEW e, IsEngine(e)
  PROVE GoesOn(e, AfterDrain(e))
<1> DEFINE n == DrainCount(e)
           f == [e EXCEPT !.outbox = SubSeq(@, n + 1, Len(@))]
<1>1. n \in Nat
  BY DrainCountNat
<1>2. AfterDrain(e) = f
  BY DEF AfterDrain
<1> HIDE DEF n
<1>3. IsSeq(SubSeq(e.outbox, n + 1, Len(e.outbox)))
  BY <1>1, SeqFacts DEF IsEngine
<1>4. GoesOn(e, f)
  BY <1>3 DEF GoesOn, IsEngine
<1> QED
  BY <1>2, <1>4

LEMMA PumpOneMoves ==
  ASSUME NEW h, IsGateway(h), NEW c \in Conns
  PROVE Moves(h, PumpOne(h, c))
<1> DEFINE e == h.conn[c].eng
           fs == DrainFrames(e, h.log[e.stream])
           w == WithEngine(h, c, AfterDrain(e))
           t == EmitAll(w, c, fs)
<1>1. PumpOne(h, c) = IF ~HasSub(h, c) \/ e.outbox = << >> THEN h
                      ELSE IF Len(fs) >= FrameMax THEN Schedule(t) ELSE t
  BY DEF PumpOne
<1>2. IsEngine(e)
  BY DEF IsGateway, IsConn
<1>3. Worn(h, c, w)
  BY <1>2, AfterDrainGoesOn, SwapEngineWorn
<1>4. PICK n \in Nat : DOMAIN fs = 1 .. n /\ \A i \in 1 .. n : Plain(fs[i])
  BY <1>2, DrainFramesFramed
<1> HIDE DEF fs, w
<1>5. IsGateway(w)
  BY <1>3, WornMoves
<1>6. Worn(w, c, t)
  BY <1>4, <1>5, EmitAllWorn
<1> HIDE DEF t
<1>7. Worn(h, c, t)
  BY <1>3, <1>6, WornTwice
<1>8. Moves(h, t) /\ Moves(h, Schedule(t))
  BY <1>7, WornMoves, ScheduleMoves
<1> QED
  BY <1>1, <1>8, MovesSelf

Pumps == INSTANCE FoldRules WITH
  op <- LAMBDA ctx, c, acc : PumpOne(acc, c),
  P <- LAMBDA h, ctx, T, acc : Moves(h, acc)

LEMMA PumpFileMoves ==
  ASSUME NEW h, IsGateway(h)
  PROVE Moves(h, PumpFile(h))
<1>1. PumpFile(h) = Pumps!Over(0, h, h.refs)
  BY DEF PumpFile, Pumps!Over, Pumps!Some, FoldSet, MapThenFoldSet
<1>2. \A fam \in SUBSET SUBSET h.refs : fam # {} => \E low \in fam : \A any \in fam : any \subseteq low => any = low
  BY SubsetsFounded DEF IsGateway
<1>3. \A T \in SUBSET h.refs : \A c \in h.refs \ T : \A acc : Moves(h, acc) => Moves(h, PumpOne(acc, c))
  <2>1. ASSUME NEW c \in h.refs, NEW acc, Moves(h, acc) PROVE Moves(h, PumpOne(acc, c))
    <3>1. c \in Conns /\ IsGateway(acc)
      BY <2>1 DEF IsGateway, Moves, Glides
    <3>2. Moves(acc, PumpOne(acc, c))
      BY <3>1, PumpOneMoves
    <3> QED BY <3>2, <2>1, MovesTwice
  <2> QED BY <2>1
<1>4. Moves(h, h)
  BY MovesSelf
<1> DEFINE S == h.refs
<1> HIDE DEF S
<1>5. Moves(h, Pumps!Over(0, h, S))
  BY <1>2, <1>3, <1>4, Pumps!FoldSetRule DEF S
<1> QED
  BY <1>1, <1>5 DEF S

\* Those of T have been sent f.
SentAll(h, f, T, k) ==
  /\ Glides(h, k)
  /\ \A c \in T : k.conn[c] = EnqueueC(h.conn[c], f)
  /\ \A c \in Conns \ T : k.conn[c] = h.conn[c]

Sends == INSTANCE FoldRules WITH
  op <- LAMBDA f, c, acc : Enqueue(acc, c, f),
  P <- LAMBDA h, f, T, acc : SentAll(h, f, T, acc)

LEMMA SentAllStep ==
  ASSUME NEW h, IsGateway(h), NEW f, IsFrame(f), NEW T \in SUBSET Conns, NEW c \in Conns, c \notin T,
         NEW k, SentAll(h, f, T, k)
  PROVE SentAll(h, f, T \cup {c}, Enqueue(k, c, f))
<1> DEFINE m == Enqueue(k, c, f)
           z == EnqueueC(h.conn[c], f)
<1>1. IsGateway(k) /\ k.conn[c] = h.conn[c] /\ Glides(h, k)
  BY DEF SentAll, Glides
<1>2. Became(k, m, c, z) /\ Fades(k.conn[c], z)
  BY <1>1, EnqueueBecame
<1> HIDE DEF m, z
<1>3. Glides(k, m)
  BY <1>1, <1>2, BecameGlides
<1>4. Glides(h, m)
  BY <1>1, <1>3, GlidesTwice
<1>5. \A d \in T : m.conn[d] = EnqueueC(h.conn[d], f)
  BY <1>2 DEF SentAll, Became
<1>6. \A d \in Conns \ (T \cup {c}) : m.conn[d] = h.conn[d]
  BY <1>2 DEF SentAll, Became
<1> QED
  BY <1>2, <1>4, <1>5, <1>6 DEF SentAll, m, z, Became

LEMMA BroadcastSends ==
  ASSUME NEW h, IsGateway(h), NEW f, IsFrame(f)
  PROVE SentAll(h, f, Subscribed(h), Broadcast(h, f))
<1> DEFINE S == Subscribed(h)
<1>1. Broadcast(h, f) = Sends!Over(f, h, S)
  BY DEF Broadcast, Sends!Over, Sends!Some, FoldSet, MapThenFoldSet
<1>a. S \subseteq h.refs /\ h.refs \subseteq Conns /\ IsFiniteSet(h.refs)
  BY DEF Subscribed, IsGateway
<1> HIDE DEF S
<1>2. \A fam \in SUBSET SUBSET S : fam # {} => \E low \in fam : \A any \in fam : any \subseteq low => any = low
  BY <1>a, FS_Subset, SubsetsFounded
<1>3. \A T \in SUBSET S : \A c \in S \ T : \A acc :
        SentAll(h, f, T, acc) => SentAll(h, f, T \cup {c}, Enqueue(acc, c, f))
  BY <1>a, SentAllStep
<1>4. SentAll(h, f, {}, h)
  BY MovesSelf DEF SentAll
<1>5. SentAll(h, f, S, Sends!Over(f, h, S))
  BY <1>2, <1>3, <1>4, Sends!FoldSetRule
<1> QED
  BY <1>1, <1>5 DEF S

LEMMA BroadcastMoves ==
  ASSUME NEW h, IsGateway(h), NEW f, IsFrame(f)
  PROVE /\ Glides(h, Broadcast(h, f))
        /\ f.t \notin {"snapshot", "ui-request"} => Moves(h, Broadcast(h, f))
<1> DEFINE k == Broadcast(h, f)
<1>1. SentAll(h, f, Subscribed(h), k)
  BY BroadcastSends
<1> HIDE DEF k
<1>2. ASSUME f.t \notin {"snapshot", "ui-request"}, NEW c \in Conns PROVE Flows(h.conn[c], k.conn[c])
  <2>1. Flows(h.conn[c], EnqueueC(h.conn[c], f))
    BY <1>2, EnqueueFlows DEF Says, IsGateway
  <2> QED BY <1>1, <2>1, FlowsSelf DEF SentAll
<1> QED
  BY <1>1, <1>2 DEF SentAll, Moves, k

-------------------------------------------------------------------------------
(* Publication *)

Pushes == INSTANCE FoldRules WITH
  op <- LAMBDA seqs, c, acc : WithEngine(acc, c, FoldLeft(HistoryAppend, acc.conn[c].eng, seqs)),
  P <- LAMBDA h, seqs, T, acc : Moves(h, acc)

LEMMA PushMoves ==
  ASSUME NEW h, IsGateway(h), NEW n \in Nat, NEW seqs, DOMAIN seqs = 1 .. n
  PROVE Moves(h, Pushes!Over(seqs, h, Subscribed(h)))
<1> DEFINE S == Subscribed(h)
<1>a. S \subseteq h.refs /\ h.refs \subseteq Conns /\ IsFiniteSet(h.refs)
  BY DEF Subscribed, IsGateway
<1> HIDE DEF S
<1>2. \A fam \in SUBSET SUBSET S : fam # {} => \E low \in fam : \A any \in fam : any \subseteq low => any = low
  BY <1>a, FS_Subset, SubsetsFounded
<1>3. \A T \in SUBSET S : \A c \in S \ T : \A acc :
        Moves(h, acc) => Moves(h, WithEngine(acc, c, FoldLeft(HistoryAppend, acc.conn[c].eng, seqs)))
  <2>1. ASSUME NEW c \in S, NEW acc, Moves(h, acc)
        PROVE Moves(h, WithEngine(acc, c, FoldLeft(HistoryAppend, acc.conn[c].eng, seqs)))
    <3> DEFINE e == FoldLeft(HistoryAppend, acc.conn[c].eng, seqs)
    <3>1. c \in Conns /\ IsGateway(acc)
      BY <2>1, <1>a DEF Moves, Glides
    <3>2. GoesOn(acc.conn[c].eng, e)
      BY <3>1, HistoryAppendsGoOn DEF IsGateway, IsConn
    <3> HIDE DEF e
    <3>3. Moves(acc, WithEngine(acc, c, e))
      BY <3>1, <3>2, SwapEngineWorn, WornMoves
    <3>4. Moves(h, WithEngine(acc, c, e))
      BY <3>3, <2>1, MovesTwice
    <3> QED BY <3>4 DEF e
  <2> QED BY <2>1
<1>4. Moves(h, h)
  BY MovesSelf
<1>5. Moves(h, Pushes!Over(seqs, h, S))
  BY <1>2, <1>3, <1>4, Pushes!FoldSetRule
<1> QED
  BY <1>5 DEF S

LEMMA PublishMoves ==
  ASSUME NEW h, IsGateway(h), h.cur # 0, NEW first \in Nat, first <= Len(CurRows(h)) + 1
  PROVE /\ Moves(h, Publish(h, first))
        /\ OverBudget(h) => Publish(h, first) = CloseSubs(h)
<1> DEFINE seqs == [i \in 1 .. Len(CurRows(h)) - first + 1 |-> first + i - 1]
           kept == Retire(h, h.cur)
           n == Len(CurRows(h)) - first + 1
           pushed == Pushes!Over(seqs, kept, Subscribed(kept))
<1>1. Publish(h, first) = IF OverBudget(h) THEN CloseSubs(h) ELSE Schedule(pushed)
  BY DEF Publish, Pushes!Over, Pushes!Some, FoldSet, MapThenFoldSet
<1>2. n \in Nat /\ DOMAIN seqs = 1 .. n
  <2>1. CurRows(h) \in Seq(Nat)
    BY DEF IsGateway, CurRows
  <2> QED BY <2>1
<1>3. Moves(h, kept)
  BY RetireMoves
<1> HIDE DEF seqs, n, kept
<1>4. Moves(kept, pushed)
  BY <1>2, <1>3, PushMoves DEF Moves, Glides
<1> HIDE DEF pushed
<1>5. Moves(h, Schedule(pushed))
  BY <1>3, <1>4, MovesTwice, ScheduleMoves
<1>6. Moves(h, CloseSubs(h))
  BY CloseSubsMoves
<1> QED
  BY <1>1, <1>5, <1>6

LEMMA GrownMoves ==
  ASSUME NEW h, IsGateway(h), h.cur # 0, NEW first \in Nat
  PROVE Moves(h, Grown(h, first))
<1>1. CurRows(h) \in Seq(Nat)
  BY DEF IsGateway, CurRows
<1>2. CASE first > Len(CurRows(h))
  BY <1>2, MovesSelf DEF Grown
<1>3. CASE ~(first > Len(CurRows(h)))
  <2>1. first <= Len(CurRows(h)) + 1
    BY <1>1, <1>3
  <2>2. Grown(h, first) = Publish(h, first)
    BY <1>3 DEF Grown
  <2> QED BY <2>1, <2>2, PublishMoves
<1> QED BY <1>2, <1>3

-------------------------------------------------------------------------------
(* Observation and index *)

Held(h, n) ==
  /\ h.slot.awaiting = n /\ h.slot.carry = 0
  /\ h.slot.bound = h.bound
  /\ h.bound <=> h.refs # {}
  /\ h.slot.active <=> h.bound \/ n > 0
  /\ Matched(h)
Current(h) == \A c \in h.refs : h.conn[c].eng.stream = h.cur
Indexed(h, r) == h.bound => h.cur # 0 /\ CurRows(h) = r
Even(h) == h.ask.pending = h.ask.gate
Sound(h, r, n) == IsGateway(h) /\ Held(h, n) /\ Current(h) /\ Indexed(h, r) /\ Even(h)

\* The scan in flight is not disturbed.
Scanned(h, k) ==
  /\ k.slot.scan = h.slot.scan /\ k.slot.got = h.slot.got /\ k.slot.tickets = h.slot.tickets
  /\ k.slot.active => h.slot.active /\ k.slot.rows = h.slot.rows
\* The questions that can be answered, or are being answered by a page.
Ans(h) == h.ask.gate \cup {w.q : w \in {v \in h.ask.writes : v.by = "page"}}
\* Every page that was fine is fine still.
HearsOn(h, k) ==
  \A c \in Conns : \A s : s # 0 => HearsOf(h.conn[c], k.conn[c], s, Ans(h), Ans(k))
Rings(h, k) == HearsOn(h, k) /\ \A c \in Conns : Numbers(h.conn[c], k.conn[c])
ScansOn(h, k) == Scanned(h, k) /\ Rings(h, k)

LEMMA HearsOnTwice ==
  ASSUME NEW h, NEW k, NEW m, HearsOn(h, k), HearsOn(k, m) PROVE HearsOn(h, m)
<1>1. ASSUME NEW c \in Conns, NEW s, s # 0 PROVE HearsOf(h.conn[c], m.conn[c], s, Ans(h), Ans(m))
  <2> DEFINE x == h.conn[c]
             y == k.conn[c]
             z == m.conn[c]
             A == Ans(h)
             B == Ans(k)
             C == Ans(m)
  <2>1. HearsOf(x, y, s, A, B) /\ HearsOf(y, z, s, B, C)
    BY <1>1 DEF HearsOn
  <2> HIDE DEF x, y, z, A, B, C
  <2>2. HearsOf(x, z, s, A, C)
    BY <2>1, HearsOfTwice
  <2> QED BY <2>2 DEF x, z, A, C
<1> QED BY <1>1 DEF HearsOn

LEMMA RingsTwice ==
  ASSUME NEW h, NEW k, NEW m, Rings(h, k), Rings(k, m) PROVE Rings(h, m)
BY HearsOnTwice DEF Rings, Numbers

LEMMA RingsSame ==
  ASSUME NEW h, NEW k, k.conn = h.conn, k.ask = h.ask PROVE Rings(h, k)
BY DEF Rings, HearsOn, Ans, HearsOf, Numbers

LEMMA ScansOnTwice == ASSUME NEW h, NEW k, NEW m, ScansOn(h, k), ScansOn(k, m) PROVE ScansOn(h, m)
BY RingsTwice DEF ScansOn, Scanned

LEMMA GlidesScans ==
  ASSUME NEW h, IsGateway(h), NEW k, Glides(h, k)
  PROVE Scanned(h, k)
<1>1. IsSlot(h.slot) /\ h.slot.active \in BOOLEAN
  BY DEF IsGateway, IsSlot
<1>2. k.slot = h.slot \/ k.slot = Unbind(h.slot)
  BY DEF Glides, Loses, Watched, Unwatched
<1>3. CASE k.slot = h.slot
  BY <1>3 DEF Scanned
<1>4. CASE k.slot = Unbind(h.slot)
  <2>1. /\ IsSlot(Unbind(h.slot))
        /\ Unbind(h.slot).awaiting = h.slot.awaiting /\ Unbind(h.slot).carry = h.slot.carry
        /\ Unbind(h.slot).scan = h.slot.scan /\ Unbind(h.slot).got = h.slot.got
        /\ Unbind(h.slot).tickets = h.slot.tickets
        /\ (~h.slot.active => Unbind(h.slot) = h.slot)
        /\ (h.slot.active => Unbind(h.slot).bound = FALSE /\ (Unbind(h.slot).active <=> h.slot.awaiting > 0))
        /\ (Unbind(h.slot).active => Unbind(h.slot).rows = h.slot.rows)
    BY <1>1, UnbindSlots
  <2>2. Unbind(h.slot).active => h.slot.active
    BY <2>1
  <2> QED BY <1>4, <2>1, <2>2 DEF Scanned
<1> QED BY <1>2, <1>3, <1>4

LEMMA MovesRings ==
  ASSUME NEW h, NEW k, Moves(h, k), Matched(h)
  PROVE Rings(h, k)
<1>1. Matched(k) /\ Loses(h, k) /\ \A c \in Conns : Flows(h.conn[c], k.conn[c])
  BY DEF Moves, Glides
<1>2. ASSUME NEW c \in Conns, NEW s, s # 0 PROVE HearsOf(h.conn[c], k.conn[c], s, Ans(h), Ans(k))
  <2> DEFINE x == h.conn[c]
             y == k.conn[c]
             A == Ans(h)
             B == Ans(k)
  <2>1. HearsOf(x, y, s, A, A)
    BY <1>1, <1>2 DEF Flows
  <2>2. k.ask = h.ask \/ k.refs = {}
    BY <1>1 DEF Loses, Watched
  <2>3. CASE k.ask = h.ask
    BY <2>1, <2>3 DEF Ans
  <2>4. CASE k.refs = {}
    <3>1. SubOf(y) # s
      BY <1>1, <1>2, <2>4 DEF Matched, SubOf
    <3> HIDE DEF x, y, A, B
    <3>2. HearsOf(y, y, s, A, B)
      BY <1>2, <3>1, ElsewhereHears
    <3>3. HearsOf(x, y, s, A, B)
      BY <2>1, <3>2, HearsOfTwice
    <3> QED BY <3>3 DEF x, y, A, B
  <2> QED BY <2>2, <2>3, <2>4
<1> QED BY <1>1, <1>2 DEF Rings, HearsOn, Flows

LEMMA GlidesHeld ==
  ASSUME NEW h, IsGateway(h), NEW k, Glides(h, k), NEW n \in Nat, Held(h, n)
  PROVE Held(k, n)
<1>1. IsSlot(h.slot) /\ h.slot.active \in BOOLEAN
  BY DEF IsGateway, IsSlot
<1>2. Matched(k) /\ Loses(h, k)
  BY DEF Glides, Held
<1>3. CASE h.refs # {} /\ k.refs = {}
  <2>1. k.bound = FALSE /\ k.slot = Unbind(h.slot) /\ h.slot.active
    BY <1>2, <1>3 DEF Loses, Unwatched, Held
  <2>2. /\ k.slot.awaiting = n /\ k.slot.carry = 0 /\ k.slot.bound = FALSE
        /\ k.slot.active <=> n > 0
    <3>1. /\ IsSlot(Unbind(h.slot))
        /\ Unbind(h.slot).awaiting = h.slot.awaiting /\ Unbind(h.slot).carry = h.slot.carry
        /\ Unbind(h.slot).scan = h.slot.scan /\ Unbind(h.slot).got = h.slot.got
        /\ Unbind(h.slot).tickets = h.slot.tickets
        /\ (~h.slot.active => Unbind(h.slot) = h.slot)
        /\ (h.slot.active => Unbind(h.slot).bound = FALSE /\ (Unbind(h.slot).active <=> h.slot.awaiting > 0))
        /\ (Unbind(h.slot).active => Unbind(h.slot).rows = h.slot.rows)
      BY <1>1, UnbindSlots
    <3> QED BY <2>1, <3>1 DEF Held
  <2> QED BY <1>2, <1>3, <2>1, <2>2 DEF Held
<1>4. CASE ~(h.refs # {} /\ k.refs = {})
  <2>1. k.bound = h.bound /\ k.slot = h.slot /\ k.refs \subseteq h.refs
    BY <1>2, <1>4 DEF Loses, Watched
  <2> QED BY <1>2, <1>4, <2>1 DEF Held
<1> QED BY <1>3, <1>4

\* Soundness but for the two books of questions.
Observed(h, r, n) == IsGateway(h) /\ Held(h, n) /\ Current(h) /\ Indexed(h, r)

LEMMA GlidesObserved ==
  ASSUME NEW h, NEW k, Glides(h, k), NEW r, NEW n \in Nat, Observed(h, r, n)
  PROVE Observed(k, r, n) /\ Scanned(h, k) /\ (k.ask = h.ask \/ k.ask = GivenUp(h.ask))
<1>0. IsGateway(h) /\ Held(h, n) /\ IsGateway(k)
  BY DEF Observed, Glides
<1>1. Held(k, n) /\ Scanned(h, k)
  BY <1>0, GlidesHeld, GlidesScans
<1>2. k.refs \subseteq h.refs /\ SameIndex(h, k)
  BY DEF Glides, Loses
<1>3. Current(k)
  <2>1. \A c \in k.refs : c \in Conns /\ Follows(k.conn[c])
    BY <1>0, <1>1 DEF Held, Matched
  <2>2. \A c \in k.refs : k.conn[c].eng.stream = h.conn[c].eng.stream
    BY <2>1 DEF Glides, Fades
  <2> QED BY <1>2, <2>2 DEF Current, Observed, SameIndex
<1>4. Indexed(k, r)
  <2>1. k.bound => h.bound
    BY <1>0, <1>1, <1>2 DEF Held
  <2> QED BY <1>2, <2>1 DEF Indexed, Observed, SameIndex, CurRows
<1>5. k.ask = h.ask \/ k.ask = GivenUp(h.ask)
  BY DEF Glides, Loses, Watched, Unwatched
<1> QED
  BY <1>0, <1>1, <1>3, <1>4, <1>5 DEF Observed

LEMMA GlidesSound ==
  ASSUME NEW h, NEW k, Glides(h, k), NEW r, NEW n \in Nat, Sound(h, r, n)
  PROVE Sound(k, r, n) /\ Scanned(h, k)
<1>1. Observed(h, r, n) /\ IsGateway(h) /\ Even(h)
  BY DEF Sound, Observed
<1>2. Observed(k, r, n) /\ Scanned(h, k) /\ (k.ask = h.ask \/ k.ask = GivenUp(h.ask))
  BY <1>1, GlidesObserved
<1>3. CASE k.ask = h.ask
  BY <1>1, <1>2, <1>3 DEF Sound, Observed, Even
<1>4. CASE k.ask = GivenUp(h.ask)
  <2>1. Even(k)
    BY <1>1, <1>4, GivenUpFields DEF Even, IsGateway, AskOK
  <2> QED BY <2>1, <1>2 DEF Sound, Observed
<1> QED
  BY <1>2, <1>3, <1>4

LEMMA MovesSound ==
  ASSUME NEW h, NEW k, Moves(h, k), NEW r, NEW n \in Nat, Sound(h, r, n)
  PROVE Sound(k, r, n) /\ ScansOn(h, k)
BY GlidesSound, MovesRings DEF Moves, ScansOn, Sound, Held

\* Only the index is another.
Reindexed(h, k) ==
  /\ DOMAIN k = DOMAIN h
  /\ k.log \in Seq(Seq(Nat)) /\ k.cur \in 0 .. Len(k.log) /\ k.spent \in BOOLEAN
  /\ k.slot = h.slot /\ k.refs = h.refs /\ k.bound = h.bound /\ k.pump = h.pump
  /\ k.ask = h.ask /\ k.conn = h.conn

LEMMA ReindexedHeld ==
  ASSUME NEW h, IsGateway(h), NEW k, Reindexed(h, k), NEW n, Held(h, n), Even(h)
  PROVE IsGateway(k) /\ Held(k, n) /\ Even(k) /\ ScansOn(h, k)
<1>1. IsGateway(k)
  BY DEF IsGateway, Reindexed
<1>2. Matched(k)
  BY DEF Held, Matched, Reindexed
<1>3. ScansOn(h, k)
  BY RingsSame DEF ScansOn, Scanned, Reindexed
<1> QED
  BY <1>1, <1>2, <1>3 DEF Held, Even, Reindexed

LEMMA NewStreamIs ==
  ASSUME NEW h, IsGateway(h)
  PROVE /\ Reindexed(h, NewStream(h))
        /\ NewStream(h).cur # 0 /\ CurRows(NewStream(h)) = << >>
<1> DEFINE e == << >>
           k == [h EXCEPT !.log = Append(@, e), !.cur = Len(h.log) + 1]
<1>1. NewStream(h) = k
  BY DEF NewStream
<1>2. e \in Seq(Nat)
  OBVIOUS
<1> HIDE DEF e
<1>3. h.log \in Seq(Seq(Nat))
  BY DEF IsGateway
<1>4. /\ Append(h.log, e) \in Seq(Seq(Nat)) /\ Len(Append(h.log, e)) = Len(h.log) + 1
      /\ Append(h.log, e)[Len(h.log) + 1] = e /\ Len(h.log) \in Nat
  BY <1>2, <1>3
<1>5. /\ DOMAIN k = DOMAIN h /\ k.log = Append(h.log, e) /\ k.cur = Len(h.log) + 1 /\ k.spent = h.spent
      /\ k.slot = h.slot /\ k.refs = h.refs /\ k.bound = h.bound /\ k.pump = h.pump
      /\ k.ask = h.ask /\ k.conn = h.conn
  BY DEF IsGateway
<1> HIDE DEF k
<1>6. Reindexed(h, k)
  BY <1>4, <1>5 DEF Reindexed, IsGateway
<1>7. k.cur # 0 /\ CurRows(k) = e
  BY <1>4, <1>5 DEF CurRows
<1> QED
  BY <1>1, <1>6, <1>7 DEF e

LEMMA IndexAppendIs ==
  ASSUME NEW h, IsGateway(h), h.cur # 0, NEW rows \in Seq(Nat)
  PROVE /\ Reindexed(h, IndexAppend(h, rows))
        /\ IndexAppend(h, rows).cur = h.cur
        /\ CurRows(IndexAppend(h, rows)) = CurRows(h) \o rows
        /\ IndexAppend(h, rows).spent = h.spent
<1> DEFINE l == [h.log EXCEPT ![h.cur] = @ \o rows]
           k == [h EXCEPT !.log = l]
<1>0. h.log \in Seq(Seq(Nat)) /\ h.cur \in DOMAIN h.log
  BY DEF IsGateway
<1>1. IndexAppend(h, rows) = k
  BY <1>0 DEF IndexAppend, IsGateway
<1>2. l \in Seq(Seq(Nat)) /\ Len(l) = Len(h.log) /\ l[h.cur] = h.log[h.cur] \o rows
  <2>1. h.log[h.cur] \o rows \in Seq(Nat)
    BY <1>0
  <2> QED BY <1>0, <2>1
<1> HIDE DEF l
<1>5. /\ DOMAIN k = DOMAIN h /\ k.log = l /\ k.cur = h.cur /\ k.spent = h.spent
      /\ k.slot = h.slot /\ k.refs = h.refs /\ k.bound = h.bound /\ k.pump = h.pump
      /\ k.ask = h.ask /\ k.conn = h.conn
  BY DEF IsGateway
<1> HIDE DEF k
<1>6. Reindexed(h, k)
  BY <1>2, <1>5 DEF Reindexed, IsGateway
<1> QED
  BY <1>1, <1>2, <1>5, <1>6 DEF CurRows

LEMMA UnfollowedSound ==
  ASSUME NEW h, IsGateway(h), NEW n, Held(h, n), Even(h), h.refs = {}, NEW r
  PROVE Sound(h, r, n)
BY DEF Sound, Held, Current, Indexed

LEMMA RetireAll ==
  ASSUME NEW h, NEW r, NEW n \in Nat, Sound(h, r, n), NEW keep, keep # h.cur
  PROVE Retire(h, keep).refs = {}
<1> DEFINE k == Retire(h, keep)
<1>0. IsGateway(h) /\ Matched(h)
  BY DEF Sound, Held
<1>1. Moves(h, k) /\ \A c \in k.refs : k.conn[c].eng.stream = keep
  BY <1>0, RetireMoves
<1>2. Sound(k, r, n) /\ k.cur = h.cur
  BY <1>1, MovesSound DEF Moves, Glides, SameIndex
<1> QED
  BY <1>1, <1>2 DEF Sound, Current

LEMMA GetIndexSound ==
  ASSUME NEW h, NEW r, NEW n \in Nat, Sound(h, r, n)
  PROVE /\ Sound(GetIndex(h), r, n)
        /\ ScansOn(h, GetIndex(h)) /\ GetIndex(h).cur # 0
        /\ \/ GetIndex(h) = h
           \/ GetIndex(h).refs = {} /\ CurRows(GetIndex(h)) = << >>
<1>0. IsGateway(h) /\ Held(h, n) /\ Even(h)
  BY DEF Sound
<1>1. CASE h.cur = 0
  <2>1. GetIndex(h) = NewStream(h)
    BY <1>1 DEF GetIndex
  <2>2. h.refs = {}
    BY <1>1 DEF Sound, Indexed, Held
  <2>3. Reindexed(h, NewStream(h)) /\ NewStream(h).cur # 0 /\ CurRows(NewStream(h)) = << >>
    BY <1>0, NewStreamIs
  <2> DEFINE k == NewStream(h)
  <2> HIDE DEF k
  <2>4. k.refs = {} /\ IsGateway(k) /\ Held(k, n) /\ Even(k) /\ ScansOn(h, k)
    BY <1>0, <2>2, <2>3, ReindexedHeld DEF Reindexed, k
  <2>5. Sound(k, r, n)
    BY <2>4, UnfollowedSound
  <2> QED BY <2>1, <2>3, <2>4, <2>5 DEF k
<1>2. CASE h.cur # 0 /\ OverBudget(h) /\ ~h.spent
  <2> DEFINE t == Retire(h, 0)
             u == [t EXCEPT !.spent = TRUE]
             k == NewStream(u)
  <2>1. GetIndex(h) = k
    BY <1>2 DEF GetIndex
  <2>2. Moves(h, t) /\ t.refs = {}
    BY <1>0, <1>2, RetireMoves, RetireAll
  <2>3. Sound(t, r, n) /\ ScansOn(h, t)
    BY <2>2, MovesSound
  <2> HIDE DEF t
  <2>4. Reindexed(t, u)
    BY <2>3 DEF Sound, IsGateway, Reindexed
  <2> HIDE DEF u
  <2>5. IsGateway(u) /\ Held(u, n) /\ Even(u) /\ ScansOn(t, u) /\ u.refs = {}
    BY <2>2, <2>3, <2>4, ReindexedHeld DEF Sound, Reindexed
  <2>6. Reindexed(u, k) /\ k.cur # 0 /\ CurRows(k) = << >>
    BY <2>5, NewStreamIs
  <2> HIDE DEF k
  <2>7. IsGateway(k) /\ Held(k, n) /\ Even(k) /\ ScansOn(u, k) /\ k.refs = {}
    BY <2>5, <2>6, ReindexedHeld DEF Reindexed
  <2>8. Sound(k, r, n)
    BY <2>7, UnfollowedSound
  <2>9. ScansOn(h, k)
    BY <2>3, <2>5, <2>7, ScansOnTwice
  <2> QED BY <2>1, <2>6, <2>7, <2>8, <2>9
<1>3. CASE h.cur # 0 /\ ~(OverBudget(h) /\ ~h.spent)
  <2>1. GetIndex(h) = h
    BY <1>3 DEF GetIndex
  <2>2. ScansOn(h, h)
    BY RingsSame DEF ScansOn, Scanned
  <2> QED BY <1>3, <2>1, <2>2
<1> QED BY <1>1, <1>2, <1>3

LEMMA PrefixContinued ==
  ASSUME NEW S, NEW a \in Seq(S), NEW b \in Seq(S), IsPrefix(a, b)
  PROVE /\ SubSeq(b, Len(a) + 1, Len(b)) \in Seq(S)
        /\ a \o SubSeq(b, Len(a) + 1, Len(b)) = b
<1> DEFINE t == SubSeq(b, Len(a) + 1, Len(b))
<1>1. Len(a) \in Nat /\ Len(b) \in Nat /\ Len(a) <= Len(b) /\ SubSeq(a, 1, Len(a)) = SubSeq(b, 1, Len(a))
  BY DEF IsPrefix
<1>2. t \in Seq(S) /\ Len(t) = Len(b) - Len(a) /\ \A i \in 1 .. Len(t) : t[i] = b[Len(a) + i]
  BY <1>1
<1>3. \A i \in 1 .. Len(a) : a[i] = b[i]
  <2>1. ASSUME NEW i \in 1 .. Len(a) PROVE a[i] = b[i]
    <3>1. SubSeq(a, 1, Len(a))[i] = a[i]
      BY <1>1
    <3>2. SubSeq(b, 1, Len(a))[i] = b[i]
      BY <1>1
    <3> QED BY <3>1, <3>2, <1>1
  <2> QED BY <2>1
<1> HIDE DEF t
<1>4. a \o t \in Seq(S) /\ Len(a \o t) = Len(b)
  BY <1>1, <1>2
<1>5. \A i \in 1 .. Len(b) : (a \o t)[i] = b[i]
  <2>1. ASSUME NEW i \in 1 .. Len(b) PROVE (a \o t)[i] = b[i]
    <3>1. CASE i \in 1 .. Len(a)
      BY <3>1, <1>1, <1>2, <1>3
    <3>2. CASE i \notin 1 .. Len(a)
      <4>1. i - Len(a) \in 1 .. Len(t) /\ i = Len(a) + (i - Len(a)) /\ i > Len(a)
        BY <3>2, <1>1, <1>2
      <4>2. (a \o t)[i] = t[i - Len(a)]
        BY <4>1, <1>1, <1>2
      <4>3. t[i - Len(a)] = b[Len(a) + (i - Len(a))]
        BY <4>1, <1>2
      <4> QED BY <4>1, <4>2, <4>3
    <3> QED BY <3>1, <3>2
  <2> QED BY <2>1
<1> QED
  BY <1>2, <1>4, <1>5, SeqEqual DEF t

LEMMA CurRowsTyped == ASSUME NEW h, IsGateway(h), h.cur # 0 PROVE CurRows(h) \in Seq(Nat)
BY DEF IsGateway, CurRows

LEMMA CloseSubsSound ==
  ASSUME NEW h, NEW r, NEW n \in Nat, Sound(h, r, n), NEW s
  PROVE /\ Sound(CloseSubs(h), s, n) /\ ScansOn(h, CloseSubs(h)) /\ Moves(h, CloseSubs(h))
        /\ CloseSubs(h).refs = {}
<1>1. Moves(h, CloseSubs(h)) /\ CloseSubs(h).refs = {}
  BY CloseSubsMoves DEF Sound, Held
<1>2. Sound(CloseSubs(h), r, n) /\ ScansOn(h, CloseSubs(h))
  BY <1>1, MovesSound
<1> QED
  BY <1>1, <1>2, UnfollowedSound DEF Sound

LEMMA OnAppendSound ==
  ASSUME NEW h, NEW r \in Seq(Nat), NEW n \in Nat, Sound(h, r, n), h.bound, NEW row \in Nat
  PROVE Sound(OnAppend(h, row), Append(r, row), n) /\ ScansOn(h, OnAppend(h, row))
<1> DEFINE got == GetIndex(h)
           one == << row >>
           t == IndexAppend(got, one)
           p == Publish(t, Len(CurRows(t)))
           k == OnAppend(h, row)
<1>1. k = IF Refused(h) THEN CloseSubs(h) ELSE IF Backlogged(p) THEN PumpFile(p) ELSE Schedule(p)
  BY DEF OnAppend
<1>a. one \in Seq(Nat) /\ r \o one = Append(r, row)
  OBVIOUS
<1> HIDE DEF one
<1>2. CASE Refused(h)
  <2>1. k = CloseSubs(h)
    BY <1>1, <1>2
  <2> QED BY <2>1, CloseSubsSound
<1>3. CASE ~Refused(h)
  <2>1. /\ Sound(got, r, n) /\ ScansOn(h, got) /\ got.cur # 0
        /\ \/ got = h
           \/ got.refs = {} /\ CurRows(got) = << >>
    BY GetIndexSound
  <2> HIDE DEF got
  <2>2. Reindexed(got, t) /\ t.cur = got.cur /\ CurRows(t) = CurRows(got) \o one
    BY <2>1, <1>a, IndexAppendIs DEF Sound
  <2> HIDE DEF t
  <2>3. IsGateway(t) /\ Held(t, n) /\ Even(t) /\ ScansOn(got, t)
    BY <2>1, <2>2, ReindexedHeld DEF Sound
  <2>4. Sound(t, Append(r, row), n)
    <3>1. CASE got = h
      <4>1. CurRows(got) = r
        BY <3>1, <2>1 DEF Sound, Indexed
      <4>2. Indexed(t, Append(r, row))
        BY <4>1, <2>1, <2>2, <1>a DEF Indexed
      <4>3. Current(t)
        BY <2>1, <2>2 DEF Current, Sound, Reindexed
      <4> QED BY <4>2, <4>3, <2>3 DEF Sound
    <3>2. CASE got.refs = {}
      BY <3>2, <2>2, <2>3, UnfollowedSound DEF Reindexed
    <3> QED BY <3>1, <3>2, <2>1
  <2>5. Moves(t, p)
    <3>1. CurRows(t) \in Seq(Nat) /\ t.cur # 0
      BY <2>1, <2>2, <2>3, CurRowsTyped
    <3>2. Len(CurRows(t)) \in Nat /\ Len(CurRows(t)) <= Len(CurRows(t)) + 1
      BY <3>1
    <3> QED BY <2>3, <3>1, <3>2, PublishMoves
  <2> HIDE DEF p
  <2>6. Moves(t, PumpFile(p)) /\ Moves(t, Schedule(p))
    BY <2>5, PumpFileMoves, MovesTwice, ScheduleMoves DEF Moves, Glides
  <2>7. k = PumpFile(p) \/ k = Schedule(p)
    BY <1>1, <1>3
  <2> HIDE DEF k
  <2>8. Moves(t, k)
    BY <2>6, <2>7
  <2>9. Sound(k, Append(r, row), n) /\ ScansOn(t, k)
    BY <2>4, <2>8, MovesSound
  <2> QED BY <2>1, <2>3, <2>9, ScansOnTwice DEF k
<1> QED BY <1>2, <1>3

LEMMA SyncIndexSound ==
  ASSUME NEW h, NEW rows \in Seq(Nat), NEW n \in Nat, Sound(h, rows, n)
  PROVE /\ Sound(SyncIndex(h, rows), rows, n) /\ ScansOn(h, SyncIndex(h, rows))
        /\ SyncIndex(h, rows).cur # 0 /\ CurRows(SyncIndex(h, rows)) = rows
<1> DEFINE got == GetIndex(h)
           first == Len(CurRows(got)) + 1
           more == SubSeq(rows, first, Len(rows))
           fresh == NewStream(got)
           anew == IndexAppend(fresh, rows)
           t == IndexAppend(got, more)
           base == IF first = 1 THEN Retire(t, t.cur) ELSE t
           k == SyncIndex(h, rows)
<1>1. k = IF IsPrefix(CurRows(got), rows)
          THEN IF OverBudget(t) THEN CloseSubs(t) ELSE Grown(base, first)
          ELSE IF OverBudget(anew) THEN CloseSubs(anew) ELSE Grown(Retire(anew, anew.cur), 1)
  BY DEF SyncIndex
<1>2. /\ Sound(got, rows, n) /\ ScansOn(h, got) /\ got.cur # 0
      /\ \/ got = h
         \/ got.refs = {} /\ CurRows(got) = << >>
  BY GetIndexSound
<1>3. CurRows(got) \in Seq(Nat) /\ first \in Nat /\ IsGateway(got)
  <2>1. IsGateway(got)
    BY <1>2 DEF Sound
  <2>2. CurRows(got) \in Seq(Nat)
    BY <1>2, <2>1 DEF IsGateway, CurRows
  <2> QED BY <2>1, <2>2
<1> HIDE DEF got, k
\* A server t with the rows read, from which only connections fade.
<1>4. ASSUME NEW s, ScansOn(h, s), Sound(s, rows, n), s.cur # 0, CurRows(s) = rows, Moves(s, k)
      PROVE Sound(k, rows, n) /\ ScansOn(h, k) /\ k.cur # 0 /\ CurRows(k) = rows
  <2>1. Sound(k, rows, n) /\ ScansOn(s, k)
    BY <1>4, MovesSound
  <2>2. k.cur = s.cur /\ CurRows(k) = CurRows(s)
    BY <1>4 DEF Moves, Glides, SameIndex, CurRows
  <2> QED BY <1>4, <2>1, <2>2, ScansOnTwice
<1>5. CASE IsPrefix(CurRows(got), rows)
  <2>1. more \in Seq(Nat) /\ CurRows(got) \o more = rows
    BY <1>3, <1>5, PrefixContinued
  <2> HIDE DEF more, first
  <2>2. Reindexed(got, t) /\ t.cur = got.cur /\ CurRows(t) = rows
    BY <1>2, <1>3, <2>1, IndexAppendIs
  <2>3. k = CloseSubs(t) \/ k = Grown(base, first)
    BY <1>1, <1>5
  <2> HIDE DEF t
  <2>4. IsGateway(t) /\ Held(t, n) /\ Even(t) /\ ScansOn(got, t)
    BY <1>2, <2>2, ReindexedHeld DEF Sound
  <2>5. Sound(t, rows, n)
    <3>1. Indexed(t, rows)
      BY <1>2, <2>2 DEF Indexed
    <3>2. Current(t)
      BY <1>2, <2>2 DEF Current, Sound, Reindexed
    <3> QED BY <3>1, <3>2, <2>4 DEF Sound
  <2>6. Moves(t, base)
    BY <2>4, RetireMoves, MovesSelf
  <2> HIDE DEF base
  <2>7. Moves(t, Grown(base, first))
    <3>1. IsGateway(base) /\ base.cur # 0
      BY <2>2, <2>6, <1>2 DEF Moves, Glides, SameIndex
    <3>2. Moves(base, Grown(base, first))
      BY <3>1, <1>3, GrownMoves
    <3> QED BY <2>6, <3>2, MovesTwice
  <2>8. Moves(t, k)
    BY <2>3, <2>4, <2>7, CloseSubsMoves
  <2>9. ScansOn(h, t)
    BY <1>2, <2>4, ScansOnTwice
  <2>10. t.cur # 0
    BY <1>2, <2>2
  <2> QED BY <1>4, <2>2, <2>5, <2>8, <2>9, <2>10 DEF k
<1>6. CASE ~IsPrefix(CurRows(got), rows)
  <2>1. got.refs = {}
    <3>1. CASE CurRows(got) = << >>
      <4>1. IsPrefix(<< >>, rows)
        BY DEF IsPrefix
      <4> QED BY <3>1, <4>1, <1>6
    <3>2. CASE got = h
      <4>1. IsPrefix(rows, rows)
        BY DEF IsPrefix
      <4>2. ~got.bound
        BY <4>1, <1>2, <1>6 DEF Sound, Indexed
      <4> QED BY <4>2, <1>2 DEF Sound, Held
    <3> QED BY <3>1, <3>2, <1>2
  <2>2. Reindexed(got, fresh) /\ fresh.cur # 0 /\ CurRows(fresh) = << >>
    BY <1>3, NewStreamIs
  <2>3. k = CloseSubs(anew) \/ k = Grown(Retire(anew, anew.cur), 1)
    BY <1>1, <1>6
  <2> HIDE DEF fresh
  <2>4. IsGateway(fresh) /\ Held(fresh, n) /\ Even(fresh) /\ ScansOn(got, fresh) /\ fresh.refs = {}
    BY <1>2, <2>1, <2>2, ReindexedHeld DEF Sound, Reindexed
  <2>5. Reindexed(fresh, anew) /\ anew.cur # 0 /\ CurRows(anew) = rows
    <3>1. << >> \o rows = rows
      OBVIOUS
    <3> QED BY <3>1, <2>2, <2>4, IndexAppendIs
  <2> HIDE DEF anew
  <2>6. IsGateway(anew) /\ Held(anew, n) /\ Even(anew) /\ ScansOn(fresh, anew) /\ anew.refs = {}
    BY <2>4, <2>5, ReindexedHeld DEF Reindexed
  <2>7. Sound(anew, rows, n)
    BY <2>6, UnfollowedSound
  <2> DEFINE u == Retire(anew, anew.cur)
  <2>8. Moves(anew, u)
    BY <2>6, RetireMoves
  <2> HIDE DEF u
  <2>9. Moves(anew, Grown(u, 1))
    <3>1. IsGateway(u) /\ u.cur # 0
      BY <2>5, <2>8 DEF Moves, Glides, SameIndex
    <3>2. Moves(u, Grown(u, 1))
      BY <3>1, GrownMoves
    <3> QED BY <2>8, <3>2, MovesTwice
  <2>10. Moves(anew, k)
    BY <2>3, <2>6, <2>9, CloseSubsMoves DEF u
  <2>11. ScansOn(h, anew)
    BY <1>2, <2>4, <2>6, ScansOnTwice
  <2> QED BY <1>4, <2>5, <2>7, <2>10, <2>11 DEF k
<1> QED BY <1>5, <1>6

-------------------------------------------------------------------------------
(* What the source reports *)

Scan3(h, k) ==
  k.slot.scan = h.slot.scan /\ k.slot.got = h.slot.got /\ k.slot.tickets = h.slot.tickets

\* The slot alone is another, and not in what observation is about.
LEMMA SlotIs ==
  ASSUME NEW h, IsGateway(h), NEW s, IsSlot(s)
  PROVE LET k == [h EXCEPT !.slot = s]
        IN /\ IsGateway(k) /\ k.slot = s /\ SameIndex(h, k) /\ k.refs = h.refs /\ k.bound = h.bound
           /\ k.ask = h.ask /\ k.conn = h.conn /\ k.pump = h.pump /\ DOMAIN k = DOMAIN h
<1> DEFINE k == [h EXCEPT !.slot = s]
<1>1. /\ DOMAIN k = DOMAIN h /\ k.slot = s /\ k.log = h.log /\ k.cur = h.cur /\ k.spent = h.spent
      /\ k.refs = h.refs /\ k.bound = h.bound /\ k.pump = h.pump /\ k.ask = h.ask /\ k.conn = h.conn
  BY DEF IsGateway
<1> HIDE DEF k
<1>2. IsGateway(k)
  BY <1>1 DEF IsGateway
<1> QED
  BY <1>1, <1>2 DEF SameIndex, k

SameWatch(s, t) ==
  t.active = s.active /\ t.bound = s.bound /\ t.awaiting = s.awaiting /\ t.carry = s.carry

LEMMA SlotSound ==
  ASSUME NEW h, NEW r, NEW n, Sound(h, r, n), NEW s, IsSlot(s), SameWatch(h.slot, s)
  PROVE Sound([h EXCEPT !.slot = s], r, n) /\ [h EXCEPT !.slot = s].slot = s
        /\ Rings(h, [h EXCEPT !.slot = s])
<1> DEFINE k == [h EXCEPT !.slot = s]
<1>1. /\ IsGateway(k) /\ k.slot = s /\ SameIndex(h, k) /\ k.refs = h.refs /\ k.bound = h.bound
      /\ k.ask = h.ask /\ k.conn = h.conn
  BY SlotIs DEF Sound
<1> HIDE DEF k
<1>2. Matched(k)
  BY <1>1 DEF Sound, Held, Matched
<1>3. Held(k, n)
  BY <1>1, <1>2 DEF Sound, Held, SameWatch
<1>4. Current(k) /\ Indexed(k, r) /\ Even(k)
  BY <1>1 DEF Sound, Current, Indexed, Even, SameIndex, CurRows
<1>5. Rings(h, k)
  BY <1>1, RingsSame
<1> QED
  BY <1>1, <1>3, <1>4, <1>5 DEF Sound, k

Same(h, k) == k = h
Rests == INSTANCE FoldRules WITH
  op <- LAMBDA ctx, c, acc : ReleaseWatcher(acc, c),
  P <- LAMBDA h, ctx, T, acc : Same(h, acc)

ReleaseEach(h, S) == FoldSet(LAMBDA c, acc : ReleaseWatcher(acc, c), h, S)

LEMMA ReleaseNobody == ASSUME NEW h PROVE ReleaseEach(h, {}) = h
<1> DEFINE S == {}
<1>1. ReleaseEach(h, {}) = Rests!Over(0, h, S)
  BY DEF ReleaseEach, Rests!Over, Rests!Some, FoldSet, MapThenFoldSet
<1>2. \A fam \in SUBSET SUBSET S : fam # {} => \E low \in fam : \A any \in fam : any \subseteq low => any = low
  BY FS_EmptySet, SubsetsFounded
<1>3. Same(h, h)
  BY DEF Same
<1>4. \A T \in SUBSET S : \A c \in S \ T : \A acc : Same(h, acc) => Same(h, ReleaseWatcher(acc, c))
  OBVIOUS
<1> HIDE DEF S
<1>5. Same(h, Rests!Over(0, h, S))
  BY <1>2, <1>3, <1>4, Rests!FoldSetRule
<1> QED
  BY <1>1, <1>5 DEF Same

LEMMA TerminalSound ==
  ASSUME NEW h, NEW r, Sound(h, r, 0), NEW code \in {4402, 4409}, NEW s
  PROVE Sound(Terminal(h, code), s, 0) /\ ScansOn(h, Terminal(h, code))
<1> DEFINE cl == CloseEntry(h.slot)
           dead == [h EXCEPT !.slot = cl]
           gone == [dead EXCEPT !.cur = 0]
           ended == IF code = 4409 THEN Retire(gone, 0) ELSE CloseSubs(gone)
           k == Terminal(h, code)
<1>0. IsGateway(h) /\ Held(h, 0) /\ Even(h) /\ IsSlot(h.slot) /\ h.bound \in BOOLEAN
  BY DEF Sound, IsGateway
<1>a. AskOK(h.ask) /\ h.ask \in AskBooks /\ OpenAsked(h.ask)
  BY <1>0 DEF IsGateway, AskOK
<1>1. k = IF ~h.bound THEN dead
          ELSE ReleaseEach(ended, IF code = 4409 /\ ended.refs = h.refs THEN h.refs ELSE {})
  BY DEF Terminal, ForgetStream, ReleaseEach
<1>2. /\ IsSlot(cl) /\ cl.active = FALSE /\ cl.bound = FALSE
      /\ cl.awaiting = h.slot.awaiting /\ cl.carry = h.slot.carry
      /\ cl.scan = h.slot.scan /\ cl.got = h.slot.got
      /\ cl.tickets = h.slot.tickets
  <2> DEFINE e == << >>
  <2>1. e \in Seq(Nat) /\ 0 \in Nat
    OBVIOUS
  <2> HIDE DEF e
  <2>2. cl = [h.slot EXCEPT !.active = FALSE, !.bound = FALSE, !.rows = e, !.ino = 0, !.watch = 0,
                            !.news = FALSE]
    BY DEF CloseEntry, e
  <2> HIDE DEF cl
  <2> QED BY <1>0, <2>1, <2>2 DEF IsSlot
<1> HIDE DEF cl
<1>3. /\ IsGateway(dead) /\ dead.slot = cl /\ SameIndex(h, dead) /\ dead.refs = h.refs
      /\ dead.bound = h.bound /\ dead.ask = h.ask /\ dead.conn = h.conn /\ DOMAIN dead = DOMAIN h
      /\ dead.pump = h.pump
  BY <1>0, <1>2, SlotIs
<1> HIDE DEF dead
<1>4. Matched(dead) /\ Even(dead)
  BY <1>0, <1>3 DEF Held, Matched, Even
<1>5. CASE ~h.bound
  <2>1. k = dead
    BY <1>1, <1>5
  <2>2. Held(dead, 0) /\ dead.refs = {}
    <3>1. dead.refs = {} /\ ~dead.bound
      BY <1>0, <1>3, <1>5 DEF Held
    <3>2. dead.slot.awaiting = 0 /\ dead.slot.carry = 0 /\ ~dead.slot.active
      BY <1>0, <1>2, <1>3 DEF Held
    <3>3. dead.slot.bound = dead.bound
      BY <1>0, <1>2, <1>3, <1>5 DEF IsGateway, IsSlot
    <3> QED BY <3>1, <3>2, <3>3, <1>4 DEF Held
  <2>3. Sound(dead, s, 0)
    BY <1>3, <1>4, <2>2, UnfollowedSound
  <2>4. ScansOn(h, dead)
    BY <1>2, <1>3, RingsSame DEF ScansOn, Scanned
  <2> QED BY <2>1, <2>3, <2>4
<1>6. CASE h.bound
  <2>1. /\ DOMAIN gone = DOMAIN dead /\ gone.slot = cl /\ gone.log = dead.log /\ gone.cur = 0
        /\ gone.spent = dead.spent /\ gone.refs = h.refs /\ gone.bound = h.bound /\ gone.pump = dead.pump
        /\ gone.ask = h.ask /\ gone.conn = h.conn
    BY <1>3 DEF IsGateway
  <2> HIDE DEF gone
  <2>2. IsGateway(gone)
    <3>1. 0 \in 0 .. Len(dead.log)
      BY <1>3 DEF IsGateway
    <3> QED BY <1>3, <2>1, <3>1 DEF IsGateway
  <2>3. Matched(gone) /\ Even(gone)
    BY <1>0, <2>1 DEF Held, Matched, Even
  <2>4. Moves(gone, ended) /\ ended.refs = {}
    <3>1. CASE code = 4409
      <4> DEFINE T == RetireSet(gone, 0)
      <4>1. EndedAll(gone, 4409, T, Retire(gone, 0))
        BY <2>2, RetireEnds
      <4>2. T = h.refs
        <5>1. h.cur # 0 /\ \A c \in h.refs : h.conn[c].eng.stream # 0 /\ h.conn[c].open
          BY <1>6 DEF Sound, Current, Indexed, Held, Matched
        <5> QED BY <5>1, <2>1 DEF RetireSet
      <4>3. T \subseteq Conns
        BY <4>2, <1>0 DEF IsGateway
      <4> HIDE DEF T
      <4>4. Retire(gone, 0).refs = h.refs \ T
        BY <2>1, <2>2, <2>3, <4>1, <4>3, EndedAllLeave
      <4> QED BY <3>1, <4>1, <4>2, <4>4 DEF EndedAll
    <3>2. CASE code = 4402
      BY <3>2, <2>2, <2>3, CloseSubsMoves
    <3> QED BY <3>1, <3>2
  <2> HIDE DEF ended
  <2>5. h.refs # {}
    BY <1>0, <1>6 DEF Held
  <2>6. k = ended
    <3>1. k = ReleaseEach(ended, {})
      BY <1>1, <1>6, <2>4, <2>5
    <3> QED BY <3>1, ReleaseNobody
  <2>7. ended.bound = FALSE /\ ended.slot = cl
    <3>1. Unwatched(gone, ended)
      BY <2>1, <2>4, <2>5 DEF Moves, Glides, Loses
    <3>2. Unbind(cl) = cl
      BY <1>2 DEF Unbind
    <3> QED BY <3>1, <3>2, <2>1, <1>6 DEF Unwatched
  <2>8. IsGateway(ended) /\ Matched(ended)
    BY <2>3, <2>4 DEF Moves, Glides
  <2>9. Held(ended, 0)
    <3>1. ended.slot.awaiting = 0 /\ ended.slot.carry = 0 /\ ~ended.slot.active
      BY <2>7, <1>0, <1>2 DEF Held
    <3>2. ended.slot.bound = ended.bound /\ ~ended.bound
      BY <2>7, <1>2, <2>8 DEF IsGateway, IsSlot
    <3> QED BY <3>1, <3>2, <2>4, <2>8 DEF Held
  <2>10. Even(ended)
    <3>1. ended.ask = h.ask \/ ended.ask = GivenUp(h.ask)
      BY <2>1, <2>4 DEF Moves, Glides, Loses, Watched, Unwatched
    <3>2. CASE ended.ask = h.ask
      BY <3>2, <1>0 DEF Even
    <3>3. CASE ended.ask = GivenUp(h.ask)
      <4> DEFINE u == h.ask
      <4>1. u \in AskBooks /\ OpenAsked(u)
        BY <1>a
      <4> HIDE DEF u
      <4>2. GivenUp(u).pending = {} /\ GivenUp(u).gate = {}
        BY <4>1, GivenUpFields
      <4> QED BY <3>3, <4>2 DEF Even, u
    <3> QED BY <3>1, <3>2, <3>3
  <2>11. Sound(ended, s, 0)
    BY <2>4, <2>8, <2>9, <2>10, UnfollowedSound
  <2>13. Rings(h, ended)
    <3>1. Rings(h, gone)
      BY <2>1, RingsSame
    <3>2. Rings(gone, ended)
      BY <2>3, <2>4, MovesRings
    <3> QED BY <3>1, <3>2, RingsTwice
  <2>12. ScansOn(h, ended)
    BY <1>2, <2>7, <2>13 DEF ScansOn, Scanned
  <2> QED BY <2>6, <2>11, <2>12
<1> QED BY <1>5, <1>6

LEMMA RearmWatchSound ==
  ASSUME NEW h, NEW r, Sound(h, r, 0), NEW file
  PROVE Sound(RearmWatch(h, file), r, 0) /\ ScansOn(h, RearmWatch(h, file))
<1>1. CASE ~h.slot.active
  <2>1. RearmWatch(h, file) = h
    BY <1>1 DEF RearmWatch
  <2> QED BY <2>1, RingsSame DEF ScansOn, Scanned
<1>2. CASE h.slot.active /\ ~file.there
  <2>1. RearmWatch(h, file) = Terminal(h, 4402)
    BY <1>2 DEF RearmWatch
  <2> QED BY <2>1, TerminalSound
<1>3. CASE h.slot.active /\ file.there
  <2> DEFINE s == Rearm(h.slot, file)
  <2>1. RearmWatch(h, file) = [h EXCEPT !.slot = s]
    BY <1>3 DEF RearmWatch
  <2>2. IsSlot(h.slot)
    BY DEF Sound, IsGateway
  <2>3. /\ IsSlot(s) /\ SameWatch(h.slot, s) /\ s.rows = h.slot.rows /\ s.scan = h.slot.scan
        /\ s.got = h.slot.got /\ s.tickets = h.slot.tickets
    BY <2>2 DEF Rearm, IsSlot, SameWatch
  <2> HIDE DEF s
  <2>4. /\ Sound([h EXCEPT !.slot = s], r, 0) /\ [h EXCEPT !.slot = s].slot = s
        /\ Rings(h, [h EXCEPT !.slot = s])
    BY <2>3, SlotSound
  <2> QED BY <2>1, <2>3, <2>4 DEF ScansOn, Scanned, SameWatch
<1> QED BY <1>1, <1>2, <1>3

-------------------------------------------------------------------------------
(* The scan of the file *)

Ticks(s) ==
  /\ \A i \in DOMAIN s.tickets : ~s.tickets[i].released
  /\ s.tickets # << >> => ~s.active /\ s.scan # "none"
  /\ s.scan = "first" => ~s.active
  /\ s.got.done => s.scan # "none"
Watching(h) == Sound(h, h.slot.rows, 0) /\ Ticks(h.slot)

\* The scan in flight is kept, and the entry at most closed.
Carries(h, k) == Scan3(h, k) /\ (k.slot.active => h.slot.active) /\ Rings(h, k)

LEMMA ScansCarries ==
  ASSUME NEW h, NEW k, ScansOn(h, k) PROVE Carries(h, k)
BY DEF ScansOn, Scanned, Carries, Scan3

LEMMA CarriesTwice ==
  ASSUME NEW h, NEW k, NEW m, Carries(h, k), Carries(k, m) PROVE Carries(h, m)
BY RingsTwice DEF Carries, Scan3

LEMMA CarriesTicks ==
  ASSUME NEW h, NEW k, Carries(h, k), Ticks(h.slot) PROVE Ticks(k.slot)
BY DEF Carries, Scan3, Ticks

\* Rows that nobody is shown do not matter.
LEMMA OwnSound ==
  ASSUME NEW h, NEW r, Sound(h, r, 0), h.slot.active => h.slot.rows = r
  PROVE Sound(h, h.slot.rows, 0)
<1>1. CASE h.slot.active
  BY <1>1
<1>2. CASE ~h.slot.active
  BY <1>2 DEF Sound, Held, Indexed
<1> QED BY <1>1, <1>2

LEMMA MovesWatching ==
  ASSUME NEW h, NEW k, Moves(h, k), Sound(h, h.slot.rows, 0)
  PROVE Sound(k, k.slot.rows, 0) /\ Carries(h, k)
<1> DEFINE r == h.slot.rows
<1>1. Sound(h, r, 0) /\ 0 \in Nat
  OBVIOUS
<1> HIDE DEF r
<1>2. Sound(k, r, 0) /\ ScansOn(h, k)
  BY <1>1, MovesSound
<1>3. k.slot.active => k.slot.rows = r
  BY <1>2 DEF ScansOn, Scanned, r
<1> QED BY <1>2, <1>3, OwnSound, ScansCarries


LEMMA StartRescanSlot ==
  ASSUME NEW s, IsSlot(s), Ticks(s)
  PROVE LET t == StartRescan(s)
        IN /\ IsSlot(t) /\ SameWatch(s, t) /\ t.rows = s.rows /\ Ticks(t)
           /\ t.tickets = s.tickets
<1> DEFINE u == Unread
           t == StartRescan(s)
           d == [s EXCEPT !.dirty = TRUE]
           a == [s EXCEPT !.scan = "again", !.got = u]
<1>1. u \in Reads /\ ~u.done
  <2> DEFINE e == << >>
  <2>1. e \in Seq(Nat)
    OBVIOUS
  <2> HIDE DEF e
  <2>2. u = [rows |-> e, ino |-> 0, there |-> FALSE, done |-> FALSE]
    BY DEF Unread, e
  <2> QED BY <2>1, <2>2 DEF Reads
<1> HIDE DEF u
<1>2. t = IF ~s.active \/ ~s.bound THEN s ELSE IF s.scan # "none" THEN d ELSE a
  BY DEF StartRescan, u
<1>3. IsSlot(d) /\ SameWatch(s, d) /\ d.rows = s.rows /\ Ticks(d) /\ d.tickets = s.tickets
  BY DEF IsSlot, SameWatch, Ticks
<1>4. ASSUME s.active, s.scan = "none"
      PROVE IsSlot(a) /\ SameWatch(s, a) /\ a.rows = s.rows /\ Ticks(a) /\ a.tickets = s.tickets
  <2>1. /\ a.scan = "again" /\ a.got = u /\ a.tickets = s.tickets /\ a.active = s.active
        /\ a.rows = s.rows /\ SameWatch(s, a) /\ IsSlot(a)
    BY <1>1 DEF IsSlot, SameWatch
  <2> HIDE DEF a
  <2>2. Ticks(a)
    BY <2>1, <1>1, <1>4 DEF Ticks
  <2> QED BY <2>1, <2>2
<1>5. SameWatch(s, s)
  BY DEF SameWatch
<1> HIDE DEF t, a, d
<1> QED BY <1>2, <1>3, <1>4, <1>5 DEF t

LEMMA WatchFailsWatching ==
  ASSUME NEW h, Watching(h), NEW file
  PROVE Watching(WatchFails(h, file)) /\ Rings(h, WatchFails(h, file))
        /\ WatchFails(h, file).slot.tickets = h.slot.tickets
<1> DEFINE r == h.slot.rows
           t == RearmWatch(h, file)
           k == WatchFails(h, file)
           e == [h.slot EXCEPT !.early = TRUE, !.dirty = TRUE]
           d == [t.slot EXCEPT !.dirty = TRUE]
           a == StartRescan(t.slot)
<1>1. k = IF h.slot.scan = "first" THEN [h EXCEPT !.slot = e]
          ELSE IF t.slot.scan # "none" THEN [t EXCEPT !.slot = d]
          ELSE [t EXCEPT !.slot = a]
  BY DEF WatchFails
<1>2. Sound(h, r, 0) /\ IsSlot(h.slot) /\ Ticks(h.slot)
  BY DEF Watching, Sound, IsGateway
<1> HIDE DEF r
<1>3. Sound(t, r, 0) /\ ScansOn(h, t)
  BY <1>2, RearmWatchSound
<1> HIDE DEF t
<1>4. Sound(t, t.slot.rows, 0) /\ Ticks(t.slot) /\ IsSlot(t.slot)
  <2>1. t.slot.active => t.slot.rows = r
    BY <1>3 DEF ScansOn, Scanned, r
  <2>2. Carries(h, t)
    BY <1>3, ScansCarries
  <2> QED BY <2>1, <2>2, <1>2, <1>3, OwnSound, CarriesTicks DEF Sound, IsGateway
<1>a. Rings(h, t) /\ t.slot.tickets = h.slot.tickets
  BY <1>3 DEF ScansOn, Scanned
<1>5. CASE h.slot.scan = "first"
  <2>1. IsSlot(e) /\ SameWatch(h.slot, e) /\ e.rows = h.slot.rows /\ Ticks(e) /\ e.tickets = h.slot.tickets
    BY <1>2 DEF IsSlot, SameWatch, Ticks
  <2> HIDE DEF e
  <2>2. Sound([h EXCEPT !.slot = e], e.rows, 0) /\ [h EXCEPT !.slot = e].slot = e
        /\ Rings(h, [h EXCEPT !.slot = e])
    BY <2>1, <1>2, SlotSound DEF r
  <2> QED BY <2>1, <2>2, <1>1, <1>5 DEF Watching
<1>6. CASE h.slot.scan # "first" /\ t.slot.scan # "none"
  <2>1. IsSlot(d) /\ SameWatch(t.slot, d) /\ d.rows = t.slot.rows /\ Ticks(d) /\ d.tickets = t.slot.tickets
    BY <1>4 DEF IsSlot, SameWatch, Ticks
  <2> HIDE DEF d
  <2>2. Sound([t EXCEPT !.slot = d], d.rows, 0) /\ [t EXCEPT !.slot = d].slot = d
        /\ Rings(t, [t EXCEPT !.slot = d])
    BY <2>1, <1>4, SlotSound
  <2>3. Rings(h, [t EXCEPT !.slot = d])
    BY <2>2, <1>a, RingsTwice
  <2> QED BY <2>1, <2>2, <2>3, <1>a, <1>1, <1>6 DEF Watching
<1>7. CASE h.slot.scan # "first" /\ ~(t.slot.scan # "none")
  <2>1. IsSlot(a) /\ SameWatch(t.slot, a) /\ a.rows = t.slot.rows /\ Ticks(a) /\ a.tickets = t.slot.tickets
    BY <1>4, StartRescanSlot
  <2> HIDE DEF a
  <2>2. Sound([t EXCEPT !.slot = a], a.rows, 0) /\ [t EXCEPT !.slot = a].slot = a
        /\ Rings(t, [t EXCEPT !.slot = a])
    BY <2>1, <1>4, SlotSound
  <2>3. Rings(h, [t EXCEPT !.slot = a])
    BY <2>2, <1>a, RingsTwice
  <2> QED BY <2>1, <2>2, <2>3, <1>a, <1>1, <1>7 DEF Watching
<1> QED BY <1>5, <1>6, <1>7

-------------------------------------------------------------------------------
(* Rows found by a scan are published, then the scan ends *)

Carried(h, k) == Sound(k, k.slot.rows, 0) /\ Carries(h, k)

LEMMA DeliverCarried ==
  ASSUME NEW h, NEW m, Carried(m, h), NEW row \in Nat
  PROVE Carried(m, Deliver(h, row))
<1> DEFINE r == h.slot.rows
           t == OnAppend(h, row)
           q == IF t.slot.active THEN Append(t.slot.rows, row) ELSE t.slot.rows
           s == [t.slot EXCEPT !.rows = q]
           k == Deliver(h, row)
<1>1. k = IF ~h.slot.active \/ ~h.slot.bound THEN h ELSE [t EXCEPT !.slot = s]
  BY DEF Deliver
<1>2. CASE ~h.slot.active \/ ~h.slot.bound
  BY <1>1, <1>2
<1>3. CASE h.slot.active /\ h.slot.bound
  <2>1. Sound(h, r, 0) /\ r \in Seq(Nat) /\ h.bound /\ 0 \in Nat
    BY <1>3 DEF Carried, Sound, IsGateway, IsSlot, Held
  <2> HIDE DEF r
  <2>2. Sound(t, Append(r, row), 0) /\ ScansOn(h, t)
    BY <2>1, OnAppendSound
  <2> HIDE DEF t
  <2>3. IsSlot(t.slot) /\ (t.slot.active => t.slot.rows = r)
    BY <2>2 DEF Sound, IsGateway, ScansOn, Scanned, r
  <2>4. q \in Seq(Nat) /\ (t.slot.active => q = Append(r, row))
    BY <2>3 DEF IsSlot
  <2> HIDE DEF q
  <2>5. /\ IsSlot(s) /\ SameWatch(t.slot, s) /\ s.rows = q /\ s.active = t.slot.active
        /\ s.scan = t.slot.scan /\ s.got = t.slot.got /\ s.tickets = t.slot.tickets
    BY <2>3, <2>4 DEF IsSlot, SameWatch
  <2> HIDE DEF s
  <2>6. Sound([t EXCEPT !.slot = s], Append(r, row), 0) /\ [t EXCEPT !.slot = s].slot = s
        /\ Rings(t, [t EXCEPT !.slot = s])
    BY <2>2, <2>5, SlotSound
  <2>7. k = [t EXCEPT !.slot = s]
    BY <1>1, <1>3
  <2> HIDE DEF k
  <2>8. Sound(k, Append(r, row), 0) /\ k.slot = s /\ Rings(h, k)
    BY <2>2, <2>6, <2>7, RingsTwice DEF ScansOn
  <2>9. Sound(k, k.slot.rows, 0)
    BY <2>8, <2>4, <2>5, OwnSound
  <2>10. Carries(h, k)
    BY <2>8, <2>5, <2>2 DEF Carries, Scan3, ScansOn, Scanned
  <2>11. Carries(m, h)
    BY DEF Carried
  <2> QED BY <2>9, <2>10, <2>11, CarriesTwice DEF Carried, k
<1> QED BY <1>2, <1>3

Delivers == INSTANCE FoldRules WITH
  op <- LAMBDA ctx, row, acc : Deliver(acc, row),
  P <- LAMBDA m, ctx, i, acc : Carried(m, acc)

LEMMA DeliversCarried ==
  ASSUME NEW h, Sound(h, h.slot.rows, 0), NEW new \in Seq(Nat)
  PROVE Carried(h, FoldLeft(Deliver, h, new))
<1>1. FoldLeft(Deliver, h, new) = Delivers!Along(0, h, new)
  BY DEF Delivers!Along, Delivers!Largest, FoldLeft, MapThenFoldSet, Max
<1>2. Carried(h, h)
  BY RingsSame DEF Carried, Carries, Scan3
<1> DEFINE n == Len(new)
<1>3. n \in Nat /\ DOMAIN new = 1 .. n /\ \A i \in 1 .. n : new[i] \in Nat
  OBVIOUS
<1> HIDE DEF n
<1>4. \A i \in 1 .. n : \A acc : Carried(h, acc) => Carried(h, Deliver(acc, new[i]))
  BY <1>3, DeliverCarried
<1>5. Carried(h, Delivers!Along(0, h, new))
  BY <1>2, <1>3, <1>4, IntervalFounded, Delivers!FoldLeftRule
<1> QED
  BY <1>1, <1>5

RefuseEach(h, code, ks) == FoldLeft(LAMBDA acc, k : Refuse(acc, k.by, code, k.req), h, ks)
Refusals == INSTANCE FoldRules WITH
  op <- LAMBDA code, k, acc : Refuse(acc, k.by, code, k.req),
  P <- LAMBDA h, code, i, acc : Moves(h, acc)

LEMMA RefuseEachMoves ==
  ASSUME NEW h, IsGateway(h), NEW code, NEW ks, Ticketed(ks)
  PROVE Moves(h, RefuseEach(h, code, ks))
<1>1. RefuseEach(h, code, ks) = Refusals!Along(code, h, ks)
  BY DEF RefuseEach, Refusals!Along, Refusals!Largest, FoldLeft, MapThenFoldSet, Max
<1>2. Moves(h, h)
  BY MovesSelf
<1> DEFINE n == Len(ks)
<1>3. n \in Nat /\ DOMAIN ks = 1 .. n /\ \A i \in 1 .. n : ks[i].by \in Conns
  BY SeqFacts DEF Ticketed, IsTicket
<1> HIDE DEF n
<1>4. \A i \in 1 .. n : \A acc : Moves(h, acc) => Moves(h, Refuse(acc, ks[i].by, code, ks[i].req))
  <2>1. ASSUME NEW i \in 1 .. n, NEW acc, Moves(h, acc)
        PROVE Moves(h, Refuse(acc, ks[i].by, code, ks[i].req))
    <3>1. IsGateway(acc) /\ ks[i].by \in Conns
      BY <2>1, <1>3 DEF Moves, Glides
    <3>2. Moves(acc, Refuse(acc, ks[i].by, code, ks[i].req))
      BY <3>1, RefuseWorn, WornMoves
    <3> QED BY <2>1, <3>2, MovesTwice
  <2> QED BY <2>1
<1>5. Moves(h, Refusals!Along(code, h, ks))
  BY <1>2, <1>3, <1>4, IntervalFounded, Refusals!FoldLeftRule
<1> QED
  BY <1>1, <1>5

LEMMA UnreadIs == Unread \in Reads /\ ~Unread.done
<1> DEFINE e == << >>
<1>1. e \in Seq(Nat)
  OBVIOUS
<1> HIDE DEF e
<1>2. Unread = [rows |-> e, ino |-> 0, there |-> FALSE, done |-> FALSE]
  BY DEF Unread, e
<1> QED BY <1>1, <1>2 DEF Reads

LEMMA FinishRescanSlot ==
  ASSUME NEW s, IsSlot(s), s.tickets = << >>, NEW again
  PROVE LET t == FinishRescan(s, again)
        IN IsSlot(t) /\ SameWatch(s, t) /\ t.rows = s.rows /\ Ticks(t) /\ t.tickets = s.tickets
<1> DEFINE u == Unread
           i == [s EXCEPT !.scan = "none", !.got = u]
           d == [i EXCEPT !.dirty = FALSE]
           a == StartRescan(d)
           t == FinishRescan(s, again)
<1>1. t = IF (s.dirty \/ again) /\ s.active /\ s.bound THEN a ELSE i
  BY DEF FinishRescan, u
<1>2. u \in Reads /\ ~u.done
  BY UnreadIs
<1> HIDE DEF u
<1>3. /\ IsSlot(i) /\ SameWatch(s, i) /\ i.rows = s.rows /\ i.tickets = s.tickets
      /\ i.scan = "none" /\ i.got = u
  BY <1>2 DEF IsSlot, SameWatch
<1> HIDE DEF i
<1>4. Ticks(i)
  BY <1>2, <1>3 DEF Ticks
<1>5. IsSlot(d) /\ SameWatch(i, d) /\ d.rows = i.rows /\ Ticks(d) /\ d.tickets = i.tickets
  BY <1>3, <1>4 DEF IsSlot, SameWatch, Ticks
<1> HIDE DEF d
<1>6. IsSlot(a) /\ SameWatch(d, a) /\ a.rows = d.rows /\ Ticks(a) /\ a.tickets = d.tickets
  BY <1>5, StartRescanSlot
<1> HIDE DEF a, t
<1>7. CASE t = a
  BY <1>7, <1>3, <1>5, <1>6 DEF SameWatch, t
<1>8. CASE t = i
  BY <1>8, <1>3, <1>4 DEF t
<1> QED BY <1>1, <1>7, <1>8

\* What becomes of the watch when rescanOnce() has read.
Rescanned(h, file) ==
  LET s    == h.slot
      new  == SubSeq(s.got.rows, Len(s.rows) + 1, Len(s.got.rows))
      kept == [h EXCEPT !.slot.ino = s.got.ino]
      v    == Verdict(s)
  IN CASE v = "stale" -> h
       [] v = "unavailable" -> Terminal(h, 4402)
       [] v = "invalid" -> Terminal(h, 4409)
       [] v \in {"same", "append"} -> RearmWatch(FoldLeft(Deliver, kept, new), file)

LEMMA RescannedCarried ==
  ASSUME NEW h, Sound(h, h.slot.rows, 0), NEW file
  PROVE Sound(Rescanned(h, file), Rescanned(h, file).slot.rows, 0) /\ Rings(h, Rescanned(h, file))
<1> DEFINE s == h.slot
           w == [s EXCEPT !.ino = s.got.ino]
           new == SubSeq(s.got.rows, Len(s.rows) + 1, Len(s.got.rows))
           kept == [h EXCEPT !.slot = w]
           v == Verdict(s)
           k == Rescanned(h, file)
<1>1. k = CASE v = "stale" -> h
            [] v = "unavailable" -> Terminal(h, 4402)
            [] v = "invalid" -> Terminal(h, 4409)
            [] v \in {"same", "append"} -> RearmWatch(FoldLeft(Deliver, kept, new), file)
  BY DEF Rescanned
<1>2. v \in {"stale", "unavailable", "same", "append", "invalid"}
  BY DEF Verdict
<1>3. IsSlot(s)
  BY DEF Sound, IsGateway
<1> HIDE DEF v
<1>4. CASE v = "stale"
  BY <1>1, <1>4, RingsSame
<1>5. CASE v = "unavailable"
  <2>1. k = Terminal(h, 4402)
    BY <1>1, <1>5
  <2> HIDE DEF k
  <2>2. (\A r : Sound(Terminal(h, 4402), r, 0)) /\ Rings(h, Terminal(h, 4402))
    BY TerminalSound DEF ScansOn
  <2> QED BY <2>1, <2>2 DEF k
<1>6. CASE v = "invalid"
  <2>1. k = Terminal(h, 4409)
    BY <1>1, <1>6
  <2> HIDE DEF k
  <2>2. (\A r : Sound(Terminal(h, 4409), r, 0)) /\ Rings(h, Terminal(h, 4409))
    BY TerminalSound DEF ScansOn
  <2> QED BY <2>1, <2>2 DEF k
<1>7. CASE v \in {"same", "append"}
  <2> DEFINE f == FoldLeft(Deliver, kept, new)
  <2>1. k = RearmWatch(f, file)
    BY <1>1, <1>7
  <2>2. new \in Seq(Nat)
    <3> DEFINE b == s.got.rows
               m == Len(s.rows) + 1
    <3>1. b \in Seq(Nat) /\ m \in Nat \ {0}
      BY <1>3 DEF IsSlot, Reads
    <3> HIDE DEF b, m
    <3>2. SubSeq(b, m, Len(b)) \in Seq(Nat)
      BY <3>1
    <3> QED BY <3>2 DEF b, m
  <2>3. IsSlot(w) /\ SameWatch(s, w) /\ w.rows = s.rows
    BY <1>3 DEF IsSlot, SameWatch
  <2> HIDE DEF w
  <2>4. Sound(kept, s.rows, 0) /\ kept.slot = w /\ Rings(h, kept)
    BY <2>3, SlotSound
  <2> HIDE DEF kept, new
  <2>5. Carried(kept, f)
    BY <2>2, <2>3, <2>4, DeliversCarried
  <2> HIDE DEF f
  <2>6. Sound(RearmWatch(f, file), f.slot.rows, 0) /\ ScansOn(f, RearmWatch(f, file))
    BY <2>5, RearmWatchSound DEF Carried
  <2>7. Rings(kept, f)
    BY <2>5 DEF Carried, Carries
  <2>8. Rings(h, RearmWatch(f, file))
    BY <2>4, <2>6, <2>7, RingsTwice DEF ScansOn
  <2> QED BY <2>1, <2>6, <2>8, OwnSound DEF ScansOn, Scanned
<1> QED BY <1>2, <1>4, <1>5, <1>6, <1>7

LEMMA FinishAgainWatching ==
  ASSUME NEW h, Watching(h), NEW file
  PROVE Watching(FinishAgain(h, file)) /\ Rings(h, FinishAgain(h, file))
        /\ FinishAgain(h, file).slot.tickets = << >>
<1> DEFINE s == h.slot
           again == (s.active /\ s.got.ino # s.ino) /\ Verdict(s) \in {"same", "append"}
           t == Rescanned(h, file)
           e == << >>
           q == [t.slot EXCEPT !.tickets = e]
           z == FinishRescan(q, again)
           lost == [t EXCEPT !.slot = z]
           k == FinishAgain(h, file)
<1>1. k = RefuseEach(lost, 4402, s.tickets)
  BY DEF FinishAgain, RefuseEach, Rescanned
<1>2. Sound(h, s.rows, 0) /\ Ticketed(s.tickets)
  BY DEF Watching, Sound, IsGateway, IsSlot
<1>3. Sound(t, t.slot.rows, 0) /\ Rings(h, t)
  BY <1>2, RescannedCarried
<1> HIDE DEF t, again
<1>4. IsSlot(t.slot) /\ Ticketed(e)
  BY <1>3, EmptyIsSeq DEF Sound, IsGateway
<1>5. e = << >>
  OBVIOUS
<1> HIDE DEF e
<1>6. IsSlot(q) /\ SameWatch(t.slot, q) /\ q.rows = t.slot.rows /\ q.tickets = e
  BY <1>4 DEF IsSlot, SameWatch
<1> HIDE DEF q
<1>7. IsSlot(z) /\ SameWatch(q, z) /\ z.rows = q.rows /\ Ticks(z) /\ z.tickets = q.tickets
  BY <1>5, <1>6, FinishRescanSlot
<1>8. SameWatch(t.slot, z) /\ z.rows = t.slot.rows /\ z.tickets = e
  BY <1>6, <1>7 DEF SameWatch
<1> HIDE DEF z
<1>9. Sound(lost, z.rows, 0) /\ lost.slot = z /\ Rings(t, lost)
  BY <1>3, <1>7, <1>8, SlotSound
<1> HIDE DEF lost
<1>10. Moves(lost, k)
  BY <1>1, <1>2, <1>9, RefuseEachMoves DEF Sound
<1> HIDE DEF k
<1>11. Sound(k, k.slot.rows, 0) /\ Carries(lost, k)
  BY <1>9, <1>10, MovesWatching
<1>12. Rings(h, lost)
  BY <1>3, <1>9, RingsTwice
<1>13. Rings(h, k) /\ k.slot.tickets = e
  BY <1>8, <1>9, <1>11, <1>12, RingsTwice DEF Carries, Scan3
<1> QED BY <1>5, <1>7, <1>9, <1>11, <1>13, CarriesTicks DEF Watching, k

-------------------------------------------------------------------------------
(* A load is counted, bound or given back *)

\* What a counted load may do to the slot and to what is on its way; M says which
\* subscriptions each connection may speak of.
Stays(x, y, T) == Within(x, T) => Within(y, T)
Speaks(h, k, M) == \A c \in Conns : Stays(h.conn[c], k.conn[c], M[c])
Loads(h, k, M) ==
  /\ HearsOn(h, k) /\ Speaks(h, k, M)
  /\ k.slot.tickets = h.slot.tickets
  /\ k.slot.active => h.slot.active /\ k.slot.rows = h.slot.rows
  /\ Ticks(h.slot) => Ticks(k.slot)

LEMMA RingsSpeaks == ASSUME NEW h, NEW k, Rings(h, k), NEW M PROVE Speaks(h, k, M)
BY DEF Rings, Numbers, Speaks, Stays
LEMMA ScansLoads == ASSUME NEW h, NEW k, ScansOn(h, k), NEW M PROVE Loads(h, k, M)
<1>1. HearsOn(h, k) /\ Speaks(h, k, M) /\ Scanned(h, k)
  BY RingsSpeaks DEF ScansOn, Rings
<1> QED BY <1>1, ScansCarries, CarriesTicks DEF Loads, Scanned

LEMMA LoadsTwice ==
  ASSUME NEW h, NEW k, NEW m, NEW M, Loads(h, k, M), Loads(k, m, M) PROVE Loads(h, m, M)
<1>1. HearsOn(h, m)
  BY HearsOnTwice DEF Loads
<1>2. Speaks(h, m, M)
  BY DEF Loads, Speaks, Stays
<1> QED BY <1>1, <1>2 DEF Loads

LEMMA GiveBackSound ==
  ASSUME NEW h, NEW r, NEW m \in Nat \ {0}, Sound(h, r, m), NEW M
  PROVE Sound(GiveBack(h), r, m - 1) /\ Loads(h, GiveBack(h), M)
<1> DEFINE s == h.slot
           t == [s EXCEPT !.awaiting = @ - 1]
           n == m - 1
           z == Release(s)
           k == [h EXCEPT !.slot = z]
<1>1. IsSlot(s) /\ IsGateway(h) /\ n \in Nat /\ s.awaiting = m /\ s.awaiting > 0
  BY DEF Sound, IsGateway, Held
<1>2. z = IF Nobody(t) THEN CloseEntry(t) ELSE t
  BY <1>1 DEF Release
<1>3. /\ IsSlot(t) /\ t.active = s.active /\ t.bound = s.bound /\ t.awaiting = n /\ t.carry = s.carry
      /\ t.rows = s.rows /\ t.scan = s.scan /\ t.got = s.got /\ t.tickets = s.tickets
  BY <1>1 DEF IsSlot
<1> HIDE DEF t
<1>4. /\ IsSlot(z) /\ z.awaiting = n /\ z.carry = 0 /\ z.bound = s.bound
      /\ (z.active <=> s.bound \/ n > 0) /\ (z.active => z.rows = s.rows)
      /\ z.scan = s.scan /\ z.got = s.got /\ z.tickets = s.tickets
  <2>1. s.active /\ s.carry = 0
    BY <1>1 DEF Sound, Held
  <2>2. CASE Nobody(t)
    <3>1. z = CloseEntry(t) /\ ~s.bound /\ n = 0
      BY <1>2, <2>2, <1>3 DEF Nobody
    <3>2. /\ IsSlot(z) /\ ~z.active /\ ~z.bound /\ z.awaiting = t.awaiting /\ z.carry = t.carry
          /\ z.scan = t.scan /\ z.got = t.got /\ z.tickets = t.tickets
      BY <3>1, <1>3, CloseEntrySlots
    <3> HIDE DEF z, n
    <3>3. z.bound = s.bound
      BY <3>1, <3>2, <1>1 DEF IsSlot
    <3> QED BY <3>1, <3>2, <3>3, <1>3, <2>1
  <2>3. CASE ~Nobody(t)
    <3>1. z = t /\ (s.bound \/ n > 0)
      BY <1>1, <1>2, <1>3, <2>1, <2>3 DEF Nobody
    <3> HIDE DEF z, n
    <3> QED BY <3>1, <1>3, <2>1
  <2> QED BY <2>2, <2>3
<1> HIDE DEF z, n
<1>5. /\ IsGateway(k) /\ k.slot = z /\ SameIndex(h, k) /\ k.refs = h.refs /\ k.bound = h.bound
      /\ k.ask = h.ask /\ k.conn = h.conn
  BY <1>1, <1>4, SlotIs
<1>6. GiveBack(h) = k
  BY DEF GiveBack, z
<1> HIDE DEF k
<1>7. Held(k, n)
  <2>1. Matched(k)
    BY <1>5 DEF Sound, Held, Matched
  <2> QED BY <1>4, <1>5, <2>1 DEF Sound, Held
<1>8. Current(k) /\ Indexed(k, r) /\ Even(k)
  BY <1>5 DEF Sound, Current, Indexed, Even, SameIndex, CurRows
<1>9. ScansOn(h, k)
  <2>1. Rings(h, k)
    BY <1>5, RingsSame
  <2> QED BY <2>1, <1>4, <1>5 DEF ScansOn, Scanned, Sound, Held
<1> QED
  BY <1>5, <1>6, <1>7, <1>8, <1>9, ScansLoads DEF Sound, n

LEMMA TakeCountSlot ==
  ASSUME NEW s, IsSlot(s), s.carry = 0
  PROVE LET t == TakeHeldCount(s)
        IN /\ IsSlot(t) /\ t.awaiting = s.awaiting + 1 /\ t.carry = 0
           /\ t.active = s.active /\ t.bound = s.bound /\ t.rows = s.rows
           /\ t.scan = s.scan /\ t.got = s.got /\ t.tickets = s.tickets
<1>1. TakeHeldCount(s) = [s EXCEPT !.awaiting = @ + 1]
  BY DEF TakeHeldCount
<1> QED BY <1>1 DEF IsSlot

LEMMA ObserveSlot ==
  ASSUME NEW s, IsSlot(s), NEW m \in Nat \ {0}, s.awaiting = m
  PROVE LET t == Observe(s)
        IN /\ IsSlot(t) /\ t.bound = TRUE /\ t.active = s.active /\ t.awaiting = m - 1
           /\ t.carry = s.carry /\ t.rows = s.rows /\ t.tickets = s.tickets
           /\ (Ticks(s) => Ticks(t))
<1> DEFINE n == m - 1
           t == [s EXCEPT !.bound = TRUE, !.dirty = FALSE, !.awaiting = n]
           k == Observe(s)
<1>1. n \in Nat /\ m > 0
  OBVIOUS
<1>2. k = IF s.dirty THEN StartRescan(t) ELSE t
  BY <1>1 DEF Observe
<1> HIDE DEF n
<1>3. /\ IsSlot(t) /\ t.bound = TRUE /\ t.active = s.active /\ t.awaiting = n /\ t.carry = s.carry
      /\ t.rows = s.rows /\ t.tickets = s.tickets /\ t.scan = s.scan /\ t.got = s.got
  BY <1>1 DEF IsSlot
<1> HIDE DEF t
<1>4. Ticks(s) => Ticks(t)
  BY <1>3 DEF Ticks
<1> DEFINE a == StartRescan(t)
<1>5. /\ IsSlot(a) /\ SameWatch(t, a) /\ a.rows = t.rows /\ a.tickets = t.tickets
      /\ (Ticks(t) => Ticks(a))
  <2> DEFINE u == Unread
             d == [t EXCEPT !.dirty = TRUE]
             b == [t EXCEPT !.scan = "again", !.got = u]
  <2>1. u \in Reads /\ ~u.done
    BY UnreadIs
  <2>2. a = t \/ a = d \/ a = b
    BY DEF StartRescan, u
  <2> HIDE DEF u, a
  <2>3. IsSlot(d) /\ SameWatch(t, d) /\ d.rows = t.rows /\ d.tickets = t.tickets
    BY <1>3 DEF IsSlot, SameWatch
  <2>4. IsSlot(b) /\ SameWatch(t, b) /\ b.rows = t.rows /\ b.tickets = t.tickets
    BY <1>3, <2>1 DEF IsSlot, SameWatch
  <2>5. SameWatch(t, t)
    BY DEF SameWatch
  <2> HIDE DEF d, b
  <2>6. IsSlot(a) /\ SameWatch(t, a) /\ a.rows = t.rows /\ a.tickets = t.tickets
    BY <2>2, <2>3, <2>4, <2>5, <1>3
  <2>7. Ticks(t) => Ticks(a)
    BY <1>3, StartRescanSlot DEF a
  <2> QED BY <2>6, <2>7
<1> HIDE DEF a
<1>6. k = a \/ k = t
  BY <1>2 DEF a
<1> HIDE DEF k
<1>7. CASE k = t
  BY <1>7, <1>3, <1>4 DEF k, n
<1>8. CASE k = a
  BY <1>8, <1>3, <1>4, <1>5 DEF k, n, SameWatch
<1> QED BY <1>6, <1>7, <1>8

\* The connection c follows the file as y; the first to do so binds the watch.
LEMMA SubscribesSound ==
  ASSUME NEW h, NEW r, NEW m \in Nat \ {0}, Sound(h, r, m), h.cur # 0, CurRows(h) = r,
         NEW c \in Conns, NEW y, IsConn(y), Follows(y), y.open, y.eng.stream = h.cur, NEW M,
         \A s : s # 0 => HearsOf(h.conn[c], y, s, Ans(h), Ans(h)), Stays(h.conn[c], y, M[c])
  PROVE LET k == WatchFile(Swapped(h, c, y), c)
        IN /\ Sound(k, r, IF Consumes(h) THEN m - 1 ELSE m)
           /\ Loads(h, k, M) /\ k.conn[c] = y /\ k.ask = h.ask
<1> DEFINE w == Swapped(h, c, y)
           n == m - 1
           z == IF Consumes(h) THEN Observe(h.slot) ELSE h.slot
           b == IF Consumes(h) THEN TRUE ELSE h.bound
           q == h.refs \cup {c}
           v == [w EXCEPT !.refs = q]
           k == WatchFile(w, c)
<1>0. IsGateway(h) /\ Held(h, m) /\ n \in Nat /\ IsSlot(h.slot) /\ h.slot.awaiting = m
  BY DEF Sound, IsGateway, Held
<1>1. /\ IsGateway(w) /\ DOMAIN w = DOMAIN h /\ w.slot = h.slot /\ SameIndex(h, w) /\ w.refs = h.refs
      /\ w.bound = h.bound /\ w.pump = h.pump /\ w.ask = h.ask
      /\ w.conn = [h.conn EXCEPT ![c] = y]
  BY <1>0, SwappedFields
<1> HIDE DEF w
<1>2. k = IF Consumes(h) THEN [v EXCEPT !.bound = TRUE, !.slot = Observe(@)] ELSE v
  BY <1>1 DEF WatchFile, Consumes
<1>3. DOMAIN v = DOMAIN h /\ v.slot = h.slot /\ v.log = h.log /\ v.cur = h.cur /\ v.spent = h.spent
      /\ v.refs = q /\ v.bound = h.bound /\ v.pump = h.pump /\ v.ask = h.ask /\ v.conn = w.conn
  BY <1>0, <1>1 DEF IsGateway, SameIndex
<1> HIDE DEF v
<1>4. DOMAIN k = DOMAIN h /\ k.slot = z /\ k.log = h.log /\ k.cur = h.cur /\ k.spent = h.spent
      /\ k.refs = q /\ k.bound = b /\ k.pump = h.pump /\ k.ask = h.ask /\ k.conn = w.conn
  <2>1. CASE Consumes(h)
    <3> DEFINE o == Observe(h.slot)
    <3>1. k = [v EXCEPT !.bound = TRUE, !.slot = o]
      BY <1>2, <1>3, <2>1
    <3>2. z = o /\ b = TRUE
      BY <2>1
    <3> HIDE DEF o, z, b, k
    <3> QED BY <3>1, <3>2, <1>0, <1>3 DEF IsGateway
  <2>2. CASE ~Consumes(h)
    BY <1>2, <1>3, <2>2
  <2> QED BY <2>1, <2>2
<1> HIDE DEF k
<1>5. h.slot.active
  BY <1>0 DEF Held
<1>6. h.slot.carry = 0 /\ h.slot.bound = h.bound
  BY <1>0 DEF Held
<1>7. /\ IsSlot(z) /\ z.active /\ z.bound = b /\ z.carry = 0 /\ z.rows = h.slot.rows /\ b = TRUE
      /\ z.tickets = h.slot.tickets /\ (Ticks(h.slot) => Ticks(z))
      /\ z.awaiting = IF Consumes(h) THEN n ELSE m
  <2>1. CASE Consumes(h)
    <3> DEFINE s == h.slot
               t == Observe(s)
    <3>1. IsSlot(s) /\ s.awaiting = m
      BY <1>0
    <3> HIDE DEF s
    <3>2. /\ IsSlot(t) /\ t.bound = TRUE /\ t.active = s.active /\ t.awaiting = m - 1
          /\ t.carry = s.carry /\ t.rows = s.rows /\ t.tickets = s.tickets
          /\ (Ticks(s) => Ticks(t))
      BY <3>1, ObserveSlot
    <3>3. z = t /\ b = TRUE
      BY <2>1 DEF s
    <3> HIDE DEF t, z, b
    <3>4. z.bound = TRUE
      BY <3>2, <3>3 DEF IsSlot
    <3> QED BY <2>1, <3>2, <3>3, <3>4, <1>5, <1>6 DEF s
  <2>2. CASE ~Consumes(h)
    <3>1. h.bound = TRUE
      BY <1>0, <1>5, <2>2 DEF Consumes, IsGateway
    <3> QED BY <2>2, <3>1, <1>0, <1>5, <1>6
  <2> QED BY <2>1, <2>2
<1> HIDE DEF z, b
<1>8. q \subseteq Conns /\ IsFiniteSet(q) /\ q # {}
  BY <1>0, FS_AddElement DEF IsGateway
<1>9. q = {d \in Conns : Follows(w.conn[d])} /\ \A d \in q : w.conn[d].open /\ w.conn[d].eng.stream = h.cur
  <2>1. h.refs = {d \in Conns : Follows(h.conn[d])} /\ \A d \in h.refs : h.conn[d].open
    BY <1>0 DEF Held, Matched
  <2>2. \A d \in h.refs : h.conn[d].eng.stream = h.cur
    BY DEF Sound, Current
  <2>3. w.conn[c] = y /\ \A d \in Conns \ {c} : w.conn[d] = h.conn[d]
    BY <1>0, <1>1 DEF IsGateway
  <2> QED BY <2>1, <2>2, <2>3
<1> HIDE DEF q
<1>10. IsGateway(k)
  BY <1>1, <1>4, <1>7, <1>8 DEF IsGateway, SameIndex
<1>11. Held(k, IF Consumes(h) THEN n ELSE m) /\ Current(k)
  <2>1. Matched(k) /\ Current(k)
    BY <1>4, <1>9 DEF Matched, Current
  <2> QED BY <1>4, <1>7, <1>8, <2>1 DEF Held
<1>12. Indexed(k, r) /\ Even(k)
  BY <1>4 DEF Sound, Indexed, Even, CurRows
<1>14. k.conn[c] = y /\ \A d \in Conns : d # c => k.conn[d] = h.conn[d]
  BY <1>0, <1>1, <1>4 DEF IsGateway
<1>15. Ans(k) = Ans(h)
  BY <1>4 DEF Ans
<1>16. HearsOn(h, k)
  <2> SUFFICES ASSUME NEW d \in Conns, NEW s, s # 0
               PROVE  HearsOf(h.conn[d], k.conn[d], s, Ans(h), Ans(h))
    BY <1>15 DEF HearsOn
  <2>1. CASE d = c
    BY <2>1, <1>14
  <2>2. CASE d # c
    <3>1. k.conn[d] = h.conn[d]
      BY <2>2, <1>14
    <3> QED BY <3>1 DEF HearsOf
  <2> QED BY <2>1, <2>2
<1>17. Speaks(h, k, M)
  <2> SUFFICES ASSUME NEW d \in Conns PROVE Stays(h.conn[d], k.conn[d], M[d])
    BY DEF Speaks
  <2>1. CASE d = c
    BY <2>1, <1>14
  <2>2. CASE d # c
    <3>1. k.conn[d] = h.conn[d]
      BY <2>2, <1>14
    <3> QED BY <3>1 DEF Stays
  <2> QED BY <2>1, <2>2
<1>13. Loads(h, k, M)
  BY <1>4, <1>5, <1>7, <1>16, <1>17 DEF Loads
<1> QED
  BY <1>4, <1>10, <1>11, <1>12, <1>13, <1>14 DEF Sound, k, w, n

LEMMA LoadsSelf == ASSUME NEW h, NEW M PROVE Loads(h, h, M)
<1>1. Rings(h, h)
  BY RingsSame
<1> QED BY <1>1, RingsSpeaks DEF Loads, Rings

LEMMA SettleSound ==
  ASSUME NEW h, NEW r, NEW m \in Nat \ {0}, NEW consumed \in BOOLEAN,
         Sound(h, r, IF consumed THEN m - 1 ELSE m), NEW c, NEW M
  PROVE Sound(SettleLoadRef(h, c, consumed), r, m - 1) /\ Loads(h, SettleLoadRef(h, c, consumed), M)
<1>1. SettleLoadRef(h, c, consumed) = IF consumed THEN h ELSE GiveBack(h)
  <2>1. h.bound <=> h.refs # {}
    BY DEF Sound, Held
  <2> QED BY <2>1 DEF SettleLoadRef, GiveBack
<1>2. CASE consumed
  <2>1. SettleLoadRef(h, c, consumed) = h
    BY <1>1, <1>2
  <2>2. Loads(h, h, M)
    BY LoadsSelf
  <2> QED BY <1>2, <2>1, <2>2
<1>3. CASE ~consumed
  BY <1>1, <1>3, GiveBackSound
<1> QED BY <1>2, <1>3

LEMMA MovesLoads ==
  ASSUME NEW h, NEW k, Moves(h, k), NEW r, NEW n \in Nat, Sound(h, r, n), NEW M
  PROVE Sound(k, r, n) /\ Loads(h, k, M)
BY MovesSound, ScansLoads

LEMMA PageFrameIsFrame ==
  ASSUME NEW e, NEW req, NEW from, NEW rows 
  PROVE LET f == PageFrame(e, req, from, rows)
        IN IsFrame(f) /\ f.t = "snapshot" /\ f.sub = e.sub /\ f.req = req
<1> DEFINE last == LastOfPage(e, from)
           rs == SubSeq(rows, from, last)
           more == last < e.barrier
           p == << 0, 0 >>
           n == << >>
           b == e.sub
           s == e.stream
           w == e.barrier
<1>1. PageFrame(e, req, from, rows) =
        [[t |-> "none", req |-> p, sub |-> 0, stream |-> 0, barrier |-> 0,
          from |-> 0, rows |-> n, more |-> FALSE, code |-> 0] EXCEPT
           !.t = "snapshot", !.req = req, !.sub = b, !.stream = s, !.barrier = w, !.from = from,
           !.rows = rs, !.more = more]
  BY DEF PageFrame, NoFrame
<1> DEFINE f == PageFrame(e, req, from, rows)
<1> HIDE DEF rs, more, p, n, b, s, w, f
<1>2. f.t = "snapshot" /\ f.sub = b /\ f.req = req
  BY <1>1 DEF f
<1>3. IsFrame(f)
  BY <1>1 DEF IsFrame, FrameKinds, f
<1> QED BY <1>2, <1>3 DEF f, b

\* An engine is put where there was none.
LEMMA EngineHears ==
  ASSUME NEW x, IsConn(x), ~Follows(x), NEW e, NEW T, e.sub \in T, NEW A
  PROVE LET y == [x EXCEPT !.eng = e]
        IN /\ \A s : s # 0 => HearsOf(x, y, s, A, A)
           /\ Stays(x, y, T)
<1> DEFINE y == [x EXCEPT !.eng = e]
<1>1. y.eng = e /\ y.wire = x.wire /\ y.queue = x.queue /\ y.link = x.link
  BY DEF IsConn
<1> HIDE DEF y
<1>2. Line(y) = Line(x) /\ SubOf(x) = 0
  BY <1>1 DEF Line, SubOf
<1>3. \A s : s # 0 => HearsOf(x, y, s, A, A)
  BY <1>2, ElsewhereHears
<1>4. Stays(x, y, T)
  BY <1>1, <1>2 DEF Stays, Within
<1> QED BY <1>3, <1>4 DEF y

\* The connection has an engine of the current stream.
LEMMA CommitSound ==
  ASSUME NEW h, NEW r, NEW m \in Nat \ {0}, Sound(h, r, m), h.cur # 0, CurRows(h) = r,
         NEW k, k.by \in Conns, h.conn[k.by].open,
         NEW e, IsEngine(e), e.phase # "none", e.stream = h.cur, NEW first,
         NEW M, e.sub = k.req[1], k.req[1] \in M[k.by]
  PROVE Sound(Commit(h, k, e, first), r, m - 1) /\ Loads(h, Commit(h, k, e, first), M)
<1> DEFINE c == k.by
           x == h.conn[c]
           old == EndSub(h, c, 4409)
           set == WatchFile(WithEngine(old, c, e), c)
           f == PageFrame(e, k.req, first, h.log[e.stream])
           sent == Emit(set, c, f)
           out == Schedule(sent)
           took == Consumes(old)
           z == Commit(h, k, e, first)
<1>1. z = IF ~old.conn[c].open THEN GiveBack(old) ELSE SettleLoadRef(out, c, took)
  BY DEF Commit
<1>2. IsGateway(h) /\ c \in Conns /\ IsConn(x) /\ m \in Nat
  BY DEF Sound, IsGateway
<1> HIDE DEF c, f, z
\* What remains once the connection follows as y, and was only told before.
<1>3. ASSUME NEW p, Sound(p, r, m), Loads(h, p, M), p.cur = h.cur, CurRows(p) = r,
             NEW y, IsConn(y), Follows(y), y.open, y.eng.stream = h.cur,
             WithEngine(old, c, e) = Swapped(p, c, y), old.conn[c].open,
             old.bound = p.bound, old.slot = p.slot, y.eng = e,
             \A s : s # 0 => HearsOf(p.conn[c], y, s, Ans(p), Ans(p)), Stays(p.conn[c], y, M[c])
      PROVE Sound(z, r, m - 1) /\ Loads(h, z, M)
  <2>1. set = WatchFile(Swapped(p, c, y), c) /\ took = Consumes(p) /\ took \in BOOLEAN
    BY <1>3 DEF Consumes
  <2>2. p.cur # 0 /\ y.eng.stream = p.cur
    BY <1>3
  <2> DEFINE l == WatchFile(Swapped(p, c, y), c)
             n == IF Consumes(p) THEN m - 1 ELSE m
  <2>3. Sound(l, r, n) /\ Loads(p, l, M) /\ l.conn[c] = y
    BY <1>2, <1>3, <2>2, SubscribesSound
  <2>4. n \in Nat
    OBVIOUS
  <2> HIDE DEF l
  <2>5. set = l
    BY <2>1 DEF l
  <2> HIDE DEF set
  <2>6. IsGateway(set) /\ IsFrame(f)
    BY <2>3, <2>5, PageFrameIsFrame DEF Sound, f
  <2>14. Says(set.conn[c], f) /\ f.t # "ui-request"
    <3>1. f.t = "snapshot" /\ f.sub = e.sub /\ f.req = k.req
      BY PageFrameIsFrame DEF f
    <3> QED BY <3>1, <1>3, <2>3, <2>5 DEF Says
  <2>7. Moves(set, sent)
    BY <1>2, <2>6, <2>14, EmitWorn, WornMoves
  <2> HIDE DEF sent
  <2>8. Moves(set, out)
    BY <2>7, ScheduleMoves
  <2> HIDE DEF out, n
  <2>9. Sound(out, r, n) /\ Loads(set, out, M)
    BY <2>3, <2>4, <2>5, <2>8, MovesLoads
  <2>10. Sound(out, r, IF took THEN m - 1 ELSE m)
    BY <2>1, <2>9 DEF n
  <2> DEFINE fin == SettleLoadRef(out, c, took)
  <2>11. Sound(fin, r, m - 1) /\ Loads(out, fin, M)
    BY <2>1, <2>10, SettleSound
  <2>12. z = fin
    BY <1>1, <1>3
  <2> HIDE DEF fin
  <2>13. Loads(h, fin, M)
    BY <1>3, <2>3, <2>5, <2>9, <2>11, LoadsTwice
  <2> QED BY <2>11, <2>12, <2>13
<1>4. CASE ~Follows(x)
  <2>1. old = h
    BY <1>4 DEF EndSub, HasSub, Follows, c
  <2> DEFINE y == [x EXCEPT !.eng = e]
  <2>2. WithEngine(h, c, e) = Swapped(h, c, y) /\ IsConn(y)
    BY <1>2, WithEngineSwaps
  <2>3. y.eng = e /\ y.open = x.open
    BY <1>2 DEF IsConn
  <2>4. Loads(h, h, M)
    BY LoadsSelf
  <2>9. /\ \A s : s # 0 => HearsOf(x, y, s, Ans(h), Ans(h))
        /\ Stays(x, y, M[c])
    BY <1>2, <1>4, <2>2, <2>3, EngineHears DEF c
  <2> HIDE DEF y
  <2>5. Follows(y) /\ y.open /\ y.eng.stream = h.cur
    BY <2>3 DEF Follows, c
  <2>6. h.conn[c].open
    BY DEF c
  <2> HIDE DEF old
  <2>7. /\ WithEngine(old, c, e) = Swapped(h, c, y) /\ old.conn[c].open
        /\ old.bound = h.bound /\ old.slot = h.slot
    BY <2>1, <2>2, <2>6
  <2>8. Sound(z, r, m - 1) /\ Loads(h, z, M)
    BY <1>3, <2>2, <2>3, <2>4, <2>5, <2>7, <2>9
  <2> QED BY <2>8 DEF z
<1>5. CASE Follows(x)
  <2> DEFINE t == Told(h, c, 4409)
             tc == ToldC(x, 4409)
             ec == EndedC(x, 4409)
             y == [ec EXCEPT !.eng = e]
  <2>1. Became(h, t, c, tc) /\ old = Swapped(t, c, ec)
    BY <1>2, <1>5, ToldBecame
  <2>2. /\ IsConn(ec) /\ ~Follows(ec) /\ IsConn(tc) /\ Fades(x, tc) /\ Fades(tc, ec)
        /\ ec.open = tc.open
    BY <1>2, <1>5, EndedCFades
  <2>3. tc.open => Follows(tc)
    <3> DEFINE a == CancelC(x, x.eng.sub)
               fr == ErrorFrame(4409, << 0, 0 >>, x.eng.sub)
    <3>1. IsConn(a) /\ a.eng = x.eng /\ IsFrame(fr)
      BY <1>2, CancelCFades, ErrorIsFrame
    <3> HIDE DEF a, fr
    <3>2. EnqueueC(a, fr).open => EnqueueC(a, fr) = [a EXCEPT !.queue = Append(@, fr)]
      BY <3>1, EnqueueCFades
    <3>3. tc = EnqueueC(a, fr)
      BY DEF ToldC, a, fr
    <3>4. tc.open => tc.eng = a.eng
      BY <3>1, <3>2, <3>3 DEF IsConn
    <3> QED BY <3>1, <3>4, <1>5 DEF Follows
  <2> HIDE DEF t, tc, ec, old
  <2>9. Matched(h) => Flows(x, tc) /\ Flows(tc, ec)
    <3>1. Matched(h) => x.open
      BY <1>2, <1>5 DEF Matched
    <3> QED BY <3>1, <1>2, <1>5, EndedFlows DEF tc, ec
  <2>10. Flows(x, tc) /\ Flows(tc, ec)
    BY <2>9 DEF Sound, Held
  <2>4. Moves(h, t)
    BY <1>2, <2>1, <2>2, <2>9, BecameMoves
  <2>5. Sound(t, r, m) /\ Loads(h, t, M) /\ IsGateway(t) /\ t.conn[c] = tc
    BY <1>2, <2>1, <2>4, MovesLoads DEF Moves, Glides, Became
  <2>6. /\ IsGateway(old) /\ old.slot = t.slot /\ old.bound = t.bound /\ old.conn[c] = ec
    <3>1. /\ IsGateway(Swapped(t, c, ec)) /\ DOMAIN Swapped(t, c, ec) = DOMAIN t
          /\ Swapped(t, c, ec).slot = t.slot /\ SameIndex(t, Swapped(t, c, ec))
          /\ Swapped(t, c, ec).refs = t.refs /\ Swapped(t, c, ec).bound = t.bound
          /\ Swapped(t, c, ec).pump = t.pump /\ Swapped(t, c, ec).ask = t.ask
          /\ Swapped(t, c, ec).conn = [t.conn EXCEPT ![c] = ec]
          /\ Swapped(t, c, ec).conn[c] = ec
      BY <1>2, <2>2, <2>5, SwappedFields
    <3> QED BY <2>1, <3>1
  <2>7. CASE ~tc.open
    <3>1. ~Follows(tc)
      BY <2>2, <2>7, <1>2 DEF Fades, c
    <3>2. Became(t, [t EXCEPT !.conn[c] = ec], c, ec)
      BY <1>2, <2>2, <2>5, <3>1, PutBecame
    <3>3. [t EXCEPT !.conn[c] = ec] = old
      BY <2>1 DEF Swapped
    <3>4. Moves(t, old)
      BY <1>2, <2>2, <2>5, <2>10, <3>2, <3>3, BecameMoves
    <3>5. Sound(old, r, m) /\ Loads(t, old, M)
      BY <1>2, <2>5, <3>4, MovesLoads
    <3> DEFINE b == GiveBack(old)
    <3>6. Sound(b, r, m - 1) /\ Loads(old, b, M)
      BY <3>5, GiveBackSound
    <3>7. z = b
      BY <1>1, <2>2, <2>6, <2>7
    <3> HIDE DEF b
    <3>8. Loads(h, b, M)
      BY <2>5, <3>5, <3>6, LoadsTwice
    <3> QED BY <3>6, <3>7, <3>8 DEF z
  <2>8. CASE tc.open
    <3>1. y.eng = e /\ y.open = ec.open /\ IsConn(y)
      BY <2>2 DEF IsConn
    <3>2. WithEngine(old, c, e) = Swapped(old, c, y)
      BY <1>2, <2>6, WithEngineSwaps
    <3>8. /\ \A s : s # 0 => HearsOf(ec, y, s, Ans(t), Ans(t))
          /\ Stays(ec, y, M[c])
      BY <2>2, EngineHears DEF c
    <3> HIDE DEF y
    <3>9. \A s : s # 0 => HearsOf(tc, y, s, Ans(t), Ans(t))
      BY <2>10, <3>8, HearsOfTwice DEF Flows
    <3>10. Stays(tc, y, M[c])
      BY <2>10, <3>8 DEF Flows, Numbers, Stays
    <3>3. Swapped(old, c, y) = Swapped(t, c, y)
      <4>1. old = [t EXCEPT !.conn[c] = ec]
        BY <2>1 DEF Swapped
      <4>2. IsGateway(t) /\ "conn" \in DOMAIN t
        BY <2>5 DEF IsGateway
      <4>3. [old EXCEPT !.conn[c] = y] = [t EXCEPT !.conn[c] = y]
        BY <4>1, <4>2
      <4> QED BY <4>3 DEF Swapped
    <3>4. Follows(y) /\ y.open /\ y.eng.stream = h.cur
      BY <2>2, <2>8, <3>1 DEF Follows
    <3>5. t.cur = h.cur /\ CurRows(t) = r
      BY <2>4 DEF Moves, Glides, SameIndex, CurRows
    <3>6. old.conn[c].open
      BY <2>2, <2>6, <2>8
    <3>7. Sound(z, r, m - 1) /\ Loads(h, z, M)
      BY <1>3, <2>5, <2>6, <3>1, <3>2, <3>3, <3>4, <3>5, <3>6, <3>9, <3>10
    <3> QED BY <3>7 DEF z
  <2> QED BY <2>7, <2>8
<1> QED BY <1>4, <1>5

LEMMA ServePageIs ==
  ASSUME NEW e, IsEngine(e), e.sub # 0, NEW from
  PROVE LET f == ServePage(e, from) IN IsEngine(f) /\ f.sub = e.sub /\ f.stream = e.stream /\ f.phase # "none"
<1> DEFINE last == LastOfPage(e, from)
           n == << >>
           a == [e EXCEPT !.next = 0]
           q == e.outbox \o e.buffered
           b == [a EXCEPT !.phase = "live", !.outbox = q, !.buffered = n]
           d == [e EXCEPT !.phase = "paging", !.next = last + 1]
           f == ServePage(e, from)
<1>1. IsSeq(n) /\ IsSeq(q)
  BY EmptyIsSeq, SeqFacts DEF IsEngine
<1>2. a.outbox = e.outbox /\ a.buffered = e.buffered
  BY DEF IsEngine
<1>3. f = IF last >= e.barrier THEN EnterLive(a) ELSE d
  BY DEF ServePage
<1>4. EnterLive(a) = [a EXCEPT !.phase = "live", !.outbox = a.outbox \o a.buffered, !.buffered = n]
  BY DEF EnterLive
<1>5. EnterLive(a) = b
  BY <1>2, <1>4
<1> HIDE DEF n, q, last
<1>6. IsEngine(b) /\ b.sub = e.sub /\ b.stream = e.stream /\ b.phase # "none"
  BY <1>1 DEF IsEngine
<1>7. IsEngine(d) /\ d.sub = e.sub /\ d.stream = e.stream /\ d.phase # "none"
  BY DEF IsEngine
<1> HIDE DEF b, d, a, f
<1> QED BY <1>3, <1>5, <1>6, <1>7 DEF f

LEMMA NewEngineIs ==
  ASSUME NEW sub, sub # 0, NEW stream, NEW mark
  PROVE LET e == NewEngine(sub, stream, mark) IN IsEngine(e) /\ e.sub = sub /\ e.stream = stream
<1> DEFINE n == NoEngine
<1>1. IsEngine(n)
  BY NoEngineIsEngine
<1>2. NewEngine(sub, stream, mark) =
        [n EXCEPT !.sub = sub, !.stream = stream, !.phase = "init", !.barrier = mark]
  BY DEF NewEngine
<1> HIDE DEF n
<1> QED BY <1>1, <1>2 DEF IsEngine

LEMMA RefuseGivesBack ==
  ASSUME NEW h, NEW r, NEW m \in Nat \ {0}, Sound(h, r, m), NEW c \in Conns, NEW code, NEW req,
         NEW M
  PROVE LET k == GiveBack(Refuse(h, c, code, req)) IN Sound(k, r, m - 1) /\ Loads(h, k, M)
<1> DEFINE t == Refuse(h, c, code, req)
<1>1. Moves(h, t)
  BY RefuseWorn, WornMoves DEF Sound
<1> HIDE DEF t
<1>2. Sound(t, r, m) /\ Loads(h, t, M)
  BY <1>1, MovesLoads
<1>3. Sound(GiveBack(t), r, m - 1) /\ Loads(t, GiveBack(t), M)
  BY <1>2, GiveBackSound
<1>4. Loads(h, GiveBack(t), M)
  BY <1>2, <1>3, LoadsTwice
<1> QED BY <1>3, <1>4 DEF t

\* handleSubscribe() spends exactly one of the loads that are counted.
LEMMA LoadedSound ==
  ASSUME NEW h, NEW rows \in Seq(Nat), NEW m \in Nat \ {0}, Sound(h, rows, m),
         NEW k, k.by \in Conns, k.req[1] # 0, NEW M, k.req[1] \in M[k.by]
  PROVE Sound(Loaded(h, k, rows), rows, m - 1) /\ Loads(h, Loaded(h, k, rows), M)
<1> DEFINE c == k.by
           t == SyncIndex(h, rows)
           resync == k.cursor.stream # 0
           first == IF resync THEN k.cursor.seq ELSE 1
           len == Len(CurRows(t))
           ne == NewEngine(k.req[1], t.cur, len)
           e == ServePage(ne, first)
           z == Loaded(h, k, rows)
<1>1. z = IF ~h.conn[c].open THEN GiveBack(h)
          ELSE IF Refused(h) THEN GiveBack(Refuse(h, c, 4402, k.req))
          ELSE IF OverBudget(t) THEN GiveBack(Refuse(t, c, 4402, k.req))
          ELSE IF resync /\ t.cur # k.cursor.stream THEN GiveBack(Refuse(t, c, 4404, k.req))
          ELSE IF first > e.barrier + 1 THEN GiveBack(Refuse(t, c, 4409, k.req))
          ELSE IF ~t.conn[c].open THEN GiveBack(t)
          ELSE Commit(t, k, e, first)
  BY DEF Loaded, LoadedWith
<1> DEFINE Out(y) == Sound(y, rows, m - 1) /\ Loads(h, y, M)
<1>2. m \in Nat /\ c \in Conns
  OBVIOUS
<1>3. /\ Sound(t, rows, m) /\ ScansOn(h, t) /\ t.cur # 0 /\ CurRows(t) = rows
  BY <1>2, SyncIndexSound
<1> HIDE DEF t
<1>4. Loads(h, t, M)
  BY <1>3, ScansLoads
<1>5. Out(GiveBack(h)) /\ Out(GiveBack(Refuse(h, c, 4402, k.req)))
  BY <1>2, GiveBackSound, RefuseGivesBack
<1>6. ASSUME NEW code PROVE Out(GiveBack(Refuse(t, c, code, k.req)))
  <2> DEFINE y == GiveBack(Refuse(t, c, code, k.req))
  <2>1. Sound(y, rows, m - 1) /\ Loads(t, y, M)
    BY <1>2, <1>3, RefuseGivesBack
  <2> HIDE DEF y
  <2> QED BY <2>1, <1>4, LoadsTwice DEF y
<1>7. Out(GiveBack(t))
  <2> DEFINE y == GiveBack(t)
  <2>1. Sound(y, rows, m - 1) /\ Loads(t, y, M)
    BY <1>3, GiveBackSound
  <2> HIDE DEF y
  <2> QED BY <2>1, <1>4, LoadsTwice DEF y
<1>8. ASSUME t.conn[c].open PROVE Out(Commit(t, k, e, first))
  <2>1. IsEngine(ne) /\ ne.stream = t.cur /\ ne.sub = k.req[1]
    BY NewEngineIs
  <2> HIDE DEF ne, first
  <2>2. IsEngine(e) /\ e.stream = t.cur /\ e.phase # "none" /\ e.sub = k.req[1]
    BY <2>1, ServePageIs
  <2> HIDE DEF e
  <2> DEFINE y == Commit(t, k, e, first)
  <2>3. Sound(y, rows, m - 1) /\ Loads(t, y, M)
    BY <1>2, <1>3, <1>8, <2>2, CommitSound
  <2> HIDE DEF y
  <2> QED BY <2>3, <1>4, LoadsTwice DEF y
<1> HIDE DEF z, e, first, resync, Out
<1>9. Out(z)
  <2>1. CASE ~h.conn[c].open
    BY <1>1, <1>5, <2>1
  <2>2. CASE h.conn[c].open /\ ~t.conn[c].open
    <3>1. \/ z = GiveBack(Refuse(h, c, 4402, k.req)) \/ z = GiveBack(Refuse(t, c, 4402, k.req))
          \/ z = GiveBack(Refuse(t, c, 4404, k.req)) \/ z = GiveBack(Refuse(t, c, 4409, k.req))
          \/ z = GiveBack(t)
      BY <1>1, <2>2
    <3> QED BY <3>1, <1>5, <1>6, <1>7
  <2>3. CASE h.conn[c].open /\ t.conn[c].open
    <3>1. \/ z = GiveBack(Refuse(h, c, 4402, k.req)) \/ z = GiveBack(Refuse(t, c, 4402, k.req))
          \/ z = GiveBack(Refuse(t, c, 4404, k.req)) \/ z = GiveBack(Refuse(t, c, 4409, k.req))
          \/ z = Commit(t, k, e, first)
      BY <1>1, <2>3
    <3> QED BY <3>1, <1>5, <1>6, <1>8, <2>3
  <2> QED BY <2>1, <2>2, <2>3
<1> QED BY <1>9 DEF Out, z

-------------------------------------------------------------------------------
(* The first scan ends *)

\* The entries of acc are among those of q.
Picked(q, acc) == \A i \in DOMAIN acc : \E j \in DOMAIN q : acc[i] = q[j]
StandsTo(q, i, acc) == Ticketed(acc) /\ Picked(q, acc) /\ ((\E j \in 1 .. i : ~q[j].released) => Len(acc) > 0)
Stands == INSTANCE FoldRules WITH
  op <- LAMBDA ctx, k, acc : IF ~k.released THEN Append(acc, k) ELSE acc,
  P <- LAMBDA q, ctx, i, acc : StandsTo(q, i, acc)
Denials == INSTANCE FoldRules WITH
  op <- LAMBDA open, k, acc : IF ~open \/ k.released THEN Append(acc, k) ELSE acc,
  P <- LAMBDA q, open, i, acc : Ticketed(acc)

LEMMA AppendTicketed ==
  ASSUME NEW q, Ticketed(q), NEW k, IsTicket(k)
  PROVE Ticketed(Append(q, k)) /\ Len(Append(q, k)) > 0
<1>1. PICK S : q \in Seq(S)
  BY DEF Ticketed, IsSeq
<1>2. q \in Seq(S \cup {k})
  BY <1>1
<1> DEFINE r == Append(q, k)
<1>3. r \in Seq(S \cup {k}) /\ Len(r) = Len(q) + 1 /\ Len(q) \in Nat
  BY <1>2
<1>4. \A i \in DOMAIN r : r[i] = IF i = Len(q) + 1 THEN k ELSE q[i]
  BY <1>2, <1>3
<1>5. DOMAIN r = 1 .. Len(q) + 1 /\ DOMAIN q = 1 .. Len(q)
  BY <1>2, <1>3
<1> HIDE DEF r
<1>6. \A i \in DOMAIN r : IsTicket(r[i])
  BY <1>3, <1>4, <1>5 DEF Ticketed
<1> QED BY <1>3, <1>6 DEF Ticketed, IsSeq, r

LEMMA AppendPicked ==
  ASSUME NEW acc, Ticketed(acc), NEW q, Picked(q, acc), NEW j \in DOMAIN q
  PROVE Picked(q, Append(acc, q[j]))
<1>1. PICK S : acc \in Seq(S)
  BY DEF Ticketed, IsSeq
<1> DEFINE k == q[j]
           r == Append(acc, k)
<1>2. acc \in Seq(S \cup {k})
  BY <1>1
<1>3. /\ DOMAIN r = 1 .. Len(acc) + 1 /\ DOMAIN acc = 1 .. Len(acc) /\ Len(acc) \in Nat
      /\ \A i \in 1 .. Len(acc) + 1 : r[i] = IF i = Len(acc) + 1 THEN k ELSE acc[i]
  BY <1>2
<1> HIDE DEF r
<1> SUFFICES ASSUME NEW i \in DOMAIN r PROVE \E l \in DOMAIN q : r[i] = q[l]
  BY DEF Picked, r
<1>4. CASE i = Len(acc) + 1
  BY <1>3, <1>4
<1>5. CASE i # Len(acc) + 1
  <2>1. i \in DOMAIN acc /\ r[i] = acc[i]
    BY <1>3, <1>5
  <2> QED BY <2>1 DEF Picked
<1> QED BY <1>4, <1>5

LEMMA StandingIs ==
  ASSUME NEW q, Ticketed(q)
  PROVE Ticketed(Standing(q)) /\ Picked(q, Standing(q)) /\ (Wanted(q) => Len(Standing(q)) > 0)
<1>1. Standing(q) = Stands!Along(0, << >>, q)
  BY DEF Standing, Stands!Along, Stands!Largest, FoldLeft, MapThenFoldSet, Max
<1> DEFINE n == Len(q)
           e == << >>
<1>2. n \in Nat /\ DOMAIN q = 1 .. n
  BY SeqFacts DEF Ticketed
<1>3. StandsTo(q, 0, e)
  BY EmptyIsSeq DEF StandsTo, Picked
<1> HIDE DEF n, e
<1>4. ASSUME NEW i \in 1 .. n, NEW acc, StandsTo(q, i - 1, acc)
      PROVE StandsTo(q, i, IF ~q[i].released THEN Append(acc, q[i]) ELSE acc)
  <2>1. IsTicket(q[i]) /\ Ticketed(acc) /\ i - 1 \in Nat /\ i \in DOMAIN q /\ Picked(q, acc)
    BY <1>2, <1>4 DEF StandsTo, Ticketed
  <2>2. CASE ~q[i].released
    <3>1. Ticketed(Append(acc, q[i])) /\ Len(Append(acc, q[i])) > 0
      BY <2>1, AppendTicketed
    <3>2. Picked(q, Append(acc, q[i]))
      BY <2>1, AppendPicked
    <3> QED BY <2>2, <3>1, <3>2 DEF StandsTo
  <2>3. CASE q[i].released
    <3>1. \A j \in 1 .. i : j \in 1 .. i - 1 \/ j = i
      BY <1>2
    <3> QED BY <2>3, <3>1, <1>4 DEF StandsTo
  <2> QED BY <2>2, <2>3
<1>5. StandsTo(q, n, Stands!Along(0, e, q))
  BY <1>2, <1>3, <1>4, IntervalFounded, Stands!FoldLeftRule
<1>6. StandsTo(q, n, Standing(q))
  BY <1>1, <1>5 DEF e
<1> QED BY <1>2, <1>6 DEF StandsTo, Wanted

LEMMA DeniedIs ==
  ASSUME NEW q, Ticketed(q), NEW open PROVE Ticketed(Denied(q, open))
<1>1. Denied(q, open) = Denials!Along(open, << >>, q)
  BY DEF Denied, Denials!Along, Denials!Largest, FoldLeft, MapThenFoldSet, Max
<1> DEFINE n == Len(q)
           e == << >>
<1>2. n \in Nat /\ DOMAIN q = 1 .. n /\ Ticketed(e)
  BY SeqFacts, EmptyIsSeq DEF Ticketed
<1> HIDE DEF n, e
<1>3. \A i \in 1 .. n : \A acc : Ticketed(acc) =>
        Ticketed(IF ~open \/ q[i].released THEN Append(acc, q[i]) ELSE acc)
  <2>1. ASSUME NEW i \in 1 .. n, NEW acc, Ticketed(acc)
        PROVE Ticketed(IF ~open \/ q[i].released THEN Append(acc, q[i]) ELSE acc)
    <3>1. IsTicket(q[i])
      BY <1>2, <2>1 DEF Ticketed
    <3>2. Ticketed(Append(acc, q[i]))
      BY <2>1, <3>1, AppendTicketed
    <3> QED BY <2>1, <3>2
  <2> QED BY <2>1
<1>4. Ticketed(Denials!Along(open, e, q))
  BY <1>2, <1>3, IntervalFounded, Denials!FoldLeftRule
<1> QED BY <1>1, <1>4 DEF e

CountEach(s, ks) == FoldLeft(LAMBDA acc, k : TakeHeldCount(acc), s, ks)
Counted(s, i, t) ==
  /\ IsSlot(t) /\ t.awaiting = i /\ t.carry = 0
  /\ t.active = s.active /\ t.bound = s.bound /\ t.rows = s.rows
  /\ t.scan = s.scan /\ t.got = s.got /\ t.tickets = s.tickets
Counts == INSTANCE FoldRules WITH
  op <- LAMBDA ctx, k, acc : TakeHeldCount(acc),
  P <- LAMBDA s, ctx, i, acc : Counted(s, i, acc)

LEMMA CountEachIs ==
  ASSUME NEW s, IsSlot(s), s.awaiting = 0, s.carry = 0, NEW ks, Ticketed(ks)
  PROVE Counted(s, Len(ks), CountEach(s, ks)) /\ Len(ks) \in Nat
<1>1. CountEach(s, ks) = Counts!Along(0, s, ks)
  BY DEF CountEach, Counts!Along, Counts!Largest, FoldLeft, MapThenFoldSet, Max
<1> DEFINE n == Len(ks)
<1>2. n \in Nat /\ DOMAIN ks = 1 .. n
  BY SeqFacts DEF Ticketed
<1>3. Counted(s, 0, s)
  BY DEF Counted
<1> HIDE DEF n
<1>4. ASSUME NEW i \in 1 .. n, NEW acc, Counted(s, i - 1, acc) PROVE Counted(s, i, TakeHeldCount(acc))
  <2> DEFINE t == TakeHeldCount(acc)
  <2>1. IsSlot(acc) /\ acc.carry = 0
    BY <1>4 DEF Counted
  <2>2. /\ IsSlot(t) /\ t.awaiting = acc.awaiting + 1 /\ t.carry = 0
        /\ t.active = acc.active /\ t.bound = acc.bound /\ t.rows = acc.rows
        /\ t.scan = acc.scan /\ t.got = acc.got /\ t.tickets = acc.tickets
    BY <2>1, TakeCountSlot
  <2>3. i - 1 + 1 = i
    BY <1>2
  <2> HIDE DEF t
  <2> QED BY <1>4, <2>2, <2>3 DEF Counted, t
<1>5. Counted(s, n, Counts!Along(0, s, ks))
  BY <1>2, <1>3, <1>4, IntervalFounded, Counts!FoldLeftRule
<1> QED BY <1>1, <1>2, <1>5 DEF n

LoadEach(h, rows, ks) == FoldLeft(LAMBDA acc, k : Loaded(acc, k, rows), h, ks)
LoadedTo(p, rows, i, acc) ==
  Sound(acc, rows, p.from.slot.awaiting - i) /\ Loads(p.from, acc, p.may)
Issued(q, M) == \A i \in DOMAIN q : q[i].req[1] \in M[q[i].by]
Served == INSTANCE FoldRules WITH
  op <- LAMBDA rows, k, acc : Loaded(acc, k, rows),
  P <- LAMBDA p, rows, i, acc : LoadedTo(p, rows, i, acc)

\* Each of those who waited spends the load that was counted for it.
LEMMA LoadEachSound ==
  ASSUME NEW h, NEW rows \in Seq(Nat), NEW ks, Ticketed(ks), Sound(h, rows, Len(ks)),
         NEW M, Issued(ks, M)
  PROVE Sound(LoadEach(h, rows, ks), rows, 0) /\ Loads(h, LoadEach(h, rows, ks), M)
<1>1. LoadEach(h, rows, ks) = Served!Along(rows, h, ks)
  BY DEF LoadEach, Served!Along, Served!Largest, FoldLeft, MapThenFoldSet, Max
<1> DEFINE n == Len(ks)
<1>2. n \in Nat /\ DOMAIN ks = 1 .. n 
      /\ \A i \in 1 .. n : ks[i].by \in Conns /\ ks[i].req[1] # 0 /\ ks[i].req[1] \in M[ks[i].by]
  BY SeqFacts DEF Ticketed, IsTicket, Issued
<1> DEFINE p == [from |-> h, may |-> M]
<1>9. p.from = h /\ p.may = M
  OBVIOUS
<1> HIDE DEF p
<1>3. h.slot.awaiting = n
  BY DEF Sound, Held
<1>4. n - 0 = n /\ Loads(h, h, M)
  BY <1>2, LoadsSelf
<1>5. LoadedTo(p, rows, 0, h)
  BY <1>3, <1>4, <1>9 DEF LoadedTo
<1> HIDE DEF n
<1>6. ASSUME NEW i \in 1 .. n, NEW acc, LoadedTo(p, rows, i - 1, acc)
      PROVE LoadedTo(p, rows, i, Loaded(acc, ks[i], rows))
  <2> DEFINE m == n - (i - 1)
             y == Loaded(acc, ks[i], rows)
  <2>1. m \in Nat \ {0} /\ m - 1 = n - i
    BY <1>2
  <2>2. Sound(acc, rows, m) /\ Loads(h, acc, M)
    BY <1>3, <1>6, <1>9 DEF LoadedTo
  <2> HIDE DEF m
  <2>3. ks[i].by \in Conns /\ ks[i].req[1] # 0 /\ ks[i].req[1] \in M[ks[i].by]
    BY <1>2
  <2>4. Sound(y, rows, m - 1) /\ Loads(acc, y, M)
    BY <2>1, <2>2, <2>3, LoadedSound
  <2> HIDE DEF y
  <2>5. Loads(h, y, M)
    BY <2>2, <2>4, LoadsTwice
  <2> QED BY <1>3, <1>9, <2>1, <2>4, <2>5 DEF LoadedTo, y
<1>7. LoadedTo(p, rows, n, Served!Along(rows, h, ks))
  BY <1>2, <1>5, <1>6, IntervalFounded, Served!FoldLeftRule
<1>8. n - n = 0
  BY <1>2
<1> QED BY <1>1, <1>3, <1>7, <1>8, <1>9 DEF LoadedTo

LEMMA CommitFirstSlot ==
  ASSUME NEW s, IsSlot(s), ~s.active, ~s.bound
  PROVE LET t == CommitFirst(s)
        IN /\ IsSlot(t) /\ t.awaiting = s.awaiting /\ t.carry = s.carry /\ ~t.bound
           /\ t.scan = "none" /\ ~t.got.done /\ t.tickets = s.tickets
           /\ (t.active => Wanted(s.tickets))
<1> DEFINE u == Unread
           idle == [s EXCEPT !.scan = "none", !.got = u]
           rs == s.got.rows
           i == s.got.ino
           a == [idle EXCEPT !.active = TRUE, !.rows = rs, !.ino = i]
           b == [idle EXCEPT !.watch = 0, !.news = FALSE]
           d == CloseEntry(a)
           t == CommitFirst(s)
<1>1. t = IF ~s.got.there THEN b ELSE IF ~Wanted(s.tickets) \/ s.early THEN d ELSE a
  BY DEF CommitFirst, u, rs, i
<1>2. u \in Reads /\ ~u.done /\ rs \in Seq(Nat)
  BY UnreadIs DEF IsSlot, Reads
<1> HIDE DEF u, rs, i
<1>3. /\ IsSlot(idle) /\ idle.awaiting = s.awaiting /\ idle.carry = s.carry /\ ~idle.bound
      /\ idle.scan = "none" /\ idle.got = u /\ idle.tickets = s.tickets /\ ~idle.active
  BY <1>2 DEF IsSlot
<1> HIDE DEF idle
<1>4. /\ IsSlot(a) /\ a.awaiting = s.awaiting /\ a.carry = s.carry /\ ~a.bound
      /\ a.scan = "none" /\ a.got = u /\ a.tickets = s.tickets
  BY <1>2, <1>3 DEF IsSlot
<1>5. /\ IsSlot(b) /\ b.awaiting = s.awaiting /\ b.carry = s.carry /\ ~b.bound
      /\ b.scan = "none" /\ b.got = u /\ b.tickets = s.tickets /\ ~b.active
  BY <1>3 DEF IsSlot
<1> HIDE DEF a, b
<1>6. /\ IsSlot(d) /\ ~d.active /\ ~d.bound /\ d.awaiting = a.awaiting /\ d.carry = a.carry
      /\ d.scan = a.scan /\ d.got = a.got /\ d.tickets = a.tickets
  BY <1>4, CloseEntrySlots
<1> HIDE DEF d, t
<1>7. t = b \/ t = d \/ (t = a /\ Wanted(s.tickets))
  BY <1>1
<1> QED BY <1>2, <1>4, <1>5, <1>6, <1>7 DEF t

-------------------------------------------------------------------------------
(* What a handler does to what is on its way *)

\* The subscriptions M[c] are all that c may hear of, now and for what it asked.
Numbered(h, M) ==
  (\A c \in Conns : Within(h.conn[c], M[c])) /\ Issued(h.slot.tickets, M)
Tells(h, k) == HearsOn(h, k) /\ \A M : Numbered(h, M) => Numbered(k, M)

LEMMA NobodyIssued == ASSUME NEW q, q = << >>, NEW M PROVE Issued(q, M)
<1>1. DOMAIN q = {}
  OBVIOUS
<1> QED BY <1>1 DEF Issued

LEMMA RingsTells ==
  ASSUME NEW h, NEW k, Rings(h, k), k.slot.tickets = h.slot.tickets \/ k.slot.tickets = << >>
  PROVE Tells(h, k)
<1>1. ASSUME NEW M, Numbered(h, M) PROVE Numbered(k, M)
  <2>1. Issued(k.slot.tickets, M)
    BY <1>1, NobodyIssued DEF Numbered
  <2> QED BY <1>1, <2>1 DEF Rings, Numbers, Numbered
<1> QED BY <1>1 DEF Tells, Rings

LEMMA TellsTwice ==
  ASSUME NEW h, NEW k, NEW m, Tells(h, k), Tells(k, m) PROVE Tells(h, m)
BY HearsOnTwice DEF Tells

\* Questions that can be answered still can.
LEMMA MoreTells ==
  ASSUME NEW h, NEW k, k.conn = h.conn, k.slot = h.slot, Ans(h) \subseteq Ans(k)
  PROVE Tells(h, k)
<1>1. HearsOn(h, k)
  BY MoreHears DEF HearsOn
<1>2. \A M : Numbered(h, M) => Numbered(k, M)
  BY DEF Numbered
<1> QED BY <1>1, <1>2 DEF Tells

LEMMA TellsSelf == ASSUME NEW h PROVE Tells(h, h)
BY MoreTells

LEMMA GlidesKeepWatching ==
  ASSUME NEW h, NEW k, Glides(h, k), Watching(h)
  PROVE Watching(k) /\ k.slot.tickets = h.slot.tickets /\ (k.ask = h.ask \/ k.refs = {}) /\ Matched(k)
<1> DEFINE r == h.slot.rows
<1>1. Sound(h, r, 0) /\ 0 \in Nat
  BY DEF Watching
<1> HIDE DEF r
<1>2. Sound(k, r, 0) /\ Scanned(h, k)
  BY <1>1, GlidesSound
<1>3. Sound(k, k.slot.rows, 0)
  BY <1>2, OwnSound DEF Scanned, r
<1>4. Ticks(k.slot)
  BY <1>2 DEF Watching, Scanned, Ticks
<1>5. k.ask = h.ask \/ k.refs = {}
  BY DEF Glides, Loses, Watched
<1> QED BY <1>2, <1>3, <1>4, <1>5 DEF Watching, Scanned, Sound, Held

LEMMA MovesKeepWatching ==
  ASSUME NEW h, NEW k, Moves(h, k), Watching(h) PROVE Watching(k) /\ Tells(h, k)
<1>1. Watching(k) /\ Carries(h, k)
  BY MovesWatching, CarriesTicks DEF Watching
<1> QED BY <1>1, RingsTells DEF Carries, Scan3

\* Nobody follows a file that is not open.
LEMMA ClosedIsLeft ==
  ASSUME NEW h, NEW r, Sound(h, r, 0), ~h.slot.active
  PROVE h.refs = {} /\ ~h.bound /\ ~h.slot.bound
BY DEF Sound, Held

LEMMA FinishFirstWatching ==
  ASSUME NEW h, Watching(h), h.slot.scan = "first", NEW file
  PROVE Watching(FinishFirst(h, file)) /\ Tells(h, FinishFirst(h, file))
<1> DEFINE s == h.slot
           done == CommitFirst(s)
           e == << >>
           ks == IF done.active THEN Standing(s.tickets) ELSE e
           no == Denied(s.tickets, done.active)
           q == [done EXCEPT !.tickets = e]
           z == CountEach(q, ks)
           base == [h EXCEPT !.slot = z]
           refused == RefuseEach(base, 4402, no)
           k == FinishFirst(h, file)
           r == done.rows
           n == Len(ks)
<1>1. k = LoadEach(refused, r, ks)
  BY DEF FinishFirst, LoadEach, RefuseEach, CountEach, Standing, Denied
<1>2. /\ IsSlot(s) /\ IsGateway(h) /\ ~s.active /\ ~s.bound /\ s.awaiting = 0 /\ s.carry = 0
      /\ h.refs = {} /\ ~h.bound /\ Ticketed(s.tickets) /\ Matched(h) /\ Even(h)
  <2>1. ~s.active /\ Sound(h, s.rows, 0)
    BY DEF Watching, Ticks
  <2> HIDE DEF s
  <2>2. h.refs = {} /\ ~h.bound /\ ~s.bound
    BY <2>1, ClosedIsLeft DEF s
  <2> QED BY <2>1, <2>2 DEF s, Sound, IsGateway, IsSlot, Held
<1> HIDE DEF s
<1>3. /\ IsSlot(done) /\ done.awaiting = s.awaiting /\ done.carry = s.carry /\ ~done.bound
      /\ done.scan = "none" /\ ~done.got.done /\ done.tickets = s.tickets
      /\ (done.active => Wanted(s.tickets))
  BY <1>2, CommitFirstSlot
<1> HIDE DEF done
<1>4. Ticketed(e) /\ e = << >> /\ Len(e) = 0
  BY EmptyIsSeq
<1> HIDE DEF e
<1>5. Ticketed(ks) /\ Ticketed(no) /\ (done.active => n > 0) /\ (~done.active => n = 0)
  BY <1>2, <1>3, <1>4, StandingIs, DeniedIs
<1>21. Picked(s.tickets, ks) /\ \A i \in DOMAIN s.tickets : s.tickets[i].by \in Conns
  <2>1. DOMAIN e = {}
    BY <1>4
  <2>2. Picked(s.tickets, e)
    BY <2>1 DEF Picked
  <2>3. Picked(s.tickets, Standing(s.tickets))
    BY <1>2, StandingIs
  <2> QED BY <1>2, <2>2, <2>3 DEF Ticketed, IsTicket
<1> HIDE DEF ks, no
<1>6. /\ IsSlot(q) /\ q.awaiting = 0 /\ q.carry = 0 /\ q.bound = done.bound /\ q.active = done.active
      /\ q.rows = done.rows /\ q.scan = "none" /\ q.got = done.got /\ q.tickets = e
  BY <1>2, <1>3, <1>4 DEF IsSlot
<1> HIDE DEF q
<1>7. Counted(q, n, z) /\ n \in Nat
  BY <1>5, <1>6, CountEachIs
<1> HIDE DEF z
<1>8. /\ IsSlot(z) /\ z.awaiting = n /\ z.carry = 0 /\ z.active = done.active /\ z.bound = done.bound
      /\ z.rows = r /\ z.scan = "none" /\ ~z.got.done /\ z.tickets = e
  BY <1>3, <1>6, <1>7 DEF Counted
<1>9. Ticks(z)
  BY <1>4, <1>8 DEF Ticks
<1>10. /\ IsGateway(base) /\ base.slot = z /\ SameIndex(h, base) /\ base.refs = h.refs
       /\ base.bound = h.bound /\ base.ask = h.ask /\ base.conn = h.conn
  BY <1>2, <1>8, SlotIs
<1> HIDE DEF base
<1>11. Held(base, n)
  <2>1. Matched(base)
    BY <1>2, <1>10 DEF Matched
  <2>2. z.bound = h.bound
    BY <1>2, <1>3, <1>8 DEF IsSlot, IsGateway
  <2>3. z.active <=> h.bound \/ n > 0
    BY <1>2, <1>5, <1>7, <1>8
  <2> QED BY <2>1, <2>2, <2>3, <1>2, <1>8, <1>10 DEF Held
<1>12. Sound(base, r, n)
  <2>1. Even(base)
    BY <1>2, <1>10 DEF Even
  <2> QED BY <2>1, <1>2, <1>10, <1>11, UnfollowedSound
<1>13. Moves(base, refused)
  BY <1>5, <1>10, RefuseEachMoves
<1> HIDE DEF refused
<1>14. Sound(refused, r, n) /\ \A M : Loads(base, refused, M)
  BY <1>7, <1>12, <1>13, MovesLoads
<1>15. r \in Seq(Nat)
  BY <1>3 DEF IsSlot
<1> DEFINE y == LoadEach(refused, r, ks)
<1>16. ASSUME NEW M, Issued(ks, M) PROVE Sound(y, r, 0) /\ Loads(refused, y, M)
  BY <1>5, <1>14, <1>15, <1>16, LoadEachSound
<1> HIDE DEF y, k
\* Some numbers are enough for those who waited.
<1> DEFINE N == [c \in Conns |-> {ks[i].req[1] : i \in DOMAIN ks}]
<1>22. Issued(ks, N)
  <2>1. \A i \in DOMAIN ks : ks[i].by \in Conns
    BY <1>21 DEF Picked
  <2> QED BY <2>1 DEF Issued
<1> HIDE DEF N
<1>23. Sound(y, r, 0) /\ Loads(refused, y, N) /\ Loads(base, refused, N)
  BY <1>14, <1>16, <1>22
<1>17. y.slot.active => y.slot.rows = r
  BY <1>8, <1>10, <1>23 DEF Loads
<1>18. Ticks(y.slot) /\ y.slot.tickets = e
  BY <1>8, <1>9, <1>10, <1>23 DEF Loads
<1>19. Sound(y, y.slot.rows, 0)
  BY <1>17, <1>23, OwnSound
<1>20. k = y
  BY <1>1 DEF y
<1>24. HearsOn(h, y)
  <2>1. HearsOn(h, base)
    BY <1>10, RingsSame DEF Rings
  <2>2. HearsOn(base, refused) /\ HearsOn(refused, y)
    BY <1>23 DEF Loads
  <2> QED BY <2>1, <2>2, HearsOnTwice
<1>25. ASSUME NEW M, Numbered(h, M) PROVE Numbered(y, M)
  <2>1. Issued(s.tickets, M)
    BY <1>25 DEF Numbered, s
  <2>2. Issued(ks, M)
    BY <2>1, <1>21 DEF Issued, Picked
  <2>3. Speaks(base, refused, M) /\ Speaks(refused, y, M)
    BY <2>2, <1>14, <1>16 DEF Loads
  <2>4. \A c \in Conns : Within(base.conn[c], M[c])
    BY <1>10, <1>25 DEF Numbered
  <2>5. \A c \in Conns : Within(y.conn[c], M[c])
    BY <2>3, <2>4 DEF Speaks, Stays
  <2>6. Issued(y.slot.tickets, M)
    BY <1>4, <1>18, NobodyIssued
  <2> QED BY <2>5, <2>6 DEF Numbered
<1>26. Tells(h, y)
  BY <1>24, <1>25 DEF Tells
<1> QED BY <1>18, <1>19, <1>20, <1>26 DEF Watching, k

-------------------------------------------------------------------------------
(* What a page asks *)

LEMMA RefuseWatching ==
  ASSUME NEW h, Watching(h), NEW c \in Conns, NEW code, NEW req
  PROVE Watching(Refuse(h, c, code, req)) /\ Tells(h, Refuse(h, c, code, req))
<1> DEFINE k == Refuse(h, c, code, req)
<1>1. Moves(h, k)
  BY RefuseWorn, WornMoves DEF Watching, Sound
<1> QED BY <1>1, MovesKeepWatching

LEMMA SlotKeepsWatching ==
  ASSUME NEW h, Watching(h), NEW s, IsSlot(s), SameWatch(h.slot, s), s.rows = h.slot.rows, Ticks(s)
  PROVE LET k == [h EXCEPT !.slot = s]
        IN /\ Watching(k) /\ Rings(h, k) /\ k.slot = s /\ k.conn = h.conn
           /\ (s.tickets = h.slot.tickets => Tells(h, k))
<1> DEFINE k == [h EXCEPT !.slot = s]
<1>1. Sound(k, s.rows, 0) /\ k.slot = s /\ Rings(h, k)
  BY SlotSound DEF Watching
<1>2. k.conn = h.conn
  BY SlotIs DEF Watching, Sound
<1> HIDE DEF k
<1> QED BY <1>1, <1>2, RingsTells DEF Watching, k

LEMMA AskLoadWatching ==
  ASSUME NEW h, Watching(h), NEW k, IsTicket(k), ~k.released, NEW file
  PROVE LET z == AskLoad(h, k, file)
        IN /\ Watching(z) /\ HearsOn(h, z)
           /\ \A M : Numbered(h, M) /\ k.req[1] \in M[k.by] => Numbered(z, M)
<1> DEFINE s == h.slot
           q == Append(s.tickets, k)
           wait == [s EXCEPT !.tickets = q]
           took == [h EXCEPT !.slot = TakeHeldCount(s)]
           calm == [s EXCEPT !.dirty = FALSE]
           z == AskLoad(h, k, file)
           Out(y) == /\ Watching(y) /\ HearsOn(h, y)
                     /\ \A M : Numbered(h, M) /\ k.req[1] \in M[k.by] => Numbered(y, M)
<1>1. z = IF k.cursor.stream # 0 /\ h.cur # k.cursor.stream THEN Refuse(h, k.by, 4404, k.req)
          ELSE IF s.active THEN Loaded(took, k, s.rows)
          ELSE IF s.scan # "none" THEN [h EXCEPT !.slot = wait]
          ELSE IF ~file.there THEN Refuse([h EXCEPT !.slot = calm], k.by, 4402, k.req)
          ELSE [h EXCEPT !.slot = StartFirstScan(wait, file)]
  BY DEF AskLoad
<1>2. IsSlot(s) /\ k.by \in Conns /\ k.req[1] # 0 /\ Ticks(s) /\ Sound(h, s.rows, 0) /\ Ticketed(s.tickets)
  BY DEF Watching, Sound, IsGateway, IsTicket, IsSlot
<1>3. Ticketed(q) /\ \A i \in DOMAIN q : ~q[i].released
  <2> DEFINE t == s.tickets
  <2>1. Ticketed(t) /\ \A i \in DOMAIN t : ~t[i].released
    BY <1>2 DEF Ticks
  <2> HIDE DEF t
  <2>2. PICK S : t \in Seq(S)
    BY <2>1 DEF Ticketed, IsSeq
  <2> DEFINE a == Append(t, k)
  <2>3. t \in Seq(S \cup {k})
    BY <2>2
  <2>4. DOMAIN a = 1 .. Len(t) + 1 /\ DOMAIN t = 1 .. Len(t) /\ Len(t) \in Nat
        /\ \A i \in 1 .. Len(t) + 1 : a[i] = IF i = Len(t) + 1 THEN k ELSE t[i]
    BY <2>3
  <2>5. Ticketed(a)
    BY <2>1, AppendTicketed
  <2> HIDE DEF a
  <2>6. \A i \in DOMAIN a : ~a[i].released
    BY <2>1, <2>4
  <2> QED BY <2>5, <2>6 DEF a, t
<1>11. \A M : Issued(s.tickets, M) /\ k.req[1] \in M[k.by] => Issued(q, M)
  <2> DEFINE t == s.tickets
  <2>1. Ticketed(t)
    BY <1>2
  <2> HIDE DEF t
  <2>2. PICK S : t \in Seq(S)
    BY <2>1 DEF Ticketed, IsSeq
  <2> DEFINE a == Append(t, k)
  <2>3. t \in Seq(S \cup {k})
    BY <2>2
  <2>4. DOMAIN a = 1 .. Len(t) + 1 /\ DOMAIN t = 1 .. Len(t) /\ Len(t) \in Nat
        /\ \A i \in 1 .. Len(t) + 1 : a[i] = IF i = Len(t) + 1 THEN k ELSE t[i]
    BY <2>3
  <2> HIDE DEF a
  <2>5. \A M : Issued(t, M) /\ k.req[1] \in M[k.by] => Issued(a, M)
    BY <2>4 DEF Issued
  <2> QED BY <2>5 DEF a, t
<1>12. \A y : Watching(y) /\ Tells(h, y) => Out(y)
  BY DEF Tells
\* A slot with one more ticket.
<1>13. ASSUME NEW t, IsSlot(t), SameWatch(s, t), t.rows = s.rows, Ticks(t), t.tickets = q
       PROVE Out([h EXCEPT !.slot = t])
  <2> DEFINE y == [h EXCEPT !.slot = t]
  <2>1. Watching(y) /\ Rings(h, y) /\ y.slot = t /\ y.conn = h.conn
    BY <1>13, SlotKeepsWatching
  <2> HIDE DEF y
  <2>2. ASSUME NEW M, Numbered(h, M), k.req[1] \in M[k.by] PROVE Numbered(y, M)
    <3> HIDE DEF q
    <3>1. Issued(s.tickets, M)
      BY <2>2 DEF Numbered
    <3>2. Issued(q, M)
      BY <1>11, <2>2, <3>1
    <3> QED BY <2>1, <2>2, <3>2, <1>13 DEF Numbered
  <2> QED BY <2>1, <2>2 DEF Rings, y
<1> HIDE DEF z, q, Out
<1>4. /\ IsSlot(wait) /\ SameWatch(s, wait) /\ wait.rows = s.rows /\ wait.scan = s.scan
      /\ wait.got = s.got /\ wait.tickets = q /\ wait.active = s.active
  BY <1>2, <1>3 DEF IsSlot, SameWatch
<1>5. ASSUME z = Refuse(h, k.by, 4404, k.req) PROVE Out(z)
  BY <1>2, <1>5, <1>12, RefuseWatching
<1>6. ASSUME s.active /\ z = Loaded(took, k, s.rows) PROVE Out(z)
  <2> DEFINE t == TakeHeldCount(s)
             y == Loaded(took, k, s.rows)
  <2>1. s.carry = 0 /\ s.awaiting = 0
    BY <1>2 DEF Sound, Held
  <2>2. /\ IsSlot(t) /\ t.awaiting = s.awaiting + 1 /\ t.carry = 0
        /\ t.active = s.active /\ t.bound = s.bound /\ t.rows = s.rows
        /\ t.scan = s.scan /\ t.got = s.got /\ t.tickets = s.tickets
    BY <1>2, <2>1, TakeCountSlot
  <2> HIDE DEF t
  <2>3. Ticks(t)
    BY <2>2, <1>2 DEF Ticks
  <2>4. /\ IsGateway(took) /\ took.slot = t /\ SameIndex(h, took) /\ took.refs = h.refs
        /\ took.bound = h.bound /\ took.ask = h.ask /\ took.conn = h.conn
    BY <2>2, SlotIs DEF Watching, Sound, t
  <2> HIDE DEF took
  <2>5. Sound(took, s.rows, 1)
    <3>1. Matched(took)
      BY <2>4 DEF Watching, Sound, Held, Matched
    <3>2. Held(took, 1)
      <4>1. h.bound \in BOOLEAN /\ (h.bound <=> h.refs # {}) /\ s.bound = h.bound
        BY DEF Watching, Sound, Held, IsGateway
      <4>2. 0 + 1 = 1 /\ 1 > 0
        OBVIOUS
      <4>3. t.awaiting = 1
        BY <2>1, <2>2, <4>2
      <4> QED BY <4>1, <4>2, <4>3, <2>2, <2>4, <3>1, <1>6 DEF Held
    <3>3. Current(took) /\ Indexed(took, s.rows) /\ Even(took)
      BY <2>4 DEF Watching, Sound, Current, Indexed, Even, SameIndex, CurRows
    <3> QED BY <2>4, <3>2, <3>3 DEF Sound
  <2>6. s.rows \in Seq(Nat) /\ 1 \in Nat \ {0} /\ 1 - 1 = 0
    BY <1>2 DEF IsSlot
  <2> DEFINE rs == s.rows
             one == 1
  <2>7. ASSUME NEW M, k.req[1] \in M[k.by] PROVE Sound(y, rs, one - 1) /\ Loads(took, y, M)
    <3>1. Sound(took, rs, one) /\ rs \in Seq(Nat) /\ one \in Nat \ {0}
      BY <2>5, <2>6
    <3> HIDE DEF rs, one
    <3>2. Sound(Loaded(took, k, rs), rs, one - 1) /\ Loads(took, Loaded(took, k, rs), M)
      BY <3>1, <1>2, <2>7, LoadedSound
    <3> QED BY <3>2 DEF rs
  <2> DEFINE N == [c \in Conns |-> {k.req[1]}]
  <2>12. k.req[1] \in N[k.by]
    BY <1>2
  <2> HIDE DEF N
  <2>13. Loads(took, y, N)
    BY <2>7, <2>12
  <2>8. Sound(y, s.rows, 0)
    BY <2>6, <2>7, <2>12
  <2>9. y.slot.active => y.slot.rows = s.rows
    BY <2>2, <2>4, <2>13 DEF Loads
  <2>10. Ticks(y.slot) /\ y.slot.tickets = s.tickets
    BY <2>2, <2>3, <2>4, <2>13 DEF Loads
  <2> HIDE DEF y
  <2>11. Sound(y, y.slot.rows, 0)
    BY <2>8, <2>9, OwnSound
  <2>14. HearsOn(h, y)
    <3>1. HearsOn(h, took)
      BY <2>4, RingsSame DEF Rings
    <3>2. HearsOn(took, y)
      BY <2>13 DEF Loads
    <3> QED BY <3>1, <3>2, HearsOnTwice
  <2>15. ASSUME NEW M, Numbered(h, M), k.req[1] \in M[k.by] PROVE Numbered(y, M)
    <3>1. Speaks(took, y, M)
      BY <2>7, <2>15 DEF Loads
    <3>2. \A c \in Conns : Within(y.conn[c], M[c])
      BY <3>1, <2>4, <2>15 DEF Speaks, Stays, Numbered
    <3>3. Issued(y.slot.tickets, M)
      BY <2>10, <2>15 DEF Numbered
    <3> QED BY <3>2, <3>3 DEF Numbered
  <2>16. Watching(y)
    BY <2>10, <2>11 DEF Watching
  <2>17. Out(y)
    BY <2>14, <2>15, <2>16 DEF Out
  <2> QED BY <2>17, <1>6 DEF y
<1>7. ASSUME ~s.active /\ s.scan # "none" /\ z = [h EXCEPT !.slot = wait] PROVE Out(z)
  <2>1. Ticks(wait)
    BY <1>2, <1>3, <1>4, <1>7 DEF Ticks
  <2> HIDE DEF wait
  <2> QED BY <2>1, <1>4, <1>7, <1>13
<1>8. ASSUME z = Refuse([h EXCEPT !.slot = calm], k.by, 4402, k.req) PROVE Out(z)
  <2>1. IsSlot(calm) /\ SameWatch(s, calm) /\ calm.rows = s.rows /\ Ticks(calm)
        /\ calm.tickets = s.tickets
    BY <1>2 DEF IsSlot, SameWatch, Ticks
  <2> HIDE DEF calm
  <2> DEFINE a == [h EXCEPT !.slot = calm]
             y == Refuse(a, k.by, 4402, k.req)
  <2>2. Watching(a) /\ Tells(h, a)
    BY <2>1, SlotKeepsWatching
  <2> HIDE DEF a
  <2>3. Watching(y) /\ Tells(a, y)
    BY <2>2, <1>2, RefuseWatching
  <2> HIDE DEF y
  <2>4. Tells(h, y)
    BY <2>2, <2>3, TellsTwice
  <2> QED BY <2>3, <2>4, <1>8, <1>12 DEF y, a
<1>9. ASSUME ~s.active /\ z = [h EXCEPT !.slot = StartFirstScan(wait, file)] PROVE Out(z)
  <2> DEFINE t == StartFirstScan(wait, file)
             u == Unread
  <2>1. u \in Reads /\ ~u.done
    BY UnreadIs
  <2>2. t = [wait EXCEPT !.scan = "first", !.got = u, !.early = FALSE, !.dirty = FALSE,
                         !.watch = file.ino, !.news = FALSE]
    BY DEF StartFirstScan, u
  <2> HIDE DEF wait, u, t
  <2>3. /\ IsSlot(t) /\ SameWatch(wait, t) /\ t.rows = wait.rows /\ t.tickets = wait.tickets
        /\ t.scan = "first" /\ t.got = u /\ t.active = wait.active
    BY <1>4, <2>1, <2>2 DEF IsSlot, SameWatch
  <2>4. Ticks(t)
    BY <1>3, <1>4, <1>9, <2>1, <2>3 DEF Ticks
  <2>5. SameWatch(s, t)
    BY <1>4, <2>3 DEF SameWatch
  <2>6. Out([h EXCEPT !.slot = t])
    BY <1>4, <1>13, <2>3, <2>4, <2>5
  <2> QED BY <2>6, <1>9 DEF t
<1>10. \/ z = Refuse(h, k.by, 4404, k.req)
       \/ s.active /\ z = Loaded(took, k, s.rows)
       \/ ~s.active /\ s.scan # "none" /\ z = [h EXCEPT !.slot = wait]
       \/ z = Refuse([h EXCEPT !.slot = calm], k.by, 4402, k.req)
       \/ ~s.active /\ z = [h EXCEPT !.slot = StartFirstScan(wait, file)]
  BY <1>1
<1>14. Out(z)
  BY <1>5, <1>6, <1>7, <1>8, <1>9, <1>10
<1> QED BY <1>14 DEF Out, z

LEMMA AskPageWatching ==
  ASSUME NEW h, Watching(h), NEW c \in Conns, NEW m, m.req[1] = m.sub
  PROVE Watching(AskPage(h, c, m)) /\ Tells(h, AskPage(h, c, m))
<1> DEFINE e == h.conn[c].eng
           f == PageFrame(e, m.req, m.from, h.log[e.stream])
           w == WithEngine(h, c, ServePage(e, m.from))
           t == Emit(w, c, f)
           z == AskPage(h, c, m)
<1>1. z = IF ~HasSub(h, c) THEN Refuse(h, c, 4404, m.req)
          ELSE Schedule(IF e.phase = "closed" \/ e.sub # m.sub THEN Refuse(h, c, 4404, m.req)
                        ELSE IF e.next # m.from THEN Refuse(h, c, 4409, m.req) ELSE t)
  BY DEF AskPage
<1>2. IsGateway(h) /\ IsEngine(e)
  BY DEF Watching, Sound, IsGateway, IsConn
<1>3. \A code : Moves(h, Refuse(h, c, code, m.req)) /\ Moves(h, Schedule(Refuse(h, c, code, m.req)))
  BY <1>2, RefuseWorn, WornMoves, ScheduleMoves
<1>4. CASE HasSub(h, c)
  <2> DEFINE p == ServePage(e, m.from)
  <2>1. GoesOn(e, p)
    <3>2. e.sub # 0
      BY <1>2, <1>4 DEF IsEngine, HasSub
    <3>1. IsEngine(p) /\ p.sub = e.sub /\ p.stream = e.stream /\ p.phase # "none"
      BY <1>2, <3>2, ServePageIs
    <3> HIDE DEF p
    <3> QED BY <3>1, <1>4 DEF GoesOn, HasSub
  <2> HIDE DEF p
  <2>10. w.conn[c].eng = p
    <3> DEFINE v == [h.conn[c] EXCEPT !.eng = p]
    <3>1. IsEngine(p)
      BY <2>1 DEF GoesOn
    <3>2. w = Swapped(h, c, v) /\ IsConn(v)
      BY <1>2, <3>1, WithEngineSwaps DEF p
    <3>3. v.eng = p
      BY <1>2 DEF IsGateway, IsConn
    <3> HIDE DEF v, w
    <3>4. Swapped(h, c, v).conn[c] = v
      BY <1>2 DEF Swapped, IsGateway
    <3> QED BY <3>2, <3>3, <3>4
  <2>2. Worn(h, c, w)
    BY <1>2, <2>1, SwapEngineWorn DEF p
  <2> HIDE DEF w
  <2>3. IsFrame(f) /\ IsGateway(w)
    BY <1>2, <2>2, PageFrameIsFrame, WornMoves
  <2>9. f.t = "snapshot" /\ f.sub = e.sub /\ f.req = m.req
    BY PageFrameIsFrame
  <2>11. e.sub = m.sub => Says(w.conn[c], f) /\ f.t # "ui-request"
    BY <1>4, <2>1, <2>9, <2>10 DEF Says, Follows, GoesOn, HasSub
  <2> HIDE DEF f
  <2>4. e.sub = m.sub => Worn(w, c, t)
    BY <2>3, <2>11, EmitWorn
  <2> HIDE DEF t
  <2>5. e.sub = m.sub => Worn(h, c, t)
    BY <2>2, <2>4, WornTwice
  <2>6. e.sub = m.sub => Moves(h, t)
    BY <1>2, <2>5, WornMoves
  <2>7. e.sub = m.sub => Moves(h, Schedule(t))
    BY <2>6, ScheduleMoves
  <2> HIDE DEF z
  <2>8. Moves(h, z)
    BY <1>1, <1>3, <1>4, <2>7
  <2> QED BY <2>8, MovesKeepWatching DEF z
<1>5. CASE ~HasSub(h, c)
  <2>1. z = Refuse(h, c, 4404, m.req)
    BY <1>1, <1>5
  <2> HIDE DEF z
  <2>2. Moves(h, z)
    BY <1>3, <2>1
  <2> QED BY <2>2, MovesKeepWatching DEF z
<1> QED BY <1>4, <1>5

LEMMA EndQuietlyWatching ==
  ASSUME NEW h, Watching(h), NEW c \in Conns, NEW sub
  PROVE LET z == EndQuietly(h, c, sub)
        IN /\ Watching(z)
           /\ \A d \in Conns : \A s : s # 0 /\ (d # c \/ s # sub) =>
                HearsOf(h.conn[d], z.conn[d], s, Ans(h), Ans(z))
           /\ \A M : Numbered(h, M) => Numbered(z, M)
<1> DEFINE x == h.conn[c]
           n == NoEngine
           y == [x EXCEPT !.eng = n]
           k == ReleaseWatcher(h, c)
           w == WithEngine(k, c, n)
           q == CancelC(y, sub)
           z == EndQuietly(h, c, sub)
           Out(m) == /\ Watching(m)
                     /\ \A d \in Conns : \A s : s # 0 /\ (d # c \/ s # sub) =>
                          HearsOf(h.conn[d], m.conn[d], s, Ans(h), Ans(m))
                     /\ \A M : Numbered(h, M) => Numbered(m, M)
<1>1. z = IF ~HasSub(h, c) \/ x.eng.sub # sub THEN h ELSE CancelFrames(w, c, sub)
  BY DEF EndQuietly
<1>2. IsGateway(h) /\ IsConn(x) /\ IsEngine(n) /\ n.phase = "none"
  BY NoEngineIsEngine DEF Watching, Sound, IsGateway
<1> HIDE DEF n
<1>5. Out(h)
  <2>1. Tells(h, h)
    BY TellsSelf
  <2> QED BY <2>1 DEF Tells, HearsOn
<1> HIDE DEF Out
<1>3. ASSUME HasSub(h, c), x.eng.sub = sub PROVE Out(CancelFrames(w, c, sub))
  <2>1. /\ y.eng = n /\ y.open = x.open /\ y.link = x.link /\ IsConn(y)
    BY <1>2 DEF IsConn
  <2> HIDE DEF y
  <2>2. ~Follows(y) /\ Follows(x)
    BY <1>2, <1>3, <2>1 DEF Follows, HasSub
  <2>3. Fades(x, y)
    BY <2>1, <2>2 DEF Fades
  <2>4. /\ Loses(h, k) /\ k.refs = h.refs \ {c} /\ DOMAIN k = DOMAIN h /\ SameIndex(h, k)
        /\ k.conn = h.conn /\ k.pump \in BOOLEAN
    BY <1>2, ReleaseWatcherFrees
  <2> HIDE DEF k
  <2>5. /\ DOMAIN w = DOMAIN k /\ w.conn = [k.conn EXCEPT ![c] = [k.conn[c] EXCEPT !.eng = n]]
        /\ w.slot = k.slot /\ w.log = k.log /\ w.cur = k.cur /\ w.spent = k.spent
        /\ w.refs = k.refs /\ w.bound = k.bound /\ w.pump = k.pump /\ w.ask = k.ask
    BY <1>2, <2>4 DEF WithEngine, IsGateway
  <2> HIDE DEF w
  <2>6. w.conn = [h.conn EXCEPT ![c] = y]
    BY <2>4, <2>5 DEF y
  <2>7. Loses(h, w) /\ SameIndex(h, w) /\ DOMAIN w = DOMAIN h /\ w.pump \in BOOLEAN
        /\ w.refs = h.refs \ {c}
    BY <2>4, <2>5 DEF Loses, Watched, Unwatched, SameIndex
  <2>8. Leaves(h, w, c, y)
    BY <2>2, <2>6, <2>7 DEF Leaves
  <2>9. Became(h, w, c, y)
    BY <1>2, <2>1, <2>8, LeavesBecame
  <2>10. Became(w, CancelFrames(w, c, sub), c, q) /\ Fades(y, q)
    <3>1. IsGateway(w) /\ w.conn[c] = y
      BY <2>9 DEF Became
    <3>2. Became(w, CancelFrames(w, c, sub), c, CancelC(w.conn[c], sub))
      BY <3>1, CancelFramesBecame
    <3> QED BY <3>1, <3>2, <2>1, CancelCFades
  <2> HIDE DEF q
  <2>11. Became(h, CancelFrames(w, c, sub), c, q) /\ Fades(x, q)
    BY <2>3, <2>9, <2>10, BecameTwice
  <2>12. Glides(h, CancelFrames(w, c, sub)) /\ CancelFrames(w, c, sub).conn[c] = q
        /\ \A d \in Conns \ {c} : CancelFrames(w, c, sub).conn[d] = h.conn[d]
    BY <1>2, <2>11, BecameGlides DEF Became
  <2>13. sub # 0
    BY <1>2, <1>3 DEF IsConn, IsEngine, HasSub
  <2>14. SubOf(y) = 0
    BY <2>2 DEF SubOf
  <2>15. SubOf(x) = sub
    BY <1>3, <2>2 DEF SubOf
  <2>16. Line(y) = Line(x)
    <3>1. y.wire = x.wire /\ y.queue = x.queue
      BY <1>2 DEF IsConn, y
    <3> QED BY <3>1 DEF Line
  <2>17. Numbers(y, q) /\ \A s, A, B : s # sub /\ s # 0 => HearsOf(y, q, s, A, B)
    BY <2>1, <2>13, <2>14, CancelHears DEF q
  <2>18. \A s, A, B : s # sub /\ s # 0 => HearsOf(x, y, s, A, B)
    BY <2>15, <2>16, ElsewhereHears
  <2>19. Numbers(x, y)
    BY <2>1, <2>2, <2>16 DEF Numbers, Within
  <2>20. Numbers(x, q) /\ \A s, A, B : s # sub /\ s # 0 => HearsOf(x, q, s, A, B)
    <3>1. Numbers(x, q)
      BY <2>17, <2>19 DEF Numbers
    <3>2. \A s, A, B : s # sub /\ s # 0 => HearsOf(x, y, s, A, A) /\ HearsOf(y, q, s, A, B)
      BY <2>17, <2>18
    <3> QED BY <3>1, <3>2, HearsOfTwice
  <2> DEFINE m == CancelFrames(w, c, sub)
  <2> HIDE DEF m, w, q, y
  <2>21. Glides(h, m) /\ m.conn[c] = q /\ \A d \in Conns \ {c} : m.conn[d] = h.conn[d]
    BY <2>12 DEF m
  <2>22. /\ Watching(m) /\ m.slot.tickets = h.slot.tickets
         /\ m.ask = h.ask \/ m.refs = {}
         /\ Matched(m) /\ Matched(h)
    BY <2>21, GlidesKeepWatching DEF Watching, Sound, Held
  <2>23. \A d \in Conns \ {c} : \A s : s # 0 => HearsOf(h.conn[d], m.conn[d], s, Ans(h), Ans(m))
    <3>1. CASE m.ask = h.ask
      <4>1. Ans(m) = Ans(h)
        BY <3>1 DEF Ans
      <4> QED BY <4>1, <2>21, MoreHears
    <3>2. CASE m.refs = {}
      <4> SUFFICES ASSUME NEW d \in Conns \ {c}, NEW s, s # 0
                   PROVE  HearsOf(h.conn[d], m.conn[d], s, Ans(h), Ans(m))
        OBVIOUS
      <4>1. ~Follows(m.conn[d])
        BY <3>2, <2>22 DEF Matched
      <4>2. m.conn[d] = h.conn[d]
        BY <2>21
      <4>3. SubOf(h.conn[d]) = 0
        BY <4>1, <4>2 DEF SubOf
      <4> QED BY <4>2, <4>3, ElsewhereHears
    <3> QED BY <2>22, <3>1, <3>2
  <2>24. \A d \in Conns : \A s : s # 0 /\ (d # c \/ s # sub) =>
           HearsOf(h.conn[d], m.conn[d], s, Ans(h), Ans(m))
    BY <2>20, <2>21, <2>23
  <2>25. \A M : Numbered(h, M) => Numbered(m, M)
    <3> SUFFICES ASSUME NEW M, Numbered(h, M) PROVE Numbered(m, M)
      OBVIOUS
    <3>1. \A d \in Conns : Within(m.conn[d], M[d])
      BY <2>20, <2>21 DEF Numbered, Numbers
    <3> QED BY <3>1, <2>22 DEF Numbered
  <2> QED BY <2>22, <2>24, <2>25 DEF Out, m
<1> HIDE DEF w, q
<1>4. Out(z)
  <2> HIDE DEF z
  <2> QED BY <1>1, <1>3, <1>5
<1> QED BY <1>4 DEF Out, z

-------------------------------------------------------------------------------
(* The book of questions *)

GateLess(v, q) == [v EXCEPT !.gate = @ \ {q}]
NextQ(u) == Len(u.gen) + 1

LEMMA AskedFields ==
  ASSUME NEW u \in AskBooks
  PROVE LET q == NextQ(u)
            v == Asked(u)
        IN /\ v \in AskBooks /\ q \in Nat /\ q \notin DOMAIN u.gen /\ DOMAIN v.gen = DOMAIN u.gen \cup {q}
           /\ v.gen[q] = u.now /\ \A i \in DOMAIN u.gen : v.gen[i] = u.gen[i]
           /\ v.now = u.now /\ v.phase = u.phase /\ v.pending = u.pending /\ v.gate = u.gate
           /\ v.writes = u.writes /\ v.lines = u.lines /\ v.failed = u.failed
<1> DEFINE q == NextQ(u)
           a == Append(u.gen, u.now)
           v == [u EXCEPT !.gen = a]
<1>1. Asked(u) = v
  BY DEF Asked
<1>2. u.gen \in Seq(Nat) /\ u.now \in Nat
  BY DEF AskBooks
<1>3. /\ a \in Seq(Nat) /\ DOMAIN u.gen = 1 .. Len(u.gen) /\ Len(u.gen) \in Nat
      /\ DOMAIN a = 1 .. Len(u.gen) + 1
      /\ \A i \in DOMAIN u.gen : a[i] = u.gen[i]
  BY <1>2
<1>4. a[q] = u.now
  BY <1>2 DEF NextQ
<1> HIDE DEF a
<1>5. /\ v \in AskBooks /\ v.gen = a
      /\ v.now = u.now /\ v.phase = u.phase /\ v.pending = u.pending /\ v.gate = u.gate
      /\ v.writes = u.writes /\ v.lines = u.lines /\ v.failed = u.failed
  BY <1>3 DEF AskBooks
<1> HIDE DEF v
<1> QED BY <1>1, <1>3, <1>4, <1>5 DEF NextQ

\* A question is put down.
LEMMA OpenedOK ==
  ASSUME NEW u, AskOK(u), u.phase # "idle", u.pending = u.gate
  PROVE LET q == NextQ(u)
            v == [Asked(u) EXCEPT !.pending = @ \cup {q}, !.gate = @ \cup {q}]
        IN AskOK(v) /\ v.pending = v.gate /\ v.gate = u.gate \cup {q} /\ v.writes = u.writes
<1> DEFINE q == NextQ(u)
           x == Asked(u)
           p == x.pending \cup {q}
           gt == x.gate \cup {q}
           v == [x EXCEPT !.pending = p, !.gate = gt]
<1>0. u \in AskBooks /\ OpenAsked(u) /\ AskAges(u) /\ WritesOnce(u) /\ LinesOnce(u) /\ Remembers(u)
  BY DEF AskOK
<1>1. /\ x \in AskBooks /\ q \in Nat /\ q \notin DOMAIN u.gen /\ DOMAIN x.gen = DOMAIN u.gen \cup {q}
      /\ x.gen[q] = u.now /\ \A i \in DOMAIN u.gen : x.gen[i] = u.gen[i]
      /\ x.now = u.now /\ x.phase = u.phase /\ x.pending = u.pending /\ x.gate = u.gate
      /\ x.writes = u.writes /\ x.lines = u.lines /\ x.failed = u.failed
  BY <1>0, AskedFields
<1> HIDE DEF x, q
<1>2. /\ v \in AskBooks /\ v.gen = x.gen /\ v.now = u.now /\ v.phase = u.phase
      /\ v.pending = u.pending \cup {q} /\ v.gate = u.gate \cup {q}
      /\ v.writes = u.writes /\ v.lines = u.lines /\ v.failed = u.failed
  BY <1>1 DEF AskBooks
<1> HIDE DEF v
<1>3. OpenAsked(v)
  BY <1>0, <1>1, <1>2 DEF OpenAsked
<1>4. AskAges(v)
  <2>1. u.now \in Nat
    BY <1>0 DEF AskBooks
  <2> QED BY <1>0, <1>1, <1>2, <2>1 DEF AskAges
<1>5. WritesOnce(v)
  BY <1>0, <1>1, <1>2 DEF WritesOnce
<1>6. LinesOnce(v)
  BY <1>0, <1>1, <1>2 DEF LinesOnce
<1>7. Remembers(v)
  BY <1>0, <1>1, <1>2 DEF Remembers, Known
<1>8. v.pending = v.gate
  BY <1>2
<1> QED
  BY <1>1, <1>2, <1>3, <1>4, <1>5, <1>6, <1>7, <1>8 DEF AskOK, v, x, q

LEMMA StartWriteFields ==
  ASSUME NEW x \in AskBooks, NEW q \in Nat, NEW by \in Writers
  PROVE LET v == StartWrite(x, q, by)
            w == [q |-> q, to |-> x.now, by |-> by]
        IN /\ v \in AskBooks /\ v.gen = x.gen /\ v.now = x.now /\ v.phase = x.phase /\ v.pending = x.pending
           /\ v.gate = x.gate /\ v.lines = x.lines /\ v.failed = x.failed
           /\ v.writes = IF Writable(x, q) THEN x.writes \cup {w} ELSE x.writes
<1> DEFINE w == [q |-> q, to |-> x.now, by |-> by]
           ws == x.writes \cup {w}
           v == [x EXCEPT !.writes = ws]
<1>1. StartWrite(x, q, by) = IF Writable(x, q) THEN v ELSE x
  BY DEF StartWrite
<1>2. w \in Writes
  BY DEF Writes, AskBooks
<1> HIDE DEF w
<1>3. ws \subseteq Writes
  BY <1>2 DEF AskBooks
<1> HIDE DEF ws
<1>4. /\ v \in AskBooks /\ v.gen = x.gen /\ v.now = x.now /\ v.phase = x.phase /\ v.pending = x.pending
      /\ v.gate = x.gate /\ v.lines = x.lines /\ v.failed = x.failed /\ v.writes = ws
  BY <1>3 DEF AskBooks
<1> HIDE DEF v
<1> QED BY <1>1, <1>4 DEF ws, w

\* An open question is answered: to whoever asked it, if that is running.
LEMMA AnswerOK ==
  ASSUME NEW x, x \in AskBooks, NEW q \in Nat, NEW by \in Writers, x.pending = x.gate,
         OpenAsked(x), AskAges(x), WritesOnce(x), LinesOnce(x),
         q \in DOMAIN x.gen, q \notin x.pending,
         \A w \in x.writes : w.q # q, \A i \in DOMAIN x.lines : x.lines[i].q # q,
         x.gen[q] = x.now,
         x.phase = "running" => \A i \in DOMAIN x.gen : x.gen[i] = x.now => Known(x, i) \/ i = q
  PROVE LET v == StartWrite(x, q, by)
        IN /\ AskOK(v) /\ v.pending = x.pending /\ v.gate = x.gate /\ x.writes \subseteq v.writes
           /\ Writable(x, q) => [q |-> q, to |-> x.now, by |-> by] \in v.writes
<1> DEFINE v == StartWrite(x, q, by)
           w == [q |-> q, to |-> x.now, by |-> by]
<1>1. /\ v \in AskBooks /\ v.gen = x.gen /\ v.now = x.now /\ v.phase = x.phase /\ v.pending = x.pending
      /\ v.gate = x.gate /\ v.lines = x.lines /\ v.failed = x.failed
      /\ v.writes = IF Writable(x, q) THEN x.writes \cup {w} ELSE x.writes
  BY StartWriteFields
<1>2. w.q = q /\ w.to = x.now
  OBVIOUS
<1> HIDE DEF v, w
<1>3. OpenAsked(v)
  BY <1>1 DEF OpenAsked
<1>4. AskAges(v)
  BY <1>1 DEF AskAges
<1>5. WritesOnce(v)
  BY <1>1, <1>2 DEF WritesOnce
<1>6. LinesOnce(v)
  BY <1>1, <1>2 DEF LinesOnce
<1>7. Remembers(v)
  <2> SUFFICES ASSUME v.phase = "running", NEW i \in DOMAIN v.gen, v.gen[i] = v.now PROVE Known(v, i)
    BY DEF Remembers
  <2>1. Writable(x, q)
    BY <1>1 DEF Writable
  <2>2. CASE i = q
    BY <2>1, <2>2, <1>1, <1>2 DEF Known
  <2>3. CASE i # q
    BY <2>3, <1>1 DEF Known
  <2> QED BY <2>2, <2>3
<1>8. x.writes \subseteq v.writes /\ (Writable(x, q) => w \in v.writes)
  BY <1>1
<1> QED
  BY <1>1, <1>3, <1>4, <1>5, <1>6, <1>7, <1>8 DEF AskOK, v, w

LEMMA SameGate ==
  ASSUME NEW v \in AskBooks, NEW q, q \notin v.gate PROVE GateLess(v, q) = v
<1>1. v.gate \ {q} = v.gate
  OBVIOUS
<1> QED BY <1>1 DEF GateLess, AskBooks

LEMMA AskedOK ==
  ASSUME NEW u, AskOK(u), u.phase # "idle", u.pending = u.gate, NEW by \in Writers
  PROVE LET q == NextQ(u)
            v == StartWrite(Asked(u), q, by)
        IN /\ AskOK(v) /\ v.pending = v.gate /\ v.gate = u.gate /\ GateLess(v, q) = v
           /\ u.writes \subseteq v.writes
<1> DEFINE q == NextQ(u)
           x == Asked(u)
           v == StartWrite(x, q, by)
<1>0. u \in AskBooks /\ OpenAsked(u) /\ AskAges(u) /\ WritesOnce(u) /\ LinesOnce(u) /\ Remembers(u)
  BY DEF AskOK
<1>1. /\ x \in AskBooks /\ q \in Nat /\ q \notin DOMAIN u.gen /\ DOMAIN x.gen = DOMAIN u.gen \cup {q}
      /\ x.gen[q] = u.now /\ \A i \in DOMAIN u.gen : x.gen[i] = u.gen[i]
      /\ x.now = u.now /\ x.phase = u.phase /\ x.pending = u.pending /\ x.gate = u.gate
      /\ x.writes = u.writes /\ x.lines = u.lines /\ x.failed = u.failed
  BY <1>0, AskedFields
<1> HIDE DEF x, q
<1>2. x.pending = x.gate /\ OpenAsked(x) /\ q \notin x.pending
  BY <1>0, <1>1 DEF OpenAsked
<1>3. AskAges(x)
  <2>1. u.now \in Nat
    BY <1>0 DEF AskBooks
  <2> QED BY <1>0, <1>1, <2>1 DEF AskAges
<1>4. WritesOnce(x) /\ \A w \in x.writes : w.q # q
  BY <1>0, <1>1 DEF WritesOnce
<1>5. LinesOnce(x) /\ \A i \in DOMAIN x.lines : x.lines[i].q # q
  BY <1>0, <1>1 DEF LinesOnce
<1>6. x.phase = "running" => \A i \in DOMAIN x.gen : x.gen[i] = x.now => Known(x, i) \/ i = q
  BY <1>0, <1>1 DEF Remembers, Known
<1>7. q \in DOMAIN x.gen /\ x.gen[q] = x.now
  BY <1>1
<1>8. AskOK(v) /\ v.pending = x.pending /\ v.gate = x.gate /\ x.writes \subseteq v.writes
  BY <1>1, <1>2, <1>3, <1>4, <1>5, <1>6, <1>7, AnswerOK
<1> HIDE DEF v
<1>9. GateLess(v, q) = v
  BY <1>2, <1>8, SameGate DEF AskOK
<1> QED BY <1>1, <1>2, <1>8, <1>9 DEF v, x, q

\* The first answer to a question.
LEMMA AnsweredOK ==
  ASSUME NEW u, AskOK(u), u.pending = u.gate, NEW q \in u.gate
  PROVE LET v == AnswerUi(GateLess(u, q), q, "page")
        IN /\ AskOK(v) /\ v.pending = v.gate /\ v.gate = u.gate \ {q} /\ GateLess(v, q) = v
           /\ u.writes \subseteq v.writes
           /\ Writable(u, q) => \E w \in v.writes : w.q = q /\ w.by = "page"
<1> DEFINE p == u.pending \ {q}
           gt == u.gate \ {q}
           x == [u EXCEPT !.gate = gt, !.pending = p]
           v == AnswerUi(GateLess(u, q), q, "page")
<1>0. u \in AskBooks /\ OpenAsked(u) /\ AskAges(u) /\ WritesOnce(u) /\ LinesOnce(u) /\ Remembers(u)
  BY DEF AskOK
<1>1. v = StartWrite(x, q, "page")
  <2>1. GateLess(u, q) = [u EXCEPT !.gate = gt]
    BY DEF GateLess
  <2>2. [u EXCEPT !.gate = gt].pending = u.pending
    BY <1>0 DEF AskBooks
  <2>3. [[u EXCEPT !.gate = gt] EXCEPT !.pending = @ \ {q}] = x
    BY <1>0, <2>2 DEF AskBooks
  <2> QED BY <2>1, <2>2, <2>3 DEF AnswerUi
<1>2. /\ x \in AskBooks /\ x.gen = u.gen /\ x.now = u.now /\ x.phase = u.phase
      /\ x.pending = p /\ x.gate = gt
      /\ x.writes = u.writes /\ x.lines = u.lines /\ x.failed = u.failed
  BY <1>0 DEF AskBooks
<1> HIDE DEF x, v
<1>3. q \in Nat /\ q \in DOMAIN x.gen /\ x.gen[q] = x.now /\ q \notin x.pending
  BY <1>0, <1>2 DEF OpenAsked, AskBooks
<1>4. x.pending = x.gate /\ OpenAsked(x)
  BY <1>0, <1>2 DEF OpenAsked
<1>5. AskAges(x) /\ WritesOnce(x) /\ \A w \in x.writes : w.q # q
  BY <1>0, <1>2 DEF AskAges, WritesOnce
<1>6. LinesOnce(x) /\ \A i \in DOMAIN x.lines : x.lines[i].q # q
  BY <1>0, <1>2 DEF LinesOnce
<1>7. x.phase = "running" => \A i \in DOMAIN x.gen : x.gen[i] = x.now => Known(x, i) \/ i = q
  BY <1>0, <1>2 DEF Remembers, Known
<1>8. "page" \in Writers
  BY DEF Writers
<1>9. /\ AskOK(v) /\ v.pending = x.pending /\ v.gate = x.gate /\ x.writes \subseteq v.writes
      /\ Writable(x, q) => [q |-> q, to |-> x.now, by |-> "page"] \in v.writes
  <2> DEFINE y == StartWrite(x, q, "page")
  <2>1. /\ AskOK(y) /\ y.pending = x.pending /\ y.gate = x.gate /\ x.writes \subseteq y.writes
        /\ Writable(x, q) => [q |-> q, to |-> x.now, by |-> "page"] \in y.writes
    BY <1>2, <1>3, <1>4, <1>5, <1>6, <1>7, <1>8, AnswerOK
  <2> HIDE DEF y
  <2>2. v = y
    BY <1>1 DEF y
  <2> QED BY <2>1, <2>2
<1>10. GateLess(v, q) = v
  BY <1>2, <1>9, SameGate DEF AskOK
<1>11. Writable(u, q) => \E w \in v.writes : w.q = q /\ w.by = "page"
  <2> SUFFICES ASSUME Writable(u, q) PROVE \E w \in v.writes : w.q = q /\ w.by = "page"
    OBVIOUS
  <2>1. Writable(x, q)
    BY <1>2 DEF Writable
  <2> DEFINE w == [q |-> q, to |-> x.now, by |-> "page"]
  <2>2. w \in v.writes /\ w.q = q /\ w.by = "page"
    BY <1>9, <2>1
  <2> QED BY <2>2
<1> QED BY <1>2, <1>9, <1>10, <1>11 DEF v

\* The end of a write.
LEMMA WrittenOK ==
  ASSUME NEW u, AskOK(u), u.pending = u.gate, NEW w \in u.writes, NEW ok \in BOOLEAN
  PROVE LET v == EndWrite(u, w, ok)
        IN /\ AskOK(v) /\ v.pending = v.gate /\ v.gate = u.gate /\ GateLess(v, w.q) = v
           /\ v.writes = u.writes \ {w}
<1> DEFINE l == [q |-> w.q, to |-> w.to]
           n == Append(u.lines, l)
           ls == IF ok THEN n ELSE u.lines
           fs == IF ok THEN u.failed ELSE u.failed \cup {w.q}
           ws == u.writes \ {w}
           v == [u EXCEPT !.writes = ws, !.lines = ls, !.failed = fs]
<1>0. u \in AskBooks /\ OpenAsked(u) /\ AskAges(u) /\ WritesOnce(u) /\ LinesOnce(u) /\ Remembers(u)
  BY DEF AskOK
<1>1. EndWrite(u, w, ok) = v
  BY DEF EndWrite
<1>2. w \in Writes /\ w.q \in Nat /\ w.to \in Nat
  BY <1>0 DEF AskBooks, Writes
<1>3. l \in Lines /\ l.q = w.q /\ l.to = w.to
  BY <1>2 DEF Lines
<1> HIDE DEF l
<1>4. u.lines \in Seq(Lines) /\ u.failed \subseteq Nat
  BY <1>0 DEF AskBooks
<1>5. /\ n \in Seq(Lines) /\ DOMAIN n = DOMAIN u.lines \cup {Len(u.lines) + 1}
      /\ Len(u.lines) + 1 \notin DOMAIN u.lines
      /\ n[Len(u.lines) + 1] = l
      /\ \A i \in DOMAIN u.lines : n[i] = u.lines[i]
  BY <1>3, <1>4
<1> HIDE DEF n
<1>6. ls \in Seq(Lines) /\ fs \subseteq Nat /\ ws \subseteq Writes
  BY <1>0, <1>2, <1>4, <1>5 DEF AskBooks
<1> HIDE DEF ls, fs, ws
<1>7. /\ v \in AskBooks /\ v.gen = u.gen /\ v.now = u.now /\ v.phase = u.phase
      /\ v.pending = u.pending /\ v.gate = u.gate
      /\ v.writes = ws /\ v.lines = ls /\ v.failed = fs
  BY <1>0, <1>6 DEF AskBooks
<1> HIDE DEF v
<1>8. OpenAsked(v) /\ AskAges(v)
  BY <1>0, <1>7 DEF OpenAsked, AskAges
<1>9. WritesOnce(v)
  BY <1>0, <1>7 DEF WritesOnce, ws
<1>10. w.q \in DOMAIN u.gen /\ w.to = u.gen[w.q] /\ w.q \notin u.pending
  BY <1>0 DEF WritesOnce
<1>11. \A x \in ws : x.q # w.q
  BY <1>0 DEF WritesOnce, ws
<1>12. LinesOnce(v)
  <2>1. CASE ok
    <3>1. ls = n
      BY <2>1 DEF ls
    <3>2. \A x \in ws : x \in u.writes
      BY DEF ws
    <3> QED BY <3>1, <3>2, <1>0, <1>3, <1>5, <1>7, <1>10, <1>11 DEF LinesOnce
  <2>2. CASE ~ok
    <3>1. ls = u.lines
      BY <2>2 DEF ls
    <3> QED BY <3>1, <1>0, <1>7 DEF LinesOnce, ws
  <2> QED BY <2>1, <2>2
<1>13. Remembers(v)
  <2> SUFFICES ASSUME v.phase = "running", NEW q \in DOMAIN v.gen, v.gen[q] = v.now PROVE Known(v, q)
    BY DEF Remembers
  <2>1. Known(u, q)
    BY <1>0, <1>7 DEF Remembers
  <2>2. CASE ok
    <3>1. ls = n /\ fs = u.failed
      BY <2>2 DEF ls, fs
    <3>2. \A x \in u.writes : x \in ws \/ x = w
      BY DEF ws
    <3> QED BY <2>1, <3>1, <3>2, <1>3, <1>5, <1>7 DEF Known
  <2>3. CASE ~ok
    <3>1. ls = u.lines /\ fs = u.failed \cup {w.q}
      BY <2>3 DEF ls, fs
    <3>2. \A x \in u.writes : x \in ws \/ x = w
      BY DEF ws
    <3> QED BY <2>1, <3>1, <3>2, <1>7 DEF Known
  <2> QED BY <2>2, <2>3
<1>14. AskOK(v) /\ v.pending = v.gate /\ v.gate = u.gate
  BY <1>7, <1>8, <1>9, <1>12, <1>13 DEF AskOK
<1>15. GateLess(v, w.q) = v
  BY <1>10, <1>14, SameGate DEF AskOK
<1> QED BY <1>1, <1>7, <1>14, <1>15 DEF ws

\* The process comes, is stopped and goes.
LEMMA PhaseOK ==
  ASSUME NEW u, AskOK(u), u.pending = u.gate
  PROVE /\ u.phase = "idle" =>
             LET v == [u EXCEPT !.phase = "running", !.now = @ + 1]
             IN AskOK(v) /\ v.pending = v.gate /\ v.gate = u.gate /\ v.writes = u.writes
        /\ LET v == [u EXCEPT !.phase = "stopping"]
           IN u.phase = "running" => AskOK(v) /\ v.pending = v.gate /\ v.gate = u.gate /\ v.writes = u.writes
        /\ LET p == {}
               v == [u EXCEPT !.phase = "idle", !.pending = p]
           IN AskOK(v) /\ v.pending = {} /\ v.gate = u.gate /\ v.writes = u.writes
<1>0. u \in AskBooks /\ OpenAsked(u) /\ AskAges(u) /\ WritesOnce(u) /\ LinesOnce(u) /\ Remembers(u)
  BY DEF AskOK
<1>1. ASSUME u.phase = "idle"
      PROVE LET v == [u EXCEPT !.phase = "running", !.now = @ + 1]
            IN AskOK(v) /\ v.pending = v.gate /\ v.gate = u.gate /\ v.writes = u.writes
  <2> DEFINE m == u.now + 1
             v == [u EXCEPT !.phase = "running", !.now = m]
  <2>1. m \in Nat /\ u.now \in Nat /\ u.gen \in Seq(Nat)
    BY <1>0 DEF AskBooks
  <2>2. \A q \in DOMAIN u.gen : u.gen[q] <= m /\ u.gen[q] # m
    <3>1. \A q \in DOMAIN u.gen : u.gen[q] <= u.now /\ u.gen[q] \in Nat
      BY <1>0, <2>1 DEF AskAges
    <3> QED BY <2>1, <3>1
  <2> HIDE DEF m
  <2>3. /\ v \in AskBooks /\ v.gen = u.gen /\ v.now = m /\ v.phase = "running"
        /\ v.pending = u.pending /\ v.gate = u.gate
        /\ v.writes = u.writes /\ v.lines = u.lines /\ v.failed = u.failed
    BY <1>0, <2>1 DEF AskBooks
  <2> HIDE DEF v
  <2>4. u.pending = {}
    BY <1>0, <1>1 DEF OpenAsked
  <2>5. OpenAsked(v) /\ AskAges(v)
    BY <1>0, <2>2, <2>3, <2>4 DEF OpenAsked, AskAges
  <2>6. WritesOnce(v) /\ LinesOnce(v)
    BY <1>0, <2>3 DEF WritesOnce, LinesOnce
  <2>7. Remembers(v)
    BY <2>2, <2>3 DEF Remembers
  <2> QED BY <2>3, <2>5, <2>6, <2>7 DEF AskOK, v, m
<1>2. ASSUME u.phase = "running"
      PROVE LET v == [u EXCEPT !.phase = "stopping"]
            IN AskOK(v) /\ v.pending = v.gate /\ v.gate = u.gate /\ v.writes = u.writes
  <2> DEFINE v == [u EXCEPT !.phase = "stopping"]
  <2>1. /\ v \in AskBooks /\ v.gen = u.gen /\ v.now = u.now /\ v.phase = "stopping"
        /\ v.pending = u.pending /\ v.gate = u.gate
        /\ v.writes = u.writes /\ v.lines = u.lines /\ v.failed = u.failed
    BY <1>0 DEF AskBooks
  <2> HIDE DEF v
  <2>2. OpenAsked(v) /\ AskAges(v) /\ Remembers(v)
    BY <1>0, <2>1 DEF OpenAsked, AskAges, Remembers
  <2>3. WritesOnce(v) /\ LinesOnce(v)
    BY <1>0, <2>1 DEF WritesOnce, LinesOnce
  <2> QED BY <2>1, <2>2, <2>3 DEF AskOK, v
<1>3. LET p == {}
          v == [u EXCEPT !.phase = "idle", !.pending = p]
      IN AskOK(v) /\ v.pending = {} /\ v.gate = u.gate /\ v.writes = u.writes
  <2> DEFINE p == {}
             v == [u EXCEPT !.phase = "idle", !.pending = p]
  <2>1. p \in SUBSET Nat /\ p = {}
    OBVIOUS
  <2> HIDE DEF p
  <2>2. /\ v \in AskBooks /\ v.gen = u.gen /\ v.now = u.now /\ v.phase = "idle"
        /\ v.pending = p /\ v.gate = u.gate
        /\ v.writes = u.writes /\ v.lines = u.lines /\ v.failed = u.failed
    BY <1>0, <2>1 DEF AskBooks
  <2> HIDE DEF v
  <2>3. OpenAsked(v) /\ AskAges(v) /\ Remembers(v)
    BY <1>0, <2>1, <2>2 DEF OpenAsked, AskAges, Remembers
  <2>4. WritesOnce(v) /\ LinesOnce(v)
    BY <1>0, <2>1, <2>2 DEF WritesOnce, LinesOnce
  <2> QED BY <2>1, <2>2, <2>3, <2>4 DEF AskOK, v, p
<1> QED
  BY <1>1, <1>2, <1>3

-------------------------------------------------------------------------------
(* What pi and the pages do with the questions *)

LEMMA AskIs ==
  ASSUME NEW h, IsGateway(h), NEW u, AskOK(u), u.gate # {} => h.refs # {}
  PROVE LET k == [h EXCEPT !.ask = u]
        IN /\ IsGateway(k) /\ k.ask = u /\ k.slot = h.slot /\ SameIndex(h, k) /\ k.refs = h.refs
           /\ k.bound = h.bound /\ k.conn = h.conn
<1> DEFINE k == [h EXCEPT !.ask = u]
<1>1. /\ DOMAIN k = DOMAIN h /\ k.slot = h.slot /\ k.log = h.log /\ k.cur = h.cur /\ k.spent = h.spent
      /\ k.refs = h.refs /\ k.bound = h.bound /\ k.pump = h.pump /\ k.ask = u /\ k.conn = h.conn
  BY DEF IsGateway
<1> HIDE DEF k
<1>2. IsGateway(k)
  BY <1>1 DEF IsGateway
<1> QED BY <1>1, <1>2 DEF SameIndex, k

LEMMA AskObserved ==
  ASSUME NEW h, NEW r, NEW n, Observed(h, r, n), NEW u, AskOK(u), u.gate # {} => h.refs # {}
  PROVE LET k == [h EXCEPT !.ask = u] IN Observed(k, r, n) /\ k.ask = u /\ k.slot = h.slot
<1> DEFINE k == [h EXCEPT !.ask = u]
<1>1. /\ IsGateway(k) /\ k.ask = u /\ k.slot = h.slot /\ SameIndex(h, k) /\ k.refs = h.refs
      /\ k.bound = h.bound /\ k.conn = h.conn
  BY AskIs DEF Observed
<1> HIDE DEF k
<1>2. Matched(k)
  BY <1>1 DEF Observed, Held, Matched
<1>3. Held(k, n)
  BY <1>1, <1>2 DEF Observed, Held
<1>4. Current(k) /\ Indexed(k, r)
  BY <1>1 DEF Observed, Current, Indexed, SameIndex, CurRows
<1> QED BY <1>1, <1>3, <1>4 DEF Observed, k

LEMMA AskWatching ==
  ASSUME NEW h, Watching(h), NEW u, AskOK(u), u.pending = u.gate, u.gate # {} => h.refs # {}
  PROVE LET k == [h EXCEPT !.ask = u]
        IN Watching(k) /\ k.ask = u /\ k.slot = h.slot /\ k.conn = h.conn /\ k.refs = h.refs
<1> DEFINE k == [h EXCEPT !.ask = u]
           r == h.slot.rows
<1>1. Observed(h, r, 0)
  BY DEF Watching, Sound, Observed
<1>2. Observed(k, r, 0) /\ k.ask = u /\ k.slot = h.slot
  BY <1>1, AskObserved
<1>4. k.conn = h.conn /\ k.refs = h.refs
  BY AskIs DEF Watching, Sound
<1> HIDE DEF k
<1>3. Sound(k, k.slot.rows, 0)
  BY <1>2 DEF Sound, Observed, Even
<1> QED BY <1>2, <1>3, <1>4 DEF Watching, k

LEMMA AskFrameIs ==
  ASSUME NEW q
  PROVE \A t \in {"ui-closed", "ui-request"} :
          IsFrame(AskFrame(t, q)) /\ AskFrame(t, q).t = t /\ AskFrame(t, q).req = AskId(q)
<1> DEFINE p == << 0, 0 >>
           n == << >>
           a == AskId(q)
           z == [t |-> "none", req |-> p, sub |-> 0, stream |-> 0, barrier |-> 0,
                 from |-> 0, rows |-> n, more |-> FALSE, code |-> 0]
<1>1. \A t : AskFrame(t, q) = [z EXCEPT !.t = t, !.req = a]
  BY DEF AskFrame, NoFrame
<1> HIDE DEF p, n, a
<1>2. \A t : [z EXCEPT !.t = t, !.req = a].t = t /\ [z EXCEPT !.t = t, !.req = a].req = a
  OBVIOUS
<1> HIDE DEF z
<1> QED BY <1>1, <1>2 DEF IsFrame, FrameKinds, a

\* The questions of a book that a page may still answer.
Mine(u) == u.gate \cup {w.q : w \in {v \in u.writes : v.by = "page"}}

LEMMA MineGrows ==
  ASSUME NEW u, NEW v, u.writes \subseteq v.writes, NEW q, u.gate \subseteq v.gate \cup {q}
  PROVE \A i \in Mine(u) : i \in Mine(v) \/ i = q
BY DEF Mine

\* Every page that follows the file is told.
LEMMA BroadcastTells ==
  ASSUME NEW h, NEW k, IsGateway(k), Matched(k), k.conn = h.conn, k.slot.tickets = h.slot.tickets,
         NEW f, IsFrame(f), f.t # "snapshot", f.t = "ui-request" => f.req[2] \in Ans(k),
         \A q \in Ans(h) : q \in Ans(k) \/ (f.t = "ui-closed" /\ f.req = AskId(q))
  PROVE Tells(h, Broadcast(k, f)) /\ Glides(k, Broadcast(k, f))
<1> DEFINE y == Broadcast(k, f)
           A == Ans(h)
           B == Ans(k)
<1>1. SentAll(k, f, Subscribed(k), y)
  BY BroadcastSends
<1>2. Subscribed(k) = k.refs /\ \A c \in Conns : c \in k.refs <=> Follows(k.conn[c])
  BY DEF Subscribed, HasSub, Matched, Follows
<1> HIDE DEF y, A, B
<1>3. Matched(y) /\ (y.ask = k.ask \/ y.refs = {}) /\ y.slot.tickets = k.slot.tickets /\ Glides(k, y)
  <2>1. Glides(k, y)
    BY <1>1 DEF SentAll
  <2>2. Scanned(k, y)
    BY <2>1, GlidesScans
  <2> QED BY <2>1, <2>2 DEF Glides, Loses, Watched, Scanned
<1>4. \A c \in Conns : Numbers(h.conn[c], y.conn[c])
        /\ \A s : s # 0 => HearsOf(h.conn[c], y.conn[c], s, A, B)
  <2> SUFFICES ASSUME NEW c \in Conns
               PROVE  Numbers(h.conn[c], y.conn[c])
                      /\ \A s : s # 0 => HearsOf(h.conn[c], y.conn[c], s, A, B)
    OBVIOUS
  <2> DEFINE x == h.conn[c]
             z == y.conn[c]
  <2>1. IsConn(x) /\ k.conn[c] = x
    BY DEF IsGateway
  <2>2. CASE c \in k.refs
    <3>1. x.open /\ z = EnqueueC(x, f)
      BY <1>1, <1>2, <2>1, <2>2 DEF SentAll, Matched
    <3>2. Says(x, f)
      BY DEF Says
    <3>3. \A q \in A : q \in B \/ (f.t = "ui-closed" /\ f.req = AskId(q) /\ x.open)
      BY <3>1 DEF A, B
    <3>4. f.t = "ui-request" => f.req[2] \in B
      BY DEF B
    <3> HIDE DEF x, z
    <3>5. \A s : HearsOf(x, EnqueueC(x, f), s, A, B) /\ Numbers(x, EnqueueC(x, f))
      BY <2>1, <3>1, <3>2, <3>3, <3>4, EnqueueHears
    <3> QED BY <3>1, <3>5 DEF x, z
  <2>3. CASE c \notin k.refs
    <3>1. z = x /\ SubOf(x) = 0
      BY <1>1, <1>2, <2>1, <2>3 DEF SentAll, SubOf
    <3> HIDE DEF x, z
    <3> QED BY <3>1, ElsewhereHears DEF Numbers, x, z
  <2> QED BY <2>2, <2>3
<1>5. \A c \in Conns : \A s : s # 0 => HearsOf(y.conn[c], y.conn[c], s, B, Ans(y))
  <2>1. CASE y.ask = k.ask
    BY <2>1, MoreHears DEF Ans, B
  <2>2. CASE y.refs = {}
    <3>1. \A c \in Conns : SubOf(y.conn[c]) = 0
      BY <1>3, <2>2 DEF Matched, SubOf
    <3> QED BY <3>1, ElsewhereHears
  <2> QED BY <1>3, <2>1, <2>2
<1>6. HearsOn(h, y)
  BY <1>4, <1>5, HearsOfTwice DEF HearsOn, A
<1>7. \A M : Numbered(h, M) => Numbered(y, M)
  BY <1>3, <1>4 DEF Numbered, Numbers
<1> QED BY <1>3, <1>6, <1>7 DEF Tells, y

LEMMA UiClosedIs ==
  ASSUME NEW h, "ask" \in DOMAIN h, NEW v, NEW q
  PROVE BroadcastUiClosed([h EXCEPT !.ask = v], q)
          = Broadcast([h EXCEPT !.ask = GateLess(v, q)], AskFrame("ui-closed", q))
<1> DEFINE x == [h EXCEPT !.ask = v]
           w == GateLess(v, q)
<1>1. x.ask = v
  OBVIOUS
<1>2. BroadcastUiClosed(x, q) = Broadcast([x EXCEPT !.ask = w], AskFrame("ui-closed", q))
  BY <1>1 DEF BroadcastUiClosed, GateLess
<1>3. [x EXCEPT !.ask = w] = [h EXCEPT !.ask = w]
  <2> HIDE DEF w
  <2> QED OBVIOUS
<1> QED BY <1>2, <1>3

LEMMA UiClosedWatching ==
  ASSUME NEW h, Watching(h), NEW v, NEW q, AskOK(v), v.pending = v.gate, GateLess(v, q) = v,
         v.gate # {} => h.refs # {}, \A i \in Mine(h.ask) : i \in Mine(v) \/ i = q
  PROVE Watching(BroadcastUiClosed([h EXCEPT !.ask = v], q))
        /\ Tells(h, BroadcastUiClosed([h EXCEPT !.ask = v], q))
<1>1. "ask" \in DOMAIN h
  BY DEF Watching, Sound, IsGateway
<1>3. BroadcastUiClosed([h EXCEPT !.ask = v], q) = Broadcast([h EXCEPT !.ask = v], AskFrame("ui-closed", q))
  BY <1>1, UiClosedIs
<1> DEFINE k == [h EXCEPT !.ask = v]
           f == AskFrame("ui-closed", q)
           y == Broadcast(k, f)
<1>2. Watching(k) /\ k.ask = v /\ k.slot = h.slot /\ k.conn = h.conn /\ k.refs = h.refs
  BY AskWatching
<1>4. IsFrame(f) /\ f.t = "ui-closed" /\ f.req = AskId(q)
  BY AskFrameIs
<1> HIDE DEF k, f
<1>5. \A i \in Ans(h) : i \in Ans(k) \/ (f.t = "ui-closed" /\ f.req = AskId(i))
  BY <1>2, <1>4 DEF Ans, Mine
<1>6. IsGateway(k) /\ Matched(k) /\ k.slot.tickets = h.slot.tickets /\ f.t # "snapshot" /\ f.t # "ui-request"
  BY <1>2, <1>4 DEF Watching, Sound, Held
<1>7. Tells(h, y) /\ Glides(k, y)
  BY <1>2, <1>4, <1>5, <1>6, BroadcastTells
<1>8. Watching(y)
  BY <1>2, <1>7, GlidesKeepWatching
<1> QED BY <1>3, <1>7, <1>8 DEF k, f

LEMMA WatchingAsk ==
  ASSUME NEW h, Watching(h)
  PROVE /\ AskOK(h.ask) /\ h.ask.pending = h.ask.gate /\ (h.ask.gate # {} => h.refs # {})
        /\ IsGateway(h) /\ "ask" \in DOMAIN h
BY DEF Watching, Sound, IsGateway, Even

LEMMA HandleUiRequestWatching ==
  ASSUME NEW h, Watching(h), h.ask.phase # "idle"
  PROVE Watching(HandleUiRequest(h)) /\ Tells(h, HandleUiRequest(h))
<1> DEFINE u == h.ask
           q == NextQ(u)
           x == Asked(u)
           p == [x EXCEPT !.pending = @ \cup {q}]
           s == StartWrite(x, q, "overflow")
           t == StartWrite(x, q, "host")
           b == [x EXCEPT !.pending = @ \cup {q}, !.gate = @ \cup {q}]
           z == HandleUiRequest(h)
<1>1. /\ AskOK(u) /\ u.pending = u.gate /\ (u.gate # {} => h.refs # {}) /\ IsGateway(h)
      /\ "ask" \in DOMAIN h /\ u.phase # "idle" /\ u \in AskBooks
  BY WatchingAsk DEF AskOK
<1>2. z = IF Full(u) THEN BroadcastUiClosed([h EXCEPT !.ask = s], q)
          ELSE BroadcastUiRequest([h EXCEPT !.ask = p], q)
  BY DEF HandleUiRequest, NextQ
<1> HIDE DEF u, z
<1>3. "overflow" \in Writers /\ "host" \in Writers
  BY DEF Writers
<1>4. AskOK(s) /\ s.pending = s.gate /\ s.gate = u.gate /\ GateLess(s, q) = s /\ u.writes \subseteq s.writes
  BY <1>1, <1>3, AskedOK
<1>5. AskOK(t) /\ t.pending = t.gate /\ t.gate = u.gate /\ GateLess(t, q) = t /\ u.writes \subseteq t.writes
  BY <1>1, <1>3, AskedOK
<1>6. AskOK(b) /\ b.pending = b.gate /\ b.gate = u.gate \cup {q} /\ b.writes = u.writes
  BY <1>1, OpenedOK
<1>7. /\ x \in AskBooks /\ q \in Nat /\ q \notin DOMAIN u.gen /\ DOMAIN x.gen = DOMAIN u.gen \cup {q}
      /\ x.gen[q] = u.now /\ \A i \in DOMAIN u.gen : x.gen[i] = u.gen[i]
      /\ x.now = u.now /\ x.phase = u.phase /\ x.pending = u.pending /\ x.gate = u.gate
      /\ x.writes = u.writes /\ x.lines = u.lines /\ x.failed = u.failed
  BY <1>1, AskedFields
<1>8. q \notin u.pending
  BY <1>1, <1>7 DEF AskOK, OpenAsked
<1>11. \A v, i : u.writes \subseteq v.writes /\ v.gate = u.gate => \A j \in Mine(h.ask) : j \in Mine(v) \/ j = i
  BY MineGrows DEF u
<1>9. CASE Full(u)
  <2> HIDE DEF s, q
  <2> DEFINE y == BroadcastUiClosed([h EXCEPT !.ask = s], q)
  <2>2. \A j \in Mine(h.ask) : j \in Mine(s) \/ j = q
    BY <1>4, <1>11
  <2>1. Watching(y) /\ Tells(h, y)
    BY <1>1, <1>4, <2>2, UiClosedWatching
  <2> QED BY <1>2, <1>9, <2>1 DEF z
<1>10. CASE ~Full(u)
  <2> DEFINE w == [h EXCEPT !.ask = p]
  <2>1. w.ask = p /\ w.refs = h.refs /\ w.conn = h.conn
    BY <1>1 DEF IsGateway
  <2>2. p.pending = u.pending \cup {q} /\ p.gate = u.gate
    BY <1>7 DEF AskBooks
  <2>3. z = IF \A c \in h.refs : ~HasSub(h, c)
            THEN BroadcastUiClosed([w EXCEPT !.ask = AnswerUi(p, q, "host")], q)
            ELSE Broadcast([w EXCEPT !.ask = [p EXCEPT !.gate = @ \cup {q}]], AskFrame("ui-request", q))
    <3> HIDE DEF w, p, q
    <3> QED BY <1>2, <1>10, <2>1 DEF BroadcastUiRequest, HasSub, w
  <2>4. CASE \A c \in h.refs : ~HasSub(h, c)
    <3>1. AnswerUi(p, q, "host") = t
      <4>1. (u.pending \cup {q}) \ {q} = u.pending
        BY <1>8
      <4>2. [p EXCEPT !.pending = @ \ {q}] = x
        <5>1. p = [x EXCEPT !.pending = u.pending \cup {q}]
          BY <1>7
        <5>2. [p EXCEPT !.pending = @ \ {q}] = [x EXCEPT !.pending = u.pending]
          BY <5>1, <2>2, <4>1, <1>7 DEF AskBooks
        <5>3. [x EXCEPT !.pending = u.pending] = x
          BY <1>7 DEF AskBooks
        <5> QED BY <5>2, <5>3
      <4> QED BY <2>2, <4>2 DEF AnswerUi
    <3> HIDE DEF t, p, q
    <3>2. [w EXCEPT !.ask = t] = [h EXCEPT !.ask = t]
      OBVIOUS
    <3> DEFINE y == BroadcastUiClosed([h EXCEPT !.ask = t], q)
    <3>4. \A j \in Mine(h.ask) : j \in Mine(t) \/ j = q
      BY <1>5, <1>11
    <3>3. Watching(y) /\ Tells(h, y)
      BY <1>1, <1>5, <3>4, UiClosedWatching
    <3> QED BY <2>3, <2>4, <3>1, <3>2, <3>3 DEF z
  <2>5. CASE ~ \A c \in h.refs : ~HasSub(h, c)
    <3>1. [p EXCEPT !.gate = @ \cup {q}] = b
      BY <1>7 DEF AskBooks
    <3> HIDE DEF b, p, q
    <3>2. [w EXCEPT !.ask = b] = [h EXCEPT !.ask = b]
      OBVIOUS
    <3>3. h.refs # {}
      BY <2>5
    <3> DEFINE k == [h EXCEPT !.ask = b]
               f == AskFrame("ui-request", q)
               y == Broadcast(k, f)
    <3>4. Watching(k) /\ k.ask = b /\ k.slot = h.slot /\ k.conn = h.conn /\ k.refs = h.refs
      BY <1>6, <3>3, AskWatching
    <3>6. IsFrame(f) /\ f.t = "ui-request" /\ f.req = AskId(q)
      BY AskFrameIs
    <3>7. z = y
      BY <2>3, <2>5, <3>1, <3>2
    <3> HIDE DEF k, f
    <3>8. f.req[2] = q
      BY <3>6 DEF AskId
    <3>9. q \in Ans(k) /\ \A i \in Ans(h) : i \in Ans(k)
      BY <1>6, <3>4 DEF Ans, u
    <3>10. IsGateway(k) /\ Matched(k) /\ k.slot.tickets = h.slot.tickets
      BY <3>4 DEF Watching, Sound, Held
    <3>11. Tells(h, y) /\ Glides(k, y)
      <4>1. f.t # "snapshot" /\ (f.t = "ui-request" => f.req[2] \in Ans(k))
        BY <3>6, <3>8, <3>9
      <4> QED BY <3>4, <3>6, <3>9, <3>10, <4>1, BroadcastTells
    <3>12. Watching(y)
      BY <3>4, <3>11, GlidesKeepWatching
    <3> HIDE DEF y
    <3> QED BY <3>7, <3>11, <3>12 DEF z
  <2> QED BY <2>4, <2>5
<1> QED BY <1>9, <1>10

LEMMA HandleUiAnswerWatching ==
  ASSUME NEW h, Watching(h), NEW c \in Conns, NEW q, NEW fits
  PROVE Watching(HandleUiAnswer(h, c, q, fits)) /\ Tells(h, HandleUiAnswer(h, c, q, fits))
<1> DEFINE u == h.ask
           v == AnswerUi(GateLess(u, q), q, "page")
           t == [h EXCEPT !.ask = v]
           z == HandleUiAnswer(h, c, q, fits)
<1>1. /\ AskOK(u) /\ u.pending = u.gate /\ (u.gate # {} => h.refs # {}) /\ IsGateway(h)
      /\ "ask" \in DOMAIN h
  BY WatchingAsk
<1>2. z = IF q \notin u.gate \/ ~HasSub(h, c) \/ ~fits THEN Refuse(h, c, 4404, AskId(q))
          ELSE IF Writable(u, q) THEN t ELSE BroadcastUiClosed(t, q)
  BY DEF HandleUiAnswer, GateLess
<1> HIDE DEF z, u
<1>3. CASE q \notin u.gate \/ ~HasSub(h, c) \/ ~fits
  <2>1. z = Refuse(h, c, 4404, AskId(q))
    BY <1>2, <1>3
  <2> QED BY <2>1, RefuseWatching DEF z
<1>4. CASE ~(q \notin u.gate \/ ~HasSub(h, c) \/ ~fits)
  <2> DEFINE y == BroadcastUiClosed(t, q)
  <2>1. /\ AskOK(v) /\ v.pending = v.gate /\ v.gate = u.gate \ {q} /\ GateLess(v, q) = v
        /\ u.writes \subseteq v.writes
        /\ Writable(u, q) => \E w \in v.writes : w.q = q /\ w.by = "page"
    BY <1>1, <1>4, AnsweredOK
  <2> HIDE DEF v
  <2>2. v.gate # {} => h.refs # {}
    BY <1>1, <2>1
  <2>3. Watching(t) /\ t.ask = v /\ t.slot = h.slot /\ t.conn = h.conn
    BY <2>1, <2>2, AskWatching
  <2>5. \A i \in Mine(u) : i \in Mine(v) \/ i = q
    BY <2>1, MineGrows
  <2>4. Watching(y) /\ Tells(h, y)
    BY <2>1, <2>2, <2>5, UiClosedWatching DEF u
  <2> HIDE DEF t, y
  <2>6. Writable(u, q) => Tells(h, t)
    <3> SUFFICES ASSUME Writable(u, q) PROVE Tells(h, t)
      OBVIOUS
    <3>1. q \in Mine(v)
      BY <2>1 DEF Mine
    <3>2. Ans(h) \subseteq Ans(t)
      BY <2>3, <2>5, <3>1 DEF Ans, Mine, u
    <3> QED BY <2>3, <3>2, MoreTells
  <2>7. z = IF Writable(u, q) THEN t ELSE y
    BY <1>2, <1>4 DEF t, y
  <2> QED BY <2>3, <2>4, <2>6, <2>7 DEF z
<1> QED BY <1>3, <1>4

LEMMA AnswerWrittenWatching ==
  ASSUME NEW h, Watching(h), NEW w \in h.ask.writes, NEW ok \in BOOLEAN
  PROVE Watching(AnswerWritten(h, w, ok)) /\ Tells(h, AnswerWritten(h, w, ok))
<1> DEFINE u == h.ask
           v == EndWrite(u, w, ok)
           q == w.q
           t == [h EXCEPT !.ask = v]
           z == AnswerWritten(h, w, ok)
<1>1. /\ AskOK(u) /\ u.pending = u.gate /\ (u.gate # {} => h.refs # {}) /\ IsGateway(h)
      /\ "ask" \in DOMAIN h /\ w \in u.writes
  BY WatchingAsk
<1>2. z = IF w.by = "page" \/ (w.by = "host" /\ ~ok) THEN BroadcastUiClosed(t, q) ELSE t
  BY DEF AnswerWritten
<1> HIDE DEF z, u
<1>3. AskOK(v) /\ v.pending = v.gate /\ v.gate = u.gate /\ GateLess(v, q) = v
      /\ v.writes = u.writes \ {w}
  BY <1>1, WrittenOK
<1>6. /\ \A i \in Mine(u) : i \in Mine(v) \/ i = q
      /\ w.by # "page" => Mine(u) \subseteq Mine(v)
  BY <1>1, <1>3 DEF Mine
<1> HIDE DEF v, q
<1> DEFINE y == BroadcastUiClosed(t, q)
<1>4. v.gate # {} => h.refs # {}
  BY <1>1, <1>3
<1>5. Watching(t) /\ t.ask = v /\ t.slot = h.slot /\ t.conn = h.conn
  BY <1>3, <1>4, AskWatching
<1>7. Watching(y) /\ Tells(h, y)
  BY <1>3, <1>4, <1>6, UiClosedWatching DEF u
<1> HIDE DEF t, y
<1>8. w.by # "page" => Tells(h, t)
  <2> SUFFICES ASSUME w.by # "page" PROVE Tells(h, t)
    OBVIOUS
  <2>1. Ans(h) \subseteq Ans(t)
    BY <1>5, <1>6 DEF Ans, Mine, u
  <2> QED BY <1>5, <2>1, MoreTells
<1>9. z = IF w.by = "page" \/ (w.by = "host" /\ ~ok) THEN y ELSE t
  BY <1>2 DEF t, y
<1> QED BY <1>5, <1>7, <1>8, <1>9 DEF z

-------------------------------------------------------------------------------
(* The process ends *)

\* The questions of T are withdrawn; pi is told of none.
Shutting(h, T, k) ==
  /\ Observed(k, k.slot.rows, 0) /\ Ticks(k.slot)
  /\ k.ask.pending = {} /\ k.ask.gate \subseteq h.ask.gate \ T
  /\ Tells(h, k)
Shuts == INSTANCE FoldRules WITH
  op <- LAMBDA ctx, q, acc : BroadcastUiClosed(acc, q),
  P <- LAMBDA h, ctx, T, acc : Shutting(h, T, acc)
ShutEach(h, S) == FoldSet(LAMBDA q, acc : BroadcastUiClosed(acc, q), h, S)

LEMMA GateLessOK ==
  ASSUME NEW u, AskOK(u), u.pending = {}, NEW q
  PROVE LET v == GateLess(u, q) IN AskOK(v) /\ v.pending = {} /\ v.gate = u.gate \ {q} /\ v.writes = u.writes
<1> DEFINE gt == u.gate \ {q}
           v == [u EXCEPT !.gate = gt]
<1>0. u \in AskBooks /\ OpenAsked(u) /\ AskAges(u) /\ WritesOnce(u) /\ LinesOnce(u) /\ Remembers(u)
  BY DEF AskOK
<1>1. GateLess(u, q) = v
  BY DEF GateLess
<1>2. gt \subseteq Nat /\ gt \subseteq u.gate
  BY <1>0 DEF AskBooks
<1>3. gt = u.gate \ {q}
  OBVIOUS
<1> HIDE DEF gt
<1>4. /\ v \in AskBooks /\ v.gen = u.gen /\ v.now = u.now /\ v.phase = u.phase
      /\ v.pending = u.pending /\ v.gate = gt
      /\ v.writes = u.writes /\ v.lines = u.lines /\ v.failed = u.failed
  BY <1>0, <1>2 DEF AskBooks
<1> HIDE DEF v
<1>5. OpenAsked(v) /\ AskAges(v)
  BY <1>0, <1>2, <1>4 DEF OpenAsked, AskAges
<1>6. WritesOnce(v) /\ LinesOnce(v)
  BY <1>0, <1>4 DEF WritesOnce, LinesOnce
<1>7. Remembers(v)
  BY <1>0, <1>4 DEF Remembers, Known
<1> QED BY <1>1, <1>3, <1>4, <1>5, <1>6, <1>7 DEF AskOK

LEMMA ShutStep ==
  ASSUME NEW h, NEW T, NEW k, Shutting(h, T, k), NEW q
  PROVE Shutting(h, T \cup {q}, BroadcastUiClosed(k, q))
<1> DEFINE u == k.ask
           v == GateLess(u, q)
           r == k.slot.rows
           x == [k EXCEPT !.ask = v]
           y == Broadcast(x, AskFrame("ui-closed", q))
<1>1. Observed(k, r, 0) /\ AskOK(u) /\ u.pending = {} /\ "ask" \in DOMAIN k
      /\ (u.gate # {} => k.refs # {}) /\ u.gate \subseteq h.ask.gate \ T /\ Ticks(k.slot)
  BY DEF Shutting, Observed, IsGateway
<1>2. BroadcastUiClosed(k, q) = y
  BY DEF BroadcastUiClosed, GateLess
<1>3. AskOK(v) /\ v.pending = {} /\ v.gate = u.gate \ {q} /\ v.writes = u.writes
  BY <1>1, GateLessOK
<1>11. \A i \in Mine(u) : i \in Mine(v) \/ i = q
  BY <1>3, MineGrows
<1> HIDE DEF v, u, r
<1>4. v.gate # {} => k.refs # {}
  BY <1>1, <1>3
<1>5. Observed(x, r, 0) /\ x.ask = v /\ x.slot = k.slot /\ x.conn = k.conn
  <2>1. x.conn = k.conn
    BY <1>3, <1>4, AskIs DEF Shutting, Observed
  <2> QED BY <1>1, <1>3, <1>4, <2>1, AskObserved
<1> HIDE DEF x
<1>6. Tells(k, y) /\ Glides(x, y)
  <2> DEFINE f == AskFrame("ui-closed", q)
  <2>1. IsFrame(f) /\ f.t = "ui-closed" /\ f.req = AskId(q)
    BY AskFrameIs
  <2> HIDE DEF f
  <2>2. \A i \in Ans(k) : i \in Ans(x) \/ (f.t = "ui-closed" /\ f.req = AskId(i))
    BY <1>5, <1>11, <2>1 DEF Ans, Mine, u
  <2>3. IsGateway(x) /\ Matched(x) /\ x.slot.tickets = k.slot.tickets /\ f.t # "snapshot" /\ f.t # "ui-request"
    BY <1>5, <2>1 DEF Observed, Held
  <2> QED BY <1>5, <2>1, <2>2, <2>3, BroadcastTells DEF f
<1> HIDE DEF y
<1>12. Tells(h, y)
  BY <1>6, TellsTwice DEF Shutting
<1>7. Observed(y, r, 0) /\ Scanned(x, y) /\ (y.ask = x.ask \/ y.ask = GivenUp(x.ask))
  <2>1. 0 \in Nat
    OBVIOUS
  <2> QED BY <1>5, <1>6, <2>1, GlidesObserved
<1>8. y.ask.pending = {} /\ y.ask.gate \subseteq v.gate
  <2>1. v \in AskBooks /\ OpenAsked(v)
    BY <1>3 DEF AskOK
  <2>2. GivenUp(v).pending = {} /\ GivenUp(v).gate = {}
    BY <2>1, GivenUpFields
  <2> QED BY <1>3, <1>5, <1>7, <2>2
<1>9. Ticks(y.slot)
  BY <1>1, <1>5, <1>7 DEF Scanned, Ticks
<1>10. Observed(y, y.slot.rows, 0)
  <2>1. CASE y.slot.active
    BY <2>1, <1>5, <1>7 DEF Scanned, r
  <2>2. CASE ~y.slot.active
    BY <2>2, <1>7 DEF Observed, Held, Indexed
  <2> QED BY <2>1, <2>2
<1> QED BY <1>1, <1>2, <1>3, <1>8, <1>9, <1>10, <1>12 DEF Shutting

LEMMA CloseUiWatching ==
  ASSUME NEW h, Watching(h), IsFiniteSet(h.ask.gate)
  PROVE LET z == CloseUiForGeneration([h EXCEPT !.ask.phase = "idle"])
        IN Watching(z) /\ Tells(h, z)
<1> DEFINE u == h.ask
           p == {}
           v == [u EXCEPT !.phase = "idle", !.pending = p]
           x == [h EXCEPT !.ask = v]
           S == u.gate
           z == CloseUiForGeneration([h EXCEPT !.ask.phase = "idle"])
           y == ShutEach(x, S)
<1>1. /\ AskOK(u) /\ u.pending = u.gate /\ (u.gate # {} => h.refs # {}) /\ IsGateway(h)
      /\ "ask" \in DOMAIN h /\ u \in AskBooks /\ OpenAsked(u)
  BY WatchingAsk DEF AskOK
<1>2. z = y
  <2> DEFINE i == [u EXCEPT !.phase = "idle"]
             w == [h EXCEPT !.ask = i]
             mine == {q \in i.pending : i.gen[q] = i.now}
  <2>1. w = [h EXCEPT !.ask.phase = "idle"] /\ w.ask = i
    BY <1>1
  <2>2. z = ShutEach([w EXCEPT !.ask = [i EXCEPT !.pending = @ \ mine]], mine)
    BY <2>1 DEF CloseUiForGeneration, ShutEach
  <2>3. i.pending = u.pending /\ i.gen = u.gen /\ i.now = u.now
    BY <1>1 DEF AskBooks
  <2>4. mine = S
    BY <1>1, <2>3 DEF OpenAsked
  <2> HIDE DEF mine, z
  <2>5. i.pending \ mine = p
    BY <1>1, <2>3, <2>4
  <2>6. [i EXCEPT !.pending = @ \ mine] = v
    <3>1. [i EXCEPT !.pending = @ \ mine] = [i EXCEPT !.pending = p]
      BY <2>5
    <3> HIDE DEF p
    <3> QED BY <3>1
  <2> HIDE DEF i, v
  <2>7. [w EXCEPT !.ask = v] = x
    OBVIOUS
  <2> QED BY <2>2, <2>4, <2>6, <2>7
<1>3. AskOK(v) /\ v.pending = {} /\ v.gate = u.gate /\ v.writes = u.writes
  BY <1>1, PhaseOK
<1> HIDE DEF v, p, u, z
<1> DEFINE r == h.slot.rows
<1>4. Observed(h, r, 0) /\ Ticks(h.slot)
  BY DEF Watching, Sound, Observed
<1> HIDE DEF r
<1>5. Observed(x, r, 0) /\ x.ask = v /\ x.slot = h.slot /\ x.conn = h.conn
  <2>1. x.conn = h.conn
    BY <1>1, <1>3, AskIs DEF u
  <2> QED BY <1>1, <1>3, <1>4, <2>1, AskObserved DEF u
<1> HIDE DEF x
<1>14. Tells(h, x)
  <2>1. Ans(h) \subseteq Ans(x)
    BY <1>3, <1>5 DEF Ans, u
  <2> QED BY <1>5, <2>1, MoreTells
<1>6. Shutting(x, {}, x)
  BY <1>3, <1>4, <1>5, TellsSelf DEF Shutting, r
<1>7. \A fam \in SUBSET SUBSET S : fam # {} => \E low \in fam : \A any \in fam : any \subseteq low => any = low
  BY SubsetsFounded DEF u
<1>8. \A T \in SUBSET S : \A q \in S \ T : \A acc : Shutting(x, T, acc) => Shutting(x, T \cup {q}, BroadcastUiClosed(acc, q))
  BY ShutStep
<1>9. y = Shuts!Over(0, x, S)
  BY DEF ShutEach, Shuts!Over, Shuts!Some, FoldSet, MapThenFoldSet
<1>10. x.ask.gate = S
  BY <1>3, <1>5
<1> HIDE DEF S, y
<1>11. Shutting(x, S, Shuts!Over(0, x, S))
  BY <1>6, <1>7, <1>8, Shuts!FoldSetRule
<1>12. Shutting(x, S, y)
  BY <1>9, <1>11
<1>13. y.ask.pending = y.ask.gate
  BY <1>10, <1>12 DEF Shutting
<1>15. Tells(h, y)
  BY <1>12, <1>14, TellsTwice DEF Shutting
<1> QED BY <1>2, <1>12, <1>13, <1>15 DEF z, Watching, Sound, Observed, Even, Shutting
================================================================================
