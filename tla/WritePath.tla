------------------------------- MODULE WritePath -------------------------------
(***************************************************************************)
(* Pages that list, prompt, stop and resume sessions through the gateway:  *)
(* the clients of WriteClient and ListClient, the connections of           *)
(* ws-gateway.ts with their authentication (apps/server/src/ws/            *)
(* token-auth.ts), and WriteHost.                                          *)
(*                                                                         *)
(* Connections that belong to no page are open and authenticated from the  *)
(* start, send raw frames and read nothing.  A wire keeps its order; the   *)
(* end of a connection is its last message, in each direction.  The send   *)
(* queue of a connection is in HistoryGateway.                             *)
(***************************************************************************)
EXTENDS WriteHost, WriteClient, FrameCheck

CONSTANTS
  Frail,        \* bound: connections that may break, expire or be closed
  Tokens,       \* tokens the file may hold
  TokenOf,      \* the token each connection presents
  InflightMax,  \* LIMITS.inFlightRequestsPerConn
  StrikeMax,    \* 4404 errors that close a connection
  Listings,     \* bound: what the session directory may hold, as it is listed
  FirstListing, \* what it held when the lists that are shown were made
  MaxAsked,     \* bound: requests of a scenario
  MaxLists,     \* bound: list requests of a page
  Scenarios,    \* bound: who has yet to connect, and which requests are made, in any order
  MaxFaults     \* bound: crashes, cuts, timeouts and changes of the world

\* The requests of a page and of a list; others send frames that are only checked.
PageWishes == {"prompt", "stop", "resume"}
ListWishes == {"refresh", "more", "models", "roots"}
RawCode(f) == CheckFrame(f, TRUE)
ASSUME WritePathAssumption ==
  /\ Frail \subseteq Pages \cup Listers /\ TokenOf \in [Conns -> Tokens]
  /\ InflightMax \in Nat \ {0} /\ StrikeMax \in Nat \ {0}
  /\ FirstListing \in Listings /\ \A c, d \in Listers : c = d
  /\ MaxAsked \in Nat /\ MaxLists \in Nat /\ MaxFaults \in Nat
  /\ \A l \in Listings : l \in Seq(ToSet(l))
  /\ \A s \in Scenarios :
       /\ s.late \subseteq Pages \cup Listers /\ DOMAIN s.wishes \subseteq 1 .. MaxAsked
       /\ \A i \in DOMAIN s.wishes :
            LET w == s.wishes[i]
            IN /\ w.by \in Conns
               /\ w.by \in Pages => w.kind \in PageWishes /\ w.file \in Files /\ w.n \in Nat
               /\ w.by \in Listers => w.kind \in ListWishes
               /\ w.by \notin Heard =>
                    w.kind = "raw" /\ (RawCode(w.frame) # 0 \/ w.frame.t = "ping")

\* The pages' own frames pass the checks, whoever made them.
Passes(t, keys) == RawCode(RawFrame("json", t, keys, {}, 1)) = 0
ASSUME PagesSpeakTheProtocol ==
  /\ Passes("hello", {"protocolVersion", "token"})
  /\ Passes("list-sessions", {"requestId"}) /\ Passes("list-sessions", {"requestId", "offset"})
  /\ Passes("get-models", {"requestId"}) /\ Passes("get-roots", {"requestId"})
  /\ Passes("stop", {"requestId", "file"}) /\ Passes("prompt", {"requestId", "file", "text"})
  /\ Passes("resume", {"requestId", "file", "intentId", "generation"})

VARIABLES
  g,       \* the server: see WriteHost; g.conn[c] is its side of connection c
  cli,     \* cli[c]: the client of c
  up,      \* up[c]: what c sent and the server has not read
  linked,  \* connections whose socket is open
  wishes,  \* the requests that may be made, each once
  asked,   \* those that were made
  faults   \* how much has gone wrong

vars == << g, cli, up, linked, wishes, asked, faults >>

Lists == INSTANCE ListClient

Message(t, id, kind, file, n) == [t |-> t, id |-> id, kind |-> kind, file |-> file, n |-> n]
Request(id, kind, file, n) == Message("request", id, kind, file, n)
Raw(f) == [t |-> "raw", frame |-> f]
Hello == Message("hello", NoId, "none", "none", 0)
Bye == Message("bye", NoId, "none", "none", 0)
ErrorTo(code) == Frame("error", NoId, "none", "none", code, "none")
CloseTo(code) == Frame("close", NoId, "none", "none", code, "none")
Ids == ({"write"} \X (1 .. MaxAsked)) \cup ({"list", "models"} \X (1 .. MaxLists))

FreshConn(here) == [open |-> here, authed |-> here, inflight |-> {}, strikes |-> 0, wire |-> << >>]
\* A page that is there from the start has said hello; a list has its first page.
ReadyClient(c) ==
  IF c \in Pages THEN [FreshClient EXCEPT !.conn = "ready"]
  ELSE LET n == IF PageSize < Len(FirstListing) THEN PageSize ELSE Len(FirstListing)
       IN [Lists!FreshLister EXCEPT !.conn = "ready", !.version = 1, !.next = n,
             !.sessions = ToSet(SubSeq(FirstListing, 1, n)), !.more = n < Len(FirstListing)]
LateClient(c) == IF c \in Pages THEN FreshClient ELSE Lists!FreshLister
Init ==
  \E s \in Scenarios :
    /\ g = [conn |-> [c \in Conns |-> FreshConn(c \notin s.late)], task |-> << >>,
            gate |-> FreshGate, read |-> << >>, host |-> [f \in Roots |-> FreshSession],
            disk |-> [f \in Roots |-> "listed"], dir |-> FirstListing,
            versions |-> << FirstListing >>, launched |-> {}, disposed |-> FALSE,
            tokens |-> Tokens]
    /\ cli = [c \in Heard |-> IF c \in s.late THEN LateClient(c) ELSE ReadyClient(c)]
    /\ up = [c \in Conns |-> << >>]
    /\ linked = Conns \ s.late
    /\ wishes = s.wishes
    /\ asked = {}
    /\ faults = 0

-------------------------------------------------------------------------------
(* Connections *)

QueuedList(t, i) == t.task[i].kind = "list" /\ t.task[i].at = "queued"
\* closeConn() and transportClosedInternal(), of each open connection in C: it is
\* told `last', and what only waits is given up.
CloseConns(t, C, last) ==
  LET out   == {c \in C : t.conn[c].open}
      lists == {i \in DOMAIN t.task : t.task[i].by \in out /\ QueuedList(t, i)}
      files == {f \in DOMAIN t.read : t.read[f].by \in out /\ t.read[f].at = "queued"}
      Closed(u, c) == [u EXCEPT !.open = FALSE, !.inflight = @ \ lists,
                                !.wire = IF c \in Heard THEN @ \o last ELSE @]
      left  == [t EXCEPT !.task = Restrict(@, DOMAIN @ \ lists),
                         !.conn = [c \in Conns |-> IF c \in out THEN Closed(@[c], c) ELSE @[c]]]
  IN DropReads(Withdraw(left, {ListSlot(i) : i \in lists}), files)
CloseConn(t, c, last) == CloseConns(t, {c}, last)
CloseWith(t, c, code) == CloseConn(t, c, << CloseTo(code) >>)
Expelled == << ErrorTo(4401), CloseTo(1008) >>
Expel(t, c) == CloseConn(t, c, Expelled)

\* errFrame() with code 4404: the last strike ends the connection.
Strike(t, c, id, kind, file) ==
  LET told == Sent(t, c, Frame("error", id, kind, file, 4404, "none"))
      n    == t.conn[c].strikes + 1
      hit  == [told EXCEPT !.conn[c].strikes = n]
  IN IF n >= StrikeMax THEN CloseWith(hit, c, 1002) ELSE hit
StrikeMessage(t, c, m) == Strike(t, c, m.id, m.kind, m.file)
\* errFrame() with any code that a check returns.
ErrFrame(t, c, code) ==
  CASE code = 4401 -> Expel(t, c)
    [] code = 4403 -> CloseWith(Sent(t, c, ErrorTo(4403)), c, 1003)
    [] code = 4404 -> Strike(t, c, NoId, "none", "none")
    [] code = 4405 -> CloseWith(Sent(t, c, ErrorTo(4405)), c, 1008)

\* handleHello()
HandleHello(t, c) ==
  IF t.conn[c].authed THEN ErrFrame(t, c, 4404)
  ELSE IF TokenOf[c] \notin t.tokens THEN Expel(t, c)
  ELSE Sent([t EXCEPT !.conn[c].authed = TRUE], c, Frame("welcome", NoId, "none", "none", 0, "none"))

\* The handlers of the request kinds, up to their first await.
Dispatch(t, m) ==
  CASE m.kind = "list" -> Acquire(At(t, m.id, "queued"), ListSlot(m.id))
    [] m.kind = "models" -> At(t, m.id, "asking")
    [] m.kind = "roots" -> Forget(Told(t, m.id, "roots-list", 0, "ok"), m.id)
    [] m.kind = "resume" -> ReadOnce(t, m.id)
    [] m.kind = "prompt" -> SessionOf(t, m.id)
    [] m.kind = "stop" -> StopCall(t, m.id)
HandleRequest(t, c, m) ==
  LET admitted == [WithTask(t, m.id, Task(c, m)) EXCEPT !.conn[c].inflight = @ \cup {m.id}]
      outside  == m.kind \in PageWishes /\ m.file \notin Roots
      full     == m.id \in t.conn[c].inflight \/ Cardinality(t.conn[c].inflight) >= InflightMax
  IN IF full THEN StrikeMessage(t, c, m)
     ELSE IF outside THEN Forget(StrikeMessage(admitted, c, m), m.id)
     ELSE Dispatch(admitted, m)

\* inbound() and the end of the transport.
Inbound(t, c, m) ==
  IF m.t = "bye" THEN CloseConn(t, c, << >>)
  ELSE IF ~t.conn[c].open \/ t.disposed THEN t
  ELSE IF m.t = "raw"
  THEN LET code == CheckFrame(m.frame, t.conn[c].authed)
       IN IF code = 0 THEN t ELSE ErrFrame(t, c, code)
  ELSE IF m.t = "hello" THEN HandleHello(t, c)
  ELSE IF ~t.conn[c].authed THEN Expel(t, c)
  ELSE HandleRequest(t, c, m)

-------------------------------------------------------------------------------
(* Tokens *)

\* applyTokenReload(): whoever holds a token that is no longer listed goes.
Reloaded(t, listed) ==
  LET out == {c \in Conns : t.conn[c].open /\ t.conn[c].authed /\ TokenOf[c] \in t.tokens \ listed}
  IN CloseConns([t EXCEPT !.tokens = listed], out, Expelled)

-------------------------------------------------------------------------------
(* Steps of the server *)

Serve(next) == g' = next /\ UNCHANGED << cli, up, linked, wishes, asked, faults >>
Running(i, at) == i \in DOMAIN g.task /\ g.task[i].at = at

Receive(c) ==
  /\ up[c] # << >>
  /\ g' = Inbound(g, c, Head(up[c]))
  /\ up' = [up EXCEPT ![c] = Tail(@)]
  /\ UNCHANGED << cli, linked, wishes, asked, faults >>

\* The disk read ends; a reader that was cancelled may have given up.
ReadEnds(f) ==
  /\ f \in DOMAIN g.read
  /\ g.read[f].at = "reading"
  /\ \E res \in {g.read[f].snap} \cup (IF g.conn[g.read[f].by].open THEN {} ELSE {"refused"}) :
       Serve(FinishRead(g, f, res))
ResumeGoesOn(i) == Running(i, "read") /\ Serve(Resume(g, i))

\* The directory was scanned some time since the scan began.
ListEnds(i) ==
  /\ Running(i, "running")
  /\ \E seen \in {g.task[i].seen, g.dir} : Serve(Listed(g, i, seen))
\* handleGetModels(): there is a list of models, there is none, or asking for it threw.
ModelsAnswer(i) ==
  /\ Running(i, "asking")
  /\ \/ \E res \in {"ok", "failed"} : Serve(Forget(Told(g, i, "models-list", 0, res), i))
     \/ Serve(Forget(StrikeMessage(g, g.task[i].by, [id |-> i, kind |-> "models", file |-> "none"]), i))

CreateSession(f) == g.host[f].sess = "creating" /\ Serve(CreationEnds(g, f, TRUE))
SessionGoesOn(i) ==
  /\ Running(i, "session")
  /\ IF g.task[i].kind = "stop"
     THEN \E confirmed \in BOOLEAN : Serve(Stop(g, i, confirmed))
     ELSE Serve(Send(g, i))
SessionFails(i) == Running(i, "failed") /\ Serve(Failed(g, i, 4402))
ProcessReady(f) ==
  /\ g.host[f].live # 0
  /\ ~g.host[f].ready
  /\ Serve([g EXCEPT !.host[f].ready = TRUE])
\* Mutant: a start waits for readiness only, and not for the exit.
ProbedReadyOnly(i) == g.host[g.task[i].file].ready
\* readyPromise settles when the process is ready, and when it is gone.
Probed(i) == g.host[g.task[i].file].live # g.task[i].gen \/ g.host[g.task[i].file].ready
StartGoesOn(i) == Running(i, "starting") /\ Probed(i) /\ Serve(Started(g, i))
TurnEnds(f) == g.host[f].turn /\ Serve([g EXCEPT !.host[f].turn = FALSE])

Continue(i) ==
  ResumeGoesOn(i) \/ ListEnds(i) \/ ModelsAnswer(i) \/ SessionGoesOn(i) \/ SessionFails(i) \/ StartGoesOn(i)
Work(f) == ReadEnds(f) \/ CreateSession(f) \/ ProcessReady(f)

-------------------------------------------------------------------------------
(* What may go wrong *)

Fault(next) ==
  /\ faults < MaxFaults
  /\ faults' = faults + 1
  /\ g' = next
  /\ UNCHANGED << cli, up, linked, wishes, asked >>

EvidenceChanges(f) == \E v \in Evidence \ {g.disk[f]} : Fault([g EXCEPT !.disk[f] = v])
DirectoryChanges == \E d \in Listings \ {g.dir} : Fault([g EXCEPT !.dir = d])
ListThrows(i) ==
  Running(i, "running") /\ Fault(Failed(Release(g, ListSlot(i)), i, 4402))
ReloadTokens == \E listed \in SUBSET Tokens \ {{}, g.tokens} : Fault(Reloaded(g, listed))
ProcessExits(f) == g.host[f].live # 0 /\ Fault(ProcessGone(g, f))
CreationFails(f) == g.host[f].sess = "creating" /\ Fault(CreationEnds(g, f, FALSE))
ReadThrows(f) == f \in DOMAIN g.read /\ g.read[f].at = "reading" /\ Fault(FinishRead(g, f, "threw"))
QueueTimeout ==
  \E h \in ToSet(g.gate.waiting) :
    Fault(IF h[1] = "list" THEN Failed(Withdraw(g, {h}), h[2], 4409) ELSE DropReads(g, {h[2]}))
\* The deadline of the handshake, the heartbeat, or the end of a long life.
Supervise(c) ==
  /\ c \in Frail
  /\ g.conn[c].open
  /\ IF g.conn[c].authed
     THEN \E last \in {<< CloseTo(1000) >>, << ErrorTo(4432), CloseTo(1000) >>} :
            Fault(CloseConn(g, c, last))
     ELSE Fault(Expel(g, c))
Dispose ==
  /\ ~g.disposed
  /\ Fault(CloseConns([g EXCEPT !.disposed = TRUE], Conns, << CloseTo(1000) >>))
\* The line is cut: each side learns of it after what already arrived.
Cut(c) ==
  /\ c \in linked \cap Frail
  /\ faults < MaxFaults
  /\ faults' = faults + 1
  /\ linked' = linked \ {c}
  /\ up' = [up EXCEPT ![c] = << Bye >>]
  /\ g' = [g EXCEPT !.conn[c].wire = << CloseTo(1006) >>]
  /\ UNCHANGED << cli, wishes, asked >>

Mishap(f) == EvidenceChanges(f) \/ ProcessExits(f) \/ CreationFails(f) \/ ReadThrows(f)

-------------------------------------------------------------------------------
(* The clients *)

\* The socket opens, and the client says hello.
Open(c) ==
  /\ cli[c].conn = "connecting"
  /\ ~cli[c].stopped
  /\ cli' = [cli EXCEPT ![c].conn = "authenticating"]
  /\ linked' = linked \cup {c}
  /\ up' = [up EXCEPT ![c] = << Hello >>]
  /\ g' = IF g.disposed THEN [g EXCEPT !.conn[c].wire = << CloseTo(1013) >>]
          ELSE [g EXCEPT !.conn[c].open = TRUE]
  /\ UNCHANGED << wishes, asked, faults >>

\* A frame leaves only while the socket is open.
Emitted(c, ms) == IF c \in linked THEN [up EXCEPT ![c] = @ \o ms] ELSE up

\* sendPrompt(), sendStop(), resume()
AskWrite(i) ==
  LET w  == wishes[i]
      id == << "write", i >>
  IN /\ MayLaunch(cli[w.by], w.kind, w.file)
     /\ cli' = [cli EXCEPT ![w.by] = Placed(@, Entry(id, w.kind, w.file))]
     /\ up' = Emitted(w.by, << Request(id, w.kind, w.file, w.n) >>)

\* What a list client sends on its way from u to n.
ListMessages(u, n, sent) ==
  LET list   == << Request(<< "list", n.seq >>, "list", "none", n.offset) >>
      models == << Request(<< "models", 1 >>, "models", "none", 0) >>
      roots  == << Request(<< "roots", n.rootsSeq >>, "roots", "none", 0) >>
  IN IF n.seq > u.seq /\ sent THEN list
     ELSE IF n.modelsPending /\ ~u.modelsPending THEN models
     ELSE IF n.rootsSeq > u.rootsSeq /\ sent THEN roots ELSE << >>
ListerActs(c, n, sent) ==
  cli' = [cli EXCEPT ![c] = n] /\ up' = Emitted(c, ListMessages(cli[c], n, sent))
\* A socket that is gone may be known to be gone, or not yet.
Taken(c) == IF c \in linked THEN {TRUE} ELSE BOOLEAN

\* requestSessions(), requestMoreSessions(), requestModels(), requestRoots()
AskList(i) ==
  LET w == wishes[i]
      u == cli[w.by]
  IN /\ Lists!Usable(u)
     /\ u.seq < MaxLists
     /\ \E sent \in Taken(w.by) :
          \/ w.kind = "refresh" /\ ListerActs(w.by, Lists!RequestSessions(u, sent), sent)
          \/ /\ w.kind = "more" /\ Lists!MayRequestMore(u)
             /\ ListerActs(w.by, Lists!RequestMoreSessions(u, sent), sent)
          \/ /\ w.kind = "models" /\ Lists!MayRequestModels(u)
             /\ ListerActs(w.by, Lists!RequestModels(u), sent)
          \/ /\ w.kind = "roots" /\ Lists!MayRequestRoots(u)
             /\ ListerActs(w.by, Lists!RequestRoots(u, sent), sent)

AskRaw(i) ==
  /\ wishes[i].kind = "raw"
  /\ up' = Emitted(wishes[i].by, << Raw(wishes[i].frame) >>)
  /\ UNCHANGED cli

Ask(i) ==
  /\ i \in DOMAIN wishes \ asked
  /\ asked' = asked \cup {i}
  /\ CASE wishes[i].by \in Pages -> AskWrite(i)
       [] wishes[i].by \in Listers -> AskList(i)
       [] OTHER -> AskRaw(i)
  /\ UNCHANGED << g, linked, wishes, faults >>

\* The timer of a roots request ends.
RootsTimeout(c) ==
  /\ cli[c].rootsPending
  /\ cli' = [cli EXCEPT ![c] = Lists!SettleRoots(@, "failed")]
  /\ UNCHANGED << g, up, linked, wishes, asked, faults >>

\* close()
CloseClient(c) ==
  /\ c \in Frail
  /\ faults < MaxFaults
  /\ ~cli[c].stopped
  /\ faults' = faults + 1
  /\ cli' = [cli EXCEPT ![c] = IF c \in Pages THEN Stopped(@) ELSE Lists!Stopped(@)]
  /\ linked' = linked \ {c}
  /\ up' = Emitted(c, << Bye >>)
  /\ UNCHANGED << g, wishes, asked >>

\* The close of the server ends the socket.
Read(c) ==
  LET f == Head(g.conn[c].wire)
  IN /\ g.conn[c].wire # << >>
     /\ g' = [g EXCEPT !.conn[c].wire = Tail(@)]
     /\ IF c \in Pages
        THEN cli' = [cli EXCEPT ![c] = Hears(@, f)] /\ UNCHANGED up
        ELSE \E sent \in Taken(c) : ListerActs(c, Lists!Hears(cli[c], f, sent), sent)
     /\ linked' = IF f.t = "close" THEN linked \ {c} ELSE linked
     /\ UNCHANGED << wishes, asked, faults >>

Next ==
  \/ \E c \in Conns : Receive(c) \/ Supervise(c) \/ Cut(c)
  \/ \E c \in Heard : Open(c) \/ Read(c) \/ CloseClient(c)
  \/ \E c \in Listers : RootsTimeout(c)
  \/ \E i \in 1 .. MaxAsked : Ask(i)
  \/ \E i \in Ids : Continue(i) \/ ListThrows(i)
  \/ \E f \in Roots : Work(f) \/ Mishap(f) \/ TurnEnds(f)
  \/ ReloadTokens \/ QueueTimeout \/ DirectoryChanges \/ Dispose

\* Wires deliver, reads and processes answer, and what was awaited goes on: some
\* such step is taken again and again, unless again and again there is none left.
\* WF_vars(Progress), with its guard in the place of ENABLED.
Progress ==
  \/ \E c \in Conns : Receive(c)
  \/ \E c \in Heard : Read(c)
  \/ \E i \in Ids : Continue(i)
  \/ \E f \in Roots : Work(f)
ReadyToGoOn(i) ==
  \/ g.task[i].at \in {"read", "running", "asking", "session", "failed"}
  \/ g.task[i].at = "starting" /\ Probed(i)
Idle ==
  /\ \A c \in Conns : up[c] = << >> /\ g.conn[c].wire = << >>
  /\ \A i \in DOMAIN g.task : ~ReadyToGoOn(i)
  /\ \A f \in DOMAIN g.read : g.read[f].at # "reading"
  /\ \A f \in Roots : g.host[f].sess # "creating" /\ (g.host[f].live = 0 \/ g.host[f].ready)
Fairness == []<>Idle \/ []<><< Progress >>_vars

Spec == Init /\ [][Next]_vars /\ Fairness

-------------------------------------------------------------------------------
(* Books *)

\* A connection's slots are its unanswered requests.
SlotsExact ==
  \A c \in Conns : g.conn[c].inflight = {i \in DOMAIN g.task : g.task[i].by = c}
\* The gate knows who holds it and who waits, and nobody waits beside a free slot.
GateExact ==
  LET Scans(at) == {ListSlot(i) : i \in {j \in DOMAIN g.task : Running(j, at)}}
      Reads(at) == {ReadSlot(f) : f \in {h \in DOMAIN g.read : g.read[h].at = at}}
  IN /\ g.gate.active = Scans("running") \cup Reads("reading")
     /\ ToSet(g.gate.waiting) = Scans("queued") \cup Reads("queued")
     /\ IsInjective(g.gate.waiting)
     /\ Cardinality(g.gate.active) <= GateLimit
     /\ g.gate.waiting # << >> => ~Room(g)
\* Who waits for a read or a session waits for one that is under way.
AwaitedIsUnderWay ==
  \A i \in DOMAIN g.task :
    /\ Running(i, "reading") => g.task[i].file \in DOMAIN g.read
    /\ Running(i, "creating") => g.host[g.task[i].file].sess = "creating"
\* What the page shows as in flight is what it promised.
ViewsAgree ==
  \A c \in Pages :
    LET resumes == {e \in cli[c].pending : e.kind = "resume"}
        others  == cli[c].pending \ resumes
    IN /\ cli[c].inflight = {<< e.kind, e.file >> : e \in others}
       /\ cli[c].resuming = {e.file : e \in resumes}
       /\ Cardinality(cli[c].pending) = Cardinality(cli[c].inflight) + Cardinality(cli[c].resuming)
\* Every promise has its request, its answer or the end of the connection on the way.
AnswerComes(c, id) ==
  \/ \E k \in DOMAIN g.conn[c].wire : g.conn[c].wire[k].id = id \/ g.conn[c].wire[k].t = "close"
  \/ g.conn[c].open /\ (id \in DOMAIN g.task \/ \E k \in DOMAIN up[c] : up[c][k].id = id)
NothingForgotten ==
  /\ \A c \in Pages : \A e \in cli[c].pending : AnswerComes(c, e.id)
  /\ \A c \in Listers :
       /\ cli[c].pending => AnswerComes(c, << "list", cli[c].seq >>)
       /\ cli[c].rootsPending => AnswerComes(c, << "roots", cli[c].rootsSeq >>)
\* Nobody stays connected with a token that was withdrawn.
RevokedAreOut == \A c \in Conns : g.conn[c].open /\ g.conn[c].authed => TokenOf[c] \in g.tokens

(* Four books kept apart agree in every state: the connection's slots, the
   compute gate, the tables of shared reads and creations, and the page's
   promises with their views.  Each is changed by handlers, cancellations,
   timeouts and closes in ws-gateway.ts, compute-semaphore.ts, composition.ts,
   rpc-write-host.ts and write-client.ts, and one missed return leaks for good. *)
BooksBalance ==
  SlotsExact /\ GateExact /\ AwaitedIsUnderWay /\ ViewsAgree /\ NothingForgotten /\ RevokedAreOut

(* A resume launches only on evidence that was read after the request came in
   and that lists the intent, although its first read may be one that began for
   somebody else before; and into the generation it names, unless no process
   was running when that was checked (rpc-write-host.ts, resume). *)
ResumeActsOnFreshEvidence ==
  [][\A i \in g'.launched \ g.launched :
       LET t == g.task[i]
       IN t.kind = "resume" =>
            /\ t.fresh /\ t.got = "listed"
            /\ t.live # 0 => g'.host[t.file].live = t.named]_vars

(* What a page shows as its list is one version of the listing, without a gap
   and without a row of another version, and it offers more exactly when there
   is more: pages are asked for one by one while the directory changes, answers
   of an older request or version come late, and refreshes are folded together
   (ws-client.ts, case "sessions"; ws-gateway.ts, handleList). *)
ListsOfOneVersion ==
  \A c \in Listers :
    LET u    == cli[c]
        list == g.versions[u.version]
    IN u.version # 0 => /\ u.sessions = ToSet(SubSeq(list, 1, u.next))
                        /\ u.more = (u.next < Len(list))

(* Every promise of sendPrompt(), sendStop() and resume() settles, also when a
   creation fails for several waiters, a shared read is given up by the one who
   began it, or the connection ends: there is no timeout in the client.  A list
   or a roots request does not stay in flight for ever either, which would hold
   back every later one. *)
Promised(i) == \E c \in Pages : \E e \in cli[c].pending : e.id = << "write", i >>
WritesSettle ==
  /\ \A i \in 1 .. MaxAsked : Promised(i) ~> ~Promised(i)
  /\ \A c \in Listers : cli[c].pending ~> ~cli[c].pending
  /\ \A c \in Listers : cli[c].rootsPending ~> ~cli[c].rootsPending
================================================================================
