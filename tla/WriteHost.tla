------------------------------- MODULE WriteHost -------------------------------
(***************************************************************************)
(* What the server does with a write request once it is admitted: the host *)
(* of apps/server/src/ws/rpc-write-host.ts, the shared recovery read of    *)
(* composition.ts (makeResumeAuthority) and the compute gate they share    *)
(* with the session list (apps/server/src/ws/compute-semaphore.ts).        *)
(*                                                                         *)
(* g is the server.  g.task holds one record per admitted request that has *)
(* not been answered, g.read one per file being read, g.gate the holders   *)
(* and the waiters of the compute gate, g.host the session of each file,   *)
(* g.disk what the evidence on disk says about the intent to be resent,    *)
(* g.dir the files in the session directory, as they are listed, and       *)
(* g.versions the listings that were given a version, the last one last.   *)
(* An operator is one stretch of code without an await.                    *)
(*                                                                         *)
(* RpcSession is reduced to what send() and stop() return; RpcSession.tla  *)
(* models it.                                                              *)
(***************************************************************************)
EXTENDS Naturals, FiniteSets, Sequences, SequencesExt, Functions

CONSTANTS
  Conns,      \* connections
  Pages,      \* those that belong to a write client
  Listers,    \* those that belong to a list client
  Files,      \* names a request may carry
  Roots,      \* those inside the configured roots
  GateLimit,  \* slots of the compute gate
  PageSize,   \* LIMITS.listPageSizeDefault
  MaxGen      \* bound: generations of a session's process

ASSUME HostAssumption ==
  /\ Pages \subseteq Conns /\ Listers \subseteq Conns \ Pages /\ Roots \subseteq Files
  /\ GateLimit \in Nat \ {0} /\ PageSize \in Nat \ {0} /\ MaxGen \in Nat

\* The intent may be resent; it may not, for whatever reason; or its text is lost.
Evidence == {"listed", "refused", "nopayload"}
FreshSession == [sess |-> "none", live |-> 0, ready |-> FALSE, turn |-> FALSE, last |-> 0]
FreshGate == [active |-> {}, waiting |-> << >>]

\* A request under way; live is the generation send() is told to expect, and
\* named is the generation a resume names, or where the page of a list begins.
Task(c, m) ==
  [at |-> "new", by |-> c, kind |-> m.kind, file |-> m.file, named |-> m.n,
   round |-> 1, got |-> "none", fresh |-> FALSE, live |-> 0, gen |-> 0, seen |-> << >>]
\* f with its value at x, new or not, replaced by y.
With(f, x, y) == [z \in DOMAIN f \cup {x} |-> IF z = x THEN y ELSE f[z]]
WithTask(g, i, t) == [g EXCEPT !.task = With(@, i, t)]
At(g, i, at) == [g EXCEPT !.task[i].at = at]

Frame(t, id, kind, file, code, res) ==
  [t |-> t, id |-> id, kind |-> kind, file |-> file, code |-> code, res |-> res]
Heard == Pages \cup Listers
Sent(g, c, f) ==
  IF g.conn[c].open /\ c \in Heard THEN [g EXCEPT !.conn[c].wire = Append(@, f)] ELSE g
Told(g, i, t, code, res) ==
  LET task == g.task[i]
  IN Sent(g, task.by, Frame(t, i, task.kind, task.file, code, res))

\* Mutant: a request that ends in an error keeps its slot.
ForgetLeaky(g, i) ==
  [g EXCEPT !.task = Restrict(@, DOMAIN @ \ {i}),
            !.conn[g.task[i].by].inflight = IF g.task[i].got = "busy" THEN @ ELSE @ \ {i}]
\* finally { inflight.delete }
Forget(g, i) ==
  [g EXCEPT !.task = Restrict(@, DOMAIN @ \ {i}), !.conn[g.task[i].by].inflight = @ \ {i}]
Acked(g, i, res) == Forget(Told(g, i, "ack", 0, res), i)
Failed(g, i, code) == Forget(Told(g, i, "error", code, "none"), i)

-------------------------------------------------------------------------------
(* The compute gate *)

ListSlot(i) == << "list", i >>
ReadSlot(f) == << "read", f >>

\* grant(): a list or a read begins, and finds the disk as it is from now on.
Grant(g, h) ==
  LET held == [g EXCEPT !.gate.active = @ \cup {h}]
  IN IF h[1] = "list" THEN [At(held, h[2], "running") EXCEPT !.task[h[2]].seen = g.dir]
     ELSE [held EXCEPT !.read[h[2]] = [@ EXCEPT !.at = "reading", !.knows = DOMAIN g.task,
                                                !.snap = g.disk[h[2]]]]
Room(g) == Cardinality(g.gate.active) < GateLimit
Acquire(g, h) == IF Room(g) THEN Grant(g, h) ELSE [g EXCEPT !.gate.waiting = Append(@, h)]
\* release() and pump(): one slot came free, so one waiter is granted.
Release(g, h) ==
  LET freed == [g EXCEPT !.gate.active = @ \ {h}]
      next  == [freed EXCEPT !.gate.waiting = Tail(@)]
  IN IF g.gate.waiting = << >> THEN freed ELSE Grant(next, Head(g.gate.waiting))
\* What is left of s without the members of H, in its order.
Without(s, H) ==
  LET kept     == {k \in DOMAIN s : s[k] \notin H}
      Place(k) == Cardinality({l \in kept : l <= k})
  IN [n \in 1 .. Cardinality(kept) |-> s[CHOOSE k \in kept : Place(k) = n]]
\* settle(): waiters timed out, or were cancelled.
Withdraw(g, H) == [g EXCEPT !.gate.waiting = Without(@, H)]

-------------------------------------------------------------------------------
(* The list of sessions *)

\* A listing gets a new version when it is not the one before.
Versioned(g, seen) ==
  IF g.versions # << >> /\ Last(g.versions) = seen THEN g ELSE [g EXCEPT !.versions = Append(@, seen)]
\* buildSessionsFrame(): no page begins behind the end.
SessionsFrame(g, i, seen) ==
  LET from == g.task[i].named
      next == IF from + PageSize < Len(seen) THEN from + PageSize ELSE Len(seen)
  IN [t |-> "sessions", id |-> i, kind |-> "list", code |-> 0,
      rows |-> ToSet(SubSeq(seen, from + 1, next)), next |-> next, more |-> next < Len(seen),
      version |-> Len(g.versions)]
\* handleList() after its scan; for a connection that is gone there is no list.
Listed(g, i, seen) ==
  LET c == g.task[i].by
      t == Versioned(g, seen)
      told == IF g.task[i].named > Len(seen) THEN Told(t, i, "error", 4431, "none")
              ELSE Sent(t, c, SessionsFrame(t, i, seen))
  IN Forget(Release(IF g.conn[c].open THEN told ELSE g, ListSlot(i)), i)

-------------------------------------------------------------------------------
(* One recovery read per file, shared by everyone who asks meanwhile *)

Joined(g, F) == {i \in DOMAIN g.task : g.task[i].at = "reading" /\ g.task[i].file \in F}

\* Reads are over: forgotten first, then everyone who joined goes on.
EndReads(g, F, res) ==
  LET Goes(t, i) ==
        [t EXCEPT !.at = "read", !.got = res, !.fresh = i \in g.read[t.file].knows]
  IN [g EXCEPT !.task = [i \in DOMAIN @ |-> IF i \in Joined(g, F) THEN Goes(@[i], i) ELSE @[i]],
               !.read = Restrict(@, DOMAIN @ \ F)]

\* Reads that were still queued end with ComputeGateQueueTimeout for all.
DropReads(g, F) == EndReads(Withdraw(g, {ReadSlot(f) : f \in F}), F, "busy")

\* readOnce(): join the read under way or start one, in the asker's name.
ReadOnce(g, i) ==
  LET f     == g.task[i].file
      c     == g.task[i].by
      asks  == At(g, i, "reading")
      read  == [at |-> "queued", by |-> c, knows |-> {}, snap |-> "refused"]
      first == [asks EXCEPT !.read = With(@, f, read)]
      t     == Acquire(first, ReadSlot(f))
  IN IF f \in DOMAIN g.read THEN asks
     ELSE IF t.read[f].at = "queued" /\ ~g.conn[c].open THEN DropReads(t, {f}) ELSE t

FinishRead(g, f, res) == EndReads(Release(g, ReadSlot(f)), {f}, res)

-------------------------------------------------------------------------------
(* Sessions *)

\* sessionOf(): one creation for everybody.
SessionOf(g, i) ==
  LET f == g.task[i].file
  IN IF g.host[f].sess = "ready" THEN At(g, i, "session")
     ELSE [At(g, i, "creating") EXCEPT !.host[f].sess = "creating"]

Awaiting(g, f) == {i \in DOMAIN g.task : g.task[i].at = "creating" /\ g.task[i].file = f}
\* A failed creation leaves no trace but the answer to those who waited.
CreationEnds(g, f, ok) ==
  [g EXCEPT !.host[f].sess = IF ok THEN "ready" ELSE "none",
            !.task = [i \in DOMAIN @ |->
               IF i \in Awaiting(g, f) THEN [@[i] EXCEPT !.at = IF ok THEN "session" ELSE "failed"]
               ELSE @[i]]]

\* stop(): no session is made only to be stopped.
StopCall(g, i) ==
  IF g.host[g.task[i].file].sess = "none" THEN Acked(g, i, "no-process") ELSE SessionOf(g, i)

\* The end of send(): the process must be ready, the one expected, and free.
Submit(g, i) ==
  LET t == g.task[i]
      h == g.host[t.file]
  IN IF ~h.ready THEN Acked(g, i, "not-ready")
     ELSE IF t.live # 0 /\ t.live # h.live THEN Acked(g, i, "invalidated")
     ELSE IF h.turn THEN Acked(g, i, "busy")
     ELSE Acked([g EXCEPT !.host[t.file].turn = TRUE, !.launched = @ \cup {i}], i, "launched")

\* send(): a session without a process starts one first.
Send(g, i) ==
  LET f == g.task[i].file
      h == g.host[f]
  IN IF h.live # 0 THEN Submit(g, i)
     ELSE IF h.last = MaxGen THEN Acked(g, i, "not-ready")
     ELSE [At(g, i, "starting") EXCEPT !.task[i].gen = h.last + 1,
             !.host[f] = [@ EXCEPT !.live = h.last + 1, !.last = h.last + 1, !.ready = FALSE]]
Started(g, i) ==
  IF g.host[g.task[i].file].live = g.task[i].gen THEN Submit(g, i) ELSE Acked(g, i, "not-ready")

ProcessGone(g, f) == [g EXCEPT !.host[f] = [@ EXCEPT !.live = 0, !.ready = FALSE, !.turn = FALSE]]
\* RpcSession.stop(): the exit is confirmed, or the deadline passes.
Stop(g, i, confirmed) ==
  LET f == g.task[i].file
  IN IF g.host[f].live = 0 THEN Acked(g, i, "no-process")
     ELSE IF confirmed THEN Acked(ProcessGone(g, f), i, "confirmed")
     ELSE Acked(g, i, "deadline-exceeded")

-------------------------------------------------------------------------------
(* resume() *)

\* What the report and the running generation say, in the order they are asked.
Verdict(t, live) ==
  IF t.got = "refused" THEN "identity-rejected"
  ELSE IF t.round = 2 /\ t.got = "nopayload" THEN "execution-failed"
  ELSE IF live # 0 /\ live # t.named THEN "generation-mismatch" ELSE "pass"

\* Mutant: the report of the first read is good enough to act on.
ResumeAtOnce(g, i) ==
  LET t    == g.task[i]
      live == g.host[t.file].live
      v    == Verdict(t, live)
  IN IF t.got \in {"busy", "threw"} THEN Failed(g, i, IF t.got = "busy" THEN 4409 ELSE 4402)
     ELSE IF v # "pass" THEN Acked(g, i, v)
     ELSE SessionOf([g EXCEPT !.task[i].live = live], i)
\* After the first read the same questions are asked of a second one.
Resume(g, i) ==
  LET t    == g.task[i]
      live == g.host[t.file].live
      v    == Verdict(t, live)
  IN IF t.got \in {"busy", "threw"} THEN Failed(g, i, IF t.got = "busy" THEN 4409 ELSE 4402)
     ELSE IF v # "pass" THEN Acked(g, i, v)
     ELSE IF t.round = 1 THEN ReadOnce([g EXCEPT !.task[i].round = 2], i)
     ELSE SessionOf([g EXCEPT !.task[i].live = live], i)
================================================================================
