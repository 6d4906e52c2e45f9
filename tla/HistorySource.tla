---------------------------- MODULE HistorySource ----------------------------
(***************************************************************************)
(* How the server reads one history file and keeps watching it:            *)
(* FileHistorySource of apps/server/src/runtime/history-source.ts.         *)
(*                                                                         *)
(* A slot holds what the source knows of the file.  Code between two real  *)
(* waits (a file read, a notice of the operating system) is one step, so a *)
(* rescan that is queued as a microtask has begun in the step that queues  *)
(* it.  The file is the disk: rows with unique names, an inode, and        *)
(* whether the path exists.  The fingerprint of a file is its rows.        *)
(***************************************************************************)
EXTENDS Integers, Sequences, SequencesExt

\* What one read returns, and what a scan holds before it has read.
Unread == [rows |-> << >>, ino |-> 0, there |-> FALSE, done |-> FALSE]
ReadOf(disk) == [rows |-> disk.rows, ino |-> disk.ino, there |-> disk.there, done |-> TRUE]

(* active, bound, rows, ino: slot.entry, its sinks, baseline and identity.
   watch, news: the inode the active OS watch looks at, a notice not delivered.
   scan, got: the scan in flight ("first", "again") and its read.
   dirty, early, awaiting, carry, tickets: the fields of FileSlot. *)
FreshSlot ==
  [active |-> FALSE, bound |-> FALSE, rows |-> << >>, ino |-> 0,
   watch |-> 0, news |-> FALSE, scan |-> "none", got |-> Unread,
   dirty |-> FALSE, early |-> FALSE, awaiting |-> 0, carry |-> 0, tickets |-> << >>]

\* closeEntry(): an orphaned rescan goes on, for nobody.
CloseEntry(s) ==
  [s EXCEPT !.active = FALSE, !.bound = FALSE, !.rows = << >>, !.ino = 0,
            !.watch = 0, !.news = FALSE]

Wanted(tickets) == \E i \in DOMAIN tickets : ~tickets[i].released
Nobody(s) == s.active /\ ~s.bound /\ s.awaiting = 0

\* takeHeldCount(): a release that came too early absorbs the count.
TakeHeldCount(s) ==
  LET t == [s EXCEPT !.carry = @ - 1]
  IN IF s.carry = 0 THEN [s EXCEPT !.awaiting = @ + 1]
     ELSE IF Nobody(t) /\ t.carry = 0 /\ ~Wanted(t.tickets) THEN CloseEntry(t) ELSE t

\* queueRescan() and runRescan().
StartRescan(s) ==
  IF ~s.active \/ ~s.bound THEN s
  ELSE IF s.scan # "none" THEN [s EXCEPT !.dirty = TRUE]
  ELSE [s EXCEPT !.scan = "again", !.got = Unread]

\* load() of a file nobody has open: the watch is set before the file is read.
StartFirstScan(s, disk) ==
  [s EXCEPT !.scan = "first", !.got = Unread, !.early = FALSE, !.dirty = FALSE,
            !.watch = disk.ino, !.news = FALSE]

\* Mutant: what changed before the file was observed is not read again.
ObserveBlindly(s) ==
  [s EXCEPT !.bound = TRUE, !.dirty = FALSE, !.awaiting = IF @ > 0 THEN @ - 1 ELSE 0]
\* observe(): binds the sinks and consumes one load; what changed before is read now.
Observe(s) ==
  LET t == [s EXCEPT !.bound = TRUE, !.dirty = FALSE,
                     !.awaiting = IF @ > 0 THEN @ - 1 ELSE 0]
  IN IF s.dirty THEN StartRescan(t) ELSE t

\* unbind(), the closure observe() returned.
Unbind(s) ==
  LET t == [s EXCEPT !.bound = FALSE]
  IN IF ~s.active THEN s ELSE IF Nobody(t) THEN CloseEntry(t) ELSE t

\* Mutant: release() forgets to close an entry nobody is left to watch.
ReleaseLeaks(s) ==
  IF s.awaiting > 0 THEN [s EXCEPT !.awaiting = @ - 1]
  ELSE [s EXCEPT !.carry = @ + 1]
\* release(): a counted load first, then a load in flight, then the next one.
Release(s) ==
  LET t == [s EXCEPT !.awaiting = @ - 1]
      i == SelectInSeq(s.tickets, LAMBDA x : ~x.released)
  IN IF s.awaiting > 0 THEN (IF Nobody(t) THEN CloseEntry(t) ELSE t)
     ELSE IF i > 0 THEN [s EXCEPT !.tickets[i].released = TRUE]
     ELSE [s EXCEPT !.carry = @ + 1]

\* genNotice(): the operating system says the watched file changed.
Notice(s) ==
  LET t == [s EXCEPT !.news = FALSE]
  IN IF s.scan = "first" \/ ~s.bound \/ s.scan # "none" THEN [t EXCEPT !.dirty = TRUE]
     ELSE StartRescan(t)

\* rearmWatcher() on a file that exists: an undelivered notice of the same
\* inode reaches the new handle, one of another inode is lost with the old.
Rearm(s, disk) ==
  [s EXCEPT !.watch = disk.ino, !.news = @ /\ disk.ino = s.watch]

\* initialScan() after its read: commit unless nobody wants it any more.
CommitFirst(s) ==
  LET idle == [s EXCEPT !.scan = "none", !.got = Unread]
      t    == [idle EXCEPT !.active = TRUE, !.rows = s.got.rows, !.ino = s.got.ino]
  IN IF ~s.got.there THEN [idle EXCEPT !.watch = 0, !.news = FALSE]
     ELSE IF ~Wanted(s.tickets) \/ s.early THEN CloseEntry(t) ELSE t

\* rescanOnce(): what the rows read say of the rows published.
Verdict(s) ==
  IF ~s.active THEN "stale"
  ELSE IF ~s.got.there THEN "unavailable"
  ELSE IF s.got.rows = s.rows THEN "same"
  ELSE IF IsPrefix(s.rows, s.got.rows) THEN "append" ELSE "invalid"

\* The end of runRescan(): exactly one follow-up for what came in meanwhile,
\* or for a file that changed its inode under the watch.
FinishRescan(s, handoff) ==
  LET t == [s EXCEPT !.scan = "none", !.got = Unread]
  IN IF (s.dirty \/ handoff) /\ s.active /\ s.bound
     THEN StartRescan([t EXCEPT !.dirty = FALSE]) ELSE t
===============================================================================
