----------------------------- MODULE GuardedWriter -----------------------------
(***************************************************************************)
(* Who may write a session's journal: apps/server/src/runtime/             *)
(* guarded-journal-writer.ts over writer-oath.ts, several server processes *)
(* (boots) on one machine over one journal file.                           *)
(*                                                                         *)
(* A boot creates the lock file exclusively, reads the highest epoch of    *)
(* the journal, swears the next one and keeps the end of its own oath as   *)
(* the baseline of its WriterGuard.  Boot, appends and close of a writer   *)
(* run on one promise queue.  dispose drains that queue and then releases  *)
(* the lock.  A lock whose process died stays; only an operator removes    *)
(* it.  With Careless the operator may also remove the lock of a process   *)
(* that lives: the case the oath and the guard are there for.              *)
(*                                                                         *)
(* Each action ends at an await.  A row is one write of two units, of      *)
(* which one may be on disk when the write fails or the process dies;      *)
(* several partial writes of one row are FileDurability's business.        *)
(***************************************************************************)
EXTENDS JournalLog, FiniteSets

CONSTANTS
  Disposers, \* calls of dispose(), in each process
  NoDispose, \* an operation of the queue that is not a close
  MaxAsks,   \* bound: appends each process asks for
  Careless   \* the operator may remove the lock of a living process

ASSUME WriterAssumption ==
  /\ NoBoot \notin Boots
  /\ NoDispose \notin Disposers
  /\ MaxAsks \in Nat
  /\ Careless \in BOOLEAN

VARIABLES
  alive,      \* processes that run
  pc,         \* pc[b]: the await the queue of b's writer is at
  queue,      \* queue[b]: operations behind it; an append, or the close of a dispose()
  asks,       \* appends b has been asked for
  epoch,      \* epoch[b]: what the scan of the journal made it
  base,       \* base[b]: WriterGuard.lastKnownSize
  frozen,     \* frozen[b]: WriterGuard.frozen
  innerFailed,\* b's FileDurability is in its failed state
  stage,      \* stage[b][d]: how far dispose() call d has come
  registered, \* b's release function is known to dispose()
  lock        \* the lock file: who created it and whether it can be read

gwVars == << journal, alive, pc, queue, asks, epoch, base, frozen, innerFailed,
             stage, registered, lock >>
guardVars == << epoch, base, frozen, innerFailed >>
disposeVars == << stage, registered >>

NoLock == [by |-> NoBoot, body |-> FALSE]
Booting == {"lock", "lockbody", "afterlock", "abort", "abortunlink", "scan", "oathread", "oathappend"}
Resting == {"open", "refusing", "shut"}
Verdicts == {"no", "writer-superseded", "foreign-write-detected", "journal-unreadable"}
Stages == {"no", "drain", "release", "unlink", "done"}
AppendOp == NoDispose

\* An append at work is still the head of the queue; the close of a dispose()
\* that waits for it is in the queue.
QueueSound ==
  /\ \A b \in Boots :
       pc[b] \in {"check", "rescan", "write"} => queue[b] # << >> /\ Head(queue[b]) = AppendOp
  /\ \A b \in Boots, d \in Disposers :
       stage[b][d] = "drain" => \E i \in 1 .. Len(queue[b]) : queue[b][i] = d

GwTypeOK ==
  /\ journal \in Seq(Rows)
  /\ alive \subseteq Boots
  /\ pc \in [Boots -> {"down", "check", "rescan", "write"} \cup Booting \cup Resting]
  /\ queue \in [Boots -> Seq(Disposers \cup {AppendOp})]
  /\ asks \in [Boots -> 0 .. MaxAsks]
  /\ epoch \in [Boots -> Nat]
  /\ base \in [Boots -> Nat]
  /\ frozen \in [Boots -> Verdicts]
  /\ innerFailed \in [Boots -> BOOLEAN]
  /\ stage \in [Boots -> [Disposers -> Stages]]
  /\ registered \in [Boots -> BOOLEAN]
  /\ lock \in [by : Boots \cup {NoBoot}, body : BOOLEAN]
  /\ QueueSound

GwInit ==
  /\ LogInit
  /\ alive = Boots
  /\ pc = [b \in Boots |-> "down"]
  /\ queue = [b \in Boots |-> << >>]
  /\ asks = [b \in Boots |-> 0]
  /\ epoch = [b \in Boots |-> 0]
  /\ base = [b \in Boots |-> 0]
  /\ frozen = [b \in Boots |-> "no"]
  /\ innerFailed = [b \in Boots |-> FALSE]
  /\ stage = [b \in Boots |-> [d \in Disposers |-> "no"]]
  /\ registered = [b \in Boots |-> FALSE]
  /\ lock = NoLock

-------------------------------------------------------------------------------
\* Reading the journal.
Units(j) == 2 * Len(j) - Cardinality({i \in 1 .. Len(j) : j[i].kind = "torn"})
\* A row glued to a torn one is not a line of its own: the parser drops both.
Legible(j) ==
  {i \in 1 .. Len(j) : j[i].kind # "torn" /\ (i > 1 => j[i - 1].kind # "torn")}
LegibleOaths(j) == Oaths(j) \cap Legible(j)
\* scanWriterEpoch: the first oath with the highest epoch.
TopOath(j) ==
  CHOOSE i \in LegibleOaths(j) :
    \A k \in LegibleOaths(j) :
      j[k].epoch < j[i].epoch \/ (j[k].epoch = j[i].epoch /\ i <= k)
MaxEpoch(j) == IF LegibleOaths(j) = {} THEN 0 ELSE j[TopOath(j)].epoch

\* readLockHolder finds b's own bootId in the lock file.
HoldsLock(b) == lock.by = b /\ lock.body
\* unlink removes whatever lock file is there by now; its errors are swallowed.
Unlink == lock' \in {NoLock, lock}

Disposed(b) == \E d \in Disposers : stage[b][d] # "no"
Goes(b, where) == pc' = [pc EXCEPT ![b] = where]

-------------------------------------------------------------------------------
(* The boot of a writer.                                                       *)

\* writerFor(): the writer is built and its boot heads the queue.
WriterFor(b) ==
  /\ b \in alive /\ pc[b] = "down"
  /\ Goes(b, "lock")
  /\ UNCHANGED << journal, alive, queue, asks, guardVars, disposeVars, lock >>

\* open(path, "wx"): atomic; on EEXIST the boot fails, whoever holds the lock.
CreateLock(b) ==
  /\ b \in alive /\ pc[b] = "lock"
  /\ IF lock = NoLock
     THEN lock' = [by |-> b, body |-> FALSE] /\ Goes(b, "lockbody")
     ELSE Goes(b, "refusing") /\ UNCHANGED lock
  /\ UNCHANGED << journal, alive, queue, asks, guardVars, disposeVars >>

\* The body of the lock file is written and synced, or that fails and the file
\* stays, with or without its body.
WriteLockBody(b) ==
  /\ b \in alive /\ pc[b] = "lockbody"
  /\ \E written \in BOOLEAN :
       /\ lock' = IF written /\ lock.by = b THEN [lock EXCEPT !.body = TRUE] ELSE lock
       /\ \/ written /\ Goes(b, "afterlock")
          \/ Goes(b, "refusing")
  /\ UNCHANGED << journal, alive, queue, asks, guardVars, disposeVars >>

\* Checkpoint 1: disposed meanwhile, the lock is released on the spot.
AfterLock(b) ==
  /\ b \in alive /\ pc[b] = "afterlock"
  /\ IF Disposed(b)
     THEN Goes(b, "abort") /\ UNCHANGED registered
     ELSE Goes(b, "scan") /\ registered' = [registered EXCEPT ![b] = TRUE]
  /\ UNCHANGED << journal, alive, queue, asks, guardVars, stage, lock >>

AbortRead(b) ==
  /\ b \in alive /\ pc[b] = "abort"
  /\ Goes(b, "refusing") \/ (HoldsLock(b) /\ Goes(b, "abortunlink"))
  /\ UNCHANGED << journal, alive, queue, asks, guardVars, disposeVars, lock >>

AbortUnlinks(b) ==
  /\ b \in alive /\ pc[b] = "abortunlink"
  /\ Unlink
  /\ Goes(b, "refusing")
  /\ UNCHANGED << journal, alive, queue, asks, guardVars, disposeVars >>

\* Mutant: the oath repeats the highest epoch found.
SameEpoch(j) == IF MaxEpoch(j) = 0 THEN 1 ELSE MaxEpoch(j)
NextEpoch(j) == MaxEpoch(j) + 1

\* The journal is read; checkpoint 2: disposed meanwhile, no oath is sworn.
Scan(b) ==
  /\ b \in alive /\ pc[b] = "scan"
  /\ \/ /\ epoch' = [epoch EXCEPT ![b] = NextEpoch(journal)]
        /\ Goes(b, IF Disposed(b) THEN "refusing" ELSE "oathread")
     \/ Goes(b, "refusing") /\ UNCHANGED epoch
  /\ UNCHANGED << journal, alive, queue, asks, base, frozen, innerFailed, disposeVars, lock >>

\* parseJournalText finds no bad line.
NoBadLine(j) == Intact(j)

\* appendWriterOath reads the journal again: a bad tail ends the boot.
OathRead(b) ==
  /\ b \in alive /\ pc[b] = "oathread"
  /\ \/ /\ NoBadLine(journal)
        /\ base' = [base EXCEPT ![b] = Units(journal)]
        /\ Goes(b, "oathappend")
     \/ Goes(b, "refusing") /\ UNCHANGED base
  /\ UNCHANGED << journal, alive, queue, asks, epoch, frozen, innerFailed, disposeVars, lock >>

\* The baseline: where the oath ends, by the boot's own reckoning.
OathEnd(b) == base[b] + 2

\* The oath is appended and synced; or that fails, and it may be there anyway.
OathAppend(b) ==
  /\ b \in alive /\ pc[b] = "oathappend"
  /\ \/ /\ journal' = Append(journal, Oath(b, epoch[b]))
        /\ \/ base' = [base EXCEPT ![b] = OathEnd(b)] /\ Goes(b, "open")
           \/ Goes(b, "refusing") /\ UNCHANGED base
     \/ /\ journal' \in {journal, Append(journal, Torn(b))}
        /\ Goes(b, "refusing")
        /\ UNCHANGED base
  /\ UNCHANGED << alive, queue, asks, epoch, frozen, innerFailed, disposeVars, lock >>

-------------------------------------------------------------------------------
(* Appends, on the queue of the writer.                                        *)

AskAppend(b) ==
  /\ b \in alive /\ pc[b] # "down"
  /\ asks[b] < MaxAsks
  /\ asks' = [asks EXCEPT ![b] = @ + 1]
  /\ queue' = [queue EXCEPT ![b] = Append(@, AppendOp)]
  /\ UNCHANGED << journal, alive, pc, guardVars, disposeVars, lock >>

Ready(b) == b \in alive /\ pc[b] \in Resting /\ queue[b] # << >>

\* The operation at the head of the queue is over.
Over(b) == queue' = [queue EXCEPT ![b] = Tail(@)]

\* Mutant: a writer that is shut takes a guard that is ready for a yes.
WritesWhenReady(b) == pc[b] = "open" \/ (pc[b] = "shut" /\ base[b] > 0)
\* closed, boot failed, no guard: the append is refused before the guard is asked.
Writes(b) == pc[b] = "open"

StartAppend(b) ==
  /\ Ready(b) /\ Head(queue[b]) = AppendOp
  /\ IF Writes(b) /\ frozen[b] = "no"
     THEN Goes(b, "check") /\ UNCHANGED queue
     ELSE Over(b) /\ UNCHANGED pc
  /\ UNCHANGED << journal, alive, asks, guardVars, disposeVars, lock >>

Freeze(b, why) ==
  /\ frozen' = [frozen EXCEPT ![b] = why]
  /\ Goes(b, "open")
  /\ Over(b)

\* checkBeforeAppend: the size of the file against the baseline.
Check(b) ==
  /\ b \in alive /\ pc[b] = "check"
  /\ \/ Goes(b, IF Units(journal) = base[b] THEN "write" ELSE "rescan") /\ UNCHANGED << frozen, queue >>
     \/ Freeze(b, "journal-unreadable")
  /\ UNCHANGED << journal, alive, asks, epoch, base, innerFailed, disposeVars, lock >>

\* Another boot has sworn an epoch as high as b's.
Superseded(b, j) ==
  /\ LegibleOaths(j) # {}
  /\ MaxEpoch(j) >= epoch[b]
  /\ j[TopOath(j)].by # b

\* The size differs: the oaths are read again, and the writer stops for good.
Rescan(b) ==
  /\ b \in alive /\ pc[b] = "rescan"
  /\ \E why \in {IF Superseded(b, journal) THEN "writer-superseded" ELSE "foreign-write-detected",
                 "journal-unreadable"} : Freeze(b, why)
  /\ UNCHANGED << journal, alive, asks, epoch, base, innerFailed, disposeVars, lock >>

\* Mutant: noteAppended takes the size of the file.
NotedByStat(b, j) == Units(j)
\* noteAppended: the bytes of the own row.
Noted(b, j) == base[b] + 2

\* inner.append: the row is on disk and noted; or the call is rejected with
\* nothing, a part or all of the row in the file, and inner stays failed.
RowWrite(b) ==
  /\ b \in alive /\ pc[b] = "write"
  /\ \/ /\ ~innerFailed[b]
        /\ journal' = Append(journal, Row(b))
        /\ base' = [base EXCEPT ![b] = Noted(b, journal')]
        /\ Over(b)
        /\ UNCHANGED innerFailed
     \/ /\ ~innerFailed[b]
        /\ journal' \in {journal, Append(journal, Torn(b)), Append(journal, Row(b))}
        /\ innerFailed' = [innerFailed EXCEPT ![b] = TRUE]
        /\ Over(b)
        /\ UNCHANGED base
     \/ /\ innerFailed[b]
        /\ Over(b)
        /\ UNCHANGED << journal, base, innerFailed >>
  /\ Goes(b, "open")
  /\ UNCHANGED << alive, asks, epoch, frozen, disposeVars, lock >>

-------------------------------------------------------------------------------
(* dispose().                                                                  *)

\* Some call has seen the queues drained: the factory has forgotten its writers.
Drained(b) == \E d \in Disposers : stage[b][d] \in {"release", "unlink", "done"}
At(b, d, s) == stage' = [stage EXCEPT ![b][d] = s]

\* Mutant: dispose() goes for the lock while the queue is still at work.
DisposeAtOnce(b, d) ==
  /\ b \in alive /\ pc[b] # "down"
  /\ stage[b][d] = "no"
  /\ At(b, d, "release")
  /\ queue' = [queue EXCEPT ![b] = Append(@, d)]
  /\ UNCHANGED << journal, alive, pc, asks, guardVars, registered, lock >>
\* dispose(): the close of the writer is queued; a later call may find it gone.
Dispose(b, d) ==
  /\ b \in alive /\ pc[b] # "down"
  /\ stage[b][d] = "no"
  /\ IF Drained(b)
     THEN At(b, d, "release") /\ UNCHANGED queue
     ELSE At(b, d, "drain") /\ queue' = [queue EXCEPT ![b] = Append(@, d)]
  /\ UNCHANGED << journal, alive, pc, asks, guardVars, registered, lock >>

\* Mutant: the close is carried out, its dispose() never hears of it.
CloseSilently(b) ==
  /\ Ready(b) /\ Head(queue[b]) \in Disposers
  /\ Goes(b, "shut")
  /\ Over(b)
  /\ UNCHANGED << journal, alive, asks, guardVars, disposeVars, lock >>
\* The close of drainAndClose is reached: everything before it is over.
Close(b) ==
  /\ Ready(b) /\ Head(queue[b]) \in Disposers
  /\ Goes(b, "shut")
  /\ Over(b)
  /\ stage' = [stage EXCEPT ![b][Head(queue[b])] = IF @ = "drain" THEN "release" ELSE @]
  /\ UNCHANGED << journal, alive, asks, guardVars, registered, lock >>

\* Mutant: every call of release() reads and unlinks for itself.
EachItsOwn(b, d) == TRUE
\* The first call starts the release; the others share its promise.
Starts(b, d) == \A e \in Disposers \ {d} : stage[b][e] \notin {"unlink", "done"}

\* release(): read whose lock it is, if it can be read.
ReleaseRead(b, d) ==
  /\ b \in alive /\ stage[b][d] = "release"
  /\ Starts(b, d)
  /\ At(b, d, "done") \/ (registered[b] /\ HoldsLock(b) /\ At(b, d, "unlink"))
  /\ UNCHANGED << journal, alive, pc, queue, asks, guardVars, registered, lock >>

ReleaseUnlink(b, d) ==
  /\ b \in alive /\ stage[b][d] = "unlink"
  /\ Unlink
  /\ At(b, d, "done")
  /\ UNCHANGED << journal, alive, pc, queue, asks, guardVars, registered >>

ReleaseShared(b, d) ==
  /\ b \in alive /\ stage[b][d] = "release"
  /\ \E e \in Disposers \ {d} : stage[b][e] = "done"
  /\ At(b, d, "done")
  /\ UNCHANGED << journal, alive, pc, queue, asks, guardVars, registered, lock >>

-------------------------------------------------------------------------------
(* The world around the processes.                                             *)

\* A process dies, at any await, and what it had in memory is gone; a write in
\* flight may be half done.
Crash(b) ==
  /\ b \in alive
  /\ alive' = alive \ {b}
  /\ \/ UNCHANGED journal
     \/ /\ pc[b] = "oathappend" \/ (pc[b] = "write" /\ ~innerFailed[b])
        /\ journal' = Append(journal, Torn(b))
  /\ Goes(b, "down")
  /\ queue' = [queue EXCEPT ![b] = << >>]
  /\ asks' = [asks EXCEPT ![b] = 0]
  /\ epoch' = [epoch EXCEPT ![b] = 0]
  /\ base' = [base EXCEPT ![b] = 0]
  /\ frozen' = [frozen EXCEPT ![b] = "no"]
  /\ innerFailed' = [innerFailed EXCEPT ![b] = FALSE]
  /\ stage' = [stage EXCEPT ![b] = [d \in Disposers |-> "no"]]
  /\ registered' = [registered EXCEPT ![b] = FALSE]
  /\ UNCHANGED lock

\* The operator removes a lock file that nobody alive holds, or any if careless.
OperatorUnlocks ==
  /\ lock # NoLock
  /\ Careless \/ lock.by \notin alive
  /\ lock' = NoLock
  /\ UNCHANGED << journal, alive, pc, queue, asks, guardVars, disposeVars >>

-------------------------------------------------------------------------------
Step(b) ==
  \/ CreateLock(b) \/ WriteLockBody(b) \/ AfterLock(b)
  \/ AbortRead(b) \/ AbortUnlinks(b)
  \/ Scan(b) \/ OathRead(b) \/ OathAppend(b)
  \/ StartAppend(b) \/ Check(b) \/ Rescan(b) \/ RowWrite(b) \/ Close(b)
  \/ \E d \in Disposers : ReleaseRead(b, d) \/ ReleaseUnlink(b, d) \/ ReleaseShared(b, d)

GwNext ==
  \/ \E b \in Boots :
       \/ WriterFor(b) \/ AskAppend(b) \/ Crash(b) \/ Step(b)
       \/ \E d \in Disposers : Dispose(b, d)
  \/ OperatorUnlocks

GwSpec == GwInit /\ [][GwNext]_gwVars
-------------------------------------------------------------------------------
\* Only the process that holds the lock writes to the journal: the oath and
\* every row land between its creation and its release of the lock file.
RowsUnderOwnLock ==
  [][journal' # journal => lock.by = journal'[Len(journal')].by]_gwVars

\* A release removes no lock but the one its own process created, whatever the
\* operator and the other processes do between its read and its unlink.
OnlyOwnLockRemoved ==
  [][\A b \in Boots, d \in Disposers :
       ReleaseUnlink(b, d) => lock.by \in {b, NoBoot}]_gwVars

\* The processes together keep the journal a log with one writer at a time:
\* epochs grow, each row belongs to the last oath, nothing follows a torn row.
\* This is what makes INV-1, INV-2 and INV-3 of writer-oath.ts true of the file.
OneWriterAtATime == LogSpec

\* After dispose() has returned its process writes nothing more.
QuietAfterDispose ==
  [][\A b \in Boots :
       (\E d \in Disposers : stage[b][d] = "done") /\ journal' # journal
         => journal'[Len(journal')].by # b]_gwVars

\* Apart from unlink errors, dispose() leaves no lock behind: a process whose
\* release was never registered holds none (guarded-journal-writer.ts:41).
DisposeLeavesNoLock ==
  \A b \in alive :
    (\E d \in Disposers : stage[b][d] = "done") /\ ~registered[b] => lock.by # b

\* The processes that would pass the check of their guard.
CleanGuards ==
  {b \in alive : pc[b] \in {"open", "check", "write"} /\ base[b] = Units(journal)}
\* Although the lock of a living server was removed, the guards stop all but one
\* writer: two rows of a process never land behind what another wrote after its
\* oath (only the row whose check was already passed does), and of two processes
\* that have written the baseline of at least one is behind the file for ever.
GuardsLeaveOneWriter ==
  /\ \A b \in Boots : \A i \in Oaths(journal), k \in 1 .. Len(journal) :
       journal[i].by = b /\ i < k /\ journal[k].by # b
         => Cardinality({n \in k + 1 .. Len(journal) : journal[n] = Row(b)}) <= 1
  /\ \A a, b \in CleanGuards : a = b
===============================================================================
