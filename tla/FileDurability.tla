---------------------------- MODULE FileDurability ----------------------------
(***************************************************************************)
(* apps/server/src/runtime/file-durability.ts: one FileDurability instance *)
(* over one journal file.                                                  *)
(*                                                                         *)
(* Calls are accepted synchronously and their runs follow one another on a *)
(* promise queue.  A run is a chain of awaits (open, write until the line  *)
(* is complete, datasync, once the sync of the directory); any of them may *)
(* fail, which puts the instance in its failed state.  `close' closes the  *)
(* door at once and the handle when its turn comes.                        *)
(*                                                                         *)
(* A line is Size chunks; a write puts one or more of them in the file.    *)
(* The file is what the page cache holds; a power loss keeps of it at      *)
(* least what was synced, and nothing of a file whose name was not.        *)
(***************************************************************************)
EXTENDS Naturals, Sequences, FiniteSets

CONSTANTS
  Lines,     \* the lines that are appended, each once
  Size,      \* chunks of a line; a write may stop at each of them
  MaxCloses  \* bound: calls of close()

ASSUME SizeAssumption == Size \in Nat \ {0} /\ MaxCloses \in Nat /\ "close" \notin Lines

VARIABLES
  calls,     \* accepted calls in order: a line to append, or "close"
  finished,  \* how many of them have run to their end
  step,      \* the await the running call is suspended on
  offset,    \* chunks of its line already written
  failed,    \* FileDurability.failed
  closed,    \* FileDurability.closed
  dirSynced, \* FileDurability.dirSynced
  handle,    \* a file handle is open (FileDurability.fh)
  file,      \* the file: the chunks written to it
  synced,    \* how many of them are on the disk
  named,     \* the directory entry of the file is on the disk
  reply,     \* reply[l]: what append(l) has answered
  power      \* the machine runs

fdVars == << calls, finished, step, offset, failed, closed, dirSynced, handle,
             file, synced, named, reply, power >>

Steps == {"rest", "open", "write", "sync", "syncdir", "closing"}
Chunks == [line : Lines, part : 1 .. Size]
Busy == finished < Len(calls)
Current == calls[finished + 1]
Closes == Cardinality({i \in 1 .. Len(calls) : calls[i] = "close"})

FdTypeOK ==
  /\ calls \in Seq(Lines \cup {"close"})
  /\ finished \in 0 .. Len(calls)
  /\ step \in Steps
  /\ step # "rest" => Busy
  /\ offset \in 0 .. Size
  /\ << failed, closed, dirSynced, handle, named, power >> \in
       BOOLEAN \X BOOLEAN \X BOOLEAN \X BOOLEAN \X BOOLEAN \X BOOLEAN
  /\ file \in Seq(Chunks)
  /\ synced \in 0 .. Len(file)
  /\ reply \in [Lines -> {"none", "waiting", "ok", "rejected"}]

\* A new file, or one whose directory entry is already safe.
FdInit ==
  /\ calls = << >> /\ finished = 0 /\ step = "rest" /\ offset = 0
  /\ failed = FALSE /\ closed = FALSE /\ dirSynced = FALSE /\ handle = FALSE
  /\ file = << >> /\ synced = 0 /\ named \in BOOLEAN
  /\ reply = [l \in Lines |-> "none"]
  /\ power = TRUE

-------------------------------------------------------------------------------
\* The checks append() makes before it returns its promise.
TurnedAway == closed \/ failed

\* append(l): answered at once, or queued.
CallAppend(l) ==
  /\ reply[l] = "none"
  /\ IF TurnedAway
     THEN /\ reply' = [reply EXCEPT ![l] = "rejected"]
          /\ UNCHANGED calls
     ELSE /\ reply' = [reply EXCEPT ![l] = "waiting"]
          /\ calls' = Append(calls, l)
  /\ UNCHANGED << finished, step, offset, failed, closed, dirSynced, handle, file, synced, named, power >>

\* close(): no new append from now on; the handle is closed in turn.
CallClose ==
  /\ Closes < MaxCloses
  /\ closed' = TRUE
  /\ calls' = Append(calls, "close")
  /\ UNCHANGED << finished, step, offset, failed, dirSynced, handle, file, synced, named, reply, power >>

\* Mutant: only a call that succeeded lets the next one run.
FinishOnSuccess(answer) ==
  /\ finished' = IF answer = "ok" THEN finished + 1 ELSE finished
  /\ step' = "rest"
  /\ reply' = IF Current \in Lines THEN [reply EXCEPT ![Current] = answer] ELSE reply
\* The current call ends; the next one runs, whatever the outcome.
Finish(answer) ==
  /\ finished' = finished + 1
  /\ step' = "rest"
  /\ reply' = IF Current \in Lines THEN [reply EXCEPT ![Current] = answer] ELSE reply

\* Mutant: a queued append does not look at what its predecessors left.
MayRunQueued == TRUE
\* The second look at `failed', when the run of an append begins.
MayRun == ~failed

\* The next call of the queue begins.
StartAppend ==
  /\ step = "rest" /\ Busy /\ Current \in Lines
  /\ IF MayRun
     THEN /\ step' = IF handle THEN "write" ELSE "open"
          /\ offset' = 0
          /\ UNCHANGED << finished, reply >>
     ELSE Finish("rejected") /\ UNCHANGED offset
  /\ UNCHANGED << calls, failed, closed, dirSynced, handle, file, synced, named, power >>

StartClose ==
  /\ step = "rest" /\ Busy /\ Current = "close"
  /\ handle' = FALSE
  /\ IF handle THEN step' = "closing" /\ UNCHANGED << finished, reply >>
               ELSE Finish("ok")
  /\ UNCHANGED << calls, offset, failed, closed, dirSynced, file, synced, named, power >>

Opened ==
  /\ step = "open"
  /\ handle' = TRUE
  /\ step' = "write"
  /\ UNCHANGED << calls, finished, offset, failed, closed, dirSynced, file, synced, named, reply, power >>

\* write() reports n chunks more; the loop goes on until the line is complete.
Wrote(n) ==
  /\ step = "write"
  /\ offset + n <= Size
  /\ file' = file \o [k \in 1 .. n |-> [line |-> Current, part |-> offset + k]]
  /\ offset' = offset + n
  /\ step' = IF offset + n = Size THEN "sync" ELSE "write"
  /\ UNCHANGED << calls, finished, failed, closed, dirSynced, handle, synced, named, reply, power >>

\* Mutant: the line is confirmed although the name of a new file is not.
SyncedAlone ==
  /\ step = "sync"
  /\ synced' = Len(file)
  /\ Finish("ok")
  /\ UNCHANGED << calls, offset, failed, closed, dirSynced, handle, file, named, power >>
\* datasync() is back: the first line also syncs the directory.
Synced ==
  /\ step = "sync"
  /\ synced' = Len(file)
  /\ IF dirSynced THEN Finish("ok") ELSE step' = "syncdir" /\ UNCHANGED << finished, reply >>
  /\ UNCHANGED << calls, offset, failed, closed, dirSynced, handle, file, named, power >>

DirSynced ==
  /\ step = "syncdir"
  /\ named' = TRUE
  /\ dirSynced' = TRUE
  /\ Finish("ok")
  /\ UNCHANGED << calls, offset, failed, closed, handle, file, synced, power >>

\* Mutant: only a failed write counts as a failure of the instance.
WriteUnsure(s) == s = "write"
\* The awaits after whose failure the outcome is unknown: all of them.
Unsure(s) == s \in Steps

\* An await of an append throws (open, write or no progress, datasync, sync).
StepFails ==
  /\ step \in {"open", "write", "sync", "syncdir"}
  /\ failed' = (failed \/ Unsure(step))
  /\ Finish("rejected")
  /\ UNCHANGED << calls, offset, closed, dirSynced, handle, file, synced, named, power >>

\* The handle of close() is closed, or its close() throws: the call is over.
HandleClosed ==
  /\ step = "closing"
  /\ Finish("ok")
  /\ UNCHANGED << calls, offset, failed, closed, dirSynced, handle, file, synced, named, power >>

\* The file without the torn line at its end, if there is one.
Mended ==
  IF file = << >> \/ file[Len(file)].part = Size
  THEN file
  ELSE SubSeq(file, 1, Len(file) - file[Len(file)].part)

\* The host has mended the tail, as markRepaired() asks of it, and unlocks.
MarkRepaired ==
  /\ failed
  /\ failed' = FALSE
  /\ file' = Mended
  /\ synced' = IF synced < Len(Mended) THEN synced ELSE Len(Mended)
  /\ UNCHANGED << calls, finished, step, offset, closed, dirSynced, handle, named, reply, power >>

\* The machine goes down; nothing of this instance runs any more.
PowerLoss ==
  /\ power' = FALSE
  /\ \E n \in (IF named THEN synced ELSE 0) .. Len(file) :
       /\ file' = SubSeq(file, 1, n)
       /\ synced' = n
  /\ UNCHANGED << calls, finished, step, offset, failed, closed, dirSynced, handle, named, reply >>

-------------------------------------------------------------------------------
RunStep ==
  \/ StartAppend
  \/ StartClose
  \/ Opened
  \/ \E n \in 1 .. Size : Wrote(n)
  \/ Synced
  \/ DirSynced
  \/ StepFails
  \/ HandleClosed

FdNext ==
  /\ power
  /\ \/ \E l \in Lines : CallAppend(l)
     \/ CallClose
     \/ RunStep
     \/ MarkRepaired
     \/ PowerLoss

FdSpec == FdInit /\ [][FdNext]_fdVars
\* Every file operation the code awaits is answered, with success or an error.
FdFairSpec == FdSpec /\ WF_fdVars(power /\ RunStep)

-------------------------------------------------------------------------------
\* All chunks of l stand in the file, one after the other.
Whole(l) ==
  \E i \in 0 .. Len(file) - Size :
    \A k \in 1 .. Size : file[i + k] = [line |-> l, part |-> k]

\* A line whose append resolved is in the file, complete, whatever else fails
\* and even when the machine loses power right after the answer: datasync and,
\* for a new file, the sync of its directory come before the answer.
ConfirmedSurvives == \A l \in Lines : reply[l] = "ok" => Whole(l)

\* Only the very end of the file can be a torn line: what follows a part is the
\* next part of the same line, and a line follows a complete one.  A call queued
\* behind a failed write is not glued to the fragment that write left.
TornOnlyAtTheEnd ==
  \A i \in 1 .. Len(file) - 1 :
    LET this == file[i]  next == file[i + 1]
    IN IF this.part < Size
       THEN next = [line |-> this.line, part |-> this.part + 1]
       ELSE next.part = 1

\* Every append is answered, also one queued behind a failure or a close.
EveryCallIsAnswered ==
  \A l \in Lines : reply[l] = "waiting" ~> (reply[l] \in {"ok", "rejected"} \/ ~power)

\* What the gate and the coordinator assume of their port.  Only the end of the
\* file may be torn, so every Size-th chunk ends a line.
WholeLines == [n \in 1 .. Len(file) \div Size |-> file[n * Size].line]
Port == INSTANCE DurabilityPort WITH
          landed <- WholeLines, answer <- reply, sealed <- failed \/ ~power
\* The instance implements the durability port: lines land in file order, each
\* before its answer, and none after a rejection.
ImplementsPort == Port!PortSpec
===============================================================================
