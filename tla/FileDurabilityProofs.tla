------------------------- MODULE FileDurabilityProofs -------------------------
(***************************************************************************)
(* What holds of FileDurability for every set of lines, every size of a    *)
(* line and every number of calls of close(): its types, the two promises  *)
(* about the file, and that it implements DurabilityPort.                  *)
(*                                                                         *)
(* FdInv says of the file that it is a row of whole lines with at most one *)
(* torn line behind them, each chunk once (FileSound); of the queue that a *)
(* call is answered exactly when its run has ended, and that a chunk in    *)
(* the file belongs to a run that began (QueueSound, ChunksHaveCalls); and *)
(* of the run at work that its line is the end of the file (RunSound).     *)
(***************************************************************************)
EXTENDS FileDurability, SequenceTheorems, TLAPS

Writing == step \in {"write", "sync", "syncdir"}
Chunk(l, k) == [line |-> l, part |-> k]

FdTypes ==
  /\ calls \in Seq(Lines \cup {"close"})
  /\ finished \in 0 .. Len(calls)
  /\ step \in Steps
  /\ offset \in 0 .. Size
  /\ failed \in BOOLEAN /\ closed \in BOOLEAN /\ dirSynced \in BOOLEAN
  /\ handle \in BOOLEAN /\ named \in BOOLEAN /\ power \in BOOLEAN
  /\ file \in Seq(Chunks)
  /\ synced \in 0 .. Len(file)
  /\ reply \in [Lines -> {"none", "waiting", "ok", "rejected"}]

\* Which call the queue is at, and what the other calls were told.
QueueSound ==
  /\ step # "rest" => Busy
  /\ step \in {"open", "write", "sync", "syncdir"} => Current \in Lines
  /\ step = "closing" => Current = "close"
  /\ \A i \in 1 .. Len(calls) : calls[i] \in Lines =>
       IF i <= finished THEN reply[calls[i]] \in {"ok", "rejected"}
                        ELSE reply[calls[i]] = "waiting"
  /\ \A i, j \in 1 .. Len(calls) : calls[i] \in Lines /\ calls[i] = calls[j] => i = j

\* Before every chunk stand the earlier parts of its line and, before those, whole
\* lines; behind a part that is not the last stands the next one, and no chunk is
\* there twice.
FileSound ==
  /\ \A i \in 1 .. Len(file) :
       /\ file[i].part <= i
       /\ \A k \in 1 .. file[i].part :
            file[i - file[i].part + k] = Chunk(file[i].line, k)
       /\ \E q \in 0 .. i : i = q * Size + file[i].part
  /\ TornOnlyAtTheEnd
  /\ \A i, j \in 1 .. Len(file) : file[i] = file[j] => i = j

EndsWhole == file = << >> \/ file[Len(file)].part = Size

\* The line of the run at work is the end of the file; a run stops at its first
\* failure, and nothing begins while the instance is failed.
RunSound ==
  /\ failed => step \in {"rest", "closing"}
  /\ step = "open" => offset = 0
  /\ step = "write" => offset < Size
  /\ step \in {"sync", "syncdir"} => offset = Size
  /\ step \in {"write", "sync", "syncdir"} =>
       /\ offset <= Len(file)
       /\ \A k \in 1 .. offset : file[Len(file) - offset + k] = Chunk(Current, k)
  /\ ~failed /\ (step # "write" \/ offset = 0) => EndsWhole
  /\ step = "syncdir" => synced = Len(file)

\* A chunk in the file was written by a run: an earlier one, or the one at work.
ChunksHaveCalls ==
  \A i \in 1 .. Len(file) : \E c \in 1 .. Len(calls) :
    /\ calls[c] = file[i].line
    /\ \/ c <= finished
       \/ c = finished + 1 /\ Writing /\ i > Len(file) - offset

\* What was confirmed is on the disk.
OnDisk(l) ==
  /\ named
  /\ \E i \in 0 .. synced - Size : \A k \in 1 .. Size : file[i + k] = Chunk(l, k)
ConfirmedOnDisk ==
  /\ dirSynced => named
  /\ \A l \in Lines : reply[l] = "ok" => OnDisk(l)

FdInv ==
  /\ FdTypes
  /\ QueueSound
  /\ FileSound
  /\ power => RunSound /\ ChunksHaveCalls
  /\ ConfirmedOnDisk

USE SizeAssumption DEF Chunk, Chunks, Steps, Busy, Current, Writing

-------------------------------------------------------------------------------
(* The file as a sequence: how a write and a cut change it *)

LEMMA FunctionIsSeq ==
  ASSUME NEW S, NEW n \in Nat, NEW f \in [1 .. n -> S]
  PROVE  f \in Seq(S) /\ Len(f) = n
OBVIOUS

LEMMA FileTypes ==
  ASSUME FdTypes
  PROVE  /\ file \in Seq(Chunks) /\ Len(file) \in Nat
         /\ \A i \in 1 .. Len(file) :
              file[i] \in Chunks /\ file[i].line \in Lines /\ file[i].part \in 1 .. Size
<1>1. file \in Seq(Chunks) BY DEF FdTypes
<1> HIDE DEF Chunks
<1>2. \A i \in 1 .. Len(file) : file[i] \in Chunks
  BY <1>1, ElementOfSeq
<1>3. Len(file) \in Nat BY <1>1, LenProperties
<1>4. QED BY <1>1, <1>2, <1>3 DEF Chunks

\* A write of n chunks puts the next n parts of the line behind the file.
LEMMA FileGrows ==
  ASSUME FdTypes, NEW n \in 1 .. Size, Wrote(n), Current \in Lines
  PROVE  /\ file' \in Seq(Chunks)
         /\ Len(file') = Len(file) + n
         /\ \A i \in 1 .. Len(file) : file'[i] = file[i]
         /\ \A k \in 1 .. n : file'[Len(file) + k] = Chunk(Current, offset + k)
<1> DEFINE new == [k \in 1 .. n |-> Chunk(Current, offset + k)]
<1>1. new \in Seq(Chunks) /\ Len(new) = n
  <2>1. \A k \in 1 .. n : Chunk(Current, offset + k) \in Chunks
    BY DEF FdTypes, Wrote
  <2>2. new \in [1 .. n -> Chunks] /\ n \in Nat
    BY <2>1
  <2> HIDE DEF new
  <2>3. QED BY <2>2, FunctionIsSeq
<1>2. file \in Seq(Chunks) /\ file' = file \o new
  BY DEF FdTypes, Wrote
<1>3. /\ file' \in Seq(Chunks)
      /\ Len(file') = Len(file) + n
      /\ \A i \in 1 .. Len(file) + n :
           file'[i] = IF i <= Len(file) THEN file[i] ELSE new[i - Len(file)]
  BY <1>1, <1>2, ConcatProperties
<1> HIDE DEF new
<1>4. \A k \in 1 .. n : new[k] = Chunk(Current, offset + k)
  BY DEF new
<1>5. Len(file) \in Nat
  BY <1>2
<1>6. \A i \in 1 .. Len(file) : file'[i] = file[i]
  BY <1>3, <1>5
<1>7. ASSUME NEW k \in 1 .. n PROVE file'[Len(file) + k] = new[k]
  <2>1. Len(file) + k \in 1 .. Len(file) + n /\ ~(Len(file) + k <= Len(file))
    BY <1>5
  <2>2. Len(file) + k - Len(file) = k
    BY <1>5
  <2>3. QED BY <1>3, <2>1, <2>2
<1>8. QED BY <1>3, <1>4, <1>6, <1>7

\* A cut keeps the chunks before it.
LEMMA FileCut ==
  ASSUME FdTypes, NEW n \in 0 .. Len(file), file' = SubSeq(file, 1, n)
  PROVE  /\ file' \in Seq(Chunks)
         /\ Len(file') = n
         /\ \A i \in 1 .. n : file'[i] = file[i]
<1>1. file \in Seq(Chunks) /\ \A i \in 1 .. n : file[i] \in Chunks
  BY FileTypes
<1>2. n \in Int /\ 1 \in Int
  OBVIOUS
<1>3. QED BY <1>1, <1>2, SubSeqProperties

\* Mending is such a cut: before the torn line, if there is one.
LEMMA MendedIsCut ==
  ASSUME FdTypes, FileSound
  PROVE  \E n \in 0 .. Len(file) :
           /\ Mended = SubSeq(file, 1, n)
           /\ n = 0 \/ file[n].part = Size
           /\ \A i \in n + 1 .. Len(file) : file[i].part < Size
           /\ \E r \in 0 .. Size - 1 : Len(file) = n + r
<1>0. /\ Len(file) \in Nat /\ file \in Seq(Chunks)
      /\ \A i \in 1 .. Len(file) : file[i].part \in 1 .. Size
  BY FileTypes
<1>1. CASE file = << >> \/ file[Len(file)].part = Size
  <2>1. Mended = SubSeq(file, 1, Len(file))
    BY <1>0, <1>1, SubSeqFull DEF Mended
  <2>2. Len(file) = 0 \/ file[Len(file)].part = Size
    BY <1>0, <1>1, EmptySeq
  <2>3. Len(file) \in 0 .. Len(file) /\ Len(file) + 1 .. Len(file) = {} /\ Len(file) = Len(file) + 0
    BY <1>0
  <2> DEFINE n == Len(file)
  <2>4. /\ n \in 0 .. Len(file) /\ Mended = SubSeq(file, 1, n)
        /\ n = 0 \/ file[n].part = Size
        /\ \A i \in n + 1 .. Len(file) : file[i].part < Size
        /\ 0 \in 0 .. Size - 1 /\ Len(file) = n + 0
    BY <2>1, <2>2, <2>3
  <2> HIDE DEF n
  <2>5. QED BY <2>4
<1>2. CASE ~(file = << >> \/ file[Len(file)].part = Size)
  <2>1. Len(file) \in 1 .. Len(file)
    BY <1>0, <1>2, EmptySeq
  <2>2. file[Len(file)].part \in 1 .. Size - 1 /\ file[Len(file)].part <= Len(file)
    BY <1>0, <1>2, <2>1 DEF FileSound
  <2>3. PICK r \in 1 .. Size - 1 : r = file[Len(file)].part /\ r <= Len(file)
    BY <2>2
  <2>4. PICK n \in 0 .. Len(file) : n = Len(file) - r
    BY <1>0, <2>3
  <2>5. Len(file) = n + r /\ r \in 0 .. Size - 1
    BY <1>0, <2>3, <2>4
  <2>6. Mended = SubSeq(file, 1, n)
    BY <1>2, <2>3, <2>4 DEF Mended
  <2>7. \A k \in 1 .. r : file[n + k] = Chunk(file[Len(file)].line, k)
    BY <2>1, <2>3, <2>4 DEF FileSound
  <2>8. ASSUME NEW i \in n + 1 .. Len(file) PROVE file[i].part < Size
    <3>1. PICK k \in 1 .. r : i = n + k
      BY <1>0, <2>5
    <3>2. file[n + k] = Chunk(file[Len(file)].line, k)
      BY <2>7
    <3>3. file[i].part = k
      BY <3>1, <3>2
    <3>4. QED BY <3>1, <3>3
  <2>9. n = 0 \/ file[n].part = Size
    <3> SUFFICES ASSUME n # 0 PROVE file[n].part = Size
      OBVIOUS
    <3>0. n \in Nat /\ r \in Nat /\ r >= 1 /\ n >= 1
      BY <1>0, <2>3
    <3>1. n \in 1 .. Len(file) - 1 /\ n \in 1 .. Len(file)
      BY <1>0, <3>0, <2>5
    <3>2. 1 \in 1 .. r
      BY <2>3
    <3>3. file[n + 1] = Chunk(file[Len(file)].line, 1)
      BY <2>7, <3>2
    <3>4. file[n + 1].part = 1 /\ file[n].part \in 1 .. Size
      BY <1>0, <3>1, <3>3
    <3>5. IF file[n].part < Size
          THEN file[n + 1] = Chunk(file[n].line, file[n].part + 1)
          ELSE file[n + 1].part = 1
      BY <3>1 DEF FileSound, TornOnlyAtTheEnd
    <3>6. QED BY <3>4, <3>5
  <2>10. QED BY <2>5, <2>6, <2>8, <2>9
<1>3. QED BY <1>1, <1>2

LEMMA CutKeepsFileSound ==
  ASSUME FdTypes, FileSound, NEW n \in 0 .. Len(file), file' = SubSeq(file, 1, n)
  PROVE  FileSound'
<1>1. Len(file) \in Nat /\ Len(file') = n /\ \A i \in 1 .. n : file'[i] = file[i]
  BY FileCut, FileTypes
<1>2. \A i \in 1 .. Len(file) : file[i] \in Chunks
  BY FileTypes
<1>3. \A i \in 1 .. n :
        /\ file'[i].part <= i
        /\ \A k \in 1 .. file'[i].part :
             file'[i - file'[i].part + k] = Chunk(file'[i].line, k)
        /\ \E q \in 0 .. i : i = q * Size + file'[i].part
  <2> SUFFICES ASSUME NEW i \in 1 .. n
               PROVE  /\ file'[i].part <= i
                      /\ \A k \in 1 .. file'[i].part :
                           file'[i - file'[i].part + k] = Chunk(file'[i].line, k)
                      /\ \E q \in 0 .. i : i = q * Size + file'[i].part
    OBVIOUS
  <2>1. file'[i] = file[i] /\ i \in 1 .. Len(file) /\ file[i].part \in 1 .. Size
    BY <1>1, <1>2
  <2>2. file[i].part <= i /\ \E q \in 0 .. i : i = q * Size + file[i].part
    BY <2>1 DEF FileSound
  <2>3. \A k \in 1 .. file[i].part : i - file[i].part + k \in 1 .. n
    BY <2>1, <2>2
  <2>4. \A k \in 1 .. file[i].part :
          file[i - file[i].part + k] = Chunk(file[i].line, k)
    BY <2>1 DEF FileSound
  <2>5. QED BY <2>1, <2>2, <2>3, <2>4, <1>1
<1>4. TornOnlyAtTheEnd'
  BY <1>1 DEF FileSound, TornOnlyAtTheEnd
<1>5. \A i, j \in 1 .. n : file'[i] = file'[j] => i = j
  BY <1>1 DEF FileSound
<1>6. QED BY <1>1, <1>3, <1>4, <1>5 DEF FileSound

-------------------------------------------------------------------------------
(* Types and the queue *)

LEMMA FdTypesInit == FdInit => FdTypes
<1> SUFFICES ASSUME FdInit PROVE FdTypes
  OBVIOUS
<1>1. << >> \in Seq(Lines \cup {"close"}) /\ << >> \in Seq(Chunks) /\ Len(<< >>) = 0
  BY EmptySeq
<1>2. /\ calls \in Seq(Lines \cup {"close"}) /\ finished \in 0 .. Len(calls)
      /\ file \in Seq(Chunks) /\ synced \in 0 .. Len(file)
  BY <1>1 DEF FdInit
<1>3. offset \in 0 .. Size /\ reply \in [Lines -> {"none", "waiting", "ok", "rejected"}]
  BY DEF FdInit
<1>4. QED BY <1>2, <1>3 DEF FdInit, FdTypes

\* The end of a call puts an answer of the caller in place of the current one.
LEMMA FinishTypes ==
  ASSUME FdTypes, Busy, NEW a \in {"ok", "rejected"}, Finish(a)
  PROVE  /\ finished' = finished + 1 /\ finished' \in 0 .. Len(calls)
         /\ step' = "rest"
         /\ reply' \in [Lines -> {"none", "waiting", "ok", "rejected"}]
BY LenProperties DEF FdTypes, Finish

LEMMA FdTypesStep == ASSUME FdTypes, QueueSound, FileSound, [FdNext]_fdVars PROVE FdTypes'
<1> USE DEF FdTypes
<1>0. Len(calls) \in Nat /\ Len(file) \in Nat
  BY LenProperties
<1>1. ASSUME NEW l \in Lines, CallAppend(l) PROVE FdTypes'
  <2>1. CASE TurnedAway
    BY <1>1, <2>1 DEF CallAppend
  <2>2. CASE ~TurnedAway
    <3>1. calls' = Append(calls, l) /\ l \in Lines \cup {"close"}
      BY <1>1, <2>2 DEF CallAppend
    <3>2. calls' \in Seq(Lines \cup {"close"}) /\ Len(calls') = Len(calls) + 1
      BY <3>1, AppendProperties
    <3>3. finished' \in 0 .. Len(calls')
      BY <1>0, <1>1, <3>2 DEF CallAppend
    <3>4. QED BY <1>1, <2>2, <3>2, <3>3 DEF CallAppend
  <2>3. QED BY <2>1, <2>2
<1>2. CASE CallClose
  <2>1. calls' \in Seq(Lines \cup {"close"}) /\ Len(calls') = Len(calls) + 1
    BY <1>2, AppendProperties DEF CallClose
  <2>2. QED BY <1>0, <1>2, <2>1 DEF CallClose
<1>3. CASE StartAppend
  <2>1. CASE MayRun BY <1>3, <2>1 DEF StartAppend
  <2>2. CASE ~MayRun BY <1>3, <2>2, FinishTypes DEF StartAppend
  <2>3. QED BY <2>1, <2>2
<1>4. CASE StartClose
  <2>1. CASE handle BY <1>4, <2>1 DEF StartClose
  <2>2. CASE ~handle BY <1>4, <2>2, FinishTypes DEF StartClose
  <2>3. QED BY <2>1, <2>2
<1>5. CASE Opened BY <1>5 DEF Opened
<1>6. ASSUME NEW n \in 1 .. Size, Wrote(n) PROVE FdTypes'
  <2>1. file' \in Seq(Chunks) /\ Len(file') = Len(file) + n
    BY <1>6, FileGrows DEF QueueSound, Wrote
  <2>2. synced' \in 0 .. Len(file') /\ offset' \in 0 .. Size
    BY <1>0, <1>6, <2>1 DEF Wrote
  <2>3. QED BY <1>6, <2>1, <2>2 DEF Wrote
<1>7. CASE Synced
  <2>1. synced' \in 0 .. Len(file)
    BY <1>0, <1>7 DEF Synced
  <2>2. CASE dirSynced BY <1>7, <2>1, <2>2, FinishTypes DEF Synced, QueueSound
  <2>3. CASE ~dirSynced BY <1>7, <2>1, <2>3 DEF Synced
  <2>4. QED BY <2>2, <2>3
<1>8. CASE DirSynced BY <1>8, FinishTypes DEF DirSynced, QueueSound
<1>9. CASE StepFails BY <1>9, FinishTypes DEF StepFails, QueueSound, Unsure
<1>10. CASE HandleClosed BY <1>10, FinishTypes DEF HandleClosed, QueueSound
<1>11. CASE MarkRepaired
  <2>1. PICK n \in 0 .. Len(file) : Mended = SubSeq(file, 1, n)
    BY MendedIsCut
  <2>2. file' \in Seq(Chunks) /\ Len(file') = n /\ file' = Mended
    BY <1>11, <2>1, FileCut DEF MarkRepaired
  <2>3. synced' \in 0 .. Len(file')
    BY <1>0, <1>11, <2>2 DEF MarkRepaired
  <2>4. QED BY <1>11, <2>2, <2>3 DEF MarkRepaired
<1>12. CASE PowerLoss
  <2>1. PICK n \in (IF named THEN synced ELSE 0) .. Len(file) :
          file' = SubSeq(file, 1, n) /\ synced' = n
    BY <1>12 DEF PowerLoss
  <2>2. n \in 0 .. Len(file)
    BY <1>0, <2>1
  <2>3. file' \in Seq(Chunks) /\ Len(file') = n
    BY <2>1, <2>2, FileCut
  <2>4. synced' \in 0 .. Len(file')
    BY <2>1, <2>2, <2>3
  <2>5. QED BY <1>12, <2>3, <2>4 DEF PowerLoss
<1>13. CASE UNCHANGED fdVars BY <1>13 DEF fdVars
<1>14. QED
  BY <1>1, <1>2, <1>3, <1>4, <1>5, <1>6, <1>7, <1>8, <1>9, <1>10, <1>11, <1>12, <1>13
  DEF FdNext, RunStep

LEMMA QueueSoundInit == FdInit => QueueSound
BY DEF FdInit, QueueSound

\* A call that ends has its answer; the calls before and behind keep theirs.
LEMMA FinishKeepsQueue ==
  ASSUME FdTypes, QueueSound, Busy, NEW a \in {"ok", "rejected"}, Finish(a), UNCHANGED calls
  PROVE  QueueSound'
<1>0. /\ Len(calls) \in Nat /\ finished \in 0 .. Len(calls)
      /\ finished' = finished + 1 /\ step' = "rest" /\ calls' = calls
      /\ reply \in [Lines -> {"none", "waiting", "ok", "rejected"}]
  BY LenProperties DEF FdTypes, Finish
<1>1. finished + 1 \in 1 .. Len(calls)
  BY <1>0
<1>2. ASSUME NEW i \in 1 .. Len(calls), calls[i] \in Lines
      PROVE  IF i <= finished' THEN reply'[calls[i]] \in {"ok", "rejected"}
                               ELSE reply'[calls[i]] = "waiting"
  <2>1. CASE i = finished + 1
    BY <1>0, <1>2, <2>1 DEF Finish
  <2>2. CASE i # finished + 1
    <3>1. Current \in Lines => calls[i] # Current
      BY <1>1, <2>2 DEF QueueSound
    <3>2. reply'[calls[i]] = reply[calls[i]]
      BY <1>0, <1>2, <3>1 DEF Finish
    <3>3. i <= finished' <=> i <= finished
      BY <1>0, <2>2
    <3>4. QED BY <1>2, <3>2, <3>3 DEF QueueSound
  <2>3. QED BY <2>1, <2>2
<1>3. \A i, j \in 1 .. Len(calls) : calls[i] \in Lines /\ calls[i] = calls[j] => i = j
  BY DEF QueueSound
<1>4. QED BY <1>0, <1>2, <1>3 DEF QueueSound

\* A call that joins the queue is behind it, and waits.
LEMMA QueueGrows ==
  ASSUME FdTypes, QueueSound, NEW c \in Lines \cup {"close"}, calls' = Append(calls, c),
         c \in Lines => reply[c] = "none" /\ reply' = [reply EXCEPT ![c] = "waiting"],
         c \notin Lines => reply' = reply,
         UNCHANGED << finished, step >>
  PROVE  QueueSound'
<1>0. /\ Len(calls) \in Nat /\ finished \in 0 .. Len(calls)
      /\ reply \in [Lines -> {"none", "waiting", "ok", "rejected"}]
      /\ calls \in Seq(Lines \cup {"close"})
  BY LenProperties DEF FdTypes
<1>1. /\ Len(calls') = Len(calls) + 1
      /\ \A i \in 1 .. Len(calls) : calls'[i] = calls[i]
      /\ calls'[Len(calls) + 1] = c
  BY <1>0, AppendProperties
<1>2. Busy => Busy' /\ Current' = Current
  BY <1>0, <1>1
<1>3. \A i \in 1 .. Len(calls) : calls[i] \in Lines => reply[calls[i]] # "none"
  BY DEF QueueSound
<1>4. \A i \in 1 .. Len(calls) : calls[i] \in Lines => calls[i] # c
  BY <1>3
<1>5. ASSUME NEW i \in 1 .. Len(calls'), calls'[i] \in Lines
      PROVE  IF i <= finished' THEN reply'[calls'[i]] \in {"ok", "rejected"}
                               ELSE reply'[calls'[i]] = "waiting"
  <2>1. CASE i = Len(calls) + 1
    BY <1>0, <1>1, <1>5, <2>1
  <2>2. CASE i # Len(calls) + 1
    <3>1. i \in 1 .. Len(calls) /\ calls'[i] = calls[i] /\ calls[i] # c
      BY <1>0, <1>1, <1>4, <1>5, <2>2
    <3>2. reply'[calls[i]] = reply[calls[i]]
      BY <1>0, <1>5, <3>1
    <3>3. QED BY <1>5, <3>1, <3>2 DEF QueueSound
  <2>3. QED BY <2>1, <2>2
<1>6. ASSUME NEW i \in 1 .. Len(calls'), NEW j \in 1 .. Len(calls'),
             calls'[i] \in Lines, calls'[i] = calls'[j]
      PROVE  i = j
  <2>1. i \in 1 .. Len(calls) \/ i = Len(calls) + 1
    BY <1>0, <1>1
  <2>2. j \in 1 .. Len(calls) \/ j = Len(calls) + 1
    BY <1>0, <1>1
  <2>3. CASE i \in 1 .. Len(calls) /\ j \in 1 .. Len(calls)
    BY <1>1, <1>6, <2>3 DEF QueueSound
  <2>4. CASE ~(i \in 1 .. Len(calls) /\ j \in 1 .. Len(calls))
    BY <1>1, <1>4, <1>6, <2>1, <2>2, <2>4
  <2>5. QED BY <2>3, <2>4
<1>7. QED BY <1>2, <1>5, <1>6 DEF QueueSound

LEMMA QueueSoundStep == ASSUME FdTypes, QueueSound, [FdNext]_fdVars PROVE QueueSound'
<1>1. ASSUME NEW l \in Lines, CallAppend(l) PROVE QueueSound'
  <2>1. CASE TurnedAway
    <3>1. /\ UNCHANGED << calls, finished, step >> /\ reply' = [reply EXCEPT ![l] = "rejected"]
          /\ reply[l] = "none" /\ reply \in [Lines -> {"none", "waiting", "ok", "rejected"}]
      BY <1>1, <2>1 DEF CallAppend, FdTypes
    <3>2. \A i \in 1 .. Len(calls) : calls[i] \in Lines => reply'[calls[i]] = reply[calls[i]]
      BY <3>1 DEF QueueSound
    <3>3. QED BY <3>1, <3>2 DEF QueueSound
  <2>2. CASE ~TurnedAway
    BY <1>1, <2>2, QueueGrows DEF CallAppend
  <2>3. QED BY <2>1, <2>2
<1>2. CASE CallClose
  BY <1>2, QueueGrows DEF CallClose
<1>3. CASE StartAppend
  <2>1. CASE MayRun BY <1>3, <2>1 DEF StartAppend, QueueSound
  <2>2. CASE ~MayRun BY <1>3, <2>2, FinishKeepsQueue DEF StartAppend
  <2>3. QED BY <2>1, <2>2
<1>4. CASE StartClose
  <2>1. CASE handle BY <1>4, <2>1 DEF StartClose, QueueSound
  <2>2. CASE ~handle BY <1>4, <2>2, FinishKeepsQueue DEF StartClose
  <2>3. QED BY <2>1, <2>2
<1>5. CASE Opened BY <1>5 DEF Opened, QueueSound
<1>6. ASSUME NEW n \in 1 .. Size, Wrote(n) PROVE QueueSound'
  BY <1>6 DEF Wrote, QueueSound
<1>7. CASE Synced
  <2>1. CASE dirSynced BY <1>7, <2>1, FinishKeepsQueue DEF Synced, QueueSound
  <2>2. CASE ~dirSynced BY <1>7, <2>2 DEF Synced, QueueSound
  <2>3. QED BY <2>1, <2>2
<1>8. CASE DirSynced BY <1>8, FinishKeepsQueue DEF DirSynced, QueueSound
<1>9. CASE StepFails BY <1>9, FinishKeepsQueue DEF StepFails, QueueSound
<1>10. CASE HandleClosed BY <1>10, FinishKeepsQueue DEF HandleClosed, QueueSound
<1>11. CASE MarkRepaired BY <1>11 DEF MarkRepaired, QueueSound
<1>12. CASE PowerLoss BY <1>12 DEF PowerLoss, QueueSound
<1>13. CASE UNCHANGED fdVars BY <1>13 DEF fdVars, QueueSound
<1>14. QED
  BY <1>1, <1>2, <1>3, <1>4, <1>5, <1>6, <1>7, <1>8, <1>9, <1>10, <1>11, <1>12, <1>13
  DEF FdNext, RunStep

-------------------------------------------------------------------------------
(* The file *)

\* Where the next part of the line at work goes: the chunks before it are whole
\* lines and the parts of this line so far, none of which is that part.
LEMMA WriteIsNext ==
  ASSUME FdTypes, QueueSound, FileSound, RunSound, ChunksHaveCalls, step = "write"
  PROVE  /\ Current \in Lines /\ offset \in 0 .. Size - 1 /\ offset <= Len(file)
         /\ \E q \in Nat : Len(file) = q * Size + offset
         /\ IF offset = 0 THEN EndsWhole ELSE file[Len(file)] = Chunk(Current, offset)
         /\ \A i \in 1 .. Len(file) : file[i].line = Current => file[i].part <= offset
<1>0. /\ Len(file) \in Nat /\ \A i \in 1 .. Len(file) : file[i].part \in 1 .. Size
      /\ Len(calls) \in Nat /\ finished \in 0 .. Len(calls)
  BY FileTypes, LenProperties DEF FdTypes
<1>1. Current \in Lines /\ Busy
  BY DEF QueueSound
<1>2. offset \in 0 .. Size - 1 /\ offset <= Len(file)
  BY DEF FdTypes, RunSound
<1>3. \A k \in 1 .. offset : file[Len(file) - offset + k] = Chunk(Current, k)
  BY DEF RunSound
<1>4. IF offset = 0 THEN EndsWhole ELSE file[Len(file)] = Chunk(Current, offset)
  <2>1. CASE offset = 0
    BY <2>1 DEF RunSound
  <2>2. CASE offset # 0
    <3>1. offset \in 1 .. offset /\ Len(file) - offset + offset = Len(file)
      BY <1>0, <1>2, <2>2
    <3>2. QED BY <1>3, <2>2, <3>1
  <2>3. QED BY <2>1, <2>2
<1>5. \E q \in Nat : Len(file) = q * Size + offset
  <2>1. CASE Len(file) = 0
    BY <1>0, <1>2, <2>1
  <2>2. CASE Len(file) # 0
    <3>1. Len(file) \in 1 .. Len(file)
      BY <1>0, <2>2
    <3>2. PICK q \in 0 .. Len(file) : Len(file) = q * Size + file[Len(file)].part
      BY <3>1 DEF FileSound
    <3>3. CASE offset # 0
      BY <1>4, <3>2, <3>3
    <3>4. CASE offset = 0
      <4>1. file[Len(file)].part = Size
        BY <1>4, <2>2, <3>4, EmptySeq DEF EndsWhole
      <4>2. Len(file) = (q + 1) * Size + 0 /\ q + 1 \in Nat
        BY <3>2, <4>1
      <4>3. QED BY <3>4, <4>2
    <3>5. QED BY <3>3, <3>4
  <2>3. QED BY <2>1, <2>2
<1>6. ASSUME NEW i \in 1 .. Len(file), file[i].line = Current PROVE file[i].part <= offset
  <2>1. PICK c \in 1 .. Len(calls) :
          /\ calls[c] = file[i].line
          /\ c <= finished \/ (c = finished + 1 /\ i > Len(file) - offset)
    BY DEF ChunksHaveCalls
  <2>2. finished + 1 \in 1 .. Len(calls)
    BY <1>0, <1>1
  <2>3. c = finished + 1
    BY <1>1, <1>6, <2>1, <2>2 DEF QueueSound
  <2>4. i > Len(file) - offset
    BY <1>0, <2>1, <2>3
  <2>5. PICK k \in 1 .. offset : i = Len(file) - offset + k
    <3>1. i - (Len(file) - offset) \in 1 .. offset
      BY <1>0, <1>2, <2>4
    <3>2. i = Len(file) - offset + (i - (Len(file) - offset))
      BY <1>0, <1>2
    <3>3. QED BY <3>1, <3>2
  <2>6. file[Len(file) - offset + k] = Chunk(Current, k)
    BY <1>3
  <2>7. QED BY <2>5, <2>6
<1>7. QED BY <1>1, <1>2, <1>4, <1>5, <1>6

LEMMA WriteKeepsFileSound ==
  ASSUME FdTypes, QueueSound, FileSound, RunSound, ChunksHaveCalls,
         NEW n \in 1 .. Size, Wrote(n)
  PROVE  FileSound'
<1>1. /\ Current \in Lines /\ offset \in 0 .. Size - 1 /\ offset <= Len(file)
      /\ IF offset = 0 THEN EndsWhole ELSE file[Len(file)] = Chunk(Current, offset)
      /\ \A i \in 1 .. Len(file) : file[i].line = Current => file[i].part <= offset
  BY WriteIsNext DEF Wrote
<1>2. PICK q0 \in Nat : Len(file) = q0 * Size + offset
  BY WriteIsNext DEF Wrote
<1>3. /\ Len(file') = Len(file) + n
      /\ \A i \in 1 .. Len(file) : file'[i] = file[i]
      /\ \A k \in 1 .. n : file'[Len(file) + k] = Chunk(Current, offset + k)
  BY <1>1, FileGrows
<1>4. /\ Len(file) \in Nat
      /\ \A i \in 1 .. Len(file) : file[i].part \in 1 .. Size
  BY FileTypes
<1>5. offset + n <= Size
  BY DEF Wrote
<1>6. ASSUME NEW i \in 1 .. Len(file'), i \notin 1 .. Len(file)
      PROVE  \E k \in 1 .. n : i = Len(file) + k
  <2>1. i - Len(file) \in 1 .. n /\ i = Len(file) + (i - Len(file))
    BY <1>3, <1>4, <1>6
  <2>2. QED BY <2>1
<1>7. \A k \in 1 .. offset : file[Len(file) - offset + k] = Chunk(Current, k)
  BY DEF RunSound, Wrote
<1>8. ASSUME NEW i \in 1 .. Len(file')
      PROVE  /\ file'[i].part <= i
             /\ \A k \in 1 .. file'[i].part :
                  file'[i - file'[i].part + k] = Chunk(file'[i].line, k)
             /\ \E q \in 0 .. i : i = q * Size + file'[i].part
  <2>1. CASE i \in 1 .. Len(file)
    <3>1. file'[i] = file[i] /\ file[i].part \in 1 .. Size
      BY <1>3, <1>4, <2>1
    <3>2. file[i].part <= i /\ \E q \in 0 .. i : i = q * Size + file[i].part
      BY <2>1 DEF FileSound
    <3>3. \A k \in 1 .. file[i].part : i - file[i].part + k \in 1 .. Len(file)
      <4>1. PICK p \in 1 .. Size : p = file[i].part /\ p <= i
        BY <3>1, <3>2
      <4>2. \A k \in 1 .. p : i - p + k \in 1 .. Len(file)
        BY <1>4, <2>1, <4>1
      <4>3. QED BY <4>1, <4>2
    <3>4. \A k \in 1 .. file[i].part :
            file[i - file[i].part + k] = Chunk(file[i].line, k)
      BY <2>1 DEF FileSound
    <3>5. QED BY <1>3, <3>1, <3>2, <3>3, <3>4
  <2>2. ASSUME NEW k \in 1 .. n, i = Len(file) + k
        PROVE  /\ file'[i].part <= i
               /\ \A h \in 1 .. file'[i].part :
                    file'[i - file'[i].part + h] = Chunk(file'[i].line, h)
               /\ \E q \in 0 .. i : i = q * Size + file'[i].part
    <3>1. file'[Len(file) + k] = Chunk(Current, offset + k)
      BY <1>3
    <3>2. file'[i].part = offset + k /\ file'[i].line = Current
      BY <2>2, <3>1
    <3>3. i - (offset + k) = Len(file) - offset /\ offset + k <= i
      BY <1>1, <1>4, <2>2
    <3>4. i = q0 * Size + (offset + k) /\ q0 \in 0 .. i
      <4>1. i = q0 * Size + (offset + k)
        BY <1>1, <1>2, <1>4, <2>2
      <4>2. q0 <= q0 * Size
        OBVIOUS
      <4>3. QED BY <1>1, <4>1, <4>2
    <3>5. ASSUME NEW h \in 1 .. offset + k
          PROVE  file'[Len(file) - offset + h] = Chunk(Current, h)
      <4>1. CASE h <= offset
        <5>1. h \in 1 .. offset /\ Len(file) - offset + h \in 1 .. Len(file)
          BY <1>1, <1>4, <4>1
        <5>2. QED BY <1>3, <1>7, <5>1
      <4>2. CASE h > offset
        <5>1. PICK g \in 1 .. n : h = offset + g /\ Len(file) - offset + h = Len(file) + g
          BY <1>1, <1>4, <4>2
        <5>2. file'[Len(file) + g] = Chunk(Current, offset + g)
          BY <1>3
        <5>3. QED BY <5>1, <5>2
      <4>3. QED BY <1>1, <4>1, <4>2
    <3>6. QED BY <3>2, <3>3, <3>4, <3>5
  <2>3. QED BY <1>6, <2>1, <2>2
<1>9. TornOnlyAtTheEnd'
  <2> SUFFICES ASSUME NEW i \in 1 .. Len(file') - 1
               PROVE  IF file'[i].part < Size
                      THEN file'[i + 1] = Chunk(file'[i].line, file'[i].part + 1)
                      ELSE file'[i + 1].part = 1
    BY DEF TornOnlyAtTheEnd
  <2>1. CASE i < Len(file)
    <3>1. i \in 1 .. Len(file) - 1 /\ i \in 1 .. Len(file) /\ i + 1 \in 1 .. Len(file)
      BY <1>4, <2>1
    <3>2. IF file[i].part < Size
          THEN file[i + 1] = Chunk(file[i].line, file[i].part + 1)
          ELSE file[i + 1].part = 1
      BY <3>1 DEF FileSound, TornOnlyAtTheEnd
    <3>3. QED BY <1>3, <3>1, <3>2
  <2>2. CASE i = Len(file)
    <3>1. 1 \in 1 .. n /\ i \in 1 .. Len(file)
      BY <1>4, <2>2
    <3>2. file'[i + 1] = Chunk(Current, offset + 1) /\ file'[i] = file[i]
      BY <1>3, <2>2, <3>1
    <3>3. CASE offset = 0
      <4>1. file[Len(file)].part = Size
        BY <1>1, <2>2, <3>1, <3>3, EmptySeq DEF EndsWhole
      <4>2. QED BY <2>2, <3>2, <3>3, <4>1
    <3>4. CASE offset # 0
      BY <1>1, <2>2, <3>2, <3>4
    <3>5. QED BY <3>3, <3>4
  <2>3. CASE i > Len(file)
    <3>0. i \in 1 .. Len(file') /\ i \notin 1 .. Len(file) /\ i + 1 <= Len(file) + n
      BY <1>3, <1>4, <2>3
    <3>1. PICK k \in 1 .. n : i = Len(file) + k
      BY <1>6, <3>0
    <3>1a. k + 1 \in 1 .. n /\ i + 1 = Len(file) + (k + 1)
      BY <1>4, <3>0, <3>1
    <3>2. /\ file'[Len(file) + k] = Chunk(Current, offset + k)
          /\ file'[Len(file) + (k + 1)] = Chunk(Current, offset + (k + 1))
      BY <1>3, <3>1a
    <3>3. offset + k < Size /\ offset + (k + 1) = offset + k + 1
      BY <1>1, <1>5, <3>1a
    <3>4. file'[i] = Chunk(Current, offset + k) /\ file'[i + 1] = Chunk(Current, offset + k + 1)
      BY <3>1, <3>1a, <3>2, <3>3
    <3>5. QED BY <3>3, <3>4
  <2>4. QED BY <1>3, <1>4, <2>1, <2>2, <2>3
<1>10. ASSUME NEW i \in 1 .. Len(file'), NEW j \in 1 .. Len(file'), file'[i] = file'[j]
       PROVE  i = j
  <2>1. \A k \in 1 .. n, h \in 1 .. Len(file) : file'[Len(file) + k] # file'[h]
    <3> SUFFICES ASSUME NEW k \in 1 .. n, NEW h \in 1 .. Len(file),
                        file'[Len(file) + k] = file'[h]
                 PROVE  FALSE
      OBVIOUS
    <3>1. file[h] = Chunk(Current, offset + k)
      BY <1>3
    <3>2. file[h].part <= offset /\ file[h].part = offset + k
      BY <1>1, <3>1
    <3>3. QED BY <1>1, <3>2
  <2>2. CASE i \in 1 .. Len(file) /\ j \in 1 .. Len(file)
    BY <1>3, <1>10, <2>2 DEF FileSound
  <2>3. ASSUME NEW k \in 1 .. n, i = Len(file) + k PROVE i = j
    <3>1. j \notin 1 .. Len(file)
      BY <1>10, <2>1, <2>3
    <3>2. PICK h \in 1 .. n : j = Len(file) + h
      BY <1>6, <3>1
    <3>3. /\ file'[Len(file) + k] = Chunk(Current, offset + k)
          /\ file'[Len(file) + h] = Chunk(Current, offset + h)
      BY <1>3
    <3>4. offset + k = offset + h
      BY <1>10, <2>3, <3>2, <3>3
    <3>5. QED BY <1>1, <2>3, <3>2, <3>4
  <2>4. ASSUME NEW k \in 1 .. n, j = Len(file) + k PROVE i = j
    <3>1. i \notin 1 .. Len(file)
      BY <1>10, <2>1, <2>4
    <3>2. PICK h \in 1 .. n : i = Len(file) + h
      BY <1>6, <3>1
    <3>3. QED BY <2>3, <3>2
  <2>5. QED BY <1>6, <2>2, <2>3, <2>4
<1>11. QED BY <1>8, <1>9, <1>10 DEF FileSound

LEMMA FileSoundStep ==
  ASSUME FdTypes, QueueSound, FileSound, RunSound /\ ChunksHaveCalls, [FdNext]_fdVars
  PROVE  FileSound'
<1>1. ASSUME NEW n \in 1 .. Size, Wrote(n) PROVE FileSound'
  BY <1>1, WriteKeepsFileSound
<1>2. CASE MarkRepaired
  BY <1>2, MendedIsCut, CutKeepsFileSound DEF MarkRepaired
<1>3. CASE PowerLoss
  <2>1. PICK n \in (IF named THEN synced ELSE 0) .. Len(file) : file' = SubSeq(file, 1, n)
    BY <1>3 DEF PowerLoss
  <2>2. n \in 0 .. Len(file)
    BY <2>1, FileTypes DEF FdTypes
  <2>3. QED BY <2>1, <2>2, CutKeepsFileSound
<1>4. CASE UNCHANGED file
  BY <1>4 DEF FileSound, TornOnlyAtTheEnd
<1>5. QED
  BY <1>1, <1>2, <1>3, <1>4 DEF FdNext, RunStep, fdVars, CallAppend, CallClose, StartAppend,
    StartClose, Opened, Synced, DirSynced, StepFails, HandleClosed

-------------------------------------------------------------------------------
(* The run at work and the calls behind the chunks *)

\* A call that joins the queue changes nothing for the run at work.
LEMMA QueueGrowsKeepsRun ==
  ASSUME FdTypes, QueueSound, RunSound, ChunksHaveCalls,
         NEW c \in Lines \cup {"close"}, calls' = Append(calls, c),
         UNCHANGED << finished, step, offset, failed, file, synced >>
  PROVE  (RunSound /\ ChunksHaveCalls)'
<1>0. /\ Len(calls) \in Nat /\ finished \in 0 .. Len(calls)
      /\ calls \in Seq(Lines \cup {"close"})
  BY LenProperties DEF FdTypes
<1>1. Len(calls') = Len(calls) + 1 /\ \A i \in 1 .. Len(calls) : calls'[i] = calls[i]
  BY <1>0, AppendProperties
<1>2. Busy => Current' = Current
  BY <1>0, <1>1
<1>3. RunSound'
  BY <1>2 DEF RunSound, QueueSound, EndsWhole
<1>4. 1 .. Len(calls) \subseteq 1 .. Len(calls')
  BY <1>0, <1>1
<1>5. ChunksHaveCalls'
  BY <1>1, <1>4 DEF ChunksHaveCalls
<1>6. QED BY <1>3, <1>5

\* The chunks of a run that ends are those of an earlier run from then on.
LEMMA FinishKeepsRun ==
  ASSUME FdTypes, Busy, RunSound, ChunksHaveCalls, NEW a \in {"ok", "rejected"}, Finish(a),
         UNCHANGED << calls, offset, file >>,
         failed' \/ EndsWhole
  PROVE  (RunSound /\ ChunksHaveCalls)'
<1>1. step' = "rest" /\ finished' = finished + 1 /\ finished \in Nat
  BY LenProperties DEF Finish, FdTypes
<1>2. RunSound'
  BY <1>1 DEF RunSound, EndsWhole
<1>3. ASSUME NEW i \in 1 .. Len(file)
      PROVE  \E c \in 1 .. Len(calls) : calls[c] = file[i].line /\ c <= finished'
  BY <1>1 DEF ChunksHaveCalls
<1>4. ChunksHaveCalls'
  BY <1>3 DEF ChunksHaveCalls
<1>5. QED BY <1>2, <1>4

LEMMA WriteKeepsRun ==
  ASSUME FdTypes, QueueSound, FileSound, RunSound, ChunksHaveCalls,
         NEW n \in 1 .. Size, Wrote(n)
  PROVE  (RunSound /\ ChunksHaveCalls)'
<1>1. Current \in Lines /\ offset \in 0 .. Size - 1 /\ offset <= Len(file)
  BY WriteIsNext DEF Wrote
<1>2. /\ Len(file') = Len(file) + n /\ Len(file) \in Nat
      /\ \A i \in 1 .. Len(file) : file'[i] = file[i]
      /\ \A k \in 1 .. n : file'[Len(file) + k] = Chunk(Current, offset + k)
  BY <1>1, FileGrows, FileTypes
<1>3. /\ offset' = offset + n /\ offset' \in 1 .. Size /\ Current' = Current
      /\ step' = IF offset' = Size THEN "sync" ELSE "write"
      /\ UNCHANGED << calls, finished, failed >> /\ ~failed
  BY <1>1 DEF Wrote, RunSound
<1>4. Len(file') - offset' = Len(file) - offset /\ offset' <= Len(file')
  BY <1>1, <1>2, <1>3
<1>5. ASSUME NEW h \in 1 .. offset' PROVE file'[Len(file) - offset + h] = Chunk(Current, h)
  <2>1. CASE h <= offset
    <3>1. h \in 1 .. offset /\ Len(file) - offset + h \in 1 .. Len(file)
      BY <1>1, <1>2, <2>1
    <3>2. QED BY <1>2, <3>1 DEF RunSound, Wrote
  <2>2. CASE h > offset
    <3>1. h - offset \in 1 .. n /\ h = offset + (h - offset)
          /\ Len(file) - offset + h = Len(file) + (h - offset)
      BY <1>1, <1>2, <1>3, <2>2
    <3>2. file'[Len(file) + (h - offset)] = Chunk(Current, offset + (h - offset))
      BY <1>2, <3>1
    <3>3. QED BY <3>1, <3>2
  <2>3. QED BY <1>1, <2>1, <2>2
<1>6. offset' = Size => EndsWhole'
  <2> SUFFICES ASSUME offset' = Size PROVE file'[Len(file')].part = Size
    BY DEF EndsWhole
  <2>1. offset' \in 1 .. offset' /\ Len(file) - offset + offset' = Len(file')
    BY <1>1, <1>2, <1>3, <1>4
  <2>2. file'[Len(file) - offset + offset'] = Chunk(Current, offset')
    BY <1>5, <2>1
  <2>3. QED BY <2>1, <2>2
<1>7. RunSound'
  BY <1>3, <1>4, <1>5, <1>6 DEF RunSound
<1>8. ASSUME NEW i \in 1 .. Len(file')
      PROVE  \E c \in 1 .. Len(calls) :
               /\ calls[c] = file'[i].line
               /\ c <= finished \/ (c = finished + 1 /\ i > Len(file) - offset)
  <2>1. CASE i \in 1 .. Len(file)
    BY <1>2, <2>1 DEF ChunksHaveCalls
  <2>2. CASE i \notin 1 .. Len(file)
    <3>1. i - Len(file) \in 1 .. n /\ i = Len(file) + (i - Len(file)) /\ i > Len(file) - offset
      BY <1>1, <1>2, <2>2
    <3>2. file'[Len(file) + (i - Len(file))] = Chunk(Current, offset + (i - Len(file)))
      BY <1>2, <3>1
    <3>3. finished + 1 \in 1 .. Len(calls)
      BY LenProperties DEF FdTypes, QueueSound, Wrote
    <3>4. file'[i].line = Current
      BY <3>1, <3>2
    <3>5. QED BY <3>1, <3>3, <3>4
  <2>3. QED BY <2>1, <2>2
<1>9. ChunksHaveCalls'
  BY <1>3, <1>4, <1>8 DEF ChunksHaveCalls
<1>10. QED BY <1>7, <1>9

LEMMA RunSoundStep ==
  ASSUME FdTypes, QueueSound, FileSound, RunSound, ChunksHaveCalls, [FdNext]_fdVars, power'
  PROVE  (RunSound /\ ChunksHaveCalls)'
<1>1. ASSUME NEW l \in Lines, CallAppend(l) PROVE (RunSound /\ ChunksHaveCalls)'
  <2>1. CASE TurnedAway
    BY <1>1, <2>1 DEF CallAppend, RunSound, ChunksHaveCalls, EndsWhole
  <2>2. CASE ~TurnedAway
    BY <1>1, <2>2, QueueGrowsKeepsRun DEF CallAppend
  <2>3. QED BY <2>1, <2>2
<1>2. CASE CallClose
  BY <1>2, QueueGrowsKeepsRun DEF CallClose
<1>3. CASE StartAppend
  <2>1. CASE MayRun
    <3>1. /\ step = "rest" /\ step' \in {"open", "write"} /\ offset' = 0 /\ ~failed
          /\ UNCHANGED << calls, finished, failed, file >>
      BY <1>3, <2>1 DEF StartAppend, MayRun
    <3>2. RunSound'
      BY <3>1, FileTypes DEF RunSound, EndsWhole
    <3>3. ChunksHaveCalls'
      BY <3>1 DEF ChunksHaveCalls
    <3>4. QED BY <3>2, <3>3
  <2>2. CASE ~MayRun
    BY <1>3, <2>2, FinishKeepsRun DEF StartAppend, MayRun
  <2>3. QED BY <2>1, <2>2
<1>4. CASE StartClose
  <2>1. failed \/ EndsWhole
    BY <1>4 DEF StartClose, RunSound
  <2>2. CASE handle
    BY <1>4, <2>1, <2>2 DEF StartClose, RunSound, ChunksHaveCalls, EndsWhole
  <2>3. CASE ~handle
    BY <1>4, <2>1, <2>3, FinishKeepsRun DEF StartClose
  <2>4. QED BY <2>2, <2>3
<1>5. CASE Opened
  <2>1. /\ step = "open" /\ step' = "write" /\ offset = 0 /\ ~failed
        /\ UNCHANGED << calls, finished, failed, file, offset >>
    BY <1>5 DEF Opened, RunSound
  <2>2. RunSound'
    BY <2>1, FileTypes DEF RunSound, EndsWhole
  <2>3. ChunksHaveCalls'
    BY <2>1 DEF ChunksHaveCalls
  <2>4. QED BY <2>2, <2>3
<1>6. ASSUME NEW n \in 1 .. Size, Wrote(n) PROVE (RunSound /\ ChunksHaveCalls)'
  BY <1>6, WriteKeepsRun
<1>7. CASE Synced
  <2>1. step = "sync" /\ ~failed /\ EndsWhole /\ Busy
    BY <1>7 DEF Synced, RunSound, QueueSound
  <2>2. CASE dirSynced
    BY <1>7, <2>1, <2>2, FinishKeepsRun DEF Synced
  <2>3. CASE ~dirSynced
    <3>1. /\ step' = "syncdir" /\ synced' = Len(file)
          /\ UNCHANGED << calls, finished, failed, file, offset >>
      BY <1>7, <2>3 DEF Synced
    <3>2. RunSound'
      BY <2>1, <3>1 DEF RunSound, EndsWhole
    <3>3. ChunksHaveCalls'
      BY <2>1, <3>1 DEF ChunksHaveCalls
    <3>4. QED BY <3>2, <3>3
  <2>4. QED BY <2>2, <2>3
<1>8. CASE DirSynced
  <2>1. step = "syncdir" /\ ~failed /\ EndsWhole /\ Busy
    BY <1>8 DEF DirSynced, RunSound, QueueSound
  <2>2. QED BY <1>8, <2>1, FinishKeepsRun DEF DirSynced
<1>9. CASE StepFails
  <2>1. failed' /\ Busy
    BY <1>9 DEF StepFails, Unsure, QueueSound
  <2>2. QED BY <1>9, <2>1, FinishKeepsRun DEF StepFails
<1>10. CASE HandleClosed
  <2>1. (failed \/ EndsWhole) /\ Busy
    BY <1>10 DEF HandleClosed, RunSound, QueueSound
  <2>2. QED BY <1>10, <2>1, FinishKeepsRun DEF HandleClosed
<1>11. CASE MarkRepaired
  <2>1. PICK n \in 0 .. Len(file) : Mended = SubSeq(file, 1, n) /\ (n = 0 \/ file[n].part = Size)
    BY MendedIsCut
  <2>2. /\ file' \in Seq(Chunks) /\ Len(file') = n /\ Len(file) \in Nat
        /\ \A i \in 1 .. n : file'[i] = file[i]
    BY <1>11, <2>1, FileCut, FileTypes DEF MarkRepaired
  <2>3. step \in {"rest", "closing"} /\ UNCHANGED << step, calls, finished, offset >>
    BY <1>11 DEF MarkRepaired, RunSound
  <2>4. EndsWhole'
    <3>1. CASE n = 0
      BY <2>2, <3>1, EmptySeq DEF EndsWhole
    <3>2. CASE n # 0
      <4>1. n \in 1 .. n
        BY <2>2, <3>2
      <4>2. QED BY <2>1, <2>2, <3>2, <4>1 DEF EndsWhole
    <3>3. QED BY <3>1, <3>2
  <2>5. RunSound'
    BY <2>3, <2>4, <1>11 DEF RunSound, MarkRepaired
  <2>6. \A i \in 1 .. n : i \in 1 .. Len(file)
    BY <2>2
  <2>7. ChunksHaveCalls'
    BY <2>2, <2>3, <2>6 DEF ChunksHaveCalls
  <2>8. QED BY <2>5, <2>7
<1>12. CASE PowerLoss
  BY <1>12 DEF PowerLoss
<1>13. CASE UNCHANGED fdVars
  BY <1>13 DEF fdVars, RunSound, ChunksHaveCalls, EndsWhole
<1>14. QED
  BY <1>1, <1>2, <1>3, <1>4, <1>5, <1>6, <1>7, <1>8, <1>9, <1>10, <1>11, <1>12, <1>13
  DEF FdNext, RunStep

-------------------------------------------------------------------------------
(* What is on the disk *)

LEMMA Fits == \A a, b, c \in Nat : a + b <= c => a \in 0 .. c - b
OBVIOUS

\* A line on the disk stays there as long as its chunks and its name do.
LEMMA StaysOnDisk ==
  ASSUME NEW l \in Lines, FdTypes, OnDisk(l), named',
         NEW n \in 0 .. Len(file), file' = SubSeq(file, 1, n), synced' \in Nat,
         \A i \in 0 .. synced - Size : (\A k \in 1 .. Size : file[i + k] = Chunk(l, k)) =>
           i + Size <= synced' /\ i + Size <= n
  PROVE  OnDisk(l)'
<1>1. synced \in Nat /\ synced <= Len(file) /\ Len(file) \in Nat
  BY FileTypes DEF FdTypes
<1>2. PICK i \in 0 .. synced - Size : \A k \in 1 .. Size : file[i + k] = Chunk(l, k)
  BY DEF OnDisk
<1>3. i \in 0 .. synced' - Size /\ i + Size <= n
  <2>1. i + Size <= synced' /\ i + Size <= n
    BY <1>2
  <2>2. i \in Nat /\ Size \in Nat /\ synced' \in Nat
    BY <1>1, <1>2
  <2>3. i \in 0 .. synced' - Size
    BY <2>1, <2>2, Fits
  <2>4. QED BY <2>1, <2>3
<1>4. \A k \in 1 .. Size : i + k \in 1 .. n
  BY <1>2, <1>3
<1>5. \A k \in 1 .. Size : file'[i + k] = file[i + k]
  BY <1>4, FileCut
<1>6. \A k \in 1 .. Size : file'[i + k] = Chunk(l, k)
  BY <1>2, <1>5
<1>7. QED BY <1>3, <1>6 DEF OnDisk

\* The line at work, complete and synced, is on the disk when its name is.
LEMMA CurrentOnDisk ==
  ASSUME FdTypes, QueueSound, RunSound, step \in {"sync", "syncdir"},
         named', synced' = Len(file), file' = file
  PROVE  Current \in Lines /\ \A l \in Lines : l = Current => OnDisk(l)'
<1>1. Current \in Lines /\ offset = Size /\ Size <= Len(file) /\ Len(file) \in Nat
  BY FileTypes DEF QueueSound, RunSound
<1>2. PICK i \in 0 .. Len(file) - Size : i = Len(file) - Size
  BY <1>1
<1>3. \A k \in 1 .. Size : file[i + k] = Chunk(Current, k)
  BY <1>1, <1>2 DEF RunSound
<1>4. synced' = Len(file) /\ named' /\ file' = file
  OBVIOUS
<1>5. ASSUME NEW l \in Lines, l = Current PROVE OnDisk(l)'
  <2>1. i \in 0 .. synced' - Size /\ \A k \in 1 .. Size : file'[i + k] = Chunk(l, k)
    BY <1>2, <1>3, <1>4, <1>5
  <2>2. QED BY <1>4, <2>1 DEF OnDisk
<1>6. QED BY <1>1, <1>5

\* An answer other than "ok" adds nothing that must be on the disk.
LEMMA OthersConfirmed ==
  ASSUME FdTypes, ConfirmedOnDisk, UNCHANGED << file, synced, named >>, dirSynced' => named,
         \A l \in Lines : reply'[l] = "ok" => reply[l] = "ok"
  PROVE  ConfirmedOnDisk'
BY DEF ConfirmedOnDisk, OnDisk

\* The current line is confirmed; its chunks and its name are on the disk.
LEMMA ConfirmCurrent ==
  ASSUME FdTypes, QueueSound, RunSound, ConfirmedOnDisk, step \in {"sync", "syncdir"},
         Finish("ok"), named', synced' = Len(file), file' = file
  PROVE  ConfirmedOnDisk'
<1>1. Current \in Lines /\ \A l \in Lines : l = Current => OnDisk(l)'
  BY CurrentOnDisk
<1>2. synced \in 0 .. Len(file) /\ Len(file) \in Nat
  BY FileTypes DEF FdTypes
<1>3. ASSUME NEW l \in Lines, OnDisk(l) PROVE OnDisk(l)'
  <2>1. 0 .. synced - Size \subseteq 0 .. Len(file) - Size
    BY <1>2
  <2>2. QED BY <1>3, <2>1 DEF OnDisk
<1>4. ASSUME NEW l \in Lines, reply'[l] = "ok" PROVE l = Current \/ reply[l] = "ok"
  BY <1>4 DEF Finish, FdTypes
<1>5. QED BY <1>1, <1>3, <1>4 DEF ConfirmedOnDisk

LEMMA ConfirmedOnDiskStep ==
  ASSUME FdTypes, QueueSound, FileSound, RunSound, ConfirmedOnDisk, [FdNext]_fdVars
  PROVE  ConfirmedOnDisk'
<1>0. reply \in [Lines -> {"none", "waiting", "ok", "rejected"}]
  BY DEF FdTypes
<1>1. ASSUME NEW l \in Lines, CallAppend(l) PROVE ConfirmedOnDisk'
  BY <1>0, <1>1, OthersConfirmed DEF CallAppend, ConfirmedOnDisk
<1>2. CASE CallClose
  BY <1>2, OthersConfirmed DEF CallClose, ConfirmedOnDisk
<1>3. CASE StartAppend
  BY <1>0, <1>3, OthersConfirmed DEF StartAppend, ConfirmedOnDisk, Finish
<1>4. CASE StartClose
  <2>1. Current \notin Lines
    BY <1>4 DEF StartClose
  <2>2. QED BY <1>0, <1>4, <2>1, OthersConfirmed DEF StartClose, ConfirmedOnDisk, Finish
<1>5. CASE Opened
  BY <1>5, OthersConfirmed DEF Opened, ConfirmedOnDisk
<1>6. ASSUME NEW n \in 1 .. Size, Wrote(n) PROVE ConfirmedOnDisk'
  <2>1. \A i \in 1 .. Len(file) : file'[i] = file[i]
    BY <1>6, FileGrows DEF QueueSound, Wrote
  <2>2. UNCHANGED << named, dirSynced, synced, reply >>
    BY <1>6 DEF Wrote
  <2>3. ASSUME NEW l \in Lines, OnDisk(l) PROVE OnDisk(l)'
    <3>1. PICK i \in 0 .. synced - Size : \A k \in 1 .. Size : file[i + k] = Chunk(l, k)
      BY <2>3 DEF OnDisk
    <3>2. \A k \in 1 .. Size : i + k \in 1 .. Len(file)
      BY <3>1, FileTypes DEF FdTypes
    <3>3. \A k \in 1 .. Size : file'[i + k] = Chunk(l, k)
      BY <2>1, <3>1, <3>2
    <3>4. QED BY <2>2, <2>3, <3>1, <3>3 DEF OnDisk
  <2>4. QED BY <2>2, <2>3 DEF ConfirmedOnDisk
<1>7. CASE Synced
  <2>1. CASE dirSynced
    BY <1>7, <2>1, ConfirmCurrent DEF Synced, ConfirmedOnDisk
  <2>2. CASE ~dirSynced
    <3>1. UNCHANGED << file, named, dirSynced, reply >> /\ synced' = Len(file)
      BY <1>7, <2>2 DEF Synced
    <3>2. 0 .. synced - Size \subseteq 0 .. Len(file) - Size
      BY FileTypes DEF FdTypes
    <3>3. QED BY <3>1, <3>2 DEF ConfirmedOnDisk, OnDisk
  <2>3. QED BY <2>1, <2>2
<1>8. CASE DirSynced
  <2>1. synced' = Len(file)
    BY <1>8 DEF DirSynced, RunSound
  <2>2. QED BY <1>8, <2>1, ConfirmCurrent DEF DirSynced
<1>9. CASE StepFails
  BY <1>0, <1>9, OthersConfirmed DEF StepFails, ConfirmedOnDisk, Finish
<1>10. CASE HandleClosed
  <2>1. Current \notin Lines
    BY <1>10 DEF HandleClosed, QueueSound
  <2>2. QED BY <1>0, <1>10, <2>1, OthersConfirmed DEF HandleClosed, ConfirmedOnDisk, Finish
<1>11. CASE MarkRepaired
  <2>0. Len(file) \in Nat /\ synced \in 0 .. Len(file)
    BY FileTypes DEF FdTypes
  <2>1. PICK n \in 0 .. Len(file) :
          Mended = SubSeq(file, 1, n) /\ \A i \in n + 1 .. Len(file) : file[i].part < Size
    BY MendedIsCut
  <2>2. UNCHANGED << named, dirSynced, reply >> /\ file' = SubSeq(file, 1, n)
    BY <1>11, <2>1 DEF MarkRepaired
  <2>3. synced' = (IF synced < n THEN synced ELSE n) /\ synced' \in Nat
    BY <1>11, <2>0, <2>1, <2>2, FileCut DEF MarkRepaired
  <2>4. ASSUME NEW l \in Lines, NEW i \in 0 .. synced - Size,
               \A k \in 1 .. Size : file[i + k] = Chunk(l, k)
        PROVE  i + Size <= synced' /\ i + Size <= n
    <3>1. file[i + Size] = Chunk(l, Size)
      BY <2>4
    <3>2. i + Size \notin n + 1 .. Len(file)
      BY <2>1, <3>1
    <3>3. QED BY <2>0, <2>3, <3>2
  <2>5. ASSUME NEW l \in Lines, OnDisk(l) PROVE OnDisk(l)'
    <3>1. named'
      BY <2>2, <2>5 DEF OnDisk
    <3>2. QED BY <2>2, <2>3, <2>4, <2>5, <3>1, StaysOnDisk
  <2>6. QED BY <2>2, <2>5 DEF ConfirmedOnDisk
<1>12. CASE PowerLoss
  <2>0. Len(file) \in Nat /\ synced \in 0 .. Len(file)
    BY FileTypes DEF FdTypes
  <2>1. PICK n \in (IF named THEN synced ELSE 0) .. Len(file) :
          file' = SubSeq(file, 1, n) /\ synced' = n
    BY <1>12 DEF PowerLoss
  <2>2. n \in 0 .. Len(file) /\ synced' \in Nat /\ UNCHANGED << named, dirSynced, reply >>
    BY <1>12, <2>0, <2>1 DEF PowerLoss
  <2>3. ASSUME NEW l \in Lines, OnDisk(l) PROVE OnDisk(l)'
    <3>1. named' /\ synced <= n
      BY <2>0, <2>1, <2>2, <2>3 DEF OnDisk
    <3>2. \A i \in 0 .. synced - Size : i + Size <= synced' /\ i + Size <= n
      BY <2>0, <2>1, <2>2, <3>1
    <3>3. QED BY <2>1, <2>2, <2>3, <3>1, <3>2, StaysOnDisk
  <2>4. QED BY <2>2, <2>3 DEF ConfirmedOnDisk
<1>13. CASE UNCHANGED fdVars
  BY <1>13 DEF fdVars, ConfirmedOnDisk, OnDisk
<1>14. QED
  BY <1>1, <1>2, <1>3, <1>4, <1>5, <1>6, <1>7, <1>8, <1>9, <1>10, <1>11, <1>12, <1>13
  DEF FdNext, RunStep

-------------------------------------------------------------------------------
(* The invariant and the promises *)

LEMMA FdInvInit == FdInit => FdInv
<1> SUFFICES ASSUME FdInit PROVE FdInv
  OBVIOUS
<1>1. file = << >> /\ Len(file) = 0 /\ Len(calls) = 0
  BY EmptySeq DEF FdInit
<1>2. FileSound /\ RunSound /\ ChunksHaveCalls
  BY <1>1 DEF FdInit, FileSound, TornOnlyAtTheEnd, RunSound, ChunksHaveCalls, EndsWhole
<1>3. ConfirmedOnDisk
  BY DEF FdInit, ConfirmedOnDisk
<1>4. QED BY <1>2, <1>3, FdTypesInit, QueueSoundInit DEF FdInv

LEMMA FdInvStep == FdInv /\ [FdNext]_fdVars => FdInv'
<1> SUFFICES ASSUME FdInv, [FdNext]_fdVars PROVE FdInv'
  OBVIOUS
<1>1. CASE UNCHANGED fdVars
  <2> USE <1>1 DEF fdVars, FdInv
  <2>1. FdTypes' /\ QueueSound' BY DEF FdTypes, QueueSound
  <2>2. FileSound' BY DEF FileSound, TornOnlyAtTheEnd
  <2>3. power' => RunSound' /\ ChunksHaveCalls' BY DEF RunSound, EndsWhole, ChunksHaveCalls
  <2>4. ConfirmedOnDisk' BY DEF ConfirmedOnDisk, OnDisk
  <2>5. QED BY <2>1, <2>2, <2>3, <2>4
<1>2. CASE FdNext
  <2>1. FdTypes /\ QueueSound /\ FileSound /\ RunSound /\ ChunksHaveCalls /\ ConfirmedOnDisk
    BY <1>2 DEF FdInv, FdNext
  <2>2. FdTypes' /\ QueueSound' /\ FileSound' /\ ConfirmedOnDisk'
    BY <2>1, FdTypesStep, QueueSoundStep, FileSoundStep, ConfirmedOnDiskStep
  <2>3. power' => RunSound' /\ ChunksHaveCalls'
    BY <2>1, RunSoundStep
  <2>4. QED BY <2>2, <2>3 DEF FdInv
<1>3. QED BY <1>1, <1>2

LEMMA FdInvAlways == FdSpec => []FdInv
BY FdInvInit, FdInvStep, PTL DEF FdSpec

\* FdTypeOK is an invariant of the instance: every variable keeps its type, and a
\* suspended await belongs to a call that was accepted and has not ended.
THEOREM FdTypeCorrect == FdSpec => []FdTypeOK
<1>1. FdInv => FdTypeOK
  BY DEF FdInv, FdTypes, QueueSound, FdTypeOK
<1>2. QED BY <1>1, FdInvAlways, PTL

\* A line whose append was answered "ok" is in the file, whole, whatever failed
\* since, the power included: for any number of lines, chunks and closes.
THEOREM ConfirmedAlwaysSurvives == FdSpec => []ConfirmedSurvives
<1>1. FdInv => ConfirmedSurvives
  <2> SUFFICES ASSUME FdInv, NEW l \in Lines, reply[l] = "ok" PROVE Whole(l)
    BY DEF ConfirmedSurvives
  <2>1. PICK i \in 0 .. synced - Size : \A k \in 1 .. Size : file[i + k] = Chunk(l, k)
    BY DEF FdInv, ConfirmedOnDisk, OnDisk
  <2>2. i \in 0 .. Len(file) - Size
    BY <2>1, FileTypes DEF FdInv, FdTypes
  <2>3. QED BY <2>1, <2>2 DEF Whole
<1>2. QED BY <1>1, FdInvAlways, PTL

\* Whatever calls are queued behind a failed write, no line is ever glued to a
\* fragment: only the end of the file can be torn.
THEOREM TornAlwaysAtTheEnd == FdSpec => []TornOnlyAtTheEnd
<1>1. FdInv => TornOnlyAtTheEnd
  BY DEF FdInv, FileSound
<1>2. QED BY <1>1, FdInvAlways, PTL

-------------------------------------------------------------------------------
(* The instance implements the port *)

LEMMA Divided ==
  ASSUME NEW m \in Nat
  PROVE  \E q \in Nat, r \in 0 .. Size - 1 : m = q * Size + r
<1>1. m \div Size \in Nat /\ m % Size \in 0 .. Size - 1 /\ m = (m \div Size) * Size + (m % Size)
  BY Z3
<1>2. QED BY <1>1

LEMMA QuotientIs ==
  ASSUME NEW m \in Nat, NEW q \in Nat, NEW r \in 0 .. Size - 1, m = q * Size + r
  PROVE  m \div Size = q
BY Z3

LEMMA Monotone == \A a, b \in Nat : a <= b => a * Size <= b * Size
BY Z3

\* j lines take j * Size chunks, and fit when there are q whole ones and j <= q.
LEMMA PlaceOf ==
  ASSUME NEW q \in Nat, NEW r \in 0 .. Size - 1, NEW j \in 1 .. q
  PROVE  j * Size \in 1 .. q * Size + r
BY Z3

\* Every Size-th chunk ends a line.
LEMMA SizethEnds ==
  ASSUME FdTypes, FileSound, NEW j \in Nat \ {0}, j * Size \in 1 .. Len(file)
  PROVE  file[j * Size].part = Size
<1>1. PICK i \in 1 .. Len(file) : i = j * Size
  OBVIOUS
<1>2. PICK p \in 0 .. i : i = p * Size + file[i].part
  BY DEF FileSound
<1>3. file[i].part \in 1 .. Size
  BY FileTypes
<1>4. ASSUME NEW x \in 1 .. Size, j * Size = p * Size + x PROVE x = Size
  <2>1. j > p
    <3>1. ASSUME j <= p PROVE j * Size <= p * Size
      BY <3>1, Monotone
    <3>2. QED BY <1>4, <3>1
  <2>2. p * Size + Size <= j * Size
    <3>1. (p + 1) * Size <= j * Size /\ (p + 1) * Size = p * Size + Size
      BY <2>1, Monotone
    <3>2. QED BY <3>1
  <2>3. QED BY <1>4, <2>2
<1>5. QED BY <1>1, <1>2, <1>3, <1>4

\* A file of q whole lines and r chunks more has q whole lines.
LEMMA LinesOf ==
  ASSUME FdTypes, FileSound,
         NEW q \in Nat, NEW r \in 0 .. Size - 1, Len(file) = q * Size + r
  PROVE  /\ WholeLines \in Seq(Lines) /\ Len(WholeLines) = q
         /\ WholeLines = [j \in 1 .. q |-> file[j * Size].line]
         /\ \A j \in 1 .. q : /\ j * Size \in 1 .. Len(file)
                             /\ file[j * Size].part = Size
                             /\ WholeLines[j] = file[j * Size].line
<1>1. WholeLines = [j \in 1 .. q |-> file[j * Size].line]
  <2>1. Len(file) \div Size = q
    BY QuotientIs, FileTypes
  <2>2. QED BY <2>1 DEF WholeLines
<1>2. ASSUME NEW j \in 1 .. q
      PROVE  j * Size \in 1 .. Len(file) /\ file[j * Size].part = Size /\ file[j * Size].line \in Lines
  <2>1. j * Size \in 1 .. Len(file)
    BY PlaceOf
  <2>2. QED BY <2>1, SizethEnds, FileTypes
<1>3. WholeLines \in [1 .. q -> Lines]
  BY <1>1, <1>2
<1>4. WholeLines \in Seq(Lines) /\ Len(WholeLines) = q
  BY <1>3, FunctionIsSeq
<1>5. QED BY <1>1, <1>2, <1>4

\* A cut behind k whole lines leaves the first k.
LEMMA CutLines ==
  ASSUME FdTypes, FileSound, NEW n \in 0 .. Len(file), file' = SubSeq(file, 1, n), FdTypes',
         NEW q \in Nat, NEW r \in 0 .. Size - 1, Len(file) = q * Size + r,
         NEW k \in Nat, NEW h \in 0 .. Size - 1, n = k * Size + h
  PROVE  k \in 0 .. q /\ WholeLines' = SubSeq(WholeLines, 1, k)
<1>1. Len(file') = n /\ (\A i \in 1 .. n : file'[i] = file[i]) /\ FileSound'
  BY FileCut, CutKeepsFileSound
<1>2. k \in 0 .. q
  <2>1. k * Size + h <= q * Size + r
    BY FileTypes
  <2>2. k <= q
    BY <2>1, Z3
  <2>3. QED BY <2>2
<1>3. WholeLines' = [j \in 1 .. k |-> file'[j * Size].line]
  <2>1. Len(file') \div Size = k
    BY <1>1, QuotientIs
  <2>2. QED BY <2>1 DEF WholeLines
<1>4. \A j \in 1 .. k : j * Size \in 1 .. n
  BY PlaceOf
<1>5. WholeLines' = [j \in 1 .. k |-> file[j * Size].line]
  BY <1>1, <1>3, <1>4
<1>6. SubSeq(WholeLines, 1, k) = [j \in 1 .. k |-> file[j * Size].line]
  <2>0. WholeLines \in Seq(Lines) /\ Len(WholeLines) = q
        /\ \A j \in 1 .. q : WholeLines[j] = file[j * Size].line
    BY LinesOf
  <2>1. \A j \in 1 .. k : WholeLines[j] = file[j * Size].line
    BY <1>2, <2>0
  <2>2. SubSeq(WholeLines, 1, k) = [j \in 1 .. k |-> WholeLines[j]]
    BY <1>2, <2>0
  <2>3. QED BY <2>1, <2>2
<1>7. QED BY <1>2, <1>5, <1>6

\* What the port calls present: the lines of the whole rows.
LEMMA PresentIs ==
  ASSUME FdTypes, FileSound, NEW l \in Lines
  PROVE  l \in Port!Present <=>
           \E j \in Nat \ {0} : j * Size \in 1 .. Len(file) /\ file[j * Size].line = l
<1>1. PICK q \in Nat, r \in 0 .. Size - 1 : Len(file) = q * Size + r
  BY Divided, FileTypes
<1>2. /\ Len(WholeLines) = q
      /\ \A j \in 1 .. q : j * Size \in 1 .. Len(file) /\ WholeLines[j] = file[j * Size].line
  BY <1>1, LinesOf
<1>3. ASSUME NEW j \in Nat \ {0}, j * Size \in 1 .. Len(file) PROVE j \in 1 .. q
  <2>1. CASE j <= q
    BY <2>1
  <2>2. CASE j > q
    <3>1. (q + 1) * Size <= j * Size /\ (q + 1) * Size = q * Size + Size
      BY <2>2, Monotone
    <3>2. j * Size <= q * Size + r
      BY <1>1, <1>3, FileTypes
    <3>3. QED BY <3>1, <3>2
  <2>3. QED BY <2>1, <2>2
<1>4. l \in Port!Present <=> \E j \in 1 .. q : WholeLines[j] = l
  BY <1>2 DEF Port!Present
<1>5. ASSUME NEW j \in 1 .. q, WholeLines[j] = l
      PROVE  \E i \in Nat \ {0} : i * Size \in 1 .. Len(file) /\ file[i * Size].line = l
  <2>1. j \in Nat \ {0} /\ j * Size \in 1 .. Len(file) /\ file[j * Size].line = l
    BY <1>2, <1>5, LinesOf, <1>1
  <2>2. QED BY <2>1
<1>6. ASSUME NEW i \in Nat \ {0}, i * Size \in 1 .. Len(file), file[i * Size].line = l
      PROVE  \E j \in 1 .. q : WholeLines[j] = l
  <2>1. i \in 1 .. q
    BY <1>3, <1>6
  <2>2. WholeLines[i] = file[i * Size].line
    BY <1>1, <2>1, LinesOf
  <2>3. QED BY <1>6, <2>1, <2>2
<1>7. QED BY <1>4, <1>5, <1>6

\* A write that completes the line lands it; one that does not lands nothing.
LEMMA WriteLands ==
  ASSUME FdTypes, QueueSound, FileSound, RunSound, ChunksHaveCalls, power, FdTypes',
         NEW n \in 1 .. Size, Wrote(n)
  PROVE  Port!Land(Current) \/ UNCHANGED Port!portVars
<1>1. /\ Current \in Lines /\ offset \in 0 .. Size - 1
      /\ \A i \in 1 .. Len(file) : file[i].line = Current => file[i].part <= offset
  BY WriteIsNext DEF Wrote
<1>2. PICK q \in Nat : Len(file) = q * Size + offset
  BY WriteIsNext DEF Wrote
<1>3. /\ WholeLines \in Seq(Lines) /\ Len(WholeLines) = q
      /\ WholeLines = [j \in 1 .. q |-> file[j * Size].line]
      /\ \A j \in 1 .. q : j * Size \in 1 .. Len(file)
  BY <1>1, <1>2, LinesOf
<1>4. /\ Len(file') = Len(file) + n
      /\ \A i \in 1 .. Len(file) : file'[i] = file[i]
      /\ \A k \in 1 .. n : file'[Len(file) + k] = Chunk(Current, offset + k)
  BY <1>1, FileGrows
<1>5. FileSound' /\ UNCHANGED << reply, failed, power >> /\ ~failed /\ offset + n <= Size
  BY WriteKeepsFileSound DEF Wrote, RunSound
<1>6. \A j \in 1 .. q : file'[j * Size].line = file[j * Size].line
  BY <1>3, <1>4
<1>7. CASE offset + n < Size
  <2>1. Len(file') = q * Size + (offset + n) /\ offset + n \in 0 .. Size - 1
    BY <1>1, <1>2, <1>4, <1>7
  <2>2. Len(file') \div Size = q
    BY <2>1, QuotientIs
  <2>3. WholeLines' = [j \in 1 .. q |-> file'[j * Size].line]
    BY <2>2 DEF WholeLines
  <2>4. WholeLines' = WholeLines
    BY <1>3, <1>6, <2>3
  <2>5. QED BY <1>5, <2>4 DEF Port!portVars
<1>8. CASE offset + n = Size
  <2>1. Len(file') = (q + 1) * Size + 0 /\ Len(file') = (q + 1) * Size /\ q + 1 \in Nat /\ 0 \in 0 .. Size - 1
    BY <1>1, <1>2, <1>4, <1>8
  <2>2. WholeLines' = [j \in 1 .. q + 1 |-> file'[j * Size].line]
    <3>1. Len(file') \div Size = q + 1
      BY <2>1, QuotientIs
    <3>2. QED BY <3>1 DEF WholeLines
  <2>3. file'[(q + 1) * Size].line = Current
    <3>1. file'[Len(file) + n] = Chunk(Current, offset + n)
      <4>1. n \in 1 .. n
        OBVIOUS
      <4>2. QED BY <1>4, <4>1
    <3>2. file'[Len(file')].line = Current
      BY <1>4, <3>1
    <3>3. Len(file') = (q + 1) * Size
      BY <2>1
    <3>4. QED BY <3>2, <3>3, Zenon
  <2>4. WholeLines' = Append(WholeLines, Current)
    <3>1. Append(WholeLines, Current) = [j \in 1 .. q + 1 |-> IF j = q + 1 THEN Current ELSE WholeLines[j]]
      BY <1>1, <1>3
    <3>2. \A j \in 1 .. q + 1 : file'[j * Size].line = IF j = q + 1 THEN Current ELSE WholeLines[j]
      <4> SUFFICES ASSUME NEW j \in 1 .. q + 1
                   PROVE  file'[j * Size].line = IF j = q + 1 THEN Current ELSE WholeLines[j]
        OBVIOUS
      <4>1. CASE j = q + 1
        BY <2>3, <4>1
      <4>2. CASE j # q + 1
        <5>1. j \in 1 .. q
          BY <4>2
        <5>2. QED BY <1>3, <1>6, <4>2, <5>1
      <4>3. QED BY <4>1, <4>2
    <3>3. QED BY <2>2, <3>1, <3>2
  <2>5. reply[Current] = "waiting"
    <3>1. finished + 1 \in 1 .. Len(calls) /\ ~(finished + 1 <= finished)
      BY LenProperties DEF FdTypes, QueueSound, Wrote
    <3>2. QED BY <1>1, <3>1 DEF QueueSound
  <2>6. Current \notin Port!Present
    <3>1. ASSUME NEW j \in Nat \ {0}, j * Size \in 1 .. Len(file) PROVE file[j * Size].line # Current
      <4>1. file[j * Size].part = Size
        BY <3>1, SizethEnds
      <4>2. PICK i \in 1 .. Len(file) : i = j * Size
        BY <3>1
      <4>3. file[i].part = Size /\ ~(Size <= offset)
        BY <1>1, <4>1, <4>2
      <4>4. file[i].line # Current
        BY <1>1, <4>3
      <4>5. QED BY <4>2, <4>4
    <3>2. QED BY <1>1, <3>1, PresentIs
  <2>7. QED BY <1>5, <2>4, <2>5, <2>6 DEF Port!Land
<1>9. QED BY <1>1, <1>5, <1>7, <1>8

\* The line at work is whole when its run is past the writes.
LEMMA SyncedIsPresent ==
  ASSUME FdTypes, QueueSound, FileSound, RunSound, step \in {"sync", "syncdir"}
  PROVE  Current \in Lines /\ Current \in Port!Present /\ reply[Current] = "waiting" /\ ~failed
<1>1. Current \in Lines /\ ~failed /\ offset = Size /\ Size <= Len(file) /\ Len(file) \in Nat
  BY FileTypes DEF QueueSound, RunSound
<1>2. reply[Current] = "waiting"
  <2>1. finished + 1 \in 1 .. Len(calls) /\ ~(finished + 1 <= finished)
    BY LenProperties DEF FdTypes, QueueSound
  <2>2. QED BY <1>1, <2>1 DEF QueueSound
<1>3. file[Len(file)] = Chunk(Current, Size)
  <2>1. Size \in 1 .. offset /\ Len(file) - offset + Size = Len(file)
    BY <1>1
  <2>2. QED BY <2>1 DEF RunSound
<1>4. Len(file) \in 1 .. Len(file)
  BY <1>1
<1>5. PICK p \in 0 .. Len(file) : Len(file) = p * Size + Size
  <2>1. PICK p \in 0 .. Len(file) : Len(file) = p * Size + file[Len(file)].part
    BY <1>4 DEF FileSound
  <2>2. file[Len(file)].part = Size
    BY <1>3
  <2>3. QED BY <2>1, <2>2
<1>6. PICK j \in Nat \ {0} : j * Size = Len(file)
  <2>1. p + 1 \in Nat \ {0} /\ (p + 1) * Size = Len(file)
    BY <1>5
  <2>2. QED BY <2>1
<1>7. j * Size \in 1 .. Len(file) /\ file[j * Size].line = Current
  BY <1>3, <1>4, <1>6
<1>8. Current \in Port!Present
  BY <1>1, <1>7, PresentIs
<1>9. QED BY <1>1, <1>2, <1>8

\* A run that ends without success: its caller is told, and the door is shut.
LEMMA FailureRejects ==
  ASSUME FdTypes, QueueSound, Busy, Current \in Lines, Finish("rejected"), failed', file' = file
  PROVE  Port!Reject(Current)
<1>1. reply[Current] = "waiting"
  <2>1. finished + 1 \in 1 .. Len(calls) /\ ~(finished + 1 <= finished)
    BY LenProperties DEF FdTypes
  <2>2. QED BY <2>1 DEF QueueSound
<1>2. WholeLines' = WholeLines
  BY DEF WholeLines
<1>3. QED BY <1>1, <1>2 DEF Port!Reject, Finish

\* The tail that is mended away holds no whole line.
LEMMA MendingKeepsLines ==
  ASSUME FdTypes, FileSound, FdTypes', file' = Mended
  PROVE  WholeLines' = WholeLines
<1>1. PICK n \in 0 .. Len(file) :
        /\ Mended = SubSeq(file, 1, n)
        /\ n = 0 \/ file[n].part = Size
        /\ \E r \in 0 .. Size - 1 : Len(file) = n + r
  BY MendedIsCut
<1>2. PICK r \in 0 .. Size - 1 : Len(file) = n + r
  BY <1>1
<1>3. PICK q \in Nat : n = q * Size + 0
  <2>1. CASE n = 0
    BY <2>1
  <2>2. CASE n # 0
    <3>1. n \in 1 .. Len(file)
      BY <2>2, FileTypes
    <3>2. PICK p \in 0 .. n : n = p * Size + Size
      BY <1>1, <2>2, <3>1 DEF FileSound
    <3>3. n = (p + 1) * Size + 0 /\ p + 1 \in Nat
      BY <3>2
    <3>4. QED BY <3>3
  <2>3. QED BY <2>1, <2>2
<1>4. Len(file) = q * Size + r /\ 0 \in 0 .. Size - 1
  BY <1>2, <1>3
<1>5. WholeLines' = SubSeq(WholeLines, 1, q)
  BY <1>1, <1>3, <1>4, CutLines
<1>6. WholeLines \in Seq(Lines) /\ Len(WholeLines) = q
  BY <1>4, LinesOf
<1>7. QED BY <1>5, <1>6, SubSeqFull

\* What the disk loses with the power was never confirmed.
LEMMA LossForgets ==
  ASSUME FdTypes, FileSound, ConfirmedOnDisk, FdTypes', PowerLoss
  PROVE  Port!Forget
<1>0. Len(file) \in Nat /\ synced \in 0 .. Len(file)
  BY FileTypes DEF FdTypes
<1>1. PICK n \in (IF named THEN synced ELSE 0) .. Len(file) : file' = SubSeq(file, 1, n)
  BY DEF PowerLoss
<1>2. n \in 0 .. Len(file) /\ n \in Nat
  BY <1>0, <1>1
<1>3. PICK k \in Nat, h \in 0 .. Size - 1 : n = k * Size + h
  BY <1>2, Divided
<1>4. PICK q \in Nat, r \in 0 .. Size - 1 : Len(file) = q * Size + r
  BY <1>0, Divided
<1>5. k \in 0 .. q /\ WholeLines' = SubSeq(WholeLines, 1, k)
  BY <1>1, <1>2, <1>3, <1>4, CutLines
<1>6. /\ Len(WholeLines) = q
      /\ \A j \in 1 .. q : /\ j * Size \in 1 .. Len(file) /\ file[j * Size].part = Size
                          /\ WholeLines[j] = file[j * Size].line
  BY <1>4, LinesOf
<1>7. ASSUME NEW j \in k + 1 .. q, reply[WholeLines[j]] = "ok" PROVE FALSE
  <2>1. /\ j \in 1 .. q /\ j * Size \in 1 .. Len(file) /\ file[j * Size].part = Size
        /\ WholeLines[j] = file[j * Size].line
    BY <1>6
  <2>2. PICK l \in Lines : l = WholeLines[j] /\ file[j * Size] = Chunk(l, Size)
    BY <2>1, FileTypes
  <2>3. OnDisk(l)
    BY <1>7, <2>2 DEF ConfirmedOnDisk
  <2>4. PICK i \in 0 .. synced - Size : file[i + Size] = Chunk(l, Size)
    BY <2>3 DEF OnDisk
  <2>5. i + Size \in 1 .. Len(file) /\ i + Size <= synced
    BY <1>0, <2>4
  <2>6. PICK e \in 1 .. Len(file) : e = j * Size
    BY <2>1
  <2>7. i + Size = e
    BY <2>2, <2>4, <2>5, <2>6 DEF FileSound
  <2>8. named /\ e <= n
    BY <1>0, <1>1, <2>3, <2>5, <2>7 DEF OnDisk
  <2>9. (k + 1) * Size <= j * Size /\ (k + 1) * Size = k * Size + Size
    BY Monotone
  <2>10. QED BY <1>3, <2>6, <2>8, <2>9
<1>8. reply' = reply /\ ~power'
  BY DEF PowerLoss
<1>9. k \in 0 .. Len(WholeLines) /\ \A j \in k + 1 .. Len(WholeLines) : reply[WholeLines[j]] # "ok"
  BY <1>5, <1>6, <1>7
<1>10. QED BY <1>5, <1>8, <1>9 DEF Port!Forget

\* Every step of the instance is a step of the port, or none.
LEMMA PortStep ==
  ASSUME FdInv, FdInv', [FdNext]_fdVars
  PROVE  [Port!PortNext]_(Port!portVars)
<1> USE DEF Port!PortNext
<1>0. FdTypes /\ QueueSound /\ FileSound /\ ConfirmedOnDisk /\ FdTypes'
  BY DEF FdInv
<1>1. CASE UNCHANGED fdVars
  BY <1>1 DEF fdVars, Port!portVars, WholeLines
<1>2. ASSUME FdNext, NEW l \in Lines, CallAppend(l) PROVE Port!Ask(l)
  BY <1>2 DEF CallAppend, Port!Ask, WholeLines
<1>3. CASE FdNext /\ (CallClose \/ Opened)
  BY <1>3 DEF CallClose, Opened, Port!portVars, WholeLines
<1>4. CASE FdNext /\ StartAppend
  <2>1. CASE MayRun
    BY <1>4, <2>1 DEF StartAppend, Port!portVars, WholeLines
  <2>2. CASE ~MayRun
    <3>1. Port!Reject(Current) /\ Current \in Lines
      BY <1>0, <1>4, <2>2, FailureRejects DEF StartAppend, MayRun
    <3>2. QED BY <3>1
  <2>3. QED BY <2>1, <2>2
<1>5. CASE FdNext /\ (StartClose \/ HandleClosed)
  <2>1. Current \notin Lines
    BY <1>0, <1>5 DEF StartClose, HandleClosed, QueueSound
  <2>2. QED BY <1>5, <2>1 DEF StartClose, HandleClosed, Finish, Port!portVars, WholeLines
<1>6. ASSUME FdNext, NEW n \in 1 .. Size, Wrote(n)
      PROVE  [Port!PortNext]_(Port!portVars)
  <2>1. RunSound /\ ChunksHaveCalls /\ power
    BY <1>6 DEF FdInv, FdNext
  <2>2. Port!Land(Current) \/ UNCHANGED Port!portVars
    BY <1>0, <1>6, <2>1, WriteLands
  <2>3. Current \in Lines
    BY <1>0, <1>6 DEF QueueSound, Wrote
  <2>4. QED BY <2>2, <2>3
<1>7. CASE FdNext /\ (Synced \/ DirSynced)
  <2>1. RunSound /\ power
    BY <1>7 DEF FdInv, FdNext
  <2>2. Current \in Lines /\ Current \in Port!Present /\ reply[Current] = "waiting" /\ ~failed
    BY <1>0, <1>7, <2>1, SyncedIsPresent DEF Synced, DirSynced
  <2>3. UNCHANGED << failed, power >> /\ WholeLines' = WholeLines
    BY <1>7 DEF Synced, DirSynced, WholeLines
  <2>4. CASE Finish("ok")
    <3>1. Port!Confirm(Current)
      BY <2>1, <2>2, <2>3, <2>4 DEF Port!Confirm, Finish
    <3>2. QED BY <2>2, <3>1
  <2>5. CASE ~Finish("ok")
    BY <1>7, <2>3, <2>5 DEF Synced, DirSynced, Port!portVars
  <2>6. QED BY <2>4, <2>5
<1>8. CASE FdNext /\ StepFails
  <2>1. Current \in Lines /\ Busy /\ failed' /\ Finish("rejected") /\ file' = file
    BY <1>0, <1>8 DEF StepFails, QueueSound, Unsure
  <2>2. Port!Reject(Current)
    BY <1>0, <2>1, FailureRejects
  <2>3. QED BY <2>1, <2>2
<1>9. CASE FdNext /\ MarkRepaired
  <2>1. WholeLines' = WholeLines
    BY <1>0, <1>9, MendingKeepsLines DEF MarkRepaired
  <2>2. Port!Repair
    BY <1>9, <2>1 DEF MarkRepaired, FdNext, Port!Repair
  <2>3. QED BY <2>2
<1>10. CASE FdNext /\ PowerLoss
  BY <1>0, <1>10, LossForgets
<1>11. QED
  BY <1>1, <1>2, <1>3, <1>4, <1>5, <1>6, <1>7, <1>8, <1>9, <1>10 DEF FdNext, RunStep

\* The durability instance implements the port that the gate and the coordinator
\* write through: whole lines land in file order and before their answers, a
\* rejection closes the journal, and a power loss takes only what was not confirmed.
THEOREM InstanceImplementsPort == FdSpec => ImplementsPort
<1>1. FdInit => Port!PortInit
  <2> SUFFICES ASSUME FdInit PROVE Port!PortInit
    OBVIOUS
  <2>1. Len(file) = 0 * Size + 0 /\ Len(file) = 0
    BY EmptySeq DEF FdInit
  <2>2. FdInv
    BY FdInvInit
  <2>3. WholeLines \in Seq(Lines) /\ Len(WholeLines) = 0
    BY <2>1, <2>2, LinesOf DEF FdInv
  <2>4. WholeLines = << >>
    BY <2>3, EmptySeq
  <2>5. QED BY <2>4 DEF FdInit, Port!PortInit
<1>2. FdInv /\ FdInv' /\ [FdNext]_fdVars => [Port!PortNext]_(Port!portVars)
  BY PortStep
<1>3. QED BY <1>1, <1>2, FdInvAlways, PTL DEF FdSpec, ImplementsPort, Port!PortSpec

===============================================================================
