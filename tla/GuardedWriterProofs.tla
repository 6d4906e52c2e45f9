-------------------------- MODULE GuardedWriterProofs --------------------------
(***************************************************************************)
(* What holds of the journal's writers for every number of processes,      *)
(* appends and calls of dispose().                                         *)
(***************************************************************************)
EXTENDS GuardedWriter, FiniteSetTheorems, TLAPS

\* The scan of the journal is defined: there is a first oath with the highest
\* epoch, or no oath at all.
HasTop(j) ==
  \/ LegibleOaths(j) = {}
  \/ \E i \in LegibleOaths(j) :
       \A k \in LegibleOaths(j) :
         j[k].epoch < j[i].epoch \/ (j[k].epoch = j[i].epoch /\ i <= k)

TypeInv == GwTypeOK /\ HasTop(journal)

USE WriterAssumption DEF AppendOp

-------------------------------------------------------------------------------
(* Facts about journals.                                                       *)

LEMMA RowTypes ==
  ASSUME NEW b \in Boots, NEW e \in Nat
  PROVE  Oath(b, e) \in Rows /\ Row(b) \in Rows /\ Torn(b) \in Rows
BY DEF Oath, Row, Torn, Rows

LEMMA RowFields ==
  ASSUME NEW r \in Rows
  PROVE  r.kind \in {"oath", "row", "torn"} /\ r.by \in Boots \cup {NoBoot} /\ r.epoch \in Nat
BY DEF Rows

\* A row at the end changes nothing of what was legible before.
LEMMA LegibleGrows ==
  ASSUME NEW j \in Seq(Rows), NEW r \in Rows
  PROVE  LegibleOaths(Append(j, r)) \in {LegibleOaths(j), LegibleOaths(j) \cup {Len(j) + 1}}
BY DEF LegibleOaths, Oaths, Legible, Rows

LEMMA TopGrows ==
  ASSUME NEW j \in Seq(Rows), NEW r \in Rows, HasTop(j)
  PROVE  HasTop(Append(j, r))
<1> DEFINE n == Append(j, r)
           L == LegibleOaths(j)
           M == LegibleOaths(n)
           Top(i, S) == \A k \in S : n[k].epoch < n[i].epoch \/ (n[k].epoch = n[i].epoch /\ i <= k)
<1>1. M = L \/ M = L \cup {Len(j) + 1}
  BY LegibleGrows
<1>2. \A i \in L : i \in 1 .. Len(j) /\ n[i] = j[i]
  BY DEF LegibleOaths, Oaths
<1>3. \A i \in M : i \in Int /\ n[i].epoch \in Int
  <2>1. \A i \in M : i \in 1 .. Len(n)
    BY DEF LegibleOaths, Oaths
  <2>2. n \in Seq(Rows)
    OBVIOUS
  <2>3. \A i \in 1 .. Len(n) : n[i] \in Rows
    BY <2>2
  <2>4. \A i \in 1 .. Len(n) : n[i].epoch \in Nat
    BY <2>3, RowFields
  <2>5. QED BY <2>1, <2>4
<1>4. L = {} \/ \E i \in L : Top(i, L)
  BY <1>2 DEF HasTop
<1>5. M = {} \/ \E i \in M : Top(i, M)
  <2>1. CASE M = L
    BY <1>4, <2>1
  <2>2. CASE M = L \cup {Len(j) + 1} /\ L = {}
    <3>1. Top(Len(j) + 1, M)
      BY <2>2
    <3>2. QED BY <2>2, <3>1
  <2>3. CASE M = L \cup {Len(j) + 1} /\ L # {}
    <3>1. PICK i \in L : Top(i, L)
      BY <1>4, <2>3
    <3>2. CASE n[Len(j) + 1].epoch <= n[i].epoch
      <4>1. Top(i, M)
        BY <1>2, <1>3, <2>3, <3>1, <3>2
      <4>2. QED BY <2>3, <4>1
    <3>3. CASE ~(n[Len(j) + 1].epoch <= n[i].epoch)
      <4>1. Top(Len(j) + 1, M)
        BY <1>2, <1>3, <2>3, <3>1, <3>3
      <4>2. QED BY <2>3, <4>1
    <3>4. QED BY <3>2, <3>3
  <2>4. QED BY <1>1, <2>1, <2>2, <2>3
<1>6. QED BY <1>5 DEF HasTop

LEMMA NextEpochType ==
  ASSUME NEW j \in Seq(Rows), HasTop(j)
  PROVE  NextEpoch(j) \in Nat \ {0}
<1>1. CASE LegibleOaths(j) = {}
  BY <1>1 DEF NextEpoch, MaxEpoch
<1>2. CASE LegibleOaths(j) # {}
  <2>1. TopOath(j) \in LegibleOaths(j)
    BY <1>2 DEF HasTop, TopOath
  <2>2. j[TopOath(j)] \in Rows
    BY <2>1 DEF LegibleOaths, Oaths
  <2>3. j[TopOath(j)].epoch \in Nat
    BY <2>2, RowFields
  <2>4. QED BY <1>2, <2>3 DEF NextEpoch, MaxEpoch
<1>3. QED BY <1>1, <1>2

LEMMA UnitsType ==
  ASSUME NEW j \in Seq(Rows)
  PROVE  Units(j) \in Nat
<1> DEFINE All == 1 .. Len(j)
           Bad == {i \in All : j[i].kind = "torn"}
<1>1. IsFiniteSet(All) /\ Cardinality(All) = Len(j)
  BY FS_Interval
<1>2. IsFiniteSet(Bad) /\ Cardinality(Bad) <= Cardinality(All)
  BY <1>1, FS_Subset
<1>3. Cardinality(Bad) \in Nat
  BY <1>2, FS_CardinalityType
<1>4. QED BY <1>1, <1>2, <1>3 DEF Units

-------------------------------------------------------------------------------
(* Types.                                                                      *)

LEMMA TypeInvInit == GwInit => TypeInv
<1> SUFFICES ASSUME GwInit PROVE TypeInv
  OBVIOUS
<1>1. journal \in Seq(Rows)
  <2>1. Row(NoBoot) \in Rows /\ Torn(NoBoot) \in Rows
    BY DEF Row, Torn, Rows
  <2>2. << >> \in Seq(Rows) /\ << Row(NoBoot) >> \in Seq(Rows) /\ << Torn(NoBoot) >> \in Seq(Rows)
    BY <2>1
  <2>3. QED BY <2>2 DEF GwInit, LogInit
<1>2. LegibleOaths(journal) = {}
  BY DEF GwInit, LogInit, Row, Torn, LegibleOaths, Oaths
<1>3. GwTypeOK
  BY <1>1 DEF GwInit, GwTypeOK, QueueSound, NoLock, Verdicts, Stages, Booting, Resting
<1>4. QED BY <1>2, <1>3 DEF TypeInv, HasTop

\* The queue of b loses a head that is no dispose() still waiting.
LEMMA QueuePopped ==
  ASSUME GwTypeOK, NEW b \in Boots, queue[b] # << >>,
         Head(queue[b]) = AppendOp,
         queue' = [queue EXCEPT ![b] = Tail(@)],
         stage' = stage
  PROVE  /\ queue' \in [Boots -> Seq(Disposers \cup {AppendOp})]
         /\ \A c \in Boots, d \in Disposers :
              stage'[c][d] = "drain" => \E i \in 1 .. Len(queue'[c]) : queue'[c][i] = d
<1>1. queue[b] \in Seq(Disposers \cup {AppendOp})
  BY DEF GwTypeOK
<1>2. Tail(queue[b]) \in Seq(Disposers \cup {AppendOp})
  BY <1>1
<1>3. queue' \in [Boots -> Seq(Disposers \cup {AppendOp})]
  BY <1>2 DEF GwTypeOK
<1>4. ASSUME NEW d \in Disposers, stage[b][d] = "drain"
      PROVE  \E i \in 1 .. Len(queue'[b]) : queue'[b][i] = d
  <2>1. PICK i \in 1 .. Len(queue[b]) : queue[b][i] = d
    BY <1>4 DEF GwTypeOK, QueueSound
  <2>2. i # 1
    BY <1>1, <2>1
  <2>3. /\ i - 1 \in 1 .. Len(Tail(queue[b]))
        /\ Tail(queue[b])[i - 1] = d
    BY <1>1, <2>1, <2>2
  <2>4. queue'[b] = Tail(queue[b])
    BY DEF GwTypeOK
  <2>5. QED BY <2>3, <2>4
<1>5. ASSUME NEW c \in Boots \ {b}, NEW d \in Disposers, stage[c][d] = "drain"
      PROVE  \E i \in 1 .. Len(queue'[c]) : queue'[c][i] = d
  <2>1. queue'[c] = queue[c]
    BY DEF GwTypeOK
  <2>2. QED BY <1>5, <2>1 DEF GwTypeOK, QueueSound
<1>6. QED BY <1>3, <1>4, <1>5

LEMMA QueueGrows ==
  ASSUME GwTypeOK, NEW b \in Boots, NEW op \in Disposers \cup {AppendOp},
         queue' = [queue EXCEPT ![b] = Append(@, op)]
  PROVE  /\ queue' \in [Boots -> Seq(Disposers \cup {AppendOp})]
         /\ \A c \in Boots : queue[c] # << >> => queue'[c] # << >> /\ Head(queue'[c]) = Head(queue[c])
         /\ \A c \in Boots, d \in Disposers :
              (\E i \in 1 .. Len(queue[c]) : queue[c][i] = d)
                => \E i \in 1 .. Len(queue'[c]) : queue'[c][i] = d
         /\ \E i \in 1 .. Len(queue'[b]) : queue'[b][i] = op
<1>1. queue \in [Boots -> Seq(Disposers \cup {AppendOp})]
  BY DEF GwTypeOK
<1>2. queue'[b] = Append(queue[b], op)
  BY <1>1
<1>3. \A c \in Boots \ {b} : queue'[c] = queue[c]
  BY <1>1
<1>4. queue' \in [Boots -> Seq(Disposers \cup {AppendOp})]
  BY <1>1
<1>5. Len(queue'[b]) \in 1 .. Len(queue'[b]) /\ queue'[b][Len(queue'[b])] = op
  BY <1>1, <1>2
<1>6. queue[b] # << >> => queue'[b] # << >> /\ Head(queue'[b]) = Head(queue[b])
  BY <1>1, <1>2
<1>7. \A i \in 1 .. Len(queue[b]) : i \in 1 .. Len(queue'[b]) /\ queue'[b][i] = queue[b][i]
  BY <1>1, <1>2
<1>8. QED BY <1>3, <1>4, <1>5, <1>6, <1>7

LockFiles == [by : Boots \cup {NoBoot}, body : BOOLEAN]

LEMMA LockTypes ==
  /\ NoLock \in LockFiles
  /\ \A b \in Boots : [by |-> b, body |-> FALSE] \in LockFiles
  /\ \A l \in LockFiles : [l EXCEPT !.body = TRUE] \in LockFiles
BY DEF LockFiles, NoLock

\* The journal stays one whose scan is defined when a row may have been added.
LEMMA JournalGrows ==
  ASSUME TypeInv, \E r \in Rows : journal' \in {journal, Append(journal, r)}
  PROVE  journal' \in Seq(Rows) /\ HasTop(journal')
<1>1. PICK r \in Rows : journal' = journal \/ journal' = Append(journal, r)
  OBVIOUS
<1>2. journal \in Seq(Rows) /\ HasTop(journal)
  BY DEF TypeInv, GwTypeOK
<1>3. CASE journal' = journal
  BY <1>2, <1>3
<1>4. CASE journal' = Append(journal, r)
  <2>1. HasTop(Append(journal, r))
    BY <1>2, TopGrows
  <2>2. QED BY <1>2, <1>4, <2>1
<1>5. QED BY <1>1, <1>3, <1>4

LEMMA OneValueSet ==
  ASSUME NEW S, NEW f \in [Boots -> S], NEW b \in Boots, NEW v \in S
  PROVE  [f EXCEPT ![b] = v] \in [Boots -> S]
OBVIOUS

LEMMA TypeInvStep == ASSUME TypeInv, [GwNext]_gwVars PROVE TypeInv'
<1> USE DEF TypeInv, GwTypeOK
<1> DEFINE Queued == \A b \in Boots, d \in Disposers :
                       stage[b][d] = "drain" => \E i \in 1 .. Len(queue[b]) : queue[b][i] = d
           AtHead == \A b \in Boots :
                       pc[b] \in {"check", "rescan", "write"}
                         => queue[b] # << >> /\ Head(queue[b]) = AppendOp
<1>0. Queued /\ AtHead
  BY DEF QueueSound
<1>1. ASSUME NEW b \in Boots,
             WriterFor(b) \/ CreateLock(b) \/ WriteLockBody(b) \/ AfterLock(b) \/ AbortRead(b)
               \/ AbortUnlinks(b)
      PROVE  TypeInv'
  <2>0. lock' \in {lock, NoLock, [by |-> b, body |-> FALSE], [lock EXCEPT !.body = TRUE]}
    BY <1>1 DEF WriterFor, CreateLock, WriteLockBody, AfterLock, AbortRead, AbortUnlinks, Unlink
  <2>1. lock' \in [by : Boots \cup {NoBoot}, body : BOOLEAN]
    BY <2>0, LockTypes DEF LockFiles
  <2>2. /\ UNCHANGED << journal, alive, queue, asks, epoch, base, frozen, innerFailed, stage >>
        /\ registered' \in [Boots -> BOOLEAN]
        /\ \E to \in Booting \cup {"refusing"} : pc' = [pc EXCEPT ![b] = to]
    BY <1>1 DEF WriterFor, CreateLock, WriteLockBody, AfterLock, AbortRead, AbortUnlinks, guardVars,
       disposeVars, Goes, Booting
  <2>3. QueueSound'
    BY <2>2, <1>0 DEF QueueSound, Booting
  <2>4. QED BY <2>1, <2>2, <2>3 DEF Resting
<1>2. ASSUME NEW b \in Boots, Scan(b) \/ OathRead(b)
      PROVE  TypeInv'
  <2>0. NextEpoch(journal) \in Nat /\ Units(journal) \in Nat
    BY NextEpochType, UnitsType
  <2>1. epoch' \in [Boots -> Nat] /\ base' \in [Boots -> Nat]
    <3>1. epoch' \in {epoch, [epoch EXCEPT ![b] = NextEpoch(journal)]}
      BY <1>2 DEF Scan, OathRead
    <3>2. base' \in {base, [base EXCEPT ![b] = Units(journal)]}
      BY <1>2 DEF Scan, OathRead
    <3>3. [epoch EXCEPT ![b] = NextEpoch(journal)] \in [Boots -> Nat]
      BY <2>0, OneValueSet
    <3>4. [base EXCEPT ![b] = Units(journal)] \in [Boots -> Nat]
      BY <2>0, OneValueSet
    <3>5. QED BY <3>1, <3>2, <3>3, <3>4
  <2>2. /\ UNCHANGED << journal, alive, queue, asks, frozen, innerFailed, stage, registered, lock >>
        /\ \E to \in {"refusing", "oathread", "oathappend"} : pc' = [pc EXCEPT ![b] = to]
    BY <1>2 DEF Scan, OathRead, disposeVars, Goes
  <2>3. QueueSound'
    BY <2>2, <1>0 DEF QueueSound
  <2>4. QED BY <2>1, <2>2, <2>3 DEF Resting, Booting
<1>3. ASSUME NEW b \in Boots, OathAppend(b)
      PROVE  TypeInv'
  <2>1. \E r \in Rows : journal' \in {journal, Append(journal, r)}
    BY <1>3, RowTypes DEF OathAppend
  <2>2. journal' \in Seq(Rows) /\ HasTop(journal')
    BY <2>1, JournalGrows
  <2>3. base' \in [Boots -> Nat]
    BY <1>3 DEF OathAppend, OathEnd
  <2>4. /\ UNCHANGED << alive, queue, asks, epoch, frozen, innerFailed, stage, registered, lock >>
        /\ \E to \in {"refusing", "open"} : pc' = [pc EXCEPT ![b] = to]
    BY <1>3 DEF OathAppend, disposeVars, Goes
  <2>5. QueueSound'
    BY <2>4, <1>0 DEF QueueSound
  <2>6. QED BY <2>2, <2>3, <2>4, <2>5 DEF Resting
<1>4. ASSUME NEW b \in Boots, AskAppend(b)
      PROVE  TypeInv'
  <2>1. queue' = [queue EXCEPT ![b] = Append(@, AppendOp)] /\ UNCHANGED << journal, pc, stage >>
    BY <1>4 DEF AskAppend, disposeVars
  <2>2. queue' \in [Boots -> Seq(Disposers \cup {AppendOp})] /\ QueueSound'
    BY <2>1, <1>0, QueueGrows DEF QueueSound
  <2>3. asks' \in [Boots -> 0 .. MaxAsks]
    BY <1>4 DEF AskAppend
  <2>4. UNCHANGED << alive, epoch, base, frozen, innerFailed, registered, lock >>
    BY <1>4 DEF AskAppend, guardVars, disposeVars
  <2>5. QED BY <2>1, <2>2, <2>3, <2>4
<1>5. ASSUME NEW b \in Boots, StartAppend(b) \/ Check(b) \/ Rescan(b)
      PROVE  TypeInv'
  <2>1. queue[b] # << >> /\ Head(queue[b]) = AppendOp
    BY <1>5, <1>0 DEF StartAppend, Ready, Check, Rescan
  <2>2. /\ UNCHANGED << journal, alive, asks, epoch, base, innerFailed, stage, registered, lock >>
        /\ frozen' \in [Boots -> Verdicts]
        /\ \/ queue' = queue /\ \E to \in {"check", "rescan", "write"} : pc' = [pc EXCEPT ![b] = to]
           \/ queue' = [queue EXCEPT ![b] = Tail(@)] /\ \E to \in Resting : pc' = [pc EXCEPT ![b] = to]
    <3>1. CASE StartAppend(b)
      <4>1. pc[b] \in Resting /\ pc' \in {pc, [pc EXCEPT ![b] = "check"]}
        BY <3>1 DEF StartAppend, Ready, Goes
      <4>2. pc' = pc => pc' = [pc EXCEPT ![b] = pc[b]]
        OBVIOUS
      <4>3. QED BY <3>1, <4>1, <4>2 DEF StartAppend, Over, Goes, guardVars, disposeVars
    <3>2. CASE Check(b)
      BY <3>2 DEF Check, Freeze, Over, Goes, disposeVars, Verdicts, Resting
    <3>3. CASE Rescan(b)
      BY <3>3 DEF Rescan, Freeze, Over, Goes, disposeVars, Verdicts, Resting
    <3>4. QED BY <1>5, <3>1, <3>2, <3>3
  <2>3. queue' \in [Boots -> Seq(Disposers \cup {AppendOp})] /\ QueueSound'
    <3>1. CASE queue' = queue
      <4>1. Queued'
        BY <3>1, <2>2, <1>0
      <4>2. AtHead'
        BY <3>1, <2>1, <2>2, <1>0
      <4>3. QED BY <3>1, <4>1, <4>2 DEF QueueSound
    <3>2. CASE queue' # queue
      <4>1. queue' \in [Boots -> Seq(Disposers \cup {AppendOp})] /\ Queued'
        BY <3>2, <2>1, <2>2, QueuePopped
      <4>2. PICK to \in Resting : pc' = [pc EXCEPT ![b] = to]
        BY <3>2, <2>2
      <4>3. pc'[b] = to /\ to \notin {"check", "rescan", "write"}
        BY <4>2 DEF Resting
      <4>4. \A c \in Boots \ {b} : pc'[c] = pc[c] /\ queue'[c] = queue[c]
        BY <4>2, <3>2, <2>2
      <4>5. AtHead'
        BY <4>3, <4>4, <1>0
      <4>6. QED BY <4>1, <4>5 DEF QueueSound
    <3>3. QED BY <3>1, <3>2
  <2>4. pc' \in [Boots -> {"down", "check", "rescan", "write"} \cup Booting \cup Resting]
    <3>1. PICK to \in {"check", "rescan", "write"} \cup Resting : pc' = [pc EXCEPT ![b] = to]
      BY <2>2
    <3>2. QED BY <3>1
  <2>5. QED BY <2>2, <2>3, <2>4
<1>6. ASSUME NEW b \in Boots, RowWrite(b)
      PROVE  TypeInv'
  <2>1. queue[b] # << >> /\ Head(queue[b]) = AppendOp
    BY <1>6, <1>0 DEF RowWrite
  <2>2. \E r \in Rows : journal' \in {journal, Append(journal, r)}
    BY <1>6, RowTypes DEF RowWrite
  <2>3. journal' \in Seq(Rows) /\ HasTop(journal')
    BY <2>2, JournalGrows
  <2>4. base' \in [Boots -> Nat] /\ innerFailed' \in [Boots -> BOOLEAN]
    <3>1. base' \in {base, [base EXCEPT ![b] = @ + 2]}
      BY <1>6 DEF RowWrite, Noted
    <3>2. innerFailed' \in {innerFailed, [innerFailed EXCEPT ![b] = TRUE]}
      BY <1>6 DEF RowWrite
    <3>3. base' \in [Boots -> Nat]
      <4>1. base[b] + 2 \in Nat
        OBVIOUS
      <4>2. [base EXCEPT ![b] = base[b] + 2] \in [Boots -> Nat]
        BY <4>1, OneValueSet
      <4>3. QED BY <3>1, <4>2
    <3>4. innerFailed' \in [Boots -> BOOLEAN]
      BY <3>2
    <3>5. QED BY <3>3, <3>4
  <2>5. /\ UNCHANGED << alive, asks, epoch, frozen, stage, registered, lock >>
        /\ queue' = [queue EXCEPT ![b] = Tail(@)]
        /\ pc' = [pc EXCEPT ![b] = "open"]
    BY <1>6 DEF RowWrite, Over, Goes, disposeVars
  <2>6. queue' \in [Boots -> Seq(Disposers \cup {AppendOp})] /\ Queued'
    BY <2>1, <2>5, QueuePopped
  <2>7. AtHead'
    BY <2>5, <1>0
  <2>8. QED BY <2>3, <2>4, <2>5, <2>6, <2>7 DEF QueueSound, Resting
<1>7. ASSUME NEW b \in Boots, NEW d \in Disposers, Dispose(b, d)
      PROVE  TypeInv'
  <2>1. UNCHANGED << journal, alive, pc, asks, epoch, base, frozen, innerFailed, registered, lock >>
    BY <1>7 DEF Dispose, guardVars
  <2>2. CASE Drained(b)
    <3>1. queue' = queue /\ stage' = [stage EXCEPT ![b][d] = "release"]
      BY <1>7, <2>2 DEF Dispose, At
    <3>2. stage' \in [Boots -> [Disposers -> Stages]] /\ QueueSound'
      BY <2>1, <3>1, <1>0 DEF QueueSound, Stages
    <3>3. QED BY <2>1, <3>1, <3>2
  <2>3. CASE ~Drained(b)
    <3>1. queue' = [queue EXCEPT ![b] = Append(@, d)] /\ stage' = [stage EXCEPT ![b][d] = "drain"]
      BY <1>7, <2>3 DEF Dispose, At
    <3>2. stage' \in [Boots -> [Disposers -> Stages]]
      BY <3>1 DEF Stages
    <3>3. queue' \in [Boots -> Seq(Disposers \cup {AppendOp})] /\ AtHead'
      BY <2>1, <3>1, <1>0, QueueGrows
    <3>4. ASSUME NEW c \in Boots, NEW e \in Disposers, stage'[c][e] = "drain"
          PROVE  \E i \in 1 .. Len(queue'[c]) : queue'[c][i] = e
      <4>1. CASE c = b /\ e = d
        <5>1. \E i \in 1 .. Len(queue'[b]) : queue'[b][i] = d
          <6>1. d \in Disposers \cup {AppendOp}
            OBVIOUS
          <6>2. QED BY <3>1, <6>1, QueueGrows
        <5>2. QED BY <4>1, <5>1
      <4>2. CASE ~(c = b /\ e = d)
        <5>1. stage[c][e] = "drain"
          BY <3>1, <3>4, <4>2
        <5>2. \E i \in 1 .. Len(queue[c]) : queue[c][i] = e
          BY <5>1, <1>0
        <5>3. d \in Disposers \cup {AppendOp}
          OBVIOUS
        <5>4. (\E i \in 1 .. Len(queue[c]) : queue[c][i] = e)
                => \E i \in 1 .. Len(queue'[c]) : queue'[c][i] = e
          BY <3>1, <5>3, QueueGrows
        <5>5. QED BY <5>2, <5>4
      <4>3. QED BY <4>1, <4>2
    <3>5. QED BY <2>1, <3>2, <3>3, <3>4 DEF QueueSound
  <2>4. QED BY <2>2, <2>3
<1>8. ASSUME NEW b \in Boots, Close(b)
      PROVE  TypeInv'
  <2> DEFINE h == Head(queue[b])
  <2>1. /\ UNCHANGED << journal, alive, asks, epoch, base, frozen, innerFailed, registered, lock >>
        /\ pc' = [pc EXCEPT ![b] = "shut"]
        /\ queue' = [queue EXCEPT ![b] = Tail(@)]
        /\ queue[b] # << >> /\ h \in Disposers
        /\ stage' = [stage EXCEPT ![b][h] = IF @ = "drain" THEN "release" ELSE @]
    BY <1>8 DEF Close, Ready, Goes, Over, guardVars
  <2>2. queue[b] \in Seq(Disposers \cup {AppendOp})
    OBVIOUS
  <2>3. queue' \in [Boots -> Seq(Disposers \cup {AppendOp})]
    BY <2>1, <2>2
  <2>4. stage' \in [Boots -> [Disposers -> Stages]]
    BY <2>1 DEF Stages
  <2>5. AtHead'
    BY <2>1, <1>0
  <2>6. ASSUME NEW c \in Boots, NEW e \in Disposers, stage'[c][e] = "drain"
        PROVE  \E i \in 1 .. Len(queue'[c]) : queue'[c][i] = e
    <3>1. stage[c][e] = "drain" /\ ~(c = b /\ e = h)
      BY <2>1, <2>6
    <3>2. PICK i \in 1 .. Len(queue[c]) : queue[c][i] = e
      BY <3>1, <1>0
    <3>3. CASE c = b
      <4>1. i # 1
        BY <2>2, <3>1, <3>2, <3>3
      <4>2. i - 1 \in 1 .. Len(Tail(queue[b])) /\ Tail(queue[b])[i - 1] = e
        BY <2>1, <2>2, <3>2, <3>3, <4>1
      <4>3. queue'[b] = Tail(queue[b])
        BY <2>1
      <4>4. QED BY <3>3, <4>2, <4>3
    <3>4. CASE c # b
      <4>1. queue'[c] = queue[c]
        BY <2>1, <3>4
      <4>2. QED BY <3>2, <4>1
    <3>5. QED BY <3>3, <3>4
  <2>7. QED BY <2>1, <2>3, <2>4, <2>5, <2>6 DEF QueueSound, Resting
<1>9. ASSUME NEW b \in Boots, NEW d \in Disposers,
             ReleaseRead(b, d) \/ ReleaseUnlink(b, d) \/ ReleaseShared(b, d)
      PROVE  TypeInv'
  <2>1. /\ UNCHANGED << journal, alive, pc, queue, asks, epoch, base, frozen, innerFailed, registered >>
        /\ lock' \in {NoLock, lock}
        /\ \E s \in {"done", "unlink"} : stage' = [stage EXCEPT ![b][d] = s]
    BY <1>9 DEF ReleaseRead, ReleaseUnlink, ReleaseShared, Unlink, At, guardVars
  <2>2. stage' \in [Boots -> [Disposers -> Stages]] /\ QueueSound'
    BY <2>1, <1>0 DEF QueueSound, Stages
  <2>3. lock' \in [by : Boots \cup {NoBoot}, body : BOOLEAN]
    BY <2>1, LockTypes DEF LockFiles
  <2>4. QED BY <2>1, <2>2, <2>3
<1>10. ASSUME NEW b \in Boots, Crash(b)
       PROVE  TypeInv'
  <2>1. \E r \in Rows : journal' \in {journal, Append(journal, r)}
    BY <1>10, RowTypes DEF Crash
  <2>2. journal' \in Seq(Rows) /\ HasTop(journal')
    BY <2>1, JournalGrows
  <2>3. /\ queue' = [queue EXCEPT ![b] = << >>]
        /\ pc' = [pc EXCEPT ![b] = "down"]
        /\ stage' = [stage EXCEPT ![b] = [d \in Disposers |-> "no"]]
    BY <1>10 DEF Crash, Goes
  <2>4. /\ alive' \subseteq Boots /\ lock' = lock
        /\ asks' \in [Boots -> 0 .. MaxAsks]
        /\ epoch' \in [Boots -> Nat]
        /\ base' \in [Boots -> Nat]
        /\ frozen' \in [Boots -> Verdicts]
        /\ innerFailed' \in [Boots -> BOOLEAN]
        /\ registered' \in [Boots -> BOOLEAN]
    BY <1>10 DEF Crash, Verdicts
  <2>5. QueueSound'
    BY <2>3, <1>0 DEF QueueSound
  <2>6. /\ queue' \in [Boots -> Seq(Disposers \cup {AppendOp})]
        /\ pc' \in [Boots -> {"down", "check", "rescan", "write"} \cup Booting \cup Resting]
        /\ stage' \in [Boots -> [Disposers -> Stages]]
    <3>1. << >> \in Seq(Disposers \cup {AppendOp}) /\ [d \in Disposers |-> "no"] \in [Disposers -> Stages]
      BY DEF Stages
    <3>2. QED BY <2>3, <3>1
  <2>7. QED BY <2>2, <2>4, <2>5, <2>6
<1>11. CASE OperatorUnlocks
  <2>1. UNCHANGED << journal, alive, pc, queue, asks, epoch, base, frozen, innerFailed, stage, registered >>
    BY <1>11 DEF OperatorUnlocks, guardVars, disposeVars
  <2>2. lock' \in [by : Boots \cup {NoBoot}, body : BOOLEAN]
    BY <1>11, LockTypes DEF OperatorUnlocks, LockFiles
  <2>3. QED BY <2>1, <2>2 DEF QueueSound
<1>12. CASE UNCHANGED gwVars
  BY <1>12 DEF gwVars, QueueSound
<1>13. QED
  BY <1>1, <1>2, <1>3, <1>4, <1>5, <1>6, <1>7, <1>8, <1>9, <1>10, <1>11, <1>12 DEF GwNext, Step

\* Every reachable state has the types the code's fields have, and the queue of
\* every writer is in order: GwTypeOK, for a careful and a careless operator.
THEOREM GwTypeCorrect == GwSpec => []GwTypeOK
<1>1. TypeInv => GwTypeOK
  BY DEF TypeInv
<1>2. QED BY <1>1, TypeInvInit, TypeInvStep, PTL DEF GwSpec

-------------------------------------------------------------------------------
(* dispose() and the journal, with a careful or a careless operator.           *)

\* A process that has drained its queues has shut its writer.
ShutWhenDrained == \A b \in alive : Drained(b) => pc[b] = "shut"

LEMMA ShutInit == GwInit => ShutWhenDrained
BY DEF GwInit, ShutWhenDrained, Drained

LEMMA ShutStep == ASSUME TypeInv, ShutWhenDrained, [GwNext]_gwVars PROVE ShutWhenDrained'
<1>0. /\ pc \in [Boots -> {"down", "check", "rescan", "write"} \cup Booting \cup Resting]
      /\ stage \in [Boots -> [Disposers -> Stages]]
      /\ alive \subseteq Boots
  BY DEF TypeInv, GwTypeOK
<1> USE DEF ShutWhenDrained, Drained
<1>1. ASSUME NEW b \in Boots,
             \/ WriterFor(b) \/ CreateLock(b) \/ WriteLockBody(b) \/ AfterLock(b) \/ AbortRead(b)
             \/ AbortUnlinks(b) \/ Scan(b) \/ OathRead(b) \/ OathAppend(b) \/ Check(b) \/ Rescan(b)
             \/ RowWrite(b)
      PROVE  ShutWhenDrained'
  <2>1. b \in alive /\ pc[b] # "shut"
    BY <1>1 DEF WriterFor, CreateLock, WriteLockBody, AfterLock, AbortRead, AbortUnlinks, Scan, OathRead,
       OathAppend, Check, Rescan, RowWrite
  <2>2. UNCHANGED << alive, stage >>
    BY <1>1 DEF WriterFor, CreateLock, WriteLockBody, AfterLock, AbortRead, AbortUnlinks, Scan, OathRead,
       OathAppend, Check, Rescan, RowWrite, disposeVars
  <2>3. \E to : pc' = [pc EXCEPT ![b] = to]
    BY <1>1 DEF WriterFor, CreateLock, WriteLockBody, AfterLock, AbortRead, AbortUnlinks, Scan, OathRead,
       OathAppend, Check, Rescan, RowWrite, Goes, Freeze
  <2>4. QED BY <1>0, <2>1, <2>2, <2>3
<1>2. ASSUME NEW b \in Boots, AskAppend(b)
      PROVE  ShutWhenDrained'
  BY <1>2 DEF AskAppend, disposeVars
<1>3. ASSUME NEW b \in Boots, StartAppend(b)
      PROVE  ShutWhenDrained'
  <2>1. UNCHANGED << alive, stage >>
    BY <1>3 DEF StartAppend, disposeVars
  <2>2. pc' = pc \/ (pc[b] = "open" /\ pc' = [pc EXCEPT ![b] = "check"])
    BY <1>3 DEF StartAppend, Writes, Goes
  <2>3. QED BY <1>0, <2>1, <2>2
<1>4. ASSUME NEW b \in Boots, NEW d \in Disposers, Dispose(b, d)
      PROVE  ShutWhenDrained'
  <2>1. UNCHANGED << alive, pc >>
    BY <1>4 DEF Dispose
  <2>2. \/ Drained(b) /\ stage' = [stage EXCEPT ![b][d] = "release"]
        \/ stage' = [stage EXCEPT ![b][d] = "drain"]
    BY <1>4 DEF Dispose, At
  <2>3. QED BY <1>0, <2>1, <2>2
<1>5. ASSUME NEW b \in Boots, Close(b)
      PROVE  ShutWhenDrained'
  <2>1. /\ UNCHANGED alive
        /\ pc' = [pc EXCEPT ![b] = "shut"]
        /\ \A c \in Boots \ {b} : stage'[c] = stage[c]
    BY <1>0, <1>5 DEF Close, Goes
  <2>2. QED BY <1>0, <2>1
<1>6. ASSUME NEW b \in Boots, NEW d \in Disposers,
             ReleaseRead(b, d) \/ ReleaseUnlink(b, d) \/ ReleaseShared(b, d)
      PROVE  ShutWhenDrained'
  <2>1. UNCHANGED << alive, pc >> /\ b \in alive /\ Drained(b)
    BY <1>6 DEF ReleaseRead, ReleaseUnlink, ReleaseShared
  <2>2. \A c \in Boots \ {b} : stage'[c] = stage[c]
    BY <1>0, <1>6 DEF ReleaseRead, ReleaseUnlink, ReleaseShared, At
  <2>3. QED BY <1>0, <2>1, <2>2
<1>7. ASSUME NEW b \in Boots, Crash(b)
      PROVE  ShutWhenDrained'
  <2>1. alive' = alive \ {b} /\ \A c \in Boots \ {b} : pc'[c] = pc[c] /\ stage'[c] = stage[c]
    BY <1>0, <1>7 DEF Crash, Goes
  <2>2. QED BY <1>0, <2>1
<1>8. CASE OperatorUnlocks
  BY <1>8 DEF OperatorUnlocks, disposeVars
<1>9. CASE UNCHANGED gwVars
  BY <1>9 DEF gwVars, disposeVars
<1>10. QED
  BY <1>1, <1>2, <1>3, <1>4, <1>5, <1>6, <1>7, <1>8, <1>9 DEF GwNext, Step

\* Whoever changes the journal is alive, is at the append of its oath or of a
\* row, and its mark is on what it leaves at the end.
LEMMA WhoWrites ==
  ASSUME TypeInv, [GwNext]_gwVars, journal' # journal
  PROVE  \E b \in alive : /\ pc[b] \in {"oathappend", "write"}
                          /\ journal'[Len(journal')].by = b
<1>1. PICK b \in Boots : OathAppend(b) \/ RowWrite(b) \/ Crash(b)
  BY DEF GwNext, Step, gwVars, WriterFor, AskAppend, Dispose, CreateLock, WriteLockBody, AfterLock,
     AbortRead, AbortUnlinks, Scan, OathRead, StartAppend, Check, Rescan, Close, ReleaseRead,
     ReleaseUnlink, ReleaseShared, OperatorUnlocks
<1>2. b \in alive /\ pc[b] \in {"oathappend", "write"}
  BY <1>1 DEF OathAppend, RowWrite, Crash
<1>3. \E r \in {Oath(b, epoch[b]), Row(b), Torn(b)} : journal' = Append(journal, r)
  BY <1>1 DEF OathAppend, RowWrite, Crash
<1>4. PICK r \in {Oath(b, epoch[b]), Row(b), Torn(b)} : journal' = Append(journal, r)
  BY <1>3
<1>5. r.by = b
  BY DEF Oath, Row, Torn
<1>6. journal \in Seq(Rows) /\ r \in Rows
  BY RowTypes DEF TypeInv, GwTypeOK
<1>7. journal'[Len(journal')] = r
  BY <1>4, <1>6
<1>8. QED BY <1>2, <1>5, <1>7

\* After dispose() has returned its process writes nothing more, however many
\* calls of dispose(), appends and boots are in flight: QuietAfterDispose.
THEOREM DisposedIsQuiet == GwSpec => QuietAfterDispose
<1> DEFINE Inv == TypeInv /\ ShutWhenDrained
<1>1. GwInit => Inv
  BY TypeInvInit, ShutInit
<1>2. Inv /\ [GwNext]_gwVars => Inv'
  BY TypeInvStep, ShutStep
<1>3. ASSUME Inv, [GwNext]_gwVars, NEW b \in Boots, \E d \in Disposers : stage[b][d] = "done",
             journal' # journal
      PROVE  journal'[Len(journal')].by # b
  <2>1. PICK w \in alive : pc[w] \in {"oathappend", "write"} /\ journal'[Len(journal')].by = w
    BY <1>3, WhoWrites
  <2>2. w # b
    BY <1>3, <2>1 DEF ShutWhenDrained, Drained
  <2>3. QED BY <2>1, <2>2
<1>4. Inv /\ [GwNext]_gwVars =>
        [\A b \in Boots :
           (\E d \in Disposers : stage[b][d] = "done") /\ journal' # journal
             => journal'[Len(journal')].by # b]_gwVars
  BY <1>3
<1>5. QED BY <1>1, <1>2, <1>4, PTL DEF GwSpec, QuietAfterDispose

-------------------------------------------------------------------------------
(* The lock, with a careful operator.                                          *)

Holding == {"lockbody", "afterlock", "abort", "abortunlink", "scan", "oathread", "oathappend",
            "open", "check", "rescan", "write"}

\* A process past the creation of the lock has it, until its writer is shut and
\* while a call of dispose() is about to unlink it.
HoldersHoldIt ==
  \A b \in alive :
    /\ pc[b] \in Holding => lock.by = b
    /\ \A d \in Disposers : stage[b][d] = "unlink" => lock.by = b

\* One call at most is about to unlink, and none when one has returned.
ReleaseIsShared ==
  \A b \in Boots, d, e \in Disposers :
    stage[b][d] = "unlink" /\ d # e => stage[b][e] \notin {"unlink", "done"}

LockInv == HoldersHoldIt /\ ReleaseIsShared

LEMMA LockInit == GwInit => LockInv
BY DEF GwInit, LockInv, HoldersHoldIt, ReleaseIsShared, Holding

LEMMA ReleaseIsSharedStep ==
  ASSUME TypeInv, ReleaseIsShared, [GwNext]_gwVars PROVE ReleaseIsShared'
<1>0. stage \in [Boots -> [Disposers -> Stages]]
  BY DEF TypeInv, GwTypeOK
<1> USE DEF ReleaseIsShared
<1>1. CASE stage' = stage
  BY <1>1
<1>2. ASSUME NEW b \in Boots, NEW d \in Disposers, Dispose(b, d)
      PROVE  ReleaseIsShared'
  <2>1. \E s \in {"drain", "release"} : stage' = [stage EXCEPT ![b][d] = s]
    BY <1>2 DEF Dispose, At
  <2>2. QED BY <1>0, <2>1
<1>3. ASSUME NEW b \in Boots, Close(b)
      PROVE  ReleaseIsShared'
  <2>1. \A c \in Boots, d \in Disposers :
          stage'[c][d] = stage[c][d] \/ (stage[c][d] = "drain" /\ stage'[c][d] = "release")
    BY <1>0, <1>3 DEF Close
  <2>2. QED BY <2>1
<1>4. ASSUME NEW b \in Boots, NEW d \in Disposers,
             ReleaseRead(b, d) \/ ReleaseUnlink(b, d)
      PROVE  ReleaseIsShared'
  <2>1. \E s \in {"unlink", "done"} : stage' = [stage EXCEPT ![b][d] = s]
    BY <1>4 DEF ReleaseRead, ReleaseUnlink, At
  <2>2. \A e \in Disposers \ {d} : stage[b][e] # "unlink"
    BY <1>4 DEF ReleaseRead, ReleaseUnlink, Starts
  <2>3. \A e \in Disposers \ {d} : stage'[b][d] = "unlink" => stage[b][e] # "done"
    BY <1>0, <1>4 DEF ReleaseRead, ReleaseUnlink, Starts, At
  <2>4. QED BY <1>0, <2>1, <2>2, <2>3
<1>5. ASSUME NEW b \in Boots, NEW d \in Disposers, ReleaseShared(b, d)
      PROVE  ReleaseIsShared'
  <2>1. PICK e \in Disposers \ {d} : stage[b][e] = "done"
    BY <1>5 DEF ReleaseShared
  <2>2. stage[b][d] = "release" /\ stage' = [stage EXCEPT ![b][d] = "done"]
    BY <1>5 DEF ReleaseShared, At
  <2>3. \A f \in Disposers : stage[b][f] # "unlink"
    BY <2>1, <2>2
  <2>4. QED BY <1>0, <2>2, <2>3
<1>6. ASSUME NEW b \in Boots, Crash(b)
      PROVE  ReleaseIsShared'
  BY <1>0, <1>6 DEF Crash
<1>7. ASSUME stage' # stage
      PROVE  \E b \in Boots :
               \/ Close(b) \/ Crash(b)
               \/ \E d \in Disposers : \/ Dispose(b, d) \/ ReleaseRead(b, d)
                                       \/ ReleaseUnlink(b, d) \/ ReleaseShared(b, d)
  BY <1>7 DEF GwNext, Step, gwVars, disposeVars, WriterFor, AskAppend, CreateLock, WriteLockBody, AfterLock,
     AbortRead, AbortUnlinks, Scan, OathRead, OathAppend, StartAppend, Check, Rescan, RowWrite,
     OperatorUnlocks
<1>8. QED BY <1>1, <1>2, <1>3, <1>4, <1>5, <1>6, <1>7

LEMMA HoldersStep ==
  ASSUME ~Careless, TypeInv, ShutWhenDrained, LockInv, [GwNext]_gwVars PROVE HoldersHoldIt'
<1>0. /\ pc \in [Boots -> {"down", "check", "rescan", "write"} \cup Booting \cup Resting]
      /\ stage \in [Boots -> [Disposers -> Stages]]
      /\ alive \subseteq Boots
      /\ lock \in LockFiles
  BY DEF TypeInv, GwTypeOK, LockFiles
<1>a. HoldersHoldIt
  BY DEF LockInv
<1>b. NoLock.by = NoBoot
  BY DEF NoLock
<1> USE DEF HoldersHoldIt
\* The steps of a writer that has its lock and keeps it, or gives up.
<1>1. ASSUME NEW b \in Boots,
             \/ WriterFor(b) \/ WriteLockBody(b) \/ AfterLock(b) \/ AbortRead(b) \/ Scan(b) \/ OathRead(b)
             \/ OathAppend(b) \/ StartAppend(b) \/ Check(b) \/ Rescan(b) \/ RowWrite(b)
      PROVE  HoldersHoldIt'
  <2>1. UNCHANGED << alive, stage >>
    BY <1>1 DEF WriterFor, WriteLockBody, AfterLock, AbortRead, Scan, OathRead, OathAppend, StartAppend,
       Check, Rescan, RowWrite, disposeVars
  <2>2. lock'.by = lock.by
    <3>1. CASE WriteLockBody(b)
      <4>1. lock' = lock \/ lock' = [lock EXCEPT !.body = TRUE]
        BY <3>1 DEF WriteLockBody
      <4>2. QED BY <1>0, <4>1 DEF LockFiles
    <3>2. CASE ~WriteLockBody(b)
      BY <1>1, <3>2 DEF WriterFor, AfterLock, AbortRead, Scan, OathRead, OathAppend, StartAppend, Check,
         Rescan, RowWrite
    <3>3. QED BY <3>1, <3>2
  <2>3. \A c \in Boots \ {b} : pc'[c] = pc[c]
    BY <1>0, <1>1 DEF WriterFor, WriteLockBody, AfterLock, AbortRead, Scan, OathRead, OathAppend,
       StartAppend, Check, Rescan, RowWrite, Goes, Freeze
  <2>4. pc'[b] \in Holding => pc[b] \in Holding
    <3>1. CASE WriterFor(b)
      BY <1>0, <3>1 DEF WriterFor, Goes, Holding
    <3>2. CASE StartAppend(b)
      BY <1>0, <3>2 DEF StartAppend, Writes, Goes, Holding
    <3>3. CASE ~WriterFor(b) /\ ~StartAppend(b)
      BY <1>1, <3>3 DEF WriteLockBody, AfterLock, AbortRead, Scan, OathRead, OathAppend, Check, Rescan,
         RowWrite, Holding
    <3>4. QED BY <3>1, <3>2, <3>3
  <2>5. QED BY <1>a, <1>0, <2>1, <2>2, <2>3, <2>4
<1>2. ASSUME NEW b \in Boots, CreateLock(b)
      PROVE  HoldersHoldIt'
  <2>1. CASE lock = NoLock
    <3>1. \A c \in alive : pc[c] \notin Holding /\ \A d \in Disposers : stage[c][d] # "unlink"
      BY <1>0, <1>a, <1>b, <2>1
    <3>2. lock'.by = b /\ alive' = alive /\ stage' = stage /\ \A c \in Boots \ {b} : pc'[c] = pc[c]
      BY <1>0, <1>2, <2>1 DEF CreateLock, Goes, disposeVars
    <3>3. QED BY <1>0, <3>1, <3>2
  <2>2. CASE lock # NoLock
    <3>1. lock' = lock /\ alive' = alive /\ stage' = stage /\ pc' = [pc EXCEPT ![b] = "refusing"]
      BY <1>2, <2>2 DEF CreateLock, Goes, disposeVars
    <3>2. QED BY <1>0, <1>a, <3>1 DEF Holding
  <2>3. QED BY <2>1, <2>2
<1>3. ASSUME NEW b \in Boots, AbortUnlinks(b)
      PROVE  HoldersHoldIt'
  <2>1. /\ b \in alive /\ lock.by = b
        /\ \A d \in Disposers : stage[b][d] # "unlink"
    <3>1. b \in alive /\ pc[b] = "abortunlink"
      BY <1>3 DEF AbortUnlinks
    <3>2. ~Drained(b)
      BY <3>1 DEF ShutWhenDrained
    <3>3. QED BY <1>a, <3>1, <3>2 DEF Holding, Drained
  <2>2. \A c \in alive \ {b} : pc[c] \notin Holding /\ \A d \in Disposers : stage[c][d] # "unlink"
    BY <1>a, <2>1
  <2>3. alive' = alive /\ stage' = stage /\ pc' = [pc EXCEPT ![b] = "refusing"]
    BY <1>3 DEF AbortUnlinks, Goes, disposeVars
  <2>4. QED BY <1>0, <2>1, <2>2, <2>3 DEF Holding
<1>4. ASSUME NEW b \in Boots, AskAppend(b)
      PROVE  HoldersHoldIt'
  BY <1>4, <1>a DEF AskAppend, disposeVars
<1>5. ASSUME NEW b \in Boots, NEW d \in Disposers, Dispose(b, d)
      PROVE  HoldersHoldIt'
  <2>1. UNCHANGED << alive, pc, lock >> /\ \E s \in {"drain", "release"} : stage' = [stage EXCEPT ![b][d] = s]
    BY <1>5 DEF Dispose, At
  <2>2. \A c \in Boots, e \in Disposers : stage'[c][e] = "unlink" => stage[c][e] = "unlink"
    BY <1>0, <2>1
  <2>3. QED BY <1>0, <1>a, <2>1, <2>2
<1>6. ASSUME NEW b \in Boots, Close(b)
      PROVE  HoldersHoldIt'
  <2>1. UNCHANGED << alive, lock >> /\ pc' = [pc EXCEPT ![b] = "shut"]
    BY <1>6 DEF Close, Goes
  <2>2. \A c \in Boots, e \in Disposers : stage'[c][e] = "unlink" => stage[c][e] = "unlink"
    BY <1>0, <1>6 DEF Close
  <2>3. QED BY <1>0, <1>a, <2>1, <2>2 DEF Holding
<1>7. ASSUME NEW b \in Boots, NEW d \in Disposers, ReleaseRead(b, d) \/ ReleaseShared(b, d)
      PROVE  HoldersHoldIt'
  <2>1. UNCHANGED << alive, pc, lock >>
    BY <1>7 DEF ReleaseRead, ReleaseShared
  <2>2. \A c \in Boots, e \in Disposers :
          stage'[c][e] = "unlink" => stage[c][e] = "unlink" \/ (c = b /\ lock.by = b)
    BY <1>0, <1>7 DEF ReleaseRead, ReleaseShared, At, HoldsLock
  <2>3. QED BY <1>0, <1>a, <2>1, <2>2
<1>8. ASSUME NEW b \in Boots, NEW d \in Disposers, ReleaseUnlink(b, d)
      PROVE  HoldersHoldIt'
  <2>1. /\ b \in alive /\ stage[b][d] = "unlink"
        /\ UNCHANGED << alive, pc >> /\ stage' = [stage EXCEPT ![b][d] = "done"]
    BY <1>8 DEF ReleaseUnlink, At
  <2>2. lock.by = b /\ pc[b] = "shut"
    BY <1>a, <2>1 DEF ShutWhenDrained, Drained
  <2>3. \A e \in Disposers : stage'[b][e] # "unlink"
    BY <1>0, <2>1 DEF LockInv, ReleaseIsShared
  <2>4. \A c \in alive \ {b} : pc[c] \notin Holding /\ \A e \in Disposers : stage[c][e] # "unlink"
    BY <1>a, <2>2
  <2>5. \A c \in Boots \ {b} : stage'[c] = stage[c]
    BY <1>0, <2>1
  <2>6. pc'[b] \notin Holding
    BY <2>1, <2>2 DEF Holding
  <2>7. QED BY <1>0, <2>1, <2>3, <2>4, <2>5, <2>6
<1>9. ASSUME NEW b \in Boots, Crash(b)
      PROVE  HoldersHoldIt'
  <2>1. alive' = alive \ {b} /\ lock' = lock
    BY <1>9 DEF Crash
  <2>2. \A c \in Boots \ {b} : pc'[c] = pc[c] /\ stage'[c] = stage[c]
    BY <1>0, <1>9 DEF Crash, Goes
  <2>3. QED BY <1>0, <1>a, <2>1, <2>2
<1>10. CASE OperatorUnlocks
  <2>1. lock.by \notin alive /\ UNCHANGED << alive, pc, stage >>
    BY <1>10 DEF OperatorUnlocks, disposeVars
  <2>2. QED BY <1>a, <2>1
<1>11. CASE UNCHANGED gwVars
  BY <1>a, <1>11 DEF gwVars, disposeVars
<1>12. QED
  BY <1>1, <1>2, <1>3, <1>4, <1>5, <1>6, <1>7, <1>8, <1>9, <1>10, <1>11 DEF GwNext, Step

SafeInv == TypeInv /\ ShutWhenDrained /\ LockInv

LEMMA SafeInvariant == ASSUME ~Careless PROVE GwSpec => []SafeInv
<1>1. GwInit => SafeInv
  BY TypeInvInit, ShutInit, LockInit DEF SafeInv
<1>2. SafeInv /\ [GwNext]_gwVars => SafeInv'
  BY TypeInvStep, ShutStep, HoldersStep, ReleaseIsSharedStep DEF SafeInv, LockInv
<1>3. QED BY <1>1, <1>2, PTL DEF GwSpec

\* Whatever boots, appends, releases and crashes interleave, a change of the
\* journal is made by the process that holds its lock: RowsUnderOwnLock, while
\* the operator removes the locks of the dead only.
THEOREM OnlyTheHolderWrites == ASSUME ~Careless PROVE GwSpec => RowsUnderOwnLock
<1>1. ASSUME SafeInv, [GwNext]_gwVars, journal' # journal
      PROVE  lock.by = journal'[Len(journal')].by
  <2>1. PICK b \in alive : pc[b] \in {"oathappend", "write"} /\ journal'[Len(journal')].by = b
    BY <1>1, WhoWrites DEF SafeInv
  <2>2. lock.by = b
    BY <1>1, <2>1 DEF SafeInv, LockInv, HoldersHoldIt, Holding
  <2>3. QED BY <2>1, <2>2
<1>2. SafeInv /\ [GwNext]_gwVars =>
        [journal' # journal => lock.by = journal'[Len(journal')].by]_gwVars
  BY <1>1
<1>3. QED BY <1>2, SafeInvariant, PTL DEF GwSpec, RowsUnderOwnLock

\* A release never removes the lock of another process: OnlyOwnLockRemoved.
THEOREM ForeignLocksStay == ASSUME ~Careless PROVE GwSpec => OnlyOwnLockRemoved
<1>1. ASSUME SafeInv, NEW b \in Boots, NEW d \in Disposers, ReleaseUnlink(b, d)
      PROVE  lock.by \in {b, NoBoot}
  <2>1. b \in alive /\ stage[b][d] = "unlink"
    BY <1>1 DEF ReleaseUnlink
  <2>2. QED BY <1>1, <2>1 DEF SafeInv, LockInv, HoldersHoldIt
<1>2. SafeInv /\ [GwNext]_gwVars =>
        [\A b \in Boots, d \in Disposers : ReleaseUnlink(b, d) => lock.by \in {b, NoBoot}]_gwVars
  BY <1>1
<1>3. QED BY <1>2, SafeInvariant, PTL DEF GwSpec, OnlyOwnLockRemoved

-------------------------------------------------------------------------------
(* One writer at a time, with a careful operator.                              *)

Sworn == {"open", "check", "rescan", "write"}
Unborn == {"down"} \cup Booting

\* An epoch is never higher than the place of its oath.
EpochsBounded == \A i \in Oaths(journal) : journal[i].epoch <= i

\* A process that is still booting has no oath in the journal.
NoOathYet ==
  \A b \in alive : pc[b] \in Unborn => \A i \in Oaths(journal) : journal[i].by # b

\* What a booting process has read of the journal is still true of it.
ScanIsFresh ==
  \A b \in alive :
    /\ pc[b] \in {"oathread", "oathappend"} => epoch[b] = NextEpoch(journal)
    /\ pc[b] = "oathappend" => Intact(journal)

\* A process that may append swore the last oath, and unless its own durability
\* has failed it left no torn row.
SwornOwns ==
  \A b \in alive :
    pc[b] \in Sworn => Owns(b, journal) /\ (~innerFailed[b] => Intact(journal))

LogInv == EpochsBounded /\ NoOathYet /\ ScanIsFresh /\ SwornOwns

LEMMA NoOathAtFirst == GwInit => Oaths(journal) = {}
BY DEF GwInit, LogInit, Row, Torn, Oaths

LEMMA LogInvInit == GwInit => LogInv
<1> SUFFICES ASSUME GwInit PROVE LogInv
  OBVIOUS
<1>1. EpochsBounded /\ NoOathYet
  BY NoOathAtFirst DEF EpochsBounded, NoOathYet
<1>2. \A b \in alive : pc[b] = "down"
  BY DEF GwInit
<1>3. QED BY <1>1, <1>2 DEF LogInv, ScanIsFresh, SwornOwns, Sworn

\* What one more row does to the oaths, to a whole journal and to who owns it.
LEMMA AppendedRow ==
  ASSUME NEW j \in Seq(Rows), NEW r \in Rows
  PROVE  /\ Len(Append(j, r)) = Len(j) + 1
         /\ \A i \in 1 .. Len(j) : Append(j, r)[i] = j[i]
         /\ Append(j, r)[Len(j) + 1] = r
         /\ r.kind = "oath" => Oaths(Append(j, r)) = Oaths(j) \cup {Len(j) + 1}
         /\ r.kind # "oath" => Oaths(Append(j, r)) = Oaths(j)
         /\ r.kind # "torn" /\ Intact(j) => Intact(Append(j, r))
BY DEF Oaths, Intact

\* On a whole journal the next epoch is above every oath and within the length.
LEMMA NextEpochAbove ==
  ASSUME NEW j \in Seq(Rows), HasTop(j), Intact(j),
         \A i \in Oaths(j) : j[i].epoch <= i
  PROVE  /\ NextEpoch(j) \in 1 .. Len(j) + 1
         /\ \A i \in Oaths(j) : j[i].epoch < NextEpoch(j)
<1>1. LegibleOaths(j) = Oaths(j)
  BY DEF LegibleOaths, Legible, Oaths, Intact
<1>2. \A i \in Oaths(j) : i \in 1 .. Len(j) /\ j[i].epoch \in Nat
  <2>1. \A i \in Oaths(j) : i \in 1 .. Len(j) /\ j[i] \in Rows
    BY DEF Oaths
  <2>2. QED BY <2>1, RowFields
<1>3. CASE Oaths(j) = {}
  BY <1>1, <1>3 DEF NextEpoch, MaxEpoch
<1>4. CASE Oaths(j) # {}
  <2>1. /\ TopOath(j) \in Oaths(j)
        /\ \A k \in Oaths(j) : j[k].epoch < j[TopOath(j)].epoch
                               \/ (j[k].epoch = j[TopOath(j)].epoch /\ TopOath(j) <= k)
    BY <1>1, <1>4 DEF HasTop, TopOath
  <2>2. NextEpoch(j) = j[TopOath(j)].epoch + 1
    BY <1>1, <1>4 DEF NextEpoch, MaxEpoch
  <2>3. j[TopOath(j)].epoch \in Nat /\ TopOath(j) \in 1 .. Len(j) /\ j[TopOath(j)].epoch <= TopOath(j)
    BY <1>2, <2>1
  <2>4. NextEpoch(j) \in 1 .. Len(j) + 1
    BY <2>2, <2>3
  <2>5. \A i \in Oaths(j) : j[i].epoch < NextEpoch(j)
    BY <1>2, <2>1, <2>2, <2>3
  <2>6. QED BY <2>4, <2>5
<1>5. QED BY <1>3, <1>4

LEMMA HoldsAlone ==
  ASSUME LockInv, NEW b \in alive, pc[b] \in Holding, NEW c \in alive, c # b
  PROVE  pc[c] \notin Holding
BY DEF LockInv, HoldersHoldIt

\* What must be true of b after a step for LogInv to hold of it.
LogOf(b) ==
  /\ pc[b] \in Unborn => \A i \in Oaths(journal) : journal[i].by # b
  /\ pc[b] \in {"oathread", "oathappend"} => epoch[b] = NextEpoch(journal)
  /\ pc[b] = "oathappend" => Intact(journal)
  /\ pc[b] \in Sworn => Owns(b, journal) /\ (~innerFailed[b] => Intact(journal))

LEMMA LogQuiet ==
  ASSUME LogInv, journal' = journal, NEW b \in Boots, alive \subseteq Boots, alive' \subseteq alive,
         \A c \in Boots \ {b} :
           pc'[c] = pc[c] /\ epoch'[c] = epoch[c] /\ innerFailed'[c] = innerFailed[c],
         b \in alive' => LogOf(b)'
  PROVE  LogInv'
<1>1. \A c \in alive' : c # b =>
        c \in alive /\ pc'[c] = pc[c] /\ epoch'[c] = epoch[c] /\ innerFailed'[c] = innerFailed[c]
  OBVIOUS
<1>2. EpochsBounded'
  BY DEF LogInv, EpochsBounded
<1>3. NoOathYet'
  BY <1>1 DEF LogInv, NoOathYet, LogOf
<1>4. ScanIsFresh'
  BY <1>1 DEF LogInv, ScanIsFresh, LogOf
<1>5. SwornOwns'
  BY <1>1 DEF LogInv, SwornOwns, LogOf
<1>6. QED BY <1>2, <1>3, <1>4, <1>5 DEF LogInv

LEMMA LogGrown ==
  ASSUME SafeInv, LogInv, NEW b \in alive, pc[b] \in Holding, NEW r \in Rows, r.by = b,
         journal' = Append(journal, r), r.kind = "oath" => r.epoch <= Len(journal) + 1,
         alive' \subseteq alive, \A c \in Boots \ {b} : pc'[c] = pc[c],
         b \in alive' => LogOf(b)'
  PROVE  LogInv'
<1>0. journal \in Seq(Rows) /\ alive \subseteq Boots
  BY DEF SafeInv, TypeInv, GwTypeOK
<1>1. \A c \in alive' : c # b => c \in alive /\ pc'[c] = pc[c] /\ pc[c] \notin Holding
  BY <1>0, HoldsAlone DEF SafeInv
<1>2. \A i \in Oaths(journal) : i \in 1 .. Len(journal)
  BY DEF Oaths
<1>3. Oaths(journal') \subseteq Oaths(journal) \cup {Len(journal) + 1}
  BY <1>0, AppendedRow
<1>4. /\ \A i \in Oaths(journal) : journal'[i] = journal[i]
      /\ journal'[Len(journal) + 1] = r
      /\ Len(journal) + 1 \in Oaths(journal') => r.kind = "oath"
  BY <1>0, <1>2, AppendedRow DEF Oaths
<1>5. EpochsBounded'
  BY <1>3, <1>4 DEF LogInv, EpochsBounded
<1>6. NoOathYet'
  <2>1. ASSUME NEW c \in alive', c # b, pc'[c] \in Unborn, NEW i \in Oaths(journal')
        PROVE  journal'[i].by # c
    BY <1>1, <1>3, <1>4, <2>1 DEF LogInv, NoOathYet
  <2>2. QED BY <2>1 DEF NoOathYet, LogOf
<1>7. ScanIsFresh'
  BY <1>1 DEF ScanIsFresh, LogOf, Holding
<1>8. SwornOwns'
  BY <1>1 DEF SwornOwns, LogOf, Holding, Sworn
<1>9. QED BY <1>5, <1>6, <1>7, <1>8 DEF LogInv

\* A process that writes its oath or a row does what the log allows, and leaves
\* LogInv of itself.
LEMMA OathStep ==
  ASSUME SafeInv, LogInv, NEW b \in alive, pc[b] = "oathappend",
         journal' = Append(journal, Oath(b, epoch[b]))
  PROVE  /\ Swear(b)
         /\ Oath(b, epoch[b]) \in Rows
         /\ epoch[b] <= Len(journal) + 1
         /\ Owns(b, journal') /\ Intact(journal')
<1>0. journal \in Seq(Rows) /\ HasTop(journal) /\ b \in Boots
  BY DEF SafeInv, TypeInv, GwTypeOK
<1>1. epoch[b] = NextEpoch(journal) /\ Intact(journal) /\ \A i \in Oaths(journal) : journal[i].epoch <= i
  BY DEF LogInv, ScanIsFresh, EpochsBounded
<1>2. epoch[b] \in 1 .. Len(journal) + 1 /\ \A i \in Oaths(journal) : journal[i].epoch < epoch[b]
  BY <1>0, <1>1, NextEpochAbove
<1>3. \A i \in Oaths(journal) : journal[i].by # b
  BY DEF LogInv, NoOathYet, Unborn, Booting
<1>4. Swear(b)
  BY <1>1, <1>2, <1>3 DEF Swear
<1>5. Oath(b, epoch[b]) \in Rows
  <2>1. epoch[b] \in Nat
    BY <1>0, <1>2
  <2>2. QED BY <1>0, <2>1, RowTypes
<1>6. /\ Oath(b, epoch[b]).kind = "oath" /\ Oath(b, epoch[b]).by = b
      /\ \A i \in Oaths(journal) : i \in 1 .. Len(journal)
      /\ Len(journal) \in Nat
  BY <1>0 DEF Oath, Oaths
<1>7. /\ Oaths(journal') = Oaths(journal) \cup {Len(journal) + 1}
      /\ journal'[Len(journal) + 1] = Oath(b, epoch[b])
      /\ Intact(journal')
  BY <1>0, <1>1, <1>5, <1>6, AppendedRow
<1>8. Owns(b, journal')
  <2>1. /\ Len(journal) + 1 \in Oaths(journal') /\ journal'[Len(journal) + 1].by = b
        /\ \A k \in Oaths(journal') : k <= Len(journal) + 1
    BY <1>6, <1>7
  <2>2. QED BY <2>1 DEF Owns
<1>9. epoch[b] <= Len(journal) + 1
  BY <1>0, <1>2
<1>10. QED BY <1>4, <1>5, <1>7, <1>8, <1>9

LEMMA RowStep ==
  ASSUME NEW j \in Seq(Rows), NEW b \in Boots, Owns(b, j), NEW r \in {Row(b), Torn(b)}
  PROVE  /\ Owns(b, Append(j, r))
         /\ Intact(j) => Intact(Append(j, Row(b)))
<1>1. r \in Rows /\ Row(b) \in Rows /\ r.kind # "oath" /\ Row(b).kind # "torn"
  BY DEF Row, Torn, Rows
<1>2. Oaths(Append(j, r)) = Oaths(j) /\ \A i \in Oaths(j) : Append(j, r)[i] = j[i]
  BY <1>1, AppendedRow DEF Oaths
<1>3. Owns(b, Append(j, r))
  BY <1>2 DEF Owns
<1>4. Intact(j) => Intact(Append(j, Row(b)))
  BY <1>1, AppendedRow
<1>5. QED BY <1>3, <1>4

\* A change of the journal, as the log sees it, and what it leaves of LogInv.
LEMMA JournalChanges ==
  ASSUME SafeInv, LogInv, NEW b \in Boots, OathAppend(b) \/ RowWrite(b) \/ Crash(b),
         journal' # journal
  PROVE  LogNext /\ LogInv'
<1>0. /\ journal \in Seq(Rows) /\ alive \subseteq Boots
      /\ pc \in [Boots -> {"down", "check", "rescan", "write"} \cup Booting \cup Resting]
      /\ innerFailed \in [Boots -> BOOLEAN]
  BY DEF SafeInv, TypeInv, GwTypeOK
<1>1. /\ b \in alive /\ pc[b] \in Holding
      /\ pc[b] = "oathappend" \/ (pc[b] = "write" /\ ~innerFailed[b])
  BY DEF OathAppend, RowWrite, Crash, Holding
<1>2. alive' \subseteq alive /\ \A c \in Boots \ {b} : pc'[c] = pc[c]
  BY <1>0 DEF OathAppend, RowWrite, Crash, Goes
<1>3. Intact(journal) /\ (pc[b] = "write" => Owns(b, journal))
  BY <1>1 DEF LogInv, ScanIsFresh, SwornOwns, Sworn
<1>4. CASE journal' = Append(journal, Torn(b))
  <2>1. Tear(b)
    BY <1>3, <1>4 DEF Tear
  <2>2. Torn(b) \in Rows /\ Torn(b).by = b /\ Torn(b).kind # "oath"
    BY DEF Torn, Rows
  <2>3. b \in alive' => LogOf(b)'
    <3>1. CASE OathAppend(b)
      <4>1. Torn(b) # Oath(b, epoch[b])
        BY DEF Torn, Oath
      <4>2. Append(journal, Torn(b)) # Append(journal, Oath(b, epoch[b]))
        BY <1>0, <4>1, <2>2, AppendedRow
      <4>3. pc'[b] = "refusing"
        BY <1>0, <1>4, <3>1, <4>2 DEF OathAppend, Goes
      <4>4. QED BY <4>3 DEF LogOf, Unborn, Booting, Sworn
    <3>2. CASE RowWrite(b)
      <4>1. Torn(b) # Row(b)
        BY DEF Torn, Row
      <4>2. Append(journal, Torn(b)) # Append(journal, Row(b))
        BY <1>0, <4>1, <2>2, AppendedRow
      <4>3. pc'[b] = "open" /\ innerFailed'[b]
        BY <1>0, <1>4, <3>2, <4>2 DEF RowWrite, Goes
      <4>4. pc[b] = "write"
        BY <3>2 DEF RowWrite
      <4>5. Owns(b, journal')
        BY <1>0, <1>3, <1>4, <4>4, RowStep
      <4>6. QED BY <4>3, <4>5 DEF LogOf, Unborn, Booting, Sworn
    <3>3. CASE Crash(b)
      BY <3>3 DEF Crash
    <3>4. QED BY <3>1, <3>2, <3>3
  <2>4. LogInv'
    BY <1>1, <1>2, <1>4, <2>2, <2>3, LogGrown
  <2>5. QED BY <2>1, <2>4 DEF LogNext
<1>5. CASE OathAppend(b) /\ journal' = Append(journal, Oath(b, epoch[b]))
  <2>1. pc[b] = "oathappend" /\ pc'[b] \in {"open", "refusing"}
    BY <1>0, <1>5 DEF OathAppend, Goes
  <2>2. /\ Swear(b) /\ Oath(b, epoch[b]) \in Rows /\ epoch[b] <= Len(journal) + 1
        /\ Owns(b, journal') /\ Intact(journal')
    BY <1>1, <1>5, <2>1, OathStep
  <2>3. LogOf(b)'
    BY <2>1, <2>2 DEF LogOf, Unborn, Booting, Sworn
  <2>4. Oath(b, epoch[b]).by = b /\ Oath(b, epoch[b]).epoch = epoch[b]
    BY DEF Oath
  <2>5. LogInv'
    BY <1>1, <1>2, <1>5, <2>2, <2>3, <2>4, LogGrown
  <2>6. QED BY <2>2, <2>5 DEF LogNext
<1>6. CASE RowWrite(b) /\ journal' = Append(journal, Row(b))
  <2>1. pc[b] = "write" /\ pc'[b] = "open"
    BY <1>0, <1>6 DEF RowWrite, Goes
  <2>2. Write(b)
    BY <1>3, <1>6, <2>1 DEF Write
  <2>3. Row(b) \in Rows /\ Row(b).by = b /\ Row(b).kind # "oath"
    BY DEF Row, Rows
  <2>4. Owns(b, journal') /\ Intact(journal')
    BY <1>0, <1>3, <1>6, <2>1, RowStep
  <2>5. LogOf(b)'
    BY <2>1, <2>4 DEF LogOf, Unborn, Booting, Sworn
  <2>6. LogInv'
    BY <1>1, <1>2, <1>6, <2>3, <2>5, LogGrown
  <2>7. QED BY <2>2, <2>6 DEF LogNext
<1>7. QED
  BY <1>4, <1>5, <1>6 DEF OathAppend, RowWrite, Crash

LEMMA LogInvStep == ASSUME ~Careless, SafeInv, LogInv, [GwNext]_gwVars PROVE LogInv'
<1>0. /\ journal \in Seq(Rows) /\ alive \subseteq Boots
      /\ pc \in [Boots -> {"down", "check", "rescan", "write"} \cup Booting \cup Resting]
      /\ innerFailed \in [Boots -> BOOLEAN] /\ epoch \in [Boots -> Nat]
  BY DEF SafeInv, TypeInv, GwTypeOK
<1>a. \A b \in alive : LogOf(b)
  BY DEF LogInv, NoOathYet, ScanIsFresh, SwornOwns, LogOf
\* The steps that leave the journal, what was scanned and what failed as it was.
<1>1. ASSUME NEW b \in Boots, UNCHANGED << journal, alive, pc, epoch, innerFailed >>
      PROVE  LogInv'
  BY <1>1, <1>0, <1>a, LogQuiet DEF LogOf
<1>2. ASSUME NEW b \in Boots,
             \/ WriterFor(b) \/ CreateLock(b) \/ WriteLockBody(b) \/ AfterLock(b) \/ AbortRead(b)
             \/ AbortUnlinks(b) \/ OathRead(b) \/ StartAppend(b) \/ Check(b) \/ Rescan(b) \/ Close(b)
      PROVE  LogInv'
  <2>1. UNCHANGED << journal, alive, epoch, innerFailed >> /\ \A c \in Boots \ {b} : pc'[c] = pc[c]
    BY <1>0, <1>2 DEF WriterFor, CreateLock, WriteLockBody, AfterLock, AbortRead, AbortUnlinks, OathRead,
       StartAppend, Check, Rescan, Close, guardVars, Goes, Freeze
  <2>2. b \in alive
    BY <1>2 DEF WriterFor, CreateLock, WriteLockBody, AfterLock, AbortRead, AbortUnlinks, OathRead,
       StartAppend, Check, Rescan, Close, Ready
  <2>3. /\ pc'[b] \in Unborn => pc[b] \in Unborn
        /\ pc'[b] \in {"oathread", "oathappend"} => pc[b] \in {"oathread", "oathappend"}
        /\ pc'[b] = "oathappend" => Intact(journal)
        /\ pc'[b] \in Sworn => pc[b] \in Sworn
    <3>1. CASE WriterFor(b) \/ CreateLock(b) \/ WriteLockBody(b) \/ AfterLock(b) \/ AbortRead(b) \/ AbortUnlinks(b)
      BY <1>0, <3>1 DEF WriterFor, CreateLock, WriteLockBody, AfterLock, AbortRead, AbortUnlinks,
         Goes, Unborn, Booting, Sworn
    <3>2. CASE OathRead(b)
      BY <1>0, <3>2 DEF OathRead, NoBadLine, Goes, Unborn, Booting, Sworn
    <3>3. CASE StartAppend(b)
      BY <1>0, <3>3 DEF StartAppend, Writes, Ready, Resting, Goes, Unborn, Booting, Sworn
    <3>4. CASE Check(b) \/ Rescan(b) \/ Close(b)
      BY <1>0, <3>4 DEF Check, Rescan, Close, Freeze, Goes, Unborn, Booting, Sworn
    <3>5. QED BY <1>2, <3>1, <3>2, <3>3, <3>4
  <2>4. LogOf(b)'
    BY <1>a, <2>1, <2>2, <2>3 DEF LogOf
  <2>5. QED BY <1>0, <2>1, <2>4, LogQuiet
<1>3. ASSUME NEW b \in Boots, Scan(b)
      PROVE  LogInv'
  <2>1. /\ b \in alive /\ pc[b] = "scan" /\ UNCHANGED << journal, alive, innerFailed >>
        /\ \A c \in Boots \ {b} : pc'[c] = pc[c] /\ epoch'[c] = epoch[c]
        /\ \/ epoch'[b] = NextEpoch(journal) /\ pc'[b] \in {"refusing", "oathread"}
           \/ pc'[b] = "refusing"
    BY <1>0, <1>3 DEF Scan, Goes
  <2>2. LogOf(b)'
    BY <1>a, <2>1 DEF LogOf, Unborn, Booting, Sworn
  <2>3. QED BY <1>0, <2>1, <2>2, LogQuiet
<1>4. ASSUME NEW b \in Boots, OathAppend(b) \/ RowWrite(b) \/ Crash(b), journal' = journal
      PROVE  LogInv'
  <2>1. /\ alive' \subseteq alive /\ b \in alive
        /\ \A c \in Boots \ {b} : pc'[c] = pc[c] /\ epoch'[c] = epoch[c] /\ innerFailed'[c] = innerFailed[c]
    BY <1>0, <1>4 DEF OathAppend, RowWrite, Crash, Goes
  <2>2. CASE OathAppend(b)
    <3>1. Append(journal, Oath(b, epoch[b])) # journal
      <4>1. Oath(b, epoch[b]) \in Rows
        BY <1>0, RowTypes
      <4>2. QED BY <1>0, <4>1, AppendedRow
    <3>2. pc'[b] = "refusing"
      BY <1>0, <1>4, <2>2, <3>1 DEF OathAppend, Goes
    <3>3. LogOf(b)'
      BY <3>2 DEF LogOf, Unborn, Booting, Sworn
    <3>4. QED BY <1>0, <1>4, <2>1, <3>3, LogQuiet
  <2>3. CASE RowWrite(b)
    <3>1. pc[b] = "write" /\ pc'[b] = "open" /\ (~innerFailed'[b] => ~innerFailed[b])
      BY <1>0, <2>3 DEF RowWrite, Goes
    <3>2. LogOf(b)'
      BY <1>a, <1>4, <2>1, <3>1 DEF LogOf, Unborn, Booting, Sworn
    <3>3. QED BY <1>0, <1>4, <2>1, <3>2, LogQuiet
  <2>4. CASE Crash(b)
    <3>1. b \notin alive'
      BY <2>4 DEF Crash
    <3>2. QED BY <1>0, <1>4, <2>1, <3>1, LogQuiet
  <2>5. QED BY <1>4, <2>2, <2>3, <2>4
<1>5. ASSUME NEW b \in Boots, OathAppend(b) \/ RowWrite(b) \/ Crash(b)
      PROVE  LogInv'
  BY <1>4, <1>5, JournalChanges
<1>6. ASSUME NEW b \in Boots, NEW d \in Disposers,
             AskAppend(b) \/ Dispose(b, d) \/ ReleaseRead(b, d) \/ ReleaseUnlink(b, d) \/ ReleaseShared(b, d)
      PROVE  LogInv'
  BY <1>6, <1>1 DEF AskAppend, Dispose, ReleaseRead, ReleaseUnlink, ReleaseShared, guardVars
<1>7. ASSUME NEW b \in Boots, AskAppend(b)
      PROVE  LogInv'
  BY <1>7, <1>1 DEF AskAppend, guardVars
<1>8. CASE UNCHANGED << journal, alive, pc, epoch, innerFailed >>
  BY <1>8, <1>a DEF LogInv, EpochsBounded, NoOathYet, ScanIsFresh, SwornOwns
<1>9. CASE OperatorUnlocks \/ UNCHANGED gwVars
  BY <1>8, <1>9 DEF OperatorUnlocks, gwVars, guardVars
<1>10. QED
  BY <1>2, <1>3, <1>5, <1>6, <1>7, <1>9 DEF GwNext, Step

\* The processes together implement the log with one writer at a time:
\* OneWriterAtATime, for every number of processes, appends and calls of
\* dispose(), while the operator removes the locks of the dead only.
THEOREM OneWriterAlways == ASSUME ~Careless PROVE GwSpec => OneWriterAtATime
<1>1. GwInit => LogInit
  BY DEF GwInit
<1>2. SafeInv /\ LogInv /\ [GwNext]_gwVars => LogInv'
  BY LogInvStep
<1>3. ASSUME SafeInv, LogInv, [GwNext]_gwVars, journal' # journal
      PROVE  LogNext
  <2>1. PICK b \in Boots : OathAppend(b) \/ RowWrite(b) \/ Crash(b)
    BY <1>3 DEF GwNext, Step, gwVars, WriterFor, AskAppend, Dispose, CreateLock, WriteLockBody, AfterLock,
       AbortRead, AbortUnlinks, Scan, OathRead, StartAppend, Check, Rescan, Close, ReleaseRead,
       ReleaseUnlink, ReleaseShared, OperatorUnlocks
  <2>2. QED BY <1>3, <2>1, JournalChanges
<1>4. SafeInv /\ LogInv /\ [GwNext]_gwVars => [LogNext]_journal
  BY <1>3
<1>5. QED
  BY <1>1, <1>2, <1>4, LogInvInit, SafeInvariant, PTL DEF GwSpec, OneWriterAtATime, LogSpec

-------------------------------------------------------------------------------
(* The guards, whatever the operator does.                                     *)

\* A row lengthens the journal by two units, a torn one by one.
LEMMA UnitsGrow ==
  ASSUME NEW j \in Seq(Rows), NEW r \in Rows
  PROVE  Units(Append(j, r)) = Units(j) + (IF r.kind = "torn" THEN 1 ELSE 2)
<1> DEFINE T(q) == {i \in 1 .. Len(q) : q[i].kind = "torn"}
<1>1. IsFiniteSet(T(j)) /\ Cardinality(T(j)) \in Nat
  <2>1. IsFiniteSet(1 .. Len(j))
    BY FS_Interval
  <2>2. IsFiniteSet(T(j))
    BY <2>1, FS_Subset
  <2>3. QED BY <2>2, FS_CardinalityType
<1>2. Len(j) + 1 \notin T(j) /\ Len(j) \in Nat
  OBVIOUS
<1>a. /\ Units(j) = 2 * Len(j) - Cardinality(T(j))
      /\ Units(Append(j, r)) = 2 * (Len(j) + 1) - Cardinality(T(Append(j, r)))
  <2>1. Len(Append(j, r)) = Len(j) + 1
    OBVIOUS
  <2>2. QED BY <2>1 DEF Units
<1>3. CASE r.kind = "torn"
  <2>1. T(Append(j, r)) = T(j) \cup {Len(j) + 1}
    BY <1>3
  <2>2. Cardinality(T(Append(j, r))) = Cardinality(T(j)) + 1
    BY <1>1, <1>2, <2>1, FS_AddElement
  <2> HIDE DEF T
  <2>3. QED BY <1>1, <1>2, <1>a, <1>3, <2>2
<1>4. CASE r.kind # "torn"
  <2>1. T(Append(j, r)) = T(j)
    BY <1>4
  <2> HIDE DEF T
  <2>2. QED BY <1>1, <1>2, <1>a, <1>4, <2>1
<1>5. QED BY <1>3, <1>4

\* Row k is another's, behind an oath of b.
Foreign(b, k) == \E i \in Oaths(journal) : journal[i].by = b /\ i < k /\ journal[k].by # b
RowsBehind(b, k) == {n \in k + 1 .. Len(journal) : journal[n] = Row(b)}

\* No baseline is ahead of the file, and one that was found behind stays behind.
BaseBehind ==
  \A b \in Boots :
    /\ base[b] <= Units(journal)
    /\ pc[b] = "rescan" => base[b] < Units(journal)

\* A writer whose baseline is the end of the file wrote all that is behind its oath.
CleanIsLast ==
  \A b \in alive : pc[b] \in Sworn /\ base[b] = Units(journal)
    => \A k \in 1 .. Len(journal) : ~Foreign(b, k)

OneClean == \A a, b \in CleanGuards : a = b

\* Behind another's row a writer has at most one row, and none while the append
\* its guard let through is still to come.
FewRowsBehind ==
  \A b \in Boots, k \in 1 .. Len(journal) : Foreign(b, k) =>
    /\ \A m, n \in RowsBehind(b, k) : m = n
    /\ b \in alive /\ pc[b] = "write" => RowsBehind(b, k) = {}

GuardInv == NoOathYet /\ BaseBehind /\ CleanIsLast /\ OneClean /\ FewRowsBehind

LEMMA GuardInvInit == GwInit => GuardInv
<1> SUFFICES ASSUME GwInit PROVE GuardInv
  OBVIOUS
<1>1. \A b \in Boots : pc[b] = "down" /\ base[b] = 0
  BY DEF GwInit
<1>2. journal \in Seq(Rows) /\ alive \subseteq Boots
  BY TypeInvInit DEF TypeInv, GwTypeOK
<1>3. Units(journal) \in Nat
  BY <1>2, UnitsType
<1>4. NoOathYet /\ FewRowsBehind
  BY NoOathAtFirst DEF NoOathYet, FewRowsBehind, Foreign
<1>5. BaseBehind
  <2>1. 0 <= Units(journal)
    BY <1>3
  <2>2. QED BY <1>1, <2>1 DEF BaseBehind
<1>6. CleanIsLast /\ OneClean
  BY <1>1, <1>2 DEF CleanIsLast, OneClean, CleanGuards, Sworn
<1>7. QED BY <1>4, <1>5, <1>6 DEF GuardInv

\* A step of b that leaves the journal alone.
LEMMA GuardQuiet ==
  ASSUME TypeInv, GuardInv, journal' = journal, NEW b \in Boots, alive' \subseteq alive,
         \A c \in Boots \ {b} : pc'[c] = pc[c] /\ base'[c] = base[c],
         base'[b] <= Units(journal),
         pc'[b] = "rescan" => base'[b] < Units(journal),
         b \in alive' =>
           /\ pc'[b] \in Unborn => pc[b] \in Unborn
           /\ pc'[b] \in Sworn => pc[b] \in Sworn /\ base'[b] = base[b]
           /\ pc'[b] = "write" => pc[b] = "write" \/ base[b] = Units(journal)
  PROVE  GuardInv'
<1>0. \A c \in alive' : c \in alive /\ (c # b => pc'[c] = pc[c] /\ base'[c] = base[c])
  BY DEF TypeInv, GwTypeOK
<1>1. NoOathYet'
  BY <1>0 DEF GuardInv, NoOathYet
<1>2. BaseBehind'
  BY DEF GuardInv, BaseBehind
<1>3. CleanIsLast'
  BY <1>0 DEF GuardInv, CleanIsLast, Foreign
<1>4. OneClean'
  <2>1. \A c \in CleanGuards' : c \in CleanGuards
    <3>1. ASSUME NEW c \in CleanGuards', c = b
          PROVE  c \in CleanGuards
      <4>1. b \in alive' /\ pc'[b] \in Sworn /\ base'[b] = Units(journal)
        BY <3>1 DEF CleanGuards, Sworn
      <4>2. b \in alive /\ pc[b] \in Sworn /\ base[b] = Units(journal)
        BY <1>0, <4>1
      <4>3. pc[b] # "rescan"
        <5>1. Units(journal) \in Nat
          BY UnitsType DEF TypeInv, GwTypeOK
        <5>2. ~(Units(journal) < Units(journal))
          BY <5>1
        <5>3. pc[b] = "rescan" => base[b] < Units(journal)
          BY DEF GuardInv, BaseBehind
        <5>4. QED BY <4>2, <5>2, <5>3
      <4>4. QED BY <3>1, <4>2, <4>3 DEF CleanGuards, Sworn
    <3>2. ASSUME NEW c \in CleanGuards', c # b
          PROVE  c \in CleanGuards
      BY <1>0, <3>2 DEF CleanGuards
    <3>3. QED BY <3>1, <3>2
  <2>2. QED BY <2>1 DEF GuardInv, OneClean
<1>5. FewRowsBehind'
  <2>1. \A c \in Boots, k \in 1 .. Len(journal) :
          Foreign(c, k)' = Foreign(c, k) /\ RowsBehind(c, k)' = RowsBehind(c, k)
    BY DEF Foreign, RowsBehind
  <2>2. ASSUME NEW c \in Boots, NEW k \in 1 .. Len(journal), Foreign(c, k), c \in alive', pc'[c] = "write"
        PROVE  RowsBehind(c, k) = {}
    <3>1. CASE pc[c] = "write"
      BY <1>0, <2>2, <3>1 DEF GuardInv, FewRowsBehind
    <3>2. CASE pc[c] # "write"
      <4>1. c = b /\ c \in alive /\ pc[c] \in Sworn /\ base[c] = Units(journal)
        BY <1>0, <2>2, <3>2 DEF Sworn
      <4>2. QED BY <2>2, <4>1 DEF GuardInv, CleanIsLast
    <3>3. QED BY <3>1, <3>2
  <2>3. \A c \in Boots, k \in 1 .. Len(journal) : Foreign(c, k) => \A m, n \in RowsBehind(c, k) : m = n
    BY DEF GuardInv, FewRowsBehind
  <2>4. QED BY <2>1, <2>2, <2>3 DEF FewRowsBehind
<1>6. QED BY <1>1, <1>2, <1>3, <1>4, <1>5 DEF GuardInv

\* A step of b that puts a row of its own at the end of the journal.
LEMMA GuardGrown ==
  ASSUME TypeInv, GuardInv, NEW b \in alive, NEW r \in Rows, r.by = b, journal' = Append(journal, r),
         alive' \subseteq alive, \A c \in Boots \ {b} : pc'[c] = pc[c] /\ base'[c] = base[c],
         r.kind = "oath" => pc[b] = "oathappend",
         r = Row(b) => pc[b] = "write",
         base'[b] <= Units(journal'), pc'[b] # "rescan",
         b \in alive' =>
           /\ pc[b] \in {"oathappend", "write"} /\ pc'[b] \in {"open", "refusing"}
           /\ pc'[b] = "open" /\ base'[b] = Units(journal') => base[b] = Units(journal)
  PROVE  GuardInv'
<1>0. /\ journal \in Seq(Rows) /\ alive \subseteq Boots /\ b \in Boots /\ Len(journal) \in Nat
      /\ base \in [Boots -> Nat]
  BY DEF TypeInv, GwTypeOK
<1>1. \A c \in alive' : c \in alive /\ (c # b => c \in Boots \ {b} /\ pc'[c] = pc[c] /\ base'[c] = base[c])
  BY <1>0
<1>2. /\ Len(journal') = Len(journal) + 1
      /\ \A i \in 1 .. Len(journal) : journal'[i] = journal[i]
      /\ journal'[Len(journal) + 1] = r
      /\ r.kind = "oath" => Oaths(journal') = Oaths(journal) \cup {Len(journal) + 1}
      /\ r.kind # "oath" => Oaths(journal') = Oaths(journal)
      /\ \A i \in Oaths(journal) : i \in 1 .. Len(journal)
  BY <1>0, AppendedRow DEF Oaths
<1>3. Units(journal) \in Nat /\ Units(journal') \in Nat /\ Units(journal) < Units(journal')
  BY <1>0, UnitsType, UnitsGrow
\* What was behind an oath of c before the step is, after it, that and perhaps r.
<1>4. ASSUME NEW c \in Boots, NEW k \in 1 .. Len(journal'), Foreign(c, k)', c # b \/ pc[b] = "write"
      PROVE  k \in 1 .. Len(journal) => Foreign(c, k)
  <2>1. PICK i \in Oaths(journal') : journal'[i].by = c /\ i < k /\ journal'[k].by # c
    BY <1>4 DEF Foreign
  <2>2. i \in Oaths(journal)
    <3>1. CASE c # b
      BY <1>2, <2>1, <3>1
    <3>2. CASE pc[b] = "write"
      BY <1>2, <2>1, <3>2
    <3>3. QED BY <1>4, <3>1, <3>2
  <2>3. QED BY <1>2, <2>1, <2>2 DEF Foreign
<1>5. NoOathYet'
  <2>1. ASSUME NEW c \in alive', pc'[c] \in Unborn, NEW i \in Oaths(journal')
        PROVE  journal'[i].by # c
    <3>1. c # b
      BY <2>1 DEF Unborn, Booting
    <3>2. QED BY <1>1, <1>2, <2>1, <3>1 DEF GuardInv, NoOathYet
  <2>2. QED BY <2>1 DEF NoOathYet
<1>6. BaseBehind'
  <2>1. \A c \in Boots \ {b} : base'[c] \in Nat /\ base'[c] <= Units(journal)
    BY <1>0 DEF GuardInv, BaseBehind
  <2>2. \A c \in Boots \ {b} : base'[c] < Units(journal')
    BY <1>3, <2>1
  <2>3. QED BY <1>3, <2>1, <2>2 DEF BaseBehind
\* b alone can have the end of the file for its baseline.
<1>7. \A c \in alive' : c # b => base'[c] # Units(journal')
  <2>1. \A c \in alive' : c # b => base'[c] \in Nat /\ base'[c] <= Units(journal)
    BY <1>0, <1>1 DEF GuardInv, BaseBehind
  <2>2. QED BY <1>3, <2>1
<1>8. CleanIsLast'
  <2>1. ASSUME b \in alive', pc'[b] \in Sworn, base'[b] = Units(journal'),
               NEW k \in 1 .. Len(journal'), Foreign(b, k)'
        PROVE  FALSE
    <3>1. pc[b] \in {"oathappend", "write"} /\ pc'[b] = "open" /\ base[b] = Units(journal)
      BY <2>1 DEF Sworn
    <3>2. PICK i \in Oaths(journal') : journal'[i].by = b /\ i < k /\ journal'[k].by # b
      BY <2>1 DEF Foreign
    <3>3. k \in 1 .. Len(journal)
      BY <1>0, <1>2, <3>2
    <3>4. CASE pc[b] = "write"
      <4>1. Foreign(b, k)
        BY <1>0, <1>4, <2>1, <3>3, <3>4
      <4>2. QED BY <3>1, <3>3, <3>4, <4>1 DEF GuardInv, CleanIsLast, Sworn
    <3>5. CASE pc[b] = "oathappend"
      <4>1. \A n \in Oaths(journal) : journal[n].by # b
        BY <3>5 DEF GuardInv, NoOathYet, Unborn, Booting
      <4>2. i \in 1 .. Len(journal)
        BY <1>0, <1>2, <3>2, <3>3
      <4>3. i \in Oaths(journal)
        BY <1>0, <1>2, <3>2, <4>2
      <4>4. QED BY <1>2, <3>2, <4>1, <4>3
    <3>6. QED BY <3>1, <3>4, <3>5
  <2>2. QED BY <1>7, <2>1 DEF CleanIsLast
<1>9. OneClean'
  BY <1>7 DEF OneClean, CleanGuards
<1>10. FewRowsBehind'
  <2>1. ASSUME NEW c \in Boots, NEW k \in 1 .. Len(journal'), Foreign(c, k)', c # b
        PROVE  /\ \A m, n \in RowsBehind(c, k)' : m = n
               /\ c \in alive' /\ pc'[c] = "write" => RowsBehind(c, k)' = {}
    <3>1. r # Row(c)
      BY <2>1 DEF Row
    <3>2. CASE k \in 1 .. Len(journal)
      <4>1. Foreign(c, k)
        BY <1>4, <2>1, <3>2
      <4>2. RowsBehind(c, k)' \subseteq RowsBehind(c, k)
        BY <1>0, <1>2, <3>1, <3>2 DEF RowsBehind
      <4>3. QED BY <1>1, <2>1, <3>2, <4>1, <4>2 DEF GuardInv, FewRowsBehind
    <3>3. CASE k = Len(journal) + 1
      BY <1>0, <1>2, <3>3 DEF RowsBehind
    <3>4. QED BY <1>0, <1>2, <3>2, <3>3
  <2>2. ASSUME NEW k \in 1 .. Len(journal'), Foreign(b, k)'
        PROVE  /\ \A m, n \in RowsBehind(b, k)' : m = n
               /\ b \in alive' /\ pc'[b] = "write" => RowsBehind(b, k)' = {}
    <3>1. PICK i \in Oaths(journal') : journal'[i].by = b /\ i < k /\ journal'[k].by # b
      BY <2>2 DEF Foreign
    <3>2. k \in 1 .. Len(journal) /\ i \in 1 .. Len(journal)
      BY <1>0, <1>2, <3>1
    <3>3. i \in Oaths(journal)
      BY <1>0, <1>2, <3>1, <3>2
    <3>4. Foreign(b, k)
      BY <1>2, <3>1, <3>2, <3>3 DEF Foreign
    <3>5. RowsBehind(b, k)' \subseteq RowsBehind(b, k) \cup {Len(journal) + 1}
      BY <1>0, <1>2, <3>2 DEF RowsBehind
    <3>6. \A m, n \in RowsBehind(b, k) : m = n
      BY <1>0, <3>2, <3>4 DEF GuardInv, FewRowsBehind
    <3>7. CASE r = Row(b)
      <4>1. RowsBehind(b, k) = {}
        BY <1>0, <3>2, <3>4, <3>7 DEF GuardInv, FewRowsBehind
      <4>2. QED BY <3>5, <4>1
    <3>8. CASE r # Row(b)
      <4>1. RowsBehind(b, k)' \subseteq RowsBehind(b, k)
        BY <1>0, <1>2, <3>2, <3>8 DEF RowsBehind
      <4>2. QED BY <3>6, <4>1
    <3>9. QED BY <3>7, <3>8
  <2>3. QED BY <2>1, <2>2 DEF FewRowsBehind
<1>11. QED BY <1>5, <1>6, <1>8, <1>9, <1>10 DEF GuardInv

LEMMA GuardInvStep == ASSUME TypeInv, GuardInv, [GwNext]_gwVars PROVE GuardInv'
<1>0. /\ journal \in Seq(Rows) /\ alive \subseteq Boots
      /\ pc \in [Boots -> {"down", "check", "rescan", "write"} \cup Booting \cup Resting]
      /\ base \in [Boots -> Nat] /\ epoch \in [Boots -> Nat]
  BY DEF TypeInv, GwTypeOK
<1>u. Units(journal) \in Nat
  BY <1>0, UnitsType
<1>b. \A b \in Boots : base[b] <= Units(journal) /\ (pc[b] = "rescan" => base[b] < Units(journal))
  BY DEF GuardInv, BaseBehind
\* The steps of the queue that read, or end a boot.
<1>1. ASSUME NEW b \in Boots,
             \/ WriterFor(b) \/ CreateLock(b) \/ WriteLockBody(b) \/ AfterLock(b) \/ AbortRead(b)
             \/ AbortUnlinks(b) \/ Scan(b) \/ OathRead(b) \/ StartAppend(b) \/ Check(b) \/ Rescan(b) \/ Close(b)
      PROVE  GuardInv'
  <2>1. UNCHANGED << journal, alive >> /\ \A c \in Boots \ {b} : pc'[c] = pc[c] /\ base'[c] = base[c]
    BY <1>0, <1>1 DEF WriterFor, CreateLock, WriteLockBody, AfterLock, AbortRead, AbortUnlinks, Scan, OathRead,
       StartAppend, Check, Rescan, Close, guardVars, Goes, Freeze
  <2>2. /\ base'[b] <= Units(journal)
        /\ pc'[b] = "rescan" => base'[b] < Units(journal)
        /\ pc'[b] \in Unborn => pc[b] \in Unborn
        /\ pc'[b] \in Sworn => pc[b] \in Sworn /\ base'[b] = base[b]
        /\ pc'[b] = "write" => pc[b] = "write" \/ base[b] = Units(journal)
    <3>1. CASE WriterFor(b) \/ CreateLock(b) \/ WriteLockBody(b) \/ AfterLock(b) \/ AbortRead(b) \/ AbortUnlinks(b)
      BY <1>0, <1>b, <3>1 DEF WriterFor, CreateLock, WriteLockBody, AfterLock, AbortRead, AbortUnlinks,
         guardVars, Goes, Unborn, Booting, Sworn
    <3>2. CASE Scan(b)
      BY <1>0, <1>b, <3>2 DEF Scan, Goes, Unborn, Booting, Sworn
    <3>3. CASE OathRead(b)
      <4>1. pc[b] = "oathread" /\ pc'[b] \in {"oathappend", "refusing"} /\ base'[b] \in {base[b], Units(journal)}
        BY <1>0, <3>3 DEF OathRead, Goes
      <4>2. Units(journal) <= Units(journal)
        BY <1>u
      <4>3. base'[b] <= Units(journal)
        BY <1>b, <4>1, <4>2
      <4>4. QED BY <4>1, <4>3 DEF Unborn, Booting, Sworn
    <3>4. CASE StartAppend(b)
      BY <1>0, <1>b, <3>4 DEF StartAppend, Writes, Ready, Resting, guardVars, Goes, Unborn, Booting, Sworn
    <3>5. CASE Check(b)
      <4>1. pc[b] = "check" /\ base' = base /\ pc'[b] \in {"open", "rescan", "write"}
        BY <1>0, <3>5 DEF Check, Goes, Freeze
      <4>2. /\ pc'[b] = "write" => Units(journal) = base[b]
            /\ pc'[b] = "rescan" => Units(journal) # base[b]
        BY <1>0, <3>5 DEF Check, Goes, Freeze
      <4>3. base[b] \in Nat /\ base[b] <= Units(journal)
        BY <1>0, <1>b
      <4>4. Units(journal) # base[b] => base[b] < Units(journal)
        BY <1>u, <4>3
      <4>5. QED BY <4>1, <4>2, <4>3, <4>4 DEF Unborn, Booting, Sworn
    <3>6. CASE Rescan(b) \/ Close(b)
      BY <1>0, <1>b, <3>6 DEF Rescan, Close, Freeze, guardVars, Goes, Unborn, Booting, Sworn
    <3>7. QED BY <1>1, <3>1, <3>2, <3>3, <3>4, <3>5, <3>6
  <2>3. QED BY <2>1, <2>2, GuardQuiet
\* The steps that may put a row at the end of the journal.
<1>2. ASSUME NEW b \in Boots, OathAppend(b) \/ RowWrite(b), journal' = journal
      PROVE  GuardInv'
  <2>1. Oath(b, epoch[b]) \in Rows /\ Row(b) \in Rows
    BY <1>0, RowTypes
  <2>2. Append(journal, Oath(b, epoch[b])) # journal /\ Append(journal, Row(b)) # journal
    BY <1>0, <2>1, AppendedRow
  <2>3. /\ alive' = alive /\ base' = base /\ \A c \in Boots \ {b} : pc'[c] = pc[c]
        /\ \/ pc[b] = "oathappend" /\ pc'[b] = "refusing"
           \/ pc[b] = "write" /\ pc'[b] = "open"
    BY <1>0, <1>2, <2>2 DEF OathAppend, RowWrite, Goes
  <2>4. QED BY <1>2, <1>b, <2>3, GuardQuiet DEF Unborn, Booting, Sworn
<1>3. ASSUME NEW b \in Boots, OathAppend(b) \/ RowWrite(b), journal' # journal
      PROVE  GuardInv'
  <2>1. PICK r \in {Oath(b, epoch[b]), Row(b), Torn(b)} :
          /\ journal' = Append(journal, r)
          /\ r.kind = "oath" => pc[b] = "oathappend"
          /\ r = Row(b) => pc[b] = "write"
          /\ base'[b] = base[b] \/ (base'[b] = base[b] + 2 /\ r.kind # "torn")
    <3>1. CASE OathAppend(b)
      <4>1. CASE journal' = Append(journal, Oath(b, epoch[b])) /\ (base'[b] = base[b] \/ base'[b] = base[b] + 2)
        <5>1. /\ Oath(b, epoch[b]).kind = "oath" /\ Oath(b, epoch[b]) # Row(b)
              /\ pc[b] = "oathappend"
          BY <3>1 DEF Oath, Row, OathAppend
        <5>2. QED BY <4>1, <5>1
      <4>2. CASE journal' = Append(journal, Torn(b)) /\ base' = base
        <5>1. Torn(b).kind = "torn" /\ Torn(b) # Row(b)
          BY DEF Torn, Row
        <5>2. QED BY <4>2, <5>1
      <4>3. QED BY <1>0, <1>3, <3>1, <4>1, <4>2 DEF OathAppend, OathEnd
    <3>2. CASE RowWrite(b)
      <4>1. Torn(b).kind = "torn" /\ Row(b).kind = "row" /\ Torn(b) # Row(b) /\ pc[b] = "write"
        BY <3>2 DEF Torn, Row, RowWrite
      <4>2. CASE journal' = Append(journal, Row(b)) /\ (base'[b] = base[b] \/ base'[b] = base[b] + 2)
        BY <4>1, <4>2
      <4>3. CASE journal' = Append(journal, Torn(b)) /\ base' = base
        BY <4>1, <4>3
      <4>4. QED BY <1>0, <1>3, <3>2, <4>2, <4>3 DEF RowWrite, Noted
    <3>3. QED BY <1>3, <3>1, <3>2
  <2>2. r \in Rows /\ r.by = b
    <3>1. r.by = b
      BY DEF Oath, Row, Torn
    <3>2. QED BY <1>0, <3>1, RowTypes
  <2>3. /\ b \in alive /\ alive' = alive /\ pc[b] \in {"oathappend", "write"}
        /\ pc'[b] \in {"open", "refusing"}
        /\ \A c \in Boots \ {b} : pc'[c] = pc[c] /\ base'[c] = base[c]
    BY <1>0, <1>3 DEF OathAppend, RowWrite, Goes
  <2>4. Units(journal') = Units(journal) + (IF r.kind = "torn" THEN 1 ELSE 2)
    BY <1>0, <2>1, <2>2, UnitsGrow
  <2>5. base[b] \in Nat /\ base[b] <= Units(journal)
    BY <1>0, <1>b
  <2>6. /\ base'[b] <= Units(journal')
        /\ base'[b] = Units(journal') => base[b] = Units(journal)
    <3>1. CASE r.kind = "torn"
      BY <1>u, <2>1, <2>4, <2>5, <3>1
    <3>2. CASE r.kind # "torn"
      BY <1>u, <2>1, <2>4, <2>5, <3>2
    <3>3. QED BY <3>1, <3>2
  <2>7. QED BY <2>1, <2>2, <2>3, <2>6, GuardGrown
<1>4. ASSUME NEW b \in Boots, Crash(b)
      PROVE  GuardInv'
  <2>1. /\ b \in alive /\ b \notin alive' /\ alive' \subseteq alive /\ base'[b] = 0 /\ pc'[b] = "down"
        /\ \A c \in Boots \ {b} : pc'[c] = pc[c] /\ base'[c] = base[c]
        /\ journal' = journal \/ journal' = Append(journal, Torn(b))
    BY <1>0, <1>4 DEF Crash, Goes
  <2>2. CASE journal' = journal
    <3>1. 0 <= Units(journal)
      BY <1>u
    <3>2. QED BY <2>1, <2>2, <3>1, GuardQuiet
  <2>3. CASE journal' = Append(journal, Torn(b))
    <3>1. Torn(b) \in Rows /\ Torn(b).by = b /\ Torn(b).kind = "torn" /\ Torn(b) # Row(b)
      BY DEF Torn, Row, Rows
    <3>2. 0 <= Units(journal')
      BY <1>0, <1>u, <2>3, <3>1, UnitsGrow
    <3>3. QED BY <2>1, <2>3, <3>1, <3>2, GuardGrown
  <2>4. QED BY <2>1, <2>2, <2>3
<1>5. CASE UNCHANGED << journal, alive, pc, base >>
  BY <1>5 DEF GuardInv, NoOathYet, BaseBehind, CleanIsLast, OneClean, CleanGuards, FewRowsBehind, Foreign,
     RowsBehind
<1>6. ASSUME NEW b \in Boots, NEW d \in Disposers,
             Dispose(b, d) \/ ReleaseRead(b, d) \/ ReleaseUnlink(b, d) \/ ReleaseShared(b, d)
      PROVE  GuardInv'
  BY <1>5, <1>6 DEF Dispose, ReleaseRead, ReleaseUnlink, ReleaseShared, guardVars
<1>7. ASSUME NEW b \in Boots, AskAppend(b)
      PROVE  GuardInv'
  BY <1>5, <1>7 DEF AskAppend, guardVars
<1>8. CASE OperatorUnlocks \/ UNCHANGED gwVars
  BY <1>5, <1>8 DEF OperatorUnlocks, gwVars, guardVars
<1>9. QED
  BY <1>1, <1>2, <1>3, <1>4, <1>6, <1>7, <1>8 DEF GwNext, Step

\* Whatever the operator removes, the guards leave one writer: at most one row of
\* a process lands behind what another wrote after its oath, and at most one
\* baseline is the end of the file: GuardsLeaveOneWriter, for every number of
\* processes and appends.
THEOREM GuardsSuffice == GwSpec => []GuardsLeaveOneWriter
<1>1. TypeInv /\ GuardInv /\ [GwNext]_gwVars => (TypeInv /\ GuardInv)'
  BY TypeInvStep, GuardInvStep
<1>2. ASSUME GuardInv
      PROVE  GuardsLeaveOneWriter
  <2>1. ASSUME NEW b \in Boots, NEW i \in Oaths(journal), NEW k \in 1 .. Len(journal),
               journal[i].by = b, i < k, journal[k].by # b
        PROVE  Cardinality({n \in k + 1 .. Len(journal) : journal[n] = Row(b)}) <= 1
    <3> DEFINE S == {n \in k + 1 .. Len(journal) : journal[n] = Row(b)}
    <3>1. \A m, n \in S : m = n
      BY <1>2, <2>1 DEF GuardInv, FewRowsBehind, Foreign, RowsBehind
    <3>2. CASE S = {}
      <4>1. Cardinality(S) = 0
        BY <3>2, FS_EmptySet
      <4>2. QED BY <4>1
    <3>3. CASE S # {}
      <4>1. PICK x \in S : S = {x}
        BY <3>1, <3>3
      <4>2. Cardinality(S) = 1
        BY <4>1, FS_Singleton
      <4>3. QED BY <4>2
    <3>4. QED BY <3>2, <3>3
  <2>2. QED BY <1>2, <2>1 DEF GuardInv, OneClean, GuardsLeaveOneWriter
<1>3. QED
  BY <1>1, <1>2, TypeInvInit, GuardInvInit, PTL DEF GwSpec
===============================================================================
