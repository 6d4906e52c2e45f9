----------------------------- MODULE JournalRepair -----------------------------
(***************************************************************************)
(* One journal, the directory of evidence beside it, and everybody who     *)
(* writes either: the server's processes (one after the other), the repair *)
(* tool (repair-tail.ts), the tool that records a person's decision        *)
(* (adjudicate-journal.ts), the recovery read (recovery-evidence-source.ts)*)
(* and somebody with an editor.                                            *)
(*                                                                         *)
(* Bytes are counted in rows: a repair keeps the first marker.start rows.  *)
(* The tool works in steps and may die after each.  As the code demands    *)
(* (repair-tail.ts:26-28), nobody else writes while it is at work; what it *)
(* leaves behind when it dies is open to everybody.                        *)
(*                                                                         *)
(* Left out: markers of builds before r8 and rows of other builds, which   *)
(* the tool refuses; reads that fail; and a rest short enough to be the    *)
(* beginning of a later row (README).                                      *)
(***************************************************************************)
EXTENDS RecoverReport

CONSTANTS
  MaxRows,    \* bound: rows of the journal a server writes
  MaxFaults,  \* bound: torn rows, deaths of the tool, failed side writes, cuts by hand
  MaxJudged   \* bound: decisions

\* An intent is the number the server gave it, in the order of acceptance.
ASSUME NumberAssumption == Intents \subseteq Nat

ASSUME BoundAssumption == {MaxRows, MaxFaults, MaxJudged} \subseteq Nat

VARIABLES
  journal,  \* the whole rows
  tail,     \* the torn rest after them
  phase,    \* of an intent: new, own (of the running process), lost with its process
  anchor,   \* what a recovery read last vouched for
  seen,     \* whether the file is registered as vouched for
  marker,   \* the repair that was begun and is not known to be finished
  tool,     \* where the repair tool is
  tear,     \* history: what became of the torn sending row of an intent
  faults
vars == << journal, tail, phase, anchor, seen, marker, tool, tear, faults >>

\* No repair is under way; nothing has been vouched for.
NoMarker == [key |-> [start |-> 0, sha |-> NoTail, at |-> 0], frag |-> NoIntent]
NoAnchor == [len |-> 0, rows |-> << >>, tail |-> NoTail]
Whole == [len |-> Len(journal) + IF tail = NoTail THEN 0 ELSE 1, rows |-> journal, tail |-> tail]
NoTear == [at |-> "none", named |-> FALSE, key |-> NoMarker.key, seen |-> FALSE]

Init ==
  /\ journal = << >> /\ tail = NoTail
  /\ phase = [i \in Intents |-> "new"]
  /\ anchor = NoAnchor /\ seen = FALSE
  /\ marker = NoMarker /\ tool = "idle"
  /\ tear = [i \in Intents |-> NoTear] /\ faults = 0

Quiet == tool = "idle"
Fault == faults < MaxFaults /\ faults' = faults + 1
\* Whoever ran on this journal is dead, or finds a row it did not write and stops.
Frozen == [i \in Intents |-> IF phase[i] = "own" THEN "lost" ELSE phase[i]]

-------------------------------------------------------------------------------
(* The server *)

Written == {"enqueue", "sending", "cancelled", "settled", "unknown"}
Mine == {n \in DOMAIN journal : journal[n].t \in Written}
\* The next row of an intent.  A torn journal is not written (writer-oath.ts:193).
Due(i, t) ==
  /\ Quiet /\ tail = NoTail /\ Cardinality(Mine) < MaxRows
  /\ \/ t = "enqueue" /\ phase[i] = "new" /\ \A k \in Intents : k < i => phase[k] # "new"
     \/ t = "sending" /\ phase[i] = "own" /\ \A u \in {"sending", "cancelled"} : ~Has(journal, u, i)
     \/ t = "cancelled" /\ phase[i] = "own" /\ ~Has(journal, "sending", i) /\ ~Has(journal, t, i)
     \/ /\ t \in {"settled", "unknown"} /\ phase[i] = "own"
        /\ Has(journal, "sending", i) /\ LastVerdict(journal, i) = "none"

AppendRow(i, t) ==
  /\ Due(i, t)
  /\ journal' = Append(journal, Row(t, i))
  /\ phase' = [phase EXCEPT ![i] = "own"]
  /\ UNCHANGED << tail, anchor, seen, marker, tool, tear, faults >>

\* The process dies in the middle of a row.
TearRow(i, t, named) ==
  /\ Due(i, t) /\ Fault
  /\ tail' = Torn(Row(t, i), named)
  /\ phase' = [Frozen EXCEPT ![i] = "lost"]
  /\ tear' = IF t = "sending" THEN [tear EXCEPT ![i].at = "here", ![i].named = named] ELSE tear
  /\ UNCHANGED << journal, anchor, seen, marker, tool >>

-------------------------------------------------------------------------------
(* createRecoveryEvidenceProvider() *)

\* What was vouched for is still there, as it was.
AnchorHolds(a) ==
  /\ IsPrefix(a.rows, journal)
  /\ a.tail # NoTail => a.rows = journal /\ a.tail = tail
Pending == marker # NoMarker
Capturable(trust) ==
  IF anchor = NoAnchor THEN ~seen /\ trust /\ ~Pending ELSE Pending \/ AnchorHolds(anchor)

\* A read vouches for what it saw, unless a repair is under way.
Capture(trust) ==
  /\ Quiet /\ Whole.len > 0 /\ Capturable(trust)
  /\ anchor' = IF Pending THEN anchor ELSE Whole
  /\ \/ seen' = TRUE /\ UNCHANGED faults
     \/ ~seen /\ seen' = seen /\ Fault
  /\ tear' = [i \in Intents |->
       IF tear[i].at = "here" /\ ~Pending THEN [tear[i] EXCEPT !.seen = TRUE] ELSE tear[i]]
  /\ UNCHANGED << journal, tail, phase, marker, tool >>

\* migrateLegacyEvidence(): a read that may be the first.  A server told to trust
\* first reads (composition.ts:382) does the same.
Migrate == Capture(TRUE)

\* The snapshots a host can hold of the file as it is, whatever it said of a rest
\* that names nobody.
Fresh(said) == Snapshot(journal, tail, said, FALSE, Pending, FALSE)
Said == IF tail # NoTail /\ tail.id = NoIntent THEN SUBSET Intents ELSE {{}}
Snapshots ==
  IF \E trust \in BOOLEAN : Capturable(trust)
  THEN {Fresh(said) : said \in Said} \cup {WithRepair(Fresh(said)) : said \in Said}
  ELSE {}

-------------------------------------------------------------------------------
(* repairJournalTail() *)

LastRow == IF journal = << >> THEN Row("none", NoIntent) ELSE Last(journal)
\* What a repair that died may have left: nothing yet, a part of its row, its row.
Untouched == tail = marker.key.sha /\ Len(journal) = marker.key.start
Truncated == tail = NoTail /\ Len(journal) = marker.key.start
\* Mutant: a part of the tool's own row is taken for somebody else's.
PartialRowUnknown == FALSE
PartialRow == tail.t = "repair" /\ Len(journal) = marker.key.start
RowAtBounds ==
  /\ tail = NoTail /\ Len(journal) = marker.key.start + 1
  /\ LastRow.t = "repair" /\ LastRow.key.start = marker.key.start /\ LastRow.key.sha = marker.key.sha
\* The anchor does not reach beyond what the repair keeps.
Movable(a) == a.len <= marker.key.start

At(pc) == tool = pc
Go(pc) == tool' = pc
\* The rest of a torn sending row is cut off by the repair the marker names.
CutBy(key) ==
  [i \in Intents |-> IF tear[i].at = "here" THEN [tear[i] EXCEPT !.at = "cut", !.key = key] ELSE tear[i]]

\* The first read: a new repair, or the rest of one that was begun.
ReadFresh ==
  /\ Quiet /\ tail # NoTail /\ AnchorHolds(anchor)
  /\ Pending => Untouched
  /\ Go("checked")
  /\ UNCHANGED << journal, tail, phase, anchor, seen, marker, tear, faults >>
ReadPartialRow ==
  /\ Quiet /\ Pending /\ PartialRow /\ AnchorHolds(anchor) /\ Movable(anchor)
  /\ tail' = NoTail /\ Go("cut")
  /\ UNCHANGED << journal, phase, anchor, seen, marker, tear, faults >>
ReadCleanup ==
  /\ Quiet /\ Pending /\ RowAtBounds /\ anchor = Whole
  /\ marker' = NoMarker
  /\ UNCHANGED << journal, tail, phase, anchor, seen, tool, tear, faults >>
ReadResidue ==
  /\ Quiet /\ Pending /\ (Truncated \/ RowAtBounds)
  /\ Movable(anchor) /\ IsPrefix(anchor.rows, journal)
  /\ Go(IF RowAtBounds THEN "written" ELSE "cut")
  /\ UNCHANGED << journal, tail, phase, anchor, seen, marker, tear, faults >>

\* The intention is on disk before the rest is destroyed.
WriteMarker ==
  /\ At("checked")
  /\ IF tail = NoTail THEN Go("idle") /\ UNCHANGED marker  \* somebody was faster
     ELSE /\ Go("marked")
          /\ marker' = IF Pending THEN marker
                       ELSE [key  |-> [start |-> Len(journal), sha |-> tail,
                                       at |-> Cardinality(Keys(journal)) + 1],
                             frag |-> tail.id]
  /\ UNCHANGED << journal, tail, phase, anchor, seen, tear, faults >>
Truncate ==
  /\ At("marked") /\ Go("cut")
  /\ tail' = NoTail /\ tear' = CutBy(marker.key)
  /\ UNCHANGED << journal, phase, anchor, seen, marker, faults >>
\* Mutant: a repair taken up again has forgotten whom the rest named.
BuildRepairRowBlank == RepairRow(marker.key, NoIntent)
BuildRepairRow == RepairRow(marker.key, marker.frag)
WriteRow ==
  /\ At("cut") /\ Go("written")
  /\ journal' = Append(journal, BuildRepairRow) /\ phase' = Frozen
  /\ UNCHANGED << tail, anchor, seen, marker, tear, faults >>
MoveAnchor ==
  /\ At("written") /\ Go("moved")
  /\ anchor' = IF anchor = NoAnchor THEN anchor ELSE Whole
  /\ UNCHANGED << journal, tail, phase, seen, marker, tear, faults >>
ClearMarker ==
  /\ At("moved") /\ Go("idle") /\ marker' = NoMarker
  /\ UNCHANGED << journal, tail, phase, anchor, seen, tear, faults >>

\* The tool dies between two steps, or in the middle of its row.
ToolDies ==
  /\ ~Quiet /\ Fault /\ Go("idle")
  /\ tail' \in {tail} \cup IF At("cut") THEN {Torn(BuildRepairRow, FALSE)} ELSE {}
  /\ UNCHANGED << journal, phase, anchor, seen, marker, tear >>

-------------------------------------------------------------------------------
(* adjudicateJournal() *)

RepairOf(key) == CHOOSE r \in RepairLog(journal) : r.key = key
Priors(key) == {a \in OfKind(journal, "adjudicate") : a.key = key}
\* The file is whole, the repair is there, the name fits, nothing is contradicted.
Admissible(kind, key, i, verdict) ==
  /\ Quiet /\ ~Pending /\ tail = NoTail /\ key \in Keys(journal)
  /\ kind = "fragment" => /\ i \in Known(journal)
                          /\ RepairOf(key).frag \in {i, NoIntent}
  /\ \A a \in Priors(key) : a.verdict = verdict /\ a.kind # kind

Judged == Cardinality({n \in DOMAIN journal : journal[n].t = "adjudicate"})
Adjudicate(kind, key, i, verdict) ==
  /\ Judged < MaxJudged /\ Admissible(kind, key, i, verdict)
  /\ phase' = Frozen
  /\ \/ /\ journal' = Append(journal, AdjudicateRow(kind, key, i, verdict))
        /\ \/ /\ anchor' = IF anchor = NoAnchor \/ ~AnchorHolds(anchor) THEN anchor
                           ELSE [len |-> Len(journal'), rows |-> journal', tail |-> NoTail]
              /\ UNCHANGED faults
           \/ Fault /\ UNCHANGED anchor  \* the row is there, the anchor was not moved
        /\ UNCHANGED tail
     \/ /\ Fault /\ tail' = Torn(AdjudicateRow(kind, key, i, verdict), FALSE)
        /\ UNCHANGED << journal, anchor >>
  /\ UNCHANGED << seen, marker, tool, tear >>

\* Somebody cuts the rest off with an editor.
CutByHand ==
  /\ tail # NoTail /\ tool \in {"idle", "checked"} /\ Fault
  /\ tail' = NoTail
  /\ tear' = [i \in Intents |->
       IF tear[i].at # "here" THEN tear[i]
       ELSE IF Pending THEN [tear[i] EXCEPT !.at = "cut", !.key = marker.key]
       ELSE [tear[i] EXCEPT !.at = "gone"]]
  /\ UNCHANGED << journal, phase, anchor, seen, marker, tool >>

-------------------------------------------------------------------------------
RepairStep ==
  \/ ReadFresh \/ ReadPartialRow \/ ReadCleanup \/ ReadResidue
  \/ WriteMarker \/ Truncate \/ WriteRow \/ MoveAnchor \/ ClearMarker
Next ==
  \/ \E i \in Intents, t \in Written : AppendRow(i, t)
  \/ \E i \in Intents, t \in Written, named \in BOOLEAN : TearRow(i, t, named)
  \/ Capture(FALSE) \/ Migrate
  \/ RepairStep
  \/ ToolDies
  \/ \E kind \in {"fragment", "repair"}, key \in Keys(journal),
        i \in Intents \cup {NoIntent}, verdict \in {"resend", "abandon"} :
       /\ (i = NoIntent <=> kind = "repair")
       /\ Adjudicate(kind, key, i, verdict)
  \/ CutByHand

\* The host tries again until the repair is done.
Spec == Init /\ [][Next]_vars /\ WF_vars(RepairStep)

-------------------------------------------------------------------------------
TypeOK ==
  /\ phase \in [Intents -> {"new", "own", "lost"}]
  /\ seen \in BOOLEAN /\ faults \in 0 .. MaxFaults
  /\ tool \in {"idle", "checked", "marked", "cut", "written", "moved"}
  /\ ~Quiet /\ ~At("checked") => Pending

\* The decisions that answer for a torn sending row of i.  Where the rest named
\* nobody, a person may also have found that it was not i's.
Answered(s, i) ==
  \/ \E a \in OfKind(s.lines, "adjudicate") :
       /\ a.kind = "fragment" /\ tear[i].at = "cut" /\ a.key = tear[i].key
       /\ (a.verdict = "resend" /\ a.id = i) \/ (~tear[i].named /\ a.id # i)
  \/ /\ tear[i].at = "here" /\ ~tear[i].named
     /\ s.attributed \notin {{}, {i}}
\* Nobody can know of a rest that was cut off by hand before any read saw it.
Hidden(i) == tear[i].at = "gone" /\ ~tear[i].seen

\* Whatever part of an intent's sending row ever reached the disk, no snapshot
\* lets the intent be sent again unless a person answered for exactly that rest:
\* not after a repair, a repair that died and was taken up again, a restart, or
\* a cut by hand that removed what a read had seen (recover.ts:8-18,
\* repair-tail.ts:10-17, recovery-evidence-source.ts:6-10).  And what a person
\* gave up stays given up.
NoUnsafeResend ==
  LET torn      == {i \in Intents : tear[i].at # "none" /\ ~Hidden(i)}
      abandoned == {a.id : a \in {b \in OfKind(journal, "adjudicate") : b.verdict = "abandon"}}
  IN torn \cup abandoned # {} =>
       \A s \in Snapshots : \A i \in Resumable(s) \cup ResendAuthorized(s) :
         i \notin abandoned /\ (i \in torn => Answered(s, i))

\* A begun repair whose file nobody wrote since, and whose anchor is not in the way.
Mendable ==
  /\ Pending /\ (Movable(anchor) \/ anchor = Whole)
  /\ \/ Untouched \/ Truncated \/ RowAtBounds
     \/ tail.t = "repair" /\ Len(journal) = marker.key.start
  /\ IsPrefix(anchor.rows, journal)
\* Such a repair is not left begun forever, wherever the tool died
\* (repair-tail.ts:10-14: whoever tries again can tell how far it came).
RepairConverges == []<>(~Mendable)
================================================================================
