----------------------------- MODULE RecoverReport -----------------------------
(***************************************************************************)
(* What may be sent again after a crash: the report that                   *)
(* apps/server/src/runtime/recover.ts draws from a snapshot of a journal.  *)
(*                                                                         *)
(* A snapshot holds the rows that parse, in file order, the torn rest of a *)
(* row at the end if there is one (GuardedWriter shows why it can only be  *)
(* at the end), what a person said about that rest, and how far a repair   *)
(* of the file has come.  A rest is what can be read off it: the kind of   *)
(* row it began, and the intent if the cut left its name whole.  Rests     *)
(* that read the same have the same hash.                                  *)
(***************************************************************************)
EXTENDS Naturals, FiniteSets, Sequences, SequencesExt, Functions

CONSTANTS Intents, NoIntent

ASSUME IntentAssumption == NoIntent \notin Intents

Row(t, i) == [t |-> t, id |-> i]
\* A repair names the rest it cut off; key is the identity of the repair.
RepairRow(key, frag) == [t |-> "repair", key |-> key, frag |-> frag]
AdjudicateRow(kind, key, i, verdict) ==
  [t |-> "adjudicate", kind |-> kind, key |-> key, id |-> i, verdict |-> verdict]
NoTail == [t |-> "none", id |-> NoIntent]
\* scanTopLevelIntentId(): what is left of a row that was cut names its intent if
\* the cut came after the name, and if the name stands at the top of the row.
Nested == {"repair", "adjudicate"}
Torn(row, named) == Row(row.t, IF row.t \notin Nested /\ named THEN row.id ELSE NoIntent)

Snapshot(rows, rest, said, repaired, pending, undecided) ==
  [lines |-> rows, bad |-> rest, attributed |-> said, repaired |-> repaired,
   pendingRepair |-> pending, repairUndecided |-> undecided]
\* The host says that the file has been repaired since the snapshot was taken.
WithRepair(s) ==
  [s EXCEPT !.repaired = TRUE, !.pendingRepair = FALSE,
            !.repairUndecided = @ \/ s.pendingRepair]

-------------------------------------------------------------------------------
(* replayIntents() *)

Has(rows, t, i) == \E n \in DOMAIN rows : rows[n] = Row(t, i)
Known(rows) == {i \in Intents : Has(rows, "enqueue", i)}
Verdicts == {"delivered", "settled", "unknown"}
\* The last verdict row decides.
LastVerdict(rows, i) ==
  LET at == {n \in DOMAIN rows : \E v \in Verdicts : rows[n] = Row(v, i)}
  IN IF at = {} THEN "none" ELSE rows[CHOOSE n \in at : \A k \in at : k <= n].t

IsUnknownEffect(rows, i) ==
  \/ LastVerdict(rows, i) = "unknown"
  \/ /\ LastVerdict(rows, i) = "none"
     /\ \E t \in {"sending", "response-timeout"} : Has(rows, t, i)

-------------------------------------------------------------------------------
(* Repairs and what a person decided about them *)

OfKind(rows, t) == {rows[n] : n \in {k \in DOMAIN rows : rows[k].t = t}}
RepairLog(rows) == OfKind(rows, "repair")
Keys(rows) == {r.key : r \in RepairLog(rows)}

\* A decision counts for a repair that is there.
ValidAdjudications(rows) == {a \in OfKind(rows, "adjudicate") : a.key \in Keys(rows)}
Fragments(A) == {a \in A : a.kind = "fragment"}
\* Decisions that contradict each other are all void.
ConflictKeys(rows) ==
  {k \in Keys(rows) :
     LET group == {a \in ValidAdjudications(rows) : a.key = k}
     IN \/ Cardinality({a.verdict : a \in group}) > 1
        \/ Cardinality({a.id : a \in Fragments(group)}) > 1}
Effective(rows) == {a \in ValidAdjudications(rows) : a.key \notin ConflictKeys(rows)}

\* The repairs whose rest was decided to be about i, with that verdict.
Granted(rows, i, verdict) ==
  {a.key : a \in {b \in Fragments(Effective(rows)) : b.id = i /\ b.verdict = verdict}}
AttributedTx(rows) == {a.key : a \in Fragments(Effective(rows))}
SameText(rows, rest) == {k \in Keys(rows) : k.sha = rest}

-------------------------------------------------------------------------------
(* The torn rest *)

\* sendingFragmentAttribution(): the rest names one intent, and a known one.
Attributed(s) == {s.bad.id} \cap Known(s.lines)
\* A person may say of a rest that names nobody whose it was; two answers are none.
ByHand(s) ==
  LET targets == s.attributed \cap Known(s.lines)
  IN IF s.bad # NoTail /\ Attributed(s) = {} /\ Cardinality(targets) = 1 THEN targets ELSE {}
Unattributed(s) == s.bad # NoTail /\ Attributed(s) \cup ByHand(s) = {}

Unknown(s) ==
  {i \in Known(s.lines) : IsUnknownEffect(s.lines, i)} \cup Attributed(s) \cup ByHand(s)
\* The rests that make i unknown.
Sources(s, i) == IF i \in Attributed(s) \cup ByHand(s) THEN {s.bad} ELSE {}

-------------------------------------------------------------------------------
(* buildRecoverReport() *)

\* Every repair that may have cut off i's rest was decided in favour of i.
ResendCovers(s, i) ==
  LET have == Granted(s.lines, i, "resend")
  IN /\ have # {}
     /\ Sources(s, i) = {} => Keys(s.lines) \subseteq have
     /\ \A x \in Sources(s, i) :
          SameText(s.lines, x) # {} /\ SameText(s.lines, x) \subseteq have
\* Giving up is final: one decision is enough.
AbandonExcludes(s, i) == Granted(s.lines, i, "abandon") # {}

\* The intents some repair may have taken a sending row of.
TxImpacted(s) ==
  {i \in Intents : \/ Granted(s.lines, i, "resend") # {}
                   \/ \E r \in RepairLog(s.lines) : r.frag = i}

DiskBlocked(s) == ~s.repaired /\ s.bad # NoTail
RepairShadow(s) ==
  \/ ~ (Keys(s.lines) \subseteq AttributedTx(s.lines))
  \/ s.pendingRepair \/ s.repairUndecided
  \/ ConflictKeys(s.lines) # {}
ResumeBlocked(s) == DiskBlocked(s) \/ Unattributed(s) \/ RepairShadow(s)

\* Accepted and surely never sent: may be sent again under its own name.
NeverSent(s, i) ==
  /\ LastVerdict(s.lines, i) = "none"
  /\ \A t \in {"sending", "response-timeout", "cancelled"} : ~Has(s.lines, t, i)
Resumable(s) ==
  IF ResumeBlocked(s) THEN {}
  ELSE {i \in Known(s.lines) : /\ i \in Unknown(s) \cup TxImpacted(s) => ResendCovers(s, i)
                               /\ ~AbandonExcludes(s, i) /\ NeverSent(s, i)}
\* A person has answered for sending it again.
ResendAuthorized(s) ==
  IF ResumeBlocked(s) THEN {}
  ELSE {i \in Intents : ResendCovers(s, i) /\ ~AbandonExcludes(s, i)}
================================================================================
