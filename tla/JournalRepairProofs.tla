-------------------------- MODULE JournalRepairProofs --------------------------
(***************************************************************************)
(* What holds of JournalRepair for every set of intents and every number   *)
(* of rows, faults and decisions: its types, and that no snapshot lets an  *)
(* intent be sent again whose sending row was torn, unless a person        *)
(* answered for that rest.                                                 *)
(*                                                                         *)
(* A repair that was begun is within reach as long as nobody wrote behind  *)
(* it (InReach); once somebody did, the marker stays, everything is        *)
(* blocked for good, and nothing need be said of the evidence.  Until      *)
(* then RepairInv says where the tool and its marker stand (ToolPlaced,    *)
(* MarkerSound), who may be writing (NobodyOwnsWhile), what the repairs    *)
(* and the decisions in the journal are about (EvidenceSound), and, for    *)
(* each of the four fates of a torn sending row, what the evidence keeps   *)
(* of it (TearsSound).                                                     *)
(***************************************************************************)
EXTENDS JournalRepair, FiniteSetTheorems, FunctionTheorems, TLAPS

Names == Intents \cup {NoIntent}
Kinds == Written \cup Nested
Rests == [t : Kinds \cup {"none"}, id : Names]
RepairKeys == [start : Nat, sha : Rests, at : Nat]
JournalRows ==
  [t : Written, id : Intents]
  \cup [t : {"repair"}, key : RepairKeys, frag : Names]
  \cup [t : {"adjudicate"}, kind : {"fragment", "repair"}, key : RepairKeys,
        id : Names, verdict : {"resend", "abandon"}]
Fates == {"none", "here", "cut", "gone"}

JrTypes ==
  /\ journal \in Seq(JournalRows)
  /\ tail \in Rests
  /\ phase \in [Intents -> {"new", "own", "lost"}]
  /\ anchor \in [len : Nat, rows : Seq(JournalRows), tail : Rests]
  /\ seen \in BOOLEAN
  /\ marker \in [key : RepairKeys, frag : Names]
  /\ tool \in {"idle", "checked", "marked", "cut", "written", "moved"}
  /\ tear \in [Intents -> [at : Fates, named : BOOLEAN, key : RepairKeys, seen : BOOLEAN]]
  /\ faults \in 0 .. MaxFaults

Decisions(rows) == OfKind(rows, "adjudicate")
NobodyOwns == \A i \in Intents : phase[i] # "own"
Start == marker.key.start

\* Nobody wrote behind the begun repair: the journal ends where it began, or
\* with its row.
RowWritten == Len(journal) = Start + 1 /\ LastRow.t = "repair"
InReach == Len(journal) = Start \/ RowWritten

\* Where the tool is when it has read, begun, cut and written.
ToolPlaced ==
  /\ At("checked") /\ tail # NoTail => AnchorHolds(anchor)
  /\ At("checked") /\ Pending => Len(journal) = Start
  /\ At("marked") => Pending /\ Len(journal) = Start
  /\ At("cut") => Pending /\ Len(journal) = Start /\ tail = NoTail
  /\ At("written") \/ At("moved") => Pending /\ RowWritten /\ tail = NoTail

\* What the marker says of the rest, and that the row behind it is its own.
MarkerSound ==
  Pending =>
    /\ Start <= Len(journal)
    /\ marker.frag = marker.key.sha.id
    /\ RowWritten => LastRow = RepairRow(marker.key, marker.frag)

\* A process that could write on is gone while there is a rest to be cut.
NobodyOwnsWhile == tail # NoTail \/ ~Quiet \/ (Pending /\ InReach) => NobodyOwns

\* An accepted intent is not new; a repair is numbered by a place before its row;
\* a decision is about a repair that is there, and whoever it names has no
\* process that could still send it, and no rest at the end of the file.
EvidenceSound ==
  /\ \A i \in Known(journal) : phase[i] # "new"
  /\ \A r \in RepairLog(journal) : r.key.start < Len(journal)
  /\ \A a \in Decisions(journal) :
       /\ a.key \in Keys(journal)
       /\ a.id \in Intents => a.kind = "fragment"
       /\ \A i \in Intents : a.id = i => phase[i] = "lost" /\ tear[i].at # "here"

\* The rest of i's sending row is at the end of the file, and known to whoever
\* vouched for the file meanwhile.
HereSound(i) ==
  /\ tail = Torn(Row("sending", i), tear[i].named)
  /\ tear[i].seen /\ ~Pending => anchor.rows = journal /\ anchor.tail = tail
  /\ Pending /\ InReach => tail = marker.key.sha /\ Len(journal) = Start
\* A repair cut it off: its row says so or the marker does, and where the rest
\* named i nothing else was ever said of it.
CutSound(i) ==
  /\ tear[i].key \in Keys(journal) \/ (Pending /\ tear[i].key = marker.key)
  /\ tear[i].named /\ (Pending => InReach) =>
       /\ \A r \in RepairLog(journal) : r.key = tear[i].key => r.frag = i
       /\ Pending /\ tear[i].key = marker.key => marker.frag = i
       /\ \A a \in Fragments(Decisions(journal)) : a.key = tear[i].key => a.id = i
\* It was cut off by hand after a read had seen it: what that read vouched for can
\* never be found again.
GoneSound ==
  /\ ~Pending
  /\ anchor.tail.t = "sending"
  /\ Len(anchor.rows) <= Len(journal)
  /\ Len(anchor.rows) < Len(journal) \/ (tail.t # "sending" /\ NobodyOwns)
TearsSound ==
  \A i \in Intents :
    /\ tear[i].at # "none" => phase[i] = "lost"
    /\ tear[i].at = "none" => ~tear[i].seen
    /\ tear[i].at = "here" => HereSound(i)
    /\ tear[i].at = "cut" => CutSound(i)
    /\ tear[i].at = "gone" /\ tear[i].seen => GoneSound

RepairInv ==
  JrTypes /\ ToolPlaced /\ MarkerSound /\ NobodyOwnsWhile /\ EvidenceSound /\ TearsSound

-------------------------------------------------------------------------------
(* The operators of the model *)

LEMMA AppendFacts ==
  ASSUME NEW S, NEW s \in Seq(S), NEW e \in S
  PROVE  /\ Append(s, e) \in Seq(S)
         /\ Len(Append(s, e)) = Len(s) + 1
         /\ DOMAIN Append(s, e) = DOMAIN s \cup {Len(s) + 1}
         /\ \A n \in DOMAIN s : Append(s, e)[n] = s[n]
         /\ Append(s, e)[Len(s) + 1] = e
         /\ Len(s) \in Nat
  OBVIOUS

\* A row adds itself to the rows of its kind, and changes no other kind.
LEMMA OfKindAppend ==
  ASSUME NEW S, NEW s \in Seq(S), NEW e \in S, NEW t
  PROVE  OfKind(Append(s, e), t) = OfKind(s, t) \cup (IF e.t = t THEN {e} ELSE {})
<1> DEFINE u == Append(s, e)
<1>1. /\ DOMAIN u = DOMAIN s \cup {Len(s) + 1}
      /\ \A n \in DOMAIN s : u[n] = s[n]
      /\ u[Len(s) + 1] = e
  BY AppendFacts
<1> HIDE DEF u
<1>2. ASSUME NEW x PROVE x \in OfKind(u, t) <=> x \in OfKind(s, t) \/ (x = e /\ e.t = t)
  BY <1>1 DEF OfKind
<1>3. OfKind(u, t) = OfKind(s, t) \cup (IF e.t = t THEN {e} ELSE {})
  BY <1>2
<1>4. QED BY <1>3 DEF u

LEMMA KeysAppend ==
  ASSUME NEW S, NEW s \in Seq(S), NEW e \in S
  PROVE  Keys(Append(s, e)) = Keys(s) \cup (IF e.t = "repair" THEN {e.key} ELSE {})
<1>1. RepairLog(Append(s, e)) = RepairLog(s) \cup (IF e.t = "repair" THEN {e} ELSE {})
  BY OfKindAppend DEF RepairLog
<1>2. QED BY <1>1 DEF Keys

LEMMA KnownAppend ==
  ASSUME NEW S, NEW s \in Seq(S), NEW e \in S
  PROVE  \A i \in Known(Append(s, e)) : i \in Known(s) \/ e = Row("enqueue", i)
<1> DEFINE u == Append(s, e)
<1>1. /\ DOMAIN u = DOMAIN s \cup {Len(s) + 1}
      /\ \A n \in DOMAIN s : u[n] = s[n]
      /\ u[Len(s) + 1] = e
  BY AppendFacts
<1> HIDE DEF u
<1>2. \A i \in Known(u) : i \in Known(s) \/ e = Row("enqueue", i)
  BY <1>1 DEF Known, Has
<1>3. QED BY <1>2 DEF u

LEMMA KeysFinite ==
  ASSUME NEW S, NEW s \in Seq(S) PROVE IsFiniteSet(Keys(s)) /\ Cardinality(Keys(s)) \in Nat
<1> DEFINE at == {k \in DOMAIN s : s[k].t = "repair"}
           F == [n \in at |-> s[n].key]
<1>1. IsFiniteSet(1 .. Len(s)) BY FS_Interval
<1>2. at \subseteq 1 .. Len(s) OBVIOUS
<1>3. IsFiniteSet(at) BY <1>1, <1>2, FS_Subset
<1>4. Keys(s) = {s[n].key : n \in at} BY DEF Keys, RepairLog, OfKind
<1>5. IsFiniteSet({s[n].key : n \in at})
  <2>1. F \in [at -> {s[n].key : n \in at}] OBVIOUS
  <2>2. \A y \in {s[n].key : n \in at} : \E n \in at : F[n] = y OBVIOUS
  <2>3. F \in Surjection(at, {s[n].key : n \in at}) BY <2>1, <2>2, Fun_IsSurj
  <2>4. QED BY <1>3, <2>3, FS_Surjection
<1>6. QED BY <1>4, <1>5, FS_CardinalityType

\* The rows that the model writes are rows, and so are the rests they leave.
LEMMA RowTypes ==
  /\ \A t \in Written, i \in Intents : Row(t, i) \in JournalRows /\ Row(t, i).t = t
  /\ \A k \in RepairKeys, i \in Names :
       /\ RepairRow(k, i) \in JournalRows
       /\ RepairRow(k, i).t = "repair"
       /\ RepairRow(k, i).key = k /\ RepairRow(k, i).frag = i
  /\ \A d \in {"fragment", "repair"}, k \in RepairKeys, i \in Names, v \in {"resend", "abandon"} :
       /\ AdjudicateRow(d, k, i, v) \in JournalRows
       /\ AdjudicateRow(d, k, i, v).t = "adjudicate"
       /\ AdjudicateRow(d, k, i, v).key = k /\ AdjudicateRow(d, k, i, v).id = i
       /\ AdjudicateRow(d, k, i, v).kind = d /\ AdjudicateRow(d, k, i, v).verdict = v
  BY DEF Row, RepairRow, AdjudicateRow, JournalRows

LEMMA KindTypes ==
  ASSUME NEW s \in Seq(JournalRows)
  PROVE  /\ \A r \in RepairLog(s) : r.key \in RepairKeys /\ r.frag \in Names
         /\ \A a \in Decisions(s) : a.key \in RepairKeys /\ a.id \in Names
         /\ Keys(s) \subseteq RepairKeys
         /\ Known(s) \subseteq Intents
<1>1. \A r \in JournalRows : r.t = "repair" => r.key \in RepairKeys /\ r.frag \in Names
  BY DEF JournalRows, Written
<1>2. \A a \in JournalRows : a.t = "adjudicate" => a.key \in RepairKeys /\ a.id \in Names
  BY DEF JournalRows, Written
<1>3. \A n \in DOMAIN s : s[n] \in JournalRows OBVIOUS
<1>4. QED BY <1>1, <1>2, <1>3 DEF RepairLog, Decisions, OfKind, Keys, Known

LEMMA TornTypes ==
  /\ \A r \in JournalRows, named \in BOOLEAN : Torn(r, named) \in Rests /\ Torn(r, named).t = r.t
  /\ \A r \in JournalRows, named \in BOOLEAN : Torn(r, named) # NoTail
  /\ \A i \in Intents, named \in BOOLEAN :
       Torn(Row("sending", i), named) = Row("sending", IF named THEN i ELSE NoIntent)
  BY DEF Torn, JournalRows, Rests, Row, Nested, Written, Kinds, NoTail, Names

LEMMA LastRowAppend ==
  ASSUME JrTypes, NEW e \in JournalRows, journal' = Append(journal, e)
  PROVE  LastRow' = e /\ Len(journal') = Len(journal) + 1
<1>1. journal' # << >> /\ Len(journal') = Len(journal) + 1 /\ journal'[Len(journal) + 1] = e
  BY AppendFacts DEF JrTypes
<1>2. QED BY <1>1 DEF LastRow, Last

LEMMA PlainTypes ==
  /\ NoTail \in Rests /\ NoTail.t = "none"
  /\ NoMarker \in [key : RepairKeys, frag : Names]
  /\ NoMarker.key.sha = NoTail
  /\ NoAnchor \in [len : Nat, rows : Seq(JournalRows), tail : Rests]
  /\ NoAnchor.tail = NoTail /\ NoAnchor.len = 0 /\ NoAnchor.rows = << >>
  BY DEF NoTail, NoMarker, NoAnchor, Rests, RepairKeys, Names

LEMMA WholeTypes ==
  ASSUME JrTypes
  PROVE  /\ Whole \in [len : Nat, rows : Seq(JournalRows), tail : Rests]
         /\ Whole.rows = journal /\ Whole.tail = tail
  BY DEF JrTypes, Whole

-------------------------------------------------------------------------------
(* Types *)

LEMMA JrTypesInit == Init => JrTypes
<1> SUFFICES ASSUME Init PROVE JrTypes OBVIOUS
<1>1. faults \in 0 .. MaxFaults BY BoundAssumption DEF Init
<1>2. NoTear \in [at : Fates, named : BOOLEAN, key : RepairKeys, seen : BOOLEAN]
  BY PlainTypes DEF NoTear, Fates
<1>3. QED BY <1>1, <1>2, PlainTypes DEF Init, JrTypes

LEMMA FrozenTypes ==
  ASSUME JrTypes
  PROVE  /\ Frozen \in [Intents -> {"new", "own", "lost"}]
         /\ \A i \in Intents : /\ Frozen[i] # "own"
                               /\ Frozen[i] = "new" <=> phase[i] = "new"
                               /\ phase[i] = "lost" => Frozen[i] = "lost"
  BY DEF JrTypes, Frozen

LEMMA FaultTypes == ASSUME JrTypes, Fault PROVE faults' \in 0 .. MaxFaults
BY BoundAssumption DEF JrTypes, Fault

LEMMA BuiltRow ==
  ASSUME JrTypes
  PROVE  /\ BuildRepairRow \in JournalRows /\ BuildRepairRow.t = "repair"
         /\ BuildRepairRow.key = marker.key /\ BuildRepairRow.frag = marker.frag
  BY RowTypes DEF JrTypes, BuildRepairRow

LEMMA JrTypesServer ==
  ASSUME JrTypes, NEW i \in Intents, NEW t \in Written, NEW named \in BOOLEAN,
         AppendRow(i, t) \/ TearRow(i, t, named)
  PROVE  JrTypes'
<1>1. Row(t, i) \in JournalRows BY RowTypes
<1>2. CASE AppendRow(i, t)
  <2>1. journal' \in Seq(JournalRows) BY <1>1, <1>2 DEF JrTypes, AppendRow
  <2>2. QED BY <1>2, <2>1 DEF JrTypes, AppendRow
<1>3. CASE TearRow(i, t, named)
  <2>1. tail' \in Rests BY <1>1, <1>3, TornTypes DEF TearRow
  <2>2. phase' \in [Intents -> {"new", "own", "lost"}] BY <1>3, FrozenTypes DEF TearRow
  <2>3. tear' \in [Intents -> [at : Fates, named : BOOLEAN, key : RepairKeys, seen : BOOLEAN]]
    <3>1. CASE t = "sending"
      <4>1. tear' = [tear EXCEPT ![i].at = "here", ![i].named = named]
        BY <1>3, <3>1 DEF TearRow
      <4>2. QED BY <4>1 DEF JrTypes, Fates
    <3>2. CASE t # "sending" BY <1>3, <3>2 DEF TearRow, JrTypes
    <3>3. QED BY <3>1, <3>2
  <2>4. faults' \in 0 .. MaxFaults BY <1>3, FaultTypes DEF TearRow
  <2>5. QED BY <1>3, <2>1, <2>2, <2>3, <2>4 DEF JrTypes, TearRow
<1>4. QED BY <1>2, <1>3

LEMMA JrTypesRead ==
  ASSUME JrTypes, NEW trust \in BOOLEAN, Capture(trust) PROVE JrTypes'
<1>1. anchor' \in [len : Nat, rows : Seq(JournalRows), tail : Rests]
  BY WholeTypes DEF Capture, JrTypes
<1>2. seen' \in BOOLEAN BY DEF Capture, JrTypes
<1>3. faults' \in 0 .. MaxFaults BY FaultTypes DEF Capture, JrTypes
<1>4. tear' \in [Intents -> [at : Fates, named : BOOLEAN, key : RepairKeys, seen : BOOLEAN]]
  BY DEF Capture, JrTypes
<1>5. QED BY <1>1, <1>2, <1>3, <1>4 DEF Capture, JrTypes

LEMMA JrTypesRepair == ASSUME JrTypes, RepairStep PROVE JrTypes'
<1> DEFINE Tools == {"idle", "checked", "marked", "cut", "written", "moved"}
<1>1. CASE ReadFresh BY <1>1 DEF ReadFresh, Go, JrTypes
<1>2. CASE ReadPartialRow BY <1>2, PlainTypes DEF ReadPartialRow, Go, JrTypes
<1>3. CASE ReadCleanup BY <1>3, PlainTypes DEF ReadCleanup, JrTypes
<1>4. CASE ReadResidue BY <1>4 DEF ReadResidue, Go, JrTypes
<1>5. CASE WriteMarker
  <2>1. Cardinality(Keys(journal)) + 1 \in Nat BY KeysFinite DEF JrTypes
  <2>2. Len(journal) \in Nat BY DEF JrTypes
  <2>3. marker' \in [key : RepairKeys, frag : Names]
    BY <1>5, <2>1, <2>2 DEF WriteMarker, JrTypes, RepairKeys, Rests
  <2>4. QED BY <1>5, <2>3 DEF WriteMarker, Go, JrTypes
<1>6. CASE Truncate
  <2>1. tear' \in [Intents -> [at : Fates, named : BOOLEAN, key : RepairKeys, seen : BOOLEAN]]
    BY <1>6 DEF Truncate, CutBy, JrTypes, Fates
  <2>2. QED BY <1>6, <2>1, PlainTypes DEF Truncate, Go, JrTypes
<1>7. CASE WriteRow
  <2>1. journal' \in Seq(JournalRows) BY <1>7, BuiltRow DEF WriteRow, JrTypes
  <2>2. QED BY <1>7, <2>1, FrozenTypes DEF WriteRow, Go, JrTypes
<1>8. CASE MoveAnchor
  BY <1>8, WholeTypes DEF MoveAnchor, Go, JrTypes
<1>9. CASE ClearMarker BY <1>9, PlainTypes DEF ClearMarker, Go, JrTypes
<1>10. QED BY <1>1, <1>2, <1>3, <1>4, <1>5, <1>6, <1>7, <1>8, <1>9 DEF RepairStep

LEMMA JrTypesDies == ASSUME JrTypes, ToolDies PROVE JrTypes'
<1>1. tail' \in Rests BY BuiltRow, TornTypes DEF ToolDies, JrTypes
<1>2. QED BY <1>1, FaultTypes DEF ToolDies, Go, JrTypes

LEMMA JrTypesJudged ==
  ASSUME JrTypes, NEW kind \in {"fragment", "repair"}, NEW key \in Keys(journal),
         NEW i \in Names, NEW verdict \in {"resend", "abandon"},
         Adjudicate(kind, key, i, verdict)
  PROVE  JrTypes'
<1>1. key \in RepairKeys BY KindTypes DEF JrTypes
<1>2. AdjudicateRow(kind, key, i, verdict) \in JournalRows BY <1>1, RowTypes
<1>3. phase' \in [Intents -> {"new", "own", "lost"}] BY FrozenTypes DEF Adjudicate
<1>4. Append(journal, AdjudicateRow(kind, key, i, verdict)) \in Seq(JournalRows)
  BY <1>2 DEF JrTypes
<1>5. journal' \in Seq(JournalRows) BY <1>4 DEF Adjudicate, JrTypes
<1>6. tail' \in Rests BY <1>2, TornTypes DEF Adjudicate, JrTypes
<1>7. faults' \in 0 .. MaxFaults BY FaultTypes DEF Adjudicate, JrTypes
<1>8. Len(journal') \in Nat BY <1>5
<1>9. anchor' \in [len : Nat, rows : Seq(JournalRows), tail : Rests]
  <2>1. \/ anchor' = anchor
        \/ anchor' = [len |-> Len(journal'), rows |-> journal', tail |-> NoTail]
    BY DEF Adjudicate
  <2>2. QED BY <1>5, <1>8, <2>1, PlainTypes DEF JrTypes
<1>10. QED BY <1>3, <1>5, <1>6, <1>7, <1>9 DEF Adjudicate, JrTypes

LEMMA JrTypesByHand == ASSUME JrTypes, CutByHand PROVE JrTypes'
<1>1. tear' \in [Intents -> [at : Fates, named : BOOLEAN, key : RepairKeys, seen : BOOLEAN]]
  BY DEF CutByHand, JrTypes, Fates
<1>2. QED BY <1>1, PlainTypes, FaultTypes DEF CutByHand, JrTypes

-------------------------------------------------------------------------------
(* The server's steps *)

\* A row of the server is no evidence, and puts the begun repair out of reach.
LEMMA ServerRow ==
  ASSUME JrTypes, NEW t \in Written, NEW i \in Intents, journal' = Append(journal, Row(t, i))
  PROVE  /\ RepairLog(journal') = RepairLog(journal)
         /\ Decisions(journal') = Decisions(journal)
         /\ Keys(journal') = Keys(journal)
         /\ \A k \in Known(journal') : k \in Known(journal) \/ k = i
         /\ Len(journal') = Len(journal) + 1 /\ Len(journal) \in Nat
         /\ LastRow'.t # "repair"
<1>1. Row(t, i) \in JournalRows /\ Row(t, i).t = t /\ t \notin {"repair", "adjudicate"}
  BY RowTypes DEF Written
<1>2. journal \in Seq(JournalRows) BY DEF JrTypes
<1>3. RepairLog(journal') = RepairLog(journal)
  <2>1. OfKind(Append(journal, Row(t, i)), "repair")
          = OfKind(journal, "repair") \cup (IF Row(t, i).t = "repair" THEN {Row(t, i)} ELSE {})
    BY <1>1, <1>2, OfKindAppend
  <2>2. QED BY <1>1, <2>1 DEF RepairLog
<1>4. Decisions(journal') = Decisions(journal)
  <2>1. OfKind(Append(journal, Row(t, i)), "adjudicate")
          = OfKind(journal, "adjudicate") \cup (IF Row(t, i).t = "adjudicate" THEN {Row(t, i)} ELSE {})
    BY <1>1, <1>2, OfKindAppend
  <2>2. QED BY <1>1, <2>1 DEF Decisions
<1>5. Keys(journal') = Keys(journal) BY <1>3 DEF Keys
<1>6. LastRow' = Row(t, i) /\ Len(journal') = Len(journal) + 1 BY <1>1, LastRowAppend
<1>7. \A k \in Known(journal') : k \in Known(journal) \/ Row(t, i) = Row("enqueue", k)
  BY <1>1, <1>2, KnownAppend
<1>8. \A k : Row(t, i) = Row("enqueue", k) => k = i BY DEF Row
<1>9. QED BY <1>1, <1>2, <1>3, <1>4, <1>5, <1>6, <1>7, <1>8

LEMMA HereIsTorn ==
  ASSUME RepairInv, NEW i \in Intents, tear[i].at = "here"
  PROVE  /\ tail # NoTail /\ tail.t = "sending"
         /\ tail = Row("sending", IF tear[i].named THEN i ELSE NoIntent)
<1>1. tear[i].named \in BOOLEAN BY DEF RepairInv, JrTypes
<1>2. tail = Torn(Row("sending", i), tear[i].named) BY DEF RepairInv, TearsSound, HereSound
<1>3. tail = Row("sending", IF tear[i].named THEN i ELSE NoIntent) BY <1>1, <1>2, TornTypes
<1>4. QED BY <1>3 DEF Row, NoTail

LEMMA AppendRowKeeps ==
  ASSUME RepairInv, NEW i \in Intents, NEW t \in Written, AppendRow(i, t)
  PROVE  ToolPlaced' /\ MarkerSound' /\ NobodyOwnsWhile' /\ EvidenceSound' /\ TearsSound'
<1>1. /\ Quiet /\ tail = NoTail /\ phase[i] \in {"new", "own"}
      /\ journal' = Append(journal, Row(t, i))
      /\ phase' = [phase EXCEPT ![i] = "own"]
      /\ UNCHANGED << tail, anchor, seen, marker, tool, tear, faults >>
  BY DEF AppendRow, Due
<1>2. JrTypes BY DEF RepairInv
<1>3. /\ RepairLog(journal') = RepairLog(journal)
      /\ Decisions(journal') = Decisions(journal)
      /\ Keys(journal') = Keys(journal)
      /\ \A k \in Known(journal') : k \in Known(journal) \/ k = i
      /\ Len(journal') = Len(journal) + 1 /\ Len(journal) \in Nat
      /\ LastRow'.t # "repair"
  BY <1>1, <1>2, ServerRow
<1>4. /\ phase'[i] = "own" /\ \A k \in Intents : k # i => phase'[k] = phase[k]
      /\ \A k \in Intents : phase[k] = "lost" => phase'[k] = "lost"
      /\ \A k \in Intents : phase[k] # "new" => phase'[k] # "new"
  BY <1>1, <1>2 DEF JrTypes
<1>5. \A k \in Intents : tear[k].at # "here" BY <1>1, HereIsTorn
<1>6. Start \in Nat /\ Start' = Start BY <1>1, <1>2 DEF JrTypes, RepairKeys, Start
<1>7. ToolPlaced' BY <1>1 DEF ToolPlaced, Quiet, At
<1>8. Pending => ~InReach'
  BY <1>1, <1>3, <1>6 DEF RepairInv, MarkerSound, InReach, RowWritten
<1>9. MarkerSound'
  BY <1>1, <1>3, <1>6 DEF RepairInv, MarkerSound, RowWritten, Pending
<1>10. NobodyOwnsWhile' BY <1>1, <1>8 DEF NobodyOwnsWhile, Pending, Quiet
<1>11. EvidenceSound'
  <2>1. \A k \in Known(journal') : phase'[k] # "new"
    BY <1>2, <1>3, <1>4, KindTypes DEF RepairInv, EvidenceSound, JrTypes
  <2>2. \A r \in RepairLog(journal') : r.key.start < Len(journal')
    <3>1. \A r \in RepairLog(journal) : r.key.start \in Nat
      BY <1>2, KindTypes DEF JrTypes, RepairKeys
    <3>2. QED BY <1>3, <3>1 DEF RepairInv, EvidenceSound
  <2>3. QED BY <1>1, <1>3, <1>4, <2>1, <2>2 DEF RepairInv, EvidenceSound
<1>12. TearsSound'
  <2> SUFFICES ASSUME NEW k \in Intents
               PROVE  /\ tear[k].at # "none" => phase'[k] = "lost"
                      /\ tear[k].at = "none" => ~tear[k].seen
                      /\ tear[k].at = "here" => HereSound(k)'
                      /\ tear[k].at = "cut" => CutSound(k)'
                      /\ tear[k].at = "gone" /\ tear[k].seen => GoneSound'
    BY <1>1 DEF TearsSound
  <2>1. tear[k].at # "none" => phase'[k] = "lost" BY <1>4 DEF RepairInv, TearsSound
  <2>2. tear[k].at = "cut" => CutSound(k)'
    BY <1>1, <1>3, <1>8 DEF RepairInv, TearsSound, CutSound, Pending
  <2>3. tear[k].at = "gone" /\ tear[k].seen => GoneSound'
    <3>1. Len(anchor.rows) \in Nat BY <1>2 DEF JrTypes
    <3>2. QED BY <1>1, <1>3, <3>1 DEF RepairInv, TearsSound, GoneSound, Pending
  <2>4. tear[k].at = "none" => ~tear[k].seen BY DEF RepairInv, TearsSound
  <2>5. QED BY <1>5, <2>1, <2>2, <2>3, <2>4
<1>13. QED BY <1>7, <1>9, <1>10, <1>11, <1>12

LEMMA TearRowKeeps ==
  ASSUME RepairInv, NEW i \in Intents, NEW t \in Written, NEW named \in BOOLEAN,
         TearRow(i, t, named)
  PROVE  ToolPlaced' /\ MarkerSound' /\ NobodyOwnsWhile' /\ EvidenceSound' /\ TearsSound'
<1>1. /\ Quiet /\ tail = NoTail /\ phase[i] \in {"new", "own"}
      /\ t = "sending" => phase[i] = "own"
      /\ tail' = Torn(Row(t, i), named)
      /\ phase' = [Frozen EXCEPT ![i] = "lost"]
      /\ tear' = IF t = "sending" THEN [tear EXCEPT ![i].at = "here", ![i].named = named] ELSE tear
      /\ UNCHANGED << journal, anchor, seen, marker, tool >>
  BY DEF TearRow, Due
<1>2. JrTypes BY DEF RepairInv
<1>3. /\ \A k \in Intents : phase'[k] # "own" /\ (phase[k] = "lost" => phase'[k] = "lost")
      /\ \A k \in Intents : phase[k] # "new" => phase'[k] # "new"
      /\ phase'[i] = "lost"
  BY <1>1, <1>2, FrozenTypes
<1>4. tail'.t = t
  BY <1>1, RowTypes, TornTypes
<1>5. \A k \in Intents : tear[k].at # "here" BY <1>1, HereIsTorn
<1>6. /\ \A k \in Intents : k # i \/ t # "sending" => tear'[k] = tear[k]
      /\ t = "sending" => tear'[i] = [tear[i] EXCEPT !.at = "here", !.named = named]
  BY <1>1, <1>2 DEF JrTypes
<1>7. tear[i].at = "none" BY <1>1 DEF RepairInv, TearsSound
<1>8. ToolPlaced' BY <1>1 DEF ToolPlaced, Quiet, At
<1>9. MarkerSound' BY <1>1 DEF RepairInv, MarkerSound, RowWritten, Pending, Start, LastRow
<1>10. NobodyOwnsWhile' BY <1>3 DEF NobodyOwnsWhile, NobodyOwns
<1>11. \A a \in Decisions(journal), k \in Intents : a.id = k => k # i
  BY <1>1 DEF RepairInv, EvidenceSound
<1>12. EvidenceSound'
  BY <1>1, <1>2, <1>3, <1>6, <1>11, KindTypes DEF RepairInv, EvidenceSound, JrTypes
<1>13. TearsSound'
  <2> SUFFICES ASSUME NEW k \in Intents
               PROVE  /\ tear'[k].at # "none" => phase'[k] = "lost"
                      /\ tear'[k].at = "none" => ~tear'[k].seen
                      /\ tear'[k].at = "here" => HereSound(k)'
                      /\ tear'[k].at = "cut" => CutSound(k)'
                      /\ tear'[k].at = "gone" /\ tear'[k].seen => GoneSound'
    BY DEF TearsSound
  <2>1. CASE k = i /\ t = "sending"
    <3>1. tear[i] \in [at : Fates, named : BOOLEAN, key : RepairKeys, seen : BOOLEAN]
      BY <1>2 DEF JrTypes
    <3>2. tear'[i].at = "here" /\ tear'[i].named = named /\ tear'[i].seen = tear[i].seen
      BY <1>6, <2>1, <3>1
    <3>3. ~tear[i].seen BY <1>1, <1>7, <2>1 DEF RepairInv, TearsSound
    <3>4. ~(Pending /\ InReach) BY <1>1, <2>1 DEF RepairInv, NobodyOwnsWhile, NobodyOwns
    <3>5. ~(Pending' /\ InReach')
      BY <1>1, <3>4 DEF Pending, InReach, RowWritten, Start, LastRow
    <3>6. QED BY <1>1, <1>3, <2>1, <3>2, <3>3, <3>5 DEF HereSound
  <2>2. CASE ~(k = i /\ t = "sending")
    <3>1. tear'[k] = tear[k] BY <1>6, <2>2
    <3>2. tear[k].at # "none" => phase'[k] = "lost" BY <1>3 DEF RepairInv, TearsSound
    <3>3. tear[k].at = "cut" => CutSound(k)'
      <4>1. (Pending' <=> Pending) /\ (InReach' <=> InReach)
        BY <1>1 DEF Pending, InReach, RowWritten, Start, LastRow
      <4>2. tear[k].at = "cut" => CutSound(k) BY DEF RepairInv, TearsSound
      <4>3. QED BY <1>1, <3>1, <4>1, <4>2 DEF CutSound
    <3>4. tear[k].at = "gone" /\ tear[k].seen => GoneSound'
      <4>1. Len(anchor.rows) \in Nat /\ Len(journal) \in Nat BY <1>2 DEF JrTypes
      <4>2. SUFFICES ASSUME GoneSound PROVE GoneSound' BY DEF RepairInv, TearsSound
      <4>3. NobodyOwns => tail'.t # "sending" BY <1>1, <1>4 DEF NobodyOwns
      <4>4. NobodyOwns' BY <1>3 DEF NobodyOwns
      <4>5. QED BY <1>1, <4>1, <4>2, <4>3, <4>4 DEF GoneSound, Pending
    <3>5. tear[k].at = "none" => ~tear[k].seen BY DEF RepairInv, TearsSound
    <3>6. QED BY <1>5, <3>1, <3>2, <3>3, <3>4, <3>5
  <2>3. QED BY <2>1, <2>2
<1>14. QED BY <1>8, <1>9, <1>10, <1>12, <1>13

-------------------------------------------------------------------------------
(* Steps that leave the evidence alone *)

LEMMA EvidenceFrame ==
  ASSUME RepairInv, UNCHANGED << journal, phase >>,
         \A i \in Intents : tear'[i].at = "here" => tear[i].at = "here"
  PROVE  EvidenceSound'
BY DEF RepairInv, EvidenceSound

LEMMA MarkerFrame ==
  ASSUME RepairInv, UNCHANGED << journal, marker >> PROVE MarkerSound' /\ (InReach' <=> InReach)
BY DEF RepairInv, MarkerSound, InReach, RowWritten, Pending, Start, LastRow

LEMMA TearsFrame ==
  ASSUME RepairInv, UNCHANGED << journal, tail, phase, anchor, marker, tear >>
  PROVE  TearsSound'
<1>1. InReach' <=> InReach BY MarkerFrame
<1>2. \A i \in Intents : HereSound(i) => HereSound(i)'
  BY <1>1 DEF HereSound, Pending, Start
<1>3. \A i \in Intents : CutSound(i) => CutSound(i)'
  BY <1>1 DEF CutSound, Pending
<1>4. GoneSound => GoneSound' BY DEF GoneSound, Pending, NobodyOwns
<1>5. QED BY <1>2, <1>3, <1>4 DEF RepairInv, TearsSound

\* What was vouched for before a cut by hand is not found again.
LEMMA GoneNeverHolds == ASSUME GoneSound, JrTypes PROVE ~AnchorHolds(anchor) /\ anchor # NoAnchor
<1>1. anchor.tail # NoTail BY DEF GoneSound, NoTail
<1>2. Len(anchor.rows) \in Nat /\ Len(journal) \in Nat BY DEF JrTypes
<1>3. QED BY <1>1, <1>2, PlainTypes DEF GoneSound, AnchorHolds

LEMMA CaptureKeeps ==
  ASSUME RepairInv, NEW trust \in BOOLEAN, Capture(trust)
  PROVE  ToolPlaced' /\ MarkerSound' /\ NobodyOwnsWhile' /\ EvidenceSound' /\ TearsSound'
<1>1. /\ Quiet /\ Capturable(trust)
      /\ anchor' = IF Pending THEN anchor ELSE Whole
      /\ tear' = [i \in Intents |->
           IF tear[i].at = "here" /\ ~Pending THEN [tear[i] EXCEPT !.seen = TRUE] ELSE tear[i]]
      /\ UNCHANGED << journal, tail, phase, marker, tool >>
  BY DEF Capture
<1>2. JrTypes BY DEF RepairInv
<1>3. \A i \in Intents : /\ tear'[i].at = tear[i].at /\ tear'[i].named = tear[i].named
                         /\ tear'[i].key = tear[i].key
                         /\ tear[i].at # "here" \/ Pending => tear'[i].seen = tear[i].seen
  BY <1>1, <1>2 DEF JrTypes
<1>4. ToolPlaced' BY <1>1 DEF ToolPlaced, Quiet, At
<1>5. MarkerSound' /\ (InReach' <=> InReach) BY <1>1, MarkerFrame
<1>6. NobodyOwnsWhile'
  BY <1>1, <1>5 DEF RepairInv, NobodyOwnsWhile, NobodyOwns, Pending, Quiet
<1>7. EvidenceSound' BY <1>1, <1>3, EvidenceFrame
<1>8. TearsSound'
  <2> SUFFICES ASSUME NEW k \in Intents
               PROVE  /\ tear'[k].at # "none" => phase'[k] = "lost"
                      /\ tear'[k].at = "none" => ~tear'[k].seen
                      /\ tear'[k].at = "here" => HereSound(k)'
                      /\ tear'[k].at = "cut" => CutSound(k)'
                      /\ tear'[k].at = "gone" /\ tear'[k].seen => GoneSound'
    BY DEF TearsSound
  <2>1. tear'[k].at # "none" => phase'[k] = "lost" BY <1>1, <1>3 DEF RepairInv, TearsSound
  <2>2. tear'[k].at = "none" => ~tear'[k].seen BY <1>3 DEF RepairInv, TearsSound
  <2>3. tear'[k].at = "here" => HereSound(k)'
    <3>1. ~Pending => anchor'.rows = journal /\ anchor'.tail = tail BY <1>1, <1>2, WholeTypes
    <3>2. tear[k].at = "here" => HereSound(k) BY DEF RepairInv, TearsSound
    <3>3. QED BY <1>1, <1>3, <1>5, <3>1, <3>2 DEF HereSound, Pending, Start
  <2>4. tear'[k].at = "cut" => CutSound(k)'
    <3>1. tear[k].at = "cut" => CutSound(k) BY DEF RepairInv, TearsSound
    <3>2. QED BY <1>1, <1>3, <1>5, <3>1 DEF CutSound, Pending
  <2>5. ~(tear'[k].at = "gone" /\ tear'[k].seen)
    <3> SUFFICES ASSUME tear'[k].at = "gone", tear'[k].seen PROVE FALSE OBVIOUS
    <3>1. GoneSound BY <1>3 DEF RepairInv, TearsSound
    <3>2. ~AnchorHolds(anchor) /\ anchor # NoAnchor /\ ~Pending
      BY <1>2, <3>1, GoneNeverHolds DEF GoneSound
    <3>3. QED BY <1>1, <3>2 DEF Capturable
  <2>6. QED BY <2>1, <2>2, <2>3, <2>4, <2>5
<1>9. QED BY <1>4, <1>5, <1>6, <1>7, <1>8

\* The tool moves on, or dies, and has changed nothing.
LEMMA ToolMoves ==
  ASSUME RepairInv, UNCHANGED << journal, tail, phase, anchor, marker, tear >>,
         ToolPlaced', Quiet' \/ NobodyOwns
  PROVE  MarkerSound' /\ NobodyOwnsWhile' /\ EvidenceSound' /\ TearsSound'
<1>1. MarkerSound' /\ (InReach' <=> InReach) BY MarkerFrame
<1>2. NobodyOwnsWhile' BY <1>1 DEF RepairInv, NobodyOwnsWhile, NobodyOwns, Pending
<1>3. EvidenceSound' BY EvidenceFrame
<1>4. QED BY <1>1, <1>2, <1>3, TearsFrame

LEMMA ReadFreshKeeps ==
  ASSUME RepairInv, ReadFresh
  PROVE  ToolPlaced' /\ MarkerSound' /\ NobodyOwnsWhile' /\ EvidenceSound' /\ TearsSound'
<1>1. NobodyOwns BY DEF ReadFresh, RepairInv, NobodyOwnsWhile
<1>2. ToolPlaced'
  BY DEF ReadFresh, ToolPlaced, At, Go, Quiet, AnchorHolds, Untouched, Pending, Start
<1>3. QED BY <1>1, <1>2, ToolMoves DEF ReadFresh

\* No sending row is torn at the end of a file that a repair has got at.
LEMMA NobodyHere ==
  ASSUME RepairInv, tail = NoTail \/ tail.t = "repair"
  PROVE  \A i \in Intents : tear[i].at # "here"
BY HereIsTorn

LEMMA NobodyGone ==
  ASSUME RepairInv, Pending PROVE \A i \in Intents : ~(tear[i].at = "gone" /\ tear[i].seen)
BY DEF RepairInv, TearsSound, GoneSound

LEMMA ReadPartialRowKeeps ==
  ASSUME RepairInv, ReadPartialRow
  PROVE  ToolPlaced' /\ MarkerSound' /\ NobodyOwnsWhile' /\ EvidenceSound' /\ TearsSound'
<1>1. /\ Pending /\ tail.t = "repair" /\ Len(journal) = Start /\ tail' = NoTail /\ tool' = "cut"
      /\ UNCHANGED << journal, phase, anchor, seen, marker, tear, faults >>
  BY DEF ReadPartialRow, PartialRow, Go, Start
<1>2. ToolPlaced' BY <1>1 DEF ToolPlaced, At, Pending, Start
<1>3. MarkerSound' /\ (InReach' <=> InReach) BY <1>1, MarkerFrame
<1>4. NobodyOwns BY <1>1, PlainTypes DEF RepairInv, NobodyOwnsWhile
<1>5. NobodyOwnsWhile' BY <1>1, <1>4 DEF NobodyOwnsWhile, NobodyOwns
<1>6. EvidenceSound' BY <1>1, EvidenceFrame
<1>7. \A i \in Intents : tear[i].at # "here" /\ ~(tear[i].at = "gone" /\ tear[i].seen)
  BY <1>1, NobodyHere, NobodyGone
<1>8. \A i \in Intents : CutSound(i) => CutSound(i)' BY <1>1, <1>3 DEF CutSound, Pending
<1>9. TearsSound' BY <1>1, <1>7, <1>8 DEF RepairInv, TearsSound
<1>10. QED BY <1>2, <1>3, <1>5, <1>6, <1>9

LEMMA ReadResidueKeeps ==
  ASSUME RepairInv, ReadResidue
  PROVE  ToolPlaced' /\ MarkerSound' /\ NobodyOwnsWhile' /\ EvidenceSound' /\ TearsSound'
<1>1. /\ Pending /\ (Truncated \/ RowAtBounds)
      /\ tool' = (IF RowAtBounds THEN "written" ELSE "cut")
      /\ UNCHANGED << journal, tail, phase, anchor, seen, marker, tear, faults >>
  BY DEF ReadResidue, Go
<1>2. ToolPlaced'
  <2>1. RowAtBounds => tail = NoTail /\ RowWritten BY DEF RowAtBounds, RowWritten, Start
  <2>2. Truncated => tail = NoTail /\ Len(journal) = Start BY DEF Truncated, Start
  <2>3. Pending' /\ (RowWritten' <=> RowWritten) /\ Start' = Start
    BY <1>1 DEF Pending, RowWritten, Start, LastRow
  <2>4. QED BY <1>1, <2>1, <2>2, <2>3 DEF ToolPlaced, At
<1>3. NobodyOwns
  BY <1>1 DEF RepairInv, NobodyOwnsWhile, InReach, RowWritten, Truncated, RowAtBounds, Start
<1>4. QED BY <1>1, <1>2, <1>3, ToolMoves

-------------------------------------------------------------------------------
(* Steps of a repair *)

LEMMA LastRowIsThere ==
  ASSUME JrTypes, RowWritten
  PROVE  LastRow \in RepairLog(journal) /\ LastRow.key \in Keys(journal)
<1>1. Len(journal) \in Nat /\ Start \in Nat BY DEF JrTypes, RepairKeys, Start
<1>2. Len(journal) \in DOMAIN journal /\ journal # << >>
  BY <1>1 DEF RowWritten, JrTypes
<1>3. LastRow = journal[Len(journal)] BY <1>2 DEF LastRow, Last
<1>4. QED BY <1>2, <1>3 DEF RowWritten, RepairLog, OfKind, Keys

\* A repair whose row is written may be forgotten: the row answers for the rests it
\* cut off.
LEMMA MarkerCleared ==
  ASSUME RepairInv, Pending, RowWritten, tail = NoTail, marker' = NoMarker, tool' = "idle",
         UNCHANGED << journal, tail, phase, anchor, tear >>
  PROVE  ToolPlaced' /\ MarkerSound' /\ NobodyOwnsWhile' /\ EvidenceSound' /\ TearsSound'
<1>1. ToolPlaced' /\ MarkerSound' /\ ~Pending' BY DEF ToolPlaced, At, MarkerSound, Pending
<1>2. NobodyOwnsWhile' BY <1>1 DEF NobodyOwnsWhile, Quiet
<1>3. EvidenceSound' BY EvidenceFrame
<1>4. marker.key \in Keys(journal)
  <2>1. LastRow.key = marker.key BY DEF RepairInv, MarkerSound, RepairRow
  <2>2. QED BY <2>1, LastRowIsThere DEF RepairInv
<1>5. \A i \in Intents : tear[i].at # "here" /\ ~(tear[i].at = "gone" /\ tear[i].seen)
  BY NobodyHere, NobodyGone
<1>6. \A i \in Intents : CutSound(i) => CutSound(i)'
  BY <1>1, <1>4 DEF CutSound, InReach
<1>7. TearsSound' BY <1>5, <1>6 DEF RepairInv, TearsSound
<1>8. QED BY <1>1, <1>2, <1>3, <1>7

LEMMA ReadCleanupKeeps ==
  ASSUME RepairInv, ReadCleanup
  PROVE  ToolPlaced' /\ MarkerSound' /\ NobodyOwnsWhile' /\ EvidenceSound' /\ TearsSound'
BY MarkerCleared DEF ReadCleanup, RowAtBounds, RowWritten, Quiet, Start

LEMMA ClearMarkerKeeps ==
  ASSUME RepairInv, ClearMarker
  PROVE  ToolPlaced' /\ MarkerSound' /\ NobodyOwnsWhile' /\ EvidenceSound' /\ TearsSound'
BY MarkerCleared DEF ClearMarker, RepairInv, ToolPlaced, At, Go

\* A place is given to one repair.
LEMMA KeyIsFresh ==
  ASSUME RepairInv, NEW key \in RepairKeys, key.start = Len(journal)
  PROVE  /\ key \notin Keys(journal)
         /\ \A r \in RepairLog(journal) : r.key # key
         /\ \A a \in Decisions(journal) : a.key # key
<1>1. \A r \in RepairLog(journal) : r.key # key
  <2>1. Len(journal) \in Nat BY DEF RepairInv, JrTypes
  <2>2. QED BY <2>1 DEF RepairInv, EvidenceSound
<1>2. key \notin Keys(journal) BY <1>1 DEF Keys
<1>3. QED BY <1>1, <1>2 DEF RepairInv, EvidenceSound

LEMMA WriteMarkerKeeps ==
  ASSUME RepairInv, WriteMarker
  PROVE  ToolPlaced' /\ MarkerSound' /\ NobodyOwnsWhile' /\ EvidenceSound' /\ TearsSound'
<1>1. At("checked") /\ UNCHANGED << journal, tail, phase, anchor, seen, tear, faults >>
  BY DEF WriteMarker
<1>2. NobodyOwns BY <1>1 DEF RepairInv, NobodyOwnsWhile, Quiet, At
<1>3. CASE tail = NoTail
  <2>1. tool' = "idle" /\ marker' = marker BY <1>3 DEF WriteMarker, Go
  <2>2. ToolPlaced' BY <2>1 DEF ToolPlaced, At
  <2>3. QED BY <1>1, <1>2, <2>1, <2>2, ToolMoves
<1>4. CASE tail # NoTail /\ Pending
  <2>1. tool' = "marked" /\ marker' = marker BY <1>4 DEF WriteMarker, Go
  <2>2. ToolPlaced'
    BY <1>1, <1>4, <2>1 DEF RepairInv, ToolPlaced, At, Pending, Start
  <2>3. QED BY <1>1, <1>2, <2>1, <2>2, ToolMoves
<1>5. CASE tail # NoTail /\ ~Pending
  <2>1. /\ tool' = "marked"
        /\ marker' = [key  |-> [start |-> Len(journal), sha |-> tail,
                                at |-> Cardinality(Keys(journal)) + 1],
                      frag |-> tail.id]
    BY <1>5 DEF WriteMarker, Go
  <2>2. /\ marker'.key.start = Len(journal) /\ marker'.key.sha = tail /\ marker'.frag = tail.id
        /\ Start' = Len(journal) /\ Len(journal) \in Nat
    BY <2>1 DEF Start, RepairInv, JrTypes
  <2>3. Pending'
    BY <1>5, <2>2, PlainTypes DEF Pending
  <2>4. JrTypes' BY JrTypesRepair DEF RepairStep, RepairInv
  <2>5. marker'.key \in RepairKeys BY <2>4 DEF JrTypes
  <2>6. ~RowWritten' BY <1>1, <2>2 DEF RowWritten
  <2>7. ToolPlaced' BY <1>1, <2>1, <2>2, <2>3 DEF ToolPlaced, At
  <2>8. MarkerSound' BY <1>1, <2>2, <2>6 DEF MarkerSound
  <2>9. NobodyOwnsWhile' BY <1>1, <1>2 DEF NobodyOwnsWhile, NobodyOwns
  <2>10. EvidenceSound' BY <1>1, EvidenceFrame
  <2>11. TearsSound'
    <3>1. \A i \in Intents : HereSound(i) => HereSound(i)'
      BY <1>1, <2>2, <2>3 DEF HereSound
    <3>2. \A i \in Intents : CutSound(i) => CutSound(i)'
      <4>1. marker'.key \notin Keys(journal) BY <2>2, <2>5, KeyIsFresh
      <4>2. QED BY <1>1, <1>5, <4>1 DEF CutSound
    <3>3. ~GoneSound
      BY <1>1, <1>5, GoneNeverHolds DEF RepairInv, ToolPlaced
    <3>4. QED BY <1>1, <3>1, <3>2, <3>3 DEF RepairInv, TearsSound
  <2>12. QED BY <2>7, <2>8, <2>9, <2>10, <2>11
<1>6. QED BY <1>3, <1>4, <1>5

\* Where the begun repair may still cut, the rest that goes is the one its marker
\* names.
LEMMA RestIsCut ==
  ASSUME RepairInv, Pending, tail' = NoTail, tear' = CutBy(marker.key),
         UNCHANGED << journal, phase, anchor, marker >>
  PROVE  MarkerSound' /\ EvidenceSound' /\ TearsSound'
<1>1. JrTypes BY DEF RepairInv
<1>2. MarkerSound' /\ (InReach' <=> InReach) BY MarkerFrame
<1>3. \A i \in Intents :
        /\ tear[i].at # "here" => tear'[i] = tear[i]
        /\ tear[i].at = "here" => /\ tear'[i].at = "cut" /\ tear'[i].key = marker.key
                                  /\ tear'[i].named = tear[i].named
  BY <1>1 DEF CutBy, JrTypes
<1>4. EvidenceSound' BY <1>3, EvidenceFrame
<1>5. TearsSound'
  <2> SUFFICES ASSUME NEW k \in Intents
               PROVE  /\ tear'[k].at # "none" => phase'[k] = "lost"
                      /\ tear'[k].at = "none" => ~tear'[k].seen
                      /\ tear'[k].at # "here"
                      /\ tear'[k].at = "cut" => CutSound(k)'
                      /\ ~(tear'[k].at = "gone" /\ tear'[k].seen)
    BY DEF TearsSound
  <2>1. CASE tear[k].at # "here"
    <3>1. tear'[k] = tear[k] BY <1>3, <2>1
    <3>2. tear[k].at = "cut" => CutSound(k) BY DEF RepairInv, TearsSound
    <3>3. tear[k].at = "cut" => CutSound(k)' BY <1>2, <3>1, <3>2 DEF CutSound, Pending
    <3>4. QED BY <2>1, <3>1, <3>3, NobodyGone DEF RepairInv, TearsSound
  <2>2. CASE tear[k].at = "here"
    <3>1. tear'[k].at = "cut" /\ tear'[k].key = marker.key /\ tear'[k].named = tear[k].named
      BY <1>3, <2>2
    <3>2. phase'[k] = "lost" BY <2>2 DEF RepairInv, TearsSound
    <3>3. ASSUME tear[k].named, InReach
          PROVE  /\ \A r \in RepairLog(journal) : r.key # marker.key
                 /\ \A a \in Decisions(journal) : a.key # marker.key
                 /\ marker.frag = k
      <4>1. tail = marker.key.sha /\ Len(journal) = Start
        BY <2>2, <3>3 DEF RepairInv, TearsSound, HereSound
      <4>2. tail = Row("sending", k) BY <2>2, <3>3, HereIsTorn
      <4>3. marker.frag = k BY <4>1, <4>2 DEF RepairInv, MarkerSound, Row
      <4>4. marker.key \in RepairKeys BY <1>1 DEF JrTypes
      <4>5. QED BY <4>1, <4>3, <4>4, KeyIsFresh DEF Start
    <3>4. CutSound(k)'
      BY <1>2, <3>1, <3>3 DEF CutSound, Pending, Fragments
    <3>5. QED BY <3>1, <3>2, <3>4
  <2>3. QED BY <2>1, <2>2
<1>6. QED BY <1>2, <1>4, <1>5

LEMMA TruncateKeeps ==
  ASSUME RepairInv, Truncate
  PROVE  ToolPlaced' /\ MarkerSound' /\ NobodyOwnsWhile' /\ EvidenceSound' /\ TearsSound'
<1>1. /\ At("marked") /\ tool' = "cut" /\ tail' = NoTail /\ tear' = CutBy(marker.key)
      /\ UNCHANGED << journal, phase, anchor, seen, marker, faults >>
  BY DEF Truncate, Go
<1>2. Pending /\ Len(journal) = Start BY <1>1 DEF RepairInv, ToolPlaced
<1>3. ToolPlaced' BY <1>1, <1>2 DEF ToolPlaced, At, Pending, Start
<1>4. NobodyOwns BY <1>1 DEF RepairInv, NobodyOwnsWhile, Quiet, At
<1>5. NobodyOwnsWhile' BY <1>1, <1>4 DEF NobodyOwnsWhile, NobodyOwns
<1>6. QED BY <1>1, <1>2, <1>3, <1>5, RestIsCut

LEMMA WriteRowKeeps ==
  ASSUME RepairInv, WriteRow
  PROVE  ToolPlaced' /\ MarkerSound' /\ NobodyOwnsWhile' /\ EvidenceSound' /\ TearsSound'
<1>1. /\ At("cut") /\ tool' = "written" /\ phase' = Frozen
      /\ journal' = Append(journal, BuildRepairRow)
      /\ UNCHANGED << tail, anchor, seen, marker, tear, faults >>
  BY DEF WriteRow, Go
<1> DEFINE row == BuildRepairRow
<1>2. JrTypes /\ journal \in Seq(JournalRows) BY DEF RepairInv, JrTypes
<1>3. /\ row \in JournalRows /\ row.t = "repair" /\ row.key = marker.key /\ row.frag = marker.frag
      /\ row = RepairRow(marker.key, marker.frag)
  BY <1>2, BuiltRow DEF BuildRepairRow
<1> HIDE DEF row
<1>4. journal' = Append(journal, row) BY <1>1 DEF row
<1>5. Pending /\ Len(journal) = Start /\ tail = NoTail BY <1>1 DEF RepairInv, ToolPlaced
<1>6. LastRow' = row /\ Len(journal') = Len(journal) + 1 BY <1>2, <1>3, <1>4, LastRowAppend
<1>7. Len(journal) \in Nat /\ Start' = Start BY <1>1, <1>2 DEF Start
<1>8. Pending' /\ RowWritten' BY <1>1, <1>3, <1>5, <1>6, <1>7 DEF Pending, RowWritten
<1>9. RepairLog(journal') = RepairLog(journal) \cup {row}
  <2>1. OfKind(Append(journal, row), "repair")
          = OfKind(journal, "repair") \cup (IF row.t = "repair" THEN {row} ELSE {})
    BY <1>2, <1>3, OfKindAppend
  <2>2. QED BY <1>3, <1>4, <2>1 DEF RepairLog
<1>10. Decisions(journal') = Decisions(journal)
  <2>1. row \in JournalRows BY <1>3
  <2>2. OfKind(Append(journal, row), "adjudicate")
          = OfKind(journal, "adjudicate") \cup (IF row.t = "adjudicate" THEN {row} ELSE {})
    BY <1>2, <2>1, OfKindAppend
  <2>3. QED BY <1>3, <1>4, <2>2 DEF Decisions
<1>11. Keys(journal') = Keys(journal) \cup {marker.key} BY <1>3, <1>9 DEF Keys
<1>12. ToolPlaced' BY <1>1, <1>5, <1>8 DEF ToolPlaced, At
<1>13. MarkerSound'
  BY <1>1, <1>3, <1>5, <1>6, <1>7 DEF RepairInv, MarkerSound
<1>14. NobodyOwns' BY <1>1, <1>2, FrozenTypes DEF NobodyOwns
<1>15. NobodyOwnsWhile' BY <1>14 DEF NobodyOwnsWhile
<1>16. EvidenceSound'
  <2>1. \A k \in Known(journal') : k \in Known(journal)
    <3>1. \A k \in Known(journal') : k \in Known(journal) \/ row = Row("enqueue", k)
      BY <1>2, <1>3, <1>4, KnownAppend
    <3>2. \A k : row # Row("enqueue", k) BY <1>3 DEF Row
    <3>3. QED BY <3>1, <3>2
  <2>2. \A k \in Known(journal') : phase'[k] # "new"
    BY <1>1, <1>2, <2>1, FrozenTypes, KindTypes DEF RepairInv, EvidenceSound
  <2>3. \A r \in RepairLog(journal') : r.key.start < Len(journal')
    <3>1. \A r \in RepairLog(journal) : r.key.start \in Nat
      BY <1>2, KindTypes DEF RepairKeys
    <3>2. row.key.start = Len(journal) BY <1>3, <1>5 DEF Start
    <3>3. QED BY <1>6, <1>7, <1>9, <3>1, <3>2 DEF RepairInv, EvidenceSound
  <2>4. \A k \in Intents : phase[k] = "lost" => phase'[k] = "lost" BY <1>1, <1>2, FrozenTypes
  <2>5. QED BY <1>1, <1>10, <1>11, <2>2, <2>3, <2>4 DEF RepairInv, EvidenceSound
<1>17. TearsSound'
  <2>1. \A i \in Intents : tear[i].at # "here" /\ ~(tear[i].at = "gone" /\ tear[i].seen)
    BY <1>5, NobodyHere, NobodyGone
  <2>2. \A i \in Intents : tear[i].at # "none" => phase'[i] = "lost"
    BY <1>1, <1>2, FrozenTypes DEF RepairInv, TearsSound
  <2>3. \A i \in Intents : CutSound(i) => CutSound(i)'
    BY <1>1, <1>3, <1>5, <1>8, <1>9, <1>10, <1>11 DEF CutSound, InReach
  <2>4. QED BY <1>1, <2>1, <2>2, <2>3 DEF RepairInv, TearsSound
<1>18. QED BY <1>12, <1>13, <1>15, <1>16, <1>17

LEMMA MoveAnchorKeeps ==
  ASSUME RepairInv, MoveAnchor
  PROVE  ToolPlaced' /\ MarkerSound' /\ NobodyOwnsWhile' /\ EvidenceSound' /\ TearsSound'
<1>1. /\ At("written") /\ tool' = "moved"
      /\ UNCHANGED << journal, tail, phase, seen, marker, tear, faults >>
  BY DEF MoveAnchor, Go
<1>2. Pending /\ RowWritten /\ tail = NoTail BY <1>1 DEF RepairInv, ToolPlaced
<1>3. MarkerSound' /\ (InReach' <=> InReach) BY <1>1, MarkerFrame
<1>4. RowWritten' BY <1>1, <1>2 DEF RowWritten, Start, LastRow
<1>5. ToolPlaced' BY <1>1, <1>2, <1>4 DEF ToolPlaced, At, Pending
<1>6. NobodyOwns BY <1>1 DEF RepairInv, NobodyOwnsWhile, Quiet, At
<1>7. NobodyOwnsWhile' BY <1>1, <1>6 DEF NobodyOwnsWhile, NobodyOwns
<1>8. EvidenceSound' BY <1>1, EvidenceFrame
<1>9. \A i \in Intents : tear[i].at # "here" /\ ~(tear[i].at = "gone" /\ tear[i].seen)
  BY <1>2, NobodyHere, NobodyGone
<1>10. \A i \in Intents : CutSound(i) => CutSound(i)' BY <1>1, <1>3 DEF CutSound, Pending
<1>11. TearsSound' BY <1>1, <1>9, <1>10 DEF RepairInv, TearsSound
<1>12. QED BY <1>3, <1>5, <1>7, <1>8, <1>11

LEMMA RepairStepKeeps ==
  ASSUME RepairInv, RepairStep
  PROVE  ToolPlaced' /\ MarkerSound' /\ NobodyOwnsWhile' /\ EvidenceSound' /\ TearsSound'
BY ReadFreshKeeps, ReadPartialRowKeeps, ReadCleanupKeeps, ReadResidueKeeps, WriteMarkerKeeps,
   TruncateKeeps, WriteRowKeeps, MoveAnchorKeeps, ClearMarkerKeeps DEF RepairStep

LEMMA ToolDiesKeeps ==
  ASSUME RepairInv, ToolDies
  PROVE  ToolPlaced' /\ MarkerSound' /\ NobodyOwnsWhile' /\ EvidenceSound' /\ TearsSound'
<1>1. /\ ~Quiet /\ tool' = "idle"
      /\ UNCHANGED << journal, phase, anchor, seen, marker, tear >>
      /\ tail' = tail \/ (At("cut") /\ tail' = Torn(BuildRepairRow, FALSE))
  BY DEF ToolDies, Go
<1>2. ToolPlaced' BY <1>1 DEF ToolPlaced, At
<1>3. CASE tail' = tail BY <1>1, <1>2, <1>3, ToolMoves DEF Quiet
<1>4. CASE At("cut") /\ tail' = Torn(BuildRepairRow, FALSE)
  <2>1. JrTypes BY DEF RepairInv
  <2>2. Pending /\ tail = NoTail BY <1>4 DEF RepairInv, ToolPlaced
  <2>3. MarkerSound' /\ (InReach' <=> InReach) BY <1>1, MarkerFrame
  <2>4. NobodyOwns BY <1>1 DEF RepairInv, NobodyOwnsWhile
  <2>5. NobodyOwnsWhile' BY <1>1, <2>4 DEF NobodyOwnsWhile, NobodyOwns
  <2>6. EvidenceSound' BY <1>1, EvidenceFrame
  <2>7. \A i \in Intents : tear[i].at # "here" /\ ~(tear[i].at = "gone" /\ tear[i].seen)
    BY <2>2, NobodyHere, NobodyGone
  <2>8. \A i \in Intents : CutSound(i) => CutSound(i)' BY <1>1, <2>3 DEF CutSound, Pending
  <2>9. TearsSound' BY <1>1, <2>7, <2>8 DEF RepairInv, TearsSound
  <2>10. QED BY <1>2, <2>3, <2>5, <2>6, <2>9
<1>5. QED BY <1>1, <1>3, <1>4

-------------------------------------------------------------------------------
(* A person *)

LEMMA CutByHandKeeps ==
  ASSUME RepairInv, CutByHand
  PROVE  ToolPlaced' /\ MarkerSound' /\ NobodyOwnsWhile' /\ EvidenceSound' /\ TearsSound'
<1>1. /\ tail # NoTail /\ tool \in {"idle", "checked"} /\ tail' = NoTail
      /\ tear' = [i \in Intents |->
           IF tear[i].at # "here" THEN tear[i]
           ELSE IF Pending THEN [tear[i] EXCEPT !.at = "cut", !.key = marker.key]
           ELSE [tear[i] EXCEPT !.at = "gone"]]
      /\ UNCHANGED << journal, phase, anchor, seen, marker, tool >>
  BY DEF CutByHand
<1>2. JrTypes BY DEF RepairInv
<1>3. ToolPlaced' BY <1>1 DEF RepairInv, ToolPlaced, At, Pending, Start
<1>4. NobodyOwns BY <1>1 DEF RepairInv, NobodyOwnsWhile
<1>5. NobodyOwnsWhile' BY <1>1, <1>4 DEF NobodyOwnsWhile, NobodyOwns
<1>6. CASE Pending
  <2>1. tear' = CutBy(marker.key) BY <1>1, <1>6 DEF CutBy
  <2>2. QED BY <1>1, <1>3, <1>5, <1>6, <2>1, RestIsCut
<1>7. CASE ~Pending
  <2>1. \A i \in Intents :
          /\ tear[i].at # "here" => tear'[i] = tear[i]
          /\ tear[i].at = "here" => tear'[i].at = "gone" /\ tear'[i].seen = tear[i].seen
    BY <1>1, <1>2, <1>7 DEF JrTypes
  <2>2. MarkerSound' /\ (InReach' <=> InReach) BY <1>1, MarkerFrame
  <2>3. EvidenceSound' BY <1>1, <2>1, EvidenceFrame
  <2>4. TearsSound'
    <3> SUFFICES ASSUME NEW k \in Intents
                 PROVE  /\ tear'[k].at # "none" => phase'[k] = "lost"
                        /\ tear'[k].at = "none" => ~tear'[k].seen
                        /\ tear'[k].at # "here"
                        /\ tear'[k].at = "cut" => CutSound(k)'
                        /\ tear'[k].at = "gone" /\ tear'[k].seen => GoneSound'
      BY DEF TearsSound
    <3>1. CASE tear[k].at # "here"
      <4>1. tear'[k] = tear[k] BY <2>1, <3>1
      <4>2. tear[k].at = "cut" => CutSound(k)'
        BY <1>1, <2>2, <4>1 DEF RepairInv, TearsSound, CutSound, Pending
      <4>3. GoneSound => GoneSound'
        BY <1>1, <1>4, PlainTypes DEF GoneSound, Pending, NobodyOwns
      <4>4. QED BY <1>1, <3>1, <4>1, <4>2, <4>3 DEF RepairInv, TearsSound
    <3>2. CASE tear[k].at = "here"
      <4>1. tear'[k].at = "gone" /\ tear'[k].seen = tear[k].seen BY <2>1, <3>2
      <4>2. phase'[k] = "lost" BY <1>1, <3>2 DEF RepairInv, TearsSound
      <4>3. tail.t = "sending" BY <3>2, HereIsTorn
      <4>4. tear[k].seen => anchor.rows = journal /\ anchor.tail = tail
        BY <1>7, <3>2 DEF RepairInv, TearsSound, HereSound
      <4>5. Len(journal) \in Nat BY <1>2 DEF JrTypes
      <4>6. tear[k].seen => GoneSound'
        BY <1>1, <1>4, <1>7, <4>3, <4>4, <4>5, PlainTypes DEF GoneSound, Pending, NobodyOwns
      <4>7. QED BY <4>1, <4>2, <4>6
    <3>3. QED BY <3>1, <3>2
  <2>5. QED BY <1>3, <1>5, <2>2, <2>3, <2>4
<1>8. QED BY <1>6, <1>7

LEMMA AdjudicateKeeps ==
  ASSUME RepairInv, NEW kind \in {"fragment", "repair"}, NEW key \in Keys(journal),
         NEW i \in Names, NEW verdict \in {"resend", "abandon"},
         i = NoIntent <=> kind = "repair", Adjudicate(kind, key, i, verdict)
  PROVE  ToolPlaced' /\ MarkerSound' /\ NobodyOwnsWhile' /\ EvidenceSound' /\ TearsSound'
<1> DEFINE a == AdjudicateRow(kind, key, i, verdict)
<1>1. /\ Quiet /\ ~Pending /\ tail = NoTail /\ phase' = Frozen
      /\ kind = "fragment" => i \in Known(journal) /\ RepairOf(key).frag \in {i, NoIntent}
      /\ UNCHANGED << seen, marker, tool, tear >>
      /\ ~AnchorHolds(anchor) => anchor' = anchor
      /\ \/ journal' = Append(journal, a) /\ tail' = tail
         \/ journal' = journal /\ tail' = Torn(a, FALSE) /\ anchor' = anchor
  BY DEF Adjudicate, Admissible
<1>2. JrTypes /\ journal \in Seq(JournalRows) BY DEF RepairInv, JrTypes
<1>3. key \in RepairKeys BY <1>2, KindTypes
<1>4. /\ a \in JournalRows /\ a.t = "adjudicate" /\ a.key = key /\ a.id = i
      /\ a.kind = kind /\ a.verdict = verdict
  BY <1>3, RowTypes
<1> HIDE DEF a
<1>5. ToolPlaced' /\ MarkerSound' BY <1>1 DEF ToolPlaced, Quiet, At, MarkerSound, Pending
<1>6. NobodyOwns' BY <1>1, <1>2, FrozenTypes DEF NobodyOwns
<1>7. NobodyOwnsWhile' BY <1>6 DEF NobodyOwnsWhile
<1>8. /\ \A k \in Intents : phase[k] = "lost" => phase'[k] = "lost"
      /\ \A k \in Intents : phase[k] # "new" => phase'[k] = "lost"
  <2>1. \A k \in Intents : phase[k] # "new" => Frozen[k] = "lost"
    BY <1>2 DEF JrTypes, Frozen
  <2>2. QED BY <1>1, <2>1
<1>9. \A k \in Intents : tear[k].at # "here" BY <1>1, NobodyHere
<1>10. CASE journal' = journal /\ tail' = Torn(a, FALSE) /\ anchor' = anchor
  <2>1. tail'.t = "adjudicate" BY <1>4, <1>10, TornTypes
  <2>2. EvidenceSound'
    BY <1>1, <1>2, <1>8, <1>10, KindTypes DEF RepairInv, EvidenceSound
  <2>3. \A k \in Intents : CutSound(k) => CutSound(k)'
    BY <1>1, <1>10 DEF CutSound, Pending
  <2>4. GoneSound => GoneSound'
    BY <1>1, <1>6, <1>10, <2>1 DEF GoneSound, Pending
  <2>5. TearsSound' BY <1>1, <1>8, <1>9, <2>3, <2>4 DEF RepairInv, TearsSound
  <2>6. QED BY <1>5, <1>7, <2>2, <2>5
<1>11. CASE journal' = Append(journal, a) /\ tail' = tail
  <2>1. Len(journal') = Len(journal) + 1 /\ Len(journal) \in Nat
    BY <1>2, <1>4, <1>11, LastRowAppend
  <2>2. Decisions(journal') = Decisions(journal) \cup {a}
    <3>1. OfKind(Append(journal, a), "adjudicate")
            = OfKind(journal, "adjudicate") \cup (IF a.t = "adjudicate" THEN {a} ELSE {})
      BY <1>2, <1>4, OfKindAppend
    <3>2. QED BY <1>4, <1>11, <3>1 DEF Decisions
  <2>3. RepairLog(journal') = RepairLog(journal)
    <3>1. a \in JournalRows BY <1>4
    <3>2. OfKind(Append(journal, a), "repair")
            = OfKind(journal, "repair") \cup (IF a.t = "repair" THEN {a} ELSE {})
      BY <1>2, <3>1, OfKindAppend
    <3>3. QED BY <1>4, <1>11, <3>2 DEF RepairLog
  <2>4. Keys(journal') = Keys(journal) BY <2>3 DEF Keys
  <2>5. EvidenceSound'
    <3>1. \A k \in Known(journal') : phase'[k] # "new"
      <4>1. \A k \in Known(journal') : k \in Known(journal) \/ a = Row("enqueue", k)
        BY <1>2, <1>4, <1>11, KnownAppend
      <4>2. \A k : a # Row("enqueue", k) BY <1>4 DEF Row
      <4>3. QED BY <1>2, <1>8, <4>1, <4>2, KindTypes DEF RepairInv, EvidenceSound
    <3>2. \A r \in RepairLog(journal') : r.key.start < Len(journal')
      <4>1. \A r \in RepairLog(journal) : r.key.start \in Nat
        BY <1>2, KindTypes DEF RepairKeys
      <4>2. QED BY <2>1, <2>3, <4>1 DEF RepairInv, EvidenceSound
    <3>3. /\ i \in Intents => kind = "fragment"
          /\ \A k \in Intents : i = k => phase'[k] = "lost"
      <4>1. i \in Intents => kind = "fragment" BY IntentAssumption
      <4>2. QED BY <1>1, <1>2, <1>8, <4>1, KindTypes DEF RepairInv, EvidenceSound
    <3>4. QED
      BY <1>1, <1>4, <1>8, <1>9, <2>2, <2>4, <3>1, <3>2, <3>3 DEF RepairInv, EvidenceSound
  <2>6. ASSUME NEW k \in Intents, CutSound(k) PROVE CutSound(k)'
    <3>1. tear[k].named /\ kind = "fragment" /\ key = tear[k].key => i = k
      <4>1. \E r \in RepairLog(journal) : r.key = key BY DEF Keys
      <4>2. RepairOf(key) \in RepairLog(journal) /\ RepairOf(key).key = key
        BY <4>1 DEF RepairOf
      <4>3. tear[k].named /\ key = tear[k].key => RepairOf(key).frag = k
        BY <1>1, <2>6, <4>2 DEF CutSound
      <4>4. QED BY <1>1, <4>3, IntentAssumption
    <3>2. ~Pending' BY <1>1 DEF Pending
    <3>3. \A d \in Fragments(Decisions(journal')) :
             d \in Fragments(Decisions(journal)) \/ (d = a /\ kind = "fragment")
      BY <1>4, <2>2 DEF Fragments
    <3>4. tear[k].named => \A d \in Fragments(Decisions(journal')) : d.key = tear[k].key => d.id = k
      BY <1>1, <1>4, <2>6, <3>1, <3>3 DEF CutSound
    <3>5. QED BY <1>1, <2>3, <2>4, <2>6, <3>2, <3>4 DEF CutSound
  <2>7. GoneSound => GoneSound'
    <3> SUFFICES ASSUME GoneSound PROVE GoneSound' OBVIOUS
    <3>1. anchor' = anchor BY <1>1, <1>2, GoneNeverHolds
    <3>2. Len(anchor.rows) \in Nat BY <1>2 DEF JrTypes
    <3>3. QED BY <1>1, <2>1, <3>1, <3>2 DEF GoneSound, Pending
  <2>8. TearsSound' BY <1>1, <1>8, <1>9, <2>6, <2>7 DEF RepairInv, TearsSound
  <2>9. QED BY <1>5, <1>7, <2>5, <2>8
<1>12. QED BY <1>1, <1>10, <1>11

-------------------------------------------------------------------------------
(* The invariant *)

LEMMA RepairInvInit == Init => RepairInv
<1> SUFFICES ASSUME Init PROVE RepairInv OBVIOUS
<1>1. JrTypes BY JrTypesInit
<1>2. ~Pending /\ Quiet /\ tail = NoTail /\ NobodyOwns BY DEF Init, Pending, Quiet, NobodyOwns
<1>3. ToolPlaced /\ MarkerSound /\ NobodyOwnsWhile
  BY <1>2 DEF ToolPlaced, At, Quiet, MarkerSound, NobodyOwnsWhile
<1>4. EvidenceSound
  <2>1. DOMAIN journal = {} BY DEF Init
  <2>2. Known(journal) = {} /\ OfKind(journal, "repair") = {} /\ OfKind(journal, "adjudicate") = {}
    BY <2>1 DEF Known, Has, OfKind
  <2>3. QED BY <2>2 DEF EvidenceSound, RepairLog, Decisions
<1>5. TearsSound BY DEF Init, NoTear, TearsSound
<1>6. QED BY <1>1, <1>3, <1>4, <1>5 DEF RepairInv

LEMMA RepairInvStep == RepairInv /\ [Next]_vars => RepairInv'
<1> SUFFICES ASSUME RepairInv, [Next]_vars PROVE RepairInv' OBVIOUS
<1> DEFINE Rest == ToolPlaced' /\ MarkerSound' /\ NobodyOwnsWhile' /\ EvidenceSound' /\ TearsSound'
<1>1. JrTypes BY DEF RepairInv
<1>2. ASSUME NEW i \in Intents, NEW t \in Written, AppendRow(i, t) PROVE JrTypes' /\ Rest
  BY <1>1, <1>2, JrTypesServer, AppendRowKeeps
<1>3. ASSUME NEW i \in Intents, NEW t \in Written, NEW named \in BOOLEAN, TearRow(i, t, named)
      PROVE  JrTypes' /\ Rest
  BY <1>1, <1>3, JrTypesServer, TearRowKeeps
<1>4. ASSUME NEW trust \in BOOLEAN, Capture(trust) PROVE JrTypes' /\ Rest
  BY <1>1, <1>4, JrTypesRead, CaptureKeeps
<1>5. CASE RepairStep BY <1>1, <1>5, JrTypesRepair, RepairStepKeeps DEF RepairInv
<1>6. CASE ToolDies BY <1>1, <1>6, JrTypesDies, ToolDiesKeeps DEF RepairInv
<1>7. ASSUME NEW kind \in {"fragment", "repair"}, NEW key \in Keys(journal),
             NEW i \in Names, NEW verdict \in {"resend", "abandon"},
             i = NoIntent <=> kind = "repair", Adjudicate(kind, key, i, verdict)
      PROVE  JrTypes' /\ Rest
  BY <1>1, <1>7, JrTypesJudged, AdjudicateKeeps
<1>8. CASE CutByHand BY <1>1, <1>8, JrTypesByHand, CutByHandKeeps DEF RepairInv
<1>9. CASE UNCHANGED vars
  <2> USE <1>9 DEF vars
  <2>1. JrTypes' BY <1>1 DEF JrTypes
  <2>2. ToolPlaced'
    BY DEF RepairInv, ToolPlaced, At, AnchorHolds, Pending, RowWritten, Start, LastRow
  <2>3. Quiet' \/ NobodyOwns BY DEF RepairInv, NobodyOwnsWhile, Quiet
  <2>4. QED BY <2>1, <2>2, <2>3, ToolMoves DEF RepairInv
<1>10. CASE Next
  <2>1. \/ \E i \in Intents, t \in Written : AppendRow(i, t)
        \/ \E i \in Intents, t \in Written, named \in BOOLEAN : TearRow(i, t, named)
        \/ \E trust \in BOOLEAN : Capture(trust)
        \/ RepairStep \/ ToolDies
        \/ \E kind \in {"fragment", "repair"}, key \in Keys(journal),
              i \in Names, verdict \in {"resend", "abandon"} :
             (i = NoIntent <=> kind = "repair") /\ Adjudicate(kind, key, i, verdict)
        \/ CutByHand
    BY <1>10 DEF Next, Migrate, Names
  <2>2. QED BY <1>2, <1>3, <1>4, <1>5, <1>6, <1>7, <1>8, <2>1 DEF RepairInv
<1>11. QED BY <1>9, <1>10

LEMMA RepairInvAlways == Spec => []RepairInv
BY RepairInvInit, RepairInvStep, PTL DEF Spec

-------------------------------------------------------------------------------
(* Nothing is sent again that may have been executed *)

\* What the report needs of a snapshot to let anything through at all.
LEMMA SnapshotShape ==
  ASSUME NEW s \in Snapshots
  PROVE  /\ s.lines = journal /\ s.bad = tail
         /\ (s.pendingRepair \/ s.repairUndecided) <=> Pending
         /\ (tail = NoTail \/ tail.id # NoIntent) => s.attributed = {}
<1>1. PICK said \in Said : s = Fresh(said) \/ s = WithRepair(Fresh(said)) BY DEF Snapshots
<1>2. (tail = NoTail \/ tail.id # NoIntent) => said = {} BY DEF Said
<1>3. /\ Fresh(said).lines = journal /\ Fresh(said).bad = tail
      /\ Fresh(said).attributed = said
      /\ Fresh(said).pendingRepair = Pending /\ Fresh(said).repairUndecided = FALSE
  BY DEF Fresh, Snapshot
<1>4. CASE s = Fresh(said) BY <1>2, <1>3, <1>4
<1>5. CASE s = WithRepair(Fresh(said))
  <2>1. /\ s.lines = Fresh(said).lines /\ s.bad = Fresh(said).bad
        /\ s.attributed = Fresh(said).attributed
    BY <1>5 DEF WithRepair, Fresh, Snapshot
  <2>2. /\ s.pendingRepair = FALSE
        /\ s.repairUndecided = (Fresh(said).repairUndecided \/ Fresh(said).pendingRepair)
    BY <1>5 DEF WithRepair, Fresh, Snapshot
  <2>3. QED BY <1>2, <1>3, <2>1, <2>2
<1>6. QED BY <1>1, <1>4, <1>5

LEMMA LetThrough ==
  ASSUME JrTypes, NEW s \in Snapshots, NEW i \in Resumable(s) \cup ResendAuthorized(s)
  PROVE  /\ ~Pending /\ ~ResumeBlocked(s) /\ i \in Intents
         /\ ~AbandonExcludes(s, i)
         /\ i \in Unknown(s) => ResendCovers(s, i)
         /\ i \in ResendAuthorized(s) => ResendCovers(s, i)
<1>1. ~ResumeBlocked(s) BY DEF Resumable, ResendAuthorized
<1>2. ~Pending BY <1>1, SnapshotShape DEF ResumeBlocked, RepairShadow
<1>3. Known(s.lines) \subseteq Intents BY DEF Known
<1>4. /\ ~AbandonExcludes(s, i) /\ i \in Intents
      /\ i \in Unknown(s) => ResendCovers(s, i)
      /\ i \in ResendAuthorized(s) => ResendCovers(s, i)
  BY <1>1, <1>3 DEF Resumable, ResendAuthorized
<1>5. QED BY <1>1, <1>2, <1>4

\* In a snapshot that lets anything through every decision counts.
LEMMA DecisionsCount ==
  ASSUME RepairInv, NEW s \in Snapshots, ~ResumeBlocked(s), NEW a \in Decisions(journal)
  PROVE  a \in Effective(s.lines)
<1>1. s.lines = journal BY SnapshotShape
<1>2. ConflictKeys(journal) = {} BY <1>1 DEF ResumeBlocked, RepairShadow
<1>3. a.key \in Keys(journal) BY DEF RepairInv, EvidenceSound
<1>4. QED BY <1>1, <1>2, <1>3 DEF Effective, ValidAdjudications, Decisions

\* Giving up is final.
LEMMA AbandonedStays ==
  ASSUME RepairInv, NEW s \in Snapshots, NEW i \in Resumable(s) \cup ResendAuthorized(s),
         NEW a \in Decisions(journal), a.verdict = "abandon"
  PROVE  a.id # i
<1> SUFFICES ASSUME a.id = i PROVE FALSE OBVIOUS
<1>1. ~ResumeBlocked(s) /\ i \in Intents /\ ~AbandonExcludes(s, i)
  BY LetThrough DEF RepairInv
<1>2. a \in Effective(s.lines) BY <1>1, DecisionsCount
<1>3. a.kind = "fragment" BY <1>1 DEF RepairInv, EvidenceSound
<1>4. a.key \in Granted(s.lines, i, "abandon") BY <1>2, <1>3 DEF Granted, Fragments
<1>5. QED BY <1>1, <1>4 DEF AbandonExcludes

\* Nobody decided to send an intent again whose rest still stands in the file.
LEMMA HereIsNotCovered ==
  ASSUME RepairInv, NEW s \in Snapshots, NEW i \in Intents, tear[i].at = "here"
  PROVE  ~ResendCovers(s, i)
<1> SUFFICES ASSUME ResendCovers(s, i) PROVE FALSE OBVIOUS
<1>1. s.lines = journal BY SnapshotShape
<1>2. PICK a \in Fragments(Effective(journal)) : a.id = i
  BY <1>1 DEF ResendCovers, Granted
<1>3. a \in Decisions(journal)
  BY DEF Fragments, Effective, ValidAdjudications, Decisions
<1>4. QED BY <1>2, <1>3 DEF RepairInv, EvidenceSound

LEMMA TornIsAnswered ==
  ASSUME RepairInv, NEW s \in Snapshots, NEW i \in Resumable(s) \cup ResendAuthorized(s),
         tear[i].at # "none", ~Hidden(i)
  PROVE  Answered(s, i)
<1>1. /\ ~Pending /\ ~ResumeBlocked(s) /\ i \in Intents
      /\ i \in Unknown(s) => ResendCovers(s, i)
      /\ i \in ResendAuthorized(s) => ResendCovers(s, i)
  BY LetThrough DEF RepairInv
<1>2. s.lines = journal /\ s.bad = tail BY SnapshotShape
<1>3. CASE tear[i].at = "here"
  <2>1. i \notin Unknown(s) BY <1>1, <1>3, HereIsNotCovered
  <2>2. tail # NoTail /\ tail = Row("sending", IF tear[i].named THEN i ELSE NoIntent)
    BY <1>1, <1>3, HereIsTorn
  <2>3. Attributed(s) \cup ByHand(s) # {}
    BY <1>1, <1>2, <2>2 DEF ResumeBlocked, Unattributed
  <2>4. i \notin Attributed(s) \cup ByHand(s) BY <2>1 DEF Unknown
  <2>5. CASE tear[i].named
    <3>1. tail.id = i /\ i # NoIntent BY <1>1, <2>2, <2>5, IntentAssumption DEF Row
    <3>2. Attributed(s) \subseteq {i} BY <1>2, <3>1 DEF Attributed
    <3>3. s.attributed = {} BY <3>1, SnapshotShape
    <3>4. ByHand(s) = {} BY <3>3 DEF ByHand
    <3>5. QED BY <2>3, <2>4, <3>2, <3>4
  <2>6. CASE ~tear[i].named
    <3>1. tail.id = NoIntent BY <2>2, <2>6 DEF Row
    <3>2. Attributed(s) = {} BY <1>2, <3>1, IntentAssumption DEF Attributed, Known
    <3>3. ByHand(s) # {} /\ ByHand(s) \subseteq s.attributed BY <2>3, <3>2 DEF ByHand
    <3>4. s.attributed # {} /\ s.attributed # {i} BY <2>4, <3>3
    <3>5. QED BY <1>3, <2>6, <3>4 DEF Answered
  <2>7. QED BY <2>5, <2>6
<1>4. CASE tear[i].at = "cut"
  <2>1. CutSound(i) BY <1>1, <1>4 DEF RepairInv, TearsSound
  <2>2. tear[i].key \in Keys(journal) BY <1>1, <2>1 DEF CutSound
  <2>3. tear[i].key \in AttributedTx(journal)
    BY <1>1, <1>2, <2>2 DEF ResumeBlocked, RepairShadow
  <2>4. PICK a \in Fragments(Effective(journal)) : a.key = tear[i].key
    BY <2>3 DEF AttributedTx
  <2>5. a \in Decisions(journal) /\ a.kind = "fragment" /\ a \in Fragments(Decisions(journal))
    BY DEF Fragments, Effective, ValidAdjudications, Decisions
  <2>6. tear[i].named => a.id = i BY <1>1, <2>1, <2>4, <2>5 DEF CutSound
  <2>7. a.verdict \in {"resend", "abandon"}
    <3>1. journal \in Seq(JournalRows) BY DEF RepairInv, JrTypes
    <3>2. \A r \in JournalRows : r.t = "adjudicate" => r.verdict \in {"resend", "abandon"}
      BY DEF JournalRows, Written
    <3>3. QED BY <2>5, <3>1, <3>2 DEF Decisions, OfKind
  <2>8. a.id = i => a.verdict = "resend" BY <2>5, <2>7, AbandonedStays
  <2>9. a \in OfKind(s.lines, "adjudicate") BY <1>2, <2>5 DEF Decisions
  <2>10. tear[i].named \in BOOLEAN BY <1>1 DEF RepairInv, JrTypes
  <2>11. QED BY <1>4, <2>4, <2>5, <2>6, <2>8, <2>9, <2>10 DEF Answered
<1>5. ~(tear[i].at = "gone")
  <2> SUFFICES ASSUME tear[i].at = "gone" PROVE FALSE OBVIOUS
  <2>1. tear[i].seen BY DEF Hidden
  <2>2. GoneSound BY <1>1, <2>1 DEF RepairInv, TearsSound
  <2>3. ~AnchorHolds(anchor) /\ anchor # NoAnchor BY <2>2, GoneNeverHolds DEF RepairInv
  <2>4. QED BY <1>1, <2>3 DEF Snapshots, Capturable
<1>6. tear[i].at \in Fates BY <1>1 DEF RepairInv, JrTypes
<1>7. QED BY <1>3, <1>4, <1>5, <1>6 DEF Fates

-------------------------------------------------------------------------------
(* Theorems *)

\* The variables of the journal, its evidence and the tool keep their types, and a
\* tool that has begun always has its marker on disk.
THEOREM RepairTypeCorrect == Spec => []TypeOK
<1>1. RepairInv => TypeOK
  BY DEF RepairInv, JrTypes, ToolPlaced, TypeOK, Quiet, At
<1>2. QED BY <1>1, RepairInvAlways, PTL

\* No intent whose sending row ever reached the disk, in whatever part, may be sent
\* again unless a person answered for exactly that rest, and none that a person
\* gave up: for any number of intents, torn rows, deaths of the tool, repairs taken
\* up again, restarts, cuts by hand and decisions (recover.ts:8-18).
THEOREM NeverUnsafelyResent == Spec => []NoUnsafeResend
<1>1. RepairInv => NoUnsafeResend
  <2> SUFFICES ASSUME RepairInv, NEW s \in Snapshots,
                      NEW i \in Resumable(s) \cup ResendAuthorized(s)
               PROVE  /\ \A a \in OfKind(journal, "adjudicate") : a.verdict = "abandon" => a.id # i
                      /\ i \in Intents /\ tear[i].at # "none" /\ ~Hidden(i) => Answered(s, i)
    BY DEF NoUnsafeResend
  <2>1. \A a \in Decisions(journal) : a.verdict = "abandon" => a.id # i BY AbandonedStays
  <2>2. QED BY <2>1, TornIsAnswered DEF Decisions
<1>2. QED BY <1>1, RepairInvAlways, PTL

\* A repair that is known to be over has left its row: whatever rest of a sending
\* row a repair destroyed, the journal says so as soon as nothing is pending, so a
\* reader of the journal alone can never take it for a file that was never torn
\* (repair-tail.ts:10-17).
CutsAreRecorded ==
  \A i \in Intents : tear[i].at = "cut" /\ ~Pending => tear[i].key \in Keys(journal)
THEOREM CutsAlwaysRecorded == Spec => []CutsAreRecorded
<1>1. RepairInv => CutsAreRecorded
  BY DEF RepairInv, TearsSound, CutSound, CutsAreRecorded
<1>2. QED BY <1>1, RepairInvAlways, PTL
===============================================================================
