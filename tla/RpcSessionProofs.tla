--------------------------- MODULE RpcSessionProofs ---------------------------
(***************************************************************************)
(* What holds of a session and of its parts, for every number of intents,  *)
(* sends, pi processes, events, buffered events and closes.                *)
(*                                                                         *)
(* The turn gate.  GateInv strengthens the properties of TurnGate until    *)
(* they are inductive.  Its core is OneLiveCall: a suspended call of the   *)
(* current epoch is the only one, and the gate is in the state that waits  *)
(* for it.  From this follow what a resumed call may do (nothing, unless   *)
(* the gate is still its own) and, with the history of permits, that a     *)
(* permit rests on both durable lines and that two turns are never open in *)
(* one epoch.                                                              *)
(*                                                                         *)
(* The coordinator checks before it registers a turn only that the permit  *)
(* is fresh, not that nothing is registered.  That this is enough needs    *)
(* the history of a key (KeysAreOnce): an intent is either being launched, *)
(* or registered, or over, and over for good; and that a gate which has a  *)
(* turn open has the registered one (TurnsAgree).                          *)
(*                                                                         *)
(* The supervisor has SupInv.  The session adds that all of them speak of  *)
(* the same process (SameGeneration), what is still known of a prompt pi   *)
(* has read (PromptsHeld), and that everything on the way to a settled     *)
(* line began with pi (SettledByPi): no turn is left where no process is,  *)
(* pi never runs two prompts at once, it reads nothing that was not        *)
(* journalled first, and what is reported as settled is what pi settled.   *)
(***************************************************************************)
EXTENDS RpcSession, SequenceTheorems, TLAPS

-------------------------------------------------------------------------------
(* The turn gate *)

\* The call that the gate waits for, and no other.
OneLiveCall ==
  /\ \A c \in pending :
       /\ c.epoch <= opEpoch
       /\ c.epoch = opEpoch =>
            /\ gate.intent = c.intent
            /\ gate.kind = IF c.line = "settled" THEN "settling" ELSE "dispatching"
  /\ \A c, d \in pending : c.epoch = opEpoch /\ d.epoch = opEpoch => c = d
  /\ gate.kind \in {"dispatching", "settling"} => \E c \in pending : c.epoch = opEpoch

\* What a suspended call has already achieved.
CallsHaveGrounds ==
  \A c \in pending :
    /\ c.line = "sending" => "enqueue" \in acked[c.intent]
    /\ c.line = "settled" => Permitted(c.intent)

AckedIsLanded == \A i \in Intents : acked[i] \subseteq landed[i]

\* A permit of the current epoch is settled, or it is the open turn, or the gate
\* has been closed on it.
PermitsAccounted ==
  /\ \A p \in permits :
       /\ p.epoch <= opEpoch
       /\ p.epoch = opEpoch =>
            \/ "settled" \in acked[p.intent]
            \/ gate.kind = "closed"
            \/ gate.kind \in {"in-flight", "settling"} /\ gate.intent = p.intent
  /\ gate.kind \in {"in-flight", "settling"} => PermitOf(gate.intent) \in permits

GateInv ==
  /\ GateTypeOK
  /\ OneLiveCall
  /\ CallsHaveGrounds
  /\ AckedIsLanded
  /\ PermitsAccounted
  /\ UnsentVerdictSound
  /\ SettledWasSent
  /\ OneOpenTurn

USE GateAssumption DEF Epochs, LineKinds, CloseReasons, Calls, Permits, GateStates,
  GateState, Idle, Closed, Owned, Call, NextLine, Live, PermitOf, Permitted

-------------------------------------------------------------------------------
(* Type correctness *)

LEMMA GateTypeInit == GateInit => GateTypeOK
<1> SUFFICES ASSUME GateInit PROVE GateTypeOK
  OBVIOUS
<1>1. gate \in GateStates /\ (gate.intent = NoIntent) = (gate.kind \in {"idle", "closed"})
  BY DEF GateInit
<1>2. portFailed \in BOOLEAN
  BY DEF GateInit
<1>3. opEpoch \in Epochs /\ pending \subseteq Calls /\ used \subseteq Intents /\ permits \subseteq Permits
  BY DEF GateInit
<1>4. landed \in [Intents -> SUBSET LineKinds] /\ acked \in [Intents -> SUBSET LineKinds]
  BY DEF GateInit
<1>5. QED
  BY <1>1, <1>2, <1>3, <1>4 DEF GateTypeOK

\* The variables of the gate keep their types, so every state the code's union
\* type does not allow (say, an in-flight gate without an intent) is excluded.
LEMMA GateTypeStep == ASSUME GateTypeOK, [GateNext]_gateVars PROVE GateTypeOK'
<1> USE DEF GateTypeOK
<1>1. ASSUME NEW i \in Intents, Submit(i) PROVE GateTypeOK'
  BY <1>1 DEF Submit
<1>2. ASSUME NEW c \in pending, AppendOk(c) PROVE GateTypeOK'
  <2>1. CASE c.line = "enqueue" /\ ResumeEnqueue(c)
    BY <1>2, <2>1 DEF AppendOk, ResumeEnqueue
  <2>2. CASE c.line = "sending" /\ ResumeSending(c)
    <3>1. (gate \in GateStates /\ (gate.intent = NoIntent) = (gate.kind \in {"idle", "closed"}))'
      <4>1. gate' \in GateStates
        <5>1. Owned("in-flight", c.intent) \in GateStates
          OBVIOUS
        <5>2. gate' = gate \/ gate' = Owned("in-flight", c.intent)
          BY <2>2 DEF ResumeSending
        <5>3. QED BY <5>1, <5>2
      <4>2. ((gate.intent = NoIntent) = (gate.kind \in {"idle", "closed"}))'
        BY <2>2 DEF ResumeSending
      <4>3. QED BY <4>1, <4>2
    <3>2. permits' \subseteq Permits
      BY <2>2 DEF ResumeSending
    <3>3. pending' \subseteq Calls /\ UNCHANGED << opEpoch, used, portFailed >>
      BY <1>2, <2>2 DEF AppendOk, ResumeSending
    <3>4. (landed \in [Intents -> SUBSET LineKinds] /\ acked \in [Intents -> SUBSET LineKinds])'
      BY <1>2 DEF AppendOk
    <3>5. QED BY <3>1, <3>2, <3>3, <3>4
  <2>3. CASE c.line = "settled" /\ ResumeSettled(c)
    BY <1>2, <2>3 DEF AppendOk, ResumeSettled, OwnsSettling
  <2>4. QED BY <1>2, <2>1, <2>2, <2>3 DEF AppendOk
<1>3. ASSUME NEW c \in pending, NEW lands \in BOOLEAN, AppendFail(c, lands) PROVE GateTypeOK'
  BY <1>3 DEF AppendFail, AfterFailure
<1>4. CASE OnAccepted BY <1>4 DEF OnAccepted
<1>5. CASE OnTurnSettled BY <1>5 DEF OnTurnSettled
<1>6. CASE CheckTimeout BY <1>6 DEF CheckTimeout
<1>7. ASSUME NEW why \in CloseReasons, Close(why) PROVE GateTypeOK'
  BY <1>7 DEF Close
<1>8. CASE Reopen BY <1>8 DEF Reopen
<1>9. CASE Repair BY <1>9 DEF Repair
<1>10. CASE UNCHANGED gateVars BY <1>10 DEF gateVars
<1>11. QED
  BY <1>1, <1>2, <1>3, <1>4, <1>5, <1>6, <1>7, <1>8, <1>9, <1>10 DEF GateNext

\* GateTypeOK is an invariant of the gate.
THEOREM GateTypeCorrect == GateSpec => []GateTypeOK
<1>1. GateTypeOK /\ [GateNext]_gateVars => GateTypeOK' BY GateTypeStep
<1>2. QED BY GateTypeInit, <1>1, PTL DEF GateSpec

-------------------------------------------------------------------------------
(* The inductive invariant *)

GateHistory == UnsentVerdictSound /\ SettledWasSent /\ OneOpenTurn

LEMMA GateInvInit == GateInit => GateInv
<1> SUFFICES ASSUME GateInit PROVE GateInv
  OBVIOUS
<1>1. GateTypeOK BY GateTypeInit
<1>2. OneLiveCall /\ CallsHaveGrounds /\ AckedIsLanded /\ PermitsAccounted
  BY DEF GateInit, OneLiveCall, CallsHaveGrounds, AckedIsLanded, PermitsAccounted
<1>3. GateHistory
  BY DEF GateInit, GateHistory, UnsentVerdictSound, SettledWasSent, OneOpenTurn
<1>4. QED BY <1>1, <1>2, <1>3 DEF GateInv, GateHistory

\* A suspended call leaves, its line acknowledged, and the gate resumes.
LEMMA AppendOkKeeps ==
  ASSUME GateInv, NEW c \in pending, AppendOk(c)
  PROVE  (OneLiveCall /\ CallsHaveGrounds /\ AckedIsLanded /\ PermitsAccounted /\ GateHistory)'
<1> USE DEF GateInv, GateTypeOK
<1>1. acked' = [acked EXCEPT ![c.intent] = @ \cup {c.line}] /\ AckedIsLanded'
  BY DEF AppendOk, AckedIsLanded
<1>2. \A i \in Intents : acked[i] \subseteq acked'[i] /\ landed[i] \subseteq landed'[i]
  BY DEF AppendOk
<1>3. c.line \in acked'[c.intent]
  BY <1>1
<1>4. CASE c.line = "enqueue" /\ ResumeEnqueue(c)
  <2>1. UNCHANGED << gate, permits, opEpoch >> /\ pending' \subseteq pending \cup {NextLine(c)}
    BY <1>4 DEF ResumeEnqueue, AppendOk
  <2>2. OneLiveCall'
    <3>1. CASE Live(c) /\ gate.kind = "dispatching"
      <4>1. /\ pending' = (pending \ {c}) \cup {NextLine(c)}
            /\ NextLine(c).line = "sending" /\ NextLine(c).intent = c.intent
            /\ NextLine(c).epoch = c.epoch
        BY <1>4, <3>1 DEF ResumeEnqueue
      <4>2. QED BY <2>1, <3>1, <4>1 DEF OneLiveCall
    <3>2. CASE ~(Live(c) /\ gate.kind = "dispatching")
      <4>1. pending' = pending \ {c}
        BY <1>4, <3>2 DEF ResumeEnqueue
      <4>2. QED BY <1>4, <2>1, <3>2, <4>1 DEF OneLiveCall
    <3>3. QED BY <3>1, <3>2
  <2>3. CallsHaveGrounds'
    BY <1>1, <1>2, <1>3, <1>4, <2>1 DEF CallsHaveGrounds
  <2>4. PermitsAccounted'
    BY <1>2, <2>1 DEF PermitsAccounted
  <2>5. GateHistory'
    BY <1>2, <1>4, <2>1 DEF GateHistory, UnsentVerdictSound, SettledWasSent, OneOpenTurn, AppendOk
  <2>6. QED BY <1>1, <2>2, <2>3, <2>4, <2>5
<1>5. CASE c.line = "sending" /\ ResumeSending(c)
  <2>1. opEpoch' = opEpoch /\ pending' = pending \ {c}
    BY <1>5 DEF ResumeSending, AppendOk
  <2>2. permits \subseteq permits'
    BY <1>5 DEF ResumeSending
  <2>3. CallsHaveGrounds'
    BY <1>2, <2>1, <2>2 DEF CallsHaveGrounds
  <2>4. CASE Live(c) /\ gate.kind = "dispatching"
    <3>1. gate' = Owned("in-flight", c.intent) /\ permits' = permits \cup {PermitOf(c.intent)}
      BY <1>5, <2>4 DEF ResumeSending
    <3>2. OneLiveCall'
      BY <2>1, <2>4, <3>1 DEF OneLiveCall
    <3>3. PermitsAccounted'
      BY <1>2, <2>1, <2>4, <3>1 DEF PermitsAccounted
    <3>4. UnsentVerdictSound'
      BY <1>1, <1>2, <1>3, <1>5, <3>1 DEF UnsentVerdictSound, CallsHaveGrounds, AckedIsLanded
    <3>5. SettledWasSent'
      BY <1>5, <2>2 DEF SettledWasSent, AppendOk
    <3>6. OneOpenTurn'
      BY <1>2, <2>4, <3>1 DEF OneOpenTurn, PermitsAccounted
    <3>7. QED BY <1>1, <2>3, <3>2, <3>3, <3>4, <3>5, <3>6 DEF GateHistory
  <2>5. CASE ~(Live(c) /\ gate.kind = "dispatching")
    <3>1. UNCHANGED << gate, permits >>
      BY <1>5, <2>5 DEF ResumeSending
    <3>2. OneLiveCall'
      BY <1>5, <2>1, <2>5, <3>1 DEF OneLiveCall
    <3>3. PermitsAccounted'
      BY <1>2, <2>1, <3>1 DEF PermitsAccounted
    <3>4. GateHistory'
      BY <1>2, <1>5, <3>1 DEF GateHistory, UnsentVerdictSound, SettledWasSent, OneOpenTurn, AppendOk
    <3>5. QED BY <1>1, <2>3, <3>2, <3>3, <3>4
  <2>6. QED BY <2>4, <2>5
<1>6. CASE c.line = "settled" /\ ResumeSettled(c)
  <2>1. UNCHANGED << opEpoch, permits >> /\ pending' = pending \ {c}
    BY <1>6 DEF ResumeSettled, AppendOk
  <2>2. gate' = IF OwnsSettling(c) THEN Idle ELSE gate
    BY <1>6 DEF ResumeSettled
  <2>3. OneLiveCall'
    BY <1>6, <2>1, <2>2 DEF OneLiveCall, OwnsSettling
  <2>4. CallsHaveGrounds'
    BY <1>2, <2>1 DEF CallsHaveGrounds
  <2>5. PermitsAccounted'
    BY <1>2, <1>3, <1>6, <2>1, <2>2 DEF PermitsAccounted, OwnsSettling
  <2>6. GateHistory'
    BY <1>2, <1>6, <2>1 DEF GateHistory, UnsentVerdictSound, SettledWasSent, OneOpenTurn,
                            AppendOk, CallsHaveGrounds
  <2>7. QED BY <1>1, <2>3, <2>4, <2>5, <2>6
<1>7. QED BY <1>4, <1>5, <1>6 DEF AppendOk

\* A suspended call leaves with its append rejected: the gate closes if the call
\* still owned it.
LEMMA AppendFailKeeps ==
  ASSUME GateInv, NEW c \in pending, NEW lands \in BOOLEAN, AppendFail(c, lands)
  PROVE  (OneLiveCall /\ CallsHaveGrounds /\ AckedIsLanded /\ PermitsAccounted /\ GateHistory)'
<1> USE DEF GateInv, GateTypeOK
<1>1. UNCHANGED << opEpoch, acked, permits >> /\ pending' = pending \ {c}
  BY DEF AppendFail
<1>2. gate' = IF Live(c) THEN Closed("durability-failure") ELSE gate
  BY DEF AppendFail, AfterFailure
<1>3. \A i \in Intents : landed[i] \subseteq landed'[i]
  BY DEF AppendFail
<1>4. \A i \in Intents : "settled" \in landed'[i] =>
        "settled" \in landed[i] \/ (c.intent = i /\ c.line = "settled")
  BY DEF AppendFail
<1>5. OneLiveCall'
  BY <1>1, <1>2 DEF OneLiveCall
<1>6. CallsHaveGrounds' /\ AckedIsLanded'
  BY <1>1, <1>3 DEF CallsHaveGrounds, AckedIsLanded
<1>7. PermitsAccounted'
  BY <1>1, <1>2 DEF PermitsAccounted
<1>8. UnsentVerdictSound' /\ OneOpenTurn'
  BY <1>1, <1>3 DEF UnsentVerdictSound, OneOpenTurn
<1>9. SettledWasSent'
  BY <1>1, <1>4 DEF SettledWasSent, CallsHaveGrounds
<1>10. QED BY <1>5, <1>6, <1>7, <1>8, <1>9 DEF GateHistory

\* Every step of the gate preserves the inductive invariant.
LEMMA GateInvStep == ASSUME GateInv, [GateNext]_gateVars PROVE GateInv'
<1> DEFINE Rest == OneLiveCall /\ CallsHaveGrounds /\ AckedIsLanded /\ PermitsAccounted /\ GateHistory
<1>1. GateTypeOK' BY GateTypeStep DEF GateInv
<1> SUFFICES Rest'
  BY <1>1 DEF GateInv, GateHistory
<1>2. ASSUME NEW c \in pending, AppendOk(c) PROVE Rest'
  BY <1>2, AppendOkKeeps
<1>3. ASSUME NEW c \in pending, NEW lands \in BOOLEAN, AppendFail(c, lands) PROVE Rest'
  BY <1>3, AppendFailKeeps
<1> USE DEF GateInv, GateTypeOK
<1>h. ASSUME UNCHANGED << landed, acked, permits >> PROVE AckedIsLanded' /\ GateHistory'
  BY <1>h DEF AckedIsLanded, GateHistory, UnsentVerdictSound, SettledWasSent, OneOpenTurn
<1>4. ASSUME NEW i \in Intents, Submit(i) PROVE Rest'
  <2>1. OneLiveCall'
    <3>1. pending' = pending \cup {Call("enqueue", i)} /\ opEpoch' = opEpoch
      BY <1>4 DEF Submit
    <3>2. gate = Idle /\ gate' = Owned("dispatching", i)
      BY <1>4 DEF Submit
    <3>3. \A c \in pending : c.epoch < opEpoch
      BY <3>2 DEF OneLiveCall
    <3>4. \A c \in pending' :
            \/ c.epoch < opEpoch
            \/ c.epoch = opEpoch /\ c.intent = i /\ c.line = "enqueue"
      BY <3>1, <3>3
    <3>5. gate'.kind = "dispatching" /\ gate'.intent = i
      BY <3>2
    <3>6. (\A c \in pending :
            /\ c.epoch <= opEpoch
            /\ c.epoch = opEpoch =>
                 /\ gate.intent = c.intent
                 /\ gate.kind = IF c.line = "settled" THEN "settling" ELSE "dispatching")'
      BY <3>1, <3>4, <3>5
    <3>7. (\A c, d \in pending : c.epoch = opEpoch /\ d.epoch = opEpoch => c = d)'
      BY <3>1, <3>3
    <3>8. Call("enqueue", i) \in pending' /\ Call("enqueue", i).epoch = opEpoch'
      BY <3>1
    <3>9. QED BY <3>6, <3>7, <3>8 DEF OneLiveCall
  <2>2. CallsHaveGrounds' BY <1>4 DEF Submit, CallsHaveGrounds
  <2>3. PermitsAccounted' BY <1>4 DEF Submit, PermitsAccounted
  <2>4. QED BY <1>4, <1>h, <2>1, <2>2, <2>3 DEF Submit
<1>5. CASE OnAccepted
  <2>1. OneLiveCall' BY <1>5 DEF OnAccepted, OneLiveCall
  <2>2. CallsHaveGrounds' BY <1>5 DEF OnAccepted, CallsHaveGrounds
  <2>3. PermitsAccounted' BY <1>5 DEF OnAccepted, PermitsAccounted
  <2>4. QED BY <1>5, <1>h, <2>1, <2>2, <2>3 DEF OnAccepted
<1>6. CASE OnTurnSettled
  <2>1. OneLiveCall'
    <3>1. pending' = pending \cup {Call("settled", gate.intent)} /\ opEpoch' = opEpoch
      BY <1>6 DEF OnTurnSettled
    <3>2. gate.kind = "in-flight" /\ gate' = Owned("settling", gate.intent)
      BY <1>6 DEF OnTurnSettled
    <3>3. \A c \in pending : c.epoch < opEpoch
      BY <3>2 DEF OneLiveCall
    <3>4. \A c \in pending' :
            \/ c.epoch < opEpoch
            \/ c.epoch = opEpoch /\ c.intent = gate.intent /\ c.line = "settled"
      BY <3>1, <3>3
    <3>5. gate'.kind = "settling" /\ gate'.intent = gate.intent
      BY <3>2
    <3>6. (\A c \in pending :
            /\ c.epoch <= opEpoch
            /\ c.epoch = opEpoch =>
                 /\ gate.intent = c.intent
                 /\ gate.kind = IF c.line = "settled" THEN "settling" ELSE "dispatching")'
      BY <3>1, <3>4, <3>5
    <3>7. (\A c, d \in pending : c.epoch = opEpoch /\ d.epoch = opEpoch => c = d)'
      BY <3>1, <3>3
    <3>8. Call("settled", gate.intent) \in pending' /\ Call("settled", gate.intent).epoch = opEpoch'
      BY <3>1
    <3>9. QED BY <3>6, <3>7, <3>8 DEF OneLiveCall
  <2>2. CallsHaveGrounds' BY <1>6 DEF OnTurnSettled, CallsHaveGrounds, PermitsAccounted
  <2>3. PermitsAccounted' BY <1>6 DEF OnTurnSettled, PermitsAccounted
  <2>4. QED BY <1>6, <1>h, <2>1, <2>2, <2>3 DEF OnTurnSettled
<1>7. CASE CheckTimeout
  <2>1. OneLiveCall' BY <1>7 DEF CheckTimeout, OneLiveCall
  <2>2. CallsHaveGrounds' BY <1>7 DEF CheckTimeout, CallsHaveGrounds
  <2>3. PermitsAccounted' BY <1>7 DEF CheckTimeout, PermitsAccounted
  <2>4. QED BY <1>7, <1>h, <2>1, <2>2, <2>3 DEF CheckTimeout
<1>8. ASSUME NEW why \in CloseReasons, Close(why) PROVE Rest'
  <2>1. OneLiveCall' BY <1>8 DEF Close, OneLiveCall
  <2>2. CallsHaveGrounds' BY <1>8 DEF Close, CallsHaveGrounds
  <2>3. PermitsAccounted' BY <1>8 DEF Close, PermitsAccounted
  <2>4. QED BY <1>8, <1>h, <2>1, <2>2, <2>3 DEF Close
<1>9. CASE Reopen
  <2>1. OneLiveCall' BY <1>9 DEF Reopen, OneLiveCall
  <2>2. CallsHaveGrounds' BY <1>9 DEF Reopen, CallsHaveGrounds
  <2>3. PermitsAccounted' BY <1>9 DEF Reopen, PermitsAccounted
  <2>4. QED BY <1>9, <1>h, <2>1, <2>2, <2>3 DEF Reopen
<1>10. CASE Repair \/ UNCHANGED gateVars
  <2>1. UNCHANGED << gate, opEpoch, pending, landed, acked, permits >>
    BY <1>10 DEF Repair, gateVars
  <2>2. OneLiveCall' BY <2>1 DEF OneLiveCall
  <2>3. CallsHaveGrounds' BY <2>1 DEF CallsHaveGrounds
  <2>4. PermitsAccounted' BY <2>1 DEF PermitsAccounted
  <2>5. QED BY <1>h, <2>1, <2>2, <2>3, <2>4
<1>11. QED
  BY <1>2, <1>3, <1>4, <1>5, <1>6, <1>7, <1>8, <1>9, <1>10 DEF GateNext

LEMMA GateInvariant == GateSpec => []GateInv
<1>1. GateInv /\ [GateNext]_gateVars => GateInv' BY GateInvStep
<1>2. QED BY GateInvInit, <1>1, PTL DEF GateSpec

-------------------------------------------------------------------------------
(* The theorems *)

\* The barrier always waits for exactly the call that will move it on.
THEOREM BarrierNeverWedged == GateSpec => []WaitsForOneCall
<1>1. ASSUME GateInv PROVE WaitsForOneCall
  BY <1>1 DEF GateInv, GateTypeOK, OneLiveCall, WaitsForOneCall, LiveCalls
<1>2. QED BY <1>1, GateInvariant, PTL

\* A permit always rests on both durable lines.
THEOREM PermitIsDurable == GateSpec => []UnsentVerdictSound
<1>1. GateInv => UnsentVerdictSound BY DEF GateInv
<1>2. QED BY <1>1, GateInvariant, PTL

\* A settled line in the file always belongs to a turn that was sent.
THEOREM SettledLineIsReal == GateSpec => []SettledWasSent
<1>1. GateInv => SettledWasSent BY DEF GateInv
<1>2. QED BY <1>1, GateInvariant, PTL

\* Two turns are never open between two closes or reopens.
THEOREM NeverTwoOpenTurns == GateSpec => []OneOpenTurn
<1>1. GateInv => OneOpenTurn BY DEF GateInv
<1>2. QED BY <1>1, GateInvariant, PTL

\* No continuation but its own releases an open turn.
THEOREM TurnReleaseIsEarned == GateSpec => ReleaseIsEarned
<1> DEFINE Earned ==
      \A i \in Intents :
        gate.kind \in {"in-flight", "settling"} /\ gate.intent = i =>
          \/ gate'.intent = i /\ gate'.kind \in {"in-flight", "settling"}
          \/ gate'.kind = "closed"
          \/ gate'.kind = "idle" /\ "settled" \in acked'[i]
<1>1. ASSUME GateInv, [GateNext]_gateVars PROVE [Earned]_gateVars
  <2> SUFFICES ASSUME NEW i \in Intents, GateNext,
                      gate.kind \in {"in-flight", "settling"}, gate.intent = i
               PROVE  \/ gate'.intent = i /\ gate'.kind \in {"in-flight", "settling"}
                      \/ gate'.kind = "closed"
                      \/ gate'.kind = "idle" /\ "settled" \in acked'[i]
    BY <1>1
  <2> USE <1>1 DEF GateInv, GateTypeOK
  <2>1. ASSUME NEW c \in pending, AppendOk(c)
        PROVE  gate' = gate \/ (gate'.kind = "idle" /\ "settled" \in acked'[i])
    <3>1. CASE ResumeEnqueue(c) BY <3>1 DEF ResumeEnqueue
    <3>2. CASE ResumeSending(c) BY <3>2 DEF ResumeSending
    <3>3. CASE c.line = "settled" /\ ResumeSettled(c)
      BY <2>1, <3>3 DEF ResumeSettled, OwnsSettling, AppendOk
    <3>4. QED BY <2>1, <3>1, <3>2, <3>3 DEF AppendOk
  <2>2. ASSUME NEW c \in pending, NEW lands \in BOOLEAN, AppendFail(c, lands)
        PROVE  gate' = gate \/ gate'.kind = "closed"
    BY <2>2 DEF AppendFail, AfterFailure
  <2>3. ASSUME OnAccepted \/ OnTurnSettled
        PROVE  gate'.intent = i /\ gate'.kind \in {"in-flight", "settling"}
    BY <2>3 DEF OnAccepted, OnTurnSettled
  <2>4. ASSUME CheckTimeout \/ \E why \in CloseReasons : Close(why) PROVE gate'.kind = "closed"
    BY <2>4 DEF CheckTimeout, Close
  <2>5. ASSUME NEW j \in Intents, Submit(j) PROVE FALSE BY <2>5 DEF Submit
  <2>6. ASSUME Reopen PROVE FALSE BY <2>6 DEF Reopen
  <2>7. ASSUME Repair PROVE gate' = gate BY <2>7 DEF Repair
  <2>8. QED BY <2>1, <2>2, <2>3, <2>4, <2>5, <2>6, <2>7 DEF GateNext
<1>2. QED BY <1>1, GateInvariant, PTL DEF GateSpec, ReleaseIsEarned

-------------------------------------------------------------------------------
(* The coordinator *)

Registrations == [key : Keys, phase : Phases, bufSettled : BOOLEAN, buf : Seq(Nat)]

CoTypes ==
  /\ command \in Registrations \cup {NoCommand}
  /\ coEpoch \in Nat
  /\ slot \in Keys \cup {NoKey}
  /\ launching \subseteq [key : Keys, verdict : {"waiting", "send"}]
  /\ settles \subseteq [key : Keys, epoch : Nat, result : Results \cup {"waiting"}]
  /\ records \subseteq [key : Keys, epoch : Nat]
  /\ released \subseteq Keys
  /\ arrived \in Nat
  /\ held \subseteq Nat \X Keys
  /\ drained \in Seq(Nat)

\* An intent is launched once, and not registered or released while it is; the
\* registered one is not released.
KeysAreOnce ==
  /\ \A l \in launching :
       /\ l.key.intent \in used
       /\ l.key.intent # command.key.intent
       /\ \A k \in released : k.intent # l.key.intent
       /\ \A h \in held : h[2].intent # l.key.intent
  /\ \A l, m \in launching : l.key.intent = m.key.intent => l = m
  /\ Registered => command.key.intent \in used
  /\ command.key \notin released
  /\ \A k \in released : k.intent \in used
  /\ \A h \in held : h[2].intent \in used

\* The gate is not busy with another turn than the one registered.
TurnsAgree ==
  Registered => /\ gate.kind # "dispatching"
                /\ gate.kind \in {"in-flight", "settling"} => gate.intent = command.key.intent

SettlesAreReal == \A s \in settles : s.result = "settled" => "settled" \in acked[s.key.intent]

\* Events come out in the order they came in: first those handed over, then those
\* buffered, then those to come.
Increasing(s) == \A m, n \in 1 .. Len(s) : m < n => s[m] < s[n]
InOrder ==
  /\ Increasing(drained) /\ Increasing(command.buf)
  /\ \A m \in 1 .. Len(drained), n \in 1 .. Len(command.buf) : drained[m] < command.buf[n]
  /\ \A n \in 1 .. Len(drained) : drained[n] <= arrived
  /\ \A n \in 1 .. Len(command.buf) : command.buf[n] <= arrived

\* A buffered event of the registered turn is in the buffer or handed over, one of
\* a released turn is handed over.
Handed(e) == \E n \in 1 .. Len(drained) : drained[n] = e
Kept(e) == \E n \in 1 .. Len(command.buf) : command.buf[n] = e
HeldAccounted ==
  \A h \in held :
    /\ h[2] \in released => Handed(h[1])
    /\ h[2] = command.key => Handed(h[1]) \/ Kept(h[1])

\* The response empties the buffer, unless a settled line has to be written first.
OpensEmpty == command.phase = "run-open" /\ ~command.bufSettled => command.buf = << >>

CoInv ==
  /\ GateInv
  /\ CoTypes
  /\ SlotOwned
  /\ KeysAreOnce
  /\ TurnsAgree
  /\ SettlesAreReal
  /\ InOrder
  /\ HeldAccounted
  /\ OpensEmpty

USE GateAssumption, GenerationAssumption, CoordinatorAssumption
  DEF Epochs, LineKinds, CloseReasons, Calls, Permits, GateStates, GateState, Idle, Closed, Owned,
      Call, NextLine, Live, PermitOf, Permitted, Keys, NoKey, NoCommand, Phases, Results, Gens,
      Registrations, Registered, Buffered

-------------------------------------------------------------------------------
(* The gate below *)

\* What the coordinator's own records do to the gate: nothing but what
\* onTurnSettled() or close() would have done.
LEMMA RecordKeepsGate ==
  ASSUME GateInv, UNCHANGED << used, permits >>, NEW i \in Intents,
         landed' \in {landed, [landed EXCEPT ![i] = @ \cup {"response-timeout"}]},
         acked' \in {acked, [acked EXCEPT ![i] = @ \cup {"response-timeout"}]},
         acked' # acked => landed' = [landed EXCEPT ![i] = @ \cup {"response-timeout"}],
         portFailed' \in BOOLEAN,
         \/ UNCHANGED << gate, opEpoch, pending >>
         \/ /\ gate.kind = "in-flight" /\ gate' = Owned("settling", gate.intent)
            /\ pending' = pending \cup {Call("settled", gate.intent)} /\ opEpoch' = opEpoch
         \/ /\ opEpoch < MaxEpoch /\ opEpoch' = opEpoch + 1
            /\ gate' = Closed("durability-failure") /\ pending' = pending
  PROVE  GateInv'
<1> USE DEF GateInv, GateTypeOK
<1>1. GateTypeOK'
  <2>1. landed' \in [Intents -> SUBSET LineKinds] /\ acked' \in [Intents -> SUBSET LineKinds]
    OBVIOUS
  <2>2. gate' \in GateStates /\ (gate'.intent = NoIntent) = (gate'.kind \in {"idle", "closed"})
    <3>1. CASE UNCHANGED gate BY <3>1
    <3>2. CASE gate.kind = "in-flight" /\ gate' = Owned("settling", gate.intent) BY <3>2
    <3>3. CASE gate' = Closed("durability-failure") BY <3>3
    <3>4. QED BY <3>1, <3>2, <3>3
  <2>3. opEpoch' \in Epochs /\ pending' \subseteq Calls
    OBVIOUS
  <2>4. QED BY <2>1, <2>2, <2>3
<1>2. \A j \in Intents :
        /\ acked[j] \subseteq acked'[j] /\ landed[j] \subseteq landed'[j]
        /\ "settled" \in landed'[j] => "settled" \in landed[j]
  OBVIOUS
<1>3. AckedIsLanded'
  <2> SUFFICES ASSUME NEW j \in Intents PROVE acked'[j] \subseteq landed'[j]
    BY DEF AckedIsLanded
  <2>1. CASE acked' = acked
    BY <1>2, <2>1 DEF AckedIsLanded
  <2>2. CASE acked' # acked
    BY <2>2 DEF AckedIsLanded
  <2>3. QED BY <2>1, <2>2
<1>4. UnsentVerdictSound' /\ OneOpenTurn' /\ SettledWasSent'
  BY <1>2 DEF UnsentVerdictSound, OneOpenTurn, SettledWasSent
<1>5. CASE UNCHANGED << gate, opEpoch, pending >>
  <2>1. OneLiveCall' BY <1>5 DEF OneLiveCall
  <2>2. CallsHaveGrounds' BY <1>2, <1>5 DEF CallsHaveGrounds
  <2>3. PermitsAccounted' BY <1>2, <1>5 DEF PermitsAccounted
  <2>4. QED BY <1>1, <1>3, <1>4, <2>1, <2>2, <2>3
<1>6. CASE /\ gate.kind = "in-flight" /\ gate' = Owned("settling", gate.intent)
           /\ pending' = pending \cup {Call("settled", gate.intent)} /\ opEpoch' = opEpoch
  <2>1. \A c \in pending : c.epoch < opEpoch
    BY <1>6 DEF OneLiveCall
  <2>2. OneLiveCall'
    <3>1. \A c \in pending' :
            \/ c.epoch < opEpoch
            \/ c.epoch = opEpoch /\ c.intent = gate.intent /\ c.line = "settled"
      BY <1>6, <2>1
    <3>2. gate'.kind = "settling" /\ gate'.intent = gate.intent
      BY <1>6
    <3>3. (\A c \in pending :
            /\ c.epoch <= opEpoch
            /\ c.epoch = opEpoch =>
                 /\ gate.intent = c.intent
                 /\ gate.kind = IF c.line = "settled" THEN "settling" ELSE "dispatching")'
      BY <1>6, <3>1, <3>2
    <3>4. (\A c, d \in pending : c.epoch = opEpoch /\ d.epoch = opEpoch => c = d)'
      BY <1>6, <2>1
    <3>5. Call("settled", gate.intent) \in pending' /\ Call("settled", gate.intent).epoch = opEpoch'
      BY <1>6
    <3>6. QED BY <3>3, <3>4, <3>5 DEF OneLiveCall
  <2>3. CallsHaveGrounds'
    BY <1>2, <1>6 DEF CallsHaveGrounds, PermitsAccounted
  <2>4. PermitsAccounted' BY <1>2, <1>6 DEF PermitsAccounted
  <2>5. QED BY <1>1, <1>3, <1>4, <2>2, <2>3, <2>4
<1>7. CASE /\ opEpoch < MaxEpoch /\ opEpoch' = opEpoch + 1
           /\ gate' = Closed("durability-failure") /\ pending' = pending
  <2>1. OneLiveCall' BY <1>7 DEF OneLiveCall
  <2>2. CallsHaveGrounds' BY <1>2, <1>7 DEF CallsHaveGrounds
  <2>3. PermitsAccounted' BY <1>2, <1>7 DEF PermitsAccounted
  <2>4. QED BY <1>1, <1>3, <1>4, <2>1, <2>2, <2>3
<1>8. QED BY <1>5, <1>6, <1>7

\* Every other step of the coordinator is a step of the gate, or none.
LEMMA CoStepsGate ==
  ASSUME CoNext, ~(\E r \in records : RecordOk(r)),
         ~(\E r \in records, lands \in BOOLEAN : RecordFail(r, lands))
  PROVE  [GateNext]_gateVars
<1>1. ASSUME NEW i \in Intents, NEW g \in Gens, SubmitTurn(i, g) PROVE GateNext
  BY <1>1 DEF SubmitTurn, GateNext
<1>2. ASSUME NEW c \in pending, GateAppendOk(c) PROVE GateNext
  BY <1>2 DEF GateAppendOk, GateNext
<1>3. ASSUME NEW c \in pending, NEW lands \in BOOLEAN, GateAppendFail(c, lands) PROVE GateNext
  BY <1>3 DEF GateAppendFail, GateNext
<1>4. ASSUME NEW k \in Keys, OnRpcResponse(k) PROVE [GateNext]_gateVars
  BY <1>4 DEF OnRpcResponse, BeginSettle, GateAccepted, GateNext
<1>5. ASSUME NEW g \in Gens, OnSettledEvent(g) PROVE [GateNext]_gateVars
  BY <1>5 DEF OnSettledEvent, BeginSettle, GateNext
<1>6. ASSUME NEW g \in Gens, OnPiEvent(g) PROVE [GateNext]_gateVars
  BY <1>6 DEF OnPiEvent, GateNext
<1>7. ASSUME NEW why \in {"generation-retired", "manual"}, HostClose(why) PROVE GateNext
  BY <1>7 DEF HostClose, GateNext
<1>8. ASSUME CheckTurnTimeout \/ HostReopen \/ HostRepair PROVE GateNext
  BY <1>8 DEF CheckTurnTimeout, HostReopen, HostRepair, GateNext
<1>9. ASSUME NEW l \in launching, LaunchResume(l) PROVE UNCHANGED gateVars
  BY <1>9 DEF LaunchResume
<1>10. ASSUME NEW x \in settles, SettleResume(x) PROVE UNCHANGED gateVars
  BY <1>10 DEF SettleResume
<1>11. ASSUME RecordTimeout \/ AbandonHeld \/ \E g \in Gens : OnGenerationRetired(g)
       PROVE  UNCHANGED gateVars
  BY <1>11 DEF RecordTimeout, AbandonHeld, OnGenerationRetired
<1>12. QED
  BY <1>1, <1>2, <1>3, <1>4, <1>5, <1>6, <1>7, <1>8, <1>9, <1>10, <1>11 DEF CoNext

LEMMA GateKept == ASSUME GateInv, CoTypes, [CoNext]_dispatchVars PROVE GateInv'
<1>1. ASSUME NEW r \in records, RecordOk(r) PROVE GateInv'
  <2>1. r.key.intent \in Intents
    BY DEF CoTypes
  <2>2. \/ UNCHANGED << gate, opEpoch, pending >>
        \/ /\ gate.kind = "in-flight" /\ gate' = Owned("settling", gate.intent)
           /\ pending' = pending \cup {Call("settled", gate.intent)} /\ opEpoch' = opEpoch
    BY <1>1 DEF RecordOk
  <2>3. portFailed' \in BOOLEAN
    BY <1>1 DEF RecordOk, GateInv, GateTypeOK
  <2>4. QED BY <1>1, <2>1, <2>2, <2>3, RecordKeepsGate DEF RecordOk
<1>2. ASSUME NEW r \in records, NEW lands \in BOOLEAN, RecordFail(r, lands) PROVE GateInv'
  <2>1. r.key.intent \in Intents
    BY DEF CoTypes
  <2>2. QED BY <1>2, <2>1, RecordKeepsGate DEF RecordFail
<1>3. CASE UNCHANGED dispatchVars
  BY <1>3, GateInvStep DEF dispatchVars
<1>4. QED BY <1>1, <1>2, <1>3, CoStepsGate, GateInvStep

\* No step but submit() engages an idle or closed gate, and none hands an engaged
\* gate to another intent.
GateStays ==
  /\ gate'.kind = "dispatching" => gate.kind = "dispatching"
  /\ gate'.kind \in {"in-flight", "settling"} =>
       gate.kind \in {"dispatching", "in-flight", "settling"} /\ gate'.intent = gate.intent

LEMMA GateStaysOk == ASSUME GateInv, NEW c \in pending, AppendOk(c) PROVE GateStays
<1> USE DEF GateInv, GateTypeOK
<1>1. CASE ResumeEnqueue(c) BY <1>1 DEF ResumeEnqueue, GateStays
<1>2. CASE c.line = "sending" /\ ResumeSending(c)
  <2>1. CASE Live(c) /\ gate.kind = "dispatching"
    BY <1>2, <2>1 DEF ResumeSending, GateStays, OneLiveCall
  <2>2. CASE ~(Live(c) /\ gate.kind = "dispatching")
    BY <1>2, <2>2 DEF ResumeSending, GateStays
  <2>3. QED BY <2>1, <2>2
<1>3. CASE ResumeSettled(c) BY <1>3 DEF ResumeSettled, GateStays
<1>4. QED BY <1>1, <1>2, <1>3 DEF AppendOk

-------------------------------------------------------------------------------
(* Types *)

LEMMA CoTypesInit == CoInit => CoTypes
<1> SUFFICES ASSUME CoInit PROVE CoTypes
  OBVIOUS
<1>1. << >> \in Seq(Nat) BY EmptySeq
<1>2. QED BY <1>1 DEF CoInit, CoTypes

LEMMA RegisteredHasKey == ASSUME CoTypes PROVE Registered <=> command.key \in Keys
BY DEF CoTypes

\* A registration with other flags, or with its buffer handed over or longer.
LEMMA RegistrationTypes ==
  ASSUME CoTypes, Registered
  PROVE  /\ command \in Registrations
         /\ Opened(command) \in Registrations
         /\ \A p \in Phases : [command EXCEPT !.phase = p] \in Registrations
         /\ [command EXCEPT !.bufSettled = TRUE] \in Registrations
         /\ \A e \in Nat : [command EXCEPT !.buf = Append(@, e)] \in Registrations
<1>1. command \in Registrations BY DEF CoTypes
<1>2. << >> \in Seq(Nat) BY EmptySeq
<1>3. \A e \in Nat : Append(command.buf, e) \in Seq(Nat)
  BY <1>1, AppendProperties
<1>4. Opened(command) \in Registrations
  BY <1>1, <1>2 DEF Opened
<1>5. QED BY <1>1, <1>3, <1>4

LEMMA BeginSettleTypes ==
  ASSUME CoTypes, NEW k \in Keys, BeginSettle(k)
  PROVE  settles' \subseteq [key : Keys, epoch : Nat, result : Results \cup {"waiting"}]
BY DEF CoTypes, BeginSettle

LEMMA AnsweredTypes ==
  ASSUME CoTypes, NEW c, NEW r \in Results
  PROVE  Answered(c, r) \subseteq [key : Keys, epoch : Nat, result : Results \cup {"waiting"}]
<1> SUFFICES ASSUME NEW x \in settles
             PROVE  (IF x.result = "waiting" /\ x.key.intent = c.intent
                     THEN [x EXCEPT !.result = r] ELSE x)
                      \in [key : Keys, epoch : Nat, result : Results \cup {"waiting"}]
  BY DEF Answered
<1>1. x \in [key : Keys, epoch : Nat, result : Results \cup {"waiting"}]
  BY DEF CoTypes
<1>2. QED BY <1>1

LEMMA CoTypesStep == ASSUME CoTypes, [CoNext]_dispatchVars PROVE CoTypes'
<1> USE DEF CoTypes
<1>0. drained \o command.buf \in Seq(Nat)
  <2>1. command.buf \in Seq(Nat)
    <3>1. CASE command = NoCommand BY <3>1, EmptySeq
    <3>2. CASE command # NoCommand BY <3>2
    <3>3. QED BY <3>1, <3>2
  <2>2. QED BY <2>1, ConcatProperties
<1>1. ASSUME NEW i \in Intents, NEW g \in Gens, SubmitTurn(i, g) PROVE CoTypes'
  BY <1>1 DEF SubmitTurn
<1>2. ASSUME NEW c \in pending, GateAppendOk(c) PROVE CoTypes'
  <2>1. launching' \subseteq [key : Keys, verdict : {"waiting", "send"}]
    BY <1>2 DEF GateAppendOk, Granted, Refused
  <2>2. settles' \subseteq [key : Keys, epoch : Nat, result : Results \cup {"waiting"}]
    BY <1>2, AnsweredTypes DEF GateAppendOk
  <2>3. QED BY <1>2, <2>1, <2>2 DEF GateAppendOk
<1>3. ASSUME NEW c \in pending, NEW lands \in BOOLEAN, GateAppendFail(c, lands) PROVE CoTypes'
  <2>1. settles' \subseteq [key : Keys, epoch : Nat, result : Results \cup {"waiting"}]
    BY <1>3, AnsweredTypes DEF GateAppendFail
  <2>2. QED BY <1>3, <2>1 DEF GateAppendFail, Refused
<1>4. ASSUME NEW l \in launching, LaunchResume(l) PROVE CoTypes'
  <2>1. Registration(l.key) \in Registrations
    BY EmptySeq DEF Registration
  <2>2. QED BY <1>4, <2>1 DEF LaunchResume
<1>5. ASSUME NEW k \in Keys, OnRpcResponse(k) PROVE CoTypes'
  <2>0. Registered
    BY <1>5 DEF OnRpcResponse
  <2>1. command' \in Registrations
    <3>1. /\ Opened(command) \in Registrations
          /\ [command EXCEPT !.phase = "run-open"] \in Registrations
      BY <2>0, RegistrationTypes
    <3>2. QED BY <1>5, <3>1 DEF OnRpcResponse
  <2>2. settles' \subseteq [key : Keys, epoch : Nat, result : Results \cup {"waiting"}]
    BY <1>5, BeginSettleTypes DEF OnRpcResponse
  <2>3. drained' \in Seq(Nat)
    BY <1>0, <1>5 DEF OnRpcResponse
  <2>4. QED BY <1>5, <2>1, <2>2, <2>3 DEF OnRpcResponse
<1>6. ASSUME NEW g \in Gens, OnSettledEvent(g) PROVE CoTypes'
  <2>1. Registered /\ command.key \in Keys
    BY <1>6 DEF OnSettledEvent
  <2>2. command' \in Registrations
    BY <1>6, <2>1, RegistrationTypes DEF OnSettledEvent
  <2>3. settles' \subseteq [key : Keys, epoch : Nat, result : Results \cup {"waiting"}]
    BY <1>6, <2>1, BeginSettleTypes DEF OnSettledEvent
  <2>4. QED BY <1>6, <2>2, <2>3 DEF OnSettledEvent
<1>7. ASSUME NEW x \in settles, SettleResume(x) PROVE CoTypes'
  <2>1. drained' \in Seq(Nat)
    BY <1>0, <1>7 DEF SettleResume, BufferAtSettle
  <2>2. released' \subseteq Keys /\ slot' \in Keys \cup {NoKey}
    BY <1>7 DEF SettleResume, SlotWithout
  <2>3. QED BY <1>7, <2>1, <2>2 DEF SettleResume
<1>8. ASSUME NEW g \in Gens, OnPiEvent(g) PROVE CoTypes'
  <2>1. arrived' \in Nat
    BY <1>8 DEF OnPiEvent
  <2>2. CASE command' = command /\ held' = held
    BY <1>8, <2>1, <2>2 DEF OnPiEvent
  <2>3. CASE ~(command' = command /\ held' = held)
    <3>1. command.key.gen = g
      BY <1>8, <2>3 DEF OnPiEvent
    <3>2. Registered /\ command.key \in Keys
      BY <3>1
    <3>3. command' \in Registrations
      BY <1>8, <2>1, <2>3, <3>2, RegistrationTypes DEF OnPiEvent
    <3>4. held' \subseteq Nat \X Keys
      BY <1>8, <2>1, <2>3, <3>2 DEF OnPiEvent
    <3>5. QED BY <1>8, <2>1, <3>3, <3>4 DEF OnPiEvent
  <2>4. QED BY <2>2, <2>3
<1>9. CASE RecordTimeout
  <2>1. command.key \in Keys
    BY <1>9 DEF RecordTimeout
  <2>2. QED BY <1>9, <2>1 DEF RecordTimeout
<1>10. ASSUME NEW r \in records, RecordOk(r) PROVE CoTypes'
  <2>1. command' \in Registrations \cup {NoCommand}
    <3>1. CASE command' = command BY <3>1
    <3>2. CASE command' # command
      <4>1. Registered /\ command' = [command EXCEPT !.phase = "response-timed-out"]
        BY <1>10, <3>2 DEF RecordOk
      <4>2. QED BY <4>1, RegistrationTypes
    <3>3. QED BY <3>1, <3>2
  <2>2. settles' \subseteq [key : Keys, epoch : Nat, result : Results \cup {"waiting"}]
    BY <1>10 DEF RecordOk
  <2>3. QED BY <1>10, <2>1, <2>2 DEF RecordOk, SlotWithout
<1>11. ASSUME NEW r \in records, NEW lands \in BOOLEAN, RecordFail(r, lands) PROVE CoTypes'
  BY <1>11 DEF RecordFail, SlotWithout
<1>12. ASSUME UNCHANGED coVars PROVE CoTypes'
  BY <1>12 DEF coVars
<1>13. ASSUME DropCommand, UNCHANGED << launching, settles, records, released, arrived, held, drained >>
       PROVE  CoTypes'
  BY <1>13 DEF DropCommand, SlotWithout
<1>14. QED
  BY <1>1, <1>2, <1>3, <1>4, <1>5, <1>6, <1>7, <1>8, <1>9, <1>10, <1>11, <1>12, <1>13
  DEF CoNext, dispatchVars, CheckTurnTimeout, HostClose, HostReopen, HostRepair,
      OnGenerationRetired, AbandonHeld

-------------------------------------------------------------------------------
(* Keys, the slot and the two turns *)

Turns == SlotOwned /\ KeysAreOnce /\ TurnsAgree /\ SettlesAreReal

\* The settles that are not of before have not succeeded, or really have.
RealSettles ==
  /\ \A i \in Intents : acked[i] \subseteq acked'[i]
  /\ \A x \in settles' :
       x \in settles \/ x.result # "settled" \/ "settled" \in acked'[x.key.intent]

LEMMA RealSettlesKept == ASSUME CoTypes, SettlesAreReal, RealSettles PROVE SettlesAreReal'
BY DEF CoTypes, SettlesAreReal, RealSettles

\* A step that registers, drops and releases nothing.
LEMMA SameKeyKeeps ==
  ASSUME CoTypes, CoTypes', Turns, RealSettles, GateStays,
         command'.key = command.key, used' = used, released' = released,
         slot' \in {slot, NoKey, command.key},
         \A h \in held' : h \in held \/ (Registered /\ h[2] = command.key),
         \A l \in launching' : \E m \in launching : m.key = l.key,
         \A l, m \in launching' : l.key.intent = m.key.intent => l = m
  PROVE  Turns'
<1> USE DEF Turns
<1>1. Registered' <=> Registered
  BY DEF CoTypes
<1>2. SlotOwned'
  BY DEF SlotOwned
<1>3. TurnsAgree'
  BY <1>1 DEF TurnsAgree, GateStays
<1>4. ASSUME NEW l \in launching'
      PROVE  /\ l.key.intent \in used'
             /\ l.key.intent # command'.key.intent
             /\ \A k \in released' : k.intent # l.key.intent
             /\ \A h \in held' : h[2].intent # l.key.intent
  BY DEF KeysAreOnce
<1>5. KeysAreOnce'
  BY <1>1, <1>4 DEF KeysAreOnce
<1>6. QED BY <1>2, <1>3, <1>5, RealSettlesKept

\* A step that drops the registration, and may release its key.
LEMMA DropKeeps ==
  ASSUME CoTypes, CoTypes', Turns, Registered, command' = NoCommand,
         slot' = SlotWithout(command.key), released' \subseteq released \cup {command.key},
         settles' \subseteq settles, UNCHANGED << gateVars, launching, held >>
  PROVE  Turns'
<1> USE DEF Turns, gateVars
<1>1. SlotOwned'
  BY DEF SlotOwned, SlotWithout
<1>2. KeysAreOnce'
  <2>1. /\ \A l \in launching : command.key.intent # l.key.intent
        /\ command.key.intent \in used
    BY DEF KeysAreOnce
  <2>2. NoKey \notin released' /\ \A l \in launching : l.key.intent # NoIntent
    BY DEF CoTypes
  <2>3. QED BY <2>1, <2>2 DEF KeysAreOnce
<1>3. TurnsAgree' /\ SettlesAreReal'
  BY DEF TurnsAgree, SettlesAreReal
<1>4. QED BY <1>1, <1>2, <1>3

LEMMA SubmitKeeps ==
  ASSUME GateInv, CoTypes, Turns, NEW i \in Intents, NEW g \in Gens, SubmitTurn(i, g)
  PROVE  Turns'
<1> USE DEF Turns
<1>1. /\ command = NoCommand /\ i \notin used /\ used' = used \cup {i}
      /\ launching' = launching \cup {[key |-> [intent |-> i, gen |-> g], verdict |-> "waiting"]}
      /\ UNCHANGED << command, slot, settles, released, held, acked >>
  BY DEF SubmitTurn, Submit
<1>2. SlotOwned' /\ TurnsAgree' /\ SettlesAreReal'
  BY <1>1 DEF SlotOwned, TurnsAgree, SettlesAreReal
<1>3. KeysAreOnce'
  <2> DEFINE new == [key |-> [intent |-> i, gen |-> g], verdict |-> "waiting"]
  <2>1. \A l \in launching : l.key.intent # i
    BY <1>1 DEF KeysAreOnce
  <2>2. /\ \A k \in released : k.intent # i
        /\ \A h \in held : h[2].intent # i
    BY <1>1 DEF KeysAreOnce
  <2>3. new.key.intent = i /\ i # NoIntent
    OBVIOUS
  <2> HIDE DEF new
  <2>4. \A l \in launching' : l \in launching \/ l = new
    BY <1>1 DEF new
  <2>5. \A l, m \in launching' : l.key.intent = m.key.intent => l = m
    BY <2>1, <2>3, <2>4 DEF KeysAreOnce
  <2>6. QED BY <1>1, <2>2, <2>3, <2>4, <2>5 DEF KeysAreOnce
<1>4. QED BY <1>2, <1>3

\* With a fresh permit nothing is registered, so the registration replaces none.
LEMMA LaunchKeeps ==
  ASSUME GateInv, CoTypes, CoTypes', Turns, NEW l \in launching, LaunchResume(l)
  PROVE  Turns'
<1> USE DEF Turns, gateVars
<1>1. launching' = launching \ {l} /\ UNCHANGED << gateVars, slot, settles, released, held >>
  BY DEF LaunchResume
<1>2. CASE ~PermitFresh(l.key)
  BY <1>1, <1>2 DEF LaunchResume, SlotOwned, TurnsAgree, SettlesAreReal, KeysAreOnce
<1>3. CASE PermitFresh(l.key)
  <2>1. command' = Registration(l.key) /\ command'.key = l.key
    BY <1>3 DEF LaunchResume, Registration
  <2>2. ~Registered
    BY <1>3 DEF PermitFresh, TurnsAgree, KeysAreOnce
  <2>3. SlotOwned'
    BY <1>1, <2>2 DEF SlotOwned
  <2>4. TurnsAgree'
    BY <1>1, <1>3, <2>1 DEF TurnsAgree, PermitFresh
  <2>5. KeysAreOnce'
    BY <1>1, <2>1 DEF KeysAreOnce
  <2>6. QED BY <1>1, <2>3, <2>4, <2>5 DEF SettlesAreReal
<1>4. QED BY <1>2, <1>3

LEMMA BeginSettleIsReal ==
  ASSUME CoTypes, NEW k \in Keys, BeginSettle(k)
  PROVE  RealSettles /\ GateStays /\ used' = used
BY DEF BeginSettle, OnTurnSettled, RealSettles, GateStays, gateVars

LEMMA GrantedIs ==
  ASSUME CoTypes, NEW c, NEW l \in Granted(c)
  PROVE  \E m \in launching :
           /\ m.key = l.key
           /\ l = IF m.key.intent = c.intent THEN [key |-> m.key, verdict |-> "send"] ELSE m
<1>1. PICK m \in launching :
        l = IF m.key.intent = c.intent THEN [m EXCEPT !.verdict = "send"] ELSE m
  BY DEF Granted
<1>2. m \in [key : Keys, verdict : {"waiting", "send"}]
  BY DEF CoTypes
<1>3. QED BY <1>1, <1>2

LEMMA TurnsStep == ASSUME GateInv, CoTypes, CoTypes', Turns, [CoNext]_dispatchVars PROVE Turns'
<1>0. /\ \A l, m \in launching : l.key.intent = m.key.intent => l = m
      /\ slot # NoKey => slot = command.key
      /\ gate \in GateStates
      /\ acked \in [Intents -> SUBSET LineKinds]
  BY DEF Turns, KeysAreOnce, SlotOwned, GateInv, GateTypeOK
<1>1. ASSUME NEW i \in Intents, NEW g \in Gens, SubmitTurn(i, g) PROVE Turns'
  BY <1>1, SubmitKeeps
<1>2. ASSUME NEW c \in pending, GateAppendOk(c) PROVE Turns'
  <2>1. GateStays /\ used' = used
    BY <1>2, GateStaysOk DEF GateAppendOk, AppendOk
  <2>2. RealSettles
    <3>1. acked' = [acked EXCEPT ![c.intent] = @ \cup {c.line}] /\ c.intent \in Intents
      BY <1>2 DEF GateAppendOk, AppendOk, GateInv, GateTypeOK
    <3>2. \A i \in Intents : acked[i] \subseteq acked'[i]
      BY <1>0, <3>1
    <3>3. ASSUME NEW x \in settles'
          PROVE  x \in settles \/ x.result # "settled" \/ "settled" \in acked'[x.key.intent]
      <4>1. CASE c.line # "settled"
        BY <1>2, <3>3, <4>1 DEF GateAppendOk
      <4>2. CASE c.line = "settled"
        <5>1. PICK y \in settles :
                x = y \/ (y.key.intent = c.intent /\ x = [y EXCEPT !.result =
                          IF OwnsSettling(c) THEN "settled" ELSE "invalidated"])
          BY <1>2, <3>3, <4>2 DEF GateAppendOk, Answered
        <5>2. y \in [key : Keys, epoch : Nat, result : Results \cup {"waiting"}]
          BY DEF CoTypes
        <5>3. x \in settles \/ x.key.intent = c.intent
          BY <5>1, <5>2
        <5>4. "settled" \in acked'[c.intent]
          BY <1>0, <3>1, <4>2
        <5>5. QED BY <5>3, <5>4
      <4>3. QED BY <4>1, <4>2
    <3>4. QED BY <3>2, <3>3 DEF RealSettles
  <2>2a. launching' \subseteq launching \/ launching' = Granted(c)
    BY <1>2 DEF GateAppendOk, Refused
  <2>3. \A l \in launching' : \E m \in launching : m.key = l.key
    BY <2>2a, GrantedIs
  <2>4. \A l, m \in launching' : l.key.intent = m.key.intent => l = m
    <3>1. CASE launching' \subseteq launching
      BY <1>0, <3>1
    <3>2. CASE launching' = Granted(c)
      BY <1>0, <3>2, GrantedIs
    <3>3. QED BY <2>2a, <3>1, <3>2
  <2>5. UNCHANGED << command, slot, released, held >>
    BY <1>2 DEF GateAppendOk
  <2>6. QED BY <2>1, <2>2, <2>3, <2>4, <2>5, SameKeyKeeps
<1>3. ASSUME NEW c \in pending, NEW lands \in BOOLEAN, GateAppendFail(c, lands) PROVE Turns'
  <2>1. GateStays /\ used' = used /\ acked' = acked
    BY <1>3 DEF GateAppendFail, AppendFail, AfterFailure, GateStays
  <2>2. RealSettles
    <3>1. ASSUME NEW x \in settles' PROVE x \in settles \/ x.result # "settled"
      <4>1. CASE x \notin settles
        <5>1. PICK y \in settles : x = [y EXCEPT !.result =
                  IF Live(c) THEN "durability-failure" ELSE "invalidated"]
          BY <1>3, <3>1, <4>1 DEF GateAppendFail, Answered
        <5>2. y \in [key : Keys, epoch : Nat, result : Results \cup {"waiting"}]
          BY DEF CoTypes
        <5>3. QED BY <5>1, <5>2
      <4>2. QED BY <4>1
    <3>2. QED BY <2>1, <3>1 DEF RealSettles
  <2>3. launching' \subseteq launching /\ UNCHANGED << command, slot, released, held >>
    BY <1>3 DEF GateAppendFail, Refused
  <2>4. QED BY <1>0, <2>1, <2>2, <2>3, SameKeyKeeps
<1>4. ASSUME NEW l \in launching, LaunchResume(l) PROVE Turns'
  BY <1>4, LaunchKeeps
<1>5. ASSUME NEW k \in Keys, OnRpcResponse(k) PROVE Turns'
  <2>1. RealSettles /\ GateStays /\ used' = used
    <3>1. CASE command.bufSettled
      BY <1>5, <3>1, BeginSettleIsReal DEF OnRpcResponse
    <3>2. CASE ~command.bufSettled
      BY <1>5, <3>2 DEF OnRpcResponse, GateAccepted, OnAccepted, RealSettles, GateStays, gateVars,
                        GateInv, GateTypeOK
    <3>3. QED BY <3>1, <3>2
  <2>2. command'.key = command.key
    BY <1>5, RegisteredHasKey DEF OnRpcResponse, Opened, CoTypes
  <2>3. QED BY <1>0, <1>5, <2>1, <2>2, SameKeyKeeps DEF OnRpcResponse
<1>6. ASSUME NEW g \in Gens, OnSettledEvent(g) PROVE Turns'
  <2>1. command.key \in Keys
    BY <1>6 DEF OnSettledEvent, CoTypes
  <2>2. RealSettles /\ GateStays /\ used' = used
    <3>1. CASE command.phase = "awaiting-response"
      BY <1>6, <3>1 DEF OnSettledEvent, RealSettles, GateStays, gateVars
    <3>2. CASE command.phase # "awaiting-response"
      BY <1>6, <2>1, <3>2, BeginSettleIsReal DEF OnSettledEvent
    <3>3. QED BY <3>1, <3>2
  <2>3. command'.key = command.key
    BY <1>6 DEF OnSettledEvent, CoTypes
  <2>4. QED BY <1>0, <1>6, <2>2, <2>3, SameKeyKeeps DEF OnSettledEvent
<1>7. ASSUME NEW x \in settles, SettleResume(x) PROVE Turns'
  <2>1. CASE SettleProves(x)
    <3>1. Registered /\ x.key = command.key
      BY <2>1 DEF SettleProves, CoTypes
    <3>2. QED BY <1>7, <2>1, <3>1, DropKeeps DEF SettleResume
  <2>2. CASE ~SettleProves(x)
    <3>1. UNCHANGED << gateVars, command, slot, released, launching, held >>
          /\ settles' \subseteq settles
      BY <1>7, <2>2 DEF SettleResume
    <3>2. RealSettles /\ GateStays
      BY <3>1 DEF RealSettles, GateStays, gateVars
    <3>3. QED BY <1>0, <3>1, <3>2, SameKeyKeeps DEF gateVars
  <2>3. QED BY <2>1, <2>2
<1>8. ASSUME NEW g \in Gens, OnPiEvent(g) PROVE Turns'
  <2>1. UNCHANGED << slot, launching, settles, released >>
    BY <1>8 DEF OnPiEvent
  <2>2. RealSettles /\ GateStays /\ used' = used
    BY <1>8, <2>1 DEF OnPiEvent, Close, RealSettles, GateStays, gateVars
  <2>3. command'.key = command.key /\ \A h \in held' : h \in held \/ (Registered /\ h[2] = command.key)
    <3>1. CASE command' = command /\ held' = held BY <3>1
    <3>2. CASE ~(command' = command /\ held' = held)
      <4>1. /\ command' = Buffered(command, arrived')
            /\ held' = held \cup {<< arrived', command.key >>}
            /\ command.key.gen = g
        BY <1>8, <3>2 DEF OnPiEvent
      <4>2. Registered
        BY <4>1
      <4>3. command'.key = command.key
        BY <4>1, <4>2 DEF CoTypes
      <4>4. QED BY <4>1, <4>2, <4>3
    <3>3. QED BY <3>1, <3>2
  <2>4. QED BY <1>0, <2>1, <2>2, <2>3, SameKeyKeeps
<1>9. CASE RecordTimeout
  <2>1. RealSettles /\ GateStays /\ used' = used
    BY <1>9 DEF RecordTimeout, RealSettles, GateStays, gateVars
  <2>2. QED BY <1>0, <1>9, <2>1, SameKeyKeeps DEF RecordTimeout
<1>10. ASSUME NEW r \in records, RecordOk(r) PROVE Turns'
  <2>1. RealSettles /\ GateStays /\ used' = used
    <3>1. r.key.intent \in Intents
      BY DEF CoTypes
    <3>2. \A i \in Intents : acked[i] \subseteq acked'[i]
      BY <1>0, <1>10, <3>1 DEF RecordOk
    <3>3. \A x \in settles' : x \in settles \/ x.result # "settled"
      BY <1>10 DEF RecordOk
    <3>4. GateStays /\ used' = used
      BY <1>10 DEF RecordOk, GateStays
    <3>5. QED BY <3>2, <3>3, <3>4 DEF RealSettles
  <2>2. command'.key = command.key
    BY <1>10 DEF RecordOk, CoTypes
  <2>3. UNCHANGED << launching, released, held >> /\ slot' \in {slot, NoKey}
    BY <1>10 DEF RecordOk, SlotWithout
  <2>4. QED BY <1>0, <2>1, <2>2, <2>3, SameKeyKeeps
<1>11. ASSUME NEW r \in records, NEW lands \in BOOLEAN, RecordFail(r, lands) PROVE Turns'
  <2>1. RealSettles /\ GateStays /\ used' = used
    BY <1>11 DEF RecordFail, RealSettles, GateStays
  <2>2. UNCHANGED << command, launching, released, held >> /\ slot' \in {slot, NoKey}
    BY <1>11 DEF RecordFail, SlotWithout
  <2>3. QED BY <1>0, <2>1, <2>2, SameKeyKeeps
<1>12. ASSUME UNCHANGED coVars, CheckTimeout \/ Reopen \/ Repair \/ UNCHANGED gateVars
                               \/ \E why \in CloseReasons : Close(why)
       PROVE  Turns'
  <2>1. RealSettles /\ GateStays /\ used' = used
    BY <1>12 DEF CheckTimeout, Close, Reopen, Repair, RealSettles, GateStays, gateVars, coVars
  <2>2. QED BY <1>0, <1>12, <2>1, SameKeyKeeps DEF coVars
<1>13. ASSUME NEW g \in Gens, OnGenerationRetired(g) PROVE Turns'
  <2>1. Registered
    BY <1>13 DEF OnGenerationRetired
  <2>2. QED BY <1>13, <2>1, DropKeeps DEF OnGenerationRetired, DropCommand
<1>14. CASE AbandonHeld
  BY <1>14, DropKeeps DEF AbandonHeld, DropCommand
<1>15. QED
  BY <1>1, <1>2, <1>3, <1>4, <1>5, <1>6, <1>7, <1>8, <1>9, <1>10, <1>11, <1>12, <1>13, <1>14
  DEF CoNext, dispatchVars, CheckTurnTimeout, HostClose, HostReopen, HostRepair

-------------------------------------------------------------------------------
(* The buffer *)

Buffers == InOrder /\ HeldAccounted

LEMMA BufferTypes ==
  ASSUME CoTypes
  PROVE  /\ command.buf \in Seq(Nat) /\ drained \in Seq(Nat) /\ arrived \in Nat
         /\ Len(command.buf) \in Nat /\ Len(drained) \in Nat
         /\ \A n \in 1 .. Len(command.buf) : command.buf[n] \in Nat
         /\ \A n \in 1 .. Len(drained) : drained[n] \in Nat
         /\ command = NoCommand => command.buf = << >>
<1>1. CASE command = NoCommand
  BY <1>1, EmptySeq, LenProperties, ElementOfSeq DEF CoTypes
<1>2. CASE command # NoCommand
  BY <1>2, LenProperties, ElementOfSeq DEF CoTypes
<1>3. QED BY <1>1, <1>2

\* The buffer is handed over: nothing is lost and the order is kept.
LEMMA DrainKeeps ==
  ASSUME CoTypes, InOrder, drained' = drained \o command.buf, command'.buf = << >>,
         arrived' = arrived
  PROVE  InOrder' /\ \A e : Handed(e) \/ Kept(e) => Handed(e)'
<1> DEFINE d == Len(drained)
           b == Len(command.buf)
<1>0. /\ command.buf \in Seq(Nat) /\ drained \in Seq(Nat) /\ arrived \in Nat
      /\ d \in Nat /\ b \in Nat
  BY BufferTypes
<1>1. /\ Len(drained') = d + b
      /\ \A n \in 1 .. d + b :
           drained'[n] = IF n <= d THEN drained[n] ELSE command.buf[n - d]
  BY <1>0, ConcatProperties
<1>2. /\ \A m, n \in 1 .. d : m < n => drained[m] < drained[n]
      /\ \A m, n \in 1 .. b : m < n => command.buf[m] < command.buf[n]
      /\ \A m \in 1 .. d, n \in 1 .. b : drained[m] < command.buf[n]
      /\ \A n \in 1 .. d : drained[n] <= arrived
      /\ \A n \in 1 .. b : command.buf[n] <= arrived
  BY DEF InOrder, Increasing
<1>3. Len(command'.buf) = 0
  BY EmptySeq
<1> HIDE DEF d, b
<1>4. ASSUME NEW n \in 1 .. d PROVE n \in 1 .. d + b /\ drained'[n] = drained[n]
  <2>1. n \in 1 .. d + b /\ n <= d
    BY <1>0
  <2>2. QED BY <1>1, <2>1
<1>5. ASSUME NEW n \in 1 .. b
      PROVE  d + n \in 1 .. d + b /\ drained'[d + n] = command.buf[n]
  <2>1. PICK i \in 1 .. d + b : i = d + n
    BY <1>0
  <2>2. ~(i <= d) /\ i - d = n
    BY <1>0, <2>1
  <2>3. drained'[i] = command.buf[i - d]
    BY <1>1, <2>2
  <2>4. QED BY <2>1, <2>2, <2>3
<1>6. ASSUME NEW n \in 1 .. d + b, n \notin 1 .. d PROVE \E k \in 1 .. b : n = d + k
  <2>1. n - d \in 1 .. b /\ n = d + (n - d)
    BY <1>0, <1>6
  <2>2. QED BY <2>1
<1>7. ASSUME NEW m \in 1 .. d + b, NEW n \in 1 .. d + b, m < n PROVE drained'[m] < drained'[n]
  <2>1. CASE n \in 1 .. d
    <3>1. m \in 1 .. d
      BY <1>0, <1>7, <2>1
    <3>2. drained'[m] = drained[m] /\ drained'[n] = drained[n]
      BY <1>4, <2>1, <3>1
    <3>3. QED BY <1>2, <1>7, <2>1, <3>1, <3>2
  <2>2. CASE n \notin 1 .. d /\ m \in 1 .. d
    <3>1. PICK k \in 1 .. b : n = d + k
      BY <1>6, <2>2
    <3>2. drained'[m] = drained[m] /\ drained'[d + k] = command.buf[k]
      BY <1>4, <1>5, <2>2
    <3>3. QED BY <1>2, <2>2, <3>1, <3>2
  <2>3. CASE n \notin 1 .. d /\ m \notin 1 .. d
    <3>1. PICK k \in 1 .. b : n = d + k
      BY <1>6, <2>3
    <3>2. PICK j \in 1 .. b : m = d + j
      BY <1>6, <2>3
    <3>0. j < k
      BY <1>0, <1>7, <3>1, <3>2
    <3>3. drained'[d + j] = command.buf[j] /\ drained'[d + k] = command.buf[k]
      BY <1>5
    <3>4. command.buf[j] < command.buf[k]
      BY <1>2, <3>0
    <3>5. QED BY <3>1, <3>2, <3>3, <3>4
  <2>4. CASE n \in 1 .. d /\ m \notin 1 .. d
    BY <1>0, <1>7, <2>4
  <2>5. QED BY <2>1, <2>2, <2>3, <2>4
<1>8. ASSUME NEW n \in 1 .. d + b PROVE drained'[n] <= arrived
  <2>1. CASE n \in 1 .. d
    BY <1>2, <1>4, <2>1
  <2>2. CASE n \notin 1 .. d
    <3>1. PICK k \in 1 .. b : n = d + k
      BY <1>6, <2>2
    <3>2. drained'[d + k] = command.buf[k]
      BY <1>5
    <3>3. QED BY <1>2, <3>1, <3>2
  <2>3. QED BY <2>1, <2>2
<1>9. InOrder'
  <2>1. Increasing(drained')
    BY <1>1, <1>7 DEF Increasing
  <2>2. 1 .. Len(command'.buf) = {}
    BY <1>3
  <2>3. QED BY <1>1, <1>8, <2>1, <2>2 DEF InOrder, Increasing
<1>10. ASSUME NEW e, Handed(e) \/ Kept(e) PROVE Handed(e)'
  <2>1. CASE Handed(e)
    <3>1. PICK n \in 1 .. d : drained[n] = e
      BY <2>1 DEF Handed, d
    <3>2. n \in 1 .. d + b /\ drained'[n] = e
      BY <1>4, <3>1
    <3>3. QED BY <1>1, <3>2 DEF Handed
  <2>2. CASE Kept(e)
    <3>1. PICK n \in 1 .. b : command.buf[n] = e
      BY <2>2 DEF Kept, b
    <3>2. d + n \in 1 .. d + b /\ drained'[d + n] = e
      BY <1>5, <3>1
    <3>3. QED BY <1>1, <3>2 DEF Handed
  <2>3. QED BY <1>10, <2>1, <2>2
<1>11. QED BY <1>9, <1>10

\* An event is buffered behind those that came before it.
LEMMA KeepKeeps ==
  ASSUME CoTypes, InOrder, drained' = drained, arrived' = arrived + 1,
         command'.buf = Append(command.buf, arrived')
  PROVE  /\ InOrder'
         /\ \A e : e = arrived + 1 => Kept(e)'
         /\ \A e : Handed(e) \/ Kept(e) => (Handed(e) \/ Kept(e))'
<1> DEFINE b == Len(command.buf)
<1>0. /\ command.buf \in Seq(Nat) /\ drained \in Seq(Nat) /\ arrived \in Nat /\ arrived' \in Nat
      /\ b \in Nat /\ Len(drained) \in Nat
      /\ \A n \in 1 .. b : command.buf[n] \in Nat
      /\ \A n \in 1 .. Len(drained) : drained[n] \in Nat
  BY BufferTypes
<1>1. /\ Len(command'.buf) = b + 1
      /\ \A n \in 1 .. b : command'.buf[n] = command.buf[n]
      /\ command'.buf[b + 1] = arrived + 1
  BY <1>0, AppendProperties
<1>2. /\ \A m, n \in 1 .. b : m < n => command.buf[m] < command.buf[n]
      /\ \A m \in 1 .. Len(drained), n \in 1 .. b : drained[m] < command.buf[n]
      /\ \A n \in 1 .. Len(drained) : drained[n] <= arrived
      /\ \A n \in 1 .. b : command.buf[n] <= arrived
      /\ Increasing(drained)
  BY DEF InOrder, Increasing
<1> HIDE DEF b
<1>3. \A n \in 1 .. b + 1 : n \in 1 .. b \/ n = b + 1
  BY <1>0
<1>4. \A m, n \in 1 .. b + 1 : m < n => command'.buf[m] < command'.buf[n]
  BY <1>0, <1>1, <1>2, <1>3
<1>5. ASSUME NEW m \in 1 .. Len(drained), NEW n \in 1 .. b + 1 PROVE drained[m] < command'.buf[n]
  <2>1. CASE n \in 1 .. b
    BY <2>1, <1>1, <1>2
  <2>2. CASE n = b + 1
    <3>1. drained[m] \in Nat /\ drained[m] <= arrived
      BY <1>0, <1>2
    <3> QED BY <3>1, <2>2, <1>0, <1>1
  <2> QED BY <2>1, <2>2, <1>3
<1>6. /\ \A n \in 1 .. Len(drained) : drained[n] <= arrived'
      /\ \A n \in 1 .. b + 1 : command'.buf[n] <= arrived'
  BY <1>0, <1>1, <1>2, <1>3
<1>7. InOrder'
  BY <1>1, <1>2, <1>4, <1>5, <1>6 DEF InOrder, Increasing
<1>8. b + 1 \in 1 .. b + 1 /\ \A n \in 1 .. b : n \in 1 .. b + 1
  BY <1>0
<1>9. \A e : Kept(e) => Kept(e)'
  BY <1>1, <1>8 DEF Kept, b
<1>10. \A e : e = arrived + 1 => Kept(e)'
  BY <1>1, <1>8 DEF Kept
<1>11. QED BY <1>7, <1>9, <1>10 DEF Handed

LEMMA BuffersStep ==
  ASSUME CoTypes, CoTypes', Turns, Buffers, [CoNext]_dispatchVars
  PROVE  Buffers'
<1> USE DEF Buffers
<1>f. ASSUME UNCHANGED << drained, held, arrived, released >>, command'.buf = command.buf,
             command'.key = command.key
      PROVE  Buffers'
  BY <1>f DEF InOrder, HeldAccounted, Handed, Kept
<1>d. ASSUME UNCHANGED << drained, held, arrived, released >>, command' = NoCommand
      PROVE  Buffers'
  <2>1. \A h \in held : h[2] # NoKey
    BY DEF CoTypes
  <2>2. Len(command'.buf) = 0
    BY <1>d, EmptySeq
  <2>3. QED BY <1>d, <2>1, <2>2 DEF InOrder, HeldAccounted, Handed, Kept, Increasing
<1>1. ASSUME NEW l \in launching, LaunchResume(l) PROVE Buffers'
  <2>1. CASE ~PermitFresh(l.key)
    BY <1>1, <1>f, <2>1 DEF LaunchResume
  <2>2. CASE PermitFresh(l.key)
    <3>1. /\ UNCHANGED << drained, held, arrived, released >>
          /\ command'.key = l.key /\ command'.buf = << >>
      BY <1>1, <2>2 DEF LaunchResume, Registration
    <3>2. \A h \in held : h[2] # l.key
      BY DEF Turns, KeysAreOnce
    <3>3. Len(command'.buf) = 0
      BY <3>1, EmptySeq
    <3>4. QED BY <3>1, <3>2, <3>3 DEF InOrder, HeldAccounted, Handed, Kept, Increasing
  <2>3. QED BY <2>1, <2>2
<1>2. ASSUME NEW k \in Keys, OnRpcResponse(k) PROVE Buffers'
  <2>0. command \in Registrations
    BY <1>2 DEF OnRpcResponse, CoTypes
  <2>1. CASE command.bufSettled
    BY <1>2, <1>f, <2>0, <2>1 DEF OnRpcResponse
  <2>2. CASE ~command.bufSettled
    <3>1. /\ drained' = drained \o command.buf /\ UNCHANGED << held, arrived, released >>
          /\ command'.buf = << >> /\ command'.key = command.key
      BY <1>2, <2>0, <2>2 DEF OnRpcResponse, Opened
    <3>2. InOrder' /\ \A e : Handed(e) \/ Kept(e) => Handed(e)'
      BY <3>1, DrainKeeps
    <3>3. HeldAccounted'
      BY <3>1, <3>2 DEF HeldAccounted
    <3>4. QED BY <3>2, <3>3
  <2>3. QED BY <2>1, <2>2
<1>3. ASSUME NEW x \in settles, SettleResume(x) PROVE Buffers'
  <2>1. CASE ~SettleProves(x)
    BY <1>3, <1>f, <2>1 DEF SettleResume
  <2>2. CASE SettleProves(x)
    <3>1. /\ command' = NoCommand /\ command'.buf = << >>
          /\ drained' = drained \o command.buf /\ UNCHANGED << held, arrived >>
          /\ released' = released \cup {command.key}
      BY <1>3, <2>2 DEF SettleResume, BufferAtSettle, SettleProves
    <3>2. InOrder' /\ \A e : Handed(e) \/ Kept(e) => Handed(e)'
      BY <3>1, DrainKeeps
    <3>3. \A h \in held : h[2] # NoKey
      BY DEF CoTypes
    <3>4. HeldAccounted'
      BY <3>1, <3>2, <3>3 DEF HeldAccounted
    <3>5. QED BY <3>2, <3>4
  <2>3. QED BY <2>1, <2>2
<1>4. ASSUME NEW g \in Gens, OnPiEvent(g) PROVE Buffers'
  <2>0. UNCHANGED << drained, released >> /\ arrived' = arrived + 1
    BY <1>4 DEF OnPiEvent
  <2>1. CASE command' = command /\ held' = held
    <3>1. InOrder'
      BY <2>0, <2>1, BufferTypes DEF InOrder
    <3>2. QED BY <2>0, <2>1, <3>1 DEF HeldAccounted, Handed, Kept
  <2>2. CASE ~(command' = command /\ held' = held)
    <3>1. /\ command' = Buffered(command, arrived')
          /\ held' = held \cup {<< arrived', command.key >>}
          /\ command.key.gen = g
      BY <1>4, <2>2 DEF OnPiEvent
    <3>2. command \in Registrations
      BY <3>1 DEF CoTypes
    <3>3. command'.key = command.key /\ command'.buf = Append(command.buf, arrived')
      BY <3>1, <3>2
    <3>4. /\ InOrder' /\ \A e : e = arrived + 1 => Kept(e)'
          /\ \A e : Handed(e) \/ Kept(e) => (Handed(e) \/ Kept(e))'
      BY <2>0, <3>3, KeepKeeps
    <3>5. command.key \notin released /\ \A e : Handed(e) => Handed(e)'
      BY <2>0 DEF Turns, KeysAreOnce, Handed
    <3>6. HeldAccounted'
      <4> SUFFICES ASSUME NEW h \in held'
                   PROVE  /\ h[2] \in released => Handed(h[1])'
                          /\ h[2] = command.key => Handed(h[1])' \/ Kept(h[1])'
        BY <2>0, <3>3 DEF HeldAccounted
      <4>1. CASE h \in held
        BY <3>4, <3>5, <4>1 DEF HeldAccounted
      <4>2. CASE h = << arrived + 1, command.key >>
        BY <3>4, <3>5, <4>2
      <4>3. QED BY <2>0, <3>1, <4>1, <4>2
    <3>7. QED BY <3>4, <3>6
  <2>3. QED BY <2>1, <2>2
<1>5. ASSUME NEW g \in Gens, OnSettledEvent(g) PROVE Buffers'
  <2>1. command \in Registrations
    BY <1>5 DEF OnSettledEvent, CoTypes
  <2>2. QED BY <1>5, <1>f, <2>1 DEF OnSettledEvent
<1>6. ASSUME NEW r \in records, RecordOk(r) PROVE Buffers'
  <2>1. command'.buf = command.buf /\ command'.key = command.key
    <3>1. CASE command' = command BY <3>1
    <3>2. CASE command' # command
      <4>1. command' = [command EXCEPT !.phase = "response-timed-out"] /\ command \in Registrations
        BY <1>6, <3>2 DEF RecordOk, CoTypes
      <4>2. QED BY <4>1
    <3>3. QED BY <3>1, <3>2
  <2>2. QED BY <1>6, <1>f, <2>1 DEF RecordOk
<1>7. ASSUME NEW g \in Gens, OnGenerationRetired(g) PROVE Buffers'
  BY <1>7, <1>d DEF OnGenerationRetired, DropCommand
<1>8. CASE AbandonHeld
  BY <1>8, <1>d DEF AbandonHeld, DropCommand
<1>9. ASSUME UNCHANGED << drained, held, arrived, released, command >> PROVE Buffers'
  BY <1>9, <1>f
<1>10. QED
  BY <1>1, <1>2, <1>3, <1>4, <1>5, <1>6, <1>7, <1>8, <1>9
  DEF CoNext, dispatchVars, coVars, CheckTurnTimeout, HostClose, HostReopen, HostRepair, SubmitTurn,
      GateAppendOk, GateAppendFail, RecordTimeout, RecordFail

LEMMA OpensEmptyStep ==
  ASSUME CoTypes, OpensEmpty, [CoNext]_dispatchVars
  PROVE  OpensEmpty'
<1>1. ASSUME command' = command PROVE OpensEmpty'
  BY <1>1 DEF OpensEmpty
<1>2. ASSUME command' = NoCommand PROVE OpensEmpty'
  BY <1>2 DEF OpensEmpty
<1>3. ASSUME NEW l \in launching, LaunchResume(l) PROVE OpensEmpty'
  BY <1>1, <1>3 DEF LaunchResume, Registration, OpensEmpty
<1>4. ASSUME NEW k \in Keys, OnRpcResponse(k) PROVE OpensEmpty'
  <2>1. command \in Registrations
    BY <1>4 DEF OnRpcResponse, CoTypes
  <2>2. CASE command.bufSettled
    <3>1. command'.bufSettled
      BY <1>4, <2>1, <2>2 DEF OnRpcResponse
    <3>2. QED BY <3>1 DEF OpensEmpty
  <2>3. CASE ~command.bufSettled
    BY <1>4, <2>1, <2>3 DEF OnRpcResponse, Opened, OpensEmpty
  <2>4. QED BY <2>2, <2>3
<1>5. ASSUME NEW g \in Gens, OnSettledEvent(g) PROVE OpensEmpty'
  <2>1. CASE command.phase = "awaiting-response"
    <3>1. command \in Registrations
      BY <2>1 DEF CoTypes
    <3>2. command'.bufSettled
      BY <1>5, <2>1, <3>1 DEF OnSettledEvent
    <3>3. QED BY <3>2 DEF OpensEmpty
  <2>2. CASE command.phase # "awaiting-response"
    BY <1>1, <1>5, <2>2 DEF OnSettledEvent
  <2>3. QED BY <2>1, <2>2
<1>6. ASSUME NEW x \in settles, SettleResume(x) PROVE OpensEmpty'
  BY <1>1, <1>2, <1>6 DEF SettleResume
<1>7. ASSUME NEW g \in Gens, OnPiEvent(g) PROVE OpensEmpty'
  <2>1. CASE command' = command
    BY <1>1, <2>1
  <2>2. CASE command' # command
    <3>1. command' = Buffered(command, arrived') /\ command.phase # "run-open" /\ command.key.gen = g
      BY <1>7, <2>2 DEF OnPiEvent
    <3>2. command \in Registrations
      BY <3>1 DEF CoTypes
    <3>3. command'.phase # "run-open"
      BY <3>1, <3>2
    <3>4. QED BY <3>3 DEF OpensEmpty
  <2>3. QED BY <2>1, <2>2
<1>8. ASSUME NEW r \in records, RecordOk(r) PROVE OpensEmpty'
  <2>1. CASE command' = command
    BY <1>1, <2>1
  <2>2. CASE command' # command
    <3>1. command' = [command EXCEPT !.phase = "response-timed-out"] /\ command \in Registrations
      BY <1>8, <2>2 DEF RecordOk, CoTypes
    <3>2. QED BY <3>1 DEF OpensEmpty
  <2>3. QED BY <2>1, <2>2
<1>9. ASSUME NEW g \in Gens, OnGenerationRetired(g) PROVE OpensEmpty'
  BY <1>2, <1>9 DEF OnGenerationRetired, DropCommand
<1>10. CASE AbandonHeld
  BY <1>2, <1>10 DEF AbandonHeld, DropCommand
<1>11. QED
  BY <1>1, <1>3, <1>4, <1>5, <1>6, <1>7, <1>8, <1>9, <1>10
  DEF CoNext, dispatchVars, coVars, CheckTurnTimeout, HostClose, HostReopen, HostRepair, SubmitTurn,
      GateAppendOk, GateAppendFail, RecordTimeout, RecordFail

-------------------------------------------------------------------------------
(* The invariant and the theorems *)

LEMMA CoInvInit == CoInit => CoInv
<1> SUFFICES ASSUME CoInit PROVE CoInv
  OBVIOUS
<1>1. GateInv /\ CoTypes
  BY GateInvInit, CoTypesInit DEF CoInit
<1>2. SlotOwned /\ KeysAreOnce /\ TurnsAgree /\ SettlesAreReal
  BY DEF CoInit, SlotOwned, KeysAreOnce, TurnsAgree, SettlesAreReal
<1>3. Len(drained) = 0 /\ Len(command.buf) = 0 /\ held = {}
  BY EmptySeq DEF CoInit
<1>4. InOrder /\ HeldAccounted
  BY <1>3 DEF InOrder, HeldAccounted, Increasing
<1>5. OpensEmpty
  BY DEF CoInit, OpensEmpty
<1>6. QED BY <1>1, <1>2, <1>4, <1>5 DEF CoInv

LEMMA CoInvStep == CoInv /\ [CoNext]_dispatchVars => CoInv'
<1> SUFFICES ASSUME CoInv, [CoNext]_dispatchVars PROVE CoInv'
  OBVIOUS
<1>1. GateInv /\ CoTypes /\ Turns /\ Buffers
  BY DEF CoInv, Turns, Buffers
<1>2. GateInv' /\ CoTypes'
  BY <1>1, GateKept, CoTypesStep
<1>3. Turns' /\ Buffers'
  BY <1>1, <1>2, TurnsStep, BuffersStep
<1>4. OpensEmpty'
  BY <1>1, OpensEmptyStep DEF CoInv
<1>5. QED BY <1>2, <1>3, <1>4 DEF CoInv, Turns, Buffers

LEMMA CoInvariant == CoSpec => []CoInv
BY CoInvInit, CoInvStep, PTL DEF CoSpec

\* The branch the code keeps for a slot without its registration, and says cannot
\* be reached through the public methods, indeed cannot.
THEOREM SlotAlwaysOwned == CoSpec => []SlotOwned
<1>1. CoInv => SlotOwned BY DEF CoInv
<1>2. QED BY <1>1, CoInvariant, PTL

\* Gate and coordinator never speak of different turns, although submitTurn()
\* registers after its await without looking whether something is registered.
THEOREM AlwaysSameTurn == CoSpec => []SameTurn
<1>1. CoInv => SameTurn BY DEF CoInv, TurnsAgree, SameTurn
<1>2. QED BY <1>1, CoInvariant, PTL

\* The events buffered for a turn that was settled have all been handed over, in
\* their order and once, for any number of events and any buffer.
THEOREM BuffersDeliveredWhole == CoSpec => []BufferDeliveredWhole
<1>1. ASSUME CoInv PROVE BufferDeliveredWhole
  <2>1. DOMAIN drained = 1 .. Len(drained)
    BY <1>1, LenProperties DEF CoInv, CoTypes
  <2>2. QED BY <1>1, <2>1 DEF CoInv, InOrder, Increasing, HeldAccounted, OpensEmpty, Handed, BufferDeliveredWhole
<1>2. QED BY <1>1, CoInvariant, PTL

\* Beneath the coordinator the gate keeps its own promises: two turns are never
\* open at once, although the coordinator writes to the same journal and closes
\* the gate by itself when a response times out.
THEOREM GateBeneath == CoSpec => [](OneOpenTurn /\ UnsentVerdictSound /\ WaitsForOneCall)
<1>1. ASSUME CoInv PROVE OneOpenTurn /\ UnsentVerdictSound /\ WaitsForOneCall
  BY <1>1 DEF CoInv, GateInv, GateTypeOK, OneLiveCall, WaitsForOneCall, LiveCalls
<1>2. QED BY <1>1, CoInvariant, PTL

\* A registration goes only with a settled line acknowledged, or because the host
\* dropped it; a call that resumes after its turn is over removes nothing.
THEOREM DropsAreJustified == CoSpec => DropIsJustified
<1> DEFINE Justified ==
      Registered /\ command' = NoCommand =>
        coEpoch' = coEpoch + 1 \/ "settled" \in acked[command.key.intent]
<1>1. ASSUME CoInv, [CoNext]_dispatchVars PROVE [Justified]_dispatchVars
  <2> SUFFICES ASSUME CoNext, Registered, command' = NoCommand
               PROVE  coEpoch' = coEpoch + 1 \/ "settled" \in acked[command.key.intent]
    BY <1>1
  <2>0. command \in Registrations /\ CoTypes /\ SettlesAreReal
    BY <1>1 DEF CoInv, CoTypes
  <2>1. ASSUME NEW x \in settles, SettleResume(x) PROVE "settled" \in acked[command.key.intent]
    BY <2>0, <2>1 DEF SettleResume, SettleProves, SettlesAreReal
  <2>2. ASSUME DropCommand PROVE coEpoch' = coEpoch + 1
    BY <2>2 DEF DropCommand
  <2>3. ASSUME NEW k \in Keys, OnRpcResponse(k) PROVE FALSE
    BY <2>0, <2>3 DEF OnRpcResponse, Opened
  <2>4. ASSUME NEW g \in Gens, OnSettledEvent(g) PROVE FALSE
    BY <2>0, <2>4 DEF OnSettledEvent
  <2>5. ASSUME NEW g \in Gens, OnPiEvent(g) PROVE FALSE
    BY <2>0, <2>5 DEF OnPiEvent
  <2>6. ASSUME NEW r \in records, RecordOk(r) PROVE FALSE
    BY <2>0, <2>6 DEF RecordOk
  <2>7. ASSUME NEW l \in launching, LaunchResume(l) PROVE FALSE
    BY <2>7 DEF LaunchResume, Registration
  <2>8. ASSUME command' = command PROVE FALSE
    BY <2>8
  <2>9. QED
    BY <2>1, <2>2, <2>3, <2>4, <2>5, <2>6, <2>7, <2>8
    DEF CoNext, coVars, CheckTurnTimeout, HostClose, HostReopen, HostRepair, SubmitTurn,
        GateAppendOk, GateAppendFail, RecordTimeout, RecordFail, OnGenerationRetired, AbandonHeld
<1>2. QED BY <1>1, CoInvariant, PTL DEF CoSpec, DropIsJustified

-------------------------------------------------------------------------------
(* The supervisor *)

\* NoOrphan alone is not inductive: a spawn is harmless because an idle supervisor
\* holds nothing (HoldsLiveEntry), giving a process up is harmless because an exit
\* that was handled is the exit of a dead process (SeenIsDead), and a fresh
\* generation is harmless because nothing is known yet of the numbers to come
\* (FutureIsBlank).
SeenIsDead == \A g \in seen : os[g] = "dead"

FutureIsBlank ==
  \A g \in Gens : g > nextGeneration => os[g] = "unborn" /\ g \notin retired

SupInv == SupTypeOK /\ NoOrphan /\ HoldsLiveEntry /\ SeenIsDead /\ FutureIsBlank

-------------------------------------------------------------------------------
LEMMA SupInvInit == SupInit => SupInv
<1> SUFFICES ASSUME SupInit PROVE SupInv
  OBVIOUS
<1>1. SupTypeOK
  BY DEF SupInit, SupTypeOK, SupPhases, Waits
<1>2. NoOrphan /\ HoldsLiveEntry /\ SeenIsDead /\ FutureIsBlank
  BY DEF SupInit, NoOrphan, HoldsLiveEntry, SeenIsDead, FutureIsBlank
<1>3. QED BY <1>1, <1>2 DEF SupInv

LEMMA SupInvStep == ASSUME SupInv, [SupNext]_supVars PROVE SupInv'
<1> USE DEF SupInv, SupTypeOK, SupPhases, Waits
<1> DEFINE Rest == NoOrphan /\ HoldsLiveEntry /\ SeenIsDead /\ FutureIsBlank
<1>1. CASE SpawnOk
  <2>1. nextGeneration + 1 \in Gens /\ current = 0
    BY <1>1 DEF SpawnOk, MaySpawn, HoldsLiveEntry
  <2>2. SupTypeOK'
    BY <1>1, <2>1 DEF SpawnOk
  <2>3. NoOrphan' /\ FutureIsBlank'
    BY <1>1, <2>1 DEF SpawnOk, NoOrphan, FutureIsBlank
  <2>4. HoldsLiveEntry' /\ SeenIsDead'
    BY <1>1, <2>1 DEF SpawnOk, HoldsLiveEntry, SeenIsDead, FutureIsBlank
  <2>5. QED BY <2>2, <2>3, <2>4
<1>2. CASE SpawnThrows
  <2>1. nextGeneration + 1 \in Gens /\ current = 0
    BY <1>2 DEF SpawnThrows, MaySpawn, HoldsLiveEntry
  <2>2. SupTypeOK'
    BY <1>2, <2>1 DEF SpawnThrows
  <2>3. NoOrphan' /\ FutureIsBlank'
    BY <1>2, <2>1 DEF SpawnThrows, NoOrphan, FutureIsBlank
  <2>4. HoldsLiveEntry' /\ SeenIsDead'
    BY <1>2, <2>1 DEF SpawnThrows, HoldsLiveEntry, SeenIsDead
  <2>5. QED BY <2>2, <2>3, <2>4
<1>3. CASE SpawnExitsAtOnce
  <2>1. nextGeneration + 1 \in Gens /\ current = 0
    BY <1>3 DEF SpawnExitsAtOnce, MaySpawn, HoldsLiveEntry
  <2>2. SupTypeOK'
    BY <1>3, <2>1 DEF SpawnExitsAtOnce
  <2>3. NoOrphan' /\ FutureIsBlank'
    BY <1>3, <2>1 DEF SpawnExitsAtOnce, NoOrphan, FutureIsBlank
  <2>4. HoldsLiveEntry' /\ SeenIsDead'
    BY <1>3, <2>1 DEF SpawnExitsAtOnce, HoldsLiveEntry, SeenIsDead
  <2>5. QED BY <2>2, <2>3, <2>4
<1>4. ASSUME NEW g \in Gens, OsExit(g) PROVE SupInv'
  <2>1. SupTypeOK' BY <1>4 DEF OsExit
  <2>2. Rest'
    BY <1>4 DEF OsExit, NoOrphan, HoldsLiveEntry, SeenIsDead, FutureIsBlank
  <2>3. QED BY <2>1, <2>2
<1>5. ASSUME NEW g \in Gens, OnExit(g) PROVE SupInv'
  <2>1. SupTypeOK' BY <1>5 DEF OnExit, ToIdle
  <2>2. NoOrphan' /\ SeenIsDead'
    BY <1>5 DEF OnExit, ToIdle, NoOrphan, SeenIsDead
  <2>3. HoldsLiveEntry' /\ FutureIsBlank'
    BY <1>5 DEF OnExit, ToIdle, HoldsLiveEntry, FutureIsBlank
  <2>4. QED BY <2>1, <2>2, <2>3
<1>6. ASSUME NEW first \in {"eof", "term"}, BeginRetire(first) PROVE SupInv'
  <2>1. SupTypeOK' BY <1>6 DEF BeginRetire
  <2>2. Rest'
    BY <1>6 DEF BeginRetire, NoOrphan, HoldsLiveEntry, SeenIsDead, FutureIsBlank
  <2>3. QED BY <2>1, <2>2
<1>7. ASSUME NEW g \in Gens, Confirmed(g) PROVE SupInv'
  <2>1. SupTypeOK' BY <1>7 DEF Confirmed, ToIdle
  <2>2. NoOrphan' /\ SeenIsDead'
    BY <1>7 DEF Confirmed, ToIdle, NoOrphan, SeenIsDead
  <2>3. HoldsLiveEntry' /\ FutureIsBlank'
    BY <1>7 DEF Confirmed, ToIdle, HoldsLiveEntry, SeenIsDead, FutureIsBlank
  <2>4. QED BY <2>1, <2>2, <2>3
\* A wait that ended without an exit only moves the hand-over on.
<1>8. ASSUME NEW g \in Gens, RetireResumes(g), ~Confirmed(g) PROVE SupInv'
  <2>1. UNCHANGED << phase, current, nextGeneration, os, seen, retired >>
    BY <1>8 DEF RetireResumes, EofElapsed, TermElapsed, KillElapsed
  <2>2. handover' \in [Gens -> Waits] /\ killed' \subseteq Gens
    BY <1>8 DEF RetireResumes, EofElapsed, TermElapsed, KillElapsed, SignalKill
  <2>3. Rest' BY <2>1 DEF NoOrphan, HoldsLiveEntry, SeenIsDead, FutureIsBlank
  <2>4. QED BY <2>1, <2>2, <2>3
<1>9. CASE UNCHANGED supVars
  BY <1>9 DEF supVars, NoOrphan, HoldsLiveEntry, SeenIsDead, FutureIsBlank
<1>10. QED
  BY <1>1, <1>2, <1>3, <1>4, <1>5, <1>6, <1>7, <1>8, <1>9 DEF SupNext, RetireResumes

LEMMA SupInvariant == SupSpec => []SupInv
<1>1. SupInv /\ [SupNext]_supVars => SupInv' BY SupInvStep
<1>2. QED BY SupInvInit, <1>1, PTL DEF SupSpec

-------------------------------------------------------------------------------
(* What holds of the supervisor *)

\* The supervisor's variables keep their types.
THEOREM SupTypeCorrect == SupSpec => []SupTypeOK
<1>1. SupInv => SupTypeOK BY DEF SupInv
<1>2. QED BY <1>1, SupInvariant, PTL

\* Never two pi processes on one session file, and none out of reach.
THEOREM NeverTwoWriters == SupSpec => []NoOrphan
<1>1. SupInv => NoOrphan BY DEF SupInv
<1>2. QED BY <1>1, SupInvariant, PTL

\* The supervisor never holds a retired process.
THEOREM CurrentIsNotRetired == SupSpec => []HoldsLiveEntry
<1>1. SupInv => HoldsLiveEntry BY DEF SupInv
<1>2. QED BY <1>1, SupInvariant, PTL

\* A hand-over that outlived its generation leaves the successor alone.
THEOREM LateHandoverIsHarmless == SupSpec => LateHandoverHarmless
<1> DEFINE Harmless ==
      \A g \in Gens :
        handover'[g] # handover[g] /\ handover[g] # "none" /\ current # g =>
          UNCHANGED << phase, current >>
<1>1. ASSUME SupInv, [SupNext]_supVars PROVE [Harmless]_supVars
  <2> SUFFICES ASSUME SupNext, NEW g \in Gens,
                      handover'[g] # handover[g], handover[g] # "none", current # g
               PROVE  UNCHANGED << phase, current >>
    BY <1>1
  <2> USE <1>1 DEF SupInv, SupTypeOK, Waits
  <2>1. ASSUME NEW h \in Gens, RetireResumes(h) PROVE UNCHANGED << phase, current >>
    <3>1. h = g
      BY <2>1 DEF RetireResumes, EofElapsed, TermElapsed, KillElapsed, Confirmed
    <3>2. CASE Confirmed(h) BY <3>1, <3>2 DEF Confirmed, ToIdle
    <3>3. CASE ~Confirmed(h)
      BY <2>1, <3>3 DEF RetireResumes, EofElapsed, TermElapsed, KillElapsed
    <3>4. QED BY <3>2, <3>3
  <2>2. ASSUME NEW first \in {"eof", "term"}, BeginRetire(first) PROVE FALSE
    BY <2>2 DEF BeginRetire
  <2>3. ~(SpawnOk \/ SpawnThrows \/ SpawnExitsAtOnce)
    BY DEF SpawnOk, SpawnThrows, SpawnExitsAtOnce
  <2>4. \A h \in Gens : ~(OsExit(h) \/ OnExit(h))
    BY DEF OsExit, OnExit
  <2>5. QED BY <2>1, <2>2, <2>3, <2>4 DEF SupNext, RetireResumes
<1>2. QED BY <1>1, SupInvariant, PTL DEF SupSpec, LateHandoverHarmless

\* The supervisor leaves a process only with that process's exit in hand.
THEOREM IdleOnlyAfterExit == SupSpec => IdleNeedsExit
<1> DEFINE Needs == phase # "idle" /\ phase' = "idle" => current \in seen'
<1>1. ASSUME SupInv, [SupNext]_supVars PROVE [Needs]_supVars
  <2> SUFFICES ASSUME SupNext, phase # "idle", phase' = "idle" PROVE current \in seen'
    BY <1>1
  <2>1. ASSUME NEW g \in Gens, OnExit(g) PROVE current \in seen'
    BY <2>1 DEF OnExit, ToIdle
  <2>2. ASSUME NEW g \in Gens, RetireResumes(g) PROVE current \in seen'
    BY <2>2 DEF RetireResumes, EofElapsed, TermElapsed, KillElapsed, Confirmed, ToIdle
  <2>3. ~(SpawnOk \/ SpawnThrows \/ SpawnExitsAtOnce)
    BY DEF SpawnOk, SpawnThrows, SpawnExitsAtOnce, MaySpawn
  <2>4. \A g \in Gens : ~OsExit(g)
    BY DEF OsExit
  <2>5. \A first \in {"eof", "term"} : ~BeginRetire(first)
    BY DEF BeginRetire
  <2>6. QED BY <2>1, <2>2, <2>3, <2>4, <2>5 DEF SupNext, RetireResumes
<1>2. QED BY <1>1, SupInvariant, PTL DEF SupSpec, IdleNeedsExit

-------------------------------------------------------------------------------
(* The session *)

\* The gate, the coordinator and the types of both.
Core == GateInv /\ CoTypes /\ Turns

\* The registered turn, and the one the gate is engaged with, are of the process
\* the supervisor holds.
SameGeneration ==
  /\ Registered => command.key.gen = current
  /\ Engaged => /\ current # 0
                /\ \A l \in launching : l.key.intent = gate.intent => l.key.gen = current

\* A prompt was journalled before pi read it; and as long as its process is the
\* current one it is settled, or the registered turn.
PromptsHeld ==
  \A k \in received :
    /\ k \in Keys
    /\ os[k.gen] # "unborn"
    /\ {"enqueue", "sending"} \subseteq acked[k.intent]
    /\ k.gen = current => "settled" \in acked[k.intent] \/ command.key = k

\* Whatever leads to a settled line, and the line itself, is of a prompt pi settled.
SettledByPi ==
  /\ gate.kind = "settling" => gate.intent \in piSettled
  /\ \A c \in pending : c.line = "settled" => c.intent \in piSettled
  /\ \A i \in Intents : "settled" \in landed[i] => i \in piSettled
  /\ \A s \in settles : s.key.intent \in piSettled
  /\ \A k \in released : k.intent \in piSettled
  /\ command.bufSettled => command.key.intent \in piSettled

RpcInv == SupInv /\ Core /\ SameGeneration /\ PromptsHeld /\ SettledByPi

-------------------------------------------------------------------------------
(* The parts *)

LEMMA CoreStep == ASSUME Core, [CoNext]_dispatchVars PROVE Core'
<1>1. GateInv' /\ CoTypes'
  BY GateKept, CoTypesStep DEF Core
<1>2. QED BY <1>1, TurnsStep DEF Core

\* Every step of the session is a step of the supervisor, or none.
LEMMA RpcStepsSupervisor == ASSUME RpcNext PROVE [SupNext]_supVars
<1>1. ASSUME NEW i \in Intents, SendStarts(i) PROVE SupNext
  BY <1>1 DEF SendStarts, SupNext
<1>2. ASSUME NEW i \in Intents, StartResumes(i) PROVE [SupNext]_supVars
  BY <1>2 DEF StartResumes, SupNext
<1>3. ASSUME NEW i \in Intents, StartGivesUp(i) \/ SendSubmits(i) \/ FirstByte(i) PROVE UNCHANGED supVars
  BY <1>3 DEF StartGivesUp, SendSubmits, FirstByte
<1>4. ASSUME \/ \E c \in pending : JournalOk(c)
             \/ \E c \in pending, lands \in BOOLEAN : JournalFails(c, lands)
             \/ \E l \in launching : SendLaunches(l)
             \/ \E s \in settles : Settle(s)
             \/ PollResponse \/ PollTurn
             \/ \E r \in records : RecordLands(r)
             \/ \E r \in records, lands \in BOOLEAN : RecordLost(r, lands)
             \/ \E k \in received : PiAnswers(k) \/ PiSpeaks(k) \/ PiSettles(k)
      PROVE  UNCHANGED supVars
  BY <1>4 DEF JournalOk, JournalFails, SendLaunches, Settle, PollResponse, PollTurn, RecordLands,
     RecordLost, PiAnswers, PiSpeaks, PiSettles
<1>5. ASSUME NEW g \in Gens, ProbeOk(g) \/ ProbeFails(g) \/ ProcessDies(g) \/ ProcessExit(g) \/ RetireGoesOn(g)
      PROVE  [SupNext]_supVars
  BY <1>5 DEF ProbeOk, ProbeFails, ProcessDies, ProcessExit, RetireGoesOn, RetireResumes, SupNext
<1>6. ASSUME Stop \/ Reap PROVE SupNext
  BY <1>6 DEF Stop, Reap, SupNext
<1>7. QED BY <1>1, <1>2, <1>3, <1>4, <1>5, <1>6 DEF RpcNext

\* What the retirement of a generation does to gate and coordinator.
LEMMA RetireCore ==
  ASSUME Core, NEW g \in Gens, RetireCommand(g), RetireGate,
         UNCHANGED << launching, settles, records, released, arrived, held, drained >>
  PROVE  /\ Core'
         /\ ~Engaged'
         /\ command' = IF command.key.gen = g THEN NoCommand ELSE command
         /\ UNCHANGED << pending, landed, acked >>
<1>1. [GateNext]_gateVars
  BY DEF RetireGate, GateNext
<1>2. GateInv'
  BY <1>1, GateInvStep DEF Core
<1>3. /\ command' = IF command.key.gen = g THEN NoCommand ELSE command
      /\ UNCHANGED << used, pending, landed, acked >>
      /\ slot' = slot \/ (command.key.gen = g /\ slot' = SlotWithout(command.key))
      /\ coEpoch' \in {coEpoch, coEpoch + 1}
      /\ ~Engaged'
      /\ GateStays
  BY DEF RetireCommand, DropCommand, RetireGate, Close, Engaged, gateVars, GateStays
<1>4. CoTypes'
  BY <1>3 DEF Core, CoTypes, SlotWithout
<1>5. Turns'
  <2>1. CASE command.key.gen # g
    <3>1. command' = command /\ slot' = slot
      BY <1>3, <2>1
    <3>2. RealSettles
      BY <1>3 DEF RealSettles
    <3>3. \A l, m \in launching : l.key.intent = m.key.intent => l = m
      BY DEF Core, Turns, KeysAreOnce
    <3>4. QED BY <1>3, <1>4, <3>1, <3>2, <3>3, SameKeyKeeps DEF Core
  <2>2. CASE command.key.gen = g
    <3>1. command' = NoCommand /\ (slot' = slot \/ slot' = SlotWithout(command.key))
      BY <1>3, <2>2
    <3>2. SlotOwned'
      <4>1. slot' = SlotWithout(command.key)
        BY <2>2 DEF RetireCommand, DropCommand
      <4>2. QED BY <3>1, <4>1 DEF Core, Turns, SlotOwned, SlotWithout
    <3>3. KeysAreOnce'
      <4>1. NoKey \notin released /\ \A l \in launching : l.key.intent # NoIntent
        BY DEF Core, CoTypes
      <4>2. KeysAreOnce /\ UNCHANGED << launching, released, held, used >> /\ command' = NoCommand
        BY <1>3, <3>1 DEF Core, Turns
      <4>3. command'.key = NoKey /\ ~Registered'
        BY <4>2
      <4>4. QED BY <4>1, <4>2, <4>3 DEF KeysAreOnce
    <3>4. TurnsAgree' /\ SettlesAreReal'
      BY <1>3, <3>1 DEF Core, Turns, TurnsAgree, SettlesAreReal
    <3>5. QED BY <3>2, <3>3, <3>4 DEF Turns
  <2>3. QED BY <2>1, <2>2
<1>6. QED BY <1>2, <1>3, <1>4, <1>5 DEF Core

-------------------------------------------------------------------------------
(* Steps that keep the registered turn, and those that register or drop one    *)

\* Nothing is engaged anew, registered or dropped; acknowledged lines stay.
CoreQuiet ==
  /\ Engaged' => Engaged /\ gate'.intent = gate.intent
  /\ command'.key = command.key
  /\ \A l \in launching' : \E m \in launching : m.key = l.key
  /\ \A i \in Intents : acked[i] \subseteq acked'[i]

LEMMA QuietKeepsGeneration ==
  ASSUME Core, Core', SameGeneration, CoreQuiet, current' = current
  PROVE  SameGeneration'
<1>1. Registered' => Registered
  BY DEF Core, CoTypes, CoreQuiet
<1>2. QED BY <1>1 DEF SameGeneration, CoreQuiet

LEMMA QuietKeepsPrompts ==
  ASSUME PromptsHeld, CoreQuiet, current' = current, received' = received,
         \A g \in Gens : os[g] # "unborn" => os'[g] # "unborn"
  PROVE  PromptsHeld'
BY DEF PromptsHeld, CoreQuiet

\* Awaiting gate.onTurnSettled for the registered turn, which pi has settled.
LEMMA SettleBegins ==
  ASSUME Core, SettledByPi, Registered, command.key.intent \in piSettled', piSettled \subseteq piSettled',
         BeginSettle(command.key)
  PROVE  /\ gate'.kind = "settling" => gate'.intent \in piSettled'
         /\ \A c \in pending' : c.line = "settled" => c.intent \in piSettled'
         /\ \A s \in settles' : s.key.intent \in piSettled'
         /\ UNCHANGED << landed, acked >>
         /\ Engaged' => Engaged /\ gate'.intent = gate.intent
<1>1. CASE gate.kind = "in-flight" /\ OnTurnSettled
  <2>1. gate.intent = command.key.intent
    BY <1>1 DEF Core, Turns, TurnsAgree
  <2>2. gate'.kind = "settling" /\ gate'.intent = gate.intent /\ UNCHANGED << landed, acked >>
    BY <1>1 DEF OnTurnSettled
  <2>3. \A c \in pending' : c \in pending \/ c.intent = gate.intent
    BY <1>1 DEF OnTurnSettled
  <2>4. \A s \in settles' : s \in settles \/ s.key = command.key
    BY <1>1 DEF BeginSettle
  <2>5. QED BY <1>1, <2>1, <2>2, <2>3, <2>4 DEF SettledByPi, Engaged
<1>2. CASE gate.kind # "in-flight" /\ UNCHANGED gateVars
  <2>1. \A s \in settles' : s \in settles \/ s.key = command.key
    BY <1>2 DEF BeginSettle
  <2>2. QED BY <1>2, <2>1 DEF SettledByPi, Engaged, gateVars
<1>3. QED BY <1>1, <1>2 DEF BeginSettle, OnTurnSettled

\* The journal answers the gate.
LEMMA JournalQuiet ==
  ASSUME Core, SettledByPi, piSettled' = piSettled, NEW c \in pending,
         GateAppendOk(c) \/ \E lands \in BOOLEAN : GateAppendFail(c, lands)
  PROVE  CoreQuiet /\ SettledByPi'
<1>0. /\ c \in Calls
      /\ landed \in [Intents -> SUBSET LineKinds] /\ acked \in [Intents -> SUBSET LineKinds]
      /\ c.epoch = opEpoch => gate.intent = c.intent
      /\ gate.kind \in {"in-flight", "settling", "dispatching", "idle", "closed"}
  BY DEF Core, GateInv, GateTypeOK, OneLiveCall
<1>1. \A i \in Intents : /\ acked[i] \subseteq acked'[i]
                         /\ "settled" \in landed'[i] => "settled" \in landed[i]
                                                        \/ (i = c.intent /\ c.line = "settled")
  BY <1>0 DEF GateAppendOk, GateAppendFail, AppendOk, AppendFail
<1>2. /\ Engaged' => Engaged /\ gate'.intent = gate.intent
      /\ gate'.kind = "settling" => gate' = gate
  <2>1. CASE GateAppendOk(c)
    <3>1. CASE ResumeEnqueue(c)
      BY <3>1 DEF ResumeEnqueue, Engaged
    <3>2. CASE ResumeSending(c)
      BY <1>0, <3>2 DEF ResumeSending, Engaged
    <3>3. CASE ResumeSettled(c)
      BY <3>3 DEF ResumeSettled, Engaged
    <3>4. QED BY <2>1, <3>1, <3>2, <3>3 DEF GateAppendOk, AppendOk
  <2>2. CASE \E lands \in BOOLEAN : GateAppendFail(c, lands)
    BY <2>2 DEF GateAppendFail, AppendFail, AfterFailure, Engaged
  <2>3. QED BY <2>1, <2>2
<1>3. \A d \in pending' : d.line = "settled" => d \in pending
  BY <1>0 DEF GateAppendOk, GateAppendFail, AppendOk, AppendFail, ResumeEnqueue, ResumeSending, ResumeSettled
<1>4. \A l \in launching' : \E m \in launching : m.key = l.key
  <2>1. \A l \in Granted(c) : \E m \in launching : m.key = l.key
    BY GrantedIs DEF Core
  <2>2. \A l \in Refused(c) : l \in launching
    BY DEF Refused
  <2>3. QED BY <2>1, <2>2 DEF GateAppendOk, GateAppendFail
<1>5. \A s \in settles' : \E x \in settles : x.key = s.key
  <2>1. \A r \in Results : \A s \in Answered(c, r) : \E x \in settles : x.key = s.key
    <3> SUFFICES ASSUME NEW r \in Results, NEW x \in settles
                 PROVE  (IF x.result = "waiting" /\ x.key.intent = c.intent
                         THEN [x EXCEPT !.result = r] ELSE x).key = x.key
      BY DEF Answered
    <3>1. x \in [key : Keys, epoch : Nat, result : Results \cup {"waiting"}]
      BY DEF Core, CoTypes
    <3>2. QED BY <3>1
  <2>2. settles' = settles \/ \E r \in Results : settles' = Answered(c, r)
    BY DEF GateAppendOk, GateAppendFail
  <2>3. QED BY <2>1, <2>2
<1>6. command' = command /\ released' = released
  BY DEF GateAppendOk, GateAppendFail
<1>7. CoreQuiet
  BY <1>1, <1>2, <1>4, <1>6 DEF CoreQuiet
<1>8. SettledByPi'
  BY <1>1, <1>2, <1>3, <1>5, <1>6 DEF SettledByPi
<1>9. QED BY <1>7, <1>8

\* pi answers the prompt of the registered turn.
LEMMA AnswerQuiet ==
  ASSUME Core, SettledByPi, piSettled' = piSettled, NEW k \in Keys, OnRpcResponse(k)
  PROVE  CoreQuiet /\ SettledByPi'
<1>0. Registered /\ command.key = k /\ command \in Registrations
  BY DEF OnRpcResponse, Core, CoTypes
<1>1. /\ command'.key = command.key /\ command'.bufSettled = command.bufSettled
      /\ UNCHANGED << launching, released >>
  BY <1>0 DEF OnRpcResponse, Opened
<1>2. CASE command.bufSettled
  <2>1. BeginSettle(command.key) /\ command.key.intent \in piSettled
    BY <1>0, <1>2 DEF OnRpcResponse, SettledByPi
  <2>2. QED BY <1>0, <1>1, <2>1, SettleBegins DEF CoreQuiet, SettledByPi
<1>3. CASE ~command.bufSettled
  <2>1. /\ UNCHANGED << pending, landed, acked, settles >>
        /\ gate' = gate \/ gate' = [gate EXCEPT !.accepted = TRUE]
    BY <1>0, <1>3 DEF OnRpcResponse, GateAccepted, OnAccepted, gateVars
  <2>2. gate'.kind = gate.kind /\ gate'.intent = gate.intent
    BY <2>1 DEF Core, GateInv, GateTypeOK
  <2>3. QED BY <1>1, <1>3, <2>1, <2>2 DEF CoreQuiet, SettledByPi, Engaged
<1>4. QED BY <1>2, <1>3

\* pi speaks; and the buffer may overflow.
LEMMA EventQuiet ==
  ASSUME Core, SettledByPi, piSettled' = piSettled, NEW g \in Gens, OnPiEvent(g)
  PROVE  CoreQuiet /\ SettledByPi'
<1>1. /\ command'.key = command.key /\ command'.bufSettled = command.bufSettled
      /\ UNCHANGED << pending, landed, acked, settles, launching, released >>
      /\ gate' = gate \/ gate' = Closed("buffer-overflow")
  <2>1. CASE command' = command
    BY <2>1 DEF OnPiEvent, Close, gateVars
  <2>2. CASE command' # command
    <3>1. command.key.gen = g /\ command' = Buffered(command, arrived') /\ UNCHANGED gateVars
      BY <2>2 DEF OnPiEvent
    <3>2. command \in Registrations
      BY <3>1 DEF Core, CoTypes
    <3>3. QED BY <3>1, <3>2 DEF OnPiEvent, gateVars
  <2>3. QED BY <2>1, <2>2
<1>2. QED BY <1>1 DEF CoreQuiet, SettledByPi, Engaged

\* A response is overdue: its record is begun, lands or is lost; or a whole turn is.
LEMMA RecordQuiet ==
  ASSUME Core, SettledByPi, piSettled' = piSettled,
         \/ RecordTimeout \/ CheckTurnTimeout
         \/ \E r \in records : RecordOk(r)
         \/ \E r \in records, lands \in BOOLEAN : RecordFail(r, lands)
  PROVE  CoreQuiet /\ SettledByPi'
<1>0. landed \in [Intents -> SUBSET LineKinds] /\ acked \in [Intents -> SUBSET LineKinds]
  BY DEF Core, GateInv, GateTypeOK
<1>1. CASE RecordTimeout \/ CheckTurnTimeout
  BY <1>1 DEF RecordTimeout, CheckTurnTimeout, CheckTimeout, coVars, gateVars, CoreQuiet, SettledByPi, Engaged
<1>2. ASSUME NEW r \in records, RecordOk(r)
      PROVE  CoreQuiet /\ SettledByPi'
  <2>1. \A i \in Intents : /\ acked[i] \subseteq acked'[i]
                           /\ "settled" \in landed'[i] => "settled" \in landed[i]
    BY <1>0, <1>2 DEF RecordOk
  <2>2. command'.key = command.key /\ command'.bufSettled = command.bufSettled
    <3>1. CASE command' = command
      BY <3>1
    <3>2. CASE command' # command
      <4>1. command.phase = "awaiting-response" /\ command' = [command EXCEPT !.phase = "response-timed-out"]
        BY <1>2, <3>2 DEF RecordOk
      <4>2. command \in Registrations
        BY <4>1 DEF Core, CoTypes
      <4>3. QED BY <4>1, <4>2
    <3>3. QED BY <3>1, <3>2
  <2>3. UNCHANGED << launching, released >>
    BY <1>2 DEF RecordOk
  <2>4. CASE UNCHANGED << gate, pending, settles >>
    BY <2>1, <2>2, <2>3, <2>4 DEF CoreQuiet, SettledByPi, Engaged
  <2>5. CASE ~UNCHANGED << gate, pending, settles >>
    <3>1. /\ r.epoch = coEpoch /\ command.key = r.key /\ command.bufSettled
          /\ command.phase = "awaiting-response"
      BY <1>2, <2>5 DEF RecordOk, RecordOwns
    <3>2. command.key.intent \in piSettled /\ Registered
      BY <3>1 DEF SettledByPi
    <3>3. \A s \in settles' : s \in settles \/ s.key = command.key
      BY <1>2, <3>1 DEF RecordOk
    <3>4. \A s \in settles' : s.key.intent \in piSettled
      BY <3>2, <3>3 DEF SettledByPi
    <3>5. CASE gate.kind = "in-flight"
      <4>1. gate.intent = command.key.intent
        BY <3>2, <3>5 DEF Core, Turns, TurnsAgree
      <4>2. gate' = Owned("settling", gate.intent) /\ pending' = pending \cup {Call("settled", gate.intent)}
        BY <1>2, <3>1, <3>5 DEF RecordOk, RecordOwns
      <4>3. \A c \in pending' : c.line = "settled" => c.intent \in piSettled
        BY <3>2, <4>1, <4>2 DEF SettledByPi
      <4>4. QED BY <2>1, <2>2, <2>3, <3>2, <3>4, <3>5, <4>1, <4>2, <4>3 DEF CoreQuiet, SettledByPi, Engaged
    <3>6. CASE gate.kind # "in-flight"
      <4>1. UNCHANGED << gate, pending >>
        BY <1>2, <3>6 DEF RecordOk
      <4>2. QED BY <2>1, <2>2, <2>3, <3>4, <4>1 DEF CoreQuiet, SettledByPi, Engaged
    <3>7. QED BY <3>5, <3>6
  <2>6. QED BY <2>4, <2>5
<1>3. ASSUME NEW r \in records, NEW lands \in BOOLEAN, RecordFail(r, lands)
      PROVE  CoreQuiet /\ SettledByPi'
  <2>1. \A i \in Intents : "settled" \in landed'[i] => "settled" \in landed[i]
    BY <1>0, <1>3 DEF RecordFail
  <2>2. UNCHANGED << acked, pending, command, launching, settles, released >> /\ gate' \in {gate, Closed("durability-failure")}
    BY <1>3 DEF RecordFail
  <2>3. QED BY <2>1, <2>2 DEF CoreQuiet, SettledByPi, Engaged
<1>4. QED BY <1>1, <1>2, <1>3

\* pi says that it has settled the prompt of the registered turn.
LEMMA SettledArrivesKeeps ==
  ASSUME Core, SettledByPi, Registered, SettledArrives,
         command.key.intent \in piSettled', piSettled \subseteq piSettled'
  PROVE  Core' /\ CoreQuiet /\ SettledByPi'
<1>0. /\ command \in Registrations /\ command.key \in Keys /\ arrived' = arrived + 1 /\ arrived \in Nat
      /\ gate.kind \in {"in-flight", "settling", "dispatching", "idle", "closed"}
      /\ UNCHANGED << coEpoch, slot, launching, records, released, drained >>
  BY DEF Core, CoTypes, GateInv, GateTypeOK, SettledArrives
<1>1. \/ UNCHANGED << gateVars, settles >>
      \/ BeginSettle(command.key)
      \/ /\ Close("buffer-overflow")
         /\ settles' \in {settles, settles \cup {[key |-> command.key, epoch |-> coEpoch,
                                                  result |-> "not-in-flight"]}}
  BY DEF SettledArrives
<1>2. /\ command' \in Registrations /\ command'.key = command.key
      /\ held' \subseteq held \cup {<< arrived', command.key >>}
  <2>1. CASE command.phase = "run-open"
    BY <1>0, <2>1 DEF SettledArrives
  <2>2. CASE command.phase \in {"awaiting-response", "response-timed-out"}
    <3>1. WithEvent(command) \in Registrations /\ WithEvent(command).key = command.key
      <4>1. Append(command.buf, arrived') \in Seq(Nat)
        BY <1>0, AppendProperties
      <4>2. QED BY <1>0, <4>1 DEF WithEvent
    <3>2. command' = [WithEvent(command) EXCEPT !.bufSettled = @ \/ command.phase = "awaiting-response"]
      BY <2>2 DEF SettledArrives
    <3>3. WithEvent(command).bufSettled \in BOOLEAN
      BY <3>1
    <3>4. \E x \in BOOLEAN : command' = [WithEvent(command) EXCEPT !.bufSettled = x]
      BY <3>2, <3>3
    <3>5. command' \in Registrations /\ command'.key = command.key
      BY <3>1, <3>4
    <3>6. held' \subseteq held \cup {<< arrived', command.key >>}
      BY <2>2 DEF SettledArrives
    <3>7. QED BY <3>5, <3>6
  <2>3. QED BY <1>0, <2>1, <2>2
<1>3. GateInv'
  <2>1. [GateNext]_gateVars
    BY <1>1 DEF BeginSettle, GateNext
  <2>2. QED BY <2>1, GateInvStep DEF Core
<1>4. CoTypes'
  <2>1. settles' \subseteq [key : Keys, epoch : Nat, result : Results \cup {"waiting"}]
    <3>1. CASE BeginSettle(command.key)
      BY <1>0, <3>1, BeginSettleTypes DEF Core
    <3>2. CASE ~BeginSettle(command.key)
      BY <1>0, <1>1, <3>2 DEF Core, CoTypes
    <3>3. QED BY <3>1, <3>2
  <2>2. held' \subseteq Nat \X Keys
    BY <1>0, <1>2 DEF Core, CoTypes
  <2>3. arrived' \in Nat
    BY <1>0
  <2>4. QED BY <1>0, <1>2, <2>1, <2>2, <2>3 DEF Core, CoTypes
<1>5. RealSettles /\ GateStays /\ used' = used
  <2>1. CASE BeginSettle(command.key)
    BY <1>0, <2>1, BeginSettleIsReal DEF Core
  <2>2. CASE ~BeginSettle(command.key)
    BY <1>1, <2>2 DEF Close, RealSettles, GateStays, gateVars
  <2>3. QED BY <2>1, <2>2
<1>6. Turns'
  <2>1. \A h \in held' : h \in held \/ (Registered /\ h[2] = command.key)
    BY <1>2
  <2>2. \A l, m \in launching' : l.key.intent = m.key.intent => l = m
    BY <1>0 DEF Core, Turns, KeysAreOnce
  <2>3. \A l \in launching' : \E m \in launching : m.key = l.key
    BY <1>0
  <2>4. QED BY <1>0, <1>2, <1>4, <1>5, <2>1, <2>2, <2>3, SameKeyKeeps DEF Core
<1>7. /\ gate'.kind = "settling" => gate'.intent \in piSettled'
      /\ \A c \in pending' : c.line = "settled" => c.intent \in piSettled'
      /\ \A s \in settles' : s.key.intent \in piSettled'
      /\ UNCHANGED << landed, acked >>
      /\ Engaged' => Engaged /\ gate'.intent = gate.intent
  <2>1. CASE BeginSettle(command.key)
    BY <2>1, SettleBegins
  <2>2. CASE ~BeginSettle(command.key)
    <3>1. \A s \in settles' : s \in settles \/ s.key = command.key
      BY <1>1, <2>2
    <3>2. QED BY <1>1, <2>2, <3>1 DEF Close, SettledByPi, Engaged, gateVars
  <2>3. QED BY <2>1, <2>2
<1>8. CoreQuiet
  BY <1>0, <1>2, <1>7 DEF CoreQuiet
<1>9. SettledByPi'
  BY <1>0, <1>2, <1>7 DEF SettledByPi
<1>10. QED BY <1>3, <1>4, <1>6, <1>8, <1>9 DEF Core

\* A turn is submitted for the current process.
LEMMA SubmitKeepsSession ==
  ASSUME Core, SameGeneration, PromptsHeld, SettledByPi, NEW i \in Intents,
         current # 0, SubmitTurn(i, current),
         UNCHANGED << current, os, received, piSettled >>
  PROVE  SameGeneration' /\ PromptsHeld' /\ SettledByPi'
<1>1. /\ i \notin used /\ gate' = Owned("dispatching", i)
      /\ pending' = pending \cup {Call("enqueue", i)}
      /\ launching' = launching \cup {[key |-> [intent |-> i, gen |-> current], verdict |-> "waiting"]}
      /\ UNCHANGED << landed, acked, command, settles, released >>
  BY DEF SubmitTurn, Submit
<1>2. \A l \in launching : l.key.intent # i
  BY <1>1 DEF Core, Turns, KeysAreOnce
<1>3. \A l \in launching' : l.key.intent = gate'.intent => l.key.gen = current
  BY <1>1, <1>2
<1>4. SameGeneration'
  BY <1>1, <1>3 DEF SameGeneration
<1>5. PromptsHeld'
  BY <1>1 DEF PromptsHeld
<1>6. SettledByPi'
  BY <1>1 DEF SettledByPi
<1>7. QED BY <1>4, <1>5, <1>6

\* A permit is looked at again, and the turn registered if it is fresh.
LEMMA LaunchKeepsSession ==
  ASSUME Core, SameGeneration, PromptsHeld, SettledByPi, NEW l \in launching, LaunchResume(l),
         UNCHANGED << current, os, received, piSettled >>
  PROVE  SameGeneration' /\ PromptsHeld' /\ SettledByPi'
<1>1. launching' = launching \ {l} /\ UNCHANGED << gateVars, settles, released >>
  BY DEF LaunchResume
<1>2. CASE ~PermitFresh(l.key)
  <2>1. command' = command
    BY <1>2 DEF LaunchResume
  <2>2. SameGeneration'
    BY <1>1, <2>1 DEF SameGeneration, Engaged, gateVars
  <2>3. QED BY <1>1, <2>1, <2>2 DEF PromptsHeld, SettledByPi, gateVars
<1>3. CASE PermitFresh(l.key)
  <2>1. command' = Registration(l.key) /\ command'.key = l.key /\ ~command'.bufSettled
    BY <1>3 DEF LaunchResume, Registration
  <2>2. ~Registered
    BY <1>3 DEF PermitFresh, Core, Turns, TurnsAgree, KeysAreOnce
  <2>3. l.key.gen = current
    BY <1>3 DEF PermitFresh, SameGeneration, Engaged
  <2>4. SameGeneration'
    BY <1>1, <2>1, <2>3 DEF SameGeneration, Engaged, gateVars
  <2>5. PromptsHeld'
    <3>1. \A k \in received : command.key # k
      BY <2>2 DEF PromptsHeld
    <3>2. QED BY <1>1, <3>1 DEF PromptsHeld, gateVars
  <2>6. SettledByPi'
    BY <1>1, <2>1 DEF SettledByPi, gateVars
  <2>7. QED BY <2>4, <2>5, <2>6
<1>4. QED BY <1>2, <1>3

\* Whoever waited for a settle goes on, and drops the registered turn if it is
\* still that one.
LEMMA SettleKeepsSession ==
  ASSUME Core, SameGeneration, PromptsHeld, SettledByPi, NEW s \in settles, SettleResume(s),
         UNCHANGED << current, os, received, piSettled >>
  PROVE  SameGeneration' /\ PromptsHeld' /\ SettledByPi'
<1>1. UNCHANGED << gateVars, launching >> /\ settles' \subseteq settles
  BY DEF SettleResume
<1>2. CASE ~SettleProves(s)
  <2>1. command' = command /\ released' = released
    BY <1>2 DEF SettleResume
  <2>2. SameGeneration'
    BY <1>1, <2>1 DEF SameGeneration, Engaged, gateVars
  <2>3. QED BY <1>1, <2>1, <2>2 DEF PromptsHeld, SettledByPi, gateVars
<1>3. CASE SettleProves(s)
  <2>1. command' = NoCommand /\ released' = released \cup {s.key}
    BY <1>3 DEF SettleResume
  <2>2. command.key = s.key /\ "settled" \in acked[s.key.intent]
    BY <1>3 DEF SettleProves, Core, Turns, SettlesAreReal
  <2>3. SameGeneration'
    BY <1>1, <2>1 DEF SameGeneration, Engaged, gateVars
  <2>4. PromptsHeld'
    BY <1>1, <2>2 DEF PromptsHeld, gateVars
  <2>5. SettledByPi'
    BY <1>1, <2>1 DEF SettledByPi, gateVars
  <2>6. QED BY <2>3, <2>4, <2>5
<1>4. QED BY <1>2, <1>3

-------------------------------------------------------------------------------
(* Steps of the process and its supervisor                                     *)

\* The current process goes only with its retirement.
LEMMA CurrentEnds ==
  ASSUME SupInv, NEW g \in Gens, OnExit(g) \/ RetireResumes(g)
  PROVE  /\ os' = os
         /\ current' = current \/ (current = g /\ current' = 0 /\ retired' # retired)
<1>1. current = g => g \notin retired
  BY DEF SupInv, HoldsLiveEntry
<1>2. CASE OnExit(g)
  BY <1>1, <1>2 DEF OnExit, ToIdle
<1>3. CASE Confirmed(g)
  BY <1>1, <1>3 DEF Confirmed, ToIdle
<1>4. CASE RetireResumes(g) /\ ~Confirmed(g)
  BY <1>4 DEF RetireResumes, EofElapsed, TermElapsed, KillElapsed
<1>5. QED BY <1>2, <1>3, <1>4, <1>1 DEF Confirmed, RetireResumes, EofElapsed, TermElapsed, KillElapsed

\* A generation ends, or a hand-over goes on: the session drops the turn and
\* closes the gate of the generation that is retired by it.
LEMMA EndKeeps ==
  ASSUME RpcInv, NEW g \in Gens, ProcessExit(g) \/ RetireGoesOn(g)
  PROVE  Core' /\ SameGeneration' /\ PromptsHeld' /\ SettledByPi'
<1>0. SupInv /\ Core /\ SameGeneration /\ PromptsHeld /\ SettledByPi
  BY DEF RpcInv
<1>1. /\ Finalize(g)
      /\ UNCHANGED << launching, settles, records, released, arrived, held, drained, received, piSettled >>
  BY DEF ProcessExit, RetireGoesOn
<1>2. /\ os' = os
      /\ current' = current \/ (current = g /\ current' = 0 /\ retired' # retired)
  BY <1>0, CurrentEnds DEF ProcessExit, RetireGoesOn
<1>3. CASE retired' = retired
  <2>1. UNCHANGED dispatchVars /\ current' = current
    BY <1>1, <1>2, <1>3 DEF Finalize, dispatchVars, coVars
  <2>2. Core'
    BY <1>0, <2>1, CoreStep
  <2>3. SameGeneration'
    BY <1>0, <2>1 DEF SameGeneration, Engaged, dispatchVars, coVars, gateVars
  <2>4. PromptsHeld' /\ SettledByPi'
    BY <1>0, <1>1, <1>2, <2>1 DEF PromptsHeld, SettledByPi, dispatchVars, coVars, gateVars
  <2>5. QED BY <2>2, <2>3, <2>4
<1>4. CASE retired' # retired
  <2>1. RetireCommand(g) /\ RetireGate
    BY <1>1, <1>4 DEF Finalize
  <2>2. /\ Core' /\ ~Engaged'
        /\ command' = IF command.key.gen = g THEN NoCommand ELSE command
        /\ UNCHANGED << pending, landed, acked >>
    BY <1>0, <1>1, <2>1, RetireCore
  <2>3. gate'.kind # "settling"
    BY <2>2 DEF Engaged
  <2>4. SettledByPi'
    BY <1>0, <1>1, <2>2, <2>3 DEF SettledByPi
  <2>5. CASE current' = current
    <3>1. CASE current = g
      <4>1. CASE OnExit(g) \/ Confirmed(g)
        <5>1. current' = 0 /\ g # 0
          BY <3>1, <4>1 DEF OnExit, Confirmed, ToIdle
        <5>2. QED BY <2>5, <3>1, <5>1
      <4>2. CASE ~(OnExit(g) \/ Confirmed(g))
        BY <1>4, <4>2 DEF ProcessExit, RetireGoesOn, RetireResumes, EofElapsed, TermElapsed, KillElapsed
      <4>3. QED BY <4>1, <4>2
    <3>2. CASE current # g
      <4>1. command' = command
        BY <1>0, <2>2, <3>2 DEF SameGeneration
      <4>2. QED BY <1>0, <1>1, <1>2, <2>2, <2>4, <2>5, <4>1 DEF SameGeneration, PromptsHeld
    <3>3. QED BY <3>1, <3>2
  <2>6. CASE current = g /\ current' = 0
    <3>1. ~Registered'
      BY <1>0, <2>2, <2>6 DEF SameGeneration
    <3>2. SameGeneration'
      BY <2>2, <3>1 DEF SameGeneration
    <3>3. PromptsHeld'
      BY <1>0, <1>1, <1>2, <2>2, <2>6 DEF PromptsHeld
    <3>4. QED BY <2>2, <2>4, <3>2, <3>3
  <2>7. QED BY <1>2, <2>5, <2>6
<1>5. QED BY <1>3, <1>4

\* A start finds nothing of an earlier generation.
LEMMA StartKeeps ==
  ASSUME RpcInv, NEW i \in Intents, SendStarts(i)
  PROVE  Core' /\ SameGeneration' /\ PromptsHeld' /\ SettledByPi'
<1>0. SupInv /\ Core /\ SameGeneration /\ PromptsHeld /\ SettledByPi
  BY DEF RpcInv
<1>1. /\ phase = "idle" /\ StartGate /\ UNCHANGED << coVars, received, piSettled >>
      /\ SpawnOk \/ SpawnThrows \/ SpawnExitsAtOnce
  BY DEF SendStarts
<1>2. current = 0 /\ nextGeneration \in Nat
  BY <1>0, <1>1 DEF SupInv, HoldsLiveEntry, SupTypeOK
<1>3. ~Registered /\ ~Engaged
  BY <1>0, <1>2 DEF SameGeneration, Core, CoTypes
<1>4. [CoNext]_dispatchVars
  BY <1>1 DEF StartGate, HostReopen, CoNext, dispatchVars
<1>5. Core'
  BY <1>0, <1>4, CoreStep
<1>6. ~Engaged' /\ UNCHANGED << pending, landed, acked, command, settles, launching, released >>
  BY <1>1, <1>3 DEF StartGate, Reopen, Engaged, gateVars, coVars
<1>7. SameGeneration'
  BY <1>3, <1>6 DEF SameGeneration
<1>8. PromptsHeld'
  <2>1. /\ current' = 0 \/ current' = nextGeneration + 1
        /\ \A g \in Gens : os[g] # "unborn" => os'[g] # "unborn"
    BY <1>0, <1>1, <1>2 DEF SpawnOk, SpawnThrows, SpawnExitsAtOnce, SupInv, SupTypeOK
  <2>2. \A g \in Gens : os[g] # "unborn" => g # nextGeneration + 1
    BY <1>0, <1>2 DEF SupInv, FutureIsBlank
  <2>3. \A k \in received : k \in Keys /\ os'[k.gen] # "unborn" /\ k.gen # current'
    BY <1>0, <2>1, <2>2 DEF PromptsHeld
  <2>4. QED BY <1>0, <1>1, <1>6, <2>3 DEF PromptsHeld
<1>9. SettledByPi'
  <2>1. gate'.kind # "settling"
    BY <1>6 DEF Engaged
  <2>2. QED BY <1>0, <1>1, <1>6, <2>1 DEF SettledByPi
<1>10. QED BY <1>5, <1>7, <1>8, <1>9

\* The first byte is written only for the turn that is registered and whose lines
\* are acknowledged.
LEMMA FirstByteKeeps ==
  ASSUME RpcInv, NEW i \in Intents, FirstByte(i)
  PROVE  PromptsHeld'
<1>0. Core /\ PromptsHeld /\ SupInv
  BY DEF RpcInv
<1>1. UNCHANGED << acked, command, current, os >>
  BY DEF FirstByte, gateVars, coVars, supVars
<1>2. CASE received' = received
  BY <1>0, <1>1, <1>2 DEF PromptsHeld
<1>3. CASE received' # received
  <2>1. /\ FirstByteValid(SendKey(i)) /\ os[current] = "alive"
        /\ received' = received \cup {SendKey(i)}
    BY <1>3 DEF FirstByte
  <2>2. /\ command.key = SendKey(i) /\ SendKey(i).gen = current
        /\ gate.kind = "in-flight" /\ gate.intent = SendKey(i).intent /\ SendKey(i).intent = i
    BY <2>1 DEF FirstByteValid, PermitFresh, SendKey
  <2>3. Registered
    BY <2>2
  <2>4. SendKey(i) \in Keys
    BY <1>0, <2>2, <2>3 DEF Core, CoTypes
  <2>5. Permitted(i)
    BY <1>0, <2>2 DEF Core, GateInv, PermitsAccounted
  <2>6. {"enqueue", "sending"} \subseteq acked[i]
    BY <1>0, <2>5 DEF Core, GateInv, UnsentVerdictSound
  <2>7. QED BY <1>0, <1>1, <2>1, <2>2, <2>4, <2>6 DEF PromptsHeld
<1>4. QED BY <1>2, <1>3

\* pi settles a prompt it has read: if a turn of its process is registered, it is
\* that one.
LEMMA PiSettlesKeeps ==
  ASSUME RpcInv, NEW k \in received, PiSettles(k)
  PROVE  Core' /\ SameGeneration' /\ PromptsHeld' /\ SettledByPi'
<1>0. SupInv /\ Core /\ SameGeneration /\ PromptsHeld /\ SettledByPi
  BY DEF RpcInv
<1>1. /\ k \in Keys /\ k.intent \notin piSettled
      /\ piSettled' = piSettled \cup {k.intent}
      /\ UNCHANGED << current, os, received >>
  BY <1>0 DEF PiSettles, PromptsHeld, supVars
<1>2. CASE RouteOpen(k.gen) /\ command.key.gen = k.gen
  <2>1. "settled" \notin acked[k.intent]
    BY <1>0, <1>1 DEF SettledByPi, Core, GateInv, AckedIsLanded
  <2>2. command.key = k /\ Registered
    BY <1>0, <1>1, <1>2, <2>1 DEF PromptsHeld, RouteOpen
  <2>3. SettledArrives
    BY <1>2 DEF PiSettles
  <2>4. Core' /\ CoreQuiet /\ SettledByPi'
    BY <1>0, <1>1, <2>2, <2>3, SettledArrivesKeeps
  <2>5. QED BY <1>0, <1>1, <2>4, QuietKeepsGeneration, QuietKeepsPrompts
<1>3. CASE ~(RouteOpen(k.gen) /\ command.key.gen = k.gen)
  <2>1. UNCHANGED dispatchVars
    BY <1>3 DEF PiSettles, dispatchVars
  <2>2. Core'
    BY <1>0, <2>1, CoreStep
  <2>3. SameGeneration'
    BY <1>0, <1>1, <2>1 DEF SameGeneration, Engaged, dispatchVars, coVars, gateVars
  <2>4. PromptsHeld'
    BY <1>0, <1>1, <2>1 DEF PromptsHeld, dispatchVars, coVars, gateVars
  <2>5. SettledByPi'
    BY <1>0, <1>1, <2>1 DEF SettledByPi, dispatchVars, coVars, gateVars
  <2>6. QED BY <2>2, <2>3, <2>4, <2>5
<1>4. QED BY <1>2, <1>3

-------------------------------------------------------------------------------
(* The invariant and the theorems                                              *)

LEMMA RpcInvInit == RpcInit => RpcInv
<1> SUFFICES ASSUME RpcInit PROVE RpcInv
  OBVIOUS
<1>1. CoInit /\ SupInit /\ received = {} /\ piSettled = {}
  BY DEF RpcInit
<1>2. SupInv
  BY <1>1, SupInvInit
<1>3. Core
  BY <1>1, CoInvInit DEF CoInv, Core, Turns
<1>4. SameGeneration /\ PromptsHeld /\ SettledByPi
  BY <1>1 DEF CoInit, GateInit, SameGeneration, Engaged, PromptsHeld, SettledByPi
<1>5. QED BY <1>2, <1>3, <1>4 DEF RpcInv

\* What the session adds to the invariants of its parts.
Session == Core /\ SameGeneration /\ PromptsHeld /\ SettledByPi

\* A step of the gate and the coordinator that keeps the registered turn.
LEMMA QuietKeepsSession ==
  ASSUME Session, CoNext, CoreQuiet, SettledByPi', UNCHANGED << current, os, received >>
  PROVE  Session'
<1>1. Core'
  BY CoreStep DEF Session
<1>2. SameGeneration' /\ PromptsHeld'
  BY <1>1, QuietKeepsGeneration, QuietKeepsPrompts DEF Session
<1>3. QED BY <1>1, <1>2 DEF Session

\* A step that leaves gate, coordinator and pi's prompts alone.
LEMMA ElsewhereKeepsSession ==
  ASSUME Session, UNCHANGED << gateVars, coVars, current, received, piSettled >>,
         \A g \in Gens : os[g] # "unborn" => os'[g] # "unborn"
  PROVE  Session'
<1>1. Core'
  BY CoreStep DEF Session, dispatchVars
<1>2. SameGeneration' /\ PromptsHeld' /\ SettledByPi'
  BY DEF Session, SameGeneration, PromptsHeld, SettledByPi, Engaged, gateVars, coVars
<1>3. QED BY <1>1, <1>2 DEF Session

LEMMA SessionStep == ASSUME RpcInv, [RpcNext]_rpcVars PROVE Session'
<1>0. Session /\ SupInv /\ Core /\ SameGeneration /\ PromptsHeld /\ SettledByPi
  BY DEF RpcInv, Session
<1>1. ASSUME NEW i \in Intents, SendStarts(i)
      PROVE  Session'
  BY <1>1, StartKeeps DEF Session
<1>2. ASSUME NEW i \in Intents, StartResumes(i) \/ StartGivesUp(i)
      PROVE  Session'
  <2>1. UNCHANGED << gateVars, coVars, current, os, received, piSettled >>
    BY <1>2 DEF StartResumes, StartGivesUp, BeginRetire, supVars
  <2>2. QED BY <1>0, <2>1, ElsewhereKeepsSession
<1>3. ASSUME NEW i \in Intents, SendSubmits(i)
      PROVE  Session'
  <2>1. UNCHANGED << current, os, received, piSettled >>
    BY <1>3 DEF SendSubmits, supVars
  <2>2. CASE MaySubmit /\ SubmitTurn(i, current)
    <3>1. current # 0 /\ current \in Gens
      BY <1>0, <2>2 DEF MaySubmit, SupInv, SupTypeOK
    <3>2. CoNext
      BY <2>2, <3>1 DEF CoNext
    <3>3. Core'
      BY <1>0, <3>2, CoreStep
    <3>4. QED BY <1>0, <2>1, <2>2, <3>1, <3>3, SubmitKeepsSession DEF Session
  <2>3. CASE UNCHANGED << gateVars, coVars >>
    BY <1>0, <2>1, <2>3, ElsewhereKeepsSession
  <2>4. QED BY <1>3, <2>2, <2>3 DEF SendSubmits
<1>4. ASSUME NEW i \in Intents, FirstByte(i)
      PROVE  Session'
  <2>1. PromptsHeld'
    BY <1>4, FirstByteKeeps
  <2>2. UNCHANGED << gateVars, coVars, current, piSettled >>
    BY <1>4 DEF FirstByte, supVars
  <2>3. Core'
    BY <1>0, <2>2, CoreStep DEF dispatchVars
  <2>4. SameGeneration' /\ SettledByPi'
    BY <1>0, <2>2 DEF SameGeneration, SettledByPi, Engaged, gateVars, coVars
  <2>5. QED BY <2>1, <2>3, <2>4 DEF Session
<1>5. ASSUME NEW c \in pending, JournalOk(c) \/ \E lands \in BOOLEAN : JournalFails(c, lands)
      PROVE  Session'
  <2>1. GateAppendOk(c) \/ \E lands \in BOOLEAN : GateAppendFail(c, lands)
    BY <1>5 DEF JournalOk, JournalFails
  <2>2. UNCHANGED << current, os, received, piSettled >>
    BY <1>5 DEF JournalOk, JournalFails, supVars
  <2>3. CoreQuiet /\ SettledByPi'
    BY <1>0, <2>1, <2>2, JournalQuiet
  <2>4. CoNext
    BY <2>1 DEF CoNext
  <2>5. QED BY <1>0, <2>2, <2>3, <2>4, QuietKeepsSession
<1>6. ASSUME NEW l \in launching, SendLaunches(l)
      PROVE  Session'
  <2>1. LaunchResume(l) /\ UNCHANGED << current, os, received, piSettled >>
    BY <1>6 DEF SendLaunches, supVars
  <2>2. CoNext
    BY <2>1 DEF CoNext
  <2>3. QED BY <1>0, <2>1, <2>2, CoreStep, LaunchKeepsSession DEF Session
<1>7. ASSUME NEW s \in settles, Settle(s)
      PROVE  Session'
  <2>1. SettleResume(s) /\ UNCHANGED << current, os, received, piSettled >>
    BY <1>7 DEF Settle, supVars, sessionVars
  <2>2. CoNext
    BY <2>1 DEF CoNext
  <2>3. QED BY <1>0, <2>1, <2>2, CoreStep, SettleKeepsSession DEF Session
<1>8. ASSUME \/ PollResponse \/ PollTurn
             \/ \E r \in records : RecordLands(r)
             \/ \E r \in records, lands \in BOOLEAN : RecordLost(r, lands)
      PROVE  Session'
  <2>1. \/ RecordTimeout \/ CheckTurnTimeout
        \/ \E r \in records : RecordOk(r)
        \/ \E r \in records, lands \in BOOLEAN : RecordFail(r, lands)
    BY <1>8 DEF PollResponse, PollTurn, RecordLands, RecordLost
  <2>2. UNCHANGED << current, os, received, piSettled >>
    BY <1>8 DEF PollResponse, PollTurn, RecordLands, RecordLost, supVars, sessionVars
  <2>3. CoreQuiet /\ SettledByPi'
    BY <1>0, <2>1, <2>2, RecordQuiet
  <2>4. CoNext
    BY <2>1 DEF CoNext
  <2>5. QED BY <1>0, <2>2, <2>3, <2>4, QuietKeepsSession
<1>9. ASSUME NEW k \in received, PiAnswers(k) \/ PiSpeaks(k)
      PROVE  Session'
  <2>1. k \in Keys
    BY <1>0 DEF PromptsHeld
  <2>2. OnRpcResponse(k) \/ OnPiEvent(k.gen)
    BY <1>9 DEF PiAnswers, PiSpeaks
  <2>3. UNCHANGED << current, os, received, piSettled >>
    BY <1>9 DEF PiAnswers, PiSpeaks, supVars, sessionVars
  <2>4. k.gen \in Gens
    BY <2>1
  <2>5. CoreQuiet /\ SettledByPi'
    BY <1>0, <2>1, <2>2, <2>3, <2>4, AnswerQuiet, EventQuiet
  <2>6. CoNext
    BY <2>1, <2>2, <2>4 DEF CoNext
  <2>7. QED BY <1>0, <2>3, <2>5, <2>6, QuietKeepsSession
<1>10. ASSUME NEW k \in received, PiSettles(k)
       PROVE  Session'
  BY <1>10, PiSettlesKeeps DEF Session
<1>11. ASSUME NEW g \in Gens, ProbeOk(g) \/ ProbeFails(g)
       PROVE  Session'
  <2>1. UNCHANGED << gateVars, coVars, current, os, received, piSettled >>
    BY <1>11 DEF ProbeOk, ProbeFails, supVars
  <2>2. QED BY <1>0, <2>1, ElsewhereKeepsSession
<1>12. ASSUME NEW g \in Gens, ProcessDies(g)
       PROVE  Session'
  <2>1. UNCHANGED << gateVars, coVars, current, received, piSettled >>
    BY <1>12 DEF ProcessDies, OsExit, sessionVars
  <2>2. \A h \in Gens : os[h] # "unborn" => os'[h] # "unborn"
    BY <1>0, <1>12 DEF ProcessDies, OsExit, SupInv, SupTypeOK
  <2>3. QED BY <1>0, <2>1, <2>2, ElsewhereKeepsSession
<1>13. ASSUME NEW g \in Gens, ProcessExit(g) \/ RetireGoesOn(g)
       PROVE  Session'
  BY <1>13, EndKeeps DEF Session
<1>14. CASE Stop \/ Reap
  <2>1. UNCHANGED << gateVars, coVars, current, os, received, piSettled >>
    BY <1>14 DEF Stop, Reap, BeginRetire, sessionVars
  <2>2. QED BY <1>0, <2>1, ElsewhereKeepsSession
<1>15. CASE UNCHANGED rpcVars
  <2>1. UNCHANGED << gateVars, coVars, current, os, received, piSettled >>
    BY <1>15 DEF rpcVars, supVars, sessionVars
  <2>2. QED BY <1>0, <2>1, ElsewhereKeepsSession
<1>16. QED
  BY <1>1, <1>2, <1>3, <1>4, <1>5, <1>6, <1>7, <1>8, <1>9, <1>10, <1>11, <1>12, <1>13, <1>14, <1>15
  DEF RpcNext

LEMMA RpcInvStep == RpcInv /\ [RpcNext]_rpcVars => RpcInv'
<1> SUFFICES ASSUME RpcInv, [RpcNext]_rpcVars PROVE RpcInv'
  OBVIOUS
<1>1. [SupNext]_supVars
  BY RpcStepsSupervisor DEF rpcVars
<1>2. SupInv'
  BY <1>1, SupInvStep DEF RpcInv
<1>3. QED BY <1>2, SessionStep DEF RpcInv, Session

LEMMA RpcInvariant == RpcSpec => []RpcInv
BY RpcInvInit, RpcInvStep, PTL DEF RpcSpec

\* When the supervisor may spawn, nothing of an earlier generation is registered
\* or engaged, whichever of exit, hand-over and fsync came first: IdleIsClean.
THEOREM IdleAlwaysClean == RpcSpec => []IdleIsClean
<1>1. ASSUME RpcInv, phase = "idle" PROVE command = NoCommand /\ ~Engaged
  <2>1. current = 0
    BY <1>1 DEF RpcInv, SupInv, HoldsLiveEntry
  <2>2. ~Engaged
    BY <1>1, <2>1 DEF RpcInv, SameGeneration
  <2>3. ~Registered
    BY <1>1, <2>1 DEF RpcInv, SameGeneration, Core, CoTypes
  <2>4. QED BY <2>2, <2>3
<1>2. RpcInv => IdleIsClean BY <1>1 DEF IdleIsClean
<1>3. QED BY <1>2, RpcInvariant, PTL

\* Of two prompts pi has read one is settled or its process dead, over any number
\* of restarts of the process: OnePromptAtATime.
THEOREM NeverTwoPrompts == RpcSpec => []OnePromptAtATime
<1>1. ASSUME RpcInv, NEW k \in received, NEW m \in received, k # m
      PROVE  Over(k) \/ Over(m)
  <2>1. \A n \in received : n \in Keys /\ (Over(n) \/ (n.gen = current /\ command.key = n))
    <3>1. ASSUME NEW n \in received PROVE n \in Keys /\ (Over(n) \/ n.gen = current)
      <4>1. n \in Keys /\ os[n.gen] # "unborn"
        BY <1>1 DEF RpcInv, PromptsHeld
      <4>2. os[n.gen] = "alive" => n.gen = current
        BY <1>1, <4>1 DEF RpcInv, SupInv, NoOrphan
      <4>3. os[n.gen] \in {"unborn", "alive", "dead"}
        BY <1>1, <4>1 DEF RpcInv, SupInv, SupTypeOK
      <4>4. QED BY <4>1, <4>2, <4>3 DEF Over
    <3>2. QED BY <1>1, <3>1 DEF RpcInv, PromptsHeld, Over
  <2>2. QED BY <1>1, <2>1
<1>2. RpcInv => OnePromptAtATime BY <1>1 DEF OnePromptAtATime
<1>3. QED BY <1>2, RpcInvariant, PTL

\* A settled line and a reported completion are of the prompt pi settled, although
\* agent_settled carries no id: AttributionSound.
THEOREM AttributionAlwaysSound == RpcSpec => []AttributionSound
<1>1. RpcInv => AttributionSound BY DEF RpcInv, SettledByPi, AttributionSound
<1>2. QED BY <1>1, RpcInvariant, PTL

\* pi reads nothing whose two lines were not acknowledged before: FirstByteJournalled.
THEOREM JournalledBeforeRead == RpcSpec => []FirstByteJournalled
<1>1. RpcInv => FirstByteJournalled BY DEF RpcInv, PromptsHeld, FirstByteJournalled
<1>2. QED BY <1>1, RpcInvariant, PTL

\* What the parts promise alone they keep in the session: no orphan process, two
\* turns never open at once, every suspended call the one the gate waits for, the
\* slot with its registration.
THEOREM PartsKeepTheirWord ==
  RpcSpec => [](NoOrphan /\ OneOpenTurn /\ WaitsForOneCall /\ SlotOwned /\ SameTurn)
<1>1. ASSUME RpcInv PROVE NoOrphan /\ OneOpenTurn /\ WaitsForOneCall /\ SlotOwned /\ SameTurn
  <2>1. NoOrphan
    BY <1>1 DEF RpcInv, SupInv
  <2>2. OneOpenTurn /\ WaitsForOneCall
    BY <1>1 DEF RpcInv, Core, GateInv, GateTypeOK, OneLiveCall, WaitsForOneCall, LiveCalls
  <2>3. SlotOwned /\ SameTurn
    BY <1>1 DEF RpcInv, Core, Turns, TurnsAgree, SameTurn
  <2>4. QED BY <2>1, <2>2, <2>3
<1>2. QED BY <1>1, RpcInvariant, PTL
===============================================================================
