------------------------------- MODULE TurnGate -------------------------------
(***************************************************************************)
(* The turn barrier of a session: packages/protocol/src/turn-gate.ts.      *)
(*                                                                         *)
(* A user turn may reach the pi process only after two journal lines,      *)
(* `enqueue' and `sending', have been fsynced, and the barrier is released *)
(* only by an fsynced `settled' line.  Every fsync is an await: between    *)
(* the call and its continuation the host may close and reopen the gate,   *)
(* which makes the waiting operation stale.                                *)
(*                                                                         *)
(* One action is one synchronous segment of the code, from an entry point  *)
(* or a resumed await to the next await.  `pending' holds the suspended    *)
(* calls, each with the line it waits for and the opEpoch it captured.     *)
(* The journal is reached through the DurabilityPort interface: an append  *)
(* that is rejected may still have left its line in the file, and a port   *)
(* that failed once rejects everything until it is repaired.               *)
(***************************************************************************)
EXTENDS Naturals

CONSTANTS
  Intents,   \* intent ids; the session numbers them, each is submitted once
  NoIntent,  \* "no intent owns the barrier"
  MaxEpoch   \* bound: how often the host closes or reopens the gate

ASSUME GateAssumption == NoIntent \notin Intents /\ MaxEpoch \in Nat

VARIABLES
  gate,       \* TurnGate.state
  opEpoch,    \* TurnGate.opEpoch
  pending,    \* calls suspended on an append: the line, its intent, the epoch
  used,       \* intents submit() has taken
  landed,     \* landed[i]: kinds of lines of i present in the journal file
  acked,      \* acked[i]: kinds of lines of i whose append resolved
  portFailed, \* the durability port is in its failed state
  permits     \* history: intents `submit' returned "send" for, with the epoch

gateVars == << gate, opEpoch, pending, used, landed, acked, portFailed, permits >>

LineKinds == {"enqueue", "sending", "settled", "response-timeout"}
CloseReasons ==
  {"durability-failure", "turn-timeout", "buffer-overflow",
   "generation-retired", "manual"}
Epochs == 0 .. MaxEpoch

GateState(kind, i, why) == [kind |-> kind, intent |-> i, accepted |-> FALSE, reason |-> why]
Idle == GateState("idle", NoIntent, "none")
Closed(why) == GateState("closed", NoIntent, why)
Owned(kind, i) == GateState(kind, i, "none")

GateStates ==
  [kind : {"idle", "closed", "dispatching", "in-flight", "settling"},
   intent : Intents \cup {NoIntent},
   accepted : BOOLEAN,
   reason : CloseReasons \cup {"none"}]

Calls == [line : {"enqueue", "sending", "settled"}, intent : Intents, epoch : Epochs]
Permits == [intent : Intents, epoch : Epochs]

GateTypeOK ==
  /\ gate \in GateStates
  /\ (gate.intent = NoIntent) = (gate.kind \in {"idle", "closed"})
  /\ opEpoch \in Epochs
  /\ pending \subseteq Calls
  /\ used \subseteq Intents
  /\ landed \in [Intents -> SUBSET LineKinds]
  /\ acked \in [Intents -> SUBSET LineKinds]
  /\ portFailed \in BOOLEAN
  /\ permits \subseteq Permits

GateInit ==
  /\ gate = Idle
  /\ opEpoch = 0
  /\ pending = {}
  /\ used = {}
  /\ landed = [i \in Intents |-> {}]
  /\ acked = [i \in Intents |-> {}]
  /\ portFailed = FALSE
  /\ permits = {}

-------------------------------------------------------------------------------
Call(line, i) == [line |-> line, intent |-> i, epoch |-> opEpoch]
NextLine(c) == [c EXCEPT !.line = "sending"]

\* Mutant: a resumed call does not compare the epoch it captured.
LiveAlways(c) == TRUE
\* The resumed call still owns the gate: no close or reopen since its append.
Live(c) == c.epoch = opEpoch

\* submit() up to its first await; on a gate that is not idle it returns at once
\* and leaves no trace.
Submit(i) ==
  /\ i \notin used
  /\ gate = Idle
  /\ used' = used \cup {i}
  /\ gate' = Owned("dispatching", i)
  /\ pending' = pending \cup {Call("enqueue", i)}
  /\ UNCHANGED << opEpoch, landed, acked, portFailed, permits >>

\* Mutant: the permit is handed out after the first fsync.
ResumeEnqueueEarly(c) ==
  /\ pending' = pending \ {c}
  /\ IF Live(c) /\ gate.kind = "dispatching"
     THEN /\ gate' = Owned("in-flight", c.intent)
          /\ permits' = permits \cup {[intent |-> c.intent, epoch |-> opEpoch]}
     ELSE UNCHANGED << gate, permits >>
\* submit() after the enqueue line is durable: on to the second append.
ResumeEnqueue(c) ==
  /\ pending' = IF Live(c) /\ gate.kind = "dispatching"
                THEN (pending \ {c}) \cup {NextLine(c)}
                ELSE pending \ {c}
  /\ UNCHANGED << gate, permits >>

\* submit() after the sending line is durable: the permit is returned.
ResumeSending(c) ==
  /\ pending' = pending \ {c}
  /\ IF Live(c) /\ gate.kind = "dispatching"
     THEN /\ gate' = Owned("in-flight", c.intent)
          /\ permits' = permits \cup {[intent |-> c.intent, epoch |-> opEpoch]}
     ELSE UNCHANGED << gate, permits >>

\* The settle that resumes is the one the gate waits for.
OwnsSettling(c) == Live(c) /\ gate.kind = "settling" /\ gate.intent = c.intent

\* onTurnSettled() after the settled line is durable: the barrier is released.
ResumeSettled(c) ==
  /\ pending' = pending \ {c}
  /\ gate' = IF OwnsSettling(c) THEN Idle ELSE gate
  /\ UNCHANGED permits

\* The append of c resolves.
AppendOk(c) ==
  /\ c \in pending
  /\ ~portFailed
  /\ landed' = [landed EXCEPT ![c.intent] = @ \cup {c.line}]
  /\ acked' = [acked EXCEPT ![c.intent] = @ \cup {c.line}]
  /\ \/ c.line = "enqueue" /\ ResumeEnqueue(c)
     \/ c.line = "sending" /\ ResumeSending(c)
     \/ c.line = "settled" /\ ResumeSettled(c)
  /\ UNCHANGED << opEpoch, used, portFailed >>

\* A rejected append closes the gate, unless the gate has changed hands.
AfterFailure(c) == IF Live(c) THEN Closed("durability-failure") ELSE gate

\* The append of c is rejected; `lands' says whether the line is in the file.
AppendFail(c, lands) ==
  /\ c \in pending
  /\ portFailed => ~lands
  /\ landed' = IF lands THEN [landed EXCEPT ![c.intent] = @ \cup {c.line}] ELSE landed
  /\ portFailed' = TRUE
  /\ pending' = pending \ {c}
  /\ gate' = AfterFailure(c)
  /\ UNCHANGED << opEpoch, used, acked, permits >>

\* onAccepted(): the RPC receipt is noted, the barrier stays.
OnAccepted ==
  /\ gate.kind = "in-flight"
  /\ ~gate.accepted
  /\ gate' = [gate EXCEPT !.accepted = TRUE]
  /\ UNCHANGED << opEpoch, pending, used, landed, acked, portFailed, permits >>

\* Mutant: the barrier is released when the settled line is requested.
OnTurnSettledEager ==
  /\ gate.kind = "in-flight"
  /\ gate' = Idle
  /\ pending' = pending \cup {Call("settled", gate.intent)}
  /\ UNCHANGED << opEpoch, used, landed, acked, portFailed, permits >>
\* onTurnSettled() up to its await.
OnTurnSettled ==
  /\ gate.kind = "in-flight"
  /\ gate' = Owned("settling", gate.intent)
  /\ pending' = pending \cup {Call("settled", gate.intent)}
  /\ UNCHANGED << opEpoch, used, landed, acked, portFailed, permits >>

\* Mutant: the turn timeout is never acted on.
CheckTimeoutSkipped == FALSE /\ UNCHANGED gateVars
\* Mutant: the closed state is spread from the turn it replaces.
CheckTimeoutSpread ==
  /\ gate.kind = "in-flight"
  /\ gate' = [gate EXCEPT !.kind = "closed", !.reason = "turn-timeout"]
  /\ UNCHANGED << opEpoch, pending, used, landed, acked, portFailed, permits >>
\* checkTimeout() past the limit; the clock is any time.
CheckTimeout ==
  /\ gate.kind = "in-flight"
  /\ gate' = Closed("turn-timeout")
  /\ UNCHANGED << opEpoch, pending, used, landed, acked, portFailed, permits >>

\* close(): every suspended call becomes stale.
Close(why) ==
  /\ opEpoch < MaxEpoch
  /\ opEpoch' = opEpoch + 1
  /\ gate' = Closed(why)
  /\ UNCHANGED << pending, used, landed, acked, portFailed, permits >>

\* reopen(): only a closed gate.
Reopen ==
  /\ gate.kind = "closed"
  /\ opEpoch < MaxEpoch
  /\ opEpoch' = opEpoch + 1
  /\ gate' = Idle
  /\ UNCHANGED << pending, used, landed, acked, portFailed, permits >>

\* The host makes the journal safe to append to again.
Repair ==
  /\ portFailed
  /\ portFailed' = FALSE
  /\ UNCHANGED << gate, opEpoch, pending, used, landed, acked, permits >>

DiskAnswers == \E c \in pending : AppendOk(c) \/ \E lands \in BOOLEAN : AppendFail(c, lands)

GateNext ==
  \/ \E i \in Intents : Submit(i)
  \/ \E c \in pending : AppendOk(c)
  \/ \E c \in pending, lands \in BOOLEAN : AppendFail(c, lands)
  \/ OnAccepted
  \/ OnTurnSettled
  \/ CheckTimeout
  \/ \E why \in CloseReasons \ {"turn-timeout"} : Close(why)
  \/ Reopen
  \/ Repair

GateSpec == GateInit /\ [][GateNext]_gateVars

\* Every append eventually answers, and the host polls the turn timeout.
GateFairness == WF_gateVars(DiskAnswers) /\ WF_gateVars(CheckTimeout)
GateLiveSpec == GateSpec /\ GateFairness

-------------------------------------------------------------------------------
(* Properties *)

LiveCalls == {c \in pending : c.epoch = opEpoch}
PermitOf(i) == [intent |-> i, epoch |-> opEpoch]
Permitted(i) == \E p \in permits : p.intent = i

\* The barrier is never wedged: a gate that is dispatching or settling has
\* exactly one suspended call that will move it on, and no other gate has a
\* call that could still touch it, whatever closes and reopens came between.
WaitsForOneCall ==
  IF gate.kind \in {"dispatching", "settling"}
  THEN \E c \in pending :
         /\ LiveCalls = {c}
         /\ c.intent = gate.intent
         /\ (c.line = "settled") = (gate.kind = "settling")
  ELSE LiveCalls = {}

\* Recovery may treat an intent without a `sending' line in the file as never
\* sent: a permit was only ever returned with both lines acknowledged.
UnsentVerdictSound ==
  \A i \in Intents : Permitted(i) => {"enqueue", "sending"} \subseteq acked[i] \cap landed[i]

\* A `settled' line in the file, acknowledged or not, belongs to a turn that was
\* really handed to the process.
SettledWasSent ==
  \A i \in Intents : "settled" \in landed[i] => Permitted(i)

\* Two turns are never open at once: of two permits returned without a close or
\* reopen between them, one has its settled line acknowledged.
OneOpenTurn ==
  \A p, q \in permits :
    p.epoch = q.epoch /\ p # q =>
      "settled" \in acked[p.intent] \/ "settled" \in acked[q.intent]

\* An open turn ends in exactly two ways: its own settled line is acknowledged,
\* or the gate closes; no continuation of another turn releases it.
ReleaseIsEarned ==
  [][\A i \in Intents :
       gate.kind \in {"in-flight", "settling"} /\ gate.intent = i =>
         \/ gate'.intent = i /\ gate'.kind \in {"in-flight", "settling"}
         \/ gate'.kind = "closed"
         \/ gate'.kind = "idle" /\ "settled" \in acked'[i]]_gateVars

\* Every turn ends: no submission leaves the barrier engaged for ever.
TurnEnds == (gate.kind \in {"dispatching", "in-flight", "settling"}) ~> (gate.kind \in {"idle", "closed"})

===============================================================================
