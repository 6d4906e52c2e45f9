------------------------- MODULE DispatchCoordinator -------------------------
(***************************************************************************)
(* The dispatch coordinator: packages/protocol/src/dispatch-coordinator.ts,*)
(* on top of the turn gate it calls.                                       *)
(*                                                                         *)
(* It attributes what a pi process says (responses, agent_settled, other   *)
(* events) to the one turn in flight, buffers what arrives before the      *)
(* response, and records a response timeout durably before acting on it.   *)
(* Each public method is split at its awaits: `launching', `settles' and   *)
(* `records' hold the suspended callers, and between a result becoming     *)
(* available and its caller resuming anything else may run.                *)
(*                                                                         *)
(* A command id is issued together with its intent id, so one intent name  *)
(* stands for both; a key is the intent with the process generation.       *)
(* Clocks are abstracted: a limit may be found exceeded at any time.       *)
(***************************************************************************)
EXTENDS TurnGate, Generations, Sequences, FiniteSets

CONSTANTS
  MaxBuffered,  \* maxBufferedEvents
  MaxEvents     \* bound: events the processes emit, numbered in order of arrival

ASSUME CoordinatorAssumption ==
  MaxBuffered \in Nat /\ MaxEvents \in Nat

VARIABLES
  command,    \* DispatchCoordinator.command
  coEpoch,    \* DispatchCoordinator.opEpoch
  slot,       \* DispatchCoordinator.timeoutPendingKey
  launching,  \* submitTurn calls awaiting gate.submit, with its verdict
  settles,    \* callers awaiting gate.onTurnSettled, with its result
  records,    \* checkResponseTimeout calls awaiting their append
  released,   \* history: keys some caller was told are settled
  arrived,    \* history: number of events that arrived
  held,       \* history: which event was buffered under which key
  drained     \* history: events handed to onBufferDrain, in order

coVars == << command, coEpoch, slot, launching, settles, records, released, arrived, held, drained >>
dispatchVars == << gateVars, coVars >>

Keys == [intent : Intents, gen : Gens]
NoKey == [intent |-> NoIntent, gen |-> 0]
NoCommand == [key |-> NoKey, phase |-> "none", bufSettled |-> FALSE, buf |-> << >>]
Phases == {"awaiting-response", "run-open", "response-timed-out"}
Results == {"settled", "invalidated", "durability-failure", "not-in-flight"}

\* coEpoch only moves when a registration is dropped, once per intent.
CoEpochs == 0 .. Cardinality(Intents)

CoTypeOK ==
  /\ \/ command = NoCommand
     \/ /\ command.key \in Keys
        /\ command.phase \in Phases
        /\ command.bufSettled \in BOOLEAN
        /\ command.buf \in Seq(1 .. MaxEvents)
        /\ Len(command.buf) <= MaxBuffered
  /\ coEpoch \in CoEpochs
  /\ slot \in Keys \cup {NoKey}
  /\ launching \subseteq [key : Keys, verdict : {"waiting", "send"}]
  /\ settles \subseteq [key : Keys, epoch : CoEpochs, result : Results \cup {"waiting"}]
  /\ records \subseteq [key : Keys, epoch : CoEpochs]
  /\ released \subseteq Keys
  /\ arrived \in 0 .. MaxEvents
  /\ held \subseteq (1 .. MaxEvents) \X Keys
  /\ drained \in Seq(1 .. MaxEvents)

CoInit ==
  /\ GateInit
  /\ command = NoCommand
  /\ coEpoch = 0
  /\ slot = NoKey
  /\ launching = {}
  /\ settles = {}
  /\ records = {}
  /\ released = {}
  /\ arrived = 0
  /\ held = {}
  /\ drained = << >>

-------------------------------------------------------------------------------
Registration(k) ==
  [key |-> k, phase |-> "awaiting-response", bufSettled |-> FALSE, buf |-> << >>]

\* submitTurn() up to its await: the busy check, then gate.submit.  Refused by
\* either, the call returns and leaves no trace.
SubmitTurn(i, g) ==
  /\ command = NoCommand
  /\ Submit(i)
  /\ launching' = launching \cup {[key |-> [intent |-> i, gen |-> g], verdict |-> "waiting"]}
  /\ UNCHANGED << command, coEpoch, slot, settles, records, released, arrived, held, drained >>

\* A caller of gate.onTurnSettled learns the result of its append.
Answered(c, result) ==
  {IF s.result = "waiting" /\ s.key.intent = c.intent
   THEN [s EXCEPT !.result = result] ELSE s : s \in settles}
\* A caller of gate.submit that gets no permit returns to its own caller.
Refused(c) == {l \in launching : l.key.intent # c.intent}
Granted(c) ==
  {IF l.key.intent = c.intent THEN [l EXCEPT !.verdict = "send"] ELSE l : l \in launching}

\* A gate append resolves: the gate resumes, its caller's promise is settled.
GateAppendOk(c) ==
  /\ AppendOk(c)
  /\ IF c.line = "settled"
     THEN /\ settles' = Answered(c, IF OwnsSettling(c) THEN "settled" ELSE "invalidated")
          /\ UNCHANGED launching
     ELSE /\ launching' = IF permits' # permits THEN Granted(c)
                          ELSE IF NextLine(c) \in pending' THEN launching ELSE Refused(c)
          /\ UNCHANGED settles
  /\ UNCHANGED << command, coEpoch, slot, records, released, arrived, held, drained >>

\* A gate append is rejected.
GateAppendFail(c, lands) ==
  /\ AppendFail(c, lands)
  /\ IF c.line = "settled"
     THEN /\ settles' = Answered(c, IF Live(c) THEN "durability-failure" ELSE "invalidated")
          /\ UNCHANGED launching
     ELSE /\ launching' = Refused(c)
          /\ UNCHANGED settles
  /\ UNCHANGED << command, coEpoch, slot, records, released, arrived, held, drained >>

\* Mutant: the permit is trusted without looking at the gate again.
PermitTrusted(k) == TRUE
\* The permit is still the gate's present state.
PermitFresh(k) == gate.kind = "in-flight" /\ gate.intent = k.intent

\* submitTurn() resumed with a permit: register, or give the permit up.
LaunchResume(l) ==
  /\ l \in launching
  /\ l.verdict = "send"
  /\ launching' = launching \ {l}
  /\ IF PermitFresh(l.key)
     THEN command' = Registration(l.key)
     ELSE UNCHANGED command
  /\ UNCHANGED << gateVars, coEpoch, slot, settles, records, released, arrived, held, drained >>

\* Await gate.onTurnSettled on behalf of k.
BeginSettle(k) ==
  \/ /\ OnTurnSettled
     /\ settles' = settles \cup {[key |-> k, epoch |-> coEpoch, result |-> "waiting"]}
  \/ /\ gate.kind # "in-flight"
     /\ settles' = settles \cup {[key |-> k, epoch |-> coEpoch, result |-> "not-in-flight"]}
     /\ UNCHANGED gateVars

\* gate.onAccepted().
GateAccepted ==
  IF gate.kind = "in-flight" /\ ~gate.accepted THEN OnAccepted ELSE UNCHANGED gateVars

\* The registration once the response has opened the run.
Opened(cmd) == [cmd EXCEPT !.phase = "run-open", !.buf = << >>]

\* Mutant: a settled event that came before the response is forgotten.
OnRpcResponseForgets(k) ==
  /\ command.key = k
  /\ command.phase = "awaiting-response"
  /\ command' = Opened(command)
  /\ drained' = drained \o command.buf
  /\ GateAccepted
  /\ UNCHANGED << coEpoch, slot, launching, settles, records, released, arrived, held >>
\* onRpcResponse(ok): anything but the awaited success leaves no trace here.
OnRpcResponse(k) ==
  /\ command.key = k
  /\ command.phase = "awaiting-response"
  /\ IF command.bufSettled
     THEN /\ command' = [command EXCEPT !.phase = "run-open"]
          /\ BeginSettle(k)
          /\ UNCHANGED drained
     ELSE /\ command' = Opened(command)
          /\ drained' = drained \o command.buf
          /\ GateAccepted
          /\ UNCHANGED settles
  /\ UNCHANGED << coEpoch, slot, launching, records, released, arrived, held >>

\* onSettledEvent(): without a command id the event is the registration's own.
OnSettledEvent(g) ==
  /\ command.key.gen = g
  /\ ~command.bufSettled \/ command.phase = "response-timed-out"
  /\ IF command.phase = "awaiting-response"
     THEN /\ command' = [command EXCEPT !.bufSettled = TRUE]
          /\ UNCHANGED << gateVars, settles >>
     ELSE /\ BeginSettle(command.key)
          /\ UNCHANGED command
  /\ UNCHANGED << coEpoch, slot, launching, records, released, arrived, held, drained >>

\* Mutant: the caller does not check that the registration is still its own.
SettleTrusted(s) == s.result = "settled" /\ command # NoCommand
\* The settle proves that the registration itself is settled.
SettleProves(s) == s.epoch = coEpoch /\ s.result = "settled" /\ command.key = s.key

\* Mutant: finishSettle() leaves the time-out slot alone.
SlotKept(k) == slot
\* A slot is given back by whoever drops the registration that owns it.
SlotWithout(k) == IF slot = k THEN NoKey ELSE slot

\* finishSettle() hands over the latest buffer.
BufferAtSettle(cmd) == cmd.buf

\* A caller of gate.onTurnSettled resumes: finishSettle().
SettleResume(s) ==
  /\ s \in settles
  /\ s.result # "waiting"
  /\ settles' = settles \ {s}
  /\ IF SettleProves(s)
     THEN /\ command' = NoCommand
          /\ slot' = SlotWithout(s.key)
          /\ drained' = drained \o BufferAtSettle(command)
          /\ released' = released \cup {s.key}
     ELSE UNCHANGED << command, slot, drained, released >>
  /\ UNCHANGED << gateVars, coEpoch, launching, records, arrived, held >>

\* Mutant: what came last is put first.
BufferedInFront(cmd, e) == [cmd EXCEPT !.buf = << e >> \o @]
\* An event goes behind those that are buffered.
Buffered(cmd, e) == [cmd EXCEPT !.buf = Append(@, e)]

\* The buffer has reached maxBufferedEvents.
BufferFull == Len(command.buf) >= MaxBuffered

\* onPiEvent(): deliver at once, buffer, or close the gate when the buffer is full.
\* An event of another generation is dropped and leaves no trace.
OnPiEvent(g) ==
  /\ command.key.gen = g
  /\ arrived < MaxEvents
  /\ arrived' = arrived + 1
  /\ IF command.phase = "run-open"
     THEN UNCHANGED << gateVars, command, held >>
     ELSE IF BufferFull
     THEN Close("buffer-overflow") /\ UNCHANGED << command, held >>
     ELSE /\ command' = Buffered(command, arrived')
          /\ held' = held \cup {<< arrived', command.key >>}
          /\ UNCHANGED gateVars
  /\ UNCHANGED << coEpoch, slot, launching, settles, records, released, drained >>

\* checkResponseTimeout() past the limit, up to its append.
RecordTimeout ==
  /\ command.phase = "awaiting-response"
  /\ slot = NoKey
  /\ slot' = command.key
  /\ records' = records \cup {[key |-> command.key, epoch |-> coEpoch]}
  /\ UNCHANGED << gateVars, command, coEpoch, launching, settles, released,
                  arrived, held, drained >>

\* The registration is still the one whose time-out is being recorded.
RecordOwns(r) == r.epoch = coEpoch /\ command.key = r.key

\* Mutant: a turn whose response timed out frees the barrier.
RecordOkReleases(r) ==
  /\ r \in records
  /\ ~portFailed
  /\ records' = records \ {r}
  /\ slot' = SlotWithout(r.key)
  /\ landed' = [landed EXCEPT ![r.key.intent] = @ \cup {"response-timeout"}]
  /\ acked' = [acked EXCEPT ![r.key.intent] = @ \cup {"response-timeout"}]
  /\ IF RecordOwns(r) /\ command.phase = "awaiting-response"
     THEN command' = NoCommand /\ gate' = Idle
     ELSE UNCHANGED << command, gate >>
  /\ UNCHANGED << pending, settles, opEpoch, used, portFailed, permits, coEpoch,
                  launching, released, arrived, held, drained >>
\* checkResponseTimeout() with the record durable.
RecordOk(r) ==
  /\ r \in records
  /\ ~portFailed
  /\ records' = records \ {r}
  /\ slot' = SlotWithout(r.key)
  /\ landed' = [landed EXCEPT ![r.key.intent] = @ \cup {"response-timeout"}]
  /\ acked' = [acked EXCEPT ![r.key.intent] = @ \cup {"response-timeout"}]
  /\ IF RecordOwns(r) /\ command.phase = "awaiting-response"
     THEN command' = [command EXCEPT !.phase = "response-timed-out"]
     ELSE UNCHANGED command
  /\ IF RecordOwns(r) /\ command.phase = "awaiting-response" /\ command.bufSettled
     THEN \/ /\ gate.kind = "in-flight"
             /\ gate' = Owned("settling", gate.intent)
             /\ pending' = pending \cup {Call("settled", gate.intent)}
             /\ settles' = settles \cup {[key |-> r.key, epoch |-> coEpoch, result |-> "waiting"]}
          \/ /\ gate.kind # "in-flight"
             /\ settles' = settles \cup {[key |-> r.key, epoch |-> coEpoch, result |-> "not-in-flight"]}
             /\ UNCHANGED << gate, pending >>
     ELSE UNCHANGED << gate, pending, settles >>
  /\ UNCHANGED << opEpoch, used, portFailed, permits, coEpoch, launching, released, arrived, held, drained >>

\* checkResponseTimeout() with the record rejected: its turn, if it is still the
\* one registered, closes the gate.
RecordFail(r, lands) ==
  /\ r \in records
  /\ portFailed => ~lands
  /\ records' = records \ {r}
  /\ slot' = SlotWithout(r.key)
  /\ portFailed' = TRUE
  /\ landed' = IF lands THEN [landed EXCEPT ![r.key.intent] = @ \cup {"response-timeout"}]
               ELSE landed
  /\ IF RecordOwns(r)
     THEN opEpoch < MaxEpoch /\ opEpoch' = opEpoch + 1 /\ gate' = Closed("durability-failure")
     ELSE UNCHANGED << opEpoch, gate >>
  /\ UNCHANGED << pending, used, acked, permits, command, coEpoch, launching, settles,
                  released, arrived, held, drained >>

\* checkTurnTimeout().
CheckTurnTimeout == CheckTimeout /\ UNCHANGED coVars

\* Drop the registration; whoever waits on it becomes stale.
DropCommand ==
  /\ coEpoch' = coEpoch + 1
  /\ slot' = SlotWithout(command.key)
  /\ command' = NoCommand

\* onGenerationRetired() for the generation of the registration.
OnGenerationRetired(g) ==
  /\ command.key.gen = g
  /\ DropCommand
  /\ UNCHANGED << gateVars, launching, settles, records, released, arrived, held, drained >>

\* abandonHeld(): only with the gate closed or idle.
AbandonHeld ==
  /\ command # NoCommand
  /\ gate.kind \in {"closed", "idle"}
  /\ DropCommand
  /\ UNCHANGED << gateVars, launching, settles, records, released, arrived, held, drained >>

\* The host's own calls on the gate.
HostClose(why) == Close(why) /\ UNCHANGED coVars
HostReopen == Reopen /\ UNCHANGED coVars
HostRepair == Repair /\ UNCHANGED coVars

CoNext ==
  \/ \E i \in Intents, g \in Gens : SubmitTurn(i, g)
  \/ \E c \in pending : GateAppendOk(c)
  \/ \E c \in pending, lands \in BOOLEAN : GateAppendFail(c, lands)
  \/ \E l \in launching : LaunchResume(l)
  \/ \E k \in Keys : OnRpcResponse(k)
  \/ \E g \in Gens : OnSettledEvent(g)
  \/ \E s \in settles : SettleResume(s)
  \/ \E g \in Gens : OnPiEvent(g)
  \/ RecordTimeout
  \/ \E r \in records : RecordOk(r)
  \/ \E r \in records, lands \in BOOLEAN : RecordFail(r, lands)
  \/ CheckTurnTimeout
  \/ \E g \in Gens : OnGenerationRetired(g)
  \/ AbandonHeld
  \/ \E why \in {"generation-retired", "manual"} : HostClose(why)
  \/ HostReopen
  \/ HostRepair

CoSpec == CoInit /\ [][CoNext]_dispatchVars

-------------------------------------------------------------------------------
(* Properties *)

Registered == command # NoCommand

\* The code says of a slot without its registration that it cannot occur
\* through the public methods, and keeps a branch for it: a slot always belongs
\* to the present registration, so a dead turn never blocks a later time-out.
SlotOwned == slot # NoKey => slot = command.key

\* The gate and the coordinator never speak of different turns.
SameTurn ==
  Registered /\ gate.kind \in {"in-flight", "settling"} => gate.intent = command.key.intent

\* Of a turn that was settled every buffered event has been handed over, no event
\* is handed over twice, and the buffered ones keep their order.  An event that is
\* handed over at once, while the run is open, overtakes no buffered one, unless
\* the turn's agent_settled was buffered too: then the buffer waits for its line.
BufferDeliveredWhole ==
  /\ command.phase = "run-open" /\ ~command.bufSettled => command.buf = << >>
  /\ \A h \in held : h[2] \in released => \E n \in DOMAIN drained : drained[n] = h[1]
  /\ \A m, n \in DOMAIN drained : m < n => drained[m] < drained[n]

\* A registration disappears only with the evidence of a settle or because the
\* host retired or abandoned it; a call that outlived its turn changes nothing.
DropIsJustified ==
  [][Registered /\ command' = NoCommand =>
       coEpoch' = coEpoch + 1 \/ "settled" \in acked[command.key.intent]]_dispatchVars

===============================================================================
