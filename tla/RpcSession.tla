------------------------------ MODULE RpcSession ------------------------------
(***************************************************************************)
(* One session of the server: apps/server/src/runtime/rpc-session.ts wiring*)
(* the turn gate, the dispatch coordinator and the process supervisor, and *)
(* the pi process at the other end of the pipes.                           *)
(*                                                                         *)
(* A `send' is one call of RpcSession.send(); the intent it will submit    *)
(* names the call.  Everything the parts do in one synchronous segment is  *)
(* one action here, so an exit retires the generation, drops the turn and  *)
(* closes the gate in a single step, and what may happen between two       *)
(* awaits may happen between two actions.                                  *)
(*                                                                         *)
(* pi is external: it answers a prompt it received at most once, says      *)
(* agent_settled at most once, after which it runs nothing for that prompt.*)
(***************************************************************************)
EXTENDS DispatchCoordinator, ProcessSupervisor

VARIABLES
  readyGen,  \* RpcSession.readyGeneration, 0 for null
  probe,     \* probe[g]: the readiness operation of generation g
  sendPc,    \* sendPc[i]: where the send() call of i stands
  sendGen,   \* sendGen[i]: the generation that call works with
  stops,     \* generations a stop() call is waiting for
  received,  \* prompts written to stdin that the pi process has read
  piSettled  \* prompts pi has settled

sessionVars == << readyGen, probe, sendPc, sendGen, stops, received, piSettled >>
rpcVars == << gateVars, coVars, supVars, sessionVars >>

ProbeStates == {"none", "waiting", "ok", "failed"}
SendStates == {"new", "starting", "retiring", "restarted", "submitting", "launched", "done"}

SessionTypeOK ==
  /\ GateTypeOK /\ CoTypeOK /\ SupTypeOK
  /\ readyGen \in 0 .. MaxGen
  /\ probe \in [Gens -> ProbeStates]
  /\ sendPc \in [Intents -> SendStates]
  /\ sendGen \in [Intents -> 0 .. MaxGen]
  /\ stops \subseteq Gens
  /\ received \subseteq Keys
  /\ piSettled \subseteq Intents

RpcInit ==
  /\ CoInit
  /\ SupInit
  /\ readyGen = 0
  /\ probe = [g \in Gens |-> "none"]
  /\ sendPc = [i \in Intents |-> "new"]
  /\ sendGen = [i \in Intents |-> 0]
  /\ stops = {}
  /\ received = {}
  /\ piSettled = {}

-------------------------------------------------------------------------------
SendKey(i) == [intent |-> i, gen |-> sendGen[i]]
SendAt(i, pc, g) ==
  /\ sendPc' = [sendPc EXCEPT ![i] = pc]
  /\ sendGen' = [sendGen EXCEPT ![i] = g]
SendMoves(i, pc) == SendAt(i, pc, sendGen[i])
Returns(i) == SendAt(i, "done", 0)

Engaged == gate.kind \in {"dispatching", "in-flight", "settling"}
Canceled(g) == [probe EXCEPT ![g] = IF @ = "waiting" THEN "failed" ELSE @]

\* Mutant: finalizeRetire() leaves the gate alone.
RetireGateKept == UNCHANGED gateVars
\* finalizeRetire() closes a gate that is engaged.
RetireGate == IF Engaged THEN Close("generation-retired") ELSE UNCHANGED gateVars

\* Mutant: finalizeRetire() leaves the registered turn to a settle to come.
RetireCommandKept(g) == UNCHANGED << command, coEpoch, slot >>
\* coordinator.onGenerationRetired().
RetireCommand(g) ==
  IF command.key.gen = g THEN DropCommand ELSE UNCHANGED << command, coEpoch, slot >>

\* finalizeRetire() and onGenerationEnded, the first time g is retired.
Finalize(g) ==
  IF retired' # retired
  THEN RetireCommand(g) /\ RetireGate /\ probe' = Canceled(g)
  ELSE UNCHANGED << gateVars, command, coEpoch, slot, probe >>

-------------------------------------------------------------------------------
(* The pi process and the operating system *)

ProcessDies(g) == OsExit(g) /\ UNCHANGED << gateVars, coVars, sessionVars >>

ProcessExit(g) ==
  /\ OnExit(g)
  /\ Finalize(g)
  /\ UNCHANGED << launching, settles, records, released, arrived, held, drained,
                  readyGen, sendPc, sendGen, stops, received, piSettled >>

\* routeEvent(): only from the current, not retired process.
RouteOpen(g) == current = g /\ g \notin retired

\* pi answers a prompt with success.  A failure, a late or a repeated answer
\* leaves no trace, so those are no actions.
PiAnswers(k) ==
  /\ k \in received
  /\ RouteOpen(k.gen)
  /\ OnRpcResponse(k)
  /\ UNCHANGED << supVars, sessionVars >>

\* An event of the running prompt; room is kept for every agent_settled to come.
PiSpeaks(k) ==
  /\ k \in received
  /\ k.intent \notin piSettled
  /\ RouteOpen(k.gen)
  /\ arrived + Cardinality(Intents \ piSettled) < MaxEvents
  /\ OnPiEvent(k.gen)
  /\ UNCHANGED << supVars, sessionVars >>

WithEvent(cmd) == IF BufferFull THEN cmd ELSE Buffered(cmd, arrived')

\* agent_settled goes first to onPiEvent, then to onSettledEvent.
SettledArrives ==
  /\ arrived' = arrived + 1
  /\ \/ /\ command.phase = "run-open"
        /\ IF command.bufSettled THEN UNCHANGED << gateVars, settles >> ELSE BeginSettle(command.key)
        /\ UNCHANGED << command, held >>
     \/ /\ command.phase \in {"awaiting-response", "response-timed-out"}
        /\ command' = [WithEvent(command) EXCEPT
                         !.bufSettled = @ \/ command.phase = "awaiting-response"]
        /\ held' = IF BufferFull THEN held ELSE held \cup {<< arrived', command.key >>}
        /\ \/ /\ BufferFull
              /\ Close("buffer-overflow")
              /\ settles' = IF command.phase = "awaiting-response" THEN settles
                            ELSE settles \cup {[key |-> command.key, epoch |-> coEpoch,
                                                result |-> "not-in-flight"]}
           \/ /\ ~BufferFull
              /\ IF command.phase = "awaiting-response" THEN UNCHANGED << gateVars, settles >>
                 ELSE BeginSettle(command.key)
  /\ UNCHANGED << coEpoch, slot, launching, records, released, drained >>

\* pi settles a prompt.  What it says just before it dies may be read from its
\* stdout after the exit was handled; then routeEvent() drops it.
PiSettles(k) ==
  /\ k \in received
  /\ k.intent \notin piSettled
  /\ piSettled' = piSettled \cup {k.intent}
  /\ \/ /\ RouteOpen(k.gen)
        /\ arrived < MaxEvents
        /\ IF command.key.gen = k.gen THEN SettledArrives ELSE UNCHANGED << gateVars, coVars >>
     \/ /\ ~RouteOpen(k.gen)
        /\ UNCHANGED << gateVars, coVars >>
  /\ UNCHANGED << supVars, readyGen, probe, sendPc, sendGen, stops, received >>

-------------------------------------------------------------------------------
(* Readiness, start and stop *)

\* probeReadiness(): get_state answered while the process is current and running.
ProbeOk(g) ==
  /\ probe[g] = "waiting"
  /\ current = g /\ phase = "running"
  /\ probe' = [probe EXCEPT ![g] = "ok"]
  /\ readyGen' = g
  /\ UNCHANGED << gateVars, coVars, supVars, sendPc, sendGen, stops, received, piSettled >>

\* probeReadiness(): timed out, refused, or the write failed.
ProbeFails(g) ==
  /\ probe[g] = "waiting"
  /\ probe' = [probe EXCEPT ![g] = "failed"]
  /\ UNCHANGED << gateVars, coVars, supVars, readyGen, sendPc, sendGen, stops, received, piSettled >>

\* start() reopens a closed gate.
StartGate == IF gate.kind = "closed" THEN Reopen ELSE UNCHANGED gateVars

\* send() with no process: start() up to its wait for readiness.
SendStarts(i) ==
  /\ sendPc[i] = "new"
  /\ phase = "idle"
  /\ StartGate
  /\ \/ /\ SpawnOk
        /\ probe' = [probe EXCEPT ![nextGeneration'] = "waiting"]
        /\ SendAt(i, "starting", nextGeneration')
     \/ /\ SpawnThrows \/ SpawnExitsAtOnce
        /\ Returns(i)
        /\ UNCHANGED probe
  /\ UNCHANGED << coVars, readyGen, stops, received, piSettled >>

\* start() resumes after the readiness operation ended.
StartResumes(i) ==
  /\ sendPc[i] = "starting"
  /\ probe[sendGen[i]] \in {"ok", "failed"}
  /\ IF current # sendGen[i] \/ phase # "running"
     THEN Returns(i) /\ UNCHANGED supVars
     ELSE IF readyGen = sendGen[i]
     THEN SendMoves(i, "restarted") /\ UNCHANGED supVars
     ELSE BeginRetire("term") /\ SendMoves(i, "retiring")
  /\ UNCHANGED << gateVars, coVars, readyGen, probe, stops, received, piSettled >>

\* start() returns once the retirement it began has ended.
StartGivesUp(i) ==
  /\ sendPc[i] = "retiring"
  /\ handover[sendGen[i]] = "none"
  /\ Returns(i)
  /\ UNCHANGED << gateVars, coVars, supVars, readyGen, probe, stops, received, piSettled >>

\* stop(): cancel the readiness wait, begin the retirement.
Stop ==
  /\ BeginRetire("term")
  /\ probe' = Canceled(current)
  /\ stops' = stops \cup {current}
  /\ UNCHANGED << gateVars, coVars, readyGen, sendPc, sendGen, received, piSettled >>

\* IdleReaper.tick(): the process runs, the gate is idle and the time is up.
Reap ==
  /\ gate = Idle
  /\ BeginRetire("eof")
  /\ UNCHANGED << gateVars, coVars, sessionVars >>

\* The continuation of a retirement; stop() then forgets the ready generation.
RetireGoesOn(g) ==
  /\ RetireResumes(g)
  /\ Finalize(g)
  /\ IF handover'[g] = "none"
     THEN /\ stops' = stops \ {g}
          /\ readyGen' = IF g \in stops /\ g \in seen /\ readyGen = g THEN 0 ELSE readyGen
     ELSE UNCHANGED << stops, readyGen >>
  /\ UNCHANGED << launching, settles, records, released, arrived, held, drained,
                  sendPc, sendGen, received, piSettled >>

-------------------------------------------------------------------------------
(* Sending *)

MaySubmit == current # 0 /\ phase = "running" /\ readyGen = current

\* send() past the start: submit the turn, or return.
SendSubmits(i) ==
  /\ \/ sendPc[i] = "new" /\ phase # "idle"
     \/ sendPc[i] = "restarted"
  /\ IF MaySubmit /\ command = NoCommand /\ gate = Idle
     THEN /\ SubmitTurn(i, current)
          /\ SendAt(i, "submitting", current)
     ELSE Returns(i) /\ UNCHANGED << gateVars, coVars >>
  /\ UNCHANGED << supVars, readyGen, probe, stops, received, piSettled >>

\* A send whose submitTurn got no permit returns with it.
SendsFollow ==
  LET back == {i \in Intents : sendPc[i] = "submitting" /\ \A l \in launching' : l.key.intent # i}
  IN /\ sendPc' = [i \in Intents |-> IF i \in back THEN "done" ELSE sendPc[i]]
     /\ sendGen' = [i \in Intents |-> IF i \in back THEN 0 ELSE sendGen[i]]

JournalOk(c) ==
  /\ GateAppendOk(c)
  /\ SendsFollow
  /\ UNCHANGED << supVars, readyGen, probe, stops, received, piSettled >>

JournalFails(c, lands) ==
  /\ GateAppendFail(c, lands)
  /\ SendsFollow
  /\ UNCHANGED << supVars, readyGen, probe, stops, received, piSettled >>

SendLaunches(l) ==
  /\ LaunchResume(l)
  /\ IF PermitFresh(l.key) THEN SendMoves(l.key.intent, "launched") ELSE Returns(l.key.intent)
  /\ UNCHANGED << supVars, readyGen, probe, stops, received, piSettled >>

\* supervisor.submitTurn(): everything the permit rested on still holds.
FirstByteValid(k) ==
  /\ phase = "running" /\ current = k.gen /\ k.gen \notin retired
  /\ command.key = k
  /\ PermitFresh(k)

\* The first byte: written and read by pi, written and lost, or withheld.
FirstByte(i) ==
  /\ sendPc[i] = "launched"
  /\ Returns(i)
  /\ IF FirstByteValid(SendKey(i))
     THEN \/ os[current] = "alive" /\ received' = received \cup {SendKey(i)}
          \/ UNCHANGED received
     ELSE UNCHANGED received
  /\ UNCHANGED << gateVars, coVars, supVars, readyGen, probe, stops, piSettled >>

Settle(s) == SettleResume(s) /\ UNCHANGED << supVars, sessionVars >>

\* The poll timer.  While the journal stays broken the code records and closes
\* again at every poll; the bound on closes keeps enough epochs in reserve for
\* every retirement, restart and overflow still to come.
Overflows == MaxEvents - (IF arrived < MaxBuffered THEN MaxBuffered ELSE arrived)
Reserve == 2 * (MaxGen - nextGeneration) + 1 + Overflows + Cardinality(records)
PollResponse ==
  /\ opEpoch + Reserve < MaxEpoch
  /\ RecordTimeout
  /\ UNCHANGED << supVars, sessionVars >>
PollTurn == CheckTurnTimeout /\ UNCHANGED << supVars, sessionVars >>
RecordLands(r) == RecordOk(r) /\ UNCHANGED << supVars, sessionVars >>
RecordLost(r, lands) == RecordFail(r, lands) /\ UNCHANGED << supVars, sessionVars >>

RpcNext ==
  \/ \E i \in Intents : SendStarts(i) \/ StartResumes(i) \/ StartGivesUp(i)
                        \/ SendSubmits(i) \/ FirstByte(i)
  \/ \E c \in pending : JournalOk(c)
  \/ \E c \in pending, lands \in BOOLEAN : JournalFails(c, lands)
  \/ \E l \in launching : SendLaunches(l)
  \/ \E s \in settles : Settle(s)
  \/ PollResponse
  \/ PollTurn
  \/ \E r \in records : RecordLands(r)
  \/ \E r \in records, lands \in BOOLEAN : RecordLost(r, lands)
  \/ \E k \in received : PiAnswers(k)
  \/ \E k \in received : PiSpeaks(k)
  \/ \E k \in received : PiSettles(k)
  \/ \E g \in Gens : ProbeOk(g) \/ ProbeFails(g) \/ ProcessDies(g) \/ ProcessExit(g)
                     \/ RetireGoesOn(g)
  \/ Stop
  \/ Reap

RpcSpec == RpcInit /\ [][RpcNext]_rpcVars

\* Continuations run, timers fire, the disk answers, SIGKILL kills.
RpcFairness ==
  /\ \A i \in Intents :
       WF_rpcVars(StartResumes(i)) /\ WF_rpcVars(StartGivesUp(i)) /\ WF_rpcVars(FirstByte(i))
  /\ \A i \in Intents : WF_rpcVars(sendPc[i] = "restarted" /\ SendSubmits(i))
  /\ WF_rpcVars(\E c \in pending : JournalOk(c) \/ \E lands \in BOOLEAN : JournalFails(c, lands))
  /\ WF_rpcVars(\E l \in launching : SendLaunches(l))
  /\ WF_rpcVars(\E s \in settles : Settle(s))
  /\ WF_rpcVars(PollResponse)
  /\ WF_rpcVars(\E r \in records : RecordLands(r) \/ \E lands \in BOOLEAN : RecordLost(r, lands))
  /\ \A g \in Gens :
       /\ WF_rpcVars(ProbeFails(g))
       /\ WF_rpcVars(g \in killed /\ ProcessDies(g))
       /\ WF_rpcVars(ProcessExit(g))
       /\ WF_rpcVars(RetireGoesOn(g))

RpcLiveSpec == RpcSpec /\ RpcFairness

-------------------------------------------------------------------------------
(* Properties *)

\* No process, no turn: when the supervisor may spawn, nothing of an earlier
\* generation is registered or engaged, so a restarted session can always submit.
IdleIsClean == phase = "idle" => command = NoCommand /\ ~Engaged

\* pi never executes two prompts of a session at once: of two prompts read, one is
\* durably settled or its process is dead.
Over(k) == "settled" \in acked[k.intent] \/ os[k.gen] = "dead"
OnePromptAtATime == \A k, m \in received : k # m => Over(k) \/ Over(m)

\* A settled line in the file, and a completion told to the host, are always about
\* the prompt pi settled, although agent_settled carries no id.
AttributionSound ==
  /\ \A i \in Intents : "settled" \in landed[i] => i \in piSettled
  /\ \A k \in released : k.intent \in piSettled

\* What pi reads was journalled before as about to be sent, with the append
\* acknowledged, so recovery never takes an executed prompt for an unsent one.
FirstByteJournalled ==
  \A k \in received : {"enqueue", "sending"} \subseteq acked[k.intent]


\* A turn pi has settled is reported as settled, even when its response never
\* comes, unless the gate closes on it or its process has gone, or was given up,
\* before the session could read so much.
CompletionReported ==
  \A i \in Intents :
    (i \in piSettled) ~> (\/ \E k \in released : k.intent = i
                          \/ gate.kind = "closed"
                          \/ \E k \in received : k.intent = i /\ ~RouteOpen(k.gen))

\* A turn behind a closed gate (its time is up, its buffer is full, or a line of it
\* was not written) is held as long as its process is, and no send reopens the gate
\* under it.  A stop gets it out of the way: the session may start again, with no
\* registration, no time-out slot and no call of the old turn that could still come
\* back to the new one.
HeldBehindClosedGate == Registered /\ gate.kind = "closed"
StopFrees ==
  (phase = "stopping" /\ HeldBehindClosedGate) ~>
    /\ phase = "idle" /\ ~Registered /\ ~Engaged /\ slot = NoKey
    /\ settles = {} /\ records = {}

===============================================================================
