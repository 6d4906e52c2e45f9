-------------------------- MODULE ProcessSupervisor --------------------------
(***************************************************************************)
(* The process supervisor: packages/protocol/src/process-supervisor.ts.    *)
(*                                                                         *)
(* It owns the pi process of a session.  Processes are numbered by         *)
(* generation; a new one may be spawned only when the exit of the previous *)
(* one is known, because two pi processes writing one session file would   *)
(* corrupt it.  A hand-over (EOF, SIGTERM, SIGKILL, each followed by a     *)
(* wait) is an asynchronous method: `handover' holds where its continuation*)
(* is suspended, and the exit may be observed, and a successor spawned,    *)
(* before that continuation runs again.                                    *)
(*                                                                         *)
(* The operating system is part of the model: a process dies whenever it   *)
(* likes, surely after SIGKILL, and the `exit' event comes some time later.*)
(***************************************************************************)
EXTENDS Generations

VARIABLES
  phase,           \* ProcessSupervisor.phase
  current,         \* generation of ProcessSupervisor.current, 0 for null
  nextGeneration,  \* ProcessSupervisor.nextGeneration
  os,              \* os[g]: the process itself
  killed,          \* living generations SIGKILL was sent to
  seen,            \* generations whose exit event was handled (entry.exit # null)
  retired,         \* generations with entry.retired
  handover         \* handover[g]: what the retire continuation of g waits for

supVars == << phase, current, nextGeneration, os, killed, seen, retired, handover >>

SupPhases == {"idle", "running", "stopping"}
Waits == {"none", "eof", "term", "kill"}

SupTypeOK ==
  /\ phase \in SupPhases
  /\ nextGeneration \in 0 .. MaxGen
  /\ current \in 0 .. nextGeneration
  /\ os \in [Gens -> {"unborn", "alive", "dead"}]
  /\ killed \subseteq Gens
  /\ seen \subseteq Gens
  /\ retired \subseteq Gens
  /\ handover \in [Gens -> Waits]

SupInit ==
  /\ phase = "idle"
  /\ current = 0
  /\ nextGeneration = 0
  /\ os = [g \in Gens |-> "unborn"]
  /\ killed = {}
  /\ seen = {}
  /\ retired = {}
  /\ handover = [g \in Gens |-> "none"]

-------------------------------------------------------------------------------
\* Mutant: a new process is admitted as soon as the old one is being stopped.
MaySpawnWhileStopping == phase # "running" /\ nextGeneration < MaxGen
\* Serial hand-over: spawn only from idle.
MaySpawn == phase = "idle" /\ nextGeneration < MaxGen

\* spawnNext(): the process starts.
SpawnOk ==
  /\ MaySpawn
  /\ nextGeneration' = nextGeneration + 1
  /\ current' = nextGeneration'
  /\ phase' = "running"
  /\ os' = [os EXCEPT ![nextGeneration'] = "alive"]
  /\ UNCHANGED << killed, seen, retired, handover >>

\* spawnNext(): host.spawn throws, no process came into being.
SpawnThrows ==
  /\ MaySpawn
  /\ nextGeneration' = nextGeneration + 1
  /\ retired' = retired \cup {nextGeneration'}
  /\ current' = 0
  /\ phase' = "idle"
  /\ UNCHANGED << os, killed, seen, handover >>

\* spawnNext(): onExit is called before host.spawn returns.
SpawnExitsAtOnce ==
  /\ MaySpawn
  /\ nextGeneration' = nextGeneration + 1
  /\ os' = [os EXCEPT ![nextGeneration'] = "dead"]
  /\ seen' = seen \cup {nextGeneration'}
  /\ retired' = retired \cup {nextGeneration'}
  /\ current' = 0
  /\ phase' = "idle"
  /\ UNCHANGED << killed, handover >>

\* The process dies, of itself or of a signal.
OsExit(g) ==
  /\ os[g] = "alive"
  /\ os' = [os EXCEPT ![g] = "dead"]
  /\ killed' = killed \ {g}
  /\ UNCHANGED << phase, current, nextGeneration, seen, retired, handover >>

\* Mutant: the idle state is restored whoever is current.
ToIdleAlways(g) == current' = 0 /\ phase' = "idle"
\* toIdle(): only if the entry is still the current one.
ToIdle(g) ==
  IF current = g THEN current' = 0 /\ phase' = "idle" ELSE UNCHANGED << current, phase >>

\* Mutant: an exit nobody asked for is only recorded.
OnExitOnlyStopping(g) ==
  /\ os[g] = "dead"
  /\ g \notin seen
  /\ seen' = seen \cup {g}
  /\ IF current = g /\ phase = "stopping"
     THEN retired' = retired \cup {g} /\ current' = 0 /\ phase' = "idle"
     ELSE UNCHANGED << retired, current, phase >>
  /\ UNCHANGED << nextGeneration, os, killed, handover >>
\* onExit(): the first exit event of the generation; the current one retires,
\* whether it was asked to stop or not.
OnExit(g) ==
  /\ os[g] = "dead"
  /\ g \notin seen
  /\ seen' = seen \cup {g}
  /\ retired' = IF current = g THEN retired \cup {g} ELSE retired
  /\ ToIdle(g)
  /\ UNCHANGED << nextGeneration, os, killed, handover >>

\* retireCurrent() and retireCurrentGraceful() up to their first wait.
BeginRetire(first) ==
  /\ first \in {"eof", "term"}
  /\ phase = "running"
  /\ handover[current] = "none"
  /\ phase' = "stopping"
  /\ handover' = [handover EXCEPT ![current] = first]
  /\ UNCHANGED << current, nextGeneration, os, killed, seen, retired >>

\* A wait ended with the exit known: finalizeRetire() and toIdle().
Confirmed(g) ==
  /\ g \in seen
  /\ retired' = retired \cup {g}
  /\ ToIdle(g)
  /\ handover' = [handover EXCEPT ![g] = "none"]
  /\ UNCHANGED << nextGeneration, os, killed, seen >>

\* The EOF grace ended: done, or SIGTERM.
EofElapsed(g) ==
  /\ handover[g] = "eof"
  /\ \/ Confirmed(g)
     \/ /\ g \notin seen
        /\ handover' = [handover EXCEPT ![g] = "term"]
        /\ UNCHANGED << phase, current, nextGeneration, os, killed, seen, retired >>

\* Mutant: no SIGKILL after the grace of SIGTERM.
SignalNone(g) == killed
\* stopSignal(SIGKILL).
SignalKill(g) == IF os[g] = "alive" THEN killed \cup {g} ELSE killed

\* The SIGTERM grace ended: done, or SIGKILL.
TermElapsed(g) ==
  /\ handover[g] = "term"
  /\ \/ Confirmed(g)
     \/ /\ g \notin seen
        /\ handover' = [handover EXCEPT ![g] = "kill"]
        /\ killed' = SignalKill(g)
        /\ UNCHANGED << phase, current, nextGeneration, os, seen, retired >>

\* Mutant: the deadline is taken for the exit.
KillElapsedGivesUp(g) ==
  /\ handover[g] = "kill"
  /\ retired' = retired \cup {g}
  /\ ToIdle(g)
  /\ handover' = [handover EXCEPT ![g] = "none"]
  /\ UNCHANGED << nextGeneration, os, killed, seen >>
\* The deadline passed: done, or give up and stay stopping until the exit comes.
KillElapsed(g) ==
  /\ handover[g] = "kill"
  /\ \/ Confirmed(g)
     \/ /\ g \notin seen
        /\ handover' = [handover EXCEPT ![g] = "none"]
        /\ UNCHANGED << phase, current, nextGeneration, os, killed, seen, retired >>

RetireResumes(g) == EofElapsed(g) \/ TermElapsed(g) \/ KillElapsed(g)

SupNext ==
  \/ SpawnOk
  \/ SpawnThrows
  \/ SpawnExitsAtOnce
  \/ \E g \in Gens : OsExit(g)
  \/ \E g \in Gens : OnExit(g)
  \/ \E first \in {"eof", "term"} : BeginRetire(first)
  \/ \E g \in Gens : EofElapsed(g)
  \/ \E g \in Gens : TermElapsed(g)
  \/ \E g \in Gens : KillElapsed(g)

\* The kernel delivers SIGKILL and the exit event; every timer fires.
SupFairness ==
  \A g \in Gens :
    /\ WF_supVars(g \in killed /\ OsExit(g))
    /\ WF_supVars(OnExit(g))
    /\ WF_supVars(RetireResumes(g))

SupSpec == SupInit /\ [][SupNext]_supVars
SupLiveSpec == SupSpec /\ SupFairness

-------------------------------------------------------------------------------
(* Properties *)

\* A living process is the one the supervisor holds: no second writer of the
\* session file, and no process that nobody can signal any more.
NoOrphan == \A g \in Gens : os[g] = "alive" => current = g

\* The supervisor is idle exactly when it holds no generation, and what it holds
\* is not retired: nothing is routed to or written for a retired process.
HoldsLiveEntry == (phase = "idle") = (current = 0) /\ current \notin retired

\* A hand-over that wakes up after its generation has gone does not touch the
\* successor.
LateHandoverHarmless ==
  [][\A g \in Gens :
       handover'[g] # handover[g] /\ handover[g] # "none" /\ current # g =>
         UNCHANGED << phase, current >>]_supVars

\* Only the exit of the current process, or a failed spawn, makes the supervisor
\* idle again; the deadline of a hand-over does not.
IdleNeedsExit ==
  [][phase # "idle" /\ phase' = "idle" => current \in seen']_supVars

\* A hand-over ends: the session can start a process again.
HandoverEnds == (phase = "stopping") ~> (phase # "stopping")

\* Each death is noticed: the supervisor does not keep a dead process for ever.
DeathNoticed == \A g \in Gens : (os[g] = "dead") ~> (current # g)

===============================================================================
