---------------------------- MODULE DurabilityPort ----------------------------
(* The contract of the journal's durability port, the interface that turn-gate *)
(* and dispatch-coordinator write through: append(line) resolves once the line *)
(* is on disk; a rejected append leaves the outcome open (the line may be in   *)
(* the file, whole, and survive) and, until somebody repairs the tail, closes  *)
(* the journal to every later line.                                            *)
EXTENDS Naturals, Sequences

CONSTANT Lines  \* the lines that are ever appended, each once

VARIABLES
  landed,  \* the whole lines in the file, in file order
  answer,  \* answer[l]: what the caller of append(l) has been told
  sealed   \* no further line may land

portVars == << landed, answer, sealed >>

Answers == {"none", "waiting", "ok", "rejected"}
Present == {landed[i] : i \in 1 .. Len(landed)}

PortInit ==
  /\ landed = << >>
  /\ answer = [l \in Lines |-> "none"]
  /\ sealed = FALSE

\* append(l) is taken, or turned away at once.
Ask(l) ==
  /\ answer[l] = "none"
  /\ \E a \in {"waiting", "rejected"} : answer' = [answer EXCEPT ![l] = a]
  /\ UNCHANGED << landed, sealed >>

Land(l) ==
  /\ ~sealed
  /\ answer[l] = "waiting"
  /\ l \notin Present
  /\ landed' = Append(landed, l)
  /\ UNCHANGED << answer, sealed >>

Confirm(l) ==
  /\ ~sealed
  /\ answer[l] = "waiting"
  /\ l \in Present
  /\ answer' = [answer EXCEPT ![l] = "ok"]
  /\ UNCHANGED << landed, sealed >>

Reject(l) ==
  /\ answer[l] = "waiting"
  /\ answer' = [answer EXCEPT ![l] = "rejected"]
  /\ sealed' = TRUE
  /\ UNCHANGED landed

\* The machine goes down: whatever was not confirmed may be gone.
Forget ==
  /\ \E n \in 0 .. Len(landed) :
       /\ landed' = SubSeq(landed, 1, n)
       /\ \A i \in n + 1 .. Len(landed) : answer[landed[i]] # "ok"
  /\ sealed' = TRUE
  /\ UNCHANGED answer

\* Somebody has made the tail safe to append to.
Repair ==
  /\ sealed' = FALSE
  /\ UNCHANGED << landed, answer >>

PortNext ==
  \/ \E l \in Lines : Ask(l) \/ Land(l) \/ Confirm(l) \/ Reject(l)
  \/ Forget
  \/ Repair

PortSpec == PortInit /\ [][PortNext]_portVars
===============================================================================
