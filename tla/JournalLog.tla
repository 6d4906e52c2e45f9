------------------------------ MODULE JournalLog ------------------------------
(* What the journal file of a session is, seen from outside: a log that one    *)
(* server process at a time may extend.  A process takes it over by swearing   *)
(* an oath with a higher epoch than any before; from then on every row is      *)
(* its own, until the next oath.  A torn row ends the log until it is mended.  *)
EXTENDS Naturals, Sequences

CONSTANTS
  Boots,  \* server processes; each has its own bootId
  NoBoot  \* the writer of rows from before oaths existed

VARIABLE journal

Rows == [kind : {"oath", "row", "torn"}, by : Boots \cup {NoBoot}, epoch : Nat]
Oath(b, e) == [kind |-> "oath", by |-> b, epoch |-> e]
Row(b) == [kind |-> "row", by |-> b, epoch |-> 0]
Torn(b) == [kind |-> "torn", by |-> b, epoch |-> 0]

Oaths(j) == {i \in 1 .. Len(j) : j[i].kind = "oath"}
\* b is the process that swore last.
Owns(b, j) ==
  \E i \in Oaths(j) : j[i].by = b /\ \A k \in Oaths(j) : k <= i
Intact(j) == \A i \in 1 .. Len(j) : j[i].kind # "torn"

\* A file that is new, or holds a row of the time without oaths, or its torn end.
LogInit == journal \in {<< >>, << Row(NoBoot) >>, << Torn(NoBoot) >>}

Swear(b) ==
  /\ Intact(journal)
  /\ \A i \in Oaths(journal) : journal[i].by # b
  /\ \E e \in 1 .. Len(journal) + 1 :
       /\ \A i \in Oaths(journal) : journal[i].epoch < e
       /\ journal' = Append(journal, Oath(b, e))

Write(b) ==
  /\ Intact(journal)
  /\ Owns(b, journal)
  /\ journal' = Append(journal, Row(b))

\* A row or an oath that did not get on disk whole.
Tear(b) ==
  /\ Intact(journal)
  /\ journal' = Append(journal, Torn(b))

LogNext == \E b \in Boots : Swear(b) \/ Write(b) \/ Tear(b)

LogSpec == LogInit /\ [][LogNext]_journal
===============================================================================
