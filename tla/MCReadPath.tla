------------------------------ MODULE MCReadPath ------------------------------
EXTENDS ReadPath

CONSTANTS c1, c2
MCConns == {c1, c2}
MCClients == {c1}
\* A file that changes under one page, and under two, and twice under one; a process
\* that asks a page twice, that asks a page which comes back, and that asks two pages.
Feed == [conns |-> {c1}, rows |-> << 1, 2 >>, edits |-> 1, requests |-> 2, drops |-> 1,
         asks |-> 0, gens |-> 0]
Both == [Feed EXCEPT !.conns = MCConns, !.requests = 1]
Quiet == [Feed EXCEPT !.rows = << 1 >>, !.edits = 0, !.asks = 2, !.gens = 1]
Lives == [Quiet EXCEPT !.requests = 1, !.gens = 2]
Returns == [Quiet EXCEPT !.drops = 0, !.asks = 1]
Shared == [Quiet EXCEPT !.conns = MCConns, !.requests = 1, !.asks = 1, !.drops = 0]
Twice == [Feed EXCEPT !.rows = << 1 >>, !.edits = 2, !.requests = 1, !.drops = 0]
MCBounds == {Feed, Both, Twice, Lives, Returns, Shared}
MCTwice == {Twice}
===============================================================================
